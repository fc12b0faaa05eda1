\* Two redemptions and an import around one email, with expiry; or one request at a
\* time, so that whoever was invited invites in turn.  Usernames are unique.
SPECIFICATION Spec
CONSTANTS
    t1 = t1  t2 = t2  u1 = u1  u2 = u2  m1 = m1  m2 = m2  n1 = n1  n2 = n2  a1 = a1
    i1 = i1  r1 = r1  r2 = r2  p1 = p1
    Token = {t1, t2}
    User = {u1, u2}
    Email = {m1, m2}
    Name = {n1, n2}
    App = {a1}
    Role <- ThreeRanks
    RoleLess = {}
    Grants <- OneList
    Issuer = {i1}
    Redeem = {r1, r2}
    Importer = {p1}
    NameIsUnique = TRUE
    Ttl = 0
    Keep = 0
    MaxTime = 1
    Null = Null
CONSTRAINT Bounded
SYMMETRY Symmetry
INVARIANTS
    IInv
    SignOnIsOwn
    ImportLands
    NoRaceToReject
    NeverAboveGiven
PROPERTIES
    ImplementsOneShot
