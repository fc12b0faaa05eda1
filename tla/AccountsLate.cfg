\* An account comes up between the issue of an invite and its redemption.
SPECIFICATION Spec
CONSTANTS
    t1 = t1  t2 = t2  u1 = u1  u2 = u2  m1 = m1  m2 = m2  n1 = n1  n2 = n2  a1 = a1
    i1 = i1  r1 = r1  r2 = r2  p1 = p1
    Token = {t1}
    User = {u1, u2}
    Email = {m1}
    Name = {n1}
    App = {a1}
    Role <- OneRank
    RoleLess = {}
    Grants <- OneList
    Issuer = {i1}
    Redeem = {r1}
    Importer = {p1}
    NameIsUnique = FALSE
    Ttl = 0
    Keep = 0
    MaxTime = 0
    Null = Null
INVARIANTS
    LateAccountRejected
