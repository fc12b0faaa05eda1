\* Two tabs of one browser, two users, an admin who may be taken off the list.
SPECIFICATION Spec
CONSTANTS
    p1 = p1  p2 = p2  u1 = u1  u2 = u2  g1 = g1
    Tab = {p1, p2}
    User = {u1, u2}
    Range <- Ranges
    DefaultRange = 30
    Account = {g1}
    Nonce <- Nonces
    Ttl = 1
    MaxTime = 1
    MaxEvents = 4
    None = None
    Keep = Keep
SYMMETRY Symmetry
CHECK_DEADLOCK FALSE
INVARIANTS
    IInv
    ShowsCurrent
    SlicesMatch
PROPERTIES
    AdminsAreRecent
    OnlyRivalSignInsFail
