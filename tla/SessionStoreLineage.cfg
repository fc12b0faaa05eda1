\* A reset while a refresh of the same user is in flight.
SPECIFICATION Spec
CONSTANTS
    t1 = t1  t2 = t2  t3 = t3  p1 = p1  p2 = p2  d1 = d1  u1 = u1  c1 = c1
    Token = {t1, t2, t3}
    User = {u1}
    Client = {c1}
    Proc = {p1}
    Resetter = {d1}
    Ttl = 2
    Grace = 1
    Keep = 0
    Purge = 1
    Skew = 0
    MaxTime = 1
    Null = Null
PROPERTIES
    ResetEndsLineage
