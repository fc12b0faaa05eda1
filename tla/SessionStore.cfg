\* Two refreshes race each other, a reset, logouts and the cleanup job, whose runs fail
\* now and then.  The database clock is one unit behind: a token rotated at 0 is
\* stamped -1, honoured at 0, refused at 1 by the grace and purged then; one stored at
\* 0 has expired at 2, and its row is purged at 3.
SPECIFICATION FairSpec
CONSTANTS
    t1 = t1  t2 = t2  t3 = t3  p1 = p1  p2 = p2  d1 = d1  u1 = u1  c1 = c1
    Token = {t1, t2, t3}
    User = {u1}
    Client = {c1}
    Proc = {p1, p2}
    Resetter = {d1}
    Ttl = 1
    Grace = 1
    Keep = 0
    Purge = 0
    Skew <- Behind
    MaxTime = 3
    Null = Null
CONSTRAINT Bounded
INVARIANTS
    IInv
    ReplayRefused
PROPERTIES
    TokensOnlyWane
    ImplementsRefreshTokens
    NoGrantAfterRevoke
    RotateEnds
    RotatedRowsPurged
