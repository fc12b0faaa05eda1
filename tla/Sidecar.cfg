\* One login, then two requests at once with one session cookie, over two lives of
\* the access token, with changes of the role and resets; or two logins, perhaps of two
\* users, in two tabs, and refreshes that fail; or one request at a time, until the
\* life of a code and of the token it buys are over.
SPECIFICATION Spec
CONSTANTS
    u1 = u1  u2 = u2  ro1 = ro1  ro2 = ro2
    t1 = t1  t2 = t2  t3 = t3  n1 = n1  n2 = n2  x1 = x1  x2 = x2
    User = {u1, u2}
    Role = {ro1, ro2}
    Token = {t1, t2, t3}
    Nonce = {n1, n2}
    Exchange = {x1, x2}
    AccessTtl = 1
    RefreshSkew = 1
    RefreshTtl = 2
    Grace = 0
    CodeTtl = 1
    Delay = 0
    MaxTime = 3
    MaxChanges = 1
    None = None
    Keep = Keep
SYMMETRY Symmetry
CONSTRAINT Bounded
INVARIANTS
    OneUsersSession
PROPERTIES
    SiblingsSurvive
    RoleIsRecent
    RevokedIsOut
    OnlyRivalsCollide
    LoggedOutIsOut
