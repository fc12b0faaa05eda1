\* One login whose code is exchanged after the access was revoked.  As in the code,
\* the life of a code is longer than the refresh threshold and shorter than the life
\* of an access token.
SPECIFICATION Spec
CONSTANTS
    u1 = u1  u2 = u2  ro1 = ro1  ro2 = ro2
    t1 = t1  t2 = t2  t3 = t3  n1 = n1  n2 = n2  x1 = x1  x2 = x2
    User = {u1}
    Role = {ro1}
    Token = {t1, t2}
    Nonce = {n1}
    Exchange = {x1}
    AccessTtl = 3
    RefreshSkew = 1
    RefreshTtl = 9
    Grace = 0
    CodeTtl = 2
    Delay = 0
    MaxTime = 5
    MaxChanges = 1
    None = None
    Keep = Keep
PROPERTIES
    RevokedWithinTokenLife
