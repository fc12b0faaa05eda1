\* Two reset tokens of one user redeemed by two requests, against a sign-in.
\* A token lapses at 1.
SPECIFICATION Spec
CONSTANTS
    t1 = t1  t2 = t2  u1 = u1  r1 = r1  r2 = r2  b1 = b1  b2 = b2
    Token = {t1, t2}
    User = {u1}
    Redeem = {r1, r2}
    Browser = {b1}
    Ttl = 0
    Keep = 0
    MaxTime = 1
    Null = Null
SYMMETRY Symmetry
INVARIANTS
    OldPasswordsAreOut
PROPERTIES
    ImplementsOneShot
    NewCookiesAreCurrent
