\* Two exchanges of one code, by the right and by a wrong client and with the
\* right and a wrong URI,
\* while access is granted and revoked; a code lapses at 1 and is purged at 2, and
\* goes away in the end (fairness).
SPECIFICATION FairSpec
CONSTANTS
    k1 = k1  k2 = k2  u1 = u1  c1 = c1  c2 = c2  r1 = r1  r2 = r2
    l1 = l1  x1 = x1  x2 = x2
    Code = {k1}
    User = {u1}
    Client = {c1, c2}
    Uri = {r1, r2}
    Login = {l1}
    Exchange = {x1, x2}
    Ttl = 0
    Keep = 0
    MaxTime = 2
    Null = Null
INVARIANTS
    IInv
    OneTokenPerCode
PROPERTIES
    OnlyItsClientEndsACode
    ImplementsOneShot
    CodesGoAway
