\* Two users and two tabs of one browser; the page of a tab that is alone may have two
\* requests under way.  From the first visit on there are four events besides the clock.
SPECIFICATION FairSpec
CONSTANTS
    u1 = u1  u2 = u2  c1 = c1
    User = {u1, u2}
    Tab <- Tabs
    Call = {c1}
    Token <- Tokens
    Nonce <- Nonces
    AccessTtl = 1
    Grace = 0
    MaxTime = 1
    MaxEvents = 4
    MaxAside = 2
    None = None
    Keep = Keep
CHECK_DEADLOCK FALSE
INVARIANT
    IInv
PROPERTIES
    SessionFollowsUser
    StaysSignedIn
    RevokedIsOut
    OnlyRivalLoginsFail
    ComesToRest
