\* Two calls that record refreshes of one user at one app at once.
SPECIFICATION Spec
CONSTANTS
    e1 = e1  e2 = e2  e3 = e3  u1 = u1  u2 = u2  c1 = c1  c2 = c2  p1 = p1  p2 = p2
    Event = {e1, e2}
    User = {u1}
    Client = {c1}
    Recorder = {p1, p2}
    Window = 2
    Day = 2
    DefaultDays = 2
    NaN = NaN
    Raw <- Settings
    MaxTime = 2
    Null = Null
INVARIANTS
    OneRowPerWindow
