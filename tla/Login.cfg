SPECIFICATION MCSpec
CONSTANTS
    Requests = {r1, r2, r3, r4, r5}
    Limit = 2
    Window = 2
    MaxTime = 5
    None = None
    Tabs = {t1, t2}
    Mobile = m
    Login = l
    Passwords = {p}
    MaxRequests = 6
    MaxLosses = 1
    MaxFaults = 1
    MaxVisits = 2
    FewRequests = 4
INVARIANTS
    BlockJustified
    LoginSafe
PROPERTIES
    PendingEnds
CHECK_DEADLOCK FALSE
