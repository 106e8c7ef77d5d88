SPECIFICATION Spec
CONSTANTS
    Tabs = {t1}
    Keys = {k1, k2, k3}
    Sales = {p, q}
    None = None
    MaxRequests = 2
    MaxLosses = 0
    MaxUpdates = 0
    MaxMounts = 2
INVARIANTS
    BusyWhilePending
CHECK_DEADLOCK FALSE
