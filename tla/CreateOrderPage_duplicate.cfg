SPECIFICATION Spec
CONSTANTS
    Tabs = {t1}
    Keys = {k1, k2, k3}
    Sales = {p, q}
    None = None
    MaxRequests = 3
    MaxLosses = 1
    MaxUpdates = 1
    MaxMounts = 2
INVARIANTS
    NoDuplicate
CHECK_DEADLOCK FALSE
