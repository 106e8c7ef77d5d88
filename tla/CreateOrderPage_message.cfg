SPECIFICATION Spec
CONSTANTS
    Tabs = {t1}
    Keys = {k1, k2, k3}
    Sales = {p, q}
    None = None
    MaxRequests = 1
    MaxLosses = 0
    MaxUpdates = 0
    MaxMounts = 1
INVARIANTS
    MessageMatchesOrder
CHECK_DEADLOCK FALSE
