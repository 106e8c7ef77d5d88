SPECIFICATION Spec
CONSTANTS
    Tabs = {t1, t2}
    Texts = {empty, full}
    Valid = {full}
    Empty = empty
    Images = {i}
    None = None
    MaxRequests = 3
    MaxLosses = 0
    MaxVisits = 2
INVARIANTS
    DraftRecovered
CHECK_DEADLOCK FALSE
