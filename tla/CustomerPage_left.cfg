SPECIFICATION Spec
CONSTANTS
    Tabs = {t1}
    Texts = {empty, full}
    Valid = {full}
    Empty = empty
    Images = {i}
    None = None
    MaxRequests = 4
    MaxLosses = 1
    MaxVisits = 2
INVARIANTS
    DraftRemoved
CHECK_DEADLOCK FALSE
