SPECIFICATION Spec
CONSTANTS
    Orders = {a, b}
    Split = {a}
    Imported = {b}
    Statuses = {"waiting_info", "waiting_payment", "paid"}
    Sections = {"internal"}
    Versions = {0, 1}
    None = None
    Patient = FALSE
    MaxRequests = 5
    MaxLosses = 0
    MaxOthers = 2
    MaxVisits = 2
INVARIANTS
    SavedIsOwn
CHECK_DEADLOCK FALSE
