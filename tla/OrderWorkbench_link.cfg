SPECIFICATION Spec
CONSTANTS
    Orders = {a, b}
    Split = {a}
    Imported = {b}
    Statuses = {"waiting_info", "waiting_payment", "paid"}
    Sections = {"customer"}
    Versions = {0, 1}
    None = None
    Patient = FALSE
    MaxRequests = 4
    MaxLosses = 0
    MaxOthers = 0
    MaxVisits = 2
INVARIANTS
    CopiedIsOwn
CHECK_DEADLOCK FALSE
