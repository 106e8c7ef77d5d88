SPECIFICATION Spec
CONSTANTS
    Tabs = {t1}
    Mobile = m
    Login = l
    Passwords = {p}
    None = None
    Patient = FALSE
    MaxRequests = 2
    MaxLosses = 0
    MaxFaults = 0
    MaxVisits = 1
INVARIANTS
    StepFits
CHECK_DEADLOCK FALSE
