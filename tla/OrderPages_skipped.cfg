SPECIFICATION MCSpec
CONSTANTS
    a = a
    b = b
    None = None
    Settings = {}
    Listed = {1, 2, 3, 4}
    ShopOf <- LastElsewhere
    Due <- Alternating
    ListAmount <- SecondMost
    Texts = {"", "x"}
    Matching <- TwoMatch
    ListStatuses = {"paid", "shipped"}
    FirstListed <- FirstShipped
    PageSize = 1
    Reported = {1, 2, 3}
    Amount <- Amounts
    Products = {1, 2, 3}
    Quantity <- Quantities
    FirstReported <- LastAbsent
    TopLimit = 2
    ListRequests = 4
    ListLosses = 0
    ListChanges = 1
    ReportChanges = 0
    ReportLosses = 0
    ReportVisits = 1
INVARIANTS
    NothingSkipped
CHECK_DEADLOCK FALSE
