SPECIFICATION MCSpec
CONSTANTS
    a = a
    b = b
    None = None
    Settings <- StayingLeavingFinal
    Listed = {1, 2, 3, 4}
    ShopOf <- LastElsewhere
    Due <- Alternating
    ListAmount <- SecondMost
    Texts = {"", "x"}
    Matching <- TwoMatch
    ListStatuses = {"paid", "shipped"}
    FirstListed <- FirstShipped
    PageSize = 1
    Reported = {1, 2, 3}
    Amount <- Amounts
    Products = {1, 2, 3}
    Quantity <- Quantities
    FirstReported <- LastAbsent
    TopLimit = 2
    ListRequests = 4
    ListLosses = 1
    ListChanges = 0
    ReportChanges = 2
    ReportLosses = 1
    ReportVisits = 2
INVARIANTS
    WorkbenchSafe
    ViewsExact
PROPERTIES
    PagesEnd
CHECK_DEADLOCK FALSE
