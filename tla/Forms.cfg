SPECIFICATION MCSpec
CONSTANTS
    None = None
    Tabs = {t1, t2}
    Alone = t1
    Keys = {k1, k2, k3}
    Sales = {p, q}
    MaxRequests = 2
    MaxLosses = 2
    MaxUpdates = 1
    MaxMounts = 3
    Products = {p, q}
    Price <- OneAndThree
    MaxQuantity = 2
    Amounts = {0, 1, 2}
    MaxItems = 2
    FirstDay = 3
    LastDay = 5
    Holidays = {6}
    MaxWorkDays = 2
    ImagesOf <- WrongAndRight
    Patient = TRUE
    MaxImports = 3
    MaxChoices = 2
    Texts = {empty, full}
    Valid = {full}
    Empty = empty
    Images = {i, j}
    MaxQuestions = 4
    FewKeys = {k1, k2}
    FewLosses = 1
    FewMounts = 2
    FewImages = {i}
    FewQuestions = 3
    p = p
    q = q
    i = i
    j = j
    l = l
INVARIANTS
    CreationSafe
    ImportSafe
    CustomerSafe
PROPERTIES
    CreationSteps
    FormsEnd
CHECK_DEADLOCK FALSE
