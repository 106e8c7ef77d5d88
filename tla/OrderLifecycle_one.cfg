SPECIFICATION SmallSpec
CONSTANTS
    o1 = o1
    o2 = o2
    s1 = s1
    Orders = {o1, o2}
    Shops = {s1}
    ShopOf <- OneShop
    Tokens = {t1, t2}
    Uploads = {u1, u2, u3}
    NoUpload = NoUpload
    NoToken = NoToken
    NoOrder = NoOrder
    MaxHistory = 4
    MaxFailures = 1
SYMMETRY Interchangeable
INVARIANTS
    TypeOK
    StatusCoherent
    HistoryExplainsStatus
    OnlyOperatorsDecide
    FinalPaymentChain
    AcceptedIsRecorded
    SweepHoldsOnlyUnsubmitted
PROPERTIES
    PaymentFactsPermanent
    OldLinkPowerless
    CancelledIsClosed
