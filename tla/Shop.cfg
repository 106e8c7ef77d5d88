SPECIFICATION MCSpec
CONSTANTS
    Handlers = {h1, h2, h3}
    Numbers = {n1, n2}
    Texts = {x, y}
    None = None
    Admins = {a}
    Shops = {s, t}
    ShopsOf <- EveryShop
    Cards = {c}
    MaxRequests = 4
    MaxLogins = 1
    soap = soap
    candle = candle
    photo = photo
    FirstRows <- OneArchived
    MaxProducts = 3
    ProductTexts = {soap, candle}
    Files = {photo, sharp, broken}
    Broken = {broken}
    MaxAsked = 6
    MaxLosses = 1
    MaxRefusals = 1
    MaxVisits = 2
    FewFiles = {photo}
    FewAsked = 3
INVARIANTS
    ActiveMirrored
    SessionAgrees
    CatalogueAgrees
PROPERTIES
    ShopPagesEnd
CHECK_DEADLOCK FALSE
