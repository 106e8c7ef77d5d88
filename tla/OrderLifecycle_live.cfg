SPECIFICATION FairSpec
CONSTANTS
    o1 = o1
    o2 = o2
    s1 = s1
    Orders = {o1}
    Shops = {s1}
    ShopOf <- OneShop
    Tokens = {t1, t2}
    Uploads = {u1, u2}
    NoUpload = NoUpload
    NoToken = NoToken
    NoOrder = NoOrder
    MaxHistory = 3
    MaxFailures = 2
PROPERTIES
    StaleEventuallyResolved
    UploadsAnswered
