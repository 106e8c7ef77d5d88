SPECIFICATION Spec
CONSTANTS
    a = a
    b = b
    s = s
    t = t
    Admins = {a, b}
    Shops = {s}
    ShopsOf <- OneShopOf
    Cards = {c1}
    None = None
    MaxRequests = 3
    MaxLogins = 1
PROPERTIES
    LogoutIsFinal
CHECK_DEADLOCK FALSE
