SPECIFICATION SmallSpec
CONSTANTS
  q1 = q1
  q2 = q2
  q3 = q3
  k1 = k1
  k2 = k2
  sara = sara
  omid = omid
  cake = cake
  tea = tea
  archived = archived
  Requests = {q1, q2, q3}
  Keys = {k1, k2}
  Admins = {sara, omid}
  Bodies = {cake, tea, archived}
  Shops <- MCShops
  ShopOf <- MCShopOf
  Access <- MCAccess
  Historical = {archived}
  DeliveryDay <- MCDeliveryDay
  None = None
  LastDay = 1
  MaxFailures = 1
INVARIANTS
  OneOrderPerKey
  CreatedIsRecorded
  TakenByAnother
  OwnShopsOnly
  RepeatedIsGranted
PROPERTIES
  KeepsPromise
SYMMETRY SameRequests
