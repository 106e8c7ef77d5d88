SPECIFICATION Spec
CONSTANTS
  u1 = u1
  u2 = u2
  u3 = u3
  bracelet = bracelet
  necklace = necklace
  shop = shop
  Uploads = {u1, u2, u3}
  Products = {bracelet}
  Logos = {shop}
  First = {bracelet, shop}
  None = None
  MaxFailures = 0
  MaxUnheard = 0
INVARIANTS
  ReplacedLogoIsRemoved
SYMMETRY SameUploads
CHECK_DEADLOCK FALSE
