SPECIFICATION Spec
CONSTANTS
  u1 = u1
  u2 = u2
  u3 = u3
  bracelet = bracelet
  necklace = necklace
  shop = shop
  Uploads = {u1, u2, u3}
  Products = {bracelet, necklace}
  Logos = {shop}
  First = {bracelet}
  None = None
  MaxFailures = 2
  MaxUnheard = 1
INVARIANTS
  MissingOnlyUnheard
  ProductFilesAccounted
SYMMETRY SameUploads
CHECK_DEADLOCK FALSE
