SPECIFICATION FairSpec
CONSTANTS
  u1 = u1
  u2 = u2
  u3 = u3
  payment = payment
  remainder = remainder
  imported = imported
  Uploads = {u1, u2, u3}
  Places = {payment, remainder, imported}
  KindOf <- MCKindOf
  None = None
  MaxFailures = 2
  MaxUnheard = 1
INVARIANTS
  AcceptedIsStored
  MissingOnlyUnheard
  FilesAccounted
PROPERTIES
  NeverReplaced
  UploadsEnd
CHECK_DEADLOCK FALSE
