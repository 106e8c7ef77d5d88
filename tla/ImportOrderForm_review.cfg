SPECIFICATION Spec
CONSTANTS
    p = p
    q = q
    i = i
    j = j
    l = l
    Keys = {k1, k2, k3}
    Sales = {p, q}
    ImagesOf <- MCImagesOf
    None = None
    Patient = FALSE
    MaxRequests = 2
    MaxLosses = 0
    MaxChoices = 2
    MaxMounts = 1
INVARIANTS
    ReviewedIsStored
CHECK_DEADLOCK FALSE
