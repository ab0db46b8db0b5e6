SPECIFICATION FairSpec
CONSTANTS
    c1 = c1  c2 = c2  k1 = k1  k2 = k2  Nobody = Nobody  None = None
    Caller = {c1, c2}
    Key = {k1, k2}
    MaxSigns = 2
    MaxHelpers = 2
INVARIANT HelperInv
PROPERTIES KeyKept CallsReturn
CHECK_DEADLOCK FALSE
