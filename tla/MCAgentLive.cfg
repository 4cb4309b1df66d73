SPECIFICATION MCSpec
CONSTANTS
    None = None
    MaxUses = 1
    Admins = {a1}
    HalfOpen = FALSE
    ClearMayFail = FALSE
    MaxAges = 2
    MaxLost = 1
    MaxFaults = 1
    MaxCrashes = 1
    a1 = a1
CHECK_DEADLOCK FALSE
INVARIANT
    NotLockedOut
PROPERTIES
    EventuallySettled PendingResolved 
