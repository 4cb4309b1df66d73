INIT MCInit
NEXT MCNext
CONSTANTS
    None = None
    MaxUses = 1
    Admins = {a1}
    HalfOpen = TRUE
    ClearMayFail = TRUE
    MaxAges = 1
    MaxLost = 1
    MaxFaults = 1
    MaxCrashes = 1
    Off = Off
    Wrong = Wrong
    Null = Null
    a1 = a1
CHECK_DEADLOCK FALSE
INVARIANTS
    SupersededDies SplittingChangesNothing SelectsWhatItSays
