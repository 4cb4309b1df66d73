INIT MCInit
NEXT MCNext
CONSTANTS
    N = 3
    MaxCrashes = 1
    Off = Off
    None = None
    p = p
    q = q
    i = i
    j = j
    x = x
    y = y
CHECK_DEADLOCK FALSE
INVARIANTS
    PasswordKnown  AlwaysRevertible  SettledIsReported
    OncePerVersion
