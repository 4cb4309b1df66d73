INIT MCInit
NEXT MCNext
CONSTANTS
    None = None
    Servers = {p1, p2}
    MaxKeys = 3
    MaxSealed = 2
    MaxMishaps = 1
    Off = Off
    p1 = p1
    p2 = p2
CONSTRAINT Few
SYMMETRY Symmetry
CHECK_DEADLOCK FALSE
INVARIANTS
    KeyForEverything  NotASecondTime NothingSkipped

    
