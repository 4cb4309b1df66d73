INIT MCInit
NEXT MCNext
CONSTANTS
    None = None
    Requests = {r1, r2}
    Emails = {"known"}
    SessionIds = {s1, s2}
    MaxAccount = 1
    MaxAddress = 2
    Window = 1
    SessionTTL = 2
    MaxSessionLifetime = 2
    TouchInterval = 1
    HashSlots = 1
    MaxChanges = 1
    Off = Off
    b1 = b1
    o1 = o1
    t1 = t1
CONSTRAINT Few
CHECK_DEADLOCK FALSE
INVARIANTS
    FailuresBounded SignedOutStays 
PROPERTIES
    CodeUsedOnce 
