INIT MCInit
NEXT MCNext
CONSTANTS
    None = None
    Version = {1, 2, 3, 4, 5}
    Boot = 1
    Works = {1, 3, 4, 5}
    Genuine = {2, 3, 4}
    Supervisors = {1}
    MaxAttempts = 3
    MaxAssigns = 3
    MaxRestarts = 2
    MaxFaults = 1
    Off = Off
    a1 = a1
    a2 = a2
    Feed = Feed
    p1 = p1
CONSTRAINT Few
SYMMETRY Symmetry
CHECK_DEADLOCK FALSE
INVARIANTS
    Watched RolledBackIsOff NotStranded RestorePointKept
    PilotNotStranded AloneKeepsItsBytes
