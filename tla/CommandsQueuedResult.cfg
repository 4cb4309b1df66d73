SPECIFICATION Spec
CONSTANTS
    N = 1
    QueueCap = 1
    Outcomes = {"succeeded"}
    MaxCrashes = 1
    MaxFaults = 0
    MaxLate = 0
    LongOutages = FALSE
PROPERTIES QueuedResultKept
