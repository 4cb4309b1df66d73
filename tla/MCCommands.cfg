SPECIFICATION Spec
CONSTANTS
    N = 2
    QueueCap = 1
    Outcomes = {"succeeded"}
    MaxCrashes = 1
    MaxFaults = 0
    MaxLate = 1
    LongOutages = FALSE
INVARIANTS AtMostOnce StoredIsTrue
PROPERTIES KeepsPromise
