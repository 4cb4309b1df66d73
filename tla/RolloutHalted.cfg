SPECIFICATION Spec
CONSTANTS
    MaxBuild = 3
    Pilots = {p1}
    Approvals = FALSE
    PilotHeld = FALSE
    MayFail = TRUE
    MayDelete = FALSE
    Overlap = FALSE
    MaxResumes = 0
    MaxAborts = 0
    MaxLapses = 0
INVARIANT OneBuild
CHECK_DEADLOCK FALSE
