SPECIFICATION MCSpec
CONSTANTS
    None = None
    p1 = p1
    MaxBuild = 1
    Pilots = {p1}
    Approvals = TRUE
    PilotHeld = FALSE
    MayFail = TRUE
    MayDelete = FALSE
    Overlap = TRUE
    MaxResumes = 0
    MaxAborts = 1
    MaxLapses = 0
CHECK_DEADLOCK FALSE
INVARIANT
    ApprovedFirst
PROPERTIES
    RolloutSettles FleetSettles
