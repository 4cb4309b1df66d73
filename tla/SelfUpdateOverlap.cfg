SPECIFICATION Spec
CONSTANTS
    Version = {1, 2, 3}
    Boot = 1
    Works = {1, 3}
    Genuine = {2, 3}
    None = 0
    Supervisors = {1, 2}
    MaxAttempts = 2
    MaxAssigns = 2
    MaxRestarts = 0
    MaxFaults = 0
INVARIANTS NotStranded
