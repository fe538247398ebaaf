SPECIFICATION Spec
CONSTANTS
    None = None
    Damaged = Damaged
    num_levels = 2
    max_consecutive_errors = 2
    MaxEvents = 4
    MaxFaults = 2
    MaxCrashes = 1
INVARIANTS
    RestartResumes
CHECK_DEADLOCK FALSE
