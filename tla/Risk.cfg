SPECIFICATION Spec
CONSTANTS
    None = None
    r1 = r1
    r2 = r2
    Requests = {r1, r2}
    Configs <- ConfigsChecked
    Batches <- BatchesChecked
    Minute = 3
    TicksPerMs = 2
    MaxTime = 7
    MaxOpen = 7
SYMMETRY RequestSymmetry
INVARIANTS
    RateBound
    OpenOrdersBounded
