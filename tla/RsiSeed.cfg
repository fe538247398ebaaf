SPECIFICATION StrategiesSpec
CONSTANTS
    None = None
    MaxMoves = 2
    MaxFaults = 1
    MaxCrashes = 1
    NetBound = 6
    Hosted = {}
    Unknown = Unknown
    Scale = 3888
    Window = 3
    Mult = 2
    Bars <- BarsChecked
    MaxBars = 6
    Quotes = {0, 1, 2, 4}
    Unit = 4
INVARIANTS
    RsiSeedsWithMeans
CHECK_DEADLOCK FALSE
