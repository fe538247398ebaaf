SPECIFICATION StrategiesSpec
CONSTANTS
    None = None
    MaxMoves = 2
    MaxFaults = 1
    MaxCrashes = 1
    NetBound = 6
    Hosted <- AllHosted
    Unknown = Unknown
    Scale = 3888
    Window = 3
    Mult = 2
    Bars <- BarsChecked
    MaxBars = 6
    Quotes = {0, 1, 2, 4}
    Unit = 4
INVARIANTS
    BelievedPosition
    LegsBalanced
    OneLadder
    WorkAccounted
    IndicatorsAgree
    MonitorsMeasure
PROPERTIES
    Converges
CHECK_DEADLOCK FALSE
