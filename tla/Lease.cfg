SPECIFICATION FairSpec
CONSTANTS
    Sessions = {s1}
    Checkers = {watchdog, guard}
    Watchdog = watchdog
    Leases = {1, 2}
    MaxAge = 3
    Threshold = 2
    MaxMisses = 3
INVARIANTS
    LeaseTripNeedsSilence
    OutageTripNeedsEvidence
    OutageTripsAll
PROPERTIES
    SilenceTrips
