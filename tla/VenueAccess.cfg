SPECIFICATION VenueSpec
CONSTANTS
    Calls = {1, 2}
    None = None
    Key = Key
    Orders = {o1}
    ByteBase = 3
    Updates <- UpdatesChecked
    Undecodable <- UndecodableChecked
    Rejections <- RejectionsChecked
    Clean <- CleanChecked
    MaxFrames = 2
INVARIANTS
    FundsMoveOnce
    RefusalsAreDefinite
    AnswersAreTheVenues
    
    SnapshotCountsOnce
    StreamIsFaithful
PROPERTIES
    BackstopsSurvive
    CallsAnswered
    StreamRunsOut
CHECK_DEADLOCK FALSE
