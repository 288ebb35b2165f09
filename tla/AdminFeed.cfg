SPECIFICATION FairSpec
CONSTANTS
    d1 = d1
    d2 = d2
    Draws = {d1, d2}
    PullOf <- Bulk
    MaxLive = 2
    MaxCrashes = 2
    MaxBreaks = 2
    None = None
INVARIANTS
    TypeOK
    RepeatedOnlyIfStalled
PROPERTIES
    PullsReachFeed
    StreamReturns
CHECK_DEADLOCK FALSE
