SPECIFICATION FairSpec
CONSTANTS
    e1 = e1
    e2 = e2
    Events = {e1, e2}
    Linked = e2
    Coins = 2
    Cost = 1
    DefaultCount = 1
    ServerCount = 2
    Raws <- MCRaws
    Speeds = {1, 2}
    MaxLoads = 2
    NoEvent = NoEvent
    None = None
INVARIANTS
    TypeOK
    OneOutcome
    CoinsCurrentAtRest
    ItemsMatchUnlessOvertaken
PROPERTIES
    RewardStays
    NoSpoiler
    PullingEnds
    RevealEnds
CHECK_DEADLOCK FALSE
