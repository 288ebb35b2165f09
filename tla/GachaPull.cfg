SPECIFICATION FairSpec
CONSTANTS
    Requests = {r1, r2}
    Users = {u1}
    Events = {e1}
    Items = {i1, i2}
    Admins = {a1}
    EventOf <- MCEventOf
    PullCost = 2
    MaxBulk = 2
    Counts = {2, 3}
    InitialCoins = 5
    Balances = {3}
INVARIANTS
    TypeOK
    CoinsNonNegative
    LedgerConserved
    AllOrNothing
    ReferencesHold
    FeedTellsHistory
PROPERTIES
    HistoryKept
    ImplementsLedger
    EveryPullEnds
CHECK_DEADLOCK FALSE
