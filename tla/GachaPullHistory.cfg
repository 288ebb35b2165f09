SPECIFICATION Spec
CONSTANTS
    Requests = {r1, r2}
    Users = {u1}
    Events = {e1}
    Items = {i1}
    Admins = {a1}
    EventOf <- MCEventOf
    PullCost = 2
    MaxBulk = 2
    Counts = {1}
    InitialCoins = 5
    Balances = {3}
SYMMETRY Symmetry
PROPERTIES
    HistoryAppendOnly
CHECK_DEADLOCK FALSE
