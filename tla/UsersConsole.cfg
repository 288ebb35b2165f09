SPECIFICATION Spec
CONSTANTS
    u1 = u1
    u2 = u2
    Users = {u1, u2}
    Initial <- OneOrTwo
    Searches <- TwoSearches
    PageSize = 1
    Fields = {"coins", "isBanned"}
    Handlers = {h1, h2}
    MaxLoads = 2
    MaxAsked = 2
    MaxListed = 2
    MaxClicks = 2
    None = None
SYMMETRY Symmetry
INVARIANTS
    TypeOK
    RowsCurrent
    ListWhole
PROPERTIES
    OnlyAsConfirmed
CHECK_DEADLOCK FALSE
