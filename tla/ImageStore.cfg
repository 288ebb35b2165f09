SPECIFICATION Spec
CONSTANTS
    Owners = {o1}
    Requests = {r1, r2, r3}
    MaxTime = 2
    MayFail = TRUE
    NoKey = NoKey
SYMMETRY Symmetry
INVARIANTS
    TypeOK
    MissingOnlyInPassing
    ObjectsAccountedFor
CHECK_DEADLOCK FALSE
