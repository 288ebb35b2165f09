SPECIFICATION Spec
CONSTANTS
    Events = {e1, e2}
    Items = {i1, i2}
    Drafts = {d1, d2}
    Looks = {v1, v2}
    Handlers = {h1, h2}
    MaxLoads = 2
    MaxClicks = 3
    None = None
SYMMETRY Symmetry
INVARIANTS
    TypeOK
    ListCurrent
    DuplicateOnlyIfCutShort
PROPERTIES
    DeletedOnlyIfAccepted
CHECK_DEADLOCK FALSE
