SPECIFICATION Spec
CONSTANTS
    Items = {i1, i2}
    Rates = {50, 100}
    Labels = {l1, l2}
    Readers = {x1}
    Admins = {a1}
    MayFail = FALSE
    NoItem = NoItem
    Absent = Absent
    Missing = Missing
SYMMETRY Symmetry
INVARIANTS
    CacheExact
CHECK_DEADLOCK FALSE
