SPECIFICATION Spec
CONSTANTS
    Items = {i1, i2}
    Rates = {40, 60, 100}
    Labels = {l1}
    Readers = {x1}
    Admins = {a1, a2}
    MayFail = FALSE
    NoItem = NoItem
    Absent = Absent
    Missing = Missing
SYMMETRY Symmetry
PROPERTIES
    LiveWritesKeepTotal
CHECK_DEADLOCK FALSE
