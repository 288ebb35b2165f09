SPECIFICATION Spec
CONSTANTS
    Items = {i1, i2}
    Rates = {50, 100}
    Labels = {l1, l2}
    Readers = {x1}
    Admins = {a1, a2}
    MayFail = TRUE
    NoItem = NoItem
    Absent = Absent
    Missing = Missing
SYMMETRY Symmetry
INVARIANTS
    TypeOK
    StaleOnlyIfStranded
    TotalsDriftOnlyByRace
CHECK_DEADLOCK FALSE
