SPECIFICATION Spec
CONSTANTS
    t1 = t1
    t2 = t2
    c1 = c1
    c2 = c2
    c3 = c3
    Tabs = {t1}
    Calls = {c1, c2}
    TabOf <- OneTab
    Logins = {l1}
    None = None
SYMMETRY Symmetry
INVARIANTS
    TypeOK
    RetiredStaysOut
    EffectOnce
    NoneStranded
PROPERTIES
    ExchangedOnce
CHECK_DEADLOCK FALSE
