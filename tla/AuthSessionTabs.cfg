SPECIFICATION Spec
CONSTANTS
    t1 = t1
    t2 = t2
    c1 = c1
    c2 = c2
    c3 = c3
    Tabs = {t1, t2}
    Calls = {c1, c2}
    TabOf <- TwoTabs
    Logins = {}
    None = None
PROPERTIES
    ExchangedOnce
CHECK_DEADLOCK FALSE
