CONSTANTS
    c1 = c1
    c2 = c2
    c3 = c3
    c4 = c4
    t1 = t1
    t2 = t2
    script = script
    Calls = {c1, c2, c3, c4}
    Wants <- Plan
    Tabs = {t1, t2, script}
    Others = {script}
    TabOf <- TwoTabs
    Roles = {"admin", "viewer"}
    AccessLife = 1
    RefreshLife = 2
    LoginLimit = 1
    Lag = 1
    None = None
    MaxTime = 4
    MaxEdits = 1
SPECIFICATION Spec
SYMMETRY Alike
CHECK_DEADLOCK FALSE
INVARIANTS
    TypeOK
    RefreshIsOwned
PROPERTY RightsAreRecent
