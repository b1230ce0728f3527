CONSTANTS
    p1 = p1
    p2 = p2
    o1 = o1
    o2 = o2
    x1 = x1
    x2 = x2
    Phones <- TwoPhones
    Orgs <- OneOrg
    Calls <- OneCall
    InputChannels <- TextInputs
    InitRegistry <- RegistryTollFree
    Dialect = "sqlite"
    PortEvents <- AllPorts
    NoOrg = NoOrg
    NoRow = NoRow
    NoEntry = NoEntry
SPECIFICATION Spec
INVARIANT SyncNeverBlocked
