CONSTANTS
    p1 = p1
    p2 = p2
    o1 = o1
    o2 = o2
    x1 = x1
    x2 = x2
    Phones <- OnePhone
    Orgs <- TwoOrgs
    Calls <- TwoCalls
    InputChannels <- AllInputs
    InitRegistry <- RegistryPorted
    Dialect = "sqlite"
    PortEvents <- OnePort
    NoOrg = NoOrg
    NoRow = NoRow
    NoEntry = NoEntry
SPECIFICATION Spec
SYMMETRY Symmetry
INVARIANTS
    TypeOK
    TracedStaysListed
    Provenance
    AuditSound
    SyncCoversAll
PROPERTIES
    OwnNumbersLeave
    SystemRowsAreNotReclaimed
