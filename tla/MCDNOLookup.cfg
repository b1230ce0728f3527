CONSTANTS
    p1 = p1
    query = query
    portal = portal
    l1 = l1
    l2 = l2
    c1 = c1
    c2 = c2
    Phones <- OnePhone
    RowChannels <- Channels
    CacheKey <- Asked
    Procs <- Deployed
    LookupProcs <- QueryOnly
    ChangeProcs <- Deployed
    Lookups <- OneLookup
    Changes <- OneChange
    SystemChanges = TRUE
    None = None
    NoItem = NoItem
    TTL = 1
    MaxSize = 2
    MaxLag = 1
    MaxTime = 6
SPECIFICATION Spec
INVARIANTS
    TypeOK
    BoundedStaleness
    StaleHasACause
