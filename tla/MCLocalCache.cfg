CONSTANTS
    CacheKey <- Keys
    Values <- HitOrMiss
    PrefixOf <- NumberOf
    NoItem = NoItem
    TTL = 2
    MaxSize = 2
    MaxClock = 5
SPECIFICATION CacheSpec
INVARIANTS
    CacheTypeOK
    SizeBound
PROPERTY
    ImplementsLossyMap
