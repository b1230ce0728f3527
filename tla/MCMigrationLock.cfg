CONSTANTS
    i1 = i1
    i2 = i2
    i3 = i3
    s1 = s1
    s2 = s2
    s3 = s3
    Instances <- ThreeInstances
    Sessions <- ThreeSessions
    OwnSession <- Own
    Pooling <- Both
    Nobody = Nobody
    MaxCrashes = 2
SPECIFICATION LiveSpec
CHECK_DEADLOCK FALSE
INVARIANTS
    TypeOK
    MutualExclusion
    NoLeakedLock
PROPERTY
    EveryoneStarts
