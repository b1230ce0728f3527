CONSTANTS
    j1 = j1
    j2 = j2
    w1 = w1
    w2 = w2
    Jobs <- TwoJobs
    CreatedAt <- InOrder
    Workers <- OneWorker
    Records = 2
    ProgressEvery = 1
    MaxRetries = 3
    NoJob = NoJob
    ForeignJobs = TRUE
    MayLose = TRUE
    Operator = TRUE
    MaxCrashes = 2
    MaxStarts = 3
SPECIFICATION Spec
CHECK_DEADLOCK FALSE
INVARIANTS
    TypeOK
    CompletedIsWhole
    OncePerRun
PROPERTY
    CompletedIsFinal
