CONSTANTS
    j1 = j1
    j2 = j2
    w1 = w1
    w2 = w2
    Jobs <- TwoJobs
    CreatedAt <- SameSecond
    Workers <- TwoWorkers
    Records = 2
    ProgressEvery = 2
    MaxRetries = 3
    NoJob = NoJob
    ForeignJobs = FALSE
    MayLose = FALSE
    Operator = FALSE
    MaxCrashes = 0
    MaxStarts = 2
SPECIFICATION LiveSpec
CHECK_DEADLOCK FALSE
PROPERTY JobsSettle
