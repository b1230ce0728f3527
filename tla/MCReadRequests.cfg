CONSTANTS
    o1 = o1
    Digits = 1
    Digit <- AllDigits
    Phones <- TwoNumbers
    Orgs <- OneOrg
    NoOrg = NoOrg
    NoRow = NoRow
    NoEntry = NoEntry
    None = None
    DefaultPageSize = 1
    MaxPageSize = 2
    Lists <- ClientLists
    BulkLimit = 3
    AnalyzeLimit = 4
    BatchSize = 1
    AskedSizes <- Sizes
    InitTables <- Tables
    InitStamps <- Stamped
    AddChannels <- Inputs
    MaxChanges = 2
    MaxLogged = 1
    Topics <- AllTopics
SPECIFICATION Spec
INVARIANTS
    TypeOK
    BulkAnswersEach
    WalkSeesUntouched
    SummaryAddsUp
    StaleSummaryHasACause
    AnalysisIsJustified
    CompliantIsEarned
