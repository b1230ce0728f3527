CONSTANTS
    r1 = r1
    r2 = r2
    s1 = s1
    p1 = p1
    o1 = o1
    o2 = o2
    Requests = {r1, r2}
    Subs = {s1}
    Phones = {p1}
    Orgs = {o1, o2}
    NoOrg = NoOrg
    NoRow = NoRow
    NoEntry = NoEntry
    NoOp = NoOp
    NoKey = NoKey
    Dialect = "sqlite"
    Ops <- FewOps
    Plans <- FewPlans
    NewSubs <- NamedOrBoth
    InitTables <- ListedTable
    MaxCrashes = 1
SPECIFICATION LiveSpec
CHECK_DEADLOCK FALSE
INVARIANTS
    TypeOK
    NoticesAreDue
PROPERTIES
    AnswersAreTrue
    EveryRequestIsAnswered
