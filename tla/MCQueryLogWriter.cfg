CONSTANTS
    e1 = e1
    e2 = e2
    e3 = e3
    Entries <- ThreeEntries
    Rejected <- OneRejected
    FlushSize = 2
    Loop = Loop
    Main = Main
    Accepts = TRUE
    MayFail = TRUE
    MayStop = TRUE
SPECIFICATION LiveSpec
CHECK_DEADLOCK FALSE
INVARIANTS
    TypeOK
    EachEntryInOnePlace
    StopTakesEarlierEntries
PROPERTY
    EveryEntrySettles
