CONSTANTS
    e1 = e1
    e2 = e2
    e3 = e3
    Entries <- ThreeEntries
    Rejected <- NoneRejected
    FlushSize = 2
    Loop = Loop
    Main = Main
    Accepts = TRUE
    MayFail = FALSE
    MayStop = TRUE
SPECIFICATION Spec
CHECK_DEADLOCK FALSE
INVARIANT NothingLostByShutdown
