SPECIFICATION Spec
CONSTANTS
    Sec = 2
    Window = 2
    Word = 16
    Byte = 3
    BatchSize = 2
    QueueLen = 2
    End = 11
    Requests = 3
    Fails = 1
    Crashes = 1
CHECK_DEADLOCK FALSE
INVARIANTS
    TypeOK
PROPERTIES
    CountCovers
    AheadNeedsLateInc
    DisorderNeedsRestart
    FreshAfterClean
    CleanKeepsTheRest
    SavesBatches
