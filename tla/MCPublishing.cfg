SPECIFICATION Spec
CONSTANTS
    Tweet = {t1}
    Worker = {w1, w2}
    LongBatch = 1
    QueueLen = 1
    MaxSendErrors = 1
    MaxCrashes = 1
SYMMETRY Interchangeable
INVARIANTS
    MarkedIsSafe
