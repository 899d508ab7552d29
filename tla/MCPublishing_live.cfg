SPECIFICATION FairSpec
CONSTANTS
    Tweet = {t1, t2}
    Worker = {w1}
    LongBatch = 3
    QueueLen = 1
    MaxSendErrors = 0
    MaxCrashes = 1
INVARIANTS
    KeptIsOnItsWay
PROPERTIES
    QueuedIsAnswered
    KeptIsPublished
