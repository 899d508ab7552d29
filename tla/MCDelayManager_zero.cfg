SPECIFICATION Spec
CONSTANTS
    N = 1
    Duration <- OneLength
    StartDelay = 6
    QueueLen = 1
    SignalLen = 1
    Requests = 1
    MaxCount = 1
    Crashes = 0
INVARIANTS
    ThresholdPositive
