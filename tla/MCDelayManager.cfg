SPECIFICATION Spec
CONSTANTS
    N = 2
    Duration <- Lengths
    StartDelay = 3
    QueueLen = 1
    SignalLen = 1
    Requests = 1
    MaxCount = 2
    Crashes = 0
INVARIANTS
    TypeOK
    DelayBounded
PROPERTIES
    LoweredByRefusal
