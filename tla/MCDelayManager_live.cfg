SPECIFICATION FairSpec
CONSTANTS
    N = 1
    Duration <- OneLength
    StartDelay = 6
    QueueLen = 1
    SignalLen = 1
    Requests = 2
    MaxCount = 1
    Crashes = 1
PROPERTIES
    ThresholdIsSaved
    FireGoesOut
    DelayComesDown
