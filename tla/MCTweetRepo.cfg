SPECIFICATION Spec
CONSTANTS
    Tweet = {t1}
    Client = {c1, c2, c3}
    Rating = {0, 1}
    Time = {1, 2}
    NoTweet = NoTweet
    MaxInt32 = 2
SYMMETRY Interchangeable
INVARIANTS
    TypeOK
    CreationIndexExact
PROPERTIES
    OnlyLateClearHides
    DanglingOnlyByBlindWrite
    OlderOnlyByBlindWrite
    GaugeFollowsRows
    TableSpec
