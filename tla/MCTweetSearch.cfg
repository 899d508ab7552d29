SPECIFICATION FairSpec
CONSTANTS
    Query = {q1}
    PageSize = 1
    MaxTweets = 3
    MaxRequests = 2
    MaxFaults = 2
INVARIANTS
    TypeOK
PROPERTIES
    NothingElseIsLost
    TweetIsSaved
