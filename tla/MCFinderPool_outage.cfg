SPECIFICATION FairSpec
CONSTANTS
    Caller = {c1}
    Finder = {f1}
    Temp = {1, 5}
    Nobody = Nobody
    Outages = 1
PROPERTY KeepsSearching
