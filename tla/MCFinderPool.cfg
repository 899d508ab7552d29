SPECIFICATION FairSpec
CONSTANTS
    Caller = {c1, c2, c3}
    Finder = {f1, f2}
    Temp = {1, 2, 5}
    Nobody = Nobody
    Outages = 1
INVARIANTS
    TypeOK
    OneCallerPerFinder
PROPERTIES
    LeakNeedsOutage
    LeaseSpec
    UnlostServe
