CONSTANTS
    a1 = a1
    a2 = a2
    Account <- TwoAccounts
    First <- InOrder
    ProxyLists <- SomeProxies
    MaxFaults = 2
SPECIFICATION FairSpec
INVARIANTS TypeOK SkippedOnlyIfTorn CookielessNeedsTear FindersApart
PROPERTY EveryAccountServed
