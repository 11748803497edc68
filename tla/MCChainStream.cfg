SPECIFICATION FairSpec
CONSTANTS
    s1 = s1
    s2 = s2
    Symbols = {s1, s2}
    MaxQuote = 2
    SoftLimit = 2
    HardLimit = 3
    Subscriptions = {1, 2, 3}
    Unknown = Unknown
    Loads <- ThreeLoads
    MaxSeq = 3
    MaxStatuses = 1
    MaxTroubles = 1
INVARIANTS TypeOK ShowsARealChain NothingIsLost
PROPERTY CatchesUp
