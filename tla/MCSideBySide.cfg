SPECIFICATION SideBySideSpec
CONSTANTS
    MaxFailures = 2
    Window = 3
    Drift = 1
    JournalMayFail = TRUE
    MaxNow = 7
    MaxBoots = 1
    a = a
    b = b
    c = c
    Channels = {a, b, c}
    BatchSize = 2
    Replays = {1, 2}
    Faults = 2
    MaxRow = 3
    MaxPending = 1
    Slack = 1
    FlushRows = 1
    Cutoffs = {2}
    Mishaps = 2
    q1 = q1
    q2 = q2
    t1 = t1
    NoTrade = NoTrade
    Clients = {q1, q2}
    Trades = {t1}
    Sizes = {1}
    MaxCalls = 2
    MaxDeaths = 1
INVARIANTS TypesOK GuessesAreRare LockIsExact NoCodeTwice SubscribedIsStreamed WrittenIsKept  
PROPERTIES SubscribedComesBack WrittenIsStored ExpiredIsSettled
CHECK_DEADLOCK FALSE
