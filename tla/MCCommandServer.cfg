SPECIFICATION CSSpec
SYMMETRY Symmetric
CONSTANTS
    a1 = a1
    r1 = r1
    r2 = r2
    System = System
    Actors = {a1}
    Requests = {r1, r2}
    BoundActors = {a1}
    Configured = {"telegram", "email"}
    JournalMayFail = TRUE
    MaxBoots = 1
    Keys <- MCKeys
    ActorOf <- MCActorOf
    CommandOf <- MCCommandOf
INVARIANTS CSTypeOK AcknowledgedIsOnDisk
PROPERTIES RunsOnce LateRetryIsHarmless
