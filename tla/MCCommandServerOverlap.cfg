SPECIFICATION CSSpec
SYMMETRY Symmetric
CONSTANTS
    a1 = a1
    r1 = r1
    r2 = r2
    System = System
    Actors = {a1}
    Requests = {r1, r2}
    BoundActors = {a1}
    Configured = {"telegram", "email"}
    JournalMayFail = FALSE
    MaxBoots = 0
    Keys <- MCKeys
    ActorOf <- MCActorOf
    CommandOf <- MCCommandOf
PROPERTY NotReexecuted
