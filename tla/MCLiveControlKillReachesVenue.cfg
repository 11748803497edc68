SPECIFICATION Spec
CONSTANTS
    a1 = a1
    a2 = a2
    r1 = r1
    r2 = r2
    System = System
    Actors = {a1, a2}
    Requests = {r1, r2}
    BoundActors = {a1}
    Configured = {"telegram", "email"}
    JournalMayFail = TRUE
    MaxBoots = 1
PROPERTY KillReachesVenue
