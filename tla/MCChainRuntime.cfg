SPECIFICATION Spec
CONSTANTS
    s1 = s1
    s2 = s2
    v1 = v1
    v2 = v2
    Symbols = {s1, s2}
    Venues = {v1}
    VenueOf <- OneVenue
    MaxQuote = 3
    MaxPending = 1
    FetchMayFail = TRUE
    MaxBuilds = 3
INVARIANTS TypeOK CaughtUp
PROPERTY ImplementsFeed
CHECK_DEADLOCK FALSE
