SPECIFICATION Spec
CONSTANTS
    s1 = s1
    s2 = s2
    v1 = v1
    v2 = v2
    Symbols = {s1, s2}
    Venues = {v1, v2}
    VenueOf <- TwoVenues
    MaxQuote = 2
    MaxPending = 2
    FetchMayFail = FALSE
    MaxBuilds = 2
INVARIANT CaughtUp
CHECK_DEADLOCK FALSE
