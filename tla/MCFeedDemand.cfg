SPECIFICATION FeedDemandSpec
CONSTANTS
    c1 = c1
    c2 = c2
    c3 = c3
    k1 = k1
    l1 = l1
    l2 = l2
    l3 = l3
    l4 = l4
    Nil = Nil
    Conns = {c1, c2, c3}
    Keys = {k1}
    Runtimes = {1, 2, 3}
    Leases = {l1, l2, l3, l4}
    Passes = {1, 2}
    u1 = u1
    u2 = u2
    r1 = r1
    r2 = r2
    NoRequest = NoRequest
    Users = {u1, u2}
    Requests = {r1, r2}
    Deaths = 2
    Refusals = 1
INVARIANTS TypeOK PinnedIsKept  NoLeaseLeftBehind VFTypeOK HeldIsServed NothingIsOrphaned
PROPERTIES AbandonedIsReclaimed LostIsReplayed
