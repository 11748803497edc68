SPECIFICATION Spec
CONSTANTS
    c1 = c1
    c2 = c2
    c3 = c3
    k1 = k1
    k2 = k2
    l1 = l1
    l2 = l2
    l3 = l3
    l4 = l4
    Nil = Nil
    Conns = {c1, c2}
    Keys = {k1, k2}
    Runtimes = {1, 2, 3}
    Leases = {l1, l2, l3, l4}
    Passes = {1, 2}
INVARIANT PinnedIsKept
