CONSTANTS
    BuddyCpu = {c0, c1}
    MinIdx = 2
    FirstIdx = 3
    MaxIdx = 9
    Orders = 3
    SlabPage = {p0, p1, p2, p3}
    Null = Null
    Sizes = {1, 2, 3}
    CThreads = {c0, c1}
    MaxObjs = 5
    MaxOfKind = 1
    Mixes <- MCMixes
    MaxBmps = 4
    MaxPort = 1
    Reserved = {1}
    Timeouts = {t1, t2, t3}
    NoTimeout = NoTimeout
    Kinds = {"deadline", "countdown", "compare"}
    MaxTime = 3
    Ratio = 1
    CountRange = 3
    Writers = {c0, c1}
    Uarts = {u1, u2}
    Mbuf = Mbuf
    NoWriter = NoWriter
    Ring = 3
    Fifo = 1
    LineLen = 2
    MaxLines = 3
SPECIFICATION AllocSpec
INVARIANTS
    BuddySafe
    SlabSafe
    CreateExact
    TimeoutsExact
    ConsolesExact
SYMMETRY Symmetry
CHECK_DEADLOCK FALSE
