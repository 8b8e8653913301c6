CONSTANTS
    c0 = c0
    c1 = c1
    t0 = t0
    t1 = t1
    t2 = t2
    t3 = t3
    t4 = t4
    h0 = h0
    h1 = h1
    g0 = g0
    a = a
    b = b
    PtabCpu = {c0, c1}
    InSpace = {c0, c1}
    TablePage = {t0, t1, t2, t3, t4}
    Root = Root
    RootTable = t0
    Empty = Empty
    Lev = 4
    Bpl = 2
    LeafMax = 2
    Requests <- MCRequests
    TNum = 2
    HostSpaces = {h0, h1}
    GuestSpaces = {g0}
    TEcs <- MCEcs
    NoSpace = NoSpace
    MaxVersion = 1
    Devs = {d1, d2}
    Dmas = {a, b}
    Irqs = {i1}
    Dests = {x, y}
    Absent = Absent
    Callers = {k1}
    QSize = 4
    Serial = TRUE
    WrapResume = FALSE
    SmmuNum = 2
    MaxNum = 2
    NumSmg <- MCNum
    NumCtx <- MCNum
    NumSid <- MCNum
    SDmas = {a, b}
    NoDma = NoDma
    MaxDelegations = 1
    SharedBanks = FALSE
SPECIFICATION TablesSpec
INVARIANTS
    PtabSafe
    ShootdownExact
    AssignmentHolds
    SmmuExact
PROPERTIES
    TranslationExact
SYMMETRY Symmetry
