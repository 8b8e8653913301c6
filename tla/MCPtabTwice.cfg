CONSTANTS
    c0 = c0
    c1 = c1
    t0 = t0
    t1 = t1
    t2 = t2
    t3 = t3
    t4 = t4
    PtabCpu = {c0, c1}
    InSpace = {c0, c1}
    TablePage = {t0, t1, t2, t3, t4}
    Root = Root
    RootTable = t0
    Empty = Empty
    Lev = 4
    Bpl = 1
    LeafMax = 3
    Requests <- MCNested
SPECIFICATION PtabSpec
INVARIANTS
    DeferredOnce
SYMMETRY Symmetry
