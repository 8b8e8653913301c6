CONSTANTS
    c0 = c0
    c1 = c1
    A = A
    B = B
    N = N
    P = P
    Q = Q
    R = R
    sm = sm
    p1 = p1
    p2 = p2
    p3 = p3
    p4 = p4
    p5 = p5
    p6 = p6
    Cpu = {c0, c1}
    Home <- MCHome
    Space = {A, B, N}
    Pd = {P, Q, R}
    Sm = {sm}
    Page = {p1, p2, p3, p4, p5, p6}
    Null = Null
    Lev = 2
    Ent = 3
    Requests <- MCRequests
    Selectors = {4, 5}
    Boot <- MCBoot
    PCpus = {c0, c1, c2}
    Bsp = c0
    PArchs = {"x86_64", "aarch64"}
    PStates = {3, 5, 7}
    PromptBarrier = TRUE
SPECIFICATION SpacesSpec
INVARIANTS
    SpacesIntact
    NothingLostInSleep
PROPERTIES
    TablesStay
    NoAmplification
    HypercallsEnd
    SleepsAndWakes
