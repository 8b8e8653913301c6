CONSTANTS
    Cpu = {c0, c1, c2}
    NoCpu = NoCpu
    Tickets = 3
    RcuCpu = {c0, c1}
    Elem = {e0, e1}
    Words = 16
SPECIFICATION SyncSpec
INVARIANTS
    TicketWindow
    RcuSafe
PROPERTIES
    ImplementsFifoLock
    StarvationFree
    Invoked
