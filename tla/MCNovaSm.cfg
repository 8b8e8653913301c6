SPECIFICATION Spec
CONSTANTS
  c1 = c1
  c2 = c2
  i1 = i1
  i2 = i2
  a = a
  b = b
  si1 = si1
  si2 = si2
  sa = sa
  sb = sb
  CPUs = {c1, c2}
  ECs = {i1, i2, a, b}
  SCs = {si1, si2, sa, sb}
  SMs = {m1, m2}
  IntSMs = {}
  m1 = m1
  m2 = m2
  EcCpu <- MCEcCpu
  ScEc <- MCScEc
  Prio <- MCPrio
  MaxPrio = 1
  IdleSc <- MCIdle
  BootQ <- MCBoot
  Local = {}
  Started = {a, b}
  NoEc = NoEc
  NoSm = NoSm
  MaxCounter = 1
  InitCounter <- MCInit
INVARIANTS
  ScQueuedOnce
  RunningNotQueued
  WaitsExact
PROPERTIES
  ImplementsSemaphore
