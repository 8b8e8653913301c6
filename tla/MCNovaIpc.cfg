SPECIFICATION IpcSpec
CONSTANTS
  c1 = c1
  c2 = c2
  c3 = c3
  i1 = i1
  x = x
  y = y
  hs = hs
  ht = ht
  si1 = si1
  sx = sx
  sy = sy
  m1 = m1
  CPUs = {c1}
  ECs = {i1, x, y, hs, ht}
  SCs = {si1, sx, sy}
  SMs = {m1}
  IntSMs = {m1}
  EcCpu <- MCEcCpu
  ScEc <- MCScEc
  Prio <- MCPrio
  MaxPrio = 2
  IdleSc <- MCIdle
  BootQ <- MCBoot
  Local = {hs, ht}
  Started = {x}
  NoEc = NoEc
  NoSm = NoSm
  MaxCounter = 1
  InitCounter <- MCInit
  RecCpus = {c1, c2, c3}
  RecEcs = {x, y, hs, ht}
  RecHome <- MCRecHome
  RecControlled = {x, hs}
INVARIANTS
  ScsRunnable
  CallChains
  RecallExact
