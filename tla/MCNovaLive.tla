----------------------------- MODULE MCNovaLive -----------------------------
(* Two CPUs, with an EC on the first that has two SCs of equal priority    *)
(* and blocks on a semaphore; interrupts signal it from either CPU.        *)
EXTENDS Nova, TLC

CONSTANTS m1, c1, c2, i1, i2, a, si1, si2, sa, sb

MCEcCpu == (i1 :> c1) @@ (a :> c1) @@ (i2 :> c2)
MCScEc  == (si1 :> i1) @@ (sa :> a) @@ (si2 :> i2) @@ (sb :> a)
MCPrio  == (si1 :> 0) @@ (sa :> 1) @@ (si2 :> 0) @@ (sb :> 1)
MCIdle  == (c1 :> si1) @@ (c2 :> si2)
MCBoot  == (c1 :> (0 :> <<>> @@ 1 :> <<sa, sb>>)) @@ (c2 :> (0 :> <<>> @@ 1 :> <<>>))
MCInit  == [m \in SMs |-> 0]
=============================================================================
