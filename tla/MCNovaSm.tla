------------------------------ MODULE MCNovaSm ------------------------------
(* Two CPUs; semaphores shared between them.                               *)
EXTENDS Nova, TLC

CONSTANTS m1, m2, c1, c2, i1, i2, a, b, si1, si2, sa, sb

MCEcCpu == (i1 :> c1) @@ (a :> c1) @@ (i2 :> c2) @@ (b :> c2)
MCScEc  == (si1 :> i1) @@ (sa :> a) @@ (si2 :> i2) @@ (sb :> b)
MCPrio  == (si1 :> 0) @@ (sa :> 1) @@ (si2 :> 0) @@ (sb :> 1)
MCIdle  == (c1 :> si1) @@ (c2 :> si2)
MCBoot  == (c1 :> (0 :> <<>> @@ 1 :> <<sa>>)) @@ (c2 :> (0 :> <<>> @@ 1 :> <<sb>>))
MCInit  == [m \in SMs |-> 0]
=============================================================================
