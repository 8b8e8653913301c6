----------------------------- MODULE MCNovaIpc ------------------------------
(* Nova: one CPU, two clients of different priority, two portal handlers,  *)
(* and a semaphore that handlers block on and interrupts signal.           *)
(* Recall: three CPUs, one with two ECs; all three recall one of these and *)
(* the EC of another CPU.                                                  *)
(* A behaviour is one of one part; the other rests.                        *)
EXTENDS Nova, Recall, TLC

CONSTANTS c1, c2, c3, i1, x, y, hs, ht, si1, sx, sy, m1

VARIABLE part

MCEcCpu == [e \in ECs |-> c1]
MCScEc  == (si1 :> i1) @@ (sx :> x) @@ (sy :> y)
MCPrio  == (si1 :> 0) @@ (sx :> 1) @@ (sy :> 2)
MCIdle  == (c1 :> si1)
MCBoot  == (c1 :> (0 :> <<>> @@ 1 :> <<sx>> @@ 2 :> <<>>))
MCInit  == [m \in SMs |-> 0]

MCRecHome == (x :> c1) @@ (y :> c1) @@ (hs :> c2) @@ (ht :> c3)

IpcInit == /\ part \in {"nova", "recall"} /\ Init /\ RecallInit
           /\ part = "nova" => rcur[c1] = x
           /\ part = "recall" => \A e \in ECs : want[e] = NoEc

IpcNext == \/ part = "nova" /\ Next /\ UNCHANGED <<part, recallVars>>
           \/ part = "recall" /\ RecallNext /\ UNCHANGED <<part, vars>>

IpcSpec == IpcInit /\ [][IpcNext]_<<part, vars, recallVars>>
=============================================================================
