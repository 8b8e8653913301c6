------------------------------ MODULE FifoLock ------------------------------
(***************************************************************************)
(* What a kernel spinlock promises its users: at most one CPU is inside    *)
(* the critical section, and CPUs enter in the order in which they asked.  *)
(* ahead[c] is the number of CPUs that will leave before CPU c may enter.  *)
(***************************************************************************)
EXTENDS Integers, FiniteSets

CONSTANTS Cpu, NoCpu

VARIABLES ahead, holder

Out == -1

Queued == {c \in Cpu : ahead[c] # Out}

Init ==
    /\ ahead = [c \in Cpu |-> Out]
    /\ holder = NoCpu

Request(c) ==
    /\ ahead[c] = Out
    /\ ahead' = [ahead EXCEPT ![c] = Cardinality(Queued)]
    /\ UNCHANGED holder

Enter(c) ==
    /\ ahead[c] = 0
    /\ holder = NoCpu
    /\ holder' = c
    /\ UNCHANGED ahead

Release(c) ==
    /\ holder = c
    /\ holder' = NoCpu
    /\ ahead' = [d \in Cpu |-> IF d = c \/ ahead[d] = Out THEN Out ELSE ahead[d] - 1]

Next == \E c \in Cpu : Request(c) \/ Enter(c) \/ Release(c)

Spec == Init /\ [][Next]_<<ahead, holder>>
=============================================================================
