------------------------------ MODULE Spinlock ------------------------------
(***************************************************************************)
(* The ticket spinlock of inc/x86_64/spinlock.hpp (inc/aarch64 has the     *)
(* same algorithm).  The lock word val holds nxt, the next ticket to give  *)
(* out, in its upper half and cur, the ticket being served, in its lower   *)
(* half; both wrap.  The critical sections of all other modules are atomic *)
(* because this lock implements FifoLock.                                  *)
(***************************************************************************)
EXTENDS Integers, FiniteSets

CONSTANTS
    Cpu,        \* the CPUs that share the lock
    NoCpu,      \* no CPU
    Tickets     \* the number of ticket values, 2^16 in the code

\* A CPU holds at most one ticket of a lock: it spins with interrupts off.
\* So tickets cannot run out when there are as many as CPUs.
ASSUME SpinlockAssumption ==
    /\ IsFiniteSet(Cpu)
    /\ NoCpu \notin Cpu
    /\ Tickets \in Nat \ {0}
    /\ Cardinality(Cpu) <= Tickets

VARIABLES
    nxt,        \* val[31:16]
    cur,        \* val[15:0]
    pc,         \* where each CPU is: "out", "spin" or "in" the section
    tkt,        \* register of lock(): the ticket drawn
    seen        \* register of lock(): the value of cur read last

vars == <<nxt, cur, pc, tkt, seen>>

Values == 0 .. Tickets - 1

TypeOK ==
    /\ nxt \in Values
    /\ cur \in Values
    /\ pc \in [Cpu -> {"out", "spin", "in"}]
    /\ tkt \in [Cpu -> Values]
    /\ seen \in [Cpu -> Values]

Init ==
    /\ nxt = 0
    /\ cur = 0
    /\ pc = [c \in Cpu |-> "out"]
    /\ tkt = [c \in Cpu |-> 0]
    /\ seen = [c \in Cpu |-> 0]

\* lock xadd: draw a ticket and read cur in one step.
Xadd(c) ==
    /\ pc[c] = "out"
    /\ tkt' = [tkt EXCEPT ![c] = nxt]
    /\ seen' = [seen EXCEPT ![c] = cur]
    /\ nxt' = (nxt + 1) % Tickets
    /\ pc' = [pc EXCEPT ![c] = "spin"]
    /\ UNCHANGED cur

\* Mutation of Enter: any ticket already called is let in.
EnterBehind(c) ==
    /\ pc[c] = "spin"
    /\ seen[c] >= tkt[c]
    /\ pc' = [pc EXCEPT ![c] = "in"]
    /\ UNCHANGED <<nxt, cur, tkt, seen>>

\* je 2f: the ticket read last is ours.
Enter(c) ==
    /\ pc[c] = "spin"
    /\ seen[c] = tkt[c]
    /\ pc' = [pc EXCEPT ![c] = "in"]
    /\ UNCHANGED <<nxt, cur, tkt, seen>>

\* Mutation of Reload: the loop compares the same value again.
ReloadNothing(c) ==
    /\ pc[c] = "spin"
    /\ seen[c] # tkt[c]
    /\ UNCHANGED vars

\* Read cur once more and try again.
Reload(c) ==
    /\ pc[c] = "spin"
    /\ seen[c] # tkt[c]
    /\ seen' = [seen EXCEPT ![c] = cur]
    /\ UNCHANGED <<nxt, cur, pc, tkt>>

\* Mutation of Unlock: a 32-bit increment, whose carry reaches nxt.
UnlockCarry(c) ==
    /\ pc[c] = "in"
    /\ cur' = (cur + 1) % Tickets
    /\ nxt' = IF cur = Tickets - 1 THEN (nxt + 1) % Tickets ELSE nxt
    /\ pc' = [pc EXCEPT ![c] = "out"]
    /\ UNCHANGED <<tkt, seen>>

\* unlock(): incw, a 16-bit increment that never carries into nxt.
Unlock(c) ==
    /\ pc[c] = "in"
    /\ cur' = (cur + 1) % Tickets
    /\ pc' = [pc EXCEPT ![c] = "out"]
    /\ UNCHANGED <<nxt, tkt, seen>>

Next == \E c \in Cpu : Xadd(c) \/ Enter(c) \/ Reload(c) \/ Unlock(c)

Spec == Init /\ [][Next]_vars

(***************************************************************************)
(* Every critical section of the kernel is finite code that runs with      *)
(* interrupts off, so a CPU that spins or holds the lock keeps running.    *)
(***************************************************************************)
FairSpec == Spec /\ \A c \in Cpu : WF_vars(Enter(c) \/ Reload(c) \/ Unlock(c))

-----------------------------------------------------------------------------
\* How far a ticket is from being served.
Distance(t) == IF t >= cur THEN t - cur ELSE t - cur + Tickets

Holders == {c \in Cpu : pc[c] = "in"}
Drawn   == {c \in Cpu : pc[c] # "out"}

\* At most one CPU is between lock() and unlock(), although the tickets
\* wrap and a CPU decides by a value of cur that it read earlier.
MutualExclusion == \A c, d \in Holders : c = d

\* The tickets drawn and not yet returned are exactly the window from cur
\* up to nxt, each drawn once; a CPU only sees its own ticket called when
\* it is at the front.
TicketWindow ==
    /\ \A c \in Drawn : Distance(tkt[c]) < Cardinality(Drawn)
    /\ \A c, d \in Drawn : tkt[c] = tkt[d] => c = d
    /\ nxt = (cur + Cardinality(Drawn)) % Tickets
    /\ \A c \in Drawn : seen[c] = tkt[c] => tkt[c] = cur
    /\ \A c \in Holders : seen[c] = tkt[c]

\* The lock is first come, first served: the distance of its ticket is the
\* number of CPUs before it.
Ahead  == [c \in Cpu |-> IF pc[c] = "out" THEN -1 ELSE Distance(tkt[c])]
Holder == IF Holders = {} THEN NoCpu ELSE CHOOSE c \in Holders : TRUE

Lock == INSTANCE FifoLock WITH ahead <- Ahead, holder <- Holder

ImplementsFifoLock == Lock!Spec

\* A CPU that has drawn a ticket gets the lock.
StarvationFree == \A c \in Cpu : pc[c] = "spin" ~> pc[c] = "in"
=============================================================================
