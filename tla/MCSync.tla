------------------------------- MODULE MCSync -------------------------------
(***************************************************************************)
(* What CPUs use to wait for each other, under fairness: the spinlock with *)
(* three CPUs and three tickets (the counters wrap after three locks, and  *)
(* all tickets can be out at once), and RCU with two CPUs and batch        *)
(* numbers that wrap.  A behaviour is one of one part; the other rests.    *)
(***************************************************************************)
EXTENDS Spinlock, Rcu

VARIABLE part

parts == <<part, vars, rcuVars>>

InSpinlock(A) == part = "spinlock" /\ A /\ UNCHANGED <<part, rcuVars>>
InRcu(A)      == part = "rcu" /\ A /\ UNCHANGED <<part, vars>>

SyncInit == part \in {"spinlock", "rcu"} /\ Init /\ RcuInit

SyncNext == InSpinlock(Next) \/ InRcu(RcuNext)

\* The fairness of FairSpec and of RcuFairSpec, each for its part.
SyncFair ==
    /\ \A c \in Cpu : WF_parts(InSpinlock(Enter(c) \/ Reload(c) \/ Unlock(c)))
    /\ \A c \in RcuCpu : /\ WF_parts(InRcu(Inside(c)))
                         /\ SF_parts(InRcu(UpdateBatch(c)))
                         /\ SF_parts(InRcu(Quiet(c)))

SyncSpec == SyncInit /\ [][SyncNext]_parts /\ SyncFair
=============================================================================
