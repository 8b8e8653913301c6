-------------------------------- MODULE Rcu --------------------------------
(***************************************************************************)
(* Read-copy update of src/x86_64/rcu.cpp.  A callback handed to call() is *)
(* invoked by a later update() on the same CPU, once a whole batch has     *)
(* passed: every CPU noticed its start (update, on a timer interrupt) and  *)
(* went through a quiescent state (quiet, on the way to user mode or in    *)
(* the idle loop).  The batch number and its two flags share one word that *)
(* all CPUs change without a lock; every access to it is a step.           *)
(***************************************************************************)
EXTENDS Integers, FiniteSets

CONSTANTS
    RcuCpu,     \* the online CPUs
    Elem,       \* RCU elements (Rcu_elem objects)
    Words       \* the number of values of an mword, 2^64 in the code

ASSUME RcuAssumption ==
    /\ IsFiniteSet(RcuCpu) /\ RcuCpu # {}
    /\ Words \in Nat /\ Words >= 16 /\ Words % 4 = 0
    /\ Cardinality(RcuCpu) < Words

VARIABLES
    state,      \* Rcu::state: batch number * 4 + PND + CMP
    count,      \* Rcu::count: CPUs that still owe a quiescent state
    lBatch,     \* l_batch: the batch each CPU has noticed
    cBatch,     \* c_batch: the batch the elements of curr wait for
    next, curr, done,   \* the three lists of each CPU
    hazard,     \* Hazard::RCU of each CPU
    rpc, s, v,  \* where each CPU is, and the locals of start_batch
    owes        \* history: CPUs with no quiescent state since call(e)

shared == <<state, count>>
lists  == <<next, curr, done, cBatch>>
rcuVars   == <<state, count, lBatch, cBatch, next, curr, done, hazard, rpc, s, v, owes>>

CMP == 1
PND == 2

Batch(w) == w \div 4
Flags(w) == w % 4
Has(w, f) == (w \div f) % 2 = 1
Other(f) == 3 - f

\* complete(): the signed distance from the start of batch b is positive.
Complete(b) ==
    LET w == IF Has(state, PND) THEN state - PND ELSE state
        d == (w - 4 * b) % Words
    IN  0 < d /\ d < Words \div 2

Listed == UNION {next[c] \cup curr[c] \cup done[c] : c \in RcuCpu}

RcuType ==
    /\ state \in 0 .. Words - 1
    /\ count \in 0 .. Cardinality(RcuCpu)
    /\ lBatch \in [RcuCpu -> 0 .. Batch(Words) - 1]
    /\ cBatch \in [RcuCpu -> 0 .. Batch(Words)]
    /\ next \in [RcuCpu -> SUBSET Elem]
    /\ curr \in [RcuCpu -> SUBSET Elem]
    /\ done \in [RcuCpu -> SUBSET Elem]
    /\ hazard \in [RcuCpu -> BOOLEAN]
    /\ rpc \in [RcuCpu -> {"run", "lists", "read", "cas", "count", "load", "store", "invoke"}]
    /\ s \in [RcuCpu -> {CMP, PND}]
    /\ v \in [RcuCpu -> 0 .. Words - 1]
    /\ owes \in [Elem -> SUBSET RcuCpu]

RcuInit ==
    /\ state = CMP
    /\ count = 0
    /\ lBatch = [c \in RcuCpu |-> 0]
    /\ cBatch = [c \in RcuCpu |-> 0]
    /\ next = [c \in RcuCpu |-> {}]
    /\ curr = [c \in RcuCpu |-> {}]
    /\ done = [c \in RcuCpu |-> {}]
    /\ hazard = [c \in RcuCpu |-> FALSE]
    /\ rpc = [c \in RcuCpu |-> "run"]
    /\ s = [c \in RcuCpu |-> CMP]
    /\ v = [c \in RcuCpu |-> 0]
    /\ owes = [e \in Elem |-> {}]

RcuGoto(c, l) == rpc' = [rpc EXCEPT ![c] = l]

\* start_batch() returns to the rest of update(), or to the end of quiet().
Return(c) ==
    /\ RcuGoto(c, IF s[c] = PND THEN "invoke" ELSE "run")
    /\ s' = [s EXCEPT ![c] = CMP]
    /\ v' = [v EXCEPT ![c] = 0]

\* call(): an element that is on no list is queued for the next batch.
Call(c, e) ==
    /\ rpc[c] = "run"
    /\ e \notin Listed
    /\ next' = [next EXCEPT ![c] = @ \cup {e}]
    /\ owes' = [owes EXCEPT ![e] = RcuCpu]
    /\ UNCHANGED <<state, count, lBatch, cBatch, curr, done, hazard, rpc, s, v>>

\* Mutation of UpdateBatch: a new batch is noticed without the hazard.
UpdateBatchNoHazard(c) ==
    /\ rpc[c] = "run"
    /\ lBatch' = [lBatch EXCEPT ![c] = Batch(state)]
    /\ RcuGoto(c, "lists")
    /\ UNCHANGED <<shared, lists, hazard, s, v, owes>>

\* update(), on a timer interrupt: notice a new batch.
UpdateBatch(c) ==
    /\ rpc[c] = "run"
    /\ lBatch' = [lBatch EXCEPT ![c] = Batch(state)]
    /\ hazard' = [hazard EXCEPT ![c] = @ \/ lBatch[c] # Batch(state)]
    /\ RcuGoto(c, "lists")
    /\ UNCHANGED <<shared, lists, s, v, owes>>

\* Mutation of UpdateLists: the new elements wait for the batch in progress.
UpdateListsThisBatch(c) ==
    /\ rpc[c] = "lists"
    /\ LET over  == curr[c] # {} /\ Complete(cBatch[c])
           rest  == IF over THEN {} ELSE curr[c]
           begin == rest = {} /\ next[c] # {}
       IN  /\ done' = [done EXCEPT ![c] = IF over THEN curr[c] ELSE @]
           /\ curr' = [curr EXCEPT ![c] = IF begin THEN next[c] ELSE rest]
           /\ next' = [next EXCEPT ![c] = IF begin THEN {} ELSE @]
           /\ cBatch' = [cBatch EXCEPT ![c] = IF begin THEN lBatch[c] ELSE @]
           /\ s' = [s EXCEPT ![c] = IF begin THEN PND ELSE @]
           /\ RcuGoto(c, IF begin THEN "read" ELSE "invoke")
    /\ UNCHANGED <<shared, lBatch, hazard, v, owes>>

\* update(): elements whose batch is over are done; if none wait, those
\* collected meanwhile wait for the batch after the one noticed.
UpdateLists(c) ==
    /\ rpc[c] = "lists"
    /\ LET over  == curr[c] # {} /\ Complete(cBatch[c])
           rest  == IF over THEN {} ELSE curr[c]
           begin == rest = {} /\ next[c] # {}
       IN  /\ done' = [done EXCEPT ![c] = IF over THEN curr[c] ELSE @]
           /\ curr' = [curr EXCEPT ![c] = IF begin THEN next[c] ELSE rest]
           /\ next' = [next EXCEPT ![c] = IF begin THEN {} ELSE @]
           /\ cBatch' = [cBatch EXCEPT ![c] = IF begin THEN lBatch[c] + 1 ELSE @]
           /\ s' = [s EXCEPT ![c] = IF begin THEN PND ELSE @]
           /\ RcuGoto(c, IF begin THEN "read" ELSE "invoke")
    /\ UNCHANGED <<shared, lBatch, hazard, v, owes>>

\* invoke_batch(), and the return from the timer interrupt.
InvokeBatch(c) ==
    /\ rpc[c] = "invoke"
    /\ done' = [done EXCEPT ![c] = {}]
    /\ RcuGoto(c, "run")
    /\ UNCHANGED <<shared, lBatch, cBatch, next, curr, hazard, s, v, owes>>

\* quiet(), from handle_hazard(): a quiescent state; the last one of the
\* batch reports the batch complete.
Quiet(c) ==
    /\ rpc[c] = "run"
    /\ hazard[c]
    /\ hazard' = [hazard EXCEPT ![c] = FALSE]
    /\ count' = (count - 1) % Words
    /\ owes' = [e \in Elem |-> owes[e] \ {c}]
    /\ s' = [s EXCEPT ![c] = IF count = 1 THEN CMP ELSE @]
    /\ RcuGoto(c, IF count = 1 THEN "read" ELSE "run")
    /\ UNCHANGED <<state, lBatch, lists, v>>

\* start_batch(): read the word; give up if the batch is not the one
\* noticed or the flag is set already.
StartRead(c) ==
    /\ rpc[c] = "read"
    /\ IF Batch(state) # lBatch[c] \/ Has(state, s[c])
       THEN Return(c)
       ELSE RcuGoto(c, "cas") /\ v' = [v EXCEPT ![c] = state] /\ UNCHANGED s
    /\ UNCHANGED <<shared, lBatch, lists, hazard, owes>>

\* start_batch(): set the flag if the word has not changed; who completes
\* the pair of flags starts the next batch.
StartCas(c) ==
    /\ rpc[c] = "cas"
    /\ IF state = v[c]
       THEN /\ state' = state + s[c]
            /\ IF Flags(v[c]) = Other(s[c])
               THEN RcuGoto(c, "count") /\ UNCHANGED <<s, v>>
               ELSE Return(c)
       ELSE state' = state /\ RcuGoto(c, "read") /\ UNCHANGED <<s, v>>
    /\ UNCHANGED <<count, lBatch, lists, hazard, owes>>

\* start_batch(): every CPU owes a quiescent state.
StartCount(c) ==
    /\ rpc[c] = "count"
    /\ count' = Cardinality(RcuCpu)
    /\ RcuGoto(c, "load")
    /\ UNCHANGED <<state, lBatch, lists, hazard, s, v, owes>>

\* start_batch(): state++ is no atomic instruction: a load and a store.
StartLoad(c) ==
    /\ rpc[c] = "load"
    /\ v' = [v EXCEPT ![c] = state]
    /\ RcuGoto(c, "store")
    /\ UNCHANGED <<shared, lBatch, lists, hazard, s, owes>>

StartStore(c) ==
    /\ rpc[c] = "store"
    /\ state' = (v[c] + 1) % Words
    /\ Return(c)
    /\ UNCHANGED <<count, lBatch, lists, hazard, owes>>

StartBatch(c) == StartRead(c) \/ StartCas(c) \/ StartCount(c) \/ StartLoad(c) \/ StartStore(c)

Inside(c) == UpdateLists(c) \/ InvokeBatch(c) \/ StartBatch(c)

RcuNext == \E c \in RcuCpu :
    \/ \E e \in Elem : Call(c, e)
    \/ UpdateBatch(c)
    \/ Quiet(c)
    \/ Inside(c)

RcuSpec == RcuInit /\ [][RcuNext]_rcuVars

(***************************************************************************)
(* RCU code runs to its end with interrupts off.  The timer of every CPU   *)
(* fires again and again, as each SC, the idle one included, runs under a  *)
(* budget timeout.  A pending hazard is handled at the next return to user *)
(* mode or iteration of the idle loop, between which interrupts come.      *)
(***************************************************************************)
RcuFairSpec == RcuSpec /\ \A c \in RcuCpu :
    WF_rcuVars(Inside(c)) /\ SF_rcuVars(UpdateBatch(c)) /\ SF_rcuVars(Quiet(c))

-----------------------------------------------------------------------------
Starting(c) == rpc[c] \in {"count", "load", "store"}

\* CPUs that have yet to report a quiescent state for the current batch.
Late == {c \in RcuCpu : lBatch[c] # Batch(state) \/ hazard[c]}

\* No callback is invoked before every CPU went through a quiescent state
\* after the element was handed to call().
GracePeriod == \A c \in RcuCpu : \A e \in done[c] : owes[e] = {}

\* The unlocked counter is right: while a batch is in progress it says how
\* many CPUs are late, and nobody decrements it once it is zero.
CountExact ==
    /\ RcuType
    /\ \/ \E c \in RcuCpu : Starting(c)
       \/ count = Cardinality(Late)

\* The plain increment of the shared word is safe: the CPU that starts a
\* batch is alone, and the word keeps both flags until it stores.
OneStarter == \A c \in RcuCpu : Starting(c) =>
    /\ \A d \in RcuCpu \ {c} : ~Starting(d)
    /\ Flags(state) = CMP + PND
    /\ rpc[c] = "store" => v[c] = state

\* RCU is safe although start_batch() races for one word without a lock: no
\* callback before its grace period, an exact count, and one starter.
RcuSafe == GracePeriod /\ CountExact /\ OneStarter

\* Every callback handed to call() is invoked.
Invoked == \A e \in Elem : (\E c \in RcuCpu : e \in next[c]) ~> (e \notin Listed)
=============================================================================
