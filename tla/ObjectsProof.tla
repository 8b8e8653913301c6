----------------------------- MODULE ObjectsProof -----------------------------
(***************************************************************************)
(* Proofs about timeouts, the creation of kernel objects and their slabs.  *)
(*                                                                         *)
(* The timeout list: for any finite number of timeouts and any bound on    *)
(* time, tick ratio and width of the count register.  TimerArmed is not    *)
(* inductive, because it is silent while check() runs: TimerSet adds what  *)
(* the timer is set to then.                                               *)
(*                                                                         *)
(* Creation: for any number of threads, objects and bitmaps.  CreateExact  *)
(* says nothing of objects under construction and delegations under way,   *)
(* on which the next state depends: Constructions, ObjectsSound and        *)
(* Delegations do.                                                         *)
(*                                                                         *)
(* Slabs: for any pages and sizes.  SlabSafe follows the links from head;  *)
(* SlabList names the sequence of slabs they run through, which every      *)
(* operation changes in one place.                                         *)
(***************************************************************************)
EXTENDS Create, Timeout, Slab, FiniteSetTheorems, NaturalsInduction, WellFoundedInduction, TLAPS

(***************************************************************************)
(* What TimerArmed leaves open while check() runs, and about a timer that  *)
(* has fired: the timer is set to the head's time or, counting down, to    *)
(* the end of a tick that has begun; a timer that is off has fired for a   *)
(* head that has expired, and check() runs or is about to.                 *)
(***************************************************************************)
TimerSet ==
    tlist # NoTimeout /\ ~early =>
        /\ kind # "countdown" => fire \in {ttime[tlist], Off}
        /\ kind = "compare" => fire = ttime[tlist]
        /\ kind = "countdown" /\ fire # Off =>
              fire >= ttime[tlist] /\ (fire <= ttime[tlist] \/ fire <= now + Ratio)
        /\ fire = Off => ttime[tlist] <= now /\ (loop \/ irq)

TimeoutInv == TimeoutType /\ TimeoutsLinked /\ TimerSet

-----------------------------------------------------------------------------
\* A list whose head is earlier than time has a last timeout that is earlier than
\* time: otherwise tnext would map the earlier ones, which are finitely many, into
\* themselves without ever reaching the head, and no two of them to the same.
LEMMA InsertionPoint ==
    ASSUME TimeoutInv, NEW time \in 0 .. MaxTime, tlist # NoTimeout, ttime[tlist] < time
    PROVE  Before(time) # {}
<1> SUFFICES ASSUME Before(time) = {} PROVE FALSE
  OBVIOUS
<1> DEFINE A == {p \in OnList : ttime[p] < time}
<1> DEFINE B == A \ {tlist}
<1> DEFINE f == [p \in A |-> tnext[p]]
<1> USE TimeoutAssumption
<1>1. tlist \in A /\ A \subseteq Timeouts
  BY DEF TimeoutInv, TimeoutType, OnList, Queued
<1>2. \A p \in A : tnext[p] # NoTimeout /\ tnext[p] \in Timeouts /\ ttime[tnext[p]] < time
  BY <1>1 DEF Before, TimeoutInv, TimeoutType
<1>3. \A p \in A : tnext[p] \in OnList /\ tprev[tnext[p]] = p /\ tnext[p] # tlist
  <2> TAKE p \in A
  <2>1. p \in Timeouts /\ tnext[p] # NoTimeout /\ tnext[p] \in Timeouts
    BY <1>1, <1>2
  <2>2. tprev[tnext[p]] = p
    BY <2>1 DEF TimeoutInv, TimeoutsLinked
  <2>3. tprev[tlist] = NoTimeout
    BY DEF TimeoutInv, TimeoutsLinked
  <2> QED
    BY <2>1, <2>2, <2>3 DEF OnList, Queued
<1>4. IsFiniteSet(A) /\ IsFiniteSet(B) /\ Cardinality(B) = Cardinality(A) - 1
  BY <1>1, FS_Subset, FS_RemoveElement
<1>5. f \in [A -> B]
  BY <1>2, <1>3
<1>6. Cardinality(A) \in Nat /\ Cardinality(B) < Cardinality(A)
  BY <1>4, FS_CardinalityType
<1>7. \E x, y \in A : x # y /\ f[x] = f[y]
  <2> HIDE DEF A, B, f
  <2> QED
    BY <1>4, <1>5, <1>6, FS_PigeonHole
<1> QED
  BY <1>3, <1>7

\* The count-down never ends at the time that means it is off, and not later
\* than it should, but for the rest of a tick.
LEMMA CountEnds ==
    ASSUME TimeoutInv, NEW t \in 0 .. MaxTime, SetCount(t)
    PROVE  /\ fire' \in Nat /\ fire' # Off /\ early' \in BOOLEAN
           /\ ~early' => fire' >= t
           /\ fire' <= t \/ fire' <= now + Ratio
<1> USE TimeoutAssumption
<1> DEFINE d == (t - now) % CountRange
<1> DEFINE icr == IF t > now THEN d \div Ratio ELSE 0
<1>1. now \in 0 .. MaxTime /\ Ratio \in Nat /\ Ratio > 0
  BY DEF TimeoutInv, TimeoutType
<1> DEFINE end == now + Ratio * (IF icr > 0 THEN icr ELSE 1)
<1>2. end \in Nat /\ end <= MaxTime + Ratio /\ (end <= t \/ end <= now + Ratio)
  <2>1. CASE icr > 0
    <3>1. t > now /\ t - now \in Nat
      BY <1>1, <2>1
    <3>2. d \in Nat /\ d <= t - now
      BY <3>1
    <3>3. icr \in Nat /\ Ratio * icr \in Nat /\ Ratio * icr <= d
      BY <3>1, <3>2, <1>1
    <3>4. end = now + Ratio * icr
      BY <2>1
    <3> HIDE DEF end, icr, d
    <3> QED
      BY <3>2, <3>3, <3>4, <1>1
  <2>2. CASE ~(icr > 0)
    <3>1. end = now + Ratio
      BY <2>2, <1>1
    <3> QED
      BY <3>1, <1>1
  <2> QED
    BY <2>1, <2>2
<1>3. fire' = end /\ early' = (end < t)
  BY DEF SetCount
<1> HIDE DEF end
<1>4. (end < t) \in BOOLEAN
  BY <1>1, <1>2
<1>5. early' \in BOOLEAN /\ (~early' => ~(end < t))
  <2>1. PICK b : b = (end < t)
    OBVIOUS
  <2>2. early' = b /\ b \in BOOLEAN
    BY <1>3, <1>4, <2>1, Zenon
  <2> QED
    BY <2>1, <2>2, Zenon
<1> QED
  BY <1>1, <1>2, <1>3, <1>5 DEF Off

\* Programming the timer for a time sets it to that time or, counting down, to a
\* later one, unless the count was cut short.
LEMMA DeadlineSet ==
    ASSUME TimeoutInv, NEW t \in 0 .. MaxTime, SetDeadline(t)
    PROVE  /\ fire' \in Nat /\ fire' # Off /\ early' \in BOOLEAN
           /\ kind # "countdown" => fire' = t
           /\ kind = "countdown" /\ ~early' =>
                 fire' >= t /\ (fire' <= t \/ fire' <= now + Ratio)
<1>1. CASE kind = "countdown"
  BY <1>1, CountEnds DEF SetDeadline
<1>2. CASE kind # "countdown"
  <2>1. fire' = t /\ early' = FALSE
    BY <1>2 DEF SetDeadline
  <2>2. early' \in BOOLEAN
    BY <2>1, Zenon
  <2> QED
    BY <1>2, <2>1, <2>2, TimeoutAssumption DEF Off
<1> QED
  BY <1>1, <1>2

\* sync() leaves the timer set for the head it is given.
LEMMA Synchronised ==
    ASSUME TimeoutInv, NEW h \in Timeouts \cup {NoTimeout}, NEW times \in [Timeouts -> 0 .. MaxTime],
           TimerSync(h, times)
    PROVE  /\ fire' \in Nat /\ early' \in BOOLEAN
           /\ h # NoTimeout /\ ~early' =>
                /\ fire' # Off
                /\ kind # "countdown" => fire' = times[h]
                /\ kind = "countdown" =>
                      fire' >= times[h] /\ (fire' <= times[h] \/ fire' <= now + Ratio)
<1>1. CASE h # NoTimeout
  <2>1. times[h] \in 0 .. MaxTime /\ SetDeadline(times[h])
    BY <1>1 DEF TimerSync
  <2> QED
    BY <2>1, DeadlineSet
<1>2. CASE h = NoTimeout
  <2>1. StopTimer
    BY <1>2 DEF TimerSync
  <2>2. early' \in BOOLEAN
    BY <2>1, Zenon DEF StopTimer, TimeoutInv, TimeoutType
  <2> QED
    BY <2>1, <2>2, <1>2, TimeoutAssumption DEF StopTimer, TimeoutInv, TimeoutType, Off
<1> QED
  BY <1>1, <1>2

-----------------------------------------------------------------------------
\* The initial states satisfy the invariant: the list is empty and the timer off.
LEMMA TimeoutInitInv == TimeoutInit => TimeoutInv
<1> SUFFICES ASSUME TimeoutInit PROVE TimeoutInv
  OBVIOUS
<1>1. irq \in BOOLEAN /\ loop \in BOOLEAN /\ early \in BOOLEAN
  BY Zenon DEF TimeoutInit
<1>2. TimeoutType
  BY <1>1, TimeoutAssumption DEF TimeoutInit, TimeoutType, Off
<1> QED
  BY <1>2, TimeoutAssumption DEF TimeoutInit, TimeoutInv, TimeoutsLinked, TimerSet

\* enqueue() keeps the list sorted and linked, and the timer set for its head.
LEMMA TEnqueueInv ==
    ASSUME TimeoutInv, NEW t \in Timeouts, NEW time \in 0 .. MaxTime, TEnqueue(t, time)
    PROVE  TimeoutInv'
<1> USE TimeoutAssumption
<1> DEFINE P == IF Before(time) = {} THEN NoTimeout ELSE CHOOSE p \in Before(time) : TRUE
<1> DEFINE N == IF P = NoTimeout THEN tlist ELSE tnext[P]
<1>1. PICK before : before = P
  OBVIOUS
<1>2. PICK after : after = N
  OBVIOUS
<1>3. /\ ~loop /\ ~Queued(t)
      /\ tprev' = [u \in Timeouts |-> IF u = t THEN before ELSE IF u = after THEN t ELSE tprev[u]]
      /\ tnext' = [u \in Timeouts |-> IF u = t THEN after ELSE IF u = before THEN t ELSE tnext[u]]
      /\ ttime' = [ttime EXCEPT ![t] = time]
      /\ tlist' = IF before = NoTimeout THEN t ELSE tlist
      /\ IF before = NoTimeout THEN TimerSync(t, ttime') ELSE UNCHANGED <<fire, early>>
      /\ UNCHANGED <<kind, now, irq, loop>>
  BY <1>1, <1>2 DEF TEnqueue
<1>4. after = IF before = NoTimeout THEN tlist ELSE tnext[before]
  BY <1>1, <1>2
<1>5. before # NoTimeout =>
        /\ before \in Timeouts /\ Queued(before) /\ ttime[before] < time
        /\ tnext[before] = NoTimeout \/ ttime[tnext[before]] >= time
  <2> SUFFICES ASSUME before # NoTimeout PROVE before \in Before(time)
    BY DEF Before, OnList
  <2> QED
    BY <1>1
<1>6. before = NoTimeout /\ tlist # NoTimeout => ttime[tlist] >= time
  <2> SUFFICES ASSUME before = NoTimeout, tlist # NoTimeout, ttime[tlist] < time PROVE FALSE
    BY DEF TimeoutInv, TimeoutType
  <2>1. Before(time) # {}
    BY InsertionPoint
  <2>2. before \in Before(time)
    BY <1>1, <2>1
  <2> QED
    BY <2>2 DEF Before, OnList
<1> HIDE DEF P, N
<1>7. TimeoutType' /\ ttime' \in [Timeouts -> 0 .. MaxTime]
  <2>1. after \in Timeouts \cup {NoTimeout} /\ before \in Timeouts \cup {NoTimeout}
    BY <1>4, <1>5 DEF TimeoutInv, TimeoutType
  <2>2. ttime' \in [Timeouts -> 0 .. MaxTime]
    BY <1>3 DEF TimeoutInv, TimeoutType
  <2>3. fire' \in Nat /\ early' \in BOOLEAN
    <3>1. CASE before = NoTimeout
      <4>1. PICK times : times = ttime'
        OBVIOUS
      <4>2. TimerSync(t, times)
        BY <1>3, <3>1, <4>1
      <4> QED
        BY <4>1, <4>2, <2>2, Synchronised
    <3>2. CASE before # NoTimeout
      BY <1>3, <3>2 DEF TimeoutInv, TimeoutType
    <3> QED
      BY <3>1, <3>2
  <2>4. tprev' \in [Timeouts -> Timeouts \cup {NoTimeout}]
    BY <1>3, <2>1 DEF TimeoutInv, TimeoutType
  <2>5. tnext' \in [Timeouts -> Timeouts \cup {NoTimeout}]
    BY <1>3, <2>1 DEF TimeoutInv, TimeoutType
  <2> QED
    BY <1>3, <2>1, <2>2, <2>3, <2>4, <2>5 DEF TimeoutInv, TimeoutType
<1>8. TimeoutsLinked'
  <2>1. tlist # t /\ tprev[t] = NoTimeout /\ tnext[t] = NoTimeout
    BY <1>3 DEF TimeoutInv, TimeoutsLinked, Queued
  <2>2. \A u \in Timeouts : /\ tprev'[u] = IF u = t THEN before ELSE IF u = after THEN t ELSE tprev[u]
                            /\ tnext'[u] = IF u = t THEN after ELSE IF u = before THEN t ELSE tnext[u]
                            /\ ttime'[u] = IF u = t THEN time ELSE ttime[u]
    BY <1>3 DEF TimeoutInv, TimeoutType
  <2>3. after # t /\ before # t
    BY <1>3, <1>4, <1>5, <2>1 DEF TimeoutInv, TimeoutsLinked, Queued
  <2>4. after # NoTimeout => after \in Timeouts /\ ttime[after] >= time /\ tprev[after] = before
    BY <1>4, <1>5, <1>6 DEF TimeoutInv, TimeoutType, TimeoutsLinked
  <2>5. tlist' # NoTimeout => tprev'[tlist'] = NoTimeout
    BY <1>3, <1>4, <1>5, <2>1, <2>2, <2>4 DEF TimeoutInv, TimeoutType, TimeoutsLinked
  <2>6. ASSUME NEW u \in Timeouts, tnext'[u] # NoTimeout
        PROVE  Queued(u)' /\ tprev'[tnext'[u]] = u /\ ttime'[u] <= ttime'[tnext'[u]]
    <3>1. CASE u = t
      <4>1. tnext'[u] = after /\ after \in Timeouts
        BY <2>2, <2>4, <2>6, <3>1
      <4>2. Queued(u)'
        BY <1>3, <3>1, <2>2 DEF Queued
      <4> QED
        BY <4>1, <4>2, <3>1, <2>2, <2>3, <2>4
    <3>2. CASE u # t /\ u = before
      <4>1. tnext'[u] = t
        BY <2>2, <3>2
      <4>2. tprev'[u] = tprev[u] /\ tlist' = tlist /\ Queued(u)
        <5>1. u # after
          BY <2>4, <1>4, <1>5, <3>2 DEF TimeoutInv, TimeoutType, TimeoutsLinked
        <5> QED
          BY <5>1, <2>2, <3>2, <1>3, <1>5, TimeoutAssumption
      <4> QED
        BY <4>1, <4>2, <3>2, <2>2, <1>5 DEF Queued, TimeoutInv, TimeoutType
    <3>3. CASE u # t /\ u # before
      <4>1. tnext'[u] = tnext[u] /\ tnext[u] \in Timeouts /\ tprev[tnext[u]] = u
            /\ ttime[u] <= ttime[tnext[u]] /\ Queued(u)
        BY <2>2, <2>6, <3>3 DEF TimeoutInv, TimeoutType, TimeoutsLinked
      <4>2. tnext[u] # t /\ tnext[u] # after
        BY <4>1, <2>1, <2>4, <3>3
      <4>3. Queued(u)'
        BY <4>1, <2>2, <1>3, <1>4, <3>3 DEF Queued
      <4> QED
        BY <4>1, <4>2, <4>3, <2>2, <3>3
    <3> QED
      BY <3>1, <3>2, <3>3
  <2>7. ASSUME NEW u \in Timeouts, tprev'[u] # NoTimeout PROVE tnext'[tprev'[u]] = u
    <3>1. CASE u = t
      BY <3>1, <2>2, <2>3, <2>7, <1>5
    <3>2. CASE u # t /\ u = after
      BY <3>2, <2>2, <2>3
    <3>3. CASE u # t /\ u # after
      <4>1. tprev'[u] = tprev[u] /\ tprev[u] \in Timeouts /\ tnext[tprev[u]] = u
        BY <2>2, <2>7, <3>3 DEF TimeoutInv, TimeoutType, TimeoutsLinked
      <4>2. tprev[u] # t /\ tprev[u] # before
        BY <4>1, <2>1, <1>4, <3>3
      <4> QED
        BY <4>1, <4>2, <2>2
    <3> QED
      BY <3>1, <3>2, <3>3
  <2> QED
    BY <2>5, <2>6, <2>7 DEF TimeoutsLinked
<1>9. TimerSet'
  <2>1. CASE before = NoTimeout
    <3>1. PICK times : times = ttime'
      OBVIOUS
    <3>2. TimerSync(t, times) /\ times \in [Timeouts -> 0 .. MaxTime] /\ tlist' = t
      BY <1>3, <1>7, <2>1, <3>1
    <3> QED
      BY <1>3, <3>1, <3>2, Synchronised DEF TimerSet, TimeoutInv, TimeoutType, TimerKinds
  <2>2. CASE before # NoTimeout
    <3>1. tlist # t /\ tlist' = tlist /\ UNCHANGED <<fire, early>>
      BY <1>3, <2>2 DEF Queued
    <3>2. tlist # NoTimeout => ttime'[tlist'] = ttime[tlist]
      BY <1>3, <3>1 DEF TimeoutInv, TimeoutType
    <3> QED
      BY <1>3, <3>1, <3>2 DEF TimerSet, TimeoutInv
  <2> QED
    BY <2>1, <2>2
<1> QED
  BY <1>7, <1>8, <1>9 DEF TimeoutInv

\* Taking a timeout off the list keeps the rest linked and the timer set for the head.
LEMMA UnlinkInv ==
    ASSUME TimeoutInv, NEW t \in Timeouts, Queued(t), Unlink(t), UNCHANGED <<kind, now, irq, loop>>
    PROVE  TimeoutInv'
<1> USE TimeoutAssumption
<1>1. /\ tnext[t] \in Timeouts \cup {NoTimeout} /\ tprev[t] \in Timeouts \cup {NoTimeout}
      /\ ttime \in [Timeouts -> 0 .. MaxTime]
  BY DEF TimeoutInv, TimeoutType
<1>2. \A u \in Timeouts :
        /\ tprev'[u] = IF u = t THEN NoTimeout ELSE IF u = tnext[t] THEN tprev[t] ELSE tprev[u]
        /\ tnext'[u] = IF u = t THEN NoTimeout ELSE IF u = tprev[t] THEN tnext[t] ELSE tnext[u]
        /\ ttime'[u] = ttime[u]
  BY DEF Unlink
<1>3. tlist' = IF tprev[t] = NoTimeout THEN tnext[t] ELSE tlist
  BY DEF Unlink
<1>4. tprev[t] = NoTimeout => tlist = t
  BY DEF Queued
<1>6. TimeoutType'
  <2>1. fire' \in Nat /\ early' \in BOOLEAN
    <3>1. CASE tprev[t] = NoTimeout
      <4>1. TimerSync(tnext[t], ttime)
        BY <3>1 DEF Unlink
      <4> QED
        BY <4>1, <1>1, Synchronised
    <3>2. CASE tprev[t] # NoTimeout
      BY <3>2 DEF Unlink, TimeoutInv, TimeoutType
    <3> QED
      BY <3>1, <3>2
  <2> QED
    BY <2>1, <1>1, <1>3 DEF Unlink, TimeoutInv, TimeoutType
<1>7. TimeoutsLinked'
  <2>1. tlist' # NoTimeout => tprev'[tlist'] = NoTimeout
    BY <1>1, <1>2, <1>3, <1>4 DEF TimeoutInv, TimeoutType, TimeoutsLinked
  <2>2. ASSUME NEW u \in Timeouts, tnext'[u] # NoTimeout
        PROVE  Queued(u)' /\ tprev'[tnext'[u]] = u /\ ttime'[u] <= ttime'[tnext'[u]]
    <3>1. u # t
      BY <2>2, <1>2
    <3>2. Queued(u) => Queued(u)'
      BY <1>2, <1>3, <1>4, <3>1 DEF Queued
    <3>3. CASE u = tprev[t]
      <4>1. tnext[u] = t /\ tnext'[u] = tnext[t] /\ tnext[t] \in Timeouts /\ Queued(u)
        BY <3>1, <3>3, <2>2, <1>1, <1>2 DEF TimeoutInv, TimeoutType, TimeoutsLinked
      <4>2. tnext[t] # t /\ ttime[t] <= ttime[tnext[t]] /\ ttime[u] <= ttime[t]
        BY <4>1, <3>1, <3>3 DEF TimeoutInv, TimeoutType, TimeoutsLinked
      <4> QED
        BY <4>1, <4>2, <3>2, <3>3, <1>2, <1>1
    <3>4. CASE u # tprev[t]
      <4>1. tnext'[u] = tnext[u] /\ tnext[u] \in Timeouts /\ Queued(u)
            /\ tprev[tnext[u]] = u /\ ttime[u] <= ttime[tnext[u]]
        BY <3>1, <3>4, <2>2, <1>2 DEF TimeoutInv, TimeoutType, TimeoutsLinked
      <4>2. tnext[u] # t /\ tnext[u] # tnext[t]
        BY <4>1, <3>1, <3>4 DEF TimeoutInv, TimeoutsLinked
      <4> QED
        BY <4>1, <4>2, <3>2, <1>2
    <3> QED
      BY <3>3, <3>4
  <2>3. ASSUME NEW u \in Timeouts, tprev'[u] # NoTimeout PROVE tnext'[tprev'[u]] = u
    <3>1. u # t
      BY <2>3, <1>2
    <3>2. CASE u = tnext[t]
      BY <3>1, <3>2, <2>3, <1>1, <1>2 DEF TimeoutInv, TimeoutType, TimeoutsLinked
    <3>3. CASE u # tnext[t]
      BY <3>1, <3>3, <2>3, <1>1, <1>2 DEF TimeoutInv, TimeoutType, TimeoutsLinked
    <3> QED
      BY <3>2, <3>3
  <2> QED
    BY <2>1, <2>2, <2>3 DEF TimeoutsLinked
<1>8. TimerSet'
  <2>1. CASE tprev[t] = NoTimeout
    <3>1. TimerSync(tnext[t], ttime)
      BY <2>1 DEF Unlink
    <3> QED
      BY <3>1, <1>1, <1>3, <2>1, Synchronised DEF TimerSet, TimeoutInv, TimeoutType, TimerKinds, Unlink
  <2>2. CASE tprev[t] # NoTimeout
    BY <2>2, <1>3 DEF Unlink, TimerSet, TimeoutInv
  <2> QED
    BY <2>1, <2>2
<1> QED
  BY <1>6, <1>7, <1>8 DEF TimeoutInv

\* dequeue() of a timeout that is not queued changes nothing.
LEMMA TDequeueInv == ASSUME TimeoutInv, NEW t \in Timeouts, TDequeue(t) PROVE TimeoutInv'
<1>1. CASE Queued(t)
  BY <1>1, UnlinkInv DEF TDequeue
<1>2. CASE ~Queued(t)
  BY <1>2 DEF TDequeue, TimeoutInv, TimeoutType, TimeoutsLinked, TimerSet, Queued, tlinks
<1> QED
  BY <1>1, <1>2

\* The interrupt: a timer that is off has fired for the head, so check() looks at it.
LEMMA TInterruptInv == ASSUME TimeoutInv, TInterrupt PROVE TimeoutInv'
<1>1. irq' \in BOOLEAN /\ loop' \in BOOLEAN
  BY Zenon DEF TInterrupt
<1>2. TimeoutType'
  BY <1>1 DEF TInterrupt, TimeoutInv, TimeoutType, tlinks
<1>3. TimeoutsLinked'
  BY DEF TInterrupt, TimeoutInv, TimeoutsLinked, Queued, tlinks
<1>4. TimerSet'
  BY DEF TInterrupt, TimeoutInv, TimerSet, tlinks
<1> QED
  BY <1>2, <1>3, <1>4 DEF TimeoutInv

\* check() takes the expired head off the list, and ends only when none has expired.
LEMMA TCheckInv == ASSUME TimeoutInv, TCheckNext \/ TCheckEnd PROVE TimeoutInv'
<1>1. CASE TCheckNext
  <2>1. tlist \in Timeouts /\ Queued(tlist)
    BY <1>1 DEF TCheckNext, Expired, TimeoutInv, TimeoutType, Queued
  <2> QED
    BY <1>1, <2>1, UnlinkInv DEF TCheckNext
<1>2. CASE TCheckEnd
  BY <1>2 DEF TCheckEnd, Expired, TimeoutInv, TimeoutType, TimeoutsLinked, TimerSet, Queued, tlinks
<1> QED
  BY <1>1, <1>2

\* After a sleep the timer is set again for the head.
LEMMA TResumeInv == ASSUME TimeoutInv, TResume PROVE TimeoutInv'
<1> USE TimeoutAssumption
<1>1. irq' \in BOOLEAN
  BY Zenon DEF TResume
<1>2. CASE tlist # NoTimeout
  <2>1. ttime[tlist] \in 0 .. MaxTime /\ SetDeadline(ttime[tlist])
    BY <1>2 DEF TResume, TimeoutInv, TimeoutType
  <2>2. /\ fire' \in Nat /\ fire' # Off /\ early' \in BOOLEAN
        /\ kind # "countdown" => fire' = ttime[tlist]
        /\ kind = "countdown" /\ ~early' =>
              fire' >= ttime[tlist] /\ (fire' <= ttime[tlist] \/ fire' <= now + Ratio)
    BY <2>1, DeadlineSet
  <2> QED
    BY <1>1, <2>2, <1>2 DEF TResume, TimeoutInv, TimeoutType, TimerKinds, TimeoutsLinked, TimerSet, Queued, tlinks
<1>3. CASE tlist = NoTimeout
  <2>1. early' \in BOOLEAN
    BY <1>3, Zenon DEF TResume
  <2> QED
    BY <1>1, <1>3, <2>1 DEF TResume, TimeoutInv, TimeoutType, TimeoutsLinked, TimerSet, Queued, tlinks, Off
<1> QED
  BY <1>2, <1>3

\* Time passes and the timer fires: it is not early, so the head has expired.
LEMMA THardwareInv == ASSUME TimeoutInv, TTick \/ TFire PROVE TimeoutInv'
<1> USE TimeoutAssumption
<1>1. CASE TTick
  BY <1>1 DEF TTick, TimeoutInv, TimeoutType, TimeoutsLinked, TimerSet, Queued, tlinks
<1>2. CASE TFire
  <2>1. irq' \in BOOLEAN
    BY <1>2, Zenon DEF TFire
  <2>2. TimeoutType'
    BY <1>2, <2>1 DEF TFire, TimeoutInv, TimeoutType, tlinks, Off
  <2>3. TimeoutsLinked'
    BY <1>2 DEF TFire, TimeoutInv, TimeoutsLinked, Queued, tlinks
  <2>4. TimerSet'
    BY <1>2 DEF TFire, TimeoutInv, TimeoutType, TimerKinds, TimerSet, tlinks, Off
  <2> QED
    BY <2>2, <2>3, <2>4 DEF TimeoutInv
<1> QED
  BY <1>1, <1>2

\* Every step keeps the invariant.
LEMMA TimeoutInductive == TimeoutInv /\ [TimeoutNext]_tvars => TimeoutInv'
<1> SUFFICES ASSUME TimeoutInv, [TimeoutNext]_tvars PROVE TimeoutInv'
  OBVIOUS
<1>1. CASE UNCHANGED tvars
  BY <1>1 DEF tvars, TimeoutInv, TimeoutType, TimeoutsLinked, TimerSet, Queued
<1>2. CASE TimeoutNext
  BY <1>2, TEnqueueInv, TDequeueInv, TInterruptInv, TCheckInv, TResumeInv, THardwareInv DEF TimeoutNext
<1> QED
  BY <1>1, <1>2

\* No timeout is missed: in every reachable state the list is sorted and linked both
\* ways, and the timer of the CPU is armed for its head or has fired for it.  The case
\* that TimerArmed leaves out remains: a count-down that Lapic::set_timer cut short,
\* because the distance has more than 32 bits or is no multiple of the tick, may end
\* before the deadline and is then not set again.
THEOREM NoTimeoutMissed == TimeoutSpec => []TimeoutsExact
<1>1. TimeoutInv => TimeoutsExact
  BY TimeoutAssumption DEF TimeoutInv, TimeoutsExact, TimerSet, TimerArmed, TimeoutType, TimerKinds
<1> QED
  BY <1>1, TimeoutInitInv, TimeoutInductive, PTL DEF TimeoutSpec

-----------------------------------------------------------------------------
(* Creation of kernel objects.                                             *)

ObjectKinds == Attachable \cup EcKinds \cup {"plain", "msr", "sc", "pt"}
CreateSteps == {"build", "insert", "publish", "detach"}

Ends == UNION {{base + 2^ord : base \in 0 .. MaxPort} : ord \in 0 .. 1}

\* The records of a hypercall under way.
CreateCalls == [step : CreateSteps, kind : ObjectKinds, own : BOOLEAN,
                target : Objects \cup {NoObject}, o : Objects \cup {NoObject}]
LookupCalls == [step : {"lookup"}, kind : {"pio", "msr"}, src : Nat, dst : Nat, sel : Nat, end : Ends,
                mask : SUBSET {"W", "R"}]
UpdateCalls == [step : {"update"}, kind : {"pio", "msr"}, src : Nat, dst : Nat, sel : Nat, end : Ends,
                mask : SUBSET {"W", "R"}, perms : SUBSET {"W", "R"}, left : SUBSET {"W", "R"}]

CreateShape ==
    /\ attachedBits \subseteq Attachable
    /\ spaceOf \in [Attachable -> Objects \cup {NoObject}]
    /\ inserted \subseteq Objects /\ queuedScs \subseteq Objects
    /\ window \in [Objects -> Nat]
    /\ rights \in Seq(SUBSET (Nat \X {"W", "R"})) /\ Len(rights) \in 2 .. MaxBmps
    /\ objectAt = [o \in Objects |-> objectAt[o]]
    /\ hypercall = [c \in CThreads |-> hypercall[c]]

CallShapes ==
    \A c \in CThreads : \/ hypercall[c] = Resting
                        \/ hypercall[c] \in CreateCalls \cup LookupCalls \cup UpdateCalls

Owns(c, k) == hypercall[c].step \in CreateSteps /\ hypercall[c].kind = k /\ hypercall[c].own

\* A bit of Pd::spaces is held by one creator or stands for a published space.
Attachments ==
    \A k \in Attachable :
        /\ k \in attachedBits => (spaceOf[k] # NoObject <=> \A c \in CThreads : ~Owns(c, k))
        /\ k \notin attachedBits => spaceOf[k] = NoObject /\ \A c \in CThreads : ~Owns(c, k)
        /\ \A c, d \in CThreads : Owns(c, k) /\ Owns(d, k) => c = d
        /\ spaceOf[k] # NoObject => spaceOf[k] \in inserted /\ objectAt[spaceOf[k]].kind = k

\* Between its construction and the end of the call an object belongs to one creator, who
\* alone may give it back, and whose bitmap, for an attached PIO space, is in the window.
Constructions ==
    \A c \in CThreads :
        /\ hypercall[c].step \in CreateSteps /\ hypercall[c].own => hypercall[c].kind \in Attachable
        /\ hypercall[c].step \in CreateSteps /\ hypercall[c].kind \in {"sc", "pt"} =>
              hypercall[c].target \in inserted
        /\ hypercall[c].step \in {"insert", "publish"} =>
              /\ hypercall[c].o \in Objects /\ objectAt[hypercall[c].o].kind = hypercall[c].kind
              /\ hypercall[c].o \in inserted <=> hypercall[c].step = "publish"
              /\ hypercall[c].own /\ hypercall[c].kind = "pio" =>
                    /\ spaceOf["hst"] # NoObject
                    /\ window[spaceOf["hst"]] = objectAt[hypercall[c].o].bmp
        /\ hypercall[c].step = "insert" =>
              \A d \in CThreads : hypercall[d].step = "insert" /\ hypercall[d].o = hypercall[c].o => d = c

HasBitmap(o) == objectAt[o].kind \in {"pio", "msr"}

\* The bitmap b belongs to a space of that kind, whose capability is inserted.
SpaceHas(sort, b) == \E o \in inserted : objectAt[o].kind = sort /\ objectAt[o].bmp = b

\* What NOVA's own space of a kind holds, which no delegation changes.
NovaRights(sort) == IF sort = "pio" THEN rights[1] ELSE rights[2]

\* A thread refers to the spaces of its domain, a scheduling context or portal to a thread,
\* and no two spaces have the same bitmap, which grants nothing that NOVA keeps.
ObjectsSound ==
    \A o \in Objects :
        /\ objectAt[o].kind \in ObjectKinds \cup {"free"}
        /\ o \in inserted => objectAt[o].kind # "free"
        /\ objectAt[o].kind = "free" => objectAt[o] = Freed
        /\ objectAt[o].kind \in EcKinds =>
              /\ spaceOf["obj"] # NoObject /\ objectAt[o].obj = spaceOf["obj"]
              /\ spaceOf["hst"] # NoObject /\ objectAt[o].hst = spaceOf["hst"]
        /\ objectAt[o].kind \in {"local", "global"} =>
              spaceOf["pio"] # NoObject /\ objectAt[o].pio = spaceOf["pio"]
        /\ objectAt[o].kind \in {"sc", "pt"} => objectAt[o].target \in inserted
        /\ HasBitmap(o) =>
              /\ objectAt[o].bmp \in 3 .. Len(rights)
              /\ rights[objectAt[o].bmp] \subseteq NovaRights(objectAt[o].kind)
              /\ \A p \in Objects : HasBitmap(p) /\ objectAt[p].bmp = objectAt[o].bmp => p = o

\* A delegation is between spaces of one kind, and what it found may be given away.
Delegations ==
    \A c \in CThreads : hypercall[c].step \in {"lookup", "update"} =>
        /\ SpaceHas(hypercall[c].kind, hypercall[c].dst)
        /\ \/ SpaceHas(hypercall[c].kind, hypercall[c].src)
           \/ hypercall[c].src = IF hypercall[c].kind = "pio" THEN 1 ELSE 2
        /\ hypercall[c].step = "update" =>
              \A p \in hypercall[c].perms : <<hypercall[c].sel, p>> \in NovaRights(hypercall[c].kind)

WindowShown ==
    spaceOf["pio"] # NoObject => /\ spaceOf["hst"] # NoObject
                                 /\ window[spaceOf["hst"]] = objectAt[spaceOf["pio"]].bmp

ScsQueued == \A s \in queuedScs : s \in inserted /\ objectAt[s].kind = "sc"

CreateInv == CreateShape /\ CallShapes /\ Attachments /\ Constructions /\ ObjectsSound
             /\ Delegations /\ WindowShown /\ ScsQueued

\* A non-empty set of natural numbers has a least element.
LEMMA NatHasLeast ==
    ASSUME NEW S, S \subseteq Nat, S # {} PROVE \E m \in S : \A n \in S : m <= n
<1>1. PICK R : R = OpToRel(<, Nat)
  BY Zenon
<1>2. IsWellFoundedOn(R, Nat)
  BY NatLessThanWellFounded, <1>1, Zenon
<1>3. PICK m \in S : \A n \in S : ~(<<n, m>> \in R)
  BY <1>2, WFMin, Zenon
<1>4. \A p, q \in Nat : <<q, p>> \in R <=> q < p
  BY <1>1 DEF OpToRel
<1>5. \A n \in S : ~(n < m) /\ n \in Nat /\ m \in Nat
  BY <1>3, <1>4
<1> QED
  BY <1>3, <1>5

\* The initial states satisfy the invariant: nothing has been created.
LEMMA CreateInitInv == CreateInit => CreateInv
<1> SUFFICES ASSUME CreateInit PROVE CreateInv
  OBVIOUS
<1> USE CreateAssumption DEF CreateInit
<1>1. CreateShape
  <2>1. \A x \in (0 .. MaxPort) : x \in Nat
    OBVIOUS
  <2>2. ((0 .. MaxPort) \ Reserved) \X {"R"} \subseteq Nat \X {"W", "R"}
    BY <2>1
  <2>3. rights \in Seq(SUBSET (Nat \X {"W", "R"})) /\ Len(rights) = 2
    BY <2>2
  <2>4. spaceOf \in [Attachable -> Objects \cup {NoObject}] /\ window \in [Objects -> Nat]
    OBVIOUS
  <2>5. objectAt = [o \in Objects |-> objectAt[o]] /\ hypercall = [c \in CThreads |-> hypercall[c]]
    OBVIOUS
  <2> QED
    BY <2>3, <2>4, <2>5 DEF CreateShape
<1>2. \A c \in CThreads : hypercall[c] = Resting /\ hypercall[c].step = "idle"
  BY DEF Resting
<1>3. \A o \in Objects : objectAt[o] = Freed /\ objectAt[o].kind = "free"
  BY DEF Freed
<1>4. CallShapes /\ Attachments /\ Constructions
  BY <1>2 DEF CallShapes, Attachments, Constructions, Owns, CreateSteps, Attachable
<1>5. ObjectsSound
  BY <1>3 DEF ObjectsSound, HasBitmap, EcKinds
<1>6. Delegations /\ WindowShown /\ ScsQueued
  BY <1>2 DEF Delegations, WindowShown, ScsQueued, Attachable
<1> QED
  BY <1>1, <1>4, <1>5, <1>6 DEF CreateInv

\* What a thread is doing, by the step it is at.
LEMMA CallAt ==
    ASSUME CreateInv, NEW c \in CThreads
    PROVE  /\ hypercall[c].step \in CreateSteps => hypercall[c] \in CreateCalls
           /\ hypercall[c].step = "lookup" => hypercall[c] \in LookupCalls
           /\ hypercall[c].step = "update" => hypercall[c] \in UpdateCalls
           /\ hypercall[c] = Resting => hypercall[c].step = "idle"
<1>1. Resting.step = "idle"
  BY DEF Resting
<1>2. \/ hypercall[c] = Resting \/ hypercall[c] \in CreateCalls \/ hypercall[c] \in LookupCalls
      \/ hypercall[c] \in UpdateCalls
  BY DEF CreateInv, CallShapes
<1>3. /\ hypercall[c] \in CreateCalls => hypercall[c].step \in CreateSteps
      /\ hypercall[c] \in LookupCalls => hypercall[c].step = "lookup"
      /\ hypercall[c] \in UpdateCalls => hypercall[c].step = "update"
  BY DEF CreateCalls, LookupCalls, UpdateCalls
<1> QED
  BY <1>1, <1>2, <1>3 DEF CreateSteps

\* A hypercall starts: it owns the bit of Pd::spaces if it has just set it.
LEMMA StartInv ==
    ASSUME CreateInv, NEW c \in CThreads, NEW sort \in ObjectKinds, NEW own \in BOOLEAN,
           NEW target \in Objects \cup {NoObject}, sort \in {"sc", "pt"} => target \in inserted,
           hypercall[c] = Resting,
           hypercall' = [hypercall EXCEPT ![c] =
               [step |-> "build", kind |-> sort, own |-> own, target |-> target, o |-> NoObject]],
           own => sort \in Attachable \ attachedBits,
           attachedBits' = IF own THEN attachedBits \cup {sort} ELSE attachedBits,
           UNCHANGED <<spaceOf, objectAt, window, inserted, rights, queuedScs>>
    PROVE  CreateInv'
<1>1. PICK new : new = [step |-> "build", kind |-> sort, own |-> own, target |-> target, o |-> NoObject]
  OBVIOUS
<1>2. new \in CreateCalls /\ new.step = "build" /\ new.kind = sort /\ new.own = own /\ new.target = target
  BY <1>1 DEF CreateCalls, CreateSteps
<1>3. hypercall' = [d \in CThreads |-> hypercall'[d]]
      /\ \A d \in CThreads : hypercall'[d] = IF d = c THEN new ELSE hypercall[d]
  BY <1>1 DEF CreateInv, CreateShape
<1>4. hypercall[c].step = "idle"
  BY CallAt
<1>5. /\ spaceOf' = spaceOf /\ objectAt' = objectAt /\ window' = window /\ inserted' = inserted
      /\ rights' = rights /\ queuedScs' = queuedScs
  OBVIOUS
<1>i1. CreateShape'
  BY <1>3, <1>5 DEF CreateInv, CreateShape
<1>i2. CallShapes'
  BY <1>2, <1>3 DEF CreateInv, CallShapes
<1>i3. Attachments'
  <2> SUFFICES ASSUME NEW k \in Attachable
      PROVE  /\ k \in attachedBits' => (spaceOf[k] # NoObject <=> \A d \in CThreads : ~Owns(d, k)')
             /\ k \notin attachedBits' => spaceOf[k] = NoObject /\ \A d \in CThreads : ~Owns(d, k)'
             /\ \A d, e \in CThreads : Owns(d, k)' /\ Owns(e, k)' => d = e
             /\ spaceOf[k] # NoObject => spaceOf[k] \in inserted /\ objectAt[spaceOf[k]].kind = k
    BY <1>5 DEF Attachments
  <2>1. \A d \in CThreads : Owns(d, k)' <=> IF d = c THEN own /\ sort = k ELSE Owns(d, k)
    BY <1>2, <1>3 DEF Owns, CreateSteps
  <2>2. ~Owns(c, k)
    BY <1>4 DEF Owns, CreateSteps
  <2> QED
    BY <2>1, <2>2 DEF CreateInv, Attachments
<1>i4. Constructions'
  BY <1>2, <1>3, <1>5 DEF CreateInv, Constructions
<1>i5. ObjectsSound'
  BY <1>5 DEF CreateInv, ObjectsSound, HasBitmap, NovaRights
<1>i6. Delegations'
  BY <1>2, <1>3, <1>5 DEF CreateInv, Delegations, SpaceHas, NovaRights
<1>i7. WindowShown'
  BY <1>5 DEF CreateInv, WindowShown
<1>i8. ScsQueued'
  BY <1>5 DEF CreateInv, ScsQueued
<1> QED
  BY <1>i1, <1>i2, <1>i3, <1>i4, <1>i5, <1>i6, <1>i7, <1>i8 DEF CreateInv

\* The create hypercalls, up to the construction of the object.
LEMMA SysCreateInv ==
    ASSUME CreateInv, NEW c \in CThreads,
           \/ \E sort \in {"pd", "obj", "hst", "gst", "dma", "pio", "msr"} : SysCreatePd(c, sort)
           \/ \E sort \in EcKinds : SysCreateEc(c, sort)
           \/ \E e \in Objects : SysCreateSc(c, e) \/ SysCreatePt(c, e)
           \/ SysCreateSm(c)
    PROVE  CreateInv'
<1>1. CASE \E sort \in {"pd", "obj", "hst", "gst", "dma", "pio", "msr"} : SysCreatePd(c, sort)
  <2>1. PICK sort \in {"pd", "obj", "hst", "gst", "dma", "pio", "msr"} : SysCreatePd(c, sort)
    BY <1>1
  <2>2. PICK own : own = (sort \in Attachable \ attachedBits)
    OBVIOUS
  <2>3. own \in BOOLEAN /\ (own <=> sort \in Attachable \ attachedBits)
    <3>1. (sort \in Attachable \ attachedBits) \in BOOLEAN
      OBVIOUS
    <3> QED
      BY <2>2, <3>1, Zenon
  <2>4. KindOf(sort) \in ObjectKinds /\ KindOf(sort) \notin {"sc", "pt"} /\ (sort \in Attachable => KindOf(sort) = sort)
    BY DEF KindOf, ObjectKinds, Attachable
  <2>5. attachedBits' = IF own THEN attachedBits \cup {KindOf(sort)} ELSE attachedBits
    BY <2>1, <2>3, <2>4 DEF SysCreatePd
  <2>6. /\ hypercall[c] = Resting
        /\ hypercall' = [hypercall EXCEPT ![c] = [step |-> "build", kind |-> KindOf(sort), own |-> own,
                                                  target |-> NoObject, o |-> NoObject]]
    BY <2>1, <2>2 DEF SysCreatePd, Start
  <2>7. own => KindOf(sort) \in Attachable \ attachedBits
    BY <2>3, <2>4
  <2>8. UNCHANGED <<spaceOf, objectAt, window, inserted, rights, queuedScs>>
    BY <2>1 DEF SysCreatePd
  <2>9. NoObject \in Objects \cup {NoObject}
    OBVIOUS
  <2> QED
    BY <2>3, <2>4, <2>5, <2>6, <2>7, <2>8, <2>9, StartInv
<1>2. CASE \E sort \in EcKinds : SysCreateEc(c, sort)
  <2>1. PICK sort \in EcKinds : SysCreateEc(c, sort)
    BY <1>2
  <2>2. KindOf(sort) \in ObjectKinds /\ KindOf(sort) \notin {"sc", "pt"}
    BY DEF KindOf, ObjectKinds, EcKinds
  <2> QED
    BY <2>1, <2>2, StartInv DEF SysCreateEc, Start, NothingYet
<1>3. CASE \E e \in Objects : SysCreateSc(c, e) \/ SysCreatePt(c, e)
  <2>1. PICK e \in Objects : SysCreateSc(c, e) \/ SysCreatePt(c, e)
    BY <1>3
  <2>2. /\ KindOf("sc") \in ObjectKinds /\ KindOf("pt") \in ObjectKinds
        /\ KindOf("sc") = "sc" /\ KindOf("pt") = "pt"
    BY DEF KindOf, ObjectKinds
  <2>3. e \in inserted
    BY <2>1 DEF SysCreateSc, SysCreatePt
  <2>4. CASE SysCreateSc(c, e)
    BY <2>2, <2>3, <2>4, StartInv DEF SysCreateSc, Start, NothingYet
  <2>5. CASE SysCreatePt(c, e)
    BY <2>2, <2>3, <2>5, StartInv DEF SysCreatePt, Start, NothingYet
  <2> QED
    BY <2>1, <2>4, <2>5
<1>4. CASE SysCreateSm(c)
  <2>2. KindOf("sm") \in ObjectKinds /\ KindOf("sm") \notin {"sc", "pt"}
    BY DEF KindOf, ObjectKinds
  <2> QED
    BY <1>4, <2>2, StartInv DEF SysCreateSm, Start, NothingYet
<1> QED
  BY <1>1, <1>2, <1>3, <1>4

\* The object is built in a free buffer; an attached PIO space maps its bitmap into the
\* window of the host space, and nobody else does while it is not published.
LEMMA BuildInv == ASSUME CreateInv, NEW c \in CThreads, Build(c) PROVE CreateInv'
<1>1. PICK call : call = hypercall[c]
  OBVIOUS
<1>2. PICK new : new = Built(call)
  OBVIOUS
<1>3. PICK f : f = Fresh
  OBVIOUS
<1>4. call.step = "build" /\ call \in CreateCalls
  BY <1>1, CallAt DEF Build, CreateSteps
<1>5. f \in Objects /\ objectAt[f] = Freed /\ objectAt[f].kind = "free" /\ f \notin inserted
  <2>1. f \in FreeObjects
    <3>1. FreeObjects \subseteq Nat /\ FreeObjects # {}
      BY CreateAssumption DEF FreeObjects, Objects, Build
    <3>2. \E o \in FreeObjects : \A p \in FreeObjects : o <= p
      BY <3>1, NatHasLeast
    <3> QED
      BY <1>3, <3>2 DEF Fresh
  <2>2. f \in Objects /\ objectAt[f] = Freed
    BY <2>1 DEF FreeObjects
  <2>3. Freed.kind = "free"
    BY DEF Freed
  <2>4. objectAt[f].kind = "free"
    BY <2>2, <2>3
  <2> QED
    BY <2>2, <2>4 DEF CreateInv, ObjectsSound
<1>6. CanBuild(call.kind) /\ call.kind \in ObjectKinds /\ call.own \in BOOLEAN
  BY <1>1, <1>4 DEF Build, CreateCalls
<1>7. \A d \in CThreads : d # c => hypercall'[d] = hypercall[d]
  BY <1>1 DEF Build, CreateInv, CreateShape
<1>8. PICK after : after = [call EXCEPT !.step = "insert", !.o = f]
  OBVIOUS
<1>9. /\ after \in CreateCalls /\ after.step = "insert" /\ after.o = f /\ after.kind = call.kind
      /\ after.own = call.own /\ after.target = call.target
  BY <1>4, <1>5, <1>8 DEF CreateCalls, CreateSteps
<1>10. hypercall' = [hypercall EXCEPT ![c] = after]
  <2>1. hypercall' = [hypercall EXCEPT ![c].step = "insert", ![c].o = f]
    BY <1>3 DEF Build
  <2>2. hypercall = [d \in CThreads |-> hypercall[d]]
    BY DEF CreateInv, CreateShape
  <2> QED
    BY <1>1, <1>8, <2>1, <2>2
<1>11. hypercall' = [d \in CThreads |-> hypercall'[d]] /\ hypercall'[c] = after
  BY <1>10 DEF CreateInv, CreateShape
<1>12. objectAt' = [objectAt EXCEPT ![f] = new]
  BY <1>1, <1>2, <1>3 DEF Build
<1>13. objectAt' = [o \in Objects |-> objectAt'[o]]
       /\ \A o \in Objects : objectAt'[o] = IF o = f THEN new ELSE objectAt[o]
  BY <1>12, <1>5 DEF CreateInv, CreateShape
<1>14. /\ new.kind = call.kind
       /\ call.kind = "pio" => new.bmp = Len(rights) + 1 /\ new.hst = MappedHst(call.own)
       /\ call.kind = "msr" => new.bmp = Len(rights) + 1
       /\ call.kind \in EcKinds => new.obj = spaceOf["obj"] /\ new.hst = spaceOf["hst"]
       /\ call.kind \in {"local", "global"} => new.pio = spaceOf["pio"]
       /\ call.kind \in {"sc", "pt"} => new.target = call.target
  <2>1. CASE call.kind = "pio"
    BY <1>2, <2>1 DEF Built, EcKinds
  <2>2. CASE call.kind = "msr"
    BY <1>2, <2>2 DEF Built, EcKinds
  <2>3. CASE call.kind \in EcKinds
    <3>1. new = [kind |-> call.kind, obj |-> spaceOf["obj"], hst |-> spaceOf["hst"],
                 pio |-> IF call.kind = "vcpu" THEN NoObject ELSE spaceOf["pio"]]
      BY <1>2, <2>3 DEF Built, EcKinds
    <3> QED
      BY <3>1, <2>3 DEF EcKinds
  <2>4. CASE call.kind \notin EcKinds \cup {"pio", "msr"}
    <3>1. new = [kind |-> call.kind, target |-> call.target]
      BY <1>2, <2>4 DEF Built
    <3> QED
      BY <3>1, <2>4 DEF EcKinds
  <2> QED
    BY <2>1, <2>2, <2>3, <2>4
<1>15. UNCHANGED <<attachedBits, spaceOf, inserted, queuedScs>>
  BY DEF Build
<1>16. /\ rights' \in Seq(SUBSET (Nat \X {"W", "R"})) /\ Len(rights') \in 2 .. MaxBmps /\ Len(rights') >= Len(rights)
       /\ \A b \in 1 .. Len(rights) : rights'[b] = rights[b]
       /\ call.kind \in {"pio", "msr"} => Len(rights') = Len(rights) + 1 /\ rights'[Len(rights) + 1] = {}
  <2>1. rights \in Seq(SUBSET (Nat \X {"W", "R"})) /\ Len(rights) \in 2 .. MaxBmps
    BY DEF CreateInv, CreateShape
  <2>2. CASE call.kind \in {"pio", "msr"}
    <3>1. rights' = Append(rights, {}) /\ Len(rights) < MaxBmps
      BY <1>1, <1>6, <2>2 DEF Build, CanBuild
    <3>2. {} \in SUBSET (Nat \X {"W", "R"})
      OBVIOUS
    <3> QED
      BY <2>1, <3>1, <3>2, CreateAssumption
  <2>3. CASE call.kind \notin {"pio", "msr"}
    <3>1. rights' = rights
      BY <1>1, <2>3 DEF Build
    <3> QED
      BY <2>1, <2>3, <3>1
  <2> QED
    BY <2>2, <2>3
<1>17. window' = IF call.kind = "pio" /\ call.own THEN [window EXCEPT ![spaceOf["hst"]] = Len(rights) + 1] ELSE window
  <2>1. call.kind = "pio" => spaceOf["hst"] # NoObject
    BY <1>6 DEF CanBuild
  <2>2. window' = IF call.kind = "pio" /\ new.hst # NoObject THEN [window EXCEPT ![new.hst] = new.bmp] ELSE window
    BY <1>1, <1>2 DEF Build
  <2> QED
    BY <2>1, <2>2, <1>14, <1>6 DEF MappedHst
<1>18. "hst" \in Attachable /\ "pio" \in Attachable /\ "obj" \in Attachable
  BY DEF Attachable
<1>19. \A o \in Objects \cup {NoObject} : o \in inserted => o # f
  BY <1>5
<1>20. NovaRights("pio")' = NovaRights("pio") /\ NovaRights("msr")' = NovaRights("msr")
  BY <1>16 DEF NovaRights, CreateInv, CreateShape
<1>i1. CreateShape'
  <2>1. window' \in [Objects -> Nat]
    <3>1. Len(rights) + 1 \in Nat
      BY CreateAssumption DEF CreateInv, CreateShape
    <3> QED
      BY <1>17, <3>1 DEF CreateInv, CreateShape
  <2> QED
    BY <2>1, <1>11, <1>13, <1>15, <1>16 DEF CreateInv, CreateShape
<1>i2. CallShapes'
  BY <1>7, <1>9, <1>11 DEF CreateInv, CallShapes
<1>i3. Attachments'
  <2>1. \A d \in CThreads, k \in Attachable : Owns(d, k)' <=> Owns(d, k)
    BY <1>1, <1>4, <1>7, <1>9, <1>11 DEF Owns, CreateSteps
  <2>2. \A k \in Attachable : spaceOf[k] # NoObject => objectAt'[spaceOf[k]] = objectAt[spaceOf[k]]
    BY <1>13, <1>19 DEF CreateInv, CreateShape, Attachments
  <2> QED
    BY <2>1, <2>2, <1>15 DEF CreateInv, Attachments
<1>i4. Constructions'
  <2>1. ASSUME NEW d \in CThreads, hypercall'[d].step \in CreateSteps
        PROVE  /\ hypercall'[d].own => hypercall'[d].kind \in Attachable
               /\ hypercall'[d].kind \in {"sc", "pt"} => hypercall'[d].target \in inserted'
    <3>1. CASE d = c
      BY <3>1, <1>1, <1>4, <1>9, <1>11, <1>15 DEF CreateInv, Constructions, CreateSteps
    <3>2. CASE d # c
      BY <3>2, <2>1, <1>7, <1>15 DEF CreateInv, Constructions
    <3> QED
      BY <3>1, <3>2
  <2>2. ASSUME NEW d \in CThreads, hypercall'[d].step \in {"insert", "publish"}
        PROVE  /\ hypercall'[d].o \in Objects /\ objectAt'[hypercall'[d].o].kind = hypercall'[d].kind
               /\ hypercall'[d].o \in inserted' <=> hypercall'[d].step = "publish"
               /\ hypercall'[d].own /\ hypercall'[d].kind = "pio" =>
                     /\ spaceOf'["hst"] # NoObject
                     /\ window'[spaceOf'["hst"]] = objectAt'[hypercall'[d].o].bmp
    <3>1. CASE d = c
      <4>1. call.kind = "pio" => spaceOf["hst"] # NoObject /\ spaceOf["hst"] \in Objects
        BY <1>6, <1>18 DEF CanBuild, CreateInv, CreateShape
      <4>2. call.kind = "pio" /\ call.own => window'[spaceOf["hst"]] = new.bmp
        BY <4>1, <1>17, <1>14 DEF CreateInv, CreateShape
      <4> QED
        BY <3>1, <4>1, <4>2, <1>5, <1>9, <1>11, <1>13, <1>14, <1>15
    <3>2. CASE d # c
      <4>1. hypercall'[d] = hypercall[d]
        BY <3>2, <1>7
      <4>2. hypercall[d].o \in Objects /\ objectAt[hypercall[d].o].kind = hypercall[d].kind
            /\ hypercall[d].kind \in ObjectKinds
        BY <2>2, <4>1, CallAt DEF CreateInv, Constructions, CreateCalls, CreateSteps
      <4>3. hypercall[d].o # f
        BY <4>2, <1>5 DEF ObjectKinds, Attachable, EcKinds
      <4>4. objectAt'[hypercall[d].o] = objectAt[hypercall[d].o]
        BY <4>2, <4>3, <1>13
      <4>5. ~(hypercall[d].own /\ hypercall[d].kind = "pio" /\ call.own /\ call.kind = "pio")
        <5> SUFFICES ASSUME hypercall[d].own /\ hypercall[d].kind = "pio" /\ call.own /\ call.kind = "pio" PROVE FALSE
          OBVIOUS
        <5>1. Owns(d, "pio") /\ Owns(c, "pio")
          BY <2>2, <4>1, <1>1, <1>4 DEF Owns, CreateSteps
        <5> QED
          BY <5>1, <3>2, <1>18 DEF CreateInv, Attachments
      <4>6. hypercall[d].own /\ hypercall[d].kind = "pio" => window' = window
        BY <4>5, <1>17
      <4> QED
        BY <2>2, <4>1, <4>2, <4>4, <4>6, <1>15 DEF CreateInv, Constructions
    <3> QED
      BY <3>1, <3>2
  <2>3. ASSUME NEW d \in CThreads, hypercall'[d].step = "insert", NEW e \in CThreads,
               hypercall'[e].step = "insert", hypercall'[e].o = hypercall'[d].o
        PROVE  e = d
    <3>1. ASSUME NEW x \in CThreads, x # c, hypercall'[x].step = "insert" PROVE hypercall'[x].o # f
      <4>1. hypercall[x].step = "insert" /\ hypercall'[x] = hypercall[x]
        BY <3>1, <1>7
      <4>2. objectAt[hypercall[x].o].kind = hypercall[x].kind /\ hypercall[x].kind \in ObjectKinds
        BY <4>1, CallAt DEF CreateInv, Constructions, CreateCalls, CreateSteps
      <4> QED
        BY <4>1, <4>2, <1>5 DEF ObjectKinds, Attachable, EcKinds
    <3>2. CASE d = c /\ e # c
      BY <3>1, <3>2, <2>3, <1>9, <1>11
    <3>3. CASE d # c /\ e = c
      BY <3>1, <3>3, <2>3, <1>9, <1>11
    <3>4. CASE d # c /\ e # c
      BY <3>4, <2>3, <1>7 DEF CreateInv, Constructions
    <3> QED
      BY <3>2, <3>3, <3>4
  <2> QED
    BY <2>1, <2>2, <2>3 DEF Constructions
<1>i5. ObjectsSound'
  <2>1. ASSUME NEW o \in Objects
        PROVE  /\ objectAt'[o].kind \in ObjectKinds \cup {"free"}
               /\ o \in inserted' => objectAt'[o].kind # "free"
               /\ objectAt'[o].kind = "free" => objectAt'[o] = Freed
               /\ objectAt'[o].kind \in EcKinds =>
                     /\ spaceOf'["obj"] # NoObject /\ objectAt'[o].obj = spaceOf'["obj"]
                     /\ spaceOf'["hst"] # NoObject /\ objectAt'[o].hst = spaceOf'["hst"]
               /\ objectAt'[o].kind \in {"local", "global"} =>
                     spaceOf'["pio"] # NoObject /\ objectAt'[o].pio = spaceOf'["pio"]
               /\ objectAt'[o].kind \in {"sc", "pt"} => objectAt'[o].target \in inserted'
    <3>1. CASE o = f
      <4>1. objectAt'[o] = new
        BY <3>1, <1>13
      <4>2. call.kind # "free"
        BY <1>6 DEF ObjectKinds, Attachable, EcKinds
      <4>3. call.kind \in EcKinds => spaceOf["obj"] # NoObject /\ spaceOf["hst"] # NoObject
        BY <1>6 DEF CanBuild
      <4>4. call.kind \in {"local", "global"} => spaceOf["pio"] # NoObject
        BY <1>6 DEF CanBuild
      <4>5. call.kind \in {"sc", "pt"} => call.target \in inserted
        BY <1>1, <1>4 DEF CreateInv, Constructions, CreateSteps
      <4> QED
        BY <3>1, <4>1, <4>2, <4>3, <4>4, <4>5, <1>5, <1>6, <1>14, <1>15
    <3>2. CASE o # f
      <4>1. objectAt'[o] = objectAt[o]
        BY <3>2, <1>13
      <4> QED
        BY <4>1, <1>15 DEF CreateInv, ObjectsSound
    <3> QED
      BY <3>1, <3>2
  <2>2. \A o \in Objects : HasBitmap(o)' <=> IF o = f THEN call.kind \in {"pio", "msr"} ELSE HasBitmap(o)
    BY <1>13, <1>14 DEF HasBitmap
  <2>3. \A o \in Objects : o # f /\ HasBitmap(o) =>
            objectAt'[o] = objectAt[o] /\ objectAt[o].bmp \in 3 .. Len(rights)
    BY <1>13 DEF CreateInv, ObjectsSound
  <2>4. Len(rights) \in Nat /\ Len(rights') \in Nat /\ Len(rights) >= 2
    BY <1>16, CreateAssumption DEF CreateInv, CreateShape
  <2>5. ASSUME NEW o \in Objects, HasBitmap(o)'
        PROVE  /\ objectAt'[o].bmp \in 3 .. Len(rights')
               /\ rights'[objectAt'[o].bmp] \subseteq NovaRights(objectAt[o].kind)'
    <3>1. CASE o = f
      <4>1. objectAt'[o].bmp = Len(rights) + 1 /\ call.kind \in {"pio", "msr"}
        BY <3>1, <2>2, <2>5, <1>13, <1>14
      <4> QED
        BY <4>1, <2>4, <1>16
    <3>2. CASE o # f
      <4>1. HasBitmap(o) /\ objectAt'[o] = objectAt[o] /\ objectAt[o].bmp \in 3 .. Len(rights)
        BY <3>2, <2>2, <2>3, <2>5
      <4>2. rights'[objectAt[o].bmp] = rights[objectAt[o].bmp]
        BY <4>1, <1>16, <2>4
      <4>3. rights'[1] = rights[1] /\ rights'[2] = rights[2]
        BY <1>16, <2>4
      <4>4. NovaRights(objectAt[o].kind)' = NovaRights(objectAt[o].kind)
        BY <4>1, <4>3 DEF NovaRights
      <4> QED
        BY <4>1, <4>2, <4>4, <2>4, <1>16 DEF CreateInv, ObjectsSound
    <3> QED
      BY <3>1, <3>2
  <2>6. ASSUME NEW o \in Objects, HasBitmap(o)', NEW p \in Objects, HasBitmap(p)', objectAt'[p].bmp = objectAt'[o].bmp
        PROVE  p = o
    <3>1. CASE o = f /\ p # f
      BY <3>1, <2>2, <2>3, <2>4, <2>6, <1>13, <1>14
    <3>2. CASE o # f /\ p = f
      BY <3>2, <2>2, <2>3, <2>4, <2>6, <1>13, <1>14
    <3>3. CASE o # f /\ p # f
      BY <3>3, <2>2, <2>3, <2>6 DEF CreateInv, ObjectsSound
    <3> QED
      BY <3>1, <3>2, <3>3
  <2> QED
    BY <2>1, <2>5, <2>6 DEF ObjectsSound
<1>i6. Delegations'
  <2>1. \A sort, b : SpaceHas(sort, b) => SpaceHas(sort, b)'
    BY <1>13, <1>15, <1>19 DEF SpaceHas, CreateInv, CreateShape
  <2>2. \A d \in CThreads : hypercall'[d].step \in {"lookup", "update"} =>
            hypercall'[d] = hypercall[d] /\ hypercall[d].kind \in {"pio", "msr"}
    BY <1>7, <1>9, <1>11, CallAt DEF LookupCalls, UpdateCalls
  <2> QED
    BY <2>1, <2>2, <1>20 DEF CreateInv, Delegations
<1>i7. WindowShown'
  <2> SUFFICES ASSUME spaceOf["pio"] # NoObject
               PROVE  spaceOf["hst"] # NoObject /\ window'[spaceOf["hst"]] = objectAt'[spaceOf["pio"]].bmp
    BY <1>15 DEF WindowShown
  <2>1. ~(call.kind = "pio" /\ call.own)
    <3> SUFFICES ASSUME call.kind = "pio" /\ call.own PROVE FALSE
      OBVIOUS
    <3>1. Owns(c, "pio")
      BY <1>1, <1>4 DEF Owns, CreateSteps
    <3> QED
      BY <3>1, <1>18 DEF CreateInv, Attachments
  <2>2. objectAt'[spaceOf["pio"]] = objectAt[spaceOf["pio"]]
    BY <1>13, <1>18, <1>19 DEF CreateInv, CreateShape, Attachments
  <2> QED
    BY <2>1, <2>2, <1>17 DEF CreateInv, WindowShown
<1>i8. ScsQueued'
  BY <1>13, <1>15, <1>19 DEF CreateInv, ScsQueued, CreateShape
<1> QED
  BY <1>i1, <1>i2, <1>i3, <1>i4, <1>i5, <1>i6, <1>i7, <1>i8 DEF CreateInv

\* The construction fails: nothing was built.
LEMMA BuildFailsInv == ASSUME CreateInv, NEW c \in CThreads, BuildFails(c) PROVE CreateInv'
<1>1. PICK call : call = hypercall[c]
  OBVIOUS
<1>2. call.step = "build" /\ call \in CreateCalls
  BY <1>1, CallAt DEF BuildFails, CreateSteps
<1>3. PICK after : after = [call EXCEPT !.step = "detach"]
  OBVIOUS
<1>4. /\ after \in CreateCalls /\ after.step = "detach" /\ after.o = call.o /\ after.kind = call.kind
      /\ after.own = call.own /\ after.target = call.target
  BY <1>2, <1>3 DEF CreateCalls, CreateSteps
<1>6. hypercall' = [d \in CThreads |-> hypercall'[d]]
      /\ \A d \in CThreads : hypercall'[d] = IF d = c THEN after ELSE hypercall[d]
  <2>1. hypercall' = [hypercall EXCEPT ![c].step = "detach"] /\ hypercall = [d \in CThreads |-> hypercall[d]]
    BY DEF BuildFails, CreateInv, CreateShape
  <2> QED
    BY <1>1, <1>3, <2>1
<1>7. \A d \in CThreads, k \in Attachable : Owns(d, k)' <=> Owns(d, k)
  BY <1>1, <1>2, <1>4, <1>6 DEF Owns, CreateSteps
<1>5. /\ attachedBits' = attachedBits /\ spaceOf' = spaceOf /\ objectAt' = objectAt /\ window' = window
      /\ inserted' = inserted /\ rights' = rights /\ queuedScs' = queuedScs
  BY DEF BuildFails, NothingYet
<1>i1. CreateShape'
  BY <1>5, <1>6 DEF CreateInv, CreateShape
<1>i2. CallShapes'
  BY <1>4, <1>6 DEF CreateInv, CallShapes
<1>i3. Attachments'
  BY <1>5, <1>7 DEF CreateInv, Attachments
<1>i4. Constructions'
  BY <1>1, <1>2, <1>4, <1>5, <1>6 DEF CreateInv, Constructions, CreateSteps
<1>i5. ObjectsSound'
  BY <1>5 DEF CreateInv, ObjectsSound, HasBitmap, NovaRights
<1>i6. Delegations'
  BY <1>4, <1>5, <1>6 DEF CreateInv, Delegations, SpaceHas, NovaRights
<1>i7. WindowShown'
  BY <1>5 DEF CreateInv, WindowShown
<1>i8. ScsQueued'
  BY <1>5 DEF CreateInv, ScsQueued
<1> QED
  BY <1>i1, <1>i2, <1>i3, <1>i4, <1>i5, <1>i6, <1>i7, <1>i8 DEF CreateInv

\* The capability is inserted: from here on the object is never given back.
LEMMA InsertInv == ASSUME CreateInv, NEW c \in CThreads, Insert(c) PROVE CreateInv'
<1>1. PICK call : call = hypercall[c]
  OBVIOUS
<1>2. call.step = "insert" /\ call \in CreateCalls
  BY <1>1, CallAt DEF Insert, CreateSteps
<1>3. PICK after : after = [call EXCEPT !.step = "publish"]
  OBVIOUS
<1>4. /\ after \in CreateCalls /\ after.step = "publish" /\ after.o = call.o /\ after.kind = call.kind
      /\ after.own = call.own /\ after.target = call.target
  BY <1>2, <1>3 DEF CreateCalls, CreateSteps
<1>6. hypercall' = [d \in CThreads |-> hypercall'[d]]
      /\ \A d \in CThreads : hypercall'[d] = IF d = c THEN after ELSE hypercall[d]
  <2>1. hypercall' = [hypercall EXCEPT ![c].step = "publish"] /\ hypercall = [d \in CThreads |-> hypercall[d]]
    BY DEF Insert, CreateInv, CreateShape
  <2> QED
    BY <1>1, <1>3, <2>1
<1>7. \A d \in CThreads, k \in Attachable : Owns(d, k)' <=> Owns(d, k)
  BY <1>1, <1>2, <1>4, <1>6 DEF Owns, CreateSteps
<1>5. /\ attachedBits' = attachedBits /\ spaceOf' = spaceOf /\ objectAt' = objectAt /\ window' = window
      /\ rights' = rights /\ queuedScs' = queuedScs
  BY DEF Insert
<1>8. /\ inserted' = inserted \cup {call.o} /\ call.o \in Objects /\ objectAt[call.o].kind = call.kind
      /\ call.kind \in ObjectKinds /\ call.kind # "free" /\ call.o \notin inserted
  <2>1. call.kind \in ObjectKinds
    BY <1>2 DEF CreateCalls
  <2>2. call.kind # "free"
    BY <2>1 DEF ObjectKinds, Attachable, EcKinds
  <2> QED
    BY <1>1, <1>2, <2>1, <2>2 DEF Insert, CreateInv, Constructions
<1>i1. CreateShape'
  BY <1>5, <1>6, <1>8 DEF CreateInv, CreateShape
<1>i2. CallShapes'
  BY <1>4, <1>6 DEF CreateInv, CallShapes
<1>i3. Attachments'
  BY <1>5, <1>7, <1>8 DEF CreateInv, Attachments
<1>i4. Constructions'
  <2>1. ASSUME NEW d \in CThreads, hypercall'[d].step \in CreateSteps
        PROVE  /\ hypercall'[d].own => hypercall'[d].kind \in Attachable
               /\ hypercall'[d].kind \in {"sc", "pt"} => hypercall'[d].target \in inserted'
    BY <2>1, <1>1, <1>2, <1>4, <1>6, <1>8 DEF CreateInv, Constructions, CreateSteps
  <2>2. ASSUME NEW d \in CThreads, hypercall'[d].step \in {"insert", "publish"}
        PROVE  /\ hypercall'[d].o \in Objects /\ objectAt'[hypercall'[d].o].kind = hypercall'[d].kind
               /\ hypercall'[d].o \in inserted' <=> hypercall'[d].step = "publish"
               /\ hypercall'[d].own /\ hypercall'[d].kind = "pio" =>
                     /\ spaceOf'["hst"] # NoObject
                     /\ window'[spaceOf'["hst"]] = objectAt'[hypercall'[d].o].bmp
    <3>1. CASE d = c
      <4>1. hypercall'[d] = after
        BY <3>1, <1>6
      <4>2. call.own /\ call.kind = "pio" =>
               spaceOf["hst"] # NoObject /\ window[spaceOf["hst"]] = objectAt[call.o].bmp
        BY <1>1, <1>2 DEF CreateInv, Constructions
      <4> QED
        BY <4>1, <4>2, <1>4, <1>5, <1>8
    <3>2. CASE d # c
      <4>1. hypercall'[d] = hypercall[d]
        BY <3>2, <1>6
      <4>2. hypercall[d].step = "insert" => hypercall[d].o # call.o
        BY <3>2, <1>1, <1>2 DEF CreateInv, Constructions
      <4> QED
        BY <2>2, <4>1, <4>2, <1>5, <1>8 DEF CreateInv, Constructions
    <3> QED
      BY <3>1, <3>2
  <2>3. \A d, e \in CThreads : hypercall'[d].step = "insert" /\ hypercall'[e].step = "insert"
                                 /\ hypercall'[e].o = hypercall'[d].o => e = d
    BY <1>4, <1>6 DEF CreateInv, Constructions
  <2> QED
    BY <2>1, <2>2, <2>3 DEF Constructions
<1>i5. ObjectsSound'
  BY <1>5, <1>8 DEF CreateInv, ObjectsSound, HasBitmap, NovaRights
<1>i6. Delegations'
  BY <1>4, <1>5, <1>6, <1>8 DEF CreateInv, Delegations, SpaceHas, NovaRights
<1>i7. WindowShown'
  BY <1>5 DEF CreateInv, WindowShown
<1>i8. ScsQueued'
  BY <1>5, <1>8 DEF CreateInv, ScsQueued
<1> QED
  BY <1>i1, <1>i2, <1>i3, <1>i4, <1>i5, <1>i6, <1>i7, <1>i8 DEF CreateInv

\* The insertion fails: only the creator knows the object it gives back.
LEMMA InsertFailsInv == ASSUME CreateInv, NEW c \in CThreads, InsertFails(c) PROVE CreateInv'
<1>1. PICK call : call = hypercall[c]
  OBVIOUS
<1>2. call.step = "insert" /\ call \in CreateCalls
  BY <1>1, CallAt DEF InsertFails, CreateSteps
<1>3. PICK after : after = [call EXCEPT !.step = "detach"]
  OBVIOUS
<1>4. /\ after \in CreateCalls /\ after.step = "detach" /\ after.o = call.o /\ after.kind = call.kind
      /\ after.own = call.own /\ after.target = call.target
  BY <1>2, <1>3 DEF CreateCalls, CreateSteps
<1>6. hypercall' = [d \in CThreads |-> hypercall'[d]]
      /\ \A d \in CThreads : hypercall'[d] = IF d = c THEN after ELSE hypercall[d]
  <2>1. hypercall' = [hypercall EXCEPT ![c].step = "detach"] /\ hypercall = [d \in CThreads |-> hypercall[d]]
    BY DEF InsertFails, CreateInv, CreateShape
  <2> QED
    BY <1>1, <1>3, <2>1
<1>7. \A d \in CThreads, k \in Attachable : Owns(d, k)' <=> Owns(d, k)
  BY <1>1, <1>2, <1>4, <1>6 DEF Owns, CreateSteps
<1>5. /\ attachedBits' = attachedBits /\ spaceOf' = spaceOf /\ inserted' = inserted /\ window' = window
      /\ rights' = rights /\ queuedScs' = queuedScs
  BY DEF InsertFails
<1>8. call.o \in Objects /\ call.o \notin inserted
  BY <1>1, <1>2 DEF CreateInv, Constructions
<1>9. Freed.kind = "free"
  BY DEF Freed
<1>10. objectAt' = [o \in Objects |-> objectAt'[o]]
       /\ \A o \in Objects : objectAt'[o] = IF o = call.o THEN Freed ELSE objectAt[o]
  BY <1>1, <1>8 DEF InsertFails, CreateInv, CreateShape
<1>11. \A o \in inserted : objectAt'[o] = objectAt[o]
  BY <1>8, <1>10 DEF CreateInv, CreateShape
<1>12. "hst" \in Attachable /\ "pio" \in Attachable /\ "obj" \in Attachable
  BY DEF Attachable
<1>i1. CreateShape'
  BY <1>5, <1>6, <1>10 DEF CreateInv, CreateShape
<1>i2. CallShapes'
  BY <1>4, <1>6 DEF CreateInv, CallShapes
<1>i3. Attachments'
  BY <1>5, <1>7, <1>11 DEF CreateInv, Attachments
<1>i4. Constructions'
  <2>1. ASSUME NEW d \in CThreads, hypercall'[d].step \in CreateSteps
        PROVE  /\ hypercall'[d].own => hypercall'[d].kind \in Attachable
               /\ hypercall'[d].kind \in {"sc", "pt"} => hypercall'[d].target \in inserted'
    BY <2>1, <1>1, <1>2, <1>4, <1>5, <1>6 DEF CreateInv, Constructions, CreateSteps
  <2>2. ASSUME NEW d \in CThreads, hypercall'[d].step \in {"insert", "publish"}
        PROVE  /\ hypercall'[d].o \in Objects /\ objectAt'[hypercall'[d].o].kind = hypercall'[d].kind
               /\ hypercall'[d].o \in inserted' <=> hypercall'[d].step = "publish"
               /\ hypercall'[d].own /\ hypercall'[d].kind = "pio" =>
                     /\ spaceOf'["hst"] # NoObject
                     /\ window'[spaceOf'["hst"]] = objectAt'[hypercall'[d].o].bmp
    <3>1. d # c /\ hypercall'[d] = hypercall[d]
      BY <2>2, <1>4, <1>6
    <3>2. hypercall[d].o # call.o
      BY <2>2, <3>1, <1>1, <1>2, <1>8 DEF CreateInv, Constructions
    <3>3. hypercall[d].o \in Objects /\ objectAt'[hypercall[d].o] = objectAt[hypercall[d].o]
      BY <2>2, <3>1, <3>2, <1>10 DEF CreateInv, Constructions
    <3> QED
      BY <2>2, <3>1, <3>3, <1>5 DEF CreateInv, Constructions
  <2>3. \A d, e \in CThreads : hypercall'[d].step = "insert" /\ hypercall'[e].step = "insert"
                                 /\ hypercall'[e].o = hypercall'[d].o => e = d
    BY <1>4, <1>6 DEF CreateInv, Constructions
  <2> QED
    BY <2>1, <2>2, <2>3 DEF Constructions
<1>i5. ObjectsSound'
  <2>1. call.o # spaceOf["obj"] /\ call.o # spaceOf["hst"] /\ call.o # spaceOf["pio"]
    BY <1>8, <1>12, CreateAssumption DEF CreateInv, Attachments, Objects, NoObject
  <2> QED
    BY <1>5, <1>8, <1>9, <1>10 DEF CreateInv, ObjectsSound, HasBitmap, NovaRights, EcKinds
<1>i6. Delegations'
  BY <1>4, <1>5, <1>6, <1>11 DEF CreateInv, Delegations, SpaceHas, NovaRights
<1>i7. WindowShown'
  BY <1>5, <1>11, <1>12 DEF CreateInv, WindowShown, Attachments
<1>i8. ScsQueued'
  BY <1>5, <1>11 DEF CreateInv, ScsQueued
<1> QED
  BY <1>i1, <1>i2, <1>i3, <1>i4, <1>i5, <1>i6, <1>i7, <1>i8 DEF CreateInv

\* The bit of Pd::spaces is given back by its owner, so that the creation can be repeated.
LEMMA DetachInv == ASSUME CreateInv, NEW c \in CThreads, Detach(c) PROVE CreateInv'
<1>1. PICK call : call = hypercall[c]
  OBVIOUS
<1>2. call.step = "detach" /\ call \in CreateCalls
  BY <1>1, CallAt DEF Detach, CreateSteps
<1>3. Resting.step = "idle"
  BY DEF Resting
<1>4. hypercall' = [d \in CThreads |-> hypercall'[d]]
      /\ \A d \in CThreads : hypercall'[d] = IF d = c THEN Resting ELSE hypercall[d]
  BY DEF Detach, CreateInv, CreateShape
<1>6. \A d \in CThreads, k \in Attachable : Owns(d, k)' <=> d # c /\ Owns(d, k)
  BY <1>3, <1>4 DEF Owns, CreateSteps
<1>7. call.own => call.kind \in Attachable /\ Owns(c, call.kind)
  BY <1>1, <1>2 DEF Owns, CreateInv, Constructions, CreateSteps
<1>8. call.own \in BOOLEAN
  BY <1>2 DEF CreateCalls
<1>5. /\ spaceOf' = spaceOf /\ objectAt' = objectAt /\ window' = window
      /\ inserted' = inserted /\ rights' = rights /\ queuedScs' = queuedScs
  BY DEF Detach
<1>9. attachedBits' = IF call.own THEN attachedBits \ {call.kind} ELSE attachedBits
  BY <1>1 DEF Detach
<1>i1. CreateShape'
  BY <1>4, <1>5, <1>9 DEF CreateInv, CreateShape
<1>i2. CallShapes'
  BY <1>4 DEF CreateInv, CallShapes
<1>i3. Attachments'
  <2>1. \A k \in Attachable : Owns(c, k) => call.own /\ call.kind = k
    BY <1>1 DEF Owns
  <2>2. \A k \in Attachable : Owns(c, k) => spaceOf[k] = NoObject /\ k \in attachedBits
    BY DEF CreateInv, Attachments
  <2> QED
    BY <2>1, <2>2, <1>5, <1>6, <1>7, <1>9 DEF CreateInv, Attachments
<1>i4. Constructions'
  BY <1>3, <1>4, <1>5 DEF CreateInv, Constructions, CreateSteps
<1>i5. ObjectsSound'
  BY <1>5 DEF CreateInv, ObjectsSound, HasBitmap, NovaRights
<1>i6. Delegations'
  BY <1>3, <1>4, <1>5 DEF CreateInv, Delegations, SpaceHas, NovaRights
<1>i7. WindowShown'
  BY <1>5 DEF CreateInv, WindowShown
<1>i8. ScsQueued'
  BY <1>5 DEF CreateInv, ScsQueued
<1> QED
  BY <1>i1, <1>i2, <1>i3, <1>i4, <1>i5, <1>i6, <1>i7, <1>i8 DEF CreateInv

\* The owner of the bit stores the pointer: the domain had no such space before, so that no
\* thread refers to another one.
LEMMA PublishInv == ASSUME CreateInv, NEW c \in CThreads, Publish(c) PROVE CreateInv'
<1>1. PICK call : call = hypercall[c]
  OBVIOUS
<1>2. call.step = "publish" /\ call \in CreateCalls
  BY <1>1, CallAt DEF Publish, CreateSteps
<1>3. Resting.step = "idle"
  BY DEF Resting
<1>4. hypercall' = [d \in CThreads |-> hypercall'[d]]
      /\ \A d \in CThreads : hypercall'[d] = IF d = c THEN Resting ELSE hypercall[d]
  BY DEF Publish, CreateInv, CreateShape
<1>6. \A d \in CThreads, k \in Attachable : Owns(d, k)' <=> d # c /\ Owns(d, k)
  BY <1>3, <1>4 DEF Owns, CreateSteps
<1>7. call.own => call.kind \in Attachable /\ Owns(c, call.kind)
  BY <1>1, <1>2 DEF Owns, CreateInv, Constructions, CreateSteps
<1>8. call.own \in BOOLEAN
  BY <1>2 DEF CreateCalls
<1>5. /\ attachedBits' = attachedBits /\ objectAt' = objectAt /\ window' = window
      /\ inserted' = inserted /\ rights' = rights
  BY DEF Publish
<1>9. /\ call.o \in inserted /\ call.o \in Objects /\ objectAt[call.o].kind = call.kind
      /\ call.own /\ call.kind = "pio" => spaceOf["hst"] # NoObject /\ window[spaceOf["hst"]] = objectAt[call.o].bmp
  BY <1>1, <1>2 DEF CreateInv, Constructions
<1>10. spaceOf' = IF call.own THEN [spaceOf EXCEPT ![call.kind] = call.o] ELSE spaceOf
  BY <1>1 DEF Publish
<1>11. call.own => spaceOf[call.kind] = NoObject /\ call.kind \in attachedBits
  BY <1>7 DEF CreateInv, Attachments
<1>12. \A k \in Attachable : spaceOf'[k] = IF call.own /\ k = call.kind THEN call.o ELSE spaceOf[k]
  BY <1>7, <1>10 DEF CreateInv, CreateShape
<1>13. \A k \in Attachable : spaceOf[k] # NoObject => spaceOf'[k] = spaceOf[k]
  BY <1>11, <1>12
<1>14. "hst" \in Attachable /\ "pio" \in Attachable /\ "obj" \in Attachable
  BY DEF Attachable
<1>15. call.o # NoObject
  BY <1>9, CreateAssumption DEF Objects, NoObject
<1>16. queuedScs' = IF call.kind = "sc" THEN queuedScs \cup {call.o} ELSE queuedScs
  BY <1>1 DEF Publish
<1>i1. CreateShape'
  <2>1. spaceOf' \in [Attachable -> Objects \cup {NoObject}]
    BY <1>9, <1>10 DEF CreateInv, CreateShape
  <2> QED
    BY <2>1, <1>4, <1>5, <1>9, <1>16 DEF CreateInv, CreateShape
<1>i2. CallShapes'
  BY <1>4 DEF CreateInv, CallShapes
<1>i3. Attachments'
  <2> SUFFICES ASSUME NEW k \in Attachable
      PROVE  /\ k \in attachedBits => (spaceOf'[k] # NoObject <=> \A d \in CThreads : ~Owns(d, k)')
             /\ k \notin attachedBits => spaceOf'[k] = NoObject /\ \A d \in CThreads : ~Owns(d, k)'
             /\ \A d, e \in CThreads : Owns(d, k)' /\ Owns(e, k)' => d = e
             /\ spaceOf'[k] # NoObject => spaceOf'[k] \in inserted /\ objectAt[spaceOf'[k]].kind = k
    BY <1>5 DEF Attachments
  <2>1. CASE call.own /\ call.kind = k
    <3>1. spaceOf'[k] = call.o /\ k \in attachedBits /\ Owns(c, k)
      BY <2>1, <1>7, <1>11, <1>12
    <3>2. \A d \in CThreads : ~Owns(d, k)'
      BY <3>1, <1>6 DEF CreateInv, Attachments
    <3> QED
      BY <3>1, <3>2, <2>1, <1>9, <1>15
  <2>2. CASE ~(call.own /\ call.kind = k)
    <3>1. spaceOf'[k] = spaceOf[k]
      BY <2>2, <1>12
    <3>2. \A d \in CThreads : Owns(d, k)' <=> Owns(d, k)
      BY <2>2, <1>1, <1>6 DEF Owns
    <3> QED
      BY <3>1, <3>2 DEF CreateInv, Attachments
  <2> QED
    BY <2>1, <2>2
<1>i4. Constructions'
  <2>1. \A d \in CThreads : hypercall'[d].step \in CreateSteps => d # c /\ hypercall'[d] = hypercall[d]
    BY <1>3, <1>4 DEF CreateSteps
  <2>2. spaceOf["hst"] # NoObject => spaceOf'["hst"] = spaceOf["hst"]
    BY <1>13, <1>14
  <2> QED
    BY <2>1, <2>2, <1>5 DEF CreateInv, Constructions, CreateSteps
<1>i5. ObjectsSound'
  BY <1>5, <1>13, <1>14 DEF CreateInv, ObjectsSound, HasBitmap, NovaRights
<1>i6. Delegations'
  BY <1>3, <1>4, <1>5 DEF CreateInv, Delegations, SpaceHas, NovaRights
<1>i7. WindowShown'
  <2>1. CASE call.own /\ call.kind = "pio"
    BY <2>1, <1>5, <1>9, <1>12, <1>13, <1>14 DEF WindowShown
  <2>2. CASE ~(call.own /\ call.kind = "pio")
    BY <2>2, <1>5, <1>12, <1>13, <1>14 DEF CreateInv, WindowShown
  <2> QED
    BY <2>1, <2>2
<1>i8. ScsQueued'
  BY <1>5, <1>9, <1>16 DEF CreateInv, ScsQueued
<1> QED
  BY <1>i1, <1>i2, <1>i3, <1>i4, <1>i5, <1>i6, <1>i7, <1>i8 DEF CreateInv

\* A delegation starts between two spaces of one kind.
LEMMA SysCtrlPdInv ==
    ASSUME CreateInv, NEW c \in CThreads, NEW sort \in {"pio", "msr"}, NEW src \in 1 .. MaxBmps,
           NEW dst \in 1 .. MaxBmps, NEW base \in 0 .. MaxPort, NEW ord \in 0 .. 1,
           NEW mask \in {{}, {"W", "R"}}, SysCtrlPd(c, sort, src, dst, base, ord, mask)
    PROVE  CreateInv'
<1>1. PICK new : new = [step |-> "lookup", kind |-> sort, src |-> src, dst |-> dst,
                        sel |-> base, end |-> base + 2^ord, mask |-> mask]
  OBVIOUS
<1>2. /\ new \in LookupCalls /\ new.step = "lookup" /\ new.kind = sort /\ new.src = src /\ new.dst = dst
  <2>1. base + 2^ord \in Ends
    <3>1. base + 2^ord \in {b + 2^ord : b \in 0 .. MaxPort}
      BY Zenon
    <3>2. {b + 2^ord : b \in 0 .. MaxPort} \in {{b + 2^x : b \in 0 .. MaxPort} : x \in 0 .. 1}
      BY Zenon
    <3> QED
      BY <3>1, <3>2, Zenon DEF Ends
  <2>2. base \in Nat /\ src \in Nat /\ dst \in Nat
    BY CreateAssumption
  <2> QED
    BY <1>1, <2>1, <2>2 DEF LookupCalls
<1>3. hypercall' = [d \in CThreads |-> hypercall'[d]]
      /\ \A d \in CThreads : hypercall'[d] = IF d = c THEN new ELSE hypercall[d]
  BY <1>1 DEF SysCtrlPd, CreateInv, CreateShape
<1>4. SpaceHas(sort, dst) /\ (SpaceHas(sort, src) \/ src = IF sort = "pio" THEN 1 ELSE 2)
  <2>1. dst \in SpacesOf(sort) /\ src \in SpacesOf(sort) \cup {NovaBmp[sort]}
    BY DEF SysCtrlPd
  <2>2. NovaBmp[sort] = IF sort = "pio" THEN 1 ELSE 2
    BY DEF NovaBmp
  <2> QED
    BY <2>1, <2>2 DEF SpacesOf, SpaceHas
<1>5. /\ attachedBits' = attachedBits /\ spaceOf' = spaceOf /\ objectAt' = objectAt /\ window' = window
      /\ inserted' = inserted /\ rights' = rights /\ queuedScs' = queuedScs
  BY DEF SysCtrlPd, NothingYet
<1>6. hypercall[c].step = "idle"
  BY CallAt DEF SysCtrlPd
<1>7. \A d \in CThreads, k \in Attachable : Owns(d, k)' <=> Owns(d, k)
  BY <1>2, <1>3, <1>6 DEF Owns, CreateSteps
<1>i1. CreateShape'
  BY <1>3, <1>5 DEF CreateInv, CreateShape
<1>i2. CallShapes'
  BY <1>2, <1>3 DEF CreateInv, CallShapes
<1>i3. Attachments'
  BY <1>5, <1>7 DEF CreateInv, Attachments
<1>i4. Constructions'
  BY <1>2, <1>3, <1>5 DEF CreateInv, Constructions, CreateSteps
<1>i5. ObjectsSound'
  BY <1>5 DEF CreateInv, ObjectsSound, HasBitmap, NovaRights
<1>i6. Delegations'
  BY <1>2, <1>3, <1>4, <1>5 DEF CreateInv, Delegations, SpaceHas, NovaRights
<1>i7. WindowShown'
  BY <1>5 DEF CreateInv, WindowShown
<1>i8. ScsQueued'
  BY <1>5 DEF CreateInv, ScsQueued
<1> QED
  BY <1>i1, <1>i2, <1>i3, <1>i4, <1>i5, <1>i6, <1>i7, <1>i8 DEF CreateInv

\* The permissions found in the source are among NOVA's, whatever happens to the source next.
LEMMA LookupInv == ASSUME CreateInv, NEW c \in CThreads, Lookup(c) PROVE CreateInv'
<1>0. PICK call : call = hypercall[c]
  OBVIOUS
<1>1. PICK perms : perms = {p \in call.mask : <<call.sel, p>> \in rights[call.src]}
  OBVIOUS
<1>2. PICK after : after = IF call.sel = call.end THEN Resting
              ELSE [step |-> "update", kind |-> call.kind, src |-> call.src, dst |-> call.dst,
                    sel |-> call.sel, end |-> call.end, mask |-> call.mask,
                    perms |-> perms, left |-> PermsOf[call.kind]]
  OBVIOUS
<1>3. hypercall' = [d \in CThreads |-> hypercall'[d]]
      /\ \A d \in CThreads : hypercall'[d] = IF d = c THEN after ELSE hypercall[d]
  BY <1>0, <1>1, <1>2 DEF Lookup, CreateInv, CreateShape
<1>4. call.step = "lookup" /\ call \in LookupCalls
  BY <1>0, CallAt DEF Lookup
<1>5a. call.kind \in {"pio", "msr"} /\ PermsOf[call.kind] \subseteq {"W", "R"} /\ perms \subseteq {"W", "R"}
  BY <1>1, <1>4 DEF PermsOf, LookupCalls
<1>6. \/ after = Resting /\ after.step = "idle"
      \/ /\ after \in UpdateCalls /\ after.step = "update" /\ after.kind = call.kind /\ after.dst = call.dst
         /\ after.src = call.src /\ after.sel = call.sel /\ after.perms = perms
  <2>1. CASE call.sel = call.end
    BY <2>1, <1>2 DEF Resting
  <2>2. CASE call.sel # call.end
    BY <2>2, <1>2, <1>4, <1>5a DEF UpdateCalls, LookupCalls
  <2> QED
    BY <2>1, <2>2
<1>5. /\ attachedBits' = attachedBits /\ spaceOf' = spaceOf /\ objectAt' = objectAt /\ window' = window
      /\ inserted' = inserted /\ rights' = rights /\ queuedScs' = queuedScs
  BY DEF Lookup, NothingYet
<1>7. \A d \in CThreads, k \in Attachable : Owns(d, k)' <=> Owns(d, k)
  BY <1>0, <1>3, <1>4, <1>6 DEF Owns, CreateSteps
<1>8. /\ SpaceHas(call.kind, call.dst)
      /\ SpaceHas(call.kind, call.src) \/ call.src = IF call.kind = "pio" THEN 1 ELSE 2
  BY <1>0, <1>4 DEF CreateInv, Delegations
<1>9. \A p \in perms : <<call.sel, p>> \in NovaRights(call.kind)
  <2>1. rights[call.src] \subseteq NovaRights(call.kind)
    <3>1. CASE SpaceHas(call.kind, call.src)
      BY <3>1, <1>5a DEF SpaceHas, CreateInv, CreateShape, ObjectsSound, HasBitmap
    <3>2. CASE call.src = IF call.kind = "pio" THEN 1 ELSE 2
      BY <3>2, <1>5a DEF NovaRights
    <3> QED
      BY <3>1, <3>2, <1>8
  <2> QED
    BY <2>1, <1>1
<1>i1. CreateShape'
  BY <1>3, <1>5 DEF CreateInv, CreateShape
<1>i2. CallShapes'
  BY <1>3, <1>6 DEF CreateInv, CallShapes
<1>i3. Attachments'
  BY <1>5, <1>7 DEF CreateInv, Attachments
<1>i4. Constructions'
  BY <1>3, <1>5, <1>6 DEF CreateInv, Constructions, CreateSteps
<1>i5. ObjectsSound'
  BY <1>5 DEF CreateInv, ObjectsSound, HasBitmap, NovaRights
<1>i6. Delegations'
  BY <1>3, <1>5, <1>6, <1>8, <1>9 DEF CreateInv, Delegations, SpaceHas, NovaRights
<1>i7. WindowShown'
  BY <1>5 DEF CreateInv, WindowShown
<1>i8. ScsQueued'
  BY <1>5 DEF CreateInv, ScsQueued
<1> QED
  BY <1>i1, <1>i2, <1>i3, <1>i4, <1>i5, <1>i6, <1>i7, <1>i8 DEF CreateInv

\* One bit of the destination: it becomes clear only for a permission that NOVA's space has.
LEMMA UpdateInv == ASSUME CreateInv, NEW c \in CThreads, Update(c) PROVE CreateInv'
<1>0. PICK call : call = hypercall[c]
  OBVIOUS
<1>1. PICK p : p = IF "W" \in call.left THEN "W" ELSE "R"
  OBVIOUS
<1>2. PICK after : after = IF call.left = {p}
              THEN [step |-> "lookup", kind |-> call.kind, src |-> call.src, dst |-> call.dst,
                    sel |-> call.sel + 1, end |-> call.end, mask |-> call.mask]
              ELSE [call EXCEPT !.left = call.left \ {p}]
  OBVIOUS
<1>4. call.step = "update" /\ call \in UpdateCalls
  BY <1>0, CallAt DEF Update
<1>3. hypercall' = [d \in CThreads |-> hypercall'[d]]
      /\ \A d \in CThreads : hypercall'[d] = IF d = c THEN after ELSE hypercall[d]
  BY <1>0, <1>1, <1>2 DEF Update, CreateInv, CreateShape
<1>6. \/ /\ after \in LookupCalls /\ after.step = "lookup" /\ after.kind = call.kind /\ after.dst = call.dst
         /\ after.src = call.src
      \/ /\ after \in UpdateCalls /\ after.step = "update" /\ after.kind = call.kind /\ after.dst = call.dst
         /\ after.src = call.src /\ after.sel = call.sel /\ after.perms = call.perms
  <2>1. CASE call.left = {p}
    BY <2>1, <1>2, <1>4 DEF UpdateCalls, LookupCalls
  <2>2. CASE call.left # {p}
    BY <2>2, <1>2, <1>4 DEF UpdateCalls
  <2> QED
    BY <2>1, <2>2
<1>5. /\ attachedBits' = attachedBits /\ spaceOf' = spaceOf /\ objectAt' = objectAt /\ window' = window
      /\ inserted' = inserted /\ queuedScs' = queuedScs
  BY DEF Update
<1>7. \A d \in CThreads, k \in Attachable : Owns(d, k)' <=> Owns(d, k)
  BY <1>0, <1>3, <1>4, <1>6 DEF Owns, CreateSteps
<1>8. /\ SpaceHas(call.kind, call.dst)
      /\ SpaceHas(call.kind, call.src) \/ call.src = IF call.kind = "pio" THEN 1 ELSE 2
      /\ \A q \in call.perms : <<call.sel, q>> \in NovaRights(call.kind)
  BY <1>0, <1>4 DEF CreateInv, Delegations
<1>9. PICK o \in inserted : objectAt[o].kind = call.kind /\ objectAt[o].bmp = call.dst
  BY <1>8 DEF SpaceHas
<1>10. /\ rights \in Seq(SUBSET (Nat \X {"W", "R"})) /\ Len(rights) \in 2 .. MaxBmps
       /\ call.dst \in 3 .. Len(rights) /\ call.kind \in {"pio", "msr"} /\ o \in Objects
       /\ HasBitmap(o) /\ rights[call.dst] \subseteq NovaRights(call.kind)
  <2>1. o \in Objects /\ call.kind \in {"pio", "msr"} /\ HasBitmap(o)
    BY <1>9, <1>4 DEF CreateInv, CreateShape, HasBitmap, UpdateCalls
  <2> QED
    BY <1>9, <2>1 DEF CreateInv, CreateShape, ObjectsSound
<1>11. PICK bits : bits = IF p \in call.perms THEN rights[call.dst] \cup {<<call.sel, p>>}
                          ELSE rights[call.dst] \ {<<call.sel, p>>}
  OBVIOUS
<1>12. bits \in SUBSET (Nat \X {"W", "R"}) /\ bits \subseteq NovaRights(call.kind)
  <2>1. p \in {"W", "R"} /\ call.sel \in Nat
    BY <1>1, <1>4 DEF UpdateCalls
  <2>2. rights[call.dst] \in SUBSET (Nat \X {"W", "R"})
    BY <1>10
  <2> QED
    BY <2>1, <2>2, <1>8, <1>10, <1>11
<1>13. rights' = [rights EXCEPT ![call.dst] = bits]
  BY <1>0, <1>1, <1>11 DEF Update
<1>14. /\ rights' \in Seq(SUBSET (Nat \X {"W", "R"})) /\ Len(rights') = Len(rights)
       /\ \A b \in 1 .. Len(rights) : rights'[b] = IF b = call.dst THEN bits ELSE rights[b]
  BY <1>10, <1>12, <1>13, CreateAssumption
<1>15. rights'[1] = rights[1] /\ rights'[2] = rights[2]
  BY <1>10, <1>14, CreateAssumption
<1>i1. CreateShape'
  BY <1>3, <1>5, <1>14 DEF CreateInv, CreateShape
<1>i2. CallShapes'
  BY <1>3, <1>6 DEF CreateInv, CallShapes
<1>i3. Attachments'
  BY <1>5, <1>7 DEF CreateInv, Attachments
<1>i4. Constructions'
  BY <1>3, <1>5, <1>6 DEF CreateInv, Constructions, CreateSteps
<1>i5. ObjectsSound'
  <2>1. \A x \in Objects : HasBitmap(x) => rights'[objectAt[x].bmp] \subseteq NovaRights(objectAt[x].kind)
    <3> SUFFICES ASSUME NEW x \in Objects, HasBitmap(x)
                 PROVE  rights'[objectAt[x].bmp] \subseteq NovaRights(objectAt[x].kind)
      OBVIOUS
    <3>1. objectAt[x].bmp \in 3 .. Len(rights) /\ objectAt[x].bmp \in 1 .. Len(rights)
          /\ rights[objectAt[x].bmp] \subseteq NovaRights(objectAt[x].kind)
      BY <1>10, CreateAssumption DEF CreateInv, ObjectsSound
    <3>2. CASE objectAt[x].bmp = call.dst
      <4>1. x = o
        BY <3>2, <1>9, <1>10 DEF CreateInv, ObjectsSound
      <4> QED
        BY <4>1, <3>1, <3>2, <1>9, <1>12, <1>14
    <3>3. CASE objectAt[x].bmp # call.dst
      BY <3>1, <3>3, <1>14
    <3> QED
      BY <3>2, <3>3
  <2> QED
    BY <2>1, <1>5, <1>14, <1>15 DEF CreateInv, ObjectsSound, HasBitmap, NovaRights
<1>i6. Delegations'
  BY <1>0, <1>3, <1>4, <1>5, <1>6, <1>8, <1>15 DEF CreateInv, Delegations, SpaceHas, NovaRights
<1>i7. WindowShown'
  BY <1>5 DEF CreateInv, WindowShown
<1>i8. ScsQueued'
  BY <1>5 DEF CreateInv, ScsQueued
<1> QED
  BY <1>i1, <1>i2, <1>i3, <1>i4, <1>i5, <1>i6, <1>i7, <1>i8 DEF CreateInv

\* Every step keeps the invariant.
LEMMA CreateInductive == CreateInv /\ [CreateNext]_createVars => CreateInv'
<1> SUFFICES ASSUME CreateInv, [CreateNext]_createVars PROVE CreateInv'
  OBVIOUS
<1>1. CASE UNCHANGED createVars
  <2>1. /\ attachedBits' = attachedBits /\ spaceOf' = spaceOf /\ objectAt' = objectAt /\ window' = window
        /\ inserted' = inserted /\ rights' = rights /\ queuedScs' = queuedScs /\ hypercall' = hypercall
    BY <1>1 DEF createVars
  <2>2. CreateShape' /\ CallShapes' /\ Constructions' /\ WindowShown' /\ ScsQueued'
    BY <2>1 DEF CreateInv, CreateShape, CallShapes, Constructions, WindowShown, ScsQueued
  <2>3. Attachments'
    BY <2>1 DEF CreateInv, Attachments, Owns
  <2>4. ObjectsSound'
    BY <2>1 DEF CreateInv, ObjectsSound, HasBitmap, NovaRights
  <2>5. Delegations'
    BY <2>1 DEF CreateInv, Delegations, SpaceHas, NovaRights
  <2> QED
    BY <2>2, <2>3, <2>4, <2>5 DEF CreateInv
<1>2. CASE CreateNext
  <2>1. PICK c \in CThreads :
          \/ \/ \E sort \in {"pd", "obj", "hst", "gst", "dma", "pio", "msr"} : SysCreatePd(c, sort)
             \/ \E sort \in EcKinds : SysCreateEc(c, sort)
             \/ \E e \in Objects : SysCreateSc(c, e) \/ SysCreatePt(c, e)
             \/ SysCreateSm(c)
          \/ Build(c) \/ BuildFails(c) \/ Insert(c) \/ InsertFails(c) \/ Detach(c) \/ Publish(c)
          \/ \E sort \in {"pio", "msr"}, src, dst \in 1 .. MaxBmps, base \in 0 .. MaxPort,
                ord \in 0 .. 1, mask \in {{}, {"W", "R"}} :
                SysCtrlPd(c, sort, src, dst, base, ord, mask)
          \/ Lookup(c) \/ Update(c)
    BY <1>2, Zenon DEF CreateNext, CreateStep
  <2>2. CASE \/ \E sort \in {"pd", "obj", "hst", "gst", "dma", "pio", "msr"} : SysCreatePd(c, sort)
             \/ \E sort \in EcKinds : SysCreateEc(c, sort)
             \/ \E e \in Objects : SysCreateSc(c, e) \/ SysCreatePt(c, e)
             \/ SysCreateSm(c)
    BY <2>2, SysCreateInv
  <2>3. CASE \E sort \in {"pio", "msr"}, src, dst \in 1 .. MaxBmps, base \in 0 .. MaxPort,
                ord \in 0 .. 1, mask \in {{}, {"W", "R"}} :
                SysCtrlPd(c, sort, src, dst, base, ord, mask)
    BY <2>3, SysCtrlPdInv
  <2> QED
    BY <2>1, <2>2, <2>3, BuildInv, BuildFailsInv, InsertInv, InsertFailsInv, DetachInv, PublishInv,
       LookupInv, UpdateInv
<1> QED
  BY <1>1, <1>2

\* The invariant is what was to be shown.
LEMMA CreateInvExact == CreateInv => CreateExact
<1> SUFFICES ASSUME CreateInv PROVE CreateExact
  OBVIOUS
<1>1. CreateType
  BY DEF CreateInv, CreateShape, CreateType
<1>2. ASSUME NEW k \in Attachable
      PROVE  /\ k \in attachedBits => (spaceOf[k] # NoObject) # (Owner(k) # {})
             /\ k \notin attachedBits => spaceOf[k] = NoObject /\ Owner(k) = {}
             /\ \A c, d \in Owner(k) : c = d
             /\ spaceOf[k] # NoObject => spaceOf[k] \in inserted /\ objectAt[spaceOf[k]].kind = k
  <2>1. Owner(k) = {c \in CThreads : Owns(c, k)}
    BY DEF Owner, Owns, CreateSteps
  <2>2. k \in attachedBits => (spaceOf[k] # NoObject <=> ~(Owner(k) # {}))
    BY <2>1 DEF CreateInv, Attachments
  <2>3. k \in attachedBits => (spaceOf[k] # NoObject) # (Owner(k) # {})
    BY <2>2, Zenon
  <2> QED
    BY <2>1, <2>3 DEF CreateInv, Attachments
<1>3. spaceOf["pio"] # NoObject => window[spaceOf["hst"]] = objectAt[spaceOf["pio"]].bmp
  BY DEF CreateInv, WindowShown
<1>4. ASSUME NEW o \in inserted
      PROVE  /\ objectAt[o].kind \in EcKinds => {objectAt[o].obj, objectAt[o].hst} \subseteq inserted
             /\ objectAt[o].kind \in {"local", "global"} =>
                   window[objectAt[o].hst] = objectAt[objectAt[o].pio].bmp
             /\ objectAt[o].kind \in {"pio", "msr"} =>
                   rights[objectAt[o].bmp] \subseteq rights[NovaBmp[objectAt[o].kind]]
  <2>1. o \in Objects
    BY DEF CreateInv, CreateShape
  <2>2. "obj" \in Attachable /\ "hst" \in Attachable
    BY DEF Attachable
  <2>3. objectAt[o].kind \in EcKinds => {objectAt[o].obj, objectAt[o].hst} \subseteq inserted
    BY <2>1, <2>2 DEF CreateInv, ObjectsSound, Attachments
  <2>4. objectAt[o].kind \in {"local", "global"} => window[objectAt[o].hst] = objectAt[objectAt[o].pio].bmp
    BY <2>1 DEF CreateInv, ObjectsSound, WindowShown, EcKinds
  <2>5. objectAt[o].kind \in {"pio", "msr"} => NovaRights(objectAt[o].kind) = rights[NovaBmp[objectAt[o].kind]]
    BY DEF NovaRights, NovaBmp
  <2>6. objectAt[o].kind \in {"pio", "msr"} => rights[objectAt[o].bmp] \subseteq NovaRights(objectAt[o].kind)
    BY <2>1 DEF CreateInv, ObjectsSound, HasBitmap
  <2> QED
    BY <2>3, <2>4, <2>5, <2>6
<1>5. \A s \in queuedScs : s \in inserted /\ objectAt[s].kind = "sc" /\ objectAt[s].target \in inserted
  BY DEF CreateInv, CreateShape, ScsQueued, ObjectsSound
<1> QED
  BY <1>1, <1>2, <1>3, <1>4, <1>5 DEF CreateExact

\* However the creations of a protection domain race and wherever they fail, its spaces,
\* threads and permissions stay consistent.
THEOREM CreationsExact == CreateSpec => []CreateExact
  BY CreateInitInv, CreateInductive, CreateInvExact, PTL DEF CreateSpec
-----------------------------------------------------------------------------
(* The slab allocator.                                                     *)

(***************************************************************************)
(* The slabs in the order of the list: s is the list of L slabs, of which  *)
(* the first k are partial.                                                *)
(***************************************************************************)
Chain(L, s) ==
    /\ \A i, j \in 1 .. L : s[i] = s[j] => i = j
    /\ \A p \in SlabPage : p \in slabs <=> \E i \in 1 .. L : s[i] = p
    /\ head = IF L = 0 THEN Null ELSE s[1]
    /\ \A i \in 1 .. L : /\ next[s[i]] = IF i = L THEN Null ELSE s[i + 1]
                         /\ prev[s[i]] = IF i = 1 THEN Null ELSE s[i - 1]
Sorted(L, s, k) ==
    /\ \A i \in 1 .. L : acnt[s[i]] > 0 <=> i <= k
    /\ curr = IF k = 0 THEN Null ELSE s[k]
SlabList == \E L \in Nat : \E s \in [1 .. L -> SlabPage], k \in 0 .. L : Chain(L, s) /\ Sorted(L, s, k)

(***************************************************************************)
(* The free buffers of a slab are on its list once, and counted; the other *)
(* ones, at least one, are in use.                                         *)
(***************************************************************************)
Once(q) == \A i, j \in 1 .. Len(q) : q[i] = q[j] => i = j
Lacks(q, b) == \A i \in 1 .. Len(q) : q[i] # b
SlabBufs == \A p \in slabs :
    /\ Once(bufs[p])
    /\ acnt[p] = Len(bufs[p]) /\ acnt[p] < bps
    /\ \A b \in 1 .. bps : <<p, b>> \in elems <=> Lacks(bufs[p], b)

SlabTypes ==
    /\ bps \in Nat \ {0} /\ bps \in Sizes /\ slabs \subseteq SlabPage
    /\ prev \in [SlabPage -> SlabPage \cup {Null}] /\ next \in [SlabPage -> SlabPage \cup {Null}]
    /\ bufs \in [SlabPage -> Seq(1 .. bps)] /\ acnt \in [SlabPage -> 0 .. bps]
    /\ elems \subseteq slabs \X (1 .. bps)

SlabInv == SlabTypes /\ SlabBufs /\ SlabList

\* A list of buffers without duplicates is as long as it has elements.
LEMMA BufferCount ==
    ASSUME NEW n \in Nat, NEW q \in Seq(1 .. n), Once(q)
    PROVE  /\ Cardinality({q[i] : i \in 1 .. Len(q)}) = Len(q) /\ Len(q) <= n
           /\ Len(q) = n <=> \A b \in 1 .. n : \E i \in 1 .. Len(q) : q[i] = b
           /\ Len(q) = n - 1 => \A b, c \in 1 .. n :
                 Lacks(q, b) /\ Lacks(q, c) => b = c
<1> DEFINE R == {q[i] : i \in 1 .. Len(q)}
<1> USE DEF Once, Lacks
<1>1. Len(q) \in Nat /\ R \subseteq 1 .. n
  OBVIOUS
<1>2. IsFiniteSet(1 .. n) /\ Cardinality(1 .. n) = n
  BY FS_Interval
<1>3. ExistsBijection(1 .. Len(q), R)
  <2> DEFINE f == [i \in 1 .. Len(q) |-> q[i]]
  <2>1. f \in [1 .. Len(q) -> R]
    OBVIOUS
  <2>2. \A i, j \in 1 .. Len(q) : f[i] = f[j] => i = j
    OBVIOUS
  <2>3. \A r \in R : \E i \in 1 .. Len(q) : f[i] = r
    OBVIOUS
  <2>4. f \in Bijection(1 .. Len(q), R)
    BY <2>1, <2>2, <2>3 DEF Bijection, Injection, Surjection, IsInjective
  <2> QED
    BY <2>4 DEF ExistsBijection
<1>4. Cardinality(R) = Len(q)
  BY <1>1, <1>3, FS_CountingElements
<1>5. IsFiniteSet(R) /\ Cardinality(R) <= n /\ (Cardinality(R) = n => R = 1 .. n)
  <2>1. R \in SUBSET (1 .. n)
    BY <1>1
  <2> HIDE DEF R
  <2>2. IsFiniteSet(R) /\ Cardinality(R) <= Cardinality(1 .. n)
        /\ (Cardinality(R) = Cardinality(1 .. n) => R = 1 .. n)
    BY <1>2, <2>1, FS_Subset
  <2> QED
    BY <1>2, <2>2
<1>6. Len(q) = n <=> R = 1 .. n
  BY <1>2, <1>4, <1>5
<1>7. ASSUME Len(q) = n - 1, NEW b \in 1 .. n, NEW c \in 1 .. n, b # c,
             Lacks(q, b) /\ Lacks(q, c)
      PROVE  FALSE
  <2>1. b \notin R /\ c \notin R
    BY <1>7
  <2>2. IsFiniteSet((1 .. n) \ {b}) /\ Cardinality((1 .. n) \ {b}) = n - 1
    BY <1>2, FS_RemoveElement
  <2>3. R \subseteq (1 .. n) \ {b} /\ Cardinality(R) = n - 1
    BY <1>1, <1>4, <1>7, <2>1
  <2>4. R = (1 .. n) \ {b}
    BY <2>2, <2>3, FS_Subset
  <2> QED
    BY <1>7, <2>1, <2>4
<1>8. Len(q) = n <=> \A b \in 1 .. n : \E i \in 1 .. Len(q) : q[i] = b
  <2>1. R = 1 .. n => \A b \in 1 .. n : \E i \in 1 .. Len(q) : q[i] = b
    OBVIOUS
  <2>2. ASSUME \A b \in 1 .. n : \E i \in 1 .. Len(q) : q[i] = b PROVE R = 1 .. n
    <3>1. ASSUME NEW b \in 1 .. n PROVE b \in R
      BY <2>2
    <3> QED
      BY <1>1, <3>1
  <2> HIDE DEF R
  <2> QED
    BY <1>6, <2>1, <2>2
<1> QED
  BY <1>4, <1>5, <1>7, <1>8


\* The first free buffer is taken off the list.
LEMMA TailBufs ==
    ASSUME NEW n \in Nat, NEW q \in Seq(1 .. n), Once(q), Len(q) > 0
    PROVE  /\ Tail(q) \in Seq(1 .. n) /\ Len(Tail(q)) = Len(q) - 1 /\ Once(Tail(q))
           /\ Head(q) \in 1 .. n
           /\ \A b \in 1 .. n : Lacks(Tail(q), b) <=> Lacks(q, b) \/ b = Head(q)
<1>1. Len(q) \in Nat \ {0} /\ \A i \in 1 .. Len(q) : q[i] \in 1 .. n
  OBVIOUS
<1>2. q # <<>> /\ Tail(q) \in Seq(1 .. n) /\ Len(Tail(q)) = Len(q) - 1 /\ Head(q) = q[1]
  OBVIOUS
<1>3. \A i \in 1 .. Len(Tail(q)) : Tail(q)[i] = q[i + 1]
  BY <1>1, <1>2
<1>4. Once(Tail(q))
  BY <1>1, <1>2, <1>3 DEF Once
<1>5. ASSUME NEW b \in 1 .. n, Lacks(Tail(q), b), b # Head(q) PROVE Lacks(q, b)
  <2>1. ASSUME NEW i \in 1 .. Len(q) PROVE q[i] # b
    <3>1. CASE i = 1
      BY <1>2, <1>5, <3>1
    <3>2. CASE i # 1
      <4>1. i - 1 \in 1 .. Len(Tail(q)) /\ (i - 1) + 1 = i
        BY <1>1, <1>2, <3>2
      <4> QED
        BY <1>3, <1>5, <4>1 DEF Lacks
    <3> QED
      BY <3>1, <3>2
  <2> QED
    BY <2>1 DEF Lacks
<1>6. ASSUME NEW b \in 1 .. n, Lacks(q, b) PROVE Lacks(Tail(q), b)
  BY <1>1, <1>2, <1>3, <1>6 DEF Lacks
<1>7. Lacks(Tail(q), Head(q))
  BY <1>1, <1>2, <1>3 DEF Lacks, Once
<1> QED
  BY <1>1, <1>2, <1>4, <1>5, <1>6, <1>7

\* A freed buffer is put in front of the list.
LEMMA ConsBufs ==
    ASSUME NEW n \in Nat, NEW q \in Seq(1 .. n), Once(q), NEW c \in 1 .. n, Lacks(q, c)
    PROVE  LET r == <<c>> \o q
           IN  /\ r \in Seq(1 .. n) /\ Len(r) = Len(q) + 1 /\ Once(r)
               /\ \A b \in 1 .. n : Lacks(r, b) <=> Lacks(q, b) /\ b # c
<1> DEFINE r == <<c>> \o q
<1>1. Len(q) \in Nat /\ r \in Seq(1 .. n) /\ Len(r) = Len(q) + 1
  OBVIOUS
<1>2. r[1] = c /\ \A i \in 1 .. Len(q) : r[i + 1] = q[i]
  OBVIOUS
<1>3. \A i \in 2 .. Len(q) + 1 : r[i] = q[i - 1]
  BY <1>1, <1>2
<1> HIDE DEF r
<1>s. ASSUME NEW i \in 1 .. Len(r) PROVE i = 1 \/ (i - 1 \in 1 .. Len(q) /\ r[i] = q[i - 1])
  BY <1>1, <1>3
<1>4. Once(r)
  <2>1. ASSUME NEW i \in 1 .. Len(r), NEW j \in 1 .. Len(r), r[i] = r[j] PROVE i = j
    <3>1. CASE i = 1 /\ j = 1
      BY <3>1
    <3>2. CASE i # 1 /\ j # 1
      <4>1. q[i - 1] = q[j - 1] /\ i - 1 \in 1 .. Len(q) /\ j - 1 \in 1 .. Len(q)
        BY <1>s, <2>1, <3>2
      <4>2. i - 1 = j - 1
        BY <4>1 DEF Once
      <4> QED
        BY <1>1, <4>2
    <3>3. CASE i = 1 /\ j # 1
      BY <1>2, <1>s, <2>1, <3>3 DEF Lacks
    <3>4. CASE i # 1 /\ j = 1
      BY <1>2, <1>s, <2>1, <3>4 DEF Lacks
    <3> QED
      BY <3>1, <3>2, <3>3, <3>4
  <2> QED
    BY <2>1 DEF Once
<1>5. ASSUME NEW b \in 1 .. n, Lacks(q, b), b # c PROVE Lacks(r, b)
  <2>1. ASSUME NEW i \in 1 .. Len(r) PROVE r[i] # b
    BY <1>2, <1>s, <1>5 DEF Lacks
  <2> QED
    BY <2>1 DEF Lacks
<1>6. ASSUME NEW b \in 1 .. n, Lacks(r, b) PROVE Lacks(q, b) /\ b # c
  BY <1>1, <1>2, <1>6 DEF Lacks
<1> QED
  BY <1>1, <1>4, <1>5, <1>6 DEF r

\* What an invariant state says of the slab at position i of the list.
LEMMA AtPlace ==
    ASSUME SlabTypes, NEW L \in Nat, NEW s \in [1 .. L -> SlabPage], Chain(L, s), NEW i \in 1 .. L
    PROVE  s[i] \in SlabPage /\ s[i] \in slabs /\ s[i] # Null
BY SlabAssumption DEF Chain

LEMMA CurrPlace ==
    ASSUME SlabTypes, NEW L \in Nat, NEW s \in [1 .. L -> SlabPage], NEW k \in 0 .. L,
           Chain(L, s), Sorted(L, s, k), curr # Null
    PROVE  k \in 1 .. L /\ curr = s[k] /\ curr \in slabs /\ curr \in SlabPage /\ acnt[curr] > 0
<1>1. k \in 1 .. L /\ curr = s[k]
  BY DEF Sorted
<1>2. curr \in slabs /\ curr \in SlabPage
  BY <1>1, AtPlace
<1> QED
  BY <1>1, <1>2 DEF Sorted

\* Taking a buffer of slab p keeps the buffers right.
LEMMA TakeBufs ==
    ASSUME SlabTypes, SlabBufs, NEW p \in slabs, acnt[p] > 0, UNCHANGED <<bps, slabs>>,
           elems' = elems \cup {<<p, Head(bufs[p])>>},
           bufs' = [bufs EXCEPT ![p] = Tail(@)], acnt' = [acnt EXCEPT ![p] = @ - 1]
    PROVE  /\ SlabBufs' /\ elems' \subseteq slabs' \X (1 .. bps')
           /\ bufs' \in [SlabPage -> Seq(1 .. bps')] /\ acnt' \in [SlabPage -> 0 .. bps']
<1>1. p \in SlabPage /\ bps \in Nat /\ bufs[p] \in Seq(1 .. bps) /\ acnt[p] \in 0 .. bps
  BY DEF SlabTypes
<1>2. Once(bufs[p]) /\ acnt[p] = Len(bufs[p]) /\ acnt[p] < bps
      /\ \A b \in 1 .. bps : <<p, b>> \in elems <=> Lacks(bufs[p], b)
  BY DEF SlabBufs
<1> DEFINE t == Tail(bufs[p])
<1> DEFINE h == Head(bufs[p])
<1>3. /\ t \in Seq(1 .. bps) /\ Len(t) = Len(bufs[p]) - 1 /\ Once(t) /\ h \in 1 .. bps
      /\ \A b \in 1 .. bps : Lacks(t, b) <=> Lacks(bufs[p], b) \/ b = h
  BY <1>1, <1>2, TailBufs
<1>4. bufs' = [bufs EXCEPT ![p] = t] /\ elems' = elems \cup {<<p, h>>}
  OBVIOUS
<1> HIDE DEF t, h
<1>5. elems' \subseteq slabs' \X (1 .. bps')
  BY <1>3, <1>4 DEF SlabTypes
<1>6. bufs' \in [SlabPage -> Seq(1 .. bps')]
  BY <1>3, <1>4 DEF SlabTypes
<1>7. acnt' \in [SlabPage -> 0 .. bps']
  BY <1>1 DEF SlabTypes
<1>8. ASSUME NEW q \in slabs, q # p
      PROVE  /\ bufs'[q] = bufs[q] /\ acnt'[q] = acnt[q]
             /\ \A b \in 1 .. bps : <<q, b>> \in elems' <=> <<q, b>> \in elems
  BY <1>4, <1>8 DEF SlabTypes
<1>9. bufs'[p] = t /\ acnt'[p] = acnt[p] - 1
      /\ \A b \in 1 .. bps : <<p, b>> \in elems' <=> <<p, b>> \in elems \/ b = h
  BY <1>1, <1>4 DEF SlabTypes
<1>10. ASSUME NEW q \in slabs
       PROVE  /\ Once(bufs'[q]) /\ acnt'[q] = Len(bufs'[q]) /\ acnt'[q] < bps
              /\ \A b \in 1 .. bps : <<q, b>> \in elems' <=> Lacks(bufs'[q], b)
  <2>1. CASE q = p
    <3>1. Once(t) /\ acnt[p] - 1 = Len(t) /\ acnt[p] - 1 < bps
      BY <1>1, <1>2, <1>3
    <3>2. \A b \in 1 .. bps : <<p, b>> \in elems' <=> Lacks(t, b)
      BY <1>2, <1>3, <1>9
    <3> QED
      BY <1>9, <2>1, <3>1, <3>2
  <2>2. CASE q # p
    BY <1>8, <2>2 DEF SlabBufs
  <2> QED
    BY <2>1, <2>2
<1>11. SlabBufs'
  BY <1>10, Zenon DEF SlabBufs
<1> QED
  BY <1>5, <1>6, <1>7, <1>11

\* alloc() from the current slab: it stays the last partial one, or the slab
\* before it becomes that.
LEMMA AllocCurrKeeps ==
    ASSUME SlabInv, AllocCurr
    PROVE  SlabInv'
<1>0. PICK L \in Nat : \E s \in [1 .. L -> SlabPage], k \in 0 .. L : Chain(L, s) /\ Sorted(L, s, k)
  BY DEF SlabInv, SlabList
<1>1. PICK s \in [1 .. L -> SlabPage], k \in 0 .. L : Chain(L, s) /\ Sorted(L, s, k)
  BY <1>0
<1>2. k \in 1 .. L /\ curr = s[k] /\ curr \in slabs /\ curr \in SlabPage /\ acnt[curr] > 0
  BY <1>1, CurrPlace DEF SlabInv, AllocCurr
<1>3. UNCHANGED <<bps, head, prev, next, slabs>> /\ elems' = elems \cup {<<curr, Head(bufs[curr])>>}
      /\ bufs' = [bufs EXCEPT ![curr] = Tail(@)] /\ acnt' = [acnt EXCEPT ![curr] = @ - 1]
      /\ curr' = IF acnt[curr] = 1 THEN prev[curr] ELSE curr
  BY DEF AllocCurr, Take
<1>4. /\ SlabBufs' /\ elems' \subseteq slabs' \X (1 .. bps')
      /\ bufs' \in [SlabPage -> Seq(1 .. bps')] /\ acnt' \in [SlabPage -> 0 .. bps']
  BY <1>2, <1>3, TakeBufs DEF SlabInv
<1>5. SlabTypes'
  BY <1>3, <1>4 DEF SlabInv, SlabTypes
<1>6. Chain(L, s)'
  BY <1>1, <1>3 DEF Chain
<1>m. PICK m \in 0 .. L : m = IF acnt[curr] = 1 THEN k - 1 ELSE k
  BY <1>2
<1>7. \A i \in 1 .. L : s[i] \in SlabPage /\ (s[i] = curr => i = k)
  BY <1>1, <1>2 DEF Chain
<1>8. \A i \in 1 .. L : acnt'[s[i]] = IF i = k THEN acnt[s[i]] - 1 ELSE acnt[s[i]]
  BY <1>2, <1>3, <1>7 DEF SlabInv, SlabTypes
<1>9. \A i \in 1 .. L : acnt[s[i]] \in Nat /\ (acnt[s[i]] > 0 <=> i <= k)
  <2>1. bps \in Nat /\ acnt \in [SlabPage -> 0 .. bps]
    BY DEF SlabInv, SlabTypes
  <2>2. \A i \in 1 .. L : acnt[s[i]] > 0 <=> i <= k
    BY <1>1 DEF Sorted
  <2> QED
    BY <1>7, <2>1, <2>2
<1>10. \A i \in 1 .. L : acnt'[s[i]] > 0 <=> i <= m
  BY <1>2, <1>m, <1>8, <1>9
<1>11. prev[curr] = IF k = 1 THEN Null ELSE s[k - 1]
  BY <1>1, <1>2 DEF Chain
<1>12. curr' = IF m = 0 THEN Null ELSE s[m]
  BY <1>2, <1>3, <1>11, <1>m
<1>13. Sorted(L, s, m)'
  BY <1>10, <1>12 DEF Sorted
<1> QED
  BY <1>4, <1>5, <1>6, <1>10, <1>13 DEF SlabInv, SlabList

\* A fresh slab has all its buffers on its list.
LEMMA AllFreeBufs ==
    ASSUME SlabTypes
    PROVE  AllFree \in Seq(1 .. bps) /\ Len(AllFree) = bps /\ Once(AllFree)
           /\ \A b \in 1 .. bps : ~Lacks(AllFree, b)
<1>1. bps \in Nat \ {0}
  BY DEF SlabTypes
<1>2. AllFree \in [1 .. bps -> 1 .. bps] /\ \A i \in 1 .. bps : AllFree[i] = bps + 1 - i
  BY <1>1 DEF AllFree
<1>3. AllFree \in Seq(1 .. bps) /\ Len(AllFree) = bps
  BY <1>1 DEF AllFree
<1>4. Once(AllFree)
  BY <1>1, <1>2, <1>3 DEF Once
<1>5. ASSUME NEW b \in 1 .. bps PROVE ~Lacks(AllFree, b)
  <2>1. bps + 1 - b \in 1 .. bps /\ AllFree[bps + 1 - b] = b
    BY <1>1, <1>2
  <2> QED
    BY <1>3, <2>1 DEF Lacks
<1> QED
  BY <1>3, <1>4, <1>5

\* The buffers of a fresh slab p: one is handed out.
LEMMA FreshBufs ==
    ASSUME SlabTypes, SlabBufs, NEW p \in SlabPage, p \notin slabs, bps' = bps, slabs' = slabs \cup {p},
           elems' = elems \cup {<<p, Head(AllFree)>>},
           bufs' = [bufs EXCEPT ![p] = Tail(AllFree)], acnt' = [acnt EXCEPT ![p] = bps - 1]
    PROVE  /\ SlabBufs' /\ elems' \subseteq slabs' \X (1 .. bps')
           /\ bufs' \in [SlabPage -> Seq(1 .. bps')] /\ acnt' \in [SlabPage -> 0 .. bps']
<1>1. bps \in Nat \ {0}
  BY DEF SlabTypes
<1>2. AllFree \in Seq(1 .. bps) /\ Len(AllFree) = bps /\ Once(AllFree)
      /\ \A b \in 1 .. bps : ~Lacks(AllFree, b)
  BY AllFreeBufs
<1> DEFINE t == Tail(AllFree)
<1> DEFINE h == Head(AllFree)
<1>3. /\ t \in Seq(1 .. bps) /\ Len(t) = bps - 1 /\ Once(t) /\ h \in 1 .. bps
      /\ \A b \in 1 .. bps : Lacks(t, b) <=> Lacks(AllFree, b) \/ b = h
  BY <1>1, <1>2, TailBufs
<1>4. bufs' = [bufs EXCEPT ![p] = t] /\ elems' = elems \cup {<<p, h>>}
  OBVIOUS
<1> HIDE DEF t, h
<1>5. elems' \subseteq slabs' \X (1 .. bps')
  BY <1>3, <1>4 DEF SlabTypes
<1>6. bufs' \in [SlabPage -> Seq(1 .. bps')]
  BY <1>3, <1>4 DEF SlabTypes
<1>7. acnt' \in [SlabPage -> 0 .. bps']
  BY <1>1 DEF SlabTypes
<1>8. ASSUME NEW q \in slabs
      PROVE  /\ bufs'[q] = bufs[q] /\ acnt'[q] = acnt[q]
             /\ \A b \in 1 .. bps : <<q, b>> \in elems' <=> <<q, b>> \in elems
  BY <1>4, <1>8 DEF SlabTypes
<1>9. bufs'[p] = t /\ acnt'[p] = bps - 1
      /\ \A b \in 1 .. bps : <<p, b>> \in elems' <=> b = h
  BY <1>1, <1>4 DEF SlabTypes
<1>10. ASSUME NEW q \in slabs'
       PROVE  /\ Once(bufs'[q]) /\ acnt'[q] = Len(bufs'[q]) /\ acnt'[q] < bps'
              /\ \A b \in 1 .. bps' : <<q, b>> \in elems' <=> Lacks(bufs'[q], b)
  <2>1. CASE q = p
    <3>1. Once(t) /\ bps - 1 = Len(t) /\ bps - 1 < bps'
      BY <1>1, <1>3
    <3>2. \A b \in 1 .. bps' : <<p, b>> \in elems' <=> Lacks(t, b)
      BY <1>2, <1>3, <1>9
    <3> QED
      BY <1>9, <2>1, <3>1, <3>2
  <2>2. CASE q \in slabs
    BY <1>8, <2>2 DEF SlabBufs
  <2> QED
    BY <2>1, <2>2
<1>11. SlabBufs'
  BY <1>10, Zenon DEF SlabBufs
<1> QED
  BY <1>5, <1>6, <1>7, <1>11

\* alloc() without a current slab: the fresh slab is the first of the list.
LEMMA AllocNewKeeps ==
    ASSUME SlabInv, AllocNew
    PROVE  SlabInv'
<1>0. PICK L \in Nat : \E s \in [1 .. L -> SlabPage], k \in 0 .. L : Chain(L, s) /\ Sorted(L, s, k)
  BY DEF SlabInv, SlabList
<1>1. PICK s \in [1 .. L -> SlabPage], k \in 0 .. L : Chain(L, s) /\ Sorted(L, s, k)
  BY <1>0
<1>2. bps \in Nat \ {0} /\ slabs \subseteq SlabPage /\ prev \in [SlabPage -> SlabPage \cup {Null}]
      /\ next \in [SlabPage -> SlabPage \cup {Null}]
  BY DEF SlabInv, SlabTypes
<1>3. PICK p : p = FreshPage
  OBVIOUS
<1>4. p \in SlabPage /\ p \notin slabs /\ p # Null
  BY <1>2, <1>3, SlabAssumption DEF AllocNew, FreshPage
<1>5. /\ curr = Null /\ bps' = bps /\ head' = p /\ slabs' = slabs \cup {p}
      /\ next' = [next EXCEPT ![p] = head]
      /\ prev' = Set([prev EXCEPT ![p] = Null], head, p)
      /\ Take(p, [prev EXCEPT ![p] = Null], [bufs EXCEPT ![p] = AllFree], [acnt EXCEPT ![p] = bps])
  BY <1>3 DEF AllocNew
<1>6. /\ elems' = elems \cup {<<p, Head(AllFree)>>}
      /\ bufs' = [bufs EXCEPT ![p] = Tail(AllFree)] /\ acnt' = [acnt EXCEPT ![p] = bps - 1]
      /\ curr' = IF bps = 1 THEN Null ELSE p
  BY <1>4, <1>5, Zenon DEF Take, SlabInv, SlabTypes
<1>7. /\ SlabBufs' /\ elems' \subseteq slabs' \X (1 .. bps')
      /\ bufs' \in [SlabPage -> Seq(1 .. bps')] /\ acnt' \in [SlabPage -> 0 .. bps']
  BY <1>4, <1>5, <1>6, FreshBufs DEF SlabInv
<1>8. k = 0
  <2>1. ASSUME k # 0 PROVE FALSE
    BY <1>1, <1>5, <2>1, SlabAssumption DEF Sorted
  <2> QED
    BY <2>1
<1>9. \A i \in 1 .. L : s[i] \in SlabPage /\ s[i] \in slabs /\ s[i] # p /\ s[i] # Null
  BY <1>1, <1>4, AtPlace DEF SlabInv
<1>10. \A i \in 1 .. L : acnt[s[i]] = 0
  BY <1>1, <1>8, <1>9 DEF Sorted, SlabInv, SlabTypes
<1>11. head = IF L = 0 THEN Null ELSE s[1]
  BY <1>1 DEF Chain
<1>12. head \in SlabPage \cup {Null} /\ (head = Null <=> L = 0)
  BY <1>9, <1>11
<1>13. SlabTypes'
  <2>1. prev' \in [SlabPage -> SlabPage \cup {Null}]
    BY <1>2, <1>4, <1>5, <1>12 DEF Set
  <2>2. next' \in [SlabPage -> SlabPage \cup {Null}]
    BY <1>2, <1>4, <1>5, <1>12
  <2>3. bps' \in Nat \ {0} /\ bps' \in Sizes /\ slabs' \subseteq SlabPage
    BY <1>4, <1>5 DEF SlabInv, SlabTypes
  <2> QED
    BY <1>7, <2>1, <2>2, <2>3 DEF SlabTypes
<1>14. PICK M \in Nat : M = L + 1
  OBVIOUS
<1>15. PICK t \in [1 .. M -> SlabPage] : t = [i \in 1 .. M |-> IF i = 1 THEN p ELSE s[i - 1]]
  <2>1. \A i \in 1 .. M : (IF i = 1 THEN p ELSE s[i - 1]) \in SlabPage
    BY <1>4, <1>9, <1>14
  <2> QED
    BY <2>1
<1>16. t[1] = p /\ \A i \in 1 .. L : t[i + 1] = s[i]
  BY <1>14, <1>15
<1>17. ASSUME NEW i \in 1 .. M PROVE i = 1 \/ (i - 1 \in 1 .. L /\ t[i] = s[i - 1])
  BY <1>14, <1>15
<1>18. Chain(M, t)'
  <2>1. ASSUME NEW i \in 1 .. M, NEW j \in 1 .. M, t[i] = t[j] PROVE i = j
    <3>1. CASE i = 1 \/ j = 1
      BY <1>9, <1>16, <1>17, <2>1, <3>1
    <3>2. CASE i # 1 /\ j # 1
      <4>1. i - 1 \in 1 .. L /\ j - 1 \in 1 .. L /\ s[i - 1] = s[j - 1]
        BY <1>17, <2>1, <3>2
      <4>2. i - 1 = j - 1
        BY <1>1, <4>1 DEF Chain
      <4> QED
        BY <4>2
    <3> QED
      BY <3>1, <3>2
  <2>2. ASSUME NEW q \in SlabPage PROVE q \in slabs' <=> \E i \in 1 .. M : t[i] = q
    <3>1. ASSUME q \in slabs PROVE \E i \in 1 .. M : t[i] = q
      <4>1. PICK i \in 1 .. L : s[i] = q
        BY <1>1, <3>1 DEF Chain
      <4>2. i + 1 \in 1 .. M /\ t[i + 1] = q
        BY <1>14, <1>16, <4>1
      <4> QED
        BY <4>2
    <3>2. 1 \in 1 .. M
      BY <1>14
    <3>3. ASSUME NEW i \in 1 .. M, t[i] = q PROVE q \in slabs'
      BY <1>5, <1>9, <1>16, <1>17, <3>3
    <3> QED
      BY <1>5, <1>16, <3>1, <3>2, <3>3
  <2>3. head' = IF M = 0 THEN Null ELSE t[1]
    BY <1>5, <1>14, <1>16
  <2>4. ASSUME NEW i \in 1 .. M PROVE next'[t[i]] = IF i = M THEN Null ELSE t[i + 1]
    <3>1. CASE i = 1
      <4>1. next'[p] = head
        BY <1>2, <1>4, <1>5
      <4>2. L # 0 => t[2] = s[1]
        BY <1>16
      <4> QED
        BY <1>11, <1>14, <1>16, <3>1, <4>1, <4>2
    <3>2. CASE i # 1
      <4>1. i - 1 \in 1 .. L /\ t[i] = s[i - 1] /\ next'[s[i - 1]] = next[s[i - 1]]
        BY <1>2, <1>5, <1>9, <1>17, <3>2
      <4>2. next[s[i - 1]] = IF i - 1 = L THEN Null ELSE s[(i - 1) + 1]
        BY <1>1, <4>1 DEF Chain
      <4>3. (i - 1 = L <=> i = M) /\ (i - 1) + 1 = i /\ (i # M => i \in 1 .. L)
        BY <1>14, <3>2
      <4> QED
        BY <1>16, <4>1, <4>2, <4>3
    <3> QED
      BY <3>1, <3>2
  <2>5. ASSUME NEW i \in 1 .. M PROVE prev'[t[i]] = IF i = 1 THEN Null ELSE t[i - 1]
    <3>1. CASE i = 1
      <4>1. head # p
        BY <1>4, <1>9, <1>11
      <4>2. prev'[p] = Null
        BY <1>2, <1>4, <1>5, <1>12, <4>1 DEF Set
      <4> QED
        BY <1>16, <3>1, <4>2
    <3>2. CASE i = 2
      <4>1. t[i] = s[1] /\ head = s[1] /\ head \in SlabPage /\ head # Null
        BY <1>9, <1>11, <1>17, <3>2
      <4>2. prev'[head] = p
        BY <1>2, <1>4, <1>5, <4>1 DEF Set
      <4> QED
        BY <1>16, <3>2, <4>1, <4>2
    <3>3. CASE i # 1 /\ i # 2
      <4>1. i - 1 \in 1 .. L /\ t[i] = s[i - 1] /\ i - 1 # 1 /\ 1 \in 1 .. L /\ L # 0
        BY <1>14, <1>17, <3>3
      <4>2. s[i - 1] # head /\ s[i - 1] # p /\ head # Null /\ head \in SlabPage /\ s[i - 1] \in SlabPage
        BY <1>1, <1>9, <1>11, <4>1 DEF Chain
      <4>3. prev'[s[i - 1]] = prev[s[i - 1]]
        BY <1>2, <1>4, <1>5, <4>2 DEF Set
      <4>4. prev[s[i - 1]] = s[(i - 1) - 1]
        BY <1>1, <4>1 DEF Chain
      <4>5. i - 1 - 1 \in 1 .. L /\ (i - 1 - 1) + 1 = i - 1
        BY <1>14, <3>3
      <4>6. t[i - 1] = s[i - 1 - 1]
        BY <1>16, <4>5
      <4> QED
        BY <3>3, <4>1, <4>3, <4>4, <4>6
    <3> QED
      BY <3>1, <3>2, <3>3
  <2> QED
    BY <2>1, <2>2, <2>3, <2>4, <2>5 DEF Chain
<1>19. PICK m \in 0 .. M : m = IF bps = 1 THEN 0 ELSE 1
  BY <1>14
<1>20. ASSUME NEW i \in 1 .. M PROVE acnt'[t[i]] > 0 <=> i <= m
  <2>1. CASE i = 1
    <3>1. acnt'[p] = bps - 1
      BY <1>4, <1>6 DEF SlabInv, SlabTypes
    <3> QED
      BY <1>2, <1>16, <1>19, <2>1, <3>1
  <2>2. CASE i # 1
    <3>1. i - 1 \in 1 .. L /\ t[i] = s[i - 1] /\ acnt'[s[i - 1]] = acnt[s[i - 1]]
      BY <1>6, <1>9, <1>17, <2>2 DEF SlabInv, SlabTypes
    <3>2. acnt[s[i - 1]] = 0
      BY <1>10, <3>1
    <3>3. ~(i <= m)
      BY <1>14, <1>19, <2>2
    <3> QED
      BY <3>1, <3>2, <3>3
  <2> QED
    BY <2>1, <2>2
<1>21. Sorted(M, t, m)'
  BY <1>6, <1>16, <1>19, <1>20 DEF Sorted
<1> QED
  BY <1>7, <1>13, <1>18, <1>21 DEF SlabInv, SlabList

\* An element in use is a buffer of a slab in the list, and is not free.
LEMMA ElemPlace ==
    ASSUME SlabTypes, SlabBufs, NEW e \in elems
    PROVE  /\ e[1] \in slabs /\ e[1] \in SlabPage /\ e[2] \in 1 .. bps /\ e = <<e[1], e[2]>>
           /\ Lacks(bufs[e[1]], e[2])
<1>1. e \in slabs \X (1 .. bps)
  BY DEF SlabTypes
<1>2. e[1] \in slabs /\ e[1] \in SlabPage /\ e[2] \in 1 .. bps /\ e = <<e[1], e[2]>>
  BY <1>1 DEF SlabTypes
<1>3. <<e[1], e[2]>> \in elems
  BY <1>2
<1> QED
  BY <1>2, <1>3 DEF SlabBufs

\* Giving a buffer back to its slab, which is not empty then.
LEMMA PutBufs ==
    ASSUME SlabTypes, SlabBufs, NEW e \in elems, acnt[e[1]] + 1 < bps, Put(e), UNCHANGED <<bps, slabs>>
    PROVE  /\ SlabBufs' /\ elems' \subseteq slabs' \X (1 .. bps')
           /\ bufs' \in [SlabPage -> Seq(1 .. bps')] /\ acnt' \in [SlabPage -> 0 .. bps']
<1> DEFINE p == e[1]
<1> DEFINE c == e[2]
<1>1. p \in slabs /\ p \in SlabPage /\ c \in 1 .. bps /\ e = <<p, c>> /\ Lacks(bufs[p], c)
  BY ElemPlace
<1>2. bps \in Nat \ {0} /\ bufs[p] \in Seq(1 .. bps) /\ acnt[p] \in 0 .. bps
  BY <1>1 DEF SlabTypes
<1>3. Once(bufs[p]) /\ acnt[p] = Len(bufs[p])
      /\ \A b \in 1 .. bps : <<p, b>> \in elems <=> Lacks(bufs[p], b)
  BY <1>1 DEF SlabBufs
<1> DEFINE r == <<c>> \o bufs[p]
<1>4. /\ r \in Seq(1 .. bps) /\ Len(r) = Len(bufs[p]) + 1 /\ Once(r)
      /\ \A b \in 1 .. bps : Lacks(r, b) <=> Lacks(bufs[p], b) /\ b # c
  BY <1>1, <1>2, <1>3, ConsBufs
<1>5. bufs' = [bufs EXCEPT ![p] = r] /\ elems' = elems \ {e} /\ acnt' = [acnt EXCEPT ![p] = @ + 1]
  BY DEF Put
<1>6. acnt[p] + 1 < bps
  OBVIOUS
<1> HIDE DEF r, p, c
<1>7. elems' \subseteq slabs' \X (1 .. bps')
  BY <1>5 DEF SlabTypes
<1>8. bufs' \in [SlabPage -> Seq(1 .. bps')]
  BY <1>4, <1>5 DEF SlabTypes
<1>9. acnt' \in [SlabPage -> 0 .. bps']
  <2>1. acnt \in [SlabPage -> 0 .. bps] /\ acnt[p] + 1 \in 0 .. bps /\ bps' = bps
    BY <1>2, <1>6 DEF SlabTypes
  <2> QED
    BY <1>1, <1>5, <2>1
<1>10. ASSUME NEW q \in slabs, q # p
       PROVE  /\ bufs'[q] = bufs[q] /\ acnt'[q] = acnt[q]
              /\ \A b \in 1 .. bps : <<q, b>> \in elems' <=> <<q, b>> \in elems
  BY <1>1, <1>5, <1>10 DEF SlabTypes
<1>11. bufs'[p] = r /\ acnt'[p] = acnt[p] + 1
       /\ \A b \in 1 .. bps : <<p, b>> \in elems' <=> <<p, b>> \in elems /\ b # c
  BY <1>1, <1>5 DEF SlabTypes
<1>12. ASSUME NEW q \in slabs'
       PROVE  /\ Once(bufs'[q]) /\ acnt'[q] = Len(bufs'[q]) /\ acnt'[q] < bps'
              /\ \A b \in 1 .. bps' : <<q, b>> \in elems' <=> Lacks(bufs'[q], b)
  <2>1. CASE q = p
    <3>1. Once(r) /\ acnt[p] + 1 = Len(r) /\ acnt[p] + 1 < bps'
      BY <1>3, <1>4, <1>6
    <3>2. \A b \in 1 .. bps' : <<p, b>> \in elems' <=> Lacks(r, b)
      BY <1>3, <1>4, <1>11
    <3> QED
      BY <1>11, <2>1, <3>1, <3>2
  <2>2. CASE q # p
    BY <1>10, <2>2 DEF SlabBufs
  <2> QED
    BY <2>1, <2>2
<1>13. SlabBufs'
  BY <1>12, Zenon DEF SlabBufs
<1> QED
  BY <1>7, <1>8, <1>9, <1>13

\* free() of an element of a partial slab that stays partial.
LEMMA FreePartialKeeps ==
    ASSUME SlabInv, NEW e \in elems, FreePartial(e)
    PROVE  SlabInv'
<1>0. PICK L \in Nat : \E s \in [1 .. L -> SlabPage], k \in 0 .. L : Chain(L, s) /\ Sorted(L, s, k)
  BY DEF SlabInv, SlabList
<1>1. PICK s \in [1 .. L -> SlabPage], k \in 0 .. L : Chain(L, s) /\ Sorted(L, s, k)
  BY <1>0
<1>2. e[1] \in SlabPage
  BY ElemPlace DEF SlabInv
<1>3. UNCHANGED <<bps, head, curr, prev, next, slabs>> /\ Put(e) /\ acnt[e[1]] > 0
      /\ acnt[e[1]] + 1 < bps /\ acnt' = [acnt EXCEPT ![e[1]] = @ + 1]
  BY DEF FreePartial, Put
<1>4. /\ SlabBufs' /\ elems' \subseteq slabs' \X (1 .. bps')
      /\ bufs' \in [SlabPage -> Seq(1 .. bps')] /\ acnt' \in [SlabPage -> 0 .. bps']
  BY <1>3, PutBufs DEF SlabInv
<1>5. SlabTypes'
  BY <1>3, <1>4 DEF SlabInv, SlabTypes
<1>6. Chain(L, s)'
  BY <1>1, <1>3 DEF Chain
<1>7. \A q \in SlabPage : acnt'[q] > 0 <=> acnt[q] > 0
  BY <1>2, <1>3 DEF SlabInv, SlabTypes
<1>8. \A i \in 1 .. L : acnt'[s[i]] > 0 <=> i <= k
  BY <1>1, <1>7 DEF Sorted
<1>9. Sorted(L, s, k)'
  BY <1>1, <1>3, <1>8 DEF Sorted
<1> QED
  BY <1>4, <1>5, <1>6, <1>9 DEF SlabInv, SlabList

\* The page of an empty slab goes back: none of its buffers is in use.
LEMMA EmptyBufs ==
    ASSUME SlabTypes, SlabBufs, NEW e \in elems, FreeEmpty(e)
    PROVE  /\ SlabBufs' /\ elems' \subseteq slabs' \X (1 .. bps')
           /\ bufs' \in [SlabPage -> Seq(1 .. bps')] /\ acnt' \in [SlabPage -> 0 .. bps']
<1> DEFINE p == e[1]
<1>1. p \in slabs /\ p \in SlabPage /\ e[2] \in 1 .. bps /\ e = <<p, e[2]>> /\ Lacks(bufs[p], e[2])
  BY ElemPlace
<1>2. bps \in Nat \ {0} /\ bufs[p] \in Seq(1 .. bps) /\ acnt[p] \in 0 .. bps
  BY <1>1 DEF SlabTypes
<1>3. Once(bufs[p]) /\ acnt[p] = Len(bufs[p])
  BY <1>1 DEF SlabBufs
<1>4. /\ acnt[p] + 1 = bps /\ elems' = elems \ {e} /\ bufs' = [bufs EXCEPT ![p] = <<>>]
      /\ acnt' = [acnt EXCEPT ![p] = 0] /\ slabs' = slabs \ {p} /\ bps' = bps
  BY DEF FreeEmpty
<1>5. Len(bufs[p]) = bps - 1
  BY <1>2, <1>3, <1>4
<1> HIDE DEF p
<1>6. ASSUME NEW x \in elems' PROVE x \in slabs' \X (1 .. bps')
  <2>1. x \in elems /\ x # e
    BY <1>4
  <2>2. x[1] \in slabs /\ x[2] \in 1 .. bps /\ x = <<x[1], x[2]>> /\ Lacks(bufs[x[1]], x[2])
    BY <2>1, ElemPlace
  <2>3. ASSUME x[1] = p PROVE FALSE
    <3>1. \A b, c \in 1 .. bps : Lacks(bufs[p], b) /\ Lacks(bufs[p], c) => b = c
      BY <1>2, <1>3, <1>5, BufferCount
    <3>2. x[2] = e[2]
      BY <1>1, <2>2, <2>3, <3>1
    <3> QED
      BY <1>1, <2>1, <2>2, <2>3, <3>2
  <2>4. x[1] \in slabs' /\ x[2] \in 1 .. bps'
    BY <1>4, <2>2, <2>3
  <2> QED
    BY <2>2, <2>4
<1>7. bufs' \in [SlabPage -> Seq(1 .. bps')]
  <2>1. <<>> \in Seq(1 .. bps)
    OBVIOUS
  <2> QED
    BY <1>4, <2>1 DEF SlabTypes
<1>8. acnt' \in [SlabPage -> 0 .. bps']
  <2>1. acnt \in [SlabPage -> 0 .. bps] /\ 0 \in 0 .. bps
    BY <1>2 DEF SlabTypes
  <2> QED
    BY <1>4, <2>1
<1>9. ASSUME NEW q \in slabs'
      PROVE  /\ Once(bufs'[q]) /\ acnt'[q] = Len(bufs'[q]) /\ acnt'[q] < bps'
             /\ \A b \in 1 .. bps' : <<q, b>> \in elems' <=> Lacks(bufs'[q], b)
  <2>1. q \in slabs /\ q # p
    BY <1>4
  <2>2. /\ bufs'[q] = bufs[q] /\ acnt'[q] = acnt[q]
        /\ \A b \in 1 .. bps : <<q, b>> \in elems' <=> <<q, b>> \in elems
    BY <1>1, <1>4, <2>1 DEF SlabTypes
  <2> QED
    BY <1>4, <2>1, <2>2 DEF SlabBufs
<1>10. SlabBufs'
  BY <1>9, Zenon DEF SlabBufs
<1> QED
  BY <1>6, <1>7, <1>8, <1>10

\* The slab of an element is somewhere in the list.
LEMMA SlabAt ==
    ASSUME SlabTypes, NEW L \in Nat, NEW s \in [1 .. L -> SlabPage], Chain(L, s), NEW p \in slabs
    PROVE  \E j \in 1 .. L : s[j] = p
BY DEF Chain, SlabTypes

\* free() of the last element of a slab: the list is closed over it.
LEMMA FreeEmptyKeeps ==
    ASSUME SlabInv, NEW e \in elems, FreeEmpty(e)
    PROVE  SlabInv'
<1>0. PICK L \in Nat : \E s \in [1 .. L -> SlabPage], k \in 0 .. L : Chain(L, s) /\ Sorted(L, s, k)
  BY DEF SlabInv, SlabList
<1>1. PICK s \in [1 .. L -> SlabPage], k \in 0 .. L : Chain(L, s) /\ Sorted(L, s, k)
  BY <1>0
<1>2. bps \in Nat \ {0} /\ slabs \subseteq SlabPage /\ prev \in [SlabPage -> SlabPage \cup {Null}]
      /\ next \in [SlabPage -> SlabPage \cup {Null}]
  BY DEF SlabInv, SlabTypes
<1>3. PICK p \in slabs : p = e[1]
  BY ElemPlace DEF SlabInv
<1>4. PICK j \in 1 .. L : s[j] = p
  BY <1>1, SlabAt DEF SlabInv
<1>5. /\ bps' = bps /\ slabs' = slabs \ {p} /\ acnt' = [acnt EXCEPT ![p] = 0]
      /\ curr' = IF p = curr THEN prev[p] ELSE curr
      /\ head' = IF p = head THEN next[p] ELSE head
      /\ next' = [Set(next, prev[p], next[p]) EXCEPT ![p] = Null]
      /\ prev' = [Set(prev, next[p], prev[p]) EXCEPT ![p] = Null]
  BY <1>3 DEF FreeEmpty
<1>6. /\ SlabBufs' /\ elems' \subseteq slabs' \X (1 .. bps')
      /\ bufs' \in [SlabPage -> Seq(1 .. bps')] /\ acnt' \in [SlabPage -> 0 .. bps']
  BY EmptyBufs DEF SlabInv
<1>7. SlabTypes'
  <2>1. prev' \in [SlabPage -> SlabPage \cup {Null}]
    BY <1>2, <1>5 DEF Set
  <2>2. next' \in [SlabPage -> SlabPage \cup {Null}]
    BY <1>2, <1>5 DEF Set
  <2> QED
    BY <1>5, <1>6, <2>1, <2>2 DEF SlabInv, SlabTypes
<1>8. \A i \in 1 .. L : s[i] \in SlabPage /\ s[i] \in slabs /\ s[i] # Null
  BY <1>1, AtPlace DEF SlabInv
<1>9. \A i, h \in 1 .. L : s[i] = s[h] => i = h
  BY <1>1 DEF Chain
<1>10. \A i \in 1 .. L : /\ next[s[i]] = IF i = L THEN Null ELSE s[i + 1]
                         /\ prev[s[i]] = IF i = 1 THEN Null ELSE s[i - 1]
  BY <1>1 DEF Chain
<1>11. next[p] = (IF j = L THEN Null ELSE s[j + 1]) /\ prev[p] = (IF j = 1 THEN Null ELSE s[j - 1])
  BY <1>4, <1>10
<1>12. ASSUME NEW i \in 1 .. L, i # j
       PROVE  next'[s[i]] = IF i = j - 1 THEN next[p] ELSE next[s[i]]
  <2>1. s[i] # p /\ s[i] \in SlabPage /\ (j # 1 => j - 1 \in 1 .. L)
    BY <1>4, <1>8, <1>9, <1>12
  <2>2. CASE j = 1
    BY <1>2, <1>5, <1>11, <2>1, <2>2 DEF Set
  <2>3. CASE j # 1
    <3>1. prev[p] = s[j - 1] /\ s[j - 1] # Null /\ s[j - 1] \in SlabPage /\ (s[i] = s[j - 1] => i = j - 1)
      BY <1>8, <1>9, <1>11, <2>1, <2>3
    <3>2. next' = [[next EXCEPT ![s[j - 1]] = next[p]] EXCEPT ![p] = Null]
      BY <1>5, <3>1 DEF Set
    <3> QED
      BY <1>2, <2>1, <3>1, <3>2
  <2> QED
    BY <2>2, <2>3
<1>13. ASSUME NEW i \in 1 .. L, i # j
       PROVE  prev'[s[i]] = IF i = j + 1 THEN prev[p] ELSE prev[s[i]]
  <2>1. s[i] # p /\ s[i] \in SlabPage /\ (j # L => j + 1 \in 1 .. L)
    BY <1>4, <1>8, <1>9, <1>13
  <2>2. CASE j = L
    BY <1>2, <1>5, <1>11, <2>1, <2>2 DEF Set
  <2>3. CASE j # L
    <3>1. next[p] = s[j + 1] /\ s[j + 1] # Null /\ s[j + 1] \in SlabPage /\ (s[i] = s[j + 1] => i = j + 1)
      BY <1>8, <1>9, <1>11, <2>1, <2>3
    <3>2. prev' = [[prev EXCEPT ![s[j + 1]] = prev[p]] EXCEPT ![p] = Null]
      BY <1>5, <3>1 DEF Set
    <3> QED
      BY <1>2, <2>1, <3>1, <3>2
  <2> QED
    BY <2>2, <2>3
<1>14. PICK M \in Nat : M = L - 1
  BY <1>4
<1>15. PICK t \in [1 .. M -> SlabPage] : t = [i \in 1 .. M |-> IF i < j THEN s[i] ELSE s[i + 1]]
  <2>1. \A i \in 1 .. M : (IF i < j THEN s[i] ELSE s[i + 1]) \in SlabPage
    BY <1>8, <1>14
  <2> QED
    BY <2>1
<1>16. ASSUME NEW i \in 1 .. M
       PROVE  \/ i < j /\ i \in 1 .. L /\ t[i] = s[i]
              \/ i >= j /\ i + 1 \in 1 .. L /\ t[i] = s[i + 1]
  BY <1>14, <1>15
<1>17. Chain(M, t)'
  <2>1. ASSUME NEW i \in 1 .. M, NEW h \in 1 .. M, t[i] = t[h] PROVE i = h
    <3>1. CASE i < j /\ h < j
      BY <1>9, <1>16, <2>1, <3>1
    <3>2. CASE i >= j /\ h >= j
      <4>1. i + 1 = h + 1
        BY <1>9, <1>16, <2>1, <3>2
      <4> QED
        BY <4>1
    <3>3. CASE i < j /\ h >= j
      <4>1. i = h + 1
        BY <1>9, <1>16, <2>1, <3>3
      <4> QED
        BY <3>3, <4>1
    <3>4. CASE i >= j /\ h < j
      <4>1. i + 1 = h
        BY <1>9, <1>16, <2>1, <3>4
      <4> QED
        BY <3>4, <4>1
    <3> QED
      BY <3>1, <3>2, <3>3, <3>4
  <2>2. ASSUME NEW q \in SlabPage PROVE q \in slabs' <=> \E i \in 1 .. M : t[i] = q
    <3>1. ASSUME q \in slabs, q # p PROVE \E i \in 1 .. M : t[i] = q
      <4>1. PICK i \in 1 .. L : s[i] = q
        BY <1>1, <3>1 DEF Chain
      <4>2. CASE i < j
        BY <1>14, <1>16, <4>1, <4>2
      <4>3. CASE i > j
        <5>1. i - 1 \in 1 .. M /\ i - 1 >= j /\ (i - 1) + 1 = i
          BY <1>14, <4>3
        <5>2. t[i - 1] = s[i]
          BY <1>16, <5>1
        <5> QED
          BY <4>1, <5>1, <5>2
      <4> QED
        BY <1>4, <3>1, <4>1, <4>2, <4>3
    <3>2. ASSUME NEW i \in 1 .. M, t[i] = q PROVE q \in slabs /\ q # p
      <4>1. CASE i < j
        <5>1. s[i] = q /\ i \in 1 .. L /\ i # j
          BY <1>16, <3>2, <4>1
        <5> QED
          BY <1>4, <1>8, <1>9, <5>1
      <4>2. CASE i >= j
        <5>1. s[i + 1] = q /\ i + 1 \in 1 .. L /\ i + 1 # j
          BY <1>16, <3>2, <4>2
        <5> QED
          BY <1>4, <1>8, <1>9, <5>1
      <4> QED
        BY <4>1, <4>2
    <3> QED
      BY <1>5, <3>1, <3>2
  <2>3. head' = IF M = 0 THEN Null ELSE t[1]
    <3>1. head = s[1] /\ 1 \in 1 .. L
      BY <1>1, <1>4 DEF Chain
    <3>2. p = head <=> j = 1
      BY <1>4, <1>9, <3>1
    <3>3. CASE j = 1
      <4>1. head' = IF L = 1 THEN Null ELSE s[2]
        BY <1>5, <1>11, <3>2, <3>3
      <4>2. M # 0 => t[1] = s[2]
        BY <1>16, <3>3
      <4> QED
        BY <1>14, <4>1, <4>2
    <3>4. CASE j # 1
      BY <1>5, <1>14, <1>16, <3>1, <3>2, <3>4
    <3> QED
      BY <3>3, <3>4
  <2>4. ASSUME NEW i \in 1 .. M PROVE next'[t[i]] = IF i = M THEN Null ELSE t[i + 1]
    <3>1. CASE i < j - 1
      <4>1. t[i] = s[i] /\ i \in 1 .. L /\ i # j /\ i # j - 1 /\ i # L /\ i # M /\ i + 1 \in 1 .. M /\ i + 1 < j
        BY <1>14, <1>16, <3>1
      <4>2. next'[s[i]] = s[i + 1] /\ t[i + 1] = s[i + 1]
        BY <1>10, <1>12, <1>16, <4>1
      <4> QED
        BY <4>1, <4>2
    <3>2. CASE i = j - 1
      <4>1. t[i] = s[i] /\ i \in 1 .. L /\ i # j /\ (i = M <=> j = L)
        BY <1>14, <1>16, <3>2
      <4>2. next'[s[i]] = next[p]
        BY <1>12, <3>2, <4>1
      <4>3. j # L => j \in 1 .. M /\ t[j] = s[j + 1]
        BY <1>14, <1>16
      <4> QED
        BY <1>11, <3>2, <4>1, <4>2, <4>3
    <3>3. CASE i >= j
      <4>1. t[i] = s[i + 1] /\ i + 1 \in 1 .. L /\ i + 1 # j /\ i + 1 # j - 1 /\ (i = M <=> i + 1 = L)
            /\ (i # M => i + 1 \in 1 .. M /\ i + 1 >= j)
        BY <1>14, <1>16, <3>3
      <4>2. next'[s[i + 1]] = IF i + 1 = L THEN Null ELSE s[(i + 1) + 1]
        BY <1>10, <1>12, <4>1
      <4>3. i # M => t[i + 1] = s[(i + 1) + 1]
        BY <1>16, <4>1
      <4> QED
        BY <4>1, <4>2, <4>3
    <3> QED
      BY <3>1, <3>2, <3>3
  <2>5. ASSUME NEW i \in 1 .. M PROVE prev'[t[i]] = IF i = 1 THEN Null ELSE t[i - 1]
    <3>1. CASE i < j
      <4>1. t[i] = s[i] /\ i \in 1 .. L /\ i # j /\ i # j + 1 /\ (i # 1 => i - 1 \in 1 .. M /\ i - 1 < j)
        BY <1>14, <1>16, <3>1
      <4>2. prev'[s[i]] = IF i = 1 THEN Null ELSE s[i - 1]
        BY <1>10, <1>13, <4>1
      <4>3. i # 1 => t[i - 1] = s[i - 1]
        BY <1>16, <4>1
      <4> QED
        BY <4>1, <4>2, <4>3
    <3>2. CASE i = j
      <4>1. t[i] = s[i + 1] /\ i + 1 \in 1 .. L /\ i + 1 # j /\ i + 1 = j + 1
            /\ (i # 1 => i - 1 \in 1 .. M /\ i - 1 < j)
        BY <1>14, <1>16, <3>2
      <4>2. prev'[s[i + 1]] = prev[p]
        BY <1>13, <4>1
      <4>3. i # 1 => t[i - 1] = s[j - 1]
        BY <1>16, <3>2, <4>1
      <4> QED
        BY <1>11, <3>2, <4>1, <4>2, <4>3
    <3>3. CASE i > j
      <4>1. t[i] = s[i + 1] /\ i + 1 \in 1 .. L /\ i + 1 # j /\ i + 1 # j + 1 /\ i + 1 # 1 /\ i # 1
            /\ i - 1 \in 1 .. M /\ i - 1 >= j /\ (i + 1) - 1 = i /\ (i - 1) + 1 = i
        BY <1>14, <1>16, <3>3
      <4>2. prev'[s[i + 1]] = s[i]
        BY <1>10, <1>13, <4>1
      <4>3. t[i - 1] = s[i]
        BY <1>16, <4>1
      <4> QED
        BY <4>1, <4>2, <4>3
    <3> QED
      BY <3>1, <3>2, <3>3
  <2> QED
    BY <2>1, <2>2, <2>3, <2>4, <2>5 DEF Chain
<1>18. PICK m \in 0 .. M : m = IF j <= k THEN k - 1 ELSE k
  BY <1>14
<1>19. ASSUME NEW i \in 1 .. L, i # j PROVE acnt'[s[i]] > 0 <=> i <= k
  <2>1. acnt'[s[i]] = acnt[s[i]]
    BY <1>4, <1>5, <1>8, <1>9, <1>19 DEF SlabInv, SlabTypes
  <2> QED
    BY <1>1, <2>1 DEF Sorted
<1>20. ASSUME NEW i \in 1 .. M PROVE acnt'[t[i]] > 0 <=> i <= m
  <2>1. CASE i < j
    <3>1. t[i] = s[i] /\ i \in 1 .. L /\ i # j /\ (i <= k <=> i <= m)
      BY <1>14, <1>16, <1>18, <2>1
    <3> QED
      BY <1>19, <3>1
  <2>2. CASE i >= j
    <3>1. t[i] = s[i + 1] /\ i + 1 \in 1 .. L /\ i + 1 # j /\ (i + 1 <= k <=> i <= m)
      BY <1>14, <1>16, <1>18, <2>2
    <3> QED
      BY <1>19, <3>1
  <2> QED
    BY <2>1, <2>2
<1>21. curr' = IF m = 0 THEN Null ELSE t[m]
  <2>1. curr = IF k = 0 THEN Null ELSE s[k]
    BY <1>1 DEF Sorted
  <2>2. p = curr <=> j = k
    BY <1>4, <1>8, <1>9, <2>1
  <2>3. CASE j = k
    <3>1. curr' = IF k = 1 THEN Null ELSE s[k - 1]
      BY <1>5, <1>11, <2>2, <2>3
    <3>2. m = k - 1 /\ (m # 0 => m \in 1 .. M /\ m < j)
      BY <1>14, <1>18, <2>3
    <3>3. m # 0 => t[m] = s[m]
      BY <1>16, <3>2
    <3> QED
      BY <2>3, <3>1, <3>2, <3>3
  <2>4. CASE j < k
    <3>1. m = k - 1 /\ m \in 1 .. M /\ m >= j /\ m + 1 = k /\ m # 0 /\ k # 0
      BY <1>14, <1>18, <2>4
    <3>2. t[m] = s[k]
      BY <1>16, <3>1
    <3> QED
      BY <1>5, <2>1, <2>2, <2>4, <3>1, <3>2
  <2>5. CASE j > k
    <3>1. m = k /\ (m # 0 => m \in 1 .. M /\ m < j)
      BY <1>14, <1>18, <2>5
    <3>2. m # 0 => t[m] = s[k]
      BY <1>16, <3>1
    <3> QED
      BY <1>5, <2>1, <2>2, <2>5, <3>1, <3>2
  <2> QED
    BY <2>3, <2>4, <2>5
<1>22. Sorted(M, t, m)'
  BY <1>20, <1>21 DEF Sorted
<1> QED
  BY <1>6, <1>7, <1>17, <1>22 DEF SlabInv, SlabList

\* A full slab that is not next to the partial ones moves behind them: the
\* links that change are those of its old and new neighbours.
LEMMA MovedLinks ==
    ASSUME SlabTypes, NEW L \in Nat, NEW s \in [1 .. L -> SlabPage], NEW k \in 0 .. L, Chain(L, s),
           Sorted(L, s, k), NEW j \in k + 2 .. L, NEW e, e[1] = s[j], FreeFull(e)
    PROVE  /\ \A i \in 1 .. L : next'[s[i]] = IF i = j THEN s[k + 1] ELSE IF i = j - 1 THEN next[s[j]]
                                              ELSE IF i = k THEN s[j] ELSE next[s[i]]
           /\ \A i \in 1 .. L : prev'[s[i]] = IF i = j THEN IF k = 0 THEN Null ELSE s[k]
                                              ELSE IF i = k + 1 THEN s[j]
                                              ELSE IF i = j + 1 THEN s[j - 1] ELSE prev[s[i]]
           /\ next' \in [SlabPage -> SlabPage \cup {Null}] /\ prev' \in [SlabPage -> SlabPage \cup {Null}]
           /\ head' = IF k = 0 THEN s[j] ELSE head
<1> DEFINE p == s[j]
<1>1. prev \in [SlabPage -> SlabPage \cup {Null}] /\ next \in [SlabPage -> SlabPage \cup {Null}]
  BY DEF SlabTypes
<1>2. \A i \in 1 .. L : s[i] \in SlabPage /\ s[i] # Null
  BY AtPlace
<1>3. \A i, h \in 1 .. L : s[i] = s[h] => i = h
  BY DEF Chain
<1>4. \A i \in 1 .. L : /\ next[s[i]] = IF i = L THEN Null ELSE s[i + 1]
                        /\ prev[s[i]] = IF i = 1 THEN Null ELSE s[i - 1]
  BY DEF Chain
<1>5. j \in 1 .. L /\ j # 1 /\ j - 1 \in 1 .. L /\ k + 1 \in 1 .. L /\ k + 1 # j /\ j - 1 # k /\ ~(j - 1 <= k)
      /\ L # 0 /\ (j # L => j + 1 \in 1 .. L)
  OBVIOUS
<1>6. prev[p] = s[j - 1] /\ s[j - 1] # Null /\ acnt[s[j - 1]] = 0
  <2>1. prev[p] = s[j - 1] /\ s[j - 1] # Null /\ s[j - 1] \in SlabPage
    BY <1>2, <1>4, <1>5
  <2>2. acnt[s[j - 1]] \in Nat /\ ~(acnt[s[j - 1]] > 0)
    BY <1>5, <2>1 DEF Sorted, SlabTypes
  <2> QED
    BY <2>1, <2>2
<1>7. PICK n1 : n1 = Set(next, prev[p], next[p])
  OBVIOUS
<1>8. PICK p1 : p1 = Set(prev, next[p], prev[p])
  OBVIOUS
<1>9. \/ /\ curr # Null /\ next' = [n1 EXCEPT ![p] = n1[curr], ![curr] = p]
         /\ prev' = [p1 EXCEPT ![p] = curr, ![n1[curr]] = p] /\ head' = head
      \/ /\ curr = Null /\ next' = [n1 EXCEPT ![p] = head]
         /\ prev' = [p1 EXCEPT ![p] = Null, ![head] = p] /\ head' = p
  BY <1>6, <1>7, <1>8 DEF FreeFull, Full
<1>10. n1 = [next EXCEPT ![s[j - 1]] = next[p]] /\ n1 \in [SlabPage -> SlabPage \cup {Null}]
  BY <1>1, <1>2, <1>5, <1>6, <1>7 DEF Set
<1>11. \A i \in 1 .. L : n1[s[i]] = IF i = j - 1 THEN next[p] ELSE next[s[i]]
  BY <1>1, <1>2, <1>3, <1>5, <1>10
<1>12. p1 \in [SlabPage -> SlabPage \cup {Null}]
  BY <1>1, <1>2, <1>5, <1>8 DEF Set
<1>13. ASSUME NEW i \in 1 .. L PROVE p1[s[i]] = IF i = j + 1 THEN s[j - 1] ELSE prev[s[i]]
  <2>1. CASE j = L
    <3>1. next[p] = Null
      BY <1>4, <1>5, <2>1
    <3> QED
      BY <1>8, <2>1, <3>1 DEF Set
  <2>2. CASE j # L
    <3>1. next[p] = s[j + 1] /\ s[j + 1] # Null /\ s[j + 1] \in SlabPage /\ (s[i] = s[j + 1] => i = j + 1)
      BY <1>2, <1>3, <1>4, <1>5, <2>2
    <3>2. p1 = [prev EXCEPT ![s[j + 1]] = s[j - 1]]
      BY <1>6, <1>8, <3>1 DEF Set
    <3> QED
      BY <1>1, <1>2, <3>1, <3>2
  <2> QED
    BY <2>1, <2>2
<1>14. p \in SlabPage /\ s[k + 1] \in SlabPage /\ s[k + 1] # p
  BY <1>2, <1>3, <1>5
<1>15. CASE k # 0
  <2>1. k \in 1 .. L /\ curr = s[k] /\ curr # Null /\ curr \in SlabPage
    BY <1>2, <1>15 DEF Sorted
  <2>2. n1[curr] = s[k + 1]
    BY <1>4, <1>5, <1>11, <2>1, SMTT(40)
  <2>3. /\ next' = [n1 EXCEPT ![p] = s[k + 1], ![s[k]] = p]
        /\ prev' = [p1 EXCEPT ![p] = s[k], ![s[k + 1]] = p] /\ head' = head
    BY <1>9, <2>1, <2>2
  <2> HIDE DEF p
  <2>4. ASSUME NEW i \in 1 .. L
        PROVE  next'[s[i]] = IF i = j THEN s[k + 1] ELSE IF i = k THEN p ELSE n1[s[i]]
    BY <1>2, <1>3, <1>5, <1>10, <1>14, <2>1, <2>3 DEF p
  <2>5. ASSUME NEW i \in 1 .. L
        PROVE  prev'[s[i]] = IF i = j THEN s[k] ELSE IF i = k + 1 THEN p ELSE p1[s[i]]
    BY <1>2, <1>3, <1>5, <1>12, <1>14, <2>1, <2>3 DEF p
  <2>6. next' \in [SlabPage -> SlabPage \cup {Null}] /\ prev' \in [SlabPage -> SlabPage \cup {Null}]
    BY <1>10, <1>12, <1>14, <2>1, <2>3
  <2> QED
    BY <1>5, <1>11, <1>13, <1>15, <2>3, <2>4, <2>5, <2>6 DEF p
<1>16. CASE k = 0
  <2>1. head = s[1] /\ curr = Null /\ k + 1 = 1
    BY <1>5, <1>16 DEF Sorted, Chain
  <2>2. /\ next' = [n1 EXCEPT ![p] = s[1]] /\ prev' = [p1 EXCEPT ![p] = Null, ![s[1]] = p] /\ head' = p
    BY <1>9, <2>1
  <2> HIDE DEF p
  <2>3. ASSUME NEW i \in 1 .. L
        PROVE  next'[s[i]] = IF i = j THEN s[1] ELSE n1[s[i]]
    BY <1>2, <1>3, <1>5, <1>10, <1>14, <2>1, <2>2 DEF p
  <2>4. ASSUME NEW i \in 1 .. L
        PROVE  prev'[s[i]] = IF i = j THEN Null ELSE IF i = 1 THEN p ELSE p1[s[i]]
    BY <1>2, <1>3, <1>5, <1>12, <1>14, <2>1, <2>2 DEF p
  <2>5. next' \in [SlabPage -> SlabPage \cup {Null}] /\ prev' \in [SlabPage -> SlabPage \cup {Null}]
    BY <1>10, <1>12, <1>14, <2>1, <2>2
  <2> QED
    BY <1>5, <1>11, <1>13, <1>16, <2>1, <2>2, <2>3, <2>4, <2>5 DEF p
<1> QED
  BY <1>15, <1>16

\* The list after the move.
LEMMA MovedChain ==
    ASSUME SlabTypes, NEW L \in Nat, NEW s \in [1 .. L -> SlabPage], NEW k \in 0 .. L, Chain(L, s),
           Sorted(L, s, k), NEW j \in k + 2 .. L, NEW e, e[1] = s[j], FreeFull(e), slabs' = slabs
    PROVE  \E t \in [1 .. L -> SlabPage] :
              /\ Chain(L, t)'
              /\ \A i \in 1 .. L : t[i] = IF i <= k \/ i > j THEN s[i] ELSE IF i = k + 1 THEN s[j] ELSE s[i - 1]
<1>1. \A i \in 1 .. L : s[i] \in SlabPage /\ s[i] # Null
  BY AtPlace
<1>2. \A i, h \in 1 .. L : s[i] = s[h] => i = h
  BY DEF Chain
<1>3. \A i \in 1 .. L : /\ next[s[i]] = IF i = L THEN Null ELSE s[i + 1]
                        /\ prev[s[i]] = IF i = 1 THEN Null ELSE s[i - 1]
  BY DEF Chain
<1>4. \A i \in 1 .. L : next'[s[i]] = IF i = j THEN s[k + 1] ELSE IF i = j - 1 THEN next[s[j]]
                                      ELSE IF i = k THEN s[j] ELSE next[s[i]]
  BY MovedLinks
<1>5. \A i \in 1 .. L : prev'[s[i]] = IF i = j THEN IF k = 0 THEN Null ELSE s[k]
                                      ELSE IF i = k + 1 THEN s[j]
                                      ELSE IF i = j + 1 THEN s[j - 1] ELSE prev[s[i]]
  BY MovedLinks
<1>6. head' = IF k = 0 THEN s[j] ELSE head
  BY MovedLinks
<1>7. PICK t \in [1 .. L -> SlabPage] :
         t = [i \in 1 .. L |-> IF i <= k \/ i > j THEN s[i] ELSE IF i = k + 1 THEN s[j] ELSE s[i - 1]]
  <2>1. \A i \in 1 .. L : (IF i <= k \/ i > j THEN s[i] ELSE IF i = k + 1 THEN s[j] ELSE s[i - 1]) \in SlabPage
    BY <1>1
  <2> QED
    BY <2>1
<1>8. ASSUME NEW i \in 1 .. L
      PROVE  t[i] = IF i <= k \/ i > j THEN s[i] ELSE IF i = k + 1 THEN s[j] ELSE s[i - 1]
  BY <1>7
\* at(i) is the place in s of what is at place i of t
<1> DEFINE at(i) == IF i <= k \/ i > j THEN i ELSE IF i = k + 1 THEN j ELSE i - 1
<1>9. ASSUME NEW i \in 1 .. L PROVE at(i) \in 1 .. L /\ t[i] = s[at(i)]
  BY <1>8
<1>10. ASSUME NEW i \in 1 .. L, NEW h \in 1 .. L, at(i) = at(h) PROVE i = h
  BY <1>10
<1>11. ASSUME NEW i \in 1 .. L PROVE \E h \in 1 .. L : at(h) = i
  <2>1. CASE i <= k \/ i > j
    <3>1. at(i) = i
      BY <2>1
    <3> QED
      BY <3>1
  <2>2. CASE i = j
    <3>1. k + 1 \in 1 .. L /\ at(k + 1) = i
      BY <2>2
    <3> QED
      BY <3>1
  <2>3. CASE k < i /\ i < j
    <3>1. i + 1 \in 1 .. L /\ at(i + 1) = i
      BY <2>3
    <3> QED
      BY <3>1
  <2> QED
    BY <2>1, <2>2, <2>3
<1>12. ASSUME NEW i \in 1 .. L, NEW h \in 1 .. L, t[i] = t[h] PROVE i = h
  <2> HIDE DEF at
  <2>1. at(i) = at(h)
    BY <1>2, <1>9, <1>12
  <2> QED
    BY <1>10, <2>1
<1>13. ASSUME NEW q \in SlabPage PROVE q \in slabs' <=> \E i \in 1 .. L : t[i] = q
  <2> HIDE DEF at
  <2>1. q \in slabs <=> \E i \in 1 .. L : s[i] = q
    BY DEF Chain
  <2>2. ASSUME NEW i \in 1 .. L, s[i] = q PROVE \E h \in 1 .. L : t[h] = q
    BY <1>9, <1>11, <2>2
  <2>3. ASSUME NEW i \in 1 .. L, t[i] = q PROVE \E h \in 1 .. L : s[h] = q
    BY <1>9, <2>3
  <2> QED
    BY <2>1, <2>2, <2>3
<1>14. head' = IF L = 0 THEN Null ELSE t[1]
  <2>1. head = s[1] /\ L # 0 /\ 1 \in 1 .. L
    BY DEF Chain
  <2> QED
    BY <1>6, <1>8, <2>1, SMTT(40)
<1>15. ASSUME NEW i \in 1 .. L PROVE next'[t[i]] = IF i = L THEN Null ELSE t[i + 1]
  <2>1. CASE i < k
    <3>1. i + 1 \in 1 .. L /\ i # L /\ t[i] = s[i] /\ t[i + 1] = s[i + 1] /\ i # j /\ i # j - 1 /\ i # k
      BY <1>8, <2>1, SMTT(40)
    <3> QED
      BY <1>3, <1>4, <3>1
  <2>2. CASE i = k
    <3>1. i + 1 \in 1 .. L /\ i # L /\ t[i] = s[i] /\ t[i + 1] = s[j] /\ i # j /\ i # j - 1
      BY <1>8, <2>2, SMTT(40)
    <3> QED
      BY <1>4, <2>2, <3>1
  <2>3. CASE i = k + 1
    <3>1. i + 1 \in 1 .. L /\ i # L /\ t[i] = s[j] /\ ~(i + 1 <= k \/ i + 1 > j) /\ i + 1 # k + 1 /\ (i + 1) - 1 = k + 1
      BY <1>8, <2>3, SMTT(40)
    <3>2. t[i + 1] = s[k + 1]
      BY <1>8, <3>1, SMTT(40)
    <3> QED
      BY <1>4, <3>1, <3>2
  <2>4. CASE k + 1 < i /\ i < j
    <3>0. i + 1 \in 1 .. L /\ i # L /\ i - 1 \in 1 .. L /\ i - 1 # L /\ i - 1 # j /\ i - 1 # j - 1 /\ i - 1 # k
          /\ (i - 1) + 1 = i /\ (i + 1) - 1 = i /\ ~(i <= k \/ i > j) /\ i # k + 1
      BY <2>4
    <3>1. i + 1 \in 1 .. L /\ i # L /\ i - 1 \in 1 .. L /\ i - 1 # L /\ i - 1 # j /\ i - 1 # j - 1 /\ i - 1 # k
          /\ (i - 1) + 1 = i /\ (i + 1) - 1 = i /\ t[i] = s[i - 1]
      BY <1>8, <3>0, SMTT(40)
    <3>2. t[i + 1] = s[i]
      BY <1>8, <2>4, <3>1, SMTT(40)
    <3>3. next'[s[i - 1]] = next[s[i - 1]]
      BY <1>4, <3>1
    <3>4. next[s[i - 1]] = s[(i - 1) + 1]
      BY <1>3, <3>1
    <3> QED
      BY <3>1, <3>2, <3>3, <3>4
  <2>5. CASE i = j
    <3>1. t[i] = s[j - 1] /\ j - 1 \in 1 .. L /\ j - 1 # j /\ (j # L => j + 1 \in 1 .. L)
      BY <1>8, <2>5, SMTT(40)
    <3>2. next'[s[j - 1]] = IF j = L THEN Null ELSE s[j + 1]
      BY <1>3, <1>4, <3>1, SMTT(40)
    <3>3. j # L => t[j + 1] = s[j + 1]
      BY <1>8, <3>1, SMTT(40)
    <3> QED
      BY <2>5, <3>1, <3>2, <3>3
  <2>6. CASE i > j
    <3>1. t[i] = s[i] /\ i # j /\ i # j - 1 /\ i # k /\ (i # L => i + 1 \in 1 .. L /\ i + 1 > j)
      BY <1>8, <2>6, SMTT(40)
    <3>2. i # L => t[i + 1] = s[i + 1]
      BY <1>8, <3>1, SMTT(40)
    <3> QED
      BY <1>3, <1>4, <3>1, <3>2
  <2> QED
    BY <2>1, <2>2, <2>3, <2>4, <2>5, <2>6
<1>16. ASSUME NEW i \in 1 .. L PROVE prev'[t[i]] = IF i = 1 THEN Null ELSE t[i - 1]
  <2>1. CASE i <= k
    <3>1. t[i] = s[i] /\ i # j /\ i # k + 1 /\ i # j + 1
      BY <1>8, <2>1, SMTT(40)
    <3>2. i # 1 => i - 1 \in 1 .. L /\ i - 1 <= k
      BY <2>1
    <3>3. i # 1 => t[i - 1] = s[i - 1]
      BY <1>8, <3>2, SMTT(40)
    <3>4. prev'[s[i]] = prev[s[i]]
      BY <1>5, <3>1
    <3> QED
      BY <1>3, <3>1, <3>3, <3>4
  <2>2. CASE i = k + 1
    <3>1. t[i] = s[j] /\ (k = 0 <=> i = 1) /\ i - 1 = k /\ (k # 0 => k \in 1 .. L /\ t[k] = s[k])
      BY <1>8, <2>2, SMTT(40)
    <3> QED
      BY <1>5, <3>1
  <2>3. CASE i = k + 2
    <3>1. t[i] = s[k + 1] /\ k + 1 \in 1 .. L /\ k + 1 # j /\ i # 1 /\ i - 1 = k + 1 /\ t[k + 1] = s[j]
      BY <1>8, <2>3, SMTT(40)
    <3> QED
      BY <1>5, <3>1
  <2>4. CASE k + 2 < i /\ i <= j
    <3>1. t[i] = s[i - 1] /\ i - 1 \in 1 .. L /\ i - 1 # j /\ i - 1 # k + 1 /\ i - 1 # j + 1 /\ i - 1 # 1 /\ i # 1
          /\ ~(i - 1 <= k \/ i - 1 > j)
      BY <1>8, <2>4, SMTT(40)
    <3>2. t[i - 1] = s[i - 1 - 1]
      BY <1>8, <3>1, SMTT(40)
    <3> QED
      BY <1>3, <1>5, <3>1, <3>2
  <2>5. CASE i = j + 1
    <3>1. t[i] = s[i] /\ i # j /\ i # k + 1 /\ i - 1 = j /\ i # 1 /\ t[j] = s[j - 1]
      BY <1>8, <2>5, SMTT(40)
    <3> QED
      BY <1>5, <2>5, <3>1
  <2>6. CASE i > j + 1
    <3>1. t[i] = s[i] /\ i # j /\ i # k + 1 /\ i # j + 1 /\ i # 1 /\ i - 1 \in 1 .. L /\ t[i - 1] = s[i - 1]
      BY <1>8, <2>6, SMTT(40)
    <3> QED
      BY <1>3, <1>5, <3>1
  <2> QED
    BY <2>1, <2>2, <2>3, <2>4, <2>5, <2>6
<1>17. Chain(L, t)'
  BY <1>12, <1>13, <1>14, <1>15, <1>16 DEF Chain
<1> QED
  BY <1>8, <1>17, SMTT(40)

\* free() of an element of a full slab: the slab becomes the last partial one.
LEMMA FreeFullKeeps ==
    ASSUME SlabInv, NEW e \in elems, FreeFull(e)
    PROVE  SlabInv'
<1>0. PICK L \in Nat : \E s \in [1 .. L -> SlabPage], k \in 0 .. L : Chain(L, s) /\ Sorted(L, s, k)
  BY DEF SlabInv, SlabList
<1>1. PICK s \in [1 .. L -> SlabPage], k \in 0 .. L : Chain(L, s) /\ Sorted(L, s, k)
  BY <1>0
<1>2. PICK p \in slabs : p = e[1]
  BY ElemPlace DEF SlabInv
<1>3. PICK j \in 1 .. L : s[j] = p
  BY <1>1, SlabAt DEF SlabInv
<1>4. /\ UNCHANGED <<bps, slabs>> /\ curr' = p /\ acnt[p] = 0 /\ bps > 1 /\ Put(e)
      /\ acnt' = [acnt EXCEPT ![p] = @ + 1]
  BY <1>2 DEF FreeFull, Put
<1>5. /\ SlabBufs' /\ elems' \subseteq slabs' \X (1 .. bps')
      /\ bufs' \in [SlabPage -> Seq(1 .. bps')] /\ acnt' \in [SlabPage -> 0 .. bps']
  <2>1. acnt[e[1]] + 1 < bps
    BY <1>2, <1>4 DEF SlabInv, SlabTypes
  <2> QED
    BY <1>4, <2>1, PutBufs DEF SlabInv
<1>6. \A i \in 1 .. L : s[i] \in SlabPage /\ s[i] \in slabs /\ s[i] # Null
  BY <1>1, AtPlace DEF SlabInv
<1>7. \A i, h \in 1 .. L : s[i] = s[h] => i = h
  BY <1>1 DEF Chain
<1>8. \A i \in 1 .. L : acnt[s[i]] > 0 <=> i <= k
  BY <1>1 DEF Sorted
<1>9. j > k
  BY <1>3, <1>4, <1>8, SMTT(40)
<1>10. \A i \in 1 .. L : acnt'[s[i]] > 0 <=> (i <= k \/ i = j)
  <2>1. \A i \in 1 .. L : acnt'[s[i]] = IF i = j THEN 1 ELSE acnt[s[i]]
    BY <1>3, <1>4, <1>6, <1>7, SMTT(40) DEF SlabInv, SlabTypes
  <2> QED
    BY <1>8, <2>1, SMTT(40)
<1>11. PICK m \in 0 .. L : m = k + 1
  BY <1>9
<1>12. CASE j = k + 1
  <2>1. UNCHANGED <<head, prev, next>>
    <3>1. prev[p] = Null \/ (prev[p] = s[k] /\ k \in 1 .. L)
      BY <1>1, <1>3, <1>12 DEF Chain
    <3>2. prev[p] = Null \/ ~Full(prev[p])
      BY <1>8, <3>1 DEF Full
    <3> QED
      BY <1>2, <3>2 DEF FreeFull
  <2>2. Chain(L, s)'
    BY <1>1, <1>4, <2>1 DEF Chain
  <2>3. Sorted(L, s, m)'
    BY <1>3, <1>4, <1>10, <1>11, <1>12 DEF Sorted
  <2>4. SlabTypes'
    BY <1>4, <1>5, <2>1 DEF SlabInv, SlabTypes
  <2> QED
    BY <1>5, <2>2, <2>3, <2>4 DEF SlabInv, SlabList
<1>13. CASE j # k + 1
  <2>1. j \in k + 2 .. L
    BY <1>9, <1>13
  <2>s. SlabTypes /\ e[1] = s[j] /\ FreeFull(e) /\ slabs' = slabs /\ Chain(L, s) /\ Sorted(L, s, k)
    BY <1>1, <1>2, <1>3, <1>4 DEF SlabInv
  <2>2. PICK t \in [1 .. L -> SlabPage] :
              /\ Chain(L, t)'
              /\ \A i \in 1 .. L : t[i] = IF i <= k \/ i > j THEN s[i] ELSE IF i = k + 1 THEN s[j] ELSE s[i - 1]
    BY <2>s, <2>1, MovedChain, ZenonT(40)
  <2>3. next' \in [SlabPage -> SlabPage \cup {Null}] /\ prev' \in [SlabPage -> SlabPage \cup {Null}]
    BY <1>1, <1>2, <1>3, <2>1, MovedLinks DEF SlabInv
  <2>4. SlabTypes'
    BY <1>4, <1>5, <2>3 DEF SlabInv, SlabTypes
  <2>5. ASSUME NEW i \in 1 .. L PROVE acnt'[t[i]] > 0 <=> i <= m
    <3>1. CASE i <= k
      BY <1>10, <1>11, <2>2, <3>1
    <3>2. CASE i = k + 1
      <4>1. t[i] = s[j]
        BY <2>1, <2>2, <3>2
      <4> QED
        BY <1>10, <1>11, <3>2, <4>1
    <3>3. CASE i > j
      BY <1>9, <1>10, <1>11, <2>2, <3>3
    <3>4. CASE k + 1 < i /\ i <= j
      <4>1. t[i] = s[i - 1] /\ i - 1 \in 1 .. L /\ i - 1 # j /\ ~(i - 1 <= k)
        BY <2>2, <3>4
      <4> QED
        BY <1>10, <1>11, <3>4, <4>1
    <3> QED
      BY <3>1, <3>2, <3>3, <3>4
  <2>6. m \in 1 .. L /\ t[m] = p
    BY <1>3, <1>11, <2>1, <2>2
  <2>7. Sorted(L, t, m)'
    BY <1>4, <2>5, <2>6 DEF Sorted
  <2> QED
    BY <1>5, <2>2, <2>4, <2>7 DEF SlabInv, SlabList
<1> QED
  BY <1>12, <1>13

\* The list is no longer than there are pages.
LEMMA ChainLength ==
    ASSUME SlabTypes, NEW L \in Nat, NEW s \in [1 .. L -> SlabPage], Chain(L, s)
    PROVE  Cardinality(SlabPage) \in Nat /\ L <= Cardinality(SlabPage)
<1>1. IsFiniteSet(SlabPage) /\ slabs \in SUBSET SlabPage
  BY SlabAssumption DEF SlabTypes
<1>2. Cardinality(SlabPage) \in Nat
  BY <1>1, FS_CardinalityType
<1>3. s \in Bijection(1 .. L, slabs)
  <2>1. s \in [1 .. L -> slabs]
    BY DEF Chain
  <2>2. \A p \in slabs : \E i \in 1 .. L : s[i] = p
    BY <1>1 DEF Chain
  <2>3. \A i, j \in 1 .. L : s[i] = s[j] => i = j
    BY DEF Chain
  <2> QED
    BY <2>1, <2>2, <2>3 DEF Bijection, Injection, Surjection, IsInjective
<1>4. ExistsBijection(1 .. L, slabs)
  BY <1>3 DEF ExistsBijection
<1>5. Cardinality(slabs) = L
  BY <1>4, FS_CountingElements
<1>6. Cardinality(slabs) <= Cardinality(SlabPage)
  BY <1>1, FS_Subset
<1> QED
  BY <1>2, <1>5, <1>6

\* Walking from head visits the slabs in the order of the list, then ends.
LEMMA Walk ==
    ASSUME SlabTypes, NEW L \in Nat, NEW s \in [1 .. L -> SlabPage], Chain(L, s)
    PROVE  /\ DOMAIN Nth = 0 .. Cardinality(SlabPage)
           /\ \A n \in 0 .. Cardinality(SlabPage) : Nth[n] = IF n < L THEN s[n + 1] ELSE Null
<1> DEFINE C == Cardinality(SlabPage)
<1> DEFINE body(f) == [n \in 0 .. C |-> IF n = 0 THEN head ELSE IF f[n - 1] = Null THEN Null ELSE next[f[n - 1]]]
<1> DEFINE w == [n \in 0 .. C |-> IF n < L THEN s[n + 1] ELSE Null]
<1>1. C \in Nat /\ L <= C
  BY ChainLength
<1>2. \A i \in 1 .. L : s[i] # Null /\ next[s[i]] = IF i = L THEN Null ELSE s[i + 1]
  <2>1. \A i \in 1 .. L : s[i] # Null
    BY AtPlace
  <2> QED
    BY <2>1 DEF Chain
<1>3. head = IF L = 0 THEN Null ELSE s[1]
  BY DEF Chain
<1>4. \A n \in 0 .. C : w[n] = IF n < L THEN s[n + 1] ELSE Null
  OBVIOUS
<1>d. PICK D : D = 0 .. C
  OBVIOUS
<1>5. ASSUME NEW n \in 0 .. C
      PROVE  w[n] = IF n = 0 THEN head ELSE IF w[n - 1] = Null THEN Null ELSE next[w[n - 1]]
  <2> HIDE DEF w, C
  <2>1. CASE n = 0
    BY <1>1, <1>3, <1>4, <2>1
  <2>2. CASE n # 0 /\ n - 1 < L
    <3>1. n - 1 \in 0 .. C /\ n \in 1 .. L /\ (n - 1) + 1 = n /\ (n < L <=> n # L)
      BY <1>1, <2>2
    <3>2. w[n - 1] = s[n]
      BY <1>4, <2>2, <3>1
    <3> QED
      BY <1>2, <1>4, <2>2, <3>1, <3>2
  <2>3. CASE n # 0 /\ ~(n - 1 < L)
    <3>1. n - 1 \in 0 .. C /\ ~(n < L)
      BY <1>1, <2>3
    <3> QED
      BY <1>4, <2>3, <3>1
  <2> QED
    BY <2>1, <2>2, <2>3
<1>6. w = body(w)
  <2>1. w = [n \in 0 .. C |-> w[n]]
    OBVIOUS
  <2> HIDE DEF w, C
  <2> QED
    BY <1>5, <2>1
<1>7. Nth = body(Nth)
  <2>1. Nth = CHOOSE f : f = body(f)
    BY Zenon DEF Nth
  <2>2. \E f : f = body(f)
    <3> HIDE DEF w, C
    <3> QED
      BY <1>6, Zenon
  <2> HIDE DEF body
  <2> QED
    BY <2>1, <2>2, Zenon
<1> HIDE DEF w, C
<1>8. DOMAIN Nth = 0 .. C
  BY <1>7, Zenon
<1>9. ASSUME NEW n \in 0 .. C
      PROVE  Nth[n] = IF n = 0 THEN head ELSE IF Nth[n - 1] = Null THEN Null ELSE next[Nth[n - 1]]
  <2>1. body(Nth)[n] = IF n = 0 THEN head ELSE IF Nth[n - 1] = Null THEN Null ELSE next[Nth[n - 1]]
    BY Zenon
  <2> HIDE DEF body
  <2> QED
    BY <1>7, <2>1, Zenon
<1>10. \A n \in 0 .. C : Nth[n] = w[n]
  <2> DEFINE X == {n \in 0 .. C : Nth[n] # w[n]}
  <2> SUFFICES ASSUME X # {} PROVE FALSE
    OBVIOUS
  <2>0. X \subseteq Nat
    BY <1>1
  <2>1. PICK m \in X : \A n \in X : m <= n
    <3> HIDE DEF X
    <3> QED
      BY <2>0, NatHasLeast
  <2>2. m \in 0 .. C /\ Nth[m] # w[m]
    OBVIOUS
  <2>3. CASE m = 0
    BY <1>5, <1>9, <2>2, <2>3
  <2>4. CASE m # 0
    <3>1. m - 1 \in 0 .. C /\ ~(m <= m - 1)
      BY <1>1, <2>2, <2>4
    <3>2. Nth[m - 1] = w[m - 1]
      BY <2>1, <3>1
    <3> QED
      BY <1>5, <1>9, <2>2, <2>4, <3>2
  <2> QED
    BY <2>3, <2>4
<1> QED
  BY <1>4, <1>8, <1>10 DEF C

\* Where a slab of the list is.
LEMMA Positions ==
    ASSUME SlabTypes, NEW L \in Nat, NEW s \in [1 .. L -> SlabPage], Chain(L, s), NEW i \in 1 .. L
    PROVE  Position(s[i]) = i - 1
<1> DEFINE C == Cardinality(SlabPage)
<1>1. C \in Nat /\ L <= C
  BY ChainLength
<1>2. DOMAIN Nth = 0 .. C /\ \A n \in 0 .. C : Nth[n] = IF n < L THEN s[n + 1] ELSE Null
  BY Walk
<1>3. s[i] # Null
  BY AtPlace
<1> HIDE DEF C
<1>4. i - 1 \in 0 .. C /\ Nth[i - 1] = s[i]
  BY <1>1, <1>2
<1>5. ASSUME NEW n \in 0 .. C, Nth[n] = s[i] PROVE n = i - 1
  <2>1. n < L /\ s[n + 1] = s[i]
    BY <1>2, <1>3, <1>5
  <2>2. n + 1 \in 1 .. L
    BY <1>1, <2>1
  <2>3. n + 1 = i
    BY <2>1, <2>2 DEF Chain
  <2> QED
    BY <2>3
<1> DEFINE P(n) == n \in DOMAIN Nth /\ Nth[n] = s[i]
<1>6. Position(s[i]) \in DOMAIN Nth /\ Nth[Position(s[i])] = s[i]
  BY <1>2, <1>4 DEF Position
<1> QED
  BY <1>2, <1>5, <1>6

LEMMA SlabListSuffices ==
    ASSUME SlabInv
    PROVE  ListIntact /\ head \in slabs \cup {Null} /\ curr \in slabs \cup {Null}
<1>0. PICK L \in Nat : \E s \in [1 .. L -> SlabPage], k \in 0 .. L : Chain(L, s) /\ Sorted(L, s, k)
  BY DEF SlabInv, SlabList
<1>1. PICK s \in [1 .. L -> SlabPage], k \in 0 .. L : Chain(L, s) /\ Sorted(L, s, k)
  BY <1>0
<1> DEFINE C == Cardinality(SlabPage)
<1>2. C \in Nat /\ L <= C
  BY <1>1, ChainLength DEF SlabInv
<1>3. DOMAIN Nth = 0 .. C /\ \A n \in 0 .. C : Nth[n] = IF n < L THEN s[n + 1] ELSE Null
  BY <1>1, Walk DEF SlabInv
<1>4. \A i \in 1 .. L : s[i] \in SlabPage /\ s[i] \in slabs /\ s[i] # Null
  BY <1>1, AtPlace DEF SlabInv
<1> HIDE DEF C
<1>5. head = IF L = 0 THEN Null ELSE s[1]
  BY <1>1 DEF Chain
<1>6. \A i \in 1 .. L : /\ next[s[i]] = IF i = L THEN Null ELSE s[i + 1]
                        /\ prev[s[i]] = IF i = 1 THEN Null ELSE s[i - 1]
  BY <1>1 DEF Chain
<1>7. \E n \in DOMAIN Nth : Nth[n] = Null
  <2>1. L \in 0 .. C /\ Nth[L] = Null
    BY <1>2, <1>3
  <2> QED
    BY <1>3, <2>1
<1>8. {Nth[n] : n \in DOMAIN Nth} \ {Null} = slabs
  <2>1. ASSUME NEW n \in DOMAIN Nth, Nth[n] # Null PROVE Nth[n] \in slabs
    <3>1. n \in 0 .. C /\ n < L /\ Nth[n] = s[n + 1]
      BY <1>3, <2>1
    <3>2. n + 1 \in 1 .. L
      BY <1>2, <3>1
    <3> QED
      BY <1>4, <3>1, <3>2
  <2>2. ASSUME NEW p \in slabs PROVE p # Null /\ \E n \in DOMAIN Nth : Nth[n] = p
    <3>1. PICK i \in 1 .. L : s[i] = p
      BY <1>1, SlabAt DEF SlabInv
    <3>2. i - 1 \in 0 .. C /\ i - 1 < L /\ (i - 1) + 1 = i
      BY <1>2
    <3>3. Nth[i - 1] = p
      BY <1>3, <3>1, <3>2
    <3> QED
      BY <1>3, <1>4, <3>1, <3>2, <3>3
  <2> QED
    BY <2>1, <2>2
<1>9. head # Null => prev[head] = Null
  BY <1>5, <1>6
<1>10. ASSUME NEW p \in slabs, next[p] # Null PROVE prev[next[p]] = p
  <2>1. PICK i \in 1 .. L : s[i] = p
    BY <1>1, SlabAt DEF SlabInv
  <2>2. i # L /\ next[p] = s[i + 1] /\ i + 1 \in 1 .. L /\ i + 1 # 1 /\ (i + 1) - 1 = i
    BY <1>6, <1>10, <2>1
  <2> QED
    BY <1>6, <2>1, <2>2
<1>11. curr = IF k = 0 THEN Null ELSE s[k]
  BY <1>1 DEF Sorted
<1>12. head \in slabs \cup {Null} /\ curr \in slabs \cup {Null}
  BY <1>4, <1>5, <1>11
<1> QED
  BY <1>7, <1>8, <1>9, <1>10, <1>12 DEF ListIntact

LEMMA SlabTypeSuffices ==
    ASSUME SlabInv
    PROVE  SlabType
<1>1. head \in slabs \cup {Null} /\ curr \in slabs \cup {Null}
  BY SlabListSuffices
<1>2. ASSUME NEW p \in SlabPage PROVE Range(bufs[p]) \subseteq 1 .. bps
  <2>1. bps \in Nat /\ bufs[p] \in Seq(1 .. bps)
    BY DEF SlabInv, SlabTypes
  <2>d. DOMAIN bufs[p] = 1 .. Len(bufs[p])
    BY <2>1
  <2>2. Range(bufs[p]) = {bufs[p][i] : i \in 1 .. Len(bufs[p])}
    BY <2>d, Zenon DEF Range
  <2>3. \A i \in 1 .. Len(bufs[p]) : bufs[p][i] \in 1 .. bps
    BY <2>1
  <2> QED
    BY <2>2, <2>3
<1> QED
  BY <1>1, <1>2 DEF SlabInv, SlabTypes, SlabType

LEMMA LinkageSuffices ==
    ASSUME SlabInv
    PROVE  Linkage
<1>0. PICK L \in Nat : \E s \in [1 .. L -> SlabPage], k \in 0 .. L : Chain(L, s) /\ Sorted(L, s, k)
  BY DEF SlabInv, SlabList
<1>1. PICK s \in [1 .. L -> SlabPage], k \in 0 .. L : Chain(L, s) /\ Sorted(L, s, k)
  BY <1>0
<1>2. ASSUME NEW p \in slabs PROVE \E i \in 1 .. L : s[i] = p /\ (Full(p) <=> ~(i <= k)) /\ Position(p) = i - 1
  <2>1. PICK i \in 1 .. L : s[i] = p
    BY <1>1, SlabAt DEF SlabInv
  <2>2. acnt[p] \in Nat /\ (acnt[p] > 0 <=> i <= k)
    BY <1>1, <2>1 DEF Sorted, SlabInv, SlabTypes
  <2>3. Position(s[i]) = i - 1
    BY <1>1, Positions DEF SlabInv
  <2> QED
    BY <2>1, <2>2, <2>3 DEF Full
<1>3. ASSUME NEW p \in slabs, NEW q \in slabs, ~Full(p), Full(q) PROVE Position(p) < Position(q)
  <2>1. PICK i \in 1 .. L : s[i] = p /\ (Full(p) <=> ~(i <= k)) /\ Position(p) = i - 1
    BY <1>2
  <2>2. PICK j \in 1 .. L : s[j] = q /\ (Full(q) <=> ~(j <= k)) /\ Position(q) = j - 1
    BY <1>2
  <2> QED
    BY <1>3, <2>1, <2>2
<1>4. \A i \in 1 .. L : s[i] \in SlabPage /\ s[i] \in slabs /\ s[i] # Null
  BY <1>1, AtPlace DEF SlabInv
<1>5. \A i \in 1 .. L : Full(s[i]) <=> ~(i <= k)
  BY <1>1, <1>4 DEF Full, Sorted, SlabInv, SlabTypes
<1>6. curr = IF k = 0 THEN Null ELSE s[k]
  BY <1>1 DEF Sorted
<1>7. curr = Null <=> k = 0
  BY <1>4, <1>6
<1>8. k = 0 <=> \A p \in slabs : Full(p)
  <2>1. ASSUME k = 0, NEW p \in slabs PROVE Full(p)
    BY <1>2, <2>1
  <2>2. ASSUME k # 0 PROVE s[k] \in slabs /\ ~Full(s[k])
    BY <1>4, <1>5, <2>2
  <2> QED
    BY <2>1, <2>2
<1>9. ASSUME curr # Null PROVE ~Full(curr) /\ (next[curr] # Null => Full(next[curr]))
  <2>1. k \in 1 .. L /\ curr = s[k]
    BY <1>6, <1>7, <1>9
  <2>2. next[curr] = IF k = L THEN Null ELSE s[k + 1]
    BY <1>1, <2>1 DEF Chain
  <2>3. k # L => k + 1 \in 1 .. L /\ ~(k + 1 <= k)
    OBVIOUS
  <2> QED
    BY <1>5, <2>1, <2>2, <2>3
<1> QED
  BY <1>3, <1>7, <1>8, <1>9, SlabListSuffices, SlabTypeSuffices DEF Linkage

LEMMA BuffersSuffice ==
    ASSUME SlabInv
    PROVE  BuffersConserved
<1> SUFFICES ASSUME NEW p \in slabs
             PROVE  LET used == {e[2] : e \in {x \in elems : x[1] = p}} IN
                    /\ used \cup Range(bufs[p]) = 1 .. bps
                    /\ used \cap Range(bufs[p]) = {}
                    /\ acnt[p] = Len(bufs[p]) /\ acnt[p] = Cardinality(Range(bufs[p]))
                    /\ used # {}
  BY DEF BuffersConserved
<1> DEFINE used == {e[2] : e \in {x \in elems : x[1] = p}}
<1>1. p \in SlabPage /\ bps \in Nat \ {0} /\ bufs[p] \in Seq(1 .. bps) /\ acnt[p] \in Nat
  BY DEF SlabInv, SlabTypes
<1>2. Once(bufs[p]) /\ acnt[p] = Len(bufs[p]) /\ acnt[p] < bps
      /\ \A b \in 1 .. bps : <<p, b>> \in elems <=> Lacks(bufs[p], b)
  BY DEF SlabInv, SlabBufs
<1>3. Range(bufs[p]) = {bufs[p][i] : i \in 1 .. Len(bufs[p])}
  BY <1>1 DEF Range
<1>4. /\ Cardinality({bufs[p][i] : i \in 1 .. Len(bufs[p])}) = Len(bufs[p])
      /\ Len(bufs[p]) = bps <=> \A b \in 1 .. bps : \E i \in 1 .. Len(bufs[p]) : bufs[p][i] = b
  BY <1>1, <1>2, BufferCount
<1>5. \A b \in 1 .. bps : b \in Range(bufs[p]) <=> ~Lacks(bufs[p], b)
  BY <1>3 DEF Lacks
<1>6. Range(bufs[p]) \subseteq 1 .. bps
  BY <1>1, <1>3
<1>7. ASSUME NEW b PROVE b \in used <=> b \in 1 .. bps /\ <<p, b>> \in elems
  <2>1. ASSUME NEW e \in elems, e[1] = p PROVE e[2] \in 1 .. bps /\ e = <<p, e[2]>>
    BY <2>1, ElemPlace DEF SlabInv
  <2>2. ASSUME b \in used PROVE b \in 1 .. bps /\ <<p, b>> \in elems
    BY <2>1, <2>2
  <2>3. ASSUME <<p, b>> \in elems PROVE b \in used
    BY <2>3
  <2> QED
    BY <2>2, <2>3
<1> HIDE DEF used
<1>8. used \cup Range(bufs[p]) = 1 .. bps /\ used \cap Range(bufs[p]) = {}
  BY <1>2, <1>5, <1>6, <1>7
<1>9. used # {}
  <2>1. Len(bufs[p]) # bps
    BY <1>1, <1>2
  <2>2. PICK b \in 1 .. bps : Lacks(bufs[p], b)
    BY <1>4, <2>1 DEF Lacks
  <2> QED
    BY <1>2, <1>7, <2>2
<1> QED
  BY <1>2, <1>3, <1>4, <1>8, <1>9 DEF used

LEMMA SlabInvInit ==
    ASSUME SlabInit
    PROVE  SlabInv
<1>1. SlabTypes
  <2>1. bps \in Nat \ {0} /\ bps \in Sizes
    BY SlabAssumption DEF SlabInit
  <2>2. <<>> \in Seq(1 .. bps) /\ 0 \in 0 .. bps
    BY <2>1
  <2> QED
    BY <2>1, <2>2 DEF SlabInit, SlabTypes
<1>2. SlabBufs
  BY DEF SlabInit, SlabBufs
<1>3. PICK s : s \in [1 .. 0 -> SlabPage]
  <2>1. \A i \in 1 .. 0 : Null \in SlabPage
    OBVIOUS
  <2>2. [i \in 1 .. 0 |-> Null] \in [1 .. 0 -> SlabPage]
    BY <2>1
  <2> QED
    BY <2>2
<1>4. Chain(0, s)
  BY DEF SlabInit, Chain
<1>5. Sorted(0, s, 0)
  BY DEF SlabInit, Sorted
<1>6. 0 \in Nat /\ 0 \in 0 .. 0
  OBVIOUS
<1> QED
  BY <1>1, <1>2, <1>3, <1>4, <1>5, <1>6 DEF SlabInv, SlabList

LEMMA SlabInvStep ==
    ASSUME SlabInv, [SlabNext]_slabVars
    PROVE  SlabInv'
<1>1. CASE AllocCurr
  BY <1>1, AllocCurrKeeps
<1>2. CASE AllocNew
  BY <1>2, AllocNewKeeps
<1>3. ASSUME NEW e \in elems, FreeEmpty(e) PROVE SlabInv'
  BY <1>3, FreeEmptyKeeps
<1>4. ASSUME NEW e \in elems, FreeFull(e) PROVE SlabInv'
  BY <1>4, FreeFullKeeps
<1>5. ASSUME NEW e \in elems, FreePartial(e) PROVE SlabInv'
  BY <1>5, FreePartialKeeps
<1>6. CASE UNCHANGED slabVars
  <2>1. SlabTypes'
    BY <1>6 DEF slabVars, SlabInv, SlabTypes
  <2>2. SlabBufs'
    BY <1>6 DEF slabVars, SlabInv, SlabBufs
  <2>3. SlabList'
    <3>1. PICK L \in Nat : \E s \in [1 .. L -> SlabPage], k \in 0 .. L : Chain(L, s) /\ Sorted(L, s, k)
      BY DEF SlabInv, SlabList
    <3>2. PICK s \in [1 .. L -> SlabPage], k \in 0 .. L : Chain(L, s) /\ Sorted(L, s, k)
      BY <3>1
    <3>3. Chain(L, s)' /\ Sorted(L, s, k)'
      BY <1>6, <3>2 DEF slabVars, Chain, Sorted
    <3> QED
      BY <3>3 DEF SlabList
  <2> QED
    BY <2>1, <2>2, <2>3 DEF SlabInv
<1> QED
  BY <1>1, <1>2, <1>3, <1>4, <1>5, <1>6 DEF SlabNext

(***************************************************************************)
(* The slab allocator of src/slab.cpp, for any number of pages and any     *)
(* sizes of slabs: the list of slabs is linked as the code documents, with *)
(* partial slabs in front of full ones and curr at the last partial one,   *)
(* and every buffer of every slab is free once or held once.               *)
(***************************************************************************)
THEOREM SlabCacheExact == SlabSpec => []SlabSafe
<1>1. SlabInit => SlabInv
  BY SlabInvInit
<1>2. SlabInv /\ [SlabNext]_slabVars => SlabInv'
  BY SlabInvStep
<1>3. SlabInv => SlabSafe
  BY LinkageSuffices, BuffersSuffice DEF SlabSafe
<1> QED
  BY <1>1, <1>2, <1>3, PTL DEF SlabSpec
=============================================================================
