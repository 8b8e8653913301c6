------------------------------ MODULE SyncProof ------------------------------
(***************************************************************************)
(* Proofs about what CPUs use to wait for each other.                      *)
(*                                                                         *)
(* The ticket spinlock, for any number of CPUs and any number of tickets   *)
(* that is not smaller.  MutualExclusion is not inductive: it needs        *)
(* TicketWindow, which places every ticket drawn.                          *)
(*                                                                         *)
(* Read-copy update, for any number of CPUs, any elements and any word     *)
(* that holds at least four batch numbers.  RcuSafe is not inductive: a    *)
(* callback that waits is safe only because no CPU can be more than one    *)
(* batch behind, and because the batch an element waits for is at most one *)
(* away from the batch in progress.                                        *)
(*                                                                         *)
(* Recalls, for any number of CPUs and execution contexts.  StrongHolds is *)
(* not inductive: it needs to know of a recall under way that the hazard   *)
(* it set is still there unless the EC has sent its event, and that an IPI *)
(* taken after the caller read the counter found the hazard.  RecInv adds  *)
(* both, and which jobs belong to which mode.                              *)
(***************************************************************************)
EXTENDS Spinlock, Rcu, Recall, FiniteSetTheorems, TLAPS

(* The spinlock.                                                           *)

Inv == TypeOK /\ TicketWindow

\* The 16-bit increment as a case distinction.
LEMMA Increment ==
    ASSUME NEW n \in Nat \ {0}, NEW x \in 0 .. n - 1
    PROVE  (x + 1) % n = IF x + 1 = n THEN 0 ELSE x + 1
  <1>1. CASE x + 1 = n
    BY <1>1, Z3
  <1>2. CASE x + 1 # n
    BY <1>2, Z3
  <1> QED BY <1>1, <1>2

\* Adding less than a full turn wraps at most once.
LEMMA Modulo ==
    ASSUME NEW n \in Nat \ {0}, NEW x \in 0 .. n - 1, NEW k \in 0 .. n
    PROVE  (x + k) % n = IF x + k >= n THEN x + k - n ELSE x + k
  <1>1. CASE x + k >= n
    BY <1>1, Z3
  <1>2. CASE x + k < n
    BY <1>2, Z3
  <1> QED BY <1>1, <1>2

\* The set of CPUs with a ticket is finite and no larger than the number of
\* tickets.
LEMMA DrawnBound ==
    ASSUME NEW S \in SUBSET Cpu
    PROVE  /\ IsFiniteSet(S)
           /\ Cardinality(S) \in Nat
           /\ Cardinality(S) <= Cardinality(Cpu)
           /\ Cardinality(S) <= Tickets
           /\ Cardinality(Cpu) \in Nat
           /\ Tickets \in Nat \ {0}
  BY SpinlockAssumption, FS_Subset, FS_CardinalityType

\* Nobody has a ticket at first: the window is empty.
LEMMA InitInv == Init => Inv
  <1> SUFFICES ASSUME Init PROVE Inv
    OBVIOUS
  <1>1. Drawn = {} /\ Holders = {}
    BY DEF Init, Drawn, Holders
  <1>2. Cardinality(Drawn) = 0
    BY <1>1, FS_EmptySet
  <1>3. Tickets \in Nat \ {0}
    BY SpinlockAssumption
  <1>4. (0 + 0) % Tickets = 0
    BY <1>3, Modulo
  <1>5. TypeOK
    BY <1>3 DEF Init, TypeOK, Values
  <1> QED BY <1>1, <1>2, <1>4, <1>5 DEF Inv, TicketWindow, Init

\* Every access to the lock word keeps the window.
LEMMA NextInv == Inv /\ [Next]_vars => Inv'
  <1> SUFFICES ASSUME Inv, [Next]_vars PROVE Inv'
    OBVIOUS
  <1>t. Tickets \in Nat \ {0}
    BY SpinlockAssumption
  <1>1. ASSUME NEW c \in Cpu, Xadd(c) PROVE Inv'
    <2>1. PICK n \in Nat : n = Cardinality(Drawn)
      BY DrawnBound DEF Drawn
    <2>2. c \notin Drawn /\ Drawn' = Drawn \cup {c}
      BY <1>1 DEF Xadd, Drawn, Inv, TypeOK
    <2>3. Cardinality(Drawn') = n + 1 /\ n + 1 <= Tickets
      <3>1. IsFiniteSet(Drawn)
        BY DrawnBound DEF Drawn
      <3>2. Cardinality(Drawn \cup {c}) = n + 1
        BY <2>1, <2>2, <3>1, FS_AddElement
      <3>3. Cardinality(Drawn \cup {c}) <= Tickets
        BY DrawnBound DEF Drawn
      <3> QED BY <2>2, <3>2, <3>3
    <2>c. cur \in 0 .. Tickets - 1 /\ n \in 0 .. Tickets /\ n + 1 \in 0 .. Tickets
      BY <1>t, <2>3 DEF Inv, TypeOK, Values
    <2>4. nxt = IF cur + n >= Tickets THEN cur + n - Tickets ELSE cur + n
      <3>1. nxt = (cur + n) % Tickets
        BY <2>1 DEF Inv, TicketWindow
      <3> QED BY <1>t, <2>c, <3>1, Modulo
    <2>5. Distance(nxt) = n
      BY <1>t, <2>3, <2>4 DEF Distance, Inv, TypeOK, Values
    <2>6. nxt' = IF nxt + 1 = Tickets THEN 0 ELSE nxt + 1
      BY <1>1, <1>t, Increment DEF Xadd, Inv, TypeOK, Values
    <2>7. TypeOK'
      BY <1>1, <1>t, <2>6 DEF Xadd, Inv, TypeOK, Values
    <2>8. nxt' = (cur' + Cardinality(Drawn')) % Tickets
      <3>1. (cur + (n + 1)) % Tickets
              = IF cur + (n + 1) >= Tickets THEN cur + (n + 1) - Tickets ELSE cur + (n + 1)
        BY <1>t, <2>c, Modulo
      <3> QED BY <1>1, <1>t, <2>3, <2>4, <2>6, <3>1 DEF Xadd, Inv, TypeOK, Values
    <2>9. \A d \in Drawn : d # c /\ tkt'[d] = tkt[d] /\ seen'[d] = seen[d] /\ d \in Cpu
      BY <1>1, <2>2 DEF Xadd, Inv, TypeOK, Drawn
    <2>10. tkt'[c] = nxt /\ seen'[c] = cur /\ cur' = cur /\ pc'[c] = "spin"
      BY <1>1 DEF Xadd, Inv, TypeOK
    <2>11. \A d \in Drawn : Distance(tkt[d]) < n /\ Distance(tkt[d]) \in Nat
      BY <1>t, <2>1 DEF Inv, TicketWindow, Drawn, Distance, TypeOK, Values
    <2>12. \A t \in Values : Distance(t)' = Distance(t)
      BY <2>10 DEF Distance
    <2>13. \A d \in Drawn' : Distance(tkt[d])' < Cardinality(Drawn')
      <3>1. SUFFICES ASSUME NEW d \in Drawn' PROVE Distance(tkt[d])' < n + 1
        BY <2>3
      <3>2. Distance(tkt[d])' = IF tkt'[d] >= cur THEN tkt'[d] - cur ELSE tkt'[d] - cur + Tickets
        BY <2>10 DEF Distance
      <3>3. CASE d = c
        BY <2>5, <2>10, <3>2, <3>3 DEF Distance
      <3>4. CASE d \in Drawn
        BY <2>9, <2>11, <3>2, <3>4 DEF Distance
      <3> QED BY <2>2, <3>3, <3>4
    <2>14. \A d \in Drawn : tkt[d] # nxt
      BY <2>5, <2>11
    <2>15. \A d, e \in Drawn' : tkt'[d] = tkt'[e] => d = e
      BY <2>2, <2>9, <2>10, <2>14 DEF Inv, TicketWindow
    <2>16. \A d \in Drawn' : seen'[d] = tkt'[d] => tkt'[d] = cur'
      BY <2>2, <2>9, <2>10 DEF Inv, TicketWindow
    <2>17. \A d \in Holders' : seen'[d] = tkt'[d]
      <3>1. Holders' = Holders /\ Holders \subseteq Drawn
        BY <1>1 DEF Xadd, Holders, Drawn, Inv, TypeOK
      <3> QED BY <2>9, <3>1 DEF Inv, TicketWindow
    <2> QED BY <2>7, <2>8, <2>13, <2>15, <2>16, <2>17 DEF Inv, TicketWindow
  <1>2. ASSUME NEW c \in Cpu, Enter(c) PROVE Inv'
    <2>1. TypeOK'
      BY <1>2 DEF Enter, Inv, TypeOK
    <2>2. Drawn' = Drawn /\ Holders' = Holders \cup {c} /\ UNCHANGED <<nxt, cur, tkt, seen>>
      BY <1>2 DEF Enter, Drawn, Holders, Inv, TypeOK
    <2>3. seen[c] = tkt[c]
      BY <1>2 DEF Enter
    <2>4. \A t : Distance(t)' = Distance(t)
      BY <2>2 DEF Distance
    <2> QED BY <2>1, <2>2, <2>3 DEF Inv, TicketWindow, Distance
  <1>3. ASSUME NEW c \in Cpu, Reload(c) PROVE Inv'
    <2>1. TypeOK'
      BY <1>3 DEF Reload, Inv, TypeOK
    <2>2. Drawn' = Drawn /\ Holders' = Holders /\ UNCHANGED <<nxt, cur, tkt>>
      BY <1>3 DEF Reload, Drawn, Holders
    <2>3. \A d \in Cpu : seen'[d] = IF d = c THEN cur ELSE seen[d]
      BY <1>3 DEF Reload, Inv, TypeOK
    <2>4. c \notin Holders /\ Holders \subseteq Cpu /\ Drawn \subseteq Cpu
      BY <1>3 DEF Reload, Holders, Drawn
    <2> QED BY <2>1, <2>2, <2>3, <2>4 DEF Inv, TicketWindow, Distance
  <1>4. ASSUME NEW c \in Cpu, Unlock(c) PROVE Inv'
    <2>1. PICK n \in Nat : n = Cardinality(Drawn)
      BY DrawnBound DEF Drawn
    <2>2. c \in Drawn /\ Drawn' = Drawn \ {c} /\ c \in Holders
      BY <1>4 DEF Unlock, Drawn, Holders, Inv, TypeOK
    <2>3. tkt[c] = cur
      BY <2>2 DEF Inv, TicketWindow
    <2>4. Cardinality(Drawn') = n - 1 /\ n \in 1 .. Tickets
      <3>1. IsFiniteSet(Drawn) /\ n <= Tickets
        BY <2>1, DrawnBound DEF Drawn
      <3>2. Cardinality(Drawn \ {c}) = n - 1
        BY <2>1, <2>2, <3>1, FS_RemoveElement
      <3>3. Cardinality(Drawn \ {c}) \in Nat
        BY DrawnBound DEF Drawn
      <3> QED BY <1>t, <2>2, <3>1, <3>2, <3>3
    <2>5. cur' = IF cur + 1 = Tickets THEN 0 ELSE cur + 1
      BY <1>4, <1>t, Increment DEF Unlock, Inv, TypeOK, Values
    <2>6. TypeOK'
      BY <1>4, <1>t, <2>5 DEF Unlock, Inv, TypeOK, Values
    <2>7. nxt' = nxt /\ tkt' = tkt /\ seen' = seen
      BY <1>4 DEF Unlock
    <2>8. nxt' = (cur' + Cardinality(Drawn')) % Tickets
      <3>1. nxt = IF cur + n >= Tickets THEN cur + n - Tickets ELSE cur + n
        <4>1. nxt = (cur + n) % Tickets
          BY <2>1 DEF Inv, TicketWindow
        <4>2. cur \in 0 .. Tickets - 1 /\ n \in 0 .. Tickets
          BY <1>t, <2>4 DEF Inv, TypeOK, Values
        <4> QED BY <1>t, <4>1, <4>2, Modulo
      <3>2. (cur' + (n - 1)) % Tickets
              = IF cur' + (n - 1) >= Tickets THEN cur' + (n - 1) - Tickets ELSE cur' + (n - 1)
        <4>1. cur' \in 0 .. Tickets - 1 /\ n - 1 \in 0 .. Tickets
          BY <1>t, <2>4, <2>6 DEF TypeOK, Values
        <4> QED BY <1>t, <4>1, Modulo
      <3> QED BY <1>t, <2>4, <2>5, <2>7, <3>1, <3>2 DEF Inv, TypeOK, Values
    <2>9. \A d \in Drawn' : d \in Drawn /\ d \in Cpu /\ tkt[d] # cur
      BY <2>2, <2>3 DEF Inv, TicketWindow, Drawn
    <2>10. \A d \in Drawn' : Distance(tkt[d])' < Cardinality(Drawn')
      <3>1. SUFFICES ASSUME NEW d \in Drawn' PROVE Distance(tkt[d])' < n - 1
        BY <2>4
      <3>2. Distance(tkt[d])' = IF tkt[d] >= cur' THEN tkt[d] - cur' ELSE tkt[d] - cur' + Tickets
        BY <2>7 DEF Distance
      <3>3. Distance(tkt[d]) < n
        BY <2>1, <2>9 DEF Inv, TicketWindow
      <3>4. tkt[d] \in Values /\ cur \in Values /\ tkt[d] # cur
        BY <2>9 DEF Inv, TypeOK
      <3> QED BY <1>t, <2>4, <2>5, <3>2, <3>3, <3>4 DEF Distance, Values
    <2>11. \A d \in Drawn' : seen'[d] # tkt'[d]
      BY <2>7, <2>9 DEF Inv, TicketWindow
    <2>12. \A d \in Holders' : FALSE
      <3>1. \A d \in Holders' : d \in Holders /\ d \in Drawn'
        BY <1>4 DEF Unlock, Holders, Drawn, Inv, TypeOK
      <3> QED BY <2>7, <2>11, <3>1 DEF Inv, TicketWindow
    <2> QED BY <2>2, <2>6, <2>7, <2>8, <2>10, <2>11, <2>12 DEF Inv, TicketWindow
  <1>5. CASE UNCHANGED vars
    BY <1>5 DEF vars, Inv, TypeOK, TicketWindow, Drawn, Holders, Distance
  <1> QED BY <1>1, <1>2, <1>3, <1>4, <1>5 DEF Next

\* The invariant holds in every reachable state: tickets in use are the
\* window from cur to nxt, each drawn by one CPU (Spinlock::lock, unlock).
THEOREM Invariance == Spec => []Inv
  BY InitInv, NextInv, PTL DEF Spec

\* Type correctness: both halves of the lock word keep their width.
THEOREM TypeCorrect == Spec => []TypeOK
  <1>1. Inv => TypeOK
    BY DEF Inv
  <1> QED BY <1>1, Invariance, PTL

\* Only one CPU can be at the front of the window.
LEMMA InvExcludes == Inv => MutualExclusion
  <1> SUFFICES ASSUME Inv, NEW c \in Holders, NEW d \in Holders PROVE c = d
    BY DEF MutualExclusion
  <1>1. c \in Drawn /\ d \in Drawn
    BY DEF Holders, Drawn
  <1>2. tkt[c] = cur /\ tkt[d] = cur
    BY <1>1 DEF Inv, TicketWindow
  <1> QED BY <1>1, <1>2 DEF Inv, TicketWindow

\* No two CPUs are ever between lock() and unlock() of the same spinlock.
THEOREM Exclusion == Spec => []MutualExclusion
  BY Invariance, InvExcludes, PTL

\* The tickets in use are always the window that starts at the one served.
THEOREM Window == Spec => []TicketWindow
  <1>1. Inv => TicketWindow
    BY DEF Inv
  <1> QED BY <1>1, Invariance, PTL

-----------------------------------------------------------------------------
(***************************************************************************)
(* Refinement of FifoLock.                                                 *)
(***************************************************************************)
LEMMA HolderIs ==
    ASSUME Inv, NEW c \in Cpu, pc[c] = "in"
    PROVE  Holder = c
  <1>1. \A d \in Cpu : pc[d] = "in" => d = c
    BY InvExcludes DEF MutualExclusion, Holders
  <1>2. c \in Holders
    BY DEF Holders
  <1> QED BY <1>1, <1>2 DEF Holder

\* A free ticket lock is a free lock.
LEMMA InitRefines == Init => Lock!Init
  <1> SUFFICES ASSUME Init PROVE Lock!Init
    OBVIOUS
  <1>1. Holders = {}
    BY DEF Init, Holders
  <1> QED BY <1>1 DEF Init, Lock!Init, Lock!Out, Ahead, Holder

\* Drawing a ticket is joining the line, entering and unlocking are the same,
\* and reading the word again is a stutter.
LEMMA NextRefines == Inv /\ Inv' /\ [Next]_vars => [Lock!Next]_<<Ahead, Holder>>
  <1> SUFFICES ASSUME Inv, Inv', [Next]_vars
               PROVE  Lock!Next \/ (Ahead' = Ahead /\ Holder' = Holder)
    OBVIOUS
  <1>t. Tickets \in Nat \ {0}
    BY SpinlockAssumption
  <1>d. \A c \in Cpu : Distance(tkt[c]) \in Nat
    BY <1>t DEF Distance, Inv, TypeOK, Values
  <1>1. ASSUME NEW c \in Cpu, Xadd(c) PROVE Lock!Request(c)
    <2>1. Lock!Queued = Drawn
      BY <1>d DEF Lock!Queued, Lock!Out, Drawn, Ahead
    <2>2. PICK n \in Nat : n = Cardinality(Drawn)
      BY DrawnBound DEF Drawn
    <2>3. n < Tickets
      <3>1. IsFiniteSet(Drawn) /\ c \notin Drawn
        BY <1>1, DrawnBound DEF Drawn, Xadd
      <3>2. Cardinality(Drawn \cup {c}) = n + 1
        BY <2>2, <3>1, FS_AddElement
      <3>3. Cardinality(Drawn \cup {c}) <= Tickets
        BY DrawnBound DEF Drawn
      <3> QED BY <1>t, <3>2, <3>3
    <2>4. Distance(nxt) = n
      <3>1. nxt = (cur + n) % Tickets
        BY <2>2 DEF Inv, TicketWindow
      <3>2. cur \in 0 .. Tickets - 1 /\ n \in 0 .. Tickets
        BY <1>t, <2>3 DEF Inv, TypeOK, Values
      <3>3. nxt = IF cur + n >= Tickets THEN cur + n - Tickets ELSE cur + n
        BY <1>t, <3>1, <3>2, Modulo
      <3> QED BY <1>t, <2>3, <3>2, <3>3 DEF Distance
    <2>5. Ahead' = [Ahead EXCEPT ![c] = n]
      <3>1. \A d \in Cpu : d # c => pc'[d] = pc[d] /\ tkt'[d] = tkt[d]
        BY <1>1 DEF Xadd, Inv, TypeOK
      <3>2. pc'[c] = "spin" /\ tkt'[c] = nxt /\ cur' = cur
        BY <1>1 DEF Xadd, Inv, TypeOK
      <3>3. Ahead'[c] = n
        BY <2>4, <3>2 DEF Ahead, Distance
      <3>4. \A d \in Cpu : d # c => Ahead'[d] = Ahead[d]
        BY <3>1, <3>2 DEF Ahead, Distance
      <3>5. Ahead = [d \in Cpu |-> Ahead[d]] /\ Ahead' = [d \in Cpu |-> Ahead'[d]]
        BY DEF Ahead
      <3> QED BY <3>3, <3>4, <3>5
    <2>6. Ahead[c] = -1
      BY <1>1 DEF Xadd, Ahead
    <2>7. Holder' = Holder
      <3>1. Holders' = Holders
        BY <1>1 DEF Xadd, Holders, Inv, TypeOK
      <3> QED BY <3>1 DEF Holder
    <2>8. n = Lock!Cardinality(Lock!Queued)
      BY <2>1, <2>2 DEF Lock!Cardinality, Cardinality
    <2> QED BY <2>5, <2>6, <2>7, <2>8 DEF Lock!Request, Lock!Out
  <1>2. ASSUME NEW c \in Cpu, Enter(c) PROVE Lock!Enter(c)
    <2>1. c \in Drawn /\ tkt[c] = cur /\ pc[c] = "spin"
      BY <1>2 DEF Enter, Drawn, Inv, TicketWindow
    <2>2. Ahead[c] = 0
      BY <1>t, <2>1 DEF Ahead, Distance, Inv, TypeOK, Values
    <2>3. Holders = {}
      <3>1. SUFFICES ASSUME NEW d \in Holders PROVE FALSE
        OBVIOUS
      <3>2. d \in Drawn /\ tkt[d] = cur /\ pc[d] = "in"
        BY DEF Holders, Drawn, Inv, TicketWindow
      <3> QED BY <2>1, <3>2 DEF Inv, TicketWindow
    <2>4. Holder = NoCpu
      BY <2>3 DEF Holder
    <2>5. Holders' = {c}
      BY <1>2, <2>3 DEF Enter, Holders, Inv, TypeOK
    <2>6. Holder' = c
      BY <2>5 DEF Holder
    <2>7. Ahead' = Ahead
      <3>1. \A d \in Cpu : (pc'[d] = "out") <=> (pc[d] = "out")
        BY <1>2 DEF Enter, Inv, TypeOK
      <3>2. tkt' = tkt /\ cur' = cur
        BY <1>2 DEF Enter
      <3> QED BY <3>1, <3>2 DEF Ahead, Distance
    <2> QED BY <2>2, <2>4, <2>6, <2>7 DEF Lock!Enter
  <1>3. ASSUME NEW c \in Cpu, Reload(c) PROVE Ahead' = Ahead /\ Holder' = Holder
    BY <1>3 DEF Reload, Ahead, Holder, Distance, Holders
  <1>4. ASSUME NEW c \in Cpu, Unlock(c) PROVE Lock!Release(c)
    <2>1. Holder = c
      BY <1>4, HolderIs DEF Unlock
    <2>2. c \in Drawn /\ tkt[c] = cur
      BY <1>4 DEF Unlock, Drawn, Holders, Inv, TicketWindow
    <2>3. Holder' = NoCpu
      <3>1. \A d \in Cpu : pc[d] = "in" => d = c
        BY <1>4, InvExcludes DEF Unlock, MutualExclusion, Holders
      <3>2. Holders' = {}
        BY <1>4, <3>1 DEF Unlock, Holders, Inv, TypeOK
      <3> QED BY <3>2 DEF Holder
    <2>4. cur' = IF cur + 1 = Tickets THEN 0 ELSE cur + 1
      BY <1>4, <1>t, Increment DEF Unlock, Inv, TypeOK, Values
    <2>5. \A d \in Drawn : d # c => Distance(tkt[d])' = Distance(tkt[d]) - 1
      <3>1. SUFFICES ASSUME NEW d \in Drawn, d # c PROVE Distance(tkt[d])' = Distance(tkt[d]) - 1
        OBVIOUS
      <3>2. tkt[d] # cur /\ tkt[d] \in Values /\ cur \in Values
        BY <2>2, <3>1 DEF Inv, TicketWindow, TypeOK, Drawn
      <3>3. tkt' = tkt
        BY <1>4 DEF Unlock
      <3> QED BY <1>t, <2>4, <3>2, <3>3 DEF Distance, Values
    <2>6. \A d \in Cpu : pc'[d] = IF d = c THEN "out" ELSE pc[d]
      BY <1>4 DEF Unlock, Inv, TypeOK
    <2>7. Ahead' = [d \in Cpu |-> IF d = c \/ Ahead[d] = -1 THEN -1 ELSE Ahead[d] - 1]
      <3>1. \A d \in Cpu : Ahead'[d] = IF d = c \/ Ahead[d] = -1 THEN -1 ELSE Ahead[d] - 1
        <4>1. SUFFICES ASSUME NEW d \in Cpu
                       PROVE  Ahead'[d] = IF d = c \/ Ahead[d] = -1 THEN -1 ELSE Ahead[d] - 1
          OBVIOUS
        <4>2. CASE d = c
          BY <2>6, <4>2 DEF Ahead
        <4>3. CASE d # c /\ pc[d] = "out"
          BY <2>6, <4>3 DEF Ahead
        <4>4. CASE d # c /\ pc[d] # "out"
          <5>1. d \in Drawn /\ Ahead[d] = Distance(tkt[d]) /\ Ahead[d] # -1
            BY <1>d, <4>4 DEF Drawn, Ahead
          <5>2. Ahead'[d] = Distance(tkt[d])'
            BY <2>6, <4>4 DEF Ahead
          <5> QED BY <2>5, <4>4, <5>1, <5>2
        <4> QED BY <4>2, <4>3, <4>4
      <3>2. Ahead' = [d \in Cpu |-> Ahead'[d]]
        BY DEF Ahead
      <3> QED BY <3>1, <3>2
    <2> QED BY <2>1, <2>3, <2>7 DEF Lock!Release, Lock!Out
  <1>5. CASE UNCHANGED vars
    BY <1>5 DEF vars, Ahead, Holder, Distance, Holders
  <1> QED BY <1>1, <1>2, <1>3, <1>4, <1>5 DEF Next, Lock!Next

\* The ticket lock implements the first come, first served lock.
THEOREM Refinement == Spec => ImplementsFifoLock
  <1>1. Spec => []Inv
    BY Invariance
  <1> QED BY <1>1, InitRefines, NextRefines, PTL
          DEF Spec, ImplementsFifoLock, Lock!Spec

-----------------------------------------------------------------------------
(* Read-copy update.                                                       *)

\* The numbers of batches: they wrap with the word that holds them.
Batches == Batch(Words)
Succ(b) == IF b + 1 = Batches THEN 0 ELSE b + 1
Pred(b) == IF b = 0 THEN Batches - 1 ELSE b - 1

\* c_batch is not wrapped when it is set, only when it is compared.
Is(k, b) == k = b \/ (k = Batches /\ b = 0)

\* A CPU that has to report the batch complete.
Closing(c) == s[c] = CMP /\ rpc[c] \in {"read", "cas"}

\* The starter has filled the counter; a flag is only set where it is clear.
Starter == \A c \in RcuCpu :
    /\ rpc[c] \in {"load", "store"} => count = Cardinality(RcuCpu)
    /\ rpc[c] = "cas" => ~Has(v[c], s[c])

\* One CPU reports a batch complete, and only once nobody is late.
Closer == \A c \in RcuCpu : Closing(c) =>
    /\ ~Has(state, CMP) /\ Late = {}
    /\ \A d \in RcuCpu \ {c} : ~Closing(d)

Closed == Has(state, CMP) => Late = {}

\* No CPU is more than one batch behind.
Noticed == \A c \in RcuCpu :
    /\ lBatch[c] \in {Batch(state), Pred(Batch(state))}
    /\ hazard[c] => lBatch[c] = Batch(state)

\* Elements wait for the next batch, for the one in progress, or for the
\* last one if their CPU has not yet looked at its lists since it ended.
Waiting == \A c \in RcuCpu : curr[c] # {} =>
    \/ Is(cBatch[c], Succ(Batch(state)))
    \/ /\ Is(cBatch[c], Batch(state))
       /\ \A e \in curr[c] : owes[e] \subseteq Late
    \/ /\ Is(cBatch[c], Pred(Batch(state)))
       /\ \A e \in curr[c] : owes[e] = {}
       /\ lBatch[c] # Batch(state) \/ (rpc[c] = "lists" /\ hazard[c])

\* A batch that starts between the two parts of update() is late enough for
\* all elements that update() makes wait for it.
Joining == \A c \in RcuCpu : rpc[c] = "lists" /\ lBatch[c] # Batch(state) =>
    \A e \in next[c] : owes[e] \subseteq Late

RInv == /\ CountExact /\ OneStarter /\ GracePeriod
        /\ Starter /\ Closer /\ Closed /\ Noticed /\ Waiting /\ Joining

-----------------------------------------------------------------------------
(* The word of batch number and flags.                                     *)

\* The size of the word and of the batch numbers.
LEMMA WordSize ==
    /\ Words \in Nat /\ Words >= 16
    /\ Batches \in Nat /\ Batches >= 4 /\ Words = 4 * Batches
  BY RcuAssumption, Z3 DEF Batches, Batch

\* A word is its batch number and its two flags.
LEMMA WordParts ==
    ASSUME NEW w \in 0 .. Words - 1
    PROVE  /\ Batch(w) \in 0 .. Batches - 1
           /\ Flags(w) \in 0 .. 3
           /\ w = 4 * Batch(w) + Flags(w)
           /\ Has(w, CMP) <=> Flags(w) \in {1, 3}
           /\ Has(w, PND) <=> Flags(w) \in {2, 3}
  <1>1. PICK b, f \in Nat : b = Batch(w) /\ f = Flags(w)
    BY WordSize, Z3 DEF Batch, Flags
  <1>2. w = 4 * b + f /\ f \in 0 .. 3
    BY WordSize, <1>1, Z3 DEF Batch, Flags
  <1>3. b \in 0 .. Batches - 1
    BY WordSize, <1>1, <1>2, Z3
  <1>4. Has(w, CMP) <=> f \in {1, 3}
    BY WordSize, <1>2, Z3 DEF Has, CMP
  <1>5. Has(w, PND) <=> f \in {2, 3}
    BY WordSize, <1>2, Z3 DEF Has, PND
  <1> QED BY <1>1, <1>2, <1>3, <1>4, <1>5

\* A word made of its parts has these parts.
LEMMA WordOf ==
    ASSUME NEW b \in 0 .. Batches - 1, NEW f \in 0 .. 3, NEW w, w = 4 * b + f
    PROVE  w \in 0 .. Words - 1 /\ Batch(w) = b /\ Flags(w) = f
  BY WordSize, Z3 DEF Batch, Flags

\* Setting a flag that is clear changes no other part of the word.
LEMMA SetFlag ==
    ASSUME NEW w \in 0 .. Words - 1, NEW f \in {CMP, PND}, ~Has(w, f)
    PROVE  /\ w + f \in 0 .. Words - 1
           /\ Batch(w + f) = Batch(w)
           /\ f = CMP => Has(w + f, CMP)
           /\ f = PND => (Has(w + f, CMP) <=> Has(w, CMP))
           /\ Flags(w) # 3
           /\ Flags(w) = Other(f) => Flags(w + f) = 3 /\ Has(w, Other(f))
  <1>1. /\ Batch(w) \in 0 .. Batches - 1
        /\ Flags(w) \in 0 .. 3
        /\ w = 4 * Batch(w) + Flags(w)
        /\ Has(w, CMP) <=> Flags(w) \in {1, 3}
        /\ Has(w, PND) <=> Flags(w) \in {2, 3}
    BY WordParts
  <1>2. Flags(w) + f \in 0 .. 3 /\ w + f = 4 * Batch(w) + (Flags(w) + f)
    BY WordSize, <1>1, Z3 DEF CMP, PND
  <1>3. /\ w + f \in 0 .. Words - 1
        /\ Batch(w + f) = Batch(w) /\ Flags(w + f) = Flags(w) + f
    BY <1>1, <1>2, WordOf
  <1>4. Has(w + f, CMP) <=> Flags(w + f) \in {1, 3}
    BY <1>3, WordParts
  <1> QED BY <1>1, <1>2, <1>3, <1>4, Z3 DEF CMP, PND, Other

\* The increment that starts a batch clears both flags.
LEMMA NextWord ==
    ASSUME NEW w \in 0 .. Words - 1, Flags(w) = 3
    PROVE  /\ (w + 1) % Words \in 0 .. Words - 1
           /\ Batch((w + 1) % Words) = Succ(Batch(w))
           /\ Flags((w + 1) % Words) = 0
           /\ ~Has((w + 1) % Words, CMP)
  <1>0. PICK b \in 0 .. Batches - 1 : b = Batch(w)
    BY WordParts
  <1>1. w = 4 * b + 3
    BY WordParts, <1>0
  <1>2. Succ(Batch(w)) \in 0 .. Batches - 1
    BY <1>0, WordSize, Z3 DEF Succ
  <1>3. (w + 1) % Words = 4 * Succ(Batch(w)) + 0
    <2>1. CASE b + 1 = Batches
      BY <1>0, <1>1, <2>1, WordSize, Z3 DEF Succ
    <2>2. CASE b + 1 # Batches
      <3>1. w + 1 \in 0 .. Words - 1
        BY <1>1, <2>2, WordSize, Z3
      <3>2. (w + 1) % Words = w + 1
        BY <3>1, WordSize, Z3
      <3>3. Succ(Batch(w)) = b + 1
        BY <1>0, <2>2 DEF Succ
      <3>4. w + 1 = 4 * (b + 1) + 0
        BY <1>1, WordSize, Z3
      <3> QED BY <3>2, <3>3, <3>4
    <2> QED BY <2>1, <2>2
  <1>4. /\ (w + 1) % Words \in 0 .. Words - 1
        /\ Batch((w + 1) % Words) = Succ(Batch(w))
        /\ Flags((w + 1) % Words) = 0
    BY <1>2, <1>3, WordOf
  <1> QED BY <1>4, WordParts, Z3

\* The neighbours of a batch number are batch numbers and three different
\* ones, and going back undoes going forth.
LEMMA Neighbours ==
    ASSUME NEW b \in 0 .. Batches - 1
    PROVE  /\ Succ(b) \in 0 .. Batches - 1 /\ Pred(b) \in 0 .. Batches - 1
           /\ Succ(b) # b /\ Pred(b) # b /\ Succ(b) # Pred(b)
           /\ Pred(Succ(b)) = b /\ Succ(Pred(b)) = b
           /\ Is(b + 1, Succ(b))
  BY WordSize, Z3 DEF Succ, Pred, Is

\* What complete() says of the three batches that elements may wait for.
LEMMA CompleteMeans ==
    ASSUME state \in 0 .. Words - 1, NEW k \in 0 .. Batches
    PROVE  /\ Is(k, Succ(Batch(state))) => ~Complete(k)
           /\ Is(k, Batch(state)) => (Complete(k) <=> Has(state, CMP))
           /\ Is(k, Pred(Batch(state))) => Complete(k)
  <1>1. /\ Batch(state) \in 0 .. Batches - 1
        /\ Flags(state) \in 0 .. 3
        /\ state = 4 * Batch(state) + Flags(state)
        /\ Has(state, CMP) <=> Flags(state) \in {1, 3}
        /\ Has(state, PND) <=> Flags(state) \in {2, 3}
    BY WordParts
  <1>2. PICK b \in 0 .. Batches - 1, f \in {0, 1} :
            /\ b = Batch(state) /\ (f = 1 <=> Has(state, CMP))
            /\ (IF Has(state, PND) THEN state - PND ELSE state) = 4 * b + f
    BY <1>1, WordSize, Z3 DEF PND
  <1>3. PICK d \in Int : d = (4 * b + f - 4 * k) % Words
    BY WordSize, Z3
  <1>4. Complete(k) <=> 0 < d /\ d < 2 * Batches
    BY <1>2, <1>3, WordSize, Z3 DEF Complete
  <1>5. ASSUME NEW x \in Int, NEW y \in 0 .. Words - 1, x = y \/ x = y - Words
        PROVE  x % Words = y
    <2>1. x = y => x % Words = y
      BY WordSize, Z3
    <2>2. x = y - Words => x % Words = y
      BY WordSize, Z3
    <2> QED BY <1>5, <2>1, <2>2
  <1>6. Is(k, Succ(b)) => d = Words - 4 + f
    <2> SUFFICES ASSUME Is(k, Succ(b)) PROVE d = Words - 4 + f
      OBVIOUS
    <2>1. 4 * b + f - 4 * k \in Int /\ Words - 4 + f \in 0 .. Words - 1
      BY WordSize, Z3
    <2>2. k = b + 1 \/ (k = 0 /\ b + 1 = Batches)
      BY WordSize, Z3 DEF Is, Succ
    <2>3. \/ 4 * b + f - 4 * k = Words - 4 + f
          \/ 4 * b + f - 4 * k = (Words - 4 + f) - Words
      BY <2>2, WordSize, Z3
    <2> QED BY <2>1, <2>3, <1>3, <1>5
  <1>7. Is(k, b) => d = f
    <2> SUFFICES ASSUME Is(k, b) PROVE d = f
      OBVIOUS
    <2>1. 4 * b + f - 4 * k \in Int /\ f \in 0 .. Words - 1
      BY WordSize, Z3
    <2>2. k = b \/ (k = Batches /\ b = 0)
      BY DEF Is
    <2>3. 4 * b + f - 4 * k = f \/ 4 * b + f - 4 * k = f - Words
      BY <2>2, WordSize, Z3
    <2> QED BY <2>1, <2>3, <1>3, <1>5
  <1>8. Is(k, Pred(b)) => d = 4 + f
    <2> SUFFICES ASSUME Is(k, Pred(b)) PROVE d = 4 + f
      OBVIOUS
    <2>1. 4 * b + f - 4 * k \in Int /\ 4 + f \in 0 .. Words - 1
      BY WordSize, Z3
    <2>2. k + 1 = b \/ (k = Batches /\ b = 1) \/ (k + 1 = Batches /\ b = 0)
      BY WordSize, Z3 DEF Is, Pred
    <2>3. 4 * b + f - 4 * k = 4 + f \/ 4 * b + f - 4 * k = (4 + f) - Words
      BY <2>2, WordSize, Z3
    <2> QED BY <2>1, <2>3, <1>3, <1>5
  <1>9. /\ Is(k, Succ(b)) => ~Complete(k)
        /\ Is(k, b) => (Complete(k) <=> f = 1)
        /\ Is(k, Pred(b)) => Complete(k)
    BY <1>4, <1>6, <1>7, <1>8, WordSize, Z3
  <1> QED BY <1>2, <1>9
-----------------------------------------------------------------------------
(* The steps keep the invariant.                                           *)

\* Sets of CPUs are finite.
LEMMA CpuSets ==
    /\ Cardinality(RcuCpu) \in Nat
    /\ \A S \in SUBSET RcuCpu : IsFiniteSet(S) /\ Cardinality(S) \in 0 .. Cardinality(RcuCpu)
  <1>1. IsFiniteSet(RcuCpu)
    BY RcuAssumption
  <1>2. Cardinality(RcuCpu) \in Nat
    BY <1>1, FS_CardinalityType
  <1>3. ASSUME NEW S \in SUBSET RcuCpu
        PROVE  IsFiniteSet(S) /\ Cardinality(S) \in 0 .. Cardinality(RcuCpu)
    <2>1. IsFiniteSet(S) /\ Cardinality(S) <= Cardinality(RcuCpu)
      BY <1>1, FS_Subset
    <2>2. Cardinality(S) \in Nat
      BY <2>1, FS_CardinalityType
    <2> QED BY <1>2, <2>1, <2>2
  <1> QED BY <1>2, <1>3

\* While a CPU is late nobody reports the batch complete or starts another.
LEMMA WhileLate ==
    ASSUME RInv, Late # {}
    PROVE  /\ \A d \in RcuCpu : ~Starting(d) /\ ~Closing(d)
           /\ ~Has(state, CMP) /\ count = Cardinality(Late)
  <1>1. ~Has(state, CMP)
    BY DEF RInv, Closed
  <1>2. \A d \in RcuCpu : ~Closing(d)
    BY DEF RInv, Closer
  <1>3. state \in 0 .. Words - 1
    BY DEF RInv, CountExact, RcuType
  <1>4. Flags(state) # 3
    BY <1>1, <1>3, WordParts
  <1>5. \A d \in RcuCpu : ~Starting(d)
    BY <1>4, Z3 DEF RInv, OneStarter, CMP, PND
  <1> QED BY <1>1, <1>2, <1>5 DEF RInv, CountExact

\* call() queues an element that is on no list.
LEMMA CallInv ==
    ASSUME RInv, NEW c \in RcuCpu, NEW e \in Elem, Call(c, e)
    PROVE  RInv'
  <1>t. RcuType
    BY DEF RInv, CountExact
  <1>a. Late' = Late /\ state' = state
    BY DEF Call, Late, shared, lists
  <1>1. RcuType'
    BY <1>a, <1>t DEF RInv, Call, Listed, RcuType
  <1>2. ((\E d \in RcuCpu : Starting(d)) \/ count = Cardinality(Late))'
    BY <1>a, <1>t DEF RInv, Call, Listed, CountExact, Starting, RcuType
  <1>3. OneStarter'
    BY <1>a, <1>t DEF RInv, Call, Listed, OneStarter, Starting, RcuType
  <1>4. GracePeriod'
    BY <1>a, <1>t DEF RInv, Call, Listed, GracePeriod, RcuType
  <1>5. Starter'
    BY <1>a, <1>t DEF RInv, Call, Listed, Starter, RcuType
  <1>6. Closer'
    BY <1>a, <1>t DEF RInv, Call, Listed, Closer, Closing, RcuType
  <1>7. Closed'
    BY <1>a, <1>t DEF RInv, Call, Listed, Closed, RcuType
  <1>8. Noticed'
    BY <1>a, <1>t DEF RInv, Call, Listed, Noticed, RcuType
  <1>9. Waiting'
    BY <1>a, <1>t DEF RInv, Call, Listed, Waiting, RcuType
  <1>10. Joining'
    BY <1>a, <1>t DEF RInv, Call, Listed, Joining, RcuType
  <1> QED BY <1>1, <1>2, <1>3, <1>4, <1>5, <1>6, <1>7, <1>8, <1>9, <1>10 DEF RInv, CountExact

\* A CPU that notices a batch stays late until it is quiet.
LEMMA UpdateBatchInv ==
    ASSUME RInv, NEW c \in RcuCpu, UpdateBatch(c)
    PROVE  RInv'
  <1>t. RcuType
    BY DEF RInv, CountExact
  <1>n. CMP # PND
    BY DEF CMP, PND
  <1>b. state \in 0 .. Words - 1 /\ Batch(state) \in 0 .. Batches - 1
    BY <1>t, WordParts DEF RcuType
  <1>a. Late' = Late /\ state' = state
    BY <1>t DEF UpdateBatch, Late, shared, lists, RcuType
  <1>1. RcuType'
    BY <1>t, <1>b DEF UpdateBatch, RcuGoto, shared, lists, RcuType, Batches
  <1>2. ((\E d \in RcuCpu : Starting(d)) \/ count = Cardinality(Late))'
    BY <1>a, <1>t DEF RInv, UpdateBatch, RcuGoto, shared, lists, CountExact, Starting, RcuType
  <1>3. OneStarter'
    BY <1>a, <1>t DEF RInv, UpdateBatch, RcuGoto, shared, lists, OneStarter, Starting, RcuType
  <1>4. GracePeriod'
    BY <1>a, <1>t DEF RInv, UpdateBatch, RcuGoto, shared, lists, GracePeriod, RcuType
  <1>5. Starter'
    BY <1>a, <1>t DEF RInv, UpdateBatch, RcuGoto, shared, lists, Starter, RcuType
  <1>6. Closer'
    BY <1>a, <1>t DEF RInv, UpdateBatch, RcuGoto, shared, lists, Closer, Closing, RcuType
  <1>7. Closed'
    BY <1>a, <1>t DEF RInv, UpdateBatch, RcuGoto, shared, lists, Closed, RcuType
  <1>8. Noticed'
    BY <1>a, <1>t DEF RInv, UpdateBatch, RcuGoto, shared, lists, Noticed, RcuType
  <1>9. Waiting'
    BY <1>a, <1>t DEF RInv, UpdateBatch, RcuGoto, shared, lists, Waiting, RcuType
  <1>10. Joining'
    BY <1>a, <1>t DEF RInv, UpdateBatch, RcuGoto, shared, lists, Joining, RcuType
  <1> QED BY <1>1, <1>2, <1>3, <1>4, <1>5, <1>6, <1>7, <1>8, <1>9, <1>10 DEF RInv, CountExact

\* Only elements whose batch is over are done.
LEMMA UpdateListsInv ==
    ASSUME RInv, NEW c \in RcuCpu, UpdateLists(c)
    PROVE  RInv'
  <1>t. RcuType
    BY DEF RInv, CountExact
  <1>n. CMP # PND
    BY DEF CMP, PND
  <1>b. state \in 0 .. Words - 1 /\ Batch(state) \in 0 .. Batches - 1
    BY <1>t, WordParts DEF RcuType
  <1>a. Late' = Late /\ state' = state
    BY DEF UpdateLists, Late, shared, lists
  <1>k. lBatch[c] \in 0 .. Batches - 1 /\ lBatch[c] + 1 \in 0 .. Batches /\ cBatch[c] \in 0 .. Batches
    BY <1>t, WordSize DEF RcuType, Batches
  <1>c. /\ Is(cBatch[c], Succ(Batch(state))) => ~Complete(cBatch[c])
        /\ Is(cBatch[c], Batch(state)) => (Complete(cBatch[c]) <=> Has(state, CMP))
        /\ Is(cBatch[c], Pred(Batch(state))) => Complete(cBatch[c])
    BY <1>b, <1>k, CompleteMeans
  <1>1. RcuType'
    <2>1. /\ next' \in [RcuCpu -> SUBSET Elem] /\ curr' \in [RcuCpu -> SUBSET Elem]
          /\ done' \in [RcuCpu -> SUBSET Elem]
      BY <1>t DEF UpdateLists, RcuType
    <2>2. cBatch' \in [RcuCpu -> 0 .. Batch(Words)]
      BY <1>t, <1>k DEF UpdateLists, RcuType, Batches
    <2>3. /\ s' \in [RcuCpu -> {CMP, PND}]
          /\ rpc' \in [RcuCpu -> {"run", "lists", "read", "cas", "count", "load", "store", "invoke"}]
      BY <1>t DEF UpdateLists, RcuType, RcuGoto
    <2> QED BY <1>t, <2>1, <2>2, <2>3 DEF UpdateLists, RcuType, shared
  <1>2. ((\E d \in RcuCpu : Starting(d)) \/ count = Cardinality(Late))'
    BY <1>a, <1>t DEF RInv, UpdateLists, RcuGoto, shared, lists, CountExact, Starting, RcuType
  <1>3. OneStarter'
    BY <1>a, <1>t DEF RInv, UpdateLists, RcuGoto, shared, lists, OneStarter, Starting, RcuType
  <1>4. GracePeriod'
    <2> SUFFICES ASSUME NEW d \in RcuCpu, NEW e \in done'[d] PROVE owes'[e] = {}
      BY DEF GracePeriod
    <2>1. CASE e \in done[d]
      BY <2>1 DEF RInv, GracePeriod, UpdateLists
    <2>2. CASE e \notin done[d]
      <3>1. d = c /\ e \in curr[c] /\ Complete(cBatch[c])
        BY <1>t, <2>2 DEF UpdateLists, RcuType
      <3>2. owes[e] = {}
        BY <3>1, <1>c DEF RInv, Waiting, Closed
      <3> QED BY <3>2 DEF UpdateLists
    <2> QED BY <2>1, <2>2
  <1>5. Starter'
    BY <1>a, <1>t DEF RInv, UpdateLists, RcuGoto, shared, lists, Starter, RcuType
  <1>6. Closer'
    BY <1>a, <1>t, <1>n DEF RInv, UpdateLists, RcuGoto, shared, Closer, Closing, RcuType
  <1>7. Closed'
    BY <1>a, <1>t DEF RInv, UpdateLists, RcuGoto, shared, lists, Closed, RcuType
  <1>8. Noticed'
    BY <1>a, <1>t DEF RInv, UpdateLists, RcuGoto, shared, lists, Noticed, RcuType
  <1>9. Waiting'
    <2> SUFFICES ASSUME NEW d \in RcuCpu, curr'[d] # {}
                 PROVE  (\/ Is(cBatch[d], Succ(Batch(state)))
                         \/ /\ Is(cBatch[d], Batch(state))
                            /\ \A e \in curr[d] : owes[e] \subseteq Late
                         \/ /\ Is(cBatch[d], Pred(Batch(state)))
                            /\ \A e \in curr[d] : owes[e] = {}
                            /\ lBatch[d] # Batch(state) \/ (rpc[d] = "lists" /\ hazard[d]))'
      BY DEF Waiting
    <2>1. CASE d # c
      <3>1. /\ curr'[d] = curr[d] /\ cBatch'[d] = cBatch[d] /\ rpc'[d] = rpc[d]
            /\ lBatch' = lBatch /\ hazard' = hazard /\ owes' = owes
        BY <1>t, <2>1 DEF UpdateLists, RcuGoto, RcuType
      <3> QED BY <1>a, <3>1 DEF RInv, Waiting
    <2>2. CASE d = c /\ curr'[c] = curr[c] /\ cBatch'[c] = cBatch[c] /\ ~Complete(cBatch[c])
      <3>1. ~Complete(cBatch[c])
        BY <2>2
      <3>2. UNCHANGED <<owes, lBatch, hazard>>
        BY DEF UpdateLists
      <3> QED BY <1>a, <1>c, <2>2, <3>1, <3>2 DEF RInv, Waiting
    <2>3. CASE d = c /\ curr'[c] = next[c] /\ cBatch'[c] = lBatch[c] + 1
      <3>1. Is(lBatch[c] + 1, Succ(lBatch[c]))
        BY <1>k, Neighbours
      <3>2. CASE lBatch[c] = Batch(state)
        BY <1>a, <2>3, <3>1, <3>2
      <3>3. CASE lBatch[c] # Batch(state)
        <4>1. lBatch[c] = Pred(Batch(state))
          BY <3>3 DEF RInv, Noticed
        <4>2. Succ(Pred(Batch(state))) = Batch(state)
          BY <1>b, Neighbours
        <4>3. \A e \in next[c] : owes[e] \subseteq Late
          BY <3>3 DEF RInv, Joining, UpdateLists
        <4>4. owes' = owes
          BY DEF UpdateLists
        <4> QED BY <1>a, <2>3, <3>1, <4>1, <4>2, <4>3, <4>4
      <3> QED BY <3>2, <3>3
    <2> QED BY <1>t, <2>1, <2>2, <2>3 DEF UpdateLists, RcuType
  <1>10. Joining'
    BY <1>a, <1>t DEF RInv, UpdateLists, RcuGoto, shared, lists, Joining, RcuType
  <1> QED BY <1>1, <1>2, <1>3, <1>4, <1>5, <1>6, <1>7, <1>8, <1>9, <1>10 DEF RInv, CountExact

\* invoke_batch() empties a list.
LEMMA InvokeBatchInv ==
    ASSUME RInv, NEW c \in RcuCpu, InvokeBatch(c)
    PROVE  RInv'
  <1>t. RcuType
    BY DEF RInv, CountExact
  <1>a. Late' = Late /\ state' = state
    BY DEF InvokeBatch, Late, shared, lists
  <1>1. RcuType'
    BY <1>a, <1>t DEF RInv, InvokeBatch, RcuGoto, shared, lists, RcuType
  <1>2. ((\E d \in RcuCpu : Starting(d)) \/ count = Cardinality(Late))'
    BY <1>a, <1>t DEF RInv, InvokeBatch, RcuGoto, shared, lists, CountExact, Starting, RcuType
  <1>3. OneStarter'
    BY <1>a, <1>t DEF RInv, InvokeBatch, RcuGoto, shared, lists, OneStarter, Starting, RcuType
  <1>4. GracePeriod'
    BY <1>a, <1>t DEF RInv, InvokeBatch, RcuGoto, shared, lists, GracePeriod, RcuType
  <1>5. Starter'
    BY <1>a, <1>t DEF RInv, InvokeBatch, RcuGoto, shared, lists, Starter, RcuType
  <1>6. Closer'
    BY <1>a, <1>t DEF RInv, InvokeBatch, RcuGoto, shared, lists, Closer, Closing, RcuType
  <1>7. Closed'
    BY <1>a, <1>t DEF RInv, InvokeBatch, RcuGoto, shared, lists, Closed, RcuType
  <1>8. Noticed'
    BY <1>a, <1>t DEF RInv, InvokeBatch, RcuGoto, shared, lists, Noticed, RcuType
  <1>9. Waiting'
    BY <1>a, <1>t DEF RInv, InvokeBatch, RcuGoto, shared, lists, Waiting, RcuType
  <1>10. Joining'
    BY <1>a, <1>t DEF RInv, InvokeBatch, RcuGoto, shared, lists, Joining, RcuType
  <1> QED BY <1>1, <1>2, <1>3, <1>4, <1>5, <1>6, <1>7, <1>8, <1>9, <1>10 DEF RInv, CountExact

\* A quiescent state is counted once, and the last one is noticed.
LEMMA QuietInv ==
    ASSUME RInv, NEW c \in RcuCpu, Quiet(c)
    PROVE  RInv'
  <1>t. RcuType
    BY DEF RInv, CountExact
  <1>n. CMP # PND
    BY DEF CMP, PND
  <1>b. state \in 0 .. Words - 1 /\ Batch(state) \in 0 .. Batches - 1
    BY <1>t, WordParts DEF RcuType
  <1>a. Late' = Late \ {c} /\ state' = state /\ c \in Late /\ lBatch[c] = Batch(state)
    BY <1>t DEF RInv, Noticed, Quiet, Late, RcuType
  <1>w. /\ \A d \in RcuCpu : ~Starting(d) /\ ~Closing(d)
        /\ ~Has(state, CMP) /\ count = Cardinality(Late)
    BY <1>a, WhileLate
  <1>f. IsFiniteSet(Late) /\ Late \subseteq RcuCpu /\ Cardinality(Late) \in 0 .. Cardinality(RcuCpu)
    BY CpuSets DEF Late
  <1>r. Cardinality(Late \ {c}) = Cardinality(Late) - 1 /\ Cardinality(Late \ {c}) \in Nat
    BY <1>a, <1>f, FS_RemoveElement, CpuSets
  <1>m. /\ count' = count - 1 /\ count' = Cardinality(Late') /\ count' \in 0 .. Cardinality(RcuCpu)
        /\ count \in Nat
    <2>1. PICK n \in Nat : n = Cardinality(Late)
      BY <1>f
    <2>2. n >= 1 /\ n < Words /\ Words \in Nat
      BY <2>1, <1>r, <1>f, CpuSets, WordSize, RcuAssumption
    <2>3. (n - 1) % Words = n - 1
      BY <2>2
    <2>4. count = n
      BY <1>w, <2>1
    <2>5. count' = n - 1
      BY <2>3, <2>4 DEF Quiet
    <2>6. Cardinality(Late') = n - 1
      BY <1>a, <1>r, <2>1
    <2>7. n - 1 \in 0 .. Cardinality(RcuCpu)
      BY <1>f, <2>1, <2>2, CpuSets
    <2> QED BY <2>4, <2>5, <2>6, <2>7
  <1>1. RcuType'
    BY <1>t, <1>m DEF Quiet, RcuGoto, RcuType, lists
  <1>2. ((\E d \in RcuCpu : Starting(d)) \/ count = Cardinality(Late))'
    BY <1>m
  <1>3. OneStarter'
    <2>1. \A d \in RcuCpu : ~Starting(d)'
      BY <1>t, <1>w DEF Quiet, RcuGoto, Starting, RcuType
    <2> QED BY <2>1 DEF OneStarter
  <1>4. GracePeriod'
    BY <1>t DEF RInv, GracePeriod, Quiet, lists, RcuType
  <1>5. Starter'
    BY <1>t, <1>w, <1>n DEF RInv, Starter, Quiet, RcuGoto, Starting, RcuType
  <1>6. Closer'
    <2>1. \A d \in RcuCpu : Closing(d)' => d = c /\ count = 1
      BY <1>t, <1>w DEF Quiet, RcuGoto, Closing, RcuType
    <2>2. count = 1 => Late' = {}
      <3> SUFFICES ASSUME count = 1 PROVE Late' = {}
        OBVIOUS
      <3>1. Cardinality(Late') = 0
        BY <1>m
      <3>2. IsFiniteSet(Late')
        BY <1>a, <1>f, CpuSets
      <3> QED BY <3>1, <3>2, FS_EmptySet
    <2> QED BY <2>1, <2>2, <1>a, <1>w DEF Closer
  <1>7. Closed'
    BY <1>a, <1>w DEF Closed
  <1>8. Noticed'
    BY <1>a, <1>t DEF RInv, Noticed, Quiet, RcuType
  <1>9. Waiting'
    <2> SUFFICES ASSUME NEW d \in RcuCpu, curr'[d] # {}
                 PROVE  (\/ Is(cBatch[d], Succ(Batch(state)))
                         \/ /\ Is(cBatch[d], Batch(state))
                            /\ \A e \in curr[d] : owes[e] \subseteq Late
                         \/ /\ Is(cBatch[d], Pred(Batch(state)))
                            /\ \A e \in curr[d] : owes[e] = {}
                            /\ lBatch[d] # Batch(state) \/ (rpc[d] = "lists" /\ hazard[d]))'
      BY DEF Waiting
    <2>1. /\ curr' = curr /\ cBatch' = cBatch /\ lBatch' = lBatch
          /\ \A e \in Elem : owes'[e] = owes[e] \ {c}
      BY DEF Quiet, lists
    <2>2. curr[d] \subseteq Elem
      BY <1>t DEF RcuType
    <2>3. CASE d = c
      <3>1. rpc[c] # "lists"
        BY DEF Quiet
      <3> QED BY <1>a, <2>1, <2>2, <2>3, <3>1 DEF RInv, Waiting
    <2>4. CASE d # c
      <3>1. rpc'[d] = rpc[d] /\ hazard'[d] = hazard[d]
        BY <1>t, <2>4 DEF Quiet, RcuGoto, RcuType
      <3>2. \A e \in curr'[d] : /\ owes[e] \subseteq Late => owes'[e] \subseteq Late'
                                /\ owes[e] = {} => owes'[e] = {}
        BY <1>a, <2>1, <2>2
      <3> QED BY <1>a, <2>1, <3>1, <3>2 DEF RInv, Waiting
    <2> QED BY <2>3, <2>4
  <1>10. Joining'
    <2>1. /\ next' = next /\ lBatch' = lBatch
          /\ \A e \in Elem : owes'[e] = owes[e] \ {c}
          /\ \A d \in RcuCpu : rpc'[d] = "lists" => rpc[d] = "lists"
      BY <1>t DEF Quiet, lists, RcuGoto, RcuType
    <2>2. \A d \in RcuCpu : next[d] \subseteq Elem
      BY <1>t DEF RcuType
    <2> QED BY <1>a, <2>1, <2>2 DEF RInv, Joining
  <1> QED BY <1>1, <1>2, <1>3, <1>4, <1>5, <1>6, <1>7, <1>8, <1>9, <1>10 DEF RInv, CountExact

\* Reading the word changes nothing that is shared.
LEMMA StartReadInv ==
    ASSUME RInv, NEW c \in RcuCpu, StartRead(c)
    PROVE  RInv'
  <1>t. RcuType
    BY DEF RInv, CountExact
  <1>n. CMP # PND
    BY DEF CMP, PND
  <1>b. state \in 0 .. Words - 1 /\ Batch(state) \in 0 .. Batches - 1
    BY <1>t, WordParts DEF RcuType
  <1>a. Late' = Late /\ state' = state
    BY DEF StartRead, Late, shared, lists
  <1>1. RcuType'
    <2>1. s' \in [RcuCpu -> {CMP, PND}]
      BY <1>t DEF StartRead, Return, RcuType
    <2>2. v' \in [RcuCpu -> 0 .. Words - 1]
      BY <1>t, WordSize DEF StartRead, Return, RcuType
    <2>3. rpc' \in [RcuCpu -> {"run", "lists", "read", "cas", "count", "load", "store", "invoke"}]
      BY <1>t DEF StartRead, Return, RcuGoto, RcuType
    <2> QED BY <1>t, <2>1, <2>2, <2>3 DEF StartRead, RcuType, shared, lists
  <1>2. ((\E d \in RcuCpu : Starting(d)) \/ count = Cardinality(Late))'
    BY <1>a, <1>t DEF RInv, StartRead, Return, RcuGoto, shared, lists, CountExact, Starting, RcuType
  <1>3. OneStarter'
    BY <1>a, <1>t DEF RInv, StartRead, Return, RcuGoto, shared, lists, OneStarter, Starting, RcuType
  <1>4. GracePeriod'
    BY <1>a, <1>t DEF RInv, StartRead, Return, RcuGoto, shared, lists, GracePeriod, RcuType
  <1>5. Starter'
    BY <1>a, <1>t DEF RInv, StartRead, Return, RcuGoto, shared, lists, Starter, RcuType
  <1>6. Closer'
    BY <1>a, <1>t DEF RInv, StartRead, Return, RcuGoto, shared, lists, Closer, Closing, RcuType
  <1>7. Closed'
    BY <1>a, <1>t DEF RInv, StartRead, Return, RcuGoto, shared, lists, Closed, RcuType
  <1>8. Noticed'
    BY <1>a, <1>t DEF RInv, StartRead, Return, RcuGoto, shared, lists, Noticed, RcuType
  <1>9. Waiting'
    BY <1>a, <1>t DEF RInv, StartRead, Return, RcuGoto, shared, lists, Waiting, RcuType
  <1>10. Joining'
    BY <1>a, <1>t DEF RInv, StartRead, Return, RcuGoto, shared, lists, Joining, RcuType
  <1> QED BY <1>1, <1>2, <1>3, <1>4, <1>5, <1>6, <1>7, <1>8, <1>9, <1>10 DEF RInv, CountExact

\* A flag is set once, and one CPU completes the pair.
LEMMA StartCasInv ==
    ASSUME RInv, NEW c \in RcuCpu, StartCas(c)
    PROVE  RInv'
  <1>t. RcuType
    BY DEF RInv, CountExact
  <1>n. CMP # PND
    BY DEF CMP, PND
  <1>b. state \in 0 .. Words - 1 /\ Batch(state) \in 0 .. Batches - 1
    BY <1>t, WordParts DEF RcuType
  <1>u. UNCHANGED <<count, lBatch, next, curr, done, cBatch, hazard, owes>>
    BY DEF StartCas, lists
  <1>p. state = v[c] => ~Has(state, s[c]) /\ s[c] \in {CMP, PND}
    BY <1>t DEF RInv, Starter, StartCas, RcuType
  <1>s. state = v[c] => /\ state' = state + s[c] /\ state' \in 0 .. Words - 1
                        /\ Batch(state') = Batch(state)
                        /\ s[c] = CMP => Has(state', CMP)
                        /\ s[c] = PND => (Has(state', CMP) <=> Has(state, CMP))
                        /\ Flags(state) # 3
                        /\ Flags(state) = Other(s[c]) => Flags(state') = 3 /\ Has(state, Other(s[c]))
    BY <1>b, <1>p, SetFlag DEF StartCas
  <1>e. state # v[c] => state' = state /\ UNCHANGED <<s, v>> /\ rpc' = [rpc EXCEPT ![c] = "read"]
    BY DEF StartCas, RcuGoto
  <1>z. state = v[c] =>
          \/ Flags(state) = Other(s[c]) /\ UNCHANGED <<s, v>> /\ rpc' = [rpc EXCEPT ![c] = "count"]
          \/ Flags(state) # Other(s[c]) /\ Return(c)
    BY DEF StartCas, RcuGoto
  <1>g. Batch(state') = Batch(state)
    BY <1>s, <1>e
  <1>a. Late' = Late
    BY <1>g, <1>u DEF Late
  <1>1. RcuType'
    <2>1. state' \in 0 .. Words - 1
      BY <1>b, <1>s, <1>e
    <2>2. s' \in [RcuCpu -> {CMP, PND}]
      BY <1>t, <1>e, <1>z DEF Return, RcuType
    <2>3. v' \in [RcuCpu -> 0 .. Words - 1]
      BY <1>t, <1>e, <1>z, WordSize DEF Return, RcuType
    <2>4. rpc' \in [RcuCpu -> {"run", "lists", "read", "cas", "count", "load", "store", "invoke"}]
      BY <1>t, <1>e, <1>z DEF Return, RcuGoto, RcuType
    <2> QED BY <1>t, <1>u, <2>1, <2>2, <2>3, <2>4 DEF RcuType
  <1>2. ((\E d \in RcuCpu : Starting(d)) \/ count = Cardinality(Late))'
    <2>1. \A d \in RcuCpu : Starting(d) => Starting(d)'
      BY <1>t, <1>e, <1>z DEF StartCas, Return, RcuGoto, Starting, RcuType
    <2> QED BY <1>a, <1>u, <2>1 DEF RInv, CountExact
  <1>3. OneStarter'
    <2>1. CASE state = v[c]
      <3>1. \A d \in RcuCpu : ~Starting(d)
        BY <1>s, <2>1, Z3 DEF RInv, OneStarter, CMP, PND
      <3>2. \A d \in RcuCpu : Starting(d)' => d = c /\ Flags(state') = 3 /\ rpc'[d] = "count"
        BY <1>s, <1>z, <1>t, <2>1, <3>1 DEF Starting, Return, RcuGoto, RcuType
      <3> QED BY <3>2, Z3 DEF OneStarter, Starting, CMP, PND
    <2>2. CASE state # v[c]
      BY <1>t, <1>e, <2>2 DEF RInv, OneStarter, Starting, RcuType
    <2> QED BY <2>1, <2>2
  <1>4. GracePeriod'
    BY <1>u DEF RInv, GracePeriod
  <1>5. Starter'
    <2> SUFFICES ASSUME NEW d \in RcuCpu
                 PROVE  (/\ rpc[d] \in {"load", "store"} => count = Cardinality(RcuCpu)
                         /\ rpc[d] = "cas" => ~Has(v[d], s[d]))'
      BY DEF Starter
    <2>1. CASE d = c
      <3>1. rpc'[c] \notin {"load", "store", "cas"}
        BY <1>t, <1>e, <1>z DEF Return, RcuGoto, RcuType
      <3> QED BY <2>1, <3>1
    <2>2. CASE d # c
      <3>1. rpc'[d] = rpc[d] /\ v'[d] = v[d] /\ s'[d] = s[d]
        BY <1>t, <1>e, <1>z, <2>2 DEF Return, RcuGoto, RcuType
      <3> QED BY <1>u, <3>1 DEF RInv, Starter
    <2> QED BY <2>1, <2>2
  <1>6. Closer'
    <2> SUFFICES ASSUME NEW d \in RcuCpu, Closing(d)'
                 PROVE  (/\ ~Has(state, CMP) /\ Late = {}
                         /\ \A f \in RcuCpu \ {d} : ~Closing(f))'
      BY DEF Closer
    <2>1. \A f \in RcuCpu : Closing(f)' => Closing(f)
      BY <1>t, <1>e, <1>z DEF StartCas, Return, RcuGoto, RcuType, Closing
    <2>2. Late = {} /\ ~Has(state, CMP) /\ \A f \in RcuCpu \ {d} : ~Closing(f)
      BY <2>1 DEF RInv, Closer
    <2>3. state = v[c] => d # c
      BY <1>t, <1>z DEF Return, RcuGoto, RcuType, Closing
    <2>4. state = v[c] => s[c] = PND
      BY <1>p, <2>2, <2>3 DEF Closing, StartCas
    <2> QED BY <1>a, <1>s, <1>e, <2>1, <2>2, <2>4
  <1>7. Closed'
    <2>1. CASE state = v[c] /\ s[c] = CMP
      <3>1. Closing(c)
        BY <2>1 DEF Closing, StartCas
      <3> QED BY <1>a, <3>1 DEF RInv, Closer, Closed
    <2>2. CASE state = v[c] /\ s[c] = PND
      BY <1>a, <1>s, <2>2 DEF RInv, Closed
    <2>3. CASE state # v[c]
      BY <1>a, <1>e, <2>3 DEF RInv, Closed
    <2> QED BY <1>p, <2>1, <2>2, <2>3
  <1>8. Noticed'
    BY <1>g, <1>u DEF RInv, Noticed
  <1>9. Waiting'
    <2>1. \A d \in RcuCpu : rpc[d] = "lists" => rpc'[d] = "lists"
      BY <1>t, <1>e, <1>z DEF StartCas, Return, RcuGoto, RcuType
    <2> QED BY <1>a, <1>g, <1>u, <2>1 DEF RInv, Waiting
  <1>10. Joining'
    <2>1. \A d \in RcuCpu : rpc'[d] = "lists" => rpc[d] = "lists"
      BY <1>t, <1>e, <1>z DEF StartCas, Return, RcuGoto, RcuType
    <2> QED BY <1>a, <1>g, <1>u, <2>1 DEF RInv, Joining
  <1> QED BY <1>1, <1>2, <1>3, <1>4, <1>5, <1>6, <1>7, <1>8, <1>9, <1>10 DEF RInv, CountExact

\* The starter fills the counter while nobody is late.
LEMMA StartCountInv ==
    ASSUME RInv, NEW c \in RcuCpu, StartCount(c)
    PROVE  RInv'
  <1>t. RcuType
    BY DEF RInv, CountExact
  <1>n. CMP # PND
    BY DEF CMP, PND
  <1>b. state \in 0 .. Words - 1 /\ Batch(state) \in 0 .. Batches - 1
    BY <1>t, WordParts DEF RcuType
  <1>a. Late' = Late /\ state' = state
    BY DEF StartCount, Late, shared, lists
  <1>1. RcuType'
    BY <1>t, CpuSets DEF StartCount, RcuGoto, RcuType, lists
  <1>2. ((\E d \in RcuCpu : Starting(d)) \/ count = Cardinality(Late))'
    BY <1>a, <1>t DEF RInv, StartCount, RcuGoto, shared, lists, CountExact, Starting, RcuType
  <1>3. OneStarter'
    BY <1>a, <1>t DEF RInv, StartCount, RcuGoto, shared, lists, OneStarter, Starting, RcuType
  <1>4. GracePeriod'
    BY <1>a, <1>t DEF RInv, StartCount, RcuGoto, shared, lists, GracePeriod, RcuType
  <1>5. Starter'
    BY <1>a, <1>t DEF RInv, StartCount, RcuGoto, shared, lists, Starter, RcuType
  <1>6. Closer'
    BY <1>a, <1>t DEF RInv, StartCount, RcuGoto, shared, lists, Closer, Closing, RcuType
  <1>7. Closed'
    BY <1>a, <1>t DEF RInv, StartCount, RcuGoto, shared, lists, Closed, RcuType
  <1>8. Noticed'
    BY <1>a, <1>t DEF RInv, StartCount, RcuGoto, shared, lists, Noticed, RcuType
  <1>9. Waiting'
    BY <1>a, <1>t DEF RInv, StartCount, RcuGoto, shared, lists, Waiting, RcuType
  <1>10. Joining'
    BY <1>a, <1>t DEF RInv, StartCount, RcuGoto, shared, lists, Joining, RcuType
  <1> QED BY <1>1, <1>2, <1>3, <1>4, <1>5, <1>6, <1>7, <1>8, <1>9, <1>10 DEF RInv, CountExact

\* The starter loads the word.
LEMMA StartLoadInv ==
    ASSUME RInv, NEW c \in RcuCpu, StartLoad(c)
    PROVE  RInv'
  <1>t. RcuType
    BY DEF RInv, CountExact
  <1>a. Late' = Late /\ state' = state
    BY DEF StartLoad, Late, shared, lists
  <1>1. RcuType'
    BY <1>a, <1>t DEF RInv, StartLoad, RcuGoto, shared, lists, RcuType
  <1>2. ((\E d \in RcuCpu : Starting(d)) \/ count = Cardinality(Late))'
    BY <1>a, <1>t DEF RInv, StartLoad, RcuGoto, shared, lists, CountExact, Starting, RcuType
  <1>3. OneStarter'
    BY <1>a, <1>t DEF RInv, StartLoad, RcuGoto, shared, lists, OneStarter, Starting, RcuType
  <1>4. GracePeriod'
    BY <1>a, <1>t DEF RInv, StartLoad, RcuGoto, shared, lists, GracePeriod, RcuType
  <1>5. Starter'
    BY <1>a, <1>t DEF RInv, StartLoad, RcuGoto, shared, lists, Starter, RcuType
  <1>6. Closer'
    BY <1>a, <1>t DEF RInv, StartLoad, RcuGoto, shared, lists, Closer, Closing, RcuType
  <1>7. Closed'
    BY <1>a, <1>t DEF RInv, StartLoad, RcuGoto, shared, lists, Closed, RcuType
  <1>8. Noticed'
    BY <1>a, <1>t DEF RInv, StartLoad, RcuGoto, shared, lists, Noticed, RcuType
  <1>9. Waiting'
    BY <1>a, <1>t DEF RInv, StartLoad, RcuGoto, shared, lists, Waiting, RcuType
  <1>10. Joining'
    BY <1>a, <1>t DEF RInv, StartLoad, RcuGoto, shared, lists, Joining, RcuType
  <1> QED BY <1>1, <1>2, <1>3, <1>4, <1>5, <1>6, <1>7, <1>8, <1>9, <1>10 DEF RInv, CountExact

\* The starter stores the next batch, for which everybody is late.
LEMMA StartStoreInv ==
    ASSUME RInv, NEW c \in RcuCpu, StartStore(c)
    PROVE  RInv'
  <1>t. RcuType
    BY DEF RInv, CountExact
  <1>n. CMP # PND
    BY DEF CMP, PND
  <1>b. state \in 0 .. Words - 1 /\ Batch(state) \in 0 .. Batches - 1
    BY <1>t, WordParts DEF RcuType
  <1>u. UNCHANGED <<count, lBatch, next, curr, done, cBatch, hazard, owes>>
    BY DEF StartStore, lists
  <1>p. /\ Flags(state) = 3 /\ v[c] = state /\ count = Cardinality(RcuCpu)
        /\ \A d \in RcuCpu \ {c} : ~Starting(d)
    BY Z3 DEF RInv, OneStarter, Starter, Starting, StartStore, CMP, PND
  <1>l. Has(state, CMP) /\ Late = {}
    BY <1>b, <1>p, WordParts DEF RInv, Closed
  <1>s. /\ state' \in 0 .. Words - 1 /\ Batch(state') = Succ(Batch(state))
        /\ Flags(state') = 0 /\ ~Has(state', CMP)
    BY <1>b, <1>p, NextWord DEF StartStore
  <1>o. /\ \A d \in RcuCpu : lBatch[d] = Batch(state) /\ ~hazard[d]
        /\ \A d \in RcuCpu : lBatch'[d] # Batch(state')
        /\ Pred(Batch(state')) = Batch(state)
    BY <1>b, <1>l, <1>s, <1>u, Neighbours DEF Late
  <1>a. Late' = RcuCpu
    BY <1>o DEF Late
  <1>d. \A d \in RcuCpu \ {c} : rpc'[d] = rpc[d] /\ s'[d] = s[d] /\ v'[d] = v[d]
    BY <1>t DEF StartStore, Return, RcuGoto, RcuType
  <1>e. rpc'[c] \in {"invoke", "run"}
    BY <1>t DEF StartStore, Return, RcuGoto, RcuType
  <1>1. RcuType'
    <2>2. s' \in [RcuCpu -> {CMP, PND}]
      BY <1>t DEF StartStore, Return, RcuType
    <2>3. v' \in [RcuCpu -> 0 .. Words - 1]
      BY <1>t, WordSize DEF StartStore, Return, RcuType
    <2>4. rpc' \in [RcuCpu -> {"run", "lists", "read", "cas", "count", "load", "store", "invoke"}]
      BY <1>t DEF StartStore, Return, RcuGoto, RcuType
    <2> QED BY <1>t, <1>u, <1>s, <2>2, <2>3, <2>4 DEF RcuType
  <1>2. ((\E d \in RcuCpu : Starting(d)) \/ count = Cardinality(Late))'
    BY <1>a, <1>p, <1>u
  <1>3. OneStarter'
    BY <1>d, <1>e, <1>p DEF OneStarter, Starting
  <1>4. GracePeriod'
    BY <1>u DEF RInv, GracePeriod
  <1>5. Starter'
    BY <1>u, <1>d, <1>e DEF RInv, Starter
  <1>6. Closer'
    <2>1. \A d \in RcuCpu : ~Closing(d)
      BY <1>l DEF RInv, Closer
    <2>2. \A d \in RcuCpu : ~Closing(d)'
      BY <2>1, <1>d, <1>e DEF Closing
    <2> QED BY <2>2 DEF Closer
  <1>7. Closed'
    BY <1>s DEF Closed
  <1>8. Noticed'
    BY <1>o, <1>u DEF RInv, Noticed
  <1>9. Waiting'
    <2> SUFFICES ASSUME NEW d \in RcuCpu, curr[d] # {}
                 PROVE  \/ /\ Is(cBatch[d], Batch(state'))
                           /\ \A e \in curr[d] : owes[e] \subseteq RcuCpu
                        \/ /\ Is(cBatch[d], Pred(Batch(state')))
                           /\ \A e \in curr[d] : owes[e] = {}
      BY <1>a, <1>u, <1>o DEF Waiting
    <2>1. curr[d] \subseteq Elem /\ \A e \in Elem : owes[e] \subseteq RcuCpu
      BY <1>t DEF RcuType
    <2> QED BY <1>l, <1>o, <1>s, <2>1 DEF RInv, Waiting
  <1>10. Joining'
    <2>1. \A d \in RcuCpu : next[d] \subseteq Elem /\ \A e \in Elem : owes[e] \subseteq RcuCpu
      BY <1>t DEF RcuType
    <2> QED BY <1>a, <1>u, <2>1 DEF Joining
  <1> QED BY <1>1, <1>2, <1>3, <1>4, <1>5, <1>6, <1>7, <1>8, <1>9, <1>10 DEF RInv, CountExact

\* RcuSafe holds in every reachable state: no callback is invoked before all
\* CPUs went through a quiescent state, the counter that start_batch() and
\* quiet() share without a lock is exact, and one CPU starts a batch.
THEOREM RcuIsSafe == RcuSpec => []RcuSafe
  <1>1. RcuInit => RInv
    <2> SUFFICES ASSUME RcuInit PROVE RInv
      OBVIOUS
    <2>1. state \in 0 .. Words - 1 /\ Batch(state) = 0 /\ Flags(state) = 1 /\ 0 \in 0 .. Batches - 1
      <3>1. 0 \in 0 .. Batches - 1 /\ 1 \in 0 .. 3 /\ state = 4 * 0 + 1
        BY WordSize DEF RcuInit, CMP
      <3> QED BY <3>1, WordOf
    <2>2. Late = {}
      BY <2>1 DEF RcuInit, Late
    <2>3. Cardinality(Late) = 0
      BY <2>2, FS_EmptySet
    <2>4. RcuType
      BY <2>1, CpuSets, WordSize DEF RcuInit, RcuType, Batches
    <2>5. CountExact
      BY <2>3, <2>4 DEF RcuInit, CountExact
    <2>6. OneStarter /\ Starter /\ Closer
      BY DEF RcuInit, OneStarter, Starter, Closer, Starting, Closing
    <2>7. GracePeriod /\ Closed /\ Noticed /\ Waiting /\ Joining
      BY <2>1, <2>2 DEF RcuInit, GracePeriod, Closed, Noticed, Waiting, Joining
    <2> QED BY <2>5, <2>6, <2>7 DEF RInv
  <1>2. RInv /\ [RcuNext]_rcuVars => RInv'
    <2> SUFFICES ASSUME RInv, [RcuNext]_rcuVars PROVE RInv'
      OBVIOUS
    <2>1. CASE UNCHANGED rcuVars
      BY <2>1 DEF rcuVars, RInv, CountExact, OneStarter, GracePeriod, Starter, Closer, Closed,
                  Noticed, Waiting, Joining, RcuType, Late, Starting, Closing
    <2>2. ASSUME NEW c \in RcuCpu, NEW e \in Elem, Call(c, e) PROVE RInv'
      BY <2>2, CallInv
    <2>3. ASSUME NEW c \in RcuCpu, UpdateBatch(c) PROVE RInv'
      BY <2>3, UpdateBatchInv
    <2>4. ASSUME NEW c \in RcuCpu, Quiet(c) PROVE RInv'
      BY <2>4, QuietInv
    <2>5. ASSUME NEW c \in RcuCpu, UpdateLists(c) PROVE RInv'
      BY <2>5, UpdateListsInv
    <2>6. ASSUME NEW c \in RcuCpu, InvokeBatch(c) PROVE RInv'
      BY <2>6, InvokeBatchInv
    <2>7. ASSUME NEW c \in RcuCpu, StartBatch(c) PROVE RInv'
      BY <2>7, StartReadInv, StartCasInv, StartCountInv, StartLoadInv, StartStoreInv DEF StartBatch
    <2> QED BY <2>1, <2>2, <2>3, <2>4, <2>5, <2>6, <2>7 DEF RcuNext, Inside
  <1>3. RInv => RcuSafe
    BY DEF RInv, RcuSafe
  <1> QED BY <1>1, <1>2, <1>3, PTL DEF RcuSpec

-----------------------------------------------------------------------------
(* Recalls.                                                                *)

\* The modes in which a CPU executes a recall.
Recalling == {"look", "count", "send", "wait"}

\* A CPU executes a recall of another CPU's EC in these modes and in no other,
\* a strong one where it counts and waits; the current EC belongs to its CPU;
\* the bookkeeping about a recall ends with it.
JobsMatch ==
    \A c \in RecCpus :
        /\ RecHome[rcur[c]] = c
        /\ rmode[c] \in {"count", "wait"} => rjob[c].strong
        /\ rmode[c] \notin Recalling => ~rjob[c].strong /\ c \notin rserved
        /\ c \in rmoved => rmode[c] \in {"send", "wait"}

\* The hazard of a strong recall stays set until the EC has sent its event.
HazardKept ==
    \A c \in RecCpus : rjob[c].strong /\ c \notin rserved => rjob[c].ec \in rhaz

\* When the counter has moved, the EC has entered the kernel and has not
\* left it since, except to send its event.
MovedMeansStopped ==
    \A c \in RecCpus :
        c \in rmoved /\ rjob[c].strong /\ c \notin rserved => ~RecRuns(RecTarget(c), rjob[c].ec)

RecInv == RecallType /\ rserved \subseteq RecCpus /\ JobsMatch /\ HazardKept /\ MovedMeansStopped
          /\ StrongHolds /\ RecallNoticed

-----------------------------------------------------------------------------
\* A CPU that executes no recall has a job all the same, and it is a weak one.
LEMMA NoRecallType == ASSUME NEW c \in RecCpus PROVE NoRecall \in RecJobs /\ ~NoRecall.strong
<1>1. \E e \in RecEcs : TRUE
  BY RecallAssumption
<1> QED
  BY <1>1 DEF NoRecall, RecJobs

\* The initial states satisfy the invariant: no recall is under way.
LEMMA RecallInitInv == RecallInit => RecInv
<1> SUFFICES ASSUME RecallInit PROVE RecInv
  OBVIOUS
<1>1. RecallType
  BY NoRecallType DEF RecallInit, RecallType, RecModes
<1> QED
  BY <1>1, NoRecallType DEF RecallInit, RecInv, JobsMatch, HazardKept, MovedMeansStopped,
     StrongHolds, RecallNoticed, RecRuns, Recalling

\* Reading the current EC of the other CPU: a recall that ends here found the EC
\* not current, and an EC runs on no CPU but its own.
LEMMA RecLookInv == ASSUME RecInv, NEW c \in RecCpus, RecLook(c) PROVE RecInv'
<1> USE NoRecallType, RecallAssumption DEF RecInv
<1>1. RecallType' /\ (rserved \subseteq RecCpus)'
  <2>1. rowed' \subseteq rhaz'
    BY DEF HazardKept, RecallType, RecLook, RecFinish
  <2>2. rjob' \in [RecCpus -> RecJobs]
    BY DEF RecallType, RecLook, RecFinish
  <2> QED
    BY <2>1, <2>2 DEF RecallType, RecModes, RecJobs, RecLook, RecFinish, RecGoto, RecTarget
<1>2. JobsMatch'
  BY DEF JobsMatch, Recalling, RecallType, RecJobs, RecLook, RecFinish, RecGoto, RecTarget
<1>3. HazardKept'
  BY SMTT(30) DEF HazardKept, JobsMatch, Recalling, RecallType, RecJobs, RecLook, RecFinish, RecGoto, RecTarget
<1>4. MovedMeansStopped'
  BY DEF MovedMeansStopped, HazardKept, JobsMatch, Recalling, RecRuns, RecTarget, RecallType, RecJobs, RecLook, RecFinish, RecGoto, RecTarget
<1>5. StrongHolds'
  BY DEF StrongHolds, MovedMeansStopped, HazardKept, JobsMatch, Recalling, RecRuns, RecTarget, RecallType, RecJobs, RecLook, RecFinish, RecGoto, RecTarget
<1>6. RecallNoticed'
  <2> SUFFICES ASSUME NEW d \in RecCpus, NEW f \in rhaz', RecRuns(d, f)'
               PROVE  (d \in rrke \/ \E x \in RecCpus : rmode[x] \in {"look", "count", "send"} /\ rjob[x].ec = f)'
    BY DEF RecallNoticed
  <2>1. d # c /\ RecRuns(d, f) /\ f \in rhaz /\ RecHome[f] = d
    BY DEF JobsMatch, RecallType, RecJobs, RecRuns, RecLook, RecFinish, RecGoto
  <2>2. CASE d \in rrke
    BY <2>2 DEF RecLook
  <2>3. ASSUME NEW x \in RecCpus, rmode[x] \in {"look", "count", "send"}, rjob[x].ec = f
        PROVE  rmode'[x] \in {"look", "count", "send"} /\ rjob'[x].ec = f
    <3>1. CASE x = c
      BY <2>1, <2>3, <3>1 DEF RecTarget, RecallType, RecJobs, RecRuns, RecLook, RecFinish, RecGoto
    <3>2. CASE x # c
      BY <2>3, <3>2 DEF RecallType, RecJobs, RecRuns, RecLook, RecFinish, RecGoto
    <3> QED
      BY <3>1, <3>2
  <2> QED
    BY <2>1, <2>2, <2>3 DEF RecallNoticed
<1> QED
  BY <1>1, <1>2, <1>3, <1>4, <1>5, <1>6

\* Reading the counter of IPIs forgets what moved it before.
LEMMA RecCountInv == ASSUME RecInv, NEW c \in RecCpus, RecCount(c) PROVE RecInv'
<1> USE NoRecallType, RecallAssumption DEF RecInv
<1>1. RecallType' /\ (rserved \subseteq RecCpus)'
  BY DEF RecallType, RecModes, RecJobs, RecCount, RecGoto
<1>2. JobsMatch'
  BY DEF JobsMatch, Recalling, RecallType, RecJobs, RecCount, RecGoto
<1>3. HazardKept'
  BY DEF HazardKept, JobsMatch, Recalling, RecallType, RecJobs, RecCount, RecGoto
<1>4. MovedMeansStopped'
  <2>1. c \notin rmoved' /\ UNCHANGED <<rcur, rjob, rserved>>
    BY DEF RecCount
  <2>2. ASSUME NEW d \in RecCpus, d \in rmoved' PROVE d # c /\ d \in rmoved
    BY <2>1, <2>2 DEF RecCount
  <2>3. \A d \in RecCpus : rmode'[d] = IF d = c THEN "send" ELSE rmode[d]
    BY DEF RecCount, RecGoto, RecallType
  <2>4. \A d \in RecCpus : \A e : RecRuns(d, e)' => RecRuns(d, e)
    BY <2>1, <2>3 DEF RecRuns
  <2>5. \A d \in RecCpus : RecTarget(d)' = RecTarget(d) /\ RecTarget(d) \in RecCpus
    BY <2>1 DEF RecTarget, RecallType, RecJobs
  <2> QED
    BY <2>1, <2>2, <2>4, <2>5 DEF MovedMeansStopped
<1>5. StrongHolds'
  BY DEF StrongHolds, MovedMeansStopped, HazardKept, JobsMatch, Recalling, RecRuns, RecTarget, RecallType, RecJobs, RecCount, RecGoto
<1>6. RecallNoticed'
  BY DEF RecallNoticed, JobsMatch, Recalling, RecRuns, RecallType, RecJobs, RecCount, RecGoto
<1> QED
  BY <1>1, <1>2, <1>3, <1>4, <1>5, <1>6

\* Sending the IPI hands the recall over to the pending interrupt.
LEMMA RecSendInv == ASSUME RecInv, NEW c \in RecCpus, RecSend(c) PROVE RecInv'
<1> USE NoRecallType, RecallAssumption DEF RecInv
<1>1. RecallType' /\ (rserved \subseteq RecCpus)'
  <2>1. rowed' \subseteq rhaz'
    BY DEF HazardKept, RecallType, RecSend, RecFinish
  <2>2. rjob' \in [RecCpus -> RecJobs]
    BY DEF RecallType, RecSend, RecFinish
  <2>3. rmode' \in [RecCpus -> RecModes]
    BY DEF RecallType, RecModes, RecSend, RecFinish, RecGoto
  <2>4. RecTarget(c) \in RecCpus
    BY DEF RecTarget, RecallType, RecJobs
  <2> QED
    BY <2>1, <2>2, <2>3, <2>4 DEF RecallType, RecSend, RecFinish
<1>2. JobsMatch'
  BY SMTT(30) DEF JobsMatch, Recalling, RecallType, RecJobs, RecSend, RecFinish, RecGoto, RecTarget
<1>3. HazardKept'
  <2>1. \A d \in RecCpus \ {c} : rjob'[d] = rjob[d] /\ (d \in rserved' <=> d \in rserved)
    BY DEF RecSend, RecFinish, RecallType
  <2>2. (rjob'[c] = rjob[c] /\ rserved' = rserved) \/ ~rjob'[c].strong
    BY DEF RecSend, RecFinish, RecallType
  <2>3. rhaz' = rhaz
    BY DEF RecSend
  <2> QED
    BY <2>1, <2>2, <2>3 DEF HazardKept
<1>4. MovedMeansStopped'
  BY DEF MovedMeansStopped, HazardKept, JobsMatch, Recalling, RecRuns, RecTarget, RecallType, RecJobs, RecSend, RecFinish, RecGoto, RecTarget
<1>5. StrongHolds'
  BY DEF StrongHolds, MovedMeansStopped, HazardKept, JobsMatch, Recalling, RecRuns, RecTarget, RecallType, RecJobs, RecSend, RecFinish, RecGoto, RecTarget
<1>6. RecallNoticed'
  BY SMTT(30) DEF RecallNoticed, JobsMatch, Recalling, RecRuns, RecallType, RecJobs, RecSend, RecFinish, RecGoto, RecTarget
<1> QED
  BY <1>1, <1>2, <1>3, <1>4, <1>5, <1>6

\* The wait ends: MovedMeansStopped is what the caller relies on from now on.
LEMMA RecWaitInv == ASSUME RecInv, NEW c \in RecCpus, RecWait(c) PROVE RecInv'
<1> USE NoRecallType, RecallAssumption DEF RecInv
<1>1. RecallType' /\ (rserved \subseteq RecCpus)'
  BY DEF HazardKept, RecallType, RecModes, RecJobs, RecWait, RecFinish, RecGoto
<1>2. JobsMatch'
  BY DEF JobsMatch, Recalling, RecallType, RecJobs, RecWait, RecFinish, RecGoto
<1>3. HazardKept'
  BY DEF HazardKept, JobsMatch, Recalling, RecallType, RecJobs, RecWait, RecFinish, RecGoto
<1>4. MovedMeansStopped'
  BY DEF MovedMeansStopped, HazardKept, JobsMatch, Recalling, RecRuns, RecTarget, RecallType, RecJobs, RecWait, RecFinish, RecGoto
<1>5. StrongHolds'
  <2> SUFFICES ASSUME NEW d \in RecCpus, NEW f \in rowed', RecRuns(d, f)'
               PROVE  FALSE
    BY DEF StrongHolds
  <2>1. d # c /\ RecRuns(d, f) /\ RecHome[f] = d
    BY DEF JobsMatch, RecallType, RecRuns, RecWait, RecFinish, RecGoto
  <2>2. f \in rowed \/ (f = rjob[c].ec /\ rjob[c].strong /\ c \notin rserved /\ c \in rmoved)
    BY DEF RecWait, RecFinish
  <2> QED
    BY <2>1, <2>2 DEF StrongHolds, MovedMeansStopped, RecTarget
<1>6. RecallNoticed'
  BY DEF RecallNoticed, JobsMatch, Recalling, RecRuns, RecallType, RecJobs, RecWait, RecFinish, RecGoto
<1> QED
  BY <1>1, <1>2, <1>3, <1>4, <1>5, <1>6

\* The IPI takes the CPU out of user mode; a CPU about to leave the kernel is not
\* interruptible.
LEMMA HandleRkeInv == ASSUME RecInv, NEW c \in RecCpus, HandleRke(c) PROVE RecInv'
<1> USE NoRecallType, RecallAssumption DEF RecInv
<1>1. RecallType' /\ (rserved \subseteq RecCpus)'
  BY DEF RecallType, RecModes, RecJobs, HandleRke, RecGoto, RecTarget, RecEnabled
<1>2. JobsMatch'
  <2>1. UNCHANGED <<rcur, rjob, rserved>>
    BY DEF HandleRke
  <2>2. \A d \in RecCpus : rmode'[d] = rmode[d] \/ (d = c /\ rmode[d] = "user" /\ rmode'[d] = "kernel")
    BY DEF HandleRke, RecGoto, RecallType
  <2>3. \A d \in rmoved' : d \in rmoved \/ rmode[d] \in {"send", "wait"}
    BY DEF HandleRke
  <2> QED
    BY <2>1, <2>2, <2>3 DEF JobsMatch, Recalling
<1>3. HazardKept'
  BY DEF HazardKept, JobsMatch, Recalling, RecallType, RecJobs, HandleRke, RecGoto, RecTarget, RecEnabled
<1>4. MovedMeansStopped'
  BY DEF MovedMeansStopped, HazardKept, JobsMatch, Recalling, RecRuns, RecTarget, RecallType, RecJobs, HandleRke, RecGoto, RecTarget, RecEnabled
<1>5. StrongHolds'
  BY DEF StrongHolds, MovedMeansStopped, HazardKept, JobsMatch, Recalling, RecRuns, RecTarget, RecallType, RecJobs, HandleRke, RecGoto, RecTarget, RecEnabled
<1>6. RecallNoticed'
  BY SMTT(30) DEF RecallNoticed, JobsMatch, Recalling, RecRuns, RecallType, RecJobs, HandleRke, RecGoto, RecTarget, RecEnabled
<1> QED
  BY <1>1, <1>2, <1>3, <1>4, <1>5, <1>6

\* A timer interrupt takes the CPU out of user mode and touches no recall.
LEMMA RecPreemptInv == ASSUME RecInv, NEW c \in RecCpus, RecPreempt(c) PROVE RecInv'
<1> USE NoRecallType, RecallAssumption DEF RecInv
<1>1. RecallType' /\ (rserved \subseteq RecCpus)'
  BY DEF RecallType, RecModes, RecJobs, RecPreempt, RecGoto, RecEnabled
<1>2. JobsMatch'
  <2>1. UNCHANGED <<rcur, rjob, rserved>>
    BY DEF RecPreempt
  <2>2. \A d \in RecCpus : rmode'[d] = rmode[d] \/ (d = c /\ rmode[d] = "user" /\ rmode'[d] = "kernel")
    BY DEF RecPreempt, RecGoto, RecallType
  <2>3. \A d \in rmoved' : d \in rmoved \/ rmode[d] \in {"send", "wait"}
    BY DEF RecPreempt
  <2> QED
    BY <2>1, <2>2, <2>3 DEF JobsMatch, Recalling
<1>3. HazardKept'
  BY DEF HazardKept, JobsMatch, Recalling, RecallType, RecJobs, RecPreempt, RecGoto, RecEnabled
<1>4. MovedMeansStopped'
  BY DEF MovedMeansStopped, HazardKept, JobsMatch, Recalling, RecRuns, RecTarget, RecallType, RecJobs, RecPreempt, RecGoto, RecEnabled
<1>5. StrongHolds'
  BY DEF StrongHolds, MovedMeansStopped, HazardKept, JobsMatch, Recalling, RecRuns, RecTarget, RecallType, RecJobs, RecPreempt, RecGoto, RecEnabled
<1>6. RecallNoticed'
  <2> SUFFICES ASSUME NEW d \in RecCpus, NEW f \in rhaz', RecRuns(d, f)'
               PROVE  (d \in rrke \/ \E x \in RecCpus : rmode[x] \in {"look", "count", "send"} /\ rjob[x].ec = f)'
    BY DEF RecallNoticed
  <2>1. d # c /\ RecRuns(d, f) /\ f \in rhaz
    BY DEF RecallType, RecJobs, RecRuns, RecPreempt, RecGoto, RecEnabled
  <2>2. \A x \in RecCpus : rmode[x] \in {"look", "count", "send"} =>
            rmode'[x] = rmode[x] /\ rjob'[x] = rjob[x]
    BY DEF RecallType, RecJobs, RecRuns, RecPreempt, RecGoto, RecEnabled
  <2> QED
    BY <2>1, <2>2 DEF RecallNoticed, RecPreempt
<1> QED
  BY <1>1, <1>2, <1>3, <1>4, <1>5, <1>6

\* The EC enters the kernel by itself.
LEMMA RecTrapInv == ASSUME RecInv, NEW c \in RecCpus, RecTrap(c) PROVE RecInv'
<1> USE NoRecallType, RecallAssumption DEF RecInv
<1>1. RecallType' /\ (rserved \subseteq RecCpus)'
  BY DEF RecallType, RecModes, RecJobs, RecTrap, RecGoto
<1>2. JobsMatch'
  BY DEF JobsMatch, Recalling, RecallType, RecJobs, RecTrap, RecGoto
<1>3. HazardKept'
  BY DEF HazardKept, JobsMatch, Recalling, RecallType, RecJobs, RecTrap, RecGoto
<1>4. MovedMeansStopped'
  BY SMTT(30) DEF MovedMeansStopped, HazardKept, JobsMatch, Recalling, RecRuns, RecTarget, RecallType, RecJobs, RecTrap, RecGoto
<1>5. StrongHolds'
  BY DEF StrongHolds, MovedMeansStopped, HazardKept, JobsMatch, Recalling, RecRuns, RecTarget, RecallType, RecJobs, RecTrap, RecGoto
<1>6. RecallNoticed'
  BY SMTT(30) DEF RecallNoticed, JobsMatch, Recalling, RecRuns, RecallType, RecJobs, RecTrap, RecGoto
<1> QED
  BY <1>1, <1>2, <1>3, <1>4, <1>5, <1>6

\* An EC with a recall outstanding sees its hazard and does not leave the kernel.
LEMMA RecReturnInv == ASSUME RecInv, NEW c \in RecCpus, RecReturn(c) PROVE RecInv'
<1> USE NoRecallType, RecallAssumption DEF RecInv
<1>1. RecallType' /\ (rserved \subseteq RecCpus)'
  BY DEF RecallType, RecModes, RecJobs, RecReturn, RecGoto
<1>2. JobsMatch'
  BY DEF JobsMatch, Recalling, RecallType, RecJobs, RecReturn, RecGoto
<1>3. HazardKept'
  BY DEF HazardKept, JobsMatch, Recalling, RecallType, RecJobs, RecReturn, RecGoto
<1>4. MovedMeansStopped'
  <2> SUFFICES ASSUME NEW d \in RecCpus, d \in rmoved, rjob[d].strong, d \notin rserved,
                      RecRuns(RecTarget(d), rjob[d].ec)'
               PROVE  FALSE
    BY DEF MovedMeansStopped, RecReturn, RecTarget
  <2>1. rjob[d].ec \in rhaz /\ RecTarget(d) \in RecCpus
    BY DEF HazardKept, RecTarget, RecallType, RecJobs
  <2>2. CASE RecTarget(d) = c
    BY <2>1, <2>2 DEF RecRuns, RecReturn, RecGoto, RecallType, RecTarget
  <2>3. CASE RecTarget(d) # c
    BY <2>1, <2>3 DEF RecRuns, RecReturn, RecGoto, RecallType, RecTarget, MovedMeansStopped
  <2> QED
    BY <2>2, <2>3
<1>5. StrongHolds'
  BY DEF StrongHolds, MovedMeansStopped, HazardKept, JobsMatch, Recalling, RecRuns, RecTarget, RecallType, RecJobs, RecReturn, RecGoto
<1>6. RecallNoticed'
  BY DEF RecallNoticed, JobsMatch, Recalling, RecRuns, RecallType, RecJobs, RecReturn, RecGoto
<1> QED
  BY <1>1, <1>2, <1>3, <1>4, <1>5, <1>6

\* The EC is preempted, or sends its event and so serves every recall of it.
LEMMA HandleHazardInv == ASSUME RecInv, NEW c \in RecCpus, HandleHazard(c) PROVE RecInv'
<1> USE NoRecallType, RecallAssumption DEF RecInv
<1>1. RecallType' /\ (rserved \subseteq RecCpus)'
  <2>1. CASE c \in rsched
    <3>1. PICK e \in RecEcs : BecomeCurrent(c, e)
      BY <2>1 DEF HandleHazard
    <3>2. rmode' \in [RecCpus -> RecModes] /\ rcur' \in [RecCpus -> RecEcs]
      BY <3>1 DEF RecallType, RecModes, RecGoto, BecomeCurrent
    <3>3. UNCHANGED <<rhaz, rserved, rowed, rrke, rjob, rmoved>>
      BY <2>1 DEF HandleHazard
    <3> QED
      BY <3>1, <3>2, <3>3 DEF RecallType, BecomeCurrent
  <2>2. CASE c \notin rsched
    <3>1. rmode' \in [RecCpus -> RecModes] /\ rserved' \subseteq RecCpus
      BY <2>2 DEF RecallType, RecModes, HandleHazard, RecGoto, BecomeCurrent
    <3> QED
      BY <2>2, <3>1 DEF RecallType, HandleHazard, BecomeCurrent
  <2> QED
    BY <2>1, <2>2
<1>2. JobsMatch'
  BY DEF JobsMatch, Recalling, RecallType, RecJobs, HandleHazard, RecGoto, BecomeCurrent
<1>3. HazardKept'
  BY DEF HazardKept, JobsMatch, Recalling, RecallType, RecJobs, HandleHazard, RecGoto, BecomeCurrent
<1>4. MovedMeansStopped'
  BY DEF MovedMeansStopped, HazardKept, JobsMatch, Recalling, RecRuns, RecTarget, RecallType, RecJobs, HandleHazard, RecGoto, BecomeCurrent
<1>5. StrongHolds'
  BY SMTT(30) DEF StrongHolds, MovedMeansStopped, HazardKept, JobsMatch, Recalling, RecRuns, RecTarget, RecallType, RecJobs, HandleHazard, RecGoto, BecomeCurrent
<1>6. RecallNoticed'
  <2> SUFFICES ASSUME NEW d \in RecCpus, NEW f \in rhaz', RecRuns(d, f)'
               PROVE  (d \in rrke \/ \E x \in RecCpus : rmode[x] \in {"look", "count", "send"} /\ rjob[x].ec = f)'
    BY DEF RecallNoticed
  <2>1. d # c /\ RecRuns(d, f) /\ f \in rhaz
    BY DEF RecallType, RecJobs, RecRuns, HandleHazard, RecGoto, BecomeCurrent
  <2>2. \A x \in RecCpus : rmode[x] \in {"look", "count", "send"} =>
            rmode'[x] = rmode[x] /\ rjob'[x] = rjob[x]
    BY DEF RecallType, RecJobs, RecRuns, HandleHazard, RecGoto, BecomeCurrent
  <2> QED
    BY <2>1, <2>2 DEF RecallNoticed, HandleHazard
<1> QED
  BY <1>1, <1>2, <1>3, <1>4, <1>5, <1>6

\* The EC leaves the kernel: it counted as running already.
LEMMA RecLeaveInv == ASSUME RecInv, NEW c \in RecCpus, RecLeave(c) PROVE RecInv'
<1> USE NoRecallType, RecallAssumption DEF RecInv
<1>1. RecallType' /\ (rserved \subseteq RecCpus)'
  BY DEF RecallType, RecModes, RecJobs, RecLeave, RecGoto
<1>2. JobsMatch'
  BY DEF JobsMatch, Recalling, RecallType, RecJobs, RecLeave, RecGoto
<1>3. HazardKept'
  BY DEF HazardKept, JobsMatch, Recalling, RecallType, RecJobs, RecLeave, RecGoto
<1>4. MovedMeansStopped'
  <2>1. \A d \in RecCpus, f \in RecEcs : RecRuns(d, f)' <=> RecRuns(d, f)
    BY DEF RecRuns, RecallType, RecLeave, RecGoto
  <2>2. \A d \in RecCpus : rjob[d].ec \in RecEcs /\ RecTarget(d) \in RecCpus /\ RecTarget(d)' = RecTarget(d)
    BY DEF RecTarget, RecallType, RecJobs, RecLeave
  <2> QED
    BY <2>1, <2>2 DEF MovedMeansStopped, RecLeave
<1>5. StrongHolds'
  BY DEF StrongHolds, MovedMeansStopped, HazardKept, JobsMatch, Recalling, RecRuns, RecTarget, RecallType, RecJobs, RecLeave, RecGoto
<1>6. RecallNoticed'
  BY DEF RecallNoticed, JobsMatch, Recalling, RecRuns, RecallType, RecJobs, RecLeave, RecGoto
<1> QED
  BY <1>1, <1>2, <1>3, <1>4, <1>5, <1>6

\* Another EC of the same CPU becomes current, in the kernel.
LEMMA RecBlockInv == ASSUME RecInv, NEW c \in RecCpus, NEW e \in RecEcs, RecBlock(c, e) PROVE RecInv'
<1> USE NoRecallType, RecallAssumption DEF RecInv
<1>1. RecallType' /\ (rserved \subseteq RecCpus)'
  BY DEF RecallType, RecModes, RecJobs, RecBlock, RecGoto, BecomeCurrent
<1>2. JobsMatch'
  BY DEF JobsMatch, Recalling, RecallType, RecJobs, RecBlock, RecGoto, BecomeCurrent
<1>3. HazardKept'
  BY DEF HazardKept, JobsMatch, Recalling, RecallType, RecJobs, RecBlock, RecGoto, BecomeCurrent
<1>4. MovedMeansStopped'
  BY SMTT(30) DEF MovedMeansStopped, HazardKept, JobsMatch, Recalling, RecRuns, RecTarget, RecallType, RecJobs, RecBlock, RecGoto, BecomeCurrent
<1>5. StrongHolds'
  BY DEF StrongHolds, MovedMeansStopped, HazardKept, JobsMatch, Recalling, RecRuns, RecTarget, RecallType, RecJobs, RecBlock, RecGoto, BecomeCurrent
<1>6. RecallNoticed'
  BY DEF RecallNoticed, JobsMatch, Recalling, RecRuns, RecallType, RecJobs, RecBlock, RecGoto, BecomeCurrent
<1> QED
  BY <1>1, <1>2, <1>3, <1>4, <1>5, <1>6

\* A recall starts, or ends at once: an EC of the caller's own CPU is in the kernel,
\* and a weak recall of an EC with the hazard set leaves the IPI to another caller.
LEMMA SysCtrlEcInv ==
    ASSUME RecInv, NEW c \in RecCpus, NEW e \in RecEcs, NEW strong \in BOOLEAN, SysCtrlEc(c, e, strong)
    PROVE  RecInv'
<1> USE NoRecallType, RecallAssumption DEF RecInv
<1>0. ~rjob[c].strong /\ c \notin rserved /\ c \notin rmoved
  BY DEF SysCtrlEc, JobsMatch, Recalling
<1>1. RecallType' /\ (rserved \subseteq RecCpus)'
  <2>1. [ec |-> e, strong |-> strong] \in RecJobs
    BY DEF RecJobs
  <2> QED
    BY <2>1 DEF RecallType, RecModes, SysCtrlEc, RecFinish, RecGoto
<1>2. JobsMatch'
  BY DEF JobsMatch, Recalling, RecallType, RecJobs, SysCtrlEc, RecFinish, RecGoto
<1>3. HazardKept'
  <2> SUFFICES ASSUME NEW d \in RecCpus, rjob'[d].strong, d \notin rserved'
               PROVE  rjob'[d].ec \in rhaz'
    BY DEF HazardKept
  <2>1. CASE d = c
    BY <2>1 DEF RecallType, SysCtrlEc, RecFinish, RecGoto
  <2>2. CASE d # c
    BY <2>2 DEF HazardKept, RecallType, SysCtrlEc, RecFinish, RecGoto
  <2> QED
    BY <2>1, <2>2
<1>4. MovedMeansStopped'
  <2> SUFFICES ASSUME NEW d \in RecCpus, d \in rmoved', rjob'[d].strong, d \notin rserved',
                      RecRuns(RecTarget(d), rjob[d].ec)'
               PROVE  FALSE
    BY DEF MovedMeansStopped
  <2>1. d # c /\ d \in rmoved /\ rjob'[d] = rjob[d] /\ d \notin rserved
    BY <1>0 DEF RecallType, SysCtrlEc, RecFinish, RecGoto
  <2>2. RecTarget(d) \in RecCpus /\ RecTarget(d)' = RecTarget(d)
    BY <2>1 DEF RecTarget, RecallType, RecJobs
  <2>3. RecRuns(RecTarget(d), rjob[d].ec)
    BY <2>1, <2>2 DEF RecRuns, RecallType, SysCtrlEc, RecFinish, RecGoto
  <2> QED
    BY <2>1, <2>3 DEF MovedMeansStopped
<1>5. StrongHolds'
  BY DEF StrongHolds, MovedMeansStopped, HazardKept, JobsMatch, Recalling, RecRuns, RecTarget, RecallType, RecJobs, SysCtrlEc, RecFinish, RecGoto
<1>6. RecallNoticed'
  <2> SUFFICES ASSUME NEW d \in RecCpus, NEW f \in rhaz', RecRuns(d, f)'
               PROVE  (d \in rrke \/ \E x \in RecCpus : rmode[x] \in {"look", "count", "send"} /\ rjob[x].ec = f)'
    BY DEF RecallNoticed
  <2>1. d # c /\ RecRuns(d, f) /\ RecHome[f] = d
    BY DEF JobsMatch, RecallType, RecJobs, RecRuns, SysCtrlEc, RecFinish, RecGoto
  <2>2. \A x \in RecCpus : rmode[x] \in {"look", "count", "send"} =>
            rmode'[x] = rmode[x] /\ rjob'[x] = rjob[x]
    BY DEF RecallType, RecJobs, RecRuns, SysCtrlEc, RecFinish, RecGoto
  <2>3. CASE f \in rhaz
    BY <2>1, <2>2, <2>3 DEF RecallNoticed, SysCtrlEc
  <2>4. CASE f \notin rhaz
    <3>1. f = e /\ RecHome[e] # c
      BY <2>1, <2>4 DEF SysCtrlEc
    <3>2. rmode'[c] = "look" /\ rjob'[c].ec = e
      BY <2>4, <3>1 DEF RecallType, RecJobs, RecRuns, SysCtrlEc, RecFinish, RecGoto
    <3> QED
      BY <3>1, <3>2
  <2> QED
    BY <2>3, <2>4
<1> QED
  BY <1>1, <1>2, <1>3, <1>4, <1>5, <1>6

-----------------------------------------------------------------------------
\* Every step preserves the invariant.
LEMMA RecallNextInv == RecInv /\ [RecallNext]_recallVars => RecInv'
<1> SUFFICES ASSUME RecInv, [RecallNext]_recallVars PROVE RecInv'
  OBVIOUS
<1>1. CASE RecallNext
  BY <1>1, RecLookInv, RecCountInv, RecSendInv, RecWaitInv, HandleRkeInv, RecPreemptInv, RecTrapInv,
     RecReturnInv, HandleHazardInv, RecLeaveInv, RecBlockInv, SysCtrlEcInv DEF RecallNext
<1>2. CASE UNCHANGED recallVars
  BY <1>2 DEF recallVars, RecInv, RecallType, JobsMatch, HazardKept, MovedMeansStopped, StrongHolds,
     RecallNoticed, RecRuns, RecTarget
<1> QED
  BY <1>1, <1>2

\* A CPU that waits has interrupts enabled, so no circle of CPUs waiting for each
\* other (sys_ctrl_ec) is stuck.
LEMMA WaitersInterruptible == RecInv => NobodyStuck
<1> SUFFICES ASSUME RecInv, NEW S \in (SUBSET RecCpus) \ {{}},
                    \A c \in S : /\ rmode[c] = "wait" /\ c \notin rmoved
                                 /\ RecTarget(c) \in S /\ ~RecEnabled(RecTarget(c))
             PROVE  FALSE
  BY DEF NobodyStuck
<1>1. PICK c \in S : TRUE
  OBVIOUS
<1>2. RecTarget(c) \in S /\ ~RecEnabled(RecTarget(c)) /\ rmode[RecTarget(c)] = "wait"
  OBVIOUS
<1> QED
  BY <1>2 DEF RecInv, JobsMatch, RecEnabled

\* Recalls are exact (Ec::sys_ctrl_ec): an EC executes no user code between the
\* return of a strong recall and its RECALL event, no recall goes unnoticed by an
\* EC that runs, and callers that recall each other's ECs are never stuck.
THEOREM RecallsExact == RecallSpec => []RecallExact
<1>1. RecInv => RecallExact
  BY WaitersInterruptible DEF RecInv, RecallExact
<1> QED
  BY <1>1, RecallInitInv, RecallNextInv, PTL DEF RecallSpec
=============================================================================
