----------------------------- MODULE NovaProof -----------------------------
(***************************************************************************)
(* Proofs about the kernel core.  The inductive invariant is Inv, the      *)
(* conjunction of                                                          *)
(*   - TypeOK,                                                             *)
(*   - Control: which CPU an EC and an SC belongs to, and what the locals  *)
(*     of a function in progress can be,                                   *)
(*   - ScQueuedOnce and RunningNotQueued, the result, and                  *)
(*   - QueuedCreated: only an SC that exists is queued.                    *)
(***************************************************************************)
EXTENDS Nova, TLAPS

\* The functions entered by an interrupt or by up, and where they return to.
Handlers == {"requeue", "unblock_sc", "unblock_loop", "notify"}

Resumes == {"ret_user_hypercall", "ret_user_exception", "idle", "help"}

\* CPU c is at the preemption point of help, or will return to it.
AtHelp(c) == pc[c] = "help" \/ (pc[c] \in Handlers /\ ret[c] = "help")

CpuOK(c) ==
    /\ EcCpu[ec[c]] = c
    /\ ScCpu(cur[c]) = c
    /\ cur[c] \in created
    /\ pc[c] = "activate" =>
         /\ arg[c] \in ECs
         /\ EcCpu[arg[c]] = c
         /\ ret[c] \in {"pick", "schedule_blocked"}
    /\ pc[c] \in Handlers => ret[c] \in Resumes
    /\ pc[c] \in {"unblock_sc", "unblock_loop", "notify", "notify_created"} => arg[c] \in ECs
    /\ AtHelp(c) => want[ec[c]] \in ECs /\ EcCpu[want[ec[c]]] = c

\* Partners belong to the same CPU.
LinksOK ==
    \A e \in ECs :
        /\ callee[e] # NoEc => EcCpu[callee[e]] = EcCpu[e]
        /\ caller[e] # NoEc => EcCpu[caller[e]] = EcCpu[e]

Control == (\A c \in CPUs : CpuOK(c)) /\ LinksOK

\* What a step of CPU c leaves alone.
Frame(c) ==
    /\ \A d \in CPUs \ {c} :
         /\ pc'[d] = pc[d] /\ arg'[d] = arg[d] /\ ret'[d] = ret[d]
         /\ ec'[d] = ec[d] /\ cur'[d] = cur[d]
    /\ \A e \in ECs : EcCpu[e] # c => want'[e] = want[e]
    /\ created \subseteq created'

\* Where up and timeout are called, and where control continues.
UpFrom(c, r) ==
    \/ User(c) /\ r = "ret_user_hypercall"
    \/ Interruptible(c) /\ r = Resume(c)

QueuedCreated == \A s \in SCs : Queued(s) => s \in created

ScInv == ScQueuedOnce /\ RunningNotQueued /\ QueuedCreated

Inv == TypeOK /\ Control /\ ScInv

\* CPU c has put its current SC away and not yet chosen the next one.
Between(c) == pc[c] \in {"schedule_blocked", "pick"}
-----------------------------------------------------------------------------
(* Queues as sequences: what enqueue and dequeue do to the elements.       *)

\* Appending adds one element, and keeps a queue free of repetitions when the
\* element is new.
LEMMA ElemsAppend ==
    ASSUME NEW S, NEW q \in Seq(S), NEW x \in S
    PROVE  /\ Append(q, x) \in Seq(S)
           /\ Elems(Append(q, x)) = Elems(q) \cup {x}
           /\ Distinct(q) /\ x \notin Elems(q) => Distinct(Append(q, x))
  BY DEF Elems, Distinct

\* The same at the other end.
LEMMA ElemsPrepend ==
    ASSUME NEW S, NEW q \in Seq(S), NEW x \in S
    PROVE  /\ <<x>> \o q \in Seq(S)
           /\ Elems(<<x>> \o q) = Elems(q) \cup {x}
           /\ Distinct(q) /\ x \notin Elems(q) => Distinct(<<x>> \o q)
<1> DEFINE r == <<x>> \o q
<1>1. /\ r \in Seq(S)
      /\ Len(r) = Len(q) + 1
      /\ r[1] = x
      /\ \A i \in 1 .. Len(q) : r[i + 1] = q[i]
  OBVIOUS
<1>2. \A i \in 1 .. Len(r) : i = 1 \/ (i - 1 \in 1 .. Len(q) /\ r[i] = q[i - 1])
  BY <1>1
<1> HIDE DEF r
<1>3. Elems(r) = Elems(q) \cup {x}
  <2>1. ASSUME NEW i \in 1 .. Len(r) PROVE r[i] \in Elems(q) \cup {x}
    <3>1. CASE i = 1
      BY <3>1, <1>1
    <3>2. CASE i - 1 \in 1 .. Len(q) /\ r[i] = q[i - 1]
      BY <3>2 DEF Elems
    <3> QED BY <3>1, <3>2, <1>2
  <2>2. x \in Elems(r)
    BY <1>1 DEF Elems
  <2>3. ASSUME NEW i \in 1 .. Len(q) PROVE q[i] \in Elems(r)
    <3>1. i + 1 \in 1 .. Len(r) /\ r[i + 1] = q[i]
      BY <1>1
    <3> QED BY <3>1 DEF Elems
  <2> QED BY <2>1, <2>2, <2>3 DEF Elems
<1>4. ASSUME Distinct(q), x \notin Elems(q) PROVE Distinct(r)
  <2> SUFFICES ASSUME NEW i \in 1 .. Len(r), NEW j \in 1 .. Len(r), r[i] = r[j]
               PROVE  i = j
    BY DEF Distinct
  <2>1. \A k \in 1 .. Len(q) : q[k] # x
    BY <1>4 DEF Elems
  <2>2. CASE i = 1 \/ j = 1
    BY <2>2, <2>1, <1>1, <1>2
  <2>3. CASE i # 1 /\ j # 1
    <3>1. i - 1 \in 1 .. Len(q) /\ j - 1 \in 1 .. Len(q) /\ q[i - 1] = q[j - 1]
      BY <2>3, <1>2
    <3>2. i - 1 = j - 1
      BY <3>1, <1>4 DEF Distinct
    <3> QED BY <3>2, <1>1
  <2> QED BY <2>2, <2>3
<1> QED BY <1>1, <1>3, <1>4 DEF r

\* The tail has all elements but the head.
LEMMA ElemsTail ==
    ASSUME NEW S, NEW q \in Seq(S), q # <<>>
    PROVE  /\ Head(q) \in S /\ Tail(q) \in Seq(S)
           /\ Elems(q) = Elems(Tail(q)) \cup {Head(q)}
           /\ Distinct(q) => Distinct(Tail(q)) /\ Head(q) \notin Elems(Tail(q))
  BY DEF Elems, Distinct

(***************************************************************************)
(* What the proofs need of the constants.                                  *)
(***************************************************************************)
LEMMA Constants ==
    /\ NoEc \notin ECs
    /\ EcCpu \in [ECs -> CPUs]
    /\ ScEc \in [SCs -> ECs]
    /\ Prio \in [SCs -> 0 .. MaxPrio]
    /\ Local \subseteq ECs
    /\ MaxCounter \in Nat
  BY SchedAssumption, EcAssumption, SmAssumption

(***************************************************************************)
(* Types and Control, one lemma per handler.                               *)
(***************************************************************************)
LEMMA ReadyEnqueueType ==
    ASSUME TypeSc, NEW c \in CPUs, NEW s \in SCs, NEW l \in BOOLEAN, NEW h \in BOOLEAN,
           ReadyEnqueue(c, s, l, h)
    PROVE  /\ ready' \in [CPUs -> [0 .. MaxPrio -> Seq(SCs)]]
           /\ top' \in [CPUs -> 0 .. MaxPrio]
           /\ sched' \in [CPUs -> BOOLEAN]
           /\ left' \in [SCs -> BOOLEAN]
<1> DEFINE q == ready[c][Prio[s]]
           n == IF l THEN <<s>> \o q ELSE Append(q, s)
<1>1. Prio[s] \in 0 .. MaxPrio /\ q \in Seq(SCs)
  BY Constants DEF TypeSc
<1>2. n \in Seq(SCs)
  BY <1>1, ElemsPrepend, ElemsAppend
<1>3. ready' \in [CPUs -> [0 .. MaxPrio -> Seq(SCs)]]
  <2>1. ready' = [ready EXCEPT ![c] = [ready[c] EXCEPT ![Prio[s]] = n]]
    BY DEF ReadyEnqueue
  <2> HIDE DEF n
  <2> QED BY <1>1, <1>2, <2>1 DEF TypeSc
<1>4. top' \in [CPUs -> 0 .. MaxPrio] /\ left' \in [SCs -> BOOLEAN]
  BY <1>1 DEF TypeSc, ReadyEnqueue
<1>5. sched' \in [CPUs -> BOOLEAN]
  BY DEF TypeSc, ReadyEnqueue
<1> QED BY <1>3, <1>4, <1>5

\* A step that changes only what belongs to CPU c keeps Control if it keeps it
\* for c and for the links.
LEMMA FrameControl ==
    ASSUME TypeOK, Control, NEW c \in CPUs, Frame(c), CpuOK(c)', LinksOK'
    PROVE  Control'
<1> SUFFICES ASSUME NEW d \in CPUs, d # c PROVE CpuOK(d)'
  BY DEF Control
<1>1. CpuOK(d) /\ ec[d] \in ECs /\ EcCpu[ec[d]] # c
  BY DEF Control, CpuOK, TypeOK, TypeEc
<1> QED BY <1>1 DEF Frame, CpuOK, AtHelp, ScCpu

\* Lemmas.
LEMMA PlainCpu ==
    ASSUME TypeOK, Control, NEW c \in CPUs, EcCpu[ec'[c]] = c, ScCpu(cur'[c]) = c,
           cur'[c] \in created',
           pc'[c] \notin {"activate", "help", "notify_created"} \cup Handlers
    PROVE  CpuOK(c)'
  BY DEF CpuOK, Handlers, AtHelp, ScCpu

\* Continuations are not names of functions in progress.
LEMMA ContNames == Conts \cap ({"activate", "help", "notify_created"} \cup Handlers) = {}
  BY DEF Conts, Handlers

\* Taking an element out of the middle leaves a sequence.
LEMMA RemoveSeq ==
    ASSUME NEW S, NEW q \in Seq(S), NEW i \in 1 .. Len(q)
    PROVE  Remove(q, i) \in Seq(S)
<1>1. Len(q) \in Nat /\ q \in [1 .. Len(q) -> S] /\ Len(q) - 1 \in Nat
  OBVIOUS
<1>2. Remove(q, i) \in [1 .. Len(q) - 1 -> S]
  BY <1>1 DEF Remove
<1> QED BY <1>1, <1>2

-----------------------------------------------------------------------------
(***************************************************************************)
(* Queues.  For each of the three kinds of queue, what adding an SC that   *)
(* is not there and removing the head do to who is in the queues.          *)
(***************************************************************************)
LEMMA ReadyAdd ==
    ASSUME TypeSc, ReadyPlaced, NEW s \in SCs, NEW c \in CPUs, ScCpu(s) = c, ~InReady(s),
           NEW l, NEW h, ReadyEnqueue(c, s, l, h)
    PROVE  ReadyPlaced' /\ \A r \in SCs : InReady(r)' <=> InReady(r) \/ r = s
<1> DEFINE q == ready[c][Prio[s]]
           n == IF l THEN <<s>> \o q ELSE Append(q, s)
<1>1. Prio[s] \in 0 .. MaxPrio /\ q \in Seq(SCs)
  BY Constants DEF TypeSc
<1>2. s \notin Elems(q) /\ Distinct(q)
  BY <1>1 DEF InReady, ReadyPlaced
<1>3. n \in Seq(SCs) /\ Elems(n) = Elems(q) \cup {s} /\ Distinct(n)
  BY <1>1, <1>2, ElemsPrepend, ElemsAppend
<1>4. ready' = [ready EXCEPT ![c] = [ready[c] EXCEPT ![Prio[s]] = n]]
  BY DEF ReadyEnqueue
<1> HIDE DEF n
<1>5. ASSUME NEW d \in CPUs, NEW p \in 0 .. MaxPrio
      PROVE  ready'[d][p] = IF d = c /\ p = Prio[s] THEN n ELSE ready[d][p]
  BY <1>1, <1>4 DEF TypeSc
<1>6. ReadyPlaced'
  BY <1>1, <1>2, <1>3, <1>5 DEF ReadyPlaced, ScCpu
<1>7. ASSUME NEW r \in SCs PROVE InReady(r)' <=> InReady(r) \/ r = s
  <2>1. ScCpu(r) \in CPUs /\ Prio[r] \in 0 .. MaxPrio
    BY Constants DEF ScCpu
  <2>2. InReady(r)' <=> r \in Elems(ready'[ScCpu(r)][Prio[r]])
    BY DEF InReady, ScCpu, Elems
  <2> QED BY <1>3, <1>5, <2>1, <2>2 DEF InReady
<1> QED BY <1>6, <1>7

\* Ready::dequeue takes the head of the top priority out, and nothing else.
LEMMA ReadyDel ==
    ASSUME TypeSc, ReadyPlaced, NEW c \in CPUs, ReadyDequeue(c)
    PROVE  /\ ReadyPlaced'
           /\ ReadyHead(c) \in SCs /\ InReady(ReadyHead(c)) /\ ScCpu(ReadyHead(c)) = c
           /\ \A r \in SCs : InReady(r)' <=> InReady(r) /\ r # ReadyHead(c)
<1> DEFINE t == top[c]
           q == ready[c][t]
           h == ReadyHead(c)
<1>1. t \in 0 .. MaxPrio /\ q \in Seq(SCs) /\ q # <<>>
  <2>1. t \in 0 .. MaxPrio /\ q \in Seq(SCs)
    BY DEF TypeSc
  <2>2. q # <<>>
    BY Zenon DEF ReadyDequeue
  <2> QED BY <2>1, <2>2
<1>2. /\ h \in SCs /\ Tail(q) \in Seq(SCs) /\ Elems(q) = Elems(Tail(q)) \cup {h}
      /\ Distinct(Tail(q)) /\ h \notin Elems(Tail(q))
  BY <1>1, ElemsTail DEF ReadyHead, ReadyPlaced
<1>3. ScCpu(h) = c /\ Prio[h] = t
  BY <1>1, <1>2 DEF ReadyPlaced
<1>4. ASSUME NEW d \in CPUs, NEW p \in 0 .. MaxPrio
      PROVE  ready'[d][p] = IF d = c /\ p = t THEN Tail(q) ELSE ready[d][p]
  BY <1>1 DEF TypeSc, ReadyDequeue
<1> HIDE DEF q, h
<1>5. ReadyPlaced'
  BY <1>1, <1>2, <1>4 DEF ReadyPlaced, ScCpu, q
<1>6. ASSUME NEW r \in SCs PROVE InReady(r)' <=> InReady(r) /\ r # h
  <2>1. ScCpu(r) \in CPUs /\ Prio[r] \in 0 .. MaxPrio
    BY Constants DEF ScCpu
  <2>2. InReady(r)' <=> r \in Elems(ready'[ScCpu(r)][Prio[r]])
    BY DEF InReady, ScCpu, Elems
  <2>3. CASE ScCpu(r) = c /\ Prio[r] = t
    BY <1>2, <1>4, <2>1, <2>2, <2>3 DEF InReady, q
  <2>4. CASE ~(ScCpu(r) = c /\ Prio[r] = t)
    BY <1>3, <1>4, <2>1, <2>2, <2>4 DEF InReady
  <2> QED BY <2>3, <2>4
<1>7. InReady(h)
  BY <1>2, <1>3 DEF InReady, q
<1> QED BY <1>2, <1>3, <1>5, <1>6, <1>7 DEF h

\* What leaves the ready queues alone leaves the SCs in them.
LEMMA ReadySame ==
    ASSUME ReadyPlaced, UNCHANGED ready
    PROVE  ReadyPlaced' /\ \A r \in SCs : InReady(r)' <=> InReady(r)
  BY DEF ReadyPlaced, InReady, ScCpu, Distinct, Elems

\* Release::enqueue adds one SC.
LEMMA ReleaseAdd ==
    ASSUME TypeSc, ReleasePlaced, NEW s \in SCs, ~InRelease(s), ReleaseEnqueue(s)
    PROVE  ReleasePlaced' /\ \A r \in SCs : InRelease(r)' <=> InRelease(r) \/ r = s
<1> DEFINE c == ScCpu(s)
           n == Append(release[c], s)
<1>1. c \in CPUs /\ release[c] \in Seq(SCs)
  BY Constants DEF TypeSc, ScCpu
<1>2. n \in Seq(SCs) /\ Elems(n) = Elems(release[c]) \cup {s} /\ Distinct(n)
  BY <1>1, ElemsAppend DEF InRelease, ReleasePlaced
<1>3. release' = [release EXCEPT ![c] = n]
  BY DEF ReleaseEnqueue
<1> HIDE DEF n
<1>4. ASSUME NEW d \in CPUs PROVE release'[d] = IF d = c THEN n ELSE release[d]
  BY <1>1, <1>3 DEF TypeSc
<1>5. ReleasePlaced'
  BY <1>1, <1>2, <1>4 DEF ReleasePlaced, ScCpu
<1>6. ASSUME NEW r \in SCs PROVE InRelease(r)' <=> InRelease(r) \/ r = s
  <2>1. ScCpu(r) \in CPUs
    BY Constants DEF ScCpu
  <2>2. InRelease(r)' <=> r \in Elems(release'[ScCpu(r)])
    BY DEF InRelease, ScCpu, Elems
  <2> QED BY <1>2, <1>4, <2>1, <2>2 DEF InRelease
<1> QED BY <1>5, <1>6

\* handle_rrq takes the head of the release queue, and nothing else.
LEMMA ReleaseDel ==
    ASSUME TypeSc, ReleasePlaced, NEW c \in CPUs, release[c] # <<>>,
           release' = [release EXCEPT ![c] = Tail(@)]
    PROVE  LET h == Head(release[c]) IN
           /\ ReleasePlaced' /\ h \in SCs /\ InRelease(h) /\ ScCpu(h) = c
           /\ \A r \in SCs : InRelease(r)' <=> InRelease(r) /\ r # h
<1> DEFINE q == release[c]
           h == Head(q)
<1>1. q \in Seq(SCs) /\ q # <<>>
  BY DEF TypeSc
<1>2. /\ h \in SCs /\ Tail(q) \in Seq(SCs) /\ Elems(q) = Elems(Tail(q)) \cup {h}
      /\ Distinct(Tail(q)) /\ h \notin Elems(Tail(q))
  BY <1>1, ElemsTail DEF ReleasePlaced
<1>3. ScCpu(h) = c /\ InRelease(h)
  BY <1>1, <1>2 DEF ReleasePlaced, InRelease
<1>4. ASSUME NEW d \in CPUs PROVE release'[d] = IF d = c THEN Tail(q) ELSE release[d]
  BY DEF TypeSc
<1> HIDE DEF q, h
<1>5. ReleasePlaced'
  BY <1>2, <1>4 DEF ReleasePlaced, ScCpu, q
<1>6. ASSUME NEW r \in SCs PROVE InRelease(r)' <=> InRelease(r) /\ r # h
  <2>1. ScCpu(r) \in CPUs
    BY Constants DEF ScCpu
  <2>2. InRelease(r)' <=> r \in Elems(release'[ScCpu(r)])
    BY DEF InRelease, ScCpu, Elems
  <2>3. CASE ScCpu(r) = c
    BY <1>2, <1>4, <2>1, <2>2, <2>3 DEF InRelease, q
  <2>4. CASE ScCpu(r) # c
    BY <1>3, <1>4, <2>1, <2>2, <2>4 DEF InRelease
  <2> QED BY <2>3, <2>4
<1> QED BY <1>2, <1>3, <1>5, <1>6 DEF q, h

\* What leaves the release queues alone leaves the SCs in them.
LEMMA ReleaseSame ==
    ASSUME ReleasePlaced, UNCHANGED release
    PROVE  ReleasePlaced' /\ \A r \in SCs : InRelease(r)' <=> InRelease(r)
  BY DEF ReleasePlaced, InRelease, ScCpu, Distinct, Elems

\* block_sc parks one SC on one EC.
LEMMA WaitAdd ==
    ASSUME TypeEc, WaitPlaced, NEW s \in SCs, NEW e \in ECs, ScCpu(s) = EcCpu[e],
           ~WaitsOn(s, e), scq' = [scq EXCEPT ![e] = Append(@, s)]
    PROVE  /\ WaitPlaced'
           /\ \A r \in SCs, f \in ECs : WaitsOn(r, f)' <=> WaitsOn(r, f) \/ (r = s /\ f = e)
<1> DEFINE n == Append(scq[e], s)
<1>1. scq[e] \in Seq(SCs)
  BY DEF TypeEc
<1>2. Elems(n) = Elems(scq[e]) \cup {s} /\ Distinct(n)
  BY <1>1, ElemsAppend DEF WaitsOn, WaitPlaced
<1> HIDE DEF n
<1>3. ASSUME NEW f \in ECs PROVE scq'[f] = IF f = e THEN n ELSE scq[f]
  BY DEF TypeEc, n
<1>4. WaitPlaced'
  BY <1>2, <1>3 DEF WaitPlaced, ScCpu
<1>5. ASSUME NEW r \in SCs, NEW f \in ECs
      PROVE  WaitsOn(r, f)' <=> WaitsOn(r, f) \/ (r = s /\ f = e)
  <2>1. WaitsOn(r, f)' <=> r \in Elems(scq'[f])
    BY DEF WaitsOn, Elems
  <2> QED BY <1>2, <1>3, <2>1 DEF WaitsOn
<1> QED BY <1>4, <1>5

\* unblock_sc takes the head of an EC's queue, and nothing else.
LEMMA WaitDel ==
    ASSUME TypeEc, WaitPlaced, NEW e \in ECs, scq[e] # <<>>,
           scq' = [scq EXCEPT ![e] = Tail(@)]
    PROVE  LET h == Head(scq[e]) IN
           /\ WaitPlaced' /\ h \in SCs /\ WaitsOn(h, e) /\ ScCpu(h) = EcCpu[e]
           /\ \A r \in SCs, f \in ECs :
                WaitsOn(r, f)' <=> WaitsOn(r, f) /\ ~(r = h /\ f = e)
<1> DEFINE q == scq[e]
           h == Head(q)
<1>1. q \in Seq(SCs) /\ q # <<>>
  BY DEF TypeEc
<1>2. /\ h \in SCs /\ Tail(q) \in Seq(SCs) /\ Elems(q) = Elems(Tail(q)) \cup {h}
      /\ Distinct(Tail(q)) /\ h \notin Elems(Tail(q))
  BY <1>1, ElemsTail DEF WaitPlaced
<1>3. ScCpu(h) = EcCpu[e] /\ WaitsOn(h, e)
  BY <1>1, <1>2 DEF WaitPlaced, WaitsOn
<1>4. ASSUME NEW f \in ECs PROVE scq'[f] = IF f = e THEN Tail(q) ELSE scq[f]
  BY DEF TypeEc
<1> HIDE DEF q, h
<1>5. WaitPlaced'
  BY <1>2, <1>4 DEF WaitPlaced, ScCpu, q
<1>6. ASSUME NEW r \in SCs, NEW f \in ECs
      PROVE  WaitsOn(r, f)' <=> WaitsOn(r, f) /\ ~(r = h /\ f = e)
  <2>1. WaitsOn(r, f)' <=> r \in Elems(scq'[f])
    BY DEF WaitsOn, Elems
  <2> QED BY <1>2, <1>4, <2>1 DEF WaitsOn, q
<1> QED BY <1>2, <1>3, <1>5, <1>6 DEF q, h

\* What leaves the queues of the ECs alone leaves the SCs in them.
LEMMA WaitSame ==
    ASSUME WaitPlaced, UNCHANGED scq
    PROVE  WaitPlaced' /\ \A r \in SCs, f \in ECs : WaitsOn(r, f)' <=> WaitsOn(r, f)
  BY DEF WaitPlaced, WaitsOn, ScCpu, Distinct, Elems

-----------------------------------------------------------------------------
(***************************************************************************)
(* The scheduling invariant.  A step of a CPU leaves the queues alone,     *)
(* adds an SC that was in none, takes one out, or moves one from a queue   *)
(* to another.                                                             *)
(***************************************************************************)
\* A step that touches no queue.
LEMMA QueuesSame ==
    ASSUME ScInv, NEW c \in CPUs, Frame(c), UNCHANGED <<ready, release, scq, cur>>,
           Between(c) => Between(c)'
    PROVE  ScInv'
<1>1. /\ \A r \in SCs : InReady(r)' <=> InReady(r)
      /\ \A r \in SCs : InRelease(r)' <=> InRelease(r)
      /\ \A r \in SCs, f \in ECs : WaitsOn(r, f)' <=> WaitsOn(r, f)
      /\ ReadyPlaced' /\ ReleasePlaced' /\ WaitPlaced'
  BY ReadySame, ReleaseSame, WaitSame DEF ScInv, ScQueuedOnce
<1>2. OnePlace'
  BY <1>1 DEF ScInv, ScQueuedOnce, OnePlace
<1>3. \A r \in SCs : Queued(r)' <=> Queued(r)
  BY <1>1 DEF Queued
<1>4. QueuedCreated'
  BY <1>3 DEF ScInv, QueuedCreated, Frame
<1>5. RunningNotQueued'
  <2> SUFFICES ASSUME NEW d \in CPUs, Queued(cur[d])' PROVE Between(d)'
    BY DEF RunningNotQueued, Between
  <2>1. Queued(cur[d])
    BY DEF Queued, InReady, InRelease, WaitsOn, ScCpu, Elems
  <2>2. Between(d)
    BY <2>1 DEF ScInv, RunningNotQueued, Between
  <2> QED BY <2>2 DEF Between, Frame
<1> QED BY <1>1, <1>2, <1>4, <1>5 DEF ScInv, ScQueuedOnce

(***************************************************************************)
(* A step after which the SC s is queued as well, in one place: s was in   *)
(* no queue, or is moved out of the one it was in.                         *)
(***************************************************************************)
LEMMA QueuesAdd ==
    ASSUME TypeOK, Control, ScInv, NEW c \in CPUs, Frame(c), cur' = cur,
           NEW s \in SCs, s \in created',
           ReadyPlaced', ReleasePlaced', WaitPlaced', OnePlace',
           \A r \in SCs : Queued(r)' => Queued(r) \/ r = s,
           Between(c) => Between(c)',
           \A d \in CPUs : cur[d] = s => Queued(s) \/ Between(d)'
    PROVE  ScInv'
<1>1. QueuedCreated'
  BY DEF ScInv, QueuedCreated, Frame
<1>2. RunningNotQueued'
  <2> SUFFICES ASSUME NEW d \in CPUs, Queued(cur[d])' PROVE Between(d)'
    BY DEF RunningNotQueued, Between
  <2>1. PICK r \in SCs : r = cur[d] /\ r = cur'[d]
    BY DEF TypeOK, TypeSc
  <2>2. Queued(r)'
    BY <2>1 DEF Queued, InReady, InRelease, WaitsOn, ScCpu, Elems
  <2>3. Queued(r) \/ Between(d)'
    BY <2>1, <2>2
  <2>4. Queued(r) => Between(d)
    BY <2>1 DEF ScInv, RunningNotQueued, Between
  <2> QED BY <2>3, <2>4 DEF Between, Frame
<1> QED BY <1>1, <1>2 DEF ScInv, ScQueuedOnce

-----------------------------------------------------------------------------
(* One lemma per handler: it preserves Inv.                                 *)

\* ScheduleBlocked keeps Inv.
LEMMA ScheduleBlockedInv ==
    ASSUME TypeOK, Control, ScInv, NEW c \in CPUs,
           Schedule(c, TRUE), UNCHANGED <<ecVars, smVars>>
    PROVE  Inv'
<1>1. TypeCtl'
  BY DEF TypeOK, TypeCtl, PCs, Schedule, Goto, ecVars, smVars
<1>2. TypeSc'
  BY DEF TypeOK, TypeSc, Schedule, Goto, ecVars, smVars
<1>3. TypeEc'
  BY DEF TypeOK, TypeEc, Schedule, Goto, ecVars, smVars
<1>4. TypeSm'
  BY DEF TypeOK, TypeSm, Schedule, Goto, ecVars, smVars
<1>5. CpuOK(c)'
  BY Constants DEF TypeOK, TypeCtl, TypeEc, TypeSc, Control, CpuOK, Handlers, AtHelp,
     Schedule, Goto, ecVars, smVars
<1>6. LinksOK'
  BY DEF TypeOK, TypeEc, Control, LinksOK, Schedule, Goto, ecVars, smVars
<1>7. Frame(c)
  BY DEF TypeOK, TypeCtl, Frame, Schedule, Goto, ecVars, smVars
<1>8. ScInv'
  <2>1. UNCHANGED <<ready, release, scq, cur>>
    BY DEF Schedule, Goto, ecVars, smVars
  <2>2. Between(c) => Between(c)'
    BY DEF Between, TypeOK, TypeCtl, Schedule, Goto, ecVars, smVars
  <2> QED BY <1>7, <2>1, <2>2, QueuesSame
<1> QED BY <1>1, <1>2, <1>3, <1>4, <1>5, <1>6, <1>7, <1>8, FrameControl DEF TypeOK, Inv

\* ScheduleReady keeps Inv.
LEMMA ScheduleReadyInv ==
    ASSUME TypeOK, Control, ScInv, NEW c \in CPUs,
           Schedule(c, FALSE), UNCHANGED <<ecVars, smVars>>
    PROVE  Inv'
<1>1. TypeCtl'
  BY DEF TypeOK, TypeCtl, PCs, Schedule, Goto, ecVars, smVars
<1>2. TypeSc'
  <2>1. PICK l \in BOOLEAN : ReadyEnqueue(c, cur[c], l, FALSE)
    BY DEF Schedule
  <2>2. TypeSc /\ cur[c] \in SCs /\ UNCHANGED <<cur, release, rrq, created>>
    BY DEF Schedule, TypeOK, TypeSc
  <2> QED BY <2>1, <2>2, ReadyEnqueueType DEF TypeSc
<1>3. TypeEc'
  BY DEF TypeOK, TypeEc, Schedule, Goto, ecVars, smVars
<1>4. TypeSm'
  BY DEF TypeOK, TypeSm, Schedule, Goto, ecVars, smVars
<1>5. CpuOK(c)'
  BY Constants DEF TypeOK, TypeCtl, TypeEc, TypeSc, Control, CpuOK, Handlers, AtHelp,
     Schedule, Goto, ecVars, smVars
<1>6. LinksOK'
  BY DEF TypeOK, TypeEc, Control, LinksOK, Schedule, Goto, ecVars, smVars
<1>7. Frame(c)
  BY DEF TypeOK, TypeCtl, Frame, Schedule, Goto, ecVars, smVars
<1>8. ScInv'
  <2>0. /\ ReadyPlaced /\ ReleasePlaced /\ WaitPlaced /\ OnePlace
        /\ TypeSc /\ TypeEc
    BY DEF ScInv, ScQueuedOnce, TypeOK
  <2>1. PICK l \in BOOLEAN : ReadyEnqueue(c, cur[c], l, FALSE)
    BY DEF Schedule
  <2>2. /\ pc[c] = "schedule" /\ pc'[c] = "pick"
        /\ UNCHANGED <<release, cur, scq>>
    BY DEF Schedule, Goto, TypeOK, TypeCtl, ecVars
  <2> DEFINE s == cur[c]
  <2>3. s \in SCs /\ ScCpu(s) = c /\ s \in created' /\ ~Queued(s)
    BY <1>7, <2>2 DEF TypeOK, TypeSc, Control, CpuOK, Frame, ScInv, RunningNotQueued
  <2>4. ~InReady(s) /\ ~InRelease(s) /\ \A e \in ECs : ~WaitsOn(s, e)
    BY <2>3 DEF Queued
  <2> HIDE DEF s
  <2>5. ReadyPlaced' /\ \A r \in SCs : InReady(r)' <=> InReady(r) \/ r = s
    BY <2>0, <2>1, <2>3, <2>4, ReadyAdd DEF s
  <2>6. ReleasePlaced' /\ \A r \in SCs : InRelease(r)' <=> InRelease(r)
    BY <2>0, <2>2, ReleaseSame
  <2>7. WaitPlaced' /\ \A r \in SCs, f \in ECs : WaitsOn(r, f)' <=> WaitsOn(r, f)
    BY <2>0, <2>2, WaitSame
  <2>8. OnePlace'
    BY <2>0, <2>4, <2>5, <2>6, <2>7 DEF OnePlace
  <2>9. \A r \in SCs : Queued(r)' => Queued(r) \/ r = s
    BY <2>5, <2>6, <2>7 DEF Queued
  <2>10. \A d \in CPUs : cur[d] = s => d = c
    BY <2>3 DEF Control, CpuOK, s
  <2>11. Between(c)' /\ cur' = cur
    BY <2>2 DEF Between
  <2> QED BY <1>7, <2>3, <2>5, <2>6, <2>7, <2>8, <2>9, <2>10, <2>11, QueuesAdd
<1> QED BY <1>1, <1>2, <1>3, <1>4, <1>5, <1>6, <1>7, <1>8, FrameControl DEF TypeOK, Inv

\* HandleRrq keeps Inv.
LEMMA HandleRrqInv ==
    ASSUME TypeOK, Control, ScInv, NEW c \in CPUs,
           HandleRrq(c), UNCHANGED <<ecVars, smVars>>
    PROVE  Inv'
<1>1. TypeCtl'
  BY Constants DEF TypeOK, TypeCtl, PCs, Conts, HandleRrq, Call, Goto, Resume,
     Interruptible, ecVars, smVars
<1>2. TypeSc'
  BY DEF TypeOK, TypeSc, HandleRrq, Call, Goto, Resume, Interruptible, ecVars, smVars
<1>3. TypeEc'
  BY DEF TypeOK, TypeEc, HandleRrq, Call, Goto, Resume, Interruptible, ecVars, smVars
<1>4. TypeSm'
  BY DEF TypeOK, TypeSm, HandleRrq, Call, Goto, Resume, Interruptible, ecVars, smVars
<1>5. CpuOK(c)'
  <2>1. CpuOK(c) /\ UNCHANGED <<cur, created, ec, want>>
    BY DEF Control, HandleRrq, ecVars
  <2>2. pc'[c] \notin {"activate", "unblock_sc", "notify", "notify_created"}
    BY DEF HandleRrq, Call, Goto, Resume, Interruptible, TypeOK, TypeCtl
  <2>3. (pc'[c] \in Handlers => ret'[c] \in Resumes) /\ (AtHelp(c)' => AtHelp(c))
    BY Constants DEF HandleRrq, Call, Goto, Resume, Interruptible, TypeOK, TypeCtl, Handlers, AtHelp,
       Resumes
  <2>4. pc'[c] = "unblock_loop" => arg'[c] \in ECs
    BY Constants DEF HandleRrq, Call, Goto, Resume, Interruptible, TypeOK, TypeCtl
  <2> QED BY <2>1, <2>2, <2>3, <2>4 DEF CpuOK, ScCpu
<1>6. LinksOK'
  BY DEF TypeOK, TypeEc, Control, LinksOK, HandleRrq, Call, Goto, Resume, Interruptible,
     ecVars, smVars
<1>7. Frame(c)
  BY DEF TypeOK, TypeCtl, Frame, HandleRrq, Call, Goto, Resume, Interruptible, ecVars,
     smVars
<1>8. ScInv'
  <2>1. UNCHANGED <<ready, release, scq, cur>>
    BY DEF HandleRrq, Call, Goto, Resume, Interruptible, ecVars, smVars
  <2>2. Between(c) => Between(c)'
    BY DEF Between, TypeOK, TypeCtl, HandleRrq, Call, Goto, Resume, Interruptible, ecVars,
       smVars
  <2> QED BY <1>7, <2>1, <2>2, QueuesSame
<1> QED BY <1>1, <1>2, <1>3, <1>4, <1>5, <1>6, <1>7, <1>8, FrameControl DEF TypeOK, Inv

\* Requeue keeps Inv.
LEMMA RequeueInv ==
    ASSUME TypeOK, Control, ScInv, NEW c \in CPUs,
           Requeue(c), UNCHANGED <<ecVars, smVars>>
    PROVE  Inv'
<1>1. TypeCtl'
  BY DEF TypeOK, TypeCtl, PCs, Requeue, Leave, Call, Goto, ctlVars, ecVars, smVars
<1>2. TypeSc'
  <2>1. TypeSc /\ UNCHANGED <<cur, rrq, created>>
    BY DEF Requeue, TypeOK
  <2>2. CASE release[c] = <<>>
    BY <2>1, <2>2 DEF Requeue, TypeSc
  <2>3. CASE release[c] # <<>>
    <3> DEFINE s == Head(release[c])
    <3>1. ReadyEnqueue(c, s, left[s], sched[c]) /\ release' = [release EXCEPT ![c] = Tail(@)]
      BY <2>3 DEF Requeue
    <3>2. release[c] \in Seq(SCs)
      BY <2>1 DEF TypeSc
    <3>3. s \in SCs /\ Tail(release[c]) \in Seq(SCs)
      BY <3>2, <2>3, ElemsTail
    <3>4. left[s] \in BOOLEAN /\ sched[c] \in BOOLEAN
      BY <2>1, <3>3 DEF TypeSc
    <3> HIDE DEF s
    <3>5. release' \in [CPUs -> Seq(SCs)]
      BY <3>1, <3>3, <2>1 DEF TypeSc
    <3>6. /\ ready' \in [CPUs -> [0 .. MaxPrio -> Seq(SCs)]]
          /\ top' \in [CPUs -> 0 .. MaxPrio]
          /\ sched' \in [CPUs -> BOOLEAN]
          /\ left' \in [SCs -> BOOLEAN]
      BY <2>1, <3>1, <3>3, <3>4, ReadyEnqueueType
    <3> QED BY <2>1, <3>5, <3>6 DEF TypeSc
  <2> QED BY <2>2, <2>3
<1>3. TypeEc'
  BY DEF TypeOK, TypeEc, Requeue, Leave, Call, Goto, ctlVars, ecVars, smVars
<1>4. TypeSm'
  BY DEF TypeOK, TypeSm, Requeue, Leave, Call, Goto, ctlVars, ecVars, smVars
<1>5. CpuOK(c)'
  <2>1. CpuOK(c) /\ pc[c] \in Handlers /\ ret[c] \in Resumes /\ cur[c] \in SCs
    BY DEF Control, CpuOK, Requeue, Handlers, TypeOK, TypeSc
  <2>2. CASE release[c] = <<>>
    <3>1. pc'[c] = ret[c] /\ ec' = ec /\ cur' = cur /\ created' = created /\ want' = want
      BY <2>2 DEF Requeue, Leave, Call, Goto, TypeOK, TypeCtl, ecVars
    <3>2. ret[c] = "help" => AtHelp(c)
      BY <2>1 DEF AtHelp
    <3>3. pc'[c] \notin Handlers \cup {"activate", "notify_created"}
      BY <2>1, <3>1 DEF Resumes, Handlers
    <3> QED BY <2>1, <3>1, <3>2, <3>3 DEF CpuOK, AtHelp, ScCpu, Handlers
  <2>3. CASE release[c] # <<>>
    BY <2>1, <2>3 DEF Requeue, ctlVars, ecVars, CpuOK, AtHelp, ScCpu
  <2> QED BY <2>2, <2>3
<1>6. LinksOK'
  BY DEF TypeOK, TypeEc, Control, LinksOK, Requeue, Leave, Call, Goto, ctlVars, ecVars,
     smVars
<1>7. Frame(c)
  BY DEF TypeOK, TypeCtl, Frame, Requeue, Leave, Call, Goto, ctlVars, ecVars, smVars
<1>8. ScInv'
  <2>a. CASE release[c] = <<>>
    <3>1. UNCHANGED <<ready, release, scq, cur>> /\ ~Between(c)
      BY <2>a DEF Requeue, ecVars, Between
    <3> QED BY <1>7, <3>1, QueuesSame
  <2>b. CASE release[c] # <<>>
    <3> DEFINE s == Head(release[c])
    <3>0. /\ ReadyPlaced /\ ReleasePlaced /\ WaitPlaced /\ OnePlace
          /\ TypeSc /\ TypeEc
      BY DEF ScInv, ScQueuedOnce, TypeOK
    <3>1. /\ release' = [release EXCEPT ![c] = Tail(@)]
          /\ ReadyEnqueue(c, s, left[s], sched[c])
          /\ UNCHANGED <<scq, cur>> /\ ~Between(c)
      BY <2>b DEF Requeue, ecVars, Between
    <3>2. /\ ReleasePlaced' /\ s \in SCs /\ InRelease(s) /\ ScCpu(s) = c
          /\ \A r \in SCs : InRelease(r)' <=> InRelease(r) /\ r # s
      BY <2>b, <3>0, <3>1, ReleaseDel
    <3> HIDE DEF s
    <3>3. ~InReady(s) /\ \A e \in ECs : ~WaitsOn(s, e)
      BY <3>0, <3>2 DEF OnePlace
    <3>4. ReadyPlaced' /\ \A r \in SCs : InReady(r)' <=> InReady(r) \/ r = s
      BY <3>0, <3>1, <3>2, <3>3, ReadyAdd
    <3>5. WaitPlaced' /\ \A r \in SCs, f \in ECs : WaitsOn(r, f)' <=> WaitsOn(r, f)
      BY <3>0, <3>1, WaitSame
    <3>6. OnePlace'
      BY <3>0, <3>2, <3>3, <3>4, <3>5 DEF OnePlace
    <3>7. Queued(s) /\ \A r \in SCs : Queued(r)' => Queued(r) \/ r = s
      BY <3>2, <3>4, <3>5 DEF Queued
    <3>8. s \in created'
      BY <1>7, <3>2, <3>7 DEF ScInv, QueuedCreated, Frame
    <3> QED BY <1>7, <3>1, <3>2, <3>4, <3>5, <3>6, <3>7, <3>8, QueuesAdd
  <2> QED BY <2>a, <2>b
<1> QED BY <1>1, <1>2, <1>3, <1>4, <1>5, <1>6, <1>7, <1>8, FrameControl DEF TypeOK, Inv

\* BudgetTimeout keeps Inv.
LEMMA BudgetTimeoutInv ==
    ASSUME TypeOK, Control, ScInv, NEW c \in CPUs,
           BudgetTimeout(c), UNCHANGED <<ecVars, smVars>>
    PROVE  Inv'
<1>1. TypeCtl'
  BY Constants DEF TypeOK, TypeCtl, PCs, Conts, BudgetTimeout, Goto, Resume,
     Interruptible, ecVars, smVars
<1>2. TypeSc'
  BY DEF TypeOK, TypeSc, BudgetTimeout, Goto, Resume, Interruptible, ecVars, smVars
<1>3. TypeEc'
  BY DEF TypeOK, TypeEc, BudgetTimeout, Goto, Resume, Interruptible, ecVars, smVars
<1>4. TypeSm'
  BY DEF TypeOK, TypeSm, BudgetTimeout, Goto, Resume, Interruptible, ecVars, smVars
<1>5. CpuOK(c)'
  BY Constants, ZenonT(40) DEF TypeOK, TypeCtl, TypeEc, TypeSc, Control, CpuOK, Handlers, AtHelp,
     BudgetTimeout, Goto, Resume, Interruptible, ecVars, smVars
<1>6. LinksOK'
  BY DEF TypeOK, TypeEc, Control, LinksOK, BudgetTimeout, Goto, Resume, Interruptible,
     ecVars, smVars
<1>7. Frame(c)
  BY DEF TypeOK, TypeCtl, Frame, BudgetTimeout, Goto, Resume, Interruptible, ecVars,
     smVars
<1>8. ScInv'
  <2>1. UNCHANGED <<ready, release, scq, cur>>
    BY DEF BudgetTimeout, Goto, Resume, Interruptible, ecVars, smVars
  <2>2. Between(c) => Between(c)'
    BY DEF Between, TypeOK, TypeCtl, BudgetTimeout, Goto, Resume, Interruptible, ecVars,
       smVars
  <2> QED BY <1>7, <2>1, <2>2, QueuesSame
<1> QED BY <1>1, <1>2, <1>3, <1>4, <1>5, <1>6, <1>7, <1>8, FrameControl DEF TypeOK, Inv

\* ActivateWalk keeps Inv.
LEMMA ActivateWalkInv ==
    ASSUME TypeOK, Control, ScInv, NEW c \in CPUs,
           ActivateWalk(c), UNCHANGED smVars
    PROVE  Inv'
<1>1. TypeCtl'
  BY Constants DEF TypeOK, TypeCtl, TypeEc, PCs, Conts, Control, CpuOK, ActivateWalk,
     smVars, scVars
<1>2. TypeSc'
  BY DEF TypeOK, TypeSc, ActivateWalk, smVars, scVars
<1>3. TypeEc'
  BY DEF TypeOK, TypeEc, ActivateWalk, smVars, scVars
<1>4. TypeSm'
  BY DEF TypeOK, TypeSm, ActivateWalk, smVars, scVars
<1>5. CpuOK(c)'
  BY Constants DEF TypeOK, TypeCtl, TypeEc, TypeSm, TypeSc, Control, CpuOK, LinksOK,
     Handlers, AtHelp, Resumes, ScCpu, ActivateWalk, smVars, scVars
<1>6. LinksOK'
  BY DEF TypeOK, TypeEc, Control, LinksOK, ActivateWalk, smVars, scVars
<1>7. Frame(c)
  BY DEF TypeOK, TypeCtl, Frame, ActivateWalk, smVars, scVars
<1>8. ScInv'
  <2>1. UNCHANGED <<ready, release, scq, cur>>
    BY DEF ActivateWalk, smVars, scVars
  <2>2. Between(c) => Between(c)'
    BY DEF Between, TypeOK, TypeCtl, ActivateWalk, smVars, scVars
  <2> QED BY <1>7, <2>1, <2>2, QueuesSame
<1> QED BY <1>1, <1>2, <1>3, <1>4, <1>5, <1>6, <1>7, <1>8, FrameControl DEF TypeOK, Inv

\* ActivateRun keeps Inv.
LEMMA ActivateRunInv ==
    ASSUME TypeOK, Control, ScInv, NEW c \in CPUs,
           ActivateRun(c), UNCHANGED smVars
    PROVE  Inv'
<1>1. TypeCtl'
  BY Constants DEF TypeOK, TypeCtl, TypeEc, PCs, Conts, Control, CpuOK, ActivateRun,
     MakeCurrent, Leave, Call, Goto, smVars, scVars
<1>2. TypeSc'
  BY DEF TypeOK, TypeSc, ActivateRun, MakeCurrent, Leave, Call, Goto, smVars, scVars
<1>3. TypeEc'
  BY Constants DEF TypeOK, TypeEc, TypeSc, Conts, Control, CpuOK, ActivateRun,
     MakeCurrent, Leave, Call, Goto, smVars, scVars
<1>4. TypeSm'
  BY DEF TypeOK, TypeSm, ActivateRun, MakeCurrent, Leave, Call, Goto, smVars, scVars
<1>5. CpuOK(c)'
  <2>1. CpuOK(c) /\ arg[c] \in ECs /\ EcCpu[arg[c]] = c /\ cont[arg[c]] \in Conts
    BY DEF ActivateRun, Control, CpuOK, TypeOK, TypeEc
  <2>2. ec'[c] = arg[c] /\ pc'[c] = cont[arg[c]] /\ cur' = cur /\ created' = created
    BY DEF ActivateRun, MakeCurrent, Leave, Call, Goto, scVars, TypeOK, TypeCtl, TypeEc
  <2> QED BY <2>1, <2>2, PlainCpu, ContNames DEF CpuOK, ScCpu
<1>6. LinksOK'
  BY DEF TypeOK, TypeEc, Control, LinksOK, ActivateRun, MakeCurrent, Leave, Call, Goto,
     smVars, scVars
<1>7. Frame(c)
  BY DEF TypeOK, TypeCtl, Frame, ActivateRun, MakeCurrent, Leave, Call, Goto, smVars,
     scVars
<1>8. ScInv'
  <2>1. UNCHANGED <<ready, release, scq, cur>>
    BY DEF ActivateRun, MakeCurrent, Leave, Call, Goto, smVars, scVars
  <2>2. Between(c) => Between(c)'
    BY DEF Between, TypeOK, TypeCtl, ActivateRun, MakeCurrent, Leave, Call, Goto, smVars,
       scVars
  <2> QED BY <1>7, <2>1, <2>2, QueuesSame
<1> QED BY <1>1, <1>2, <1>3, <1>4, <1>5, <1>6, <1>7, <1>8, FrameControl DEF TypeOK, Inv

\* ActivateBlockSc keeps Inv.
LEMMA ActivateBlockScInv ==
    ASSUME TypeOK, Control, ScInv, NEW c \in CPUs,
           ActivateBlockSc(c), UNCHANGED smVars
    PROVE  Inv'
<1>1. TypeCtl'
  BY DEF TypeOK, TypeCtl, PCs, ActivateBlockSc, Leave, Call, Goto, smVars, scVars
<1>2. TypeSc'
  BY DEF TypeOK, TypeSc, ActivateBlockSc, Leave, Call, Goto, smVars, scVars
<1>3. TypeEc'
  <2>1. arg[c] \in ECs /\ cur[c] \in SCs /\ scq[arg[c]] \in Seq(SCs)
    BY DEF ActivateBlockSc, Control, CpuOK, TypeOK, TypeEc, TypeSc
  <2>2. Append(scq[arg[c]], cur[c]) \in Seq(SCs)
    BY <2>1, ElemsAppend
  <2>3. scq' \in [ECs -> Seq(SCs)]
    BY <2>2 DEF ActivateBlockSc, TypeOK, TypeEc
  <2> QED BY <2>3 DEF ActivateBlockSc, TypeOK, TypeEc
<1>4. TypeSm'
  BY DEF TypeOK, TypeSm, ActivateBlockSc, Leave, Call, Goto, smVars, scVars
<1>5. CpuOK(c)'
  BY Constants, ZenonT(40) DEF TypeOK, TypeCtl, TypeEc, TypeSc, Control, CpuOK, Handlers, AtHelp,
     ActivateBlockSc, Leave, Call, Goto, smVars, scVars
<1>6. LinksOK'
  BY DEF TypeOK, TypeEc, Control, LinksOK, ActivateBlockSc, Leave, Call, Goto, smVars,
     scVars
<1>7. Frame(c)
  BY DEF TypeOK, TypeCtl, Frame, ActivateBlockSc, Leave, Call, Goto, smVars, scVars
<1>8. ScInv'
  <2>0. /\ ReadyPlaced /\ ReleasePlaced /\ WaitPlaced /\ OnePlace
        /\ TypeSc /\ TypeEc
    BY DEF ScInv, ScQueuedOnce, TypeOK
  <2>1. arg[c] \in ECs /\ EcCpu[arg[c]] = c /\ ret[c] \in {"pick", "schedule_blocked"}
    BY DEF ActivateBlockSc, Control, CpuOK
  <2>2. /\ pc[c] = "activate" /\ pc'[c] \in {"schedule_blocked", "pick"}
        /\ scq' = [scq EXCEPT ![arg[c]] = Append(@, cur[c])]
        /\ UNCHANGED <<ready, release, cur>>
    BY <2>1 DEF ActivateBlockSc, Leave, Call, Goto, TypeOK, TypeCtl, scVars
  <2> DEFINE s == cur[c]
             e == arg[c]
  <2>3. s \in SCs /\ ScCpu(s) = c /\ s \in created' /\ ~Queued(s)
    BY <1>7, <2>2 DEF TypeOK, TypeSc, Control, CpuOK, Frame, ScInv, RunningNotQueued
  <2>4. ~InReady(s) /\ ~InRelease(s) /\ \A f \in ECs : ~WaitsOn(s, f)
    BY <2>3 DEF Queued
  <2> HIDE DEF s
  <2>5. ReadyPlaced' /\ \A r \in SCs : InReady(r)' <=> InReady(r)
    BY <2>0, <2>2, ReadySame
  <2>6. ReleasePlaced' /\ \A r \in SCs : InRelease(r)' <=> InRelease(r)
    BY <2>0, <2>2, ReleaseSame
  <2>7. /\ WaitPlaced'
        /\ \A r \in SCs, f \in ECs : WaitsOn(r, f)' <=> WaitsOn(r, f) \/ (r = s /\ f = e)
    BY <2>0, <2>1, <2>2, <2>3, <2>4, WaitAdd, ZenonT(40) DEF s
  <2>8. OnePlace'
    BY <2>0, <2>4, <2>5, <2>6, <2>7 DEF OnePlace
  <2>9. \A r \in SCs : Queued(r)' => Queued(r) \/ r = s
    BY <2>5, <2>6, <2>7 DEF Queued
  <2>10. \A d \in CPUs : cur[d] = s => d = c
    BY <2>3 DEF Control, CpuOK, s
  <2>11. Between(c)' /\ cur' = cur
    BY <2>2 DEF Between
  <2> QED BY <1>7, <2>3, <2>5, <2>6, <2>7, <2>8, <2>9, <2>10, <2>11, QueuesAdd
<1> QED BY <1>1, <1>2, <1>3, <1>4, <1>5, <1>6, <1>7, <1>8, FrameControl DEF TypeOK, Inv

\* Pick keeps Inv.
LEMMA PickInv ==
    ASSUME TypeOK, Control, ScInv, NEW c \in CPUs,
           Pick(c), UNCHANGED smVars
    PROVE  Inv'
<1>1. TypeCtl'
  <2>0. TypeSc /\ ready[c][top[c]] \in Seq(SCs) /\ ready[c][top[c]] # <<>>
    BY ZenonT(40) DEF Pick, ReadyDequeue, TypeOK, TypeSc
  <2>1. ReadyHead(c) \in SCs /\ Tail(ready[c][top[c]]) \in Seq(SCs)
    BY <2>0, ElemsTail DEF ReadyHead
  <2>2. ScEc[ReadyHead(c)] \in ECs
    BY <2>1, Constants
  <2> QED BY <2>2 DEF Pick, EnterActivate, Call, Goto, TypeOK, TypeCtl, PCs
<1>2. TypeSc'
  <2>0. TypeSc /\ ready[c][top[c]] \in Seq(SCs) /\ ready[c][top[c]] # <<>>
    BY ZenonT(40) DEF Pick, ReadyDequeue, TypeOK, TypeSc
  <2>1. ReadyHead(c) \in SCs /\ Tail(ready[c][top[c]]) \in Seq(SCs)
    BY <2>0, ElemsTail DEF ReadyHead
  <2>2. ready' \in [CPUs -> [0 .. MaxPrio -> Seq(SCs)]]
    BY <2>0, <2>1 DEF Pick, ReadyDequeue, TypeSc
  <2>3. top' \in [CPUs -> 0 .. MaxPrio]
    BY <2>0 DEF Pick, ReadyDequeue, TypeSc
  <2> QED BY <2>0, <2>1, <2>2, <2>3 DEF Pick, TypeSc
<1>3. TypeEc'
  <2>0. TypeSc /\ ready[c][top[c]] \in Seq(SCs) /\ ready[c][top[c]] # <<>>
    BY ZenonT(40) DEF Pick, ReadyDequeue, TypeOK, TypeSc
  <2>1. ReadyHead(c) \in SCs
    BY <2>0, ElemsTail DEF ReadyHead
  <2>2. ScEc[ReadyHead(c)] \in ECs
    BY <2>1, Constants
  <2>3. don' = [don EXCEPT ![c] = 0] /\ act' = [act EXCEPT ![c] = ScEc[ReadyHead(c)]]
    BY DEF Pick, EnterActivate
  <2>4. UNCHANGED <<ec, cont, callee, caller, want, scq>>
    BY DEF Pick
  <2> QED BY <2>2, <2>3, <2>4 DEF TypeOK, TypeEc
<1>4. TypeSm'
  BY DEF TypeOK, TypeSm, Pick, ReadyDequeue, ReadyHead, EnterActivate, Call, Goto,
     smVars
<1>5. CpuOK(c)'
  <2>0. TypeSc /\ ready[c][top[c]] \in Seq(SCs) /\ ready[c][top[c]] # <<>>
    BY ZenonT(40) DEF Pick, ReadyDequeue, TypeOK, TypeSc
  <2>1. ReadyHead(c) \in SCs /\ Tail(ready[c][top[c]]) \in Seq(SCs)
    BY <2>0, ElemsTail DEF ReadyHead
  <2>2. ReadyHead(c) \in Elems(ready[c][top[c]]) /\ top[c] \in 0 .. MaxPrio
    BY <2>0, ElemsTail DEF ReadyHead, TypeSc
  <2>3. ScCpu(ReadyHead(c)) = c /\ Prio[ReadyHead(c)] = top[c]
    BY <2>2 DEF ScInv, ScQueuedOnce, ReadyPlaced
  <2>4. ReadyHead(c) \in created
    BY <2>1, <2>2, <2>3 DEF ScInv, QueuedCreated, Queued, InReady
  <2>5. /\ pc'[c] = "activate" /\ arg'[c] = ScEc[ReadyHead(c)] /\ ret'[c] = "pick"
        /\ cur'[c] = ReadyHead(c) /\ ec' = ec /\ created' = created
    BY DEF Pick, EnterActivate, Call, Goto, TypeOK, TypeCtl, TypeSc
  <2>6. EcCpu[ec[c]] = c /\ ScEc[ReadyHead(c)] \in ECs
    BY <2>1, Constants DEF Control, CpuOK
  <2> QED BY <2>3, <2>4, <2>5, <2>6 DEF CpuOK, Handlers, AtHelp, ScCpu
<1>6. LinksOK'
  BY DEF TypeOK, TypeEc, Control, LinksOK, Pick, ReadyDequeue, ReadyHead, EnterActivate,
     Call, Goto, smVars
<1>7. Frame(c)
  BY DEF TypeOK, TypeCtl, Frame, Pick, ReadyDequeue, ReadyHead, EnterActivate, Call,
     Goto, smVars
<1>8. ScInv'
  <2>0. /\ ReadyPlaced /\ ReleasePlaced /\ WaitPlaced /\ OnePlace
        /\ TypeSc /\ TypeEc
    BY DEF ScInv, ScQueuedOnce, TypeOK
  <2> DEFINE s == ReadyHead(c)
  <2>1. ReadyDequeue(c) /\ cur' = [cur EXCEPT ![c] = s] /\ UNCHANGED <<release, scq, created>>
    BY DEF Pick
  <2>2. /\ ReadyPlaced' /\ s \in SCs /\ InReady(s)
        /\ \A r \in SCs : InReady(r)' <=> InReady(r) /\ r # s
    BY <2>0, <2>1, ReadyDel
  <2> HIDE DEF s
  <2>3. ReleasePlaced' /\ \A r \in SCs : InRelease(r)' <=> InRelease(r)
    BY <2>0, <2>1, ReleaseSame
  <2>4. WaitPlaced' /\ \A r \in SCs, f \in ECs : WaitsOn(r, f)' <=> WaitsOn(r, f)
    BY <2>0, <2>1, WaitSame
  <2>5. OnePlace'
    BY <2>0, <2>2, <2>3, <2>4 DEF OnePlace
  <2>9. PICK t \in SCs : t = s
    BY <2>2
  <2>6. (\A r \in SCs : Queued(r)' => Queued(r)) /\ ~Queued(t)'
    <3>1. ~InRelease(t) /\ \A e \in ECs : ~WaitsOn(t, e)
      BY <2>0, <2>2, <2>9 DEF OnePlace
    <3> QED BY <2>2, <2>3, <2>4, <2>9, <3>1 DEF Queued
  <2>7. QueuedCreated'
    BY <2>1, <2>6 DEF ScInv, QueuedCreated
  <2>8. RunningNotQueued'
    <3> SUFFICES ASSUME NEW d \in CPUs, Queued(cur[d])' PROVE Between(d)'
      BY DEF RunningNotQueued, Between
    <3>1. PICK r \in SCs : r = cur'[d] /\ (d = c => r = s) /\ (d # c => r = cur[d])
      BY <2>1, <2>2 DEF TypeOK, TypeSc
    <3>2. Queued(r)'
      BY <3>1 DEF Queued, InReady, InRelease, WaitsOn, ScCpu, Elems
    <3>3. d # c /\ Queued(cur[d])
      BY <2>6, <2>9, <3>1, <3>2
    <3> QED BY <1>7, <3>3 DEF ScInv, RunningNotQueued, Between, Frame
  <2> QED BY <2>2, <2>3, <2>4, <2>5, <2>7, <2>8 DEF ScInv, ScQueuedOnce
<1> QED BY <1>1, <1>2, <1>3, <1>4, <1>5, <1>6, <1>7, <1>8, FrameControl DEF TypeOK, Inv

\* UnblockSc keeps Inv.
LEMMA UnblockScInv ==
    ASSUME TypeOK, Control, ScInv, NEW c \in CPUs,
           UnblockSc(c), UNCHANGED smVars
    PROVE  Inv'
<1>1. TypeCtl'
  BY DEF TypeOK, TypeCtl, PCs, UnblockSc, Goto, smVars, scVars, ecVars
<1>2. TypeSc'
  BY DEF TypeOK, TypeSc, UnblockSc, Goto, smVars, scVars, ecVars
<1>3. TypeEc'
  BY DEF TypeOK, TypeEc, UnblockSc, Goto, smVars, scVars, ecVars
<1>4. TypeSm'
  BY DEF TypeOK, TypeSm, UnblockSc, Goto, smVars, scVars, ecVars
<1>5. CpuOK(c)'
  BY Constants DEF TypeOK, TypeCtl, TypeEc, TypeSc, Control, CpuOK, Handlers, AtHelp,
     UnblockSc, Goto, smVars, scVars, ecVars
<1>6. LinksOK'
  BY DEF TypeOK, TypeEc, Control, LinksOK, UnblockSc, Goto, smVars, scVars, ecVars
<1>7. Frame(c)
  BY DEF TypeOK, TypeCtl, Frame, UnblockSc, Goto, smVars, scVars, ecVars
<1>8. ScInv'
  <2>1. UNCHANGED <<ready, release, scq, cur>>
    BY DEF UnblockSc, Goto, smVars, scVars, ecVars
  <2>2. Between(c) => Between(c)'
    BY DEF Between, TypeOK, TypeCtl, UnblockSc, Goto, smVars, scVars, ecVars
  <2> QED BY <1>7, <2>1, <2>2, QueuesSame
<1> QED BY <1>1, <1>2, <1>3, <1>4, <1>5, <1>6, <1>7, <1>8, FrameControl DEF TypeOK, Inv

\* UnblockLoop keeps Inv.
LEMMA UnblockLoopInv ==
    ASSUME TypeOK, Control, ScInv, NEW c \in CPUs,
           UnblockLoop(c), UNCHANGED smVars
    PROVE  Inv'
<1>1. TypeCtl'
  BY DEF TypeOK, TypeCtl, PCs, UnblockLoop, ReleaseEnqueue, Leave, Call, Goto, ctlVars,
     smVars
<1>2. TypeSc'
  <2> DEFINE e == arg[c]
             s == Head(scq[e])
  <2>1. e \in ECs /\ scq[e] \in Seq(SCs) /\ TypeSc
    BY DEF UnblockLoop, Control, CpuOK, TypeOK, TypeEc
  <2>2. CASE scq[e] = <<>>
    BY <2>1, <2>2 DEF UnblockLoop, TypeSc
  <2>3. CASE scq[e] # <<>>
    <3>1. s \in SCs /\ Tail(scq[e]) \in Seq(SCs) /\ ScCpu(s) \in CPUs
      BY <2>1, <2>3, ElemsTail, Constants DEF ScCpu
    <3>2. left[s] \in BOOLEAN /\ sched[c] \in BOOLEAN
      BY <2>1, <3>1 DEF TypeSc
    <3>3. CASE ScCpu(s) = c
      <4>1. ReadyEnqueue(c, s, left[s], sched[c]) /\ UNCHANGED <<release, cur, rrq, created>>
        BY <2>3, <3>3 DEF UnblockLoop
      <4> HIDE DEF s
      <4>2. /\ ready' \in [CPUs -> [0 .. MaxPrio -> Seq(SCs)]] /\ top' \in [CPUs -> 0 .. MaxPrio]
            /\ sched' \in [CPUs -> BOOLEAN] /\ left' \in [SCs -> BOOLEAN]
        BY <2>1, <3>1, <3>2, <4>1, ReadyEnqueueType
      <4> QED BY <2>1, <4>1, <4>2 DEF TypeSc
    <3>4. CASE ScCpu(s) # c
      <4>1. /\ release' = [release EXCEPT ![ScCpu(s)] = Append(@, s)]
            /\ UNCHANGED <<ready, top, sched, left, cur, rrq, created>>
        BY <2>3, <3>4 DEF UnblockLoop, ReleaseEnqueue
      <4> HIDE DEF s
      <4>2. Append(release[ScCpu(s)], s) \in Seq(SCs)
        BY <2>1, <3>1, ElemsAppend DEF TypeSc
      <4>3. release' \in [CPUs -> Seq(SCs)]
        BY <2>1, <3>1, <4>1, <4>2 DEF TypeSc
      <4> QED BY <2>1, <4>1, <4>3 DEF TypeSc
    <3> QED BY <3>3, <3>4
  <2> QED BY <2>2, <2>3
<1>3. TypeEc'
  <2> DEFINE e == arg[c]
             s == Head(scq[e])
  <2>1. e \in ECs /\ scq[e] \in Seq(SCs) /\ TypeSc
    BY DEF UnblockLoop, Control, CpuOK, TypeOK, TypeEc
  <2>2. CASE scq[e] = <<>>
    BY <2>1, <2>2 DEF UnblockLoop, TypeOK, TypeEc
  <2>3. CASE scq[e] # <<>>
    <3>1. s \in SCs /\ Tail(scq[e]) \in Seq(SCs) /\ ScCpu(s) \in CPUs
      BY <2>1, <2>3, ElemsTail, Constants DEF ScCpu
    <3>2. scq' = [scq EXCEPT ![e] = Tail(@)] /\ UNCHANGED <<ec, don, act, cont, callee, caller, want>>
      BY <2>3 DEF UnblockLoop
    <3> QED BY <2>1, <3>1, <3>2 DEF TypeOK, TypeEc
  <2> QED BY <2>2, <2>3
<1>4. TypeSm'
  BY DEF TypeOK, TypeSm, UnblockLoop, ReleaseEnqueue, Leave, Call, Goto, ctlVars, smVars
<1>5. CpuOK(c)'
  <2>1. /\ CpuOK(c) /\ pc[c] \in Handlers /\ ret[c] \in Resumes /\ arg[c] \in ECs
        /\ UNCHANGED <<cur, created, ec, want>>
    BY DEF Control, CpuOK, UnblockLoop, Handlers
  <2>2. CASE pc'[c] = ret[c]
    <3>1. ret[c] = "help" => AtHelp(c)
      BY <2>1 DEF AtHelp
    <3>2. pc'[c] \notin Handlers \cup {"activate", "notify_created"}
      BY <2>1, <2>2 DEF Resumes, Handlers
    <3> QED BY <2>1, <2>2, <3>1, <3>2 DEF CpuOK, AtHelp, ScCpu, Handlers
  <2>3. CASE pc'[c] \in Handlers /\ arg'[c] = arg[c] /\ ret'[c] = ret[c]
    <3>1. pc'[c] # "activate"
      BY <2>3 DEF Handlers
    <3> QED BY <2>1, <2>3, <3>1 DEF CpuOK, AtHelp, ScCpu, Handlers
  <2>4. pc'[c] = ret[c] \/ (pc'[c] \in Handlers /\ arg'[c] = arg[c] /\ ret'[c] = ret[c])
    BY DEF UnblockLoop, Leave, Call, Goto, ctlVars, Handlers, TypeOK, TypeCtl
  <2> QED BY <2>2, <2>3, <2>4
<1>6. LinksOK'
  BY DEF TypeOK, TypeEc, Control, LinksOK, UnblockLoop, ReleaseEnqueue, Leave, Call,
     Goto, ctlVars, smVars
<1>7. Frame(c)
  BY DEF TypeOK, TypeCtl, Frame, UnblockLoop, ReleaseEnqueue, Leave, Call, Goto,
     ctlVars, smVars
<1>8. ScInv'
  <2>a. CASE scq[arg[c]] = <<>>
    <3>1. UNCHANGED <<ready, release, scq, cur>> /\ ~Between(c)
      BY <2>a DEF UnblockLoop, Between
    <3> QED BY <1>7, <3>1, QueuesSame
  <2>b. CASE scq[arg[c]] # <<>>
    <3> DEFINE e == arg[c]
               s == Head(scq[e])
    <3>0. /\ ReadyPlaced /\ ReleasePlaced /\ WaitPlaced /\ OnePlace
          /\ TypeSc /\ TypeEc /\ e \in ECs
      BY DEF ScInv, ScQueuedOnce, TypeOK, Control, CpuOK, UnblockLoop
    <3>1. /\ scq' = [scq EXCEPT ![e] = Tail(@)]
          /\ \/ /\ ScCpu(s) = c /\ UNCHANGED release
                /\ ReadyEnqueue(c, s, left[s], sched[c])
             \/ ReleaseEnqueue(s) /\ UNCHANGED ready
          /\ cur' = cur /\ ~Between(c)
      BY <2>b DEF UnblockLoop, Between
    <3>2. /\ WaitPlaced' /\ s \in SCs /\ WaitsOn(s, e)
          /\ \A r \in SCs, f \in ECs : WaitsOn(r, f)' <=> WaitsOn(r, f) /\ ~(r = s /\ f = e)
      BY <2>b, <3>0, <3>1, WaitDel
    <3> HIDE DEF s, e
    <3>3. ~InReady(s) /\ ~InRelease(s) /\ \A f \in ECs : WaitsOn(s, f) => f = e
      BY <3>0, <3>2 DEF OnePlace
    <3>4. /\ ReadyPlaced' /\ ReleasePlaced'
          /\ \/ /\ \A r \in SCs : InReady(r)' <=> InReady(r) \/ r = s
                /\ \A r \in SCs : InRelease(r)' <=> InRelease(r)
             \/ /\ \A r \in SCs : InReady(r)' <=> InReady(r)
                /\ \A r \in SCs : InRelease(r)' <=> InRelease(r) \/ r = s
      <4>1. CASE /\ ScCpu(s) = c /\ UNCHANGED release
                 /\ ReadyEnqueue(c, s, left[s], sched[c])
        BY <3>0, <3>2, <3>3, <4>1, ReadyAdd, ReleaseSame
      <4>2. CASE ReleaseEnqueue(s) /\ UNCHANGED ready
        BY <3>0, <3>2, <3>3, <4>2, ReleaseAdd, ReadySame
      <4> QED BY <3>1, <4>1, <4>2
    <3>5. OnePlace'
      <4>1. PICK t \in SCs : t = s
        BY <3>2
      <4>2. \A f \in ECs : ~WaitsOn(t, f)'
        BY <3>2, <3>3, <4>1
      <4> QED BY <3>0, <3>2, <3>3, <3>4, <4>1, <4>2 DEF OnePlace
    <3>6. Queued(s) /\ \A r \in SCs : Queued(r)' => Queued(r) \/ r = s
      BY <3>0, <3>2, <3>4 DEF Queued
    <3>7. s \in created'
      BY <1>7, <3>2, <3>6 DEF ScInv, QueuedCreated, Frame
    <3> QED BY <1>7, <3>1, <3>2, <3>4, <3>5, <3>6, <3>7, QueuesAdd
  <2> QED BY <2>a, <2>b
<1> QED BY <1>1, <1>2, <1>3, <1>4, <1>5, <1>6, <1>7, <1>8, FrameControl DEF TypeOK, Inv

\* Notify keeps Inv.
LEMMA NotifyInv ==
    ASSUME TypeOK, Control, ScInv, NEW c \in CPUs,
           Notify(c), UNCHANGED smVars
    PROVE  Inv'
<1>1. TypeCtl'
  BY DEF TypeOK, TypeCtl, PCs, Notify, Goto, smVars, ecVars
<1>2. TypeSc'
  BY DEF TypeOK, TypeSc, Notify, Goto, smVars, ecVars
<1>3. TypeEc'
  BY DEF TypeOK, TypeEc, Notify, Goto, smVars, ecVars
<1>4. TypeSm'
  BY DEF TypeOK, TypeSm, Notify, Goto, smVars, ecVars
<1>5. CpuOK(c)'
  BY Constants DEF TypeOK, TypeCtl, TypeEc, TypeSc, Control, CpuOK, Handlers, AtHelp,
     Notify, Goto, smVars, ecVars
<1>6. LinksOK'
  BY DEF TypeOK, TypeEc, Control, LinksOK, Notify, Goto, smVars, ecVars
<1>7. Frame(c)
  BY DEF TypeOK, TypeCtl, Frame, Notify, Goto, smVars, ecVars
<1>8. ScInv'
  <2>1. UNCHANGED <<ready, release, scq, cur>>
    BY DEF Notify, Goto, smVars, ecVars
  <2>2. Between(c) => Between(c)'
    BY DEF Between, TypeOK, TypeCtl, Notify, Goto, smVars, ecVars
  <2> QED BY <1>7, <2>1, <2>2, QueuesSame
<1> QED BY <1>1, <1>2, <1>3, <1>4, <1>5, <1>6, <1>7, <1>8, FrameControl DEF TypeOK, Inv

\* NamePortal keeps Inv.
LEMMA NamePortalInv ==
    ASSUME TypeOK, Control, ScInv, NEW c \in CPUs, NEW p \in {"sys_ipc_call", "send_msg"},
           NamePortal(c, p), UNCHANGED smVars
    PROVE  Inv'
<1>1. TypeCtl'
  BY Constants DEF TypeOK, TypeCtl, PCs, Conts, NamePortal, User, Goto, smVars, scVars
<1>2. TypeSc'
  BY DEF TypeOK, TypeSc, NamePortal, User, Goto, smVars, scVars
<1>3. TypeEc'
  <2>1. PICK s \in ECs \cup {NoEc} : want' = [want EXCEPT ![ec[c]] = s]
    BY EcAssumption DEF NamePortal
  <2>2. UNCHANGED <<ec, don, act, cont, callee, caller, scq>>
    BY DEF NamePortal
  <2> QED BY <2>1, <2>2 DEF TypeOK, TypeEc
<1>4. TypeSm'
  BY DEF TypeOK, TypeSm, NamePortal, User, Goto, smVars, scVars
<1>5. CpuOK(c)'
  <2>1. CpuOK(c) /\ UNCHANGED <<cur, created, ec>>
    BY DEF Control, NamePortal, scVars
  <2>2. pc'[c] \notin {"activate", "help", "notify_created"} \cup Handlers
    BY DEF NamePortal, Goto, Handlers, TypeOK, TypeCtl
  <2> QED BY <2>1, <2>2, PlainCpu DEF CpuOK, ScCpu
<1>6. LinksOK'
  BY DEF TypeOK, TypeEc, Control, LinksOK, NamePortal, User, Goto, smVars, scVars
<1>7. Frame(c)
  BY DEF TypeOK, TypeCtl, TypeEc, TypeSc, Frame, Control, CpuOK, NamePortal, User, Goto,
     smVars, scVars
<1>8. ScInv'
  <2>1. UNCHANGED <<ready, release, scq, cur>>
    BY DEF NamePortal, User, Goto, smVars, scVars
  <2>2. Between(c) => Between(c)'
    BY DEF Between, TypeOK, TypeCtl, NamePortal, User, Goto, smVars, scVars
  <2> QED BY <1>7, <2>1, <2>2, QueuesSame
<1> QED BY <1>1, <1>2, <1>3, <1>4, <1>5, <1>6, <1>7, <1>8, FrameControl DEF TypeOK, Inv

\* SysIpcCall keeps Inv.
LEMMA SysIpcCallInv ==
    ASSUME TypeOK, Control, ScInv, NEW c \in CPUs,
           SysIpcCall(c), UNCHANGED smVars
    PROVE  Inv'
<1>1. TypeCtl'
  BY Constants DEF TypeOK, TypeCtl, PCs, Conts, SysIpcCall, Bail, Rendezvous, EnterHelp,
     MakeCurrent, Leave, Call, Goto, smVars, scVars
<1>2. TypeSc'
  BY DEF TypeOK, TypeSc, SysIpcCall, Bail, Rendezvous, EnterHelp, MakeCurrent, Leave,
     Call, Goto, smVars, scVars
<1>3. TypeEc'
  <2> DEFINE self == ec[c]
             s == want[self]
  <2>0. self \in ECs /\ s \in ECs \cup {NoEc} /\ EcCpu[self] = c /\ CpuOK(c)
    BY DEF TypeOK, TypeEc, Control, CpuOK
  <2> SUFFICES ASSUME pc[c] = "sys_ipc_call",
                      \/ Bail(c, "ret_user_hypercall")
                      \/ s # NoEc /\ EcCpu[s] = c /\ Rendezvous(c, s, "ret_user_hypercall", "recv_user")
                      \/ s # NoEc /\ EcCpu[s] = c /\ EnterHelp(c, s, "sys_ipc_call")
               PROVE  TypeEc'
    BY DEF SysIpcCall
  <2>1. CASE Bail(c, "ret_user_hypercall")
    BY <2>0, <2>1, Constants DEF Bail, TypeOK, TypeEc
  <2>2. CASE s # NoEc /\ EcCpu[s] = c /\ Rendezvous(c, s, "ret_user_hypercall", "recv_user")
    <3>1. s \in ECs /\ cont \in [ECs -> Conts] /\ cont' = [cont EXCEPT ![self] = "ret_user_hypercall", ![s] = "recv_user"]
      BY <2>0, <2>2 DEF Rendezvous, TypeOK, TypeEc
    <3>2. cont' \in [ECs -> Conts]
      BY <2>0, <3>1 DEF Conts
    <3>3. /\ callee' \in [ECs -> ECs \cup {NoEc}] /\ caller' \in [ECs -> ECs \cup {NoEc}]
          /\ want' \in [ECs -> ECs \cup {NoEc}]
      BY <2>0, <3>1, <2>2 DEF Rendezvous, TypeOK, TypeEc
    <3>4. ec' \in [CPUs -> ECs] /\ don' \in [CPUs -> Nat] /\ act' = act /\ scq' = scq
      BY <2>0, <3>1, <2>2 DEF Rendezvous, MakeCurrent, TypeOK, TypeEc
    <3> QED BY <3>2, <3>3, <3>4 DEF TypeOK, TypeEc
  <2>3. CASE s # NoEc /\ EcCpu[s] = c /\ EnterHelp(c, s, "sys_ipc_call")
    BY <2>0, <2>3 DEF EnterHelp, TypeOK, TypeEc, Conts
  <2> QED BY <2>1, <2>2, <2>3
<1>4. TypeSm'
  BY DEF TypeOK, TypeSm, SysIpcCall, Bail, Rendezvous, EnterHelp, MakeCurrent, Leave,
     Call, Goto, smVars, scVars
<1>5. CpuOK(c)'
  <2> DEFINE self == ec[c]
             s == want[self]
  <2>0. self \in ECs /\ s \in ECs \cup {NoEc} /\ EcCpu[self] = c /\ CpuOK(c)
    BY DEF TypeOK, TypeEc, Control, CpuOK
  <2> SUFFICES ASSUME pc[c] = "sys_ipc_call",
                      \/ Bail(c, "ret_user_hypercall")
                      \/ s # NoEc /\ EcCpu[s] = c /\ Rendezvous(c, s, "ret_user_hypercall", "recv_user")
                      \/ s # NoEc /\ EcCpu[s] = c /\ EnterHelp(c, s, "sys_ipc_call")
               PROVE  CpuOK(c)'
    BY DEF SysIpcCall
  <2>1. CASE Bail(c, "ret_user_hypercall")
    <3>1. pc'[c] \notin {"activate", "help", "notify_created"} \cup Handlers
      BY <2>1 DEF Bail, Goto, TypeOK, TypeCtl, Handlers
    <3>2. UNCHANGED <<ec, cur, created>>
      BY <2>1 DEF Bail, scVars
    <3> QED BY <2>0, <3>1, <3>2, PlainCpu DEF CpuOK, ScCpu
  <2>2. CASE s # NoEc /\ EcCpu[s] = c /\ Rendezvous(c, s, "ret_user_hypercall", "recv_user")
    <3>1. pc'[c] \notin {"activate", "help", "notify_created"} \cup Handlers
      BY <2>2 DEF Rendezvous, MakeCurrent, Leave, Call, Goto, TypeOK, TypeCtl, Handlers
    <3>2. ec'[c] = s /\ UNCHANGED <<cur, created>>
      BY <2>0, <2>2 DEF Rendezvous, MakeCurrent, scVars, TypeOK, TypeEc
    <3> QED BY <2>0, <2>2, <3>1, <3>2, PlainCpu DEF CpuOK, ScCpu
  <2>3. CASE s # NoEc /\ EcCpu[s] = c /\ EnterHelp(c, s, "sys_ipc_call")
    <3>1. pc'[c] = "help" /\ UNCHANGED <<ec, cur, created, want>>
      BY <2>3 DEF EnterHelp, Goto, TypeOK, TypeCtl, scVars
    <3> QED BY <2>0, <2>3, <3>1 DEF CpuOK, AtHelp, ScCpu, Handlers
  <2> QED BY <2>1, <2>2, <2>3
<1>6. LinksOK'
  <2> DEFINE self == ec[c]
             s == want[self]
  <2>0. self \in ECs /\ s \in ECs \cup {NoEc} /\ EcCpu[self] = c /\ CpuOK(c)
    BY DEF TypeOK, TypeEc, Control, CpuOK
  <2> SUFFICES ASSUME pc[c] = "sys_ipc_call",
                      \/ Bail(c, "ret_user_hypercall")
                      \/ s # NoEc /\ EcCpu[s] = c /\ Rendezvous(c, s, "ret_user_hypercall", "recv_user")
                      \/ s # NoEc /\ EcCpu[s] = c /\ EnterHelp(c, s, "sys_ipc_call")
               PROVE  LinksOK'
    BY DEF SysIpcCall
  <2>1. CASE Bail(c, "ret_user_hypercall")
    BY <2>1 DEF Bail, Control, LinksOK
  <2>2. CASE s # NoEc /\ EcCpu[s] = c /\ Rendezvous(c, s, "ret_user_hypercall", "recv_user")
    BY <2>0, <2>2 DEF Rendezvous, Control, LinksOK, TypeOK, TypeEc
  <2>3. CASE s # NoEc /\ EcCpu[s] = c /\ EnterHelp(c, s, "sys_ipc_call")
    BY <2>3 DEF EnterHelp, Control, LinksOK
  <2> QED BY <2>1, <2>2, <2>3
<1>7. Frame(c)
  BY DEF TypeOK, TypeCtl, TypeEc, TypeSc, Frame, Control, CpuOK, SysIpcCall, Bail,
     Rendezvous, EnterHelp, MakeCurrent, Leave, Call, Goto, smVars, scVars
<1>8. ScInv'
  <2>1. UNCHANGED <<ready, release, scq, cur>>
    BY DEF SysIpcCall, Bail, Rendezvous, EnterHelp, MakeCurrent, Leave, Call, Goto,
       smVars, scVars
  <2>2. Between(c) => Between(c)'
    BY DEF Between, TypeOK, TypeCtl, SysIpcCall, Bail, Rendezvous, EnterHelp, MakeCurrent,
       Leave, Call, Goto, smVars, scVars
  <2> QED BY <1>7, <2>1, <2>2, QueuesSame
<1> QED BY <1>1, <1>2, <1>3, <1>4, <1>5, <1>6, <1>7, <1>8, FrameControl DEF TypeOK, Inv

\* SendMsg keeps Inv.
LEMMA SendMsgInv ==
    ASSUME TypeOK, Control, ScInv, NEW c \in CPUs,
           SendMsg(c), UNCHANGED smVars
    PROVE  Inv'
<1>1. TypeCtl'
  BY Constants DEF TypeOK, TypeCtl, PCs, Conts, SendMsg, Bail, Rendezvous, EnterHelp,
     MakeCurrent, Leave, Call, Goto, smVars, scVars
<1>2. TypeSc'
  BY DEF TypeOK, TypeSc, SendMsg, Bail, Rendezvous, EnterHelp, MakeCurrent, Leave, Call,
     Goto, smVars, scVars
<1>3. TypeEc'
  <2> DEFINE self == ec[c]
             s == want[self]
  <2>0. self \in ECs /\ s \in ECs \cup {NoEc} /\ EcCpu[self] = c /\ CpuOK(c)
    BY DEF TypeOK, TypeEc, Control, CpuOK
  <2> SUFFICES ASSUME pc[c] = "send_msg",
                      \/ Bail(c, "kill")
                      \/ s # NoEc /\ EcCpu[s] = c /\ Rendezvous(c, s, "ret_user_exception", "recv_kern")
                      \/ s # NoEc /\ EcCpu[s] = c /\ EnterHelp(c, s, "send_msg")
               PROVE  TypeEc'
    BY DEF SendMsg
  <2>1. CASE Bail(c, "kill")
    BY <2>0, <2>1, Constants DEF Bail, TypeOK, TypeEc
  <2>2. CASE s # NoEc /\ EcCpu[s] = c /\ Rendezvous(c, s, "ret_user_exception", "recv_kern")
    <3>1. s \in ECs /\ cont \in [ECs -> Conts] /\ cont' = [cont EXCEPT ![self] = "ret_user_exception", ![s] = "recv_kern"]
      BY <2>0, <2>2 DEF Rendezvous, TypeOK, TypeEc
    <3>2. cont' \in [ECs -> Conts]
      BY <2>0, <3>1 DEF Conts
    <3>3. /\ callee' \in [ECs -> ECs \cup {NoEc}] /\ caller' \in [ECs -> ECs \cup {NoEc}]
          /\ want' \in [ECs -> ECs \cup {NoEc}]
      BY <2>0, <3>1, <2>2 DEF Rendezvous, TypeOK, TypeEc
    <3>4. ec' \in [CPUs -> ECs] /\ don' \in [CPUs -> Nat] /\ act' = act /\ scq' = scq
      BY <2>0, <3>1, <2>2 DEF Rendezvous, MakeCurrent, TypeOK, TypeEc
    <3> QED BY <3>2, <3>3, <3>4 DEF TypeOK, TypeEc
  <2>3. CASE s # NoEc /\ EcCpu[s] = c /\ EnterHelp(c, s, "send_msg")
    BY <2>0, <2>3 DEF EnterHelp, TypeOK, TypeEc, Conts
  <2> QED BY <2>1, <2>2, <2>3
<1>4. TypeSm'
  BY DEF TypeOK, TypeSm, SendMsg, Bail, Rendezvous, EnterHelp, MakeCurrent, Leave, Call,
     Goto, smVars, scVars
<1>5. CpuOK(c)'
  <2> DEFINE self == ec[c]
             s == want[self]
  <2>0. self \in ECs /\ s \in ECs \cup {NoEc} /\ EcCpu[self] = c /\ CpuOK(c)
    BY DEF TypeOK, TypeEc, Control, CpuOK
  <2> SUFFICES ASSUME pc[c] = "send_msg",
                      \/ Bail(c, "kill")
                      \/ s # NoEc /\ EcCpu[s] = c /\ Rendezvous(c, s, "ret_user_exception", "recv_kern")
                      \/ s # NoEc /\ EcCpu[s] = c /\ EnterHelp(c, s, "send_msg")
               PROVE  CpuOK(c)'
    BY DEF SendMsg
  <2>1. CASE Bail(c, "kill")
    <3>1. pc'[c] \notin {"activate", "help", "notify_created"} \cup Handlers
      BY <2>1 DEF Bail, Goto, TypeOK, TypeCtl, Handlers
    <3>2. UNCHANGED <<ec, cur, created>>
      BY <2>1 DEF Bail, scVars
    <3> QED BY <2>0, <3>1, <3>2, PlainCpu DEF CpuOK, ScCpu
  <2>2. CASE s # NoEc /\ EcCpu[s] = c /\ Rendezvous(c, s, "ret_user_exception", "recv_kern")
    <3>1. pc'[c] \notin {"activate", "help", "notify_created"} \cup Handlers
      BY <2>2 DEF Rendezvous, MakeCurrent, Leave, Call, Goto, TypeOK, TypeCtl, Handlers
    <3>2. ec'[c] = s /\ UNCHANGED <<cur, created>>
      BY <2>0, <2>2 DEF Rendezvous, MakeCurrent, scVars, TypeOK, TypeEc
    <3> QED BY <2>0, <2>2, <3>1, <3>2, PlainCpu DEF CpuOK, ScCpu
  <2>3. CASE s # NoEc /\ EcCpu[s] = c /\ EnterHelp(c, s, "send_msg")
    <3>1. pc'[c] = "help" /\ UNCHANGED <<ec, cur, created, want>>
      BY <2>3 DEF EnterHelp, Goto, TypeOK, TypeCtl, scVars
    <3> QED BY <2>0, <2>3, <3>1 DEF CpuOK, AtHelp, ScCpu, Handlers
  <2> QED BY <2>1, <2>2, <2>3
<1>6. LinksOK'
  <2> DEFINE self == ec[c]
             s == want[self]
  <2>0. self \in ECs /\ s \in ECs \cup {NoEc} /\ EcCpu[self] = c /\ CpuOK(c)
    BY DEF TypeOK, TypeEc, Control, CpuOK
  <2> SUFFICES ASSUME pc[c] = "send_msg",
                      \/ Bail(c, "kill")
                      \/ s # NoEc /\ EcCpu[s] = c /\ Rendezvous(c, s, "ret_user_exception", "recv_kern")
                      \/ s # NoEc /\ EcCpu[s] = c /\ EnterHelp(c, s, "send_msg")
               PROVE  LinksOK'
    BY DEF SendMsg
  <2>1. CASE Bail(c, "kill")
    BY <2>1 DEF Bail, Control, LinksOK
  <2>2. CASE s # NoEc /\ EcCpu[s] = c /\ Rendezvous(c, s, "ret_user_exception", "recv_kern")
    BY <2>0, <2>2 DEF Rendezvous, Control, LinksOK, TypeOK, TypeEc
  <2>3. CASE s # NoEc /\ EcCpu[s] = c /\ EnterHelp(c, s, "send_msg")
    BY <2>3 DEF EnterHelp, Control, LinksOK
  <2> QED BY <2>1, <2>2, <2>3
<1>7. Frame(c)
  BY DEF TypeOK, TypeCtl, TypeEc, TypeSc, Frame, Control, CpuOK, SendMsg, Bail,
     Rendezvous, EnterHelp, MakeCurrent, Leave, Call, Goto, smVars, scVars
<1>8. ScInv'
  <2>1. UNCHANGED <<ready, release, scq, cur>>
    BY DEF SendMsg, Bail, Rendezvous, EnterHelp, MakeCurrent, Leave, Call, Goto, smVars,
       scVars
  <2>2. Between(c) => Between(c)'
    BY DEF Between, TypeOK, TypeCtl, SendMsg, Bail, Rendezvous, EnterHelp, MakeCurrent,
       Leave, Call, Goto, smVars, scVars
  <2> QED BY <1>7, <2>1, <2>2, QueuesSame
<1> QED BY <1>1, <1>2, <1>3, <1>4, <1>5, <1>6, <1>7, <1>8, FrameControl DEF TypeOK, Inv

\* Help keeps Inv.
LEMMA HelpInv ==
    ASSUME TypeOK, Control, ScInv, NEW c \in CPUs,
           Help(c), UNCHANGED smVars
    PROVE  Inv'
<1>1. TypeCtl'
  <2>1. want[ec[c]] \in ECs
    BY DEF Help, Control, CpuOK, AtHelp
  <2> QED BY <2>1 DEF Help, EnterActivate, Call, Goto, TypeOK, TypeCtl, PCs
<1>2. TypeSc'
  BY DEF TypeOK, TypeSc, Help, EnterActivate, Call, Goto, smVars, scVars
<1>3. TypeEc'
  <2>1. want[ec[c]] \in ECs
    BY DEF Help, Control, CpuOK, AtHelp
  <2>2. /\ UNCHANGED <<ec, cont, callee, caller, want, scq>>
        /\ \/ UNCHANGED <<don, act>>
           \/ don' = [don EXCEPT ![c] = 0] /\ act' = [act EXCEPT ![c] = want[ec[c]]]
    BY DEF Help, EnterActivate
  <2>3. don' \in [CPUs -> Nat] /\ act' \in [CPUs -> ECs]
    <3>1. don \in [CPUs -> Nat] /\ act \in [CPUs -> ECs]
      BY DEF TypeOK, TypeEc
    <3> QED BY <2>1, <2>2, <3>1
  <2> QED BY <2>2, <2>3 DEF TypeOK, TypeEc
<1>4. TypeSm'
  BY DEF TypeOK, TypeSm, Help, EnterActivate, Call, Goto, smVars, scVars
<1>5. CpuOK(c)'
  <2>1. CpuOK(c) /\ UNCHANGED <<cur, created, ec, want>> /\ pc[c] = "help"
    BY DEF Control, Help, scVars
  <2>2. want[ec[c]] \in ECs /\ EcCpu[want[ec[c]]] = c
    BY <2>1 DEF CpuOK, AtHelp
  <2>3. \/ pc'[c] = "schedule"
        \/ pc'[c] = "activate" /\ arg'[c] = want[ec[c]] /\ ret'[c] = "schedule_blocked"
    BY DEF Help, EnterActivate, Call, Goto, TypeOK, TypeCtl
  <2> QED BY <2>1, <2>2, <2>3 DEF CpuOK, AtHelp, ScCpu, Handlers
<1>6. LinksOK'
  BY DEF TypeOK, TypeEc, Control, LinksOK, Help, EnterActivate, Call, Goto, smVars,
     scVars
<1>7. Frame(c)
  BY DEF TypeOK, TypeCtl, Frame, Help, EnterActivate, Call, Goto, smVars, scVars
<1>8. ScInv'
  <2>1. UNCHANGED <<ready, release, scq, cur>>
    BY DEF Help, EnterActivate, Call, Goto, smVars, scVars
  <2>2. Between(c) => Between(c)'
    BY DEF Between, TypeOK, TypeCtl, Help, EnterActivate, Call, Goto, smVars, scVars
  <2> QED BY <1>7, <2>1, <2>2, QueuesSame
<1> QED BY <1>1, <1>2, <1>3, <1>4, <1>5, <1>6, <1>7, <1>8, FrameControl DEF TypeOK, Inv

\* Recv keeps Inv.
LEMMA RecvInv ==
    ASSUME TypeOK, Control, ScInv, NEW c \in CPUs,
           Recv(c), UNCHANGED smVars
    PROVE  Inv'
<1>1. TypeCtl'
  BY Constants DEF TypeOK, TypeCtl, PCs, Conts, Recv, Goto, smVars, scVars, ecVars
<1>2. TypeSc'
  BY DEF TypeOK, TypeSc, Recv, Goto, smVars, scVars, ecVars
<1>3. TypeEc'
  BY DEF TypeOK, TypeEc, Recv, Goto, smVars, scVars, ecVars
<1>4. TypeSm'
  BY DEF TypeOK, TypeSm, Recv, Goto, smVars, scVars, ecVars
<1>5. CpuOK(c)'
  BY Constants DEF TypeOK, TypeCtl, TypeEc, TypeSc, Control, CpuOK, Handlers, AtHelp,
     Recv, Goto, smVars, scVars, ecVars
<1>6. LinksOK'
  BY DEF TypeOK, TypeEc, Control, LinksOK, Recv, Goto, smVars, scVars, ecVars
<1>7. Frame(c)
  BY DEF TypeOK, TypeCtl, Frame, Recv, Goto, smVars, scVars, ecVars
<1>8. ScInv'
  <2>1. UNCHANGED <<ready, release, scq, cur>>
    BY DEF Recv, Goto, smVars, scVars, ecVars
  <2>2. Between(c) => Between(c)'
    BY DEF Between, TypeOK, TypeCtl, Recv, Goto, smVars, scVars, ecVars
  <2> QED BY <1>7, <2>1, <2>2, QueuesSame
<1> QED BY <1>1, <1>2, <1>3, <1>4, <1>5, <1>6, <1>7, <1>8, FrameControl DEF TypeOK, Inv

\* Reply keeps Inv.
LEMMA ReplyInv ==
    ASSUME TypeOK, Control, ScInv, NEW c \in CPUs, ~Between(c), NEW x \in Conts, NEW k \in Conts,
           Reply(c, x, k), UNCHANGED smVars
    PROVE  Inv'
<1>1. TypeCtl'
  <2> DEFINE self == ec[c]
             q == caller[self]
  <2>0. self \in ECs /\ q \in ECs \cup {NoEc} /\ cur[c] \in SCs /\ ScEc[cur[c]] \in ECs
    BY Constants DEF TypeOK, TypeEc, TypeSc
  <2>1. CASE q = NoEc
    BY <2>1 DEF Reply, Goto, TypeOK, TypeCtl, PCs
  <2>2. CASE q # NoEc /\ don[c] # 0
    BY <2>2 DEF Reply, MakeCurrent, Leave, Call, Goto, TypeOK, TypeCtl, PCs
  <2>3. CASE q # NoEc /\ don[c] = 0
    BY <2>0, <2>3 DEF Reply, EnterActivate, Call, Goto, TypeOK, TypeCtl, PCs
  <2> QED BY <2>1, <2>2, <2>3
<1>2. TypeSc'
  BY DEF TypeOK, TypeSc, Reply, MakeCurrent, Leave, EnterActivate, Call, Goto, smVars,
     scVars
<1>3. TypeEc'
  <2> DEFINE self == ec[c]
             q == caller[self]
  <2>0. self \in ECs /\ q \in ECs \cup {NoEc} /\ cur[c] \in SCs /\ ScEc[cur[c]] \in ECs
    BY Constants DEF TypeOK, TypeEc, TypeSc
  <2>1. CASE q = NoEc
    BY <2>0, <2>1 DEF Reply, TypeOK, TypeEc
  <2>2. CASE q # NoEc /\ don[c] # 0
    <3>1. cont' = [cont EXCEPT ![self] = x, ![q] = k]
      BY <2>2 DEF Reply
    <3>2. cont' \in [ECs -> Conts]
      BY <2>0, <3>1 DEF TypeOK, TypeEc
    <3>3. callee' \in [ECs -> ECs \cup {NoEc}] /\ caller' \in [ECs -> ECs \cup {NoEc}]
      BY <2>0, <2>2 DEF Reply, TypeOK, TypeEc
    <3>5. don[c] \in Nat \ {0} /\ don' = [don EXCEPT ![c] = don[c] - 1]
      BY <2>0, <2>2 DEF Reply, TypeOK, TypeEc
    <3>6. don[c] - 1 \in Nat
      BY <3>5
    <3>4. ec' \in [CPUs -> ECs] /\ don' \in [CPUs -> Nat] /\ UNCHANGED <<act, want, scq>>
      BY <2>0, <2>2, <3>5, <3>6 DEF Reply, MakeCurrent, TypeOK, TypeEc
    <3> QED BY <3>2, <3>3, <3>4 DEF TypeOK, TypeEc
  <2>3. CASE q # NoEc /\ don[c] = 0
    <3>1. cont' = [cont EXCEPT ![self] = x, ![q] = k]
      BY <2>3 DEF Reply
    <3>2. cont' \in [ECs -> Conts]
      BY <2>0, <3>1 DEF TypeOK, TypeEc
    <3>3. callee' \in [ECs -> ECs \cup {NoEc}] /\ caller' \in [ECs -> ECs \cup {NoEc}]
      BY <2>0, <2>3 DEF Reply, TypeOK, TypeEc
    <3>5. /\ don' = [don EXCEPT ![c] = 0] /\ act' = [act EXCEPT ![c] = ScEc[cur[c]]]
          /\ UNCHANGED <<ec, want, scq>>
      BY <2>3 DEF Reply, EnterActivate
    <3>4. /\ ec' \in [CPUs -> ECs] /\ don' \in [CPUs -> Nat] /\ act' \in [CPUs -> ECs]
          /\ UNCHANGED <<want, scq>>
      BY <2>0, <3>5 DEF TypeOK, TypeEc
    <3> QED BY <3>2, <3>3, <3>4 DEF TypeOK, TypeEc
  <2> QED BY <2>1, <2>2, <2>3
<1>4. TypeSm'
  BY DEF TypeOK, TypeSm, Reply, MakeCurrent, Leave, EnterActivate, Call, Goto, smVars,
     scVars
<1>5. CpuOK(c)'
  <2>0. /\ ec \in [CPUs -> ECs] /\ caller \in [ECs -> ECs \cup {NoEc}] /\ CpuOK(c)
        /\ cur[c] \in SCs /\ ScEc[cur[c]] \in ECs /\ k \in Conts
    BY Constants DEF TypeOK, TypeEc, TypeSc, Control
  <2>1. CASE caller[ec[c]] = NoEc
    <3>1. UNCHANGED <<ec, cur, created>> /\ pc'[c] = "schedule_blocked"
      BY <2>1 DEF Reply, Goto, scVars, TypeOK, TypeCtl
    <3> QED BY <2>0, <3>1 DEF CpuOK, AtHelp, Handlers, ScCpu
  <2>2. CASE caller[ec[c]] # NoEc /\ don[c] # 0
    <3>1. UNCHANGED <<cur, created>> /\ pc'[c] = k /\ ec'[c] = caller[ec[c]]
      BY <2>0, <2>2 DEF Reply, MakeCurrent, Leave, Call, Goto, scVars, TypeOK, TypeCtl
    <3>2. EcCpu[caller[ec[c]]] = c
      BY <2>0, <2>2 DEF Control, LinksOK, CpuOK
    <3> QED BY <2>0, <3>1, <3>2 DEF CpuOK, AtHelp, Handlers, ScCpu, Conts
  <2>3. CASE caller[ec[c]] # NoEc /\ don[c] = 0
    <3>1. /\ UNCHANGED <<ec, cur, created>> /\ pc'[c] = "activate" /\ arg'[c] = ScEc[cur[c]]
          /\ ret'[c] = "schedule_blocked"
      BY <2>3 DEF Reply, EnterActivate, Call, Goto, scVars, TypeOK, TypeCtl
    <3> QED BY <2>0, <3>1 DEF CpuOK, AtHelp, Handlers, ScCpu
  <2> QED BY <2>1, <2>2, <2>3
<1>6. LinksOK'
  BY DEF TypeOK, TypeEc, Control, LinksOK, Reply, MakeCurrent, Leave, EnterActivate,
     Call, Goto, smVars, scVars
<1>7. Frame(c)
  BY DEF TypeOK, TypeCtl, TypeEc, TypeSc, Frame, Control, CpuOK, Reply, MakeCurrent,
     Leave, EnterActivate, Call, Goto, smVars, scVars
<1>8. ScInv'
  <2>1. UNCHANGED <<ready, release, scq, cur>>
    BY DEF Reply, MakeCurrent, Leave, EnterActivate, Call, Goto, smVars, scVars
  <2>2. Between(c) => Between(c)'
    BY DEF Between, TypeOK, TypeCtl, Reply, MakeCurrent, Leave, EnterActivate, Call, Goto,
       smVars, scVars
  <2> QED BY <1>7, <2>1, <2>2, QueuesSame
<1> QED BY <1>1, <1>2, <1>3, <1>4, <1>5, <1>6, <1>7, <1>8, FrameControl DEF TypeOK, Inv

\* RetUser keeps Inv.
LEMMA RetUserInv ==
    ASSUME TypeOK, Control, ScInv, NEW c \in CPUs,
           RetUser(c), UNCHANGED smVars
    PROVE  Inv'
<1>1. TypeCtl'
  BY DEF TypeOK, TypeCtl, PCs, RetUser, Goto, smVars, scVars
<1>2. TypeSc'
  BY DEF TypeOK, TypeSc, RetUser, Goto, smVars, scVars
<1>3. TypeEc'
  BY Constants DEF TypeOK, TypeEc, Conts, RetUser, Goto, smVars, scVars
<1>4. TypeSm'
  BY DEF TypeOK, TypeSm, RetUser, Goto, smVars, scVars
<1>5. CpuOK(c)'
  <2>1. CpuOK(c) /\ UNCHANGED <<cur, created, ec>>
    BY DEF Control, RetUser, scVars
  <2>2. pc'[c] \notin {"activate", "help", "notify_created"} \cup Handlers
    BY DEF RetUser, Goto, TypeOK, TypeCtl, Handlers
  <2> QED BY <2>1, <2>2, PlainCpu DEF CpuOK, ScCpu
<1>6. LinksOK'
  BY DEF TypeOK, TypeEc, Control, LinksOK, RetUser, Goto, smVars, scVars
<1>7. Frame(c)
  BY DEF TypeOK, TypeCtl, Frame, RetUser, Goto, smVars, scVars
<1>8. ScInv'
  <2>1. UNCHANGED <<ready, release, scq, cur>>
    BY DEF RetUser, Goto, smVars, scVars
  <2>2. Between(c) => Between(c)'
    BY DEF Between, TypeOK, TypeCtl, RetUser, Goto, smVars, scVars
  <2> QED BY <1>7, <2>1, <2>2, QueuesSame
<1> QED BY <1>1, <1>2, <1>3, <1>4, <1>5, <1>6, <1>7, <1>8, FrameControl DEF TypeOK, Inv

\* IdleLoop keeps Inv.
LEMMA IdleLoopInv ==
    ASSUME TypeOK, Control, ScInv, NEW c \in CPUs,
           IdleLoop(c), UNCHANGED smVars
    PROVE  Inv'
<1>1. TypeCtl'
  BY DEF TypeOK, TypeCtl, PCs, IdleLoop, Goto, smVars, scVars
<1>2. TypeSc'
  BY DEF TypeOK, TypeSc, IdleLoop, Goto, smVars, scVars
<1>3. TypeEc'
  BY Constants DEF TypeOK, TypeEc, Conts, IdleLoop, Goto, smVars, scVars
<1>4. TypeSm'
  BY DEF TypeOK, TypeSm, IdleLoop, Goto, smVars, scVars
<1>5. CpuOK(c)'
  BY Constants DEF TypeOK, TypeCtl, TypeEc, TypeSc, Control, CpuOK, Handlers, AtHelp,
     IdleLoop, Goto, smVars, scVars
<1>6. LinksOK'
  BY DEF TypeOK, TypeEc, Control, LinksOK, IdleLoop, Goto, smVars, scVars
<1>7. Frame(c)
  BY DEF TypeOK, TypeCtl, Frame, IdleLoop, Goto, smVars, scVars
<1>8. ScInv'
  <2>1. UNCHANGED <<ready, release, scq, cur>>
    BY DEF IdleLoop, Goto, smVars, scVars
  <2>2. Between(c) => Between(c)'
    BY DEF Between, TypeOK, TypeCtl, IdleLoop, Goto, smVars, scVars
  <2> QED BY <1>7, <2>1, <2>2, QueuesSame
<1> QED BY <1>1, <1>2, <1>3, <1>4, <1>5, <1>6, <1>7, <1>8, FrameControl DEF TypeOK, Inv

\* SysCreateSc keeps Inv.
LEMMA SysCreateScInv ==
    ASSUME TypeOK, Control, ScInv, NEW c \in CPUs,
           SysCreateSc(c), UNCHANGED smVars
    PROVE  Inv'
<1>1. TypeCtl'
  BY Constants DEF TypeOK, TypeCtl, PCs, Conts, SysCreateSc, User, ReleaseEnqueue, Call,
     Goto, smVars, ecVars
<1>2. TypeSc'
  <2>1. PICK s \in SCs \ created :
          /\ created' = created \cup {s}
          /\ IF ScCpu(s) = c
             THEN ReadyEnqueue(c, s, left[s], sched[c]) /\ UNCHANGED release
             ELSE ReleaseEnqueue(s) /\ UNCHANGED <<ready, top, sched, left>>
    BY DEF SysCreateSc
  <2>2. TypeSc /\ UNCHANGED <<cur, rrq>> /\ ScCpu(s) \in CPUs
    BY Constants DEF SysCreateSc, TypeOK, ScCpu
  <2>3. left[s] \in BOOLEAN /\ sched[c] \in BOOLEAN
    BY <2>2 DEF TypeSc
  <2>4. CASE ScCpu(s) = c
    <3>1. ReadyEnqueue(c, s, left[s], sched[c]) /\ release' = release
      BY <2>1, <2>4
    <3>2. /\ ready' \in [CPUs -> [0 .. MaxPrio -> Seq(SCs)]]
          /\ top' \in [CPUs -> 0 .. MaxPrio]
          /\ sched' \in [CPUs -> BOOLEAN]
          /\ left' \in [SCs -> BOOLEAN]
      BY <2>2, <2>3, <3>1, ReadyEnqueueType
    <3> QED BY <2>1, <2>2, <3>1, <3>2 DEF TypeSc
  <2>5. CASE ScCpu(s) # c
    <3>1. Append(release[ScCpu(s)], s) \in Seq(SCs)
      BY <2>2, ElemsAppend DEF TypeSc
    <3>2. release' \in [CPUs -> Seq(SCs)]
      BY <2>1, <2>2, <2>5, <3>1 DEF TypeSc, ReleaseEnqueue
    <3> QED BY <2>1, <2>2, <2>5, <3>2 DEF TypeSc
  <2> QED BY <2>4, <2>5
<1>3. TypeEc'
  BY DEF TypeOK, TypeEc, SysCreateSc, User, ReleaseEnqueue, Call, Goto, smVars, ecVars
<1>4. TypeSm'
  BY DEF TypeOK, TypeSm, SysCreateSc, User, ReleaseEnqueue, Call, Goto, smVars, ecVars
<1>5. CpuOK(c)'
  <2>1. CpuOK(c) /\ UNCHANGED <<cur, ec>> /\ created \subseteq created'
    BY DEF Control, SysCreateSc, ecVars
  <2>2. \/ pc'[c] = "ret_user_hypercall"
        \/ pc'[c] = "notify_created" /\ arg'[c] \in ECs
    BY Constants DEF SysCreateSc, Goto, Call, TypeOK, TypeCtl
  <2> QED BY <2>1, <2>2 DEF CpuOK, AtHelp, ScCpu, Handlers
<1>6. LinksOK'
  BY DEF TypeOK, TypeEc, Control, LinksOK, SysCreateSc, User, ReleaseEnqueue, Call,
     Goto, smVars, ecVars
<1>7. Frame(c)
  BY DEF TypeOK, TypeCtl, Frame, SysCreateSc, User, ReleaseEnqueue, Call, Goto, smVars,
     ecVars
<1>8. ScInv'
  <2>1. PICK s \in SCs \ created :
          /\ created' = created \cup {s}
          /\ IF ScCpu(s) = c
             THEN ReadyEnqueue(c, s, left[s], sched[c]) /\ UNCHANGED release
             ELSE ReleaseEnqueue(s) /\ UNCHANGED ready
    BY DEF SysCreateSc
  <2>2. UNCHANGED <<scq, cur>> /\ ~Between(c)
    BY DEF SysCreateSc, User, ecVars, Between
  <2>0. /\ ReadyPlaced /\ ReleasePlaced /\ WaitPlaced /\ OnePlace
        /\ TypeSc /\ TypeEc
    BY DEF ScInv, ScQueuedOnce, TypeOK
  <2>3. ~Queued(s) /\ \A d \in CPUs : cur[d] # s
    BY DEF ScInv, QueuedCreated, Control, CpuOK
  <2>4. ~InReady(s) /\ ~InRelease(s) /\ \A f \in ECs : ~WaitsOn(s, f)
    BY <2>3 DEF Queued
  <2>5. WaitPlaced' /\ \A r \in SCs, f \in ECs : WaitsOn(r, f)' <=> WaitsOn(r, f)
    BY <2>0, <2>2, WaitSame
  <2>6. /\ ReadyPlaced' /\ ReleasePlaced'
        /\ \/ /\ \A r \in SCs : InReady(r)' <=> InReady(r) \/ r = s
              /\ \A r \in SCs : InRelease(r)' <=> InRelease(r)
           \/ /\ \A r \in SCs : InReady(r)' <=> InReady(r)
              /\ \A r \in SCs : InRelease(r)' <=> InRelease(r) \/ r = s
    <3>1. CASE ScCpu(s) = c
      BY <2>0, <2>1, <2>4, <3>1, ReadyAdd, ReleaseSame
    <3>2. CASE ScCpu(s) # c
      BY <2>0, <2>1, <2>4, <3>2, ReleaseAdd, ReadySame
    <3> QED BY <3>1, <3>2
  <2>7. OnePlace'
    BY <2>0, <2>4, <2>5, <2>6 DEF OnePlace
  <2>8. \A r \in SCs : Queued(r)' => Queued(r) \/ r = s
    BY <2>5, <2>6 DEF Queued
  <2> QED BY <1>7, <2>1, <2>2, <2>3, <2>5, <2>6, <2>7, <2>8, QueuesAdd
<1> QED BY <1>1, <1>2, <1>3, <1>4, <1>5, <1>6, <1>7, <1>8, FrameControl DEF TypeOK, Inv

\* NotifyCreated keeps Inv.
LEMMA NotifyCreatedInv ==
    ASSUME TypeOK, Control, ScInv, NEW c \in CPUs,
           NotifyCreated(c), UNCHANGED smVars
    PROVE  Inv'
<1>1. TypeCtl'
  BY Constants DEF TypeOK, TypeCtl, PCs, Conts, NotifyCreated, Leave, Call, Goto,
     smVars, ecVars
<1>2. TypeSc'
  BY DEF TypeOK, TypeSc, NotifyCreated, Leave, Call, Goto, smVars, ecVars
<1>3. TypeEc'
  BY DEF TypeOK, TypeEc, NotifyCreated, Leave, Call, Goto, smVars, ecVars
<1>4. TypeSm'
  BY DEF TypeOK, TypeSm, NotifyCreated, Leave, Call, Goto, smVars, ecVars
<1>5. CpuOK(c)'
  BY Constants DEF TypeOK, TypeCtl, TypeEc, TypeSc, Control, CpuOK, Handlers, AtHelp,
     NotifyCreated, Leave, Call, Goto, smVars, ecVars
<1>6. LinksOK'
  BY DEF TypeOK, TypeEc, Control, LinksOK, NotifyCreated, Leave, Call, Goto, smVars,
     ecVars
<1>7. Frame(c)
  BY DEF TypeOK, TypeCtl, Frame, NotifyCreated, Leave, Call, Goto, smVars, ecVars
<1>8. ScInv'
  <2>1. UNCHANGED <<ready, release, scq, cur>>
    BY DEF NotifyCreated, Leave, Call, Goto, smVars, ecVars
  <2>2. Between(c) => Between(c)'
    BY DEF Between, TypeOK, TypeCtl, NotifyCreated, Leave, Call, Goto, smVars, ecVars
  <2> QED BY <1>7, <2>1, <2>2, QueuesSame
<1> QED BY <1>1, <1>2, <1>3, <1>4, <1>5, <1>6, <1>7, <1>8, FrameControl DEF TypeOK, Inv

\* DnFast keeps Inv.
LEMMA DnFastInv ==
    ASSUME TypeOK, Control, ScInv, NEW c \in CPUs,
           DnFast(c)
    PROVE  Inv'
<1>1. TypeCtl'
  BY Constants DEF TypeOK, TypeCtl, PCs, Conts, DnFast, User, Goto, scVars, ecVars
<1>2. TypeSc'
  BY DEF TypeOK, TypeSc, DnFast, User, Goto, scVars, ecVars
<1>3. TypeEc'
  BY DEF TypeOK, TypeEc, DnFast, User, Goto, scVars, ecVars
<1>4. TypeSm'
  <2>1. ec[c] \in ECs
    BY DEF TypeOK, TypeEc
  <2> QED BY <2>1, Constants DEF TypeOK, TypeSm, DnFast, User, Goto, scVars, ecVars
<1>5. CpuOK(c)'
  BY Constants DEF TypeOK, TypeCtl, TypeEc, TypeSc, Control, CpuOK, Handlers, AtHelp,
     DnFast, User, Goto, scVars, ecVars
<1>6. LinksOK'
  BY DEF TypeOK, TypeEc, Control, LinksOK, DnFast, User, Goto, scVars, ecVars
<1>7. Frame(c)
  BY DEF TypeOK, TypeCtl, Frame, DnFast, User, Goto, scVars, ecVars
<1>8. ScInv'
  <2>1. UNCHANGED <<ready, release, scq, cur>>
    BY DEF DnFast, User, Goto, scVars, ecVars
  <2>2. Between(c) => Between(c)'
    BY DEF Between, TypeOK, TypeCtl, DnFast, User, Goto, scVars, ecVars
  <2> QED BY <1>7, <2>1, <2>2, QueuesSame
<1> QED BY <1>1, <1>2, <1>3, <1>4, <1>5, <1>6, <1>7, <1>8, FrameControl DEF TypeOK, Inv

\* DnBlock keeps Inv.
LEMMA DnBlockInv ==
    ASSUME TypeOK, Control, ScInv, NEW c \in CPUs,
           DnBlock(c)
    PROVE  Inv'
<1>1. TypeCtl'
  BY DEF TypeOK, TypeCtl, PCs, DnBlock, User, Goto, scVars
<1>2. TypeSc'
  BY DEF TypeOK, TypeSc, DnBlock, User, Goto, scVars
<1>3. TypeEc'
  BY Constants DEF TypeOK, TypeEc, Conts, DnBlock, User, Goto, scVars
<1>4. TypeSm'
  <2>1. ec[c] \in ECs
    BY DEF TypeOK, TypeEc
  <2> QED BY <2>1, Constants DEF TypeOK, TypeSm, DnBlock, User, Goto, scVars
<1>5. CpuOK(c)'
  BY Constants DEF TypeOK, TypeCtl, TypeEc, TypeSc, Control, CpuOK, Handlers, AtHelp,
     DnBlock, User, Goto, scVars
<1>6. LinksOK'
  BY DEF TypeOK, TypeEc, Control, LinksOK, DnBlock, User, Goto, scVars
<1>7. Frame(c)
  BY DEF TypeOK, TypeCtl, Frame, DnBlock, User, Goto, scVars
<1>8. ScInv'
  <2>1. UNCHANGED <<ready, release, scq, cur>>
    BY DEF DnBlock, User, Goto, scVars
  <2>2. Between(c) => Between(c)'
    BY DEF Between, TypeOK, TypeCtl, DnBlock, User, Goto, scVars
  <2> QED BY <1>7, <2>1, <2>2, QueuesSame
<1> QED BY <1>1, <1>2, <1>3, <1>4, <1>5, <1>6, <1>7, <1>8, FrameControl DEF TypeOK, Inv

\* DnBlockSc keeps Inv.
LEMMA DnBlockScInv ==
    ASSUME TypeOK, Control, ScInv, NEW c \in CPUs,
           DnBlockSc(c)
    PROVE  Inv'
<1>1. TypeCtl'
  BY Constants DEF TypeOK, TypeCtl, PCs, Conts, DnBlockSc, Goto, scVars
<1>2. TypeSc'
  BY DEF TypeOK, TypeSc, DnBlockSc, Goto, scVars
<1>3. TypeEc'
  <2>1. ec[c] \in ECs /\ cur[c] \in SCs /\ scq[ec[c]] \in Seq(SCs)
    BY DEF TypeOK, TypeEc, TypeSc
  <2>2. Append(scq[ec[c]], cur[c]) \in Seq(SCs)
    BY <2>1, ElemsAppend
  <2>3. scq' \in [ECs -> Seq(SCs)]
    BY <2>2 DEF DnBlockSc, TypeOK, TypeEc
  <2> QED BY <2>3 DEF DnBlockSc, TypeOK, TypeEc
<1>4. TypeSm'
  BY DEF TypeOK, TypeSm, DnBlockSc, Goto, scVars
<1>5. CpuOK(c)'
  <2>1. CpuOK(c) /\ UNCHANGED <<cur, created, ec>>
    BY DEF Control, DnBlockSc, scVars
  <2>2. pc'[c] \notin {"activate", "help", "notify_created"} \cup Handlers
    BY DEF DnBlockSc, Goto, TypeOK, TypeCtl, Handlers
  <2> QED BY <2>1, <2>2, PlainCpu DEF CpuOK, ScCpu
<1>6. LinksOK'
  BY DEF TypeOK, TypeEc, Control, LinksOK, DnBlockSc, Goto, scVars
<1>7. Frame(c)
  BY DEF TypeOK, TypeCtl, Frame, DnBlockSc, Goto, scVars
<1>8. ScInv'
  <2>a. CASE ~Blocked(ec[c])
    <3>1. UNCHANGED <<ready, release, scq, cur>> /\ ~Between(c)
      BY <2>a DEF DnBlockSc, scVars, Between
    <3> QED BY <1>7, <3>1, QueuesSame
  <2>b. CASE Blocked(ec[c])
    <3>0. /\ ReadyPlaced /\ ReleasePlaced /\ WaitPlaced /\ OnePlace
          /\ TypeSc /\ TypeEc
      BY DEF ScInv, ScQueuedOnce, TypeOK
    <3>1. ec[c] \in ECs /\ EcCpu[ec[c]] = c
      BY DEF Control, CpuOK, TypeOK, TypeEc
    <3>2. /\ pc[c] = "dn" /\ pc'[c] \in {"schedule_blocked", "pick"}
          /\ scq' = [scq EXCEPT ![ec[c]] = Append(@, cur[c])]
          /\ UNCHANGED <<ready, release, cur>>
      BY <2>b DEF DnBlockSc, Goto, TypeOK, TypeCtl, scVars
    <3> DEFINE s == cur[c]
               e == ec[c]
    <3>3. s \in SCs /\ ScCpu(s) = c /\ s \in created' /\ ~Queued(s)
      BY <1>7, <3>2 DEF TypeOK, TypeSc, Control, CpuOK, Frame, ScInv, RunningNotQueued
    <3>4. ~InReady(s) /\ ~InRelease(s) /\ \A f \in ECs : ~WaitsOn(s, f)
      BY <3>3 DEF Queued
    <3> HIDE DEF s
    <3>5. ReadyPlaced' /\ \A r \in SCs : InReady(r)' <=> InReady(r)
      BY <3>0, <3>2, ReadySame
    <3>6. ReleasePlaced' /\ \A r \in SCs : InRelease(r)' <=> InRelease(r)
      BY <3>0, <3>2, ReleaseSame
    <3>7. /\ WaitPlaced'
          /\ \A r \in SCs, f \in ECs : WaitsOn(r, f)' <=> WaitsOn(r, f) \/ (r = s /\ f = e)
      BY <3>0, <3>1, <3>2, <3>3, <3>4, WaitAdd DEF s
    <3>8. OnePlace'
      BY <3>0, <3>4, <3>5, <3>6, <3>7 DEF OnePlace
    <3>9. \A r \in SCs : Queued(r)' => Queued(r) \/ r = s
      BY <3>5, <3>6, <3>7 DEF Queued
    <3>10. \A d \in CPUs : cur[d] = s => d = c
      BY <3>3 DEF Control, CpuOK, s
    <3>11. Between(c)' /\ cur' = cur
      BY <3>2 DEF Between
    <3> QED BY <1>7, <3>3, <3>5, <3>6, <3>7, <3>8, <3>9, <3>10, <3>11, QueuesAdd
  <2> QED BY <2>a, <2>b
<1> QED BY <1>1, <1>2, <1>3, <1>4, <1>5, <1>6, <1>7, <1>8, FrameControl DEF TypeOK, Inv

\* UpCount keeps Inv.
LEMMA UpCountInv ==
    ASSUME TypeOK, Control, ScInv, NEW c \in CPUs, NEW M \in SUBSET SMs,
           NEW r \in Resumes, UpFrom(c, r),
           UpCount(c, M, r)
    PROVE  Inv'
<1>1. TypeCtl'
  BY Constants DEF TypeOK, TypeCtl, TypeSc, TypeEc, TypeSm, PCs, Conts, Resumes,
     Control, CpuOK, UpCount, Goto, scVars, ecVars, Resume, Interruptible
<1>2. TypeSc'
  BY DEF TypeOK, TypeSc, UpCount, Goto, scVars, ecVars, Resume, Interruptible
<1>3. TypeEc'
  BY DEF TypeOK, TypeEc, UpCount, Goto, scVars, ecVars, Resume, Interruptible
<1>4. TypeSm'
  BY Constants DEF TypeOK, TypeSm, UpCount, Goto, scVars, ecVars, Resume, Interruptible
<1>5. CpuOK(c)'
  <2>1. CpuOK(c) /\ UNCHANGED <<cur, created, ec, want>> /\ pc'[c] = r
    BY DEF Control, UpCount, Goto, scVars, ecVars, TypeOK, TypeCtl
  <2>2. pc'[c] = "help" => pc[c] = "help"
    BY <2>1 DEF UpFrom, Resume
  <2> QED BY <2>1, <2>2 DEF CpuOK, AtHelp, ScCpu, Handlers, Resumes
<1>6. LinksOK'
  BY DEF TypeOK, TypeEc, Control, LinksOK, UpCount, Goto, scVars, ecVars, Resume,
     Interruptible
<1>7. Frame(c)
  BY DEF TypeOK, TypeCtl, Frame, UpCount, Goto, scVars, ecVars, Resume, Interruptible
<1>8. ScInv'
  <2>1. UNCHANGED <<ready, release, scq, cur>>
    BY DEF UpCount, Goto, scVars, ecVars, UpFrom, User, Resume, Interruptible
  <2>2. Between(c) => Between(c)'
    BY DEF Between, TypeOK, TypeCtl, UpCount, Goto, scVars, ecVars, UpFrom, User, Resume,
       Interruptible
  <2> QED BY <1>7, <2>1, <2>2, QueuesSame
<1> QED BY <1>1, <1>2, <1>3, <1>4, <1>5, <1>6, <1>7, <1>8, FrameControl DEF TypeOK, Inv

\* UpWake keeps Inv.
LEMMA UpWakeInv ==
    ASSUME TypeOK, Control, ScInv, NEW c \in CPUs, NEW M \in SUBSET SMs,
           NEW r \in Resumes, UpFrom(c, r),
           UpWake(c, M, r)
    PROVE  Inv'
<1>1. TypeCtl'
  <2>1. PICK m \in M : /\ smq[m] # <<>>
                       /\ cont' = [cont EXCEPT ![Head(smq[m])] = "sys_finish_success"]
                       /\ Call(c, "unblock_sc", Head(smq[m]), r)
    BY DEF UpWake
  <2>2. Head(smq[m]) \in ECs
    BY <2>1, ElemsTail DEF TypeOK, TypeSm
  <2>3. r \in PCs
    BY DEF Resumes, PCs, Conts
  <2> QED BY <2>1, <2>2, <2>3 DEF Call, Goto, TypeOK, TypeCtl, PCs
<1>2. TypeSc'
  BY DEF TypeOK, TypeSc, UpWake, Call, Goto, scVars, Resume, Interruptible
<1>3. TypeEc'
  <2>1. PICK m \in M : /\ smq[m] # <<>>
                       /\ cont' = [cont EXCEPT ![Head(smq[m])] = "sys_finish_success"]
                       /\ Call(c, "unblock_sc", Head(smq[m]), r)
    BY DEF UpWake
  <2>2. Head(smq[m]) \in ECs
    BY <2>1, ElemsTail DEF TypeOK, TypeSm
  <2> QED BY <2>1, <2>2 DEF UpWake, TypeOK, TypeEc, Conts
<1>4. TypeSm'
  BY DEF TypeOK, TypeSm, UpWake, Call, Goto, scVars, Resume, Interruptible
<1>5. CpuOK(c)'
  <2>1. PICK m \in M : /\ smq[m] # <<>>
                       /\ cont' = [cont EXCEPT ![Head(smq[m])] = "sys_finish_success"]
                       /\ Call(c, "unblock_sc", Head(smq[m]), r)
    BY DEF UpWake
  <2>2. Head(smq[m]) \in ECs
    BY <2>1, ElemsTail DEF TypeOK, TypeSm
  <2>3. CpuOK(c) /\ UNCHANGED <<cur, created, ec, want>>
    BY DEF Control, UpWake, scVars
  <2>4. pc'[c] = "unblock_sc" /\ arg'[c] = Head(smq[m]) /\ ret'[c] = r
    BY <2>1 DEF Call, Goto, TypeOK, TypeCtl
  <2>5. r = "help" => pc[c] = "help"
    BY DEF UpFrom, Resume
  <2> QED BY <2>2, <2>3, <2>4, <2>5 DEF CpuOK, AtHelp, ScCpu, Handlers
<1>6. LinksOK'
  BY DEF TypeOK, TypeEc, Control, LinksOK, UpWake, Call, Goto, scVars, Resume,
     Interruptible
<1>7. Frame(c)
  BY DEF TypeOK, TypeCtl, Frame, UpWake, Call, Goto, scVars, Resume, Interruptible
<1>8. ScInv'
  <2>1. UNCHANGED <<ready, release, scq, cur>>
    BY DEF UpWake, Call, Goto, scVars, UpFrom, User, Resume, Interruptible
  <2>2. Between(c) => Between(c)'
    BY DEF Between, TypeOK, TypeCtl, UpWake, Call, Goto, scVars, UpFrom, User, Resume,
       Interruptible
  <2> QED BY <1>7, <2>1, <2>2, QueuesSame
<1> QED BY <1>1, <1>2, <1>3, <1>4, <1>5, <1>6, <1>7, <1>8, FrameControl DEF TypeOK, Inv

\* SmTimeout keeps Inv.
LEMMA SmTimeoutInv ==
    ASSUME TypeOK, Control, ScInv, NEW c \in CPUs,
           SmTimeout(c)
    PROVE  Inv'
<1>1. TypeCtl'
  <2>1. Resume(c) \in PCs
    BY DEF Resume, TypeOK, TypeCtl, PCs, Conts
  <2> QED BY <2>1 DEF SmTimeout, Call, Goto, TypeOK, TypeCtl, PCs
<1>2. TypeSc'
  BY DEF TypeOK, TypeSc, SmTimeout, Call, Goto, Resume, Interruptible, scVars
<1>3. TypeEc'
  BY Constants DEF TypeOK, TypeEc, Conts, SmTimeout, Call, Goto, Resume, Interruptible,
     scVars
<1>4. TypeSm'
  <2>1. PICK e \in ECs :
          /\ timeout[e] # NoSm
          /\ timeout' = [timeout EXCEPT ![e] = NoSm]
          /\ \/ \E i \in 1 .. Len(smq[timeout[e]]) :
                  smq' = [smq EXCEPT ![timeout[e]] = Remove(@, i)]
             \/ smq' = smq
    BY DEF SmTimeout
  <2>2. timeout[e] \in SMs /\ smq[timeout[e]] \in Seq(ECs)
    BY <2>1 DEF TypeOK, TypeSm
  <2>3. smq' \in [SMs -> Seq(ECs)]
    <3>1. CASE smq' = smq
      BY <3>1 DEF TypeOK, TypeSm
    <3>2. CASE \E i \in 1 .. Len(smq[timeout[e]]) :
                 smq' = [smq EXCEPT ![timeout[e]] = Remove(@, i)]
      <4>1. PICK i \in 1 .. Len(smq[timeout[e]]) :
              smq' = [smq EXCEPT ![timeout[e]] = Remove(smq[timeout[e]], i)]
        BY <3>2
      <4>2. Remove(smq[timeout[e]], i) \in Seq(ECs)
        BY <2>2, RemoveSeq
      <4> QED BY <2>2, <4>1, <4>2 DEF TypeOK, TypeSm
    <3> QED BY <2>1, <3>1, <3>2
  <2>4. UNCHANGED <<counter, tmo>>
    BY DEF SmTimeout
  <2> QED BY <2>1, <2>3, <2>4 DEF TypeOK, TypeSm
<1>5. CpuOK(c)'
  <2>1. CpuOK(c) /\ UNCHANGED <<cur, created, ec, want>> /\ Interruptible(c)
    BY DEF Control, SmTimeout, scVars
  <2>2. \/ pc'[c] = Resume(c)
        \/ pc'[c] = "unblock_sc" /\ arg'[c] \in ECs /\ ret'[c] = Resume(c)
    BY DEF SmTimeout, Call, Goto, TypeOK, TypeCtl
  <2>3. Resume(c) \in Resumes /\ (Resume(c) = "help" => pc[c] = "help")
    BY <2>1 DEF Resume, Resumes, Interruptible
  <2> QED BY <2>1, <2>2, <2>3 DEF CpuOK, AtHelp, ScCpu, Handlers, Resumes
<1>6. LinksOK'
  BY DEF TypeOK, TypeEc, Control, LinksOK, SmTimeout, Call, Goto, Resume, Interruptible,
     scVars
<1>7. Frame(c)
  BY DEF TypeOK, TypeCtl, Frame, SmTimeout, Call, Goto, Resume, Interruptible, scVars
<1>8. ScInv'
  <2>1. UNCHANGED <<ready, release, scq, cur>>
    BY DEF SmTimeout, Call, Goto, Resume, Interruptible, scVars
  <2>2. Between(c) => Between(c)'
    BY DEF Between, TypeOK, TypeCtl, SmTimeout, Call, Goto, Resume, Interruptible, scVars
  <2> QED BY <1>7, <2>1, <2>2, QueuesSame
<1> QED BY <1>1, <1>2, <1>3, <1>4, <1>5, <1>6, <1>7, <1>8, FrameControl DEF TypeOK, Inv

\* SysFinish keeps Inv.
LEMMA SysFinishInv ==
    ASSUME TypeOK, Control, ScInv, NEW c \in CPUs,
           SysFinish(c)
    PROVE  Inv'
<1>1. TypeCtl'
  BY Constants DEF TypeOK, TypeCtl, PCs, Conts, SysFinish, Goto, scVars, ecVars
<1>2. TypeSc'
  BY DEF TypeOK, TypeSc, SysFinish, Goto, scVars, ecVars
<1>3. TypeEc'
  BY DEF TypeOK, TypeEc, SysFinish, Goto, scVars, ecVars
<1>4. TypeSm'
  BY DEF TypeOK, TypeSm, SysFinish, Goto, scVars, ecVars
<1>5. CpuOK(c)'
  BY Constants DEF TypeOK, TypeCtl, TypeEc, TypeSc, Control, CpuOK, Handlers, AtHelp,
     SysFinish, Goto, scVars, ecVars
<1>6. LinksOK'
  BY DEF TypeOK, TypeEc, Control, LinksOK, SysFinish, Goto, scVars, ecVars
<1>7. Frame(c)
  BY DEF TypeOK, TypeCtl, Frame, SysFinish, Goto, scVars, ecVars
<1>8. ScInv'
  <2>1. UNCHANGED <<ready, release, scq, cur>>
    BY DEF SysFinish, Goto, scVars, ecVars
  <2>2. Between(c) => Between(c)'
    BY DEF Between, TypeOK, TypeCtl, SysFinish, Goto, scVars, ecVars
  <2> QED BY <1>7, <2>1, <2>2, QueuesSame
<1> QED BY <1>1, <1>2, <1>3, <1>4, <1>5, <1>6, <1>7, <1>8, FrameControl DEF TypeOK, Inv

-----------------------------------------------------------------------------
(* The initial states.                                                      *)

\* Inv holds at boot.
LEMMA InitInv == Init => Inv
<1> SUFFICES ASSUME Init PROVE Inv
  OBVIOUS
<1>1. TypeCtl
  BY DEF Init, TypeCtl, PCs
<1>2. TypeSc
  <2>1. created \subseteq SCs
    BY SchedAssumption DEF Init, BootScs
  <2>2. left \in [SCs -> BOOLEAN]
    <3>1. left = [s \in SCs |-> s \in created]
      BY Zenon DEF Init
    <3>2. [s \in SCs |-> s \in created] \in [SCs -> BOOLEAN]
      OBVIOUS
    <3> QED BY <3>1, <3>2
  <2>3. /\ cur \in [CPUs -> SCs]
        /\ ready \in [CPUs -> [0 .. MaxPrio -> Seq(SCs)]]
        /\ top \in [CPUs -> 0 .. MaxPrio]
    BY SchedAssumption DEF Init
  <2>4. /\ release \in [CPUs -> Seq(SCs)]
        /\ rrq \in [CPUs -> BOOLEAN]
        /\ sched \in [CPUs -> BOOLEAN]
    BY DEF Init
  <2> QED BY <2>1, <2>2, <2>3, <2>4 DEF TypeSc
<1>3. TypeEc
  <2>1. ec \in [CPUs -> ECs] /\ don \in [CPUs -> Nat] /\ act \in [CPUs -> ECs]
    BY SchedAssumption DEF Init
  <2>2. cont \in [ECs -> Conts]
    BY DEF Init, Conts
  <2>3. /\ callee \in [ECs -> ECs \cup {NoEc}] /\ caller \in [ECs -> ECs \cup {NoEc}]
        /\ scq \in [ECs -> Seq(SCs)]
    BY DEF Init
  <2>4. want \in [ECs -> ECs \cup {NoEc}]
    BY Constants DEF Init
  <2> QED BY <2>1, <2>2, <2>3, <2>4 DEF TypeEc
<1>4. TypeSm
  BY SmAssumption DEF Init, TypeSm
<1>5. Control
  <2>1. LinksOK
    BY DEF Init, LinksOK
  <2>2. ASSUME NEW c \in CPUs PROVE CpuOK(c)
    <3>1. ec[c] = ScEc[IdleSc[c]] /\ cur[c] = IdleSc[c] /\ pc[c] = "schedule"
      BY DEF Init
    <3>2. cur[c] \in created
      BY <3>1 DEF Init
    <3>3. EcCpu[ScEc[IdleSc[c]]] = c
      BY SchedAssumption
    <3> QED BY <3>1, <3>2, <3>3 DEF CpuOK, AtHelp, Handlers, ScCpu
  <2> QED BY <2>1, <2>2 DEF Control
<1>6. ASSUME NEW c \in CPUs, NEW p \in 0 .. MaxPrio
      PROVE  /\ ready[c][p] \in Seq(SCs) /\ Distinct(ready[c][p])
             /\ \A s \in Elems(ready[c][p]) : ScCpu(s) = c /\ Prio[s] = p /\ s # IdleSc[c]
  <2>1. ready[c][p] = BootQ[c][p]
    BY DEF Init
  <2>2. BootQ[c][p] \in Seq(SCs)
    BY SchedAssumption
  <2>3. \A i \in 1 .. Len(BootQ[c][p]) :
          /\ EcCpu[ScEc[BootQ[c][p][i]]] = c /\ Prio[BootQ[c][p][i]] = p
          /\ BootQ[c][p][i] # IdleSc[c]
          /\ \A j \in 1 .. Len(BootQ[c][p]) : BootQ[c][p][i] = BootQ[c][p][j] => i = j
    BY Zenon, SchedAssumption
  <2> QED BY <2>1, <2>2, <2>3 DEF Distinct, Elems, ScCpu
<1>7. \A s \in SCs : ~InRelease(s) /\ \A e \in ECs : ~WaitsOn(s, e)
  <2>1. Elems(<<>>) = {}
    BY DEF Elems
  <2>2. ASSUME NEW s \in SCs PROVE ScCpu(s) \in CPUs
    BY Constants DEF ScCpu
  <2> QED BY <2>1, <2>2 DEF Init, InRelease, WaitsOn
<1>8. ScQueuedOnce
  <2>1. ReadyPlaced
    BY <1>6 DEF ReadyPlaced
  <2>2. Distinct(<<>>) /\ Elems(<<>>) = {}
    BY DEF Distinct, Elems
  <2>3. ReleasePlaced /\ WaitPlaced
    BY <2>2 DEF Init, ReleasePlaced, WaitPlaced
  <2>4. OnePlace
    BY <1>7 DEF OnePlace
  <2> QED BY <2>1, <2>3, <2>4 DEF ScQueuedOnce
<1>9. ASSUME NEW s \in SCs, Queued(s) PROVE s \in created /\ \A c \in CPUs : s # cur[c]
  <2>1. InReady(s) /\ ScCpu(s) \in CPUs /\ Prio[s] \in 0 .. MaxPrio
    BY <1>7, <1>9, Constants DEF Queued, ScCpu
  <2>2. s \in Elems(BootQ[ScCpu(s)][Prio[s]])
    BY <2>1 DEF InReady, Init
  <2>3. s \in created
    BY <2>2 DEF Init, BootScs, Elems
  <2>4. s # IdleSc[ScCpu(s)]
    BY <1>6, <2>1 DEF InReady
  <2>5. ASSUME NEW c \in CPUs PROVE s # cur[c]
    <3>1. cur[c] = IdleSc[c] /\ ScCpu(IdleSc[c]) = c
      BY SchedAssumption DEF Init, ScCpu
    <3> QED BY <3>1, <2>4
  <2> QED BY <2>3, <2>5
<1>10. RunningNotQueued /\ QueuedCreated
  <2>1. \A c \in CPUs : cur[c] \in SCs
    BY <1>2 DEF TypeSc
  <2> QED BY <1>9, <2>1 DEF RunningNotQueued, QueuedCreated
<1> QED BY <1>1, <1>2, <1>3, <1>4, <1>5, <1>8, <1>10 DEF Inv, TypeOK, ScInv

-----------------------------------------------------------------------------
(* The next-state relation.                                                 *)

\* Kill keeps Inv.
LEMMA KillInv ==
    ASSUME TypeOK, Control, ScInv, NEW c \in CPUs, Kill(c) \/ SysIpcReply(c),
           UNCHANGED smVars
    PROVE  Inv'
<1>1. \A p \in ECs \cup {NoEc} :
        (IF p = NoEc THEN "null" ELSE cont[p]) \in Conts
  BY Constants DEF TypeOK, TypeEc, Conts
<1>2. caller[ec[c]] \in ECs \cup {NoEc} /\ "null" \in Conts /\ "dead" \in Conts
      /\ "sys_finish_aborted" \in Conts
  BY DEF TypeOK, TypeEc, Conts
<1>3. CASE Kill(c)
  <2>1. ~Between(c)
    BY <1>3 DEF Kill, Between
  <2>2. PICK k \in Conts : Reply(c, "dead", k)
    BY <1>2, <1>3 DEF Kill
  <2> QED BY <1>2, <2>1, <2>2, ReplyInv
<1>4. CASE SysIpcReply(c)
  <2>1. ~Between(c)
    BY <1>4 DEF SysIpcReply, User, Between
  <2>2. PICK k \in Conts : Reply(c, "null", k)
    BY <1>1, <1>2, <1>4 DEF SysIpcReply
  <2> QED BY <1>2, <2>1, <2>2, ReplyInv
<1> QED BY <1>3, <1>4

\* Up keeps Inv.
LEMMA UpInv ==
    ASSUME TypeOK, Control, ScInv, NEW c \in CPUs, SysUp(c) \/ GsiUp(c)
    PROVE  Inv'
<1>1. PICK M \in SUBSET SMs, r \in Resumes : UpFrom(c, r) /\ (UpCount(c, M, r) \/ UpWake(c, M, r))
  <2>1. CASE SysUp(c)
    BY <2>1 DEF SysUp, UpFrom, Resumes
  <2>2. CASE GsiUp(c)
    <3>1. Resume(c) \in Resumes /\ IntSMs \in SUBSET SMs
      BY <2>2, SmAssumption DEF GsiUp, Interruptible, Resume, Resumes
    <3> QED BY <2>2, <3>1 DEF GsiUp, UpFrom
  <2> QED BY <2>1, <2>2
<1> QED BY <1>1, UpCountInv, UpWakeInv

\* The steps of the scheduler keep Inv.
LEMMA SchedStepInv ==
    ASSUME TypeOK, Control, ScInv, NEW c \in CPUs, SchedStep(c)
    PROVE  Inv'
  BY ScheduleBlockedInv, ScheduleReadyInv, HandleRrqInv, RequeueInv, BudgetTimeoutInv
     DEF SchedStep

\* The steps of ECs keep Inv.
LEMMA EcStepInv ==
    ASSUME TypeOK, Control, ScInv, NEW c \in CPUs, EcStep(c)
    PROVE  Inv'
<1>1. CASE CallPortal(c) \/ RaiseException(c)
  BY <1>1, NamePortalInv DEF EcStep, CallPortal, RaiseException
<1>2. CASE \/ ActivateWalk(c) \/ ActivateRun(c) \/ ActivateBlockSc(c) \/ Pick(c)
           \/ UnblockSc(c) \/ UnblockLoop(c) \/ Notify(c)
  BY <1>2, ActivateWalkInv, ActivateRunInv, ActivateBlockScInv, PickInv, UnblockScInv,
     UnblockLoopInv, NotifyInv DEF EcStep
<1>3. CASE SysIpcCall(c) \/ SendMsg(c) \/ Help(c) \/ Recv(c) \/ SysIpcReply(c) \/ Kill(c)
  BY <1>3, SysIpcCallInv, SendMsgInv, HelpInv, RecvInv, KillInv DEF EcStep
<1>4. CASE RetUser(c) \/ IdleLoop(c) \/ SysCreateSc(c) \/ NotifyCreated(c)
  BY <1>4, RetUserInv, IdleLoopInv, SysCreateScInv, NotifyCreatedInv DEF EcStep
<1> QED BY <1>1, <1>2, <1>3, <1>4 DEF EcStep

\* The steps of semaphores keep Inv.
LEMMA SmStepInv ==
    ASSUME TypeOK, Control, ScInv, NEW c \in CPUs, SmStep(c)
    PROVE  Inv'
  BY DnFastInv, DnBlockInv, DnBlockScInv, UpInv, SmTimeoutInv, SysFinishInv DEF SmStep

\* Every step keeps Inv.
LEMMA NextInv == Inv /\ [Next]_vars => Inv'
<1> SUFFICES ASSUME Inv, [Next]_vars PROVE Inv'
  OBVIOUS
<1>0. TypeOK /\ Control /\ ScInv
  BY DEF Inv
<1>1. CASE Next
  BY <1>0, <1>1, SchedStepInv, EcStepInv, SmStepInv DEF Next
<1>2. CASE UNCHANGED vars
  <2>1. UNCHANGED <<pc, arg, ret, cur, ready, top, release, rrq, sched, left, created>>
    BY <1>2 DEF vars, ctlVars, scVars
  <2>2. UNCHANGED <<ec, don, act, cont, callee, caller, want, scq, counter, smq, timeout, tmo>>
    BY <1>2 DEF vars, ecVars, smVars
  <2>3. TypeOK'
    BY <1>0, <2>1, <2>2 DEF TypeOK, TypeCtl, TypeSc, TypeEc, TypeSm
  <2>4. Control'
    BY <1>0, <2>1, <2>2 DEF Control, CpuOK, LinksOK, AtHelp, ScCpu
  <2>5. ScInv'
    <3>1. ReadyPlaced' /\ ReleasePlaced' /\ WaitPlaced'
      BY <1>0, <2>1, <2>2, ReadySame, ReleaseSame, WaitSame DEF ScInv, ScQueuedOnce
    <3>2. OnePlace'
      <4>1. \A r \in SCs : InReady(r)' = InReady(r) /\ InRelease(r)' = InRelease(r)
        BY <2>1 DEF InReady, InRelease, ScCpu, Elems
      <4>2. \A r \in SCs, e \in ECs : WaitsOn(r, e)' = WaitsOn(r, e)
        BY <2>2 DEF WaitsOn, Elems
      <4> QED BY <1>0, <4>1, <4>2 DEF ScInv, ScQueuedOnce, OnePlace
    <3>3. RunningNotQueued' /\ QueuedCreated'
      BY <1>0, <2>1, <2>2 DEF ScInv, RunningNotQueued, QueuedCreated, Queued, InReady,
         InRelease, WaitsOn, ScCpu, Elems
    <3> QED BY <3>1, <3>2, <3>3 DEF ScInv, ScQueuedOnce
  <2> QED BY <2>3, <2>4, <2>5 DEF Inv
<1> QED BY <1>1, <1>2

-----------------------------------------------------------------------------
(***************************************************************************)
(* Inv is an invariant of the kernel core.                                 *)
(***************************************************************************)
THEOREM Invariance == Spec => []Inv
  BY InitInv, NextInv, PTL DEF Spec

(***************************************************************************)
(* Type correctness: every continuation a CPU enters is one of the known   *)
(* functions, and the queues hold SCs and ECs only.                        *)
(***************************************************************************)
THEOREM TypeCorrect == Spec => []TypeOK
<1>1. Inv => TypeOK
  BY DEF Inv
<1> QED BY <1>1, Invariance, PTL

(***************************************************************************)
(* An SC is never in two queues or twice in one, whichever CPUs block,     *)
(* unblock, release or create it: the assertion on queued() in             *)
(* Queue::enqueue holds for SCs.                                           *)
(***************************************************************************)
THEOREM QueuedOnce == Spec => []ScQueuedOnce
<1>1. Inv => ScQueuedOnce
  BY DEF Inv, ScInv
<1> QED BY <1>1, Invariance, PTL

(***************************************************************************)
(* The SC that runs on a CPU is in no queue, except while Scheduler::      *)
(* schedule looks for its successor: the assertion of schedule holds.      *)
(***************************************************************************)
THEOREM RunningUnqueued == Spec => []RunningNotQueued
<1>1. Inv => RunningNotQueued
  BY DEF Inv, ScInv
<1> QED BY <1>1, Invariance, PTL
=============================================================================
