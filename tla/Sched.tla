------------------------------- MODULE Sched -------------------------------
(***************************************************************************)
(* The scheduler of src/sc.cpp: per-CPU ready queues with priorities, the  *)
(* per-CPU release queue through which another CPU hands an SC back, and   *)
(* the control state of the kernel on each CPU.                            *)
(*                                                                         *)
(* A CPU runs kernel code with interrupts off, so kernel code on one CPU   *)
(* only interleaves with kernel code on other CPUs.  pc[c] names the       *)
(* function CPU c is about to enter, or the point inside one where shared  *)
(* state is touched next; arg[c] is the EC that function works on, ret[c]  *)
(* where control continues afterwards.                                     *)
(*                                                                         *)
(* Time is abstracted to one bit per SC: left[s] says that s has budget    *)
(* left (Sc::left # 0).                                                    *)
(***************************************************************************)
EXTENDS Naturals, Sequences

CONSTANTS
    CPUs,       \* processors
    ECs,        \* execution contexts, the idle ones included
    SCs,        \* scheduling contexts, the idle ones included
    EcCpu,      \* Ec::cpu
    ScEc,       \* Sc::ec
    Prio,       \* Sc::prio
    MaxPrio,    \* Scheduler::priorities - 1
    IdleSc,     \* the SC that create_idle made for each CPU
    NoEc,       \* the null EC pointer
    BootQ       \* the ready queues of the state the specification starts in

ASSUME SchedAssumption ==
    /\ NoEc \notin ECs
    /\ EcCpu \in [ECs -> CPUs]
    /\ ScEc \in [SCs -> ECs]
    /\ MaxPrio \in Nat
    /\ Prio \in [SCs -> 0 .. MaxPrio]
    /\ IdleSc \in [CPUs -> SCs]
    /\ BootQ \in [CPUs -> [0 .. MaxPrio -> Seq(SCs)]]
    /\ \A c \in CPUs : EcCpu[ScEc[IdleSc[c]]] = c /\ Prio[IdleSc[c]] = 0
    /\ \A c \in CPUs, p \in 0 .. MaxPrio : \A i \in 1 .. Len(BootQ[c][p]) :
          /\ EcCpu[ScEc[BootQ[c][p][i]]] = c /\ Prio[BootQ[c][p][i]] = p
          /\ BootQ[c][p][i] # IdleSc[c]
          /\ \A j \in 1 .. Len(BootQ[c][p]) : BootQ[c][p][i] = BootQ[c][p][j] => i = j

\* Sc::cpu: sys_create_sc binds an SC to the CPU of its EC.
ScCpu(s) == EcCpu[ScEc[s]]

BootScs == {s \in SCs : \E i \in 1 .. Len(BootQ[ScCpu(s)][Prio[s]]) :
                                BootQ[ScCpu(s)][Prio[s]][i] = s}

IdleEcs == {ScEc[IdleSc[c]] : c \in CPUs}

VARIABLES
    pc, arg, ret,   \* control state of the kernel, per CPU
    cur,            \* Scheduler::current, per CPU
    ready,          \* Scheduler::ready.queue, per CPU and priority
    top,            \* Scheduler::ready.prio_top, per CPU
    release,        \* Scheduler::release.queue, per CPU
    rrq,            \* the RRQ IPI is pending at this CPU
    sched,          \* Cpu::hazard has Hazard::SCHED, per CPU
    left,           \* Sc::left is not zero, per SC
    created         \* the SCs that exist

ctlVars  == <<pc, arg, ret>>
scVars   == <<cur, ready, top, release, rrq, sched, left, created>>

Goto(c, p) == pc' = [pc EXCEPT ![c] = p]

\* Enter the function at p with EC e and return address r.
Call(c, p, e, r) ==
    /\ Goto(c, p)
    /\ arg' = [arg EXCEPT ![c] = e]
    /\ ret' = [ret EXCEPT ![c] = r]

\* Leave it for p; its locals are gone.
Leave(c, p) == Call(c, p, NoEc, "user")

-----------------------------------------------------------------------------
\* Mutation of ReadyEnqueue: an SC whose budget is used up goes to the head as well.
ReadyEnqueueHead(c, s, l, h) ==
    /\ top' = [top EXCEPT ![c] = IF Prio[s] > @ THEN Prio[s] ELSE @]
    /\ ready' = [ready EXCEPT ![c][Prio[s]] = <<s>> \o @]
    /\ sched' = [sched EXCEPT ![c] = h \/ Prio[s] > Prio[cur[c]]]
    /\ left' = [left EXCEPT ![s] = TRUE]

(***************************************************************************)
(* Ready::enqueue.  l says whether s has budget left when it is enqueued:  *)
(* an SC that was interrupted resumes at the head, one whose budget is     *)
(* used up goes to the tail with a new budget.  h is the SCHED hazard      *)
(* before the call.                                                        *)
(***************************************************************************)
ReadyEnqueue(c, s, l, h) ==
    /\ top' = [top EXCEPT ![c] = IF Prio[s] > @ THEN Prio[s] ELSE @]
    /\ LET q == ready[c][Prio[s]] IN
       ready' = [ready EXCEPT ![c][Prio[s]] = IF l THEN <<s>> \o q ELSE Append(q, s)]
    /\ sched' = [sched EXCEPT ![c] =
                    \/ h
                    \/ Prio[s] > Prio[cur[c]]
                    \/ s # cur[c] /\ Prio[s] = Prio[cur[c]] /\ l]
    /\ left' = [left EXCEPT ![s] = TRUE]

(***************************************************************************)
(* Ready::dequeue takes the head of the queue at prio_top and lowers       *)
(* prio_top to the next priority that has an SC.                           *)
(***************************************************************************)
ReadyHead(c) == Head(ready[c][top[c]])

IsTop(r, t, p) ==
    /\ p \in 0 .. t
    /\ p = 0 \/ r[p] # <<>>
    /\ \A q \in p + 1 .. t : r[q] = <<>>

ReadyDequeue(c) ==
    LET r == [ready[c] EXCEPT ![top[c]] = Tail(@)] IN
    /\ ready[c][top[c]] # <<>>
    /\ ready' = [ready EXCEPT ![c] = r]
    /\ \E p \in 0 .. MaxPrio :
         /\ IsTop(r, top[c], p)
         /\ top' = [top EXCEPT ![c] = p]

\* Release::enqueue up to the unlock; the caller sends the IPI if the queue was empty.
ReleaseEnqueue(s) == release' = [release EXCEPT ![ScCpu(s)] = Append(@, s)]

(***************************************************************************)
(* Scheduler::schedule, from its entry to the loop.  With blocked = TRUE   *)
(* the caller has already put the current SC where it belongs (on an EC's  *)
(* queue, or nowhere if the SC is out of work).                            *)
(***************************************************************************)
Schedule(c, blocked) ==
    /\ pc[c] = IF blocked THEN "schedule_blocked" ELSE "schedule"
    /\ Goto(c, "pick")
    /\ \E l \in {b \in BOOLEAN : b => left[cur[c]]} :
          IF blocked
          THEN /\ left' = [left EXCEPT ![cur[c]] = l]
               /\ sched' = [sched EXCEPT ![c] = FALSE]
               /\ UNCHANGED <<ready, top>>
          ELSE ReadyEnqueue(c, cur[c], l, FALSE)
    /\ UNCHANGED <<arg, ret, cur, release, rrq, created>>

-----------------------------------------------------------------------------
(***************************************************************************)
(* The points at which interrupts are taken: in user mode, in the idle     *)
(* loop, and at the preemption points of Ec::help and Ec::handle_hazard.   *)
(***************************************************************************)
Interruptible(c) ==
    \/ pc[c] \in {"user", "idle", "help"}
    \/ pc[c] \in {"ret_user_hypercall", "ret_user_exception"} /\ sched[c]

\* Where the interrupt exit path continues: user mode leaves through ret_user_iret.
Resume(c) == IF pc[c] = "user" THEN "ret_user_exception" ELSE pc[c]

\* The RRQ IPI enters Scheduler::requeue.
HandleRrq(c) ==
    /\ Interruptible(c) /\ rrq[c]
    /\ rrq' = [rrq EXCEPT ![c] = FALSE]
    /\ Call(c, "requeue", NoEc, Resume(c))
    /\ UNCHANGED <<cur, ready, top, release, sched, left, created>>

\* One iteration of Scheduler::requeue.
Requeue(c) ==
    /\ pc[c] = "requeue"
    /\ IF release[c] = <<>>
       THEN Leave(c, ret[c]) /\ UNCHANGED <<ready, top, sched, left, release>>
       ELSE /\ release' = [release EXCEPT ![c] = Tail(@)]
            /\ ReadyEnqueue(c, Head(release[c]), left[Head(release[c])], sched[c])
            /\ UNCHANGED ctlVars
    /\ UNCHANGED <<cur, rrq, created>>

\* Timeout_budget::trigger: the deadline of the current SC has passed.
BudgetTimeout(c) ==
    /\ Interruptible(c) /\ left[cur[c]]
    /\ left' = [left EXCEPT ![cur[c]] = FALSE]
    /\ sched' = [sched EXCEPT ![c] = TRUE]
    /\ Goto(c, Resume(c))
    /\ UNCHANGED <<arg, ret, cur, ready, top, release, rrq, created>>
=============================================================================
