-------------------------------- MODULE Nova --------------------------------
(***************************************************************************)
(* The kernel core: scheduler, execution contexts and semaphores running   *)
(* on all CPUs.  The kernel step of a CPU is one of the handlers below;    *)
(* user mode may issue any system call, raise an exception, or be          *)
(* interrupted.                                                            *)
(***************************************************************************)
EXTENDS Sm, FiniteSets

\* Memory holds finitely many ECs.
ASSUME FiniteEcs == IsFiniteSet(ECs)

vars == <<ctlVars, scVars, ecVars, smVars>>

(***************************************************************************)
(* bootstrap: every CPU runs its idle EC and enters Scheduler::schedule.   *)
(* The SCs of BootQ are ready; the other SCs are yet to be created.  A new *)
(* global EC starts with its startup exception, a local one waits for a    *)
(* call.                                                                   *)
(***************************************************************************)
Init ==
    /\ pc = [c \in CPUs |-> "schedule"]
    /\ arg = [c \in CPUs |-> NoEc]
    /\ ret = [c \in CPUs |-> "user"]
    /\ cur = IdleSc
    /\ created = BootScs \cup {IdleSc[c] : c \in CPUs}
    /\ ready = BootQ
    /\ top \in [CPUs -> 0 .. MaxPrio]
    /\ \A c \in CPUs : IsTop(BootQ[c], MaxPrio, top[c])
    /\ release = [c \in CPUs |-> <<>>]
    /\ rrq = [c \in CPUs |-> FALSE]
    /\ sched = [c \in CPUs |-> FALSE]
    /\ left = [s \in SCs |-> s \in created]
    /\ ec = [c \in CPUs |-> ScEc[IdleSc[c]]]
    /\ don = [c \in CPUs |-> 0]
    /\ act = ec
    /\ cont = [e \in ECs |-> IF e \in IdleEcs THEN "idle"
                             ELSE IF e \in Local THEN "null"
                             ELSE IF e \in Started THEN "ret_user_exception"
                             ELSE "send_msg"]
    /\ callee = [e \in ECs |-> NoEc]
    /\ caller = [e \in ECs |-> NoEc]
    /\ want \in {w \in [ECs -> Local \cup {NoEc}] :
                   \A e \in ECs : cont[e] # "send_msg" => w[e] = NoEc}
    /\ scq = [e \in ECs |-> <<>>]
    /\ counter = InitCounter
    /\ smq = [m \in SMs |-> <<>>]
    /\ timeout = [e \in ECs |-> NoSm]
    /\ tmo = [c \in CPUs |-> NoSm]

\* Steps of the scheduler and the EC code leave the semaphores alone.
SchedStep(c) ==
    /\ \/ Schedule(c, TRUE) \/ Schedule(c, FALSE)
       \/ HandleRrq(c) \/ Requeue(c) \/ BudgetTimeout(c)
    /\ UNCHANGED <<ecVars, smVars>>

EcStep(c) ==
    /\ \/ ActivateWalk(c) \/ ActivateRun(c) \/ ActivateBlockSc(c) \/ Pick(c)
       \/ UnblockSc(c) \/ UnblockLoop(c) \/ Notify(c)
       \/ CallPortal(c) \/ RaiseException(c) \/ SysIpcCall(c) \/ SendMsg(c)
       \/ Help(c) \/ Recv(c) \/ SysIpcReply(c) \/ Kill(c)
       \/ RetUser(c) \/ IdleLoop(c) \/ SysCreateSc(c) \/ NotifyCreated(c)
    /\ UNCHANGED smVars

SmStep(c) ==
    \/ DnFast(c) \/ DnBlock(c) \/ DnBlockSc(c) \/ SysUp(c) \/ GsiUp(c)
    \/ SmTimeout(c) \/ SysFinish(c)

Next == \E c \in CPUs : SchedStep(c) \/ EcStep(c) \/ SmStep(c)

Spec == Init /\ [][Next]_vars

-----------------------------------------------------------------------------
Elems(q) == {q[i] : i \in 1 .. Len(q)}

PCs == Conts \cup {"schedule", "schedule_blocked", "pick", "activate", "user", "help",
                   "requeue", "unblock_sc", "unblock_loop", "notify", "notify_created",
                   "kill", "dn"}

TypeCtl ==
    /\ pc \in [CPUs -> PCs]
    /\ arg \in [CPUs -> ECs \cup {NoEc}]
    /\ ret \in [CPUs -> PCs]

TypeSc ==
    /\ cur \in [CPUs -> SCs]
    /\ ready \in [CPUs -> [0 .. MaxPrio -> Seq(SCs)]]
    /\ top \in [CPUs -> 0 .. MaxPrio]
    /\ release \in [CPUs -> Seq(SCs)]
    /\ rrq \in [CPUs -> BOOLEAN]
    /\ sched \in [CPUs -> BOOLEAN]
    /\ left \in [SCs -> BOOLEAN]
    /\ created \subseteq SCs

TypeEc ==
    /\ ec \in [CPUs -> ECs]
    /\ don \in [CPUs -> Nat]
    /\ act \in [CPUs -> ECs]
    /\ cont \in [ECs -> Conts]
    /\ callee \in [ECs -> ECs \cup {NoEc}]
    /\ caller \in [ECs -> ECs \cup {NoEc}]
    /\ want \in [ECs -> ECs \cup {NoEc}]
    /\ scq \in [ECs -> Seq(SCs)]

TypeSm ==
    /\ counter \in [SMs -> 0 .. MaxCounter]
    /\ smq \in [SMs -> Seq(ECs)]
    /\ timeout \in [ECs -> SMs \cup {NoSm}]
    /\ tmo \in [CPUs -> SMs \cup {NoSm}]

\* The type of every variable.
TypeOK == TypeCtl /\ TypeSc /\ TypeEc /\ TypeSm

-----------------------------------------------------------------------------
InReady(s)   == s \in Elems(ready[ScCpu(s)][Prio[s]])
InRelease(s) == s \in Elems(release[ScCpu(s)])
WaitsOn(s, e) == s \in Elems(scq[e])
Queued(s) == InReady(s) \/ InRelease(s) \/ \E e \in ECs : WaitsOn(s, e)

Distinct(q) == \A i, j \in 1 .. Len(q) : q[i] = q[j] => i = j

ReadyPlaced ==
    \A c \in CPUs, p \in 0 .. MaxPrio :
        /\ Distinct(ready[c][p])
        /\ \A s \in Elems(ready[c][p]) : ScCpu(s) = c /\ Prio[s] = p

ReleasePlaced ==
    \A c \in CPUs :
        /\ Distinct(release[c])
        /\ \A s \in Elems(release[c]) : ScCpu(s) = c

WaitPlaced ==
    \A e \in ECs :
        /\ Distinct(scq[e])
        /\ \A s \in Elems(scq[e]) : ScCpu(s) = EcCpu[e]

OnePlace ==
    \A s \in SCs :
        /\ ~(InReady(s) /\ InRelease(s))
        /\ \A e \in ECs : WaitsOn(s, e) =>
             /\ ~InReady(s) /\ ~InRelease(s)
             /\ \A f \in ECs : WaitsOn(s, f) => f = e

(***************************************************************************)
(* An SC is in at most one queue, and once: a ready queue or the release   *)
(* queue of its own CPU, or the queue of one EC of that CPU.  Together     *)
(* with RunningNotQueued this is why the assertions on Element::queued()   *)
(* in Queue::enqueue and Scheduler::schedule cannot fail.                  *)
(***************************************************************************)
ScQueuedOnce == ReadyPlaced /\ ReleasePlaced /\ WaitPlaced /\ OnePlace

(***************************************************************************)
(* The current SC of a CPU is in no queue, except between the moment it    *)
(* was put on an EC's queue and the next Ready::dequeue.                   *)
(***************************************************************************)
RunningNotQueued ==
    \A c \in CPUs : Queued(cur[c]) => pc[c] \in {"schedule_blocked", "pick"}

(***************************************************************************)
(* No SC gets lost: an SC that is neither current nor queued is out of     *)
(* work because its EC died or returned without a caller.                  *)
(***************************************************************************)
NoScLost ==
    \A s \in created : \/ Queued(s) \/ cur[ScCpu(s)] = s
                       \/ cont[ScEc[s]] \in {"dead", "null"}

(***************************************************************************)
(* No lost wakeup: while an SC waits on an EC, the EC is still blocked or  *)
(* a CPU is on its way through unblock_sc for that EC.  This is the        *)
(* contract of block_sc and unblock_sc (steps A to D in inc/ec.hpp).       *)
(***************************************************************************)
Unblocking(e) == \E c \in CPUs : pc[c] \in {"unblock_sc", "unblock_loop", "notify"} /\ arg[c] = e

NoLostWakeup == \A e \in ECs : scq[e] # <<>> => Blocked(e) \/ Unblocking(e)

(***************************************************************************)
(* A hypercall timeout belongs to the wait that set it: while it is        *)
(* enqueued the EC is blocked on that very semaphore, or has been woken    *)
(* and has not yet left the hypercall.                                     *)
(***************************************************************************)
TimeoutMatchesWait ==
    \A e \in ECs : timeout[e] # NoSm =>
        IF cont[e] = "blocking" THEN e \in Elems(smq[timeout[e]])
        ELSE /\ cont[e] = "sys_finish_success"
             /\ \A c \in CPUs : ec[c] = e => pc[c] # "user"

\* Ready::dequeue: prio_top is the highest priority with a ready SC; one is always ready.
PrioTop ==
    \A c \in CPUs :
        /\ \A p \in top[c] + 1 .. MaxPrio : ready[c][p] = <<>>
        /\ pc[c] = "pick" => ready[c][top[c]] # <<>>

-----------------------------------------------------------------------------
(***************************************************************************)
(* Partners: whoever has a caller is a local EC serving it, that caller    *)
(* waits in user-mode return with its callee link pointing back, and a     *)
(* handler that is free has no partner.  This covers the assertions        *)
(* of recv_user, recv_kern, state_load, state_save and reply.              *)
(***************************************************************************)
Partners ==
    /\ \A e \in ECs : caller[e] # NoEc =>
         /\ callee[caller[e]] = e
         /\ e \in Local /\ cont[e] # "null"
         /\ cont[caller[e]] \in {"ret_user_hypercall", "ret_user_exception"}
    /\ \A e \in ECs : callee[e] # NoEc => caller[callee[e]] = e
    /\ \A c \in CPUs : pc[c] = "recv_user" => cont[caller[ec[c]]] = "ret_user_hypercall"
    /\ \A c \in CPUs : pc[c] = "recv_kern" => cont[caller[ec[c]]] = "ret_user_exception"

(***************************************************************************)
(* Donations: following the caller links donations times from the EC that  *)
(* a CPU runs leads to the very EC that its SC was last activated on, and  *)
(* that is the SC's own EC or a handler which the SC helps.  So a reply    *)
(* never lets an SC run on as another client, and never leaves an SC with  *)
(* a handler whose caller is not its own.                                  *)
(***************************************************************************)
DonationsMatchCallers ==
    \A c \in CPUs : pc[c] \notin {"activate", "pick", "schedule_blocked"} =>
        LET up[n \in 0 .. don[c]] == IF n = 0 THEN ec[c]
                                     ELSE IF up[n - 1] = NoEc THEN NoEc ELSE caller[up[n - 1]]
        IN  up[don[c]] = act[c] /\ act[c] \in Local \cup {ScEc[cur[c]]}

\* The walk of Ec::activate ends: callee links have no cycle.
CalleeChainsEnd ==
    \A e \in ECs : LET next[n \in 0 .. Cardinality(ECs)] ==
                           IF n = 0 THEN callee[e]
                           ELSE IF next[n - 1] = NoEc THEN NoEc ELSE callee[next[n - 1]]
                   IN  next[Cardinality(ECs)] = NoEc

\* What dn, up and the hypercall timeout promise together: whoever waits
\* can be woken, once, and no SC drops out on the way.
WaitsExact == NoScLost /\ NoLostWakeup /\ TimeoutMatchesWait

\* The same for helping, donation and preemption on one CPU: every SC stays
\* within reach of the scheduler, which finds the most important one.
ScsRunnable == NoScLost /\ NoLostWakeup /\ PrioTop

\* Call chains are consistent at both ends, come to an end, and the kernel
\* donates exactly along them.
CallChains == Partners /\ CalleeChainsEnd /\ DonationsMatchCallers

-----------------------------------------------------------------------------
(***************************************************************************)
(* The semaphores implement the abstract counting semaphore.  A woken EC   *)
(* is still inside its wait until sys_finish, or dn itself, returns.       *)
(***************************************************************************)
InWait(e) == \A c \in CPUs : ec[c] = e =>
    pc[c] \in {"sys_finish_success", "sys_finish_timeout", "dn",
               "schedule_blocked", "pick", "activate"}

Abstract == INSTANCE Semaphore WITH
    Threads <- ECs, Sems <- SMs, Max <- MaxCounter, Start <- InitCounter,
    count <- counter, queue <- smq,
    state <- [e \in ECs |->
                CASE cont[e] = "blocking" -> "waiting"
                  [] cont[e] = "sys_finish_success" /\ InWait(e) -> "granted"
                  [] cont[e] = "sys_finish_timeout" /\ InWait(e) -> "expired"
                  [] OTHER -> "free"]

\* Sm::dn, up and timeout implement a FIFO counting semaphore.
ImplementsSemaphore == Abstract!Spec

-----------------------------------------------------------------------------
(***************************************************************************)
(* Fairness.  Kernel code on a CPU runs to completion, so its steps are    *)
(* weakly fair.  A pending IPI or timer is taken at the next interruptible *)
(* point, but such points come and go: strong fairness.  User mode owes    *)
(* nothing.                                                                *)
(***************************************************************************)
KernelStep(c) ==
    \/ (Schedule(c, TRUE) \/ Schedule(c, FALSE) \/ Requeue(c)) /\ UNCHANGED <<ecVars, smVars>>
    \/ /\ \/ ActivateWalk(c) \/ ActivateRun(c) \/ ActivateBlockSc(c) \/ Pick(c)
          \/ UnblockSc(c) \/ UnblockLoop(c) \/ Notify(c) \/ SysIpcCall(c) \/ SendMsg(c)
          \/ Help(c) \/ Recv(c) \/ Kill(c) \/ RetUser(c) \/ IdleLoop(c) \/ NotifyCreated(c)
       /\ UNCHANGED smVars
    \/ DnBlockSc(c) \/ SysFinish(c)

Fairness ==
    \A c \in CPUs :
        /\ WF_vars(KernelStep(c))
        /\ SF_vars(HandleRrq(c) /\ UNCHANGED <<ecVars, smVars>>)
        /\ SF_vars(BudgetTimeout(c) /\ UNCHANGED <<ecVars, smVars>>)

FairSpec == Spec /\ Fairness

(***************************************************************************)
(* An SC that waits on an EC which has been unblocked, or that is on its   *)
(* way to its own CPU through the release queue, becomes ready there.      *)
(***************************************************************************)
Woken ==
    \A s \in SCs :
        (InRelease(s) \/ \E e \in ECs : WaitsOn(s, e) /\ ~Blocked(e))
            ~> (InReady(s) \/ cur[ScCpu(s)] = s)

\* Round robin: a ready SC of the highest priority gets its turn.
ReadyRuns ==
    \A s \in SCs : (\A r \in SCs : Prio[r] <= Prio[s]) =>
        (InReady(s) ~> cur[ScCpu(s)] = s)
=============================================================================
