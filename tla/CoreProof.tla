----------------------------- MODULE CoreProof -----------------------------
(***************************************************************************)
(* More proofs about the kernel core, on top of NovaProof: no wakeup and   *)
(* no SC is lost, hypercall timeouts match their waits, the scheduler      *)
(* finds the most important SC, calls form chains that end, and the        *)
(* semaphores implement their abstract specification.                      *)
(*                                                                         *)
(* The inductive invariant is Inv of NovaProof and                         *)
(*   - Calls: what the EC that runs on a CPU can be, how callers, handlers *)
(*     and their continuations belong together, and who waits on a         *)
(*     semaphore,                                                          *)
(*   - Timers: which wait a hypercall timeout belongs to,                  *)
(*   - Wakeups: who will take the SCs off the queue of an EC,              *)
(*   - Chains: the donations of each CPU, link by link,                    *)
(*   - Kept: an SC that is put away is queued or out of work, and          *)
(*   - Idles and Tops: the idle SC is there when no other SC is ready.     *)
(***************************************************************************)
EXTENDS NovaProof, FiniteSetTheorems, NaturalsInduction, WellFoundedInduction

\* No EC runs: the CPU is in the scheduler or on its way down a call chain.
Away == {"schedule", "schedule_blocked", "pick", "activate"}

\* The EC that runs on CPU c has called nobody, serves somebody if it is a
\* handler, and is neither blocked nor dead.
RunOK(c) == pc[c] \notin Away =>
    /\ callee[ec[c]] = NoEc
    /\ ec[c] \in Local => caller[ec[c]] # NoEc
    /\ pc[c] = "dn" => cont[ec[c]] \in {"blocking", "sys_finish_success"}
    /\ pc[c] # "dn" => ~Blocked(ec[c])
    /\ cont[ec[c]] = "dead" => pc[c] = "dead"
    /\ pc[c] \in {"recv_user", "recv_kern"} => cont[ec[c]] = pc[c]

\* A handler that is activated or helped serves somebody.
AimOK(c) ==
    /\ pc[c] = "activate" => (arg[c] \in Local => caller[arg[c]] # NoEc)
    /\ AtHelp(c) => caller[want[ec[c]]] # NoEc

\* The links of an EC and its continuation.
LinkOK(e) ==
    /\ want[e] \in Local \cup {NoEc}
    /\ caller[e] # NoEc =>
         /\ callee[caller[e]] = e
         /\ e \in Local /\ cont[e] # "null"
         /\ cont[caller[e]] \in {"ret_user_hypercall", "ret_user_exception"}
    /\ callee[e] # NoEc => caller[callee[e]] = e
    /\ cont[e] = "recv_user" =>
         caller[e] # NoEc /\ cont[caller[e]] = "ret_user_hypercall"
    /\ cont[e] = "recv_kern" =>
         caller[e] # NoEc /\ cont[caller[e]] = "ret_user_exception"
    /\ e \in Local /\ caller[e] = NoEc => cont[e] \in {"null", "dead"}

\* Who is queued at a semaphore is blocked, and queued there only, and once.
Waiters ==
    \A m \in SMs :
        /\ Distinct(smq[m])
        /\ \A e \in Elems(smq[m]) :
             cont[e] = "blocking" /\ \A n \in SMs : e \in Elems(smq[n]) => n = m

Calls == /\ \A c \in CPUs : RunOK(c) /\ AimOK(c)
         /\ \A e \in ECs : LinkOK(e)
         /\ Waiters

\* The control state of the other CPUs.
Others(c) == \A d \in CPUs \ {c} :
    /\ pc'[d] = pc[d] /\ arg'[d] = arg[d] /\ ret'[d] = ret[d] /\ ec'[d] = ec[d]

\* What a step of CPU c may do to the ECs of other CPUs: wake them.
Abroad(c) == \A e \in ECs : EcCpu[e] # c =>
    /\ callee'[e] = callee[e] /\ caller'[e] = caller[e] /\ want'[e] = want[e]
    /\ cont'[e] = cont[e] \/ (cont[e] = "blocking" /\ cont'[e] = "sys_finish_success")

-----------------------------------------------------------------------------
(* Calls.                                                                  *)

\* The other CPUs: nothing that concerns their ECs changes.
LEMMA OtherCpus ==
    ASSUME Inv, Calls, NEW c \in CPUs, Others(c), Abroad(c)
    PROVE  \A d \in CPUs \ {c} : RunOK(d)' /\ AimOK(d)'
  <1> SUFFICES ASSUME NEW d \in CPUs \ {c} PROVE RunOK(d)' /\ AimOK(d)'
    OBVIOUS
  <1>1. RunOK(d) /\ AimOK(d) /\ CpuOK(d) /\ ec[d] \in ECs
    BY DEF Calls, Inv, Control, TypeOK, TypeEc
  <1>2. /\ pc'[d] = pc[d] /\ arg'[d] = arg[d] /\ ret'[d] = ret[d] /\ ec'[d] = ec[d]
    BY DEF Others
  <1>3. EcCpu[ec[d]] = d
    BY <1>1 DEF CpuOK
  <1>4. /\ callee'[ec[d]] = callee[ec[d]] /\ caller'[ec[d]] = caller[ec[d]]
        /\ want'[ec[d]] = want[ec[d]]
        /\ \/ cont'[ec[d]] = cont[ec[d]]
           \/ cont[ec[d]] = "blocking" /\ cont'[ec[d]] = "sys_finish_success"
    BY <1>1, <1>3 DEF Abroad
  <1>5. RunOK(d)'
    BY <1>1, <1>2, <1>4 DEF RunOK, Blocked
  <1>6. pc[d] = "activate" => caller'[arg[d]] = caller[arg[d]]
    BY <1>1 DEF Abroad, CpuOK
  <1>7. AtHelp(d) => caller'[want[ec[d]]] = caller[want[ec[d]]]
    BY <1>1 DEF Abroad, CpuOK
  <1>8. AimOK(d)'
    BY <1>1, <1>2, <1>4, <1>6, <1>7 DEF AimOK, AtHelp
  <1> QED BY <1>5, <1>8

\* A step that touches no semaphore queue and no EC that is blocked.
LEMMA WaitersSame ==
    ASSUME Inv, Waiters, UNCHANGED smq,
           \A e \in ECs : cont[e] = "blocking" => cont'[e] = "blocking"
    PROVE  Waiters'
  <1>1. ASSUME NEW m \in SMs PROVE Distinct(smq[m])' /\ Elems(smq[m])' = Elems(smq[m])
    BY DEF Waiters, Distinct, Elems
  <1>2. ASSUME NEW m \in SMs PROVE Elems(smq[m]) \subseteq ECs
    BY DEF Elems, Inv, TypeOK, TypeSm
  <1> QED BY <1>1, <1>2 DEF Waiters

\* A step that leaves all ECs alone.
LEMMA QuietCalls ==
    ASSUME Inv, Calls, NEW c \in CPUs, Others(c),
           UNCHANGED <<ec, cont, callee, caller, want, smq>>,
           RunOK(c)', AimOK(c)'
    PROVE  Calls'
  <1>1. Abroad(c)
    BY DEF Abroad
  <1>2. \A d \in CPUs : RunOK(d)' /\ AimOK(d)'
    BY <1>1, OtherCpus
  <1>3. \A e \in ECs : LinkOK(e)'
    BY DEF Calls, LinkOK
  <1>4. Waiters'
    BY WaitersSame DEF Calls
  <1> QED BY <1>2, <1>3, <1>4 DEF Calls

\* A step within the kernel on behalf of the same EC, or away from it.
LEMMA MoveCalls ==
    ASSUME Inv, Calls, NEW c \in CPUs, Others(c),
           UNCHANGED <<ec, cont, callee, caller, want, smq>>,
           \/ pc'[c] \in Away
           \/ /\ pc[c] \notin Away \cup {"dn", "dead"}
              /\ pc'[c] \notin {"dn", "recv_user", "recv_kern"},
           pc'[c] # "activate", AtHelp(c)' => AtHelp(c)
    PROVE  Calls'
  <1>1. RunOK(c)'
    BY DEF Calls, RunOK, Blocked, Away
  <1>2. AimOK(c)'
    BY DEF Calls, AimOK
  <1> QED BY <1>1, <1>2, QuietCalls

\* Scheduler::schedule.
LEMMA ScheduleCalls ==
    ASSUME Inv, Calls, NEW c \in CPUs, NEW b \in BOOLEAN, Schedule(c, b), UNCHANGED <<ecVars, smVars>>
    PROVE  Calls'
  <1>1. Others(c) /\ UNCHANGED <<ec, cont, callee, caller, want, smq>>
    BY DEF Inv, TypeOK, TypeCtl, Others, Schedule, ReadyEnqueue, Goto, ecVars, smVars
  <1>2. /\ \/ pc'[c] \in Away
           \/ /\ pc[c] \notin Away \cup {"dn", "dead"}
              /\ pc'[c] \notin {"dn", "recv_user", "recv_kern"}
        /\ pc'[c] # "activate"
        /\ AtHelp(c)' => AtHelp(c)
    BY DEF Inv, TypeOK, TypeCtl, Control, CpuOK, AtHelp, Handlers, Resumes, Away, Schedule, ReadyEnqueue, Goto, ecVars, smVars
  <1> QED BY <1>1, <1>2, MoveCalls

\* The RRQ IPI.
LEMMA HandleRrqCalls ==
    ASSUME Inv, Calls, NEW c \in CPUs, HandleRrq(c), UNCHANGED <<ecVars, smVars>>
    PROVE  Calls'
  <1>1. Others(c) /\ UNCHANGED <<ec, cont, callee, caller, want, smq>>
    BY DEF Inv, TypeOK, TypeCtl, Others, HandleRrq, Call, Goto, Resume, Interruptible, ecVars, smVars
  <1>2. /\ \/ pc'[c] \in Away
           \/ /\ pc[c] \notin Away \cup {"dn", "dead"}
              /\ pc'[c] \notin {"dn", "recv_user", "recv_kern"}
        /\ pc'[c] # "activate"
        /\ AtHelp(c)' => AtHelp(c)
    BY DEF Inv, TypeOK, TypeCtl, Control, CpuOK, AtHelp, Handlers, Resumes, Away, HandleRrq, Call, Goto, Resume, Interruptible, ecVars, smVars
  <1> QED BY <1>1, <1>2, MoveCalls

\* Scheduler::requeue.
LEMMA RequeueCalls ==
    ASSUME Inv, Calls, NEW c \in CPUs, Requeue(c), UNCHANGED <<ecVars, smVars>>
    PROVE  Calls'
  <1>1. Others(c) /\ UNCHANGED <<ec, cont, callee, caller, want, smq>>
    BY DEF Inv, TypeOK, TypeCtl, Others, Requeue, ReadyEnqueue, Leave, Call, Goto, ctlVars, ecVars, smVars
  <1>2. /\ \/ pc'[c] \in Away
           \/ /\ pc[c] \notin Away \cup {"dn", "dead"}
              /\ pc'[c] \notin {"dn", "recv_user", "recv_kern"}
        /\ pc'[c] # "activate"
        /\ AtHelp(c)' => AtHelp(c)
    BY DEF Inv, TypeOK, TypeCtl, Control, CpuOK, AtHelp, Handlers, Resumes, Away, Requeue, ReadyEnqueue, Leave, Call, Goto, ctlVars, ecVars, smVars
  <1> QED BY <1>1, <1>2, MoveCalls

\* The budget timeout.
LEMMA BudgetTimeoutCalls ==
    ASSUME Inv, Calls, NEW c \in CPUs, BudgetTimeout(c), UNCHANGED <<ecVars, smVars>>
    PROVE  Calls'
  <1>1. Others(c) /\ UNCHANGED <<ec, cont, callee, caller, want, smq>>
    BY DEF Inv, TypeOK, TypeCtl, Others, BudgetTimeout, Goto, Resume, Interruptible, ecVars, smVars
  <1>2. /\ \/ pc'[c] \in Away
           \/ /\ pc[c] \notin Away \cup {"dn", "dead"}
              /\ pc'[c] \notin {"dn", "recv_user", "recv_kern"}
        /\ pc'[c] # "activate"
        /\ AtHelp(c)' => AtHelp(c)
    BY DEF Inv, TypeOK, TypeCtl, Control, CpuOK, AtHelp, Handlers, Resumes, Away, BudgetTimeout, Goto, Resume, Interruptible, ecVars, smVars
  <1> QED BY <1>1, <1>2, MoveCalls

\* Ec::activate on a blocked EC.
LEMMA ActivateBlockScCalls ==
    ASSUME Inv, Calls, NEW c \in CPUs, ActivateBlockSc(c), UNCHANGED smVars
    PROVE  Calls'
  <1>1. Others(c) /\ UNCHANGED <<ec, cont, callee, caller, want, smq>>
    BY DEF Inv, TypeOK, TypeCtl, Others, ActivateBlockSc, Leave, Call, Goto, scVars, smVars
  <1>2. /\ \/ pc'[c] \in Away
           \/ /\ pc[c] \notin Away \cup {"dn", "dead"}
              /\ pc'[c] \notin {"dn", "recv_user", "recv_kern"}
        /\ pc'[c] # "activate"
        /\ AtHelp(c)' => AtHelp(c)
    BY DEF Inv, TypeOK, TypeCtl, Control, CpuOK, AtHelp, Handlers, Resumes, Away, ActivateBlockSc, Leave, Call, Goto, scVars, smVars
  <1> QED BY <1>1, <1>2, MoveCalls

\* unblock_sc takes the lock.
LEMMA UnblockScCalls ==
    ASSUME Inv, Calls, NEW c \in CPUs, UnblockSc(c), UNCHANGED smVars
    PROVE  Calls'
  <1>1. Others(c) /\ UNCHANGED <<ec, cont, callee, caller, want, smq>>
    BY DEF Inv, TypeOK, TypeCtl, Others, UnblockSc, Goto, ecVars, scVars, smVars
  <1>2. /\ \/ pc'[c] \in Away
           \/ /\ pc[c] \notin Away \cup {"dn", "dead"}
              /\ pc'[c] \notin {"dn", "recv_user", "recv_kern"}
        /\ pc'[c] # "activate"
        /\ AtHelp(c)' => AtHelp(c)
    BY DEF Inv, TypeOK, TypeCtl, Control, CpuOK, AtHelp, Handlers, Resumes, Away, UnblockSc, Goto, ecVars, scVars, smVars
  <1> QED BY <1>1, <1>2, MoveCalls

\* unblock_sc takes an SC off the queue.
LEMMA UnblockLoopCalls ==
    ASSUME Inv, Calls, NEW c \in CPUs, UnblockLoop(c), UNCHANGED smVars
    PROVE  Calls'
  <1>1. Others(c) /\ UNCHANGED <<ec, cont, callee, caller, want, smq>>
    BY DEF Inv, TypeOK, TypeCtl, Others, UnblockLoop, ReadyEnqueue, ReleaseEnqueue, Leave, Call, Goto, ctlVars, smVars
  <1>2. /\ \/ pc'[c] \in Away
           \/ /\ pc[c] \notin Away \cup {"dn", "dead"}
              /\ pc'[c] \notin {"dn", "recv_user", "recv_kern"}
        /\ pc'[c] # "activate"
        /\ AtHelp(c)' => AtHelp(c)
    BY DEF Inv, TypeOK, TypeCtl, Control, CpuOK, AtHelp, Handlers, Resumes, Away, UnblockLoop, ReadyEnqueue, ReleaseEnqueue, Leave, Call, Goto, ctlVars, smVars
  <1> QED BY <1>1, <1>2, MoveCalls

\* unblock_sc sends the IPI.
LEMMA NotifyCalls ==
    ASSUME Inv, Calls, NEW c \in CPUs, Notify(c), UNCHANGED smVars
    PROVE  Calls'
  <1>1. Others(c) /\ UNCHANGED <<ec, cont, callee, caller, want, smq>>
    BY DEF Inv, TypeOK, TypeCtl, Others, Notify, Goto, ecVars, smVars
  <1>2. /\ \/ pc'[c] \in Away
           \/ /\ pc[c] \notin Away \cup {"dn", "dead"}
              /\ pc'[c] \notin {"dn", "recv_user", "recv_kern"}
        /\ pc'[c] # "activate"
        /\ AtHelp(c)' => AtHelp(c)
    BY DEF Inv, TypeOK, TypeCtl, Control, CpuOK, AtHelp, Handlers, Resumes, Away, Notify, Goto, ecVars, smVars
  <1> QED BY <1>1, <1>2, MoveCalls

\* sys_create_sc.
LEMMA SysCreateScCalls ==
    ASSUME Inv, Calls, NEW c \in CPUs, SysCreateSc(c), UNCHANGED smVars
    PROVE  Calls'
  <1>1. Others(c) /\ UNCHANGED <<ec, cont, callee, caller, want, smq>>
    BY DEF Inv, TypeOK, TypeCtl, Others, SysCreateSc, User, ReadyEnqueue, ReleaseEnqueue, Call, Goto, ecVars, smVars
  <1>2. /\ \/ pc'[c] \in Away
           \/ /\ pc[c] \notin Away \cup {"dn", "dead"}
              /\ pc'[c] \notin {"dn", "recv_user", "recv_kern"}
        /\ pc'[c] # "activate"
        /\ AtHelp(c)' => AtHelp(c)
    BY DEF Inv, TypeOK, TypeCtl, Control, CpuOK, AtHelp, Handlers, Resumes, Away, SysCreateSc, User, ReadyEnqueue, ReleaseEnqueue, Call, Goto, ecVars, smVars
  <1> QED BY <1>1, <1>2, MoveCalls

\* sys_create_sc sends the IPI.
LEMMA NotifyCreatedCalls ==
    ASSUME Inv, Calls, NEW c \in CPUs, NotifyCreated(c), UNCHANGED smVars
    PROVE  Calls'
  <1>1. Others(c) /\ UNCHANGED <<ec, cont, callee, caller, want, smq>>
    BY DEF Inv, TypeOK, TypeCtl, Others, NotifyCreated, Leave, Call, Goto, ecVars, smVars
  <1>2. /\ \/ pc'[c] \in Away
           \/ /\ pc[c] \notin Away \cup {"dn", "dead"}
              /\ pc'[c] \notin {"dn", "recv_user", "recv_kern"}
        /\ pc'[c] # "activate"
        /\ AtHelp(c)' => AtHelp(c)
    BY DEF Inv, TypeOK, TypeCtl, Control, CpuOK, AtHelp, Handlers, Resumes, Away, NotifyCreated, Leave, Call, Goto, ecVars, smVars
  <1> QED BY <1>1, <1>2, MoveCalls

\* recv_user and recv_kern.
LEMMA RecvCalls ==
    ASSUME Inv, Calls, NEW c \in CPUs, Recv(c), UNCHANGED smVars
    PROVE  Calls'
  <1>1. Others(c) /\ UNCHANGED <<ec, cont, callee, caller, want, smq>>
    BY DEF Inv, TypeOK, TypeCtl, Others, Recv, Goto, ecVars, scVars, smVars
  <1>2. /\ \/ pc'[c] \in Away
           \/ /\ pc[c] \notin Away \cup {"dn", "dead"}
              /\ pc'[c] \notin {"dn", "recv_user", "recv_kern"}
        /\ pc'[c] # "activate"
        /\ AtHelp(c)' => AtHelp(c)
    BY DEF Inv, TypeOK, TypeCtl, Control, CpuOK, AtHelp, Handlers, Resumes, Away, Recv, Goto, ecVars, scVars, smVars
  <1> QED BY <1>1, <1>2, MoveCalls

\* Sm::dn with tokens left.
LEMMA DnFastCalls ==
    ASSUME Inv, Calls, NEW c \in CPUs, DnFast(c)
    PROVE  Calls'
  <1>1. Others(c) /\ UNCHANGED <<ec, cont, callee, caller, want, smq>>
    BY DEF Inv, TypeOK, TypeCtl, Others, DnFast, User, Goto, ecVars, scVars
  <1>2. /\ \/ pc'[c] \in Away
           \/ /\ pc[c] \notin Away \cup {"dn", "dead"}
              /\ pc'[c] \notin {"dn", "recv_user", "recv_kern"}
        /\ pc'[c] # "activate"
        /\ AtHelp(c)' => AtHelp(c)
    BY DEF Inv, TypeOK, TypeCtl, Control, CpuOK, AtHelp, Handlers, Resumes, Away, DnFast, User, Goto, ecVars, scVars
  <1> QED BY <1>1, <1>2, MoveCalls

\* Ec::sys_finish.
LEMMA SysFinishCalls ==
    ASSUME Inv, Calls, NEW c \in CPUs, SysFinish(c)
    PROVE  Calls'
  <1>1. Others(c) /\ UNCHANGED <<ec, cont, callee, caller, want, smq>>
    BY DEF Inv, TypeOK, TypeCtl, Others, SysFinish, Goto, ecVars, scVars
  <1>2. /\ \/ pc'[c] \in Away
           \/ /\ pc[c] \notin Away \cup {"dn", "dead"}
              /\ pc'[c] \notin {"dn", "recv_user", "recv_kern"}
        /\ pc'[c] # "activate"
        /\ AtHelp(c)' => AtHelp(c)
    BY DEF Inv, TypeOK, TypeCtl, Control, CpuOK, AtHelp, Handlers, Resumes, Away, SysFinish, Goto, ecVars, scVars
  <1> QED BY <1>1, <1>2, MoveCalls

\* Sm::up without a waiter.
LEMMA UpCountCalls ==
    ASSUME Inv, Calls, NEW c \in CPUs, NEW M \in SUBSET SMs, NEW r, UpFrom(c, r), UpCount(c, M, r)
    PROVE  Calls'
  <1>1. Others(c) /\ UNCHANGED <<ec, cont, callee, caller, want, smq>>
    BY DEF Inv, TypeOK, TypeCtl, Others, UpFrom, UpCount, User, Interruptible, Resume, Goto, ecVars, scVars
  <1>2. /\ \/ pc'[c] \in Away
           \/ /\ pc[c] \notin Away \cup {"dn", "dead"}
              /\ pc'[c] \notin {"dn", "recv_user", "recv_kern"}
        /\ pc'[c] # "activate"
        /\ AtHelp(c)' => AtHelp(c)
    BY DEF Inv, TypeOK, TypeCtl, Control, CpuOK, AtHelp, Handlers, Resumes, Away, UpFrom, UpCount, User, Interruptible, Resume, Goto, ecVars, scVars
  <1> QED BY <1>1, <1>2, MoveCalls

\* What ec and its links are; the names of the ECs a step works on.
LEMMA SelfOK ==
    ASSUME Inv, Calls, NEW c \in CPUs
    PROVE  /\ ec[c] \in ECs /\ EcCpu[ec[c]] = c
           /\ callee[ec[c]] \in ECs \cup {NoEc} /\ caller[ec[c]] \in ECs \cup {NoEc}
           /\ want[ec[c]] \in Local \cup {NoEc} /\ Local \subseteq ECs /\ NoEc \notin ECs
           /\ caller[ec[c]] # NoEc => EcCpu[caller[ec[c]]] = c
           /\ pc[c] = "activate" => arg[c] \in ECs /\ EcCpu[arg[c]] = c
           /\ pc[c] = "activate" => callee[arg[c]] \in ECs \cup {NoEc}
  <1>1. ec[c] \in ECs /\ EcCpu[ec[c]] = c
    BY DEF Inv, TypeOK, TypeEc, Control, CpuOK
  <1>2. callee[ec[c]] \in ECs \cup {NoEc} /\ caller[ec[c]] \in ECs \cup {NoEc}
    BY <1>1 DEF Inv, TypeOK, TypeEc
  <1>3. want[ec[c]] \in Local \cup {NoEc} /\ Local \subseteq ECs /\ NoEc \notin ECs
    BY <1>1, Constants DEF Calls, LinkOK
  <1>4. caller[ec[c]] # NoEc => EcCpu[caller[ec[c]]] = c
    BY <1>1 DEF Inv, Control, LinksOK
  <1>6. /\ pc[c] = "activate" => arg[c] \in ECs /\ EcCpu[arg[c]] = c
        /\ pc[c] = "activate" => callee[arg[c]] \in ECs \cup {NoEc}
    BY DEF Inv, TypeOK, TypeEc, Control, CpuOK
  <1> QED BY <1>1, <1>2, <1>3, <1>4, <1>6

\* The scheduler activates the EC of the SC it has chosen.
LEMMA PickCalls ==
    ASSUME Inv, Calls, NEW c \in CPUs, Pick(c), UNCHANGED smVars
    PROVE  Calls'
  <1>1. Others(c) /\ UNCHANGED <<ec, cont, callee, caller, want, smq>>
    BY DEF Inv, TypeOK, TypeCtl, Others, Pick, EnterActivate, Call, Goto, smVars
  <1>2. RunOK(c)'
    BY DEF Inv, TypeOK, TypeCtl, RunOK, Away, Pick, EnterActivate, Call, Goto
  <1>3. AimOK(c)'
    <2>1. pc'[c] = "activate" /\ arg'[c] = ScEc[ReadyHead(c)]
      BY DEF Inv, TypeOK, TypeCtl, Pick, EnterActivate, Call, Goto
    <2>2. ReadyHead(c) \in SCs
      BY ReadyDel DEF Pick, Inv, TypeOK, ScInv, ScQueuedOnce
    <2>3. arg'[c] \notin Local
      BY <2>1, <2>2, EcAssumption
    <2> QED BY <2>1, <2>3 DEF AimOK, AtHelp, Handlers
  <1> QED BY <1>1, <1>2, <1>3, QuietCalls

\* A step down the call chain leads to a handler that serves somebody.
LEMMA ActivateWalkCalls ==
    ASSUME Inv, Calls, NEW c \in CPUs, ActivateWalk(c), UNCHANGED smVars
    PROVE  Calls'
  <1>1. Others(c) /\ UNCHANGED <<ec, cont, callee, caller, want, smq>>
    BY DEF Inv, TypeOK, TypeCtl, Others, ActivateWalk, scVars, smVars
  <1>2. RunOK(c)'
    BY DEF RunOK, Away, ActivateWalk
  <1>3. AimOK(c)'
    <2>1. pc'[c] = "activate" /\ arg'[c] = callee[arg[c]] /\ arg[c] \in ECs /\ callee[arg[c]] # NoEc
      BY SelfOK DEF Inv, TypeOK, TypeCtl, ActivateWalk
    <2>2. caller[callee[arg[c]]] = arg[c]
      BY <2>1 DEF Calls, LinkOK
    <2> QED BY <1>1, <2>1, <2>2, Constants DEF AimOK, AtHelp, Handlers
  <1> QED BY <1>1, <1>2, <1>3, QuietCalls

\* A helper activates the handler it waits for.
LEMMA HelpCalls ==
    ASSUME Inv, Calls, NEW c \in CPUs, Help(c), UNCHANGED smVars
    PROVE  Calls'
  <1>1. Others(c) /\ UNCHANGED <<ec, cont, callee, caller, want, smq>>
    BY DEF Inv, TypeOK, TypeCtl, Others, Help, EnterActivate, Call, Goto, scVars, smVars
  <1>2. RunOK(c)'
    BY DEF Inv, TypeOK, TypeCtl, RunOK, Away, Help, EnterActivate, Call, Goto
  <1>3. AimOK(c)'
    <2>1. \/ pc'[c] = "schedule"
          \/ pc'[c] = "activate" /\ arg'[c] = want[ec[c]]
      BY DEF Inv, TypeOK, TypeCtl, Help, EnterActivate, Call, Goto
    <2>2. caller[want[ec[c]]] # NoEc
      BY DEF Calls, AimOK, AtHelp, Help
    <2> QED BY <1>1, <2>1, <2>2 DEF AimOK, AtHelp, Handlers
  <1> QED BY <1>1, <1>2, <1>3, QuietCalls

\* Sm::dn goes to sleep, or returns if up was faster.
LEMMA DnBlockScCalls ==
    ASSUME Inv, Calls, NEW c \in CPUs, DnBlockSc(c)
    PROVE  Calls'
  <1>1. Others(c) /\ UNCHANGED <<ec, cont, callee, caller, want, smq>>
    BY DEF Inv, TypeOK, TypeCtl, Others, DnBlockSc, Goto, scVars
  <1>2. RunOK(c)'
    BY <1>1 DEF Inv, TypeOK, TypeCtl, Calls, RunOK, Away, DnBlockSc, Goto, Blocked
  <1>3. AimOK(c)'
    BY DEF Inv, TypeOK, TypeCtl, AimOK, AtHelp, Handlers, DnBlockSc, Goto
  <1> QED BY <1>1, <1>2, <1>3, QuietCalls

\* make_current resumes the EC at the end of the chain.
LEMMA ActivateRunCalls ==
    ASSUME Inv, Calls, NEW c \in CPUs, ActivateRun(c), UNCHANGED smVars
    PROVE  Calls'
  <1>1. /\ Others(c) /\ UNCHANGED <<cont, callee, caller, want, smq>>
        /\ ec'[c] = arg[c] /\ pc'[c] = cont[arg[c]] /\ ret'[c] = "user"
    BY DEF Inv, TypeOK, TypeCtl, TypeEc, Others, ActivateRun, MakeCurrent, Leave, Call, Goto, smVars
  <1>2. /\ arg[c] \in ECs /\ callee[arg[c]] = NoEc /\ ~Blocked(arg[c]) /\ pc[c] = "activate"
        /\ arg[c] \in Local => caller[arg[c]] # NoEc
        /\ cont[arg[c]] \in Conts
    BY SelfOK DEF ActivateRun, Calls, AimOK, Inv, TypeOK, TypeEc
  <1>3. RunOK(c)'
    BY <1>1, <1>2 DEF RunOK, Blocked, Conts
  <1>4. AimOK(c)'
    BY <1>1, <1>2 DEF AimOK, AtHelp, Handlers, Conts
  <1>5. \A d \in CPUs : RunOK(d)' /\ AimOK(d)'
    BY <1>1, <1>3, <1>4, OtherCpus DEF Abroad
  <1>6. \A e \in ECs : LinkOK(e)'
    BY <1>1 DEF Calls, LinkOK
  <1>7. Waiters'
    BY <1>1, WaitersSame DEF Calls
  <1> QED BY <1>5, <1>6, <1>7 DEF Calls

\* User mode names a portal.
LEMMA NamePortalCalls ==
    ASSUME Inv, Calls, NEW c \in CPUs, NEW p \in {"sys_ipc_call", "send_msg"},
           NamePortal(c, p), UNCHANGED smVars
    PROVE  Calls'
  <1>0. ec[c] \in ECs /\ EcCpu[ec[c]] = c
    BY SelfOK
  <1>1. /\ Others(c) /\ UNCHANGED <<ec, cont, callee, caller, smq>>
        /\ pc'[c] = p /\ pc[c] = "user"
    BY DEF Inv, TypeOK, TypeCtl, Others, NamePortal, Goto, User, smVars
  <1>2. PICK s \in Local \cup {NoEc} : want' = [want EXCEPT ![ec[c]] = s]
    BY DEF NamePortal
  <1>3. /\ want'[ec[c]] = s
        /\ \A e \in ECs : e # ec[c] => want'[e] = want[e]
    BY <1>0, <1>2 DEF Inv, TypeOK, TypeEc
  <1>4. RunOK(c)'
    BY <1>1 DEF Calls, RunOK, Away, Blocked
  <1>5. AimOK(c)'
    BY <1>1 DEF AimOK, AtHelp, Handlers
  <1>6. \A d \in CPUs : RunOK(d)' /\ AimOK(d)'
    BY <1>0, <1>1, <1>3, <1>4, <1>5, OtherCpus DEF Abroad
  <1>7. \A e \in ECs : LinkOK(e)'
    BY <1>1, <1>3 DEF Calls, LinkOK
  <1>8. Waiters'
    BY <1>1, WaitersSame DEF Calls
  <1> QED BY <1>6, <1>7, <1>8 DEF Calls

\* A call that is given up.
LEMMA BailCalls ==
    ASSUME Inv, Calls, NEW c \in CPUs, pc[c] \in {"sys_ipc_call", "send_msg"},
           NEW p \in {"ret_user_hypercall", "kill"}, Bail(c, p), UNCHANGED smVars
    PROVE  Calls'
  <1>0. ec[c] \in ECs /\ EcCpu[ec[c]] = c
    BY SelfOK
  <1>1. Others(c) /\ UNCHANGED <<ec, cont, callee, caller, smq>> /\ pc'[c] = p
    BY DEF Inv, TypeOK, TypeCtl, Others, Bail, Goto, smVars
  <1>3. /\ want'[ec[c]] = NoEc
        /\ \A e \in ECs : e # ec[c] => want'[e] = want[e]
    BY <1>0 DEF Inv, TypeOK, TypeEc, Bail
  <1>4. RunOK(c)'
    BY <1>1 DEF Calls, RunOK, Away, Blocked
  <1>5. AimOK(c)'
    BY <1>1 DEF AimOK, AtHelp, Handlers
  <1>6. \A d \in CPUs : RunOK(d)' /\ AimOK(d)'
    BY <1>0, <1>1, <1>3, <1>4, <1>5, OtherCpus DEF Abroad
  <1>7. \A e \in ECs : LinkOK(e)'
    BY <1>1, <1>3 DEF Calls, LinkOK
  <1>8. Waiters'
    BY <1>1, WaitersSame DEF Calls
  <1> QED BY <1>6, <1>7, <1>8 DEF Calls

\* The EC that runs on c gets a continuation that is neither null nor
\* blocking: nobody is affected, as nobody calls it or waits for it.
LEMMA SelfCont ==
    ASSUME Inv, Calls, NEW c \in CPUs, pc[c] \notin Away \cup {"dn"}, NEW x,
           x \notin {"null", "recv_user", "recv_kern"},
           cont' = [cont EXCEPT ![ec[c]] = x], UNCHANGED <<callee, caller, want, smq>>
    PROVE  /\ \A e \in ECs : LinkOK(e)'
           /\ Waiters' /\ Abroad(c) /\ cont'[ec[c]] = x
  <1>0. /\ ec[c] \in ECs /\ EcCpu[ec[c]] = c /\ RunOK(c)
        /\ callee[ec[c]] = NoEc /\ ~Blocked(ec[c]) /\ NoEc \notin ECs
        /\ ec[c] \in Local => caller[ec[c]] # NoEc
    BY SelfOK DEF Calls, RunOK
  <1>1. /\ cont'[ec[c]] = x
        /\ \A e \in ECs : e # ec[c] => cont'[e] = cont[e]
    BY <1>0 DEF Inv, TypeOK, TypeEc
  <1>2. ASSUME NEW e \in ECs PROVE LinkOK(e)'
    <2>1. LinkOK(e) /\ caller[e] \in ECs \cup {NoEc}
      BY DEF Calls, Inv, TypeOK, TypeEc
    <2>2. caller[e] # ec[c]
      BY <1>0, <2>1 DEF LinkOK
    <2>3. caller[e] # NoEc => cont'[caller[e]] = cont[caller[e]]
      BY <1>1, <2>1, <2>2
    <2>4. CASE e = ec[c]
      BY <1>0, <1>1, <2>1, <2>3, <2>4 DEF LinkOK
    <2>5. CASE e # ec[c]
      <3>1. cont'[e] = cont[e]
        BY <1>1, <2>5
      <3> QED BY <2>1, <2>3, <3>1 DEF LinkOK
    <2> QED BY <2>4, <2>5
  <1>3. Waiters'
    <2>1. \A e \in ECs : cont[e] = "blocking" => cont'[e] = "blocking"
      BY <1>0, <1>1 DEF Blocked
    <2> QED BY <2>1, WaitersSame DEF Calls
  <1>4. Abroad(c)
    BY <1>0, <1>1 DEF Abroad
  <1> QED BY <1>1, <1>2, <1>3, <1>4

\* A call to a busy handler: the caller goes to help.
LEMMA EnterHelpCalls ==
    ASSUME Inv, Calls, NEW c \in CPUs, pc[c] \in {"sys_ipc_call", "send_msg"},
           NEW x \in {"sys_ipc_call", "send_msg"}, want[ec[c]] # NoEc,
           EnterHelp(c, want[ec[c]], x), UNCHANGED smVars
    PROVE  Calls'
  <1>0. ec[c] \in ECs /\ want[ec[c]] \in Local /\ want[ec[c]] \in ECs
    BY SelfOK
  <1>1. /\ Others(c) /\ UNCHANGED <<ec, callee, caller, want, smq>> /\ pc'[c] = "help"
        /\ cont' = [cont EXCEPT ![ec[c]] = x]
    BY DEF Inv, TypeOK, TypeCtl, Others, EnterHelp, Goto, smVars
  <1>2. /\ \A e \in ECs : LinkOK(e)'
        /\ Waiters' /\ Abroad(c) /\ cont'[ec[c]] = x
    BY <1>1, SelfCont DEF Away
  <1>3. RunOK(c)'
    BY <1>1, <1>2 DEF Calls, RunOK, Away, Blocked
  <1>4. AimOK(c)'
    <2>1. caller[want[ec[c]]] # NoEc
      BY <1>0 DEF Calls, LinkOK, EnterHelp
    <2> QED BY <1>1, <2>1 DEF AimOK
  <1>5. \A d \in CPUs : RunOK(d)' /\ AimOK(d)'
    BY <1>1, <1>2, <1>3, <1>4, OtherCpus
  <1> QED BY <1>2, <1>5 DEF Calls

\* The return to user mode, which a pending hazard interrupts.
LEMMA RetUserCalls ==
    ASSUME Inv, Calls, NEW c \in CPUs, RetUser(c), UNCHANGED smVars
    PROVE  Calls'
  <1>0. pc[c] \in {"ret_user_hypercall", "ret_user_exception"}
    BY DEF RetUser
  <1>1. CASE sched[c]
    <2>1. /\ Others(c) /\ UNCHANGED <<ec, callee, caller, want, smq>> /\ pc'[c] = "schedule"
          /\ cont' = [cont EXCEPT ![ec[c]] = pc[c]]
      BY <1>1 DEF Inv, TypeOK, TypeCtl, Others, RetUser, Goto, smVars
    <2>2. /\ \A e \in ECs : LinkOK(e)'
          /\ Waiters' /\ Abroad(c)
      BY <1>0, <2>1, SelfCont DEF Away
    <2>3. RunOK(c)' /\ AimOK(c)'
      BY <2>1 DEF RunOK, AimOK, AtHelp, Handlers, Away
    <2>4. \A d \in CPUs : RunOK(d)' /\ AimOK(d)'
      BY <2>1, <2>2, <2>3, OtherCpus
    <2> QED BY <2>2, <2>4 DEF Calls
  <1>2. CASE ~sched[c]
    <2>1. Others(c) /\ UNCHANGED <<ec, cont, callee, caller, want, smq>> /\ pc'[c] = "user"
      BY <1>2 DEF Inv, TypeOK, TypeCtl, Others, RetUser, Goto, smVars
    <2> QED BY <1>0, <2>1, MoveCalls DEF Away, AtHelp, Handlers
  <1> QED BY <1>1, <1>2

\* The idle loop enters the scheduler.
LEMMA IdleLoopCalls ==
    ASSUME Inv, Calls, NEW c \in CPUs, IdleLoop(c), UNCHANGED smVars
    PROVE  Calls'
  <1>1. /\ Others(c) /\ UNCHANGED <<ec, callee, caller, want, smq>> /\ pc'[c] = "schedule"
        /\ cont' = [cont EXCEPT ![ec[c]] = "idle"] /\ pc[c] = "idle"
    BY DEF Inv, TypeOK, TypeCtl, Others, IdleLoop, Goto, smVars
  <1>2. /\ \A e \in ECs : LinkOK(e)'
        /\ Waiters' /\ Abroad(c)
    BY <1>1, SelfCont DEF Away
  <1>3. RunOK(c)' /\ AimOK(c)'
    BY <1>1 DEF RunOK, AimOK, AtHelp, Handlers, Away
  <1>4. \A d \in CPUs : RunOK(d)' /\ AimOK(d)'
    BY <1>1, <1>2, <1>3, OtherCpus
  <1> QED BY <1>2, <1>4 DEF Calls

\* A call to a handler that is free: it becomes the callee.
LEMMA RendezvousCalls ==
    ASSUME Inv, Calls, NEW c \in CPUs, pc[c] \in {"sys_ipc_call", "send_msg"},
           NEW s, s = want[ec[c]], s # NoEc, EcCpu[s] = c, NEW x, NEW y,
           \/ x = "ret_user_hypercall" /\ y = "recv_user"
           \/ x = "ret_user_exception" /\ y = "recv_kern",
           Rendezvous(c, s, x, y), UNCHANGED smVars
    PROVE  Calls'
  <1> DEFINE self == ec[c]
  <1>0. /\ self \in ECs /\ EcCpu[self] = c /\ s \in Local /\ s \in ECs /\ NoEc \notin ECs
        /\ RunOK(c) /\ callee[self] = NoEc /\ ~Blocked(self) /\ cont[self] # "dead"
        /\ self \in Local => caller[self] # NoEc
    BY SelfOK DEF Calls, RunOK, Away
  <1>1. /\ Others(c) /\ smq' = smq /\ ec'[c] = s /\ pc'[c] = y /\ ret'[c] = "user"
        /\ cont[s] = "null"
    BY DEF Inv, TypeOK, TypeCtl, TypeEc, Others, Rendezvous, MakeCurrent, Leave, Call, Goto, smVars
  <1>2. s # self
    BY <1>0, <1>1 DEF Blocked
  <1>3. LinkOK(s) /\ caller[s] = NoEc
    BY <1>0, <1>1 DEF Calls, LinkOK
  <1>4. callee[s] = NoEc
    <2> SUFFICES ASSUME callee[s] # NoEc PROVE FALSE
      OBVIOUS
    <2>1. callee[s] \in ECs /\ caller[callee[s]] = s /\ LinkOK(callee[s])
      BY <1>0, <1>3 DEF Calls, LinkOK, Inv, TypeOK, TypeEc
    <2> QED BY <1>0, <1>1, <2>1 DEF LinkOK
  <1>5. /\ cont'[self] = x /\ cont'[s] = y /\ callee'[self] = s /\ caller'[s] = self
        /\ want'[self] = NoEc /\ callee'[s] = NoEc /\ caller'[self] = caller[self]
        /\ want'[s] = want[s]
        /\ \A e \in ECs \ {self, s} : /\ cont'[e] = cont[e] /\ callee'[e] = callee[e]
                                      /\ caller'[e] = caller[e] /\ want'[e] = want[e]
    BY <1>0, <1>2, <1>4 DEF Inv, TypeOK, TypeEc, Rendezvous
  <1> HIDE DEF self
  <1>6. RunOK(c)'
    BY <1>0, <1>1, <1>5 DEF RunOK, Blocked
  <1>7. AimOK(c)'
    BY <1>1 DEF AimOK, AtHelp, Handlers
  <1>8. \A d \in CPUs : RunOK(d)' /\ AimOK(d)'
    <2>1. Abroad(c)
      BY <1>0, <1>5 DEF Abroad
    <2> QED BY <1>1, <1>6, <1>7, <2>1, OtherCpus
  <1>9. ASSUME NEW e \in ECs PROVE LinkOK(e)'
    <2>1. LinkOK(e) /\ caller[e] \in ECs \cup {NoEc} /\ callee[e] \in ECs \cup {NoEc}
      BY DEF Calls, Inv, TypeOK, TypeEc
    <2>2. caller[e] # self /\ caller[e] # s
      BY <1>0, <1>4, <2>1 DEF LinkOK
    <2>3. callee[e] # s
      BY <1>0, <1>3, <2>1 DEF LinkOK
    <2>4. caller[e] # NoEc => /\ cont'[caller[e]] = cont[caller[e]]
                              /\ callee'[caller[e]] = callee[caller[e]]
      BY <1>5, <2>1, <2>2
    <2>5. callee[e] # NoEc => caller'[callee[e]] = caller[callee[e]]
      BY <1>5, <2>1, <2>3
    <2>6. CASE e = self
      BY <1>0, <1>2, <1>5, <2>1, <2>2, <2>4, <2>6 DEF LinkOK
    <2>7. CASE e = s
      BY <1>0, <1>5, <2>1, <2>7 DEF LinkOK
    <2>8. CASE e # self /\ e # s
      <3>1. /\ cont'[e] = cont[e] /\ callee'[e] = callee[e]
            /\ caller'[e] = caller[e] /\ want'[e] = want[e]
        BY <1>5, <2>8
      <3> QED BY <2>1, <2>4, <2>5, <3>1 DEF LinkOK
    <2> QED BY <2>6, <2>7, <2>8
  <1>10. Waiters'
    <2>1. \A e \in ECs : cont[e] = "blocking" => cont'[e] = "blocking"
      BY <1>0, <1>1, <1>5 DEF Blocked
    <2> QED BY <1>1, <2>1, WaitersSame DEF Calls
  <1> QED BY <1>8, <1>9, <1>10 DEF Calls

\* sys_ipc_call.
LEMMA SysIpcCallCalls ==
    ASSUME Inv, Calls, NEW c \in CPUs, SysIpcCall(c), UNCHANGED smVars
    PROVE  Calls'
  BY BailCalls, RendezvousCalls, EnterHelpCalls DEF SysIpcCall

\* send_msg.
LEMMA SendMsgCalls ==
    ASSUME Inv, Calls, NEW c \in CPUs, SendMsg(c), UNCHANGED smVars
    PROVE  Calls'
  BY BailCalls, RendezvousCalls, EnterHelpCalls DEF SendMsg

\* Ec::reply without a caller: the EC is not a handler.
LEMMA ReplyNobodyCalls ==
    ASSUME Inv, Calls, NEW c \in CPUs, pc[c] \in {"user", "kill", "dead", "blocking"},
           NEW x \in {"null", "dead"}, NEW k, caller[ec[c]] = NoEc, Reply(c, x, k),
           UNCHANGED smVars
    PROVE  Calls'
  <1> DEFINE self == ec[c]
  <1>0. /\ self \in ECs /\ EcCpu[self] = c /\ NoEc \notin ECs
        /\ RunOK(c) /\ callee[self] = NoEc /\ ~Blocked(self) /\ self \notin Local
    BY SelfOK DEF Calls, RunOK, Away
  <1>1. /\ Others(c) /\ UNCHANGED <<smq, ec, callee, caller, want>> /\ pc'[c] = "schedule_blocked"
        /\ cont' = [cont EXCEPT ![self] = x]
    BY DEF Inv, TypeOK, TypeCtl, Others, Reply, Goto, smVars
  <1>2. /\ cont'[self] = x
        /\ \A e \in ECs : e # self => cont'[e] = cont[e]
    BY <1>0, <1>1 DEF Inv, TypeOK, TypeEc
  <1> HIDE DEF self
  <1>3. RunOK(c)' /\ AimOK(c)'
    BY <1>1 DEF RunOK, AimOK, AtHelp, Handlers, Away
  <1>4. \A d \in CPUs : RunOK(d)' /\ AimOK(d)'
    <2>1. Abroad(c)
      BY <1>0, <1>1, <1>2 DEF Abroad
    <2> QED BY <1>1, <1>3, <2>1, OtherCpus
  <1>5. ASSUME NEW e \in ECs PROVE LinkOK(e)'
    <2>1. LinkOK(e) /\ caller[e] \in ECs \cup {NoEc}
      BY DEF Calls, Inv, TypeOK, TypeEc
    <2>2. caller[e] # self
      BY <1>0, <2>1 DEF LinkOK
    <2>3. caller[e] # NoEc => cont'[caller[e]] = cont[caller[e]]
      BY <1>2, <2>1, <2>2
    <2>4. CASE e = self
      BY <1>0, <1>1, <1>2, <2>1, <2>4 DEF LinkOK, self
    <2>5. CASE e # self
      <3>1. cont'[e] = cont[e]
        BY <1>2, <2>5
      <3> QED BY <1>1, <2>1, <2>3, <3>1 DEF LinkOK
    <2> QED BY <2>4, <2>5
  <1>6. Waiters'
    <2>1. \A e \in ECs : cont[e] = "blocking" => cont'[e] = "blocking"
      BY <1>0, <1>2 DEF Blocked
    <2> QED BY <1>1, <2>1, WaitersSame DEF Calls
  <1> QED BY <1>4, <1>5, <1>6 DEF Calls

\* Ec::reply to a caller: the partnership is dissolved at both ends.
LEMMA ReplyCallerCalls ==
    ASSUME Inv, Calls, NEW c \in CPUs, pc[c] \in {"user", "kill", "dead", "blocking"},
           NEW x \in {"null", "dead"}, NEW k, caller[ec[c]] # NoEc,
           k \in {cont[caller[ec[c]]], "sys_finish_aborted", "dead"}, Reply(c, x, k),
           UNCHANGED smVars
    PROVE  Calls'
  <1> DEFINE self == ec[c]
             p == caller[ec[c]]
  <1>0. /\ self \in ECs /\ EcCpu[self] = c /\ NoEc \notin ECs /\ p \in ECs /\ EcCpu[p] = c
        /\ RunOK(c) /\ callee[self] = NoEc /\ ~Blocked(self) /\ p # NoEc
    BY SelfOK DEF Calls, RunOK, Away
  <1>1. callee[p] = self /\ cont[p] \in {"ret_user_hypercall", "ret_user_exception"} /\ p # self
    BY <1>0 DEF Calls, LinkOK
  <1>2. p \in Local => caller[p] # NoEc
    BY <1>0, <1>1 DEF Calls, LinkOK
  <1>3. /\ Others(c) /\ UNCHANGED <<smq, want>>
        /\ \/ ec'[c] = p /\ pc'[c] = k /\ ret'[c] = "user"
           \/ ec' = ec /\ pc'[c] = "activate" /\ arg'[c] = ScEc[cur[c]]
    BY <1>0 DEF Inv, TypeOK, TypeCtl, TypeEc, Others, Reply, MakeCurrent, EnterActivate,
                Leave, Call, Goto, smVars
  <1>4. /\ cont'[self] = x /\ cont'[p] = k /\ caller'[self] = NoEc /\ callee'[p] = NoEc
        /\ callee'[self] = NoEc /\ caller'[p] = caller[p]
        /\ \A e \in ECs \ {self, p} : /\ cont'[e] = cont[e] /\ callee'[e] = callee[e]
                                      /\ caller'[e] = caller[e]
    BY <1>0, <1>1 DEF Inv, TypeOK, TypeEc, Reply
  <1>5. ScEc[cur[c]] \notin Local
    BY EcAssumption DEF Inv, TypeOK, TypeSc
  <1>k. k \in {"ret_user_hypercall", "ret_user_exception", "sys_finish_aborted", "dead"}
    BY <1>1
  <1> HIDE DEF self, p
  <1>6. RunOK(c)'
    BY <1>0, <1>1, <1>2, <1>3, <1>4, <1>k DEF RunOK, Blocked, Away
  <1>7. AimOK(c)'
    BY <1>k, <1>3, <1>5 DEF AimOK, AtHelp, Handlers
  <1>8. \A d \in CPUs : RunOK(d)' /\ AimOK(d)'
    <2>1. Abroad(c)
      BY <1>0, <1>3, <1>4 DEF Abroad
    <2> QED BY <1>3, <1>6, <1>7, <2>1, OtherCpus
  <1>9. ASSUME NEW e \in ECs PROVE LinkOK(e)'
    <2>1. LinkOK(e) /\ caller[e] \in ECs \cup {NoEc} /\ callee[e] \in ECs \cup {NoEc}
      BY DEF Calls, Inv, TypeOK, TypeEc
    <2>2. caller[e] # self /\ (e # self => caller[e] # p)
      BY <1>0, <1>1, <2>1 DEF LinkOK
    <2>3. e # p => callee[e] # self
      BY <1>0, <2>1 DEF LinkOK, p, self
    <2>4. e # self /\ caller[e] # NoEc => /\ cont'[caller[e]] = cont[caller[e]]
                                          /\ callee'[caller[e]] = callee[caller[e]]
      BY <1>4, <2>1, <2>2
    <2>5. e # p /\ callee[e] # NoEc => caller'[callee[e]] = caller[callee[e]]
      BY <1>4, <2>1, <2>3
    <2>6. CASE e = self
      BY <1>0, <1>3, <1>4, <2>1, <2>6 DEF LinkOK
    <2>7. CASE e = p
      BY <1>0, <1>1, <1>2, <1>3, <1>4, <1>k, <2>1, <2>4, <2>7 DEF LinkOK
    <2>8. CASE e # self /\ e # p
      <3>1. cont'[e] = cont[e] /\ callee'[e] = callee[e] /\ caller'[e] = caller[e]
        BY <1>4, <2>8
      <3> QED BY <1>3, <2>1, <2>4, <2>5, <2>8, <3>1 DEF LinkOK
    <2> QED BY <2>6, <2>7, <2>8
  <1>10. Waiters'
    <2>1. \A e \in ECs : cont[e] = "blocking" => cont'[e] = "blocking"
      BY <1>0, <1>1, <1>4 DEF Blocked
    <2> QED BY <1>3, <2>1, WaitersSame DEF Calls
  <1> QED BY <1>8, <1>9, <1>10 DEF Calls

\* sys_ipc_reply and kill.
LEMMA RepliesCalls ==
    ASSUME Inv, Calls, NEW c \in CPUs, SysIpcReply(c) \/ Kill(c), UNCHANGED smVars
    PROVE  Calls'
  BY ReplyNobodyCalls, ReplyCallerCalls DEF SysIpcReply, Kill, User

\* Sm::dn without tokens: the EC is blocked and queued.
LEMMA DnBlockCalls ==
    ASSUME Inv, Calls, NEW c \in CPUs, DnBlock(c)
    PROVE  Calls'
  <1> DEFINE self == ec[c]
  <1>0. /\ self \in ECs /\ EcCpu[self] = c /\ NoEc \notin ECs /\ pc[c] = "user"
        /\ RunOK(c) /\ callee[self] = NoEc /\ ~Blocked(self)
        /\ self \in Local => caller[self] # NoEc
    BY SelfOK DEF Calls, RunOK, Away, DnBlock, User
  <1>1. /\ Others(c) /\ UNCHANGED <<ec, callee, caller, want>> /\ pc'[c] = "dn"
        /\ cont' = [cont EXCEPT ![self] = "blocking"]
    BY DEF Inv, TypeOK, TypeCtl, Others, DnBlock, Goto
  <1>2. /\ cont'[self] = "blocking"
        /\ \A e \in ECs : e # self => cont'[e] = cont[e]
    BY <1>0, <1>1 DEF Inv, TypeOK, TypeEc
  <1>3. PICK m \in SMs : smq' = [smq EXCEPT ![m] = Append(@, self)]
    BY DEF DnBlock
  <1> HIDE DEF self
  <1>4. RunOK(c)' /\ AimOK(c)'
    BY <1>0, <1>1, <1>2 DEF RunOK, AimOK, AtHelp, Handlers, Away, self
  <1>5. \A d \in CPUs : RunOK(d)' /\ AimOK(d)'
    <2>1. Abroad(c)
      BY <1>0, <1>1, <1>2 DEF Abroad
    <2> QED BY <1>1, <1>4, <2>1, OtherCpus
  <1>6. ASSUME NEW e \in ECs PROVE LinkOK(e)'
    <2>1. LinkOK(e) /\ caller[e] \in ECs \cup {NoEc}
      BY DEF Calls, Inv, TypeOK, TypeEc
    <2>2. caller[e] # self
      BY <1>0, <2>1 DEF LinkOK
    <2>3. caller[e] # NoEc => cont'[caller[e]] = cont[caller[e]]
      BY <1>2, <2>1, <2>2
    <2>4. CASE e = self
      BY <1>0, <1>1, <1>2, <2>1, <2>3, <2>4 DEF LinkOK
    <2>5. CASE e # self
      <3>1. cont'[e] = cont[e]
        BY <1>2, <2>5
      <3> QED BY <1>1, <2>1, <2>3, <3>1 DEF LinkOK
    <2> QED BY <2>4, <2>5
  <1>7. Waiters'
    <2>1. \A n \in SMs : smq[n] \in Seq(ECs) /\ self \notin Elems(smq[n]) /\ Distinct(smq[n])
                         /\ Elems(smq[n]) \subseteq ECs
      BY <1>0 DEF Calls, Waiters, Blocked, Inv, TypeOK, TypeSm, Elems
    <2>2. /\ smq'[m] = Append(smq[m], self)
          /\ \A n \in SMs : n # m => smq'[n] = smq[n]
      BY <1>3 DEF Inv, TypeOK, TypeSm
    <2>3. Elems(smq'[m]) = Elems(smq[m]) \cup {self} /\ Distinct(smq'[m])
      BY <1>0, <2>1, <2>2, ElemsAppend
    <2>4. \A n \in SMs : Elems(smq'[n]) = IF n = m THEN Elems(smq[n]) \cup {self} ELSE Elems(smq[n])
      BY <2>2, <2>3
    <2>5. \A n \in SMs : Distinct(smq'[n])
      BY <2>1, <2>2, <2>3
    <2>6. \A n \in SMs : Elems(smq[n])' = Elems(smq'[n]) /\ (Distinct(smq[n])' <=> Distinct(smq'[n]))
      BY DEF Elems, Distinct
    <2>7. ASSUME NEW n \in SMs, NEW e \in Elems(smq'[n])
          PROVE  cont'[e] = "blocking" /\ \A j \in SMs : e \in Elems(smq'[j]) => j = n
      <3>1. CASE e = self
        BY <1>2, <2>1, <2>4, <2>7, <3>1
      <3>2. CASE e # self
        <4>1. e \in Elems(smq[n]) /\ e \in ECs
          BY <2>1, <2>4, <2>7, <3>2
        <4>2. cont[e] = "blocking" /\ \A j \in SMs : e \in Elems(smq[j]) => j = n
          BY <4>1 DEF Calls, Waiters
        <4> QED BY <1>2, <2>4, <3>2, <4>1, <4>2
      <3> QED BY <3>1, <3>2
    <2> QED BY <2>5, <2>6, <2>7 DEF Waiters
  <1> QED BY <1>5, <1>6, <1>7 DEF Calls

\* Taking an element out of a queue.
LEMMA RemoveElems ==
    ASSUME NEW S, NEW q \in Seq(S), NEW i \in 1 .. Len(q), Distinct(q)
    PROVE  /\ Elems(Remove(q, i)) = Elems(q) \ {q[i]}
           /\ Distinct(Remove(q, i))
  <1> DEFINE r == Remove(q, i)
  <1>1. Len(q) \in Nat /\ r \in Seq(S) /\ r = [j \in 1 .. Len(q) - 1 |-> IF j < i THEN q[j] ELSE q[j + 1]]
    BY RemoveSeq DEF Remove
  <1>2. Len(r) = Len(q) - 1
    <2>1. Len(q) - 1 \in Nat
      OBVIOUS
    <2>2. DOMAIN r = 1 .. Len(q) - 1
      BY <1>1
    <2> HIDE DEF r
    <2> QED BY <1>1, <2>1, <2>2
  <1>3. \A j \in 1 .. Len(r) : r[j] = IF j < i THEN q[j] ELSE q[j + 1]
    BY <1>1, <1>2
  <1> HIDE DEF r
  <1>4. \A j \in 1 .. Len(r) : r[j] \in Elems(q) \ {q[i]}
    <2> SUFFICES ASSUME NEW j \in 1 .. Len(r) PROVE r[j] \in Elems(q) \ {q[i]}
      OBVIOUS
    <2>1. PICK n \in 1 .. Len(q) : r[j] = q[n] /\ n # i
      BY <1>1, <1>2, <1>3
    <2> QED BY <2>1 DEF Elems, Distinct
  <1>5. \A n \in 1 .. Len(q) : n # i => \E j \in 1 .. Len(r) : r[j] = q[n]
    <2> SUFFICES ASSUME NEW n \in 1 .. Len(q), n # i PROVE \E j \in 1 .. Len(r) : r[j] = q[n]
      OBVIOUS
    <2>1. CASE n < i
      <3>1. n \in 1 .. Len(r) /\ r[n] = q[n]
        BY <1>1, <1>2, <1>3, <2>1
      <3> QED BY <3>1
    <2>2. CASE n > i
      <3>1. n - 1 \in 1 .. Len(r) /\ ~(n - 1 < i) /\ (n - 1) + 1 = n
        BY <1>1, <1>2, <2>2
      <3>2. r[n - 1] = q[n]
        BY <1>3, <3>1
      <3> QED BY <3>1, <3>2
    <2>3. n < i \/ n > i
      OBVIOUS
    <2> QED BY <2>1, <2>2, <2>3
  <1>6. Elems(r) = Elems(q) \ {q[i]}
    BY <1>4, <1>5 DEF Elems
  <1>7. Distinct(r)
    <2> SUFFICES ASSUME NEW j \in 1 .. Len(r), NEW k \in 1 .. Len(r), r[j] = r[k] PROVE j = k
      BY DEF Distinct
    <2>1. \A l \in 1 .. Len(r) : l \in 1 .. Len(q) /\ l + 1 \in 1 .. Len(q)
      BY <1>1, <1>2
    <2>2. CASE j < i /\ k < i
      BY <1>3, <2>1, <2>2 DEF Distinct
    <2>3. CASE ~(j < i) /\ ~(k < i)
      <3>1. q[j + 1] = q[k + 1]
        BY <1>3, <2>3
      <3>2. j + 1 = k + 1
        BY <2>1, <3>1 DEF Distinct
      <3> QED BY <3>2, <1>1, <1>2
    <2>4. CASE j < i /\ ~(k < i)
      <3>1. q[j] = q[k + 1]
        BY <1>3, <2>4
      <3>2. j = k + 1
        BY <2>1, <3>1 DEF Distinct
      <3> QED BY <3>2, <2>4, <1>1, <1>2
    <2>5. CASE ~(j < i) /\ k < i
      <3>1. q[j + 1] = q[k]
        BY <1>3, <2>5
      <3>2. j + 1 = k
        BY <2>1, <3>1 DEF Distinct
      <3> QED BY <3>2, <2>5, <1>1, <1>2
    <2> QED BY <2>2, <2>3, <2>4, <2>5
  <1> QED BY <1>6, <1>7 DEF r

\* A waiter leaves its queue with the continuation y.
LEMMA WakeCalls ==
    ASSUME Inv, Calls, NEW c \in CPUs, NEW r, UpFrom(c, r), NEW m \in SMs, NEW e \in ECs,
           e \in Elems(smq[m]), NEW y,
           \/ y = "sys_finish_success"
           \/ y = "sys_finish_timeout" /\ EcCpu[e] = c,
           \A n \in SMs : n # m => smq'[n] = smq[n],
           Elems(smq'[m]) = Elems(smq[m]) \ {e}, Distinct(smq'[m]),
           cont' = [cont EXCEPT ![e] = y], Call(c, "unblock_sc", e, r),
           UNCHANGED <<ec, callee, caller, want>>
    PROVE  Calls'
  <1>0. /\ cont[e] = "blocking"
        /\ \A n \in SMs : e \in Elems(smq[n]) => n = m
        /\ \A n \in SMs : Elems(smq[n]) \subseteq ECs /\ Distinct(smq[n])
    <2>1. \A n \in SMs : Elems(smq[n]) \subseteq ECs
      BY DEF Inv, TypeOK, TypeSm, Elems
    <2> QED BY <2>1 DEF Calls, Waiters
  <1>1. /\ cont'[e] = y
        /\ \A f \in ECs : f # e => cont'[f] = cont[f]
    BY DEF Inv, TypeOK, TypeEc
  <1>2. /\ Others(c) /\ pc'[c] = "unblock_sc" /\ ret'[c] = r
    BY DEF Inv, TypeOK, TypeCtl, Others, Call, Goto
  <1>3. /\ pc[c] \notin Away \cup {"dn", "dead", "recv_user", "recv_kern"}
        /\ r = "help" => pc[c] = "help"
    BY DEF UpFrom, User, Interruptible, Resume, Away
  <1>4. RunOK(c) /\ ec[c] \in ECs /\ ~Blocked(ec[c]) /\ e # ec[c] /\ EcCpu[ec[c]] = c
    BY <1>0, <1>3, SelfOK DEF Calls, RunOK, Blocked
  <1>5. RunOK(c)'
    BY <1>1, <1>2, <1>3, <1>4 DEF RunOK, Blocked
  <1>6. AimOK(c)'
    BY <1>2, <1>3 DEF Calls, AimOK, AtHelp, Handlers
  <1>7. \A d \in CPUs : RunOK(d)' /\ AimOK(d)'
    <2>1. Abroad(c)
      BY <1>0, <1>1 DEF Abroad
    <2> QED BY <1>2, <1>5, <1>6, <2>1, OtherCpus
  <1>8. ASSUME NEW f \in ECs PROVE LinkOK(f)'
    <2>1. LinkOK(f) /\ caller[f] \in ECs \cup {NoEc}
      BY DEF Calls, Inv, TypeOK, TypeEc
    <2>2. caller[f] # NoEc => caller[f] # e
      BY <1>0, <2>1 DEF LinkOK
    <2>3. caller[f] # NoEc => cont'[caller[f]] = cont[caller[f]]
      BY <1>1, <2>1, <2>2
    <2>4. CASE f = e
      BY <1>0, <1>1, <2>1, <2>3, <2>4 DEF LinkOK
    <2>5. CASE f # e
      <3>1. cont'[f] = cont[f]
        BY <1>1, <2>5
      <3> QED BY <2>1, <2>3, <3>1 DEF LinkOK
    <2> QED BY <2>4, <2>5
  <1>9. Waiters'
    <2>1. \A n \in SMs : Elems(smq'[n]) = Elems(smq[n]) \ {e} /\ Distinct(smq'[n])
      BY <1>0
    <2>2. \A n \in SMs : Elems(smq[n])' = Elems(smq'[n]) /\ (Distinct(smq[n])' <=> Distinct(smq'[n]))
      BY DEF Elems, Distinct
    <2>3. ASSUME NEW n \in SMs, NEW f \in Elems(smq'[n])
          PROVE  cont'[f] = "blocking" /\ \A j \in SMs : f \in Elems(smq'[j]) => j = n
      <3>1. f \in Elems(smq[n]) /\ f \in ECs /\ f # e
        BY <1>0, <2>1, <2>3
      <3>2. cont[f] = "blocking" /\ \A j \in SMs : f \in Elems(smq[j]) => j = n
        BY <3>1 DEF Calls, Waiters
      <3> QED BY <1>1, <2>1, <3>1, <3>2
    <2> QED BY <2>1, <2>2, <2>3 DEF Waiters
  <1> QED BY <1>7, <1>8, <1>9 DEF Calls

\* Sm::up with a waiter: what it does to the queue.
LEMMA UpWakeQueue ==
    ASSUME Inv, Calls, NEW c \in CPUs, NEW M \in SUBSET SMs, NEW r, UpWake(c, M, r)
    PROVE  \E m \in M, e \in ECs :
               /\ e \in Elems(smq[m]) /\ smq[m] # <<>> /\ e = Head(smq[m])
               /\ \A n \in SMs : n # m => smq'[n] = smq[n]
               /\ smq'[m] = Tail(smq[m])
               /\ Elems(smq'[m]) = Elems(smq[m]) \ {e} /\ Distinct(smq'[m])
               /\ cont' = [cont EXCEPT ![e] = "sys_finish_success"]
               /\ Call(c, "unblock_sc", e, r)
  <1>1. PICK m \in M : /\ smq[m] # <<>>
                       /\ smq' = [smq EXCEPT ![m] = Tail(@)]
                       /\ cont' = [cont EXCEPT ![Head(smq[m])] = "sys_finish_success"]
                       /\ Call(c, "unblock_sc", Head(smq[m]), r)
    BY DEF UpWake
  <1>2. smq[m] \in Seq(ECs) /\ Distinct(smq[m]) /\ m \in SMs
    BY DEF Inv, TypeOK, TypeSm, Calls, Waiters
  <1>3. PICK e \in ECs : e = Head(smq[m])
    BY <1>1, <1>2, ElemsTail
  <1>4. /\ Elems(smq[m]) = Elems(Tail(smq[m])) \cup {e}
        /\ Distinct(Tail(smq[m])) /\ e \notin Elems(Tail(smq[m]))
    BY <1>1, <1>2, <1>3, ElemsTail
  <1>5. /\ smq'[m] = Tail(smq[m])
        /\ \A n \in SMs : n # m => smq'[n] = smq[n]
    BY <1>1, <1>2 DEF Inv, TypeOK, TypeSm
  <1>6. e \in Elems(smq[m]) /\ Elems(smq'[m]) = Elems(smq[m]) \ {e} /\ Distinct(smq'[m])
    BY <1>4, <1>5
  <1> QED BY <1>1, <1>3, <1>5, <1>6

\* Sm::up with a waiter.
LEMMA UpWakeCalls ==
    ASSUME Inv, Calls, NEW c \in CPUs, NEW M \in SUBSET SMs, NEW r, UpFrom(c, r), UpWake(c, M, r)
    PROVE  Calls'
  <1>1. PICK m \in M, e \in ECs :
               /\ e \in Elems(smq[m]) /\ smq[m] # <<>> /\ e = Head(smq[m])
               /\ \A n \in SMs : n # m => smq'[n] = smq[n]
               /\ smq'[m] = Tail(smq[m])
               /\ Elems(smq'[m]) = Elems(smq[m]) \ {e} /\ Distinct(smq'[m])
               /\ cont' = [cont EXCEPT ![e] = "sys_finish_success"]
               /\ Call(c, "unblock_sc", e, r)
    BY UpWakeQueue, Zenon
  <1>2. UNCHANGED <<ec, callee, caller, want>>
    BY DEF UpWake
  <1> QED BY <1>1, <1>2, WakeCalls

\* Sm::timeout for an EC that still waits: what it does to the queue.
LEMMA TimeoutQueue ==
    ASSUME Inv, Calls, NEW c \in CPUs, NEW e \in ECs, timeout[e] # NoSm, NEW i,
           i \in 1 .. Len(smq[timeout[e]]), smq[timeout[e]][i] = e,
           smq' = [smq EXCEPT ![timeout[e]] = Remove(@, i)]
    PROVE  /\ timeout[e] \in SMs /\ e \in Elems(smq[timeout[e]])
           /\ \A n \in SMs : n # timeout[e] => smq'[n] = smq[n]
           /\ smq'[timeout[e]] = Remove(smq[timeout[e]], i)
           /\ Elems(smq'[timeout[e]]) = Elems(smq[timeout[e]]) \ {e}
           /\ Distinct(smq'[timeout[e]])
  <1>1. PICK m \in SMs : m = timeout[e]
    BY DEF Inv, TypeOK, TypeSm
  <1>2. smq[m] \in Seq(ECs) /\ Distinct(smq[m]) /\ i \in 1 .. Len(smq[m]) /\ smq[m][i] = e
    BY <1>1 DEF Inv, TypeOK, TypeSm, Calls, Waiters
  <1>3. Elems(Remove(smq[m], i)) = Elems(smq[m]) \ {e} /\ Distinct(Remove(smq[m], i))
    BY <1>2, RemoveElems
  <1>4. /\ smq'[m] = Remove(smq[m], i)
        /\ \A n \in SMs : n # m => smq'[n] = smq[n]
    BY <1>1 DEF Inv, TypeOK, TypeSm
  <1>5. e \in Elems(smq[m])
    BY <1>2 DEF Elems
  <1> QED BY <1>1, <1>3, <1>4, <1>5

\* The hypercall timeout.
LEMMA SmTimeoutCalls ==
    ASSUME Inv, Calls, NEW c \in CPUs, SmTimeout(c)
    PROVE  Calls'
  <1>0. UNCHANGED <<ec, callee, caller, want>> /\ Interruptible(c)
    BY DEF SmTimeout
  <1>1. PICK e \in ECs :
          /\ EcCpu[e] = c /\ timeout[e] # NoSm
          /\ IF Blocked(e)
             THEN /\ \E i \in 1 .. Len(smq[timeout[e]]) :
                       /\ smq[timeout[e]][i] = e
                       /\ smq' = [smq EXCEPT ![timeout[e]] = Remove(@, i)]
                  /\ cont' = [cont EXCEPT ![e] = "sys_finish_timeout"]
                  /\ Call(c, "unblock_sc", e, Resume(c))
             ELSE /\ Goto(c, Resume(c))
                  /\ UNCHANGED <<arg, ret, cont, smq>>
    BY DEF SmTimeout
  <1>2. CASE Blocked(e)
    <2>1. PICK i \in 1 .. Len(smq[timeout[e]]) :
               /\ smq[timeout[e]][i] = e
               /\ smq' = [smq EXCEPT ![timeout[e]] = Remove(@, i)]
      BY <1>1, <1>2
    <2>2. PICK m \in SMs : m = timeout[e]
      BY <1>1 DEF Inv, TypeOK, TypeSm
    <2>3. /\ e \in Elems(smq[m])
          /\ \A n \in SMs : n # m => smq'[n] = smq[n]
          /\ Elems(smq'[m]) = Elems(smq[m]) \ {e}
          /\ Distinct(smq'[m])
      BY <1>1, <2>1, <2>2, TimeoutQueue
    <2>4. UpFrom(c, Resume(c))
      BY <1>0 DEF UpFrom
    <2> QED BY <1>0, <1>1, <1>2, <2>3, <2>4, WakeCalls
  <1>3. CASE ~Blocked(e)
    <2>1. Others(c) /\ pc'[c] = Resume(c) /\ UNCHANGED <<arg, ret, cont, smq>>
      BY <1>1, <1>3 DEF Inv, TypeOK, TypeCtl, Others, Goto, SmTimeout
    <2>2. /\ pc[c] \notin Away \cup {"dn", "dead"}
          /\ pc'[c] \notin {"dn", "recv_user", "recv_kern", "activate"}
          /\ AtHelp(c)' => AtHelp(c)
      BY <1>0, <2>1 DEF Interruptible, Resume, Away, AtHelp, Handlers
    <2> QED BY <1>0, <2>1, <2>2, MoveCalls
  <1> QED BY <1>2, <1>3

\* Every step keeps Calls.
LEMMA NextCalls == Inv /\ Calls /\ [Next]_vars => Calls'
  <1> SUFFICES ASSUME Inv, Calls, [Next]_vars PROVE Calls'
    OBVIOUS
  <1>1. CASE UNCHANGED vars
    <2>1. UNCHANGED <<pc, arg, ret, ec, cont, callee, caller, want, smq>>
      BY <1>1 DEF vars, ctlVars, ecVars, smVars
    <2>2. \A e \in ECs : LinkOK(e)'
      BY <2>1 DEF Calls, LinkOK
    <2>3. Waiters'
      BY <2>1, WaitersSame DEF Calls
    <2>4. \A c \in CPUs : RunOK(c)' /\ AimOK(c)'
      BY <2>1 DEF Calls, RunOK, AimOK, AtHelp, Blocked
    <2> QED BY <2>2, <2>3, <2>4 DEF Calls
  <1>2. ASSUME NEW c \in CPUs, SchedStep(c) PROVE Calls'
    BY <1>2, ScheduleCalls, HandleRrqCalls, RequeueCalls, BudgetTimeoutCalls DEF SchedStep
  <1>3. ASSUME NEW c \in CPUs, EcStep(c) PROVE Calls'
    BY <1>3, ActivateWalkCalls, ActivateRunCalls, ActivateBlockScCalls, PickCalls,
       UnblockScCalls, UnblockLoopCalls, NotifyCalls, NamePortalCalls, SysIpcCallCalls,
       SendMsgCalls, HelpCalls, RecvCalls, RepliesCalls, RetUserCalls, IdleLoopCalls,
       SysCreateScCalls, NotifyCreatedCalls DEF EcStep, CallPortal, RaiseException
  <1>4. ASSUME NEW c \in CPUs, SmStep(c) PROVE Calls'
    <2>1. ASSUME SysUp(c) PROVE Calls'
      BY <2>1, UpCountCalls, UpWakeCalls DEF SysUp, UpFrom
    <2>2. ASSUME GsiUp(c) PROVE Calls'
      BY <2>2, UpCountCalls, UpWakeCalls, SmAssumption DEF GsiUp, UpFrom
    <2> QED BY <1>4, <2>1, <2>2, DnFastCalls, DnBlockCalls, DnBlockScCalls, SmTimeoutCalls,
               SysFinishCalls DEF SmStep
  <1> QED BY <1>1, <1>2, <1>3, <1>4 DEF Next

\* Calls holds at bootstrap.
LEMMA InitCalls == Init => Calls
  <1> SUFFICES ASSUME Init PROVE Calls
    OBVIOUS
  <1>1. \A c \in CPUs : RunOK(c) /\ AimOK(c)
    BY DEF Init, RunOK, AimOK, AtHelp, Handlers, Away
  <1>2. ASSUME NEW e \in ECs PROVE LinkOK(e)
    <2>1. caller[e] = NoEc /\ callee[e] = NoEc /\ want[e] \in Local \cup {NoEc}
      BY DEF Init
    <2>2. cont[e] \in {"idle", "null", "ret_user_exception", "send_msg"}
      BY DEF Init
    <2>3. e \in Local => cont[e] = "null"
      BY EcAssumption DEF Init
    <2> QED BY <2>1, <2>2, <2>3 DEF LinkOK
  <1>3. Waiters
    <2>1. \A m \in SMs : smq[m] = <<>>
      BY DEF Init
    <2>2. Elems(<<>>) = {} /\ Distinct(<<>>)
      BY DEF Elems, Distinct
    <2> QED BY <2>1, <2>2 DEF Waiters
  <1> QED BY <1>1, <1>2, <1>3 DEF Calls

-----------------------------------------------------------------------------
(* Timers and wakeups.                                                     *)

\* Where the EC that a CPU ran last can be while its hypercall timeout is set.
Timed == {"schedule_blocked", "pick", "activate", "sys_finish_success"}

\* A hypercall timeout belongs to the wait that set it.
TimerOK(e) == timeout[e] # NoSm =>
    /\ cont[e] \in {"blocking", "sys_finish_success"}
    /\ cont[e] = "blocking" => e \in Elems(smq[timeout[e]])
    /\ \A c \in CPUs : ec[c] = e => pc[c] \in Timed

\* The timeout that dn is about to set: the EC still waits there, or was woken.
DnOK(c) == pc[c] = "dn" /\ cont[ec[c]] = "blocking" /\ tmo[c] # NoSm =>
    ec[c] \in Elems(smq[tmo[c]])

Timers == (\A e \in ECs : TimerOK(e)) /\ (\A c \in CPUs : DnOK(c))

\* Within unblock_sc.
Waking == {"unblock_sc", "unblock_loop", "notify"}

\* An EC with SCs on its queue stays blocked until a CPU has entered
\* unblock_sc for it; it is no handler that waits for a call.
Wakeups == \A e \in ECs : scq[e] # <<>> =>
    \/ Unblocking(e)
    \/ Blocked(e) /\ ~(e \in Local /\ cont[e] = "null")

Waits == Timers /\ Wakeups

\* A step of CPU c that sets no hypercall timeout.
LEMMA TimersKept ==
    ASSUME Inv, Timers, NEW c \in CPUs, Others(c), Abroad(c), DnOK(c)',
           \A e \in ECs : timeout'[e] \in {timeout[e], NoSm},
           \A d \in CPUs : d # c => tmo'[d] = tmo[d],
           \A e \in ECs : timeout'[e] # NoSm =>
               \/ cont'[e] = cont[e]
               \/ cont[e] = "blocking" /\ cont'[e] = "sys_finish_success",
           \A e \in ECs, m \in SMs :
               cont'[e] = "blocking" /\ e \in Elems(smq[m]) => e \in Elems(smq[m])',
           timeout'[ec'[c]] # NoSm => pc'[c] \in Timed
    PROVE  Timers'
  <1>1. ASSUME NEW e \in ECs PROVE TimerOK(e)'
    <2> SUFFICES ASSUME timeout'[e] # NoSm PROVE TimerOK(e)'
      BY DEF TimerOK
    <2>1. timeout'[e] = timeout[e] /\ timeout[e] # NoSm /\ TimerOK(e) /\ timeout[e] \in SMs
      BY DEF Timers, Inv, TypeOK, TypeSm
    <2>2. cont'[e] \in {"blocking", "sys_finish_success"}
      BY <2>1 DEF TimerOK
    <2>3. cont'[e] = "blocking" => e \in Elems(smq[timeout[e]])'
      BY <2>1 DEF TimerOK
    <2>4. ASSUME NEW d \in CPUs, ec'[d] = e PROVE pc'[d] \in Timed
      BY <2>1, <2>4 DEF TimerOK, Others
    <2>5. Elems(smq[timeout[e]])' = Elems(smq'[timeout[e]])
      BY <2>1 DEF Elems
    <2> QED BY <2>1, <2>2, <2>3, <2>4, <2>5 DEF TimerOK, Elems
  <1>2. ASSUME NEW d \in CPUs, d # c PROVE DnOK(d)'
    <2>1. /\ pc'[d] = pc[d] /\ ec'[d] = ec[d] /\ tmo'[d] = tmo[d]
          /\ ec[d] \in ECs /\ EcCpu[ec[d]] = d /\ tmo[d] \in SMs \cup {NoSm} /\ DnOK(d)
      BY <1>2 DEF Others, Timers, Inv, TypeOK, TypeEc, TypeSm, Control, CpuOK
    <2> SUFFICES ASSUME pc'[d] = "dn", cont'[ec[d]] = "blocking", tmo[d] # NoSm
                 PROVE  ec[d] \in Elems(smq'[tmo[d]])
      BY <2>1 DEF DnOK, Elems
    <2>2. cont[ec[d]] = "blocking"
      BY <1>2, <2>1 DEF Abroad
    <2>3. ec[d] \in Elems(smq[tmo[d]])
      BY <2>1, <2>2 DEF DnOK
    <2>4. ec[d] \in Elems(smq[tmo[d]])'
      BY <2>1, <2>3
    <2> QED BY <2>1, <2>4 DEF Elems
  <1> QED BY <1>1, <1>2 DEF Timers

\* A step of CPU c that puts no SC on the queue of an EC.
LEMMA WakeupsKept ==
    ASSUME Inv, Wakeups, NEW c \in CPUs, Others(c),
           \A e \in ECs : scq'[e] # <<>> => scq[e] # <<>>,
           pc[c] \in Waking => pc'[c] \in Waking /\ arg'[c] = arg[c],
           \A e \in ECs : Blocked(e) /\ ~(e \in Local /\ cont[e] = "null") =>
               cont'[e] = cont[e] \/ (pc'[c] \in Waking /\ arg'[c] = e)
    PROVE  Wakeups'
  <1> SUFFICES ASSUME NEW e \in ECs, scq'[e] # <<>>
               PROVE  \/ Unblocking(e)'
                      \/ Blocked(e)' /\ ~(e \in Local /\ cont'[e] = "null")
    BY DEF Wakeups
  <1>1. CASE Unblocking(e)
    <2>1. PICK d \in CPUs : pc[d] \in Waking /\ arg[d] = e
      BY <1>1 DEF Unblocking, Waking
    <2>2. pc'[d] \in Waking /\ arg'[d] = e
      BY <2>1 DEF Others
    <2> QED BY <2>2 DEF Unblocking, Waking
  <1>2. CASE Blocked(e) /\ ~(e \in Local /\ cont[e] = "null")
    BY <1>2 DEF Blocked, Unblocking, Waking
  <1> QED BY <1>1, <1>2 DEF Wakeups

\* A step that leaves all ECs and semaphores alone.
LEMMA QuietWaits ==
    ASSUME Inv, Waits, NEW c \in CPUs, Others(c), Abroad(c),
           UNCHANGED <<ec, cont, scq, smq, timeout, tmo>>,
           pc'[c] # "dn", pc[c] \in Timed => pc'[c] \in Timed,
           pc[c] \in Waking => pc'[c] \in Waking /\ arg'[c] = arg[c]
    PROVE  Waits'
  <1>1. DnOK(c)' /\ ec[c] \in ECs
    BY DEF DnOK, Inv, TypeOK, TypeEc
  <1>2. \A m \in SMs : Elems(smq[m])' = Elems(smq[m])
    BY DEF Elems
  <1>3. timeout[ec[c]] # NoSm => pc'[c] \in Timed
    BY <1>1 DEF Waits, Timers, TimerOK
  <1>4. Timers'
    BY <1>1, <1>2, <1>3, TimersKept DEF Waits
  <1>5. Wakeups'
    BY WakeupsKept DEF Waits
  <1> QED BY <1>4, <1>5 DEF Waits

\* Scheduler::schedule.
LEMMA ScheduleWaits ==
    ASSUME Inv, Waits, NEW c \in CPUs, NEW b \in BOOLEAN, Schedule(c, b), UNCHANGED <<ecVars, smVars>>
    PROVE  Waits'
  <1>1. Others(c) /\ Abroad(c) /\ UNCHANGED <<ec, cont, scq, smq, timeout, tmo>>
    <2>1. ec[c] \in ECs /\ EcCpu[ec[c]] = c
      BY DEF Inv, TypeOK, TypeEc, Control, CpuOK
    <2> QED BY <2>1 DEF Inv, TypeOK, TypeCtl, TypeEc, Others, Abroad, Schedule, ReadyEnqueue, Goto, ecVars, smVars
  <1>2. /\ pc'[c] # "dn" /\ (pc[c] \in Timed => pc'[c] \in Timed)
        /\ pc[c] \in Waking => pc'[c] \in Waking /\ arg'[c] = arg[c]
    BY DEF Inv, TypeOK, TypeCtl, Control, CpuOK, Handlers, Resumes, Timed, Waking, Schedule, ReadyEnqueue, Goto, ecVars, smVars
  <1> QED BY <1>1, <1>2, QuietWaits

\* The RRQ IPI.
LEMMA HandleRrqWaits ==
    ASSUME Inv, Waits, NEW c \in CPUs, HandleRrq(c), UNCHANGED <<ecVars, smVars>>
    PROVE  Waits'
  <1>1. Others(c) /\ Abroad(c) /\ UNCHANGED <<ec, cont, scq, smq, timeout, tmo>>
    <2>1. ec[c] \in ECs /\ EcCpu[ec[c]] = c
      BY DEF Inv, TypeOK, TypeEc, Control, CpuOK
    <2> QED BY <2>1 DEF Inv, TypeOK, TypeCtl, TypeEc, Others, Abroad, HandleRrq, Call, Goto, Resume, Interruptible, ecVars, smVars
  <1>2. /\ pc'[c] # "dn" /\ (pc[c] \in Timed => pc'[c] \in Timed)
        /\ pc[c] \in Waking => pc'[c] \in Waking /\ arg'[c] = arg[c]
    BY DEF Inv, TypeOK, TypeCtl, Control, CpuOK, Handlers, Resumes, Timed, Waking, HandleRrq, Call, Goto, Resume, Interruptible, ecVars, smVars
  <1> QED BY <1>1, <1>2, QuietWaits

\* Scheduler::requeue.
LEMMA RequeueWaits ==
    ASSUME Inv, Waits, NEW c \in CPUs, Requeue(c), UNCHANGED <<ecVars, smVars>>
    PROVE  Waits'
  <1>1. Others(c) /\ Abroad(c) /\ UNCHANGED <<ec, cont, scq, smq, timeout, tmo>>
    <2>1. ec[c] \in ECs /\ EcCpu[ec[c]] = c
      BY DEF Inv, TypeOK, TypeEc, Control, CpuOK
    <2> QED BY <2>1 DEF Inv, TypeOK, TypeCtl, TypeEc, Others, Abroad, Requeue, ReadyEnqueue, Leave, Call, Goto, ctlVars, ecVars, smVars
  <1>2. /\ pc'[c] # "dn" /\ (pc[c] \in Timed => pc'[c] \in Timed)
        /\ pc[c] \in Waking => pc'[c] \in Waking /\ arg'[c] = arg[c]
    BY DEF Inv, TypeOK, TypeCtl, Control, CpuOK, Handlers, Resumes, Timed, Waking, Requeue, ReadyEnqueue, Leave, Call, Goto, ctlVars, ecVars, smVars
  <1> QED BY <1>1, <1>2, QuietWaits

\* The budget timeout.
LEMMA BudgetTimeoutWaits ==
    ASSUME Inv, Waits, NEW c \in CPUs, BudgetTimeout(c), UNCHANGED <<ecVars, smVars>>
    PROVE  Waits'
  <1>1. Others(c) /\ Abroad(c) /\ UNCHANGED <<ec, cont, scq, smq, timeout, tmo>>
    <2>1. ec[c] \in ECs /\ EcCpu[ec[c]] = c
      BY DEF Inv, TypeOK, TypeEc, Control, CpuOK
    <2> QED BY <2>1 DEF Inv, TypeOK, TypeCtl, TypeEc, Others, Abroad, BudgetTimeout, Goto, Resume, Interruptible, ecVars, smVars
  <1>2. /\ pc'[c] # "dn" /\ (pc[c] \in Timed => pc'[c] \in Timed)
        /\ pc[c] \in Waking => pc'[c] \in Waking /\ arg'[c] = arg[c]
    BY DEF Inv, TypeOK, TypeCtl, Control, CpuOK, Handlers, Resumes, Timed, Waking, BudgetTimeout, Goto, Resume, Interruptible, ecVars, smVars
  <1> QED BY <1>1, <1>2, QuietWaits

\* The scheduler activates the EC of the SC it has chosen.
LEMMA PickWaits ==
    ASSUME Inv, Waits, NEW c \in CPUs, Pick(c), UNCHANGED smVars
    PROVE  Waits'
  <1>1. Others(c) /\ Abroad(c) /\ UNCHANGED <<ec, cont, scq, smq, timeout, tmo>>
    <2>1. ec[c] \in ECs /\ EcCpu[ec[c]] = c
      BY DEF Inv, TypeOK, TypeEc, Control, CpuOK
    <2> QED BY <2>1 DEF Inv, TypeOK, TypeCtl, TypeEc, Others, Abroad, Pick, EnterActivate, Call, Goto, smVars
  <1>2. /\ pc'[c] # "dn" /\ (pc[c] \in Timed => pc'[c] \in Timed)
        /\ pc[c] \in Waking => pc'[c] \in Waking /\ arg'[c] = arg[c]
    BY DEF Inv, TypeOK, TypeCtl, Control, CpuOK, Handlers, Resumes, Timed, Waking, Pick, EnterActivate, Call, Goto, smVars
  <1> QED BY <1>1, <1>2, QuietWaits

\* A step down the call chain.
LEMMA ActivateWalkWaits ==
    ASSUME Inv, Waits, NEW c \in CPUs, ActivateWalk(c), UNCHANGED smVars
    PROVE  Waits'
  <1>1. Others(c) /\ Abroad(c) /\ UNCHANGED <<ec, cont, scq, smq, timeout, tmo>>
    <2>1. ec[c] \in ECs /\ EcCpu[ec[c]] = c
      BY DEF Inv, TypeOK, TypeEc, Control, CpuOK
    <2> QED BY <2>1 DEF Inv, TypeOK, TypeCtl, TypeEc, Others, Abroad, ActivateWalk, scVars, smVars
  <1>2. /\ pc'[c] # "dn" /\ (pc[c] \in Timed => pc'[c] \in Timed)
        /\ pc[c] \in Waking => pc'[c] \in Waking /\ arg'[c] = arg[c]
    BY DEF Inv, TypeOK, TypeCtl, Control, CpuOK, Handlers, Resumes, Timed, Waking, ActivateWalk, scVars, smVars
  <1> QED BY <1>1, <1>2, QuietWaits

\* A helper activates the handler it waits for.
LEMMA HelpWaits ==
    ASSUME Inv, Waits, NEW c \in CPUs, Help(c), UNCHANGED smVars
    PROVE  Waits'
  <1>1. Others(c) /\ Abroad(c) /\ UNCHANGED <<ec, cont, scq, smq, timeout, tmo>>
    <2>1. ec[c] \in ECs /\ EcCpu[ec[c]] = c
      BY DEF Inv, TypeOK, TypeEc, Control, CpuOK
    <2> QED BY <2>1 DEF Inv, TypeOK, TypeCtl, TypeEc, Others, Abroad, Help, EnterActivate, Call, Goto, scVars, smVars
  <1>2. /\ pc'[c] # "dn" /\ (pc[c] \in Timed => pc'[c] \in Timed)
        /\ pc[c] \in Waking => pc'[c] \in Waking /\ arg'[c] = arg[c]
    BY DEF Inv, TypeOK, TypeCtl, Control, CpuOK, Handlers, Resumes, Timed, Waking, Help, EnterActivate, Call, Goto, scVars, smVars
  <1> QED BY <1>1, <1>2, QuietWaits

\* unblock_sc takes the lock.
LEMMA UnblockScWaits ==
    ASSUME Inv, Waits, NEW c \in CPUs, UnblockSc(c), UNCHANGED smVars
    PROVE  Waits'
  <1>1. Others(c) /\ Abroad(c) /\ UNCHANGED <<ec, cont, scq, smq, timeout, tmo>>
    <2>1. ec[c] \in ECs /\ EcCpu[ec[c]] = c
      BY DEF Inv, TypeOK, TypeEc, Control, CpuOK
    <2> QED BY <2>1 DEF Inv, TypeOK, TypeCtl, TypeEc, Others, Abroad, UnblockSc, Goto, ecVars, scVars, smVars
  <1>2. /\ pc'[c] # "dn" /\ (pc[c] \in Timed => pc'[c] \in Timed)
        /\ pc[c] \in Waking => pc'[c] \in Waking /\ arg'[c] = arg[c]
    BY DEF Inv, TypeOK, TypeCtl, Control, CpuOK, Handlers, Resumes, Timed, Waking, UnblockSc, Goto, ecVars, scVars, smVars
  <1> QED BY <1>1, <1>2, QuietWaits

\* unblock_sc sends the IPI.
LEMMA NotifyWaits ==
    ASSUME Inv, Waits, NEW c \in CPUs, Notify(c), UNCHANGED smVars
    PROVE  Waits'
  <1>1. Others(c) /\ Abroad(c) /\ UNCHANGED <<ec, cont, scq, smq, timeout, tmo>>
    <2>1. ec[c] \in ECs /\ EcCpu[ec[c]] = c
      BY DEF Inv, TypeOK, TypeEc, Control, CpuOK
    <2> QED BY <2>1 DEF Inv, TypeOK, TypeCtl, TypeEc, Others, Abroad, Notify, Goto, ecVars, smVars
  <1>2. /\ pc'[c] # "dn" /\ (pc[c] \in Timed => pc'[c] \in Timed)
        /\ pc[c] \in Waking => pc'[c] \in Waking /\ arg'[c] = arg[c]
    BY DEF Inv, TypeOK, TypeCtl, Control, CpuOK, Handlers, Resumes, Timed, Waking, Notify, Goto, ecVars, smVars
  <1> QED BY <1>1, <1>2, QuietWaits

\* sys_create_sc.
LEMMA SysCreateScWaits ==
    ASSUME Inv, Waits, NEW c \in CPUs, SysCreateSc(c), UNCHANGED smVars
    PROVE  Waits'
  <1>1. Others(c) /\ Abroad(c) /\ UNCHANGED <<ec, cont, scq, smq, timeout, tmo>>
    <2>1. ec[c] \in ECs /\ EcCpu[ec[c]] = c
      BY DEF Inv, TypeOK, TypeEc, Control, CpuOK
    <2> QED BY <2>1 DEF Inv, TypeOK, TypeCtl, TypeEc, Others, Abroad, SysCreateSc, User, ReadyEnqueue, ReleaseEnqueue, Call, Goto, ecVars, smVars
  <1>2. /\ pc'[c] # "dn" /\ (pc[c] \in Timed => pc'[c] \in Timed)
        /\ pc[c] \in Waking => pc'[c] \in Waking /\ arg'[c] = arg[c]
    BY DEF Inv, TypeOK, TypeCtl, Control, CpuOK, Handlers, Resumes, Timed, Waking, SysCreateSc, User, ReadyEnqueue, ReleaseEnqueue, Call, Goto, ecVars, smVars
  <1> QED BY <1>1, <1>2, QuietWaits

\* sys_create_sc sends the IPI.
LEMMA NotifyCreatedWaits ==
    ASSUME Inv, Waits, NEW c \in CPUs, NotifyCreated(c), UNCHANGED smVars
    PROVE  Waits'
  <1>1. Others(c) /\ Abroad(c) /\ UNCHANGED <<ec, cont, scq, smq, timeout, tmo>>
    <2>1. ec[c] \in ECs /\ EcCpu[ec[c]] = c
      BY DEF Inv, TypeOK, TypeEc, Control, CpuOK
    <2> QED BY <2>1 DEF Inv, TypeOK, TypeCtl, TypeEc, Others, Abroad, NotifyCreated, Leave, Call, Goto, ecVars, smVars
  <1>2. /\ pc'[c] # "dn" /\ (pc[c] \in Timed => pc'[c] \in Timed)
        /\ pc[c] \in Waking => pc'[c] \in Waking /\ arg'[c] = arg[c]
    BY DEF Inv, TypeOK, TypeCtl, Control, CpuOK, Handlers, Resumes, Timed, Waking, NotifyCreated, Leave, Call, Goto, ecVars, smVars
  <1> QED BY <1>1, <1>2, QuietWaits

\* recv_user and recv_kern.
LEMMA RecvWaits ==
    ASSUME Inv, Waits, NEW c \in CPUs, Recv(c), UNCHANGED smVars
    PROVE  Waits'
  <1>1. Others(c) /\ Abroad(c) /\ UNCHANGED <<ec, cont, scq, smq, timeout, tmo>>
    <2>1. ec[c] \in ECs /\ EcCpu[ec[c]] = c
      BY DEF Inv, TypeOK, TypeEc, Control, CpuOK
    <2> QED BY <2>1 DEF Inv, TypeOK, TypeCtl, TypeEc, Others, Abroad, Recv, Goto, ecVars, scVars, smVars
  <1>2. /\ pc'[c] # "dn" /\ (pc[c] \in Timed => pc'[c] \in Timed)
        /\ pc[c] \in Waking => pc'[c] \in Waking /\ arg'[c] = arg[c]
    BY DEF Inv, TypeOK, TypeCtl, Control, CpuOK, Handlers, Resumes, Timed, Waking, Recv, Goto, ecVars, scVars, smVars
  <1> QED BY <1>1, <1>2, QuietWaits

\* Sm::dn with tokens left.
LEMMA DnFastWaits ==
    ASSUME Inv, Waits, NEW c \in CPUs, DnFast(c)
    PROVE  Waits'
  <1>1. Others(c) /\ Abroad(c) /\ UNCHANGED <<ec, cont, scq, smq, timeout, tmo>>
    <2>1. ec[c] \in ECs /\ EcCpu[ec[c]] = c
      BY DEF Inv, TypeOK, TypeEc, Control, CpuOK
    <2> QED BY <2>1 DEF Inv, TypeOK, TypeCtl, TypeEc, Others, Abroad, DnFast, User, Goto, ecVars, scVars
  <1>2. /\ pc'[c] # "dn" /\ (pc[c] \in Timed => pc'[c] \in Timed)
        /\ pc[c] \in Waking => pc'[c] \in Waking /\ arg'[c] = arg[c]
    BY DEF Inv, TypeOK, TypeCtl, Control, CpuOK, Handlers, Resumes, Timed, Waking, DnFast, User, Goto, ecVars, scVars
  <1> QED BY <1>1, <1>2, QuietWaits

\* Sm::up without a waiter.
LEMMA UpCountWaits ==
    ASSUME Inv, Waits, NEW c \in CPUs, NEW M \in SUBSET SMs, NEW r, UpFrom(c, r), UpCount(c, M, r)
    PROVE  Waits'
  <1>1. Others(c) /\ Abroad(c) /\ UNCHANGED <<ec, cont, scq, smq, timeout, tmo>>
    <2>1. ec[c] \in ECs /\ EcCpu[ec[c]] = c
      BY DEF Inv, TypeOK, TypeEc, Control, CpuOK
    <2> QED BY <2>1 DEF Inv, TypeOK, TypeCtl, TypeEc, Others, Abroad, UpFrom, UpCount, User, Interruptible, Resume, Goto, ecVars, scVars
  <1>2. /\ pc'[c] # "dn" /\ (pc[c] \in Timed => pc'[c] \in Timed)
        /\ pc[c] \in Waking => pc'[c] \in Waking /\ arg'[c] = arg[c]
    BY DEF Inv, TypeOK, TypeCtl, Control, CpuOK, Handlers, Resumes, Timed, Waking, UpFrom, UpCount, User, Interruptible, Resume, Goto, ecVars, scVars
  <1> QED BY <1>1, <1>2, QuietWaits

\* User mode names a portal.
LEMMA NamePortalWaits ==
    ASSUME Inv, Waits, NEW c \in CPUs, NEW p \in {"sys_ipc_call", "send_msg"}, NamePortal(c, p), UNCHANGED smVars
    PROVE  Waits'
  <1>1. Others(c) /\ Abroad(c) /\ UNCHANGED <<ec, cont, scq, smq, timeout, tmo>>
    <2>1. ec[c] \in ECs /\ EcCpu[ec[c]] = c
      BY DEF Inv, TypeOK, TypeEc, Control, CpuOK
    <2> QED BY <2>1 DEF Inv, TypeOK, TypeCtl, TypeEc, Others, Abroad, NamePortal, User, Goto, scVars, smVars
  <1>2. /\ pc'[c] # "dn" /\ (pc[c] \in Timed => pc'[c] \in Timed)
        /\ pc[c] \in Waking => pc'[c] \in Waking /\ arg'[c] = arg[c]
    BY DEF Inv, TypeOK, TypeCtl, Control, CpuOK, Handlers, Resumes, Timed, Waking, NamePortal, User, Goto, scVars, smVars
  <1> QED BY <1>1, <1>2, QuietWaits

\* A call that is given up.
LEMMA BailWaits ==
    ASSUME Inv, Waits, NEW c \in CPUs, pc[c] \in {"sys_ipc_call", "send_msg"},
           NEW p \in {"ret_user_hypercall", "kill"}, Bail(c, p), UNCHANGED smVars
    PROVE  Waits'
  <1>1. Others(c) /\ Abroad(c) /\ UNCHANGED <<ec, cont, scq, smq, timeout, tmo>>
    <2>1. ec[c] \in ECs /\ EcCpu[ec[c]] = c
      BY DEF Inv, TypeOK, TypeEc, Control, CpuOK
    <2> QED BY <2>1 DEF Inv, TypeOK, TypeCtl, TypeEc, Others, Abroad, Bail, Goto, scVars, smVars
  <1>2. /\ pc'[c] # "dn" /\ (pc[c] \in Timed => pc'[c] \in Timed)
        /\ pc[c] \in Waking => pc'[c] \in Waking /\ arg'[c] = arg[c]
    BY DEF Inv, TypeOK, TypeCtl, Control, CpuOK, Handlers, Resumes, Timed, Waking, Bail, Goto, scVars, smVars
  <1> QED BY <1>1, <1>2, QuietWaits

\* The step of a running EC that gives new continuations to ECs nobody
\* waits for: itself, its caller, and a handler that waits for a call.
LEMMA TalkWaits ==
    ASSUME Inv, Calls, Waits, NEW c \in CPUs, Others(c), Abroad(c),
           UNCHANGED <<scq, smq, timeout, tmo>>,
           pc[c] \notin Away \cup {"dn", "sys_finish_success"} \cup Waking, pc'[c] # "dn",
           NEW X \in SUBSET ECs, ec[c] \in X, ec'[c] \in X,
           \A e \in ECs : e \notin X => cont'[e] = cont[e],
           \A e \in X : \/ e = ec[c]
                        \/ cont[e] \in {"ret_user_hypercall", "ret_user_exception"}
                        \/ e \in Local /\ cont[e] = "null"
    PROVE  Waits'
  <1>1. \A e \in X : timeout[e] = NoSm /\ (Blocked(e) => e \in Local /\ cont[e] = "null")
    <2> SUFFICES ASSUME NEW e \in X
                 PROVE  timeout[e] = NoSm /\ (Blocked(e) => e \in Local /\ cont[e] = "null")
      OBVIOUS
    <2>0. TimerOK(e)
      BY DEF Waits, Timers
    <2>1. CASE e = ec[c]
      <3>1. RunOK(c)
        BY DEF Calls
      <3> QED BY <2>0, <2>1, <3>1 DEF TimerOK, Timed, RunOK, Away
    <2>2. CASE e # ec[c]
      BY <2>0, <2>2 DEF TimerOK, Blocked
    <2> QED BY <2>1, <2>2
  <1>2. \A m \in SMs : Elems(smq[m])' = Elems(smq[m])
    BY DEF Elems
  <1>3. DnOK(c)'
    BY DEF DnOK
  <1>4. Timers'
    BY <1>1, <1>2, <1>3, TimersKept DEF Waits
  <1>5. Wakeups'
    BY <1>1, WakeupsKept DEF Waits, Blocked
  <1> QED BY <1>4, <1>5 DEF Waits

\* Ec::rendezvous.
LEMMA RendezvousWaits ==
    ASSUME Inv, Calls, Waits, NEW c \in CPUs, pc[c] \in {"sys_ipc_call", "send_msg"},
           NEW s \in Local, EcCpu[s] = c, NEW x, NEW y \in {"recv_user", "recv_kern"},
           Rendezvous(c, s, x, y), UNCHANGED smVars
    PROVE  Waits'
  <1>0. s \in ECs /\ ec[c] \in ECs /\ EcCpu[ec[c]] = c
    BY SelfOK
  <1>1. /\ Others(c) /\ UNCHANGED <<scq, smq, timeout, tmo>> /\ pc'[c] = y /\ ec'[c] = s
    BY DEF Inv, TypeOK, TypeCtl, TypeEc, Others, Rendezvous, MakeCurrent, Leave, Call, Goto, smVars
  <1>2. \A e \in ECs : e \notin {ec[c], s} =>
           /\ cont'[e] = cont[e] /\ callee'[e] = callee[e] /\ caller'[e] = caller[e]
           /\ want'[e] = want[e]
    BY <1>0 DEF Inv, TypeOK, TypeEc, Rendezvous
  <1>3. Abroad(c) /\ cont[s] = "null"
    BY <1>0, <1>2 DEF Abroad, Rendezvous
  <1>4. PICK X \in SUBSET ECs : X = {ec[c], s}
    BY <1>0
  <1> QED BY <1>1, <1>2, <1>3, <1>4, TalkWaits DEF Away, Waking

\* The running EC gives itself a continuation and goes on, or gives up the CPU.
LEMMA SelfWaits ==
    ASSUME Inv, Calls, Waits, NEW c \in CPUs, NEW x, cont' = [cont EXCEPT ![ec[c]] = x],
           pc[c] \in {"sys_ipc_call", "send_msg", "ret_user_hypercall",
                      "ret_user_exception", "idle"},
           NEW p \in {"help", "schedule"}, Goto(c, p), UNCHANGED <<arg, ret>>,
           UNCHANGED <<ec, callee, caller, want, scq, smq, timeout, tmo>>
    PROVE  Waits'
  <1>0. ec[c] \in ECs /\ EcCpu[ec[c]] = c
    BY SelfOK
  <1>1. Others(c) /\ pc'[c] = p
    BY DEF Inv, TypeOK, TypeCtl, Others, Goto
  <1>2. \A e \in ECs : e # ec[c] => cont'[e] = cont[e]
    BY <1>0 DEF Inv, TypeOK, TypeEc
  <1>3. Abroad(c)
    BY <1>0, <1>2 DEF Abroad
  <1>4. PICK X \in SUBSET ECs : X = {ec[c]}
    BY <1>0
  <1> QED BY <1>1, <1>2, <1>3, <1>4, TalkWaits DEF Away, Waking

\* sys_ipc_call and send_msg.
LEMMA CallWaits ==
    ASSUME Inv, Calls, Waits, NEW c \in CPUs, SysIpcCall(c) \/ SendMsg(c), UNCHANGED smVars
    PROVE  Waits'
  <1>0. want[ec[c]] \in Local \cup {NoEc} /\ pc[c] \in {"sys_ipc_call", "send_msg"}
    BY SelfOK DEF SysIpcCall, SendMsg
  <1>1. CASE Bail(c, "ret_user_hypercall") \/ Bail(c, "kill")
    BY <1>0, <1>1, BailWaits
  <1>2. ASSUME NEW x, NEW y \in {"recv_user", "recv_kern"}, want[ec[c]] # NoEc,
               EcCpu[want[ec[c]]] = c, Rendezvous(c, want[ec[c]], x, y)
        PROVE  Waits'
    BY <1>0, <1>2, RendezvousWaits
  <1>3. ASSUME NEW x, EnterHelp(c, want[ec[c]], x)
        PROVE  Waits'
    <2>1. /\ cont' = [cont EXCEPT ![ec[c]] = x] /\ Goto(c, "help") /\ UNCHANGED <<arg, ret>>
          /\ UNCHANGED <<ec, callee, caller, want, scq, smq, timeout, tmo>>
      BY <1>3 DEF EnterHelp, smVars
    <2> QED BY <1>0, <2>1, SelfWaits
  <1> QED BY <1>1, <1>2, <1>3 DEF SysIpcCall, SendMsg

\* ret_user_hypercall, ret_user_exception and idle.
LEMMA RetWaits ==
    ASSUME Inv, Calls, Waits, NEW c \in CPUs, RetUser(c) \/ IdleLoop(c), UNCHANGED smVars
    PROVE  Waits'
  <1>1. pc[c] \in {"ret_user_hypercall", "ret_user_exception", "idle"}
    BY DEF RetUser, IdleLoop
  <1>2. CASE sched[c]
    <2>1. /\ Goto(c, "schedule") /\ UNCHANGED <<arg, ret>>
          /\ UNCHANGED <<ec, callee, caller, want, scq, smq, timeout, tmo>>
          /\ \/ cont' = [cont EXCEPT ![ec[c]] = pc[c]]
             \/ cont' = [cont EXCEPT ![ec[c]] = "idle"]
      BY <1>2 DEF RetUser, IdleLoop, smVars
    <2> QED BY <1>1, <2>1, SelfWaits
  <1>3. CASE ~sched[c]
    <2>1. Others(c) /\ pc'[c] = "user" /\ UNCHANGED <<arg, ret, callee, caller, want>>
      BY <1>3 DEF RetUser, IdleLoop, Inv, TypeOK, TypeCtl, Others, Goto
    <2>2. Abroad(c) /\ UNCHANGED <<ec, cont, scq, smq, timeout, tmo>>
      BY <1>3 DEF RetUser, IdleLoop, Abroad, smVars
    <2> QED BY <1>1, <2>1, <2>2, QuietWaits DEF Timed, Waking
  <1> QED BY <1>2, <1>3

\* Ec::reply and Ec::kill.
LEMMA ReplyWaits ==
    ASSUME Inv, Calls, Waits, NEW c \in CPUs, pc[c] \in {"user", "kill", "dead", "blocking"},
           NEW x \in {"null", "dead"}, NEW k,
           k \in {"null", cont[caller[ec[c]]], "sys_finish_aborted", "dead"},
           Reply(c, x, k), UNCHANGED smVars
    PROVE  Waits'
  <1> DEFINE self == ec[c]
             p == caller[ec[c]]
  <1>0. self \in ECs /\ EcCpu[self] = c /\ NoEc \notin ECs /\ p \in ECs \cup {NoEc}
    BY SelfOK
  <1>1. Others(c) /\ UNCHANGED <<scq, smq, timeout, tmo, want>>
    BY <1>0 DEF Inv, TypeOK, TypeCtl, TypeEc, Others, Reply, MakeCurrent, EnterActivate,
                Leave, Call, Goto, smVars
  <1>2. CASE p = NoEc
    <2>1. /\ \A e \in ECs : e # self => cont'[e] = cont[e]
          /\ pc'[c] = "schedule_blocked" /\ UNCHANGED <<ec, callee, caller>>
      BY <1>0, <1>2 DEF Inv, TypeOK, TypeCtl, TypeEc, Reply, Goto
    <2>2. Abroad(c)
      BY <1>0, <1>1, <2>1 DEF Abroad
    <2>3. PICK X \in SUBSET ECs : X = {self}
      BY <1>0
    <2> QED BY <1>1, <2>1, <2>2, <2>3, TalkWaits DEF Away, Waking
  <1>3. CASE p # NoEc
    <2>0. cont[p] \in {"ret_user_hypercall", "ret_user_exception"} /\ EcCpu[p] = c
      BY <1>0, <1>3, SelfOK DEF Calls, LinkOK
    <2>1. /\ \A e \in ECs : e \notin {self, p} =>
                cont'[e] = cont[e] /\ callee'[e] = callee[e] /\ caller'[e] = caller[e]
          /\ ec'[c] \in {self, p}
          /\ pc'[c] \in {k, "activate"}
      BY <1>0, <1>3 DEF Inv, TypeOK, TypeCtl, TypeEc, Reply, MakeCurrent, EnterActivate,
                        Leave, Call, Goto
    <2>2. Abroad(c)
      BY <1>0, <1>1, <2>0, <2>1 DEF Abroad
    <2>3. PICK X \in SUBSET ECs : X = {self, p}
      BY <1>0, <1>3
    <2>4. pc'[c] # "dn"
      BY <2>0, <2>1
    <2> QED BY <1>1, <2>0, <2>1, <2>2, <2>3, <2>4, TalkWaits DEF Away, Waking
  <1> QED BY <1>2, <1>3

\* sys_ipc_reply and kill.
LEMMA RepliesWaits ==
    ASSUME Inv, Calls, Waits, NEW c \in CPUs, SysIpcReply(c) \/ Kill(c), UNCHANGED smVars
    PROVE  Waits'
  BY ReplyWaits DEF SysIpcReply, Kill, User

\* make_current.
LEMMA ActivateRunWaits ==
    ASSUME Inv, Calls, Waits, NEW c \in CPUs, ActivateRun(c), UNCHANGED smVars
    PROVE  Waits'
  <1>1. /\ Others(c) /\ UNCHANGED <<cont, callee, caller, want, scq, smq, timeout, tmo>>
        /\ ec'[c] = arg[c] /\ pc'[c] = cont[arg[c]]
    BY DEF Inv, TypeOK, TypeCtl, TypeEc, Others, ActivateRun, MakeCurrent, Leave, Call, Goto, smVars
  <1>2. /\ arg[c] \in ECs /\ ~Blocked(arg[c]) /\ pc[c] = "activate" /\ cont[arg[c]] \in Conts
    BY SelfOK DEF ActivateRun, Inv, TypeOK, TypeEc
  <1>3. Abroad(c) /\ DnOK(c)'
    BY <1>1, <1>2 DEF Abroad, DnOK, Conts
  <1>4. timeout[arg[c]] # NoSm => cont[arg[c]] = "sys_finish_success"
    BY <1>2 DEF Waits, Timers, TimerOK, Blocked
  <1>5. \A m \in SMs : Elems(smq[m])' = Elems(smq[m])
    BY <1>1 DEF Elems
  <1>6. Timers'
    BY <1>1, <1>3, <1>4, <1>5, TimersKept DEF Waits, Timed
  <1>7. Wakeups'
    BY <1>1, <1>2, WakeupsKept DEF Waits, Waking
  <1> QED BY <1>6, <1>7 DEF Waits

\* Ec::activate on a blocked EC: the SC waits for it.
LEMMA ActivateBlockScWaits ==
    ASSUME Inv, Calls, Waits, NEW c \in CPUs, ActivateBlockSc(c), UNCHANGED smVars
    PROVE  Waits'
  <1>1. /\ Others(c) /\ UNCHANGED <<ec, cont, callee, caller, want, smq, timeout, tmo>>
        /\ pc[c] = "activate" /\ pc'[c] = ret[c]
    BY DEF Inv, TypeOK, TypeCtl, Others, ActivateBlockSc, Leave, Call, Goto, smVars
  <1>2. ret[c] \in {"pick", "schedule_blocked"} /\ ec[c] \in ECs
    BY <1>1 DEF Inv, Control, CpuOK, TypeOK, TypeEc
  <1>3. \A m \in SMs : Elems(smq[m])' = Elems(smq[m])
    BY <1>1 DEF Elems
  <1>4. Timers'
    BY <1>1, <1>2, <1>3, TimersKept DEF Waits, Timed, Abroad, DnOK
  <1>5. arg[c] \in ECs /\ Blocked(arg[c]) /\ \A e \in ECs : e # arg[c] => scq'[e] = scq[e]
    BY SelfOK DEF ActivateBlockSc, Inv, TypeOK, TypeEc
  <1>6. ~(arg[c] \in Local /\ cont[arg[c]] = "null")
    BY <1>1, <1>5 DEF Calls, AimOK, LinkOK
  <1>7. \A e \in ECs : Unblocking(e) => Unblocking(e)'
    BY <1>1 DEF Unblocking, Others
  <1>8. Wakeups'
    BY <1>1, <1>5, <1>6, <1>7 DEF Waits, Wakeups, Blocked
  <1> QED BY <1>4, <1>8 DEF Waits

\* unblock_sc takes an SC off the queue, or leaves an empty queue behind.
LEMMA UnblockLoopWaits ==
    ASSUME Inv, Calls, Waits, NEW c \in CPUs, UnblockLoop(c), UNCHANGED smVars
    PROVE  Waits'
  <1> DEFINE a == arg[c]
  <1>1. /\ Others(c) /\ UNCHANGED <<ec, cont, callee, caller, want, smq, timeout, tmo>>
        /\ pc[c] = "unblock_loop"
        /\ \/ scq[a] = <<>> /\ scq' = scq /\ pc'[c] = ret[c]
           \/ /\ scq' = [scq EXCEPT ![a] = Tail(@)] /\ scq[a] # <<>>
              /\ pc'[c] \in Waking /\ arg'[c] = a
    BY DEF Inv, TypeOK, TypeCtl, Others, UnblockLoop, Leave, Call, Goto, ctlVars, smVars, Waking
  <1>2. a \in ECs /\ ret[c] \in Resumes /\ ec[c] \in ECs /\ timeout[ec[c]] = NoSm
    BY <1>1, ZenonT(40) DEF Inv, Control, CpuOK, Handlers, TypeOK, TypeEc, Waits, Timers, TimerOK, Timed
  <1>3. \A m \in SMs : Elems(smq[m])' = Elems(smq[m])
    BY <1>1 DEF Elems
  <1>4. Timers'
    BY <1>1, <1>2, <1>3, TimersKept DEF Waits, Abroad, DnOK, Resumes, Waking
  <1>5. CASE scq[a] = <<>>
    <2>1. \A e \in ECs : e # a /\ Unblocking(e) => Unblocking(e)'
      BY <1>1, <1>5 DEF Unblocking, Others
    <2> QED BY <1>1, <1>4, <1>5, <2>1 DEF Waits, Wakeups, Blocked
  <1>6. CASE scq[a] # <<>>
    <2>1. \A e \in ECs : scq'[e] # <<>> => scq[e] # <<>>
      BY <1>1, <1>2, <1>6 DEF Inv, TypeOK, TypeEc
    <2>2. Wakeups'
      BY <1>1, <1>6, <2>1, WakeupsKept DEF Waits
    <2> QED BY <1>4, <2>2 DEF Waits
  <1> QED BY <1>5, <1>6

\* Sm::dn without tokens: the EC is blocked and queued.
LEMMA DnBlockWaits ==
    ASSUME Inv, Calls, Waits, NEW c \in CPUs, DnBlock(c)
    PROVE  Waits'
  <1> DEFINE self == ec[c]
  <1>0. self \in ECs /\ EcCpu[self] = c /\ pc[c] = "user"
    BY SelfOK DEF DnBlock, User
  <1>1. /\ Others(c) /\ UNCHANGED <<ec, callee, caller, want, scq, timeout>> /\ pc'[c] = "dn"
        /\ cont' = [cont EXCEPT ![self] = "blocking"]
    BY DEF Inv, TypeOK, TypeCtl, Others, DnBlock, Goto
  <1>2. PICK m \in SMs : /\ smq' = [smq EXCEPT ![m] = Append(@, self)]
                         /\ \E timed \in BOOLEAN :
                              tmo' = [tmo EXCEPT ![c] = IF timed THEN m ELSE NoSm]
    BY DEF DnBlock
  <1>3. /\ tmo'[c] \in {m, NoSm}
        /\ \A d \in CPUs : d # c => tmo'[d] = tmo[d]
    BY <1>2 DEF Inv, TypeOK, TypeSm
  <1>4. \A e \in ECs : e # self => cont'[e] = cont[e]
    BY <1>1 DEF Inv, TypeOK, TypeEc
  <1>5. Abroad(c)
    BY <1>0, <1>1, <1>4 DEF Abroad
  <1>6. timeout[self] = NoSm /\ ~Blocked(self)
    BY <1>0 DEF Waits, Timers, TimerOK, Timed, Calls, RunOK, Away
  <1>7. /\ self \in Elems(smq'[m])
        /\ \A n \in SMs : Elems(smq[n]) \subseteq Elems(smq'[n])
    <2>1. smq[m] \in Seq(ECs)
      BY DEF Inv, TypeOK, TypeSm
    <2>2. /\ smq'[m] = Append(smq[m], self)
          /\ \A n \in SMs : n # m => smq'[n] = smq[n]
      BY <1>2 DEF Inv, TypeOK, TypeSm
    <2> HIDE DEF self
    <2>3. Elems(smq'[m]) = Elems(smq[m]) \cup {self}
      BY <1>0, <2>1, <2>2, ElemsAppend
    <2> QED BY <2>2, <2>3
  <1>8. \A n \in SMs : Elems(smq[n])' = Elems(smq'[n])
    BY DEF Elems
  <1>9. DnOK(c)'
    <2> SUFFICES ASSUME tmo'[c] # NoSm PROVE ec'[c] \in Elems(smq[tmo[c]])'
      BY DEF DnOK
    <2>1. tmo'[c] = m /\ ec'[c] = self
      BY <1>1, <1>3
    <2> QED BY <1>7, <2>1 DEF Elems
  <1>10. Timers'
    <2>1. \A e \in ECs, n \in SMs :
             cont'[e] = "blocking" /\ e \in Elems(smq[n]) => e \in Elems(smq[n])'
      BY <1>7, <1>8
    <2>2. \A e \in ECs : timeout'[e] # NoSm => cont'[e] = cont[e]
      BY <1>1, <1>4, <1>6
    <2>3. timeout'[ec'[c]] = NoSm
      BY <1>1, <1>6
    <2>4. \A e \in ECs : timeout'[e] \in {timeout[e], NoSm}
      BY <1>1
    <2> QED BY <1>1, <1>3, <1>5, <1>9, <2>1, <2>2, <2>3, <2>4, TimersKept DEF Waits
  <1>11. Wakeups'
    BY <1>0, <1>1, <1>4, <1>6, WakeupsKept DEF Waits, Waking
  <1> QED BY <1>10, <1>11 DEF Waits

\* The rest of Sm::dn: the SC and the timeout are queued, or dn returns.
LEMMA DnBlockScWaits ==
    ASSUME Inv, Calls, Waits, NEW c \in CPUs, DnBlockSc(c)
    PROVE  Waits'
  <1> DEFINE self == ec[c]
  <1>0. self \in ECs /\ EcCpu[self] = c /\ pc[c] = "dn" /\ self \in ECs
    BY SelfOK DEF DnBlockSc
  <1>1. /\ Others(c) /\ UNCHANGED <<ec, cont, callee, caller, want, smq>>
        /\ tmo' = [tmo EXCEPT ![c] = NoSm]
    BY DEF Inv, TypeOK, TypeCtl, Others, DnBlockSc, Goto, scVars
  <1>2. Abroad(c) /\ \A d \in CPUs : d # c => tmo'[d] = tmo[d]
    BY <1>1 DEF Abroad, Inv, TypeOK, TypeSm
  <1>3. \A m \in SMs : Elems(smq[m])' = Elems(smq[m])
    BY <1>1 DEF Elems
  <1>4. timeout[self] = NoSm /\ cont[self] \in {"blocking", "sys_finish_success"}
    BY <1>0 DEF Waits, Timers, TimerOK, Timed, Calls, RunOK, Away
  <1>5. CASE ~Blocked(self)
    <2>1. pc'[c] = "ret_user_hypercall" /\ UNCHANGED <<scq, timeout, arg>>
      BY <1>0, <1>5 DEF Inv, TypeOK, TypeCtl, DnBlockSc, Goto
    <2>2. Timers'
      BY <1>1, <1>2, <1>3, <1>4, <2>1, TimersKept DEF Waits, DnOK
    <2>3. Wakeups'
      BY <1>0, <1>1, <2>1, WakeupsKept DEF Waits, Waking
    <2> QED BY <2>2, <2>3 DEF Waits
  <1>6. CASE Blocked(self)
    <2>1. /\ pc'[c] = "schedule_blocked"
          /\ scq' = [scq EXCEPT ![self] = Append(@, cur[c])]
          /\ timeout' = IF tmo[c] = NoSm THEN timeout ELSE [timeout EXCEPT ![self] = tmo[c]]
      BY <1>0, <1>6 DEF Inv, TypeOK, TypeCtl, DnBlockSc, Goto
    <2>2. cont[self] = "blocking" /\ (tmo[c] # NoSm => self \in Elems(smq[tmo[c]]))
      BY <1>0, <1>4, <1>6 DEF Blocked, Waits, Timers, DnOK
    <2>3. /\ timeout'[self] \in {tmo[c], NoSm}
          /\ \A e \in ECs : e # self => timeout'[e] = timeout[e] /\ scq'[e] = scq[e]
      BY <1>0, <1>4, <2>1 DEF Inv, TypeOK, TypeSm, TypeEc
    <2>4. \A d \in CPUs : d # c => ec[d] # self
      BY <1>0 DEF Inv, Control, CpuOK
    <2> HIDE DEF self
    <2>5. ASSUME NEW e \in ECs PROVE TimerOK(e)'
      <3> SUFFICES ASSUME timeout'[e] # NoSm PROVE TimerOK(e)'
        BY DEF TimerOK
      <3>1. CASE e = self
        <4>1. timeout'[e] = tmo[c] /\ tmo[c] # NoSm
          BY <2>3, <3>1
        <4>2. cont'[e] = "blocking" /\ e \in Elems(smq[tmo[c]])
          BY <1>1, <2>2, <3>1, <4>1
        <4>3. \A d \in CPUs : ec'[d] = e => pc'[d] \in Timed
          BY <1>1, <2>1, <2>4, <3>1 DEF Timed, self
        <4>4. e \in Elems(smq[timeout[e]])'
          BY <1>1, <4>1, <4>2 DEF Elems
        <4> QED BY <4>2, <4>3, <4>4 DEF TimerOK
      <3>2. CASE e # self
        <4>1. timeout'[e] = timeout[e] /\ TimerOK(e)
          BY <2>3, <3>2 DEF Waits, Timers
        <4>2. \A d \in CPUs : ec'[d] = e => pc'[d] \in Timed
          BY <1>1, <3>2, <4>1 DEF TimerOK, Others, self
        <4> QED BY <1>1, <4>1, <4>2 DEF TimerOK, Elems
      <3> QED BY <3>1, <3>2
    <2>6. ASSUME NEW d \in CPUs PROVE DnOK(d)'
      BY <1>1, <1>2, <2>1 DEF Waits, Timers, DnOK, Others, Elems
    <2>7. \A e \in ECs : Unblocking(e) => Unblocking(e)'
      BY <1>0, <1>1 DEF Unblocking, Others
    <2>8. Wakeups'
      BY <1>1, <2>2, <2>3, <2>7 DEF Waits, Wakeups, Blocked
    <2> QED BY <2>5, <2>6, <2>8 DEF Waits, Timers
  <1> QED BY <1>5, <1>6

\* Ec::sys_finish takes the timeout of the wait off the list.
LEMMA SysFinishWaits ==
    ASSUME Inv, Calls, Waits, NEW c \in CPUs, SysFinish(c)
    PROVE  Waits'
  <1>0. ec[c] \in ECs
    BY SelfOK
  <1>1. /\ Others(c) /\ UNCHANGED <<ec, cont, callee, caller, want, scq, smq, tmo, arg>>
        /\ pc[c] \in {"sys_finish_success", "sys_finish_timeout", "sys_finish_aborted"}
        /\ pc'[c] = "ret_user_hypercall"
    BY DEF Inv, TypeOK, TypeCtl, Others, SysFinish, Goto, ecVars
  <1>2. /\ timeout'[ec[c]] = NoSm
        /\ \A e \in ECs : timeout'[e] \in {timeout[e], NoSm}
    <2>1. CASE pc[c] = "sys_finish_success"
      BY <1>0, <2>1 DEF SysFinish, Inv, TypeOK, TypeSm
    <2>2. CASE pc[c] # "sys_finish_success"
      BY <1>0, <1>1, <2>2 DEF SysFinish, Waits, Timers, TimerOK, Timed
    <2> QED BY <2>1, <2>2
  <1>3. \A m \in SMs : Elems(smq[m])' = Elems(smq[m])
    BY <1>1 DEF Elems
  <1>4. Timers'
    BY <1>1, <1>2, <1>3, TimersKept DEF Waits, Abroad, DnOK
  <1>5. Wakeups'
    BY <1>1, WakeupsKept DEF Waits, Waking
  <1> QED BY <1>4, <1>5 DEF Waits

\* A waiter leaves its queue with the continuation y; unless it got its
\* token its timeout is off the list.
LEMMA WakeWaits ==
    ASSUME Inv, Calls, Waits, NEW c \in CPUs, NEW r, UpFrom(c, r), NEW m \in SMs, NEW e \in ECs,
           e \in Elems(smq[m]), NEW y,
           \/ y = "sys_finish_success" /\ UNCHANGED timeout
           \/ /\ y = "sys_finish_timeout" /\ EcCpu[e] = c
              /\ timeout' = [timeout EXCEPT ![e] = NoSm],
           \A n \in SMs : n # m => smq'[n] = smq[n],
           Elems(smq'[m]) = Elems(smq[m]) \ {e},
           cont' = [cont EXCEPT ![e] = y], Call(c, "unblock_sc", e, r),
           UNCHANGED <<ec, callee, caller, want, scq, tmo>>
    PROVE  Waits'
  <1>0. cont[e] = "blocking"
    BY DEF Calls, Waiters
  <1>1. /\ cont'[e] = y
        /\ \A f \in ECs : f # e => cont'[f] = cont[f]
    BY DEF Inv, TypeOK, TypeEc
  <1>2. /\ Others(c) /\ pc'[c] = "unblock_sc" /\ arg'[c] = e
    BY DEF Inv, TypeOK, TypeCtl, Others, Call, Goto
  <1>3. pc[c] \notin Timed \cup Waking /\ ec[c] \in ECs
    BY DEF UpFrom, User, Interruptible, Timed, Waking, Inv, TypeOK, TypeEc
  <1>4. Abroad(c)
    BY <1>0, <1>1 DEF Abroad
  <1>5. \A f \in ECs : timeout'[f] \in {timeout[f], NoSm}
    BY DEF Inv, TypeOK, TypeSm
  <1>6. y # "sys_finish_success" => timeout'[e] = NoSm
    BY DEF Inv, TypeOK, TypeSm
  <1>7. timeout[ec[c]] = NoSm /\ timeout'[ec'[c]] = NoSm
    BY <1>3, <1>5 DEF Waits, Timers, TimerOK
  <1>8. \A f \in ECs, n \in SMs :
           cont'[f] = "blocking" /\ f \in Elems(smq[n]) => f \in Elems(smq[n])'
    <2>1. \A n \in SMs : Elems(smq[n])' = Elems(smq'[n])
      BY DEF Elems
    <2>2. y # "blocking"
      OBVIOUS
    <2> QED BY <1>1, <2>1, <2>2
  <1>9. Timers'
    <2>1. \A f \in ECs : timeout'[f] # NoSm =>
            \/ cont'[f] = cont[f]
            \/ cont[f] = "blocking" /\ cont'[f] = "sys_finish_success"
      BY <1>0, <1>1, <1>6
    <2> QED BY <1>2, <1>4, <1>5, <1>7, <1>8, <2>1, TimersKept DEF Waits, DnOK
  <1>10. Wakeups'
    BY <1>1, <1>2, <1>3, WakeupsKept DEF Waits, Waking
  <1> QED BY <1>9, <1>10 DEF Waits

\* Sm::up with a waiter.
LEMMA UpWakeWaits ==
    ASSUME Inv, Calls, Waits, NEW c \in CPUs, NEW M \in SUBSET SMs, NEW r, UpFrom(c, r),
           UpWake(c, M, r)
    PROVE  Waits'
  <1>1. PICK m \in M, e \in ECs :
               /\ e \in Elems(smq[m]) /\ smq[m] # <<>> /\ e = Head(smq[m])
               /\ \A n \in SMs : n # m => smq'[n] = smq[n]
               /\ smq'[m] = Tail(smq[m])
               /\ Elems(smq'[m]) = Elems(smq[m]) \ {e} /\ Distinct(smq'[m])
               /\ cont' = [cont EXCEPT ![e] = "sys_finish_success"]
               /\ Call(c, "unblock_sc", e, r)
    BY UpWakeQueue, Zenon
  <1>2. UNCHANGED <<ec, callee, caller, want, scq, tmo>> /\ UNCHANGED timeout
    BY DEF UpWake
  <1> QED BY <1>1, <1>2, WakeWaits

\* The hypercall timeout.
LEMMA SmTimeoutWaits ==
    ASSUME Inv, Calls, Waits, NEW c \in CPUs, SmTimeout(c)
    PROVE  Waits'
  <1>0. UNCHANGED <<ec, callee, caller, want, scq, tmo>> /\ Interruptible(c)
    BY DEF SmTimeout
  <1>1. PICK e \in ECs :
          /\ EcCpu[e] = c /\ timeout[e] # NoSm
          /\ timeout' = [timeout EXCEPT ![e] = NoSm]
          /\ IF Blocked(e)
             THEN /\ \E i \in 1 .. Len(smq[timeout[e]]) :
                       /\ smq[timeout[e]][i] = e
                       /\ smq' = [smq EXCEPT ![timeout[e]] = Remove(@, i)]
                  /\ cont' = [cont EXCEPT ![e] = "sys_finish_timeout"]
                  /\ Call(c, "unblock_sc", e, Resume(c))
             ELSE /\ Goto(c, Resume(c))
                  /\ UNCHANGED <<arg, ret, cont, smq>>
    BY DEF SmTimeout
  <1>2. CASE Blocked(e)
    <2>1. PICK i \in 1 .. Len(smq[timeout[e]]) :
               /\ smq[timeout[e]][i] = e
               /\ smq' = [smq EXCEPT ![timeout[e]] = Remove(@, i)]
      BY <1>1, <1>2
    <2>2. PICK m \in SMs : m = timeout[e]
      BY <1>1 DEF Inv, TypeOK, TypeSm
    <2>3. /\ e \in Elems(smq[m])
          /\ \A n \in SMs : n # m => smq'[n] = smq[n]
          /\ Elems(smq'[m]) = Elems(smq[m]) \ {e}
      BY <1>1, <2>1, <2>2, TimeoutQueue
    <2>4. UpFrom(c, Resume(c))
      BY <1>0 DEF UpFrom
    <2>5. /\ cont' = [cont EXCEPT ![e] = "sys_finish_timeout"]
          /\ Call(c, "unblock_sc", e, Resume(c))
          /\ EcCpu[e] = c /\ timeout' = [timeout EXCEPT ![e] = NoSm]
      BY <1>1, <1>2
    <2> QED BY <1>0, <2>3, <2>4, <2>5, WakeWaits
  <1>3. CASE ~Blocked(e)
    <2>1. Others(c) /\ pc'[c] = Resume(c) /\ UNCHANGED <<arg, ret, cont, smq>> /\ ec[c] \in ECs
      BY <1>1, <1>3 DEF Inv, TypeOK, TypeCtl, TypeEc, Others, Goto, SmTimeout
    <2>2. \A f \in ECs : timeout'[f] \in {timeout[f], NoSm}
      BY <1>1 DEF Inv, TypeOK, TypeSm
    <2>3. pc[c] \notin Timed \cup Waking /\ pc'[c] # "dn"
      BY <1>0, <2>1 DEF Interruptible, Timed, Waking, Resume
    <2>4. timeout'[ec'[c]] = NoSm
      BY <1>0, <2>1, <2>2, <2>3 DEF Waits, Timers, TimerOK
    <2>5. \A m \in SMs : Elems(smq[m])' = Elems(smq[m])
      BY <2>1 DEF Elems
    <2>6. Timers'
      BY <1>0, <2>1, <2>2, <2>3, <2>4, <2>5, TimersKept DEF Waits, Abroad, DnOK
    <2>7. Wakeups'
      BY <1>0, <2>1, <2>3, WakeupsKept DEF Waits
    <2> QED BY <2>6, <2>7 DEF Waits
  <1> QED BY <1>2, <1>3

\* Every step keeps Waits.
LEMMA NextWaits == Inv /\ Calls /\ Waits /\ [Next]_vars => Waits'
  <1> SUFFICES ASSUME Inv, Calls, Waits, [Next]_vars PROVE Waits'
    OBVIOUS
  <1>1. CASE UNCHANGED vars
    <2>1. UNCHANGED <<pc, arg, ec, cont, scq, smq, timeout, tmo>>
      BY <1>1 DEF vars, ctlVars, ecVars, smVars
    <2>2. Timers'
      BY <2>1 DEF Waits, Timers, TimerOK, DnOK, Elems
    <2>3. Wakeups'
      BY <2>1 DEF Waits, Wakeups, Unblocking, Blocked
    <2> QED BY <2>2, <2>3 DEF Waits
  <1>2. ASSUME NEW c \in CPUs, SchedStep(c) PROVE Waits'
    BY <1>2, ScheduleWaits, HandleRrqWaits, RequeueWaits, BudgetTimeoutWaits DEF SchedStep
  <1>3. ASSUME NEW c \in CPUs, EcStep(c) PROVE Waits'
    BY <1>3, ActivateWalkWaits, ActivateRunWaits, ActivateBlockScWaits, PickWaits,
       UnblockScWaits, UnblockLoopWaits, NotifyWaits, NamePortalWaits, CallWaits,
       HelpWaits, RecvWaits, RepliesWaits, RetWaits,
       SysCreateScWaits, NotifyCreatedWaits DEF EcStep, CallPortal, RaiseException
  <1>4. ASSUME NEW c \in CPUs, SmStep(c) PROVE Waits'
    <2>1. ASSUME SysUp(c) PROVE Waits'
      BY <2>1, UpCountWaits, UpWakeWaits DEF SysUp, UpFrom
    <2>2. ASSUME GsiUp(c) PROVE Waits'
      BY <2>2, UpCountWaits, UpWakeWaits, SmAssumption DEF GsiUp, UpFrom
    <2> QED BY <1>4, <2>1, <2>2, DnFastWaits, DnBlockWaits, DnBlockScWaits, SmTimeoutWaits,
               SysFinishWaits DEF SmStep
  <1> QED BY <1>1, <1>2, <1>3, <1>4 DEF Next

\* Waits holds at bootstrap: nobody waits.
LEMMA InitWaits == Init => Waits
  <1> SUFFICES ASSUME Init PROVE Waits
    OBVIOUS
  <1>1. /\ \A e \in ECs : timeout[e] = NoSm /\ scq[e] = <<>>
        /\ \A c \in CPUs : tmo[c] = NoSm
    BY DEF Init
  <1> QED BY <1>1 DEF Waits, Timers, TimerOK, DnOK, Wakeups

-----------------------------------------------------------------------------
(* Chains.                                                                 *)

\* f[0], f[1], ... f[n] are ECs of CPU c, each called by the next; rank
\* strictly decreases along them.
Chain(f, n, up, rank, c) ==
    /\ f \in [0 .. n -> ECs]
    /\ \A i \in 0 .. n : EcCpu[f[i]] = c
    /\ \A i \in 0 .. n - 1 : up[f[i]] = f[i + 1]
    /\ \A i, j \in 0 .. n : i < j => rank[f[i]] > rank[f[j]]

\* The EC that CPU c runs, or has come to on its way down a call chain.
First(c) == IF pc[c] = "activate" THEN arg[c] ELSE ec[c]

\* Where a chain of donations ends: at the EC that the walk began from, which
\* is the EC of the SC or a handler that is helped.
Ends(c, e) == /\ e = act[c] /\ e \in Local \cup {ScEc[cur[c]]}
              /\ e \in Local => caller[e] # NoEc

\* The donations of CPU c lead up the call chain.
PathOK(c, rank) == ~Between(c) =>
    \E f : /\ Chain(f, don[c], caller, rank, c)
           /\ f[0] = First(c) /\ Ends(c, f[don[c]])

\* A handler ranks above its caller: calls form no cycle.
Ranked(rank) == /\ rank \in [ECs -> Nat]
                /\ \A e \in ECs : caller[e] # NoEc => rank[e] > rank[caller[e]]

Chains == \E rank : Ranked(rank) /\ \A c \in CPUs : PathOK(c, rank)

\* A chain of one EC.
LEMMA ChainOne ==
    ASSUME NEW c, NEW e \in ECs, EcCpu[e] = c, NEW up, NEW rank
    PROVE  \E f : Chain(f, 0, up, rank, c) /\ f[0] = e
  <1>1. PICK f : f = [i \in 0 .. 0 |-> e]
    OBVIOUS
  <1>2. f \in [0 .. 0 -> ECs] /\ \A i \in 0 .. 0 : f[i] = e /\ i = 0
    BY <1>1
  <1>3. Chain(f, 0, up, rank, c)
    BY <1>2 DEF Chain
  <1> QED BY <1>2, <1>3

\* A chain grows by the EC that its first one calls.
LEMMA ChainCons ==
    ASSUME NEW c, NEW f, NEW n \in Nat, NEW up, NEW rank \in [ECs -> Nat],
           Chain(f, n, up, rank, c),
           NEW a \in ECs, EcCpu[a] = c, up[a] = f[0], rank[a] > rank[f[0]]
    PROVE  \E g : Chain(g, n + 1, up, rank, c) /\ g[0] = a /\ g[n + 1] = f[n]
  <1>1. PICK g : g = [i \in 0 .. n + 1 |-> IF i = 0 THEN a ELSE f[i - 1]]
    OBVIOUS
  <1>2. /\ g[0] = a /\ g[n + 1] = f[n]
        /\ \A i \in 0 .. n + 1 : i # 0 => i - 1 \in 0 .. n /\ g[i] = f[i - 1]
    BY <1>1
  <1>3. /\ f \in [0 .. n -> ECs] /\ \A i \in 0 .. n : f[i] \in ECs /\ EcCpu[f[i]] = c
        /\ \A i \in 0 .. n - 1 : up[f[i]] = f[i + 1]
        /\ \A i, j \in 0 .. n : i < j => rank[f[i]] > rank[f[j]]
    BY DEF Chain
  <1>4. g \in [0 .. n + 1 -> ECs]
    BY <1>1, <1>3
  <1>5. \A i \in 0 .. n + 1 : EcCpu[g[i]] = c
    BY <1>2, <1>3
  <1>6. ASSUME NEW i \in 0 .. (n + 1) - 1 PROVE up[g[i]] = g[i + 1]
    <2>1. CASE i = 0
      <3>1. i + 1 \in 0 .. n + 1 /\ i + 1 # 0 /\ (i + 1) - 1 = 0
        BY <2>1
      <3> QED BY <1>2, <2>1, <3>1
    <2>2. CASE i # 0
      <3>1. i \in 0 .. n + 1 /\ i - 1 \in 0 .. n - 1 /\ (i - 1) + 1 = i
        BY <2>2
      <3>2. i + 1 \in 0 .. n + 1 /\ i + 1 # 0 /\ (i + 1) - 1 = i
        BY <2>2
      <3>3. g[i] = f[i - 1] /\ g[i + 1] = f[i]
        BY <1>2, <2>2, <3>1, <3>2
      <3> QED BY <1>3, <3>1, <3>3
    <2> QED BY <2>1, <2>2
  <1>7. \A i \in 0 .. n : rank[a] > rank[f[i]]
    <2> SUFFICES ASSUME NEW i \in 0 .. n PROVE rank[a] > rank[f[i]]
      OBVIOUS
    <2>1. rank[a] \in Nat /\ rank[f[0]] \in Nat /\ rank[f[i]] \in Nat
      BY <1>3
    <2>2. i = 0 \/ rank[f[0]] > rank[f[i]]
      BY <1>3
    <2> QED BY <2>1, <2>2
  <1>8. ASSUME NEW i \in 0 .. n + 1, NEW j \in 0 .. n + 1, i < j PROVE rank[g[i]] > rank[g[j]]
    <2>1. j # 0 /\ j - 1 \in 0 .. n /\ g[j] = f[j - 1]
      BY <1>2, <1>8
    <2>2. CASE i = 0
      BY <1>2, <1>7, <2>1, <2>2
    <2>3. CASE i # 0
      <3>1. i - 1 \in 0 .. n /\ g[i] = f[i - 1] /\ i - 1 < j - 1
        BY <1>2, <1>8, <2>3
      <3> QED BY <1>3, <2>1, <3>1
    <2> QED BY <2>2, <2>3
  <1>9. Chain(g, n + 1, up, rank, c)
    BY <1>4, <1>5, <1>6, <1>8 DEF Chain
  <1> QED BY <1>2, <1>9

\* A chain without its first EC.
LEMMA ChainTail ==
    ASSUME NEW c, NEW f, NEW n \in Nat, n # 0, NEW up, NEW rank, Chain(f, n, up, rank, c)
    PROVE  \E g : /\ Chain(g, n - 1, up, rank, c) /\ g[0] = f[1] /\ g[n - 1] = f[n]
                  /\ \A i \in 0 .. n - 1 : rank[f[0]] > rank[g[i]]
  <1>1. PICK g : g = [i \in 0 .. n - 1 |-> f[i + 1]]
    OBVIOUS
  <1>2. /\ \A i \in 0 .. n - 1 : i + 1 \in 0 .. n /\ g[i] = f[i + 1]
        /\ n - 1 \in 0 .. n - 1 /\ 0 \in 0 .. n - 1 /\ (n - 1) + 1 = n /\ 0 + 1 = 1
    BY <1>1
  <1>3. /\ f \in [0 .. n -> ECs] /\ \A i \in 0 .. n : f[i] \in ECs /\ EcCpu[f[i]] = c
        /\ \A i \in 0 .. n - 1 : up[f[i]] = f[i + 1]
        /\ \A i, j \in 0 .. n : i < j => rank[f[i]] > rank[f[j]]
    BY DEF Chain
  <1>4. g \in [0 .. n - 1 -> ECs]
    BY <1>1, <1>2, <1>3
  <1>5. g[0] = f[1] /\ g[n - 1] = f[n]
    BY <1>2
  <1>6. \A i \in 0 .. n - 1 : EcCpu[g[i]] = c
    BY <1>2, <1>3
  <1>7. ASSUME NEW i \in 0 .. (n - 1) - 1 PROVE up[g[i]] = g[i + 1]
    <2>1. i \in 0 .. n - 1 /\ i + 1 \in 0 .. n - 1
      OBVIOUS
    <2>2. g[i] = f[i + 1] /\ g[i + 1] = f[(i + 1) + 1]
      BY <1>2, <2>1
    <2> QED BY <1>3, <2>1, <2>2
  <1>8. ASSUME NEW i \in 0 .. n - 1, NEW j \in 0 .. n - 1, i < j PROVE rank[g[i]] > rank[g[j]]
    <2>1. i + 1 \in 0 .. n /\ j + 1 \in 0 .. n /\ i + 1 < j + 1
      BY <1>8
    <2> QED BY <1>2, <1>3, <2>1
  <1>9. \A i \in 0 .. n - 1 : rank[f[0]] > rank[g[i]]
    <2> SUFFICES ASSUME NEW i \in 0 .. n - 1 PROVE rank[f[0]] > rank[g[i]]
      OBVIOUS
    <2>1. 0 \in 0 .. n /\ i + 1 \in 0 .. n /\ 0 < i + 1
      OBVIOUS
    <2> QED BY <1>2, <1>3, <2>1
  <1>10. Chain(g, n - 1, up, rank, c)
    BY <1>4, <1>6, <1>7, <1>8 DEF Chain
  <1> QED BY <1>5, <1>9, <1>10

\* A chain depends only on the links and ranks of its ECs.
LEMMA ChainSame ==
    ASSUME NEW c, NEW f, NEW n \in Nat, NEW up, NEW rank, Chain(f, n, up, rank, c),
           NEW up2, NEW rank2,
           \A i \in 0 .. n - 1 : up2[f[i]] = up[f[i]],
           \A i \in 0 .. n : rank2[f[i]] = rank[f[i]]
    PROVE  Chain(f, n, up2, rank2, c)
  BY DEF Chain

\* The donations of a CPU when its state and the caller links stay the same.
LEMMA PathSame ==
    ASSUME Inv, NEW rank, NEW d \in CPUs, PathOK(d, rank), ~Between(d)',
           \A e \in ECs : EcCpu[e] = d => caller'[e] = caller[e],
           don'[d] = don[d], act'[d] = act[d], ~Between(d), First(d)' = First(d),
           cur'[d] = cur[d]
    PROVE  PathOK(d, rank)'
  <1>1. don[d] \in Nat /\ cur[d] \in SCs
    BY DEF Inv, TypeOK, TypeEc, TypeSc
  <1>2. PICK f : /\ Chain(f, don[d], caller, rank, d)
                 /\ f[0] = First(d) /\ Ends(d, f[don[d]])
    BY DEF PathOK
  <1>3. \A i \in 0 .. don[d] : caller'[f[i]] = caller[f[i]]
    BY <1>2 DEF Chain
  <1>4. Chain(f, don[d], caller', rank, d)
    BY <1>1, <1>2, <1>3, ChainSame
  <1>5. Ends(d, f[don[d]])'
    BY <1>1, <1>2, <1>3 DEF Ends
  <1>6. Chain(f, don[d], caller, rank, d)'
    BY <1>4 DEF Chain
  <1> QED BY <1>2, <1>5, <1>6 DEF PathOK

\* The donations of the other CPUs.
OtherDon(c) == \A d \in CPUs \ {c} : don'[d] = don[d] /\ act'[d] = act[d] /\ cur'[d] = cur[d]

\* A step that leaves the caller links alone.
LEMMA ChainsKept ==
    ASSUME Inv, Chains, NEW c \in CPUs, Others(c), OtherDon(c), UNCHANGED caller,
           \A rank : Ranked(rank) /\ PathOK(c, rank) => PathOK(c, rank)'
    PROVE  Chains'
  <1>1. PICK rank : Ranked(rank) /\ \A d \in CPUs : PathOK(d, rank)
    BY DEF Chains
  <1>2. Ranked(rank)'
    BY <1>1 DEF Ranked
  <1>3. ASSUME NEW d \in CPUs, d # c PROVE PathOK(d, rank)'
    <2>1. CASE Between(d)
      BY <1>3, <2>1 DEF PathOK, Between, Others
    <2>2. CASE ~Between(d)
      <3>1. /\ ~Between(d)' /\ First(d)' = First(d) /\ don'[d] = don[d] /\ act'[d] = act[d]
            /\ cur'[d] = cur[d]
        BY <1>3, <2>2 DEF Between, First, Others, OtherDon
      <3> QED BY <1>1, <2>2, <3>1, PathSame
    <2> QED BY <2>1, <2>2
  <1> QED BY <1>1, <1>2, <1>3 DEF Chains

\* A step within the kernel on behalf of the same EC, or to the scheduler.
LEMMA QuietChains ==
    ASSUME Inv, Chains, NEW c \in CPUs, Others(c), UNCHANGED <<ec, don, act, caller, cur>>,
           \/ Between(c)'
           \/ ~Between(c) /\ pc[c] # "activate" /\ pc'[c] # "activate"
    PROVE  Chains'
  <1>1. ASSUME NEW rank, PathOK(c, rank) PROVE PathOK(c, rank)'
    <2>1. CASE Between(c)'
      BY <2>1 DEF PathOK
    <2>2. CASE ~Between(c)'
      BY <1>1, <2>2, PathSame DEF First
    <2> QED BY <2>1, <2>2
  <1> QED BY <1>1, ChainsKept DEF OtherDon

\* Scheduler::schedule.
LEMMA ScheduleChains ==
    ASSUME Inv, Chains, NEW c \in CPUs, NEW b \in BOOLEAN, Schedule(c, b), UNCHANGED <<ecVars, smVars>>
    PROVE  Chains'
  <1>1. Others(c) /\ UNCHANGED <<ec, don, act, caller, cur>>
    BY DEF Inv, TypeOK, TypeCtl, Others, Schedule, ReadyEnqueue, Goto, ecVars
  <1>2. \/ Between(c)'
        \/ ~Between(c) /\ pc[c] # "activate" /\ pc'[c] # "activate"
    BY DEF Inv, TypeOK, TypeCtl, Control, CpuOK, Handlers, Resumes, Between, Schedule, ReadyEnqueue, Goto, ecVars
  <1> QED BY <1>1, <1>2, QuietChains

\* The RRQ IPI.
LEMMA HandleRrqChains ==
    ASSUME Inv, Chains, NEW c \in CPUs, HandleRrq(c), UNCHANGED <<ecVars, smVars>>
    PROVE  Chains'
  <1>1. Others(c) /\ UNCHANGED <<ec, don, act, caller, cur>>
    BY DEF Inv, TypeOK, TypeCtl, Others, HandleRrq, Call, Goto, Resume, Interruptible, ecVars
  <1>2. \/ Between(c)'
        \/ ~Between(c) /\ pc[c] # "activate" /\ pc'[c] # "activate"
    BY DEF Inv, TypeOK, TypeCtl, Control, CpuOK, Handlers, Resumes, Between, HandleRrq, Call, Goto, Resume, Interruptible, ecVars
  <1> QED BY <1>1, <1>2, QuietChains

\* Scheduler::requeue.
LEMMA RequeueChains ==
    ASSUME Inv, Chains, NEW c \in CPUs, Requeue(c), UNCHANGED <<ecVars, smVars>>
    PROVE  Chains'
  <1>1. Others(c) /\ UNCHANGED <<ec, don, act, caller, cur>>
    BY DEF Inv, TypeOK, TypeCtl, Others, Requeue, ReadyEnqueue, Leave, Call, Goto, ctlVars, ecVars
  <1>2. \/ Between(c)'
        \/ ~Between(c) /\ pc[c] # "activate" /\ pc'[c] # "activate"
    BY DEF Inv, TypeOK, TypeCtl, Control, CpuOK, Handlers, Resumes, Between, Requeue, ReadyEnqueue, Leave, Call, Goto, ctlVars, ecVars
  <1> QED BY <1>1, <1>2, QuietChains

\* The budget timeout.
LEMMA BudgetTimeoutChains ==
    ASSUME Inv, Chains, NEW c \in CPUs, BudgetTimeout(c), UNCHANGED <<ecVars, smVars>>
    PROVE  Chains'
  <1>1. Others(c) /\ UNCHANGED <<ec, don, act, caller, cur>>
    BY DEF Inv, TypeOK, TypeCtl, Others, BudgetTimeout, Goto, Resume, Interruptible, ecVars
  <1>2. \/ Between(c)'
        \/ ~Between(c) /\ pc[c] # "activate" /\ pc'[c] # "activate"
    BY DEF Inv, TypeOK, TypeCtl, Control, CpuOK, Handlers, Resumes, Between, BudgetTimeout, Goto, Resume, Interruptible, ecVars
  <1> QED BY <1>1, <1>2, QuietChains

\* Ec::activate on a blocked EC.
LEMMA ActivateBlockScChains ==
    ASSUME Inv, Chains, NEW c \in CPUs, ActivateBlockSc(c)
    PROVE  Chains'
  <1>1. Others(c) /\ UNCHANGED <<ec, don, act, caller, cur>>
    BY DEF Inv, TypeOK, TypeCtl, Others, ActivateBlockSc, Leave, Call, Goto, scVars
  <1>2. \/ Between(c)'
        \/ ~Between(c) /\ pc[c] # "activate" /\ pc'[c] # "activate"
    BY DEF Inv, TypeOK, TypeCtl, Control, CpuOK, Handlers, Resumes, Between, ActivateBlockSc, Leave, Call, Goto, scVars
  <1> QED BY <1>1, <1>2, QuietChains

\* unblock_sc takes the lock.
LEMMA UnblockScChains ==
    ASSUME Inv, Chains, NEW c \in CPUs, UnblockSc(c)
    PROVE  Chains'
  <1>1. Others(c) /\ UNCHANGED <<ec, don, act, caller, cur>>
    BY DEF Inv, TypeOK, TypeCtl, Others, UnblockSc, Goto, ecVars, scVars
  <1>2. \/ Between(c)'
        \/ ~Between(c) /\ pc[c] # "activate" /\ pc'[c] # "activate"
    BY DEF Inv, TypeOK, TypeCtl, Control, CpuOK, Handlers, Resumes, Between, UnblockSc, Goto, ecVars, scVars
  <1> QED BY <1>1, <1>2, QuietChains

\* unblock_sc takes an SC off the queue.
LEMMA UnblockLoopChains ==
    ASSUME Inv, Chains, NEW c \in CPUs, UnblockLoop(c)
    PROVE  Chains'
  <1>1. Others(c) /\ UNCHANGED <<ec, don, act, caller, cur>>
    BY DEF Inv, TypeOK, TypeCtl, Others, UnblockLoop, ReadyEnqueue, ReleaseEnqueue, Leave, Call, Goto, ctlVars
  <1>2. \/ Between(c)'
        \/ ~Between(c) /\ pc[c] # "activate" /\ pc'[c] # "activate"
    BY DEF Inv, TypeOK, TypeCtl, Control, CpuOK, Handlers, Resumes, Between, UnblockLoop, ReadyEnqueue, ReleaseEnqueue, Leave, Call, Goto, ctlVars
  <1> QED BY <1>1, <1>2, QuietChains

\* unblock_sc sends the IPI.
LEMMA NotifyChains ==
    ASSUME Inv, Chains, NEW c \in CPUs, Notify(c)
    PROVE  Chains'
  <1>1. Others(c) /\ UNCHANGED <<ec, don, act, caller, cur>>
    BY DEF Inv, TypeOK, TypeCtl, Others, Notify, Goto, ecVars
  <1>2. \/ Between(c)'
        \/ ~Between(c) /\ pc[c] # "activate" /\ pc'[c] # "activate"
    BY DEF Inv, TypeOK, TypeCtl, Control, CpuOK, Handlers, Resumes, Between, Notify, Goto, ecVars
  <1> QED BY <1>1, <1>2, QuietChains

\* sys_create_sc.
LEMMA SysCreateScChains ==
    ASSUME Inv, Chains, NEW c \in CPUs, SysCreateSc(c)
    PROVE  Chains'
  <1>1. Others(c) /\ UNCHANGED <<ec, don, act, caller, cur>>
    BY DEF Inv, TypeOK, TypeCtl, Others, SysCreateSc, User, ReadyEnqueue, ReleaseEnqueue, Call, Goto, ecVars
  <1>2. \/ Between(c)'
        \/ ~Between(c) /\ pc[c] # "activate" /\ pc'[c] # "activate"
    BY DEF Inv, TypeOK, TypeCtl, Control, CpuOK, Handlers, Resumes, Between, SysCreateSc, User, ReadyEnqueue, ReleaseEnqueue, Call, Goto, ecVars
  <1> QED BY <1>1, <1>2, QuietChains

\* sys_create_sc sends the IPI.
LEMMA NotifyCreatedChains ==
    ASSUME Inv, Chains, NEW c \in CPUs, NotifyCreated(c)
    PROVE  Chains'
  <1>1. Others(c) /\ UNCHANGED <<ec, don, act, caller, cur>>
    BY DEF Inv, TypeOK, TypeCtl, Others, NotifyCreated, Leave, Call, Goto, ecVars
  <1>2. \/ Between(c)'
        \/ ~Between(c) /\ pc[c] # "activate" /\ pc'[c] # "activate"
    BY DEF Inv, TypeOK, TypeCtl, Control, CpuOK, Handlers, Resumes, Between, NotifyCreated, Leave, Call, Goto, ecVars
  <1> QED BY <1>1, <1>2, QuietChains

\* recv_user and recv_kern.
LEMMA RecvChains ==
    ASSUME Inv, Chains, NEW c \in CPUs, Recv(c)
    PROVE  Chains'
  <1>1. Others(c) /\ UNCHANGED <<ec, don, act, caller, cur>>
    BY DEF Inv, TypeOK, TypeCtl, Others, Recv, Goto, ecVars, scVars
  <1>2. \/ Between(c)'
        \/ ~Between(c) /\ pc[c] # "activate" /\ pc'[c] # "activate"
    BY DEF Inv, TypeOK, TypeCtl, Control, CpuOK, Handlers, Resumes, Between, Recv, Goto, ecVars, scVars
  <1> QED BY <1>1, <1>2, QuietChains

\* Sm::dn with tokens left.
LEMMA DnFastChains ==
    ASSUME Inv, Chains, NEW c \in CPUs, DnFast(c)
    PROVE  Chains'
  <1>1. Others(c) /\ UNCHANGED <<ec, don, act, caller, cur>>
    BY DEF Inv, TypeOK, TypeCtl, Others, DnFast, User, Goto, ecVars, scVars
  <1>2. \/ Between(c)'
        \/ ~Between(c) /\ pc[c] # "activate" /\ pc'[c] # "activate"
    BY DEF Inv, TypeOK, TypeCtl, Control, CpuOK, Handlers, Resumes, Between, DnFast, User, Goto, ecVars, scVars
  <1> QED BY <1>1, <1>2, QuietChains

\* Sm::dn without tokens.
LEMMA DnBlockChains ==
    ASSUME Inv, Chains, NEW c \in CPUs, DnBlock(c)
    PROVE  Chains'
  <1>1. Others(c) /\ UNCHANGED <<ec, don, act, caller, cur>>
    BY DEF Inv, TypeOK, TypeCtl, Others, DnBlock, User, Goto, scVars
  <1>2. \/ Between(c)'
        \/ ~Between(c) /\ pc[c] # "activate" /\ pc'[c] # "activate"
    BY DEF Inv, TypeOK, TypeCtl, Control, CpuOK, Handlers, Resumes, Between, DnBlock, User, Goto, scVars
  <1> QED BY <1>1, <1>2, QuietChains

\* The rest of Sm::dn.
LEMMA DnBlockScChains ==
    ASSUME Inv, Chains, NEW c \in CPUs, DnBlockSc(c)
    PROVE  Chains'
  <1>1. Others(c) /\ UNCHANGED <<ec, don, act, caller, cur>>
    BY DEF Inv, TypeOK, TypeCtl, Others, DnBlockSc, Goto, scVars
  <1>2. \/ Between(c)'
        \/ ~Between(c) /\ pc[c] # "activate" /\ pc'[c] # "activate"
    BY DEF Inv, TypeOK, TypeCtl, Control, CpuOK, Handlers, Resumes, Between, DnBlockSc, Goto, scVars
  <1> QED BY <1>1, <1>2, QuietChains

\* Ec::sys_finish.
LEMMA SysFinishChains ==
    ASSUME Inv, Chains, NEW c \in CPUs, SysFinish(c)
    PROVE  Chains'
  <1>1. Others(c) /\ UNCHANGED <<ec, don, act, caller, cur>>
    BY DEF Inv, TypeOK, TypeCtl, Others, SysFinish, Goto, ecVars, scVars
  <1>2. \/ Between(c)'
        \/ ~Between(c) /\ pc[c] # "activate" /\ pc'[c] # "activate"
    BY DEF Inv, TypeOK, TypeCtl, Control, CpuOK, Handlers, Resumes, Between, SysFinish, Goto, ecVars, scVars
  <1> QED BY <1>1, <1>2, QuietChains

\* Sm::up without a waiter.
LEMMA UpCountChains ==
    ASSUME Inv, Chains, NEW c \in CPUs, NEW M \in SUBSET SMs, NEW r, UpFrom(c, r), UpCount(c, M, r)
    PROVE  Chains'
  <1>1. Others(c) /\ UNCHANGED <<ec, don, act, caller, cur>>
    BY DEF Inv, TypeOK, TypeCtl, Others, UpFrom, UpCount, User, Interruptible, Resume, Goto, ecVars, scVars
  <1>2. \/ Between(c)'
        \/ ~Between(c) /\ pc[c] # "activate" /\ pc'[c] # "activate"
    BY DEF Inv, TypeOK, TypeCtl, Control, CpuOK, Handlers, Resumes, Between, UpFrom, UpCount, User, Interruptible, Resume, Goto, ecVars, scVars
  <1> QED BY <1>1, <1>2, QuietChains

\* Sm::up with a waiter.
LEMMA UpWakeChains ==
    ASSUME Inv, Chains, NEW c \in CPUs, NEW M \in SUBSET SMs, NEW r, UpFrom(c, r), UpWake(c, M, r)
    PROVE  Chains'
  <1>1. Others(c) /\ UNCHANGED <<ec, don, act, caller, cur>>
    BY DEF Inv, TypeOK, TypeCtl, Others, UpFrom, UpWake, User, Interruptible, Resume, Call, Goto, scVars
  <1>2. \/ Between(c)'
        \/ ~Between(c) /\ pc[c] # "activate" /\ pc'[c] # "activate"
    BY DEF Inv, TypeOK, TypeCtl, Control, CpuOK, Handlers, Resumes, Between, UpFrom, UpWake, User, Interruptible, Resume, Call, Goto, scVars
  <1> QED BY <1>1, <1>2, QuietChains

\* The hypercall timeout.
LEMMA SmTimeoutChains ==
    ASSUME Inv, Chains, NEW c \in CPUs, SmTimeout(c)
    PROVE  Chains'
  <1>1. Others(c) /\ UNCHANGED <<ec, don, act, caller, cur>>
    BY DEF Inv, TypeOK, TypeCtl, Others, SmTimeout, Interruptible, Resume, Call, Goto, scVars
  <1>2. \/ Between(c)'
        \/ ~Between(c) /\ pc[c] # "activate" /\ pc'[c] # "activate"
    BY DEF Inv, TypeOK, TypeCtl, Control, CpuOK, Handlers, Resumes, Between, SmTimeout, Interruptible, Resume, Call, Goto, scVars
  <1> QED BY <1>1, <1>2, QuietChains

\* User mode names a portal.
LEMMA NamePortalChains ==
    ASSUME Inv, Chains, NEW c \in CPUs, NEW p \in {"sys_ipc_call", "send_msg"}, NamePortal(c, p)
    PROVE  Chains'
  <1>1. Others(c) /\ UNCHANGED <<ec, don, act, caller, cur>>
    BY DEF Inv, TypeOK, TypeCtl, Others, NamePortal, User, Goto, scVars
  <1>2. \/ Between(c)'
        \/ ~Between(c) /\ pc[c] # "activate" /\ pc'[c] # "activate"
    BY DEF Inv, TypeOK, TypeCtl, Control, CpuOK, Handlers, Resumes, Between, NamePortal, User, Goto, scVars
  <1> QED BY <1>1, <1>2, QuietChains

\* A call that is given up.
LEMMA BailChains ==
    ASSUME Inv, Chains, NEW c \in CPUs, pc[c] \in {"sys_ipc_call", "send_msg"},
           NEW p \in {"ret_user_hypercall", "kill"}, Bail(c, p)
    PROVE  Chains'
  <1>1. Others(c) /\ UNCHANGED <<ec, don, act, caller, cur>>
    BY DEF Inv, TypeOK, TypeCtl, Others, Bail, Goto, scVars
  <1>2. \/ Between(c)'
        \/ ~Between(c) /\ pc[c] # "activate" /\ pc'[c] # "activate"
    BY DEF Inv, TypeOK, TypeCtl, Control, CpuOK, Handlers, Resumes, Between, Bail, Goto, scVars
  <1> QED BY <1>1, <1>2, QuietChains

\* A call whose handler is busy.
LEMMA EnterHelpChains ==
    ASSUME Inv, Chains, NEW c \in CPUs, pc[c] \in {"sys_ipc_call", "send_msg"},
           NEW s, NEW x, EnterHelp(c, s, x)
    PROVE  Chains'
  <1>1. Others(c) /\ UNCHANGED <<ec, don, act, caller, cur>>
    BY DEF Inv, TypeOK, TypeCtl, Others, EnterHelp, Goto, scVars
  <1>2. \/ Between(c)'
        \/ ~Between(c) /\ pc[c] # "activate" /\ pc'[c] # "activate"
    BY DEF Inv, TypeOK, TypeCtl, Control, CpuOK, Handlers, Resumes, Between, EnterHelp, Goto, scVars
  <1> QED BY <1>1, <1>2, QuietChains

\* ret_user_hypercall, ret_user_exception and idle.
LEMMA RetUserChains ==
    ASSUME Inv, Chains, NEW c \in CPUs, RetUser(c) \/ IdleLoop(c)
    PROVE  Chains'
  <1>1. Others(c) /\ UNCHANGED <<ec, don, act, caller, cur>>
    BY DEF Inv, TypeOK, TypeCtl, Others, RetUser, IdleLoop, Goto, scVars
  <1>2. \/ Between(c)'
        \/ ~Between(c) /\ pc[c] # "activate" /\ pc'[c] # "activate"
    BY DEF Inv, TypeOK, TypeCtl, Control, CpuOK, Handlers, Resumes, Between, RetUser, IdleLoop, Goto, scVars
  <1> QED BY <1>1, <1>2, QuietChains

\* The first EC of a chain that has just begun.
LEMMA FreshPath ==
    ASSUME Inv, NEW c \in CPUs, NEW rank, NEW e \in ECs, EcCpu[e] = c, pc'[c] = "activate",
           arg'[c] = e, don'[c] = 0, Ends(c, e)'
    PROVE  PathOK(c, rank)'
  <1>1. PICK f : Chain(f, 0, caller', rank, c) /\ f[0] = e
    BY ChainOne
  <1>2. Chain(f, 0, caller, rank, c)' /\ First(c)' = e
    BY <1>1 DEF Chain, First
  <1> QED BY <1>1, <1>2 DEF PathOK

\* The scheduler activates the EC of the SC it has chosen.
LEMMA PickChains ==
    ASSUME Inv, Chains, NEW c \in CPUs, Pick(c)
    PROVE  Chains'
  <1>0. PICK e : e = ScEc[ReadyHead(c)]
    OBVIOUS
  <1>1. ReadyHead(c) \in SCs /\ ScCpu(ReadyHead(c)) = c
    BY ReadyDel DEF Pick, Inv, TypeOK, ScInv, ScQueuedOnce
  <1>2. e \in ECs /\ EcCpu[e] = c /\ e \notin Local
    BY <1>0, <1>1, Constants, EcAssumption DEF ScCpu
  <1>3. /\ Others(c) /\ OtherDon(c) /\ UNCHANGED caller
        /\ pc'[c] = "activate" /\ arg'[c] = e /\ don'[c] = 0 /\ act'[c] = e /\ cur'[c] = ReadyHead(c)
    BY <1>0 DEF Inv, TypeOK, TypeCtl, TypeEc, TypeSc, Others, OtherDon, Pick, EnterActivate,
                Call, Goto
  <1>4. Ends(c, e)'
    BY <1>0, <1>2, <1>3 DEF Ends
  <1> QED BY <1>2, <1>3, <1>4, FreshPath, ChainsKept

\* A helper activates the handler it waits for.
LEMMA HelpChains ==
    ASSUME Inv, Calls, Chains, NEW c \in CPUs, Help(c)
    PROVE  Chains'
  <1>1. CASE sched[c]
    <2>1. Others(c) /\ UNCHANGED <<ec, don, act, caller, cur>> /\ pc[c] = "help" /\ pc'[c] = "schedule"
      BY <1>1 DEF Inv, TypeOK, TypeCtl, Others, Help, Goto, scVars
    <2> QED BY <2>1, QuietChains DEF Between
  <1>2. CASE ~sched[c]
    <2>0. PICK e : e = want[ec[c]]
      OBVIOUS
    <2>1. /\ Others(c) /\ OtherDon(c) /\ UNCHANGED caller /\ pc[c] = "help"
          /\ pc'[c] = "activate" /\ arg'[c] = e /\ don'[c] = 0 /\ act'[c] = e
      BY <1>2, <2>0 DEF Inv, TypeOK, TypeCtl, TypeEc, Others, OtherDon, Help, EnterActivate, Call,
                  Goto, scVars
    <2>2. e \in ECs /\ EcCpu[e] = c /\ e \in Local /\ caller[e] # NoEc
      BY <2>0, <2>1, SelfOK DEF Calls, AimOK, AtHelp, Inv, Control, CpuOK
    <2>3. Ends(c, e)'
      BY <2>1, <2>2 DEF Ends
    <2> QED BY <2>1, <2>2, <2>3, FreshPath, ChainsKept
  <1> QED BY <1>1, <1>2

\* A step down the call chain is one more donation.
LEMMA ActivateWalkChains ==
    ASSUME Inv, Calls, Chains, NEW c \in CPUs, ActivateWalk(c)
    PROVE  Chains'
  <1> DEFINE a == callee[arg[c]]
  <1>1. /\ Others(c) /\ OtherDon(c) /\ UNCHANGED <<caller, act, cur>> /\ pc[c] = "activate"
        /\ pc'[c] = "activate" /\ arg'[c] = a /\ don'[c] = don[c] + 1
    BY DEF Inv, TypeOK, TypeCtl, TypeEc, Others, OtherDon, ActivateWalk, scVars
  <1>2. /\ a # NoEc /\ arg[c] \in ECs /\ a \in ECs /\ caller[a] = arg[c] /\ EcCpu[a] = c
        /\ don[c] \in Nat /\ NoEc \notin ECs
    BY SelfOK, ZenonT(40) DEF ActivateWalk, Calls, LinkOK, Inv, Control, LinksOK, TypeOK, TypeEc
  <1> HIDE DEF a
  <1>3. ASSUME NEW rank, Ranked(rank), PathOK(c, rank) PROVE PathOK(c, rank)'
    <2>1. PICK f : /\ Chain(f, don[c], caller, rank, c)
                   /\ f[0] = First(c) /\ Ends(c, f[don[c]])
      BY <1>1, <1>3 DEF PathOK, Between
    <2>2. First(c) = arg[c] /\ First(c)' = a
      BY <1>1 DEF First
    <2>3. rank \in [ECs -> Nat] /\ rank[a] > rank[f[0]]
      BY <1>2, <1>3, <2>1, <2>2 DEF Ranked
    <2>4. PICK g : Chain(g, don[c] + 1, caller, rank, c) /\ g[0] = a /\ g[don[c] + 1] = f[don[c]]
      BY <1>2, <2>1, <2>2, <2>3, ChainCons
    <2>5. Chain(g, don[c], caller, rank, c)' /\ Ends(c, g[don[c]])'
      BY <1>1, <2>1, <2>4 DEF Chain, Ends
    <2> QED BY <2>2, <2>4, <2>5 DEF PathOK
  <1> QED BY <1>1, <1>3, ChainsKept

\* make_current runs the EC at the end of the walk.
LEMMA ActivateRunChains ==
    ASSUME Inv, Chains, NEW c \in CPUs, ActivateRun(c)
    PROVE  Chains'
  <1>1. /\ Others(c) /\ OtherDon(c) /\ UNCHANGED <<caller, don, act, cur>> /\ pc[c] = "activate"
        /\ ec'[c] = arg[c] /\ pc'[c] = cont[arg[c]] /\ arg[c] \in ECs
    BY DEF Inv, TypeOK, TypeCtl, TypeEc, Control, CpuOK, Others, OtherDon, ActivateRun,
           MakeCurrent, Leave, Call, Goto, scVars
  <1>2. pc'[c] \in Conts
    BY <1>1 DEF Inv, TypeOK, TypeEc
  <1>3. ~Between(c) /\ ~Between(c)' /\ First(c)' = First(c)
    BY <1>1, <1>2 DEF Between, First, Conts
  <1>4. ASSUME NEW rank, PathOK(c, rank) PROVE PathOK(c, rank)'
    BY <1>1, <1>3, <1>4, PathSame
  <1> QED BY <1>1, <1>4, ChainsKept

\* The other CPUs when an EC of CPU c changes its caller, and its rank.
LEMMA OtherPaths ==
    ASSUME Inv, NEW c \in CPUs, Others(c), OtherDon(c),
           \A e \in ECs : EcCpu[e] # c => caller'[e] = caller[e],
           NEW rank, NEW rank2, \A e \in ECs : EcCpu[e] # c => rank2[e] = rank[e],
           NEW d \in CPUs, d # c, PathOK(d, rank)
    PROVE  PathOK(d, rank2)'
  <1> SUFFICES ASSUME ~Between(d)' PROVE PathOK(d, rank2)'
    BY DEF PathOK
  <1>1. /\ ~Between(d) /\ First(d)' = First(d) /\ don'[d] = don[d] /\ act'[d] = act[d]
        /\ cur'[d] = cur[d]
        /\ don[d] \in Nat /\ cur[d] \in SCs
    BY DEF Between, First, Others, OtherDon, Inv, TypeOK, TypeEc, TypeSc
  <1>2. PICK f : /\ Chain(f, don[d], caller, rank, d)
                 /\ f[0] = First(d) /\ Ends(d, f[don[d]])
    BY <1>1 DEF PathOK
  <1>3. \A i \in 0 .. don[d] : caller'[f[i]] = caller[f[i]] /\ rank2[f[i]] = rank[f[i]]
    BY <1>2 DEF Chain
  <1>4. Chain(f, don[d], caller', rank2, d)
    BY <1>1, <1>2, <1>3, ChainSame
  <1>5. Ends(d, f[don[d]])'
    BY <1>1, <1>2, <1>3 DEF Ends
  <1>6. Chain(f, don[d], caller, rank2, d)'
    BY <1>1, <1>4 DEF Chain
  <1> QED BY <1>1, <1>2, <1>5, <1>6 DEF PathOK

\* Ec::rendezvous: the handler comes first, above its caller.
LEMMA RendezvousChains ==
    ASSUME Inv, Calls, Chains, NEW c \in CPUs, pc[c] \in {"sys_ipc_call", "send_msg"},
           NEW s \in Local, EcCpu[s] = c, NEW x, NEW y \in {"recv_user", "recv_kern"},
           Rendezvous(c, s, x, y)
    PROVE  Chains'
  <1> DEFINE self == ec[c]
  <1>0. /\ s \in ECs /\ self \in ECs /\ EcCpu[self] = c /\ don[c] \in Nat /\ NoEc \notin ECs
    BY SelfOK DEF Inv, TypeOK, TypeEc
  <1>1. /\ Others(c) /\ OtherDon(c) /\ cur' = cur /\ act' = act /\ pc'[c] = y /\ ec'[c] = s
        /\ don'[c] = don[c] + 1 /\ caller' = [caller EXCEPT ![s] = self] /\ cont[s] = "null"
    BY DEF Inv, TypeOK, TypeCtl, TypeEc, TypeSc, Others, OtherDon, Rendezvous, MakeCurrent,
           Leave, Call, Goto, scVars
  <1>2. s # self /\ caller[s] = NoEc /\ \A e \in ECs : caller[e] # s
    BY <1>0, <1>1 DEF Calls, LinkOK, RunOK, Away, Blocked
  <1>3. /\ caller'[s] = self
        /\ \A e \in ECs : e # s => caller'[e] = caller[e]
    BY <1>0, <1>1 DEF Inv, TypeOK, TypeEc
  <1>4. PICK rank : Ranked(rank) /\ \A d \in CPUs : PathOK(d, rank)
    BY DEF Chains
  <1>5. PICK rank2 : rank2 = [rank EXCEPT ![s] = rank[self] + 1]
    OBVIOUS
  <1> HIDE DEF self
  <1>6. /\ rank \in [ECs -> Nat] /\ rank2 \in [ECs -> Nat] /\ rank2[s] = rank[self] + 1
        /\ \A e \in ECs : e # s => rank2[e] = rank[e]
    BY <1>0, <1>4, <1>5 DEF Ranked
  <1>7. Ranked(rank2)'
    <2> SUFFICES ASSUME NEW e \in ECs, caller'[e] # NoEc PROVE rank2[e] > rank2[caller'[e]]
      BY <1>6 DEF Ranked
    <2>1. CASE e = s
      <3>1. rank2[caller'[e]] = rank[self] /\ rank2[e] = rank[self] + 1 /\ rank[self] \in Nat
        BY <1>0, <1>2, <1>3, <1>6, <2>1
      <3> QED BY <3>1
    <2>2. CASE e # s
      <3>1. caller'[e] = caller[e] /\ caller[e] # s /\ caller[e] \in ECs
        BY <1>2, <1>3, <2>2 DEF Inv, TypeOK, TypeEc
      <3>2. rank[e] > rank[caller[e]]
        BY <1>4, <2>2, <3>1 DEF Ranked
      <3> QED BY <1>6, <2>2, <3>1, <3>2
    <2> QED BY <2>1, <2>2
  <1>8. ASSUME NEW d \in CPUs, d # c PROVE PathOK(d, rank2)'
    <2>1. \A e \in ECs : EcCpu[e] # c => caller'[e] = caller[e] /\ rank2[e] = rank[e]
      BY <1>3, <1>6
    <2> QED BY <1>1, <1>4, <1>8, <2>1, OtherPaths
  <1>9. PathOK(c, rank2)'
    <2>1. First(c) = self /\ ~Between(c) /\ First(c)' = s
      BY <1>1 DEF First, Between, self
    <2>2. PICK f : /\ Chain(f, don[c], caller, rank, c)
                   /\ f[0] = self /\ Ends(c, f[don[c]])
      BY <1>4, <2>1 DEF PathOK
    <2>3. ASSUME NEW i \in 0 .. don[c] PROVE f[i] # s /\ f[i] \in ECs
      <3>1. CASE i = don[c]
        BY <1>0, <1>2, <2>2, <3>1 DEF Ends, Chain
      <3>2. CASE i # don[c]
        <4>1. i \in 0 .. don[c] - 1 /\ i + 1 \in 0 .. don[c]
          BY <1>0, <3>2
        <4>2. caller[f[i]] = f[i + 1] /\ f[i + 1] \in ECs /\ f[i] \in ECs
          BY <2>2, <4>1 DEF Chain
        <4> QED BY <1>0, <1>2, <4>2
      <3> QED BY <3>1, <3>2
    <2>4. Chain(f, don[c], caller', rank2, c)
      BY <1>0, <1>3, <1>6, <2>2, <2>3, ChainSame
    <2>5. rank2[s] > rank2[f[0]]
      BY <1>0, <1>2, <1>6, <2>2
    <2>6. PICK g : Chain(g, don[c] + 1, caller', rank2, c) /\ g[0] = s /\ g[don[c] + 1] = f[don[c]]
      BY <1>0, <1>3, <1>6, <2>2, <2>4, <2>5, ChainCons
    <2>7. Chain(g, don[c], caller, rank2, c)'
      BY <1>1, <2>6 DEF Chain
    <2>8. don[c] \in 0 .. don[c]
      BY <1>0
    <2>9. Ends(c, g[don[c]])'
      <3>1. g[don'[c]] = f[don[c]] /\ caller'[f[don[c]]] = caller[f[don[c]]]
        BY <1>1, <1>3, <2>3, <2>6, <2>8
      <3> QED BY <1>1, <2>2, <3>1 DEF Ends
    <2> QED BY <2>1, <2>6, <2>7, <2>9 DEF PathOK
  <1> QED BY <1>7, <1>8, <1>9 DEF Chains

\* Ec::reply to a caller: one donation less, or back to the SC's own EC.
LEMMA ReplyChains ==
    ASSUME Inv, Calls, Chains, NEW c \in CPUs, pc[c] \in {"user", "kill", "dead", "blocking"},
           NEW x, NEW k, caller[ec[c]] # NoEc,
           k \in {cont[caller[ec[c]]], "sys_finish_aborted", "dead"}, Reply(c, x, k)
    PROVE  Chains'
  <1> DEFINE self == ec[c]
             p == caller[ec[c]]
  <1>0. /\ self \in ECs /\ EcCpu[self] = c /\ NoEc \notin ECs /\ p \in ECs /\ EcCpu[p] = c
        /\ don[c] \in Nat /\ cur[c] \in SCs
    BY SelfOK DEF Inv, TypeOK, TypeEc, TypeSc
  <1>1. cont[p] \in {"ret_user_hypercall", "ret_user_exception"} /\ callee[p] = self
    BY <1>0 DEF Calls, LinkOK
  <1>2. /\ Others(c) /\ OtherDon(c) /\ cur' = cur /\ caller' = [caller EXCEPT ![self] = NoEc]
        /\ \/ don[c] # 0 /\ don'[c] = don[c] - 1 /\ act'[c] = act[c] /\ ec'[c] = p /\ pc'[c] = k
           \/ don'[c] = 0 /\ act'[c] = ScEc[cur[c]] /\ pc'[c] = "activate" /\ arg'[c] = ScEc[cur[c]]
    BY <1>0 DEF Inv, TypeOK, TypeCtl, TypeEc, TypeSc, Others, OtherDon, Reply, MakeCurrent,
                EnterActivate, Leave, Call, Goto, scVars
  <1>3. /\ caller'[self] = NoEc
        /\ \A e \in ECs : e # self => caller'[e] = caller[e]
    BY <1>0, <1>2 DEF Inv, TypeOK, TypeEc
  <1>4. PICK rank : Ranked(rank) /\ \A d \in CPUs : PathOK(d, rank)
    BY DEF Chains
  <1>5. pc'[c] # "activate" => pc'[c] = k /\ ~Between(c)'
    BY <1>1, <1>2 DEF Between
  <1>k. k # "activate"
    BY <1>1
  <1>a. First(c) = self /\ ~Between(c)
    BY DEF First, Between
  <1> HIDE DEF self
  <1>6. Ranked(rank)'
    BY <1>3, <1>4 DEF Ranked
  <1>7. ASSUME NEW d \in CPUs, d # c PROVE PathOK(d, rank)'
    <2>1. \A e \in ECs : EcCpu[e] # c => caller'[e] = caller[e]
      BY <1>0, <1>3
    <2> QED BY <1>2, <1>4, <1>7, <2>1, OtherPaths
  <1>8. PathOK(c, rank)'
    <2>1. CASE don[c] # 0 /\ don'[c] = don[c] - 1 /\ act'[c] = act[c] /\ ec'[c] = p /\ pc'[c] = k
      <3>1. PICK f : /\ Chain(f, don[c], caller, rank, c)
                     /\ f[0] = self /\ Ends(c, f[don[c]])
        BY <1>4, <1>a DEF PathOK
      <3>2. f[1] = p /\ First(c)' = p
        <4>1. 0 \in 0 .. don[c] - 1 /\ 0 + 1 = 1
          BY <1>0, <2>1
        <4>2. caller[f[0]] = f[1]
          BY <3>1, <4>1 DEF Chain
        <4> QED BY <1>k, <2>1, <3>1, <4>2 DEF First, self
      <3>3. PICK g : /\ Chain(g, don[c] - 1, caller, rank, c)
                     /\ g[0] = f[1] /\ g[don[c] - 1] = f[don[c]]
                     /\ \A i \in 0 .. don[c] - 1 : rank[f[0]] > rank[g[i]]
        BY <1>0, <2>1, <3>1, ChainTail
      <3>4. ASSUME NEW i \in 0 .. don[c] - 1 PROVE g[i] # self /\ g[i] \in ECs
        <4>1. g[i] \in ECs
          BY <3>3 DEF Chain
        <4>2. rank[self] \in Nat /\ rank[self] > rank[g[i]]
          BY <1>0, <1>4, <3>1, <3>3 DEF Ranked
        <4> QED BY <4>1, <4>2
      <3>5. don[c] - 1 \in Nat /\ \A i \in 0 .. (don[c] - 1) - 1 : i \in 0 .. don[c] - 1
        BY <1>0, <2>1
      <3>6. Chain(g, don[c] - 1, caller', rank, c)
        <4>1. \A i \in 0 .. (don[c] - 1) - 1 : caller'[g[i]] = caller[g[i]]
          BY <1>3, <3>4, <3>5
        <4> QED BY <3>3, <3>5, <4>1, ChainSame
      <3>7. Chain(g, don[c], caller, rank, c)'
        BY <2>1, <3>6 DEF Chain
      <3>8. Ends(c, g[don[c]])'
        <4>1. don[c] - 1 \in 0 .. don[c] - 1
          BY <3>5
        <4>2. g[don'[c]] = f[don[c]] /\ f[don[c]] # self /\ f[don[c]] \in ECs
          BY <2>1, <3>3, <3>4, <4>1
        <4> QED BY <1>2, <1>3, <2>1, <3>1, <4>2 DEF Ends
      <3> QED BY <3>2, <3>3, <3>7, <3>8 DEF PathOK
    <2>2. CASE don'[c] = 0 /\ act'[c] = ScEc[cur[c]] /\ pc'[c] = "activate" /\ arg'[c] = ScEc[cur[c]]
      <3>0. PICK e : e = ScEc[cur[c]]
        OBVIOUS
      <3>1. e \in ECs /\ EcCpu[e] = c /\ e \notin Local
        BY <1>0, <3>0, Constants, EcAssumption DEF Inv, Control, CpuOK, ScCpu
      <3>2. Ends(c, e)'
        BY <1>2, <2>2, <3>0, <3>1 DEF Ends
      <3> QED BY <2>2, <3>0, <3>1, <3>2, FreshPath
    <2> QED BY <1>2, <2>1, <2>2
  <1> QED BY <1>6, <1>7, <1>8 DEF Chains

\* Ec::reply without a caller ends in the scheduler.
LEMMA ReplyNobodyChains ==
    ASSUME Inv, Chains, NEW c \in CPUs, NEW x, NEW k, caller[ec[c]] = NoEc, Reply(c, x, k)
    PROVE  Chains'
  <1>1. Others(c) /\ UNCHANGED <<ec, don, act, caller, cur>> /\ pc'[c] = "schedule_blocked"
    BY DEF Inv, TypeOK, TypeCtl, Others, Reply, Goto, scVars
  <1> QED BY <1>1, QuietChains DEF Between

\* Every step keeps Chains.
LEMMA NextChains == Inv /\ Calls /\ Chains /\ [Next]_vars => Chains'
  <1> SUFFICES ASSUME Inv, Calls, Chains, [Next]_vars PROVE Chains'
    OBVIOUS
  <1>1. CASE UNCHANGED vars
    <2>1. UNCHANGED <<pc, arg, ec, caller, don, act, cur>>
      BY <1>1 DEF vars, ctlVars, ecVars, scVars
    <2>2. PICK rank : Ranked(rank) /\ \A d \in CPUs : PathOK(d, rank)
      BY DEF Chains
    <2>3. Ranked(rank)'
      BY <2>1, <2>2 DEF Ranked
    <2>4. ASSUME NEW d \in CPUs PROVE PathOK(d, rank)'
      BY <2>1, <2>2, <2>4, PathSame DEF PathOK, Between, First
    <2> QED BY <2>3, <2>4 DEF Chains
  <1>2. ASSUME NEW c \in CPUs, SchedStep(c) PROVE Chains'
    BY <1>2, ScheduleChains, HandleRrqChains, RequeueChains, BudgetTimeoutChains DEF SchedStep
  <1>3. ASSUME NEW c \in CPUs, EcStep(c) PROVE Chains'
    <2>0. want[ec[c]] \in Local \cup {NoEc}
      BY <1>3, SelfOK
    <2>1. ASSUME SysIpcCall(c) \/ SendMsg(c) PROVE Chains'
      BY <2>0, <2>1, BailChains, RendezvousChains, EnterHelpChains DEF SysIpcCall, SendMsg
    <2>2. ASSUME SysIpcReply(c) \/ Kill(c) PROVE Chains'
      BY <2>2, ReplyChains, ReplyNobodyChains DEF SysIpcReply, Kill, User
    <2> QED BY <1>3, <2>1, <2>2, ActivateWalkChains, ActivateRunChains, ActivateBlockScChains,
       PickChains, UnblockScChains, UnblockLoopChains, NotifyChains, NamePortalChains,
       HelpChains, RecvChains, RetUserChains, SysCreateScChains, NotifyCreatedChains
       DEF EcStep, CallPortal, RaiseException
  <1>4. ASSUME NEW c \in CPUs, SmStep(c) PROVE Chains'
    <2>1. ASSUME SysUp(c) PROVE Chains'
      BY <2>1, UpCountChains, UpWakeChains DEF SysUp, UpFrom
    <2>2. ASSUME GsiUp(c) PROVE Chains'
      BY <2>2, UpCountChains, UpWakeChains, SmAssumption DEF GsiUp, UpFrom
    <2> QED BY <1>4, <2>1, <2>2, DnFastChains, DnBlockChains, DnBlockScChains, SmTimeoutChains,
               SysFinishChains DEF SmStep
  <1> QED BY <1>1, <1>2, <1>3, <1>4 DEF Next

\* Chains holds at bootstrap, where every CPU runs its idle EC.
LEMMA InitChains == Init => Chains
  <1> SUFFICES ASSUME Init PROVE Chains
    OBVIOUS
  <1>1. PICK rank : rank = [e \in ECs |-> 0]
    OBVIOUS
  <1>2. Ranked(rank)
    BY <1>1 DEF Init, Ranked
  <1>3. ASSUME NEW c \in CPUs PROVE PathOK(c, rank)
    <2>1. /\ pc[c] = "schedule" /\ don[c] = 0 /\ act[c] = ec[c]
          /\ ec[c] = ScEc[IdleSc[c]] /\ cur[c] = IdleSc[c]
      BY DEF Init
    <2>2. IdleSc[c] \in SCs /\ ec[c] \in ECs /\ EcCpu[ec[c]] = c /\ ec[c] \notin Local
      <3>1. IdleSc[c] \in SCs /\ EcCpu[ScEc[IdleSc[c]]] = c
        BY SchedAssumption
      <3> QED BY <2>1, <3>1, Constants, EcAssumption
    <2>3. PICK f : Chain(f, 0, caller, rank, c) /\ f[0] = ec[c]
      <3>1. PICK e \in ECs : e = ec[c] /\ EcCpu[e] = c
        BY <2>2
      <3>2. \E f : Chain(f, 0, caller, rank, c) /\ f[0] = e
        BY <3>1, ChainOne
      <3> QED BY <3>1, <3>2
    <2> QED BY <2>1, <2>2, <2>3 DEF PathOK, First, Ends
  <1> QED BY <1>2, <1>3 DEF Chains

-----------------------------------------------------------------------------
(* Kept.                                                                   *)

\* The SC is out of work.
Out(s) == cont[ScEc[s]] \in {"dead", "null"}

\* No SC gets lost; the one a CPU has just put away is queued or out of work.
Kept == /\ NoScLost
        /\ \A c \in CPUs : Between(c) => Queued(cur[c]) \/ Out(cur[c])

\* The queues only grow.
Grows == \A r \in SCs : (InReady(r) => InReady(r)') /\ (Queued(r) => Queued(r)')

\* An EC with an SC that died, or returned without a caller, stays that way.
OutStays == \A e \in ECs : e \notin Local /\ cont[e] \in {"dead", "null"} =>
                cont'[e] \in {"dead", "null"}

\* The parts of Inv about the queues, and the current SC.
LEMMA QueueFacts ==
    ASSUME Inv, NEW c \in CPUs
    PROVE  /\ ReadyPlaced /\ ReleasePlaced /\ WaitPlaced /\ OnePlace /\ TypeSc /\ TypeEc
           /\ cur[c] \in SCs /\ ScCpu(cur[c]) = c
           /\ ~Between(c) => /\ ~Queued(cur[c]) /\ ~InReady(cur[c]) /\ ~InRelease(cur[c])
                             /\ \A e \in ECs : ~WaitsOn(cur[c], e)
  <1>1. /\ ReadyPlaced /\ ReleasePlaced /\ WaitPlaced /\ OnePlace /\ TypeSc /\ TypeEc
        /\ cur[c] \in SCs /\ ScCpu(cur[c]) = c
    BY DEF Inv, ScInv, ScQueuedOnce, TypeOK, TypeSc, Control, CpuOK
  <1>2. ~Between(c) => ~Queued(cur[c])
    BY DEF Inv, ScInv, RunningNotQueued, Between
  <1> QED BY <1>1, <1>2 DEF Queued

\* A step that leaves the queues alone.
LEMMA GrowsSame ==
    ASSUME Inv, UNCHANGED <<ready, release, scq>>
    PROVE  Grows
  BY ReadySame, ReleaseSame, WaitSame DEF Inv, ScInv, ScQueuedOnce, Grows, Queued

\* Scheduler::schedule puts the current SC back into the ready queue.
LEMMA ScheduleGrows ==
    ASSUME Inv, NEW c \in CPUs, Schedule(c, FALSE), UNCHANGED scq
    PROVE  Grows /\ InReady(cur[c])' /\ cur' = cur
  <1>1. PICK l \in BOOLEAN : ReadyEnqueue(c, cur[c], l, FALSE)
    BY DEF Schedule
  <1>2. cur' = cur /\ release' = release /\ ~Between(c)
    BY DEF Schedule, Between
  <1>3. PICK s \in SCs : s = cur[c] /\ ScCpu(s) = c /\ ~InReady(s)
    BY <1>2, QueueFacts
  <1>4. \A r \in SCs : InReady(r)' <=> InReady(r) \/ r = s
    BY <1>1, <1>3, QueueFacts, ReadyAdd
  <1>5. /\ \A r \in SCs : InRelease(r)' <=> InRelease(r)
        /\ \A r \in SCs, f \in ECs : WaitsOn(r, f)' <=> WaitsOn(r, f)
    BY <1>2, QueueFacts, ReleaseSame, WaitSame
  <1>6. InReady(cur[c])'
    BY <1>2, <1>3, <1>4 DEF InReady, ScCpu
  <1> QED BY <1>2, <1>4, <1>5, <1>6 DEF Grows, Queued

\* Scheduler::requeue moves an SC from the release queue to the ready queue.
LEMMA RequeueGrows ==
    ASSUME Inv, NEW c \in CPUs, Requeue(c), UNCHANGED scq
    PROVE  Grows
  <1>1. CASE release[c] = <<>>
    BY <1>1, GrowsSame DEF Requeue
  <1>2. CASE release[c] # <<>>
    <2>1. PICK s : s = Head(release[c])
      OBVIOUS
    <2>2. /\ release' = [release EXCEPT ![c] = Tail(@)]
          /\ ReadyEnqueue(c, s, left[s], sched[c])
      BY <1>2, <2>1 DEF Requeue
    <2>3. /\ s \in SCs /\ InRelease(s) /\ ScCpu(s) = c
          /\ \A r \in SCs : InRelease(r)' <=> InRelease(r) /\ r # s
      BY <1>2, <2>1, <2>2, QueueFacts, ReleaseDel
    <2>4. ~InReady(s)
      BY <2>3, QueueFacts DEF OnePlace
    <2>5. \A r \in SCs : InReady(r)' <=> InReady(r) \/ r = s
      BY <2>2, <2>3, <2>4, QueueFacts, ReadyAdd
    <2>6. \A r \in SCs, f \in ECs : WaitsOn(r, f)' <=> WaitsOn(r, f)
      BY QueueFacts, WaitSame
    <2> QED BY <2>3, <2>5, <2>6 DEF Grows, Queued
  <1> QED BY <1>1, <1>2

\* The current SC starts to wait for an EC.
LEMMA BlockGrows ==
    ASSUME Inv, NEW c \in CPUs, ~Between(c), NEW e \in ECs, EcCpu[e] = c,
           scq' = [scq EXCEPT ![e] = Append(@, cur[c])], UNCHANGED <<ready, release, cur>>
    PROVE  Grows /\ Queued(cur[c])'
  <1>1. PICK s \in SCs : s = cur[c] /\ ScCpu(s) = c /\ ~WaitsOn(s, e)
    BY QueueFacts
  <1>2. \A r \in SCs, f \in ECs : WaitsOn(r, f)' <=> WaitsOn(r, f) \/ (r = s /\ f = e)
    BY <1>1, QueueFacts, WaitAdd
  <1>3. /\ \A r \in SCs : InReady(r)' <=> InReady(r)
        /\ \A r \in SCs : InRelease(r)' <=> InRelease(r)
    BY QueueFacts, ReadySame, ReleaseSame
  <1>4. Grows
    BY <1>2, <1>3 DEF Grows, Queued
  <1>5. Queued(s)'
    BY <1>1, <1>2 DEF Queued
  <1>6. Queued(cur[c])'
    BY <1>1, <1>5 DEF Queued, InReady, InRelease, WaitsOn, ScCpu
  <1> QED BY <1>4, <1>6

\* unblock_sc moves an SC to the ready queue or to a release queue.
LEMMA UnblockGrows ==
    ASSUME Inv, NEW c \in CPUs, UnblockLoop(c)
    PROVE  Grows
  <1>0. arg[c] \in ECs
    BY DEF Inv, Control, CpuOK, UnblockLoop
  <1>1. CASE scq[arg[c]] = <<>>
    BY <1>1, GrowsSame DEF UnblockLoop
  <1>2. CASE scq[arg[c]] # <<>>
    <2>0. PICK e \in ECs : e = arg[c]
      BY <1>0
    <2>1. PICK s : s = Head(scq[e])
      OBVIOUS
    <2>2. /\ scq' = [scq EXCEPT ![e] = Tail(@)]
          /\ \/ /\ ScCpu(s) = c /\ UNCHANGED release
                /\ ReadyEnqueue(c, s, left[s], sched[c])
             \/ ReleaseEnqueue(s) /\ UNCHANGED ready
      BY <1>2, <2>0, <2>1 DEF UnblockLoop
    <2>3. /\ s \in SCs /\ WaitsOn(s, e)
          /\ \A r \in SCs, f \in ECs : WaitsOn(r, f)' <=> WaitsOn(r, f) /\ ~(r = s /\ f = e)
      BY <1>2, <2>0, <2>1, <2>2, QueueFacts, WaitDel
    <2>4. ~InReady(s) /\ ~InRelease(s)
      BY <2>3, QueueFacts DEF OnePlace
    <2>5. CASE ScCpu(s) = c /\ UNCHANGED release /\ ReadyEnqueue(c, s, left[s], sched[c])
      <3>1. /\ \A r \in SCs : InReady(r)' <=> InReady(r) \/ r = s
            /\ \A r \in SCs : InRelease(r)' <=> InRelease(r)
        BY <2>3, <2>4, <2>5, QueueFacts, ReadyAdd, ReleaseSame
      <3> QED BY <2>3, <3>1 DEF Grows, Queued
    <2>6. CASE ReleaseEnqueue(s) /\ UNCHANGED ready
      <3>1. /\ \A r \in SCs : InReady(r)' <=> InReady(r)
            /\ \A r \in SCs : InRelease(r)' <=> InRelease(r) \/ r = s
        BY <2>3, <2>4, <2>6, QueueFacts, ReleaseAdd, ReadySame
      <3> QED BY <2>3, <3>1 DEF Grows, Queued
    <2> QED BY <2>2, <2>5, <2>6
  <1> QED BY <1>1, <1>2

\* sys_create_sc makes the new SC ready.
LEMMA CreateGrows ==
    ASSUME Inv, NEW c \in CPUs, SysCreateSc(c)
    PROVE  Grows /\ \A s \in created' : s \in created \/ (s \in SCs /\ Queued(s)')
  <1>1. PICK s \in SCs \ created :
          /\ created' = created \cup {s}
          /\ IF ScCpu(s) = c
             THEN ReadyEnqueue(c, s, left[s], sched[c]) /\ UNCHANGED release
             ELSE ReleaseEnqueue(s) /\ UNCHANGED ready
    BY DEF SysCreateSc
  <1>2. UNCHANGED scq
    BY DEF SysCreateSc, ecVars
  <1>3. ~InReady(s) /\ ~InRelease(s)
    BY DEF Inv, ScInv, QueuedCreated, Queued
  <1>4. \A r \in SCs, f \in ECs : WaitsOn(r, f)' <=> WaitsOn(r, f)
    BY <1>2, QueueFacts, WaitSame
  <1>5. CASE ScCpu(s) = c
    <2>1. /\ \A r \in SCs : InReady(r)' <=> InReady(r) \/ r = s
          /\ \A r \in SCs : InRelease(r)' <=> InRelease(r)
      BY <1>1, <1>3, <1>5, QueueFacts, ReadyAdd, ReleaseSame
    <2> QED BY <1>1, <1>4, <2>1 DEF Grows, Queued
  <1>6. CASE ScCpu(s) # c
    <2>1. /\ \A r \in SCs : InReady(r)' <=> InReady(r)
          /\ \A r \in SCs : InRelease(r)' <=> InRelease(r) \/ r = s
      BY <1>1, <1>3, <1>6, QueueFacts, ReleaseAdd, ReadySame
    <2> QED BY <1>1, <1>4, <2>1 DEF Grows, Queued
  <1> QED BY <1>5, <1>6

\* A step that keeps every queued SC queued and the current SC current.
LEMMA KeptGrows ==
    ASSUME Inv, Kept, NEW c \in CPUs, Others(c), Grows, OutStays, UNCHANGED cur,
           \A s \in created' : s \in created \/ (s \in SCs /\ Queued(s)'),
           Between(c)' => Between(c) \/ Queued(cur[c])' \/ Out(cur[c])'
    PROVE  Kept'
  <1>1. \A s \in SCs : Out(s) => Out(s)'
    BY Constants, EcAssumption DEF Out, OutStays
  <1>2. created \subseteq SCs /\ \A d \in CPUs : cur[d] \in SCs
    BY DEF Inv, TypeOK, TypeSc
  <1>3. NoScLost'
    <2> SUFFICES ASSUME NEW s \in created' PROVE Queued(s)' \/ cur'[ScCpu(s)] = s \/ Out(s)'
      BY DEF NoScLost, Out, ScCpu
    <2>1. CASE s \in created
      <3>1. Queued(s) \/ cur[ScCpu(s)] = s \/ Out(s)
        BY <2>1 DEF Kept, NoScLost, Out
      <3> QED BY <1>1, <1>2, <2>1, <3>1 DEF Grows
    <2> QED BY <2>1
  <1>4. ASSUME NEW d \in CPUs, Between(d)' PROVE Queued(cur[d])' \/ Out(cur[d])'
    <2>1. PICK s \in SCs : s = cur[d]
      BY <1>2
    <2>2. Queued(s)' <=> Queued(cur[d])'
      BY <2>1 DEF Queued, InReady, InRelease, WaitsOn, ScCpu
    <2>3. Out(s)' <=> Out(cur[d])'
      BY <2>1 DEF Out
    <2>4. CASE Between(d)
      <3>1. Queued(s) \/ Out(s)
        BY <2>1, <2>4 DEF Kept
      <3> QED BY <1>1, <2>2, <2>3, <3>1 DEF Grows
    <2>5. CASE ~Between(d)
      <3>1. d = c
        BY <1>4, <2>5 DEF Between, Others
      <3> QED BY <1>4, <2>5, <3>1
    <2> QED BY <2>4, <2>5
  <1> QED BY <1>3, <1>4 DEF Kept

\* Scheduler::schedule, the SC being put away.
LEMMA ScheduleBlockedKept ==
    ASSUME Inv, Kept, NEW c \in CPUs, Schedule(c, TRUE), UNCHANGED <<ecVars, smVars>>
    PROVE  Kept'
  <1>1. Others(c) /\ UNCHANGED <<cont, ready, release, scq, cur, created>>
    BY DEF Inv, TypeOK, TypeCtl, TypeEc, Others, Schedule, Goto, ecVars
  <1>2. Between(c)' => Between(c)
    BY DEF Inv, TypeOK, TypeCtl, TypeEc, Conts, Control, CpuOK, Handlers, Resumes, Between, Schedule, Goto, ecVars
  <1>3. Grows
    BY <1>1, GrowsSame
  <1> QED BY <1>1, <1>2, <1>3, KeptGrows DEF OutStays

\* The RRQ IPI.
LEMMA HandleRrqKept ==
    ASSUME Inv, Kept, NEW c \in CPUs, HandleRrq(c), UNCHANGED <<ecVars, smVars>>
    PROVE  Kept'
  <1>1. Others(c) /\ UNCHANGED <<cont, ready, release, scq, cur, created>>
    BY DEF Inv, TypeOK, TypeCtl, TypeEc, Others, HandleRrq, Call, Goto, Resume, Interruptible, ecVars
  <1>2. Between(c)' => Between(c)
    BY DEF Inv, TypeOK, TypeCtl, TypeEc, Conts, Control, CpuOK, Handlers, Resumes, Between, HandleRrq, Call, Goto, Resume, Interruptible, ecVars
  <1>3. Grows
    BY <1>1, GrowsSame
  <1> QED BY <1>1, <1>2, <1>3, KeptGrows DEF OutStays

\* The budget timeout.
LEMMA BudgetTimeoutKept ==
    ASSUME Inv, Kept, NEW c \in CPUs, BudgetTimeout(c), UNCHANGED <<ecVars, smVars>>
    PROVE  Kept'
  <1>1. Others(c) /\ UNCHANGED <<cont, ready, release, scq, cur, created>>
    BY DEF Inv, TypeOK, TypeCtl, TypeEc, Others, BudgetTimeout, Goto, Resume, Interruptible, ecVars
  <1>2. Between(c)' => Between(c)
    BY DEF Inv, TypeOK, TypeCtl, TypeEc, Conts, Control, CpuOK, Handlers, Resumes, Between, BudgetTimeout, Goto, Resume, Interruptible, ecVars
  <1>3. Grows
    BY <1>1, GrowsSame
  <1> QED BY <1>1, <1>2, <1>3, KeptGrows DEF OutStays

\* A step down the call chain.
LEMMA ActivateWalkKept ==
    ASSUME Inv, Kept, NEW c \in CPUs, ActivateWalk(c)
    PROVE  Kept'
  <1>1. Others(c) /\ UNCHANGED <<cont, ready, release, scq, cur, created>>
    BY DEF Inv, TypeOK, TypeCtl, TypeEc, Others, ActivateWalk, scVars
  <1>2. Between(c)' => Between(c)
    BY DEF Inv, TypeOK, TypeCtl, TypeEc, Conts, Control, CpuOK, Handlers, Resumes, Between, ActivateWalk, scVars
  <1>3. Grows
    BY <1>1, GrowsSame
  <1> QED BY <1>1, <1>2, <1>3, KeptGrows DEF OutStays

\* make_current.
LEMMA ActivateRunKept ==
    ASSUME Inv, Kept, NEW c \in CPUs, ActivateRun(c)
    PROVE  Kept'
  <1>1. /\ Others(c) /\ UNCHANGED <<cont, ready, release, scq, cur, created>>
        /\ pc'[c] = cont[arg[c]] /\ arg[c] \in ECs
    BY DEF Inv, TypeOK, TypeCtl, TypeEc, Control, CpuOK, Others, ActivateRun, MakeCurrent,
           Leave, Call, Goto, scVars
  <1>2. cont[arg[c]] \in Conts
    BY <1>1 DEF Inv, TypeOK, TypeEc
  <1>3. ~Between(c)'
    BY <1>1, <1>2 DEF Between, Conts
  <1>4. Grows
    BY <1>1, GrowsSame
  <1> QED BY <1>1, <1>3, <1>4, KeptGrows DEF OutStays

\* unblock_sc takes the lock.
LEMMA UnblockScKept ==
    ASSUME Inv, Kept, NEW c \in CPUs, UnblockSc(c)
    PROVE  Kept'
  <1>1. Others(c) /\ UNCHANGED <<cont, ready, release, scq, cur, created>>
    BY DEF Inv, TypeOK, TypeCtl, TypeEc, Others, UnblockSc, Goto, ecVars, scVars
  <1>2. Between(c)' => Between(c)
    BY DEF Inv, TypeOK, TypeCtl, TypeEc, Conts, Control, CpuOK, Handlers, Resumes, Between, UnblockSc, Goto, ecVars, scVars
  <1>3. Grows
    BY <1>1, GrowsSame
  <1> QED BY <1>1, <1>2, <1>3, KeptGrows DEF OutStays

\* unblock_sc sends the IPI.
LEMMA NotifyKept ==
    ASSUME Inv, Kept, NEW c \in CPUs, Notify(c)
    PROVE  Kept'
  <1>1. Others(c) /\ UNCHANGED <<cont, ready, release, scq, cur, created>>
    BY DEF Inv, TypeOK, TypeCtl, TypeEc, Others, Notify, Goto, ecVars
  <1>2. Between(c)' => Between(c)
    BY DEF Inv, TypeOK, TypeCtl, TypeEc, Conts, Control, CpuOK, Handlers, Resumes, Between, Notify, Goto, ecVars
  <1>3. Grows
    BY <1>1, GrowsSame
  <1> QED BY <1>1, <1>2, <1>3, KeptGrows DEF OutStays

\* sys_create_sc sends the IPI.
LEMMA NotifyCreatedKept ==
    ASSUME Inv, Kept, NEW c \in CPUs, NotifyCreated(c)
    PROVE  Kept'
  <1>1. Others(c) /\ UNCHANGED <<cont, ready, release, scq, cur, created>>
    BY DEF Inv, TypeOK, TypeCtl, TypeEc, Others, NotifyCreated, Leave, Call, Goto, ecVars
  <1>2. Between(c)' => Between(c)
    BY DEF Inv, TypeOK, TypeCtl, TypeEc, Conts, Control, CpuOK, Handlers, Resumes, Between, NotifyCreated, Leave, Call, Goto, ecVars
  <1>3. Grows
    BY <1>1, GrowsSame
  <1> QED BY <1>1, <1>2, <1>3, KeptGrows DEF OutStays

\* A helper activates the handler it waits for.
LEMMA HelpKept ==
    ASSUME Inv, Kept, NEW c \in CPUs, Help(c)
    PROVE  Kept'
  <1>1. Others(c) /\ UNCHANGED <<cont, ready, release, scq, cur, created>>
    BY DEF Inv, TypeOK, TypeCtl, TypeEc, Others, Help, EnterActivate, Call, Goto, scVars
  <1>2. Between(c)' => Between(c)
    BY DEF Inv, TypeOK, TypeCtl, TypeEc, Conts, Control, CpuOK, Handlers, Resumes, Between, Help, EnterActivate, Call, Goto, scVars
  <1>3. Grows
    BY <1>1, GrowsSame
  <1> QED BY <1>1, <1>2, <1>3, KeptGrows DEF OutStays

\* recv_user and recv_kern.
LEMMA RecvKept ==
    ASSUME Inv, Kept, NEW c \in CPUs, Recv(c)
    PROVE  Kept'
  <1>1. Others(c) /\ UNCHANGED <<cont, ready, release, scq, cur, created>>
    BY DEF Inv, TypeOK, TypeCtl, TypeEc, Others, Recv, Goto, ecVars, scVars
  <1>2. Between(c)' => Between(c)
    BY DEF Inv, TypeOK, TypeCtl, TypeEc, Conts, Control, CpuOK, Handlers, Resumes, Between, Recv, Goto, ecVars, scVars
  <1>3. Grows
    BY <1>1, GrowsSame
  <1> QED BY <1>1, <1>2, <1>3, KeptGrows DEF OutStays

\* Sm::dn with tokens left.
LEMMA DnFastKept ==
    ASSUME Inv, Kept, NEW c \in CPUs, DnFast(c)
    PROVE  Kept'
  <1>1. Others(c) /\ UNCHANGED <<cont, ready, release, scq, cur, created>>
    BY DEF Inv, TypeOK, TypeCtl, TypeEc, Others, DnFast, User, Goto, ecVars, scVars
  <1>2. Between(c)' => Between(c)
    BY DEF Inv, TypeOK, TypeCtl, TypeEc, Conts, Control, CpuOK, Handlers, Resumes, Between, DnFast, User, Goto, ecVars, scVars
  <1>3. Grows
    BY <1>1, GrowsSame
  <1> QED BY <1>1, <1>2, <1>3, KeptGrows DEF OutStays

\* Ec::sys_finish.
LEMMA SysFinishKept ==
    ASSUME Inv, Kept, NEW c \in CPUs, SysFinish(c)
    PROVE  Kept'
  <1>1. Others(c) /\ UNCHANGED <<cont, ready, release, scq, cur, created>>
    BY DEF Inv, TypeOK, TypeCtl, TypeEc, Others, SysFinish, Goto, ecVars, scVars
  <1>2. Between(c)' => Between(c)
    BY DEF Inv, TypeOK, TypeCtl, TypeEc, Conts, Control, CpuOK, Handlers, Resumes, Between, SysFinish, Goto, ecVars, scVars
  <1>3. Grows
    BY <1>1, GrowsSame
  <1> QED BY <1>1, <1>2, <1>3, KeptGrows DEF OutStays

\* Sm::up without a waiter.
LEMMA UpCountKept ==
    ASSUME Inv, Kept, NEW c \in CPUs, NEW M \in SUBSET SMs, NEW r, UpFrom(c, r), UpCount(c, M, r)
    PROVE  Kept'
  <1>1. Others(c) /\ UNCHANGED <<cont, ready, release, scq, cur, created>>
    BY DEF Inv, TypeOK, TypeCtl, TypeEc, Others, UpFrom, UpCount, User, Interruptible, Resume, Goto, ecVars, scVars
  <1>2. Between(c)' => Between(c)
    BY DEF Inv, TypeOK, TypeCtl, TypeEc, Conts, Control, CpuOK, Handlers, Resumes, Between, UpFrom, UpCount, User, Interruptible, Resume, Goto, ecVars, scVars
  <1>3. Grows
    BY <1>1, GrowsSame
  <1> QED BY <1>1, <1>2, <1>3, KeptGrows DEF OutStays

\* User mode names a portal.
LEMMA NamePortalKept ==
    ASSUME Inv, Kept, NEW c \in CPUs, NEW p \in {"sys_ipc_call", "send_msg"}, NamePortal(c, p)
    PROVE  Kept'
  <1>1. Others(c) /\ UNCHANGED <<cont, ready, release, scq, cur, created>>
    BY DEF Inv, TypeOK, TypeCtl, TypeEc, Others, NamePortal, User, Goto, scVars
  <1>2. Between(c)' => Between(c)
    BY DEF Inv, TypeOK, TypeCtl, TypeEc, Conts, Control, CpuOK, Handlers, Resumes, Between, NamePortal, User, Goto, scVars
  <1>3. Grows
    BY <1>1, GrowsSame
  <1> QED BY <1>1, <1>2, <1>3, KeptGrows DEF OutStays

\* A call that is given up.
LEMMA BailKept ==
    ASSUME Inv, Kept, NEW c \in CPUs, pc[c] \in {"sys_ipc_call", "send_msg"},
           NEW p \in {"ret_user_hypercall", "kill"}, Bail(c, p)
    PROVE  Kept'
  <1>1. Others(c) /\ UNCHANGED <<cont, ready, release, scq, cur, created>>
    BY DEF Inv, TypeOK, TypeCtl, TypeEc, Others, Bail, Goto, scVars
  <1>2. Between(c)' => Between(c)
    BY DEF Inv, TypeOK, TypeCtl, TypeEc, Conts, Control, CpuOK, Handlers, Resumes, Between, Bail, Goto, scVars
  <1>3. Grows
    BY <1>1, GrowsSame
  <1> QED BY <1>1, <1>2, <1>3, KeptGrows DEF OutStays

\* A call whose handler is busy.
LEMMA EnterHelpKept ==
    ASSUME Inv, Calls, Kept, NEW c \in CPUs, pc[c] \in {"sys_ipc_call", "send_msg"},
           NEW s, NEW x, EnterHelp(c, s, x)
    PROVE  Kept'
  <1>1. Others(c) /\ UNCHANGED <<ready, release, scq, cur, created>>
    BY DEF Inv, TypeOK, TypeCtl, TypeEc, Others, EnterHelp, Goto, scVars
  <1>2. OutStays
    <2>1. ec[c] \in ECs /\ RunOK(c) /\ \A e \in ECs : e # ec[c] => cont'[e] = cont[e]
      BY SelfOK DEF Calls, Inv, TypeOK, TypeEc, EnterHelp
    <2>2. cont[ec[c]] \notin {"dead", "null"}
      BY <2>1 DEF RunOK, Away, Blocked, EnterHelp
    <2> QED BY <2>1, <2>2 DEF OutStays
  <1>4. ~Between(c)'
    BY DEF Inv, TypeOK, TypeCtl, Between, EnterHelp, Goto
  <1>3. Grows
    BY <1>1, GrowsSame
  <1> QED BY <1>1, <1>2, <1>3, <1>4, KeptGrows

\* ret_user_hypercall, ret_user_exception and idle.
LEMMA RetUserKept ==
    ASSUME Inv, Calls, Kept, NEW c \in CPUs, RetUser(c) \/ IdleLoop(c)
    PROVE  Kept'
  <1>1. Others(c) /\ UNCHANGED <<ready, release, scq, cur, created>>
    BY DEF Inv, TypeOK, TypeCtl, TypeEc, Others, RetUser, IdleLoop, Goto, scVars
  <1>2. OutStays
    <2>1. ec[c] \in ECs /\ RunOK(c) /\ \A e \in ECs : e # ec[c] => cont'[e] = cont[e]
      BY SelfOK DEF Calls, Inv, TypeOK, TypeEc, RetUser, IdleLoop
    <2>2. cont[ec[c]] \notin {"dead", "null"}
      BY <2>1 DEF RunOK, Away, Blocked, RetUser, IdleLoop
    <2> QED BY <2>1, <2>2 DEF OutStays
  <1>4. ~Between(c)'
    BY DEF Inv, TypeOK, TypeCtl, Between, RetUser, IdleLoop, Goto
  <1>3. Grows
    BY <1>1, GrowsSame
  <1> QED BY <1>1, <1>2, <1>3, <1>4, KeptGrows

\* Sm::dn without tokens.
LEMMA DnBlockKept ==
    ASSUME Inv, Calls, Kept, NEW c \in CPUs, DnBlock(c)
    PROVE  Kept'
  <1>1. Others(c) /\ UNCHANGED <<ready, release, scq, cur, created>>
    BY DEF Inv, TypeOK, TypeCtl, TypeEc, Others, DnBlock, User, Goto, scVars
  <1>2. OutStays
    <2>1. ec[c] \in ECs /\ RunOK(c) /\ \A e \in ECs : e # ec[c] => cont'[e] = cont[e]
      BY SelfOK DEF Calls, Inv, TypeOK, TypeEc, DnBlock, User
    <2>2. cont[ec[c]] \notin {"dead", "null"}
      BY <2>1 DEF RunOK, Away, Blocked, DnBlock, User
    <2> QED BY <2>1, <2>2 DEF OutStays
  <1>4. ~Between(c)'
    BY DEF Inv, TypeOK, TypeCtl, Between, DnBlock, User, Goto
  <1>3. Grows
    BY <1>1, GrowsSame
  <1> QED BY <1>1, <1>2, <1>3, <1>4, KeptGrows

\* Ec::rendezvous.
LEMMA RendezvousKept ==
    ASSUME Inv, Calls, Kept, NEW c \in CPUs, pc[c] \in {"sys_ipc_call", "send_msg"},
           NEW s \in Local, NEW x, NEW y \in {"recv_user", "recv_kern"}, Rendezvous(c, s, x, y)
    PROVE  Kept'
  <1>1. Others(c) /\ UNCHANGED <<ready, release, scq, cur, created>>
    BY DEF Inv, TypeOK, TypeCtl, TypeEc, Others, Rendezvous, MakeCurrent, Leave, Call, Goto, scVars
  <1>2. OutStays
    <2>1. /\ ec[c] \in ECs /\ RunOK(c) /\ s \in ECs
          /\ \A e \in ECs : e \notin {ec[c], s} => cont'[e] = cont[e]
      BY SelfOK DEF Calls, Inv, TypeOK, TypeEc, Rendezvous
    <2>2. cont[ec[c]] \notin {"dead", "null"}
      BY <2>1 DEF RunOK, Away, Blocked
    <2> QED BY <2>1, <2>2 DEF OutStays
  <1>4. ~Between(c)'
    BY DEF Inv, TypeOK, TypeCtl, Between, Rendezvous, MakeCurrent, Leave, Call, Goto
  <1>3. Grows
    BY <1>1, GrowsSame
  <1> QED BY <1>1, <1>2, <1>3, <1>4, KeptGrows

\* Ec::reply to a caller.
LEMMA ReplyKept ==
    ASSUME Inv, Calls, Kept, NEW c \in CPUs, pc[c] \in {"user", "kill", "dead", "blocking"},
           NEW x \in {"null", "dead"}, NEW k, caller[ec[c]] # NoEc,
           k \in {cont[caller[ec[c]]], "sys_finish_aborted", "dead"}, Reply(c, x, k)
    PROVE  Kept'
  <1>1. Others(c) /\ UNCHANGED <<ready, release, scq, cur, created>>
    BY DEF Inv, TypeOK, TypeCtl, TypeEc, Others, Reply, MakeCurrent, EnterActivate, Leave, Call, Goto, scVars
  <1>a. /\ ec[c] \in ECs /\ caller[ec[c]] \in ECs
        /\ cont[caller[ec[c]]] \in {"ret_user_hypercall", "ret_user_exception"}
    BY SelfOK DEF Calls, LinkOK
  <1>2. OutStays
    <2>1. /\ cont'[ec[c]] \in {"dead", "null", k}
          /\ \A e \in ECs : e \notin {ec[c], caller[ec[c]]} => cont'[e] = cont[e]
          /\ caller[ec[c]] # ec[c] => cont'[ec[c]] = x
      BY <1>a DEF Inv, TypeOK, TypeEc, Reply
    <2>2. cont[caller[ec[c]]] \notin {"dead", "null"}
      BY <1>a
    <2> QED BY <1>a, <2>1, <2>2 DEF OutStays
  <1>4. ~Between(c)'
    BY <1>a DEF Inv, TypeOK, TypeCtl, Between, Reply, MakeCurrent, EnterActivate, Leave, Call, Goto
  <1>3. Grows
    BY <1>1, GrowsSame
  <1> QED BY <1>1, <1>2, <1>3, <1>4, KeptGrows

\* Sm::up with a waiter.
LEMMA UpWakeKept ==
    ASSUME Inv, Calls, Kept, NEW c \in CPUs, NEW M \in SUBSET SMs, NEW r, UpFrom(c, r), UpWake(c, M, r)
    PROVE  Kept'
  <1>1. Others(c) /\ UNCHANGED <<ready, release, scq, cur, created>>
    BY DEF Inv, TypeOK, TypeCtl, TypeEc, Others, UpFrom, UpWake, User, Interruptible, Resume, Call, Goto, scVars
  <1>2. OutStays
    <2>1. PICK m \in M, e \in ECs :
               /\ e \in Elems(smq[m]) /\ smq[m] # <<>> /\ e = Head(smq[m])
               /\ \A n \in SMs : n # m => smq'[n] = smq[n]
               /\ smq'[m] = Tail(smq[m])
               /\ Elems(smq'[m]) = Elems(smq[m]) \ {e} /\ Distinct(smq'[m])
               /\ cont' = [cont EXCEPT ![e] = "sys_finish_success"]
               /\ Call(c, "unblock_sc", e, r)
      BY UpWakeQueue, Zenon
    <2>2. cont[e] = "blocking"
      BY <2>1 DEF Calls, Waiters
    <2>3. \A f \in ECs : f # e => cont'[f] = cont[f]
      BY <2>1 DEF Inv, TypeOK, TypeEc
    <2> QED BY <2>2, <2>3 DEF OutStays
  <1>4. ~Between(c)'
    BY DEF Inv, TypeOK, TypeCtl, Between, UpWake, Call, Goto
  <1>3. Grows
    BY <1>1, GrowsSame
  <1> QED BY <1>1, <1>2, <1>3, <1>4, KeptGrows

\* The hypercall timeout: what it does to the continuations.
LEMMA SmTimeoutCont ==
    ASSUME Inv, Waits, NEW c \in CPUs, SmTimeout(c)
    PROVE  \E e \in ECs :
               /\ EcCpu[e] = c /\ timeout[e] # NoSm
               /\ cont[e] \in {"blocking", "sys_finish_success"}
               /\ \A f \in ECs : f # e => cont'[f] = cont[f]
               /\ cont'[e] \in {cont[e], "sys_finish_timeout"}
  <1>1. PICK e \in ECs :
          /\ EcCpu[e] = c /\ timeout[e] # NoSm
          /\ UNCHANGED cont \/ cont' = [cont EXCEPT ![e] = "sys_finish_timeout"]
    BY DEF SmTimeout
  <1>2. cont[e] \in {"blocking", "sys_finish_success"}
    BY <1>1 DEF Waits, Timers, TimerOK
  <1>3. /\ \A f \in ECs : f # e => cont'[f] = cont[f]
        /\ cont'[e] \in {cont[e], "sys_finish_timeout"}
    BY <1>1 DEF Inv, TypeOK, TypeEc
  <1> QED BY <1>1, <1>2, <1>3

\* The hypercall timeout.
LEMMA SmTimeoutKept ==
    ASSUME Inv, Waits, Kept, NEW c \in CPUs, SmTimeout(c)
    PROVE  Kept'
  <1>1. Others(c) /\ UNCHANGED <<ready, release, scq, cur, created>>
    BY DEF Inv, TypeOK, TypeCtl, Others, SmTimeout, Call, Goto, scVars
  <1>2. OutStays
    BY SmTimeoutCont DEF OutStays
  <1>3. ~Between(c)'
    BY DEF Inv, TypeOK, TypeCtl, Between, SmTimeout, Interruptible, Resume, Call, Goto
  <1>4. Grows
    BY <1>1, GrowsSame
  <1> QED BY <1>1, <1>2, <1>3, <1>4, KeptGrows

\* Ec::reply without a caller: the SC's own EC has returned or died.
LEMMA ReplyNobodyKept ==
    ASSUME Inv, Calls, Chains, Kept, NEW c \in CPUs,
           pc[c] \in {"user", "kill", "dead", "blocking"},
           NEW x \in {"null", "dead"}, NEW k, caller[ec[c]] = NoEc, Reply(c, x, k)
    PROVE  Kept'
  <1>1. Others(c) /\ UNCHANGED <<ready, release, scq, cur, created>>
    BY DEF Inv, TypeOK, TypeCtl, Others, Reply, Goto, scVars
  <1>2. ec[c] \in ECs /\ cont'[ec[c]] = x /\ \A e \in ECs : e # ec[c] => cont'[e] = cont[e]
    BY SelfOK DEF Inv, TypeOK, TypeEc, Reply
  <1>3. OutStays
    BY <1>2 DEF OutStays
  <1>4. ec[c] = ScEc[cur[c]]
    <2>1. PICK rank : PathOK(c, rank)
      BY DEF Chains
    <2>2. ~Between(c) /\ First(c) = ec[c] /\ don[c] \in Nat
      BY DEF Between, First, Inv, TypeOK, TypeEc
    <2>3. PICK f : /\ Chain(f, don[c], caller, rank, c)
                   /\ f[0] = ec[c] /\ Ends(c, f[don[c]])
      BY <2>1, <2>2 DEF PathOK
    <2>4. don[c] = 0
      <3> SUFFICES ASSUME don[c] # 0 PROVE FALSE
        OBVIOUS
      <3>1. 0 \in 0 .. don[c] - 1 /\ 0 + 1 \in 0 .. don[c]
        BY <2>2
      <3>2. caller[f[0]] = f[0 + 1] /\ f[0 + 1] \in ECs
        BY <2>3, <3>1 DEF Chain
      <3> QED BY <2>3, <3>2, Constants
    <2> QED BY <2>3, <2>4 DEF Ends
  <1>5. Out(cur[c])'
    BY <1>1, <1>2, <1>4 DEF Out
  <1>6. Grows
    BY <1>1, GrowsSame
  <1> QED BY <1>1, <1>3, <1>5, <1>6, KeptGrows

\* Scheduler::schedule of an SC that can go on.
LEMMA ScheduleReadyKept ==
    ASSUME Inv, Kept, NEW c \in CPUs, Schedule(c, FALSE), UNCHANGED ecVars
    PROVE  Kept'
  <1>1. Others(c) /\ UNCHANGED <<cont, created, scq>>
    BY DEF Inv, TypeOK, TypeCtl, Others, Schedule, Goto, ecVars
  <1>2. Grows /\ InReady(cur[c])' /\ cur' = cur
    BY <1>1, ScheduleGrows
  <1> QED BY <1>1, <1>2, KeptGrows DEF OutStays, Queued

\* Scheduler::requeue.
LEMMA RequeueKept ==
    ASSUME Inv, Kept, NEW c \in CPUs, Requeue(c), UNCHANGED ecVars
    PROVE  Kept'
  <1>1. Others(c) /\ UNCHANGED <<cont, created, scq, cur>>
    BY DEF Inv, TypeOK, TypeCtl, Others, Requeue, Leave, Call, Goto, ctlVars, ecVars
  <1>2. ~Between(c)'
    BY DEF Inv, TypeOK, TypeCtl, Control, CpuOK, Handlers, Resumes, Between, Requeue, Leave,
           Call, Goto, ctlVars
  <1> QED BY <1>1, <1>2, RequeueGrows, KeptGrows DEF OutStays

\* Ec::activate on a blocked EC.
LEMMA ActivateBlockScKept ==
    ASSUME Inv, Kept, NEW c \in CPUs, ActivateBlockSc(c)
    PROVE  Kept'
  <1>1. Others(c) /\ UNCHANGED <<cont, created, cur, ready, release>> /\ ~Between(c)
    BY DEF Inv, TypeOK, TypeCtl, Others, ActivateBlockSc, Leave, Call, Goto, scVars, Between
  <1>2. PICK e \in ECs : EcCpu[e] = c /\ scq' = [scq EXCEPT ![e] = Append(@, cur[c])]
    BY DEF Inv, Control, CpuOK, ActivateBlockSc
  <1>3. Grows /\ Queued(cur[c])'
    BY <1>1, <1>2, BlockGrows
  <1> QED BY <1>1, <1>3, KeptGrows DEF OutStays

\* The rest of Sm::dn.
LEMMA DnBlockScKept ==
    ASSUME Inv, Kept, NEW c \in CPUs, DnBlockSc(c)
    PROVE  Kept'
  <1>1. Others(c) /\ UNCHANGED <<cont, created, cur, ready, release>> /\ ~Between(c)
    BY DEF Inv, TypeOK, TypeCtl, Others, DnBlockSc, Goto, scVars, Between
  <1>2. CASE Blocked(ec[c])
    <2>1. PICK e \in ECs : EcCpu[e] = c /\ scq' = [scq EXCEPT ![e] = Append(@, cur[c])]
      BY <1>2 DEF Inv, TypeOK, TypeEc, Control, CpuOK, DnBlockSc
    <2>2. Grows /\ Queued(cur[c])'
      BY <1>1, <2>1, BlockGrows
    <2> QED BY <1>1, <2>2, KeptGrows DEF OutStays
  <1>3. CASE ~Blocked(ec[c])
    <2>1. UNCHANGED scq /\ ~Between(c)'
      BY <1>3 DEF Inv, TypeOK, TypeCtl, DnBlockSc, Goto, Between
    <2>2. Grows
      BY <1>1, <2>1, GrowsSame
    <2> QED BY <1>1, <2>1, <2>2, KeptGrows DEF OutStays
  <1> QED BY <1>2, <1>3

\* unblock_sc takes an SC off the queue.
LEMMA UnblockLoopKept ==
    ASSUME Inv, Kept, NEW c \in CPUs, UnblockLoop(c)
    PROVE  Kept'
  <1>1. Others(c) /\ UNCHANGED <<cont, created, cur>>
    BY DEF Inv, TypeOK, TypeCtl, Others, UnblockLoop, Leave, Call, Goto, ctlVars
  <1>2. ~Between(c)'
    BY DEF Inv, TypeOK, TypeCtl, Control, CpuOK, Handlers, Resumes, Between, UnblockLoop, Leave,
           Call, Goto, ctlVars
  <1> QED BY <1>1, <1>2, UnblockGrows, KeptGrows DEF OutStays

\* sys_create_sc.
LEMMA SysCreateScKept ==
    ASSUME Inv, Kept, NEW c \in CPUs, SysCreateSc(c)
    PROVE  Kept'
  <1>1. Others(c) /\ UNCHANGED <<cont, cur>> /\ ~Between(c)'
    BY DEF Inv, TypeOK, TypeCtl, Others, SysCreateSc, Call, Goto, ecVars, Between
  <1> QED BY <1>1, CreateGrows, KeptGrows DEF OutStays

\* The scheduler chooses an SC.
LEMMA PickKept ==
    ASSUME Inv, Kept, NEW c \in CPUs, Pick(c)
    PROVE  Kept'
  <1>1. /\ Others(c) /\ UNCHANGED <<cont, created, release, scq>> /\ ~Between(c)' /\ Between(c)
        /\ cur' = [cur EXCEPT ![c] = ReadyHead(c)] /\ ReadyDequeue(c)
    BY DEF Inv, TypeOK, TypeCtl, Others, Pick, EnterActivate, Call, Goto, Between
  <1>2. PICK h \in SCs : h = ReadyHead(c) /\ ScCpu(h) = c
    BY <1>1, QueueFacts, ReadyDel
  <1>3. \A r \in SCs : InReady(r)' <=> InReady(r) /\ r # h
    BY <1>1, <1>2, QueueFacts, ReadyDel
  <1>4. /\ \A r \in SCs : InRelease(r)' <=> InRelease(r)
        /\ \A r \in SCs, f \in ECs : WaitsOn(r, f)' <=> WaitsOn(r, f)
    BY <1>1, QueueFacts, ReleaseSame, WaitSame
  <1>5. \A r \in SCs : Queued(r) => Queued(r)' \/ r = h
    BY <1>3, <1>4 DEF Queued
  <1>6. cur'[c] = h /\ \A d \in CPUs : d # c => cur'[d] = cur[d]
    BY <1>1, <1>2 DEF Inv, TypeOK, TypeSc
  <1>7. \A r \in SCs : Out(r) => Out(r)'
    BY <1>1 DEF Out
  <1>8. NoScLost'
    <2> SUFFICES ASSUME NEW s \in created PROVE Queued(s)' \/ cur'[ScCpu(s)] = s \/ Out(s)'
      BY <1>1 DEF NoScLost, Out, ScCpu
    <2>1. s \in SCs /\ ScCpu(s) \in CPUs
      BY Constants DEF Inv, TypeOK, TypeSc, ScCpu
    <2>2. Queued(s) \/ cur[ScCpu(s)] = s \/ Out(s)
      BY DEF Kept, NoScLost, Out
    <2>3. cur[ScCpu(s)] = s /\ ScCpu(s) = c => Queued(s) \/ Out(s)
      BY <1>1 DEF Kept
    <2> QED BY <1>2, <1>5, <1>6, <1>7, <2>1, <2>2, <2>3
  <1>9. ASSUME NEW d \in CPUs, Between(d)' PROVE Queued(cur[d])' \/ Out(cur[d])'
    <2>1. d # c /\ Between(d) /\ cur'[d] = cur[d]
      BY <1>1, <1>6, <1>9 DEF Between, Others
    <2>2. PICK s \in SCs : s = cur[d] /\ ScCpu(s) = d
      BY QueueFacts
    <2>3. Queued(s) \/ Out(s)
      BY <2>1, <2>2 DEF Kept
    <2>4. Queued(s)' \/ Out(s)'
      BY <1>2, <1>5, <1>7, <2>1, <2>2, <2>3
    <2>5. Queued(s)' <=> Queued(cur[d])'
      BY <2>1, <2>2 DEF Queued, InReady, InRelease, WaitsOn, ScCpu
    <2>6. Out(s)' <=> Out(cur[d])'
      BY <2>1, <2>2 DEF Out
    <2> QED BY <2>4, <2>5, <2>6
  <1> QED BY <1>8, <1>9 DEF Kept

\* Every step keeps Kept.
LEMMA NextKept == Inv /\ Calls /\ Waits /\ Chains /\ Kept /\ [Next]_vars => Kept'
  <1> SUFFICES ASSUME Inv, Calls, Waits, Chains, Kept, [Next]_vars PROVE Kept'
    OBVIOUS
  <1>1. CASE UNCHANGED vars
    <2>1. UNCHANGED <<pc, cont, ready, release, scq, cur, created>>
      BY <1>1 DEF vars, ctlVars, ecVars, scVars
    <2>2. NoScLost'
      BY <2>1 DEF Kept, NoScLost, Queued, InReady, InRelease, WaitsOn, Elems, ScCpu
    <2>3. \A c \in CPUs : Between(c)' => Queued(cur[c])' \/ Out(cur[c])'
      BY <2>1 DEF Kept, Between, Out, Queued, InReady, InRelease, WaitsOn, Elems, ScCpu
    <2> QED BY <2>2, <2>3 DEF Kept
  <1>2. ASSUME NEW c \in CPUs, SchedStep(c) PROVE Kept'
    BY <1>2, ScheduleBlockedKept, ScheduleReadyKept, HandleRrqKept, RequeueKept,
       BudgetTimeoutKept DEF SchedStep
  <1>3. ASSUME NEW c \in CPUs, EcStep(c) PROVE Kept'
    <2>0. want[ec[c]] \in Local \cup {NoEc}
      BY <1>3, SelfOK
    <2>1. ASSUME SysIpcCall(c) \/ SendMsg(c) PROVE Kept'
      BY <2>0, <2>1, BailKept, RendezvousKept, EnterHelpKept DEF SysIpcCall, SendMsg
    <2>2. ASSUME SysIpcReply(c) \/ Kill(c) PROVE Kept'
      BY <2>2, ReplyKept, ReplyNobodyKept DEF SysIpcReply, Kill, User
    <2> QED BY <1>3, <2>1, <2>2, ActivateWalkKept, ActivateRunKept, ActivateBlockScKept,
       PickKept, UnblockScKept, UnblockLoopKept, NotifyKept, NamePortalKept,
       HelpKept, RecvKept, RetUserKept, SysCreateScKept, NotifyCreatedKept
       DEF EcStep, CallPortal, RaiseException
  <1>4. ASSUME NEW c \in CPUs, SmStep(c) PROVE Kept'
    <2>1. ASSUME SysUp(c) PROVE Kept'
      BY <2>1, UpCountKept, UpWakeKept DEF SysUp, UpFrom
    <2>2. ASSUME GsiUp(c) PROVE Kept'
      BY <2>2, UpCountKept, UpWakeKept, SmAssumption DEF GsiUp, UpFrom
    <2> QED BY <1>4, <2>1, <2>2, DnFastKept, DnBlockKept, DnBlockScKept, SmTimeoutKept,
               SysFinishKept DEF SmStep
  <1> QED BY <1>1, <1>2, <1>3, <1>4 DEF Next

\* Kept holds at bootstrap.
LEMMA InitKept == Init => Kept
  <1> SUFFICES ASSUME Init PROVE Kept
    OBVIOUS
  <1>1. \A c \in CPUs : ~Between(c)
    BY DEF Init, Between
  <1>2. ASSUME NEW s \in created PROVE Queued(s) \/ cur[ScCpu(s)] = s
    <2>1. CASE s \in BootScs
      <3>1. ready = BootQ
        BY DEF Init
      <3>2. InReady(s)
        BY <2>1, <3>1 DEF BootScs, InReady, Elems
      <3> QED BY <3>2 DEF Queued
    <2>2. CASE s \notin BootScs
      <3>1. PICK c \in CPUs : s = IdleSc[c]
        BY <2>2 DEF Init
      <3>2. ScCpu(s) = c
        BY <3>1, SchedAssumption DEF ScCpu
      <3>3. cur = IdleSc
        BY DEF Init
      <3> QED BY <3>1, <3>2, <3>3
    <2> QED BY <2>1, <2>2
  <1> QED BY <1>1, <1>2 DEF Kept, NoScLost

-----------------------------------------------------------------------------
(* Idles and Tops.                                                         *)

\* The idle EC of a CPU.
IdleEc(c) == ScEc[IdleSc[c]]

\* Where a CPU can be while its idle SC is the current one.
IdlePcs == {"schedule", "pick", "activate", "idle"} \cup Handlers

IdleRun(c) == cur[c] = IdleSc[c] =>
    /\ pc[c] \in IdlePcs
    /\ pc[c] = "activate" => arg[c] = IdleEc(c)
    /\ pc[c] \in Handlers => ret[c] = "idle"
    /\ pc[c] \in {"idle"} \cup Handlers => ec[c] = IdleEc(c)

\* The idle SC runs, or is ready; its EC calls nobody.
IdleOK(c) ==
    /\ cont[IdleEc(c)] = "idle" /\ callee[IdleEc(c)] = NoEc
    /\ InReady(IdleSc[c]) \/ (cur[c] = IdleSc[c] /\ ~Between(c))
    /\ IdleRun(c)

Idles == \A c \in CPUs : IdleOK(c)

\* What the proofs need of the idle ECs.
LEMMA IdleConst ==
    ASSUME NEW c \in CPUs
    PROVE  /\ IdleSc[c] \in SCs /\ IdleEc(c) \in ECs /\ EcCpu[IdleEc(c)] = c
           /\ IdleEc(c) \notin Local /\ ScCpu(IdleSc[c]) = c /\ Prio[IdleSc[c]] = 0
  <1>1. IdleSc[c] \in SCs /\ EcCpu[ScEc[IdleSc[c]]] = c /\ Prio[IdleSc[c]] = 0
    BY SchedAssumption
  <1> QED BY <1>1, Constants, EcAssumption DEF IdleEc, ScCpu

\* The idle SC is the only one of the idle EC.
LEMMA IdleOnly ==
    ASSUME NEW c \in CPUs, NEW s \in SCs, ScEc[s] = IdleEc(c)
    PROVE  s = IdleSc[c]
  <1>1. ScEc[s] \in IdleEcs
    BY DEF IdleEcs, IdleEc
  <1>2. PICK d \in CPUs : s = IdleSc[d]
    BY <1>1, EcAssumption
  <1>3. EcCpu[IdleEc(d)] = d /\ EcCpu[IdleEc(c)] = c /\ IdleEc(c) = IdleEc(d)
    BY <1>2, IdleConst DEF IdleEc
  <1> QED BY <1>2, <1>3

\* A CPU runs, or is about to run, its idle EC for the idle SC only.
LEMMA IdleFirst ==
    ASSUME Inv, Calls, Chains, NEW c \in CPUs, ~Between(c), NEW d \in CPUs,
           First(c) = IdleEc(d)
    PROVE  d = c /\ cur[c] = IdleSc[c]
  <1>1. PICK rank : PathOK(c, rank)
    BY DEF Chains
  <1>2. PICK f : /\ Chain(f, don[c], caller, rank, c)
                 /\ f[0] = IdleEc(d) /\ Ends(c, f[don[c]])
    BY <1>1 DEF PathOK
  <1>3. don[c] \in Nat /\ cur[c] \in SCs
    BY DEF Inv, TypeOK, TypeEc, TypeSc
  <1>4. caller[IdleEc(d)] = NoEc /\ IdleEc(d) \notin Local
    BY IdleConst DEF Calls, LinkOK
  <1>5. don[c] = 0
    <2> SUFFICES ASSUME don[c] # 0 PROVE FALSE
      OBVIOUS
    <2>1. 0 \in 0 .. don[c] - 1 /\ 0 + 1 \in 0 .. don[c]
      BY <1>3
    <2>2. caller[f[0]] = f[0 + 1] /\ f[0 + 1] \in ECs
      BY <1>2, <2>1 DEF Chain
    <2> QED BY <1>2, <1>4, <2>2, Constants
  <1>6. IdleEc(d) = ScEc[cur[c]]
    BY <1>2, <1>4, <1>5 DEF Ends
  <1>7. cur[c] = IdleSc[d] /\ ScCpu(cur[c]) = c
    BY <1>3, <1>6, IdleOnly DEF Inv, Control, CpuOK
  <1> QED BY <1>7, IdleConst

\* A CPU that is where the idle SC never leads.
LEMMA NotIdle ==
    ASSUME Inv, Calls, Chains, Idles, NEW c \in CPUs, pc[c] \notin IdlePcs
    PROVE  /\ cur[c] # IdleSc[c]
           /\ ~Between(c) => \A d \in CPUs : ec[c] # IdleEc(d)
  <1>1. cur[c] # IdleSc[c]
    BY DEF Idles, IdleOK, IdleRun
  <1>2. First(c) = ec[c]
    BY DEF First, IdlePcs
  <1> QED BY <1>1, <1>2, IdleFirst

\* A step that takes no SC out of the ready queue.
LEMMA IdlesKept ==
    ASSUME Inv, Idles, NEW c \in CPUs, Others(c), UNCHANGED cur, Grows, IdleRun(c)',
           \A d \in CPUs : cont'[IdleEc(d)] = "idle" /\ callee'[IdleEc(d)] = NoEc,
           cur[c] = IdleSc[c] /\ Between(c)' => Between(c) \/ InReady(IdleSc[c])'
    PROVE  Idles'
  <1> SUFFICES ASSUME NEW d \in CPUs PROVE IdleOK(d)'
    BY DEF Idles
  <1>1. IdleOK(d) /\ IdleSc[d] \in SCs
    BY IdleConst DEF Idles
  <1>2. cont'[IdleEc(d)] = "idle" /\ callee'[IdleEc(d)] = NoEc
    OBVIOUS
  <1>3. IdleRun(d)'
    BY <1>1 DEF IdleOK, IdleRun, Others, IdleEc
  <1>4. InReady(IdleSc[d])' \/ (cur'[d] = IdleSc[d] /\ ~Between(d)')
    <2>1. CASE InReady(IdleSc[d])
      BY <1>1, <2>1 DEF Grows
    <2>2. CASE ~InReady(IdleSc[d])
      BY <1>1, <2>2 DEF IdleOK, Between, Others
    <2> QED BY <2>1, <2>2
  <1> QED BY <1>2, <1>3, <1>4 DEF IdleOK, IdleEc

\* The same where the idle SC never leads: an EC that calls, replies or waits.
LEMMA IdlesBusy ==
    ASSUME Inv, Calls, Chains, Idles, NEW c \in CPUs, pc[c] \notin IdlePcs, Others(c),
           UNCHANGED cur, Grows,
           \A e \in ECs : e # ec[c] /\ cont[e] = "idle" /\ callee[e] = NoEc /\ e \notin Local =>
               cont'[e] = "idle" /\ callee'[e] = NoEc,
           Between(c) => UNCHANGED <<cont, callee>>
    PROVE  Idles'
  <1>1. /\ cur[c] # IdleSc[c]
        /\ ~Between(c) => \A d \in CPUs : ec[c] # IdleEc(d)
    BY NotIdle
  <1>2. IdleRun(c)'
    BY <1>1 DEF IdleRun
  <1>3. \A d \in CPUs : cont'[IdleEc(d)] = "idle" /\ callee'[IdleEc(d)] = NoEc
    <2> SUFFICES ASSUME NEW d \in CPUs
                 PROVE  cont'[IdleEc(d)] = "idle" /\ callee'[IdleEc(d)] = NoEc
      OBVIOUS
    <2>1. /\ cont[IdleEc(d)] = "idle" /\ callee[IdleEc(d)] = NoEc
          /\ IdleEc(d) \in ECs /\ IdleEc(d) \notin Local
      BY IdleConst DEF Idles, IdleOK
    <2> QED BY <1>1, <2>1
  <1> QED BY <1>1, <1>2, <1>3, IdlesKept

\* Scheduler::schedule, the SC being put away.
LEMMA ScheduleBlockedIdles ==
    ASSUME Inv, Calls, Chains, Idles, NEW c \in CPUs, Schedule(c, TRUE), UNCHANGED ecVars
    PROVE  Idles'
  <1>1. Others(c) /\ UNCHANGED cur /\ UNCHANGED <<ready, release, scq>> /\ pc[c] \notin IdlePcs
    BY DEF Inv, TypeOK, TypeCtl, TypeEc, Others, IdlePcs, Handlers, Schedule, Goto, ecVars
  <1>2. Between(c) => UNCHANGED <<cont, callee>>
    BY DEF Between, Schedule, Goto, ecVars
  <1>3. \A e \in ECs : e # ec[c] /\ cont[e] = "idle" /\ callee[e] = NoEc /\ e \notin Local =>
            cont'[e] = "idle" /\ callee'[e] = NoEc
    BY SelfOK DEF Inv, TypeOK, TypeEc, Schedule, Goto, ecVars
  <1>4. Grows
    BY <1>1, GrowsSame
  <1> QED BY <1>1, <1>2, <1>3, <1>4, IdlesBusy

\* User mode names a portal.
LEMMA NamePortalIdles ==
    ASSUME Inv, Calls, Chains, Idles, NEW c \in CPUs, NEW p \in {"sys_ipc_call", "send_msg"}, NamePortal(c, p)
    PROVE  Idles'
  <1>1. Others(c) /\ UNCHANGED cur /\ UNCHANGED <<ready, release, scq>> /\ pc[c] \notin IdlePcs
    BY DEF Inv, TypeOK, TypeCtl, TypeEc, Others, IdlePcs, Handlers, NamePortal, User, Goto, scVars
  <1>2. Between(c) => UNCHANGED <<cont, callee>>
    BY DEF Between, NamePortal, User, Goto, scVars
  <1>3. \A e \in ECs : e # ec[c] /\ cont[e] = "idle" /\ callee[e] = NoEc /\ e \notin Local =>
            cont'[e] = "idle" /\ callee'[e] = NoEc
    BY SelfOK DEF Inv, TypeOK, TypeEc, NamePortal, User, Goto, scVars
  <1>4. Grows
    BY <1>1, GrowsSame
  <1> QED BY <1>1, <1>2, <1>3, <1>4, IdlesBusy

\* A call that is given up.
LEMMA BailIdles ==
    ASSUME Inv, Calls, Chains, Idles, NEW c \in CPUs, pc[c] \in {"sys_ipc_call", "send_msg"},
           NEW p \in {"ret_user_hypercall", "kill"}, Bail(c, p)
    PROVE  Idles'
  <1>1. Others(c) /\ UNCHANGED cur /\ UNCHANGED <<ready, release, scq>> /\ pc[c] \notin IdlePcs
    BY DEF Inv, TypeOK, TypeCtl, TypeEc, Others, IdlePcs, Handlers, Bail, Goto, scVars
  <1>2. Between(c) => UNCHANGED <<cont, callee>>
    BY DEF Between, Bail, Goto, scVars
  <1>3. \A e \in ECs : e # ec[c] /\ cont[e] = "idle" /\ callee[e] = NoEc /\ e \notin Local =>
            cont'[e] = "idle" /\ callee'[e] = NoEc
    BY SelfOK DEF Inv, TypeOK, TypeEc, Bail, Goto, scVars
  <1>4. Grows
    BY <1>1, GrowsSame
  <1> QED BY <1>1, <1>2, <1>3, <1>4, IdlesBusy

\* A call whose handler is busy.
LEMMA EnterHelpIdles ==
    ASSUME Inv, Calls, Chains, Idles, NEW c \in CPUs, pc[c] \in {"sys_ipc_call", "send_msg"},
           NEW s, NEW x, EnterHelp(c, s, x)
    PROVE  Idles'
  <1>1. Others(c) /\ UNCHANGED cur /\ UNCHANGED <<ready, release, scq>> /\ pc[c] \notin IdlePcs
    BY DEF Inv, TypeOK, TypeCtl, TypeEc, Others, IdlePcs, Handlers, EnterHelp, Goto, scVars
  <1>2. Between(c) => UNCHANGED <<cont, callee>>
    BY DEF Between, EnterHelp, Goto, scVars
  <1>3. \A e \in ECs : e # ec[c] /\ cont[e] = "idle" /\ callee[e] = NoEc /\ e \notin Local =>
            cont'[e] = "idle" /\ callee'[e] = NoEc
    BY SelfOK DEF Inv, TypeOK, TypeEc, EnterHelp, Goto, scVars
  <1>4. Grows
    BY <1>1, GrowsSame
  <1> QED BY <1>1, <1>2, <1>3, <1>4, IdlesBusy

\* Ec::rendezvous.
LEMMA RendezvousIdles ==
    ASSUME Inv, Calls, Chains, Idles, NEW c \in CPUs, pc[c] \in {"sys_ipc_call", "send_msg"},
           NEW s \in Local, NEW x, NEW y, Rendezvous(c, s, x, y)
    PROVE  Idles'
  <1>1. Others(c) /\ UNCHANGED cur /\ UNCHANGED <<ready, release, scq>> /\ pc[c] \notin IdlePcs
    BY DEF Inv, TypeOK, TypeCtl, TypeEc, Others, IdlePcs, Handlers, Rendezvous, MakeCurrent, Leave, Call, Goto, scVars
  <1>2. Between(c) => UNCHANGED <<cont, callee>>
    BY DEF Between, Rendezvous, MakeCurrent, Leave, Call, Goto, scVars
  <1>3. \A e \in ECs : e # ec[c] /\ cont[e] = "idle" /\ callee[e] = NoEc /\ e \notin Local =>
            cont'[e] = "idle" /\ callee'[e] = NoEc
    BY SelfOK DEF Inv, TypeOK, TypeEc, Rendezvous, MakeCurrent, Leave, Call, Goto, scVars
  <1>4. Grows
    BY <1>1, GrowsSame
  <1> QED BY <1>1, <1>2, <1>3, <1>4, IdlesBusy

\* Ec::reply.
LEMMA ReplyIdles ==
    ASSUME Inv, Calls, Chains, Idles, NEW c \in CPUs, pc[c] \in {"user", "kill", "dead", "blocking"}, NEW x, NEW k, Reply(c, x, k)
    PROVE  Idles'
  <1>1. Others(c) /\ UNCHANGED cur /\ UNCHANGED <<ready, release, scq>> /\ pc[c] \notin IdlePcs
    BY DEF Inv, TypeOK, TypeCtl, TypeEc, Others, IdlePcs, Handlers, Reply, MakeCurrent, EnterActivate, Leave, Call, Goto, scVars
  <1>2. Between(c) => UNCHANGED <<cont, callee>>
    BY DEF Between, Reply, MakeCurrent, EnterActivate, Leave, Call, Goto, scVars
  <1>3. \A e \in ECs : e # ec[c] /\ cont[e] = "idle" /\ callee[e] = NoEc /\ e \notin Local =>
            cont'[e] = "idle" /\ callee'[e] = NoEc
    <2>1. /\ ec[c] \in ECs /\ caller[ec[c]] \in ECs \cup {NoEc}
          /\ caller[ec[c]] # NoEc => callee[caller[ec[c]]] = ec[c]
          /\ NoEc \notin ECs
      BY SelfOK DEF Calls, LinkOK
    <2>2. \A e \in ECs : e # ec[c] /\ e # caller[ec[c]] =>
             cont'[e] = cont[e] /\ callee'[e] = callee[e]
      BY <2>1 DEF Inv, TypeOK, TypeEc, Reply
    <2> QED BY <2>1, <2>2
  <1>4. Grows
    BY <1>1, GrowsSame
  <1> QED BY <1>1, <1>2, <1>3, <1>4, IdlesBusy

\* recv_user and recv_kern.
LEMMA RecvIdles ==
    ASSUME Inv, Calls, Chains, Idles, NEW c \in CPUs, Recv(c)
    PROVE  Idles'
  <1>1. Others(c) /\ UNCHANGED cur /\ UNCHANGED <<ready, release, scq>> /\ pc[c] \notin IdlePcs
    BY DEF Inv, TypeOK, TypeCtl, TypeEc, Others, IdlePcs, Handlers, Recv, Goto, ecVars, scVars
  <1>2. Between(c) => UNCHANGED <<cont, callee>>
    BY DEF Between, Recv, Goto, ecVars, scVars
  <1>3. \A e \in ECs : e # ec[c] /\ cont[e] = "idle" /\ callee[e] = NoEc /\ e \notin Local =>
            cont'[e] = "idle" /\ callee'[e] = NoEc
    BY SelfOK DEF Inv, TypeOK, TypeEc, Recv, Goto, ecVars, scVars
  <1>4. Grows
    BY <1>1, GrowsSame
  <1> QED BY <1>1, <1>2, <1>3, <1>4, IdlesBusy

\* ret_user_hypercall and ret_user_exception.
LEMMA RetUserIdles ==
    ASSUME Inv, Calls, Chains, Idles, NEW c \in CPUs, RetUser(c)
    PROVE  Idles'
  <1>1. Others(c) /\ UNCHANGED cur /\ UNCHANGED <<ready, release, scq>> /\ pc[c] \notin IdlePcs
    BY DEF Inv, TypeOK, TypeCtl, TypeEc, Others, IdlePcs, Handlers, RetUser, Goto, scVars
  <1>2. Between(c) => UNCHANGED <<cont, callee>>
    BY DEF Between, RetUser, Goto, scVars
  <1>3. \A e \in ECs : e # ec[c] /\ cont[e] = "idle" /\ callee[e] = NoEc /\ e \notin Local =>
            cont'[e] = "idle" /\ callee'[e] = NoEc
    BY SelfOK DEF Inv, TypeOK, TypeEc, RetUser, Goto, scVars
  <1>4. Grows
    BY <1>1, GrowsSame
  <1> QED BY <1>1, <1>2, <1>3, <1>4, IdlesBusy

\* A helper activates the handler it waits for.
LEMMA HelpIdles ==
    ASSUME Inv, Calls, Chains, Idles, NEW c \in CPUs, Help(c)
    PROVE  Idles'
  <1>1. Others(c) /\ UNCHANGED cur /\ UNCHANGED <<ready, release, scq>> /\ pc[c] \notin IdlePcs
    BY DEF Inv, TypeOK, TypeCtl, TypeEc, Others, IdlePcs, Handlers, Help, EnterActivate, Call, Goto, scVars
  <1>2. Between(c) => UNCHANGED <<cont, callee>>
    BY DEF Between, Help, EnterActivate, Call, Goto, scVars
  <1>3. \A e \in ECs : e # ec[c] /\ cont[e] = "idle" /\ callee[e] = NoEc /\ e \notin Local =>
            cont'[e] = "idle" /\ callee'[e] = NoEc
    BY SelfOK DEF Inv, TypeOK, TypeEc, Help, EnterActivate, Call, Goto, scVars
  <1>4. Grows
    BY <1>1, GrowsSame
  <1> QED BY <1>1, <1>2, <1>3, <1>4, IdlesBusy

\* Sm::dn with tokens left.
LEMMA DnFastIdles ==
    ASSUME Inv, Calls, Chains, Idles, NEW c \in CPUs, DnFast(c)
    PROVE  Idles'
  <1>1. Others(c) /\ UNCHANGED cur /\ UNCHANGED <<ready, release, scq>> /\ pc[c] \notin IdlePcs
    BY DEF Inv, TypeOK, TypeCtl, TypeEc, Others, IdlePcs, Handlers, DnFast, User, Goto, ecVars, scVars
  <1>2. Between(c) => UNCHANGED <<cont, callee>>
    BY DEF Between, DnFast, User, Goto, ecVars, scVars
  <1>3. \A e \in ECs : e # ec[c] /\ cont[e] = "idle" /\ callee[e] = NoEc /\ e \notin Local =>
            cont'[e] = "idle" /\ callee'[e] = NoEc
    BY SelfOK DEF Inv, TypeOK, TypeEc, DnFast, User, Goto, ecVars, scVars
  <1>4. Grows
    BY <1>1, GrowsSame
  <1> QED BY <1>1, <1>2, <1>3, <1>4, IdlesBusy

\* Sm::dn without tokens.
LEMMA DnBlockIdles ==
    ASSUME Inv, Calls, Chains, Idles, NEW c \in CPUs, DnBlock(c)
    PROVE  Idles'
  <1>1. Others(c) /\ UNCHANGED cur /\ UNCHANGED <<ready, release, scq>> /\ pc[c] \notin IdlePcs
    BY DEF Inv, TypeOK, TypeCtl, TypeEc, Others, IdlePcs, Handlers, DnBlock, User, Goto, scVars
  <1>2. Between(c) => UNCHANGED <<cont, callee>>
    BY DEF Between, DnBlock, User, Goto, scVars
  <1>3. \A e \in ECs : e # ec[c] /\ cont[e] = "idle" /\ callee[e] = NoEc /\ e \notin Local =>
            cont'[e] = "idle" /\ callee'[e] = NoEc
    BY SelfOK DEF Inv, TypeOK, TypeEc, DnBlock, User, Goto, scVars
  <1>4. Grows
    BY <1>1, GrowsSame
  <1> QED BY <1>1, <1>2, <1>3, <1>4, IdlesBusy

\* Ec::sys_finish.
LEMMA SysFinishIdles ==
    ASSUME Inv, Calls, Chains, Idles, NEW c \in CPUs, SysFinish(c)
    PROVE  Idles'
  <1>1. Others(c) /\ UNCHANGED cur /\ UNCHANGED <<ready, release, scq>> /\ pc[c] \notin IdlePcs
    BY DEF Inv, TypeOK, TypeCtl, TypeEc, Others, IdlePcs, Handlers, SysFinish, Goto, ecVars, scVars
  <1>2. Between(c) => UNCHANGED <<cont, callee>>
    BY DEF Between, SysFinish, Goto, ecVars, scVars
  <1>3. \A e \in ECs : e # ec[c] /\ cont[e] = "idle" /\ callee[e] = NoEc /\ e \notin Local =>
            cont'[e] = "idle" /\ callee'[e] = NoEc
    BY SelfOK DEF Inv, TypeOK, TypeEc, SysFinish, Goto, ecVars, scVars
  <1>4. Grows
    BY <1>1, GrowsSame
  <1> QED BY <1>1, <1>2, <1>3, <1>4, IdlesBusy

\* sys_create_sc sends the IPI.
LEMMA NotifyCreatedIdles ==
    ASSUME Inv, Calls, Chains, Idles, NEW c \in CPUs, NotifyCreated(c)
    PROVE  Idles'
  <1>1. Others(c) /\ UNCHANGED cur /\ UNCHANGED <<ready, release, scq>> /\ pc[c] \notin IdlePcs
    BY DEF Inv, TypeOK, TypeCtl, TypeEc, Others, IdlePcs, Handlers, NotifyCreated, Leave, Call, Goto, ecVars
  <1>2. Between(c) => UNCHANGED <<cont, callee>>
    BY DEF Between, NotifyCreated, Leave, Call, Goto, ecVars
  <1>3. \A e \in ECs : e # ec[c] /\ cont[e] = "idle" /\ callee[e] = NoEc /\ e \notin Local =>
            cont'[e] = "idle" /\ callee'[e] = NoEc
    BY SelfOK DEF Inv, TypeOK, TypeEc, NotifyCreated, Leave, Call, Goto, ecVars
  <1>4. Grows
    BY <1>1, GrowsSame
  <1> QED BY <1>1, <1>2, <1>3, <1>4, IdlesBusy

\* sys_create_sc.
LEMMA SysCreateScIdles ==
    ASSUME Inv, Calls, Chains, Idles, NEW c \in CPUs, SysCreateSc(c)
    PROVE  Idles'
  <1>1. Others(c) /\ UNCHANGED cur /\ pc[c] \notin IdlePcs
    BY DEF Inv, TypeOK, TypeCtl, TypeEc, Others, IdlePcs, Handlers, SysCreateSc, User, Call, Goto, ecVars
  <1>2. Between(c) => UNCHANGED <<cont, callee>>
    BY DEF Between, SysCreateSc, User, Call, Goto, ecVars
  <1>3. \A e \in ECs : e # ec[c] /\ cont[e] = "idle" /\ callee[e] = NoEc /\ e \notin Local =>
            cont'[e] = "idle" /\ callee'[e] = NoEc
    BY SelfOK DEF Inv, TypeOK, TypeEc, SysCreateSc, User, Call, Goto, ecVars
  <1>4. Grows
    BY <1>1, CreateGrows
  <1> QED BY <1>1, <1>2, <1>3, <1>4, IdlesBusy

\* The rest of Sm::dn.
LEMMA DnBlockScIdles ==
    ASSUME Inv, Calls, Chains, Idles, NEW c \in CPUs, DnBlockSc(c)
    PROVE  Idles'
  <1>1. /\ Others(c) /\ UNCHANGED <<cont, callee, cur, ready, release>> /\ ~Between(c)
        /\ pc[c] \notin IdlePcs
    BY DEF Inv, TypeOK, TypeCtl, Others, DnBlockSc, Goto, scVars, Between, IdlePcs, Handlers
  <1>2. Grows
    <2>1. CASE Blocked(ec[c])
      <3>1. PICK e \in ECs : EcCpu[e] = c /\ scq' = [scq EXCEPT ![e] = Append(@, cur[c])]
        BY <2>1 DEF Inv, TypeOK, TypeEc, Control, CpuOK, DnBlockSc
      <3> QED BY <1>1, <3>1, BlockGrows
    <2>2. CASE ~Blocked(ec[c])
      BY <1>1, <2>2, GrowsSame DEF DnBlockSc
    <2> QED BY <2>1, <2>2
  <1> QED BY <1>1, <1>2, IdlesBusy

\* The RRQ IPI.
LEMMA HandleRrqIdles ==
    ASSUME Inv, Idles, NEW c \in CPUs, HandleRrq(c), UNCHANGED ecVars
    PROVE  Idles'
  <1>1. Others(c) /\ UNCHANGED <<cur, ec, cont, callee>> /\ UNCHANGED <<ready, release, scq>>
    BY DEF Inv, TypeOK, TypeCtl, Others, HandleRrq, Call, Goto, Resume, Interruptible, ecVars
  <1>2. IdleRun(c)' /\ ~Between(c)'
    <2>1. IdleRun(c) /\ CpuOK(c)
      BY DEF Idles, IdleOK, Inv, Control
    <2> QED BY <1>1, <2>1 DEF Inv, TypeOK, TypeCtl, CpuOK, IdleRun, IdlePcs, IdleEc, Handlers,
          Resumes, Between, HandleRrq, Call, Goto, Resume, Interruptible, ecVars
  <1>3. Grows
    BY <1>1, GrowsSame
  <1> QED BY <1>1, <1>2, <1>3, IdlesKept DEF Idles, IdleOK

\* Scheduler::requeue.
LEMMA RequeueIdles ==
    ASSUME Inv, Idles, NEW c \in CPUs, Requeue(c), UNCHANGED ecVars
    PROVE  Idles'
  <1>1. Others(c) /\ UNCHANGED <<cur, ec, cont, callee>>
    BY DEF Inv, TypeOK, TypeCtl, Others, Requeue, Leave, Call, Goto, ctlVars, ecVars
  <1>2. IdleRun(c)' /\ ~Between(c)'
    <2>1. IdleRun(c) /\ CpuOK(c)
      BY DEF Idles, IdleOK, Inv, Control
    <2> QED BY <1>1, <2>1 DEF Inv, TypeOK, TypeCtl, CpuOK, IdleRun, IdlePcs, IdleEc, Handlers,
          Resumes, Between, Requeue, Leave, Call, Goto, ctlVars, ecVars
  <1>3. Grows
    BY <1>1, RequeueGrows DEF ecVars
  <1> QED BY <1>1, <1>2, <1>3, IdlesKept DEF Idles, IdleOK

\* The budget timeout.
LEMMA BudgetTimeoutIdles ==
    ASSUME Inv, Idles, NEW c \in CPUs, BudgetTimeout(c), UNCHANGED ecVars
    PROVE  Idles'
  <1>1. Others(c) /\ UNCHANGED <<cur, ec, cont, callee>> /\ UNCHANGED <<ready, release, scq>>
    BY DEF Inv, TypeOK, TypeCtl, Others, BudgetTimeout, Goto, Resume, Interruptible, ecVars
  <1>2. IdleRun(c)' /\ ~Between(c)'
    <2>1. IdleRun(c) /\ CpuOK(c)
      BY DEF Idles, IdleOK, Inv, Control
    <2> QED BY <1>1, <2>1 DEF Inv, TypeOK, TypeCtl, CpuOK, IdleRun, IdlePcs, IdleEc, Handlers,
          Resumes, Between, BudgetTimeout, Goto, Resume, Interruptible, ecVars
  <1>3. Grows
    BY <1>1, GrowsSame
  <1> QED BY <1>1, <1>2, <1>3, IdlesKept DEF Idles, IdleOK

\* unblock_sc takes the lock.
LEMMA UnblockScIdles ==
    ASSUME Inv, Idles, NEW c \in CPUs, UnblockSc(c)
    PROVE  Idles'
  <1>1. Others(c) /\ UNCHANGED <<cur, ec, cont, callee>> /\ UNCHANGED <<ready, release, scq>>
    BY DEF Inv, TypeOK, TypeCtl, Others, UnblockSc, Goto, ecVars, scVars
  <1>2. IdleRun(c)' /\ ~Between(c)'
    <2>1. IdleRun(c) /\ CpuOK(c)
      BY DEF Idles, IdleOK, Inv, Control
    <2> QED BY <1>1, <2>1 DEF Inv, TypeOK, TypeCtl, CpuOK, IdleRun, IdlePcs, IdleEc, Handlers,
          Resumes, Between, UnblockSc, Goto, ecVars, scVars
  <1>3. Grows
    BY <1>1, GrowsSame
  <1> QED BY <1>1, <1>2, <1>3, IdlesKept DEF Idles, IdleOK

\* unblock_sc takes an SC off the queue.
LEMMA UnblockLoopIdles ==
    ASSUME Inv, Idles, NEW c \in CPUs, UnblockLoop(c)
    PROVE  Idles'
  <1>1. Others(c) /\ UNCHANGED <<cur, ec, cont, callee>>
    BY DEF Inv, TypeOK, TypeCtl, Others, UnblockLoop, Leave, Call, Goto, ctlVars
  <1>2. IdleRun(c)' /\ ~Between(c)'
    <2>1. IdleRun(c) /\ CpuOK(c)
      BY DEF Idles, IdleOK, Inv, Control
    <2> QED BY <1>1, <2>1 DEF Inv, TypeOK, TypeCtl, CpuOK, IdleRun, IdlePcs, IdleEc, Handlers,
          Resumes, Between, UnblockLoop, Leave, Call, Goto, ctlVars
  <1>3. Grows
    BY <1>1, UnblockGrows
  <1> QED BY <1>1, <1>2, <1>3, IdlesKept DEF Idles, IdleOK

\* unblock_sc sends the IPI.
LEMMA NotifyIdles ==
    ASSUME Inv, Idles, NEW c \in CPUs, Notify(c)
    PROVE  Idles'
  <1>1. Others(c) /\ UNCHANGED <<cur, ec, cont, callee>> /\ UNCHANGED <<ready, release, scq>>
    BY DEF Inv, TypeOK, TypeCtl, Others, Notify, Goto, ecVars
  <1>2. IdleRun(c)' /\ ~Between(c)'
    <2>1. IdleRun(c) /\ CpuOK(c)
      BY DEF Idles, IdleOK, Inv, Control
    <2> QED BY <1>1, <2>1 DEF Inv, TypeOK, TypeCtl, CpuOK, IdleRun, IdlePcs, IdleEc, Handlers,
          Resumes, Between, Notify, Goto, ecVars
  <1>3. Grows
    BY <1>1, GrowsSame
  <1> QED BY <1>1, <1>2, <1>3, IdlesKept DEF Idles, IdleOK

\* Sm::up without a waiter.
LEMMA UpCountIdles ==
    ASSUME Inv, Idles, NEW c \in CPUs, NEW M \in SUBSET SMs, NEW r, UpFrom(c, r), UpCount(c, M, r)
    PROVE  Idles'
  <1>1. Others(c) /\ UNCHANGED <<cur, ec, cont, callee>> /\ UNCHANGED <<ready, release, scq>>
    BY DEF Inv, TypeOK, TypeCtl, Others, UpFrom, UpCount, User, Interruptible, Resume, Goto, ecVars, scVars
  <1>2. IdleRun(c)' /\ ~Between(c)'
    <2>1. IdleRun(c) /\ CpuOK(c)
      BY DEF Idles, IdleOK, Inv, Control
    <2> QED BY <1>1, <2>1 DEF Inv, TypeOK, TypeCtl, CpuOK, IdleRun, IdlePcs, IdleEc, Handlers,
          Resumes, Between, UpFrom, UpCount, User, Interruptible, Resume, Goto, ecVars, scVars
  <1>3. Grows
    BY <1>1, GrowsSame
  <1> QED BY <1>1, <1>2, <1>3, IdlesKept DEF Idles, IdleOK

\* Scheduler::schedule, the SC staying ready.
LEMMA ScheduleReadyIdles ==
    ASSUME Inv, Idles, NEW c \in CPUs, Schedule(c, FALSE), UNCHANGED ecVars
    PROVE  Idles'
  <1>1. Others(c) /\ UNCHANGED <<cont, callee, scq>> /\ pc'[c] = "pick"
    BY DEF Inv, TypeOK, TypeCtl, Others, Schedule, Goto, ecVars
  <1>2. Grows /\ InReady(cur[c])' /\ cur' = cur
    BY <1>1, ScheduleGrows
  <1>3. IdleRun(c)'
    BY <1>1 DEF IdleRun, IdlePcs, Handlers
  <1>4. cur[c] = IdleSc[c] => InReady(IdleSc[c])'
    <2>1. cur'[c] = cur[c]
      BY <1>2
    <2> QED BY <1>2, <2>1 DEF InReady, ScCpu
  <1> QED BY <1>1, <1>2, <1>3, <1>4, IdlesKept DEF Idles, IdleOK

\* Ec::activate goes down the chain: not for the idle SC, whose EC calls nobody.
LEMMA ActivateWalkIdles ==
    ASSUME Inv, Idles, NEW c \in CPUs, ActivateWalk(c)
    PROVE  Idles'
  <1>1. /\ Others(c) /\ UNCHANGED <<pc, ec, cont, callee, cur, ready, release, scq>>
        /\ pc[c] = "activate" /\ callee[arg[c]] # NoEc
    BY DEF Inv, TypeOK, TypeCtl, Others, ActivateWalk, scVars
  <1>2. cur[c] # IdleSc[c]
    BY <1>1 DEF Idles, IdleOK, IdleRun
  <1>3. IdleRun(c)' /\ ~Between(c)'
    BY <1>1, <1>2 DEF IdleRun, Between
  <1>4. Grows
    BY <1>1, GrowsSame
  <1> QED BY <1>1, <1>3, <1>4, IdlesKept DEF Idles, IdleOK

\* Ec::activate runs the EC at the end of the chain.
LEMMA ActivateRunIdles ==
    ASSUME Inv, Idles, NEW c \in CPUs, ActivateRun(c)
    PROVE  Idles'
  <1>1. /\ Others(c) /\ UNCHANGED <<cont, callee, cur, ready, release, scq>>
        /\ pc[c] = "activate" /\ pc'[c] = cont[arg[c]] /\ ec'[c] = arg[c]
    BY DEF Inv, TypeOK, TypeCtl, TypeEc, Others, ActivateRun, MakeCurrent, Leave, Call, Goto,
           scVars
  <1>2. arg[c] \in ECs
    BY <1>1 DEF Inv, Control, CpuOK
  <1>3. cont[arg[c]] \in Conts
    BY <1>2 DEF Inv, TypeOK, TypeEc
  <1>4. ~Between(c)'
    BY <1>1, <1>3 DEF Conts, Between
  <1>5. IdleRun(c)'
    <2> SUFFICES ASSUME cur[c] = IdleSc[c]
                 PROVE  pc'[c] = "idle" /\ ec'[c] = IdleEc(c)
      BY <1>1 DEF IdleRun, IdlePcs, Handlers, IdleEc
    <2>1. arg[c] = IdleEc(c) /\ cont[IdleEc(c)] = "idle"
      BY <1>1 DEF Idles, IdleOK, IdleRun
    <2> QED BY <1>1, <2>1
  <1>6. Grows
    BY <1>1, GrowsSame
  <1> QED BY <1>1, <1>4, <1>5, <1>6, IdlesKept DEF Idles, IdleOK

\* Ec::activate finds a blocked EC: not the idle one.
LEMMA ActivateBlockScIdles ==
    ASSUME Inv, Idles, NEW c \in CPUs, ActivateBlockSc(c)
    PROVE  Idles'
  <1>1. /\ Others(c) /\ UNCHANGED <<cont, callee, cur, ready, release>>
        /\ pc[c] = "activate" /\ Blocked(arg[c]) /\ ~Between(c)
        /\ scq' = [scq EXCEPT ![arg[c]] = Append(@, cur[c])]
    BY DEF Inv, TypeOK, TypeCtl, Others, ActivateBlockSc, Leave, Call, Goto, scVars, Between
  <1>2. PICK e \in ECs : e = arg[c] /\ EcCpu[e] = c
    BY <1>1 DEF Inv, Control, CpuOK
  <1>3. cur[c] # IdleSc[c]
    BY <1>1 DEF Idles, IdleOK, IdleRun, Blocked
  <1>4. IdleRun(c)'
    BY <1>1, <1>3 DEF IdleRun
  <1>5. Grows
    BY <1>1, <1>2, BlockGrows
  <1> QED BY <1>1, <1>3, <1>4, <1>5, IdlesKept DEF Idles, IdleOK

\* Ready::dequeue may take the idle SC, which then is the current one.
LEMMA PickIdles ==
    ASSUME Inv, Idles, NEW c \in CPUs, Pick(c)
    PROVE  Idles'
  <1>1. /\ Others(c) /\ UNCHANGED <<cont, callee>> /\ pc'[c] = "activate"
        /\ Between(c) /\ arg'[c] = ScEc[ReadyHead(c)]
        /\ cur' = [cur EXCEPT ![c] = ReadyHead(c)] /\ ReadyDequeue(c)
    BY DEF Inv, TypeOK, TypeCtl, TypeEc, Others, Pick, EnterActivate, Call, Goto, Between
  <1>2. PICK h \in SCs : h = ReadyHead(c) /\ ScCpu(h) = c
    BY <1>1, QueueFacts, ReadyDel
  <1>3. \A r \in SCs : InReady(r)' <=> InReady(r) /\ r # h
    BY <1>1, <1>2, QueueFacts, ReadyDel
  <1>4. cur'[c] = h /\ \A d \in CPUs : d # c => cur'[d] = cur[d]
    BY <1>1, <1>2 DEF Inv, TypeOK, TypeSc
  <1> SUFFICES ASSUME NEW d \in CPUs PROVE IdleOK(d)'
    BY DEF Idles
  <1>5. IdleOK(d) /\ IdleSc[d] \in SCs /\ ScCpu(IdleSc[d]) = d
    BY IdleConst DEF Idles
  <1>6. CASE d = c
    <2>1. InReady(IdleSc[c])
      BY <1>1, <1>5, <1>6 DEF IdleOK
    <2>2. InReady(IdleSc[c])' \/ h = IdleSc[c]
      BY <1>3, <1>5, <1>6, <2>1
    <2>3. IdleRun(c)'
      BY <1>1, <1>2, <1>4 DEF IdleRun, IdlePcs, Handlers, IdleEc
    <2>4. ~Between(c)'
      BY <1>1 DEF Between
    <2> QED BY <1>1, <1>4, <1>5, <1>6, <2>2, <2>3, <2>4 DEF IdleOK, IdleEc
  <1>7. CASE d # c
    <2>1. h # IdleSc[d]
      BY <1>2, <1>5, <1>7
    <2>2. InReady(IdleSc[d]) => InReady(IdleSc[d])'
      BY <1>3, <1>5, <2>1
    <2>3. IdleRun(d)'
      BY <1>1, <1>4, <1>5, <1>7 DEF IdleOK, IdleRun, Others, IdleEc
    <2>4. cur'[d] = cur[d] /\ (Between(d)' <=> Between(d))
      BY <1>1, <1>4, <1>7 DEF Between, Others
    <2> QED BY <1>1, <1>5, <2>2, <2>3, <2>4 DEF IdleOK, IdleEc
  <1> QED BY <1>6, <1>7

\* The idle loop enters the scheduler.
LEMMA IdleLoopIdles ==
    ASSUME Inv, Idles, NEW c \in CPUs, IdleLoop(c)
    PROVE  Idles'
  <1>1. /\ Others(c) /\ UNCHANGED <<callee, cur, ready, release, scq>> /\ pc'[c] = "schedule"
        /\ \A e \in ECs : cont'[e] = cont[e] \/ cont'[e] = "idle"
    BY DEF Inv, TypeOK, TypeCtl, TypeEc, Others, IdleLoop, Goto, scVars
  <1>2. \A d \in CPUs : cont'[IdleEc(d)] = "idle" /\ callee'[IdleEc(d)] = NoEc
    BY <1>1, IdleConst DEF Idles, IdleOK
  <1>3. IdleRun(c)' /\ ~Between(c)'
    BY <1>1 DEF IdleRun, IdlePcs, Handlers, Between
  <1>4. Grows
    BY <1>1, GrowsSame
  <1> QED BY <1>1, <1>2, <1>3, <1>4, IdlesKept

\* Sm::up with a waiter, which is not an idle EC.
LEMMA UpWakeIdles ==
    ASSUME Inv, Calls, Idles, NEW c \in CPUs, NEW M \in SUBSET SMs, NEW r, UpFrom(c, r),
           UpWake(c, M, r)
    PROVE  Idles'
  <1>1. /\ Others(c) /\ UNCHANGED <<callee, ec, cur, ready, release, scq>>
        /\ pc'[c] = "unblock_sc" /\ ret'[c] = r
    BY DEF Inv, TypeOK, TypeCtl, Others, UpWake, Call, Goto, scVars
  <1>2. PICK m \in SMs : smq[m] # <<>> /\ cont' = [cont EXCEPT ![Head(smq[m])] = "sys_finish_success"]
    BY DEF UpWake
  <1>3. PICK e \in ECs : e = Head(smq[m]) /\ cont[e] = "blocking"
    <2>1. smq[m] \in Seq(ECs) /\ smq[m] # <<>>
      BY <1>2 DEF Inv, TypeOK, TypeSm
    <2>2. Head(smq[m]) \in ECs /\ Head(smq[m]) \in Elems(smq[m])
      BY <2>1 DEF Elems
    <2> QED BY <2>2 DEF Calls, Waiters
  <1>4. \A d \in CPUs : cont'[IdleEc(d)] = "idle" /\ callee'[IdleEc(d)] = NoEc
    <2> SUFFICES ASSUME NEW d \in CPUs
                 PROVE  cont'[IdleEc(d)] = "idle" /\ callee'[IdleEc(d)] = NoEc
      OBVIOUS
    <2>1. IdleEc(d) \in ECs /\ cont[IdleEc(d)] = "idle" /\ callee[IdleEc(d)] = NoEc
      BY IdleConst DEF Idles, IdleOK
    <2> QED BY <1>1, <1>2, <1>3, <2>1 DEF Inv, TypeOK, TypeEc
  <1>5. IdleRun(c)' /\ ~Between(c)'
    <2>1. IdleRun(c)
      BY DEF Idles, IdleOK
    <2> QED BY <1>1, <2>1 DEF IdleRun, IdlePcs, IdleEc, Handlers, Between, UpFrom, User,
                              Interruptible, Resume
  <1>6. Grows
    BY <1>1, GrowsSame
  <1> QED BY <1>1, <1>4, <1>5, <1>6, IdlesKept

\* A hypercall timeout fires, of an EC that waits or has been woken.
LEMMA SmTimeoutIdles ==
    ASSUME Inv, Calls, Waits, Idles, NEW c \in CPUs, SmTimeout(c)
    PROVE  Idles'
  <1>1. /\ Others(c) /\ UNCHANGED <<callee, ec, cur, ready, release, scq>>
        /\ Interruptible(c)
        /\ \/ pc'[c] = "unblock_sc" /\ ret'[c] = Resume(c)
           \/ pc'[c] = Resume(c)
    BY DEF Inv, TypeOK, TypeCtl, Others, SmTimeout, Call, Goto, scVars
  <1>2. PICK e \in ECs :
          /\ cont[e] \in {"blocking", "sys_finish_success"}
          /\ \A f \in ECs : f # e => cont'[f] = cont[f]
    BY SmTimeoutCont
  <1>3. \A d \in CPUs : cont'[IdleEc(d)] = "idle" /\ callee'[IdleEc(d)] = NoEc
    BY <1>1, <1>2, IdleConst DEF Idles, IdleOK
  <1>4. IdleRun(c)' /\ ~Between(c)'
    <2>1. IdleRun(c)
      BY DEF Idles, IdleOK
    <2> QED BY <1>1, <2>1 DEF IdleRun, IdlePcs, IdleEc, Handlers, Between, Interruptible, Resume
  <1>5. Grows
    BY <1>1, GrowsSame
  <1> QED BY <1>1, <1>3, <1>4, <1>5, IdlesKept

\* Every step keeps Idles.
LEMMA NextIdles == Inv /\ Calls /\ Waits /\ Chains /\ Idles /\ [Next]_vars => Idles'
  <1> SUFFICES ASSUME Inv, Calls, Waits, Chains, Idles, [Next]_vars PROVE Idles'
    OBVIOUS
  <1>1. CASE UNCHANGED vars
    <2>1. UNCHANGED <<pc, arg, ret, ec, cont, callee, ready, cur>>
      BY <1>1 DEF vars, ctlVars, ecVars, scVars
    <2> SUFFICES ASSUME NEW c \in CPUs PROVE IdleOK(c)'
      BY DEF Idles
    <2>2. IdleOK(c)
      BY DEF Idles
    <2>3. InReady(IdleSc[c])' <=> InReady(IdleSc[c])
      BY <2>1 DEF InReady, Elems, ScCpu
    <2> QED BY <2>1, <2>2, <2>3 DEF IdleOK, IdleRun, IdleEc, Between
  <1>2. ASSUME NEW c \in CPUs, SchedStep(c) PROVE Idles'
    BY <1>2, ScheduleBlockedIdles, ScheduleReadyIdles, HandleRrqIdles, RequeueIdles,
       BudgetTimeoutIdles DEF SchedStep
  <1>3. ASSUME NEW c \in CPUs, EcStep(c) PROVE Idles'
    <2>0. want[ec[c]] \in Local \cup {NoEc}
      BY <1>3, SelfOK
    <2>1. ASSUME SysIpcCall(c) \/ SendMsg(c) PROVE Idles'
      BY <2>0, <2>1, BailIdles, RendezvousIdles, EnterHelpIdles DEF SysIpcCall, SendMsg
    <2>2. ASSUME SysIpcReply(c) \/ Kill(c) PROVE Idles'
      BY <2>2, ReplyIdles DEF SysIpcReply, Kill, User
    <2> QED BY <1>3, <2>1, <2>2, ActivateWalkIdles, ActivateRunIdles, ActivateBlockScIdles,
       PickIdles, UnblockScIdles, UnblockLoopIdles, NotifyIdles, NamePortalIdles,
       HelpIdles, RecvIdles, RetUserIdles, IdleLoopIdles, SysCreateScIdles,
       NotifyCreatedIdles DEF EcStep, CallPortal, RaiseException
  <1>4. ASSUME NEW c \in CPUs, SmStep(c) PROVE Idles'
    <2>1. ASSUME SysUp(c) \/ GsiUp(c) PROVE Idles'
      BY <2>1, UpCountIdles, UpWakeIdles, SmAssumption DEF SysUp, GsiUp, UpFrom
    <2> QED BY <1>4, <2>1, DnFastIdles, DnBlockIdles, DnBlockScIdles, SmTimeoutIdles,
       SysFinishIdles DEF SmStep
  <1> QED BY <1>1, <1>2, <1>3, <1>4 DEF Next

\* Idles holds at bootstrap.
LEMMA InitIdles == Init => Idles
  <1> SUFFICES ASSUME Init, NEW c \in CPUs PROVE IdleOK(c)
    BY DEF Idles
  <1>1. IdleEc(c) \in IdleEcs /\ IdleEc(c) \in ECs
    BY IdleConst DEF IdleEc, IdleEcs
  <1>2. cont[IdleEc(c)] = "idle" /\ callee[IdleEc(c)] = NoEc
    BY <1>1 DEF Init
  <1>3. pc[c] = "schedule" /\ cur[c] = IdleSc[c]
    BY DEF Init
  <1> QED BY <1>2, <1>3 DEF IdleOK, IdleRun, IdlePcs, Handlers, Between

\* prio_top of CPU c: nothing above it, and something at it unless it is 0.
TopOK(c) == /\ \A p \in top[c] + 1 .. MaxPrio : ready[c][p] = <<>>
            /\ top[c] = 0 \/ ready[c][top[c]] # <<>>

Tops == \A c \in CPUs : TopOK(c)

\* Ready::enqueue raises prio_top.
LEMMA TopsAdd ==
    ASSUME TypeSc, Tops, NEW c \in CPUs, NEW s \in SCs, NEW l, NEW h, ReadyEnqueue(c, s, l, h)
    PROVE  Tops'
  <1>1. PICK n : n = IF l THEN <<s>> \o ready[c][Prio[s]] ELSE Append(ready[c][Prio[s]], s)
    OBVIOUS
  <1>2. /\ Prio[s] \in 0 .. MaxPrio /\ top[c] \in 0 .. MaxPrio /\ MaxPrio \in Nat
        /\ ready[c] \in [0 .. MaxPrio -> Seq(SCs)] /\ ready[c][Prio[s]] \in Seq(SCs)
    <2>1. Prio[s] \in 0 .. MaxPrio
      BY Constants
    <2>2. MaxPrio \in Nat
      BY SchedAssumption
    <2> QED BY <2>1, <2>2 DEF TypeSc
  <1>3. n # <<>>
    <2>1. l => Len(n) > 0
      BY <1>1, <1>2
    <2>2. ~l => Len(n) > 0
      BY <1>1, <1>2
    <2> QED BY <2>1, <2>2
  <1>4. ready' = [ready EXCEPT ![c] = [ready[c] EXCEPT ![Prio[s]] = n]]
    BY <1>1 DEF ReadyEnqueue
  <1>5. /\ ready'[c] = [ready[c] EXCEPT ![Prio[s]] = n]
        /\ \A d \in CPUs : d # c => ready'[d] = ready[d]
    BY <1>4 DEF TypeSc
  <1>6. /\ top'[c] = IF Prio[s] > top[c] THEN Prio[s] ELSE top[c]
        /\ \A d \in CPUs : d # c => top'[d] = top[d]
    BY DEF TypeSc, ReadyEnqueue
  <1>7. TopOK(c)'
    <2>1. TopOK(c)
      BY DEF Tops
    <2>2. \A p \in 0 .. MaxPrio : ready'[c][p] = IF p = Prio[s] THEN n ELSE ready[c][p]
      BY <1>2, <1>5
    <2>3. top'[c] \in 0 .. MaxPrio
      BY <1>2, <1>6
    <2>4. ASSUME NEW p \in top'[c] + 1 .. MaxPrio PROVE ready'[c][p] = <<>>
      <3>1. p \in 0 .. MaxPrio /\ p # Prio[s] /\ p \in top[c] + 1 .. MaxPrio
        BY <1>2, <1>6, <2>3
      <3> QED BY <2>1, <2>2, <3>1 DEF TopOK
    <2>5. top'[c] = 0 \/ ready'[c][top'[c]] # <<>>
      BY <1>2, <1>3, <1>6, <2>1, <2>2, <2>3 DEF TopOK
    <2> QED BY <2>4, <2>5 DEF TopOK
  <1>8. \A d \in CPUs : d # c => TopOK(d)'
    BY <1>5, <1>6 DEF Tops, TopOK
  <1> QED BY <1>7, <1>8 DEF Tops

\* Ready::dequeue lowers it.
LEMMA TopsDel ==
    ASSUME TypeSc, Tops, NEW c \in CPUs, ReadyDequeue(c)
    PROVE  Tops'
  <1>1. PICK r : r = [ready[c] EXCEPT ![top[c]] = Tail(@)]
    OBVIOUS
  <1>2. PICK p \in 0 .. MaxPrio : IsTop(r, top[c], p) /\ top' = [top EXCEPT ![c] = p]
    BY <1>1, Zenon DEF ReadyDequeue
  <1>3. ready' = [ready EXCEPT ![c] = r]
    BY <1>1, Zenon DEF ReadyDequeue
  <1>4. /\ ready'[c] = r /\ top'[c] = p
        /\ \A d \in CPUs : d # c => ready'[d] = ready[d] /\ top'[d] = top[d]
    BY <1>2, <1>3 DEF TypeSc
  <1>5. /\ top[c] \in 0 .. MaxPrio /\ MaxPrio \in Nat
        /\ ready[c] \in [0 .. MaxPrio -> Seq(SCs)]
    <2>1. MaxPrio \in Nat
      BY SchedAssumption
    <2> QED BY <2>1 DEF TypeSc
  <1>6. TopOK(c)'
    <2>1. ASSUME NEW q \in p + 1 .. MaxPrio PROVE r[q] = <<>>
      <3>1. CASE q <= top[c]
        <4>1. q \in p + 1 .. top[c]
          BY <1>2, <1>5, <3>1
        <4> QED BY <1>2, <4>1 DEF IsTop
      <3>2. CASE ~(q <= top[c])
        <4>1. q \in top[c] + 1 .. MaxPrio /\ q # top[c] /\ q \in 0 .. MaxPrio
          BY <1>2, <1>5, <3>2
        <4>2. ready[c][q] = <<>>
          BY <4>1 DEF Tops, TopOK
        <4> QED BY <1>1, <1>5, <4>1, <4>2
      <3> QED BY <3>1, <3>2
    <2>2. p = 0 \/ r[p] # <<>>
      BY <1>2 DEF IsTop
    <2> QED BY <1>4, <2>1, <2>2 DEF TopOK
  <1>7. \A d \in CPUs : d # c => TopOK(d)'
    BY <1>4 DEF Tops, TopOK
  <1> QED BY <1>6, <1>7 DEF Tops

\* A step that leaves the ready queues alone.
LEMMA TopsSame ==
    ASSUME Tops, UNCHANGED <<ready, top>>
    PROVE  Tops'
  BY DEF Tops, TopOK

\* The scheduler.
LEMMA SchedTops ==
    ASSUME Inv, Tops, NEW c \in CPUs, SchedStep(c)
    PROVE  Tops'
  <1>1. TypeSc /\ cur[c] \in SCs /\ release[c] \in Seq(SCs)
    BY DEF Inv, TypeOK, TypeSc
  <1>2. CASE Schedule(c, TRUE) \/ HandleRrq(c) \/ BudgetTimeout(c)
    BY <1>2, TopsSame DEF Schedule, HandleRrq, BudgetTimeout
  <1>3. CASE Schedule(c, FALSE)
    BY <1>1, <1>3, TopsAdd DEF Schedule
  <1>4. CASE Requeue(c)
    <2>1. CASE release[c] = <<>>
      BY <1>4, <2>1, TopsSame DEF Requeue
    <2>2. CASE release[c] # <<>>
      <3>1. PICK s \in SCs : s = Head(release[c])
        BY <1>1, <2>2
      <3>2. ReadyEnqueue(c, s, left[s], sched[c])
        BY <1>4, <2>2, <3>1 DEF Requeue
      <3> QED BY <1>1, <3>2, TopsAdd
    <2> QED BY <2>1, <2>2
  <1> QED BY <1>2, <1>3, <1>4 DEF SchedStep

\* unblock_sc.
LEMMA UnblockTops ==
    ASSUME Inv, Tops, NEW c \in CPUs, UnblockLoop(c)
    PROVE  Tops'
  <1>1. TypeSc /\ arg[c] \in ECs /\ scq[arg[c]] \in Seq(SCs)
    BY DEF Inv, TypeOK, TypeEc, Control, CpuOK, UnblockLoop
  <1>2. CASE scq[arg[c]] = <<>>
    BY <1>2, TopsSame DEF UnblockLoop
  <1>3. CASE scq[arg[c]] # <<>>
    <2>1. PICK s \in SCs : s = Head(scq[arg[c]])
      BY <1>1, <1>3
    <2>2. CASE ScCpu(s) = c
      <3>1. ReadyEnqueue(c, s, left[s], sched[c])
        BY <1>3, <2>1, <2>2 DEF UnblockLoop
      <3> QED BY <1>1, <3>1, TopsAdd
    <2>3. CASE ScCpu(s) # c
      BY <1>3, <2>1, <2>3, TopsSame DEF UnblockLoop
    <2> QED BY <2>2, <2>3
  <1> QED BY <1>2, <1>3

\* sys_create_sc.
LEMMA CreateTops ==
    ASSUME Inv, Tops, NEW c \in CPUs, SysCreateSc(c)
    PROVE  Tops'
  <1>1. PICK s \in SCs : IF ScCpu(s) = c THEN ReadyEnqueue(c, s, left[s], sched[c])
                         ELSE UNCHANGED <<ready, top>>
    BY DEF SysCreateSc
  <1> QED BY <1>1, TopsAdd, TopsSame DEF Inv, TypeOK

\* Every step keeps Tops.
LEMMA NextTops == Inv /\ Tops /\ [Next]_vars => Tops'
  <1> SUFFICES ASSUME Inv, Tops, [Next]_vars PROVE Tops'
    OBVIOUS
  <1>1. CASE UNCHANGED vars
    BY <1>1, TopsSame DEF vars, scVars
  <1>2. ASSUME NEW c \in CPUs, SchedStep(c) PROVE Tops'
    BY <1>2, SchedTops
  <1>3. ASSUME NEW c \in CPUs, EcStep(c) PROVE Tops'
    <2>1. CASE Pick(c)
      BY <2>1, TopsDel DEF Pick, Inv, TypeOK
    <2>2. CASE UnblockLoop(c) \/ SysCreateSc(c)
      BY <2>2, UnblockTops, CreateTops
    <2>3. CASE ActivateWalk(c) \/ ActivateRun(c) \/ ActivateBlockSc(c) \/ UnblockSc(c) \/ Notify(c)
      BY <2>3, TopsSame DEF ActivateWalk, ActivateRun, ActivateBlockSc, UnblockSc, Notify, scVars
    <2>4. CASE CallPortal(c) \/ RaiseException(c) \/ SysIpcCall(c) \/ SendMsg(c)
      BY <2>4, TopsSame DEF CallPortal, RaiseException, NamePortal, SysIpcCall, SendMsg, Bail,
            Rendezvous, EnterHelp, scVars
    <2>5. CASE SysIpcReply(c) \/ Kill(c)
      BY <2>5, TopsSame DEF SysIpcReply, Kill, Reply, scVars
    <2>6. CASE Help(c) \/ Recv(c) \/ RetUser(c) \/ IdleLoop(c) \/ NotifyCreated(c)
      BY <2>6, TopsSame DEF Help, Recv, RetUser, IdleLoop, NotifyCreated, scVars
    <2> QED BY <1>3, <2>1, <2>2, <2>3, <2>4, <2>5, <2>6 DEF EcStep
  <1>4. ASSUME NEW c \in CPUs, SmStep(c) PROVE Tops'
    BY <1>4, TopsSame DEF SmStep, DnFast, DnBlock, DnBlockSc, SysUp, GsiUp, UpCount, UpWake,
       SmTimeout, SysFinish, scVars
  <1> QED BY <1>1, <1>2, <1>3, <1>4 DEF Next

\* Tops holds at bootstrap.
LEMMA InitTops == Init => Tops
  <1> SUFFICES ASSUME Init, NEW c \in CPUs PROVE TopOK(c)
    BY DEF Tops
  <1>1. ready = BootQ /\ IsTop(BootQ[c], MaxPrio, top[c])
    BY DEF Init
  <1> QED BY <1>1 DEF TopOK, IsTop

-----------------------------------------------------------------------------
(* Call chains, as the recursive functions of the specification see them.  *)

\* A set of numbers has a smallest element.
LEMMA Least ==
    ASSUME NEW T, T \subseteq Nat, T # {}
    PROVE  \E x \in T : \A y \in T : x <= y
  <1>0. PICK R : R = OpToRel(<, Nat)
    BY Zenon
  <1>1. IsWellFoundedOn(R, Nat)
    BY NatLessThanWellFounded, <1>0, Zenon
  <1>2. PICK x \in T : \A y \in T : ~(<<y, x>> \in R)
    BY <1>1, WFMin, Zenon
  <1>3. \A p, q \in Nat : <<q, p>> \in R <=> q < p
    BY <1>0 DEF OpToRel
  <1>4. \A y \in T : ~(y < x) /\ y \in Nat /\ x \in Nat
    BY <1>2, <1>3
  <1> QED BY <1>2, <1>4

\* f follows the links from start, n times.
IsPath(f, n, start, link) ==
    f = [i \in 0 .. n |-> IF i = 0 THEN start
                          ELSE IF f[i - 1] = NoEc THEN NoEc ELSE link[f[i - 1]]]

\* The same, element by element.
LEMMA PathAt ==
    ASSUME NEW n \in Nat, NEW start, NEW link, NEW f, IsPath(f, n, start, link)
    PROVE  /\ f[0] = start
           /\ \A i \in 0 .. n : i # 0 =>
                f[i] = IF f[i - 1] = NoEc THEN NoEc ELSE link[f[i - 1]]
           /\ \A i \in 0 .. n : f[i] = IF i = 0 THEN start
                                       ELSE IF f[i - 1] = NoEc THEN NoEc ELSE link[f[i - 1]]
  <1>1. PICK g : g = [i \in 0 .. n |-> IF i = 0 THEN start
                                       ELSE IF f[i - 1] = NoEc THEN NoEc ELSE link[f[i - 1]]]
    OBVIOUS
  <1>2. f = g
    BY <1>1 DEF IsPath
  <1>3. \A i \in 0 .. n : g[i] = IF i = 0 THEN start
                                 ELSE IF f[i - 1] = NoEc THEN NoEc ELSE link[f[i - 1]]
    BY <1>1
  <1>4. 0 \in 0 .. n
    OBVIOUS
  <1> QED BY <1>2, <1>3, <1>4

\* There is one such path ...
LEMMA PathExists ==
    ASSUME NEW n \in Nat, NEW start, NEW link
    PROVE  \E f : IsPath(f, n, start, link)
  <1> DEFINE T == {m \in Nat : ~ \E f : IsPath(f, m, start, link)}
  <1> SUFFICES ASSUME T # {} PROVE FALSE
    OBVIOUS
  <1>1. PICK m \in T : \A k \in T : m <= k
    BY Least
  <1>2. m \in Nat /\ ~ \E f : IsPath(f, m, start, link)
    OBVIOUS
  <1>3. \A k \in Nat : k < m => \E f : IsPath(f, k, start, link)
    BY <1>1, <1>2
  <1> HIDE DEF T
  <1>4. CASE m = 0
    <2>1. PICK f : f = [i \in 0 .. m |-> start]
      OBVIOUS
    <2>2. f = [i \in 0 .. m |-> IF i = 0 THEN start
                                ELSE IF f[i - 1] = NoEc THEN NoEc ELSE link[f[i - 1]]]
      BY <1>4, <2>1
    <2> QED BY <1>2, <2>2 DEF IsPath
  <1>5. CASE m # 0
    <2>1. m - 1 \in Nat /\ m - 1 < m
      BY <1>2, <1>5
    <2>2. PICK f : IsPath(f, m - 1, start, link)
      BY <1>3, <2>1
    <2>3. PICK x : x = IF f[m - 1] = NoEc THEN NoEc ELSE link[f[m - 1]]
      OBVIOUS
    <2>4. PICK g : g = [i \in 0 .. m |-> IF i = m THEN x ELSE f[i]]
      OBVIOUS
    <2>5. \A i \in 0 .. m - 1 : g[i] = f[i]
      BY <1>2, <2>4
    <2>6. g[m] = x
      BY <1>2, <2>4
    <2>7. ASSUME NEW i \in 0 .. m
          PROVE  g[i] = IF i = 0 THEN start
                        ELSE IF g[i - 1] = NoEc THEN NoEc ELSE link[g[i - 1]]
      <3>1. CASE i = m
        <4>1. m - 1 \in 0 .. m - 1 /\ i # 0
          BY <1>5, <2>1, <3>1
        <4>2. g[i - 1] = f[m - 1]
          BY <2>5, <3>1, <4>1
        <4> QED BY <2>3, <2>6, <3>1, <4>1, <4>2
      <3>2. CASE i # m
        <4>1. i \in 0 .. m - 1 /\ (i # 0 => i - 1 \in 0 .. m - 1)
          BY <1>2, <3>2
        <4>2. g[i] = f[i] /\ (i # 0 => g[i - 1] = f[i - 1])
          BY <2>5, <4>1
        <4> QED BY <2>1, <2>2, <4>1, <4>2, PathAt
      <3> QED BY <3>1, <3>2
    <2>8. g = [i \in 0 .. m |-> IF i = 0 THEN start
                                ELSE IF g[i - 1] = NoEc THEN NoEc ELSE link[g[i - 1]]]
      BY <2>4, <2>7
    <2> QED BY <1>2, <2>8 DEF IsPath
  <1> QED BY <1>4, <1>5

\* ... and only one.
LEMMA PathUnique ==
    ASSUME NEW n \in Nat, NEW start, NEW link, NEW f, IsPath(f, n, start, link),
           NEW g, IsPath(g, n, start, link)
    PROVE  \A i \in 0 .. n : f[i] = g[i]
  <1> DEFINE T == {i \in 0 .. n : f[i] # g[i]}
  <1> SUFFICES ASSUME T # {} PROVE FALSE
    OBVIOUS
  <1>1. T \subseteq Nat
    OBVIOUS
  <1>2. PICK i \in T : \A k \in T : i <= k
    BY <1>1, Least
  <1>3. i \in 0 .. n /\ f[i] # g[i]
    OBVIOUS
  <1>4. i # 0
    BY <1>3, PathAt
  <1>5. i - 1 \in 0 .. n /\ ~(i <= i - 1)
    BY <1>3, <1>4
  <1>6. f[i - 1] = g[i - 1]
    BY <1>2, <1>5
  <1> QED BY <1>3, <1>4, <1>6, PathAt

\* The recursive function that follows the links is the path.
LEMMA RecursionIsPath ==
    ASSUME NEW n \in Nat, NEW start, NEW link, NEW r,
           r = CHOOSE f : f = [i \in 0 .. n |-> IF i = 0 THEN start
                              ELSE IF f[i - 1] = NoEc THEN NoEc ELSE link[f[i - 1]]]
    PROVE  IsPath(r, n, start, link)
  <1>1. \E f : f = [i \in 0 .. n |-> IF i = 0 THEN start
                              ELSE IF f[i - 1] = NoEc THEN NoEc ELSE link[f[i - 1]]]
    <2>1. \E f : IsPath(f, n, start, link)
      BY PathExists
    <2> QED BY <2>1, Zenon DEF IsPath
  <1> QED BY <1>1, Zenon DEF IsPath

\* Following the caller links from the EC that runs on CPU c.
UpFn(c) == LET up[n \in 0 .. don[c]] == IF n = 0 THEN ec[c]
                                        ELSE IF up[n - 1] = NoEc THEN NoEc ELSE caller[up[n - 1]]
           IN  up

\* Donations lead up the call chain to the EC that the walk began from: that of
\* the SC, or one that is helped.
LEMMA ChainsDonate == Inv /\ Chains => DonationsMatchCallers
  <1> SUFFICES ASSUME Inv, Chains, NEW c \in CPUs,
                      pc[c] \notin {"activate", "pick", "schedule_blocked"}
               PROVE  UpFn(c)[don[c]] = act[c] /\ act[c] \in Local \cup {ScEc[cur[c]]}
    BY DEF DonationsMatchCallers, UpFn
  <1>1. don[c] \in Nat
    BY DEF Inv, TypeOK, TypeEc
  <1>2. PICK rank : PathOK(c, rank)
    BY DEF Chains
  <1>3. PICK f : /\ Chain(f, don[c], caller, rank, c)
                 /\ f[0] = ec[c] /\ Ends(c, f[don[c]])
    BY <1>2 DEF PathOK, Between, First
  <1>4. IsPath(f, don[c], ec[c], caller)
    <2>1. f \in [0 .. don[c] -> ECs] /\ \A i \in 0 .. don[c] - 1 : caller[f[i]] = f[i + 1]
      BY <1>3 DEF Chain
    <2>2. ASSUME NEW i \in 0 .. don[c]
          PROVE  f[i] = IF i = 0 THEN ec[c]
                        ELSE IF f[i - 1] = NoEc THEN NoEc ELSE caller[f[i - 1]]
      <3>1. CASE i = 0
        BY <1>3, <3>1
      <3>2. CASE i # 0
        <4>1. i - 1 \in 0 .. don[c] /\ i - 1 \in 0 .. don[c] - 1 /\ (i - 1) + 1 = i
          BY <1>1, <3>2
        <4>2. f[i - 1] \in ECs /\ caller[f[i - 1]] = f[i]
          BY <2>1, <4>1
        <4> QED BY <3>2, <4>2, Constants
      <3> QED BY <3>1, <3>2
    <2>3. f = [i \in 0 .. don[c] |-> IF i = 0 THEN ec[c]
                                     ELSE IF f[i - 1] = NoEc THEN NoEc ELSE caller[f[i - 1]]]
      BY <2>1, <2>2
    <2> QED BY <2>3 DEF IsPath
  <1>5. IsPath(UpFn(c), don[c], ec[c], caller)
    <2>1. UpFn(c) = CHOOSE g : g = [i \in 0 .. don[c] |-> IF i = 0 THEN ec[c]
                              ELSE IF g[i - 1] = NoEc THEN NoEc ELSE caller[g[i - 1]]]
      BY Zenon DEF UpFn
    <2> QED BY <1>1, <2>1, RecursionIsPath
  <1>6. UpFn(c)[don[c]] = f[don[c]]
    BY <1>1, <1>4, <1>5, PathUnique
  <1> QED BY <1>3, <1>6 DEF Ends

\* Following the callee links from e.
DownFn(e) == LET next[n \in 0 .. Cardinality(ECs)] ==
                     IF n = 0 THEN callee[e]
                     ELSE IF next[n - 1] = NoEc THEN NoEc ELSE callee[next[n - 1]]
             IN  next

\* Callee links lead to ECs of higher rank, so they end.
LEMMA ChainsEnd == Inv /\ Calls /\ Chains => CalleeChainsEnd
  <1> SUFFICES ASSUME Inv, Calls, Chains, NEW e \in ECs
               PROVE  DownFn(e)[Cardinality(ECs)] = NoEc
    BY DEF CalleeChainsEnd, DownFn
  <1>1. PICK N \in Nat : N = Cardinality(ECs)
    BY FiniteEcs, FS_CardinalityType
  <1>2. PICK g : g = DownFn(e)
    OBVIOUS
  <1>3. IsPath(g, N, callee[e], callee)
    <2>1. DownFn(e) = CHOOSE f : f = [i \in 0 .. Cardinality(ECs) |-> IF i = 0 THEN callee[e]
                              ELSE IF f[i - 1] = NoEc THEN NoEc ELSE callee[f[i - 1]]]
      BY Zenon DEF DownFn
    <2>2. g = CHOOSE f : f = [i \in 0 .. N |-> IF i = 0 THEN callee[e]
                              ELSE IF f[i - 1] = NoEc THEN NoEc ELSE callee[f[i - 1]]]
      BY <1>1, <1>2, <2>1
    <2> QED BY <2>2, RecursionIsPath
  <1> SUFFICES ASSUME g[N] # NoEc PROVE FALSE
    BY <1>1, <1>2
  <1>4. PICK rank : Ranked(rank)
    BY DEF Chains
  <1>5. \A x \in ECs : callee[x] # NoEc => callee[x] \in ECs /\ rank[callee[x]] > rank[x]
    BY <1>4, Constants DEF Ranked, Calls, LinkOK, Inv, TypeOK, TypeEc
  <1>6. \A i \in 0 .. N : g[i] \in ECs \cup {NoEc}
    <2> DEFINE T == {i \in 0 .. N : g[i] \notin ECs \cup {NoEc}}
    <2> SUFFICES ASSUME T # {} PROVE FALSE
      OBVIOUS
    <2>1. PICK i \in T : \A k \in T : i <= k
      <3>1. T \subseteq Nat
        OBVIOUS
      <3> QED BY <3>1, Least
    <2>2. i \in 0 .. N /\ g[i] \notin ECs \cup {NoEc}
      OBVIOUS
    <2>3. i # 0
      BY <1>3, <2>2, PathAt DEF Inv, TypeOK, TypeEc
    <2>4. i - 1 \in 0 .. N /\ ~(i <= i - 1)
      BY <2>2, <2>3
    <2>5. g[i - 1] \in ECs \cup {NoEc}
      BY <2>1, <2>4
    <2> QED BY <1>3, <1>5, <2>2, <2>3, <2>5, PathAt
  <1>7. \A i \in 0 .. N : g[i] # NoEc
    <2> DEFINE T == {m \in Nat : m <= N /\ g[N - m] = NoEc}
    <2> SUFFICES ASSUME T # {} PROVE FALSE
      <3>1. \A i \in 0 .. N : N - i \in Nat /\ N - i <= N /\ N - (N - i) = i
        OBVIOUS
      <3> QED BY <3>1
    <2>1. PICK m \in T : \A k \in T : m <= k
      <3>1. T \subseteq Nat
        OBVIOUS
      <3> QED BY <3>1, Least
    <2>2. m \in Nat /\ m <= N /\ g[N - m] = NoEc
      OBVIOUS
    <2>3. m # 0
      BY <2>2
    <2>4. /\ m - 1 \in Nat /\ m - 1 <= N /\ ~(m <= m - 1) /\ N - (m - 1) \in 0 .. N
          /\ (N - (m - 1)) - 1 = N - m /\ N - (m - 1) # 0
      BY <2>2, <2>3
    <2>5. g[N - (m - 1)] # NoEc
      BY <2>1, <2>4
    <2>6. PICK j \in 0 .. N : j = N - (m - 1) /\ j # 0 /\ j - 1 = N - m
      BY <2>4
    <2> QED BY <1>3, <2>2, <2>5, <2>6, PathAt
  <1>8. \A i \in 0 .. N : g[i] \in ECs /\ rank[g[i]] \in Nat
    BY <1>4, <1>6, <1>7 DEF Ranked
  <1>9. \A i \in 0 .. N : i # 0 => rank[g[i]] > rank[g[i - 1]]
    <2> SUFFICES ASSUME NEW i \in 0 .. N, i # 0 PROVE rank[g[i]] > rank[g[i - 1]]
      OBVIOUS
    <2>1. i - 1 \in 0 .. N
      OBVIOUS
    <2>2. g[i] = callee[g[i - 1]]
      BY <1>3, <1>7, <2>1, PathAt
    <2> QED BY <1>5, <1>7, <1>8, <2>1, <2>2
  <1>10. \A j, i \in 0 .. N : j < i => rank[g[j]] < rank[g[i]]
    <2> SUFFICES ASSUME NEW j \in 0 .. N
                 PROVE  \A i \in 0 .. N : j < i => rank[g[j]] < rank[g[i]]
      OBVIOUS
    <2> DEFINE T == {i \in 0 .. N : j < i /\ ~(rank[g[j]] < rank[g[i]])}
    <2> SUFFICES ASSUME T # {} PROVE FALSE
      OBVIOUS
    <2>1. PICK i \in T : \A k \in T : i <= k
      <3>1. T \subseteq Nat
        OBVIOUS
      <3> QED BY <3>1, Least
    <2>2. i \in 0 .. N /\ j < i /\ ~(rank[g[j]] < rank[g[i]])
      OBVIOUS
    <2>3. i - 1 \in 0 .. N /\ i # 0 /\ ~(i <= i - 1) /\ (j = i - 1 \/ j < i - 1)
      BY <2>2
    <2>4. j = i - 1 \/ rank[g[j]] < rank[g[i - 1]]
      BY <2>1, <2>3
    <2>5. rank[g[i]] > rank[g[i - 1]]
      BY <1>9, <2>2, <2>3
    <2>6. rank[g[i]] \in Nat /\ rank[g[j]] \in Nat /\ rank[g[i - 1]] \in Nat
      BY <1>8, <2>2, <2>3
    <2> HIDE DEF T
    <2> QED BY <2>2, <2>4, <2>5, <2>6
  <1>11. PICK h \in [0 .. N -> ECs] : \A i \in 0 .. N : h[i] = g[i]
    <2>1. PICK h : h = [i \in 0 .. N |-> g[i]]
      OBVIOUS
    <2> QED BY <1>8, <2>1
  <1>12. PICK x, y \in 0 .. N : x # y /\ h[x] = h[y]
    <2>1. IsFiniteSet(0 .. N) /\ Cardinality(0 .. N) = N + 1
      BY FS_Interval
    <2>2. Cardinality(ECs) < Cardinality(0 .. N)
      BY <1>1, <2>1
    <2> QED BY <2>1, <2>2, FiniteEcs, FS_PigeonHole
  <1>13. x < y \/ y < x
    BY <1>12
  <1> QED BY <1>8, <1>10, <1>11, <1>12, <1>13

-----------------------------------------------------------------------------
(* The theorems.                                                           *)

\* The inductive invariant of the kernel core.
CoreInv == Inv /\ Calls /\ Waits /\ Chains /\ Kept /\ Idles /\ Tops

\* Every step of the kernel keeps it.
LEMMA CoreInductive == Spec => []CoreInv
  <1>1. Init => CoreInv
    BY InitInv, InitCalls, InitWaits, InitChains, InitKept, InitIdles, InitTops DEF CoreInv
  <1>2. CoreInv /\ [Next]_vars => CoreInv'
    BY NextInv, NextCalls, NextWaits, NextChains, NextKept, NextIdles, NextTops DEF CoreInv
  <1> QED BY <1>1, <1>2, PTL DEF Spec

\* What Wakeups says of an SC that waits on an EC.
LEMMA WakeupsSuffice == Wakeups => NoLostWakeup
  BY DEF Wakeups, NoLostWakeup, Unblocking

\* The timeout of a wait belongs to it.
LEMMA TimersSuffice == Timers => TimeoutMatchesWait
  BY DEF Timers, TimerOK, TimeoutMatchesWait, Timed

\* An idle SC is ready whenever Ready::dequeue is reached, and prio_top is exact.
LEMMA TopsSuffice == Inv /\ Idles /\ Tops => PrioTop
  <1> SUFFICES ASSUME Inv, Idles, Tops, NEW c \in CPUs
               PROVE  /\ \A p \in top[c] + 1 .. MaxPrio : ready[c][p] = <<>>
                      /\ pc[c] = "pick" => ready[c][top[c]] # <<>>
    BY DEF PrioTop
  <1>1. TopOK(c) /\ IdleOK(c)
    BY DEF Tops, Idles
  <1>2. ASSUME pc[c] = "pick" PROVE ready[c][top[c]] # <<>>
    <2>1. InReady(IdleSc[c])
      BY <1>1, <1>2 DEF IdleOK, Between
    <2>2. IdleSc[c] \in Elems(ready[c][0])
      BY <2>1, IdleConst DEF InReady
    <2>3. ready[c][0] # <<>>
      BY <2>2 DEF Elems
    <2> QED BY <1>1, <2>3 DEF TopOK
  <1> QED BY <1>1, <1>2 DEF TopOK

(***************************************************************************)
(* What dn, up and the hypercall timeout promise together: no SC gets      *)
(* lost, no wakeup gets lost, and a hypercall timeout belongs to the wait  *)
(* that set it.                                                            *)
(***************************************************************************)
THEOREM WaitsAreExact == Spec => []WaitsExact
  <1>1. CoreInv => WaitsExact
    BY WakeupsSuffice, TimersSuffice DEF CoreInv, Waits, Kept, WaitsExact
  <1> QED BY <1>1, CoreInductive, PTL

(***************************************************************************)
(* Every SC stays within reach of the scheduler, which finds the most      *)
(* important one: the assertion of Ready::dequeue that an SC is ready      *)
(* cannot fail.                                                            *)
(***************************************************************************)
THEOREM ScsStayRunnable == Spec => []ScsRunnable
  <1>1. CoreInv => ScsRunnable
    BY WakeupsSuffice, TopsSuffice DEF CoreInv, Waits, Kept, ScsRunnable
  <1> QED BY <1>1, CoreInductive, PTL

\* Partners is what Calls says of callers and handlers.
LEMMA CallsPartner == Inv /\ Calls => Partners
  <1> SUFFICES ASSUME Inv, Calls PROVE Partners
    OBVIOUS
  <1>1. \A e \in ECs : LinkOK(e)
    BY DEF Calls
  <1>2. ASSUME NEW c \in CPUs, pc[c] \in {"recv_user", "recv_kern"}
        PROVE  ec[c] \in ECs /\ cont[ec[c]] = pc[c]
    BY <1>2 DEF Calls, RunOK, Away, Inv, TypeOK, TypeEc
  <1> QED BY <1>1, <1>2 DEF Partners, LinkOK

(***************************************************************************)
(* Call chains: callers and handlers point at each other, callee links     *)
(* end, and the SC of a CPU has been donated exactly along the chain it    *)
(* runs in.                                                                *)
(***************************************************************************)
THEOREM CallChainsHold == Spec => []CallChains
  <1>1. CoreInv => CallChains
    BY CallsPartner, ChainsEnd, ChainsDonate DEF CoreInv, CallChains
  <1> QED BY <1>1, CoreInductive, PTL

-----------------------------------------------------------------------------
(* The semaphores implement the abstract specification.                    *)

\* How an EC that enters the scheduler or a handler it helps will resume:
\* it is not inside a wait.
Parked == {"idle", "ret_user_hypercall", "ret_user_exception", "sys_ipc_call", "send_msg"}

ParkOK(c) == pc[c] = "schedule" \/ AtHelp(c) => cont[ec[c]] \in Parked

Parks == \A c \in CPUs : ParkOK(c)

\* A step of CPU c that leaves alone, or wakes, the ECs of other CPUs.
LEMMA ParksKept ==
    ASSUME Inv, Parks, NEW c \in CPUs, Others(c), ParkOK(c)',
           \A e \in ECs : EcCpu[e] # c => cont'[e] = cont[e] \/ cont[e] = "blocking"
    PROVE  Parks'
  <1> SUFFICES ASSUME NEW d \in CPUs, d # c PROVE ParkOK(d)'
    BY DEF Parks
  <1>1. ParkOK(d) /\ ec[d] \in ECs /\ EcCpu[ec[d]] = d
    BY DEF Parks, Inv, Control, CpuOK, TypeOK, TypeEc
  <1>2. pc'[d] = pc[d] /\ ret'[d] = ret[d] /\ ec'[d] = ec[d]
    BY DEF Others
  <1>3. cont'[ec[d]] = cont[ec[d]] \/ cont[ec[d]] = "blocking"
    BY <1>1
  <1> QED BY <1>1, <1>2, <1>3 DEF ParkOK, Parked, AtHelp

\* Scheduler::schedule.
LEMMA ScheduleParks ==
    ASSUME Inv, Parks, NEW c \in CPUs, NEW b \in BOOLEAN, Schedule(c, b), UNCHANGED ecVars
    PROVE  Parks'
  <1>1. Others(c) /\ UNCHANGED <<cont, ec>>
    BY DEF Inv, TypeOK, TypeCtl, Others, Schedule, Goto, ecVars
  <1>3. ParkOK(c)'
    <2>1. ParkOK(c) /\ CpuOK(c)
      BY DEF Parks, Inv, Control
    <2> QED BY <1>1, <2>1 DEF ParkOK, CpuOK, AtHelp, Handlers, Resumes, Inv, TypeOK, TypeCtl, Schedule, Goto, ecVars
  <1> QED BY <1>1, <1>3, ParksKept

\* The RRQ IPI.
LEMMA HandleRrqParks ==
    ASSUME Inv, Parks, NEW c \in CPUs, HandleRrq(c), UNCHANGED ecVars
    PROVE  Parks'
  <1>1. Others(c) /\ UNCHANGED <<cont, ec>>
    BY DEF Inv, TypeOK, TypeCtl, Others, HandleRrq, Call, Goto, Resume, Interruptible, ecVars
  <1>3. ParkOK(c)'
    <2>1. ParkOK(c) /\ CpuOK(c)
      BY DEF Parks, Inv, Control
    <2> QED BY <1>1, <2>1 DEF ParkOK, CpuOK, AtHelp, Handlers, Resumes, Inv, TypeOK, TypeCtl, HandleRrq, Call, Goto, Resume, Interruptible, ecVars
  <1> QED BY <1>1, <1>3, ParksKept

\* Scheduler::requeue.
LEMMA RequeueParks ==
    ASSUME Inv, Parks, NEW c \in CPUs, Requeue(c), UNCHANGED ecVars
    PROVE  Parks'
  <1>1. Others(c) /\ UNCHANGED <<cont, ec>>
    BY DEF Inv, TypeOK, TypeCtl, Others, Requeue, Leave, Call, Goto, ctlVars, ecVars
  <1>3. ParkOK(c)'
    <2>1. ParkOK(c) /\ CpuOK(c)
      BY DEF Parks, Inv, Control
    <2> QED BY <1>1, <2>1 DEF ParkOK, CpuOK, AtHelp, Handlers, Resumes, Inv, TypeOK, TypeCtl, Requeue, Leave, Call, Goto, ctlVars, ecVars
  <1> QED BY <1>1, <1>3, ParksKept

\* The budget timeout.
LEMMA BudgetTimeoutParks ==
    ASSUME Inv, Parks, NEW c \in CPUs, BudgetTimeout(c), UNCHANGED ecVars
    PROVE  Parks'
  <1>1. Others(c) /\ UNCHANGED <<cont, ec>>
    BY DEF Inv, TypeOK, TypeCtl, Others, BudgetTimeout, Goto, Resume, Interruptible, ecVars
  <1>3. ParkOK(c)'
    <2>1. ParkOK(c) /\ CpuOK(c)
      BY DEF Parks, Inv, Control
    <2> QED BY <1>1, <2>1 DEF ParkOK, CpuOK, AtHelp, Handlers, Resumes, Inv, TypeOK, TypeCtl, BudgetTimeout, Goto, Resume, Interruptible, ecVars
  <1> QED BY <1>1, <1>3, ParksKept

\* Ec::activate goes down the chain.
LEMMA ActivateWalkParks ==
    ASSUME Inv, Parks, NEW c \in CPUs, ActivateWalk(c)
    PROVE  Parks'
  <1>1. Others(c) /\ UNCHANGED <<cont, ec>>
    BY DEF Inv, TypeOK, TypeCtl, Others, ActivateWalk
  <1>3. ParkOK(c)'
    <2>1. ParkOK(c) /\ CpuOK(c)
      BY DEF Parks, Inv, Control
    <2> QED BY <1>1, <2>1 DEF ParkOK, CpuOK, AtHelp, Handlers, Resumes, Inv, TypeOK, TypeCtl, ActivateWalk
  <1> QED BY <1>1, <1>3, ParksKept

\* Ec::activate finds a blocked EC.
LEMMA ActivateBlockScParks ==
    ASSUME Inv, Parks, NEW c \in CPUs, ActivateBlockSc(c)
    PROVE  Parks'
  <1>1. Others(c) /\ UNCHANGED <<cont, ec>>
    BY DEF Inv, TypeOK, TypeCtl, Others, ActivateBlockSc, Leave, Call, Goto
  <1>3. ParkOK(c)'
    <2>1. ParkOK(c) /\ CpuOK(c)
      BY DEF Parks, Inv, Control
    <2> QED BY <1>1, <2>1 DEF ParkOK, CpuOK, AtHelp, Handlers, Resumes, Inv, TypeOK, TypeCtl, ActivateBlockSc, Leave, Call, Goto
  <1> QED BY <1>1, <1>3, ParksKept

\* Ready::dequeue.
LEMMA PickParks ==
    ASSUME Inv, Parks, NEW c \in CPUs, Pick(c)
    PROVE  Parks'
  <1>1. Others(c) /\ UNCHANGED <<cont, ec>>
    BY DEF Inv, TypeOK, TypeCtl, Others, Pick, EnterActivate, Call, Goto
  <1>3. ParkOK(c)'
    <2>1. ParkOK(c) /\ CpuOK(c)
      BY DEF Parks, Inv, Control
    <2> QED BY <1>1, <2>1 DEF ParkOK, CpuOK, AtHelp, Handlers, Resumes, Inv, TypeOK, TypeCtl, Pick, EnterActivate, Call, Goto
  <1> QED BY <1>1, <1>3, ParksKept

\* unblock_sc takes the lock.
LEMMA UnblockScParks ==
    ASSUME Inv, Parks, NEW c \in CPUs, UnblockSc(c)
    PROVE  Parks'
  <1>1. Others(c) /\ UNCHANGED <<cont, ec>>
    BY DEF Inv, TypeOK, TypeCtl, Others, UnblockSc, Goto, ecVars
  <1>3. ParkOK(c)'
    <2>1. ParkOK(c) /\ CpuOK(c)
      BY DEF Parks, Inv, Control
    <2> QED BY <1>1, <2>1 DEF ParkOK, CpuOK, AtHelp, Handlers, Resumes, Inv, TypeOK, TypeCtl, UnblockSc, Goto, ecVars
  <1> QED BY <1>1, <1>3, ParksKept

\* unblock_sc takes an SC off the queue.
LEMMA UnblockLoopParks ==
    ASSUME Inv, Parks, NEW c \in CPUs, UnblockLoop(c)
    PROVE  Parks'
  <1>1. Others(c) /\ UNCHANGED <<cont, ec>>
    BY DEF Inv, TypeOK, TypeCtl, Others, UnblockLoop, Leave, Call, Goto, ctlVars
  <1>3. ParkOK(c)'
    <2>1. ParkOK(c) /\ CpuOK(c)
      BY DEF Parks, Inv, Control
    <2> QED BY <1>1, <2>1 DEF ParkOK, CpuOK, AtHelp, Handlers, Resumes, Inv, TypeOK, TypeCtl, UnblockLoop, Leave, Call, Goto, ctlVars
  <1> QED BY <1>1, <1>3, ParksKept

\* unblock_sc sends the IPI.
LEMMA NotifyParks ==
    ASSUME Inv, Parks, NEW c \in CPUs, Notify(c)
    PROVE  Parks'
  <1>1. Others(c) /\ UNCHANGED <<cont, ec>>
    BY DEF Inv, TypeOK, TypeCtl, Others, Notify, Goto, ecVars
  <1>3. ParkOK(c)'
    <2>1. ParkOK(c) /\ CpuOK(c)
      BY DEF Parks, Inv, Control
    <2> QED BY <1>1, <2>1 DEF ParkOK, CpuOK, AtHelp, Handlers, Resumes, Inv, TypeOK, TypeCtl, Notify, Goto, ecVars
  <1> QED BY <1>1, <1>3, ParksKept

\* User mode names a portal.
LEMMA NamePortalParks ==
    ASSUME Inv, Parks, NEW c \in CPUs, NEW p \in {"sys_ipc_call", "send_msg"}, NamePortal(c, p)
    PROVE  Parks'
  <1>1. Others(c) /\ UNCHANGED <<cont, ec>>
    BY DEF Inv, TypeOK, TypeCtl, Others, NamePortal, User, Goto
  <1>3. ParkOK(c)'
    <2>1. ParkOK(c) /\ CpuOK(c)
      BY DEF Parks, Inv, Control
    <2> QED BY <1>1, <2>1 DEF ParkOK, CpuOK, AtHelp, Handlers, Resumes, Inv, TypeOK, TypeCtl, NamePortal, User, Goto
  <1> QED BY <1>1, <1>3, ParksKept

\* A call that is given up.
LEMMA BailParks ==
    ASSUME Inv, Parks, NEW c \in CPUs, pc[c] \in {"sys_ipc_call", "send_msg"},
           NEW p \in {"ret_user_hypercall", "kill"}, Bail(c, p)
    PROVE  Parks'
  <1>1. Others(c) /\ UNCHANGED <<cont, ec>>
    BY DEF Inv, TypeOK, TypeCtl, Others, Bail, Goto
  <1>3. ParkOK(c)'
    <2>1. ParkOK(c) /\ CpuOK(c)
      BY DEF Parks, Inv, Control
    <2> QED BY <1>1, <2>1 DEF ParkOK, CpuOK, AtHelp, Handlers, Resumes, Inv, TypeOK, TypeCtl, Bail, Goto
  <1> QED BY <1>1, <1>3, ParksKept

\* A helper activates the handler it waits for.
LEMMA HelpParks ==
    ASSUME Inv, Parks, NEW c \in CPUs, Help(c)
    PROVE  Parks'
  <1>1. Others(c) /\ UNCHANGED <<cont, ec>>
    BY DEF Inv, TypeOK, TypeCtl, Others, Help, EnterActivate, Call, Goto
  <1>3. ParkOK(c)'
    <2>1. ParkOK(c) /\ CpuOK(c)
      BY DEF Parks, Inv, Control
    <2> QED BY <1>1, <2>1 DEF ParkOK, CpuOK, AtHelp, Handlers, Resumes, Inv, TypeOK, TypeCtl, Help, EnterActivate, Call, Goto
  <1> QED BY <1>1, <1>3, ParksKept

\* recv_user and recv_kern.
LEMMA RecvParks ==
    ASSUME Inv, Parks, NEW c \in CPUs, Recv(c)
    PROVE  Parks'
  <1>1. Others(c) /\ UNCHANGED <<cont, ec>>
    BY DEF Inv, TypeOK, TypeCtl, Others, Recv, Goto, ecVars
  <1>3. ParkOK(c)'
    <2>1. ParkOK(c) /\ CpuOK(c)
      BY DEF Parks, Inv, Control
    <2> QED BY <1>1, <2>1 DEF ParkOK, CpuOK, AtHelp, Handlers, Resumes, Inv, TypeOK, TypeCtl, Recv, Goto, ecVars
  <1> QED BY <1>1, <1>3, ParksKept

\* sys_create_sc.
LEMMA SysCreateScParks ==
    ASSUME Inv, Parks, NEW c \in CPUs, SysCreateSc(c)
    PROVE  Parks'
  <1>1. Others(c) /\ UNCHANGED <<cont, ec>>
    BY DEF Inv, TypeOK, TypeCtl, Others, SysCreateSc, User, Call, Goto, ecVars
  <1>3. ParkOK(c)'
    <2>1. ParkOK(c) /\ CpuOK(c)
      BY DEF Parks, Inv, Control
    <2> QED BY <1>1, <2>1 DEF ParkOK, CpuOK, AtHelp, Handlers, Resumes, Inv, TypeOK, TypeCtl, SysCreateSc, User, Call, Goto, ecVars
  <1> QED BY <1>1, <1>3, ParksKept

\* sys_create_sc sends the IPI.
LEMMA NotifyCreatedParks ==
    ASSUME Inv, Parks, NEW c \in CPUs, NotifyCreated(c)
    PROVE  Parks'
  <1>1. Others(c) /\ UNCHANGED <<cont, ec>>
    BY DEF Inv, TypeOK, TypeCtl, Others, NotifyCreated, Leave, Call, Goto, ecVars
  <1>3. ParkOK(c)'
    <2>1. ParkOK(c) /\ CpuOK(c)
      BY DEF Parks, Inv, Control
    <2> QED BY <1>1, <2>1 DEF ParkOK, CpuOK, AtHelp, Handlers, Resumes, Inv, TypeOK, TypeCtl, NotifyCreated, Leave, Call, Goto, ecVars
  <1> QED BY <1>1, <1>3, ParksKept

\* Sm::dn with tokens left.
LEMMA DnFastParks ==
    ASSUME Inv, Parks, NEW c \in CPUs, DnFast(c)
    PROVE  Parks'
  <1>1. Others(c) /\ UNCHANGED <<cont, ec>>
    BY DEF Inv, TypeOK, TypeCtl, Others, DnFast, User, Goto, ecVars
  <1>3. ParkOK(c)'
    <2>1. ParkOK(c) /\ CpuOK(c)
      BY DEF Parks, Inv, Control
    <2> QED BY <1>1, <2>1 DEF ParkOK, CpuOK, AtHelp, Handlers, Resumes, Inv, TypeOK, TypeCtl, DnFast, User, Goto, ecVars
  <1> QED BY <1>1, <1>3, ParksKept

\* The rest of Sm::dn.
LEMMA DnBlockScParks ==
    ASSUME Inv, Parks, NEW c \in CPUs, DnBlockSc(c)
    PROVE  Parks'
  <1>1. Others(c) /\ UNCHANGED <<cont, ec>>
    BY DEF Inv, TypeOK, TypeCtl, Others, DnBlockSc, Goto
  <1>3. ParkOK(c)'
    <2>1. ParkOK(c) /\ CpuOK(c)
      BY DEF Parks, Inv, Control
    <2> QED BY <1>1, <2>1 DEF ParkOK, CpuOK, AtHelp, Handlers, Resumes, Inv, TypeOK, TypeCtl, DnBlockSc, Goto
  <1> QED BY <1>1, <1>3, ParksKept

\* Ec::sys_finish.
LEMMA SysFinishParks ==
    ASSUME Inv, Parks, NEW c \in CPUs, SysFinish(c)
    PROVE  Parks'
  <1>1. Others(c) /\ UNCHANGED <<cont, ec>>
    BY DEF Inv, TypeOK, TypeCtl, Others, SysFinish, Goto, ecVars
  <1>3. ParkOK(c)'
    <2>1. ParkOK(c) /\ CpuOK(c)
      BY DEF Parks, Inv, Control
    <2> QED BY <1>1, <2>1 DEF ParkOK, CpuOK, AtHelp, Handlers, Resumes, Inv, TypeOK, TypeCtl, SysFinish, Goto, ecVars
  <1> QED BY <1>1, <1>3, ParksKept

\* Sm::up without a waiter.
LEMMA UpCountParks ==
    ASSUME Inv, Parks, NEW c \in CPUs, NEW M \in SUBSET SMs, NEW r, UpFrom(c, r), UpCount(c, M, r)
    PROVE  Parks'
  <1>1. Others(c) /\ UNCHANGED <<cont, ec>>
    BY DEF Inv, TypeOK, TypeCtl, Others, UpFrom, UpCount, User, Interruptible, Resume, Goto, ecVars
  <1>3. ParkOK(c)'
    <2>1. ParkOK(c) /\ CpuOK(c)
      BY DEF Parks, Inv, Control
    <2> QED BY <1>1, <2>1 DEF ParkOK, CpuOK, AtHelp, Handlers, Resumes, Inv, TypeOK, TypeCtl, UpFrom, UpCount, User, Interruptible, Resume, Goto, ecVars
  <1> QED BY <1>1, <1>3, ParksKept

\* ret_user_hypercall and ret_user_exception.
LEMMA RetUserParks ==
    ASSUME Inv, Calls, Waits, Parks, NEW c \in CPUs, RetUser(c)
    PROVE  Parks'
  <1>1. Others(c)
    BY DEF Inv, TypeOK, TypeCtl, TypeEc, Others, RetUser, Goto
  <1>2. \A e \in ECs : EcCpu[e] # c => cont'[e] = cont[e] \/ cont[e] = "blocking"
    <2>1. ec[c] \in ECs /\ EcCpu[ec[c]] = c
      BY DEF Inv, Control, CpuOK, TypeOK, TypeEc
    <2> QED BY <2>1 DEF Inv, TypeOK, TypeEc, RetUser
  <1>3. ParkOK(c)'
    BY DEF ParkOK, AtHelp, Parked, Handlers, Inv, TypeOK, TypeCtl, TypeEc, RetUser, Goto
  <1> QED BY <1>1, <1>2, <1>3, ParksKept

\* The idle loop.
LEMMA IdleLoopParks ==
    ASSUME Inv, Calls, Waits, Parks, NEW c \in CPUs, IdleLoop(c)
    PROVE  Parks'
  <1>1. Others(c)
    BY DEF Inv, TypeOK, TypeCtl, TypeEc, Others, IdleLoop, Goto
  <1>2. \A e \in ECs : EcCpu[e] # c => cont'[e] = cont[e] \/ cont[e] = "blocking"
    <2>1. ec[c] \in ECs /\ EcCpu[ec[c]] = c
      BY DEF Inv, Control, CpuOK, TypeOK, TypeEc
    <2> QED BY <2>1 DEF Inv, TypeOK, TypeEc, IdleLoop
  <1>3. ParkOK(c)'
    BY DEF ParkOK, AtHelp, Parked, Handlers, Inv, TypeOK, TypeCtl, TypeEc, IdleLoop, Goto
  <1> QED BY <1>1, <1>2, <1>3, ParksKept

\* A call whose handler is busy.
LEMMA EnterHelpParks ==
    ASSUME Inv, Calls, Waits, Parks, NEW c \in CPUs, pc[c] \in {"sys_ipc_call", "send_msg"}, NEW s,
           NEW x \in {"sys_ipc_call", "send_msg"}, EnterHelp(c, s, x)
    PROVE  Parks'
  <1>1. Others(c)
    BY DEF Inv, TypeOK, TypeCtl, TypeEc, Others, EnterHelp, Goto
  <1>2. \A e \in ECs : EcCpu[e] # c => cont'[e] = cont[e] \/ cont[e] = "blocking"
    <2>1. ec[c] \in ECs /\ EcCpu[ec[c]] = c
      BY DEF Inv, Control, CpuOK, TypeOK, TypeEc
    <2> QED BY <2>1 DEF Inv, TypeOK, TypeEc, EnterHelp
  <1>3. ParkOK(c)'
    BY DEF ParkOK, AtHelp, Parked, Handlers, Inv, TypeOK, TypeCtl, TypeEc, EnterHelp, Goto
  <1> QED BY <1>1, <1>2, <1>3, ParksKept

\* Sm::dn without tokens.
LEMMA DnBlockParks ==
    ASSUME Inv, Calls, Waits, Parks, NEW c \in CPUs, DnBlock(c)
    PROVE  Parks'
  <1>1. Others(c)
    BY DEF Inv, TypeOK, TypeCtl, TypeEc, Others, DnBlock, Goto
  <1>2. \A e \in ECs : EcCpu[e] # c => cont'[e] = cont[e] \/ cont[e] = "blocking"
    <2>1. ec[c] \in ECs /\ EcCpu[ec[c]] = c
      BY DEF Inv, Control, CpuOK, TypeOK, TypeEc
    <2> QED BY <2>1 DEF Inv, TypeOK, TypeEc, DnBlock
  <1>3. ParkOK(c)'
    BY DEF ParkOK, AtHelp, Parked, Handlers, Inv, TypeOK, TypeCtl, TypeEc, DnBlock, Goto
  <1> QED BY <1>1, <1>2, <1>3, ParksKept

\* Ec::activate runs the EC at the end of the chain.
LEMMA ActivateRunParks ==
    ASSUME Inv, Calls, Waits, Parks, NEW c \in CPUs, ActivateRun(c)
    PROVE  Parks'
  <1>1. Others(c)
    BY DEF Inv, TypeOK, TypeCtl, TypeEc, Others, ActivateRun, MakeCurrent, Leave, Call, Goto
  <1>2. \A e \in ECs : EcCpu[e] # c => cont'[e] = cont[e] \/ cont[e] = "blocking"
    BY DEF ActivateRun
  <1>3. ParkOK(c)'
    <2>1. arg[c] \in ECs
      BY DEF Inv, Control, CpuOK, ActivateRun
    <2>2. cont[arg[c]] \in Conts /\ pc'[c] = cont[arg[c]]
      BY <2>1 DEF Inv, TypeOK, TypeCtl, TypeEc, ActivateRun, MakeCurrent, Leave, Call, Goto
    <2> QED BY <2>2 DEF ParkOK, AtHelp, Conts, Handlers
  <1> QED BY <1>1, <1>2, <1>3, ParksKept

\* Ec::rendezvous.
LEMMA RendezvousParks ==
    ASSUME Inv, Calls, Waits, Parks, NEW c \in CPUs, pc[c] \in {"sys_ipc_call", "send_msg"}, NEW s \in Local, EcCpu[s] = c,
           NEW x, NEW y \in {"recv_user", "recv_kern"}, Rendezvous(c, s, x, y)
    PROVE  Parks'
  <1>1. Others(c)
    BY DEF Inv, TypeOK, TypeCtl, TypeEc, Others, Rendezvous, MakeCurrent, Leave, Call, Goto
  <1>2. \A e \in ECs : EcCpu[e] # c => cont'[e] = cont[e] \/ cont[e] = "blocking"
    <2>1. ec[c] \in ECs /\ EcCpu[ec[c]] = c
      BY DEF Inv, Control, CpuOK, TypeOK, TypeEc
    <2> QED BY <2>1 DEF Inv, TypeOK, TypeEc, Rendezvous
  <1>3. ParkOK(c)'
    BY DEF ParkOK, AtHelp, Parked, Handlers, Inv, TypeOK, TypeCtl, TypeEc, Rendezvous, MakeCurrent, Leave, Call, Goto
  <1> QED BY <1>1, <1>2, <1>3, ParksKept

\* Ec::reply.
LEMMA ReplyParks ==
    ASSUME Inv, Calls, Waits, Parks, NEW c \in CPUs, NEW x, NEW k, caller[ec[c]] # NoEc =>
               k \in {"ret_user_hypercall", "ret_user_exception", "sys_finish_aborted", "dead"},
           Reply(c, x, k)
    PROVE  Parks'
  <1>1. Others(c)
    BY DEF Inv, TypeOK, TypeCtl, TypeEc, Others, Reply, MakeCurrent, EnterActivate, Leave, Call, Goto
  <1>2. \A e \in ECs : EcCpu[e] # c => cont'[e] = cont[e] \/ cont[e] = "blocking"
    <2>1. ec[c] \in ECs /\ EcCpu[ec[c]] = c
      BY DEF Inv, Control, CpuOK, TypeOK, TypeEc
    <2>2. caller[ec[c]] # NoEc => caller[ec[c]] \in ECs /\ EcCpu[caller[ec[c]]] = c
      BY <2>1 DEF Inv, Control, LinksOK, TypeOK, TypeEc
    <2> QED BY <2>1, <2>2 DEF Inv, TypeOK, TypeEc, Reply
  <1>3. ParkOK(c)'
    BY DEF ParkOK, AtHelp, Parked, Handlers, Inv, TypeOK, TypeCtl, TypeEc, Reply, MakeCurrent, EnterActivate, Leave, Call, Goto
  <1> QED BY <1>1, <1>2, <1>3, ParksKept

\* Sm::up with a waiter.
LEMMA UpWakeParks ==
    ASSUME Inv, Calls, Parks, NEW c \in CPUs, NEW M \in SUBSET SMs, NEW r, UpFrom(c, r),
           UpWake(c, M, r)
    PROVE  Parks'
  <1>1. /\ Others(c) /\ UNCHANGED ec /\ pc'[c] = "unblock_sc" /\ ret'[c] = r
    BY DEF Inv, TypeOK, TypeCtl, Others, UpWake, Call, Goto
  <1>2. \A e \in ECs : cont'[e] = cont[e] \/ cont[e] = "blocking"
    <2>1. PICK m \in SMs : smq[m] # <<>> /\ cont' = [cont EXCEPT ![Head(smq[m])] = "sys_finish_success"]
      BY DEF UpWake
    <2>2. smq[m] \in Seq(ECs)
      BY DEF Inv, TypeOK, TypeSm
    <2>3. Head(smq[m]) \in ECs /\ Head(smq[m]) \in Elems(smq[m])
      BY <2>1, <2>2 DEF Elems
    <2>4. cont[Head(smq[m])] = "blocking"
      BY <2>3 DEF Calls, Waiters
    <2> QED BY <2>1, <2>3, <2>4 DEF Inv, TypeOK, TypeEc
  <1>3. ParkOK(c)'
    <2>1. ParkOK(c) /\ ec[c] \in ECs
      BY DEF Parks, Inv, TypeOK, TypeEc
    <2>2. r = "help" => pc[c] = "help"
      BY DEF UpFrom, Resume
    <2> QED BY <1>1, <1>2, <2>1, <2>2 DEF ParkOK, AtHelp, Handlers, Parked
  <1> QED BY <1>1, <1>2, <1>3, ParksKept

\* A hypercall timeout fires.
LEMMA SmTimeoutParks ==
    ASSUME Inv, Calls, Waits, Parks, NEW c \in CPUs, SmTimeout(c)
    PROVE  Parks'
  <1>1. /\ Others(c) /\ UNCHANGED ec
        /\ \/ pc'[c] = "unblock_sc" /\ ret'[c] = Resume(c)
           \/ pc'[c] = Resume(c)
    BY DEF Inv, TypeOK, TypeCtl, Others, SmTimeout, Call, Goto
  <1>2. PICK e \in ECs :
          /\ EcCpu[e] = c /\ cont[e] \in {"blocking", "sys_finish_success"}
          /\ \A f \in ECs : f # e => cont'[f] = cont[f]
    BY SmTimeoutCont
  <1>3. ParkOK(c)'
    <2>1. ParkOK(c) /\ ec[c] \in ECs
      BY DEF Parks, Inv, TypeOK, TypeEc
    <2>2. /\ Resume(c) = "help" => pc[c] = "help"
          /\ Resume(c) # "schedule" /\ Resume(c) \notin Handlers
      BY DEF SmTimeout, Interruptible, Resume, Handlers
    <2> QED BY <1>1, <1>2, <2>1, <2>2 DEF ParkOK, AtHelp, Handlers, Parked
  <1> QED BY <1>1, <1>2, <1>3, ParksKept

\* Every step keeps Parks.
LEMMA NextParks == Inv /\ Calls /\ Waits /\ Parks /\ [Next]_vars => Parks'
  <1> SUFFICES ASSUME Inv, Calls, Waits, Parks, [Next]_vars PROVE Parks'
    OBVIOUS
  <1>1. CASE UNCHANGED vars
    BY <1>1 DEF vars, ctlVars, ecVars, Parks, ParkOK, AtHelp
  <1>2. ASSUME NEW c \in CPUs, SchedStep(c) PROVE Parks'
    BY <1>2, ScheduleParks, HandleRrqParks, RequeueParks, BudgetTimeoutParks DEF SchedStep
  <1>3. ASSUME NEW c \in CPUs, EcStep(c) PROVE Parks'
    <2>0. want[ec[c]] \in Local \cup {NoEc}
      BY <1>3, SelfOK
    <2>1. ASSUME SysIpcCall(c) \/ SendMsg(c) PROVE Parks'
      BY <2>0, <2>1, BailParks, RendezvousParks, EnterHelpParks DEF SysIpcCall, SendMsg
    <2>2. ASSUME SysIpcReply(c) \/ Kill(c) PROVE Parks'
      <3>1. caller[ec[c]] # NoEc => cont[caller[ec[c]]] \in {"ret_user_hypercall", "ret_user_exception"}
        BY <1>3, SelfOK DEF Calls, LinkOK
      <3> QED BY <2>2, <3>1, ReplyParks DEF SysIpcReply, Kill
    <2> QED BY <1>3, <2>1, <2>2, ActivateWalkParks, ActivateRunParks, ActivateBlockScParks,
       PickParks, UnblockScParks, UnblockLoopParks, NotifyParks, NamePortalParks,
       HelpParks, RecvParks, RetUserParks, IdleLoopParks, SysCreateScParks,
       NotifyCreatedParks DEF EcStep, CallPortal, RaiseException
  <1>4. ASSUME NEW c \in CPUs, SmStep(c) PROVE Parks'
    <2>1. ASSUME SysUp(c) \/ GsiUp(c) PROVE Parks'
      BY <2>1, UpCountParks, UpWakeParks, SmAssumption DEF SysUp, GsiUp, UpFrom
    <2> QED BY <1>4, <2>1, DnFastParks, DnBlockParks, DnBlockScParks, SmTimeoutParks,
       SysFinishParks DEF SmStep
  <1> QED BY <1>1, <1>2, <1>3, <1>4 DEF Next

\* Parks holds at bootstrap.
LEMMA InitParks == Init => Parks
  <1> SUFFICES ASSUME Init, NEW c \in CPUs PROVE cont[ec[c]] = "idle"
    BY DEF Parks, ParkOK, Parked
  <1>1. IdleEc(c) \in IdleEcs /\ IdleEc(c) \in ECs
    BY IdleConst DEF IdleEc, IdleEcs
  <1>2. ec[c] = IdleEc(c)
    BY DEF Init, IdleEc
  <1> QED BY <1>1, <1>2 DEF Init

\* Where the EC that a CPU runs is still inside its wait.
WaitPcs == {"sys_finish_success", "sys_finish_timeout", "dn", "schedule_blocked", "pick",
            "activate"}

\* The abstract state of an EC.
St(e) == CASE cont[e] = "blocking" -> "waiting"
           [] cont[e] = "sys_finish_success" /\ InWait(e) -> "granted"
           [] cont[e] = "sys_finish_timeout" /\ InWait(e) -> "expired"
           [] OTHER -> "free"

State == [e \in ECs |-> St(e)]

Woke == {"sys_finish_success", "sys_finish_timeout"}

\* CPU c runs e, outside of any wait.
Outside(c, e) == ec[c] = e /\ pc[c] \notin WaitPcs

\* The abstract state, by cases.
LEMMA StCases ==
    ASSUME NEW e \in ECs
    PROVE  /\ cont[e] = "blocking" => St(e) = "waiting"
           /\ cont[e] = "sys_finish_success" /\ InWait(e) => St(e) = "granted"
           /\ cont[e] = "sys_finish_timeout" /\ InWait(e) => St(e) = "expired"
           /\ cont[e] # "blocking" /\ ~(cont[e] \in Woke /\ InWait(e)) => St(e) = "free"
           /\ InWait(e) <=> \A c \in CPUs : ~Outside(c, e)
  BY DEF St, Woke, InWait, Outside, WaitPcs

\* The same after a step.
LEMMA StCasesNext ==
    ASSUME NEW e \in ECs
    PROVE  /\ cont'[e] = "blocking" => St(e)' = "waiting"
           /\ cont'[e] = "sys_finish_success" /\ InWait(e)' => St(e)' = "granted"
           /\ cont'[e] = "sys_finish_timeout" /\ InWait(e)' => St(e)' = "expired"
           /\ cont'[e] # "blocking" /\ ~(cont'[e] \in Woke /\ InWait(e)') => St(e)' = "free"
           /\ InWait(e)' <=> \A c \in CPUs : ~Outside(c, e)'
  BY DEF St, Woke, InWait, Outside, WaitPcs

\* The EC that CPU c runs is free, unless c is away or in a wait.
LEMMA SelfFree ==
    ASSUME Inv, Calls, NEW c \in CPUs, pc[c] \notin Away \cup WaitPcs
    PROVE  ec[c] \in ECs /\ EcCpu[ec[c]] = c /\ St(ec[c]) = "free" /\ ~InWait(ec[c])
           /\ cont[ec[c]] # "blocking"
  <1>1. ec[c] \in ECs /\ EcCpu[ec[c]] = c /\ Outside(c, ec[c])
    BY DEF Inv, Control, CpuOK, TypeOK, TypeEc, Outside
  <1>2. cont[ec[c]] # "blocking"
    BY DEF Calls, RunOK, Blocked, WaitPcs
  <1> QED BY <1>1, <1>2, StCases

\* A step of CPU c changes the abstract state of no EC that it does not touch.
LEMMA StSame ==
    ASSUME Inv, Inv', NEW c \in CPUs, Others(c), NEW e \in ECs, cont'[e] = cont[e],
           cont[e] \in Woke => (Outside(c, e)' <=> Outside(c, e))
    PROVE  St(e)' = St(e)
  <1>1. cont[e] \in Woke => (InWait(e)' <=> InWait(e))
    <2>1. \A d \in CPUs : d # c => (Outside(d, e)' <=> Outside(d, e))
      BY DEF Others, Outside
    <2> QED BY <2>1, StCases, StCasesNext
  <1> QED BY <1>1, StCases, StCasesNext DEF Woke

\* A step that the abstract specification does not see.
LEMMA Unseen ==
    ASSUME UNCHANGED <<counter, smq>>, \A e \in ECs : St(e)' = St(e)
    PROVE  UNCHANGED <<counter, smq, State>>
  BY DEF State

\* A step of CPU c on behalf of the same EC.
LEMMA QuietUnseen ==
    ASSUME Inv, Inv', NEW c \in CPUs, Others(c), UNCHANGED <<ec, cont, counter, smq>>,
           \/ pc'[c] \in WaitPcs <=> pc[c] \in WaitPcs
           \/ cont[ec[c]] \in Parked
    PROVE  UNCHANGED <<counter, smq, State>>
  <1>1. ASSUME NEW e \in ECs PROVE St(e)' = St(e)
    <2>1. cont[e] \in Woke => (Outside(c, e)' <=> Outside(c, e))
      BY DEF Outside, Woke, Parked
    <2> QED BY <2>1, StSame
  <1> QED BY <1>1, Unseen

\* A step of CPU c that changes how free ECs resume.
LEMMA ContUnseen ==
    ASSUME Inv, Inv', NEW c \in CPUs, Others(c), UNCHANGED <<counter, smq>>,
           \A e \in ECs : \/ /\ cont'[e] = cont[e]
                             /\ cont[e] \in Woke => (Outside(c, e)' <=> Outside(c, e))
                          \/ St(e) = "free" /\ cont'[e] \notin Woke \cup {"blocking"}
    PROVE  UNCHANGED <<counter, smq, State>>
  <1>1. ASSUME NEW e \in ECs PROVE St(e)' = St(e)
    <2>1. CASE cont'[e] = cont[e] /\ (cont[e] \in Woke => (Outside(c, e)' <=> Outside(c, e)))
      BY <2>1, StSame
    <2>2. CASE St(e) = "free" /\ cont'[e] \notin Woke \cup {"blocking"}
      BY <2>2, StCasesNext
    <2> QED BY <2>1, <2>2
  <1> QED BY <1>1, Unseen

\* Scheduler::schedule.
LEMMA ScheduleUnseen ==
    ASSUME Inv, Inv', Parks, NEW c \in CPUs, NEW b \in BOOLEAN, Schedule(c, b), UNCHANGED ecVars, UNCHANGED smVars
    PROVE  UNCHANGED <<counter, smq, State>>
  <1>1. Others(c) /\ UNCHANGED <<cont, ec, counter, smq>>
    BY DEF Inv, TypeOK, TypeCtl, Others, smVars, Schedule, Goto, ecVars
  <1>2. (pc'[c] \in WaitPcs <=> pc[c] \in WaitPcs) \/ cont[ec[c]] \in Parked
    <2>1. ParkOK(c) /\ CpuOK(c)
      BY DEF Parks, Inv, Control
    <2> QED BY <1>1, <2>1 DEF ParkOK, CpuOK, AtHelp, Handlers, Resumes, Inv, TypeOK, TypeCtl,
               WaitPcs, Schedule, Goto, ecVars
  <1> QED BY <1>1, <1>2, QuietUnseen

\* The RRQ IPI.
LEMMA HandleRrqUnseen ==
    ASSUME Inv, Inv', Parks, NEW c \in CPUs, HandleRrq(c), UNCHANGED ecVars, UNCHANGED smVars
    PROVE  UNCHANGED <<counter, smq, State>>
  <1>1. Others(c) /\ UNCHANGED <<cont, ec, counter, smq>>
    BY DEF Inv, TypeOK, TypeCtl, Others, smVars, HandleRrq, Call, Goto, Resume, Interruptible, ecVars
  <1>2. (pc'[c] \in WaitPcs <=> pc[c] \in WaitPcs) \/ cont[ec[c]] \in Parked
    <2>1. ParkOK(c) /\ CpuOK(c)
      BY DEF Parks, Inv, Control
    <2> QED BY <1>1, <2>1 DEF ParkOK, CpuOK, AtHelp, Handlers, Resumes, Inv, TypeOK, TypeCtl,
               WaitPcs, HandleRrq, Call, Goto, Resume, Interruptible, ecVars
  <1> QED BY <1>1, <1>2, QuietUnseen

\* Scheduler::requeue.
LEMMA RequeueUnseen ==
    ASSUME Inv, Inv', Parks, NEW c \in CPUs, Requeue(c), UNCHANGED ecVars, UNCHANGED smVars
    PROVE  UNCHANGED <<counter, smq, State>>
  <1>1. Others(c) /\ UNCHANGED <<cont, ec, counter, smq>>
    BY DEF Inv, TypeOK, TypeCtl, Others, smVars, Requeue, Leave, Call, Goto, ctlVars, ecVars
  <1>2. (pc'[c] \in WaitPcs <=> pc[c] \in WaitPcs) \/ cont[ec[c]] \in Parked
    <2>1. ParkOK(c) /\ CpuOK(c)
      BY DEF Parks, Inv, Control
    <2> QED BY <1>1, <2>1 DEF ParkOK, CpuOK, AtHelp, Handlers, Resumes, Inv, TypeOK, TypeCtl,
               WaitPcs, Requeue, Leave, Call, Goto, ctlVars, ecVars
  <1> QED BY <1>1, <1>2, QuietUnseen

\* The budget timeout.
LEMMA BudgetTimeoutUnseen ==
    ASSUME Inv, Inv', Parks, NEW c \in CPUs, BudgetTimeout(c), UNCHANGED ecVars, UNCHANGED smVars
    PROVE  UNCHANGED <<counter, smq, State>>
  <1>1. Others(c) /\ UNCHANGED <<cont, ec, counter, smq>>
    BY DEF Inv, TypeOK, TypeCtl, Others, smVars, BudgetTimeout, Goto, Resume, Interruptible, ecVars
  <1>2. (pc'[c] \in WaitPcs <=> pc[c] \in WaitPcs) \/ cont[ec[c]] \in Parked
    <2>1. ParkOK(c) /\ CpuOK(c)
      BY DEF Parks, Inv, Control
    <2> QED BY <1>1, <2>1 DEF ParkOK, CpuOK, AtHelp, Handlers, Resumes, Inv, TypeOK, TypeCtl,
               WaitPcs, BudgetTimeout, Goto, Resume, Interruptible, ecVars
  <1> QED BY <1>1, <1>2, QuietUnseen

\* Ec::activate goes down the chain.
LEMMA ActivateWalkUnseen ==
    ASSUME Inv, Inv', Parks, NEW c \in CPUs, ActivateWalk(c), UNCHANGED smVars
    PROVE  UNCHANGED <<counter, smq, State>>
  <1>1. Others(c) /\ UNCHANGED <<cont, ec, counter, smq>>
    BY DEF Inv, TypeOK, TypeCtl, Others, smVars, ActivateWalk
  <1>2. (pc'[c] \in WaitPcs <=> pc[c] \in WaitPcs) \/ cont[ec[c]] \in Parked
    <2>1. ParkOK(c) /\ CpuOK(c)
      BY DEF Parks, Inv, Control
    <2> QED BY <1>1, <2>1 DEF ParkOK, CpuOK, AtHelp, Handlers, Resumes, Inv, TypeOK, TypeCtl,
               WaitPcs, ActivateWalk
  <1> QED BY <1>1, <1>2, QuietUnseen

\* Ec::activate finds a blocked EC.
LEMMA ActivateBlockScUnseen ==
    ASSUME Inv, Inv', Parks, NEW c \in CPUs, ActivateBlockSc(c), UNCHANGED smVars
    PROVE  UNCHANGED <<counter, smq, State>>
  <1>1. Others(c) /\ UNCHANGED <<cont, ec, counter, smq>>
    BY DEF Inv, TypeOK, TypeCtl, Others, smVars, ActivateBlockSc, Leave, Call, Goto
  <1>2. (pc'[c] \in WaitPcs <=> pc[c] \in WaitPcs) \/ cont[ec[c]] \in Parked
    <2>1. ParkOK(c) /\ CpuOK(c)
      BY DEF Parks, Inv, Control
    <2> QED BY <1>1, <2>1 DEF ParkOK, CpuOK, AtHelp, Handlers, Resumes, Inv, TypeOK, TypeCtl,
               WaitPcs, ActivateBlockSc, Leave, Call, Goto
  <1> QED BY <1>1, <1>2, QuietUnseen

\* Ready::dequeue.
LEMMA PickUnseen ==
    ASSUME Inv, Inv', Parks, NEW c \in CPUs, Pick(c), UNCHANGED smVars
    PROVE  UNCHANGED <<counter, smq, State>>
  <1>1. Others(c) /\ UNCHANGED <<cont, ec, counter, smq>>
    BY DEF Inv, TypeOK, TypeCtl, Others, smVars, Pick, EnterActivate, Call, Goto
  <1>2. (pc'[c] \in WaitPcs <=> pc[c] \in WaitPcs) \/ cont[ec[c]] \in Parked
    <2>1. ParkOK(c) /\ CpuOK(c)
      BY DEF Parks, Inv, Control
    <2> QED BY <1>1, <2>1 DEF ParkOK, CpuOK, AtHelp, Handlers, Resumes, Inv, TypeOK, TypeCtl,
               WaitPcs, Pick, EnterActivate, Call, Goto
  <1> QED BY <1>1, <1>2, QuietUnseen

\* unblock_sc takes the lock.
LEMMA UnblockScUnseen ==
    ASSUME Inv, Inv', Parks, NEW c \in CPUs, UnblockSc(c), UNCHANGED smVars
    PROVE  UNCHANGED <<counter, smq, State>>
  <1>1. Others(c) /\ UNCHANGED <<cont, ec, counter, smq>>
    BY DEF Inv, TypeOK, TypeCtl, Others, smVars, UnblockSc, Goto, ecVars
  <1>2. (pc'[c] \in WaitPcs <=> pc[c] \in WaitPcs) \/ cont[ec[c]] \in Parked
    <2>1. ParkOK(c) /\ CpuOK(c)
      BY DEF Parks, Inv, Control
    <2> QED BY <1>1, <2>1 DEF ParkOK, CpuOK, AtHelp, Handlers, Resumes, Inv, TypeOK, TypeCtl,
               WaitPcs, UnblockSc, Goto, ecVars
  <1> QED BY <1>1, <1>2, QuietUnseen

\* unblock_sc takes an SC off the queue.
LEMMA UnblockLoopUnseen ==
    ASSUME Inv, Inv', Parks, NEW c \in CPUs, UnblockLoop(c), UNCHANGED smVars
    PROVE  UNCHANGED <<counter, smq, State>>
  <1>1. Others(c) /\ UNCHANGED <<cont, ec, counter, smq>>
    BY DEF Inv, TypeOK, TypeCtl, Others, smVars, UnblockLoop, Leave, Call, Goto, ctlVars
  <1>2. (pc'[c] \in WaitPcs <=> pc[c] \in WaitPcs) \/ cont[ec[c]] \in Parked
    <2>1. ParkOK(c) /\ CpuOK(c)
      BY DEF Parks, Inv, Control
    <2> QED BY <1>1, <2>1 DEF ParkOK, CpuOK, AtHelp, Handlers, Resumes, Inv, TypeOK, TypeCtl,
               WaitPcs, UnblockLoop, Leave, Call, Goto, ctlVars
  <1> QED BY <1>1, <1>2, QuietUnseen

\* unblock_sc sends the IPI.
LEMMA NotifyUnseen ==
    ASSUME Inv, Inv', Parks, NEW c \in CPUs, Notify(c), UNCHANGED smVars
    PROVE  UNCHANGED <<counter, smq, State>>
  <1>1. Others(c) /\ UNCHANGED <<cont, ec, counter, smq>>
    BY DEF Inv, TypeOK, TypeCtl, Others, smVars, Notify, Goto, ecVars
  <1>2. (pc'[c] \in WaitPcs <=> pc[c] \in WaitPcs) \/ cont[ec[c]] \in Parked
    <2>1. ParkOK(c) /\ CpuOK(c)
      BY DEF Parks, Inv, Control
    <2> QED BY <1>1, <2>1 DEF ParkOK, CpuOK, AtHelp, Handlers, Resumes, Inv, TypeOK, TypeCtl,
               WaitPcs, Notify, Goto, ecVars
  <1> QED BY <1>1, <1>2, QuietUnseen

\* User mode names a portal.
LEMMA NamePortalUnseen ==
    ASSUME Inv, Inv', Parks, NEW c \in CPUs, NEW p \in {"sys_ipc_call", "send_msg"}, NamePortal(c, p), UNCHANGED smVars
    PROVE  UNCHANGED <<counter, smq, State>>
  <1>1. Others(c) /\ UNCHANGED <<cont, ec, counter, smq>>
    BY DEF Inv, TypeOK, TypeCtl, Others, smVars, NamePortal, User, Goto
  <1>2. (pc'[c] \in WaitPcs <=> pc[c] \in WaitPcs) \/ cont[ec[c]] \in Parked
    <2>1. ParkOK(c) /\ CpuOK(c)
      BY DEF Parks, Inv, Control
    <2> QED BY <1>1, <2>1 DEF ParkOK, CpuOK, AtHelp, Handlers, Resumes, Inv, TypeOK, TypeCtl,
               WaitPcs, NamePortal, User, Goto
  <1> QED BY <1>1, <1>2, QuietUnseen

\* A call that is given up.
LEMMA BailUnseen ==
    ASSUME Inv, Inv', Parks, NEW c \in CPUs, pc[c] \in {"sys_ipc_call", "send_msg"},
           NEW p \in {"ret_user_hypercall", "kill"}, Bail(c, p), UNCHANGED smVars
    PROVE  UNCHANGED <<counter, smq, State>>
  <1>1. Others(c) /\ UNCHANGED <<cont, ec, counter, smq>>
    BY DEF Inv, TypeOK, TypeCtl, Others, smVars, Bail, Goto
  <1>2. (pc'[c] \in WaitPcs <=> pc[c] \in WaitPcs) \/ cont[ec[c]] \in Parked
    <2>1. ParkOK(c) /\ CpuOK(c)
      BY DEF Parks, Inv, Control
    <2> QED BY <1>1, <2>1 DEF ParkOK, CpuOK, AtHelp, Handlers, Resumes, Inv, TypeOK, TypeCtl,
               WaitPcs, Bail, Goto
  <1> QED BY <1>1, <1>2, QuietUnseen

\* A helper activates the handler it waits for.
LEMMA HelpUnseen ==
    ASSUME Inv, Inv', Parks, NEW c \in CPUs, Help(c), UNCHANGED smVars
    PROVE  UNCHANGED <<counter, smq, State>>
  <1>1. Others(c) /\ UNCHANGED <<cont, ec, counter, smq>>
    BY DEF Inv, TypeOK, TypeCtl, Others, smVars, Help, EnterActivate, Call, Goto
  <1>2. (pc'[c] \in WaitPcs <=> pc[c] \in WaitPcs) \/ cont[ec[c]] \in Parked
    <2>1. ParkOK(c) /\ CpuOK(c)
      BY DEF Parks, Inv, Control
    <2> QED BY <1>1, <2>1 DEF ParkOK, CpuOK, AtHelp, Handlers, Resumes, Inv, TypeOK, TypeCtl,
               WaitPcs, Help, EnterActivate, Call, Goto
  <1> QED BY <1>1, <1>2, QuietUnseen

\* recv_user and recv_kern.
LEMMA RecvUnseen ==
    ASSUME Inv, Inv', Parks, NEW c \in CPUs, Recv(c), UNCHANGED smVars
    PROVE  UNCHANGED <<counter, smq, State>>
  <1>1. Others(c) /\ UNCHANGED <<cont, ec, counter, smq>>
    BY DEF Inv, TypeOK, TypeCtl, Others, smVars, Recv, Goto, ecVars
  <1>2. (pc'[c] \in WaitPcs <=> pc[c] \in WaitPcs) \/ cont[ec[c]] \in Parked
    <2>1. ParkOK(c) /\ CpuOK(c)
      BY DEF Parks, Inv, Control
    <2> QED BY <1>1, <2>1 DEF ParkOK, CpuOK, AtHelp, Handlers, Resumes, Inv, TypeOK, TypeCtl,
               WaitPcs, Recv, Goto, ecVars
  <1> QED BY <1>1, <1>2, QuietUnseen

\* sys_create_sc.
LEMMA SysCreateScUnseen ==
    ASSUME Inv, Inv', Parks, NEW c \in CPUs, SysCreateSc(c), UNCHANGED smVars
    PROVE  UNCHANGED <<counter, smq, State>>
  <1>1. Others(c) /\ UNCHANGED <<cont, ec, counter, smq>>
    BY DEF Inv, TypeOK, TypeCtl, Others, smVars, SysCreateSc, User, Call, Goto, ecVars
  <1>2. (pc'[c] \in WaitPcs <=> pc[c] \in WaitPcs) \/ cont[ec[c]] \in Parked
    <2>1. ParkOK(c) /\ CpuOK(c)
      BY DEF Parks, Inv, Control
    <2> QED BY <1>1, <2>1 DEF ParkOK, CpuOK, AtHelp, Handlers, Resumes, Inv, TypeOK, TypeCtl,
               WaitPcs, SysCreateSc, User, Call, Goto, ecVars
  <1> QED BY <1>1, <1>2, QuietUnseen

\* sys_create_sc sends the IPI.
LEMMA NotifyCreatedUnseen ==
    ASSUME Inv, Inv', Parks, NEW c \in CPUs, NotifyCreated(c), UNCHANGED smVars
    PROVE  UNCHANGED <<counter, smq, State>>
  <1>1. Others(c) /\ UNCHANGED <<cont, ec, counter, smq>>
    BY DEF Inv, TypeOK, TypeCtl, Others, smVars, NotifyCreated, Leave, Call, Goto, ecVars
  <1>2. (pc'[c] \in WaitPcs <=> pc[c] \in WaitPcs) \/ cont[ec[c]] \in Parked
    <2>1. ParkOK(c) /\ CpuOK(c)
      BY DEF Parks, Inv, Control
    <2> QED BY <1>1, <2>1 DEF ParkOK, CpuOK, AtHelp, Handlers, Resumes, Inv, TypeOK, TypeCtl,
               WaitPcs, NotifyCreated, Leave, Call, Goto, ecVars
  <1> QED BY <1>1, <1>2, QuietUnseen

\* ret_user_hypercall and ret_user_exception.
LEMMA RetUserUnseen ==
    ASSUME Inv, Inv', Calls, NEW c \in CPUs, RetUser(c), UNCHANGED smVars
    PROVE  UNCHANGED <<counter, smq, State>>
  <1>1. Others(c) /\ UNCHANGED <<ec, counter, smq>>
    BY DEF Inv, TypeOK, TypeCtl, Others, smVars, RetUser, Goto
  <1>2. /\ pc[c] \notin Away \cup WaitPcs /\ pc'[c] \notin WaitPcs
        /\ \A e \in ECs : cont'[e] = cont[e] \/ (e = ec[c] /\ cont'[e] \in Parked)
    BY DEF Inv, TypeOK, TypeCtl, TypeEc, Away, WaitPcs, Parked, RetUser, Goto
  <1>3. St(ec[c]) = "free"
    BY <1>2, SelfFree
  <1>4. \A e \in ECs :
            \/ /\ cont'[e] = cont[e]
               /\ cont[e] \in Woke => (Outside(c, e)' <=> Outside(c, e))
            \/ St(e) = "free" /\ cont'[e] \notin Woke \cup {"blocking"}
    BY <1>1, <1>2, <1>3 DEF Outside, Parked, Woke
  <1> QED BY <1>1, <1>4, ContUnseen

\* The idle loop.
LEMMA IdleLoopUnseen ==
    ASSUME Inv, Inv', Calls, NEW c \in CPUs, IdleLoop(c), UNCHANGED smVars
    PROVE  UNCHANGED <<counter, smq, State>>
  <1>1. Others(c) /\ UNCHANGED <<ec, counter, smq>>
    BY DEF Inv, TypeOK, TypeCtl, Others, smVars, IdleLoop, Goto
  <1>2. /\ pc[c] \notin Away \cup WaitPcs /\ pc'[c] \notin WaitPcs
        /\ \A e \in ECs : cont'[e] = cont[e] \/ (e = ec[c] /\ cont'[e] \in Parked)
    BY DEF Inv, TypeOK, TypeCtl, TypeEc, Away, WaitPcs, Parked, IdleLoop, Goto
  <1>3. St(ec[c]) = "free"
    BY <1>2, SelfFree
  <1>4. \A e \in ECs :
            \/ /\ cont'[e] = cont[e]
               /\ cont[e] \in Woke => (Outside(c, e)' <=> Outside(c, e))
            \/ St(e) = "free" /\ cont'[e] \notin Woke \cup {"blocking"}
    BY <1>1, <1>2, <1>3 DEF Outside, Parked, Woke
  <1> QED BY <1>1, <1>4, ContUnseen

\* A call whose handler is busy.
LEMMA EnterHelpUnseen ==
    ASSUME Inv, Inv', Calls, NEW c \in CPUs, pc[c] \in {"sys_ipc_call", "send_msg"}, NEW s,
           NEW x \in {"sys_ipc_call", "send_msg"}, EnterHelp(c, s, x), UNCHANGED smVars
    PROVE  UNCHANGED <<counter, smq, State>>
  <1>1. Others(c) /\ UNCHANGED <<ec, counter, smq>>
    BY DEF Inv, TypeOK, TypeCtl, Others, smVars, EnterHelp, Goto
  <1>2. /\ pc[c] \notin Away \cup WaitPcs /\ pc'[c] \notin WaitPcs
        /\ \A e \in ECs : cont'[e] = cont[e] \/ (e = ec[c] /\ cont'[e] \in Parked)
    BY DEF Inv, TypeOK, TypeCtl, TypeEc, Away, WaitPcs, Parked, EnterHelp, Goto
  <1>3. St(ec[c]) = "free"
    BY <1>2, SelfFree
  <1>4. \A e \in ECs :
            \/ /\ cont'[e] = cont[e]
               /\ cont[e] \in Woke => (Outside(c, e)' <=> Outside(c, e))
            \/ St(e) = "free" /\ cont'[e] \notin Woke \cup {"blocking"}
    BY <1>1, <1>2, <1>3 DEF Outside, Parked, Woke
  <1> QED BY <1>1, <1>4, ContUnseen

\* Ec::activate runs the EC at the end of the chain: if it was woken, at sys_finish.
LEMMA ActivateRunUnseen ==
    ASSUME Inv, Inv', NEW c \in CPUs, ActivateRun(c), UNCHANGED smVars
    PROVE  UNCHANGED <<counter, smq, State>>
  <1>1. /\ Others(c) /\ UNCHANGED <<cont, counter, smq>>
        /\ pc[c] = "activate" /\ pc'[c] = cont[arg[c]] /\ ec'[c] = arg[c]
    BY DEF Inv, TypeOK, TypeCtl, TypeEc, Others, smVars, ActivateRun, MakeCurrent, Leave, Call,
           Goto
  <1>2. \A e \in ECs : cont[e] \in Woke => ~Outside(c, e)' /\ ~Outside(c, e)
    BY <1>1 DEF Outside, Woke, WaitPcs
  <1> QED BY <1>1, <1>2, ContUnseen

\* Ec::rendezvous.
LEMMA RendezvousUnseen ==
    ASSUME Inv, Inv', Calls, NEW c \in CPUs, pc[c] \in {"sys_ipc_call", "send_msg"},
           NEW s \in Local, NEW x \in {"ret_user_hypercall", "ret_user_exception"},
           NEW y \in {"recv_user", "recv_kern"}, Rendezvous(c, s, x, y), UNCHANGED smVars
    PROVE  UNCHANGED <<counter, smq, State>>
  <1>1. /\ Others(c) /\ UNCHANGED <<counter, smq>> /\ cont[s] = "null" /\ s \in ECs
        /\ ec'[c] = s
    BY Constants DEF Inv, TypeOK, TypeCtl, TypeEc, Others, smVars, Rendezvous, MakeCurrent, Leave,
           Call, Goto
  <1>2. St(ec[c]) = "free" /\ ec[c] \in ECs
    BY SelfFree DEF Away, WaitPcs
  <1>3. St(s) = "free"
    BY <1>1, StCases DEF Woke
  <1>4. \A e \in ECs : cont'[e] = cont[e] \/ (e \in {s, ec[c]} /\ cont'[e] \in {x, y})
    BY <1>1, <1>2 DEF Inv, TypeOK, TypeEc, Rendezvous
  <1>5. cont'[s] = y /\ cont'[ec[c]] \in {x, y}
    BY <1>1, <1>2 DEF Inv, TypeOK, TypeEc, Rendezvous
  <1>6. \A e \in ECs : e \notin {s, ec[c]} => ~Outside(c, e)' /\ ~Outside(c, e)
    BY <1>1 DEF Outside
  <1> QED BY <1>1, <1>2, <1>3, <1>4, <1>5, <1>6, ContUnseen DEF Woke

\* Ec::reply.
LEMMA ReplyUnseen ==
    ASSUME Inv, Inv', Calls, NEW c \in CPUs, pc[c] \in {"user", "kill", "dead", "blocking"},
           NEW x \in {"null", "dead"}, NEW k,
           caller[ec[c]] # NoEc =>
               k \in {"ret_user_hypercall", "ret_user_exception", "sys_finish_aborted", "dead"},
           Reply(c, x, k), UNCHANGED smVars
    PROVE  UNCHANGED <<counter, smq, State>>
  <1>1. Others(c) /\ UNCHANGED <<counter, smq>>
    BY SMTT(30) DEF Inv, TypeOK, TypeCtl, TypeEc, Others, smVars, Reply, MakeCurrent, EnterActivate, Leave,
           Call, Goto
  <1>2. St(ec[c]) = "free" /\ ec[c] \in ECs
    BY SelfFree DEF Away, WaitPcs
  <1>3. /\ caller[ec[c]] \in ECs \cup {NoEc}
        /\ caller[ec[c]] # NoEc => St(caller[ec[c]]) = "free" /\ caller[ec[c]] # ec[c]
    <2>1. caller[ec[c]] \in ECs \cup {NoEc}
      BY <1>2 DEF Inv, TypeOK, TypeEc
    <2>2. ASSUME caller[ec[c]] # NoEc PROVE St(caller[ec[c]]) = "free" /\ caller[ec[c]] # ec[c]
      <3>1. /\ cont[caller[ec[c]]] \in {"ret_user_hypercall", "ret_user_exception"}
            /\ callee[caller[ec[c]]] = ec[c] /\ callee[ec[c]] = NoEc
        BY <1>2, <2>2 DEF Calls, LinkOK, RunOK, Away
      <3> QED BY <1>2, <2>1, <2>2, <3>1, StCases, Constants DEF Woke
    <2> QED BY <2>1, <2>2
  <1>4. CASE caller[ec[c]] = NoEc
    <2>1. UNCHANGED ec /\ cont' = [cont EXCEPT ![ec[c]] = x]
      BY <1>4 DEF Reply
    <2>2. \A e \in ECs : IF e = ec[c] THEN cont'[e] = x
                         ELSE cont'[e] = cont[e] /\ ~Outside(c, e)' /\ ~Outside(c, e)
      BY <2>1 DEF Outside, Inv, TypeOK, TypeEc
    <2> QED BY <1>1, <1>2, <2>2, ContUnseen DEF Woke
  <1>5. CASE caller[ec[c]] # NoEc
    <2>1. PICK p \in ECs : p = caller[ec[c]] /\ p # ec[c] /\ St(p) = "free"
      BY <1>3, <1>5
    <2>2. /\ cont' = [cont EXCEPT ![ec[c]] = x, ![p] = k]
          /\ ec'[c] \in {ec[c], p}
      BY <1>5, <2>1 DEF Reply, MakeCurrent, Inv, TypeOK, TypeEc
    <2>3. \A e \in ECs : IF e \in {ec[c], p} THEN cont'[e] \in {x, k}
                         ELSE cont'[e] = cont[e] /\ ~Outside(c, e)' /\ ~Outside(c, e)
      BY <2>2 DEF Outside, Inv, TypeOK, TypeEc
    <2> QED BY <1>1, <1>2, <1>5, <2>1, <2>3, ContUnseen DEF Woke
  <1> QED BY <1>4, <1>5

\* The abstract state after a step that changes it for one EC.
LEMMA StateSet ==
    ASSUME NEW x \in ECs, NEW v, St(x)' = v, \A e \in ECs : e # x => St(e)' = St(e)
    PROVE  State' = [State EXCEPT ![x] = v]
  BY DEF State

\* Sm::dn with tokens left takes one, or all.
LEMMA DnFastSeen ==
    ASSUME Inv, Inv', Calls, NEW c \in CPUs, DnFast(c)
    PROVE  \E e \in ECs, m \in SMs : Abstract!Take(e, m)
  <1>1. Others(c) /\ UNCHANGED <<cont, ec, smq>>
    BY DEF Inv, TypeOK, TypeCtl, Others, DnFast, Goto, ecVars
  <1>2. pc[c] \notin Away \cup WaitPcs /\ pc'[c] \notin WaitPcs
    BY DEF Inv, TypeOK, TypeCtl, DnFast, User, Goto, Away, WaitPcs
  <1>3. \A e \in ECs : St(e)' = St(e)
    <2> SUFFICES ASSUME NEW e \in ECs PROVE St(e)' = St(e)
      OBVIOUS
    <2>1. Outside(c, e)' <=> Outside(c, e)
      BY <1>1, <1>2 DEF Outside
    <2> QED BY <1>1, <2>1, StSame
  <1>4. UNCHANGED State
    BY <1>3 DEF State
  <1>5. ec[c] \in ECs /\ State[ec[c]] = "free"
    BY <1>2, SelfFree DEF State
  <1>6. PICK m \in SMs : /\ counter[m] # 0
                         /\ \/ counter' = [counter EXCEPT ![m] = 0]
                            \/ counter' = [counter EXCEPT ![m] = counter[m] - 1]
    <2>1. PICK m \in SMs : /\ counter[m] # 0
                           /\ \E zero \in BOOLEAN : counter' =
                                [counter EXCEPT ![m] = IF zero THEN 0 ELSE @ - 1]
      BY DEF DnFast
    <2>2. PICK zero \in BOOLEAN : counter' =
            [counter EXCEPT ![m] = IF zero THEN 0 ELSE counter[m] - 1]
      BY <2>1
    <2> QED BY <2>1, <2>2
  <1>7. counter[m] \in Nat
    BY Constants DEF Inv, TypeOK, TypeSm
  <1>8. counter[m] > 0 /\ \E n \in {0, counter[m] - 1} : counter' = [counter EXCEPT ![m] = n]
    <2>1. counter[m] > 0
      BY <1>6, <1>7
    <2> QED BY <1>6, <2>1
  <1>9. Abstract!Take(ec[c], m)
    BY <1>1, <1>4, <1>5, <1>8 DEF Abstract!Take, State, St
  <1> QED BY <1>5, <1>9

\* Sm::dn without tokens waits.
LEMMA DnBlockSeen ==
    ASSUME Inv, Inv', Calls, NEW c \in CPUs, DnBlock(c)
    PROVE  \E e \in ECs, m \in SMs : Abstract!Wait(e, m)
  <1>1. Others(c) /\ UNCHANGED <<ec, counter>>
    BY DEF Inv, TypeOK, TypeCtl, Others, DnBlock, Goto
  <1>2. pc[c] \notin Away \cup WaitPcs
    BY DEF DnBlock, User, Away, WaitPcs
  <1>3. ec[c] \in ECs /\ St(ec[c]) = "free"
    BY <1>2, SelfFree
  <1>4. PICK m \in SMs : /\ counter[m] = 0
                         /\ smq' = [smq EXCEPT ![m] = Append(@, ec[c])]
    BY DEF DnBlock
  <1>5. cont' = [cont EXCEPT ![ec[c]] = "blocking"]
    BY DEF DnBlock
  <1>6. St(ec[c])' = "waiting"
    <2>1. cont'[ec[c]] = "blocking"
      BY <1>3, <1>5 DEF Inv, TypeOK, TypeEc
    <2>2. PICK x \in ECs : x = ec[c]
      BY <1>3
    <2>3. St(x)' = "waiting"
      BY <2>1, <2>2, StCasesNext
    <2> QED BY <1>1, <2>2, <2>3 DEF St, InWait
  <1>7. \A e \in ECs : e # ec[c] => St(e)' = St(e)
    <2> SUFFICES ASSUME NEW e \in ECs, e # ec[c] PROVE St(e)' = St(e)
      OBVIOUS
    <2>1. cont'[e] = cont[e]
      BY <1>3, <1>5 DEF Inv, TypeOK, TypeEc
    <2>2. ~Outside(c, e)' /\ ~Outside(c, e)
      BY <1>1 DEF Outside
    <2> QED BY <1>1, <2>1, <2>2, StSame
  <1>8. PICK x \in ECs : x = ec[c]
    BY <1>3
  <1>9. State' = [State EXCEPT ![x] = "waiting"] /\ State[x] = "free"
    <2>1. St(x)' = "waiting" /\ St(x) = "free" /\ \A e \in ECs : e # x => St(e)' = St(e)
      BY <1>1, <1>3, <1>6, <1>7, <1>8 DEF St, InWait
    <2>2. State' = [State EXCEPT ![x] = "waiting"]
      BY <2>1, StateSet
    <2> QED BY <2>1, <2>2 DEF State
  <1>10. Abstract!Wait(x, m)
    BY <1>1, <1>4, <1>8, <1>9 DEF Abstract!Wait, State, St
  <1> QED BY <1>10

\* Leaving the hypercall ends the wait.
LEMMA Returns ==
    ASSUME Inv, Inv', Calls, NEW c \in CPUs, Others(c), UNCHANGED <<ec, cont, counter, smq>>,
           cont[ec[c]] # "blocking", pc[c] \in WaitPcs, pc'[c] \notin WaitPcs
    PROVE  (\E e \in ECs : Abstract!Return(e)) \/ UNCHANGED <<counter, smq, State>>
  <1>1. PICK x \in ECs : x = ec[c] /\ EcCpu[x] = c
    BY DEF Inv, Control, CpuOK, TypeOK, TypeEc
  <1>2. \A e \in ECs : e # x => St(e)' = St(e)
    <2> SUFFICES ASSUME NEW e \in ECs, e # x PROVE St(e)' = St(e)
      OBVIOUS
    <2>1. ~Outside(c, e)' /\ ~Outside(c, e)
      BY <1>1 DEF Outside
    <2> QED BY <2>1, StSame
  <1>3. St(x)' = "free"
    <2>1. Outside(c, x)' /\ cont'[x] # "blocking"
      BY <1>1 DEF Outside
    <2>2. ~InWait(x)'
      BY <2>1, StCasesNext
    <2> QED BY <2>1, <2>2, StCasesNext
  <1>4. St(x) \in {"free", "granted", "expired"}
    BY <1>1, StCases DEF Woke
  <1>5. CASE St(x) = "free"
    <2>1. \A e \in ECs : St(e)' = St(e)
      BY <1>2, <1>3, <1>5
    <2> QED BY <2>1, Unseen
  <1>6. CASE St(x) # "free"
    <2>1. State[x] \in {"granted", "expired"}
      BY <1>4, <1>6 DEF State
    <2>2. State' = [State EXCEPT ![x] = "free"]
      BY <1>2, <1>3, StateSet
    <2>3. Abstract!Return(x)
      BY <2>1, <2>2 DEF Abstract!Return, State, St
    <2> QED BY <2>3
  <1> QED BY <1>5, <1>6

\* The rest of Sm::dn: the wait goes on in the scheduler, or has ended.
LEMMA DnBlockScSeen ==
    ASSUME Inv, Inv', Calls, NEW c \in CPUs, DnBlockSc(c)
    PROVE  (\E e \in ECs : Abstract!Return(e)) \/ UNCHANGED <<counter, smq, State>>
  <1>1. Others(c) /\ UNCHANGED <<ec, cont, counter, smq>> /\ pc[c] = "dn" /\ pc[c] \in WaitPcs
    BY DEF Inv, TypeOK, TypeCtl, Others, DnBlockSc, Goto, WaitPcs
  <1>2. CASE Blocked(ec[c])
    <2>1. pc'[c] \in WaitPcs
      BY <1>2 DEF Inv, TypeOK, TypeCtl, DnBlockSc, Goto, WaitPcs
    <2> QED BY <1>1, <2>1, QuietUnseen
  <1>3. CASE ~Blocked(ec[c])
    <2>1. pc'[c] \notin WaitPcs
      BY <1>3 DEF Inv, TypeOK, TypeCtl, DnBlockSc, Goto, WaitPcs
    <2>2. cont[ec[c]] # "blocking"
      BY <1>3 DEF Blocked
    <2> QED BY <1>1, <2>1, <2>2, Returns
  <1> QED BY <1>2, <1>3

\* Ec::sys_finish.
LEMMA SysFinishSeen ==
    ASSUME Inv, Inv', Calls, NEW c \in CPUs, SysFinish(c)
    PROVE  (\E e \in ECs : Abstract!Return(e)) \/ UNCHANGED <<counter, smq, State>>
  <1>1. Others(c) /\ UNCHANGED <<ec, cont, counter, smq>> /\ pc'[c] \notin WaitPcs
    BY DEF Inv, TypeOK, TypeCtl, Others, SysFinish, Goto, ecVars, WaitPcs
  <1>2. cont[ec[c]] # "blocking"
    BY DEF Calls, RunOK, Blocked, Away, SysFinish
  <1>3. CASE pc[c] \in WaitPcs
    BY <1>1, <1>2, <1>3, Returns
  <1>4. CASE pc[c] \notin WaitPcs
    BY <1>1, <1>4, QuietUnseen
  <1> QED BY <1>3, <1>4

\* Sm::up without a waiter.
LEMMA UpCountSeen ==
    ASSUME Inv, Inv', Calls, NEW c \in CPUs, NEW M \in SUBSET SMs, NEW r, UpFrom(c, r),
           UpCount(c, M, r)
    PROVE  (\E m \in SMs : Abstract!Signal(m)) \/ UNCHANGED <<counter, smq, State>>
  <1>1. Others(c) /\ UNCHANGED <<ec, cont, smq>>
    BY DEF Inv, TypeOK, TypeCtl, Others, UpCount, Goto, ecVars
  <1>2. pc[c] \notin WaitPcs /\ pc'[c] \notin WaitPcs
    BY DEF Inv, TypeOK, TypeCtl, UpCount, UpFrom, User, Interruptible, Resume, Goto, WaitPcs
  <1>3. \A e \in ECs : St(e)' = St(e)
    <2> SUFFICES ASSUME NEW e \in ECs PROVE St(e)' = St(e)
      OBVIOUS
    <2>1. Outside(c, e)' <=> Outside(c, e)
      BY <1>1, <1>2 DEF Outside
    <2> QED BY <1>1, <2>1, StSame
  <1>4. UNCHANGED State
    BY <1>3 DEF State
  <1>5. PICK m \in SMs : /\ smq[m] = <<>>
                         /\ counter' = IF counter[m] = MaxCounter THEN counter
                                       ELSE [counter EXCEPT ![m] = counter[m] + 1]
    BY DEF UpCount
  <1>6. CASE counter[m] = MaxCounter
    BY <1>1, <1>4, <1>5, <1>6
  <1>7. CASE counter[m] # MaxCounter
    <2>1. counter[m] < MaxCounter
      BY <1>7, Constants DEF Inv, TypeOK, TypeSm
    <2>2. Abstract!Signal(m)
      BY <1>1, <1>4, <1>5, <1>7, <2>1 DEF Abstract!Signal, State, St
    <2> QED BY <2>2
  <1> QED BY <1>6, <1>7

\* An EC that is blocked in a wait stays inside it when it is woken.
LEMMA WokenInWait ==
    ASSUME Inv, Calls, Parks, NEW c \in CPUs, Others(c), UNCHANGED ec, NEW e \in ECs,
           cont[e] = "blocking", pc[c] \notin Away \cup WaitPcs
    PROVE  InWait(e)'
  <1> SUFFICES ASSUME NEW d \in CPUs, Outside(d, e)' PROVE FALSE
    BY StCasesNext
  <1>1. ec[d] = e
    BY DEF Outside
  <1>2. d # c
    BY <1>1, SelfFree
  <1>3. pc[d] \notin WaitPcs
    BY <1>2 DEF Outside, Others
  <1>4. pc[d] = "schedule"
    BY <1>1, <1>3 DEF Calls, RunOK, Blocked, Away, WaitPcs
  <1> QED BY <1>1, <1>4 DEF Parks, ParkOK, Parked

\* Sm::up with a waiter hands over the token.
LEMMA UpWakeSeen ==
    ASSUME Inv, Inv', Calls, Parks, NEW c \in CPUs, NEW M \in SUBSET SMs, NEW r, UpFrom(c, r),
           UpWake(c, M, r)
    PROVE  \E m \in SMs : Abstract!Signal(m)
  <1>1. Others(c) /\ UNCHANGED <<ec, counter>>
    BY DEF Inv, TypeOK, TypeCtl, Others, UpWake, Call, Goto
  <1>2. pc[c] \notin Away \cup WaitPcs /\ pc'[c] \notin WaitPcs
    BY DEF Inv, TypeOK, TypeCtl, UpWake, UpFrom, User, Interruptible, Call, Goto, Away, WaitPcs
  <1>3. PICK m \in SMs : /\ smq[m] # <<>>
                         /\ smq' = [smq EXCEPT ![m] = Tail(@)]
                         /\ cont' = [cont EXCEPT ![Head(smq[m])] = "sys_finish_success"]
    BY DEF UpWake
  <1>4. PICK x \in ECs : x = Head(smq[m]) /\ cont[x] = "blocking"
    <2>1. smq[m] \in Seq(ECs) /\ smq[m] # <<>>
      BY <1>3 DEF Inv, TypeOK, TypeSm
    <2>2. Head(smq[m]) \in ECs /\ Head(smq[m]) \in Elems(smq[m])
      BY <2>1 DEF Elems
    <2> QED BY <2>2 DEF Calls, Waiters
  <1>5. cont'[x] = "sys_finish_success" /\ \A e \in ECs : e # x => cont'[e] = cont[e]
    BY <1>3, <1>4 DEF Inv, TypeOK, TypeEc
  <1>6. St(x)' = "granted"
    BY <1>1, <1>2, <1>4, <1>5, WokenInWait, StCasesNext
  <1>7. \A e \in ECs : e # x => St(e)' = St(e)
    <2> SUFFICES ASSUME NEW e \in ECs, e # x PROVE St(e)' = St(e)
      OBVIOUS
    <2>1. Outside(c, e)' <=> Outside(c, e)
      BY <1>1, <1>2 DEF Outside
    <2> QED BY <1>1, <1>5, <2>1, StSame
  <1>8. State' = [State EXCEPT ![Head(smq[m])] = "granted"]
    BY <1>4, <1>6, <1>7, StateSet
  <1>9. Abstract!Signal(m)
    BY <1>1, <1>3, <1>8 DEF Abstract!Signal, State, St
  <1> QED BY <1>9

\* Taking an element out of a queue.
LEMMA RemoveIs ==
    ASSUME NEW S, NEW q \in Seq(S), NEW i \in 1 .. Len(q)
    PROVE  Remove(q, i) = SubSeq(q, 1, i - 1) \o SubSeq(q, i + 1, Len(q))
  <1>1. PICK a : a = SubSeq(q, 1, i - 1)
    OBVIOUS
  <1>2. PICK b : b = SubSeq(q, i + 1, Len(q))
    OBVIOUS
  <1>3. a \in Seq(S) /\ Len(a) = i - 1 /\ \A j \in 1 .. i - 1 : a[j] = q[j]
    BY <1>1
  <1>4. b \in Seq(S) /\ Len(b) = Len(q) - i /\ \A j \in 1 .. Len(q) - i : b[j] = q[i + j]
    BY <1>2
  <1>5. /\ a \o b \in Seq(S) /\ Len(a \o b) = Len(q) - 1
        /\ \A j \in 1 .. Len(q) - 1 : (a \o b)[j] = IF j < i THEN q[j] ELSE q[j + 1]
    <2>0. Len(q) \in Nat /\ i \in Nat /\ 1 <= i /\ i <= Len(q)
      OBVIOUS
    <2>1. \A u, w \in Seq(S) : /\ u \o w \in Seq(S) /\ Len(u \o w) = Len(u) + Len(w)
                               /\ \A j \in 1 .. Len(u) + Len(w) :
                                    (u \o w)[j] = IF j <= Len(u) THEN u[j] ELSE w[j - Len(u)]
      OBVIOUS
    <2>2. /\ a \o b \in Seq(S) /\ Len(a \o b) = Len(a) + Len(b)
          /\ \A j \in 1 .. Len(a) + Len(b) : (a \o b)[j] = IF j <= Len(a) THEN a[j] ELSE b[j - Len(a)]
      BY <2>1, <1>3, <1>4, Zenon
    <2>3. Len(a) + Len(b) = Len(q) - 1
      BY <1>3, <1>4, <2>0
    <2>4. ASSUME NEW j \in 1 .. Len(q) - 1 PROVE (a \o b)[j] = IF j < i THEN q[j] ELSE q[j + 1]
      <3>1. CASE j < i
        <4>1. j <= Len(a) /\ j \in 1 .. i - 1
          BY <2>0, <3>1, <1>3
        <4> QED BY <4>1, <3>1, <2>2, <2>3, <1>3
      <3>2. CASE ~(j < i)
        <4>1. ~(j <= Len(a)) /\ j - Len(a) \in 1 .. Len(q) - i /\ i + (j - Len(a)) = j + 1
          BY <2>0, <3>2, <1>3
        <4>2. (a \o b)[j] = b[j - Len(a)]
          BY <4>1, <2>2, <2>3
        <4> QED BY <4>1, <4>2, <3>2, <1>4
      <3> QED BY <3>1, <3>2
    <2> QED BY <2>2, <2>3, <2>4
  <1>6. a \o b = [j \in 1 .. Len(q) - 1 |-> IF j < i THEN q[j] ELSE q[j + 1]]
    <2>1. PICK t : t = a \o b
      OBVIOUS
    <2>2. /\ t \in Seq(S) /\ Len(t) = Len(q) - 1
          /\ \A j \in 1 .. Len(q) - 1 : t[j] = IF j < i THEN q[j] ELSE q[j + 1]
      BY <1>5, <2>1
    <2>3. t \in [1 .. Len(q) - 1 -> S]
      BY <2>2
    <2>4. t = [j \in 1 .. Len(q) - 1 |-> IF j < i THEN q[j] ELSE q[j + 1]]
      BY <2>2, <2>3
    <2> QED BY <2>1, <2>4
  <1> QED BY <1>1, <1>2, <1>6 DEF Remove

\* A hypercall timeout ends the wait, unless it has ended already.
LEMMA SmTimeoutSeen ==
    ASSUME Inv, Inv', Calls, Waits, Parks, NEW c \in CPUs, SmTimeout(c)
    PROVE  (\E e \in ECs, m \in SMs : Abstract!Expire(e, m)) \/ UNCHANGED <<counter, smq, State>>
  <1>1. Others(c) /\ UNCHANGED <<ec, counter>>
    BY DEF Inv, TypeOK, TypeCtl, Others, SmTimeout, Call, Goto
  <1>2. pc[c] \notin Away \cup WaitPcs /\ pc'[c] \notin WaitPcs
    BY DEF Inv, TypeOK, TypeCtl, SmTimeout, Interruptible, Resume, Call, Goto, Away, WaitPcs
  <1>3. PICK e \in ECs :
          LET m == timeout[e] IN
            /\ EcCpu[e] = c /\ m # NoSm
            /\ IF Blocked(e)
               THEN /\ \E i \in 1 .. Len(smq[m]) :
                          /\ smq[m][i] = e
                          /\ smq' = [smq EXCEPT ![m] = Remove(@, i)]
                    /\ cont' = [cont EXCEPT ![e] = "sys_finish_timeout"]
               ELSE UNCHANGED <<cont, smq>>
    BY DEF SmTimeout
  <1>4. CASE ~Blocked(e)
    <2>1. UNCHANGED <<cont, smq>>
      BY <1>3, <1>4
    <2> QED BY <1>1, <1>2, <2>1, QuietUnseen
  <1>5. CASE Blocked(e)
    <2>1. PICK m \in SMs : m = timeout[e]
      BY <1>3 DEF Inv, TypeOK, TypeSm
    <2>2. PICK i \in 1 .. Len(smq[m]) :
            smq[m][i] = e /\ smq' = [smq EXCEPT ![m] = Remove(smq[m], i)]
      BY <1>3, <1>5, <2>1
    <2>3. cont' = [cont EXCEPT ![e] = "sys_finish_timeout"] /\ cont[e] = "blocking"
      <3>1. cont[e] \in {"blocking", "sys_finish_success"}
        BY <1>3 DEF Waits, Timers, TimerOK
      <3> QED BY <1>3, <1>5, <3>1 DEF Blocked
    <2>4. cont'[e] = "sys_finish_timeout" /\ \A f \in ECs : f # e => cont'[f] = cont[f]
      BY <2>3 DEF Inv, TypeOK, TypeEc
    <2>5. St(e)' = "expired"
      BY <1>1, <1>2, <2>3, <2>4, WokenInWait, StCasesNext
    <2>6. \A f \in ECs : f # e => St(f)' = St(f)
      <3> SUFFICES ASSUME NEW f \in ECs, f # e PROVE St(f)' = St(f)
        OBVIOUS
      <3>1. Outside(c, f)' <=> Outside(c, f)
        BY <1>1, <1>2 DEF Outside
      <3> QED BY <1>1, <2>4, <3>1, StSame
    <2>7. State' = [State EXCEPT ![e] = "expired"]
      BY <2>5, <2>6, StateSet
    <2>8. Remove(smq[m], i) = SubSeq(smq[m], 1, i - 1) \o SubSeq(smq[m], i + 1, Len(smq[m]))
      <3>1. smq[m] \in Seq(ECs)
        BY DEF Inv, TypeOK, TypeSm
      <3> QED BY <3>1, RemoveIs
    <2>9. \E j \in 1 .. Len(smq[m]) :
            /\ smq[m][j] = e
            /\ smq' = [smq EXCEPT ![m] = SubSeq(@, 1, j - 1) \o SubSeq(@, j + 1, Len(@))]
      BY <2>2, <2>8
    <2>10. Abstract!Expire(e, m)
      BY <1>1, <2>7, <2>9, Zenon DEF Abstract!Expire, State, St
    <2> QED BY <2>10
  <1> QED BY <1>4, <1>5

\* Every step of the kernel is a step of the semaphores, or none.
LEMMA NextRefines ==
    Inv /\ Inv' /\ Calls /\ Waits /\ Parks /\ [Next]_vars =>
        Abstract!Next \/ UNCHANGED <<counter, smq, State>>
  <1> SUFFICES ASSUME Inv, Inv', Calls, Waits, Parks, [Next]_vars
               PROVE  Abstract!Next \/ UNCHANGED <<counter, smq, State>>
    OBVIOUS
  <1>1. CASE UNCHANGED vars
    <2>1. UNCHANGED <<pc, ec, cont, counter, smq>>
      BY <1>1 DEF vars, ctlVars, ecVars, smVars
    <2>2. UNCHANGED State
      BY <2>1 DEF State, St, InWait
    <2> QED BY <2>1, <2>2
  <1>2. ASSUME NEW c \in CPUs, SchedStep(c) PROVE UNCHANGED <<counter, smq, State>>
    BY <1>2, ScheduleUnseen, HandleRrqUnseen, RequeueUnseen, BudgetTimeoutUnseen
       DEF SchedStep
  <1>3. ASSUME NEW c \in CPUs, EcStep(c) PROVE UNCHANGED <<counter, smq, State>>
    <2>0. want[ec[c]] \in Local \cup {NoEc} /\ UNCHANGED smVars
      BY <1>3, SelfOK DEF EcStep
    <2>1. ASSUME SysIpcCall(c) \/ SendMsg(c) PROVE UNCHANGED <<counter, smq, State>>
      BY <2>0, <2>1, BailUnseen, RendezvousUnseen, EnterHelpUnseen DEF SysIpcCall, SendMsg
    <2>2. ASSUME SysIpcReply(c) \/ Kill(c) PROVE UNCHANGED <<counter, smq, State>>
      <3>1. caller[ec[c]] # NoEc => cont[caller[ec[c]]] \in {"ret_user_hypercall", "ret_user_exception"}
        BY <1>3, SelfOK DEF Calls, LinkOK
      <3> QED BY <2>0, <2>2, <3>1, ReplyUnseen DEF SysIpcReply, Kill, User
    <2> QED BY <1>3, <2>0, <2>1, <2>2, ActivateWalkUnseen, ActivateRunUnseen,
       ActivateBlockScUnseen, PickUnseen, UnblockScUnseen, UnblockLoopUnseen, NotifyUnseen,
       NamePortalUnseen, HelpUnseen, RecvUnseen, RetUserUnseen, IdleLoopUnseen,
       SysCreateScUnseen, NotifyCreatedUnseen DEF EcStep, CallPortal, RaiseException
  <1>4. ASSUME NEW c \in CPUs, SmStep(c)
        PROVE  Abstract!Next \/ UNCHANGED <<counter, smq, State>>
    <2>1. ASSUME DnFast(c) PROVE Abstract!Next
      BY <2>1, DnFastSeen DEF Abstract!Next
    <2>2. ASSUME DnBlock(c) PROVE Abstract!Next
      BY <2>2, DnBlockSeen DEF Abstract!Next
    <2>3. ASSUME DnBlockSc(c) \/ SysFinish(c)
          PROVE  Abstract!Next \/ UNCHANGED <<counter, smq, State>>
      BY <2>3, DnBlockScSeen, SysFinishSeen DEF Abstract!Next
    <2>4. ASSUME SysUp(c) \/ GsiUp(c)
          PROVE  Abstract!Next \/ UNCHANGED <<counter, smq, State>>
      <3>1. (\E m \in SMs : Abstract!Signal(m)) \/ UNCHANGED <<counter, smq, State>>
        BY <2>4, UpCountSeen, UpWakeSeen, SmAssumption DEF SysUp, GsiUp, UpFrom
      <3> QED BY <3>1 DEF Abstract!Next
    <2>5. ASSUME SmTimeout(c)
          PROVE  Abstract!Next \/ UNCHANGED <<counter, smq, State>>
      BY <2>5, SmTimeoutSeen DEF Abstract!Next
    <2> QED BY <1>4, <2>1, <2>2, <2>3, <2>4, <2>5 DEF SmStep
  <1> QED BY <1>1, <1>2, <1>3, <1>4 DEF Next

\* At bootstrap nobody waits.
LEMMA InitRefines == Init => Abstract!Init
  <1> SUFFICES ASSUME Init PROVE Abstract!Init
    OBVIOUS
  <1>1. counter = InitCounter /\ smq = [m \in SMs |-> <<>>]
    BY DEF Init
  <1>2. \A e \in ECs : cont[e] \notin Woke \cup {"blocking"}
    BY DEF Init, Woke
  <1>3. State = [e \in ECs |-> "free"]
    BY <1>2, StCases DEF State
  <1> QED BY <1>1, <1>3 DEF Abstract!Init, State, St

(***************************************************************************)
(* Sm::dn, up and timeout, with all that the scheduler, other CPUs and     *)
(* interrupts do in between, implement the FIFO counting semaphore: a wait *)
(* ends once, with a token or with a timeout.                              *)
(***************************************************************************)
THEOREM SemaphoresRefine == Spec => ImplementsSemaphore
  <1>1. Spec => []Parks
    <2>1. Init => Parks
      BY InitParks
    <2>2. CoreInv /\ Parks /\ [Next]_vars => Parks'
      BY NextParks DEF CoreInv
    <2> QED BY <2>1, <2>2, CoreInductive, PTL DEF Spec
  <1>2. CoreInv /\ CoreInv' /\ Parks /\ [Next]_vars =>
            Abstract!Next \/ UNCHANGED <<counter, smq, State>>
    BY NextRefines DEF CoreInv
  <1>3. CoreInv /\ CoreInv' /\ Parks /\ [Next]_vars => [Abstract!Next]_<<counter, smq, State>>
    BY <1>2
  <1> QED BY <1>1, <1>3, CoreInductive, InitRefines, PTL
          DEF Spec, ImplementsSemaphore, Abstract!Spec, State, St

=============================================================================
