--------------------------------- MODULE Ec ---------------------------------
(***************************************************************************)
(* Execution contexts: the call, reply and help paths of src/syscall.cpp   *)
(* and src/ec.cpp, the continuation each EC resumes with, the donation of  *)
(* a scheduling context along a call chain, and the handshake (block_sc,   *)
(* unblock_sc) through which an SC waits for a blocked EC.                 *)
(*                                                                         *)
(* cont[e] is Ec::cont by the name of the function it points to; "null" is *)
(* the null pointer.  make_current enters that function, so a CPU's pc     *)
(* takes the value of the continuation it invokes.                         *)
(***************************************************************************)
EXTENDS Sched

CONSTANTS
    Local,      \* ECs of subtype EC_LOCAL: portal handlers, without an SC
    Started     \* global ECs that are in user mode already (e.g. create_root)

ASSUME EcAssumption ==
    /\ Local \subseteq ECs
    /\ Started \subseteq ECs
    /\ Local \cap IdleEcs = {}
    /\ Started \cap (Local \cup IdleEcs) = {}
    /\ \A s \in SCs : ScEc[s] \notin Local
    /\ \A s \in SCs : ScEc[s] \in IdleEcs => s \in {IdleSc[c] : c \in CPUs}

VARIABLES
    ec,         \* Ec::current, per CPU
    don,        \* Ec::donations, per CPU
    act,        \* history: the EC that Ec::activate was last entered with, per CPU
    cont,       \* Ec::cont
    callee,     \* Ec::callee
    caller,     \* Ec::caller
    want,       \* the EC of the portal named in the EC's registers
    scq         \* the SCs waiting for this EC to be unblocked (Ec's Queue<Sc>)

ecVars == <<ec, don, act, cont, callee, caller, want, scq>>

\* Continuations an EC can be resumed with.
Conts == {"null", "blocking", "dead", "idle", "ret_user_hypercall",
          "ret_user_exception", "sys_finish_success", "sys_finish_timeout",
          "sys_finish_aborted", "sys_ipc_call", "send_msg", "recv_user",
          "recv_kern"}

\* Ec::blocked
Blocked(e) == cont[e] \in {"blocking", "null"}

\* The EC's spinlock is held throughout the loop of unblock_sc.
Locked(e) == \E c \in CPUs : pc[c] \in {"unblock_loop", "notify"} /\ arg[c] = e

\* Ec_arch::make_current, entered with cont[e] = x.
MakeCurrent(c, e, x) ==
    /\ ec' = [ec EXCEPT ![c] = e]
    /\ Leave(c, x)

\* Mutation of EnterActivate: donations is not reset.
EnterActivateKeepsDon(c, e, r) ==
    /\ Call(c, "activate", e, r)
    /\ act' = [act EXCEPT ![c] = e]
    /\ UNCHANGED don

\* Entering Ec::activate on e; control continues at r if its EC turns out blocked.
EnterActivate(c, e, r) ==
    /\ Call(c, "activate", e, r)
    /\ don' = [don EXCEPT ![c] = 0]
    /\ act' = [act EXCEPT ![c] = e]

-----------------------------------------------------------------------------
(***************************************************************************)
(* Ec::activate, one step of the walk down the callee chain at a time.  At *)
(* the end of the chain the SC either runs that EC or, if the EC is        *)
(* blocked, waits on it.  blocked() is read once more under the lock in    *)
(* block_sc; a remote CPU can only change it from TRUE to FALSE, so the    *)
(* two reads are one step.                                                 *)
(***************************************************************************)
ActivateWalk(c) ==
    /\ pc[c] = "activate" /\ callee[arg[c]] # NoEc
    /\ arg' = [arg EXCEPT ![c] = callee[arg[c]]]
    /\ don' = [don EXCEPT ![c] = @ + 1]
    /\ UNCHANGED <<pc, ret, scVars, ec, act, cont, callee, caller, want, scq>>

ActivateRun(c) ==
    /\ pc[c] = "activate" /\ callee[arg[c]] = NoEc
    /\ ~Blocked(arg[c])
    /\ MakeCurrent(c, arg[c], cont[arg[c]])
    /\ UNCHANGED <<scVars, don, act, cont, callee, caller, want, scq>>

ActivateBlockSc(c) ==
    /\ pc[c] = "activate" /\ callee[arg[c]] = NoEc
    /\ Blocked(arg[c]) /\ ~Locked(arg[c])
    /\ scq' = [scq EXCEPT ![arg[c]] = Append(@, cur[c])]
    /\ Leave(c, ret[c])
    /\ UNCHANGED <<scVars, ec, don, act, cont, callee, caller, want>>

\* The head of the loop of Scheduler::schedule: Ready::dequeue, then activate.
Pick(c) ==
    /\ pc[c] = "pick"
    /\ ReadyDequeue(c)
    /\ cur' = [cur EXCEPT ![c] = ReadyHead(c)]
    /\ EnterActivate(c, ScEc[ReadyHead(c)], "pick")
    /\ UNCHANGED <<release, rrq, sched, left, created,
                   ec, cont, callee, caller, want, scq>>

-----------------------------------------------------------------------------
(* Ec::unblock_sc and, inside its loop, Scheduler::unblock.                *)

UnblockSc(c) ==
    /\ pc[c] = "unblock_sc" /\ ~Locked(arg[c])
    /\ Goto(c, "unblock_loop")
    /\ UNCHANGED <<arg, ret, scVars, ecVars>>

\* Mutation of UnblockLoop: the SC is not taken off the EC's queue.
UnblockLoopPeek(c) ==
    LET s == Head(scq[arg[c]]) IN
    /\ pc[c] = "unblock_loop"
    /\ IF scq[arg[c]] = <<>> \/ ScCpu(s) # c
       THEN UNCHANGED <<ready, top, sched, left>>
       ELSE ReadyEnqueue(c, s, left[s], sched[c])
    /\ Leave(c, ret[c])
    /\ UNCHANGED <<cur, release, rrq, created, ecVars>>

UnblockLoop(c) ==
    LET s == Head(scq[arg[c]]) IN
    /\ pc[c] = "unblock_loop"
    /\ IF scq[arg[c]] = <<>>
       THEN Leave(c, ret[c]) /\ UNCHANGED <<ready, top, release, sched, left, scq>>
       ELSE /\ scq' = [scq EXCEPT ![arg[c]] = Tail(@)]
            /\ IF ScCpu(s) = c
               THEN ReadyEnqueue(c, s, left[s], sched[c]) /\ UNCHANGED <<ctlVars, release>>
               ELSE /\ ReleaseEnqueue(s)
                    /\ IF release[ScCpu(s)] = <<>> THEN Goto(c, "notify") ELSE UNCHANGED pc
                    /\ UNCHANGED <<arg, ret, ready, top, sched, left>>
    /\ UNCHANGED <<cur, rrq, created, ec, don, act, cont, callee, caller, want>>

\* Mutation of Notify: the IPI is sent to the wrong CPU.
NotifyWrongCpu(c) ==
    /\ pc[c] = "notify"
    /\ rrq' = [rrq EXCEPT ![c] = TRUE]
    /\ Goto(c, "unblock_loop")
    /\ UNCHANGED <<arg, ret, cur, ready, top, release, sched, left, created, ecVars>>

\* The tail of Release::enqueue: send the RRQ IPI, the EC's lock still held.
Notify(c) ==
    /\ pc[c] = "notify"
    /\ rrq' = [rrq EXCEPT ![EcCpu[arg[c]]] = TRUE]
    /\ Goto(c, "unblock_loop")
    /\ UNCHANGED <<arg, ret, cur, ready, top, release, sched, left, created, ecVars>>

-----------------------------------------------------------------------------
(* Calls.  self is the EC that runs on the CPU.                            *)

User(c) == pc[c] = "user" /\ ec[c] \notin IdleEcs

(***************************************************************************)
(* User mode calls a portal or raises an exception, which names an event   *)
(* portal.  want is the handler EC of that portal, NoEc if the capability  *)
(* lookup finds no portal.                                                 *)
(***************************************************************************)
NamePortal(c, p) ==
    /\ User(c)
    /\ \E s \in Local \cup {NoEc} : want' = [want EXCEPT ![ec[c]] = s]
    /\ Goto(c, p)
    /\ UNCHANGED <<arg, ret, scVars, ec, don, act, cont, callee, caller, scq>>

CallPortal(c)     == NamePortal(c, "sys_ipc_call")
RaiseException(c) == NamePortal(c, "send_msg")

(***************************************************************************)
(* Ec::rendezvous with s, self resuming with x and s with y: the SC stays  *)
(* with the caller and is donated to the handler.                          *)
(***************************************************************************)
Rendezvous(c, s, x, y) ==
    LET self == ec[c] IN
    /\ cont[s] = "null"
    /\ cont' = [cont EXCEPT ![self] = x, ![s] = y]
    /\ callee' = [callee EXCEPT ![self] = s]
    /\ caller' = [caller EXCEPT ![s] = self]
    /\ don' = [don EXCEPT ![c] = @ + 1]
    /\ MakeCurrent(c, s, y)
    /\ want' = [want EXCEPT ![self] = NoEc]
    /\ UNCHANGED <<scVars, act, scq>>

\* The first half of Ec::help, up to its preemption point; x retries the call.
EnterHelp(c, s, x) ==
    /\ cont[s] \notin {"null", "dead"}
    /\ cont' = [cont EXCEPT ![ec[c]] = x]
    /\ Goto(c, "help")
    /\ UNCHANGED <<arg, ret, scVars, ec, don, act, callee, caller, want, scq>>

\* Give up the call: return to user mode with a status, or enter kill.
Bail(c, p) ==
    /\ Goto(c, p)
    /\ want' = [want EXCEPT ![ec[c]] = NoEc]
    /\ UNCHANGED <<arg, ret, scVars, ec, don, act, cont, callee, caller, scq>>

(***************************************************************************)
(* sys_ipc_call.  Its failures all return to user mode: BAD_CAP if the     *)
(* portal is missing, or was revoked before a retry (which can happen at   *)
(* any time), BAD_CPU, TIMEOUT if the handler is busy and the caller does  *)
(* not want to wait, ABORTED if it is dead.                                *)
(***************************************************************************)
SysIpcCall(c) ==
    LET s == want[ec[c]] IN
    /\ pc[c] = "sys_ipc_call"
    /\ \/ Bail(c, "ret_user_hypercall")
       \/ /\ s # NoEc /\ EcCpu[s] = c
          /\ \/ Rendezvous(c, s, "ret_user_hypercall", "recv_user")
             \/ EnterHelp(c, s, "sys_ipc_call")

\* send_msg: the same for an event portal, but an EC that cannot deliver it dies.
SendMsg(c) ==
    LET s == want[ec[c]] IN
    /\ pc[c] = "send_msg"
    /\ \/ Bail(c, "kill")
       \/ /\ s # NoEc /\ EcCpu[s] = c
          /\ \/ Rendezvous(c, s, "ret_user_exception", "recv_kern")
             \/ EnterHelp(c, s, "send_msg")

\* Mutation of Help: a preempted helper is not put back into the ready queue.
HelpDropsSc(c) ==
    /\ pc[c] = "help" /\ sched[c]
    /\ Goto(c, "schedule_blocked")
    /\ UNCHANGED <<arg, ret, scVars, ecVars>>

\* The second half of Ec::help.
Help(c) ==
    /\ pc[c] = "help"
    /\ IF sched[c]
       THEN Goto(c, "schedule") /\ UNCHANGED <<arg, ret, don, act>>
       ELSE EnterActivate(c, want[ec[c]], "schedule_blocked")
    /\ UNCHANGED <<scVars, ec, cont, callee, caller, want, scq>>

\* recv_user and recv_kern: the handler starts in user mode with the message.
Recv(c) ==
    /\ pc[c] \in {"recv_user", "recv_kern"}
    /\ Goto(c, "ret_user_hypercall")
    /\ UNCHANGED <<arg, ret, scVars, ecVars>>

-----------------------------------------------------------------------------
(***************************************************************************)
(* Ec::reply: self gets continuation x and, if it has a caller, dissolves  *)
(* the partnership.  k is what the caller resumes with.  If the SC was     *)
(* donated by the caller it goes back to the caller, otherwise the SC came *)
(* from a helper and goes back to its own EC.                              *)
(***************************************************************************)
Reply(c, x, k) ==
    LET self == ec[c]  p == caller[ec[c]] IN
    IF p = NoEc
    THEN /\ cont' = [cont EXCEPT ![self] = x]
         /\ Goto(c, "schedule_blocked")
         /\ UNCHANGED <<arg, ret, scVars, ec, don, act, callee, caller, want, scq>>
    ELSE /\ cont' = [cont EXCEPT ![self] = x, ![p] = k]
         /\ caller' = [caller EXCEPT ![self] = NoEc]
         /\ callee' = [callee EXCEPT ![p] = NoEc]
         /\ IF don[c] # 0
            THEN /\ don' = [don EXCEPT ![c] = @ - 1]
                 /\ MakeCurrent(c, p, k) /\ UNCHANGED act
            ELSE EnterActivate(c, ScEc[cur[c]], "schedule_blocked") /\ UNCHANGED ec
         /\ UNCHANGED <<scVars, want, scq>>

SysIpcReply(c) ==
    /\ User(c)
    /\ Reply(c, "null", IF caller[ec[c]] = NoEc THEN "null" ELSE cont[caller[ec[c]]])

\* Ec::kill: an aborted call returns ABORTED, any other caller dies as well.
Kill(c) ==
    /\ pc[c] \in {"kill", "dead", "blocking"}
    /\ Reply(c, "dead",
             IF caller[ec[c]] # NoEc /\ cont[caller[ec[c]]] = "ret_user_hypercall"
             THEN "sys_finish_aborted" ELSE "dead")

\* ret_user_hypercall, ret_user_exception and idle with handle_hazard.
RetUser(c) ==
    /\ pc[c] \in {"ret_user_hypercall", "ret_user_exception"}
    /\ IF sched[c]
       THEN cont' = [cont EXCEPT ![ec[c]] = pc[c]] /\ Goto(c, "schedule")
       ELSE Goto(c, "user") /\ UNCHANGED cont
    /\ UNCHANGED <<arg, ret, scVars, ec, don, act, callee, caller, want, scq>>

IdleLoop(c) ==
    /\ pc[c] = "idle" /\ sched[c]
    /\ cont' = [cont EXCEPT ![ec[c]] = "idle"]
    /\ Goto(c, "schedule")
    /\ UNCHANGED <<arg, ret, scVars, ec, don, act, callee, caller, want, scq>>

-----------------------------------------------------------------------------
\* sys_create_sc: a new SC for a global EC, made ready by Scheduler::unblock.
SysCreateSc(c) ==
    /\ User(c)
    /\ \E s \in SCs \ created :
         /\ created' = created \cup {s}
         /\ IF ScCpu(s) = c
            THEN /\ ReadyEnqueue(c, s, left[s], sched[c])
                 /\ Goto(c, "ret_user_hypercall")
                 /\ UNCHANGED <<release, arg, ret>>
            ELSE /\ ReleaseEnqueue(s)
                 /\ IF release[ScCpu(s)] = <<>>
                    THEN Call(c, "notify_created", ScEc[s], "user")
                    ELSE Goto(c, "ret_user_hypercall") /\ UNCHANGED <<arg, ret>>
                 /\ UNCHANGED <<ready, top, sched, left>>
    /\ UNCHANGED <<cur, rrq, ecVars>>

NotifyCreated(c) ==
    /\ pc[c] = "notify_created"
    /\ rrq' = [rrq EXCEPT ![EcCpu[arg[c]]] = TRUE]
    /\ Leave(c, "ret_user_hypercall")
    /\ UNCHANGED <<cur, ready, top, release, sched, left, created, ecVars>>
=============================================================================
