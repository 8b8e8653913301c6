--------------------------------- MODULE Sm ---------------------------------
(***************************************************************************)
(* Semaphores (inc/sm.hpp) and the hypercall timeouts that bound a wait    *)
(* (Timeout_hypercall).  Each critical section under Sm::lock is one step. *)
(***************************************************************************)
EXTENDS Ec

CONSTANTS
    SMs,            \* semaphores
    IntSMs,         \* those bound to an interrupt (Interrupt::int_table[].sm)
    NoSm,           \* the null semaphore pointer
    MaxCounter,     \* the largest value of Sm::counter, ~0ULL in the code
    InitCounter     \* the counter each semaphore is created with

ASSUME SmAssumption ==
    /\ NoSm \notin SMs
    /\ IntSMs \subseteq SMs
    /\ MaxCounter \in Nat \ {0}
    /\ InitCounter \in [SMs -> 0 .. MaxCounter]

VARIABLES
    counter,    \* Sm::counter
    smq,        \* the ECs blocked on the semaphore (Sm's Queue<Ec>)
    timeout,    \* Ec::timeout.sm while that timeout is enqueued, else NoSm
    tmo         \* dn's semaphore if its timeout argument is not 0, per CPU

smVars == <<counter, smq, timeout, tmo>>

\* q without its i-th element (Queue::dequeue).
Remove(q, i) == [j \in 1 .. Len(q) - 1 |-> IF j < i THEN q[j] ELSE q[j + 1]]

-----------------------------------------------------------------------------
(***************************************************************************)
(* sys_ctrl_sm, down: the critical section of Sm::dn.  zero clears the     *)
(* counter instead of decrementing it; timed says that a timeout is given. *)
(***************************************************************************)
DnFast(c) ==
    /\ User(c)
    /\ \E m \in SMs, zero \in BOOLEAN :
         /\ counter[m] # 0
         /\ counter' = [counter EXCEPT ![m] = IF zero THEN 0 ELSE @ - 1]
    /\ Goto(c, "ret_user_hypercall")
    /\ UNCHANGED <<arg, ret, scVars, ecVars, smq, timeout, tmo>>

DnBlock(c) ==
    /\ User(c)
    /\ \E m \in SMs, timed \in BOOLEAN :
         /\ counter[m] = 0
         /\ cont' = [cont EXCEPT ![ec[c]] = "blocking"]
         /\ smq' = [smq EXCEPT ![m] = Append(@, ec[c])]
         /\ tmo' = [tmo EXCEPT ![c] = IF timed THEN m ELSE NoSm]
    /\ Goto(c, "dn")
    /\ UNCHANGED <<arg, ret, scVars, ec, don, act, callee, caller, want, scq, counter, timeout>>

\* Mutation of DnBlockSc: blocked () is not checked under the lock.
DnBlockScUnchecked(c) ==
    /\ pc[c] = "dn" /\ ~Locked(ec[c])
    /\ scq' = [scq EXCEPT ![ec[c]] = Append(@, cur[c])]
    /\ Goto(c, "schedule_blocked")
    /\ UNCHANGED <<arg, ret, scVars, ec, don, act, cont, callee, caller, want, smVars>>

\* Mutation of DnBlockSc: the caller goes on instead of calling schedule.
DnBlockScGoesOn(c) ==
    /\ pc[c] = "dn" /\ ~Locked(ec[c])
    /\ scq' = [scq EXCEPT ![ec[c]] = Append(@, cur[c])]
    /\ Goto(c, "ret_user_hypercall")
    /\ UNCHANGED <<arg, ret, scVars, ec, don, act, cont, callee, caller, want, smVars>>

(***************************************************************************)
(* The rest of Sm::dn: block_sc, and if the EC is still blocked, the       *)
(* timeout and schedule (true).  If a remote up came first, dn returns.    *)
(***************************************************************************)
DnBlockSc(c) ==
    /\ pc[c] = "dn" /\ ~Locked(ec[c])
    /\ IF Blocked(ec[c])
       THEN /\ scq' = [scq EXCEPT ![ec[c]] = Append(@, cur[c])]
            /\ timeout' = IF tmo[c] = NoSm THEN timeout
                          ELSE [timeout EXCEPT ![ec[c]] = tmo[c]]
            /\ Goto(c, "schedule_blocked")
       ELSE /\ Goto(c, "ret_user_hypercall")
            /\ UNCHANGED <<scq, timeout>>
    /\ tmo' = [tmo EXCEPT ![c] = NoSm]
    /\ UNCHANGED <<arg, ret, scVars, ec, don, act, cont, callee, caller, want, counter, smq>>

\* The critical section of Sm::up, control continuing at r: no waiter ...
UpCount(c, M, r) ==
    /\ \E m \in M :
         /\ smq[m] = <<>>
         /\ counter' = IF counter[m] = MaxCounter THEN counter
                       ELSE [counter EXCEPT ![m] = @ + 1]
    /\ Goto(c, r)
    /\ UNCHANGED <<arg, ret, scVars, ecVars, smq, timeout, tmo>>

\* Mutation of UpWake: the token is given to the waiter and counted as well.
UpWakeCounts(c, M, r) ==
    /\ \E m \in M :
         /\ smq[m] # <<>>
         /\ smq' = [smq EXCEPT ![m] = Tail(@)]
         /\ counter' = [counter EXCEPT ![m] = 1]
         /\ cont' = [cont EXCEPT ![Head(smq[m])] = "sys_finish_success"]
         /\ Call(c, "unblock_sc", Head(smq[m]), r)
    /\ UNCHANGED <<scVars, ec, don, act, callee, caller, want, scq, timeout, tmo>>

\* ... or a waiter, which is unblocked with the status SUCCESS.
UpWake(c, M, r) ==
    /\ \E m \in M :
         /\ smq[m] # <<>>
         /\ smq' = [smq EXCEPT ![m] = Tail(@)]
         /\ cont' = [cont EXCEPT ![Head(smq[m])] = "sys_finish_success"]
         /\ Call(c, "unblock_sc", Head(smq[m]), r)
    /\ UNCHANGED <<scVars, ec, don, act, callee, caller, want, scq, counter, timeout, tmo>>

\* sys_ctrl_sm, up.
SysUp(c) == /\ User(c)
            /\ UpCount(c, SMs, "ret_user_hypercall") \/ UpWake(c, SMs, "ret_user_hypercall")

\* A device interrupt is an up on its interrupt semaphore.
GsiUp(c) == /\ Interruptible(c)
            /\ UpCount(c, IntSMs, Resume(c)) \/ UpWake(c, IntSMs, Resume(c))

(***************************************************************************)
(* Timeout::check takes an expired hypercall timeout off the list and      *)
(* triggers Sm::timeout, which does nothing if the EC is already unblocked.*)
(***************************************************************************)
SmTimeout(c) ==
    /\ Interruptible(c)
    /\ \E e \in ECs :
         LET m == timeout[e] IN
         /\ EcCpu[e] = c /\ m # NoSm
         /\ timeout' = [timeout EXCEPT ![e] = NoSm]
         /\ IF Blocked(e)
            THEN /\ \E i \in 1 .. Len(smq[m]) :
                       /\ smq[m][i] = e
                       /\ smq' = [smq EXCEPT ![m] = Remove(@, i)]
                 /\ cont' = [cont EXCEPT ![e] = "sys_finish_timeout"]
                 /\ Call(c, "unblock_sc", e, Resume(c))
            ELSE /\ Goto(c, Resume(c))
                 /\ UNCHANGED <<arg, ret, cont, smq>>
    /\ UNCHANGED <<scVars, ec, don, act, callee, caller, want, scq, counter, tmo>>

\* Ec::sys_finish; the SUCCESS of a wait also takes the timeout off the list.
SysFinish(c) ==
    /\ pc[c] \in {"sys_finish_success", "sys_finish_timeout", "sys_finish_aborted"}
    /\ timeout' = IF pc[c] = "sys_finish_success"
                  THEN [timeout EXCEPT ![ec[c]] = NoSm] ELSE timeout
    /\ Goto(c, "ret_user_hypercall")
    /\ UNCHANGED <<arg, ret, scVars, ecVars, counter, smq, tmo>>
=============================================================================
