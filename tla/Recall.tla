------------------------------- MODULE Recall -------------------------------
(***************************************************************************)
(* Recalling an execution context (src/src/syscall.cpp, Ec::sys_ctrl_ec).  *)
(* The caller sets RECALL in the hazards of the EC and, when the EC is     *)
(* current on another CPU, sends that CPU an IPI; the strong form waits    *)
(* until the counter of the IPI has moved there.  The EC looks at its      *)
(* hazards whenever it returns to user mode (src/src/x86_64/ec_arch.cpp)   *)
(* and then sends its RECALL event.  Every access to memory is a step of   *)
(* its own and steps interleave; accesses are not reordered.               *)
(***************************************************************************)
EXTENDS Naturals, FiniteSets

CONSTANTS
    RecCpus,        \* CPUs
    RecEcs,         \* execution contexts
    RecHome,        \* the CPU of each
    RecControlled   \* those that some EC holds a capability with CTRL for

ASSUME RecallAssumption ==
    /\ IsFiniteSet(RecCpus) /\ RecControlled \subseteq RecEcs
    /\ RecHome \in [RecEcs -> RecCpus] /\ \A c \in RecCpus : \E e \in RecEcs : RecHome[e] = c

VARIABLES
    rcur,           \* Ec::current of each CPU
    rmode,          \* where each CPU is
    rhaz,           \* the ECs with RECALL among their hazards
    rsched,         \* the CPUs with SCHED among their hazards
    rrke,           \* the CPUs with an RKE interrupt pending
    rjob,           \* the recall each CPU is executing: the EC, and the form
    rmoved,         \* the CPUs for which the counter has moved since they read it
    rserved,        \* history: the CPUs whose EC sent its event since they set RECALL
    rowed           \* history: ECs with a finished strong recall and no event since

recallVars == <<rcur, rmode, rhaz, rsched, rrke, rjob, rmoved, rserved, rowed>>

RecModes == {"user", "kernel", "hazard", "leave", "look", "count", "send", "wait"}
RecJobs == [ec : RecEcs, strong : BOOLEAN]
NoRecall == [ec |-> CHOOSE e \in RecEcs : TRUE, strong |-> FALSE]

RecTarget(c) == RecHome[rjob[c].ec]

\* Interrupts are enabled in user mode, at the preemption point of
\* handle_hazard, and while a strong recall counts, sends and waits.
RecEnabled(c) == rmode[c] \in {"user", "hazard"}
              \/ (rmode[c] \in {"count", "send", "wait"} /\ rjob[c].strong)

RecallInit ==
    /\ rcur \in {f \in [RecCpus -> RecEcs] : \A c \in RecCpus : RecHome[f[c]] = c}
    /\ rmode = [c \in RecCpus |-> "user"]
    /\ rhaz = {} /\ rsched = {} /\ rrke = {} /\ rmoved = {}
    /\ rjob = [c \in RecCpus |-> NoRecall] /\ rserved = {} /\ rowed = {}

RecGoto(c, m) == rmode' = [rmode EXCEPT ![c] = m]

-----------------------------------------------------------------------------
(* The recalling CPU.                                                      *)

\* sys_ctrl_ec returns: a strong recall may now be relied on.
RecFinish(c, job) ==
    /\ RecGoto(c, "kernel") /\ rjob' = [rjob EXCEPT ![c] = NoRecall]
    /\ rmoved' = rmoved \ {c} /\ rserved' = rserved \ {c}
    /\ rowed' = IF job.strong /\ c \notin rserved THEN rowed \cup {job.ec} ELSE rowed

\* Mutation of SysCtrlEc: the strong form, too, leaves the IPI to whoever set the hazard.
SysCtrlEcSkips(c, e, strong) ==
    LET job == [ec |-> e, strong |-> strong]
    IN  /\ rmode[c] = "user" /\ e \in RecControlled /\ rhaz' = rhaz \cup {e}
        /\ IF RecHome[e] = c \/ e \in rhaz
           THEN RecFinish(c, job)
           ELSE /\ RecGoto(c, "look") /\ rjob' = [rjob EXCEPT ![c] = job]
                /\ UNCHANGED <<rmoved, rserved, rowed>>
        /\ UNCHANGED <<rcur, rsched, rrke>>

\* sys_ctrl_ec: RECALL is set.  An EC of this CPU is not running in user mode;
\* the weak form leaves the IPI to whoever set the hazard first.
SysCtrlEc(c, e, strong) ==
    LET job == [ec |-> e, strong |-> strong]
    IN  /\ rmode[c] = "user" /\ e \in RecControlled /\ rhaz' = rhaz \cup {e}
        /\ IF RecHome[e] = c \/ (~strong /\ e \in rhaz)
           THEN RecFinish(c, job)
           ELSE /\ RecGoto(c, "look") /\ rjob' = [rjob EXCEPT ![c] = job]
                /\ UNCHANGED <<rmoved, rserved, rowed>>
        /\ UNCHANGED <<rcur, rsched, rrke>>

\* remote_current of the EC's CPU is read.
RecLook(c) ==
    /\ rmode[c] = "look"
    /\ IF rcur[RecTarget(c)] # rjob[c].ec THEN RecFinish(c, rjob[c])
       ELSE /\ RecGoto(c, IF rjob[c].strong THEN "count" ELSE "send")
            /\ UNCHANGED <<rjob, rmoved, rserved, rowed>>
    /\ UNCHANGED <<rcur, rhaz, rsched, rrke>>

\* The counter of RKE interrupts on the EC's CPU is read, before the IPI.
RecCount(c) ==
    /\ rmode[c] = "count" /\ RecGoto(c, "send") /\ rmoved' = rmoved \ {c}
    /\ UNCHANGED <<rcur, rhaz, rsched, rrke, rjob, rserved, rowed>>

RecSend(c) ==
    /\ rmode[c] = "send" /\ rrke' = rrke \cup {RecTarget(c)}
    /\ IF rjob[c].strong THEN RecGoto(c, "wait") /\ UNCHANGED <<rjob, rmoved, rserved, rowed>>
       ELSE RecFinish(c, rjob[c])
    /\ UNCHANGED <<rcur, rhaz, rsched>>

RecWait(c) ==
    /\ rmode[c] = "wait" /\ c \in rmoved /\ RecFinish(c, rjob[c])
    /\ UNCHANGED <<rcur, rhaz, rsched, rrke>>

-----------------------------------------------------------------------------
(* The CPU of the EC.                                                      *)

\* handle_ipi for RKE: any RKE moves the counter, whoever sent it.
HandleRke(c) ==
    /\ c \in rrke /\ RecEnabled(c) /\ rrke' = rrke \ {c}
    /\ rmoved' = rmoved \cup {d \in RecCpus : rmode[d] \in {"send", "wait"} /\ RecTarget(d) = c}
    /\ IF rmode[c] = "user" THEN RecGoto(c, "kernel") ELSE UNCHANGED rmode
    /\ UNCHANGED <<rcur, rhaz, rsched, rjob, rserved, rowed>>

\* Timeout_budget::trigger, in any interrupt of the timer.
RecPreempt(c) ==
    /\ RecEnabled(c) /\ rsched' = rsched \cup {c}
    /\ IF rmode[c] = "user" THEN RecGoto(c, "kernel") ELSE UNCHANGED rmode
    /\ UNCHANGED <<rcur, rhaz, rrke, rjob, rmoved, rserved, rowed>>

\* The EC enters the kernel for a reason of its own.
RecTrap(c) ==
    /\ rmode[c] = "user" /\ RecGoto(c, "kernel")
    /\ UNCHANGED <<rcur, rhaz, rsched, rrke, rjob, rmoved, rserved, rowed>>

\* Scheduler::schedule and Ec_arch::make_current: e becomes current, then its
\* continuation runs.
BecomeCurrent(c, e) ==
    /\ RecHome[e] = c /\ rcur' = [rcur EXCEPT ![c] = e] /\ rsched' = rsched \ {c}
    /\ RecGoto(c, "kernel")

\* The current EC blocks, calls or replies: another one runs.
RecBlock(c, e) ==
    /\ rmode[c] = "kernel" /\ BecomeCurrent(c, e)
    /\ UNCHANGED <<rhaz, rrke, rjob, rmoved, rserved, rowed>>

\* ret_user_*: the hazards are read, and with none the EC leaves the kernel.
RecReturn(c) ==
    /\ rmode[c] = "kernel"
    /\ RecGoto(c, IF c \in rsched \/ rcur[c] \in rhaz THEN "hazard" ELSE "leave")
    /\ UNCHANGED <<rcur, rhaz, rsched, rrke, rjob, rmoved, rserved, rowed>>

\* handle_hazard after the preemption point: SCHED and RECALL are read again.
HandleHazard(c) ==
    /\ rmode[c] = "hazard"
    /\ \/ /\ c \in rsched /\ \E e \in RecEcs : BecomeCurrent(c, e)
          /\ UNCHANGED <<rhaz, rserved, rowed>>
       \/ /\ c \notin rsched /\ rcur[c] \in rhaz
          /\ rhaz' = rhaz \ {rcur[c]} /\ rowed' = rowed \ {rcur[c]}
          /\ rserved' = rserved \cup {d \in RecCpus : rjob[d].strong /\ rjob[d].ec = rcur[c]}
          /\ RecGoto(c, "kernel") /\ UNCHANGED <<rcur, rsched>>
    /\ UNCHANGED <<rrke, rjob, rmoved>>

\* sysret, iret or VM entry, with interrupts disabled until then.
RecLeave(c) ==
    /\ rmode[c] = "leave" /\ RecGoto(c, "user")
    /\ UNCHANGED <<rcur, rhaz, rsched, rrke, rjob, rmoved, rserved, rowed>>

-----------------------------------------------------------------------------
RecallNext ==
    \E c \in RecCpus :
        \/ RecLook(c) \/ RecCount(c) \/ RecSend(c) \/ RecWait(c)
        \/ HandleRke(c) \/ RecPreempt(c) \/ RecTrap(c) \/ RecReturn(c) \/ HandleHazard(c) \/ RecLeave(c)
        \/ \E e \in RecEcs : RecBlock(c, e) \/ \E s \in BOOLEAN : SysCtrlEc(c, e, s)

RecallSpec == RecallInit /\ [][RecallNext]_recallVars

-----------------------------------------------------------------------------
RecallType ==
    /\ rcur \in [RecCpus -> RecEcs] /\ rmode \in [RecCpus -> RecModes]
    /\ rhaz \subseteq RecEcs /\ rowed \subseteq rhaz
    /\ rsched \subseteq RecCpus /\ rrke \subseteq RecCpus /\ rmoved \subseteq RecCpus
    /\ rjob \in [RecCpus -> RecJobs]

\* CPU c executes the user code of e, or is past the last look at its hazards.
RecRuns(c, e) == rcur[c] = e /\ rmode[c] \in {"leave", "user"}

\* Once a strong recall has returned, the EC executes nothing before its event.
StrongHolds == \A c \in RecCpus : \A e \in rowed : ~RecRuns(c, e)

\* A recalled EC that still runs will be interrupted: the IPI is pending, or a
\* caller is about to send it.
RecallNoticed ==
    \A c \in RecCpus, e \in rhaz :
        RecRuns(c, e) => c \in rrke \/ \E d \in RecCpus : /\ rmode[d] \in {"look", "count", "send"}
                                                      /\ rjob[d].ec = e

\* CPUs that wait for each other in a circle can all be interrupted.
NobodyStuck ==
    ~\E S \in (SUBSET RecCpus) \ {{}} :
        \A c \in S : /\ rmode[c] = "wait" /\ c \notin rmoved
                      /\ RecTarget(c) \in S /\ ~RecEnabled(RecTarget(c))

\* Recalls are exact (sys_ctrl_ec): after a strong recall the EC does not run in
\* user mode before it has sent its RECALL event, although any IPI, also of
\* another caller, ends the wait; no recall goes unnoticed by an EC that runs,
\* also when a weak recall skipped its IPI because the hazard was set already;
\* and CPUs that recall each other's ECs at once do not wait forever.
RecallExact == RecallType /\ StrongHolds /\ RecallNoticed /\ NobodyStuck
=============================================================================
