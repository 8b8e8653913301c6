------------------------------- MODULE Power -------------------------------
(***************************************************************************)
(* Bringing the CPUs up, putting the platform to sleep and waking it:       *)
(* start.S, init, bootstrap, Cpu::init/fini and Acpi::init/fini of both     *)
(* architectures, sys_ctrl_hw and the RKE interrupt.                        *)
(*                                                                          *)
(* A CPU goes boot/off -> start -> lock -> arrive -> barrier -> sched ->    *)
(* run; a sleep takes it from run through fini to wait (BSP: until nobody   *)
(* is online) or leave (AP).  The BSP ends in asleep, down or reset.  In S1  *)
(* the CPUs go through wakechk and rejoin back to run; those steps are in   *)
(* PowerNextS1 only, because S1 leaves Hazard::SLEEP set (ResetPossible).   *)
(***************************************************************************)
EXTENDS Naturals, Sequences, FiniteSets

CONSTANTS
    PCpus, Bsp,
    PArchs,         \* architectures to check
    PStates,        \* transitions user mode asks for
    PromptBarrier   \* a CPU sees the barrier open before the next transition

ASSUME PowerAssumption ==
    /\ IsFiniteSet(PCpus) /\ Bsp \in PCpus /\ PArchs \subseteq {"x86_64", "aarch64"}
    /\ PStates \subseteq 1..7 /\ PromptBarrier \in BOOLEAN

VARIABLES
    parch,
    canreset,       \* rst_reg.valid()
    pcpu,           \* per CPU: where it is
    plast,          \* per CPU: the transition Cpu::fini has read
    pinit,          \* init() is done for this boot
    bootlock,       \* Cpu::boot_lock: its tickets in order
    online,         \* Cpu::online
    trans,          \* Acpi::trans
    resume,         \* Acpi::resume is set
    slphaz,         \* CPUs with Hazard::SLEEP
    prke,           \* CPUs with RKE pending
    wak,            \* WAK_STS
    dirty,          \* CPUs whose caches hold data memory does not have
    sipi,           \* content of the page at 0x1000
    sra,            \* the save/restore area
    idle            \* CPUs with an idle EC

powervars == <<parch, canreset, pcpu, plast, pinit, bootlock, online, trans, resume,
               slphaz, prke, wak, dirty, sipi, sra, idle>>

Aps == PCpus \ {Bsp}
Pages == {"user", "trampoline", "none"}

PowerType ==
    /\ parch \in PArchs /\ canreset \in BOOLEAN
    /\ pcpu \in [PCpus -> {"off", "boot", "start", "lock", "arrive", "barrier", "sched",
                           "run", "send", "fini", "wait", "leave", "wakechk", "rejoin",
                           "asleep", "down", "reset"}]
    /\ plast \in [PCpus -> 0..7] /\ pinit \in BOOLEAN
    /\ bootlock \in Seq(PCpus) /\ online \in 0..Cardinality(PCpus) /\ trans \in 0..7
    /\ resume \in BOOLEAN /\ slphaz \subseteq PCpus /\ prke \subseteq PCpus
    /\ wak \in BOOLEAN /\ dirty \subseteq PCpus
    /\ sipi \in Pages /\ sra \in Pages /\ idle \subseteq PCpus

\* The platform is switched on; nothing survives from before.
PowerInit ==
    /\ parch \in PArchs /\ canreset \in BOOLEAN
    /\ pcpu = [c \in PCpus |-> IF c = Bsp THEN "boot" ELSE "off"]
    /\ plast = [c \in PCpus |-> 0] /\ pinit = FALSE /\ bootlock = <<>>
    /\ online = 0 /\ trans = 0 /\ resume = FALSE /\ slphaz = {} /\ prke = {}
    /\ wak = FALSE /\ dirty = {} /\ sipi = "user" /\ sra = "none" /\ idle = {}

MoveTo(c, s) == pcpu' = [pcpu EXCEPT ![c] = s]

\* Acpi::wake_prepare: x86_64 saves the page and copies the trampoline.
WakePrepare ==
    IF parch = "x86_64" THEN sra' = sipi /\ sipi' = "trampoline" ELSE UNCHANGED <<sra, sipi>>

-----------------------------------------------------------------------------
(* Bringing CPUs up.                                                       *)

\* init on the BSP.  x86_64 calls it before the boot lock is taken; AArch64
\* holds the lock, because the calls of Psci::boot_cpu (from the MADT, the
\* device tree, or for a resume) start the other CPUs.  Acpi::init ends with
\* clr_transition.
PInitBsp ==
    /\ IF parch = "x86_64" THEN pcpu[Bsp] = "boot"
       ELSE pcpu[Bsp] = "lock" /\ Head(bootlock) = Bsp
    /\ ~pinit /\ pinit' = TRUE /\ trans' = 0 /\ wak' = FALSE
    /\ IF resume THEN UNCHANGED <<sra, sipi>> ELSE WakePrepare
    /\ pcpu' = IF parch = "x86_64" THEN [pcpu EXCEPT ![Bsp] = "start"]
               ELSE [c \in PCpus |-> IF c = Bsp THEN "lock" ELSE "start"]
    /\ UNCHANGED <<parch, canreset, plast, bootlock, online, resume, slphaz, prke, dirty, idle>>

\* start.S: take a ticket of the boot lock.
PLock(c) ==
    /\ pcpu[c] = "start" \/ (pcpu[c] = "boot" /\ parch = "aarch64")
    /\ bootlock' = Append(bootlock, c) /\ MoveTo(c, "lock")
    /\ UNCHANGED <<parch, canreset, plast, pinit, online, trans, resume, slphaz, prke,
                   wak, dirty, sipi, sra, idle>>

\* kern_ptab_setup and Cpu::init, which resets the hazards and unlocks.  On
\* x86_64 Lapic::init of the BSP starts the other CPUs.
PCpuInit(c) ==
    /\ pcpu[c] = "lock" /\ Head(bootlock) = c /\ (c = Bsp => pinit)
    /\ pcpu' = [d \in PCpus |-> IF d = c THEN "arrive"
                                ELSE IF c = Bsp /\ pcpu[d] = "off" THEN "start" ELSE pcpu[d]]
    /\ bootlock' = Tail(bootlock)
    /\ slphaz' = slphaz \ {c} /\ prke' = prke \ {c} /\ dirty' = dirty \cup {c}
    /\ UNCHANGED <<parch, canreset, plast, pinit, online, trans, resume, wak, sipi, sra, idle>>

\* bootstrap: the barrier is entered ...
PArrive(c) ==
    /\ pcpu[c] = "arrive" /\ MoveTo(c, "barrier") /\ online' = online + 1
    /\ UNCHANGED <<parch, canreset, plast, pinit, bootlock, trans, resume, slphaz, prke,
                   wak, dirty, sipi, sra, idle>>

\* ... and left.
PLeave(c) ==
    /\ pcpu[c] = "barrier" /\ online = Cardinality(PCpus) /\ MoveTo(c, "sched")
    /\ UNCHANGED <<parch, canreset, plast, pinit, bootlock, online, trans, resume, slphaz,
                   prke, wak, dirty, sipi, sra, idle>>

\* The rest of bootstrap: the idle EC on a first boot, wake_restore on the
\* x86_64 BSP, and schedule.
PSchedule(c) ==
    /\ pcpu[c] = "sched" /\ MoveTo(c, "run")
    /\ idle' = IF resume THEN idle ELSE idle \cup {c}
    /\ sipi' = IF c = Bsp /\ parch = "x86_64" THEN sra ELSE sipi
    /\ UNCHANGED <<parch, canreset, plast, pinit, bootlock, online, trans, resume, slphaz,
                   prke, wak, dirty, sra>>

-----------------------------------------------------------------------------
(* Asking for a transition.                                                *)

\* Acpi_fixed::supported.
Supported(s) ==
    IF parch = "x86_64" THEN s \in {1, 3, 4, 5} \/ (s = 7 /\ canreset) ELSE s \in {2, 3, 4, 5, 7}

\* sys_ctrl_hw 0: BAD_FTR, or ABORTED if a transition is under way.
PRequest(c, s) ==
    /\ pcpu[c] = "run" /\ c \notin slphaz /\ Supported(s) /\ trans = 0
    /\ PromptBarrier => \A d \in PCpus : pcpu[d] \notin {"barrier", "rejoin"}
    /\ trans' = s /\ MoveTo(c, "send")
    /\ UNCHANGED <<parch, canreset, plast, pinit, bootlock, online, resume, slphaz, prke,
                   wak, dirty, sipi, sra, idle>>

\* send_exc (RKE), and Hazard::SLEEP for the calling CPU.
PSendExc(c) ==
    /\ pcpu[c] = "send" /\ MoveTo(c, "run")
    /\ prke' = prke \cup (PCpus \ {c}) /\ slphaz' = slphaz \cup {c}
    /\ UNCHANGED <<parch, canreset, plast, pinit, bootlock, online, trans, resume, wak,
                   dirty, sipi, sra, idle>>

\* RKE arrives for another reason (a TLB shootdown).
PShootdown(c) ==
    /\ pcpu[c] = "run" /\ c \notin prke /\ prke' = prke \cup {c}
    /\ UNCHANGED <<parch, canreset, pcpu, plast, pinit, bootlock, online, trans, resume,
                   slphaz, wak, dirty, sipi, sra, idle>>

\* Mutation of PRke: the handler only looks at the space of the CPU.
PRkeNoSleep(c) ==
    /\ pcpu[c] = "run" /\ c \in prke /\ prke' = prke \ {c}
    /\ UNCHANGED <<parch, canreset, pcpu, plast, pinit, bootlock, online, trans, resume,
                   slphaz, wak, dirty, sipi, sra, idle>>

\* rke_handler.
PRke(c) ==
    /\ pcpu[c] = "run" /\ c \in prke /\ prke' = prke \ {c}
    /\ slphaz' = IF trans # 0 THEN slphaz \cup {c} ELSE slphaz
    /\ UNCHANGED <<parch, canreset, pcpu, plast, pinit, bootlock, online, trans, resume,
                   wak, dirty, sipi, sra, idle>>

-----------------------------------------------------------------------------
(* Going to sleep.                                                         *)

\* handle_hazard: Cpu::fini reads the transition.
PFini(c) ==
    /\ pcpu[c] = "run" /\ c \in slphaz /\ MoveTo(c, "fini")
    /\ plast' = [plast EXCEPT ![c] = trans]
    /\ UNCHANGED <<parch, canreset, pinit, bootlock, online, trans, resume, slphaz, prke,
                   wak, dirty, sipi, sra, idle>>

\* Acpi::fini on an AP, first half: Cache::data_clean for S1 to S3.
PCleanAp(c) ==
    /\ c # Bsp /\ pcpu[c] = "fini" /\ MoveTo(c, "leave")
    /\ dirty' = IF plast[c] \in 1..3 THEN dirty \ {c} ELSE dirty
    /\ UNCHANGED <<parch, canreset, plast, pinit, bootlock, online, trans, resume, slphaz,
                   prke, wak, sipi, sra, idle>>

\* Second half: the AP is no longer online; AArch64 switches it off.
POffline(c) ==
    /\ c # Bsp /\ pcpu[c] = "leave" /\ online' = online - 1
    /\ MoveTo(c, IF parch = "x86_64" THEN "wakechk" ELSE "off")
    /\ UNCHANGED <<parch, canreset, plast, pinit, bootlock, trans, resume, slphaz, prke,
                   wak, dirty, sipi, sra, idle>>

\* Acpi::fini on the BSP: it stops being online ...
PFiniBsp ==
    /\ pcpu[Bsp] = "fini" /\ MoveTo(Bsp, "wait") /\ online' = online - 1
    /\ UNCHANGED <<parch, canreset, plast, pinit, bootlock, trans, resume, slphaz, prke,
                   wak, dirty, sipi, sra, idle>>

\* Mutation of PSleep: the BSP does not wait for the APs.
PSleepEarly ==
    LET s == plast[Bsp]
    IN  /\ pcpu[Bsp] = "wait"
        /\ IF s \in {2, 3} THEN WakePrepare ELSE UNCHANGED <<sra, sipi>>
        /\ resume' = TRUE /\ pinit' = FALSE
        /\ dirty' = IF s \in 1..3 THEN dirty \ {Bsp} ELSE dirty
        /\ MoveTo(Bsp, CASE s = 1 -> "wakechk" [] s \in 2..3 -> "asleep"
                         [] s \in {4, 5, 7} -> "down" [] OTHER -> "reset")
        /\ UNCHANGED <<parch, canreset, plast, bootlock, online, trans, slphaz, prke, wak,
                       idle>>

\* ... waits for the APs (offline_wait of AArch64 until they are switched
\* off), prepares the wake vector for S2 and S3, cleans its cache for S1 to
\* S3, and writes the sleep or the reset register.
PSleep ==
    LET s == plast[Bsp]
    IN  /\ pcpu[Bsp] = "wait" /\ online = 0
        /\ parch = "aarch64" => \A c \in Aps : pcpu[c] = "off"
        /\ IF s \in {2, 3} THEN WakePrepare ELSE UNCHANGED <<sra, sipi>>
        /\ resume' = TRUE /\ pinit' = FALSE
        /\ dirty' = IF s \in 1..3 THEN dirty \ {Bsp} ELSE dirty
        /\ MoveTo(Bsp, CASE s = 1 -> "wakechk" [] s \in 2..3 -> "asleep"
                         [] s \in {4, 5, 7} -> "down" [] OTHER -> "reset")
        /\ UNCHANGED <<parch, canreset, plast, bootlock, online, trans, slphaz, prke, wak,
                       idle>>

\* A wake event in S2 or S3: the BSP starts at the wake vector, and nothing
\* the other CPUs held is left.
PWake ==
    /\ pcpu[Bsp] = "asleep"
    /\ pcpu' = [c \in PCpus |-> IF c = Bsp THEN "boot" ELSE "off"]
    /\ wak' = TRUE /\ dirty' = {}
    /\ UNCHANGED <<parch, canreset, plast, pinit, bootlock, online, trans, resume, slphaz,
                   prke, sipi, sra, idle>>

\* The platform is switched on again, or comes out of the reset.
PPowerOn ==
    /\ pcpu[Bsp] = "down"
    /\ pcpu' = [c \in PCpus |-> IF c = Bsp THEN "boot" ELSE "off"]
    /\ plast' = [c \in PCpus |-> 0] /\ pinit' = FALSE /\ bootlock' = <<>>
    /\ online' = 0 /\ trans' = 0 /\ resume' = FALSE /\ slphaz' = {} /\ prke' = {}
    /\ wak' = FALSE /\ dirty' = {} /\ sipi' = "user" /\ sra' = "none" /\ idle' = {}
    /\ UNCHANGED <<parch, canreset>>

\* What CPU c does next in the kernel, in the order of the code.
PowerStep(c) ==
    \/ PLock(c) \/ PCpuInit(c) \/ PArrive(c) \/ PLeave(c) \/ PSchedule(c)
    \/ PSendExc(c) \/ PCleanAp(c) \/ POffline(c)
    \/ c = Bsp /\ (PInitBsp \/ PFiniBsp \/ PSleep)

PowerNext ==
    \/ PWake \/ PPowerOn
    \/ \E c \in PCpus :
          \/ PowerStep(c) \/ PRke(c) \/ PFini(c) \/ PShootdown(c)
          \/ \E s \in PStates : PRequest(c, s)

\* The CPUs keep executing, take their interrupts and handle their hazards;
\* nobody has to ask for a transition, and no wake event has to come.
PowerFair == \A c \in PCpus :
    WF_powervars(PowerStep(c)) /\ WF_powervars(PRke(c)) /\ WF_powervars(PFini(c))

PowerSpec == PowerInit /\ [][PowerNext]_powervars /\ PowerFair

-----------------------------------------------------------------------------
(* S1 keeps the CPUs where they are: Acpi::fini goes on after the wake event. *)

PWakeS1 ==
    /\ pcpu[Bsp] = "wakechk" /\ plast[Bsp] = 1 /\ ~wak /\ wak' = TRUE
    /\ UNCHANGED <<parch, canreset, pcpu, plast, pinit, bootlock, online, trans, resume,
                   slphaz, prke, dirty, sipi, sra, idle>>

\* The barrier at the end of Acpi::fini is entered ...
PRejoin(c) ==
    /\ pcpu[c] = "wakechk" /\ wak /\ MoveTo(c, "rejoin") /\ online' = online + 1
    /\ UNCHANGED <<parch, canreset, plast, pinit, bootlock, trans, resume, slphaz, prke,
                   wak, dirty, sipi, sra, idle>>

\* ... and left; the BSP clears the transition, and the EC that was about to leave
\* the kernel goes on with its hazards as they were.
PContinue(c) ==
    /\ pcpu[c] = "rejoin" /\ online = Cardinality(PCpus) /\ MoveTo(c, "run")
    /\ IF c = Bsp THEN trans' = 0 /\ wak' = FALSE ELSE UNCHANGED <<trans, wak>>
    /\ UNCHANGED <<parch, canreset, plast, pinit, bootlock, online, resume, slphaz, prke,
                   dirty, sipi, sra, idle>>

PowerNextS1 ==
    \/ PowerNext \/ PWakeS1
    \/ \E c \in PCpus : PRejoin(c) \/ PContinue(c)

PowerSpecS1 == PowerInit /\ [][PowerNextS1]_powervars

-----------------------------------------------------------------------------
(* Properties.                                                             *)

\* What a CPU wrote before it stopped survives the sleep, and the CPUs come up in
\* order.  When the platform loses power in S2 or S3, every CPU has left the
\* kernel's online set with a clean cache and (AArch64) is switched off, and the
\* wake vector points at the trampoline.  A CPU that is started finds the
\* trampoline, none runs Cpu::init before init is done, and user mode has its
\* page back once all CPUs are running.
NothingLostInSleep ==
    /\ PowerType
    /\ pcpu[Bsp] = "asleep" =>
       /\ dirty = {} /\ online = 0 /\ bootlock = <<>>
       /\ \A c \in Aps : pcpu[c] = IF parch = "x86_64" THEN "wakechk" ELSE "off"
       /\ parch = "x86_64" => sipi = "trampoline" /\ sra = "user"
    /\ \A c \in PCpus :
          /\ pcpu[c] \in {"off", "start"} /\ parch = "x86_64" /\ pinit => sipi = "trampoline"
          /\ pcpu[c] = "arrive" => pinit
    /\ (\A c \in PCpus : pcpu[c] = "run") => sipi = "user" /\ idle = PCpus

\* A transition that was requested takes the platform down, and after a wake
\* event or a power-on every CPU runs again.
SleepsAndWakes ==
    /\ (\E c \in PCpus : pcpu[c] = "send") ~> (pcpu[Bsp] \in {"asleep", "down"})
    /\ \A c \in PCpus : (pcpu[Bsp] = "boot") ~> (pcpu[c] = "run")

\* The reset register is only written on a platform that has one (the
\* assertion in Acpi_fixed::reset).
ResetPossible == pcpu[Bsp] = "reset" => canreset
=============================================================================
