-------------------------------- MODULE Utcb --------------------------------
(***************************************************************************)
(* How the state of an execution context travels through the UTCB of the   *)
(* thread that handles its events (src/x86_64/utcb_arch.cpp,               *)
(* src/aarch64/utcb_arch.cpp): recv_kern loads the items a portal's MTD     *)
(* names into the UTCB, the handler may change them, sys_ipc_reply saves    *)
(* the items the reply's MTD names.                                         *)
(*                                                                         *)
(* The unit is an item of Mtd_arch.  The registers of one item are moved    *)
(* alike, so an item has one value, the set of the bits that are set; where *)
(* the code converts or constrains bits, the value shows those bits.        *)
(***************************************************************************)
EXTENDS Naturals, FiniteSets

CONSTANTS
    UKinds,         \* which of "exc", "vmx", "svm", "arm" and "armvm" to check
    ManagedXcr,     \* hstate.xcr: what the CPU manages
    Gicv2           \* Gicc::mode is MMIO: list registers are 32 bits wide

XcrBits == {"X87", "SSE", "AVX", "A512a", "A512b"}

\* XSETBV accepts a value.
XcrLegal(x) ==
    /\ "X87" \in x
    /\ "AVX" \in x => "SSE" \in x
    /\ x \cap {"A512a", "A512b"} # {} => {"A512a", "A512b", "AVX"} \subseteq x

ASSUME UtcbAssumption ==
    /\ UKinds \subseteq {"exc", "vmx", "svm", "arm", "armvm"}
    /\ ManagedXcr \subseteq XcrBits /\ XcrLegal(ManagedXcr) /\ Gicv2 \in BOOLEAN

-----------------------------------------------------------------------------
(* Items.                                                                  *)

\* Items load_exc and save_exc both move.
ExcItems == {"GPR_0_7", "GPR_8_15", "RFLAGS", "RIP"}

\* Items load_svm and save_svm both move: PDPTEs are not used.
SvmItems ==
    ExcItems \cup {"STA", "CS_SS", "DS_ES", "FS_GS", "TR", "LDTR", "GDTR", "IDTR", "CR", "DR",
                  "XSAVE", "SYSCALL", "SYSENTER", "PAT", "EFER", "KERNEL_GS_BASE"}

\* Items load_vmx and save_vmx both move.
VmxItems == SvmItems \cup {"PDPTE"}

\* Items load and save of a thread on AArch64 both move.
ArmItems == {"GPR", "EL0_SP", "EL0_IDR", "EL2_ELR_SPSR"}

\* Items load and save of a vCPU on AArch64 both move.
ArmVmItems ==
    ArmItems \cup {"A32_SPSR", "A32_DIH", "EL1_SP", "EL1_IDR", "EL1_ELR_SPSR", "EL1_ESR_FAR",
                  "EL1_AFSR", "EL1_TTBR", "EL1_TCR", "EL1_MAIR", "EL1_VBAR", "EL1_SCTLR",
                  "EL1_MDSCR", "EL2_HCR", "EL2_IDR", "TMR", "GIC"}

\* Moved by load and by save.
Carried(k) ==
    CASE k = "exc" -> ExcItems [] k = "vmx" -> VmxItems [] k = "svm" -> SvmItems
      [] k = "arm" -> ArmItems [] k = "armvm" -> ArmVmItems

\* Moved by load only.
ReadOnly(k) ==
    CASE k \in {"exc", "vmx", "svm"} -> {"QUAL"}
      [] k = "arm" -> {"EL2_ESR_FAR"}
      [] k = "armvm" -> {"EL2_ESR_FAR", "EL2_HPFAR"}

\* Moved by save only, except INJ: load shows the event of the exit, or the
\* event that waits for injection.
WriteOnly(k) ==
    CASE k = "vmx" -> {"CTRL", "TPR", "INJ"}
      [] k = "svm" -> {"CTRL", "INJ"}
      [] OTHER -> {}

Vm(k) == k \in {"vmx", "svm", "armvm"}

Items(k) == Carried(k) \cup ReadOnly(k) \cup WriteOnly(k)

MtdItems(k) == Items(k) \cup {"POISON"} \cup (IF Vm(k) THEN {"SPACES"} ELSE {})

-----------------------------------------------------------------------------
(* Conversions.                                                            *)

Segments == {"CS_SS", "DS_ES", "FS_GS", "TR", "LDTR"}

\* Move the bits a field keeps: each piece is <<first, last, new first>>.
Move(x, pieces) ==
    UNION {{b - p[1] + p[3] : b \in {c \in x : p[1] <= c /\ c <= p[2]}} : p \in pieces}

\* Utcb_segment::set_vmx, and the way back in save_vmx.
ArToUtcb(x) == Move(x, {<<0, 7, 0>>, <<12, 16, 8>>})

\* Mutation of ArFromUtcb: the unusable bit of a segment is lost.
ArFromUtcbUsable(x) == Move(x, {<<0, 7, 0>>, <<8, 11, 12>>})

\* The access rights in the VMCS.
ArFromUtcb(x) == Move(x, {<<0, 7, 0>>, <<8, 12, 12>>})

\* A list register of a GICv2 in the format of a GICv3, and the way back.
LrToUtcb(x) ==
    Move(x, {<<28, 29, 62>>, <<30, 31, 60>>, <<23, 27, 51>>, <<10, 19, 32>>, <<0, 9, 0>>})
LrFromUtcb(x) ==
    Move(x, {<<62, 63, 28>>, <<60, 61, 30>>, <<51, 55, 23>>, <<32, 41, 10>>, <<0, 9, 0>>})

\* The flags of a thread: some are forced, the privileged ones are cleared.
UserFlags(x) ==
    (x \ {"VIP", "VIF", "VM", "RF", "NT", "IOPL"}) \cup {"AC", "IF", "1"}

\* Mutation of ConstrainXcr: AVX512 no longer pulls in AVX.
ConstrainXcrLoose(x) ==
    (x \cup (IF "AVX" \in x THEN {"SSE"} ELSE {}) \cup {"X87"}) \cap ManagedXcr

\* Fpu::State::constrain_xcr.
ConstrainXcr(x) ==
    LET a == IF x \cap {"A512a", "A512b"} # {} THEN x \cup {"A512a", "A512b", "AVX"} ELSE x
        s == IF "AVX" \in a THEN a \cup {"SSE"} ELSE a
    IN  (s \cup {"X87"}) \cap ManagedXcr

\* Cpu::State::constrain_star, constrain_fmask and constrain_canon: one half
\* of the register, and bits above the highest address bit that copy it.
ConstrainMsr(x) == x \cap {"legal"}

\* Cpu::constrain_hcr: traps are forced, what is not virtualised is cleared.
ConstrainHcr(x) == (x \cup {"TSC"}) \ {"NV", "E2H"}

\* EL2_ELR_SPSR of a thread: the mode stays that of EL0.
UserSpsr(x) == x \cap {"NZCV"}

\* Value x of item i in the UTCB.
ToUtcb(k, i, x) ==
    CASE k = "vmx" /\ i \in Segments -> ArToUtcb(x)
      [] k = "armvm" /\ i = "GIC" /\ Gicv2 -> LrToUtcb(x)
      [] OTHER -> x

\* What save_exc stores for item i.
SaveExc(i, x) == IF i = "RFLAGS" THEN UserFlags(x) ELSE x

\* What save_vmx and save_svm store for the registers that are constrained.
SaveRegs(i, x) ==
    CASE i = "XSAVE" -> ConstrainXcr(x)
      [] i \in {"SYSCALL", "KERNEL_GS_BASE"} -> ConstrainMsr(x)
      [] OTHER -> x

\* What save_svm stores for item i: segments are kept in the format of the UTCB.
SaveSvm(i, x) == SaveRegs(i, x)

\* What save_vmx stores for item i.
SaveVmx(i, x) == IF i \in Segments THEN ArFromUtcb(x) ELSE SaveRegs(i, x)

\* What save on AArch64 stores for item i of a thread, and of a vCPU.
SaveArm(i, x) == IF i = "EL2_ELR_SPSR" THEN UserSpsr(x) ELSE x
SaveArmVm(i, x) ==
    CASE i = "EL2_HCR" -> ConstrainHcr(x)
      [] i = "GIC" /\ Gicv2 -> LrFromUtcb(x)
      [] OTHER -> x

\* The value item i of the EC gets from x in the UTCB (state_save).
FromUtcb(k, i, x) ==
    CASE k = "exc" -> SaveExc(i, x) [] k = "vmx" -> SaveVmx(i, x) [] k = "svm" -> SaveSvm(i, x)
      [] k = "arm" -> SaveArm(i, x) [] k = "armvm" -> SaveArmVm(i, x)

\* Mode and execution state fit, and the mode is one of EL1 or EL0, not one of
\* EL2 or EL3 ("hyp"): the last check of save on AArch64.
ModeLegal(hcr, spsr) == ("RW" \in hcr) = ("A32" \notin spsr) /\ "hyp" \notin spsr

-----------------------------------------------------------------------------
(* Values.                                                                 *)

\* What the hardware may hold in item i when the EC traps, given its HCR.
Held(k, i, hcr) ==
    CASE k = "exc" /\ i = "RFLAGS" -> {{"1", "IF", "AC"}, {"1", "IF", "CF", "NT"}}
      [] k = "vmx" /\ i \in Segments -> {{0, 7, 12}, {16}}
      [] i = "XSAVE" -> {{"X87"}, ManagedXcr}
      [] i \in {"SYSCALL", "KERNEL_GS_BASE"} -> {{}, {"legal"}}
      [] k = "arm" /\ i = "EL2_ELR_SPSR" -> {{}, {"NZCV"}}
      [] k = "armvm" /\ i = "EL2_ELR_SPSR" ->
            IF "RW" \in hcr THEN {{}, {"NZCV"}} ELSE {{"A32"}, {"A32", "NZCV"}}
      [] i = "EL2_HCR" -> {hcr}
      [] i = "GIC" -> IF Gicv2 THEN {{0, 9, 10, 19, 23, 27}, {28, 29, 30, 31}}
                               ELSE {{0, 63}, {32, 55}}
      [] OTHER -> {{}, {0}}

\* What a handler may write to item i.
Written(k, i) ==
    CASE i = "RFLAGS" -> {{"IOPL", "VM", "VIF"}, {"CF", "IF"}}
      [] i \in Segments -> {{0, 13, 15}, {12}}
      [] i = "XSAVE" -> {{"A512a"}, {"AVX"}}
      [] i \in {"SYSCALL", "KERNEL_GS_BASE"} -> {{"legal", "illegal"}, {"illegal"}}
      [] i = "EL2_ELR_SPSR" -> {{"A32", "NZCV"}, {"NZCV"}, {"hyp", "NZCV"}}
      [] i = "EL2_HCR" -> {{"E2H", "NV"}, {"RW"}}
      [] i = "GIC" -> {{1, 62}, {40, 60}}
      [] i = "INJ" -> {{"ev", "iw"}, {"nw"}}
      [] OTHER -> {{}, {0}}

\* Which of two or three: one choice for all items keeps the instance small.
Nth(S, n) ==
    LET a == CHOOSE x \in S : TRUE
        b == IF S = {a} THEN a ELSE CHOOSE x \in S : x # a
    IN  CASE n = 0 -> a
          [] n = 1 -> b
          [] OTHER -> IF S \subseteq {a, b} THEN b ELSE CHOOSE x \in S : x \notin {a, b}

\* Selectors of spaces: a capability of the right kind for the EC's own PD,
\* one for another PD's space, and one without ASSIGN or of the wrong kind.
Selectors == {"own", "other", "invalid"}

-----------------------------------------------------------------------------
(* State and actions.                                                      *)

VARIABLES
    ukind,          \* the kind of the EC
    ustep,          \* "run", "sent" (message sent), "handler" or "dead"
    ustate,         \* its items
    utcb,           \* the items in the UTCB of its handler
    uheld,          \* history: the items when it trapped
    ugot,           \* history: items loaded and not written by the handler
    uspaces,        \* its guest, port and MSR spaces: "none", "own" or "other"
    uillegal,       \* Hazard::ILLEGAL
    umode,          \* history: its handler chose HCR or SPSR once
    ufar,           \* whose address FAR_EL2 and HPFAR_EL2 hold
    uevent          \* the event: "fault" (with an address), "recall" or "other"

uvars == <<ukind, ustep, ustate, utcb, uheld, ugot, uspaces, uillegal, umode, ufar, uevent>>

UtcbInit ==
    /\ ukind \in UKinds
    /\ ustep = "sent"
    /\ ustate = [i \in Items(ukind) |->
                   IF i = "RFLAGS" THEN {"1", "IF", "AC"}
                   ELSE IF i = "EL2_HCR" THEN ConstrainHcr({})
                   ELSE IF i = "XSAVE" THEN {"X87"} ELSE {}]
    /\ utcb = [i \in Items(ukind) |-> {}]
    /\ uheld = ustate /\ ugot = {}
    /\ uspaces = (IF Vm(ukind) THEN "none" ELSE "own")
    /\ uillegal = Vm(ukind) /\ umode = FALSE
    /\ ufar = "none" /\ uevent = "other"

\* The EC runs and traps: its carried items changed; a fault leaves its
\* address in FAR_EL2.  An event to inject was delivered, unless the EC was
\* recalled before it ran.  What earlier messages left in the UTCB does not count:
\* the handler may write anything there.
UTrap(n, ev) ==
    /\ ustep = "run"
    /\ ustep' = "sent" /\ uevent' = ev
    /\ LET hcr == IF ukind = "armvm" THEN ustate["EL2_HCR"] ELSE {}
       IN  ustate' = [i \in Items(ukind) |->
                        IF i \in Carried(ukind) THEN Nth(Held(ukind, i, hcr), n)
                        ELSE IF i = "INJ" /\ ev # "recall" THEN ustate[i] \ {"ev"}
                        ELSE ustate[i]]
    /\ uheld' = ustate'
    /\ ufar' = IF ev = "fault" THEN "own" ELSE ufar
    /\ utcb' = [i \in Items(ukind) |-> {}] /\ ugot' = {}
    /\ UNCHANGED <<ukind, uspaces, uillegal, umode>>

\* Another EC faults on this CPU.
UOther ==
    /\ ustep = "run" /\ ufar # "other" /\ ufar' = "other"
    /\ UNCHANGED <<ukind, ustep, ustate, utcb, uheld, ugot, uspaces, uillegal, umode, uevent>>

\* EL2_ESR_FAR and EL2_HPFAR: not for exceptions without an address.
FaultItems == IF uevent = "fault" THEN ufar ELSE "none"

\* INJ of a recalled vCPU is what its VMM asked for and did not happen yet.
PendingEvent == IF uevent = "recall" THEN ustate["INJ"] \cap {"ev"} ELSE {"exit"}

\* load_exc, load_vmx, load_svm and load: the items of MTD m.
ULoad(m) ==
    /\ ustep = "sent" /\ ustep' = "handler"
    /\ utcb' = [i \in Items(ukind) |->
                  IF i \notin m THEN utcb[i]
                  ELSE IF i \in Carried(ukind) THEN ToUtcb(ukind, i, ustate[i])
                  ELSE IF i \in {"EL2_ESR_FAR", "EL2_HPFAR"} THEN {FaultItems}
                  ELSE IF i = "INJ" THEN PendingEvent
                  ELSE utcb[i]]
    /\ ugot' = m \cap (Carried(ukind) \cup (IF uevent = "recall" THEN {"INJ"} ELSE {}))
    /\ UNCHANGED <<ukind, ustate, uheld, uspaces, uillegal, umode, ufar, uevent>>

\* The handler writes items of its UTCB.
UWrite(n) ==
    /\ ustep = "handler" /\ ugot # {}
    /\ utcb' = [i \in Items(ukind) |->
                  IF i \in ReadOnly(ukind) THEN utcb[i] ELSE Nth(Written(ukind, i), n)]
    /\ ugot' = {}
    /\ UNCHANGED <<ukind, ustep, ustate, uheld, uspaces, uillegal, umode, ufar, uevent>>

\* assign_spaces: every selector must be valid and name a space of the EC's PD.
AssignSpaces(s) == s = "own"

\* save_exc, save_vmx, save_svm and save, and what sys_ipc_reply and the next
\* handle_hazard make of the result.
UReply(m, s) ==
    LET poison == "POISON" \in m
        st == [i \in Items(ukind) |->
                 IF ~poison /\ i \in m \ ReadOnly(ukind) THEN FromUtcb(ukind, i, utcb[i])
                 ELSE ustate[i]]
        assign == ~poison /\ "SPACES" \in m
        spaces == assign /\ AssignSpaces(s)
        mode == ukind = "armvm" /\ m \cap {"EL2_HCR", "EL2_ELR_SPSR"} # {}
        ok == /\ ~poison
              /\ assign => spaces
              /\ mode => ModeLegal(st["EL2_HCR"], st["EL2_ELR_SPSR"])
    IN  /\ ustep = "handler"
        /\ ustate' = st
        /\ uspaces' = IF spaces THEN s ELSE uspaces
        /\ uillegal' = ((uillegal /\ ~spaces) \/ ~ok)
        /\ umode' = (umode \/ (mode /\ ok))
        /\ ustep' = IF uillegal' THEN "dead" ELSE "run"
        /\ UNCHANGED <<ukind, utcb, uheld, ugot, ufar, uevent>>

\* MTDs: everything with and without spaces, poison, and single items of those
\* that are converted.
Mtds(k) ==
    {Items(k), MtdItems(k), MtdItems(k) \ {"POISON"}, {"SPACES"} \cap MtdItems(k)}
        \cup {{i} : i \in Items(k) \cap {"RFLAGS", "CS_SS", "XSAVE", "EL2_HCR", "EL2_ELR_SPSR",
                                         "GIC", "EL2_ESR_FAR", "INJ"}}

UtcbNext ==
    \/ \E n \in {0, 1}, ev \in {"fault", "recall", "other"} : UTrap(n, ev)
    \/ \E n \in 0..2 : UWrite(n)
    \/ UOther
    \/ \E m \in Mtds(ukind) : ULoad(m)
    \/ \E m \in Mtds(ukind), s \in Selectors : UReply(m, s)

UtcbSpec == UtcbInit /\ [][UtcbNext]_uvars

-----------------------------------------------------------------------------
(* Properties.                                                             *)

UtcbType ==
    /\ ukind \in UKinds /\ ustep \in {"run", "sent", "handler", "dead"}
    /\ DOMAIN ustate = Items(ukind) /\ DOMAIN utcb = Items(ukind)
    /\ ugot \subseteq Items(ukind) /\ uspaces \in {"none", "own", "other"}
    /\ uillegal \in BOOLEAN /\ ufar \in {"none", "own", "other"}

\* Bits a thread's handler gives back: not the forced ones of RFLAGS, and of
\* INJ the event, not the request for an interrupt window.
Comparable(i, x) == 
    CASE ukind = "exc" /\ i = "RFLAGS" -> x \cap {"CF"}
      [] i = "INJ" -> x \cap {"ev"}
      [] OTHER -> x

\* A handler that does not touch an item it was given is invisible: after the
\* reply the EC has that item as it was when it trapped, whatever else was
\* loaded, written or saved (set_vmx and save_vmx for segments, the GICv2 and
\* GICv3 list registers, the constrain functions, the injection a recalled
\* vCPU still waits for).
Transparent ==
    ustep = "run" => \A i \in ugot : Comparable(i, ustate[i]) = Comparable(i, uheld[i])

\* Whatever a handler writes, an EC that runs is legal: a thread's privileged
\* flags and mode are the kernel's, the MSRs and XCR0 of a vCPU do not fault
\* when they are loaded, its traps stay on, its spaces belong to its own PD,
\* and its mode fits HCR once the VMM chose one; and a fault address in the
\* UTCB is never another EC's (save_exc, constrain_*, assign_spaces, the mode
\* check, "Don't leak a stale FAR from another EC").
RunsLegal ==
    /\ UtcbType
    /\ ustep = "run" =>
        /\ uspaces = "own"
        /\ ukind = "exc" => {"1", "IF"} \subseteq ustate["RFLAGS"]
                         /\ ustate["RFLAGS"] \cap {"IOPL", "VM", "VIF", "VIP"} = {}
        /\ ukind = "arm" => ustate["EL2_ELR_SPSR"] \subseteq {"NZCV"}
        /\ ukind \in {"vmx", "svm"} =>
              /\ XcrLegal(ustate["XSAVE"])
              /\ "illegal" \notin ustate["SYSCALL"] \cup ustate["KERNEL_GS_BASE"]
        /\ ukind = "armvm" =>
              /\ "TSC" \in ustate["EL2_HCR"] /\ ustate["EL2_HCR"] \cap {"NV", "E2H"} = {}
              /\ umode => ModeLegal(ustate["EL2_HCR"], ustate["EL2_ELR_SPSR"])
    /\ \A i \in {"EL2_ESR_FAR", "EL2_HPFAR"} \cap Items(ukind) : "other" \notin utcb[i]
=============================================================================
