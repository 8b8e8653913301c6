------------------------------ MODULE Machine ------------------------------
(***************************************************************************)
(* What one x86 CPU keeps of the execution contexts it runs: the FPU, which *)
(* stays with its last owner, the VMCS that is loaded, the system-call and  *)
(* XSAVE registers a guest exchanges with the host, the TSC offset and the  *)
(* hazards (src/ec.cpp, src/x86_64/ec_arch.cpp, ec_exc.cpp, ec_vmx.cpp,     *)
(* regs.cpp, vmx.cpp, cpu.cpp).                                             *)
(*                                                                         *)
(* The CPU is in the kernel, in a thread or in a guest.  An action is one   *)
(* entry or exit with everything the handler does.  Of the control          *)
(* registers only CR0.TS is kept, of the events only #NM: they decide who   *)
(* touches the FPU.                                                         *)
(***************************************************************************)
EXTENDS Naturals

CONSTANTS
    Threads,        \* host threads of this CPU
    Vcpus,          \* virtual CPUs of this CPU
    FpuEcs,         \* execution contexts that were created with an FPU
    OffsVcpus,      \* vCPUs of subtype EC_VCPU_OFFS
    NoEc,           \* nullptr
    Values,         \* contents of the FPU, and TSC offsets
    NmIntercept     \* the VMM may intercept #NM for itself (intcpt_exc)

MEcs == Threads \cup Vcpus

ASSUME MachineAssumption ==
    /\ Threads \cap Vcpus = {} /\ NoEc \notin MEcs
    /\ FpuEcs \subseteq MEcs /\ OffsVcpus \subseteq Vcpus
    /\ 0 \in Values /\ NmIntercept \subseteq BOOLEAN

VARIABLES
    mmode,          \* "kernel", "user", "guest" or "off"
    mcur,           \* Ec::current
    fpowner,        \* Ec::fpowner
    chaz,           \* Cpu::hazard: the FPU and TR bits
    ts,             \* CR0.TS of the host
    fregs,          \* the FPU registers
    fmem,           \* the XSAVE area of each EC
    ehaz,           \* regs.hazard of each EC: FPU, TSC and ILLEGAL
    fpuon,          \* exc.fpu_on of each vCPU
    shadow,         \* exc.shadow_cr0.TS, and the read shadow in the VMCS
    icpt,           \* exc.intcpt_cr0.TS and exc.intcpt_exc.NM
    vmcs,           \* GUEST_CR0.TS, TS in CR0_MASK, #NM in BITMAP_EXC, TSC_OFFSET
    vcur,           \* Vmcs::current
    vact,           \* VMCSs that are active on this CPU
    born,           \* vCPUs that exist
    hw,             \* whose STAR, LSTAR, FMASK, XCR0, XSS the CPU holds
    offset,         \* exc.offset_tsc
    fseen,          \* history: the FPU contents each EC left behind
    tseen,          \* history: CR0.TS as each guest and its VMM set it last
    late            \* history: vCPUs whose CR0.TS the VMM took over without writing it

fpuvars == <<fpowner, fregs, fmem, ehaz, fpuon, shadow, vmcs, vcur, vact>>
mvars == <<mmode, mcur, chaz, ts, icpt, born, hw, offset, fseen, tseen, late, fpuvars>>

Host == "host"

MachineType ==
    /\ mmode \in {"kernel", "user", "guest", "off"}
    /\ mcur \in MEcs \cup {NoEc} /\ fpowner \in FpuEcs \cup {NoEc}
    /\ chaz \subseteq {"FPU", "TR"} /\ ts \in BOOLEAN
    /\ fregs \in Values /\ fmem \in [MEcs -> Values]
    /\ ehaz \in [MEcs -> SUBSET {"FPU", "TSC", "ILLEGAL"}]
    /\ fpuon \in [Vcpus -> BOOLEAN] /\ shadow \in [Vcpus -> BOOLEAN]
    /\ icpt \in [Vcpus -> [cr0 : BOOLEAN, exc : BOOLEAN]]
    /\ vmcs \in [Vcpus -> [ts : BOOLEAN, msk : BOOLEAN, nm : BOOLEAN, off : Values]]
    /\ vcur \in Vcpus \cup {NoEc} /\ vact \subseteq Vcpus /\ born \subseteq Vcpus
    /\ hw \in Vcpus \cup {Host} /\ offset \in [Vcpus -> Values]
    /\ fseen \in [MEcs -> Values] /\ tseen \in [Vcpus -> BOOLEAN]
    /\ late \subseteq Vcpus

\* After start.S and Cpu::init: TS is set and no EC owns the FPU.
MachineInit ==
    /\ mmode = "kernel" /\ mcur = NoEc /\ fpowner = NoEc
    /\ chaz = {} /\ ts = TRUE /\ fregs = 0
    /\ fmem = [e \in MEcs |-> 0] /\ ehaz = [e \in MEcs |-> {}]
    /\ fpuon = [v \in Vcpus |-> FALSE] /\ shadow = [v \in Vcpus |-> FALSE]
    /\ icpt = [v \in Vcpus |-> [cr0 |-> FALSE, exc |-> FALSE]]
    /\ vmcs = [v \in Vcpus |-> [ts |-> FALSE, msk |-> FALSE, nm |-> FALSE, off |-> 0]]
    /\ vcur = NoEc /\ vact = {} /\ born = {} /\ hw = Host
    /\ offset = [v \in Vcpus |-> 0]
    /\ fseen = [e \in MEcs |-> 0] /\ tseen = [v \in Vcpus |-> FALSE]
    /\ late = {}

-----------------------------------------------------------------------------
(* The VMCS.  vmread and vmwrite reach the VMCS that is current.           *)

\* vmx_get_gst_cr0 for TS: bits the kernel forces come from the shadow.
GuestTs(on, sh, f) == IF on THEN f.ts ELSE sh

\* vmx_set_gst_cr0 (t), vmx_set_msk_cr0 and vmx_set_bmp_exc.
CtrlFields(f, on, t, i) ==
    [f EXCEPT !.ts  = IF on THEN t ELSE TRUE,
              !.msk = ~on \/ i.cr0,
              !.nm  = ~on \/ i.exc]

\* What the guest reads in CR0.TS: masked bits come from the read shadow.
VisibleTs(v) == IF vmcs[v].msk THEN shadow[v] ELSE vmcs[v].ts

-----------------------------------------------------------------------------
(* The FPU.  A switch saves one EC and loads another; each is a function    *)
(* on a record of the state it changes.                                     *)

FpuNow == [regs |-> fregs, mem |-> fmem, haz |-> ehaz, on |-> fpuon, sh |-> shadow,
           vm |-> vmcs, vc |-> vcur, va |-> vact]

SetFpu(owner, s) ==
    /\ fpowner' = owner /\ fregs' = s.regs /\ fmem' = s.mem /\ ehaz' = s.haz
    /\ fpuon' = s.on /\ shadow' = s.sh /\ vmcs' = s.vm /\ vcur' = s.vc /\ vact' = s.va

\* Mutation of FpuCtrl: the guest's CR0 is read after fpu_on changed.
FpuCtrlLate(s, v, on) ==
    LET t == GuestTs(on, s.sh[v], s.vm[v])
    IN  [s EXCEPT !.on[v] = on, !.sh[v] = t,
                  !.vm[v] = CtrlFields(@, on, t, icpt[v]),
                  !.vc = v, !.va = @ \cup {v}]

\* Cpu_regs::fpu_ctrl (on) for vCPU v: the guest keeps its CR0.TS.
FpuCtrl(s, v, on) ==
    LET t == GuestTs(s.on[v], s.sh[v], s.vm[v])
    IN  [s EXCEPT !.on[v] = on, !.sh[v] = t,
                  !.vm[v] = CtrlFields(@, on, t, icpt[v]),
                  !.vc = v, !.va = @ \cup {v}]

\* Mutation of FpuSave: the hazard of the previous owner is not cleared.
FpuSaveKeepHazard(s, e) ==
    LET c == IF e \in Vcpus THEN FpuCtrl(s, e, FALSE) ELSE s
    IN  [c EXCEPT !.mem[e] = s.regs]

\* Ec::fpu_save: a vCPU also loses the right to use the FPU without an exit.
FpuSave(s, e) ==
    LET c == IF e \in Vcpus THEN FpuCtrl(s, e, FALSE) ELSE s
    IN  [c EXCEPT !.mem[e] = s.regs, !.haz[e] = @ \ {"FPU"}]

\* Ec::fpu_load.
FpuLoad(s, e) ==
    LET c == IF e \in Vcpus THEN FpuCtrl(s, e, TRUE) ELSE s
    IN  [c EXCEPT !.regs = s.mem[e], !.haz[e] = @ \cup {"FPU"}]

\* The FPU after the previous owner, if any, was saved.
FpuFree == IF fpowner = NoEc THEN FpuNow ELSE FpuSave(FpuNow, fpowner)

\* Ec::switch_fpu (e) once e is known to be eligible, with Fpu::enable.
SwitchFpu(e) ==
    /\ SetFpu(e, FpuLoad(FpuFree, e))
    /\ ts' = FALSE

\* handle_hazard for the FPU bit: Fpu::disable or Fpu::enable.
FpuHazard(e) ==
    IF ("FPU" \in chaz) # ("FPU" \in ehaz[e])
    THEN /\ ts' = ("FPU" \in chaz)
         /\ chaz' = IF "FPU" \in chaz THEN chaz \ {"FPU"} ELSE chaz \cup {"FPU"}
    ELSE UNCHANGED <<ts, chaz>>

-----------------------------------------------------------------------------
(* Entering and leaving threads.                                           *)

\* ret_user_hypercall or ret_user_exception of thread e.
RunThread(e) ==
    /\ mmode = "kernel" /\ e \in Threads
    /\ mmode' = "user" /\ mcur' = e
    /\ FpuHazard(e)
    /\ UNCHANGED <<icpt, born, hw, offset, fseen, tseen, late, fpuvars>>

\* A system call, an interrupt or an exception other than #NM.
LeaveThread ==
    /\ mmode = "user" /\ mmode' = "kernel"
    /\ UNCHANGED <<mcur, chaz, ts, icpt, born, hw, offset, fseen, tseen, late, fpuvars>>

\* handle_exc for #NM: the thread gets the FPU, or is sent to its handler.
ThreadNm ==
    /\ mmode = "user" /\ ts
    /\ IF mcur \in FpuEcs
       THEN SwitchFpu(mcur) /\ chaz' = chaz \cup {"FPU"} /\ UNCHANGED mmode
       ELSE mmode' = "kernel" /\ UNCHANGED <<ts, chaz, fpuvars>>
    /\ UNCHANGED <<mcur, icpt, born, hw, offset, fseen, tseen, late>>

\* The thread computes with the FPU.
ThreadFpu(x) ==
    /\ mmode = "user" /\ ~ts
    /\ fregs' = x /\ fseen' = [fseen EXCEPT ![mcur] = x]
    /\ UNCHANGED <<mmode, mcur, chaz, ts, icpt, born, hw, offset, tseen, late, fpowner, fmem,
                   ehaz, fpuon, shadow, vmcs, vcur, vact>>

\* handle_exc_gp: the TSS a VM exit truncated is loaded again.
ThreadGp ==
    /\ mmode = "user" /\ "TR" \in chaz
    /\ chaz' = chaz \ {"TR"}
    /\ UNCHANGED <<mmode, mcur, ts, icpt, born, hw, offset, fseen, tseen, late, fpuvars>>

-----------------------------------------------------------------------------
(* Entering and leaving guests.                                            *)

\* Ec::create of a vCPU: Vmcs::init on the creating CPU, which may be this
\* one, then Vmcs::clear, so that the VMCS is active nowhere.
CreateVcpu(v, here) ==
    /\ mmode = "kernel" /\ v \in Vcpus \ born
    /\ born' = born \cup {v}
    /\ vmcs' = [vmcs EXCEPT ![v].msk = TRUE, ![v].nm = TRUE]
    /\ ehaz' = [ehaz EXCEPT ![v] = {"ILLEGAL"}]
    /\ vcur' = IF here THEN NoEc ELSE vcur
    /\ UNCHANGED <<mmode, mcur, chaz, ts, icpt, hw, offset, fseen, tseen, late, fpowner, fregs,
                   fmem, fpuon, shadow, vact>>

\* Scheduler::Ready::dequeue adds the time the vCPU was not running.
AdjustOffset(v, x) ==
    /\ mmode = "kernel" /\ v \in born \cap OffsVcpus /\ x # offset[v]
    /\ offset' = [offset EXCEPT ![v] = x]
    /\ ehaz' = [ehaz EXCEPT ![v] = @ \cup {"TSC"}]
    /\ UNCHANGED <<mmode, mcur, chaz, ts, icpt, born, hw, fseen, tseen, late, fpowner, fregs,
                   fmem, fpuon, shadow, vmcs, vcur, vact>>

\* ret_user_vmexit_vmx: the TSC hazard, the VMCS, then the guest's registers.
RunVcpu(v) ==
    /\ mmode = "kernel" /\ v \in born /\ "ILLEGAL" \notin ehaz[v]
    /\ mmode' = "guest" /\ mcur' = v
    /\ ehaz' = [ehaz EXCEPT ![v] = @ \ {"TSC"}]
    /\ vmcs' = IF "TSC" \in ehaz[v] THEN [vmcs EXCEPT ![v].off = offset[v]] ELSE vmcs
    /\ vcur' = v /\ vact' = vact \cup {v}
    /\ hw' = v
    /\ UNCHANGED <<chaz, ts, icpt, born, offset, fseen, tseen, late, fpowner, fregs, fmem,
                   fpuon, shadow>>

\* handle_vmx: host registers come back, HOST_CR0 has TS set.
VmExit ==
    /\ hw' = Host
    /\ mmode' = "kernel"

\* A VM exit other than #NM.
LeaveGuest ==
    /\ mmode = "guest" /\ VmExit
    /\ ts' = TRUE /\ chaz' = (chaz \cup {"TR"}) \ {"FPU"}
    /\ UNCHANGED <<mcur, icpt, born, offset, fseen, tseen, late, fpuvars>>

\* An FPU instruction with TS set and #NM intercepted: vmx_exception gives the
\* guest the FPU and resumes it, or sends the event to the VMM.
GuestNm ==
    /\ mmode = "guest" /\ vmcs[mcur].ts /\ vmcs[mcur].nm
    /\ VmExit
    /\ IF mcur \in FpuEcs
       THEN SwitchFpu(mcur) /\ chaz' = chaz \cup {"TR", "FPU"}
       ELSE /\ ts' = TRUE /\ chaz' = (chaz \cup {"TR"}) \ {"FPU"}
            /\ UNCHANGED fpuvars
    /\ UNCHANGED <<mcur, icpt, born, offset, fseen, tseen, late>>

\* The guest computes with the FPU.
GuestFpu(x) ==
    /\ mmode = "guest" /\ ~vmcs[vcur].ts
    /\ fregs' = x /\ fseen' = [fseen EXCEPT ![mcur] = x]
    /\ UNCHANGED <<mmode, mcur, chaz, ts, icpt, born, hw, offset, tseen, late, fpowner, fmem,
                   ehaz, fpuon, shadow, vmcs, vcur, vact>>

\* The guest writes CR0.TS without an exit: the bit is its own.
GuestSetTs(t) ==
    /\ mmode = "guest" /\ ~vmcs[vcur].msk
    /\ vmcs' = [vmcs EXCEPT ![vcur].ts = t]
    /\ tseen' = [tseen EXCEPT ![mcur] = t]
    /\ UNCHANGED <<mmode, mcur, chaz, ts, icpt, born, hw, offset, fseen, late, fpowner, fregs,
                   fmem, ehaz, fpuon, shadow, vcur, vact>>

\* Utcb_arch::save_vmx with CR, the first time with SPACES: vmx_set_gst_cr0.
\* A vCPU that is run before its VMM wrote CR0 fails VM entry and is killed.
ReplyCr(v, t) ==
    /\ mmode = "kernel" /\ v \in born
    /\ shadow' = [shadow EXCEPT ![v] = t]
    /\ vmcs' = [vmcs EXCEPT ![v].ts = IF fpuon[v] THEN t ELSE TRUE]
    /\ vcur' = v /\ vact' = vact \cup {v}
    /\ tseen' = [tseen EXCEPT ![v] = t]
    /\ late' = late \ {v}
    /\ ehaz' = [ehaz EXCEPT ![v] = @ \ {"ILLEGAL"}]
    /\ UNCHANGED <<mmode, mcur, chaz, ts, icpt, born, hw, offset, fseen, fpowner, fregs,
                   fmem, fpuon>>

\* Utcb_arch::save_vmx with CTRL: vmx_set_msk_cr0 and vmx_set_bmp_exc.  Nothing
\* is written to the read shadow: if the bit was the guest's own, the guest now
\* reads what the shadow held before, until a reply with CR, which may be this
\* one: CTRL comes before CR.
ReplyCtrl(v, i) ==
    /\ mmode = "kernel" /\ v \in born
    /\ icpt' = [icpt EXCEPT ![v] = i]
    /\ vmcs' = [vmcs EXCEPT ![v].msk = ~fpuon[v] \/ i.cr0, ![v].nm = ~fpuon[v] \/ i.exc]
    /\ vcur' = v /\ vact' = vact \cup {v}
    /\ late' = IF ~i.cr0 THEN late \ {v}
               ELSE IF fpuon[v] /\ ~icpt[v].cr0 THEN late \cup {v} ELSE late
    /\ UNCHANGED <<mmode, mcur, chaz, ts, born, hw, offset, fseen, tseen, fpowner, fregs,
                   fmem, ehaz, fpuon, shadow>>

-----------------------------------------------------------------------------
(* Sleep.                                                                  *)

\* Cpu::fini below S1: the FPU is unassigned, then the current VMCS cleared.
\* Vmcs::fini clears no other VMCS; only CPUs with none may go to sleep here.
Sleep ==
    /\ mmode = "kernel"
    /\ FpuFree.va \subseteq {FpuFree.vc}
    /\ SetFpu(NoEc, [FpuFree EXCEPT !.vc = NoEc, !.va = {}])
    /\ ts' = FALSE /\ chaz' = chaz \cup {"FPU"}
    /\ mmode' = "off"
    /\ UNCHANGED <<mcur, icpt, born, hw, offset, fseen, tseen, late>>

\* start.S and Cpu::init on resume: the FPU registers are gone.
Resume(x) ==
    /\ mmode = "off"
    /\ mmode' = "kernel" /\ chaz' = {} /\ ts' = TRUE /\ fregs' = x
    /\ UNCHANGED <<mcur, icpt, born, hw, offset, fseen, tseen, late, fpowner, fmem, ehaz, fpuon,
                   shadow, vmcs, vcur, vact>>

MachineNext ==
    \/ \E e \in Threads : RunThread(e)
    \/ LeaveThread \/ ThreadNm \/ ThreadGp
    \/ \E x \in Values : ThreadFpu(x) \/ GuestFpu(x) \/ Resume(x)
    \/ \E v \in Vcpus, here \in BOOLEAN : CreateVcpu(v, here)
    \/ \E v \in Vcpus, x \in Values : AdjustOffset(v, x)
    \/ \E v \in Vcpus : RunVcpu(v)
    \/ LeaveGuest \/ GuestNm
    \/ \E t \in BOOLEAN : GuestSetTs(t)
    \/ \E v \in Vcpus, t \in BOOLEAN : ReplyCr(v, t)
    \/ \E v \in Vcpus, c \in BOOLEAN, x \in NmIntercept :
          ReplyCtrl(v, [cr0 |-> c, exc |-> x])
    \/ Sleep

MachineSpec == MachineInit /\ [][MachineNext]_mvars

-----------------------------------------------------------------------------
(* Properties.                                                             *)

\* Every EC finds its FPU contents as it left them, whoever used the FPU in
\* between; code that can touch the FPU without a trap is its owner, and a trap
\* is never from the owner, as the assertion in Ec::switch_fpu has it
\* (Ec::switch_fpu, fpu_save, fpu_load, the FPU hazard, Cpu::fini).
FpuExact ==
    /\ \A e \in FpuEcs : fseen[e] = IF fpowner = e THEN fregs ELSE fmem[e]
    /\ mmode = "user" => ts = (fpowner # mcur)
    /\ mmode = "guest" =>
          /\ ~vmcs[vcur].ts => fpowner = mcur
          /\ vmcs[vcur].ts /\ vmcs[vcur].nm => fpowner # mcur

\* A guest runs on its own VMCS, active here, with its own system-call and
\* XSAVE registers and its TSC offset, and the host never runs with a guest's;
\* giving the FPU to a vCPU and taking it away is invisible in the guest's
\* CR0.TS: what vmx_get_gst_cr0 tells the VMM is what the guest or the VMM wrote
\* last, and so is what the guest reads, except after a reply that began to
\* intercept CR0.TS with CTRL and did not write CR0 (ret_user_vmexit_vmx,
\* handle_vmx, adjust_offset_ticks, fpu_ctrl, vmx_get_gst_cr0, vmx_set_gst_cr0,
\* vmx_set_msk_cr0, Vmcs::make_current).
GuestReady ==
    /\ MachineType
    /\ mmode = "guest" => vcur = mcur /\ hw = mcur /\ vmcs[mcur].off = offset[mcur]
    /\ mmode # "guest" => hw = Host
    /\ vcur # NoEc => vcur \in vact
    /\ \A v \in born : "ILLEGAL" \notin ehaz[v] =>
          /\ GuestTs(fpuon[v], shadow[v], vmcs[v]) = tseen[v]
          /\ v \notin late => VisibleTs(v) = tseen[v]
=============================================================================
