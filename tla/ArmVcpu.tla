------------------------------ MODULE ArmVcpu ------------------------------
(***************************************************************************)
(* One AArch64 CPU and the execution contexts it runs: whose EL1, EL2 and   *)
(* GIC registers the hardware holds (Vmcb::current), the virtual timer      *)
(* interrupt, and the FPU (src/aarch64/ec_arch.cpp, ec_exc.cpp, vmcb.cpp,   *)
(* interrupt.cpp, inc/aarch64/fpu.hpp).                                     *)
(*                                                                         *)
(* The registers of a vCPU are two values: "own" stands for those the guest *)
(* writes without an exit, which load_gst writes and save_gst reads back,   *)
(* "vmm" for those only the VMM writes (hcr, vmpidr, vpidr, mdscr), which   *)
(* load_gst writes and save_gst leaves alone.  The offset of the virtual    *)
(* counter, cntvoff, is kept apart: the scheduler writes it too.            *)
(***************************************************************************)
EXTENDS Naturals

CONSTANTS
    AThreads,       \* host threads of this CPU
    AVcpus,         \* virtual CPUs of this CPU
    AFpuEcs,        \* execution contexts that were created with an FPU
    AOffsVcpus,     \* vCPUs of subtype EC_VCPU_OFFS
    NoA,            \* nullptr
    AValues         \* contents of registers

AEcs == AThreads \cup AVcpus

ASSUME ArmAssumption ==
    /\ AThreads \cap AVcpus = {} /\ NoA \notin AEcs
    /\ AFpuEcs \subseteq AEcs /\ AOffsVcpus \subseteq AVcpus /\ 0 \in AValues

VARIABLES
    amode,          \* "kernel", "user", "guest" or "off"
    acur,           \* Ec::current
    avc,            \* Vmcb::current
    aregs,          \* the registers of the hardware: own and vmm
    avmcb,          \* the Vmcb of each vCPU in memory
    aoff,           \* cntvoff_el2
    avoff,          \* tmr.cntvoff of each vCPU
    alag,           \* history: adjusted while the vCPU's registers stayed loaded
    await,          \* vCPUs that wait for the reply of their VMM
    aline,          \* vCPUs whose virtual timer condition holds
    appi,           \* the virtual timer PPI is active
    aact,           \* tmr.cntv_act of each vCPU
    atold,          \* history: the VMM was told of the active interrupt
    aowner,         \* Ec::fpowner
    afp,            \* the FPU registers
    afmem,          \* the Fpu of each EC
    aehaz,          \* ECs with Hazard::FPU in regs.hazard
    achaz,          \* Hazard::FPU in Cpu::hazard, which is CPTR.TFP clear
    aseen           \* history: registers and FPU of each EC as last written

atmr == <<aline, appi, aact, atold>>
aoffs == <<aoff, avoff, alag>>
afpu == <<aowner, afp, afmem, aehaz, achaz>>
avars == <<amode, acur, avc, aregs, avmcb, aoffs, await, atmr, afpu, aseen>>

ARegs == [own : AValues, vmm : AValues]

OffsetType == aoff \in AValues /\ avoff \in [AVcpus -> AValues] /\ alag \in BOOLEAN

ArmCore ==
    /\ amode \in {"kernel", "user", "guest", "off"}
    /\ acur \in AEcs \cup {NoA} /\ avc \in AVcpus \cup {NoA}
    /\ aregs \in ARegs /\ avmcb \in [AVcpus -> ARegs] /\ await \subseteq AVcpus
    /\ aline \subseteq AVcpus /\ appi \in BOOLEAN
    /\ aact \in [AVcpus -> BOOLEAN] /\ atold \subseteq AVcpus
    /\ aowner \in AFpuEcs \cup {NoA} /\ afp \in AValues /\ afmem \in [AEcs -> AValues]
    /\ aehaz \subseteq AEcs /\ achaz \in BOOLEAN
    /\ aseen \in [regs : [AVcpus -> ARegs], fpu : [AEcs -> AValues]]

ArmType == ArmCore /\ OffsetType

\* Every vCPU has sent its STARTUP message (set_vmm_regs).
ArmInit ==
    /\ amode = "kernel" /\ acur = NoA /\ avc = NoA
    /\ aregs = [own |-> 0, vmm |-> 0]
    /\ avmcb = [v \in AVcpus |-> [own |-> 0, vmm |-> 0]] /\ await = AVcpus
    /\ aoff = 0 /\ avoff = [v \in AVcpus |-> 0] /\ alag = FALSE
    /\ aline = {} /\ appi = FALSE /\ aact = [v \in AVcpus |-> FALSE] /\ atold = {}
    /\ aowner = NoA /\ afp = 0 /\ afmem = [e \in AEcs |-> 0]
    /\ aehaz = {} /\ achaz = FALSE
    /\ aseen = [regs |-> avmcb, fpu |-> afmem]

-----------------------------------------------------------------------------
(* Hazards and the FPU.                                                    *)

\* handle_hazard: Fpu::enable or Fpu::disable when the bits differ.
AFpuHazard(e) == achaz' = (e \in aehaz)

\* Mutation of ASwitchFpu: the new owner's state is not loaded.
ASwitchFpuNoLoad(e) ==
    /\ achaz' = TRUE
    /\ aowner' = e
    /\ afmem' = IF aowner = NoA THEN afmem ELSE [afmem EXCEPT ![aowner] = afp]
    /\ aehaz' = (aehaz \ {aowner}) \cup ({e} \ {NoA})
    /\ UNCHANGED afp

\* Ec::switch_fpu: enable, fpu_save of the owner, fpu_load of e.
ASwitchFpu(e) ==
    LET saved == IF aowner = NoA THEN afmem ELSE [afmem EXCEPT ![aowner] = afp]
    IN  /\ achaz' = TRUE
        /\ aowner' = e
        /\ afmem' = saved
        /\ afp' = IF e = NoA THEN afp ELSE saved[e]
        /\ aehaz' = (aehaz \ {aowner}) \cup ({e} \ {NoA})

-----------------------------------------------------------------------------
(* The register state of vCPUs.                                            *)

\* Vmcb::load_hst.
LoadHst ==
    /\ avc' = NoA /\ aregs' = [own |-> 0, vmm |-> 0]
    /\ aoff' = 0 /\ alag' = FALSE

\* Vmcb::load_tmr.
LoadTmr(v) == appi' = aact[v]

\* Vmcb::load_gst.
LoadGst(v) ==
    /\ avc' = v /\ aregs' = avmcb[v] /\ LoadTmr(v)
    /\ aoff' = avoff[v] /\ alag' = FALSE

\* Vmcb::save_gst, with p the state of the timer PPI.
SaveGst(v, p) ==
    /\ avmcb' = [avmcb EXCEPT ![v].own = aregs.own]
    /\ aact' = [aact EXCEPT ![v] = p]

\* ret_user_hypercall and ret_user_exception.
ARunThread(e) ==
    /\ amode = "kernel"
    /\ AFpuHazard(e)
    /\ IF avc # NoA THEN LoadHst ELSE UNCHANGED <<avc, aregs, aoff, alag>>
    /\ amode' = "user" /\ acur' = e
    /\ UNCHANGED <<avmcb, avoff, await, atmr, aowner, afp, afmem, aehaz, aseen>>

\* ret_user_vmexit.
ARunGuest(v) ==
    /\ amode = "kernel" /\ v \notin await
    /\ AFpuHazard(v)
    /\ IF avc # v THEN LoadGst(v) ELSE LoadTmr(v) /\ UNCHANGED <<avc, aregs, aoff, alag>>
    /\ amode' = "guest" /\ acur' = v
    /\ UNCHANGED <<avmcb, avoff, await, aline, aact, atold, aowner, afp, afmem, aehaz, aseen>>

-----------------------------------------------------------------------------
(* Exceptions and interrupts.                                              *)

\* handle_exc_user of a thread, or handle_irq_user while a thread runs.
ALeaveThread ==
    /\ amode = "user" /\ amode' = "kernel"
    /\ UNCHANGED <<acur, avc, aregs, avmcb, aoffs, await, atmr, afpu, aseen>>

\* handle_exc_user of a guest: its VMM gets a message; or handle_irq_user with
\* an interrupt that is not the virtual timer's: no message.
ALeaveGuest(msg) ==
    /\ amode = "guest" /\ amode' = "kernel"
    /\ SaveGst(acur, appi)
    /\ await' = IF msg THEN await \cup {acur} ELSE await
    /\ UNCHANGED <<acur, avc, aregs, aoffs, aline, appi, atold, afpu, aseen>>

\* handle_exc_user for an FPU access that was trapped.
AFpuTrap ==
    /\ amode \in {"user", "guest"} /\ ~achaz
    /\ IF acur \in AFpuEcs THEN ASwitchFpu(acur) ELSE UNCHANGED afpu
    /\ IF amode = "guest"
       THEN /\ SaveGst(acur, appi)
            /\ await' = IF acur \in AFpuEcs THEN await ELSE await \cup {acur}
       ELSE UNCHANGED <<avmcb, aact, await>>
    /\ amode' = "kernel"
    /\ UNCHANGED <<acur, avc, aregs, aoffs, aline, appi, atold, aseen>>

\* handle_irq_user with the virtual timer's PPI: acknowledged, which makes it
\* active, its priority dropped, and the VMM told; deactivation by guest.
AVtimerGuest ==
    /\ amode = "guest" /\ acur \in aline /\ ~appi
    /\ appi' = TRUE
    /\ SaveGst(acur, TRUE)
    /\ await' = await \cup {acur} /\ atold' = atold \cup {acur}
    /\ amode' = "kernel"
    /\ UNCHANGED <<acur, avc, aregs, aoffs, aline, afpu, aseen>>

\* handle_irq_kern at a preemption point, while a guest's timer is still
\* loaded: the PPI becomes active and nobody is told.
AVtimerKernel ==
    /\ amode = "kernel" /\ avc \in aline /\ ~appi
    /\ appi' = TRUE
    /\ UNCHANGED <<amode, acur, avc, aregs, avmcb, aoffs, await, aline, aact, atold, afpu, aseen>>

-----------------------------------------------------------------------------
(* Guests, threads and VMMs.                                               *)

\* The counter passes the compare value of a vCPU's virtual timer.
AExpire(v) ==
    /\ v \notin aline /\ aline' = aline \cup {v}
    /\ UNCHANGED <<amode, acur, avc, aregs, avmcb, aoffs, await, appi, aact, atold, afpu, aseen>>

\* The guest handles its timer interrupt: it stops or reprograms the timer and
\* deactivates the interrupt, through the list register also the PPI.
AGuestAck ==
    /\ amode = "guest" /\ appi /\ acur \in atold
    /\ appi' = FALSE
    /\ aline' = aline \ {acur} /\ atold' = atold \ {acur}
    /\ UNCHANGED <<amode, acur, avc, aregs, avmcb, aoffs, await, aact, afpu, aseen>>

\* The guest writes a register of its own.
AGuestWrite(x) ==
    /\ amode = "guest"
    /\ aregs' = [aregs EXCEPT !.own = x]
    /\ aseen' = [aseen EXCEPT !.regs[acur].own = x]
    /\ UNCHANGED <<amode, acur, avc, avmcb, aoffs, await, atmr, afpu>>

\* An EC computes with the FPU.
AFpuUse(x) ==
    /\ amode \in {"user", "guest"} /\ achaz
    /\ afp' = x
    /\ aseen' = [aseen EXCEPT !.fpu[acur] = x]
    /\ UNCHANGED <<amode, acur, avc, aregs, avmcb, aoffs, await, atmr, aowner, afmem, aehaz, achaz>>

\* Utcb_arch::save on behalf of the VMM's thread, which then lets v run.
AReply(v, r, o) ==
    /\ amode = "kernel" /\ acur \in AThreads /\ v \in await
    /\ avmcb' = [avmcb EXCEPT ![v] = r] /\ avoff' = [avoff EXCEPT ![v] = o]
    /\ aseen' = [aseen EXCEPT !.regs[v] = r]
    /\ await' = await \ {v}
    /\ UNCHANGED <<amode, acur, avc, aregs, aoff, alag, atmr, afpu>>

\* Ec::adjust_offset_ticks: Scheduler::Ready::dequeue adds the time that the
\* vCPU was not running.  If no thread and no other vCPU ran in between, only the
\* idle loop, its registers are still loaded, and ret_user_vmexit will not
\* load cntvoff again.
AAdjustOffset(v, x) ==
    /\ amode = "kernel" /\ v \in AOffsVcpus /\ x # avoff[v]
    /\ avoff' = [avoff EXCEPT ![v] = x]
    /\ alag' = (alag \/ avc = v)
    /\ UNCHANGED <<amode, acur, avc, aregs, avmcb, aoff, await, atmr, afpu, aseen>>

-----------------------------------------------------------------------------
(* Sleep.                                                                  *)

\* Cpu::fini below S1: Fpu::fini.
AFini ==
    /\ amode = "kernel" /\ amode' = "off"
    /\ ASwitchFpu(NoA)
    /\ UNCHANGED <<acur, avc, aregs, avmcb, aoffs, await, atmr, aseen>>

\* Cpu::init on resume, with Vmcb::init; registers and FPU were lost.
AResume(x) ==
    /\ amode = "off" /\ amode' = "kernel"
    /\ achaz' = FALSE /\ afp' = x /\ appi' = FALSE
    /\ LoadHst
    /\ UNCHANGED <<acur, avmcb, avoff, await, aline, aact, atold, aowner, afmem, aehaz, aseen>>

ArmNext ==
    \/ \E e \in AThreads : ARunThread(e)
    \/ \E v \in AVcpus : ARunGuest(v) \/ AExpire(v)
    \/ ALeaveThread \/ AFpuTrap \/ AVtimerGuest \/ AVtimerKernel \/ AGuestAck \/ AFini
    \/ \E msg \in BOOLEAN : ALeaveGuest(msg)
    \/ \E x \in AValues : AGuestWrite(x) \/ AFpuUse(x) \/ AResume(x)
    \/ \E v \in AVcpus, r \in ARegs, o \in AValues : AReply(v, r, o)
    \/ \E v \in AVcpus, x \in AValues : AAdjustOffset(v, x)

ArmSpec == ArmInit /\ [][ArmNext]_avars

-----------------------------------------------------------------------------
(* Properties.                                                             *)

\* A guest runs on its own registers, as it and its VMM last wrote them, and
\* every EC finds its FPU as it left it; whoever can use the FPU without a
\* trap owns it (load_gst, save_gst and the short path of ret_user_vmexit,
\* switch_fpu and the FPU hazard).
ArmStateExact ==
    /\ amode = "guest" => avc = acur /\ aregs = aseen.regs[acur]
    /\ \A e \in AFpuEcs : aseen.fpu[e] = IF aowner = e THEN afp ELSE afmem[e]
    /\ amode \in {"user", "guest"} /\ achaz => aowner = acur

\* While the PPI is active a guest gets no further timer interrupt, so a guest
\* never runs with an active PPI its VMM was not told of, also when the kernel
\* took the interrupt itself; and a VMM that was told finds the PPI active
\* when its guest resumes (handle_ppi, load_tmr, save_tmr and the assertion
\* on cntv_act in handle_irq_user).
TimerNotLost ==
    amode = "guest" => (appi <=> acur \in atold)

\* A guest runs with the offset of the virtual counter that its VMM and the
\* scheduler last set, except when the scheduler added to it while the guest's
\* registers stayed loaded: then the old one is in force until the next
\* load_gst (adjust_offset_ticks, load_gst, load_hst and the short path of
\* ret_user_vmexit).
OffsetExact == amode = "guest" => alag \/ aoff = avoff[acur]

\* What a vCPU sees of its registers, its FPU, its timer and its virtual time is
\* exact, as far as the three say.
VcpuExact == ArmType /\ ArmStateExact /\ TimerNotLost /\ OffsetExact
=============================================================================
