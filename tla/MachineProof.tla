---------------------------- MODULE MachineProof ----------------------------
(***************************************************************************)
(* Proofs about what a CPU carries from one execution context to the next: *)
(* the FPU and the guest's registers on x86 (Machine), the vCPU's          *)
(* registers, FPU and timer on AArch64 (ArmVcpu), for any number of        *)
(* threads and vCPUs; about an interrupt on its way to a driver that waits *)
(* for it (Intr); about the registers that travel in a UTCB when a handler *)
(* is called (Utcb); about starting up, from the boot loader's tags to the *)
(* chunks of the root segment (Launch); about the cache allocation classes *)
(* a CPU runs with (Cos); and about the pages of the buddy allocator, for  *)
(* a pool of any size (Buddy).                                             *)
(***************************************************************************)
EXTENDS Integers, Machine, ArmVcpu, Intr, Utcb, Launch, Cos, Buddy,
        FiniteSetTheorems, NaturalsInduction, WellFoundedInduction, TLAPS

-----------------------------------------------------------------------------
(* x86.  GuestReady and FpuExact look at the EC that runs; the invariant   *)
(* says of every EC where its state is, so that it is right when the EC    *)
(* runs next.                                                              *)

\* A vCPU can run: it exists and its VMM wrote its CR0.
Legal(v) == v \in born /\ "ILLEGAL" \notin ehaz[v]

\* Who runs in which mode, and on what.
Running ==
    /\ mmode = "user" => mcur \in Threads /\ ("FPU" \in chaz <=> fpowner = mcur)
    /\ mmode = "guest" => /\ mcur \in Vcpus /\ Legal(mcur) /\ "TSC" \notin ehaz[mcur]
                          /\ vcur = mcur /\ hw = mcur
    /\ mmode # "guest" => hw = Host
    /\ mmode = "off" => fpowner = NoEc
    /\ vcur # NoEc => vcur \in vact
    /\ ts <=> "FPU" \notin chaz

\* The hazard and the right to use the FPU follow its owner; everybody else's
\* FPU is in memory.
Owner ==
    /\ \A e \in MEcs : "FPU" \in ehaz[e] <=> fpowner = e
    /\ \A v \in Vcpus : fpuon[v] <=> fpowner = v
    /\ \A v \in Vcpus : fpowner = v => Legal(v)
    /\ \A e \in FpuEcs : fseen[e] = IF fpowner = e THEN fregs ELSE fmem[e]

\* What is in the VMCS of each vCPU, and that a guest without the FPU has TS set.
VmcsRight(v) ==
    /\ v \notin born => ehaz[v] = {}
    /\ "TSC" \notin ehaz[v] => vmcs[v].off = offset[v]
    /\ icpt[v].exc => TRUE \in NmIntercept
    /\ v \in born => /\ vmcs[v].msk <=> (~fpuon[v] \/ icpt[v].cr0)
                     /\ vmcs[v].nm <=> (~fpuon[v] \/ icpt[v].exc)
    /\ Legal(v) /\ ~fpuon[v] => vmcs[v].ts /\ shadow[v] = tseen[v]
    /\ Legal(v) /\ fpuon[v] => /\ vmcs[v].ts = tseen[v]
                               /\ icpt[v].cr0 /\ v \notin late => shadow[v] = tseen[v]

VmcsFields == \A v \in Vcpus : VmcsRight(v)

MInv == MachineType /\ Running /\ Owner /\ VmcsFields

-----------------------------------------------------------------------------
(* Switching the FPU, field by field.                                      *)

VmcsRec == [ts : BOOLEAN, msk : BOOLEAN, nm : BOOLEAN, off : Values]

FpuRec == [regs : Values, mem : [MEcs -> Values], haz : [MEcs -> SUBSET {"FPU", "TSC", "ILLEGAL"}],
           on : [Vcpus -> BOOLEAN], sh : [Vcpus -> BOOLEAN], vm : [Vcpus -> VmcsRec],
           vc : Vcpus \cup {NoEc}, va : SUBSET Vcpus]

\* CR0.TS of the guest, wherever it is kept.
TsOf(s, v) == GuestTs(s.on[v], s.sh[v], s.vm[v])

\* The fields vmx_set_gst_cr0, vmx_set_msk_cr0 and vmx_set_bmp_exc write.
LEMMA FieldsWritten ==
    ASSUME NEW f \in VmcsRec, NEW on \in BOOLEAN, NEW t \in BOOLEAN,
           NEW i \in [cr0 : BOOLEAN, exc : BOOLEAN]
    PROVE  /\ CtrlFields(f, on, t, i) \in VmcsRec
           /\ CtrlFields(f, on, t, i).off = f.off
           /\ CtrlFields(f, on, t, i).ts = IF on THEN t ELSE TRUE
           /\ CtrlFields(f, on, t, i).msk <=> (~on \/ i.cr0)
           /\ CtrlFields(f, on, t, i).nm <=> (~on \/ i.exc)
  BY DEF CtrlFields, VmcsRec

\* Cpu_regs::fpu_ctrl changes one vCPU, and only what decides who may use the FPU.
LEMMA CtrlEffect ==
    ASSUME NEW s \in FpuRec, NEW v \in Vcpus, NEW on \in BOOLEAN,
           icpt \in [Vcpus -> [cr0 : BOOLEAN, exc : BOOLEAN]]
    PROVE  /\ FpuCtrl(s, v, on) \in FpuRec
           /\ FpuCtrl(s, v, on).regs = s.regs
           /\ FpuCtrl(s, v, on).mem = s.mem
           /\ FpuCtrl(s, v, on).haz = s.haz
           /\ FpuCtrl(s, v, on).vc = v
           /\ FpuCtrl(s, v, on).va = s.va \cup {v}
           /\ FpuCtrl(s, v, on).on = [s.on EXCEPT ![v] = on]
           /\ FpuCtrl(s, v, on).sh = [s.sh EXCEPT ![v] = TsOf(s, v)]
           /\ FpuCtrl(s, v, on).vm = [s.vm EXCEPT ![v] = CtrlFields(s.vm[v], on, TsOf(s, v), icpt[v])]
<1>1. TsOf(s, v) \in BOOLEAN
  BY DEF TsOf, GuestTs, FpuRec, VmcsRec
<1>2. CtrlFields(s.vm[v], on, TsOf(s, v), icpt[v]) \in VmcsRec
  BY <1>1, FieldsWritten DEF FpuRec
<1> QED
  BY <1>1, <1>2 DEF FpuCtrl, FpuRec, TsOf

\* The state is a record of the kind the functions above work on.
LEMMA NowType == MachineType => FpuNow \in FpuRec
  BY DEF MachineType, FpuNow, FpuRec, VmcsRec

\* Ec::fpu_save of the owner: its contents go to memory, its hazard is cleared, and
\* a vCPU will trap; nothing else changes.
LEMMA FreeEffect ==
    ASSUME MachineType
    PROVE  /\ FpuFree \in FpuRec
           /\ FpuFree.regs = fregs
           /\ \A d \in MEcs : FpuFree.mem[d] = IF d = fpowner THEN fregs ELSE fmem[d]
           /\ \A d \in MEcs : FpuFree.haz[d] = IF d = fpowner THEN ehaz[d] \ {"FPU"} ELSE ehaz[d]
           /\ \A v \in Vcpus : v # fpowner => /\ FpuFree.on[v] = fpuon[v] /\ FpuFree.sh[v] = shadow[v]
                                             /\ FpuFree.vm[v] = vmcs[v]
           /\ \A v \in Vcpus : v = fpowner =>
                  /\ FpuFree.on[v] = FALSE /\ FpuFree.sh[v] = TsOf(FpuNow, v)
                  /\ FpuFree.vm[v] = CtrlFields(vmcs[v], FALSE, TsOf(FpuNow, v), icpt[v])
           /\ (vcur # NoEc => vcur \in vact) => (FpuFree.vc # NoEc => FpuFree.vc \in FpuFree.va)
<1> DEFINE c == IF fpowner \in Vcpus THEN FpuCtrl(FpuNow, fpowner, FALSE) ELSE FpuNow
<1>1. FpuNow \in FpuRec /\ icpt \in [Vcpus -> [cr0 : BOOLEAN, exc : BOOLEAN]]
  BY NowType DEF MachineType
<1>2. CASE fpowner = NoEc
  BY <1>1, <1>2, MachineAssumption DEF FpuFree, FpuNow, MEcs
<1>3. CASE fpowner # NoEc
  <2>1. fpowner \in MEcs /\ fpowner \in FpuEcs
    BY <1>3, MachineAssumption DEF MachineType
  <2>2. /\ c \in FpuRec /\ c.regs = fregs /\ c.mem = fmem /\ c.haz = ehaz
        /\ \A v \in Vcpus : v # fpowner => c.on[v] = fpuon[v] /\ c.sh[v] = shadow[v] /\ c.vm[v] = vmcs[v]
        /\ \A v \in Vcpus : v = fpowner =>
               /\ c.on[v] = FALSE /\ c.sh[v] = TsOf(FpuNow, v)
               /\ c.vm[v] = CtrlFields(vmcs[v], FALSE, TsOf(FpuNow, v), icpt[v])
        /\ (vcur # NoEc => vcur \in vact) => (c.vc # NoEc => c.vc \in c.va)
    <3>1. CASE fpowner \in Vcpus
      <4>1. c = FpuCtrl(FpuNow, fpowner, FALSE)
        BY <3>1
      <4>2. /\ c \in FpuRec /\ c.regs = FpuNow.regs /\ c.mem = FpuNow.mem /\ c.haz = FpuNow.haz
            /\ c.vc = fpowner /\ c.va = FpuNow.va \cup {fpowner}
            /\ c.on = [FpuNow.on EXCEPT ![fpowner] = FALSE]
            /\ c.sh = [FpuNow.sh EXCEPT ![fpowner] = TsOf(FpuNow, fpowner)]
            /\ c.vm = [FpuNow.vm EXCEPT ![fpowner] =
                         CtrlFields(FpuNow.vm[fpowner], FALSE, TsOf(FpuNow, fpowner), icpt[fpowner])]
        BY <1>1, <3>1, <4>1, CtrlEffect, ZenonT(40)
      <4>3. /\ FpuNow.regs = fregs /\ FpuNow.mem = fmem /\ FpuNow.haz = ehaz /\ FpuNow.on = fpuon
            /\ FpuNow.sh = shadow /\ FpuNow.vm = vmcs /\ FpuNow.vc = vcur /\ FpuNow.va = vact
        BY DEF FpuNow
      <4> HIDE DEF c
      <4> QED
        BY <3>1, <4>2, <4>3 DEF MachineType
    <3>2. CASE fpowner \notin Vcpus
      BY <1>1, <3>2 DEF FpuNow
    <3> QED
      BY <3>1, <3>2
  <2>3. FpuFree = [c EXCEPT !.mem[fpowner] = FpuNow.regs, !.haz[fpowner] = @ \ {"FPU"}]
    BY <1>3 DEF FpuFree, FpuSave
  <2>4. FpuNow.regs = fregs
    BY DEF FpuNow
  <2> HIDE DEF c
  <2> QED
    BY <1>1, <2>1, <2>2, <2>3, <2>4 DEF FpuRec
<1> QED
  BY <1>2, <1>3

\* Ec::switch_fpu: the owner is saved and e loaded, and a vCPU keeps the CR0.TS it
\* had through both.
LEMMA SwitchEffect ==
    ASSUME MachineType, NEW e \in FpuEcs, SwitchFpu(e)
    PROVE  /\ fpowner' = e /\ ts' = FALSE
           /\ fregs' \in Values /\ fmem' \in [MEcs -> Values]
           /\ ehaz' \in [MEcs -> SUBSET {"FPU", "TSC", "ILLEGAL"}]
           /\ fpuon' \in [Vcpus -> BOOLEAN] /\ shadow' \in [Vcpus -> BOOLEAN]
           /\ vmcs' \in [Vcpus -> VmcsRec] /\ vcur' \in Vcpus \cup {NoEc} /\ vact' \subseteq Vcpus
           /\ \A d \in MEcs : fmem'[d] = IF d = fpowner THEN fregs ELSE fmem[d]
           /\ fregs' = fmem'[e]
           /\ \A d \in MEcs : ehaz'[d] = IF d = e THEN ehaz[d] \cup {"FPU"}
                                      ELSE IF d = fpowner THEN ehaz[d] \ {"FPU"} ELSE ehaz[d]
           /\ \A v \in Vcpus : v = e => /\ fpuon'[v] = TRUE /\ shadow'[v] = TsOf(FpuNow, v)
                                       /\ vmcs'[v].ts = TsOf(FpuNow, v) /\ vmcs'[v].off = vmcs[v].off
                                       /\ vmcs'[v].msk = icpt[v].cr0
                                       /\ vmcs'[v].nm = icpt[v].exc
           /\ \A v \in Vcpus : v # e /\ v = fpowner =>
                  /\ fpuon'[v] = FALSE /\ shadow'[v] = TsOf(FpuNow, v)
                  /\ vmcs'[v].ts = TRUE /\ vmcs'[v].off = vmcs[v].off /\ vmcs'[v].msk = TRUE /\ vmcs'[v].nm = TRUE
           /\ \A v \in Vcpus : v # e /\ v # fpowner =>
                  fpuon'[v] = fpuon[v] /\ shadow'[v] = shadow[v] /\ vmcs'[v] = vmcs[v]
           /\ (vcur # NoEc => vcur \in vact) => (vcur' # NoEc => vcur' \in vact')
<1> DEFINE f == FpuFree
<1> DEFINE c == IF e \in Vcpus THEN FpuCtrl(f, e, TRUE) ELSE f
<1> DEFINE l == FpuLoad(f, e)
<1>1. e \in MEcs /\ icpt \in [Vcpus -> [cr0 : BOOLEAN, exc : BOOLEAN]]
  BY MachineAssumption DEF MachineType
<1>2. f \in FpuRec
  BY FreeEffect
<1>3. \A v \in Vcpus : TsOf(f, v) = TsOf(FpuNow, v) /\ TsOf(f, v) \in BOOLEAN /\ f.vm[v] \in VmcsRec
                       /\ f.vm[v].off = vmcs[v].off
  <2> SUFFICES ASSUME NEW v \in Vcpus
               PROVE  /\ TsOf(f, v) = TsOf(FpuNow, v) /\ TsOf(f, v) \in BOOLEAN /\ f.vm[v] \in VmcsRec
                      /\ f.vm[v].off = vmcs[v].off
    OBVIOUS
  <2>1. vmcs[v] \in VmcsRec /\ TsOf(FpuNow, v) \in BOOLEAN /\ icpt[v] \in [cr0 : BOOLEAN, exc : BOOLEAN]
    BY DEF MachineType, VmcsRec, TsOf, GuestTs, FpuNow
  <2>2. CASE v = fpowner
    <3>1. f.on[v] = FALSE /\ f.sh[v] = TsOf(FpuNow, v)
          /\ f.vm[v] = CtrlFields(vmcs[v], FALSE, TsOf(FpuNow, v), icpt[v])
      BY <2>2, FreeEffect
    <3> HIDE DEF f
    <3>2. f.vm[v] \in VmcsRec /\ f.vm[v].off = vmcs[v].off
      BY <2>1, <3>1 DEF CtrlFields, VmcsRec
    <3>3. TsOf(f, v) = f.sh[v]
      BY <3>1 DEF TsOf, GuestTs
    <3> QED
      BY <2>1, <3>1, <3>2, <3>3
  <2>3. CASE v # fpowner
    <3>1. f.on[v] = fpuon[v] /\ f.sh[v] = shadow[v] /\ f.vm[v] = vmcs[v]
      BY <2>3, FreeEffect
    <3>2. TsOf(FpuNow, v) = GuestTs(fpuon[v], shadow[v], vmcs[v])
      BY DEF TsOf, FpuNow
    <3> HIDE DEF f
    <3> QED
      BY <2>1, <3>1, <3>2 DEF TsOf
  <2> QED
    BY <2>2, <2>3
<1>4. /\ c \in FpuRec /\ c.mem = f.mem /\ c.haz = f.haz
      /\ \A v \in Vcpus : v # e => c.on[v] = f.on[v] /\ c.sh[v] = f.sh[v] /\ c.vm[v] = f.vm[v]
      /\ \A v \in Vcpus : v = e =>
             c.on[v] = TRUE /\ c.sh[v] = TsOf(f, v) /\ c.vm[v] = CtrlFields(f.vm[v], TRUE, TsOf(f, v), icpt[v])
      /\ (f.vc # NoEc => f.vc \in f.va) => (c.vc # NoEc => c.vc \in c.va)
  <2>1. CASE e \in Vcpus
    <3>1. c = FpuCtrl(f, e, TRUE)
      BY <2>1
    <3>2. /\ c \in FpuRec /\ c.regs = f.regs /\ c.mem = f.mem /\ c.haz = f.haz
          /\ c.vc = e /\ c.va = f.va \cup {e} /\ c.on = [f.on EXCEPT ![e] = TRUE]
          /\ c.sh = [f.sh EXCEPT ![e] = TsOf(f, e)]
          /\ c.vm = [f.vm EXCEPT ![e] = CtrlFields(f.vm[e], TRUE, TsOf(f, e), icpt[e])]
      BY <1>1, <1>2, <2>1, <3>1, CtrlEffect, ZenonT(40)
    <3> HIDE DEF c, f
    <3> QED
      BY <1>2, <2>1, <3>2, ZenonT(40) DEF FpuRec
  <2>2. CASE e \notin Vcpus
    BY <1>2, <2>2
  <2> QED
    BY <2>1, <2>2
<1>5. l = [c EXCEPT !.regs = f.mem[e], !.haz[e] = @ \cup {"FPU"}]
  BY DEF FpuLoad
<1>6. /\ fpowner' = e /\ fregs' = l.regs /\ fmem' = l.mem /\ ehaz' = l.haz /\ ts' = FALSE
      /\ fpuon' = l.on /\ shadow' = l.sh /\ vmcs' = l.vm /\ vcur' = l.vc /\ vact' = l.va
  BY DEF SwitchFpu, SetFpu
<1>7. /\ \A d \in MEcs : f.mem[d] = IF d = fpowner THEN fregs ELSE fmem[d]
      /\ \A d \in MEcs : f.haz[d] = IF d = fpowner THEN ehaz[d] \ {"FPU"} ELSE ehaz[d]
      /\ \A v \in Vcpus : v # fpowner => f.on[v] = fpuon[v] /\ f.sh[v] = shadow[v] /\ f.vm[v] = vmcs[v]
      /\ \A v \in Vcpus : v = fpowner =>
             /\ f.on[v] = FALSE /\ f.sh[v] = TsOf(FpuNow, v)
             /\ f.vm[v] = CtrlFields(vmcs[v], FALSE, TsOf(FpuNow, v), icpt[v])
      /\ (vcur # NoEc => vcur \in vact) => (f.vc # NoEc => f.vc \in f.va)
  BY FreeEffect
<1> HIDE DEF f, c, l
<1>8. /\ l \in FpuRec /\ l.mem = f.mem /\ l.regs = f.mem[e] /\ l.on = c.on /\ l.sh = c.sh /\ l.vm = c.vm
      /\ l.vc = c.vc /\ l.va = c.va /\ l.haz = [f.haz EXCEPT ![e] = @ \cup {"FPU"}]
  BY <1>1, <1>2, <1>4, <1>5 DEF FpuRec
<1>9. /\ fregs' \in Values /\ fmem' \in [MEcs -> Values]
      /\ ehaz' \in [MEcs -> SUBSET {"FPU", "TSC", "ILLEGAL"}]
      /\ fpuon' \in [Vcpus -> BOOLEAN] /\ shadow' \in [Vcpus -> BOOLEAN]
      /\ vmcs' \in [Vcpus -> VmcsRec] /\ vcur' \in Vcpus \cup {NoEc} /\ vact' \subseteq Vcpus
  BY <1>6, <1>8 DEF FpuRec
<1>10. /\ \A d \in MEcs : fmem'[d] = IF d = fpowner THEN fregs ELSE fmem[d]
       /\ fregs' = fmem'[e]
  BY <1>6, <1>7, <1>8
<1>11. \A d \in MEcs : ehaz'[d] = IF d = e THEN ehaz[d] \cup {"FPU"}
                                ELSE IF d = fpowner THEN ehaz[d] \ {"FPU"} ELSE ehaz[d]
  <2> SUFFICES ASSUME NEW d \in MEcs
               PROVE  ehaz'[d] = IF d = e THEN ehaz[d] \cup {"FPU"}
                                 ELSE IF d = fpowner THEN ehaz[d] \ {"FPU"} ELSE ehaz[d]
    OBVIOUS
  <2>1. f.haz \in [MEcs -> SUBSET {"FPU", "TSC", "ILLEGAL"}]
    BY <1>2 DEF FpuRec
  <2>2. ehaz'[d] = IF d = e THEN f.haz[d] \cup {"FPU"} ELSE f.haz[d]
    BY <1>6, <1>8, <2>1
  <2> QED
    BY <1>7, <2>2
<1>12. \A v \in Vcpus : v = e => /\ fpuon'[v] = TRUE /\ shadow'[v] = TsOf(FpuNow, v)
                               /\ vmcs'[v].ts = TsOf(FpuNow, v) /\ vmcs'[v].off = vmcs[v].off
                               /\ vmcs'[v].msk = icpt[v].cr0
                               /\ vmcs'[v].nm = icpt[v].exc
  <2> SUFFICES ASSUME NEW v \in Vcpus, v = e
               PROVE  /\ fpuon'[v] = TRUE /\ shadow'[v] = TsOf(FpuNow, v)
                      /\ vmcs'[v].ts = TsOf(FpuNow, v) /\ vmcs'[v].off = vmcs[v].off
                      /\ vmcs'[v].msk = icpt[v].cr0
                      /\ vmcs'[v].nm = icpt[v].exc
    OBVIOUS
  <2>1. icpt[v] \in [cr0 : BOOLEAN, exc : BOOLEAN] /\ TsOf(FpuNow, v) \in BOOLEAN /\ f.vm[v] \in VmcsRec
        /\ f.vm[v].off = vmcs[v].off
    BY <1>1, <1>3
  <2>2. vmcs'[v] = CtrlFields(f.vm[v], TRUE, TsOf(FpuNow, v), icpt[v])
    BY <1>3, <1>4, <1>6, <1>8
  <2>3. /\ vmcs'[v].ts = TsOf(FpuNow, v) /\ vmcs'[v].off = vmcs[v].off
        /\ vmcs'[v].msk = icpt[v].cr0
        /\ vmcs'[v].nm = icpt[v].exc
    BY <2>1, <2>2 DEF CtrlFields, VmcsRec
  <2> QED
    BY <1>3, <1>4, <1>6, <1>8, <2>3, ZenonT(40)
<1>13. \A v \in Vcpus : v # e /\ v = fpowner =>
          /\ fpuon'[v] = FALSE /\ shadow'[v] = TsOf(FpuNow, v)
          /\ vmcs'[v].ts = TRUE /\ vmcs'[v].off = vmcs[v].off /\ vmcs'[v].msk = TRUE /\ vmcs'[v].nm = TRUE
  <2> SUFFICES ASSUME NEW v \in Vcpus, v # e, v = fpowner
               PROVE  /\ fpuon'[v] = FALSE /\ shadow'[v] = TsOf(FpuNow, v)
                      /\ vmcs'[v].ts = TRUE /\ vmcs'[v].off = vmcs[v].off /\ vmcs'[v].msk = TRUE /\ vmcs'[v].nm = TRUE
    OBVIOUS
  <2>1. vmcs[v] \in VmcsRec /\ icpt[v] \in [cr0 : BOOLEAN, exc : BOOLEAN] /\ TsOf(FpuNow, v) \in BOOLEAN
    BY <1>1, <1>3 DEF MachineType, VmcsRec
  <2>2. vmcs'[v] = CtrlFields(vmcs[v], FALSE, TsOf(FpuNow, v), icpt[v])
    BY <1>4, <1>6, <1>7, <1>8, ZenonT(40)
  <2>3. vmcs'[v].ts = TRUE /\ vmcs'[v].off = vmcs[v].off /\ vmcs'[v].msk = TRUE /\ vmcs'[v].nm = TRUE
    BY <2>1, <2>2 DEF CtrlFields, VmcsRec
  <2>4. fpuon'[v] = FALSE /\ shadow'[v] = TsOf(FpuNow, v)
    <3>1. f.on[v] = FALSE /\ f.sh[v] = TsOf(FpuNow, v)
      BY <1>7
    <3>2. c.on[v] = f.on[v] /\ c.sh[v] = f.sh[v]
      BY <1>4
    <3> QED
      BY <1>6, <1>8, <3>1, <3>2
  <2> QED
    BY <2>3, <2>4
<1>14. \A v \in Vcpus : v # e /\ v # fpowner =>
          fpuon'[v] = fpuon[v] /\ shadow'[v] = shadow[v] /\ vmcs'[v] = vmcs[v]
  BY <1>4, <1>6, <1>7, <1>8
<1>15. (vcur # NoEc => vcur \in vact) => (vcur' # NoEc => vcur' \in vact')
  BY <1>4, <1>6, <1>7, <1>8
<1> QED
  BY <1>6, <1>9, <1>10, <1>11, <1>12, <1>13, <1>14, <1>15

-----------------------------------------------------------------------------
(* The actions.                                                            *)

\* A vCPU none of whose fields changes stays right.
LEMMA VmcsFrame ==
    ASSUME NEW w \in Vcpus, VmcsRight(w), w \in born' <=> w \in born, ehaz'[w] = ehaz[w],
           vmcs'[w] = vmcs[w], offset'[w] = offset[w], icpt'[w] = icpt[w], fpuon'[w] = fpuon[w],
           shadow'[w] = shadow[w], tseen'[w] = tseen[w], w \in late' <=> w \in late
    PROVE  VmcsRight(w)'
  BY DEF VmcsRight, Legal

\* A thread runs: its hazard decides whether the FPU traps.
LEMMA RunThreadInv == ASSUME MInv, NEW e \in Threads, RunThread(e) PROVE MInv'
<1> USE MachineAssumption
<1>1. MachineType'
  <2>1. ts' \in BOOLEAN /\ chaz' \subseteq {"FPU", "TR"}
    <3>1. CASE ("FPU" \in chaz) # ("FPU" \in ehaz[e])
      <4>1. ts' = ("FPU" \in chaz)
        BY <3>1 DEF RunThread, FpuHazard
      <4>2. chaz' = IF "FPU" \in chaz THEN chaz \ {"FPU"} ELSE chaz \cup {"FPU"}
        BY <3>1 DEF RunThread, FpuHazard
      <4>3. chaz \subseteq {"FPU", "TR"}
        BY DEF MInv, MachineType
      <4> QED
        BY <4>1, <4>2, <4>3
    <3>2. CASE ~(("FPU" \in chaz) # ("FPU" \in ehaz[e]))
      BY <3>2 DEF MInv, MachineType, RunThread, FpuHazard
    <3> QED
      BY <3>1, <3>2
  <2> QED
    BY <2>1 DEF MInv, MachineType, MEcs, fpuvars, RunThread
<1>2. Running'
  <2>1. /\ ts' \in BOOLEAN /\ (ts' <=> "FPU" \notin chaz')
        /\ "FPU" \in chaz' <=> "FPU" \in ehaz[e]
    <3>1. CASE ("FPU" \in chaz) # ("FPU" \in ehaz[e])
      <4>1. ts' = ("FPU" \in chaz)
        BY <3>1 DEF RunThread, FpuHazard
      <4>2. chaz' = IF "FPU" \in chaz THEN chaz \ {"FPU"} ELSE chaz \cup {"FPU"}
        BY <3>1 DEF RunThread, FpuHazard
      <4>0. "FPU" \in ehaz[e] <=> "FPU" \notin chaz
        BY <3>1
      <4>3. CASE "FPU" \in chaz
        BY <4>0, <4>1, <4>2, <4>3
      <4>4. CASE "FPU" \notin chaz
        <5>1. ("FPU" \in chaz) = FALSE
          BY <4>4
        <5>2. ts' = FALSE
          BY <4>1, <5>1, Zenon
        <5>3. chaz' = chaz \cup {"FPU"}
          BY <4>2, <4>4
        <5> QED
          BY <4>0, <4>4, <5>2, <5>3
      <4> QED
        BY <4>3, <4>4
    <3>2. CASE ~(("FPU" \in chaz) # ("FPU" \in ehaz[e]))
      BY <3>2 DEF MInv, MachineType, Running, RunThread, FpuHazard
    <3> QED
      BY <3>1, <3>2
  <2>2. "FPU" \in ehaz[e] <=> fpowner = e
    BY DEF MInv, Owner, MEcs
  <2> QED
    BY <2>1, <2>2 DEF MInv, Running, fpuvars, RunThread
<1>3. Owner'
  BY DEF MInv, MachineType, MEcs, fpuvars, Running, Owner, VmcsFields, VmcsRight, Legal, RunThread, FpuHazard
<1>4. VmcsFields'
  BY DEF MInv, MachineType, MEcs, fpuvars, Running, Owner, VmcsFields, VmcsRight, Legal, RunThread, FpuHazard
<1> QED
  BY <1>1, <1>2, <1>3, <1>4 DEF MInv

\* A thread enters the kernel.
LEMMA LeaveThreadInv == ASSUME MInv, LeaveThread PROVE MInv'
<1> USE MachineAssumption
<1>1. MachineType'
  BY DEF MInv, MachineType, MEcs, fpuvars, Running, LeaveThread
<1>2. Running'
  BY DEF MInv, MachineType, MEcs, fpuvars, Running, Owner, VmcsFields, VmcsRight, Legal, LeaveThread
<1>3. Owner'
  BY DEF MInv, MachineType, MEcs, fpuvars, Running, Owner, VmcsFields, VmcsRight, Legal, LeaveThread
<1>4. VmcsFields'
  BY DEF MInv, MachineType, MEcs, fpuvars, Running, Owner, VmcsFields, VmcsRight, Legal, LeaveThread
<1> QED
  BY <1>1, <1>2, <1>3, <1>4 DEF MInv

\* The TSS is loaded again.
LEMMA ThreadGpInv == ASSUME MInv, ThreadGp PROVE MInv'
<1> USE MachineAssumption
<1>1. MachineType'
  BY DEF MInv, MachineType, MEcs, fpuvars, Running, ThreadGp
<1>2. Running'
  BY DEF MInv, MachineType, MEcs, fpuvars, Running, Owner, VmcsFields, VmcsRight, Legal, ThreadGp
<1>3. Owner'
  BY DEF MInv, MachineType, MEcs, fpuvars, Running, Owner, VmcsFields, VmcsRight, Legal, ThreadGp
<1>4. VmcsFields'
  BY DEF MInv, MachineType, MEcs, fpuvars, Running, Owner, VmcsFields, VmcsRight, Legal, ThreadGp
<1> QED
  BY <1>1, <1>2, <1>3, <1>4 DEF MInv

\* A thread that does not trap owns the FPU.
LEMMA ThreadFpuInv == ASSUME MInv, NEW x \in Values, ThreadFpu(x) PROVE MInv'
<1> USE MachineAssumption
<1>1. MachineType'
  BY DEF MInv, MachineType, MEcs, fpuvars, Running, ThreadFpu
<1>2. Running'
  BY DEF MInv, MachineType, MEcs, fpuvars, Running, Owner, VmcsFields, VmcsRight, Legal, ThreadFpu
<1>3. Owner'
  BY DEF MInv, MachineType, MEcs, fpuvars, Running, Owner, VmcsFields, VmcsRight, Legal, ThreadFpu
<1>4. VmcsFields'
  BY DEF MInv, MachineType, MEcs, fpuvars, Running, Owner, VmcsFields, VmcsRight, Legal, ThreadFpu
<1> QED
  BY <1>1, <1>2, <1>3, <1>4 DEF MInv

\* A guest that does not trap owns the FPU.
LEMMA GuestFpuInv == ASSUME MInv, NEW x \in Values, GuestFpu(x) PROVE MInv'
<1> USE MachineAssumption
<1>1. MachineType'
  BY DEF MInv, MachineType, MEcs, fpuvars, Running, GuestFpu
<1>2. Running'
  BY DEF MInv, MachineType, MEcs, fpuvars, Running, Owner, VmcsFields, VmcsRight, Legal, GuestFpu
<1>3. Owner'
  <2>1. fpowner = mcur /\ mcur \in MEcs
    BY DEF MInv, MachineType, MEcs, Running, Owner, VmcsFields, VmcsRight, Legal, GuestFpu
  <2>2. \A d \in FpuEcs : d \in MEcs
    BY DEF MEcs
  <2> QED
    BY <2>1, <2>2 DEF MInv, MachineType, Owner, Legal, GuestFpu
<1>4. VmcsFields'
  BY DEF MInv, MachineType, MEcs, fpuvars, Running, Owner, VmcsFields, VmcsRight, Legal, GuestFpu
<1> QED
  BY <1>1, <1>2, <1>3, <1>4 DEF MInv

\* After a sleep nobody owns the FPU, so that nothing was in it.
LEMMA ResumeInv == ASSUME MInv, NEW x \in Values, Resume(x) PROVE MInv'
<1> USE MachineAssumption
<1>1. MachineType'
  BY DEF MInv, MachineType, MEcs, fpuvars, Running, Resume
<1>2. Running'
  BY DEF MInv, MachineType, MEcs, fpuvars, Running, Owner, VmcsFields, VmcsRight, Legal, Resume
<1>3. Owner'
  BY DEF MInv, MachineType, MEcs, fpuvars, Running, Owner, VmcsFields, VmcsRight, Legal, Resume
<1>4. VmcsFields'
  BY DEF MInv, MachineType, MEcs, fpuvars, Running, Owner, VmcsFields, VmcsRight, Legal, Resume
<1> QED
  BY <1>1, <1>2, <1>3, <1>4 DEF MInv

\* A vCPU is created: it cannot own the FPU yet.
LEMMA CreateVcpuInv == ASSUME MInv, NEW v \in Vcpus, NEW here \in BOOLEAN, CreateVcpu(v, here) PROVE MInv'
<1> USE MachineAssumption
<1>1. MachineType'
  <2>1. vmcs' \in [Vcpus -> VmcsRec]
    <3>1. vmcs \in [Vcpus -> VmcsRec]
      BY DEF MInv, MachineType, VmcsRec
    <3>2. [vmcs[v] EXCEPT !.msk = TRUE, !.nm = TRUE] \in VmcsRec
      BY <3>1, ZenonT(40) DEF MInv, MachineType, VmcsRec
    <3> QED
      BY <3>1, <3>2 DEF CreateVcpu
  <2>2. ehaz' \in [MEcs -> SUBSET {"FPU", "TSC", "ILLEGAL"}]
    BY DEF MInv, MachineType, MEcs, CreateVcpu
  <2> QED
    BY <2>1, <2>2 DEF MInv, MachineType, MEcs, VmcsRec, CreateVcpu
<1>2. Running'
  BY DEF MInv, MachineType, MEcs, fpuvars, Running, Owner, VmcsFields, VmcsRight, Legal, CreateVcpu
<1>3. Owner'
  BY DEF MInv, MachineType, MEcs, fpuvars, Running, Owner, VmcsFields, VmcsRight, Legal, CreateVcpu
<1>4. VmcsFields'
  <2>f. ASSUME NEW w \in Vcpus, w # v PROVE VmcsRight(w)'
    <3>1. /\ w \in born' <=> w \in born
          /\ ehaz'[w] = ehaz[w] /\ vmcs'[w] = vmcs[w] /\ offset'[w] = offset[w] /\ icpt'[w] = icpt[w]
          /\ fpuon'[w] = fpuon[w] /\ shadow'[w] = shadow[w] /\ tseen'[w] = tseen[w]
          /\ w \in late' <=> w \in late
      BY <2>f DEF MInv, MachineType, MEcs, CreateVcpu
    <3> QED
      BY <3>1, VmcsFrame DEF MInv, VmcsFields
  <2>v. VmcsRight(v)'
    <3>1. ehaz[v] = {} /\ ehaz'[v] = {"ILLEGAL"} /\ v \in born' /\ vmcs[v] \in VmcsRec
      BY DEF MInv, MachineType, MEcs, VmcsRec, VmcsFields, VmcsRight, CreateVcpu
    <3>2. vmcs'[v].msk /\ vmcs'[v].nm /\ vmcs'[v].off = vmcs[v].off
      BY <3>1 DEF MInv, MachineType, VmcsRec, CreateVcpu
    <3>3. fpuon'[v] = FALSE
      BY <3>1 DEF MInv, MachineType, Owner, Legal, CreateVcpu
    <3> QED
      BY <3>1, <3>2, <3>3 DEF MInv, VmcsFields, VmcsRight, Legal, CreateVcpu
  <2> QED
    BY <2>f, <2>v DEF VmcsFields
<1> QED
  BY <1>1, <1>2, <1>3, <1>4 DEF MInv

\* A TSC offset changes, with the hazard that carries it to the VMCS.
LEMMA AdjustOffsetInv == ASSUME MInv, NEW v \in Vcpus, NEW x \in Values, AdjustOffset(v, x) PROVE MInv'
<1> USE MachineAssumption
<1>1. MachineType'
  BY DEF MInv, MachineType, MEcs, fpuvars, Running, AdjustOffset
<1>2. Running'
  BY DEF MInv, MachineType, MEcs, fpuvars, Running, Owner, VmcsFields, VmcsRight, Legal, AdjustOffset
<1>3. Owner'
  BY DEF MInv, MachineType, MEcs, fpuvars, Running, Owner, VmcsFields, VmcsRight, Legal, AdjustOffset
<1>4. VmcsFields'
  <2>f. ASSUME NEW w \in Vcpus, w # v PROVE VmcsRight(w)'
    <3>1. /\ w \in born' <=> w \in born
          /\ ehaz'[w] = ehaz[w] /\ vmcs'[w] = vmcs[w] /\ offset'[w] = offset[w] /\ icpt'[w] = icpt[w]
          /\ fpuon'[w] = fpuon[w] /\ shadow'[w] = shadow[w] /\ tseen'[w] = tseen[w]
          /\ w \in late' <=> w \in late
      BY <2>f DEF MInv, MachineType, MEcs, AdjustOffset
    <3> QED
      BY <3>1, VmcsFrame DEF MInv, VmcsFields
  <2>v. VmcsRight(v)'
    <3>1. ehaz'[v] = ehaz[v] \cup {"TSC"} /\ v \in born
      BY DEF MInv, MachineType, MEcs, AdjustOffset
    <3>2. Legal(v)' <=> Legal(v)
      BY <3>1 DEF Legal, AdjustOffset
    <3> QED
      BY <3>1, <3>2 DEF MInv, VmcsFields, VmcsRight, AdjustOffset
  <2> QED
    BY <2>f, <2>v DEF VmcsFields
<1> QED
  BY <1>1, <1>2, <1>3, <1>4 DEF MInv

\* A guest runs.
LEMMA RunVcpuInv == ASSUME MInv, NEW v \in Vcpus, RunVcpu(v) PROVE MInv'
<1> USE MachineAssumption
<1>1. MachineType'
  <2>1. vmcs' \in [Vcpus -> VmcsRec]
    <3>1. vmcs \in [Vcpus -> VmcsRec]
      BY DEF MInv, MachineType, VmcsRec
    <3>2. [vmcs[v] EXCEPT !.off = offset[v]] \in VmcsRec
      BY <3>1 DEF MInv, MachineType, VmcsRec
    <3> QED
      BY <3>1, <3>2 DEF RunVcpu
  <2>2. ehaz' \in [MEcs -> SUBSET {"FPU", "TSC", "ILLEGAL"}]
    BY DEF MInv, MachineType, MEcs, RunVcpu
  <2> QED
    BY <2>1, <2>2 DEF MInv, MachineType, MEcs, VmcsRec, RunVcpu
<1>2. Running'
  BY DEF MInv, MachineType, MEcs, fpuvars, Running, Owner, VmcsFields, VmcsRight, Legal, RunVcpu
<1>3. Owner'
  BY DEF MInv, MachineType, MEcs, fpuvars, Running, Owner, VmcsFields, VmcsRight, Legal, RunVcpu
<1>4. VmcsFields'
  <2>f. ASSUME NEW w \in Vcpus, w # v PROVE VmcsRight(w)'
    <3>1. /\ w \in born' <=> w \in born
          /\ ehaz'[w] = ehaz[w] /\ vmcs'[w] = vmcs[w] /\ offset'[w] = offset[w] /\ icpt'[w] = icpt[w]
          /\ fpuon'[w] = fpuon[w] /\ shadow'[w] = shadow[w] /\ tseen'[w] = tseen[w]
          /\ w \in late' <=> w \in late
      BY <2>f DEF MInv, MachineType, MEcs, RunVcpu
    <3> QED
      BY <3>1, VmcsFrame DEF MInv, VmcsFields
  <2>v. VmcsRight(v)'
    <3>1. ehaz'[v] = ehaz[v] \ {"TSC"} /\ v \in born /\ vmcs[v] \in VmcsRec
      BY DEF MInv, MachineType, MEcs, VmcsRec, RunVcpu
    <3>2. Legal(v)' <=> Legal(v)
      BY <3>1 DEF Legal, RunVcpu
    <3>3. /\ vmcs'[v].off = offset[v] /\ vmcs'[v].ts = vmcs[v].ts /\ vmcs'[v].msk = vmcs[v].msk
          /\ vmcs'[v].nm = vmcs[v].nm
      BY <3>1 DEF MInv, MachineType, VmcsRec, VmcsFields, VmcsRight, RunVcpu
    <3> QED
      BY <3>1, <3>2, <3>3 DEF MInv, VmcsFields, VmcsRight, RunVcpu
  <2> QED
    BY <2>f, <2>v DEF VmcsFields
<1> QED
  BY <1>1, <1>2, <1>3, <1>4 DEF MInv

\* A guest leaves; the host traps, whoever owns the FPU.
LEMMA LeaveGuestInv == ASSUME MInv, LeaveGuest PROVE MInv'
<1> USE MachineAssumption
<1>1. MachineType'
  BY DEF MInv, MachineType, MEcs, fpuvars, Running, LeaveGuest, VmExit
<1>2. Running'
  BY DEF MInv, MachineType, MEcs, fpuvars, Running, Owner, VmcsFields, VmcsRight, Legal, LeaveGuest, VmExit
<1>3. Owner'
  BY DEF MInv, MachineType, MEcs, fpuvars, Running, Owner, VmcsFields, VmcsRight, Legal, LeaveGuest, VmExit
<1>4. VmcsFields'
  BY DEF MInv, MachineType, MEcs, fpuvars, Running, Owner, VmcsFields, VmcsRight, Legal, LeaveGuest, VmExit
<1> QED
  BY <1>1, <1>2, <1>3, <1>4 DEF MInv

\* A guest that writes CR0.TS without an exit owns the FPU.
LEMMA GuestSetTsInv == ASSUME MInv, NEW t \in BOOLEAN, GuestSetTs(t) PROVE MInv'
<1> USE MachineAssumption
<1>1. MachineType'
  BY SMTT(30) DEF MInv, MachineType, MEcs, fpuvars, Running, GuestSetTs
<1>2. Running'
  BY DEF MInv, MachineType, MEcs, fpuvars, Running, Owner, VmcsFields, VmcsRight, Legal, GuestSetTs
<1>3. Owner'
  BY DEF MInv, MachineType, MEcs, fpuvars, Running, Owner, VmcsFields, VmcsRight, Legal, GuestSetTs
<1>4. VmcsFields'
  <2>1. mcur \in Vcpus /\ vcur = mcur /\ Legal(mcur) /\ vmcs[mcur] \in VmcsRec
    BY DEF MInv, MachineType, VmcsRec, Running, GuestSetTs
  <2>f. ASSUME NEW w \in Vcpus, w # mcur PROVE VmcsRight(w)'
    <3>1. vmcs'[w] = vmcs[w] /\ tseen'[w] = tseen[w] /\ UNCHANGED <<born, ehaz, offset, icpt, fpuon, shadow, late>>
      BY <2>1, <2>f DEF MInv, MachineType, GuestSetTs
    <3> QED
      BY <3>1, VmcsFrame DEF MInv, VmcsFields
  <2>v. VmcsRight(mcur)'
    <3>1. /\ vmcs'[mcur].off = vmcs[mcur].off /\ vmcs'[mcur].ts = t /\ vmcs'[mcur].msk = vmcs[mcur].msk
          /\ vmcs'[mcur].nm = vmcs[mcur].nm /\ tseen'[mcur] = t
      BY <2>1 DEF MInv, MachineType, VmcsRec, GuestSetTs
    <3>2. ~vmcs[mcur].msk
      BY <2>1 DEF GuestSetTs
    <3>3. Legal(mcur)'
      BY <2>1 DEF Legal, GuestSetTs
    <3>4. fpuon[mcur] /\ ~icpt[mcur].cr0
      BY <2>1, <3>2 DEF MInv, MachineType, VmcsFields, VmcsRight, Legal
    <3> QED
      BY <2>1, <3>1, <3>3, <3>4 DEF MInv, VmcsFields, VmcsRight, GuestSetTs
  <2> QED
    BY <2>f, <2>v DEF VmcsFields, GuestSetTs
<1> QED
  BY <1>1, <1>2, <1>3, <1>4 DEF MInv

\* The VMM writes CR0.
LEMMA ReplyCrInv == ASSUME MInv, NEW v \in Vcpus, NEW t \in BOOLEAN, ReplyCr(v, t) PROVE MInv'
<1> USE MachineAssumption
<1>1. MachineType'
  <2>1. vmcs' \in [Vcpus -> VmcsRec]
    <3>1. vmcs \in [Vcpus -> VmcsRec]
      BY DEF MInv, MachineType, VmcsRec
    <3>2. [vmcs[v] EXCEPT !.ts = IF fpuon[v] THEN t ELSE TRUE] \in VmcsRec
      BY <3>1, ZenonT(40) DEF MInv, MachineType, VmcsRec
    <3> QED
      BY <3>1, <3>2 DEF ReplyCr
  <2>2. ehaz' \in [MEcs -> SUBSET {"FPU", "TSC", "ILLEGAL"}]
    BY DEF MInv, MachineType, MEcs, ReplyCr
  <2> QED
    BY <2>1, <2>2 DEF MInv, MachineType, MEcs, VmcsRec, ReplyCr
<1>2. Running'
  BY DEF MInv, MachineType, MEcs, fpuvars, Running, Owner, VmcsFields, VmcsRight, Legal, ReplyCr
<1>3. Owner'
  BY DEF MInv, MachineType, MEcs, fpuvars, Running, Owner, VmcsFields, VmcsRight, Legal, ReplyCr
<1>4. VmcsFields'
  <2>f. ASSUME NEW w \in Vcpus, w # v PROVE VmcsRight(w)'
    <3>1. /\ w \in born' <=> w \in born
          /\ ehaz'[w] = ehaz[w] /\ vmcs'[w] = vmcs[w] /\ offset'[w] = offset[w] /\ icpt'[w] = icpt[w]
          /\ fpuon'[w] = fpuon[w] /\ shadow'[w] = shadow[w] /\ tseen'[w] = tseen[w]
          /\ w \in late' <=> w \in late
      BY <2>f DEF MInv, MachineType, MEcs, ReplyCr
    <3> QED
      BY <3>1, VmcsFrame DEF MInv, VmcsFields
  <2>v. VmcsRight(v)'
    <3>1. ehaz'[v] = ehaz[v] \ {"ILLEGAL"} /\ v \in born /\ vmcs[v] \in VmcsRec /\ fpuon[v] \in BOOLEAN
      BY DEF MInv, MachineType, MEcs, VmcsRec, ReplyCr
    <3>2. /\ vmcs'[v].off = vmcs[v].off /\ vmcs'[v].ts = IF fpuon[v] THEN t ELSE TRUE
          /\ vmcs'[v].msk = vmcs[v].msk /\ vmcs'[v].nm = vmcs[v].nm
          /\ shadow'[v] = t /\ tseen'[v] = t
      BY <3>1 DEF MInv, MachineType, VmcsRec, ReplyCr
    <3> QED
      BY <3>1, <3>2 DEF MInv, VmcsFields, VmcsRight, Legal, ReplyCr
  <2> QED
    BY <2>f, <2>v DEF VmcsFields
<1> QED
  BY <1>1, <1>2, <1>3, <1>4 DEF MInv

\* The VMM changes the intercepts.
LEMMA ReplyCtrlInv == ASSUME MInv, NEW v \in Vcpus, NEW c \in BOOLEAN, NEW x \in NmIntercept, ReplyCtrl(v, [cr0 |-> c, exc |-> x]) PROVE MInv'
<1> USE MachineAssumption
<1> DEFINE i == [cr0 |-> c, exc |-> x]
           f == [vmcs[v] EXCEPT !.msk = ~fpuon[v] \/ i.cr0, !.nm = ~fpuon[v] \/ i.exc]
<1>0. /\ i \in [cr0 : BOOLEAN, exc : BOOLEAN] /\ i.cr0 = c /\ i.exc = x
      /\ vmcs \in [Vcpus -> VmcsRec] /\ vmcs[v] \in VmcsRec /\ vmcs[v].ts \in BOOLEAN /\ fpuon[v] \in BOOLEAN
  BY DEF MInv, MachineType, VmcsRec
<1>a. /\ icpt' = [icpt EXCEPT ![v] = i] /\ vmcs' = [vmcs EXCEPT ![v] = f]
      /\ v \in born /\ vcur' = v /\ vact' = vact \cup {v} /\ mmode = "kernel"
      /\ UNCHANGED <<mmode, mcur, chaz, ts, born, hw, offset, fseen, tseen, fpowner, fregs, fmem, ehaz, fpuon, shadow>>
  BY <1>0 DEF ReplyCtrl
<1>b. late' = IF ~i.cr0 THEN late \ {v} ELSE IF fpuon[v] /\ ~icpt[v].cr0 THEN late \cup {v} ELSE late
  BY DEF ReplyCtrl
<1> HIDE DEF i
<1>c. /\ f \in VmcsRec /\ f.off = vmcs[v].off /\ f.ts = vmcs[v].ts
      /\ f.msk <=> (~fpuon[v] \/ i.cr0)
      /\ f.nm <=> (~fpuon[v] \/ i.exc)
  <2>1. PICK m \in BOOLEAN : m = (~fpuon[v] \/ i.cr0)
    BY <1>0
  <2>2. PICK n \in BOOLEAN : n = (~fpuon[v] \/ i.exc)
    BY <1>0
  <2>3. f = [vmcs[v] EXCEPT !.msk = m, !.nm = n]
    BY <2>1, <2>2, Zenon
  <2>4. f \in VmcsRec /\ f.off = vmcs[v].off /\ f.ts = vmcs[v].ts /\ f.msk = m /\ f.nm = n
    BY <1>0, <2>3 DEF VmcsRec
  <2> HIDE DEF f
  <2> QED
    BY <2>1, <2>2, <2>4, Zenon
<1> HIDE DEF f
<1>1. MachineType'
  <2>1. vmcs' \in [Vcpus -> VmcsRec] /\ late' \subseteq Vcpus
    BY <1>0, <1>a, <1>b, <1>c DEF MInv, MachineType
  <2> QED
    BY <1>0, <1>a, <2>1 DEF MInv, MachineType, VmcsRec
<1>2. Running'
  BY <1>a DEF MInv, MachineType, Running, Legal
<1>3. Owner'
  BY <1>a DEF MInv, Owner, Legal
<1>4. VmcsFields'
  <2>f. ASSUME NEW w \in Vcpus, w # v PROVE VmcsRight(w)'
    <3>1. /\ w \in born' <=> w \in born
          /\ ehaz'[w] = ehaz[w] /\ vmcs'[w] = vmcs[w] /\ offset'[w] = offset[w] /\ icpt'[w] = icpt[w]
          /\ fpuon'[w] = fpuon[w] /\ shadow'[w] = shadow[w] /\ tseen'[w] = tseen[w]
      BY <1>a, <2>f DEF MInv, MachineType
    <3>2. w \in late' <=> w \in late
      BY <1>b, <2>f
    <3> QED
      BY <3>1, <3>2, VmcsFrame DEF MInv, VmcsFields
  <2>v. VmcsRight(v)'
    <3>1. vmcs'[v] = f /\ icpt'[v] = i
      BY <1>a DEF MInv, MachineType
    <3>2. /\ vmcs'[v].off = vmcs[v].off /\ vmcs'[v].ts = vmcs[v].ts
          /\ vmcs'[v].msk <=> (~fpuon[v] \/ i.cr0)
          /\ vmcs'[v].nm <=> (~fpuon[v] \/ i.exc)
      BY <1>c, <3>1
    <3>3. i.exc => TRUE \in NmIntercept
      BY <1>0
    <3>4. VmcsRight(v)
      BY DEF MInv, VmcsFields
    <3>5. i.cr0 /\ fpuon[v] /\ v \notin late' => icpt[v].cr0 /\ v \notin late
      BY <1>b
    <3>6. Legal(v)' <=> Legal(v)
      BY <1>a DEF Legal
    <3> QED
      BY <1>a, <3>1, <3>2, <3>3, <3>4, <3>5, <3>6 DEF VmcsRight
  <2> QED
    BY <2>f, <2>v DEF VmcsFields
<1> QED
  BY <1>1, <1>2, <1>3, <1>4 DEF MInv

\* Nothing is to be shown of the VMCSs when none of their state changes.
LEMMA SameVmcs ==
    ASSUME VmcsFields, UNCHANGED <<born, ehaz, vmcs, offset, icpt, fpuon, shadow, tseen, late>>
    PROVE  VmcsFields'
<1> SUFFICES ASSUME NEW w \in Vcpus PROVE VmcsRight(w)'
  BY DEF VmcsFields
<1>1. VmcsRight(w)
  BY DEF VmcsFields
<1> QED
  BY <1>1 DEF VmcsRight, Legal

\* A guest's CR0.TS is where the invariant says.
LEMMA TsKept == ASSUME MInv, NEW v \in Vcpus, Legal(v) PROVE TsOf(FpuNow, v) = tseen[v]
<1>1. TsOf(FpuNow, v) = IF fpuon[v] THEN vmcs[v].ts ELSE shadow[v]
  BY DEF TsOf, GuestTs, FpuNow
<1>0. VmcsRight(v)
  BY DEF MInv, VmcsFields
<1>2. CASE fpuon[v]
  <2>1. vmcs[v].ts = tseen[v]
    BY <1>0, <1>2 DEF VmcsRight
  <2> QED
    BY <1>1, <1>2, <2>1, Zenon
<1>3. CASE ~fpuon[v]
  <2>1. shadow[v] = tseen[v]
    BY <1>0, <1>3, Zenon DEF VmcsRight
  <2> QED
    BY <1>1, <1>3, <2>1, Zenon
<1> QED
  BY <1>2, <1>3

\* Switching the FPU preserves what is known of its owner and of every VMCS.
LEMMA SwitchInv ==
    ASSUME MInv, NEW e \in FpuEcs, SwitchFpu(e), e \in Vcpus => Legal(e),
           UNCHANGED <<icpt, born, offset, fseen, tseen, late>>
    PROVE  Owner' /\ VmcsFields' /\ (vcur' # NoEc => vcur' \in vact')
<1> USE MachineAssumption
<1>1. MachineType /\ e \in MEcs /\ Vcpus \subseteq MEcs
  BY DEF MInv, MEcs
<1>2. \A d \in MEcs : ehaz[d] \subseteq {"FPU", "TSC", "ILLEGAL"}
  BY <1>1 DEF MachineType
<1>3. /\ fpowner' = e
      /\ \A d \in MEcs : fmem'[d] = IF d = fpowner THEN fregs ELSE fmem[d]
      /\ fregs' = fmem'[e]
      /\ \A d \in MEcs : ehaz'[d] = IF d = e THEN ehaz[d] \cup {"FPU"}
                                 ELSE IF d = fpowner THEN ehaz[d] \ {"FPU"} ELSE ehaz[d]
      /\ (vcur # NoEc => vcur \in vact) => (vcur' # NoEc => vcur' \in vact')
  BY <1>1, SwitchEffect, ZenonT(40)
<1>4. /\ \A v \in Vcpus : v = e => /\ fpuon'[v] = TRUE /\ shadow'[v] = TsOf(FpuNow, v)
                                  /\ vmcs'[v].ts = TsOf(FpuNow, v) /\ vmcs'[v].off = vmcs[v].off
                                  /\ vmcs'[v].msk = icpt[v].cr0
                                  /\ vmcs'[v].nm = icpt[v].exc
      /\ \A v \in Vcpus : v # e /\ v = fpowner =>
             /\ fpuon'[v] = FALSE /\ shadow'[v] = TsOf(FpuNow, v)
             /\ vmcs'[v].ts = TRUE /\ vmcs'[v].off = vmcs[v].off
             /\ vmcs'[v].msk = TRUE /\ vmcs'[v].nm = TRUE
      /\ \A v \in Vcpus : v # e /\ v # fpowner =>
             fpuon'[v] = fpuon[v] /\ shadow'[v] = shadow[v] /\ vmcs'[v] = vmcs[v]
  BY <1>1, SwitchEffect, ZenonT(40)
<1>5. \A v \in Vcpus : /\ Legal(v)' <=> Legal(v)
                       /\ "TSC" \in ehaz'[v] <=> "TSC" \in ehaz[v]
  BY <1>1, <1>3 DEF Legal
<1>6. Owner'
  <2>1. \A d \in MEcs : "FPU" \in ehaz'[d] <=> e = d
    BY <1>3 DEF MInv, Owner
  <2>2. \A v \in Vcpus : fpuon'[v] <=> e = v
    BY <1>4 DEF MInv, Owner
  <2>3. \A d \in FpuEcs : fseen'[d] = IF e = d THEN fregs' ELSE fmem'[d]
    BY <1>3 DEF MInv, Owner
  <2> QED
    BY <1>3, <1>5, <2>1, <2>2, <2>3 DEF Owner
<1>7. ASSUME NEW v \in Vcpus PROVE VmcsRight(v)'
  <2>1. VmcsRight(v) /\ (v = fpowner => Legal(v))
    BY DEF MInv, VmcsFields, Owner
  <2>2. CASE v = e
    <3>1. Legal(v) /\ TsOf(FpuNow, v) = tseen[v]
      BY <2>2, TsKept
    <3>2. /\ fpuon'[v] = TRUE /\ shadow'[v] = tseen[v] /\ vmcs'[v].ts = tseen[v]
          /\ vmcs'[v].off = vmcs[v].off /\ vmcs'[v].msk = icpt[v].cr0 /\ vmcs'[v].nm = icpt[v].exc
      BY <1>4, <2>2, <3>1
    <3> QED
      BY <1>5, <2>1, <3>1, <3>2 DEF VmcsRight, Legal
  <2>3. CASE v # e /\ v = fpowner
    <3>1. Legal(v) /\ TsOf(FpuNow, v) = tseen[v]
      BY <2>1, <2>3, TsKept
    <3>2. /\ fpuon'[v] = FALSE /\ shadow'[v] = tseen[v] /\ vmcs'[v].ts = TRUE
          /\ vmcs'[v].off = vmcs[v].off /\ vmcs'[v].msk = TRUE /\ vmcs'[v].nm = TRUE
      BY <1>4, <2>3, <3>1
    <3> QED
      BY <1>5, <2>1, <3>1, <3>2 DEF VmcsRight, Legal
  <2>4. CASE v # e /\ v # fpowner
    <3>1. fpuon'[v] = fpuon[v] /\ shadow'[v] = shadow[v] /\ vmcs'[v] = vmcs[v] /\ ehaz'[v] = ehaz[v]
      BY <1>1, <1>3, <1>4, <2>4
    <3> QED
      BY <2>1, <3>1, VmcsFrame
  <2> QED
    BY <2>2, <2>3, <2>4
<1> QED
  BY <1>3, <1>6, <1>7 DEF MInv, Running, VmcsFields

\* #NM in a thread: it gets the FPU, or has none.
LEMMA ThreadNmInv == ASSUME MInv, ThreadNm PROVE MInv'
<1> USE MachineAssumption
<1>1. CASE mcur \in FpuEcs
  <2>1. SwitchFpu(mcur) /\ chaz' = chaz \cup {"FPU"} /\ UNCHANGED <<mmode, mcur, icpt, born, hw, offset, fseen, tseen, late>>
    BY <1>1 DEF ThreadNm
  <2>2. mcur \in Threads /\ mcur \notin Vcpus
    BY DEF MInv, Running, ThreadNm
  <2>3. Owner' /\ VmcsFields' /\ (vcur' # NoEc => vcur' \in vact')
    BY <1>1, <2>1, <2>2, SwitchInv
  <2>4. MachineType' /\ fpowner' = mcur /\ ts' = FALSE
    <3>1. /\ fregs' \in Values /\ fmem' \in [MEcs -> Values]
          /\ ehaz' \in [MEcs -> SUBSET {"FPU", "TSC", "ILLEGAL"}]
          /\ fpuon' \in [Vcpus -> BOOLEAN] /\ shadow' \in [Vcpus -> BOOLEAN]
          /\ vmcs' \in [Vcpus -> VmcsRec] /\ vcur' \in Vcpus \cup {NoEc} /\ vact' \subseteq Vcpus
          /\ fpowner' = mcur /\ ts' = FALSE
      BY <1>1, <2>1, SwitchEffect DEF MInv
    <3> QED
      BY <1>1, <2>1, <2>2, <3>1 DEF MInv, MachineType, VmcsRec
  <2>5. Running'
    BY <2>1, <2>2, <2>3, <2>4 DEF MInv, Running, ThreadNm
  <2> QED
    BY <2>3, <2>4, <2>5 DEF MInv
<1>2. CASE mcur \notin FpuEcs
  <2>1. mmode' = "kernel" /\ UNCHANGED <<mcur, chaz, ts, icpt, born, hw, offset, fseen, tseen, late, fpuvars>>
    BY <1>2 DEF ThreadNm
  <2>2. MachineType' /\ Owner' /\ VmcsFields'
    BY <2>1, SameVmcs DEF MInv, MachineType, fpuvars, Owner, Legal
  <2>3. Running'
    BY <2>1 DEF MInv, Running, fpuvars, ThreadNm
  <2> QED
    BY <2>2, <2>3 DEF MInv
<1> QED
  BY <1>1, <1>2

\* #NM in a guest: it gets the FPU, or its VMM is told.
LEMMA GuestNmInv == ASSUME MInv, GuestNm PROVE MInv'
<1> USE MachineAssumption
<1>1. CASE mcur \in FpuEcs
  <2>1. /\ SwitchFpu(mcur) /\ chaz' = chaz \cup {"TR", "FPU"} /\ mmode' = "kernel" /\ hw' = Host
        /\ UNCHANGED <<mcur, icpt, born, offset, fseen, tseen, late>>
    BY <1>1 DEF GuestNm, VmExit
  <2>2. mcur \in Vcpus /\ Legal(mcur)
    BY DEF MInv, Running, GuestNm
  <2>3. Owner' /\ VmcsFields' /\ (vcur' # NoEc => vcur' \in vact')
    BY <1>1, <2>1, <2>2, SwitchInv
  <2>4. MachineType' /\ ts' = FALSE
    <3>1. /\ fregs' \in Values /\ fmem' \in [MEcs -> Values]
          /\ ehaz' \in [MEcs -> SUBSET {"FPU", "TSC", "ILLEGAL"}]
          /\ fpuon' \in [Vcpus -> BOOLEAN] /\ shadow' \in [Vcpus -> BOOLEAN]
          /\ vmcs' \in [Vcpus -> VmcsRec] /\ vcur' \in Vcpus \cup {NoEc} /\ vact' \subseteq Vcpus
          /\ fpowner' = mcur /\ ts' = FALSE
      BY <1>1, <2>1, SwitchEffect DEF MInv
    <3> QED
      BY <1>1, <2>1, <2>2, <3>1 DEF MInv, MachineType, VmcsRec
  <2>5. Running'
    BY <2>1, <2>3, <2>4 DEF Running
  <2> QED
    BY <2>3, <2>4, <2>5 DEF MInv
<1>2. CASE mcur \notin FpuEcs
  <2>1. /\ mmode' = "kernel" /\ hw' = Host /\ ts' = TRUE /\ chaz' = (chaz \cup {"TR"}) \ {"FPU"}
        /\ UNCHANGED <<mcur, icpt, born, offset, fseen, tseen, late, fpuvars>>
    BY <1>2 DEF GuestNm, VmExit
  <2>2. MachineType' /\ Owner' /\ VmcsFields'
    BY <2>1, SameVmcs DEF MInv, MachineType, fpuvars, Owner, Legal
  <2>3. Running'
    BY <2>1 DEF MInv, Running, fpuvars
  <2> QED
    BY <2>2, <2>3 DEF MInv
<1> QED
  BY <1>1, <1>2

\* Before a sleep the FPU goes to memory and the current VMCS is given up.
LEMMA SleepInv == ASSUME MInv, Sleep PROVE MInv'
<1> USE MachineAssumption
<1> DEFINE f == FpuFree
<1> DEFINE g == [f EXCEPT !.vc = NoEc, !.va = {}]
<1>1. MachineType /\ Vcpus \subseteq MEcs
  BY DEF MInv, MEcs
<1>2. /\ f \in FpuRec /\ f.regs = fregs
      /\ \A d \in MEcs : f.mem[d] = IF d = fpowner THEN fregs ELSE fmem[d]
      /\ \A d \in MEcs : f.haz[d] = IF d = fpowner THEN ehaz[d] \ {"FPU"} ELSE ehaz[d]
      /\ \A v \in Vcpus : v # fpowner => f.on[v] = fpuon[v] /\ f.sh[v] = shadow[v] /\ f.vm[v] = vmcs[v]
      /\ \A v \in Vcpus : v = fpowner =>
             /\ f.on[v] = FALSE /\ f.sh[v] = TsOf(FpuNow, v)
             /\ f.vm[v] = CtrlFields(vmcs[v], FALSE, TsOf(FpuNow, v), icpt[v])
  BY <1>1, FreeEffect
<1>3. /\ fpowner' = NoEc /\ fregs' = g.regs /\ fmem' = g.mem /\ ehaz' = g.haz
      /\ fpuon' = g.on /\ shadow' = g.sh /\ vmcs' = g.vm /\ vcur' = g.vc /\ vact' = g.va
  BY DEF Sleep, SetFpu
<1>4. /\ ts' = FALSE /\ chaz' = chaz \cup {"FPU"} /\ mmode' = "off" /\ mmode = "kernel"
      /\ UNCHANGED <<mcur, icpt, born, hw, offset, fseen, tseen, late>>
  BY DEF Sleep
<1> HIDE DEF f
<1>5. /\ fregs' = f.regs /\ fmem' = f.mem /\ ehaz' = f.haz /\ fpuon' = f.on /\ shadow' = f.sh /\ vmcs' = f.vm
      /\ vcur' = NoEc /\ vact' = {}
  BY <1>2, <1>3 DEF FpuRec
<1>6. MachineType'
  BY <1>1, <1>2, <1>3, <1>4, <1>5 DEF MachineType, FpuRec, VmcsRec
<1>7. Running'
  BY <1>3, <1>4, <1>5 DEF MInv, Running
<1>8. \A v \in Vcpus : /\ Legal(v)' <=> Legal(v)
                       /\ "TSC" \in ehaz'[v] <=> "TSC" \in ehaz[v]
  BY <1>1, <1>2, <1>4, <1>5 DEF Legal
<1>9. Owner'
  <2>1. \A d \in MEcs : "FPU" \notin ehaz'[d] /\ d # NoEc
    BY <1>2, <1>5 DEF MInv, Owner
  <2>2. \A v \in Vcpus : ~fpuon'[v]
    BY <1>2, <1>5 DEF MInv, Owner
  <2>3. \A d \in FpuEcs : fseen'[d] = fmem'[d]
    BY <1>2, <1>4, <1>5 DEF MInv, Owner
  <2> QED
    BY <1>1, <1>3, <2>1, <2>2, <2>3 DEF Owner
<1>10. ASSUME NEW v \in Vcpus PROVE VmcsRight(v)'
  <2>1. VmcsRight(v) /\ (v = fpowner => Legal(v))
    BY DEF MInv, VmcsFields, Owner
  <2>2. CASE v = fpowner
    <3>1. Legal(v) /\ TsOf(FpuNow, v) = tseen[v]
      BY <2>1, <2>2, TsKept
    <3>2. vmcs[v] \in VmcsRec /\ tseen[v] \in BOOLEAN
      BY <1>1 DEF MachineType, VmcsRec
    <3>3. vmcs'[v] = CtrlFields(vmcs[v], FALSE, tseen[v], icpt[v])
      BY <1>2, <1>5, <2>2, <3>1
    <3>4. vmcs'[v].ts = TRUE /\ vmcs'[v].off = vmcs[v].off /\ vmcs'[v].msk = TRUE /\ vmcs'[v].nm = TRUE
      BY <3>2, <3>3 DEF CtrlFields, VmcsRec
    <3>5. fpuon'[v] = FALSE /\ shadow'[v] = tseen[v]
      BY <1>2, <1>5, <2>2, <3>1
    <3> QED
      BY <1>4, <1>8, <2>1, <3>1, <3>4, <3>5 DEF VmcsRight, Legal
  <2>3. CASE v # fpowner
    <3>1. fpuon'[v] = fpuon[v] /\ shadow'[v] = shadow[v] /\ vmcs'[v] = vmcs[v] /\ ehaz'[v] = ehaz[v]
      BY <1>1, <1>2, <1>5, <2>3
    <3> QED
      BY <1>4, <2>1, <3>1, VmcsFrame
  <2> QED
    BY <2>2, <2>3
<1> QED
  BY <1>6, <1>7, <1>9, <1>10 DEF MInv, VmcsFields

\* The first states satisfy the invariant.
LEMMA MachineInitInv == MachineInit => MInv
<1> SUFFICES ASSUME MachineInit PROVE MInv
  OBVIOUS
<1>1. MachineType
  BY MachineAssumption DEF MachineInit, MachineType, MEcs
<1>2. Running /\ Owner
  BY MachineAssumption DEF MachineInit, Running, Owner, Legal, MEcs
<1>3. VmcsFields
  BY MachineAssumption DEF MachineInit, VmcsFields, VmcsRight, Legal, MEcs
<1> QED
  BY <1>1, <1>2, <1>3 DEF MInv

\* Every step preserves the invariant.
LEMMA MachineNextInv == MInv /\ [MachineNext]_mvars => MInv'
<1> SUFFICES ASSUME MInv, [MachineNext]_mvars PROVE MInv'
  OBVIOUS
<1>1. CASE MachineNext
  BY <1>1, RunThreadInv, LeaveThreadInv, ThreadNmInv, ThreadGpInv, ThreadFpuInv, GuestFpuInv, ResumeInv,
     CreateVcpuInv, AdjustOffsetInv, RunVcpuInv, LeaveGuestInv, GuestNmInv, GuestSetTsInv, ReplyCrInv,
     ReplyCtrlInv, SleepInv DEF MachineNext
<1>2. CASE UNCHANGED mvars
  <2>1. MachineType' /\ Running' /\ Owner'
    BY <1>2 DEF mvars, fpuvars, MInv, MachineType, Running, Owner, Legal
  <2>2. VmcsFields'
    BY <1>2, SameVmcs DEF mvars, fpuvars, MInv
  <2> QED
    BY <2>1, <2>2 DEF MInv
<1> QED
  BY <1>1, <1>2

\* A guest runs on its own VMCS, registers and TSC offset and the host never on a
\* guest's, and giving the FPU to a vCPU and taking it away is invisible in its
\* CR0.TS, whatever the VMMs intercept; only what the guest reads is left open
\* after a reply with CTRL and without CR that begins to intercept the bit
\* (ret_user_vmexit_vmx, handle_vmx, fpu_ctrl, save_vmx).
THEOREM GuestsReady == MachineSpec => []GuestReady
<1>1. MInv => GuestReady
  <2> SUFFICES ASSUME MInv PROVE GuestReady
    OBVIOUS
  <2>1. ASSUME NEW v \in born, "ILLEGAL" \notin ehaz[v]
        PROVE  GuestTs(fpuon[v], shadow[v], vmcs[v]) = tseen[v] /\ (v \notin late => VisibleTs(v) = tseen[v])
    <3>1. v \in Vcpus /\ Legal(v) /\ VmcsRight(v)
      BY <2>1 DEF MInv, MachineType, Legal, VmcsFields
    <3>2. CASE fpuon[v]
      <4>1. /\ vmcs[v].ts = tseen[v] /\ (vmcs[v].msk => icpt[v].cr0)
            /\ icpt[v].cr0 /\ v \notin late => shadow[v] = tseen[v]
        BY <2>1, <3>1, <3>2 DEF VmcsRight
      <4> QED
        BY <3>2, <4>1, Zenon DEF VisibleTs, GuestTs
    <3>3. CASE ~fpuon[v]
      <4>1. shadow[v] = tseen[v] /\ vmcs[v].msk
        BY <2>1, <3>1, <3>3, Zenon DEF VmcsRight
      <4> QED
        BY <3>3, <4>1, Zenon DEF VisibleTs, GuestTs
    <3> QED
      BY <3>2, <3>3
  <2>2. mmode = "guest" => vcur = mcur /\ hw = mcur /\ vmcs[mcur].off = offset[mcur]
    BY DEF MInv, Running, VmcsFields, VmcsRight
  <2> QED
    BY <2>1, <2>2 DEF MInv, Running, GuestReady
<1> QED
  BY <1>1, MachineInitInv, MachineNextInv, PTL DEF MachineSpec

\* Every EC finds its FPU contents as it left them, whoever can touch the FPU
\* without a trap owns it, and the owner does not trap, as the assertion in
\* Ec::switch_fpu has it; the last part needs VMMs that do not intercept #NM.
THEOREM FpuIsExact == NmIntercept \subseteq {FALSE} => (MachineSpec => []FpuExact)
<1> SUFFICES ASSUME NmIntercept \subseteq {FALSE} PROVE MachineSpec => []FpuExact
  OBVIOUS
<1>1. MInv => FpuExact
  <2> SUFFICES ASSUME MInv PROVE FpuExact
    OBVIOUS
  <2>1. \A e \in FpuEcs : fseen[e] = IF fpowner = e THEN fregs ELSE fmem[e]
    BY DEF MInv, Owner
  <2>2. ASSUME mmode = "user" PROVE ts = (fpowner # mcur)
    BY <2>2 DEF MInv, MachineType, Running
  <2>3. ASSUME mmode = "guest"
        PROVE  /\ ~vmcs[vcur].ts => fpowner = mcur
               /\ vmcs[vcur].ts /\ vmcs[vcur].nm => fpowner # mcur
    <3>1. vcur = mcur /\ mcur \in Vcpus /\ Legal(mcur)
      BY <2>3 DEF MInv, Running
    <3>2. fpuon[mcur] <=> fpowner = mcur
      BY <3>1 DEF MInv, Owner
    <3>3. ~fpuon[mcur] => vmcs[mcur].ts
      BY <3>1 DEF MInv, VmcsFields, VmcsRight
    <3>4. fpuon[mcur] => ~vmcs[mcur].nm
      BY <3>1 DEF MInv, VmcsFields, VmcsRight, Legal
    <3> QED
      BY <3>1, <3>2, <3>3, <3>4
  <2> QED
    BY <2>1, <2>2, <2>3 DEF FpuExact
<1> QED
  BY <1>1, MachineInitInv, MachineNextInv, PTL DEF MachineSpec

-----------------------------------------------------------------------------
(* AArch64.                                                                *)

\* While a vCPU does not run, its registers and its timer are in memory; those of
\* the current one may be in the hardware too, and are until a thread runs.
ArmKept ==
    /\ amode = "guest" => acur \in AVcpus /\ avmcb[acur].vmm = aregs.vmm
    /\ amode = "user" => acur \in AThreads
    /\ acur \in AThreads => avc = NoA
    /\ amode = "kernel" /\ avc # NoA => avc = acur /\ aregs = avmcb[avc]
    /\ aehaz = {aowner} \ {NoA}
    /\ amode = "off" => aowner = NoA
    /\ \A v \in AVcpus : ~(amode = "guest" /\ v = acur) =>
           avmcb[v] = aseen.regs[v] /\ (aact[v] <=> v \in atold)

AInv == ArmCore /\ ArmStateExact /\ TimerNotLost /\ ArmKept

\* The offset of the vCPU whose registers are loaded, unless it lags behind.
OffsetKept == OffsetType /\ (avc # NoA /\ ~alag => aoff = avoff[avc])
-----------------------------------------------------------------------------
\* A thread runs: it finds its FPU, and from now on no guest is in the hardware.
LEMMA ARunThreadInv == ASSUME AInv, NEW e \in AThreads, ARunThread(e) PROVE AInv'
<1> USE ArmAssumption
<1>1. ArmCore'
  BY DEF AInv, ArmCore, AEcs, ARegs, atmr, afpu, ARunThread, AFpuHazard, LoadHst
<1>2. ArmStateExact'
  BY DEF AInv, ArmCore, AEcs, ARegs, atmr, afpu, ArmStateExact, ArmKept, ARunThread,
     AFpuHazard, LoadHst
<1>3. TimerNotLost'
  BY DEF AInv, ArmCore, AEcs, ARegs, atmr, afpu, TimerNotLost, ArmKept, ARunThread,
     AFpuHazard, LoadHst
<1>4. ArmKept'
  BY DEF AInv, ArmCore, AEcs, ARegs, atmr, afpu, ArmStateExact, TimerNotLost, ArmKept,
     ARunThread, AFpuHazard, LoadHst
<1> QED
  BY <1>1, <1>2, <1>3, <1>4 DEF AInv

\* A guest runs: what the hardware does not hold already is loaded from memory.
LEMMA ARunGuestInv == ASSUME AInv, NEW v \in AVcpus, ARunGuest(v) PROVE AInv'
<1> USE ArmAssumption
<1>1. ArmCore'
  BY DEF AInv, ArmCore, AEcs, ARegs, atmr, afpu, ARunGuest, AFpuHazard, LoadGst, LoadTmr
<1>2. ArmStateExact'
  BY ZenonT(40) DEF AInv, ArmCore, AEcs, ARegs, atmr, afpu, ArmStateExact, ArmKept, ARunGuest,
     AFpuHazard, LoadGst, LoadTmr
<1>3. TimerNotLost'
  BY DEF AInv, ArmCore, AEcs, ARegs, atmr, afpu, TimerNotLost, ArmKept, ARunGuest,
     AFpuHazard, LoadGst, LoadTmr
<1>4. ArmKept'
  BY DEF AInv, ArmCore, AEcs, ARegs, atmr, afpu, ArmStateExact, TimerNotLost, ArmKept,
     ARunGuest, AFpuHazard, LoadGst, LoadTmr
<1> QED
  BY <1>1, <1>2, <1>3, <1>4 DEF AInv

\* A timer expires.
LEMMA AExpireInv == ASSUME AInv, NEW v \in AVcpus, AExpire(v) PROVE AInv'
<1> USE ArmAssumption
<1>1. ArmCore'
  BY DEF AInv, ArmCore, AEcs, ARegs, atmr, afpu, AExpire
<1>2. ArmStateExact'
  BY DEF AInv, ArmCore, AEcs, ARegs, atmr, afpu, ArmStateExact, ArmKept, AExpire
<1>3. TimerNotLost'
  BY DEF AInv, ArmCore, AEcs, ARegs, atmr, afpu, TimerNotLost, ArmKept, AExpire
<1>4. ArmKept'
  BY DEF AInv, ArmCore, AEcs, ARegs, atmr, afpu, ArmStateExact, TimerNotLost, ArmKept,
     AExpire
<1> QED
  BY <1>1, <1>2, <1>3, <1>4 DEF AInv

\* A thread enters the kernel.
LEMMA ALeaveThreadInv == ASSUME AInv, ALeaveThread PROVE AInv'
<1> USE ArmAssumption
<1>1. ArmCore'
  BY DEF AInv, ArmCore, AEcs, ARegs, atmr, afpu, ALeaveThread
<1>2. ArmStateExact'
  BY DEF AInv, ArmCore, AEcs, ARegs, atmr, afpu, ArmStateExact, ArmKept, ALeaveThread
<1>3. TimerNotLost'
  BY DEF AInv, ArmCore, AEcs, ARegs, atmr, afpu, TimerNotLost, ArmKept, ALeaveThread
<1>4. ArmKept'
  BY DEF AInv, ArmCore, AEcs, ARegs, atmr, afpu, ArmStateExact, TimerNotLost, ArmKept,
     ALeaveThread
<1> QED
  BY <1>1, <1>2, <1>3, <1>4 DEF AInv

\* The FPU changes hands: the old contents go to memory, the new ones come from it.
LEMMA AFpuTrapInv == ASSUME AInv, AFpuTrap PROVE AInv'
<1> USE ArmAssumption
<1>1. amode' = "kernel" /\ UNCHANGED <<acur, avc, aregs, aline, appi, atold, aseen>>
  BY DEF AFpuTrap
<1>2. acur \in AEcs /\ (amode = "guest" => acur \in AVcpus)
  BY DEF AInv, ArmKept, AFpuTrap, AEcs
<1>3. /\ aowner' \in AFpuEcs \cup {NoA} /\ afp' \in AValues /\ afmem' \in [AEcs -> AValues]
      /\ aehaz' \subseteq AEcs /\ achaz' \in BOOLEAN /\ aehaz' = {aowner'} \ {NoA}
      /\ \A e \in AFpuEcs : aseen.fpu[e] = IF aowner' = e THEN afp' ELSE afmem'[e]
  <2>1. CASE acur \in AFpuEcs
    BY <1>2, <2>1 DEF AInv, ArmCore, ArmStateExact, ArmKept, AFpuTrap, ASwitchFpu
  <2>2. CASE acur \notin AFpuEcs
    BY <2>2 DEF AInv, ArmCore, ArmStateExact, ArmKept, AFpuTrap, afpu
  <2> QED
    BY <2>1, <2>2
<1>4. avmcb' \in [AVcpus -> ARegs] /\ aact' \in [AVcpus -> BOOLEAN] /\ await' \subseteq AVcpus
  <2>1. CASE amode = "guest"
    <3>1. aregs.own \in AValues /\ avmcb[acur] \in ARegs /\ appi \in BOOLEAN
      BY <1>2, <2>1 DEF AInv, ArmCore, ARegs
    <3>2. avmcb' \in [AVcpus -> ARegs]
      BY <1>2, <2>1, <3>1 DEF AInv, ArmCore, ARegs, AFpuTrap, SaveGst
    <3>3. aact' \in [AVcpus -> BOOLEAN]
      BY <2>1, <3>1 DEF AInv, ArmCore, AFpuTrap, SaveGst
    <3>4. await' \subseteq AVcpus
      BY <1>2, <2>1 DEF AInv, ArmCore, AFpuTrap
    <3> QED
      BY <3>2, <3>3, <3>4
  <2>2. CASE amode = "user"
    BY <2>2 DEF AInv, ArmCore, AFpuTrap
  <2> QED
    BY <2>1, <2>2 DEF AFpuTrap
<1>5. /\ \A v \in AVcpus : avmcb'[v] = aseen.regs[v] /\ (aact'[v] <=> v \in atold)
      /\ avc # NoA => avc = acur /\ aregs = avmcb'[avc]
  <2>1. CASE amode = "guest"
    BY <1>2, <2>1 DEF AInv, ArmCore, ARegs, ArmStateExact, TimerNotLost, ArmKept, AFpuTrap,
       SaveGst
  <2>2. CASE amode = "user"
    BY <2>2 DEF AInv, ArmCore, ArmKept, AFpuTrap
  <2> QED
    BY <2>1, <2>2 DEF AFpuTrap
<1>6. ArmCore'
  BY <1>1, <1>3, <1>4 DEF AInv, ArmCore
<1>7. ArmStateExact' /\ TimerNotLost'
  BY <1>1, <1>3 DEF ArmStateExact, TimerNotLost
<1>8. ArmKept'
  BY <1>1, <1>3, <1>5 DEF AInv, ArmKept
<1> QED
  BY <1>6, <1>7, <1>8 DEF AInv

\* The timer interrupts its guest: active in the vCPU, and the VMM is told.
LEMMA AVtimerGuestInv == ASSUME AInv, AVtimerGuest PROVE AInv'
<1> USE ArmAssumption
<1>1. ArmCore'
  BY DEF AInv, ArmCore, AEcs, ARegs, atmr, afpu, AVtimerGuest, SaveGst
<1>2. ArmStateExact'
  BY DEF AInv, ArmCore, AEcs, ARegs, atmr, afpu, ArmStateExact, ArmKept, AVtimerGuest,
     SaveGst
<1>3. TimerNotLost'
  BY DEF AInv, ArmCore, AEcs, ARegs, atmr, afpu, TimerNotLost, ArmKept, AVtimerGuest,
     SaveGst
<1>4. ArmKept'
  <2>1. /\ avmcb' = [avmcb EXCEPT ![acur].own = aregs.own] /\ aact' = [aact EXCEPT ![acur] = TRUE]
        /\ acur \in AVcpus /\ acur' = acur /\ aregs' = aregs /\ amode' = "kernel"
        /\ avc' = avc /\ avc = acur /\ aseen' = aseen
    BY DEF AInv, ArmStateExact, ArmKept, AVtimerGuest, SaveGst
  <2>2. avmcb'[acur] = aregs /\ aregs = aseen.regs[acur]
    BY <2>1 DEF AInv, ArmCore, ARegs, ArmStateExact, ArmKept, AVtimerGuest
  <2>3. \A v \in AVcpus : avmcb'[v] = aseen'.regs[v] /\ (aact'[v] <=> v \in atold')
    BY <2>1, <2>2 DEF AInv, ArmCore, TimerNotLost, ArmKept, AVtimerGuest
  <2>4. aowner' = aowner /\ aehaz' = aehaz
    BY DEF AVtimerGuest, afpu
  <2> QED
    BY <2>1, <2>2, <2>3, <2>4 DEF AInv, ArmCore, AEcs, ArmKept
<1> QED
  BY <1>1, <1>2, <1>3, <1>4 DEF AInv

\* The timer interrupts the kernel: no vCPU is told, and none will run with it.
LEMMA AVtimerKernelInv == ASSUME AInv, AVtimerKernel PROVE AInv'
<1> USE ArmAssumption
<1>1. ArmCore'
  BY DEF AInv, ArmCore, AEcs, ARegs, atmr, afpu, AVtimerKernel
<1>2. ArmStateExact'
  BY DEF AInv, ArmCore, AEcs, ARegs, atmr, afpu, ArmStateExact, ArmKept, AVtimerKernel
<1>3. TimerNotLost'
  BY DEF AInv, ArmCore, AEcs, ARegs, atmr, afpu, TimerNotLost, ArmKept, AVtimerKernel
<1>4. ArmKept'
  BY DEF AInv, ArmCore, AEcs, ARegs, atmr, afpu, ArmStateExact, TimerNotLost, ArmKept,
     AVtimerKernel
<1> QED
  BY <1>1, <1>2, <1>3, <1>4 DEF AInv

\* The guest handles its timer interrupt.
LEMMA AGuestAckInv == ASSUME AInv, AGuestAck PROVE AInv'
<1> USE ArmAssumption
<1>1. ArmCore'
  BY DEF AInv, ArmCore, AEcs, ARegs, atmr, afpu, AGuestAck
<1>2. ArmStateExact'
  BY DEF AInv, ArmCore, AEcs, ARegs, atmr, afpu, ArmStateExact, ArmKept, AGuestAck
<1>3. TimerNotLost'
  BY DEF AInv, ArmCore, AEcs, ARegs, atmr, afpu, TimerNotLost, ArmKept, AGuestAck
<1>4. ArmKept'
  BY DEF AInv, ArmCore, AEcs, ARegs, atmr, afpu, ArmStateExact, TimerNotLost, ArmKept,
     AGuestAck
<1> QED
  BY <1>1, <1>2, <1>3, <1>4 DEF AInv

\* Before a sleep the FPU is saved.
LEMMA AFiniInv == ASSUME AInv, AFini PROVE AInv'
<1> USE ArmAssumption
<1>1. ArmCore'
  BY DEF AInv, ArmCore, AEcs, ARegs, atmr, afpu, AFini, ASwitchFpu
<1>2. ArmStateExact'
  BY DEF AInv, ArmCore, AEcs, ARegs, atmr, afpu, ArmStateExact, ArmKept, AFini,
     ASwitchFpu
<1>3. TimerNotLost'
  BY DEF AInv, ArmCore, AEcs, ARegs, atmr, afpu, TimerNotLost, ArmKept, AFini, ASwitchFpu
<1>4. ArmKept'
  BY DEF AInv, ArmCore, AEcs, ARegs, atmr, afpu, ArmStateExact, TimerNotLost, ArmKept,
     AFini, ASwitchFpu
<1> QED
  BY <1>1, <1>2, <1>3, <1>4 DEF AInv

\* A guest enters the kernel: its registers and its timer are saved.
LEMMA ALeaveGuestInv == ASSUME AInv, NEW msg \in BOOLEAN, ALeaveGuest(msg) PROVE AInv'
<1> USE ArmAssumption
<1>1. ArmCore'
  BY DEF AInv, ArmCore, ARegs, atmr, afpu, ArmKept, ALeaveGuest, SaveGst
<1>2. ArmStateExact'
  BY DEF AInv, ArmCore, AEcs, ARegs, atmr, afpu, ArmStateExact, ArmKept, ALeaveGuest,
     SaveGst
<1>3. TimerNotLost'
  BY DEF AInv, ArmCore, AEcs, ARegs, atmr, afpu, TimerNotLost, ArmKept, ALeaveGuest,
     SaveGst
<1>4. ArmKept'
  <2>1. /\ avmcb' = [avmcb EXCEPT ![acur].own = aregs.own] /\ aact' = [aact EXCEPT ![acur] = appi]
        /\ acur \in AVcpus /\ acur' = acur /\ aregs' = aregs /\ amode' = "kernel"
        /\ avc' = avc /\ avc = acur /\ aseen' = aseen
    BY DEF AInv, ArmStateExact, ArmKept, ALeaveGuest, SaveGst
  <2>2. avmcb'[acur] = aregs /\ aregs = aseen.regs[acur]
    BY <2>1 DEF AInv, ArmCore, ARegs, ArmStateExact, ArmKept, ALeaveGuest
  <2>3. \A v \in AVcpus : avmcb'[v] = aseen'.regs[v] /\ (aact'[v] <=> v \in atold')
    BY <2>1, <2>2 DEF AInv, ArmCore, TimerNotLost, ArmKept, ALeaveGuest
  <2>4. aowner' = aowner /\ aehaz' = aehaz
    BY DEF ALeaveGuest, afpu
  <2> QED
    BY <2>1, <2>2, <2>3, <2>4 DEF AInv, ArmCore, AEcs, ArmKept
<1> QED
  BY <1>1, <1>2, <1>3, <1>4 DEF AInv

\* The guest writes a register.
LEMMA AGuestWriteInv == ASSUME AInv, NEW x \in AValues, AGuestWrite(x) PROVE AInv'
<1> USE ArmAssumption
<1>1. ArmCore'
  BY DEF AInv, ArmCore, AEcs, ARegs, atmr, afpu, AGuestWrite
<1>2. ArmStateExact'
  BY DEF AInv, ArmCore, AEcs, ARegs, atmr, afpu, ArmStateExact, ArmKept, AGuestWrite
<1>3. TimerNotLost'
  BY DEF AInv, ArmCore, AEcs, ARegs, atmr, afpu, TimerNotLost, ArmKept, AGuestWrite
<1>4. ArmKept'
  BY DEF AInv, ArmCore, AEcs, ARegs, atmr, afpu, ArmStateExact, TimerNotLost, ArmKept,
     AGuestWrite
<1> QED
  BY <1>1, <1>2, <1>3, <1>4 DEF AInv

\* The owner of the FPU uses it.
LEMMA AFpuUseInv == ASSUME AInv, NEW x \in AValues, AFpuUse(x) PROVE AInv'
<1> USE ArmAssumption
<1>1. ArmCore'
  BY DEF AInv, ArmCore, AEcs, ARegs, atmr, afpu, AFpuUse
<1>2. ArmStateExact'
  BY DEF AInv, ArmCore, AEcs, ARegs, atmr, afpu, ArmStateExact, ArmKept, AFpuUse
<1>3. TimerNotLost'
  BY DEF AInv, ArmCore, AEcs, ARegs, atmr, afpu, TimerNotLost, ArmKept, AFpuUse
<1>4. ArmKept'
  BY DEF AInv, ArmCore, AEcs, ARegs, atmr, afpu, ArmStateExact, TimerNotLost, ArmKept,
     AFpuUse
<1> QED
  BY <1>1, <1>2, <1>3, <1>4 DEF AInv

\* After a sleep nothing is in the hardware.
LEMMA AResumeInv == ASSUME AInv, NEW x \in AValues, AResume(x) PROVE AInv'
<1> USE ArmAssumption
<1>1. ArmCore'
  BY DEF AInv, ArmCore, AEcs, ARegs, atmr, afpu, AResume, LoadHst
<1>2. ArmStateExact'
  BY DEF AInv, ArmCore, AEcs, ARegs, atmr, afpu, ArmStateExact, ArmKept, AResume, LoadHst
<1>3. TimerNotLost'
  BY DEF AInv, ArmCore, AEcs, ARegs, atmr, afpu, TimerNotLost, ArmKept, AResume, LoadHst
<1>4. ArmKept'
  BY DEF AInv, ArmCore, AEcs, ARegs, atmr, afpu, ArmStateExact, TimerNotLost, ArmKept,
     AResume, LoadHst
<1> QED
  BY <1>1, <1>2, <1>3, <1>4 DEF AInv

\* The VMM replies: as a thread runs, the vCPU is not in the hardware.
LEMMA AReplyInv == ASSUME AInv, NEW v \in AVcpus, NEW r \in ARegs, NEW o \in AValues, AReply(v, r, o) PROVE AInv'
<1> USE ArmAssumption
<1>1. ArmCore'
  BY DEF AInv, ArmCore, AEcs, ARegs, atmr, afpu, AReply
<1>2. ArmStateExact'
  BY DEF AInv, ArmCore, AEcs, ARegs, atmr, afpu, ArmStateExact, ArmKept, AReply
<1>3. TimerNotLost'
  BY DEF AInv, ArmCore, AEcs, ARegs, atmr, afpu, TimerNotLost, ArmKept, AReply
<1>4. ArmKept'
  BY DEF AInv, ArmCore, AEcs, ARegs, atmr, afpu, ArmStateExact, TimerNotLost, ArmKept,
     AReply
<1> QED
  BY <1>1, <1>2, <1>3, <1>4 DEF AInv

\* The scheduler adds to the offset of a vCPU, which is all that changes.
LEMMA AAdjustOffsetInv == ASSUME AInv, NEW v \in AVcpus, NEW x \in AValues, AAdjustOffset(v, x) PROVE AInv'
  BY DEF AInv, ArmCore, ArmStateExact, TimerNotLost, ArmKept, AAdjustOffset, atmr, afpu

\* Every step keeps the loaded offset right, or knows that it lags behind: the VMM
\* replies while no vCPU is loaded, and the scheduler sets alag.
LEMMA OffsetStep == AInv /\ OffsetKept /\ [ArmNext]_avars => OffsetKept'
<1> SUFFICES ASSUME AInv, OffsetKept, [ArmNext]_avars PROVE OffsetKept'
  OBVIOUS
<1> USE ArmAssumption DEF OffsetKept, OffsetType
<1>1. ASSUME UNCHANGED <<avc, aoff, avoff, alag>> PROVE OffsetKept'
  BY <1>1
<1>2. CASE UNCHANGED avars
  BY <1>1, <1>2 DEF avars, aoffs
<1>3. ASSUME NEW e \in AThreads, ARunThread(e) PROVE OffsetKept'
  BY <1>3 DEF ARunThread, LoadHst
<1>4. ASSUME NEW v \in AVcpus, ARunGuest(v) PROVE OffsetKept'
  BY <1>4 DEF ARunGuest, LoadGst
<1>5. ASSUME NEW v \in AVcpus, AExpire(v) PROVE OffsetKept'
  BY <1>1, <1>5 DEF AExpire, aoffs
<1>6. CASE ALeaveThread \/ AFpuTrap \/ AVtimerGuest \/ AVtimerKernel \/ AGuestAck \/ AFini
  BY <1>1, <1>6 DEF ALeaveThread, AFpuTrap, AVtimerGuest, AVtimerKernel, AGuestAck, AFini, aoffs
<1>7. ASSUME NEW msg \in BOOLEAN, ALeaveGuest(msg) PROVE OffsetKept'
  BY <1>1, <1>7 DEF ALeaveGuest, aoffs
<1>8. ASSUME NEW x \in AValues, AGuestWrite(x) \/ AFpuUse(x) PROVE OffsetKept'
  BY <1>1, <1>8 DEF AGuestWrite, AFpuUse, aoffs
<1>9. ASSUME NEW x \in AValues, AResume(x) PROVE OffsetKept'
  BY <1>9 DEF AResume, LoadHst
<1>10. ASSUME NEW v \in AVcpus, NEW r \in ARegs, NEW o \in AValues, AReply(v, r, o) PROVE OffsetKept'
  BY <1>10 DEF AReply, AInv, ArmKept
<1>11. ASSUME NEW v \in AVcpus, NEW x \in AValues, AAdjustOffset(v, x) PROVE OffsetKept'
  <2>1. avoff' = [avoff EXCEPT ![v] = x] /\ (alag' <=> alag \/ avc = v) /\ UNCHANGED <<aoff, avc>>
    BY <1>11 DEF AAdjustOffset
  <2>2. alag' \in BOOLEAN
    BY <1>11 DEF AAdjustOffset
  <2>3. avc # NoA /\ ~alag' => aoff = avoff'[avc]
    BY <2>1
  <2> QED
    BY <2>1, <2>2, <2>3
<1> QED
  BY <1>2, <1>3, <1>4, <1>5, <1>6, <1>7, <1>8, <1>9, <1>10, <1>11, Zenon DEF ArmNext

\* The first states satisfy the invariant.
LEMMA ArmInitInv == ArmInit => AInv /\ OffsetKept
<1> SUFFICES ASSUME ArmInit PROVE AInv /\ OffsetKept
  OBVIOUS
<1>1. ArmCore
  <2>1. avmcb \in [AVcpus -> ARegs] /\ afmem \in [AEcs -> AValues]
    BY ArmAssumption DEF ArmInit, ARegs
  <2>2. aseen \in [regs : [AVcpus -> ARegs], fpu : [AEcs -> AValues]]
    BY <2>1 DEF ArmInit
  <2> QED
    BY <2>1, <2>2, ArmAssumption DEF ArmInit, ArmCore, ARegs, AEcs
<1>2. ArmStateExact /\ TimerNotLost
  BY ArmAssumption DEF ArmInit, ArmStateExact, TimerNotLost, AEcs
<1>3. ArmKept
  BY ArmAssumption DEF ArmInit, ArmKept, AEcs
<1>4. OffsetKept
  BY ArmAssumption DEF ArmInit, OffsetKept, OffsetType
<1> QED
  BY <1>1, <1>2, <1>3, <1>4 DEF AInv

\* Every step preserves the invariant.
LEMMA ArmNextInv == AInv /\ [ArmNext]_avars => AInv'
<1> SUFFICES ASSUME AInv, [ArmNext]_avars PROVE AInv'
  OBVIOUS
<1>1. CASE ArmNext
  BY <1>1, ARunThreadInv, ARunGuestInv, AExpireInv, ALeaveThreadInv, AFpuTrapInv, AVtimerGuestInv,
     AVtimerKernelInv, AGuestAckInv, AFiniInv, ALeaveGuestInv, AGuestWriteInv, AFpuUseInv, AResumeInv,
     AReplyInv, AAdjustOffsetInv DEF ArmNext
<1>2. CASE UNCHANGED avars
  BY <1>2 DEF avars, atmr, afpu, AInv, ArmCore, ArmStateExact, TimerNotLost, ArmKept
<1> QED
  BY <1>1, <1>2

\* What a vCPU on AArch64 sees of its registers, its FPU and its virtual timer is
\* exact; so is its virtual time, but for what the scheduler adds to cntvoff while
\* the registers of the vCPU stay loaded (ret_user_vmexit, Vmcb::load_gst and
\* save_gst, adjust_offset_ticks, switch_fpu, handle_irq_user).
THEOREM VcpusExact == ArmSpec => []VcpuExact
<1>1. AInv /\ OffsetKept => VcpuExact
  <2> SUFFICES ASSUME AInv, OffsetKept PROVE VcpuExact
    OBVIOUS
  <2>1. OffsetExact
    BY ArmAssumption DEF AInv, ArmStateExact, ArmKept, OffsetKept, OffsetExact, AEcs
  <2> QED
    BY <2>1 DEF AInv, OffsetKept, VcpuExact, ArmType
<1> QED
  BY <1>1, ArmInitInv, ArmNextInv, OffsetStep, PTL DEF ArmSpec

-----------------------------------------------------------------------------
(* Interrupts of devices on x86_64 and AArch64 (Intr).  NoLostInterrupt   *)
(* speaks of a driver that sleeps.  The invariant follows the interrupt    *)
(* from the moment the driver has deactivated it and the counter is zero:  *)
(* from then on somebody else is responsible for what blocks it.           *)

\* A handler has yet to up the semaphore.
Handling == \E c \in ICpus : ihand[c] \in {"got", "mid"}

\* The driver has deactivated the interrupt and will sleep, or sleeps.
AboutToSleep == idrv \in {"dn", "sleep"} /\ icount = 0

\* The pin was masked by a handler, or by the configuration; anything else is
\* masked by the configuration alone.
MaskOwned ==
    iasg = "none" /\ ihw.msk /\ ~icfg.msk =>
        ikind = "pin" /\ (AboutToSleep => \E c \in ICpus : ihand[c] = "mid")

\* A message is on its way, or has been counted, or its driver is awake for it.
MessageKept == ikind = "msi" /\ iline => iirr # {} \/ Handling \/ icount > 0 \/ idrv = "woken"

\* An SPI became active after the driver had deactivated it.
ActiveOwned == ikind = "spi" /\ iheld /\ AboutToSleep => Handling

\* Remote IRR is set for as long as a CPU has the interrupt.
HeldOwned == ikind = "pin" /\ iheld => iirr # {} \/ \E c \in ICpus : ihand[c] # "idle"

IInv == /\ IntrType /\ MaskOwned /\ MessageKept /\ ActiveOwned /\ HeldOwned
        /\ idrv = "sleep" => icount = 0

\* The device raises the interrupt.
LEMMA IRaiseInv == ASSUME IInv, IRaise PROVE IInv'
<1> USE IntrAssumption DEF IInv
<1>1. IntrType'
  BY DEF IntrType, IConfigs, IRaise
<1>2. MaskOwned'
  BY DEF IntrType, IConfigs, MaskOwned, AboutToSleep, IRaise
<1>3. MessageKept'
  BY DEF IntrType, MessageKept, Handling, IRaise
<1>4. ActiveOwned'
  BY DEF IntrType, ActiveOwned, Handling, AboutToSleep, IRaise
<1>5. HeldOwned'
  BY DEF IntrType, HeldOwned, IRaise
<1>6. (idrv = "sleep" => icount = 0)'
  BY DEF IntrType, IRaise
<1> QED
  BY <1>1, <1>2, <1>3, <1>4, <1>5, <1>6

\* The pin is sent.
LEMMA IPinSendInv == ASSUME IInv, IPinSend PROVE IInv'
<1> USE IntrAssumption DEF IInv
<1>1. IntrType'
  BY DEF IntrType, IConfigs, IPinSend
<1>2. MaskOwned'
  BY DEF IntrType, IConfigs, MaskOwned, AboutToSleep, IPinSend
<1>3. MessageKept'
  BY DEF IntrType, MessageKept, Handling, IPinSend
<1>4. ActiveOwned'
  BY DEF IntrType, ActiveOwned, Handling, AboutToSleep, IPinSend
<1>5. HeldOwned'
  BY DEF IntrType, HeldOwned, IPinSend
<1>6. (idrv = "sleep" => icount = 0)'
  BY DEF IntrType, IPinSend
<1> QED
  BY <1>1, <1>2, <1>3, <1>4, <1>5, <1>6

\* A CPU takes the interrupt.
LEMMA IAcceptInv == ASSUME IInv, NEW c \in ICpus, IAccept(c) PROVE IInv'
<1> USE IntrAssumption DEF IInv
<1>1. IntrType'
  BY ZenonT(40) DEF IntrType, IConfigs, IAccept, Gic
<1>2. MaskOwned'
  BY DEF IntrType, IConfigs, MaskOwned, AboutToSleep, IAccept, Gic
<1>3. MessageKept'
  BY DEF IntrType, MessageKept, Handling, IAccept, Gic
<1>4. ActiveOwned'
  BY DEF IntrType, ActiveOwned, Handling, AboutToSleep, IAccept, Gic
<1>5. HeldOwned'
  BY DEF IntrType, HeldOwned, IAccept, Gic
<1>6. (idrv = "sleep" => icount = 0)'
  BY DEF IntrType, IAccept, Gic
<1> QED
  BY <1>1, <1>2, <1>3, <1>4, <1>5, <1>6

\* The handler masks before it ups the semaphore.
LEMMA IHandleInv == ASSUME IInv, NEW c \in ICpus, IHandle(c) PROVE IInv'
<1> USE IntrAssumption DEF IInv
<1>1. IntrType'
  <2>1. ihand' \in [ICpus -> {"idle", "got", "mid", "eoi"}]
    BY DEF IntrType, IHandle
  <2>2. ihw' \in IConfigs
    BY DEF IntrType, IConfigs, IHandle
  <2>3. icount' \in 0..MaxCount /\ idrv' \in {"woken", "work", "deact", "dn", "sleep"}
    BY DEF IntrType, IUp, IHandle
  <2> QED
    BY <2>1, <2>2, <2>3 DEF IntrType, IHandle
<1>2. MaskOwned'
  BY DEF IntrType, IConfigs, MaskOwned, AboutToSleep, IUp, IHandle
<1>3. MessageKept'
  BY DEF IntrType, MessageKept, Handling, IUp, IHandle
<1>4. ActiveOwned'
  BY DEF IntrType, ActiveOwned, Handling, AboutToSleep, IUp, IHandle
<1>5. HeldOwned'
  BY DEF IntrType, HeldOwned, IUp, IHandle
<1>6. (idrv = "sleep" => icount = 0)'
  BY DEF IntrType, IUp, IHandle
<1> QED
  BY <1>1, <1>2, <1>3, <1>4, <1>5, <1>6

\* The end of interrupt clears Remote IRR.
LEMMA IEoiInv == ASSUME IInv, NEW c \in ICpus, IEoi(c) PROVE IInv'
<1> USE IntrAssumption DEF IInv
<1>1. IntrType'
  BY DEF IntrType, IConfigs, IEoi
<1>2. MaskOwned'
  BY DEF IntrType, IConfigs, MaskOwned, AboutToSleep, IEoi
<1>3. MessageKept'
  BY DEF IntrType, MessageKept, Handling, IEoi
<1>4. ActiveOwned'
  BY DEF IntrType, ActiveOwned, Handling, AboutToSleep, IEoi
<1>5. HeldOwned'
  BY DEF IntrType, HeldOwned, IEoi
<1>6. (idrv = "sleep" => icount = 0)'
  BY DEF IntrType, IEoi
<1> QED
  BY <1>1, <1>2, <1>3, <1>4, <1>5, <1>6

\* The driver serves the device.
LEMMA IServeInv == ASSUME IInv, IServe PROVE IInv'
<1> USE IntrAssumption DEF IInv
<1>1. IntrType'
  BY DEF IntrType, IConfigs, IServe
<1>2. MaskOwned'
  BY DEF IntrType, IConfigs, MaskOwned, AboutToSleep, IServe
<1>3. MessageKept'
  BY DEF IntrType, MessageKept, Handling, IServe
<1>4. ActiveOwned'
  BY DEF IntrType, ActiveOwned, Handling, AboutToSleep, IServe
<1>5. HeldOwned'
  BY DEF IntrType, HeldOwned, IServe
<1>6. (idrv = "sleep" => icount = 0)'
  BY DEF IntrType, IServe
<1> QED
  BY <1>1, <1>2, <1>3, <1>4, <1>5, <1>6

\* The driver is about to wait.
LEMMA ICtrlSmInv == ASSUME IInv, ICtrlSm PROVE IInv'
<1> USE IntrAssumption DEF IInv
<1>1. IntrType'
  BY DEF IntrType, IConfigs, ICtrlSm
<1>2. MaskOwned'
  BY DEF IntrType, IConfigs, MaskOwned, AboutToSleep, ICtrlSm
<1>3. MessageKept'
  BY DEF IntrType, MessageKept, Handling, ICtrlSm
<1>4. ActiveOwned'
  BY DEF IntrType, ActiveOwned, Handling, AboutToSleep, ICtrlSm
<1>5. HeldOwned'
  BY DEF IntrType, HeldOwned, ICtrlSm
<1>6. (idrv = "sleep" => icount = 0)'
  BY DEF IntrType, ICtrlSm
<1> QED
  BY <1>1, <1>2, <1>3, <1>4, <1>5, <1>6

\* The driver lets the next interrupt through.
LEMMA IDeactivateInv == ASSUME IInv, IDeactivate PROVE IInv'
<1> USE IntrAssumption DEF IInv
<1>1. IntrType'
  BY DEF IntrType, IConfigs, IDeactivate
<1>2. MaskOwned'
  BY DEF IntrType, IConfigs, MaskOwned, AboutToSleep, IDeactivate
<1>3. MessageKept'
  BY DEF IntrType, MessageKept, Handling, IDeactivate
<1>4. ActiveOwned'
  BY DEF IntrType, ActiveOwned, Handling, AboutToSleep, IDeactivate
<1>5. HeldOwned'
  BY DEF IntrType, HeldOwned, IDeactivate
<1>6. (idrv = "sleep" => icount = 0)'
  BY DEF IntrType, IDeactivate
<1> QED
  BY <1>1, <1>2, <1>3, <1>4, <1>5, <1>6

\* It waits, unless the counter says that one has come.
LEMMA IDnInv == ASSUME IInv, NEW zc \in BOOLEAN, IDn(zc) PROVE IInv'
<1> USE IntrAssumption DEF IInv
<1>1. IntrType'
  BY DEF IntrType, IConfigs, IDn
<1>2. MaskOwned'
  BY DEF IntrType, IConfigs, MaskOwned, AboutToSleep, IDn
<1>3. MessageKept'
  BY DEF IntrType, MessageKept, Handling, IDn
<1>4. ActiveOwned'
  BY DEF IntrType, ActiveOwned, Handling, AboutToSleep, IDn
<1>5. HeldOwned'
  BY DEF IntrType, HeldOwned, IDn
<1>6. (idrv = "sleep" => icount = 0)'
  BY DEF IntrType, IDn
<1> QED
  BY <1>1, <1>2, <1>3, <1>4, <1>5, <1>6

\* The driver moves to another CPU.
LEMMA IMigrateInv == ASSUME IInv, IMigrate PROVE IInv'
<1> USE IntrAssumption DEF IInv
<1>1. IntrType'
  BY DEF IntrType, IConfigs, IMigrate
<1>2. MaskOwned'
  BY DEF IntrType, IConfigs, MaskOwned, AboutToSleep, IMigrate
<1>3. MessageKept'
  BY DEF IntrType, MessageKept, Handling, IMigrate
<1>4. ActiveOwned'
  BY DEF IntrType, ActiveOwned, Handling, AboutToSleep, IMigrate
<1>5. HeldOwned'
  BY DEF IntrType, HeldOwned, IMigrate
<1>6. (idrv = "sleep" => icount = 0)'
  BY DEF IntrType, IMigrate
<1> QED
  BY <1>1, <1>2, <1>3, <1>4, <1>5, <1>6

\* The guest is done with the interrupt.
LEMMA IGuestDeactivateInv == ASSUME IInv, IGuestDeactivate PROVE IInv'
<1> USE IntrAssumption DEF IInv
<1>1. IntrType'
  BY DEF IntrType, IConfigs, IGuestDeactivate
<1>2. MaskOwned'
  BY DEF IntrType, IConfigs, MaskOwned, AboutToSleep, IGuestDeactivate
<1>3. MessageKept'
  BY DEF IntrType, MessageKept, Handling, IGuestDeactivate
<1>4. ActiveOwned'
  BY DEF IntrType, ActiveOwned, Handling, AboutToSleep, IGuestDeactivate
<1>5. HeldOwned'
  BY DEF IntrType, HeldOwned, IGuestDeactivate
<1>6. (idrv = "sleep" => icount = 0)'
  BY DEF IntrType, IGuestDeactivate
<1> QED
  BY <1>1, <1>2, <1>3, <1>4, <1>5, <1>6

\* Another configuration is remembered.
LEMMA IAssignInv == ASSUME IInv, NEW cfg \in IConfigs, IAssign(cfg) PROVE IInv'
<1> USE IntrAssumption DEF IInv
<1>1. IntrType'
  BY DEF IntrType, IConfigs, IAssign
<1>2. MaskOwned'
  BY DEF IntrType, IConfigs, MaskOwned, AboutToSleep, IAssign
<1>3. MessageKept'
  BY DEF IntrType, MessageKept, Handling, IAssign
<1>4. ActiveOwned'
  BY DEF IntrType, ActiveOwned, Handling, AboutToSleep, IAssign
<1>5. HeldOwned'
  BY DEF IntrType, HeldOwned, IAssign
<1>6. (idrv = "sleep" => icount = 0)'
  BY DEF IntrType, IAssign
<1> QED
  BY <1>1, <1>2, <1>3, <1>4, <1>5, <1>6

\* The destination is set.
LEMMA ISetDstInv == ASSUME IInv, ISetDst PROVE IInv'
<1> USE IntrAssumption DEF IInv
<1>1. IntrType'
  BY DEF IntrType, IConfigs, ISetDst, Gic
<1>2. MaskOwned'
  BY DEF IntrType, IConfigs, MaskOwned, AboutToSleep, ISetDst, Gic
<1>3. MessageKept'
  BY DEF IntrType, MessageKept, Handling, ISetDst, Gic
<1>4. ActiveOwned'
  BY DEF IntrType, ActiveOwned, Handling, AboutToSleep, ISetDst, Gic
<1>5. HeldOwned'
  BY DEF IntrType, HeldOwned, ISetDst, Gic
<1>6. (idrv = "sleep" => icount = 0)'
  BY DEF IntrType, ISetDst, Gic
<1> QED
  BY <1>1, <1>2, <1>3, <1>4, <1>5, <1>6

\* The mask is what the configuration says.
LEMMA ISetCfgInv == ASSUME IInv, ISetCfg PROVE IInv'
<1> USE IntrAssumption DEF IInv
<1>1. IntrType'
  BY DEF IntrType, IConfigs, ISetCfg
<1>2. MaskOwned'
  BY DEF IntrType, IConfigs, MaskOwned, AboutToSleep, ISetCfg
<1>3. MessageKept'
  BY DEF IntrType, MessageKept, Handling, ISetCfg
<1>4. ActiveOwned'
  BY DEF IntrType, ActiveOwned, Handling, AboutToSleep, ISetCfg
<1>5. HeldOwned'
  BY DEF IntrType, HeldOwned, ISetCfg
<1>6. (idrv = "sleep" => icount = 0)'
  BY DEF IntrType, ISetCfg
<1> QED
  BY <1>1, <1>2, <1>3, <1>4, <1>5, <1>6

\* All routing is restored.
LEMMA IResumeInv == ASSUME IInv, IResume PROVE IInv'
<1> USE IntrAssumption DEF IInv
<1>1. IntrType'
  BY DEF IntrType, IConfigs, IResume
<1>2. MaskOwned'
  BY DEF IntrType, IConfigs, MaskOwned, AboutToSleep, IResume
<1>3. MessageKept'
  BY DEF IntrType, MessageKept, Handling, IResume
<1>4. ActiveOwned'
  BY DEF IntrType, ActiveOwned, Handling, AboutToSleep, IResume
<1>5. HeldOwned'
  BY DEF IntrType, HeldOwned, IResume
<1>6. (idrv = "sleep" => icount = 0)'
  BY DEF IntrType, IResume
<1> QED
  BY <1>1, <1>2, <1>3, <1>4, <1>5, <1>6

\* No interrupt is lost: for any number of CPUs, whatever CPUs the handler, the driver and
\* assign_int run on.
THEOREM NoInterruptLost == IntrSpec => []NoLostInterrupt
<1>1. IntrInit => IInv
  <2> SUFFICES ASSUME IntrInit PROVE IInv
    OBVIOUS
  <2>1. icfg \in IConfigs /\ icfg.msk = TRUE /\ icfg.cpu \in ICpus /\ ihw = icfg
    BY DEF IntrInit, IConfigs
  <2>2. IntrType
    <3>1. /\ ikind \in IKinds /\ iline \in BOOLEAN /\ iheld \in BOOLEAN /\ iirr \subseteq ICpus
          /\ iasg \in {"none", "dst", "cfg"}
      BY DEF IntrInit
    <3>0. icount \in 0..MaxCount
      <4>1. 0 \in 0..MaxCount
        BY IntrAssumption
      <4> QED
        BY <4>1 DEF IntrInit
    <3>2. ihand \in [ICpus -> {"idle", "got", "mid", "eoi"}]
      BY DEF IntrInit
    <3> QED
      BY <2>1, <3>0, <3>1, <3>2 DEF IntrInit, IntrType
  <2> QED
    BY <2>1, <2>2 DEF IntrInit, MaskOwned, MessageKept, ActiveOwned, HeldOwned, AboutToSleep, IInv
<1>2. IInv /\ [IntrNext]_ivars => IInv'
  <2> SUFFICES ASSUME IInv, [IntrNext]_ivars PROVE IInv'
    OBVIOUS
  <2>1. CASE IntrNext
    BY <2>1, IRaiseInv, IPinSendInv, IServeInv, ICtrlSmInv, IDeactivateInv, IMigrateInv, IGuestDeactivateInv,
       ISetDstInv, ISetCfgInv, IResumeInv, IAcceptInv, IHandleInv, IEoiInv, IDnInv, IAssignInv DEF IntrNext
  <2>2. CASE UNCHANGED ivars
    BY <2>2 DEF IInv, IntrType, MaskOwned, MessageKept, ActiveOwned, HeldOwned, Handling, AboutToSleep, ivars
  <2> QED
    BY <2>1, <2>2
<1>3. IInv => NoLostInterrupt
  BY DEF IInv, IntrType, IConfigs, MaskOwned, MessageKept, ActiveOwned, HeldOwned, Handling, AboutToSleep, InHand,
     NoLostInterrupt
<1> QED
  BY <1>1, <1>2, <1>3, PTL DEF IntrSpec

-----------------------------------------------------------------------------
(* The state of an EC in the UTCB.                                         *)

(***************************************************************************)
(* What an item of an EC always satisfies: the save functions constrain    *)
(* what they store, and the hardware keeps it so.                          *)
(***************************************************************************)
ItemLegal(k, i, x) ==
    /\ k = "exc" /\ i = "RFLAGS" => {"1", "IF"} \subseteq x /\ x \cap {"IOPL", "VM", "VIF", "VIP"} = {}
    /\ k = "arm" /\ i = "EL2_ELR_SPSR" => x \subseteq {"NZCV"}
    /\ i = "XSAVE" => XcrLegal(x) /\ x \subseteq ManagedXcr
    /\ i \in {"SYSCALL", "KERNEL_GS_BASE"} => x \subseteq {"legal"}
    /\ i = "EL2_HCR" => "TSC" \in x /\ x \cap {"NV", "E2H"} = {}

(***************************************************************************)
(* The bits of an item that has just been read from the hardware and is    *)
(* kept there in another format than in the UTCB.                          *)
(***************************************************************************)
ItemFormat(k, i, x) ==
    /\ k = "vmx" /\ i \in Segments => x \subseteq (0 .. 7) \cup (12 .. 16)
    /\ k = "armvm" /\ i = "GIC" /\ Gicv2 => x \subseteq (0 .. 19) \cup (23 .. 31)

UtcbTypes == UtcbType /\ DOMAIN uheld = Items(ukind) /\ umode \in BOOLEAN

ItemsLegal == \A i \in Carried(ukind) : ItemLegal(ukind, i, ustate[i])

\* From the trap to the reply the EC is as it trapped, and what the handler
\* has not written is what load put there.
UntilReply ==
    /\ ustep \in {"sent", "handler"} =>
          uheld = ustate /\ \A i \in Carried(ukind) : ItemFormat(ukind, i, ustate[i])
    /\ ustep = "handler" => \A i \in ugot :
          \/ i \in Carried(ukind) /\ utcb[i] = ToUtcb(ukind, i, ustate[i])
          \/ i = "INJ" /\ i \in Items(ukind) /\ utcb[i] = ustate[i] \cap {"ev"}

\* An address in FAR_EL2 or HPFAR_EL2 that is shown is the EC's own.
AddressesOwn ==
    /\ ustep = "sent" /\ uevent = "fault" => ufar = "own"
    /\ \A i \in {"EL2_ESR_FAR", "EL2_HPFAR"} \cap Items(ukind) : "other" \notin utcb[i]

\* Without Hazard::ILLEGAL the spaces are the EC's own.
SpacesOwn == (ustep = "run" => ~uillegal) /\ (~uillegal => uspaces = "own")

ModesFit == ukind = "armvm" /\ umode /\ ustep # "dead" => ModeLegal(ustate["EL2_HCR"], ustate["EL2_ELR_SPSR"])

UtcbInv == UtcbTypes /\ ItemsLegal /\ UntilReply /\ Transparent /\ AddressesOwn /\ SpacesOwn /\ ModesFit

-----------------------------------------------------------------------------
UKindSet == {"exc", "vmx", "svm", "arm", "armvm"}

\* The items of the five kinds that are treated specially.
LEMMA ItemSets ==
    ASSUME NEW k \in UKindSet
    PROVE  /\ Carried(k) \subseteq Items(k) /\ ReadOnly(k) \subseteq Items(k)
           /\ \A i \in Carried(k) : i \notin ReadOnly(k) /\ i \notin {"EL2_ESR_FAR", "EL2_HPFAR", "INJ"}
           /\ \A i \in {"EL2_ESR_FAR", "EL2_HPFAR"} : i \in Items(k) => i \in ReadOnly(k)
           /\ k = "exc" => "RFLAGS" \in Carried(k)
           /\ k = "arm" => "EL2_ELR_SPSR" \in Carried(k)
           /\ k \in {"vmx", "svm"} => {"XSAVE", "SYSCALL", "KERNEL_GS_BASE"} \subseteq Carried(k)
           /\ k = "armvm" => {"EL2_HCR", "EL2_ELR_SPSR"} \subseteq Carried(k)
           /\ "EL2_HCR" \in Carried(k) => k = "armvm"
           /\ "XSAVE" \in Carried(k) => k \in {"vmx", "svm"}
           /\ "SYSCALL" \in Carried(k) \/ "KERNEL_GS_BASE" \in Carried(k) => k \in {"vmx", "svm"}
           /\ "INJ" \in Items(k) => "INJ" \notin ReadOnly(k)
<1>1. CASE k = "exc"
  BY <1>1 DEF Items, Carried, ReadOnly, WriteOnly, ExcItems
<1>2. CASE k = "vmx"
  BY <1>2 DEF Items, Carried, ReadOnly, WriteOnly, VmxItems, SvmItems, ExcItems
<1>3. CASE k = "svm"
  BY <1>3 DEF Items, Carried, ReadOnly, WriteOnly, SvmItems, ExcItems
<1>4. CASE k = "arm"
  BY <1>4 DEF Items, Carried, ReadOnly, WriteOnly, ArmItems
<1>5. CASE k = "armvm"
  BY <1>5 DEF Items, Carried, ReadOnly, WriteOnly, ArmVmItems, ArmItems
<1> QED
  BY <1>1, <1>2, <1>3, <1>4, <1>5 DEF UKindSet

\* An MTD names items, POISON and SPACES.
LEMMA MtdSets ==
    ASSUME NEW k \in UKindSet, NEW m \in Mtds(k)
    PROVE  m \subseteq Items(k) \cup {"POISON", "SPACES"}
BY DEF Mtds, MtdItems

\* A choice from a set that is not empty.
LEMMA NthIn ==
    ASSUME NEW S, S # {}, NEW n PROVE Nth(S, n) \in S
<1> DEFINE a == CHOOSE x \in S : TRUE
<1> DEFINE b == IF S = {a} THEN a ELSE CHOOSE x \in S : x # a
<1> DEFINE c == IF S \subseteq {a, b} THEN b ELSE CHOOSE x \in S : x \notin {a, b}
<1>1. a \in S
  OBVIOUS
<1> HIDE DEF a
<1>2. b \in S
  BY <1>1
<1> HIDE DEF b
<1>3. c \in S
  BY <1>2
<1> HIDE DEF c
<1>4. Nth(S, n) = CASE n = 0 -> a [] n = 1 -> b [] OTHER -> c
  BY DEF Nth, a, b, c
<1>5. n = 0 \/ (n # 0 /\ n = 1) \/ (n # 0 /\ n # 1)
  OBVIOUS
<1> QED
  BY <1>1, <1>2, <1>3, <1>4, <1>5

LEMMA MoveBits ==
    ASSUME NEW x, NEW P, NEW y
    PROVE  y \in Move(x, P) <=> \E p \in P : \E c \in x : p[1] <= c /\ c <= p[2] /\ y = c - p[1] + p[3]
BY DEF Move

\* Access rights of a segment survive the way to the UTCB and back.
LEMMA SegmentRoundTrip ==
    ASSUME NEW x, x \subseteq (0 .. 7) \cup (12 .. 16)
    PROVE  ArFromUtcb(ArToUtcb(x)) = x
<1>v. PICK v : v = x
  OBVIOUS
<1>w. v \subseteq Int
  BY <1>v
<1>a. \A y : y \in ArToUtcb(v) <=> \E c \in v : (c \in 0 .. 7 /\ y = c) \/ (c \in 12 .. 16 /\ y = c - 4)
  <2> SUFFICES ASSUME NEW y PROVE y \in ArToUtcb(v) <=> \E c \in v : (c \in 0 .. 7 /\ y = c) \/ (c \in 12 .. 16 /\ y = c - 4)
    OBVIOUS
  <2>p. PICK P : P = {<<0, 7, 0>>, <<12, 16, 8>>}
    OBVIOUS
  <2>m. ArToUtcb(v) = Move(v, P)
    BY <2>p, Zenon DEF ArToUtcb
  <2>n. y \in Move(v, P) <=> \E p \in P : \E c \in v : p[1] <= c /\ c <= p[2] /\ y = c - p[1] + p[3]
    BY MoveBits
  <2>1. y \in ArToUtcb(v) <=> \E p \in {<<0, 7, 0>>, <<12, 16, 8>>} : \E c \in v : p[1] <= c /\ c <= p[2] /\ y = c - p[1] + p[3]
    BY <2>p, <2>m, <2>n
  <2>2. y \in ArToUtcb(v) <=> (\E c \in v : 0 <= c /\ c <= 7 /\ y = c - 0 + 0) \/ (\E c \in v : 12 <= c /\ c <= 16 /\ y = c - 12 + 8)
    BY <2>1
  <2> QED
    BY <1>w, <2>2
<1>1. \A y : y \in ArToUtcb(x) <=> \E c \in x : (c \in 0 .. 7 /\ y = c) \/ (c \in 12 .. 16 /\ y = c - 4)
  BY <1>v, <1>a, Zenon
<1> DEFINE u == ArToUtcb(x)
<1>2. u \subseteq Int
  BY <1>1
<1>3. \A y : y \in ArFromUtcb(u) <=> \E c \in u : (c \in 0 .. 7 /\ y = c) \/ (c \in 8 .. 12 /\ y = c + 4)
  <2> HIDE DEF u
  <2> SUFFICES ASSUME NEW y PROVE y \in ArFromUtcb(u) <=> \E c \in u : (c \in 0 .. 7 /\ y = c) \/ (c \in 8 .. 12 /\ y = c + 4)
    OBVIOUS
  <2>p. PICK P : P = {<<0, 7, 0>>, <<8, 12, 12>>}
    OBVIOUS
  <2>m. ArFromUtcb(u) = Move(u, P)
    BY <2>p, Zenon DEF ArFromUtcb
  <2>n. y \in Move(u, P) <=> \E p \in P : \E c \in u : p[1] <= c /\ c <= p[2] /\ y = c - p[1] + p[3]
    BY MoveBits
  <2>1. y \in ArFromUtcb(u) <=> \E p \in {<<0, 7, 0>>, <<8, 12, 12>>} : \E c \in u : p[1] <= c /\ c <= p[2] /\ y = c - p[1] + p[3]
    BY <2>p, <2>m, <2>n
  <2>2. y \in ArFromUtcb(u) <=> (\E c \in u : 0 <= c /\ c <= 7 /\ y = c - 0 + 0) \/ (\E c \in u : 8 <= c /\ c <= 12 /\ y = c - 8 + 12)
    BY <2>1
  <2> QED
    BY <1>2, <2>2
<1>4. ASSUME NEW y \in ArFromUtcb(u) PROVE y \in x
  <2>1. PICK c \in u : (c \in 0 .. 7 /\ y = c) \/ (c \in 8 .. 12 /\ y = c + 4)
    BY <1>3, <1>4
  <2>2. PICK d \in x : (d \in 0 .. 7 /\ c = d) \/ (d \in 12 .. 16 /\ c = d - 4)
    BY <1>1
  <2> QED
    BY <2>1, <2>2
<1>5. ASSUME NEW y \in x PROVE y \in ArFromUtcb(u)
  <2>1. CASE y \in 0 .. 7
    <3>1. y \in u
      BY <1>1, <2>1
    <3> QED
      BY <1>3, <2>1, <3>1
  <2>2. CASE y \in 12 .. 16
    <3>1. y - 4 \in u /\ y - 4 \in 8 .. 12 /\ y = (y - 4) + 4
      BY <1>1, <2>2
    <3> HIDE DEF u
    <3> QED
      BY <1>3, <3>1
  <2> QED
    BY <2>1, <2>2
<1> HIDE DEF u
<1>6. ArFromUtcb(u) = x
  BY <1>4, <1>5
<1> QED
  BY <1>6 DEF u

\* A list register of a GICv2 survives the way to the UTCB and back.
LEMMA ListRegisterRoundTrip ==
    ASSUME NEW x, x \subseteq (0 .. 19) \cup (23 .. 31)
    PROVE  LrFromUtcb(LrToUtcb(x)) = x
<1> DEFINE T(c, y) == \/ (c \in 28 .. 29 /\ y = c + 34) \/ (c \in 30 .. 31 /\ y = c + 30)
                      \/ (c \in 23 .. 27 /\ y = c + 28) \/ (c \in 10 .. 19 /\ y = c + 22)
                      \/ (c \in 0 .. 9 /\ y = c)
<1> DEFINE F(c, y) == \/ (c \in 62 .. 63 /\ y = c - 34) \/ (c \in 60 .. 61 /\ y = c - 30)
                      \/ (c \in 51 .. 55 /\ y = c - 28) \/ (c \in 32 .. 41 /\ y = c - 22)
                      \/ (c \in 0 .. 9 /\ y = c)
<1>v. PICK v : v = x
  OBVIOUS
<1>w. v \subseteq Int
  BY <1>v
<1>a. ASSUME NEW y PROVE y \in LrToUtcb(v) <=> \E c \in v : T(c, y)
  <2> DEFINE A(l, h, n) == \E c \in v : l <= c /\ c <= h /\ y = c - l + n
  <2>p. PICK P : P = {<<28, 29, 62>>, <<30, 31, 60>>, <<23, 27, 51>>, <<10, 19, 32>>, <<0, 9, 0>>}
    OBVIOUS
  <2>m. LrToUtcb(v) = Move(v, P)
    BY <2>p, Zenon DEF LrToUtcb
  <2>n. y \in Move(v, P) <=> \E p \in P : \E c \in v : p[1] <= c /\ c <= p[2] /\ y = c - p[1] + p[3]
    BY MoveBits
  <2>1. y \in LrToUtcb(v) <=> \E p \in {<<28, 29, 62>>, <<30, 31, 60>>, <<23, 27, 51>>, <<10, 19, 32>>, <<0, 9, 0>>} :
                                 \E c \in v : p[1] <= c /\ c <= p[2] /\ y = c - p[1] + p[3]
    BY <2>p, <2>m, <2>n
  <2>2. y \in LrToUtcb(v) <=> \E p \in {<<28, 29, 62>>, <<30, 31, 60>>, <<23, 27, 51>>, <<10, 19, 32>>, <<0, 9, 0>>} :
                                 A(p[1], p[2], p[3])
    BY <2>1
  <2>3. A(28, 29, 62) <=> \E c \in v : c \in 28 .. 29 /\ y = c + 34
    BY <1>w
  <2>4. A(30, 31, 60) <=> \E c \in v : c \in 30 .. 31 /\ y = c + 30
    BY <1>w
  <2>5. A(23, 27, 51) <=> \E c \in v : c \in 23 .. 27 /\ y = c + 28
    BY <1>w
  <2>6. A(10, 19, 32) <=> \E c \in v : c \in 10 .. 19 /\ y = c + 22
    BY <1>w
  <2>7. A(0, 9, 0) <=> \E c \in v : c \in 0 .. 9 /\ y = c
    BY <1>w
  <2> HIDE DEF A
  <2>8. y \in LrToUtcb(v) <=> A(28, 29, 62) \/ A(30, 31, 60) \/ A(23, 27, 51) \/ A(10, 19, 32) \/ A(0, 9, 0)
    BY <2>2
  <2>9. A(28, 29, 62) => \E c \in v : T(c, y)
    BY <2>3
  <2>10. A(30, 31, 60) => \E c \in v : T(c, y)
    BY <2>4
  <2>11. A(23, 27, 51) => \E c \in v : T(c, y)
    BY <2>5
  <2>12. A(10, 19, 32) => \E c \in v : T(c, y)
    BY <2>6
  <2>13. A(0, 9, 0) => \E c \in v : T(c, y)
    BY <2>7
  <2>14. ASSUME NEW c \in v, T(c, y) PROVE A(28, 29, 62) \/ A(30, 31, 60) \/ A(23, 27, 51) \/ A(10, 19, 32) \/ A(0, 9, 0)
    BY <2>3, <2>4, <2>5, <2>6, <2>7, <2>14
  <2> HIDE DEF T, F
  <2> QED
    BY <2>8, <2>9, <2>10, <2>11, <2>12, <2>13, <2>14
<1>1. \A y : y \in LrToUtcb(x) <=> \E c \in x : T(c, y)
  <2> HIDE DEF T
  <2> QED
    BY <1>v, <1>a, Zenon
<1> DEFINE u == LrToUtcb(x)
<1>2. u \subseteq Int
  BY <1>1
<1>3. ASSUME NEW y PROVE y \in LrFromUtcb(u) <=> \E c \in u : F(c, y)
  <2> HIDE DEF u
  <2> DEFINE A(l, h, n) == \E c \in u : l <= c /\ c <= h /\ y = c - l + n
  <2>p. PICK P : P = {<<62, 63, 28>>, <<60, 61, 30>>, <<51, 55, 23>>, <<32, 41, 10>>, <<0, 9, 0>>}
    OBVIOUS
  <2>m. LrFromUtcb(u) = Move(u, P)
    BY <2>p, Zenon DEF LrFromUtcb
  <2>n. y \in Move(u, P) <=> \E p \in P : \E c \in u : p[1] <= c /\ c <= p[2] /\ y = c - p[1] + p[3]
    BY MoveBits
  <2>1. y \in LrFromUtcb(u) <=> \E p \in {<<62, 63, 28>>, <<60, 61, 30>>, <<51, 55, 23>>, <<32, 41, 10>>, <<0, 9, 0>>} :
                                 \E c \in u : p[1] <= c /\ c <= p[2] /\ y = c - p[1] + p[3]
    BY <2>p, <2>m, <2>n
  <2>2. y \in LrFromUtcb(u) <=> \E p \in {<<62, 63, 28>>, <<60, 61, 30>>, <<51, 55, 23>>, <<32, 41, 10>>, <<0, 9, 0>>} :
                                 A(p[1], p[2], p[3])
    BY <2>1
  <2>3. A(62, 63, 28) <=> \E c \in u : c \in 62 .. 63 /\ y = c - 34
    BY <1>2
  <2>4. A(60, 61, 30) <=> \E c \in u : c \in 60 .. 61 /\ y = c - 30
    BY <1>2
  <2>5. A(51, 55, 23) <=> \E c \in u : c \in 51 .. 55 /\ y = c - 28
    BY <1>2
  <2>6. A(32, 41, 10) <=> \E c \in u : c \in 32 .. 41 /\ y = c - 22
    BY <1>2
  <2>7. A(0, 9, 0) <=> \E c \in u : c \in 0 .. 9 /\ y = c
    BY <1>2
  <2> HIDE DEF A
  <2>8. y \in LrFromUtcb(u) <=> A(62, 63, 28) \/ A(60, 61, 30) \/ A(51, 55, 23) \/ A(32, 41, 10) \/ A(0, 9, 0)
    BY <2>2
  <2>9. A(62, 63, 28) => \E c \in u : F(c, y)
    BY <2>3
  <2>10. A(60, 61, 30) => \E c \in u : F(c, y)
    BY <2>4
  <2>11. A(51, 55, 23) => \E c \in u : F(c, y)
    BY <2>5
  <2>12. A(32, 41, 10) => \E c \in u : F(c, y)
    BY <2>6
  <2>13. A(0, 9, 0) => \E c \in u : F(c, y)
    BY <2>7
  <2>14. ASSUME NEW c \in u, F(c, y) PROVE A(62, 63, 28) \/ A(60, 61, 30) \/ A(51, 55, 23) \/ A(32, 41, 10) \/ A(0, 9, 0)
    BY <2>3, <2>4, <2>5, <2>6, <2>7, <2>14
  <2> HIDE DEF T, F
  <2> QED
    BY <2>8, <2>9, <2>10, <2>11, <2>12, <2>13, <2>14
<1>4. ASSUME NEW y \in LrFromUtcb(u) PROVE y \in x
  <2>1. PICK c \in u : F(c, y)
    BY <1>3, <1>4
  <2>2. PICK d \in x : T(d, c)
    BY <1>1
  <2> QED
    BY <2>1, <2>2
<1>5. ASSUME NEW y \in x PROVE y \in LrFromUtcb(u)
  <2>1. PICK c : T(y, c) /\ F(c, y)
    <3>1. CASE y \in 28 .. 29
      <4>1. T(y, y + 34)
        BY <3>1
      <4>2. F(y + 34, y)
        BY <3>1
      <4> HIDE DEF T, F
      <4> QED
        BY <4>1, <4>2
    <3>2. CASE y \in 30 .. 31
      <4>1. T(y, y + 30)
        BY <3>2
      <4>2. F(y + 30, y)
        BY <3>2
      <4> HIDE DEF T, F
      <4> QED
        BY <4>1, <4>2
    <3>3. CASE y \in 23 .. 27
      <4>1. T(y, y + 28)
        BY <3>3
      <4>2. F(y + 28, y)
        BY <3>3
      <4> HIDE DEF T, F
      <4> QED
        BY <4>1, <4>2
    <3>4. CASE y \in 10 .. 19
      <4>1. T(y, y + 22)
        BY <3>4
      <4>2. F(y + 22, y)
        BY <3>4
      <4> HIDE DEF T, F
      <4> QED
        BY <4>1, <4>2
    <3>5. CASE y \in 0 .. 9
      <4>1. T(y, y) /\ F(y, y)
        BY <3>5
      <4> QED
        BY <4>1
    <3>6. y \in 28 .. 29 \/ y \in 30 .. 31 \/ y \in 23 .. 27 \/ y \in 10 .. 19 \/ y \in 0 .. 9
      OBVIOUS
    <3> HIDE DEF T, F
    <3> QED
      BY <3>1, <3>2, <3>3, <3>4, <3>5, <3>6
  <2> HIDE DEF T, F
  <2>2. c \in u
    BY <1>1, <2>1
  <2> HIDE DEF u
  <2> QED
    BY <1>3, <2>1, <2>2
<1> HIDE DEF u
<1>6. LrFromUtcb(u) = x
  BY <1>4, <1>5
<1> QED
  BY <1>6 DEF u

\* What the hardware holds is legal, and in the format of the hardware.
LEMMA HeldLegal ==
    ASSUME NEW k \in UKindSet, NEW i \in Carried(k), NEW hcr, NEW x \in Held(k, i, hcr),
           i = "EL2_HCR" => "TSC" \in hcr /\ hcr \cap {"NV", "E2H"} = {}
    PROVE  /\ ItemLegal(k, i, x) /\ ItemFormat(k, i, x)
           /\ k = "armvm" /\ i = "EL2_ELR_SPSR" => ModeLegal(hcr, x)
           /\ i = "EL2_HCR" => x = hcr
<1>1. CASE k = "exc" /\ i = "RFLAGS"
  <2>1. x \in {{"1", "IF", "AC"}, {"1", "IF", "CF", "NT"}}
    BY <1>1 DEF Held, Segments
  <2> QED
    BY <1>1, <2>1 DEF ItemLegal, ItemFormat
<1>2. CASE k = "vmx" /\ i \in Segments
  <2>1. x \in {{0, 7, 12}, {16}}
    BY <1>2 DEF Held, Segments
  <2> QED
    BY <1>2, <2>1 DEF ItemLegal, ItemFormat, Segments
<1>3. CASE i = "XSAVE"
  <2>1. x \in {{"X87"}, ManagedXcr}
    BY <1>3 DEF Held, Segments
  <2>2. XcrLegal(x) /\ x \subseteq ManagedXcr
    BY <2>1, UtcbAssumption DEF XcrLegal
  <2> QED
    BY <1>3, <2>2 DEF ItemLegal, ItemFormat, Segments
<1>4. CASE i \in {"SYSCALL", "KERNEL_GS_BASE"}
  <2>1. x \in {{}, {"legal"}}
    BY <1>4 DEF Held, Segments
  <2> QED
    BY <1>4, <2>1 DEF ItemLegal, ItemFormat, Segments
<1>5. CASE k = "arm" /\ i = "EL2_ELR_SPSR"
  <2>1. x \in {{}, {"NZCV"}}
    BY <1>5 DEF Held, Segments
  <2> QED
    BY <1>5, <2>1 DEF ItemLegal, ItemFormat
<1>6. CASE k = "armvm" /\ i = "EL2_ELR_SPSR"
  <2>1. x \in IF "RW" \in hcr THEN {{}, {"NZCV"}} ELSE {{"A32"}, {"A32", "NZCV"}}
    BY <1>6 DEF Held, Segments
  <2>2. ModeLegal(hcr, x)
    BY <2>1 DEF ModeLegal
  <2> QED
    BY <1>6, <2>2 DEF ItemLegal, ItemFormat
<1>7. CASE i = "EL2_HCR"
  <2>1. x = hcr
    BY <1>7 DEF Held, Segments
  <2> QED
    BY <1>7, <2>1 DEF ItemLegal, ItemFormat, Segments
<1>8. CASE i = "GIC"
  <2>1. x \in IF Gicv2 THEN {{0, 9, 10, 19, 23, 27}, {28, 29, 30, 31}} ELSE {{0, 63}, {32, 55}}
    BY <1>8 DEF Held, Segments
  <2>2. Gicv2 => x \subseteq (0 .. 19) \cup (23 .. 31)
    BY <2>1
  <2> QED
    BY <1>8, <2>2 DEF ItemLegal, ItemFormat, Segments
<1>9. CASE /\ ~(k = "exc" /\ i = "RFLAGS") /\ ~(k = "vmx" /\ i \in Segments) /\ i # "XSAVE"
           /\ i \notin {"SYSCALL", "KERNEL_GS_BASE"} /\ ~(k \in {"arm", "armvm"} /\ i = "EL2_ELR_SPSR")
           /\ i # "EL2_HCR" /\ i # "GIC"
  BY <1>9 DEF ItemLegal, ItemFormat
<1> QED
  BY <1>1, <1>2, <1>3, <1>4, <1>5, <1>6, <1>7, <1>8, <1>9

LEMMA HeldSome ==
    ASSUME NEW k, NEW i, NEW hcr PROVE Held(k, i, hcr) # {}
BY DEF Held

\* What save stores is legal, whatever the handler wrote.
LEMMA SavedLegal ==
    ASSUME NEW k \in UKindSet, NEW i \in Carried(k), NEW x
    PROVE  ItemLegal(k, i, FromUtcb(k, i, x))
<1> DEFINE y == FromUtcb(k, i, x)
<1>1. CASE k = "exc" /\ i = "RFLAGS"
  <2>1. y = UserFlags(x)
    BY <1>1 DEF FromUtcb, SaveExc
  <2> QED
    BY <1>1, <2>1 DEF ItemLegal, UserFlags
<1>2. CASE k = "arm" /\ i = "EL2_ELR_SPSR"
  <2>1. y = UserSpsr(x)
    BY <1>2 DEF FromUtcb, SaveArm
  <2> QED
    BY <1>2, <2>1 DEF ItemLegal, UserSpsr
<1>3. CASE i = "XSAVE"
  <2>1. k \in {"vmx", "svm"}
    BY <1>3, ItemSets
  <2>2. y = ConstrainXcr(x)
    BY <1>3, <2>1 DEF FromUtcb, SaveVmx, SaveSvm, SaveRegs, Segments
  <2>3. XcrLegal(ManagedXcr)
    BY UtcbAssumption
  <2>4. ConstrainXcr(x) \subseteq ManagedXcr
    BY DEF ConstrainXcr
  <2>5. XcrLegal(ConstrainXcr(x))
    BY <2>3 DEF XcrLegal, ConstrainXcr
  <2> QED
    BY <1>3, <2>2, <2>4, <2>5 DEF ItemLegal
<1>4. CASE i \in {"SYSCALL", "KERNEL_GS_BASE"}
  <2>1. k \in {"vmx", "svm"}
    BY <1>4, ItemSets
  <2>2. y = ConstrainMsr(x)
    BY <1>4, <2>1 DEF FromUtcb, SaveVmx, SaveSvm, SaveRegs, Segments
  <2> QED
    BY <1>4, <2>2 DEF ItemLegal, ConstrainMsr
<1>5. CASE i = "EL2_HCR"
  <2>1. k = "armvm"
    BY <1>5, ItemSets
  <2>2. y = ConstrainHcr(x)
    BY <1>5, <2>1 DEF FromUtcb, SaveArmVm
  <2> QED
    BY <1>5, <2>2 DEF ItemLegal, ConstrainHcr
<1> HIDE DEF y
<1>6. CASE /\ ~(k = "exc" /\ i = "RFLAGS") /\ ~(k = "arm" /\ i = "EL2_ELR_SPSR") /\ i # "XSAVE"
           /\ i \notin {"SYSCALL", "KERNEL_GS_BASE"} /\ i # "EL2_HCR"
  BY <1>6 DEF ItemLegal
<1> QED
  BY <1>1, <1>2, <1>3, <1>4, <1>5, <1>6

\* An item that the handler left alone comes back as it was.
LEMMA ItemRoundTrip ==
    ASSUME ukind \in UKindSet, NEW i \in Carried(ukind), NEW x, ItemLegal(ukind, i, x), ItemFormat(ukind, i, x)
    PROVE  Comparable(i, FromUtcb(ukind, i, ToUtcb(ukind, i, x))) = Comparable(i, x)
<1>0. i # "INJ"
  BY ItemSets
<1> DEFINE y == FromUtcb(ukind, i, ToUtcb(ukind, i, x))
<1>1. CASE ukind = "exc"
  <2>1. ToUtcb(ukind, i, x) = x /\ y = SaveExc(i, x)
    BY <1>1 DEF ToUtcb, FromUtcb
  <2>2. CASE i = "RFLAGS"
    <3>1. Comparable(i, y) = UserFlags(x) \cap {"CF"} /\ Comparable(i, x) = x \cap {"CF"}
      BY <1>1, <2>1, <2>2 DEF Comparable, SaveExc
    <3>2. UserFlags(x) \cap {"CF"} = x \cap {"CF"}
      BY DEF UserFlags
    <3> QED
      BY <3>1, <3>2
  <2>3. CASE i # "RFLAGS"
    BY <2>1, <2>3 DEF SaveExc
  <2> QED
    BY <2>2, <2>3
<1>2. ASSUME y = x PROVE Comparable(i, y) = Comparable(i, x)
  BY <1>2
<1>3. ASSUME i = "XSAVE" PROVE ConstrainXcr(x) = x
  <2>1. XcrLegal(x) /\ x \subseteq ManagedXcr
    BY <1>3 DEF ItemLegal
  <2> QED
    BY <2>1 DEF XcrLegal, ConstrainXcr
<1>4. ASSUME i \in {"SYSCALL", "KERNEL_GS_BASE"} PROVE ConstrainMsr(x) = x
  BY <1>4 DEF ItemLegal, ConstrainMsr
<1>5. SaveRegs(i, x) = x
  BY <1>3, <1>4 DEF SaveRegs
<1>6. CASE ukind = "vmx"
  <2>1. CASE i \in Segments
    <3>1. ToUtcb(ukind, i, x) = ArToUtcb(x)
      BY <1>6, <2>1 DEF ToUtcb
    <3>2. y = ArFromUtcb(ArToUtcb(x))
      BY <1>6, <2>1, <3>1 DEF FromUtcb, SaveVmx
    <3>3. x \subseteq (0 .. 7) \cup (12 .. 16)
      BY <1>6, <2>1 DEF ItemFormat
    <3>4. y = x
      BY <3>2, <3>3, SegmentRoundTrip
    <3> QED
      BY <1>2, <3>4
  <2>2. CASE i \notin Segments
    <3>1. ToUtcb(ukind, i, x) = x
      BY <1>6, <2>2 DEF ToUtcb
    <3>2. y = x
      BY <1>5, <1>6, <2>2, <3>1 DEF FromUtcb, SaveVmx
    <3> QED
      BY <1>2, <3>2
  <2> QED
    BY <2>1, <2>2
<1>7. CASE ukind = "svm"
  <2>1. ToUtcb(ukind, i, x) = x
    BY <1>7 DEF ToUtcb
  <2>2. y = x
    BY <1>5, <1>7, <2>1 DEF FromUtcb, SaveSvm
  <2> QED
    BY <1>2, <2>2
<1>8. CASE ukind = "arm"
  <2>1. ToUtcb(ukind, i, x) = x
    BY <1>8 DEF ToUtcb
  <2>2. i = "EL2_ELR_SPSR" => UserSpsr(x) = x
    BY <1>8 DEF UserSpsr, ItemLegal
  <2>3. y = x
    BY <1>8, <2>1, <2>2 DEF FromUtcb, SaveArm
  <2> QED
    BY <1>2, <2>3
<1>9. CASE ukind = "armvm"
  <2>1. CASE i = "GIC" /\ Gicv2
    <3>1. ToUtcb(ukind, i, x) = LrToUtcb(x)
      BY <1>9, <2>1 DEF ToUtcb
    <3>2. y = LrFromUtcb(LrToUtcb(x))
      BY <1>9, <2>1, <3>1 DEF FromUtcb, SaveArmVm
    <3>3. x \subseteq (0 .. 19) \cup (23 .. 31)
      BY <1>9, <2>1 DEF ItemFormat
    <3>4. y = x
      BY <3>2, <3>3, ListRegisterRoundTrip
    <3> QED
      BY <1>2, <3>4
  <2>2. CASE ~(i = "GIC" /\ Gicv2)
    <3>1. ToUtcb(ukind, i, x) = x
      BY <1>9, <2>2 DEF ToUtcb
    <3>2. i = "EL2_HCR" => ConstrainHcr(x) = x
      BY <1>9 DEF ConstrainHcr, ItemLegal
    <3>3. y = x
      BY <1>9, <2>2, <3>1, <3>2 DEF FromUtcb, SaveArmVm
    <3> QED
      BY <1>2, <3>3
  <2> QED
    BY <2>1, <2>2
<1> QED
  BY <1>1, <1>6, <1>7, <1>8, <1>9 DEF UKindSet

LEMMA UtcbKind ==
    ASSUME UtcbTypes PROVE ukind \in UKindSet
BY UtcbAssumption DEF UtcbTypes, UtcbType, UKindSet

LEMMA UtcbInvInit ==
    ASSUME UtcbInit
    PROVE  UtcbInv
<1>0. ukind \in UKindSet
  BY UtcbAssumption DEF UtcbInit, UKindSet
<1>1. ASSUME NEW i \in Items(ukind)
      PROVE  ustate[i] = IF i = "RFLAGS" THEN {"1", "IF", "AC"}
                         ELSE IF i = "EL2_HCR" THEN ConstrainHcr({})
                         ELSE IF i = "XSAVE" THEN {"X87"} ELSE {}
  BY DEF UtcbInit
<1>2. Carried(ukind) \subseteq Items(ukind)
  BY <1>0, ItemSets
<1>3. ItemsLegal
  <2> SUFFICES ASSUME NEW i \in Carried(ukind) PROVE ItemLegal(ukind, i, ustate[i])
    BY DEF ItemsLegal
  <2>1. CASE i = "RFLAGS"
    BY <1>1, <1>2, <2>1 DEF ItemLegal
  <2>2. CASE i = "EL2_HCR"
    BY <1>1, <1>2, <2>2 DEF ItemLegal, ConstrainHcr
  <2>3. CASE i = "XSAVE"
    <3>1. ustate[i] = {"X87"}
      BY <1>1, <1>2, <2>3
    <3>2. XcrLegal({"X87"}) /\ "X87" \in ManagedXcr
      BY UtcbAssumption DEF XcrLegal
    <3> QED
      BY <2>3, <3>1, <3>2 DEF ItemLegal
  <2>4. CASE i \notin {"RFLAGS", "EL2_HCR", "XSAVE"}
    <3>1. ustate[i] = {}
      BY <1>1, <1>2, <2>4
    <3> QED
      BY <2>4, <3>1 DEF ItemLegal
  <2> QED
    BY <2>1, <2>2, <2>3, <2>4
<1>4. ASSUME NEW i \in Carried(ukind) PROVE ItemFormat(ukind, i, ustate[i])
  <2>1. CASE i \in Segments \/ i = "GIC"
    <3>1. ustate[i] = {}
      BY <1>1, <1>2, <2>1 DEF Segments
    <3> QED
      BY <3>1 DEF ItemFormat
  <2>2. CASE ~(i \in Segments \/ i = "GIC")
    BY <2>2 DEF ItemFormat
  <2> QED
    BY <2>1, <2>2
<1>5. UtcbTypes
  <2>1. DOMAIN ustate = Items(ukind) /\ DOMAIN utcb = Items(ukind) /\ uheld = ustate
    BY DEF UtcbInit
  <2>2. uspaces \in {"none", "own", "other"} /\ uillegal \in BOOLEAN
    BY DEF UtcbInit, Vm
  <2> QED
    BY <2>1, <2>2 DEF UtcbInit, UtcbTypes, UtcbType
<1>6. UntilReply
  BY <1>4 DEF UtcbInit, UntilReply
<1>7. Transparent
  BY DEF UtcbInit, Transparent
<1>8. AddressesOwn
  BY DEF UtcbInit, AddressesOwn
<1>9. SpacesOwn /\ ModesFit
  BY DEF UtcbInit, SpacesOwn, ModesFit, Vm
<1> QED
  BY <1>3, <1>5, <1>6, <1>7, <1>8, <1>9 DEF UtcbInv

LEMMA UTrapKeeps ==
    ASSUME UtcbInv, NEW n, NEW ev \in {"fault", "recall", "other"}, UTrap(n, ev)
    PROVE  UtcbInv'
<1>0. ukind \in UKindSet
  BY UtcbKind DEF UtcbInv
<1>1. PICK hcr : hcr = IF ukind = "armvm" THEN ustate["EL2_HCR"] ELSE {}
  OBVIOUS
<1>2. ustate' = [i \in Items(ukind) |->
                        IF i \in Carried(ukind) THEN Nth(Held(ukind, i, hcr), n)
                        ELSE IF i = "INJ" /\ ev # "recall" THEN ustate[i] \ {"ev"}
                        ELSE ustate[i]]
  BY <1>1 DEF UTrap
<1>3. /\ ustep = "run" /\ ustep' = "sent" /\ uevent' = ev /\ uheld' = ustate'
      /\ ufar' = (IF ev = "fault" THEN "own" ELSE ufar)
      /\ utcb' = [i \in Items(ukind) |-> {}] /\ ugot' = {}
      /\ ukind' = ukind /\ uspaces' = uspaces /\ uillegal' = uillegal /\ umode' = umode
  BY DEF UTrap
<1>4. Carried(ukind) \subseteq Items(ukind)
  BY <1>0, ItemSets
<1>5. ASSUME NEW i \in Carried(ukind) PROVE ustate'[i] \in Held(ukind, i, hcr)
  <2>1. ustate'[i] = Nth(Held(ukind, i, hcr), n)
    BY <1>2, <1>4
  <2> QED
    BY <2>1, HeldSome, NthIn
<1>6. ukind = "armvm" => {"EL2_HCR", "EL2_ELR_SPSR"} \subseteq Carried(ukind)
  BY <1>0, ItemSets
<1>7. "EL2_HCR" \in Carried(ukind) => ukind = "armvm" /\ "TSC" \in hcr /\ hcr \cap {"NV", "E2H"} = {}
  <2>1. "EL2_HCR" \in Carried(ukind) => ukind = "armvm"
    BY <1>0, ItemSets
  <2>2. ukind = "armvm" => ItemLegal(ukind, "EL2_HCR", hcr)
    BY <1>1, <1>6 DEF UtcbInv, ItemsLegal
  <2> QED
    BY <2>1, <2>2 DEF ItemLegal
<1>8. ASSUME NEW i \in Carried(ukind)
      PROVE  /\ ItemLegal(ukind, i, ustate'[i]) /\ ItemFormat(ukind, i, ustate'[i])
             /\ ukind = "armvm" /\ i = "EL2_ELR_SPSR" => ModeLegal(hcr, ustate'[i])
             /\ i = "EL2_HCR" => ustate'[i] = hcr
  <2>1. i = "EL2_HCR" => "TSC" \in hcr /\ hcr \cap {"NV", "E2H"} = {}
    BY <1>7
  <2>2. ustate'[i] \in Held(ukind, i, hcr)
    BY <1>5
  <2> QED
    BY <1>0, <2>1, <2>2, HeldLegal
<1>9. UtcbTypes'
  BY <1>2, <1>3 DEF UtcbInv, UtcbTypes, UtcbType
<1>10. ItemsLegal'
  BY <1>3, <1>8 DEF ItemsLegal
<1>11. UntilReply'
  BY <1>3, <1>8 DEF UntilReply
<1>12. Transparent'
  BY <1>3 DEF Transparent
<1>13. AddressesOwn'
  BY <1>3 DEF AddressesOwn
<1>14. SpacesOwn'
  BY <1>3 DEF UtcbInv, SpacesOwn
<1>15. ModesFit'
  BY <1>3, <1>6, <1>8 DEF ModesFit
<1> QED
  BY <1>9, <1>10, <1>11, <1>12, <1>13, <1>14, <1>15 DEF UtcbInv

LEMMA UOtherKeeps ==
    ASSUME UtcbInv, UOther
    PROVE  UtcbInv'
<1>1. ustep = "run" /\ ufar' = "other"
      /\ UNCHANGED <<ukind, ustep, ustate, utcb, uheld, ugot, uspaces, uillegal, umode, uevent>>
  BY DEF UOther
<1>2. UtcbTypes' /\ ItemsLegal'
  BY <1>1 DEF UtcbInv, UtcbTypes, UtcbType, ItemsLegal
<1>3. UntilReply' /\ Transparent'
  BY <1>1 DEF UtcbInv, UntilReply, Transparent, Comparable
<1>4. AddressesOwn' /\ SpacesOwn' /\ ModesFit'
  BY <1>1 DEF UtcbInv, AddressesOwn, SpacesOwn, ModesFit
<1> QED
  BY <1>2, <1>3, <1>4 DEF UtcbInv

LEMMA ULoadKeeps ==
    ASSUME UtcbInv, NEW m \in Mtds(ukind), ULoad(m)
    PROVE  UtcbInv'
<1>0. ukind \in UKindSet
  BY UtcbKind DEF UtcbInv
<1>1. /\ ustep = "sent" /\ ustep' = "handler"
      /\ ugot' = m \cap (Carried(ukind) \cup (IF uevent = "recall" THEN {"INJ"} ELSE {}))
      /\ UNCHANGED <<ukind, ustate, uheld, uspaces, uillegal, umode, ufar, uevent>>
  BY DEF ULoad
<1>2. utcb' = [i \in Items(ukind) |->
                  IF i \notin m THEN utcb[i]
                  ELSE IF i \in Carried(ukind) THEN ToUtcb(ukind, i, ustate[i])
                  ELSE IF i \in {"EL2_ESR_FAR", "EL2_HPFAR"} THEN {FaultItems}
                  ELSE IF i = "INJ" THEN PendingEvent
                  ELSE utcb[i]]
  BY DEF ULoad
<1>3. Carried(ukind) \subseteq Items(ukind)
      /\ \A i \in Carried(ukind) : i \notin {"EL2_ESR_FAR", "EL2_HPFAR", "INJ"}
  BY <1>0, ItemSets
<1>4. m \subseteq Items(ukind) \cup {"POISON", "SPACES"}
  BY <1>0, MtdSets
<1>5. ugot' \subseteq Items(ukind)
  BY <1>1, <1>3, <1>4
<1>6. UtcbTypes'
  BY <1>1, <1>2, <1>5 DEF UtcbInv, UtcbTypes, UtcbType
<1>7. ItemsLegal'
  BY <1>1 DEF UtcbInv, ItemsLegal
<1>8. UntilReply'
  <2>1. uheld' = ustate' /\ \A i \in Carried(ukind') : ItemFormat(ukind', i, ustate'[i])
    BY <1>1 DEF UtcbInv, UntilReply
  <2>2. ASSUME NEW i \in ugot'
        PROVE  \/ i \in Carried(ukind') /\ utcb'[i] = ToUtcb(ukind', i, ustate'[i])
               \/ i = "INJ" /\ i \in Items(ukind') /\ utcb'[i] = ustate'[i] \cap {"ev"}
    <3>1. i \in m /\ i \in Items(ukind)
      BY <1>1, <1>5
    <3>2. CASE i \in Carried(ukind)
      BY <1>1, <1>2, <3>1, <3>2
    <3>3. CASE i \notin Carried(ukind)
      <4>1. uevent = "recall" /\ i = "INJ"
        BY <1>1, <3>3
      <4>2. utcb'[i] = PendingEvent
        BY <1>2, <3>1, <3>3, <4>1
      <4>3. PendingEvent = ustate["INJ"] \cap {"ev"}
        BY <4>1 DEF PendingEvent
      <4> QED
        BY <1>1, <3>1, <4>1, <4>2, <4>3
    <3> QED
      BY <3>2, <3>3
  <2> QED
    BY <2>1, <2>2 DEF UntilReply
<1>9. Transparent'
  BY <1>1 DEF Transparent
<1>10. AddressesOwn'
  <2>1. FaultItems # "other"
    BY <1>1 DEF UtcbInv, AddressesOwn, FaultItems
  <2>2. ASSUME NEW i \in {"EL2_ESR_FAR", "EL2_HPFAR"} \cap Items(ukind) PROVE "other" \notin utcb'[i]
    <3>1. i \notin Carried(ukind) /\ "other" \notin utcb[i]
      BY <1>3 DEF UtcbInv, AddressesOwn
    <3>2. utcb'[i] = IF i \notin m THEN utcb[i] ELSE {FaultItems}
      BY <1>2, <3>1
    <3> QED
      BY <2>1, <3>1, <3>2
  <2> QED
    BY <1>1, <2>2 DEF AddressesOwn
<1>11. SpacesOwn' /\ ModesFit'
  BY <1>1 DEF UtcbInv, SpacesOwn, ModesFit
<1> QED
  BY <1>6, <1>7, <1>8, <1>9, <1>10, <1>11 DEF UtcbInv

LEMMA UWriteKeeps ==
    ASSUME UtcbInv, NEW n, UWrite(n)
    PROVE  UtcbInv'
<1>0. ukind \in UKindSet
  BY UtcbKind DEF UtcbInv
<1>1. /\ ustep = "handler" /\ ugot' = {}
      /\ UNCHANGED <<ukind, ustep, ustate, uheld, uspaces, uillegal, umode, ufar, uevent>>
  BY DEF UWrite
<1>2. utcb' = [i \in Items(ukind) |->
                  IF i \in ReadOnly(ukind) THEN utcb[i] ELSE Nth(Written(ukind, i), n)]
  BY DEF UWrite
<1>3. UtcbTypes'
  BY <1>1, <1>2 DEF UtcbInv, UtcbTypes, UtcbType
<1>4. ItemsLegal' /\ UntilReply'
  BY <1>1 DEF UtcbInv, ItemsLegal, UntilReply
<1>5. Transparent'
  BY <1>1 DEF Transparent
<1>6. AddressesOwn'
  <2>1. ASSUME NEW i \in {"EL2_ESR_FAR", "EL2_HPFAR"} \cap Items(ukind) PROVE "other" \notin utcb'[i]
    <3>1. i \in ReadOnly(ukind)
      BY <1>0, ItemSets
    <3>2. utcb'[i] = utcb[i]
      BY <1>2, <3>1
    <3> QED
      BY <3>2 DEF UtcbInv, AddressesOwn
  <2> QED
    BY <1>1, <2>1 DEF AddressesOwn
<1>7. SpacesOwn' /\ ModesFit'
  BY <1>1 DEF UtcbInv, SpacesOwn, ModesFit
<1> QED
  BY <1>3, <1>4, <1>5, <1>6, <1>7 DEF UtcbInv

LEMMA UReplyKeeps ==
    ASSUME UtcbInv, NEW m \in Mtds(ukind), NEW s \in Selectors, UReply(m, s)
    PROVE  UtcbInv'
<1>0. ukind \in UKindSet
  BY UtcbKind DEF UtcbInv
<1> DEFINE poison == "POISON" \in m
<1> DEFINE st == [i \in Items(ukind) |->
                 IF ~poison /\ i \in m \ ReadOnly(ukind) THEN FromUtcb(ukind, i, utcb[i])
                 ELSE ustate[i]]
<1> DEFINE assign == ~poison /\ "SPACES" \in m
<1> DEFINE spaces == assign /\ AssignSpaces(s)
<1> DEFINE mode == ukind = "armvm" /\ m \cap {"EL2_HCR", "EL2_ELR_SPSR"} # {}
<1> DEFINE ok == /\ ~poison
                 /\ assign => spaces
                 /\ mode => ModeLegal(st["EL2_HCR"], st["EL2_ELR_SPSR"])
<1>1. /\ ustep = "handler" /\ ustate' = st
      /\ uspaces' = IF spaces THEN s ELSE uspaces
      /\ uillegal' = ((uillegal /\ ~spaces) \/ ~ok)
      /\ umode' = (umode \/ (mode /\ ok))
      /\ ustep' = IF uillegal' THEN "dead" ELSE "run"
      /\ UNCHANGED <<ukind, utcb, uheld, ugot, ufar, uevent>>
  BY DEF UReply
<1>2. ASSUME NEW i \in Items(ukind)
      PROVE  ustate'[i] = IF ~poison /\ i \in m \ ReadOnly(ukind) THEN FromUtcb(ukind, i, utcb[i]) ELSE ustate[i]
  BY <1>1
<1>3. Carried(ukind) \subseteq Items(ukind)
  BY <1>0, ItemSets
<1>4. spaces \in BOOLEAN /\ ok \in BOOLEAN /\ mode \in BOOLEAN /\ (spaces => s = "own") /\ uillegal \in BOOLEAN
      /\ umode \in BOOLEAN
  BY DEF AssignSpaces, UtcbInv, UtcbTypes, UtcbType
<1>5. DOMAIN ustate' = Items(ukind)
  BY <1>1
<1>6. mode /\ ok => ModeLegal(ustate'["EL2_HCR"], ustate'["EL2_ELR_SPSR"])
  BY <1>1
<1>7. ~mode /\ ukind = "armvm" => ustate'["EL2_HCR"] = ustate["EL2_HCR"] /\ ustate'["EL2_ELR_SPSR"] = ustate["EL2_ELR_SPSR"]
  <2>1. ukind = "armvm" => "EL2_HCR" \in Items(ukind) /\ "EL2_ELR_SPSR" \in Items(ukind)
    BY <1>0, <1>3, ItemSets
  <2> HIDE DEF st
  <2> QED
    BY <1>2, <2>1
<1> HIDE DEF poison, st, assign, spaces, mode, ok
<1>8. UtcbTypes'
  <2>1. uspaces' \in {"none", "own", "other"} /\ uillegal' \in BOOLEAN /\ umode' \in BOOLEAN
        /\ ustep' \in {"run", "sent", "handler", "dead"}
    BY <1>1, <1>4 DEF UtcbInv, UtcbTypes, UtcbType
  <2> QED
    BY <1>1, <1>5, <2>1 DEF UtcbInv, UtcbTypes, UtcbType
<1>9. ItemsLegal'
  <2>1. ASSUME NEW i \in Carried(ukind) PROVE ItemLegal(ukind, i, ustate'[i])
    <3>1. ItemLegal(ukind, i, ustate[i]) /\ ItemLegal(ukind, i, FromUtcb(ukind, i, utcb[i]))
      BY <1>0, SavedLegal DEF UtcbInv, ItemsLegal
    <3>2. ustate'[i] = FromUtcb(ukind, i, utcb[i]) \/ ustate'[i] = ustate[i]
      BY <1>2, <1>3
    <3> QED
      BY <3>1, <3>2
  <2> QED
    BY <1>1, <2>1 DEF ItemsLegal
<1>10. UntilReply'
  BY <1>1 DEF UntilReply
<1>11. Transparent'
  <2>1. ASSUME NEW i \in ugot PROVE Comparable(i, ustate'[i]) = Comparable(i, uheld[i])
    <3>1. i \in Items(ukind) /\ uheld = ustate
      BY <1>1 DEF UtcbInv, UtcbTypes, UtcbType, UntilReply
    <3>2. CASE ustate'[i] = ustate[i]
      BY <3>1, <3>2
    <3>3. CASE ustate'[i] # ustate[i]
      <4>1. ustate'[i] = FromUtcb(ukind, i, utcb[i])
        BY <1>2, <3>1, <3>3
      <4>2. CASE i \in Carried(ukind) /\ utcb[i] = ToUtcb(ukind, i, ustate[i])
        <5>1. ItemLegal(ukind, i, ustate[i]) /\ ItemFormat(ukind, i, ustate[i])
          BY <1>1, <4>2 DEF UtcbInv, ItemsLegal, UntilReply
        <5> QED
          BY <1>0, <3>1, <4>1, <4>2, <5>1, ItemRoundTrip
      <4>3. CASE i = "INJ" /\ utcb[i] = ustate[i] \cap {"ev"}
        <5>1. FromUtcb(ukind, i, utcb[i]) = utcb[i]
          BY <1>0, <4>3 DEF FromUtcb, SaveExc, SaveVmx, SaveSvm, SaveRegs, SaveArm, SaveArmVm, Segments, UKindSet
        <5>2. \A x : Comparable(i, x) = x \cap {"ev"}
          BY <4>3 DEF Comparable
        <5> QED
          BY <3>1, <4>1, <4>3, <5>1, <5>2
      <4> QED
        BY <1>1, <4>2, <4>3 DEF UtcbInv, UntilReply
    <3> QED
      BY <3>2, <3>3
  <2>2. \A i \in ugot : Comparable(i, ustate[i])' = Comparable(i, ustate'[i]) /\ Comparable(i, uheld[i])' = Comparable(i, uheld[i])
    BY <1>1 DEF Comparable
  <2> QED
    BY <1>1, <2>1, <2>2 DEF Transparent
<1>12. AddressesOwn'
  BY <1>1 DEF UtcbInv, AddressesOwn
<1>13. SpacesOwn'
  BY <1>1, <1>4 DEF UtcbInv, SpacesOwn
<1>14. ModesFit'
  <2>1. ASSUME ukind = "armvm", umode', ustep' # "dead" PROVE ModeLegal(ustate'["EL2_HCR"], ustate'["EL2_ELR_SPSR"])
    <3>1. ok
      BY <1>1, <1>4, <2>1
    <3>2. CASE mode
      BY <1>6, <3>1, <3>2
    <3>3. CASE ~mode
      <4>1. umode
        BY <1>1, <1>4, <2>1, <3>3
      <4>2. ModeLegal(ustate["EL2_HCR"], ustate["EL2_ELR_SPSR"])
        BY <1>1, <2>1, <4>1 DEF UtcbInv, ModesFit
      <4> QED
        BY <1>7, <2>1, <3>3, <4>2
    <3> QED
      BY <3>2, <3>3
  <2> QED
    BY <1>1, <2>1 DEF ModesFit
<1> QED
  BY <1>8, <1>9, <1>10, <1>11, <1>12, <1>13, <1>14 DEF UtcbInv

LEMMA UtcbInvStep ==
    ASSUME UtcbInv, [UtcbNext]_uvars
    PROVE  UtcbInv'
<1>1. ASSUME NEW n \in {0, 1}, NEW ev \in {"fault", "recall", "other"}, UTrap(n, ev) PROVE UtcbInv'
  BY <1>1, UTrapKeeps
<1>2. ASSUME NEW n \in 0..2, UWrite(n) PROVE UtcbInv'
  BY <1>2, UWriteKeeps
<1>3. CASE UOther
  BY <1>3, UOtherKeeps
<1>4. ASSUME NEW m \in Mtds(ukind), ULoad(m) PROVE UtcbInv'
  BY <1>4, ULoadKeeps
<1>5. ASSUME NEW m \in Mtds(ukind), NEW s \in Selectors, UReply(m, s) PROVE UtcbInv'
  BY <1>5, UReplyKeeps
<1>6. CASE UNCHANGED uvars
  <2>1. UtcbTypes' /\ ItemsLegal'
    BY <1>6 DEF uvars, UtcbInv, UtcbTypes, UtcbType, ItemsLegal
  <2>2. UntilReply'
    BY <1>6 DEF uvars, UtcbInv, UntilReply
  <2>3. Transparent'
    BY <1>6 DEF uvars, UtcbInv, Transparent, Comparable
  <2>4. AddressesOwn' /\ SpacesOwn' /\ ModesFit'
    BY <1>6 DEF uvars, UtcbInv, AddressesOwn, SpacesOwn, ModesFit
  <2> QED
    BY <2>1, <2>2, <2>3, <2>4 DEF UtcbInv
<1> QED
  BY <1>1, <1>2, <1>3, <1>4, <1>5, <1>6 DEF UtcbNext

LEMMA UtcbRunsLegal ==
    ASSUME UtcbInv
    PROVE  RunsLegal
<1>0. ukind \in UKindSet
  BY UtcbKind DEF UtcbInv
<1>1. UtcbType
  BY DEF UtcbInv, UtcbTypes
<1>2. ustep = "run" => uspaces = "own"
  BY DEF UtcbInv, SpacesOwn
<1>3. ukind = "exc" => {"1", "IF"} \subseteq ustate["RFLAGS"]
                       /\ ustate["RFLAGS"] \cap {"IOPL", "VM", "VIF", "VIP"} = {}
  <2>1. ukind = "exc" => ItemLegal(ukind, "RFLAGS", ustate["RFLAGS"])
    BY <1>0, ItemSets DEF UtcbInv, ItemsLegal
  <2> QED
    BY <2>1 DEF ItemLegal
<1>4. ukind = "arm" => ustate["EL2_ELR_SPSR"] \subseteq {"NZCV"}
  <2>1. ukind = "arm" => ItemLegal(ukind, "EL2_ELR_SPSR", ustate["EL2_ELR_SPSR"])
    BY <1>0, ItemSets DEF UtcbInv, ItemsLegal
  <2> QED
    BY <2>1 DEF ItemLegal
<1>5. ukind \in {"vmx", "svm"} =>
              /\ XcrLegal(ustate["XSAVE"])
              /\ "illegal" \notin ustate["SYSCALL"] \cup ustate["KERNEL_GS_BASE"]
  <2>1. ukind \in {"vmx", "svm"} => /\ ItemLegal(ukind, "XSAVE", ustate["XSAVE"])
                                    /\ ItemLegal(ukind, "SYSCALL", ustate["SYSCALL"])
                                    /\ ItemLegal(ukind, "KERNEL_GS_BASE", ustate["KERNEL_GS_BASE"])
    BY <1>0, ItemSets DEF UtcbInv, ItemsLegal
  <2> QED
    BY <2>1 DEF ItemLegal
<1>6. ukind = "armvm" => "TSC" \in ustate["EL2_HCR"] /\ ustate["EL2_HCR"] \cap {"NV", "E2H"} = {}
  <2>1. ukind = "armvm" => ItemLegal(ukind, "EL2_HCR", ustate["EL2_HCR"])
    BY <1>0, ItemSets DEF UtcbInv, ItemsLegal
  <2> QED
    BY <2>1 DEF ItemLegal
<1>7. ukind = "armvm" /\ ustep = "run" /\ umode => ModeLegal(ustate["EL2_HCR"], ustate["EL2_ELR_SPSR"])
  BY DEF UtcbInv, ModesFit
<1>8. \A i \in {"EL2_ESR_FAR", "EL2_HPFAR"} \cap Items(ukind) : "other" \notin utcb[i]
  BY DEF UtcbInv, AddressesOwn
<1> QED
  BY <1>1, <1>2, <1>3, <1>4, <1>5, <1>6, <1>7, <1>8 DEF RunsLegal

(***************************************************************************)
(* A handler is invisible in the items it was shown and left alone: the    *)
(* conversions of load and save are inverse to each other on everything    *)
(* the hardware can hold.                                                  *)
(***************************************************************************)
THEOREM HandlersTransparent == UtcbSpec => []Transparent
<1>1. UtcbInit => UtcbInv
  BY UtcbInvInit
<1>2. UtcbInv /\ [UtcbNext]_uvars => UtcbInv'
  BY UtcbInvStep
<1>3. UtcbInv => Transparent
  BY DEF UtcbInv
<1> QED
  BY <1>1, <1>2, <1>3, PTL DEF UtcbSpec

(***************************************************************************)
(* Whatever handlers write and reply, an EC that runs is legal, its spaces *)
(* are its own, and no handler sees the fault address of another EC.       *)
(***************************************************************************)
THEOREM RunningLegal == UtcbSpec => []RunsLegal
<1>1. UtcbInit => UtcbInv
  BY UtcbInvInit
<1>2. UtcbInv /\ [UtcbNext]_uvars => UtcbInv'
  BY UtcbInvStep
<1>3. UtcbInv => RunsLegal
  BY UtcbRunsLegal
<1> QED
  BY <1>1, <1>2, <1>3, PTL DEF UtcbSpec

-----------------------------------------------------------------------------
(* Powers of two, and the arithmetic of alignment.                         *)

\* A non-empty set of natural numbers has a least element.
LEMMA NatHasLeast ==
    ASSUME NEW S, S \subseteq Nat, S # {} PROVE \E m \in S : \A n \in S : m <= n
<1>1. PICK R : R = OpToRel(<, Nat)
  BY Zenon
<1>2. IsWellFoundedOn(R, Nat)
  BY NatLessThanWellFounded, <1>1, Zenon
<1>3. PICK m \in S : \A n \in S : ~(<<n, m>> \in R)
  BY <1>2, WFMin, Zenon
<1>4. \A p, q \in Nat : <<q, p>> \in R <=> q < p
  BY <1>1 DEF OpToRel
<1>5. \A n \in S : ~(n < m) /\ n \in Nat /\ m \in Nat
  BY <1>3, <1>4
<1> QED
  BY <1>3, <1>5

-----------------------------------------------------------------------------
(* Powers of two: the provers know them only as the number of subsets of a *)
(* set.                                                                    *)

LEMMA PowSubsets ==
    ASSUME NEW n \in Nat
    PROVE  IsFiniteSet(SUBSET (1 .. n)) /\ Cardinality(SUBSET (1 .. n)) = 2 ^ n /\ 2 ^ n \in Nat
<1>1. IsFiniteSet(1 .. n) /\ Cardinality(1 .. n) = n
  BY FS_Interval
<1>2. IsFiniteSet(SUBSET (1 .. n)) /\ Cardinality(SUBSET (1 .. n)) = 2 ^ Cardinality(1 .. n)
  BY <1>1, FS_SUBSET
<1> QED
  BY <1>1, <1>2, FS_CardinalityType

LEMMA PowZero == 2 ^ 0 = 1
<1>1. SUBSET (1 .. 0) = {{}}
  OBVIOUS
<1>2. Cardinality({{}}) = 1
  BY FS_Singleton
<1>3. Cardinality(SUBSET (1 .. 0)) = 2 ^ 0
  BY PowSubsets
<1> QED
  BY <1>1, <1>2, <1>3

LEMMA PowDouble ==
    ASSUME NEW n \in Nat
    PROVE  2 ^ (n + 1) = 2 * 2 ^ n
<1> DEFINE A == SUBSET (1 .. n)
<1> DEFINE B == {x \cup {n + 1} : x \in A}
<1>1. IsFiniteSet(A) /\ Cardinality(A) = 2 ^ n /\ 2 ^ n \in Nat
  BY PowSubsets
<1>2. Cardinality(SUBSET (1 .. n + 1)) = 2 ^ (n + 1)
  <2>1. PICK k : k = n + 1
    BY Zenon
  <2>2. k \in Nat
    BY <2>1
  <2>3. Cardinality(SUBSET (1 .. k)) = 2 ^ k
    BY <2>2, PowSubsets, Zenon
  <2> QED
    BY <2>1, <2>3, Zenon
<1>3. \A x \in A : n + 1 \notin x
  OBVIOUS
<1>4. SUBSET (1 .. n + 1) = A \cup B
  <2> DEFINE C == SUBSET (1 .. n + 1)
  <2>1. ASSUME NEW y \in SUBSET (1 .. n + 1) PROVE y \in A \cup B
    <3>1. CASE n + 1 \in y
      <4>1. y \ {n + 1} \in A
        BY <2>1
      <4>2. y = (y \ {n + 1}) \cup {n + 1}
        BY <3>1
      <4> QED
        BY <4>1, <4>2
    <3>2. CASE n + 1 \notin y
      BY <2>1, <3>2
    <3> QED
      BY <3>1, <3>2
  <2>2. ASSUME NEW x \in A PROVE x \in C /\ x \cup {n + 1} \in C
    OBVIOUS
  <2>3. \A b \in B : \E x \in A : b = x \cup {n + 1}
    BY Zenon
  <2> HIDE DEF A, B
  <2>4. C \subseteq A \cup B
    BY <2>1
  <2> HIDE DEF C
  <2>5. \A b \in B : b \in C
    BY <2>2, <2>3, Zenon
  <2>6. \A a \in A : a \in C
    BY <2>2, Zenon
  <2> QED
    BY <2>4, <2>5, <2>6, Zenon DEF C
<1>5. A \cap B = {}
  BY <1>3
<1>6. ExistsBijection(A, B)
  <2> DEFINE f == [x \in A |-> x \cup {n + 1}]
  <2>1. f \in [A -> B]
    OBVIOUS
  <2>2. ASSUME NEW x \in A, NEW y \in A, f[x] = f[y] PROVE x = y
    <3>1. x \cup {n + 1} = y \cup {n + 1}
      BY <2>2
    <3> QED
      BY <1>3, <3>1
  <2>3. \A b \in B : \E x \in A : f[x] = b
    OBVIOUS
  <2>4. f \in Bijection(A, B)
    BY <2>1, <2>2, <2>3, Zenon DEF Bijection, Injection, Surjection, IsInjective
  <2> QED
    BY <2>4 DEF ExistsBijection
<1> HIDE DEF A, B
<1>7. IsFiniteSet(B) /\ Cardinality(B) = Cardinality(A)
  BY <1>1, <1>6, FS_Bijection
<1>8. Cardinality(A \cup B) = Cardinality(A) + Cardinality(B) - Cardinality(A \cap B)
  BY <1>1, <1>7, FS_Union
<1>9. Cardinality(A \cap B) = 0
  BY <1>5, FS_EmptySet
<1>10. PICK p : p = 2 ^ n
  BY Zenon
<1>11. PICK q : q = 2 ^ (n + 1)
  BY Zenon
<1>12. Cardinality(A) = p /\ p \in Nat /\ Cardinality(A \cup B) = q
  BY <1>1, <1>2, <1>4, <1>10, <1>11, Zenon
<1>13. q = 2 * p
  BY <1>7, <1>8, <1>9, <1>12
<1> QED
  BY <1>10, <1>11, <1>13, Zenon

LEMMA PowPositive ==
    ASSUME NEW n \in Nat
    PROVE  2 ^ n \in Nat \ {0}
<1>0. \A m \in Nat : 2 ^ m \in Nat
  BY PowSubsets
<1> DEFINE X == {m \in Nat : 2 ^ m = 0}
<1> SUFFICES ASSUME X # {} PROVE FALSE
  BY <1>0
<1>1. PICK m \in X : \A j \in X : m <= j
  <2>1. X \subseteq Nat
    OBVIOUS
  <2> HIDE DEF X
  <2> QED
    BY <2>1, NatHasLeast
<1>2. m # 0
  <2>1. 2 ^ m = 0
    BY <1>1
  <2>2. ASSUME m = 0 PROVE FALSE
    <3>1. 2 ^ 0 = 0
      BY <2>1, <2>2, Zenon
    <3> QED
      BY <3>1, PowZero
  <2> QED
    BY <2>2
<1>3. m - 1 \in Nat /\ 2 ^ ((m - 1) + 1) = 2 * 2 ^ (m - 1) /\ (m - 1) + 1 = m
  BY <1>1, <1>2, PowDouble
<1>4. 2 ^ (m - 1) = 0
  BY <1>0, <1>1, <1>3
<1> QED
  BY <1>1, <1>3, <1>4

\* A smaller power divides a larger one.
LEMMA PowDivides ==
    ASSUME NEW i \in Nat, NEW j \in Nat, i <= j
    PROVE  \E d \in Nat \ {0} : 2 ^ j = d * 2 ^ i /\ (i < j => \E h \in Nat \ {0} : d = 2 * h)
<1>0. \A m \in Nat : 2 ^ m \in Nat \ {0}
  BY PowPositive
<1> DEFINE Q(m) == \E d \in Nat \ {0} : 2 ^ m = d * 2 ^ i /\ (i < m => \E h \in Nat \ {0} : d = 2 * h)
<1> DEFINE X == {m \in Nat : i <= m /\ ~Q(m)}
<1> SUFFICES ASSUME X # {} PROVE FALSE
  OBVIOUS
<1>1. PICK m \in X : \A n \in X : m <= n
  <2>1. X \subseteq Nat
    OBVIOUS
  <2> HIDE DEF X
  <2> QED
    BY <2>1, NatHasLeast
<1>2. Q(i)
  <2>1. 2 ^ i = 1 * 2 ^ i /\ 1 \in Nat \ {0} /\ ~(i < i)
    BY <1>0
  <2> QED
    BY <2>1
<1>3. m - 1 \in Nat /\ i <= m - 1 /\ (m - 1) + 1 = m
  BY <1>1, <1>2
<1>4. Q(m - 1)
  <2>1. m - 1 \notin X
    BY <1>1, <1>3
  <2> HIDE DEF Q
  <2> QED
    BY <2>1, <1>3
<1>5. PICK d \in Nat \ {0} : 2 ^ (m - 1) = d * 2 ^ i
  BY <1>4
<1>6. 2 ^ m = 2 * 2 ^ (m - 1)
  BY <1>3, PowDouble
<1>7. 2 ^ m = (2 * d) * 2 ^ i /\ 2 * d \in Nat \ {0}
  BY <1>0, <1>5, <1>6
<1>8. Q(m)
  BY <1>7
<1> QED
  BY <1>1, <1>8

\* A power of two outgrows its exponent, and powers grow with it.
LEMMA PowExceeds ==
    ASSUME NEW n \in Nat
    PROVE  n < 2 ^ n
<1>0. \A m \in Nat : 2 ^ m \in Nat \ {0}
  BY PowPositive
<1> DEFINE X == {m \in Nat : ~(m < 2 ^ m)}
<1> SUFFICES ASSUME X # {} PROVE FALSE
  OBVIOUS
<1>1. PICK m \in X : \A j \in X : m <= j
  <2>1. X \subseteq Nat
    OBVIOUS
  <2> HIDE DEF X
  <2> QED
    BY <2>1, NatHasLeast
<1>2. m \in Nat /\ ~(m < 2 ^ m)
  BY <1>1
<1>3. m # 0
  BY <1>0, <1>2
<1>4. m - 1 \in Nat /\ (m - 1) + 1 = m
  BY <1>2, <1>3
<1>5. 2 ^ m = 2 * 2 ^ (m - 1)
  BY <1>4, PowDouble
<1>6. m - 1 \notin X
  BY <1>1, <1>4
<1>7. m - 1 < 2 ^ (m - 1)
  BY <1>4, <1>6
<1>8. PICK p : p = 2 ^ (m - 1)
  BY Zenon
<1>9. p \in Nat \ {0} /\ 2 ^ m = 2 * p /\ m - 1 < p
  BY <1>0, <1>4, <1>5, <1>7, <1>8, Zenon
<1> QED
  BY <1>2, <1>9

LEMMA PowMonotone ==
    ASSUME NEW i \in Nat, NEW j \in Nat, i <= j
    PROVE  2 ^ i <= 2 ^ j
<1>1. PICK d \in Nat \ {0} : 2 ^ j = d * 2 ^ i
  BY PowDivides
<1>2. PICK p : p = 2 ^ i
  BY Zenon
<1>3. PICK q : q = 2 ^ j
  BY Zenon
<1>4. p \in Nat \ {0} /\ q = d * p
  BY <1>1, <1>2, <1>3, PowPositive, Zenon
<1>5. p <= q
  BY <1>4
<1> QED
  BY <1>2, <1>3, <1>5, Zenon

\* Division with remainder, as the provers see it, and its uniqueness.
LEMMA DivMod ==
    ASSUME NEW x \in Int, NEW m \in Nat \ {0}
    PROVE  /\ x \div m \in Int /\ x % m \in Nat /\ x % m < m
           /\ x = m * (x \div m) + (x % m)
<1>1. x \div m \in Int /\ x % m \in Int /\ 0 <= x % m /\ x % m < m
  OBVIOUS
<1>2. x = m * (x \div m) + (x % m)
  OBVIOUS
<1> QED
  BY <1>1, <1>2

LEMMA DivUnique ==
    ASSUME NEW m \in Nat \ {0}, NEW q \in Int, NEW r \in Nat, r < m, NEW x \in Int, x = m * q + r
    PROVE  x \div m = q /\ x % m = r
<1>1. PICK a : a = x \div m
  BY Zenon
<1>2. PICK b : b = x % m
  BY Zenon
<1>3. a \in Int /\ b \in Nat /\ b < m /\ x = m * a + b
  BY <1>1, <1>2, DivMod
<1>4. m * (a - q) = r - b
  BY <1>3
<1>5. ASSUME a - q >= 1 PROVE FALSE
  <2>1. m * (a - q) >= m
    BY <1>3, <1>5
  <2> QED
    BY <1>3, <1>4, <2>1
<1>6. ASSUME a - q <= -1 PROVE FALSE
  <2>1. m * (a - q) <= -m
    BY <1>3, <1>6
  <2> QED
    BY <1>3, <1>4, <2>1
<1>7. a = q
  BY <1>3, <1>5, <1>6
<1>8. b = r
  BY <1>3, <1>7
<1> QED
  BY <1>1, <1>2, <1>7, <1>8

\* What a larger power divides, a smaller one divides.
LEMMA AlignedDown ==
    ASSUME NEW x \in Int, NEW i \in Nat, NEW j \in Nat, i <= j, x % 2 ^ j = 0
    PROVE  x % 2 ^ i = 0
<1>1. PICK d \in Nat \ {0} : 2 ^ j = d * 2 ^ i
  BY PowDivides
<1>2. PICK p : p = 2 ^ i
  BY Zenon
<1>3. PICK q : q = 2 ^ j
  BY Zenon
<1>4. p \in Nat \ {0} /\ q \in Nat \ {0} /\ q = d * p /\ x % q = 0
  BY <1>1, <1>2, <1>3, PowPositive, Zenon
<1>5. PICK a \in Int : x = q * a
  <2>1. x = q * (x \div q) + (x % q) /\ x \div q \in Int
    BY <1>4, DivMod
  <2>2. x = q * (x \div q)
    BY <2>1, <1>4
  <2> QED
    BY <2>1, <2>2, Zenon
<1>6. x = p * (d * a) + 0 /\ d * a \in Int /\ 0 < p
  BY <1>4, <1>5
<1>7. x % p = 0
  BY <1>4, <1>6, DivUnique
<1> QED
  BY <1>2, <1>7

\* The lowest bit of a number other than zero is where it stops being a
\* multiple of powers of two.
LEMMA LowestBit ==
    ASSUME NEW n \in Nat \ {0}
    PROVE  \E k \in 0 .. n : n % 2 ^ (k + 1) # 0 /\ n % 2 ^ k = 0
<1> DEFINE X == {m \in Nat : n % 2 ^ m # 0}
<1>0. \A m \in Nat : 2 ^ m \in Nat \ {0}
  BY PowPositive
<1>1. n \in X
  <2>1. n < 2 ^ n
    BY PowExceeds
  <2>2. n = 2 ^ n * 0 + n
    BY <1>0
  <2>3. n % 2 ^ n = n
    BY <1>0, <2>1, <2>2, DivUnique
  <2> QED
    BY <2>3
<1>2. PICK m \in X : \A j \in X : m <= j
  <2>1. X \subseteq Nat
    OBVIOUS
  <2> HIDE DEF X
  <2> QED
    BY <1>1, <2>1, NatHasLeast
<1>3. m \in Nat /\ n % 2 ^ m # 0 /\ m <= n
  BY <1>1, <1>2
<1>4. m # 0
  <2>1. n = 1 * n + 0
    OBVIOUS
  <2>2. n % 1 = 0
    BY <2>1, DivUnique
  <2>3. ASSUME m = 0 PROVE FALSE
    <3>1. n % 2 ^ 0 # 0
      BY <1>3, <2>3, Zenon
    <3> QED
      BY <2>2, <3>1, PowZero
  <2> QED
    BY <2>3
<1>5. m - 1 \in 0 .. n /\ (m - 1) + 1 = m /\ m - 1 \in Nat
  BY <1>3, <1>4
<1>6. n % 2 ^ (m - 1) = 0
  <2>1. m - 1 \notin X
    BY <1>2, <1>5
  <2> QED
    BY <1>5, <2>1
<1>7. PICK k : k = m - 1
  BY Zenon
<1>8. k \in 0 .. n /\ n % 2 ^ (k + 1) # 0 /\ n % 2 ^ k = 0
  BY <1>3, <1>5, <1>6, <1>7, Zenon
<1> QED
  BY <1>8, Zenon

\* The highest bit is at the largest power that is not larger.
LEMMA HighestBit ==
    ASSUME NEW n \in Nat \ {0}
    PROVE  \E k \in 0 .. n : 2 ^ k <= n /\ n < 2 ^ (k + 1)
<1> DEFINE X == {m \in Nat : n < 2 ^ m}
<1>0. \A m \in Nat : 2 ^ m \in Nat \ {0}
  BY PowPositive
<1>1. n \in X
  BY PowExceeds
<1>2. PICK m \in X : \A j \in X : m <= j
  <2>1. X \subseteq Nat
    OBVIOUS
  <2> HIDE DEF X
  <2> QED
    BY <1>1, <2>1, NatHasLeast
<1>3. m \in Nat /\ n < 2 ^ m /\ m <= n
  BY <1>1, <1>2
<1>4. m # 0
  <2>1. ASSUME m = 0 PROVE FALSE
    <3>1. n < 2 ^ 0
      BY <1>3, <2>1, Zenon
    <3> QED
      BY <3>1, PowZero
  <2> QED
    BY <2>1
<1>5. m - 1 \in 0 .. n /\ (m - 1) + 1 = m /\ m - 1 \in Nat
  BY <1>3, <1>4
<1>6. 2 ^ (m - 1) <= n
  <2>1. m - 1 \notin X
    BY <1>2, <1>5
  <2>2. ~(n < 2 ^ (m - 1)) /\ 2 ^ (m - 1) \in Nat
    BY <1>0, <1>5, <2>1
  <2> QED
    BY <2>2
<1>7. PICK k : k = m - 1
  BY Zenon
<1>8. k \in 0 .. n /\ 2 ^ k <= n /\ n < 2 ^ (k + 1)
  BY <1>3, <1>5, <1>6, <1>7, Zenon
<1> QED
  BY <1>8, Zenon

\* Exponents add up.
LEMMA PowSum ==
    ASSUME NEW a \in Nat, NEW n \in Nat
    PROVE  2 ^ (a + n) = 2 ^ a * 2 ^ n
<1>0. \A m \in Nat : 2 ^ m \in Nat \ {0}
  BY PowPositive
<1> DEFINE X == {m \in Nat : ~(2 ^ (a + m) = 2 ^ a * 2 ^ m)}
<1> SUFFICES ASSUME X # {} PROVE FALSE
  OBVIOUS
<1>1. PICK m \in X : \A j \in X : m <= j
  <2>1. X \subseteq Nat
    OBVIOUS
  <2> HIDE DEF X
  <2> QED
    BY <2>1, NatHasLeast
<1>2. m \in Nat /\ 2 ^ (a + m) # 2 ^ a * 2 ^ m
  BY <1>1
<1>3. m # 0
  <2>1. ASSUME m = 0 PROVE FALSE
    <3>1. a + 0 = a /\ 2 ^ a * 1 = 2 ^ a
      BY <1>0
    <3> QED
      BY <1>2, <2>1, <3>1, PowZero, Zenon
  <2> QED
    BY <2>1
<1>4. m - 1 \in Nat /\ (m - 1) + 1 = m /\ a + (m - 1) \in Nat /\ (a + (m - 1)) + 1 = a + m
  BY <1>2, <1>3
<1>5. m - 1 \notin X
  BY <1>1, <1>4
<1>6. 2 ^ (a + (m - 1)) = 2 ^ a * 2 ^ (m - 1)
  BY <1>4, <1>5
<1>7. PICK k : k = m - 1
  BY Zenon
<1>8. PICK l : l = a + (m - 1)
  BY Zenon
<1>9. 2 ^ m = 2 * 2 ^ k /\ 2 ^ (a + m) = 2 * 2 ^ l
  <2>1. k \in Nat /\ k + 1 = m /\ l \in Nat /\ l + 1 = a + m
    BY <1>4, <1>7, <1>8
  <2>2. 2 ^ (k + 1) = 2 * 2 ^ k
    BY <2>1, PowDouble
  <2>3. 2 ^ (l + 1) = 2 * 2 ^ l
    BY <2>1, PowDouble
  <2> QED
    BY <2>1, <2>2, <2>3, Zenon
<1>10. PICK p : p = 2 ^ k
  BY Zenon
<1>11. PICK q : q = 2 ^ a
  BY Zenon
<1>12. p \in Nat /\ q \in Nat
  BY <1>0, <1>4, <1>7, <1>10, <1>11
<1>13. 2 ^ l = q * p /\ 2 ^ m = 2 * p /\ 2 ^ (a + m) = 2 * 2 ^ l
  BY <1>6, <1>7, <1>8, <1>9, <1>10, <1>11, Zenon
<1>14. 2 * (q * p) = q * (2 * p)
  BY <1>12
<1> QED
  BY <1>2, <1>11, <1>13, <1>14, Zenon

\* A number other than zero is an odd number times a power of two.
LEMMA OddPart ==
    ASSUME NEW n \in Nat \ {0}
    PROVE  \E k \in Nat, g \in Nat : n = 2 ^ (k + 1) * g + 2 ^ k
<1>1. PICK k \in 0 .. n : n % 2 ^ (k + 1) # 0 /\ n % 2 ^ k = 0
  BY LowestBit
<1>2. k \in Nat
  OBVIOUS
<1>3. PICK p : p = 2 ^ k
  BY Zenon
<1>4. p \in Nat \ {0} /\ 2 ^ (k + 1) = 2 * p /\ n % p = 0 /\ n % (2 * p) # 0
  BY <1>1, <1>2, <1>3, PowPositive, PowDouble
<1>5. n = p * (n \div p) + (n % p) /\ n \div p \in Int
  BY <1>4, DivMod
<1>6. PICK e : e = n \div p
  BY Zenon
<1>7. e \in Int /\ n = p * e
  BY <1>4, <1>5, <1>6
<1>8. e \in Nat
  <2>1. ASSUME e <= -1 PROVE FALSE
    <3>1. p * e <= -1
      BY <1>4, <1>7, <2>1
    <3> QED
      BY <1>7, <3>1
  <2> QED
    BY <1>7, <2>1
<1>9. PICK g \in Nat : e = 2 * g \/ e = 2 * g + 1
  <2>1. e \div 2 \in Nat /\ (e = 2 * (e \div 2) \/ e = 2 * (e \div 2) + 1)
    BY <1>8
  <2> QED
    BY <2>1, Zenon
<1>10. ASSUME e = 2 * g PROVE FALSE
  <2>1. n = (2 * p) * g + 0 /\ 2 * p \in Nat \ {0} /\ 0 < 2 * p
    BY <1>4, <1>7, <1>10
  <2>2. n % (2 * p) = 0
    BY <2>1, DivUnique
  <2> QED
    BY <1>4, <2>2
<1>11. n = (2 * p) * g + p
  BY <1>4, <1>7, <1>9, <1>10
<1> QED
  BY <1>2, <1>3, <1>4, <1>11, Zenon

\* The bit at the top of the part of a number that is above its lowest one.
LEMMA TopBit ==
    ASSUME NEW m \in Nat, NEW g \in Nat \ {0}, NEW r \in Nat, r < 2 ^ m, NEW j \in Nat,
           2 ^ j <= g, g < 2 ^ (j + 1), NEW x, x = 2 ^ m * g + r
    PROVE  2 ^ (m + j) <= x /\ BitSet(x, m + j)
<1>1. PICK p : p = 2 ^ m
  BY Zenon
<1>2. PICK q : q = 2 ^ j
  BY Zenon
<1>3. p \in Nat \ {0} /\ q \in Nat \ {0} /\ 2 ^ (m + j) = p * q /\ g < 2 * q /\ q <= g /\ r < p /\ x = p * g + r
  <2>1. 2 ^ (j + 1) = 2 * 2 ^ j
    BY PowDouble
  <2>2. 2 ^ (m + j) = 2 ^ m * 2 ^ j
    BY PowSum
  <2>3. 2 ^ m \in Nat \ {0} /\ 2 ^ j \in Nat \ {0}
    BY PowPositive
  <2> QED
    BY <1>1, <1>2, <2>1, <2>2, <2>3, Zenon
<1>4. PICK t \in Nat : g = q + t /\ t < q
  <2>1. g - q \in Nat /\ g = q + (g - q) /\ g - q < q
    BY <1>3
  <2> QED
    BY <2>1, Zenon
<1>5. x = (p * q) * 1 + (p * t + r) /\ p * t + r \in Nat /\ p * q \in Nat \ {0}
  BY <1>3, <1>4
<1>6. p * t + r < p * q
  <2>1. p * t + p <= p * q
    <3>1. t + 1 <= q
      BY <1>3, <1>4
    <3>2. p * (t + 1) <= p * q
      BY <1>3, <1>4, <3>1
    <3> QED
      BY <1>3, <1>4, <3>2
  <2>2. PICK u : u = p * t
    BY Zenon
  <2>3. PICK v : v = p * q
    BY Zenon
  <2>4. u \in Nat /\ v \in Nat /\ u + p <= v
    BY <1>3, <1>4, <2>1, <2>2, <2>3
  <2>5. u + r < v
    BY <1>3, <2>4
  <2> QED
    BY <2>2, <2>3, <2>5, Zenon
<1>7. PICK v : v = p * q
  BY Zenon
<1>8. PICK u : u = p * t + r
  BY Zenon
<1>9. v \in Nat \ {0} /\ u \in Nat /\ u < v /\ x = v * 1 + u
  BY <1>5, <1>6, <1>7, <1>8, Zenon
<1>10. x \in Int /\ v <= x
  BY <1>9
<1>11. x \div v = 1
  BY <1>9, <1>10, DivUnique
<1>12. (x \div 2 ^ (m + j)) % 2 = 1
  <2>1. 2 ^ (m + j) = v
    BY <1>3, <1>7, Zenon
  <2>2. 1 % 2 = 1
    OBVIOUS
  <2> QED
    BY <1>11, <2>1, <2>2, Zenon
<1> QED
  BY <1>3, <1>7, <1>10, <1>12 DEF BitSet

-----------------------------------------------------------------------------
(* Launch: the chunks of the root segment.                                 *)

LEMMA ForwardBit ==
    ASSUME NEW n \in Nat \ {0}
    PROVE  BitForward(n) \in Nat /\ n % 2 ^ BitForward(n) = 0
<1>1. BitForward(n) \in 0 .. n /\ n % 2 ^ BitForward(n) = 0
  BY LowestBit, Zenon DEF BitForward
<1> QED
  BY <1>1

LEMMA ReverseBit ==
    ASSUME NEW n \in Nat \ {0}
    PROVE  BitReverse(n) \in Nat /\ 2 ^ BitReverse(n) <= n
<1>1. BitReverse(n) \in 0 .. n /\ 2 ^ BitReverse(n) <= n
  BY HighestBit, Zenon DEF BitReverse
<1> QED
  BY <1>1

\* Zero is aligned to every power.
LEMMA ZeroAligned ==
    ASSUME NEW i \in Nat
    PROVE  0 % 2 ^ i = 0
<1>1. 2 ^ i \in Nat \ {0}
  BY PowPositive
<1>2. 0 = 2 ^ i * 0 + 0
  BY <1>1
<1> QED
  BY <1>1, <1>2, DivUnique

\* max_order: the order fits into the size, and the base is aligned to it.
LEMMA MaxOrderFits ==
    ASSUME NEW base \in Nat, NEW size \in Nat \ {0}
    PROVE  /\ MaxOrder(base, size) \in Nat /\ 2 ^ MaxOrder(base, size) <= size
           /\ base % 2 ^ MaxOrder(base, size) = 0
<1>1. BitReverse(size) \in Nat /\ 2 ^ BitReverse(size) <= size
  BY ReverseBit
<1>2. CASE base = 0
  <2>1. MaxOrder(base, size) = BitReverse(size)
    BY <1>2 DEF MaxOrder
  <2> QED
    BY <1>1, <1>2, <2>1, ZeroAligned
<1>3. CASE base # 0
  <2>1. BitForward(base) \in Nat /\ base % 2 ^ BitForward(base) = 0
    BY <1>3, ForwardBit
  <2>2. CASE BitForward(base) < BitReverse(size)
    <3>1. MaxOrder(base, size) = BitForward(base)
      BY <1>3, <2>2 DEF MaxOrder
    <3>2. 2 ^ BitForward(base) <= 2 ^ BitReverse(size)
      BY <1>1, <2>1, <2>2, PowMonotone
    <3>3. 2 ^ BitForward(base) \in Nat /\ 2 ^ BitReverse(size) \in Nat
      BY <1>1, <2>1, PowPositive
    <3>4. 2 ^ BitForward(base) <= size
      BY <1>1, <3>2, <3>3
    <3> QED
      BY <2>1, <3>1, <3>4
  <2>3. CASE ~(BitForward(base) < BitReverse(size))
    <3>1. MaxOrder(base, size) = BitReverse(size)
      BY <1>3, <2>3 DEF MaxOrder
    <3>2. base % 2 ^ BitReverse(size) = 0
      BY <1>1, <2>1, <2>3, AlignedDown
    <3> QED
      BY <1>1, <3>1, <3>2
  <2> QED
    BY <2>2, <2>3
<1> QED
  BY <1>2, <1>3

\* The order of a chunk suits both addresses and what is left.
ChunkOrder(phys, virt, size) ==
    IF MaxOrder(phys, size) < MaxOrder(virt, size) THEN MaxOrder(phys, size) ELSE MaxOrder(virt, size)

LEMMA ChunkFits ==
    ASSUME NEW phys \in Nat, NEW virt \in Nat, NEW size \in Nat \ {0}, NEW o, o = ChunkOrder(phys, virt, size)
    PROVE  o \in Nat /\ 2 ^ o \in Nat \ {0} /\ 2 ^ o <= size /\ phys % 2 ^ o = 0 /\ virt % 2 ^ o = 0
<1>1. PICK a : a = MaxOrder(phys, size)
  BY Zenon
<1>2. PICK b : b = MaxOrder(virt, size)
  BY Zenon
<1>3. a \in Nat /\ 2 ^ a <= size /\ phys % 2 ^ a = 0
  BY <1>1, MaxOrderFits
<1>4. b \in Nat /\ 2 ^ b <= size /\ virt % 2 ^ b = 0
  BY <1>2, MaxOrderFits
<1>5. o = IF a < b THEN a ELSE b
  BY <1>1, <1>2, Zenon DEF ChunkOrder
<1>6. o \in Nat /\ o <= a /\ o <= b /\ (o = a \/ o = b)
  BY <1>3, <1>4, <1>5
<1>7. 2 ^ o <= size /\ 2 ^ o \in Nat \ {0}
  BY <1>3, <1>4, <1>6, PowPositive
<1>8. phys % 2 ^ o = 0
  BY <1>3, <1>6, AlignedDown
<1>9. virt % 2 ^ o = 0
  BY <1>4, <1>6, AlignedDown
<1> QED
  BY <1>6, <1>7, <1>8, <1>9

-----------------------------------------------------------------------------
(* Launch: the invariant.                                                  *)

\* The phases after the boot parameters have been read, and before them.
LAfter == {"uefi", "dev", "quiet", "map", "exit", "paging", "root", "chunk", "done"}
LFirst == {"entry", "halt", "mb2", "mb1", "lgc"}
LLast == {"root", "chunk", "done"}
LMid == {"uefi", "dev", "quiet", "map", "exit"}

LInput == [arch : LArchs, proto : LProtos, items : Seq(Tags), aligned : BOOLEAN]
LFirmware == [on : BOOLEAN, ver : Nat \ {0}, size : Nat, driven : SUBSET LDevices,
              masters : SUBSET LDevices, silent : SUBSET LDevices]

LaunchTypes ==
    /\ lin \in LInput /\ lpc \in LFirst \cup LAfter /\ lpos \in Nat \ {0}
    /\ lcl \in {"cmd", Zero} /\ lra \in Mods \cup {Zero}
    /\ lfw \in LFirmware /\ lbuf \in [size : Nat, ver : Nat] /\ lkey \in Nat
    /\ lsize \in Nat /\ lend \in {"boot", "run", "none"}

\* lpos items have been looked at; a is the first module among them.
FirstBefore(items, n, a) ==
    \/ a = Zero /\ \A i \in 1 .. n - 1 : items[i] \notin Mods
    \/ \E i \in 1 .. n - 1 : a = items[i] /\ items[i] \in Mods /\ \A j \in 1 .. i - 1 : items[j] \notin Mods

ParametersRead ==
    /\ lra = FirstModule(lin.items)
    /\ lin.proto # "lgc" => (lcl = "cmd") <=> ("cmd" \in Range(lin.items))

\* The loop over the tags has the first module and the command line so far.
TagsRead ==
    /\ lin.arch = "arm" /\ lin.proto = "mb1" => FirstModule(lin.items) = Zero
    /\ lpc \in {"entry", "mb1", "lgc"} => lcl = Zero /\ lra = Zero /\ lpos = 1
    /\ lpc \in {"mb2", "mb1", "lgc"} => lin.proto = lpc
    /\ lpc = "mb2" => /\ lpos <= Len(lin.items) + 1
                      /\ FirstBefore(lin.items, lpos, lra)
                      /\ (lcl = "cmd") <=> (\E i \in 1 .. lpos - 1 : lin.items[i] = "cmd")
    /\ lpc \in LAfter => ParametersRead

\* No driver restarts a device behind a bridge; a map in the buffer came with
\* the key.
FirmwareLeft ==
    /\ lpc \in {"quiet", "map", "exit"} => lfw.driven \cap LBehind \subseteq lfw.silent
    /\ lpc \notin {"dev", "quiet"} => lfw.masters \cap LBehind \subseteq lfw.silent
    /\ lpc \in LFirst \cup LMid => lfw.on /\ (lbuf.ver # 0 => lbuf.ver = lkey)
    /\ ~lfw.on => lmap = lbuf /\ (lmap.ver # 0 => lmap.ver = lfw.ver)

\* The image is mapped from its start.
ImageMapped ==
    /\ lpc \in LFirst \cup LMid => lsize = 0
    /\ lsize = 0 => lpt = {}
    /\ lpc = "paging" => \E n \in Nat : lpt = 0 .. n - 1 /\ (lsize # 0 => n * PerLarge < lsize)
    /\ lpc \in LLast => lpt = {i \in 0 .. lsize : i * PerLarge < lsize}

PageRange(a, b, n) == {<<a + i, b + i>> : i \in 0 .. n - 1}
Chunk(c) == {<<c.virt + i, c.phys + i>> : i \in 0 .. (2 ^ c.ord - 1)}
Covered(S) == UNION {Chunk(c) : c \in S}

SegmentSize(s) == UpPage(s.virt + s.fsize) - DnPage(s.virt)

\* The pages of the segments among the first k headers.
Given(im, k) ==
    UNION {PageRange(DnPage(im[i].virt), DnPage(im[i].file), SegmentSize(im[i])) : i \in {j \in 1 .. k : im[j].load}}

\* What has been delegated and what is left of the segment make up the segments
\* seen so far.
SegmentsGiven ==
    /\ lseg \in [phys : Nat, virt : Nat, size : Nat, im : Seq(ProgramHeaders), next : Nat \ {0}]
    /\ lseg.next <= Len(lseg.im) + 1
    /\ \A c \in lroot : c.virt % 2 ^ c.ord = 0 /\ c.phys % 2 ^ c.ord = 0
    /\ Covered(lroot) \cup PageRange(lseg.virt, lseg.phys, lseg.size) = Given(lseg.im, lseg.next - 1)

RootGiven ==
    /\ lpc \notin {"chunk", "done"} => lroot = {} /\ lend = "boot" /\ lseg = NoSeg
    /\ lpc = "chunk" => lend = "boot" /\ SegmentsGiven
    /\ lend = "run" => lseg.size = 0 /\ lseg.next > Len(lseg.im) /\ SegmentsGiven

LaunchInv == LaunchTypes /\ TagsRead /\ FirmwareLeft /\ ImageMapped /\ RootGiven

\* An event leaves the firmware a firmware.
LEMMA EventTypes ==
    ASSUME NEW f \in LFirmware, NEW n \in Nat
    PROVE  [f EXCEPT !.ver = @ + 1, !.size = @ + n] \in LFirmware
<1>1. f.ver + 1 \in Nat \ {0} /\ f.size + n \in Nat
  BY DEF LFirmware
<1>2. PICK v : v = f.ver + 1
  BY Zenon
<1>3. PICK s : s = f.size + n
  BY Zenon
<1>4. v \in Nat \ {0} /\ s \in Nat
  BY <1>1, <1>2, <1>3
<1>5. [f EXCEPT !.ver = v, !.size = s] \in LFirmware
  BY <1>4 DEF LFirmware
<1>6. [f EXCEPT !.ver = @ + 1, !.size = @ + n] = [f EXCEPT !.ver = f.ver + 1, !.size = f.size + n]
  BY DEF LFirmware
<1> QED
  BY <1>2, <1>3, <1>5, <1>6, Zenon

LEMMA LaunchInitial == ~Mb1Arm /\ LaunchInit => LaunchInv
<1> SUFFICES ASSUME ~Mb1Arm, LaunchInit PROVE LaunchInv
  OBVIOUS
<1> USE LaunchAssumption
<1>1. lin \in LInput
  <2>1. lin \in [arch : LArchs, proto : LProtos, items : LItems, aligned : BOOLEAN]
    BY Zenon DEF LaunchInit
  <2>2. LItems \subseteq Seq(Tags)
    OBVIOUS
  <2> QED
    BY <2>1, <2>2 DEF LInput
<1>2. LaunchTypes
  <2>1. lfw \in LFirmware
    BY DEF LaunchInit, LFirmware
  <2>2. lbuf \in [size : Nat, ver : Nat]
    BY DEF LaunchInit, NoBuf
  <2> QED
    BY <1>1, <2>1, <2>2 DEF LaunchInit, LaunchTypes, LFirst, LAfter
<1>3. TagsRead
  BY DEF LaunchInit, TagsRead, LAfter
<1>4. FirmwareLeft
  BY DEF LaunchInit, FirmwareLeft, LFirst, LMid, NoBuf
<1>5. ImageMapped
  BY DEF LaunchInit, ImageMapped, LFirst, LMid, LLast
<1>6. RootGiven
  BY DEF LaunchInit, RootGiven
<1> QED
  BY <1>2, <1>3, <1>4, <1>5, <1>6 DEF LaunchInv

LEMMA LaunchTypesKept == LaunchInv /\ ~Mb1Arm /\ [LaunchNext]_lvars => LaunchTypes'
<1> SUFFICES ASSUME LaunchInv, ~Mb1Arm, [LaunchNext]_lvars PROVE LaunchTypes'
  OBVIOUS
<1> USE LaunchAssumption
<1>0. LaunchTypes /\ TagsRead
  BY DEF LaunchInv
<1>1. lin.items \in Seq(Tags) /\ FirstModule(lin.items) \in Mods \cup {Zero} /\ lin.proto \in {"mb2", "mb1", "lgc"}
  <2>1. lin.items \in Seq(Tags) /\ lin.proto \in {"mb2", "mb1", "lgc"}
    BY <1>0 DEF LaunchTypes, LInput
  <2>2. ModulesAt(lin.items) # {} => FirstModule(lin.items) \in Mods
    <3> SUFFICES ASSUME ModulesAt(lin.items) # {} PROVE FirstModule(lin.items) \in Mods
      OBVIOUS
    <3>1. ModulesAt(lin.items) \subseteq Nat
      BY <2>1 DEF ModulesAt
    <3>2. PICK m \in ModulesAt(lin.items) : \A n \in ModulesAt(lin.items) : m <= n
      BY <3>1, NatHasLeast
    <3>3. Min(ModulesAt(lin.items)) \in ModulesAt(lin.items)
      BY <3>2, Zenon DEF Min
    <3> QED
      BY <3>3 DEF FirstModule, ModulesAt
  <2> QED
    BY <2>1, <2>2 DEF FirstModule
<1>2. CASE UNCHANGED lvars
  BY <1>0, <1>2 DEF LaunchTypes, lvars
<1>3. CASE LEntry
  BY <1>0, <1>1, <1>3 DEF LaunchTypes, LEntry, LGo, LFirst, LAfter
<1>4. CASE LEntryArm
  BY <1>0, <1>1, <1>4 DEF LaunchTypes, LEntryArm, LGo, LFirst, LAfter
<1>5. CASE LTag
  BY <1>0, <1>1, <1>5 DEF LaunchTypes, LTag, Tag
<1>6. CASE LTagArm
  BY <1>0, <1>1, <1>6 DEF LaunchTypes, LTagArm, Tag
<1>7. CASE LTagEnd
  BY <1>0, <1>7 DEF LaunchTypes, LTagEnd, LGo, LFirst, LAfter
<1>8. CASE LMb1
  BY <1>0, <1>1, <1>8 DEF LaunchTypes, LMb1, LGo, LFirst, LAfter
<1>9. CASE LMb1Arm
  BY <1>0, <1>1, <1>9 DEF LaunchTypes, LMb1Arm, LGo, LFirst, LAfter
<1>10. CASE LLegacy
  <2>1. lin.proto = "lgc"
    BY <1>0, <1>10 DEF LLegacy, TagsRead
  <2> QED
    BY <1>0, <1>1, <1>10, <2>1 DEF LaunchTypes, LLegacy, P1, LGo, LFirst, LAfter
<1>11. CASE LUefi
  BY <1>0, <1>11 DEF LaunchTypes, LUefi, LGo, LFirst, LAfter
<1>12. CASE LEvent
  <2>1. lfw' \in LFirmware
    <3>1. PICK n \in {0, Slack + 1} : lfw' = [lfw EXCEPT !.ver = @ + 1, !.size = @ + n]
      BY <1>12 DEF LEvent
    <3>2. n \in Nat
      BY <3>1 DEF Slack
    <3> QED
      BY <1>0, <3>1, <3>2, EventTypes, Zenon DEF LaunchTypes
  <2> QED
    BY <1>0, <1>12, <2>1 DEF LaunchTypes, LEvent
<1>13. CASE LDriver
  <2>1. lfw' \in LFirmware
    BY <1>0, <1>13 DEF LaunchTypes, LDriver, LFirmware
  <2> QED
    BY <1>0, <1>13, <2>1 DEF LaunchTypes, LDriver
<1>14. CASE LDisconnect
  <2>1. lfw' \in LFirmware
    <3>1. PICK S \in SUBSET LDevices : lfw' = [lfw EXCEPT !.silent = S, !.driven = @ \ (LBehind \ S)]
      BY <1>14 DEF LDisconnect
    <3>2. lfw.driven \ (LBehind \ S) \in SUBSET LDevices
      BY <1>0 DEF LaunchTypes, LFirmware
    <3> QED
      BY <1>0, <3>1, <3>2 DEF LaunchTypes, LFirmware
  <2> QED
    BY <1>0, <1>14, <2>1 DEF LaunchTypes, LDisconnect, LGo, LFirst, LAfter
<1>15. CASE LQuiet
  <2>1. lfw' \in LFirmware
    BY <1>0, <1>15 DEF LaunchTypes, LQuiet, LFirmware
  <2> QED
    BY <1>0, <1>15, <2>1 DEF LaunchTypes, LQuiet, LGo, LFirst, LAfter
<1>16. CASE LGetMap
  <2>1. lfw' \in LFirmware
    <3>1. \/ lfw' = lfw
          \/ \E n \in {0, 1} : lfw' = [lfw EXCEPT !.ver = @ + 1, !.size = @ + n]
      BY <1>16 DEF LGetMap
    <3>2. ASSUME NEW n \in {0, 1}, lfw' = [lfw EXCEPT !.ver = @ + 1, !.size = @ + n] PROVE lfw' \in LFirmware
      <4>1. n \in Nat
        OBVIOUS
      <4> QED
        BY <1>0, <3>2, <4>1, EventTypes, Zenon DEF LaunchTypes
    <3> QED
      BY <1>0, <3>1, <3>2 DEF LaunchTypes
  <2>2. lbuf' \in [size : Nat, ver : Nat] /\ lkey' \in Nat
    BY <1>0, <1>16 DEF LaunchTypes, LGetMap, LFirmware, Slack
  <2>3. lpc' \in {"exit", "map"}
    BY <1>16 DEF LGetMap, LGo
  <2> QED
    BY <1>0, <1>16, <2>1, <2>2, <2>3 DEF LaunchTypes, LGetMap, LFirst, LAfter
<1>17. CASE LGetMapFail
  BY <1>0, <1>17 DEF LaunchTypes, LGetMapFail, LGo, LFirst, LAfter, NoBuf
<1>18. CASE LExit
  <2>1. lfw' \in LFirmware
    BY <1>0, <1>18 DEF LaunchTypes, LExit, LFirmware
  <2> QED
    BY <1>0, <1>18, <2>1 DEF LaunchTypes, LExit, LGo, LFirst, LAfter
<1>19. CASE LPage \/ LPageArm
  <2>1. lsize' \in Nat /\ lpc' \in {"paging", "root"}
    BY <1>0, <1>19 DEF LaunchTypes, LPage, LPageArm, MapNext, LGo
  <2> QED
    BY <1>0, <1>19, <2>1 DEF LaunchTypes, LPage, LPageArm, MapNext, LFirst, LAfter
<1>20. CASE LNoRoot
  BY <1>0, <1>20 DEF LaunchTypes, LNoRoot, LGo, LFirst, LAfter
<1>21. CASE LImage \/ LSegment
  <2>1. lpc' \in {"done", "chunk"} /\ lend' \in {"none", lend}
    BY <1>21 DEF LImage, LSegment, LGo
  <2> QED
    BY <1>0, <1>21, <2>1 DEF LaunchTypes, LImage, LSegment, LFirst, LAfter
<1>22. CASE LChunk
  BY <1>0, <1>22 DEF LaunchTypes, LChunk
<1>23. CASE LRun
  BY <1>0, <1>23 DEF LaunchTypes, LRun, LGo, LFirst, LAfter
<1> QED
  BY <1>2, <1>3, <1>4, <1>5, <1>6, <1>7, <1>8, <1>9, <1>10, <1>11, <1>12, <1>13, <1>14, <1>15, <1>16,
     <1>17, <1>18, <1>19, <1>20, <1>21, <1>22, <1>23, Zenon DEF LaunchNext

\* One more item, and the last one.
LEMMA FirstStep ==
    ASSUME NEW items \in Seq(Tags), NEW n \in Nat \ {0}, n <= Len(items), NEW a, FirstBefore(items, n, a),
           NEW b, b = IF items[n] \in Mods /\ a = Zero THEN items[n] ELSE a
    PROVE  FirstBefore(items, n + 1, b)
<1>0. \A i : i \in 1 .. n <=> (i \in 1 .. n - 1 \/ i = n)
  OBVIOUS
<1>1. Zero \notin Mods
  BY DEF Zero, Mods
<1>2. (n + 1) - 1 = n
  OBVIOUS
<1>3. CASE a = Zero /\ \A i \in 1 .. n - 1 : items[i] \notin Mods
  <2>1. CASE items[n] \in Mods
    <3>1. n \in 1 .. n /\ b = items[n]
      BY <1>3, <2>1
    <3> QED
      BY <1>2, <1>3, <2>1, <3>1, Zenon DEF FirstBefore
  <2>2. CASE items[n] \notin Mods
    <3>1. b = Zero /\ \A i \in 1 .. n : items[i] \notin Mods
      BY <1>0, <1>3, <2>2, Zenon
    <3> QED
      BY <1>2, <3>1, Zenon DEF FirstBefore
  <2> QED
    BY <2>1, <2>2
<1>4. ASSUME NEW i \in 1 .. n - 1, a = items[i], items[i] \in Mods, \A j \in 1 .. i - 1 : items[j] \notin Mods
      PROVE  FirstBefore(items, n + 1, b)
  <2>1. b = a /\ i \in 1 .. n
    BY <1>0, <1>1, <1>4, Zenon
  <2> QED
    BY <1>2, <1>4, <2>1, Zenon DEF FirstBefore
<1> QED
  BY <1>3, <1>4, Zenon DEF FirstBefore

LEMMA FirstWhole ==
    ASSUME NEW items \in Seq(Tags), NEW a, FirstBefore(items, Len(items) + 1, a)
    PROVE  a = FirstModule(items)
<1>0. Len(items) \in Nat /\ (Len(items) + 1) - 1 = Len(items)
  OBVIOUS
<1>1. CASE a = Zero /\ \A i \in 1 .. Len(items) : items[i] \notin Mods
  BY <1>1, Zenon DEF FirstModule, ModulesAt
<1>2. ASSUME NEW i \in 1 .. Len(items), a = items[i], items[i] \in Mods, \A j \in 1 .. i - 1 : items[j] \notin Mods
      PROVE  a = FirstModule(items)
  <2>1. i \in ModulesAt(items)
    BY <1>2 DEF ModulesAt
  <2>2. \A j \in ModulesAt(items) : i <= j /\ j \in Nat
    BY <1>0, <1>2 DEF ModulesAt
  <2>3. PICK m : m = Min(ModulesAt(items))
    BY Zenon
  <2>4. m \in ModulesAt(items) /\ \A j \in ModulesAt(items) : m <= j
    BY <2>1, <2>2, <2>3, Zenon DEF Min
  <2>5. m = i
    BY <2>1, <2>2, <2>4
  <2> QED
    BY <1>2, <2>1, <2>3, <2>5, Zenon DEF FirstModule
<1> QED
  BY <1>0, <1>1, <1>2, Zenon DEF FirstBefore

LEMMA TagsReadKept == LaunchInv /\ [LaunchNext]_lvars => TagsRead'
<1> SUFFICES ASSUME LaunchInv, [LaunchNext]_lvars PROVE TagsRead'
  OBVIOUS
<1>0. LaunchTypes /\ TagsRead
  BY DEF LaunchInv
<1>1. lin' = lin
  BY DEF LaunchNext, lvars, LEntry, LEntryArm, LTag, LTagArm, Tag, LTagEnd, LMb1, LMb1Arm, LLegacy, LUefi,
         LEvent, LDriver, LDisconnect, LQuiet, LGetMap, LGetMapFail, LExit, LPage, LPageArm, MapNext, LNoRoot,
         LImage, LSegment, LChunk, LRun
<1>2. lin.items \in Seq(Tags) /\ lin.proto \in {"mb2", "mb1", "lgc"} /\ lpos \in Nat \ {0}
  BY <1>0, LaunchAssumption DEF LaunchTypes, LInput
<1>3. CASE LEntry \/ LEntryArm
  <2>1. lpc' \in {"halt", lin.proto} /\ lcl' = Zero /\ lra' = Zero /\ lpos' = 1
    BY <1>0, <1>3 DEF TagsRead, LEntry, LEntryArm, LGo
  <2>2. FirstBefore(lin.items, 1, Zero) /\ ~\E i \in 1 .. 1 - 1 : lin.items[i] = "cmd"
    BY DEF FirstBefore
  <2>3. 1 <= Len(lin.items) + 1
    BY <1>2
  <2>4. Zero # "cmd"
    BY DEF Zero
  <2> QED
    BY <1>0, <1>1, <1>2, <2>1, <2>2, <2>3, <2>4 DEF TagsRead, LAfter
<1>4. CASE LTag \/ LTagArm
  <2>1. /\ lpc = "mb2" /\ lpc' = "mb2" /\ lpos <= Len(lin.items) /\ lpos' = lpos + 1
        /\ lcl' = (IF lin.items[lpos] = "cmd" THEN lin.items[lpos] ELSE lcl)
        /\ lra' = (IF lin.items[lpos] \in Mods /\ lra = Zero THEN lin.items[lpos] ELSE lra)
    BY <1>4, Zenon DEF LTag, LTagArm, Tag
  <2>2. FirstBefore(lin.items, lpos + 1, lra')
    BY <1>0, <1>2, <2>1, FirstStep DEF TagsRead
  <2>3. lpos + 1 <= Len(lin.items) + 1
    BY <1>2, <2>1
  <2>4. (lcl' = "cmd") <=> (\E i \in 1 .. (lpos + 1) - 1 : lin.items[i] = "cmd")
    <3>1. (lcl = "cmd") <=> (\E i \in 1 .. lpos - 1 : lin.items[i] = "cmd")
      BY <1>0, <2>1 DEF TagsRead
    <3>2. \A i : i \in 1 .. (lpos + 1) - 1 <=> (i \in 1 .. lpos - 1 \/ i = lpos)
      BY <1>2
    <3> QED
      BY <2>1, <3>1, <3>2, Zenon
  <2>5. lin.proto = "mb2"
    BY <1>0, <2>1 DEF TagsRead
  <2> QED
    BY <1>0, <1>1, <2>1, <2>2, <2>3, <2>4, <2>5 DEF TagsRead, LAfter
<1>5. CASE LTagEnd
  <2>1. lpc = "mb2" /\ lpos > Len(lin.items) /\ lpc' \in {"uefi", "paging"} /\ lra' = lra /\ lcl' = lcl
    BY <1>5 DEF LTagEnd, LGo
  <2>2. /\ lpos <= Len(lin.items) + 1 /\ FirstBefore(lin.items, lpos, lra)
        /\ (lcl = "cmd") <=> (\E i \in 1 .. lpos - 1 : lin.items[i] = "cmd")
    BY <1>0, <2>1 DEF TagsRead
  <2>3. lpos = Len(lin.items) + 1 /\ lpos - 1 = Len(lin.items)
    BY <1>2, <2>1, <2>2
  <2>4. lra = FirstModule(lin.items)
    BY <1>2, <2>2, <2>3, FirstWhole, Zenon
  <2>5. (lcl = "cmd") <=> ("cmd" \in Range(lin.items))
    <3>1. DOMAIN lin.items = 1 .. Len(lin.items)
      BY <1>2
    <3>2. "cmd" \in Range(lin.items) <=> \E i \in 1 .. lpos - 1 : lin.items[i] = "cmd"
      BY <2>3, <3>1, Zenon DEF Range
    <3> QED
      BY <2>2, <3>2
  <2> QED
    BY <1>0, <1>1, <2>1, <2>4, <2>5 DEF TagsRead, ParametersRead, LAfter
<1>6. CASE LMb1 \/ LMb1Arm
  <2>1. lpc = "mb1" /\ lcl = Zero /\ lin.proto = "mb1"
    BY <1>0, <1>6 DEF LMb1, LMb1Arm, TagsRead
  <2>2. lcl' = (IF "cmd" \in Range(lin.items) THEN "cmd" ELSE lcl) /\ lra' = FirstModule(lin.items)
    BY <1>6 DEF LMb1, LMb1Arm
  <2>3. lpc' = "paging"
    BY <1>0, <1>6, <2>1 DEF LMb1, LMb1Arm, LGo, TagsRead
  <2>4. (lcl' = "cmd") <=> ("cmd" \in Range(lin.items))
    <3>1. Zero # "cmd"
      BY DEF Zero
    <3>2. lcl' = "cmd" <=> "cmd" \in Range(lin.items)
      BY <2>1, <2>2, <3>1, Zenon
    <3> QED
      BY <3>2
  <2> QED
    BY <1>0, <1>1, <2>2, <2>3, <2>4 DEF TagsRead, ParametersRead, LAfter
<1>7. CASE LLegacy
  <2>1. lpc = "lgc" /\ lin.proto = "lgc"
    BY <1>0, <1>7 DEF LLegacy, TagsRead
  <2>2. lra' = FirstModule(lin.items) /\ lpc' = "paging"
    BY <1>7, <2>1 DEF LLegacy, P1, LGo
  <2> QED
    BY <1>0, <1>1, <2>1, <2>2 DEF TagsRead, ParametersRead, LAfter
<1>8. CASE \/ LUefi \/ LEvent \/ LDriver \/ LDisconnect \/ LQuiet \/ LGetMap \/ LGetMapFail \/ LExit
           \/ LPage \/ LPageArm \/ LNoRoot \/ LImage \/ LSegment \/ LChunk \/ LRun
  <2>1. lpc \in LAfter /\ lpc' \in LAfter
    BY <1>8 DEF LUefi, LEvent, LDriver, LDisconnect, LQuiet, LGetMap, LGetMapFail, LExit,
       LPage, LPageArm, MapNext, LNoRoot, LImage, LSegment, LChunk, LRun, LGo, LAfter
  <2>2. UNCHANGED <<lra, lcl>>
    BY <1>8 DEF LUefi, LEvent, LDriver, LDisconnect, LQuiet, LGetMap, LGetMapFail, LExit,
       LPage, LPageArm, MapNext, LNoRoot, LImage, LSegment, LChunk, LRun
  <2> QED
    BY <1>0, <1>1, <2>1, <2>2 DEF TagsRead, ParametersRead, LAfter
<1>9. CASE UNCHANGED lvars
  BY <1>0, <1>9 DEF TagsRead, ParametersRead, lvars
<1> QED
  BY <1>3, <1>4, <1>5, <1>6, <1>7, <1>8, <1>9, Zenon DEF LaunchNext

LEMMA FirmwareLeftKept == LaunchInv /\ [LaunchNext]_lvars => FirmwareLeft'
<1> SUFFICES ASSUME LaunchInv, [LaunchNext]_lvars PROVE FirmwareLeft'
  OBVIOUS
<1>0. LaunchTypes /\ FirmwareLeft /\ TagsRead
  BY DEF LaunchInv
<1>a. /\ lfw \in LFirmware /\ lkey \in Nat /\ lbuf \in [size : Nat, ver : Nat]
      /\ lfw.ver \in Nat \ {0} /\ lin.proto \in {"mb2", "mb1", "lgc"}
  BY <1>0, LaunchAssumption DEF LaunchTypes, LFirmware, LInput
<1>1. CASE LEntry \/ LEntryArm
  <2>1. lpc = "entry" /\ lpc' \in {"halt", "mb2", "mb1", "lgc"} /\ UNCHANGED <<lfw, lkey, lbuf, lmap>>
    BY <1>a, <1>1 DEF LEntry, LEntryArm, LGo
  <2> QED
    BY <1>0, <2>1 DEF FirmwareLeft, LFirst, LMid
<1>2. CASE LTag \/ LTagArm
  <2>1. lpc = "mb2" /\ UNCHANGED <<lpc, lfw, lkey, lbuf, lmap>>
    BY <1>2 DEF LTag, LTagArm, Tag
  <2> QED
    BY <1>0, <2>1 DEF FirmwareLeft, LFirst, LMid
<1>3. CASE LTagEnd \/ LMb1 \/ LMb1Arm \/ LLegacy \/ LUefi
  <2>1. /\ lpc \in {"mb2", "mb1", "lgc", "uefi"} /\ lpc' \in {"uefi", "paging", "dev", "lgc"}
        /\ UNCHANGED <<lfw, lkey, lbuf, lmap>>
    BY <1>3 DEF LTagEnd, LMb1, LMb1Arm, LLegacy, LUefi, LGo
  <2> QED
    BY <1>0, <2>1 DEF FirmwareLeft, LFirst, LMid
<1>4. CASE LEvent
  <2>1. PICK n \in {0, Slack + 1} : lfw' = [lfw EXCEPT !.ver = @ + 1, !.size = @ + n]
    BY <1>4 DEF LEvent
  <2>2. /\ lfw'.ver = lfw.ver + 1 /\ lfw'.on = lfw.on /\ lfw'.driven = lfw.driven
        /\ lfw'.masters = lfw.masters /\ lfw'.silent = lfw.silent
    BY <1>a, <2>1 DEF LFirmware
  <2>3. lpc \in {"map", "exit"} /\ lfw.on /\ UNCHANGED <<lpc, lkey, lbuf, lmap>>
    BY <1>4 DEF LEvent
  <2> QED
    BY <1>0, <2>2, <2>3 DEF FirmwareLeft, LFirst, LMid
<1>5. CASE LDriver
  <2>1. PICK d \in lfw.driven \ lfw.masters : lfw' = [lfw EXCEPT !.masters = @ \cup {d}]
    BY <1>5 DEF LDriver
  <2>2. /\ lfw'.ver = lfw.ver /\ lfw'.on = lfw.on /\ lfw'.driven = lfw.driven
        /\ lfw'.masters = lfw.masters \cup {d} /\ lfw'.silent = lfw.silent
    BY <1>a, <2>1 DEF LFirmware
  <2>3. lpc \in {"dev", "quiet", "map", "exit"} /\ lfw.on /\ UNCHANGED <<lpc, lkey, lbuf, lmap>>
    BY <1>5 DEF LDriver
  <2>4. lpc \notin {"dev", "quiet"} => lfw'.masters \cap LBehind \subseteq lfw'.silent
    BY <1>0, <2>1, <2>2, <2>3 DEF FirmwareLeft
  <2> QED
    BY <1>0, <2>2, <2>3, <2>4 DEF FirmwareLeft, LFirst, LMid
<1>6. CASE LDisconnect
  <2>1. PICK S \in SUBSET LDevices : lfw' = [lfw EXCEPT !.silent = S, !.driven = @ \ (LBehind \ S)]
    BY <1>6 DEF LDisconnect
  <2>2. /\ lfw'.ver = lfw.ver /\ lfw'.on = lfw.on /\ lfw'.driven = lfw.driven \ (LBehind \ S) /\ lfw'.silent = S
    BY <1>a, <2>1 DEF LFirmware
  <2>3. lpc = "dev" /\ lpc' = "quiet" /\ UNCHANGED <<lkey, lbuf, lmap>>
    BY <1>6 DEF LDisconnect, LGo
  <2>4. lfw'.driven \cap LBehind \subseteq lfw'.silent
    BY <2>2
  <2> QED
    BY <1>0, <2>2, <2>3, <2>4 DEF FirmwareLeft, LFirst, LMid
<1>7. CASE LQuiet
  <2>1. lfw' = [lfw EXCEPT !.masters = @ \cap lfw.silent] /\ lpc = "quiet" /\ lpc' = "map" /\ UNCHANGED <<lkey, lbuf, lmap>>
    BY <1>7 DEF LQuiet, LGo
  <2>2. /\ lfw'.ver = lfw.ver /\ lfw'.on = lfw.on /\ lfw'.driven = lfw.driven
        /\ lfw'.masters = lfw.masters \cap lfw.silent /\ lfw'.silent = lfw.silent
    BY <1>a, <2>1 DEF LFirmware
  <2>3. lfw'.masters \cap LBehind \subseteq lfw'.silent
    BY <2>2
  <2> QED
    BY <1>0, <2>1, <2>2, <2>3 DEF FirmwareLeft, LFirst, LMid
<1>8. CASE LGetMap
  <2>0. lpc = "map" /\ lpc' \in {"exit", "map"} /\ UNCHANGED lmap /\ lfw.on
    BY <1>0, <1>8 DEF LGetMap, LGo, FirmwareLeft, LMid
  <2>1. CASE lbuf.size >= lfw.size
    <3>1. lbuf' = [lbuf EXCEPT !.ver = lfw.ver] /\ lkey' = lfw.ver /\ lfw' = lfw
      BY <1>8, <2>1 DEF LGetMap
    <3>2. lbuf'.ver = lfw.ver
      BY <1>a, <3>1
    <3> QED
      BY <1>0, <2>0, <3>1, <3>2 DEF FirmwareLeft, LFirst, LMid
  <2>2. CASE ~(lbuf.size >= lfw.size)
    <3>1. lfw' = lfw \/ \E n \in {0, 1} : lfw' = [lfw EXCEPT !.ver = @ + 1, !.size = @ + n]
      BY <1>8, <2>2 DEF LGetMap
    <3>2. /\ lfw'.on = lfw.on /\ lfw'.driven = lfw.driven
          /\ lfw'.masters = lfw.masters /\ lfw'.silent = lfw.silent
      BY <1>a, <3>1 DEF LFirmware
    <3>3. lbuf'.ver = 0
      BY <1>8, <2>2 DEF LGetMap
    <3> QED
      BY <1>0, <2>0, <3>2, <3>3 DEF FirmwareLeft, LFirst, LMid
  <2> QED
    BY <2>1, <2>2
<1>9. CASE LGetMapFail
  <2>1. lpc = "map" /\ lpc' = "paging" /\ UNCHANGED <<lfw, lkey, lmap>> /\ lfw.on
    BY <1>0, <1>9 DEF LGetMapFail, LGo, FirmwareLeft, LMid
  <2> QED
    BY <1>0, <2>1 DEF FirmwareLeft, LFirst, LMid
<1>10. CASE LExit
  <2>1. /\ lpc = "exit" /\ lpc' = "paging" /\ lmap' = lbuf /\ lfw' = [lfw EXCEPT !.on = (lkey # lfw.ver)]
        /\ UNCHANGED <<lkey, lbuf>>
    BY <1>10 DEF LExit, LGo
  <2>2. /\ lfw'.ver = lfw.ver /\ lfw'.on = (lkey # lfw.ver) /\ lfw'.masters = lfw.masters /\ lfw'.silent = lfw.silent
    BY <1>a, <2>1 DEF LFirmware
  <2>3. ~lfw'.on => (lbuf.ver # 0 => lbuf.ver = lfw.ver)
    BY <1>0, <2>1, <2>2 DEF FirmwareLeft, LMid
  <2> QED
    BY <1>0, <2>1, <2>2, <2>3 DEF FirmwareLeft, LFirst, LMid
<1>11. CASE LPage \/ LPageArm \/ LNoRoot \/ LImage \/ LSegment \/ LChunk \/ LRun
  <2>1. /\ lpc \in {"paging", "root", "chunk"} /\ lpc' \in {"paging", "root", "chunk", "done"}
        /\ UNCHANGED <<lfw, lkey, lbuf, lmap>>
    BY <1>11 DEF LPage, LPageArm, MapNext, LNoRoot, LImage, LSegment, LChunk, LRun, LGo
  <2> QED
    BY <1>0, <2>1 DEF FirmwareLeft, LFirst, LMid
<1>12. CASE UNCHANGED lvars
  BY <1>0, <1>12 DEF FirmwareLeft, lvars
<1> QED
  BY <1>1, <1>2, <1>3, <1>4, <1>5, <1>6, <1>7, <1>8, <1>9, <1>10, <1>11, <1>12, Zenon DEF LaunchNext

LEMMA ImageMappedKept == LaunchInv /\ [LaunchNext]_lvars => ImageMapped'
<1> SUFFICES ASSUME LaunchInv, [LaunchNext]_lvars PROVE ImageMapped'
  OBVIOUS
<1>0. LaunchTypes /\ ImageMapped /\ TagsRead
  BY DEF LaunchInv
<1>a. lin.proto \in {"mb2", "mb1", "lgc"} /\ lsize \in Nat
  BY <1>0, LaunchAssumption DEF LaunchTypes, LInput
<1>1. CASE LPage \/ LPageArm
  <2>1. lpc = "paging"
    BY <1>1 DEF LPage, LPageArm, MapNext
  <2>2. PICK n \in Nat : lpt = 0 .. n - 1 /\ (lsize # 0 => n * PerLarge < lsize)
    BY <1>0, <2>1 DEF ImageMapped
  <2>3. Cardinality(lpt) = n
    BY <2>2, FS_Interval
  <2>a. PICK next : next = Cardinality(lpt) + 1
    BY Zenon
  <2>b. /\ lsize' \in (IF lsize = 0 THEN LSizes ELSE {lsize})
        /\ lpt' = lpt \cup {next - 1}
        /\ lpc' = (IF next * PerLarge * 2 + 1 < lsize' * 2 THEN "paging" ELSE "root")
    BY <1>1, <2>a, Zenon DEF LPage, LPageArm, MapNext, LGo
  <2>c. next = n + 1 /\ next - 1 = n
    BY <2>2, <2>3, <2>a
  <2>4. lsize' \in Nat \ {0} /\ n * PerLarge < lsize'
    <3>1. CASE lsize = 0
      <4>1. lpt = {}
        BY <1>0, <3>1 DEF ImageMapped
      <4>2. n = 0
        BY <2>2, <4>1
      <4>3. lsize' \in Nat \ {0}
        BY <2>b, <3>1, LaunchAssumption
      <4> QED
        BY <4>2, <4>3 DEF PerLarge
    <3>2. CASE lsize # 0
      BY <1>a, <2>b, <2>2, <3>2
    <3> QED
      BY <3>1, <3>2
  <2>5. lpt' = 0 .. next - 1 /\ next \in Nat
    BY <2>b, <2>2, <2>c
  <2>d. PICK z \in Nat \ {0} : z = lsize'
    BY <2>4
  <2>6. CASE next * PerLarge * 2 + 1 < z * 2
    <3>1. next * PerLarge < z
      BY <2>5, <2>6 DEF PerLarge
    <3>2. lpc' = "paging"
      BY <2>b, <2>d, <2>6, Zenon
    <3> QED
      BY <2>4, <2>5, <2>d, <3>1, <3>2 DEF ImageMapped, LFirst, LMid, LLast
  <2>7. CASE ~(next * PerLarge * 2 + 1 < z * 2)
    <3>1. lpc' = "root"
      BY <2>b, <2>d, <2>7, Zenon
    <3>2. n * PerLarge < z
      BY <2>4, <2>d, Zenon
    <3>3. \A i : i \in 0 .. next - 1 <=> (i \in 0 .. z /\ i * PerLarge < z)
      <4>1. \A i \in Nat : i <= n <=> i * PerLarge < z
        BY <2>2, <2>c, <2>7, <3>2 DEF PerLarge
      <4>2. \A i \in Nat : i * PerLarge < z => i <= z
        BY DEF PerLarge
      <4> QED
        BY <2>2, <2>c, <4>1, <4>2
    <3>4. lpt' = {i \in 0 .. lsize' : i * PerLarge < lsize'}
      BY <2>5, <2>d, <3>3, Zenon
    <3> QED
      BY <2>4, <3>1, <3>4 DEF ImageMapped, LFirst, LMid, LLast
  <2> QED
    BY <2>6, <2>7
<1>2. CASE \/ LEntry \/ LEntryArm \/ LTag \/ LTagArm \/ LTagEnd \/ LMb1 \/ LMb1Arm \/ LLegacy \/ LUefi
           \/ LEvent \/ LDriver \/ LDisconnect \/ LQuiet \/ LGetMap \/ LGetMapFail \/ LExit
  <2>1. lpc \in LFirst \cup LMid
    BY <1>2 DEF LEntry, LEntryArm, LTag, LTagArm, Tag, LTagEnd, LMb1, LMb1Arm, LLegacy, LUefi, LEvent, LDriver,
       LDisconnect, LQuiet, LGetMap, LGetMapFail, LExit, LFirst, LMid
  <2>2. UNCHANGED <<lpt, lsize>>
    BY <1>2 DEF LEntry, LEntryArm, LTag, LTagArm, Tag, LTagEnd, LMb1, LMb1Arm, LLegacy, LUefi, LEvent, LDriver,
       LDisconnect, LQuiet, LGetMap, LGetMapFail, LExit
  <2>3. lpc' \notin LLast
    BY <1>2, <1>a DEF LEntry, LEntryArm, LTag, LTagArm, Tag, LTagEnd, LMb1, LMb1Arm, LLegacy, LUefi, LEvent, LDriver,
       LDisconnect, LQuiet, LGetMap, LGetMapFail, LExit, LLast, LGo
  <2>4. lsize = 0 /\ lpt = {}
    BY <1>0, <2>1 DEF ImageMapped
  <2>5. lpt = 0 .. 0 - 1 /\ 0 \in Nat
    BY <2>4
  <2> QED
    BY <2>2, <2>3, <2>4, <2>5 DEF ImageMapped
<1>3. CASE LNoRoot \/ LImage \/ LSegment \/ LChunk \/ LRun
  <2>1. lpc \in LLast /\ lpc' \in LLast /\ UNCHANGED <<lpt, lsize>>
    BY <1>3 DEF LNoRoot, LImage, LSegment, LChunk, LRun, LGo, LLast
  <2> QED
    BY <1>0, <2>1 DEF ImageMapped, LFirst, LMid, LLast
<1>4. CASE UNCHANGED lvars
  BY <1>0, <1>4 DEF ImageMapped, lvars
<1> QED
  BY <1>1, <1>2, <1>3, <1>4, Zenon DEF LaunchNext

\* The page numbers of a segment.
LEMMA SegmentTypes ==
    ASSUME NEW s \in ProgramHeaders
    PROVE  /\ s.file \in Nat /\ s.virt \in Nat /\ s.fsize \in Nat
           /\ DnPage(s.file) \in Nat /\ DnPage(s.virt) \in Nat /\ SegmentSize(s) \in Nat
<1>1. s.file \in Nat /\ s.virt \in Nat /\ s.fsize \in Nat
  BY DEF ProgramHeaders
<1>2. \A a, b \in Nat : a \div 2 \in Nat /\ (a + b + 1) \div 2 - (a \div 2) \in Nat
  OBVIOUS
<1> QED
  BY <1>1, <1>2 DEF DnPage, UpPage, SegmentSize

\* Pages a .. and w more after n of them.
LEMMA PagesJoin ==
    ASSUME NEW a \in Nat, NEW b \in Nat, NEW n \in Nat, NEW w \in Nat \ {0}
    PROVE  \A x : x \in PageRange(a, b, n + w) <=> (x \in PageRange(a, b, n) \/ x \in PageRange(a + n, b + n, w))
<1> DEFINE P == {<<a + i, b + i>> : i \in 0 .. n - 1}
<1> DEFINE Q == {<<(a + n) + i, (b + n) + i>> : i \in 0 .. w - 1}
<1> DEFINE R == {<<a + i, b + i>> : i \in 0 .. (n + w) - 1}
<1>1. ASSUME NEW i \in 0 .. n - 1 PROVE <<a + i, b + i>> \in R
  <2>1. i \in 0 .. (n + w) - 1
    OBVIOUS
  <2> QED
    BY <2>1, Zenon
<1>2. ASSUME NEW i \in 0 .. w - 1 PROVE <<(a + n) + i, (b + n) + i>> \in R
  <2>1. n + i \in 0 .. (n + w) - 1
    OBVIOUS
  <2>2. (a + n) + i = a + (n + i) /\ (b + n) + i = b + (n + i)
    OBVIOUS
  <2> QED
    BY <2>1, <2>2, Zenon
<1>3. ASSUME NEW i \in 0 .. (n + w) - 1 PROVE <<a + i, b + i>> \in P \cup Q
  <2>1. CASE i < n
    <3>1. i \in 0 .. n - 1
      BY <2>1
    <3> QED
      BY <3>1, Zenon
  <2>2. CASE ~(i < n)
    <3>1. i - n \in 0 .. w - 1 /\ (a + n) + (i - n) = a + i /\ (b + n) + (i - n) = b + i
      BY <2>2
    <3> QED
      BY <3>1, Zenon
  <2> QED
    BY <2>1, <2>2
<1>4. P \subseteq R
  BY <1>1, Zenon
<1>5. Q \subseteq R
  BY <1>2, Zenon
<1>6. R \subseteq P \cup Q
  BY <1>3, Zenon
<1> HIDE DEF P, Q, R
<1>7. \A x : x \in R <=> (x \in P \/ x \in Q)
  BY <1>4, <1>5, <1>6
<1> QED
  BY <1>7, Zenon DEF P, Q, R, PageRange

\* One more header.
LEMMA GivenNext ==
    ASSUME NEW im, NEW k \in Nat \ {0}
    PROVE  Given(im, k) = Given(im, k - 1) \cup
               (IF im[k].load THEN PageRange(DnPage(im[k].virt), DnPage(im[k].file), SegmentSize(im[k])) ELSE {})
<1> DEFINE S(i) == PageRange(DnPage(im[i].virt), DnPage(im[i].file), SegmentSize(im[i]))
<1>1. \A j, x : x \in Given(im, j) <=> \E i \in 1 .. j : im[i].load /\ x \in S(i)
  BY Zenon DEF Given
<1>2. \A i : i \in 1 .. k <=> i \in 1 .. k - 1 \/ i = k
  OBVIOUS
<1> HIDE DEF S
<1>3. \A x : x \in Given(im, k) <=> x \in Given(im, k - 1) \/ (im[k].load /\ x \in S(k))
  BY <1>1, <1>2, Zenon
<1>4. Given(im, k) = Given(im, k - 1) \cup (IF im[k].load THEN S(k) ELSE {})
  BY <1>3
<1> QED
  BY <1>4 DEF S

\* No pages.
LEMMA NoPages ==
    ASSUME NEW a, NEW b
    PROVE  PageRange(a, b, 0) = {}
  BY DEF PageRange

LEMMA RootGivenKept == LaunchInv /\ [LaunchNext]_lvars => RootGiven'
<1> SUFFICES ASSUME LaunchInv, [LaunchNext]_lvars PROVE RootGiven'
  OBVIOUS
<1>0. LaunchTypes /\ RootGiven
  BY DEF LaunchInv
<1>a. lin.proto \in {"mb2", "mb1", "lgc"}
  BY <1>0, LaunchAssumption DEF LaunchTypes, LInput
<1>1. CASE \/ LEntry \/ LEntryArm \/ LTag \/ LTagArm \/ LTagEnd \/ LMb1 \/ LMb1Arm \/ LLegacy \/ LUefi
           \/ LEvent \/ LDriver \/ LDisconnect \/ LQuiet \/ LGetMap \/ LGetMapFail \/ LExit \/ LPage \/ LPageArm
  <2>1. lpc \notin {"chunk", "done"}
    BY <1>1 DEF LEntry, LEntryArm, LTag, LTagArm, Tag, LTagEnd, LMb1, LMb1Arm, LLegacy, LUefi, LEvent, LDriver,
       LDisconnect, LQuiet, LGetMap, LGetMapFail, LExit, LPage, LPageArm, MapNext
  <2>2. UNCHANGED <<lroot, lend, lseg>>
    BY <1>1 DEF LEntry, LEntryArm, LTag, LTagArm, Tag, LTagEnd, LMb1, LMb1Arm, LLegacy, LUefi, LEvent, LDriver,
       LDisconnect, LQuiet, LGetMap, LGetMapFail, LExit, LPage, LPageArm, MapNext
  <2>3. lpc' \notin {"chunk", "done"}
    BY <1>1, <1>a DEF LEntry, LEntryArm, LTag, LTagArm, Tag, LTagEnd, LMb1, LMb1Arm, LLegacy, LUefi, LEvent, LDriver,
       LDisconnect, LQuiet, LGetMap, LGetMapFail, LExit, LPage, LPageArm, MapNext, LGo
  <2> QED
    BY <1>0, <2>1, <2>2, <2>3 DEF RootGiven
<1>2. CASE LNoRoot
  BY <1>2 DEF LNoRoot, LGo, RootGiven
<1>3. CASE LImage
  <2>1. PICK im \in LImages : lseg' = [lseg EXCEPT !.im = im]
    BY <1>3 DEF LImage
  <2>2. lseg' = [phys |-> 0, virt |-> 0, size |-> 0, im |-> im, next |-> 1] /\ lroot' = {} /\ lend' = "boot" /\ lpc' = "chunk"
    BY <1>0, <1>3, <2>1 DEF LImage, LGo, RootGiven, NoSeg
  <2>3. im \in Seq(ProgramHeaders)
    BY <2>1, LaunchAssumption
  <2>4. Covered({}) = {} /\ Given(im, 0) = {} /\ PageRange(0, 0, 0) = {}
    BY NoPages DEF Covered, Given
  <2>5. SegmentsGiven'
    BY <2>2, <2>3, <2>4 DEF SegmentsGiven
  <2> QED
    BY <2>2, <2>5 DEF RootGiven
<1>7. CASE LSegment
  <2>0. /\ lpc = "chunk" /\ lend = "boot" /\ SegmentsGiven /\ lseg.size = 0 /\ lseg.next <= Len(lseg.im)
        /\ lroot' = lroot
    BY <1>0, <1>7 DEF LSegment, RootGiven
  <2>1. PICK k \in Nat \ {0} : k = lseg.next
    BY <2>0 DEF SegmentsGiven
  <2>2. PICK im \in Seq(ProgramHeaders) : im = lseg.im
    BY <2>0 DEF SegmentsGiven
  <2>3. PICK s : s = im[k]
    BY Zenon
  <2>4. s \in ProgramHeaders /\ k <= Len(im) /\ Header = s
    BY <2>0, <2>1, <2>2, <2>3 DEF Header
  <2>9. lseg \in [phys : Nat, virt : Nat, size : Nat, im : Seq(ProgramHeaders), next : Nat \ {0}] /\ k + 1 \in Nat \ {0}
    BY <2>0 DEF SegmentsGiven
  <2>5. Covered(lroot) = Given(im, k - 1)
    BY <2>0, <2>1, <2>2, NoPages DEF SegmentsGiven
  <2>6. CASE ~s.load /\ lseg' = [lseg EXCEPT !.next = @ + 1] /\ UNCHANGED <<lpc, lend>>
    <3>1. Given(im, k) = Given(im, k - 1)
      <4>1. Given(im, k) = Given(im, k - 1) \cup {}
        BY <2>3, <2>6, GivenNext, Zenon
      <4> QED
        BY <4>1
    <3>2. /\ lseg'.im = im /\ lseg'.next = k + 1 /\ lseg'.size = 0 /\ lseg'.phys = lseg.phys /\ lseg'.virt = lseg.virt
          /\ lseg' \in [phys : Nat, virt : Nat, size : Nat, im : Seq(ProgramHeaders), next : Nat \ {0}]
      <4>1. lseg' = [lseg EXCEPT !.next = k + 1]
        BY <2>1, <2>6, <2>9
      <4> QED
        BY <2>0, <2>2, <2>9, <4>1
    <3>3. (k + 1) - 1 = k /\ k + 1 <= Len(im) + 1
      BY <2>4
    <3>4. Covered(lroot) \cup PageRange(lseg.virt, lseg.phys, 0) = Given(im, k)
      BY <2>5, <3>1, NoPages
    <3>5. SegmentsGiven'
      BY <2>0, <3>2, <3>3, <3>4 DEF SegmentsGiven
    <3> QED
      BY <2>0, <2>6, <3>5 DEF RootGiven
  <2>7. CASE lpc' = "done" /\ lend' = "none"
    BY <2>7 DEF RootGiven
  <2>8. CASE /\ s.load /\ UNCHANGED <<lpc, lend>>
             /\ lseg' = [lseg EXCEPT !.phys = DnPage(s.file), !.virt = DnPage(s.virt),
                                     !.size = SegmentSize(s), !.next = @ + 1]
    <3>1. Given(im, k) = Given(im, k - 1) \cup PageRange(DnPage(s.virt), DnPage(s.file), SegmentSize(s))
      BY <2>3, <2>8, GivenNext
    <3>2. DnPage(s.file) \in Nat /\ DnPage(s.virt) \in Nat /\ SegmentSize(s) \in Nat
      BY <2>4, SegmentTypes
    <3>3. /\ lseg'.im = im /\ lseg'.next = k + 1 /\ lseg'.size = SegmentSize(s)
          /\ lseg'.phys = DnPage(s.file) /\ lseg'.virt = DnPage(s.virt)
          /\ lseg' \in [phys : Nat, virt : Nat, size : Nat, im : Seq(ProgramHeaders), next : Nat \ {0}]
      <4>1. lseg' = [lseg EXCEPT !.phys = DnPage(s.file), !.virt = DnPage(s.virt), !.size = SegmentSize(s), !.next = k + 1]
        BY <2>1, <2>8, <2>9
      <4> QED
        BY <2>2, <2>9, <3>2, <4>1
    <3>4. (k + 1) - 1 = k /\ k + 1 <= Len(im) + 1
      BY <2>4
    <3>5. Covered(lroot) \cup PageRange(lseg'.virt, lseg'.phys, lseg'.size) = Given(im, k)
      BY <2>5, <3>1, <3>3, Zenon
    <3>6. SegmentsGiven'
      BY <2>0, <3>3, <3>4, <3>5 DEF SegmentsGiven
    <3> QED
      BY <2>0, <2>8, <3>6 DEF RootGiven
  <2> QED
    BY <1>7, <2>4, <2>6, <2>7, <2>8 DEF LSegment, LGo, SegmentSize
<1>4. CASE LChunk
  <2>0. lpc = "chunk" /\ lseg.size # 0 /\ lpc' = lpc /\ lend' = lend /\ lend = "boot" /\ SegmentsGiven
    BY <1>0, <1>4 DEF LChunk, RootGiven
  <2>1. lseg \in [phys : Nat, virt : Nat, size : Nat, im : Seq(ProgramHeaders), next : Nat \ {0}]
    BY <2>0 DEF SegmentsGiven
  <2>2. PICK v \in Nat : v = lseg.virt
    BY <2>1
  <2>3. PICK f \in Nat : f = lseg.phys
    BY <2>1
  <2>4. PICK z \in Nat \ {0} : z = lseg.size
    BY <2>0, <2>1
  <2>7. lseg.phys \in Nat /\ lseg.virt \in Nat /\ lseg.size \in Nat \ {0}
    BY <2>0, <2>1
  <2>8. PICK o : o = ChunkOrder(lseg.phys, lseg.virt, lseg.size)
    BY Zenon
  <2>9. o \in Nat /\ 2 ^ o \in Nat \ {0} /\ 2 ^ o <= lseg.size /\ lseg.phys % 2 ^ o = 0 /\ lseg.virt % 2 ^ o = 0
    <3>1. PICK p : p = lseg.phys
      BY Zenon
    <3>2. PICK q : q = lseg.virt
      BY Zenon
    <3>3. PICK m : m = lseg.size
      BY Zenon
    <3>4. p \in Nat /\ q \in Nat /\ m \in Nat \ {0} /\ o = ChunkOrder(p, q, m)
      BY <2>7, <2>8, <3>1, <3>2, <3>3, Zenon
    <3>5. o \in Nat /\ 2 ^ o \in Nat \ {0} /\ 2 ^ o <= m /\ p % 2 ^ o = 0 /\ q % 2 ^ o = 0
      BY <3>4, ChunkFits
    <3> QED
      BY <3>1, <3>2, <3>3, <3>5, Zenon
  <2>10. /\ lroot' = lroot \cup {[virt |-> lseg.virt, phys |-> lseg.phys, ord |-> o]}
         /\ lseg' = [lseg EXCEPT !.phys = @ + 2 ^ o, !.virt = @ + 2 ^ o, !.size = @ - 2 ^ o]
    BY <1>4, <2>8, Zenon DEF LChunk, ChunkOrder
  <2>11. PICK w \in Nat \ {0} : w = 2 ^ o
    BY <2>9
  <2>12. PICK c : c = [virt |-> lseg.virt, phys |-> lseg.phys, ord |-> o]
    BY Zenon
  <2>13. c.virt = v /\ c.phys = f /\ c.ord = o
    BY <2>2, <2>3, <2>12
  <2>14. /\ lseg'.phys = f + w /\ lseg'.virt = v + w /\ lseg'.size = z - w
         /\ lseg'.im = lseg.im /\ lseg'.next = lseg.next
    <3>1. lseg' = [lseg EXCEPT !.phys = @ + w, !.virt = @ + w, !.size = @ - w]
      BY <2>10, <2>11, Zenon
    <3> QED
      BY <2>1, <2>2, <2>3, <2>4, <3>1
  <2>15. w <= z /\ z - w \in Nat /\ w + (z - w) = z
    BY <2>4, <2>9, <2>11
  <2>5. lseg' \in [phys : Nat, virt : Nat, size : Nat, im : Seq(ProgramHeaders), next : Nat \ {0}]
    <3>1. lseg' = [lseg EXCEPT !.phys = f + w, !.virt = v + w, !.size = z - w]
      <4>1. lseg' = [lseg EXCEPT !.phys = @ + w, !.virt = @ + w, !.size = @ - w]
        BY <2>10, <2>11, Zenon
      <4> QED
        BY <2>1, <2>2, <2>3, <2>4, <4>1
    <3>2. f + w \in Nat /\ v + w \in Nat
      OBVIOUS
    <3> QED
      BY <2>1, <2>15, <3>1, <3>2
  <2>16. Chunk(c) = PageRange(v, f, w)
    BY <2>11, <2>13, Zenon DEF Chunk, PageRange
  <2>17. Covered(lroot') = Covered(lroot) \cup Chunk(c)
    <3>1. lroot' = lroot \cup {c}
      BY <2>10, <2>12, Zenon
    <3>2. \A S, x : x \in Covered(S) <=> \E d \in S : x \in Chunk(d)
      BY Zenon DEF Covered
    <3> QED
      BY <3>1, <3>2
  <2>18. Covered(lroot) \cup PageRange(v, f, z) = Given(lseg.im, lseg.next - 1)
    BY <2>0, <2>2, <2>3, <2>4, Zenon DEF SegmentsGiven
  <2>19. Covered(lroot') \cup PageRange(v + w, f + w, z - w) = Given(lseg.im, lseg.next - 1)
    <3>1. PageRange(v, f, z) = PageRange(v, f, w) \cup PageRange(v + w, f + w, z - w)
      <4>1. CASE z - w = 0
        BY <2>15, <4>1, NoPages
      <4>2. CASE z - w # 0
        <5>1. PICK y \in Nat \ {0} : y = z - w
          BY <2>15, <4>2
        <5>2. \A x : x \in PageRange(v, f, w + y) <=> (x \in PageRange(v, f, w) \/ x \in PageRange(v + w, f + w, y))
          <6>1. w \in Nat
            OBVIOUS
          <6> QED
            BY <6>1, PagesJoin, Zenon
        <5>3. w + y = z
          BY <2>15, <5>1
        <5> QED
          BY <5>1, <5>2, <5>3
      <4> QED
        BY <4>1, <4>2
    <3>2. \A A, B, C, D : D = B \cup C => (A \cup B) \cup C = A \cup D
      OBVIOUS
    <3>3. Covered(lroot') = Covered(lroot) \cup PageRange(v, f, w)
      BY <2>16, <2>17
    <3>4. (Covered(lroot) \cup PageRange(v, f, w)) \cup PageRange(v + w, f + w, z - w) = Covered(lroot) \cup PageRange(v, f, z)
      BY <3>1, <3>2
    <3> QED
      BY <2>18, <3>3, <3>4
  <2>20. \A d \in lroot' : d.virt % 2 ^ d.ord = 0 /\ d.phys % 2 ^ d.ord = 0
    <3>1. c.virt % 2 ^ c.ord = 0 /\ c.phys % 2 ^ c.ord = 0
      BY <2>2, <2>3, <2>9, <2>13, Zenon
    <3>2. \A d \in lroot : d.virt % 2 ^ d.ord = 0 /\ d.phys % 2 ^ d.ord = 0
      BY <2>0, Zenon DEF SegmentsGiven
    <3> QED
      BY <2>10, <2>12, <3>1, <3>2, Zenon
  <2>21. lseg'.next <= Len(lseg'.im) + 1
    BY <2>0, <2>14 DEF SegmentsGiven
  <2>22. SegmentsGiven'
    BY <2>5, <2>14, <2>19, <2>20, <2>21, Zenon DEF SegmentsGiven
  <2> QED
    BY <2>0, <2>22 DEF RootGiven
<1>5. CASE LRun
  <2>1. /\ lpc = "chunk" /\ lseg.size = 0 /\ lseg.next > Len(lseg.im) /\ lend' = "run" /\ lpc' = "done"
        /\ UNCHANGED <<lseg, lroot>>
    BY <1>5 DEF LRun, LGo
  <2>2. SegmentsGiven'
    BY <1>0, <2>1 DEF RootGiven, SegmentsGiven
  <2> QED
    BY <2>1, <2>2 DEF RootGiven
<1>6. CASE UNCHANGED lvars
  <2>1. SegmentsGiven' <=> SegmentsGiven
    BY <1>6, Zenon DEF SegmentsGiven, lvars
  <2> QED
    BY <1>0, <1>6, <2>1 DEF RootGiven, lvars
<1> QED
  BY <1>1, <1>2, <1>3, <1>4, <1>5, <1>6, <1>7, Zenon DEF LaunchNext

\* The pages of a segment, counted from the first.
LEMMA SegmentRange ==
    ASSUME NEW s \in ProgramHeaders
    PROVE  SegmentPages(s) = PageRange(DnPage(s.virt), DnPage(s.file), SegmentSize(s))
<1>3. /\ s.file \in Nat /\ s.virt \in Nat /\ s.fsize \in Nat
      /\ DnPage(s.file) \in Nat /\ DnPage(s.virt) \in Nat /\ SegmentSize(s) \in Nat
  BY SegmentTypes, Zenon
<1> DEFINE pages == {n \in 0 .. (s.virt + s.fsize) : 2 * n < s.virt + s.fsize /\ 2 * n + 1 >= s.virt}
<1> DEFINE given == {<<n, n + DnPage(s.file) - DnPage(s.virt)>> : n \in pages}
<1>6. PICK a : a = s.virt
  BY Zenon
<1>7. PICK b : b = s.fsize
  BY Zenon
<1>8. PICK v : v = DnPage(s.virt)
  BY Zenon
<1>9. PICK z : z = SegmentSize(s)
  BY Zenon
<1>10. PICK f : f = DnPage(s.file)
  BY Zenon
<1>11. a \in Nat /\ b \in Nat /\ v = a \div 2 /\ z = ((a + b + 1) \div 2) - v /\ v \in Nat /\ z \in Nat /\ f \in Nat
  BY <1>3, <1>6, <1>7, <1>8, <1>9, <1>10, Zenon DEF DnPage, UpPage, SegmentSize
<1>12. \A n \in Nat : n >= v <=> 2 * n + 1 >= a
  BY <1>11
<1>13. \A n \in Nat : n < v + z <=> 2 * n < a + b
  <2>1. v + z = (a + b + 1) \div 2
    BY <1>11
  <2>2. \A n, t \in Nat : n < (t + 1) \div 2 <=> 2 * n < t
    OBVIOUS
  <2>3. a + b \in Nat
    BY <1>11
  <2> QED
    BY <2>1, <2>2, <2>3
<1>14. \A n : n \in pages <=> (n \in Nat /\ v <= n /\ n < v + z)
  <2>1. \A n : n \in pages <=> (n \in 0 .. (a + b) /\ 2 * n < a + b /\ 2 * n + 1 >= a)
    BY <1>6, <1>7, Zenon
  <2>2. \A n : n \in 0 .. (a + b) /\ 2 * n < a + b <=> n \in Nat /\ 2 * n < a + b
    BY <1>11
  <2> HIDE DEF pages
  <2>3. \A n : n \in pages <=> (n \in Nat /\ 2 * n < a + b /\ 2 * n + 1 >= a)
    BY <2>1, <2>2, Zenon
  <2>4. \A n \in Nat : n \in pages <=> (v <= n /\ n < v + z)
    <3>1. ASSUME NEW n \in Nat PROVE n \in pages <=> (v <= n /\ n < v + z)
      <4>1. n \in pages <=> (2 * n < a + b /\ 2 * n + 1 >= a)
        BY <2>3
      <4>2. n >= v <=> v <= n
        BY <1>11
      <4> QED
        BY <4>1, <4>2, <1>12, <1>13, Zenon
    <3> QED
      BY <3>1
  <2> QED
    BY <2>3, <2>4, Zenon
<1>15. \A x : x \in given <=> \E n \in pages : x = <<n, n + f - v>>
  BY <1>8, <1>10, Zenon
<1>16. \A x : x \in PageRange(v, f, z) <=> \E i \in 0 .. z - 1 : x = <<v + i, f + i>>
  BY Zenon DEF PageRange
<1> HIDE DEF pages
<1>17. ASSUME NEW n \in pages PROVE \E i \in 0 .. z - 1 : <<n, n + f - v>> = <<v + i, f + i>>
  <2>1. n \in Nat /\ v <= n /\ n < v + z
    BY <1>14
  <2>2. n - v \in 0 .. z - 1 /\ n = v + (n - v) /\ n + f - v = f + (n - v)
    BY <1>11, <2>1
  <2> QED
    BY <2>2, Zenon
<1>18. ASSUME NEW i \in 0 .. z - 1 PROVE \E n \in pages : <<v + i, f + i>> = <<n, n + f - v>>
  <2>1. v + i \in Nat /\ v <= v + i /\ v + i < v + z /\ f + i = (v + i) + f - v
    BY <1>11
  <2>2. v + i \in pages
    BY <1>14, <2>1
  <2> QED
    BY <2>1, <2>2, Zenon
<1> HIDE DEF given
<1>19. given = PageRange(v, f, z)
  <2>1. ASSUME NEW x \in given PROVE x \in PageRange(v, f, z)
    BY <1>15, <1>16, <1>17, Zenon
  <2>2. ASSUME NEW x \in PageRange(v, f, z) PROVE x \in given
    BY <1>15, <1>16, <1>18, Zenon
  <2> QED
    BY <2>1, <2>2
<1> QED
  BY <1>8, <1>9, <1>10, <1>19 DEF given, pages, SegmentPages

\* What root got is the pages of its segments.
LEMMA RootExact ==
    ASSUME LaunchInv, lend = "run"
    PROVE  /\ \A c \in lroot : c.virt % 2 ^ c.ord = 0 /\ c.phys % 2 ^ c.ord = 0
           /\ UNION {{<<c.virt + i, c.phys + i>> : i \in 0 .. (2 ^ c.ord - 1)} : c \in lroot}
              = UNION {SegmentPages(lseg.im[i]) : i \in {j \in 1 .. Len(lseg.im) : lseg.im[j].load}}
<1>1. SegmentsGiven /\ lseg.size = 0 /\ lseg.next > Len(lseg.im)
  BY DEF LaunchInv, RootGiven
<1>2. PICK im \in Seq(ProgramHeaders) : im = lseg.im
  BY <1>1 DEF SegmentsGiven
<1>3. lseg.next - 1 = Len(im)
  BY <1>1, <1>2 DEF SegmentsGiven
<1>4. Covered(lroot) = Given(im, Len(im))
  BY <1>1, <1>2, <1>3, NoPages DEF SegmentsGiven
<1>5. \A i \in 1 .. Len(im) : SegmentPages(im[i]) = PageRange(DnPage(im[i].virt), DnPage(im[i].file), SegmentSize(im[i]))
  BY <1>2, SegmentRange
<1>6. \A x : x \in Given(im, Len(im)) <=> x \in UNION {SegmentPages(im[i]) : i \in {j \in 1 .. Len(im) : im[j].load}}
  <2>1. \A x : x \in Given(im, Len(im)) <=> \E i \in 1 .. Len(im) :
                  im[i].load /\ x \in PageRange(DnPage(im[i].virt), DnPage(im[i].file), SegmentSize(im[i]))
    BY Zenon DEF Given
  <2> QED
    BY <1>5, <2>1, Zenon
<1>7. Covered(lroot) = UNION {SegmentPages(im[i]) : i \in {j \in 1 .. Len(im) : im[j].load}}
  BY <1>4, <1>6
<1>8. \A c \in lroot : c.virt % 2 ^ c.ord = 0 /\ c.phys % 2 ^ c.ord = 0
  BY <1>1, Zenon DEF SegmentsGiven
<1> QED
  BY <1>2, <1>7, <1>8, Zenon DEF Covered, Chunk

\* From any loader, in whatever order it passes things, and however often the
\* firmware changes its memory map, NOVA gets to a root domain with the first
\* module, the command line, the memory map in force when the boot services
\* were left (if it fitted in one of the attempts), the whole image mapped and
\* exactly the pages of the segments, for any hypervisor image and any root
\* image, provided that no loader passes a module by multiboot v1 on AArch64
\* (start.S, Uefi::init, Ec::create_root).
THEOREM LaunchIsRight == ~Mb1Arm /\ LaunchSpec => []LaunchRight
<1>0. SUFFICES ASSUME ~Mb1Arm PROVE LaunchSpec => []LaunchRight
  OBVIOUS
<1>1. LaunchInit => LaunchInv
  BY <1>0, LaunchInitial
<1>2. LaunchInv /\ [LaunchNext]_lvars => LaunchInv'
  <2> SUFFICES ASSUME LaunchInv, [LaunchNext]_lvars PROVE LaunchInv'
    OBVIOUS
  <2>1. LaunchTypes'
    BY <1>0, LaunchTypesKept
  <2>2. TagsRead' /\ FirmwareLeft' /\ ImageMapped' /\ RootGiven'
    BY TagsReadKept, FirmwareLeftKept, ImageMappedKept, RootGivenKept
  <2> QED
    BY <2>1, <2>2 DEF LaunchInv
<1>3. LaunchInv => LaunchRight
  <2> SUFFICES ASSUME LaunchInv PROVE LaunchRight
    OBVIOUS
  <2>1. LaunchType
    BY DEF LaunchInv, LaunchTypes, LaunchType, LFirst, LAfter
  <2>2. ParametersExact
    <3>1. lpc \in {"paging", "root", "chunk", "done"} => ParametersRead
      BY DEF LaunchInv, TagsRead, LAfter
    <3> QED
      BY <3>1 DEF ParametersExact, ParametersRead
  <2>3. LaunchExact
    <3>1. lpc \notin {"dev", "quiet"} => lfw.masters \cap LBehind \subseteq lfw.silent
      BY DEF LaunchInv, FirmwareLeft
    <3>2. ~lfw.on => lmap = lbuf /\ (lmap.ver # 0 => lmap.ver = lfw.ver)
      BY DEF LaunchInv, FirmwareLeft
    <3>3. lpc \in {"root", "chunk", "done"} => lpt = {i \in 0..lsize : i * PerLarge < lsize}
      BY DEF LaunchInv, ImageMapped, LLast
    <3> QED
      BY <3>1, <3>2, <3>3, RootExact, Zenon DEF LaunchExact
  <2> QED
    BY <2>1, <2>2, <2>3 DEF LaunchRight
<1> QED
  BY <1>1, <1>2, <1>3, PTL DEF LaunchSpec

-----------------------------------------------------------------------------
(* Classes of service: capacity masks.                                     *)

\* c & (c + 1) = 0: c is a run of ones from bit 0.
LEMMA NoHoles ==
    ASSUME NEW h \in Nat, NEW c \in Nat, c < 2 ^ (h + 1)
    PROVE  (\A i \in 0..h : ~(BitSet(c, i) /\ BitSet(c + 1, i))) => \E k \in Nat : c + 1 = 2 ^ k
<1>1. c + 1 \in Nat \ {0}
  OBVIOUS
<1>2. PICK k \in Nat, g \in Nat : c + 1 = 2 ^ (k + 1) * g + 2 ^ k
  BY <1>1, OddPart
<1>3. PICK p : p = 2 ^ k
  BY Zenon
<1>4. p \in Nat \ {0} /\ 2 ^ (k + 1) = 2 * p
  BY <1>3, PowPositive, PowDouble
<1>5. c + 1 = (2 * p) * g + p /\ c = (2 * p) * g + (p - 1)
  <2>1. c + 1 = (2 * p) * g + p
    BY <1>2, <1>3, <1>4, Zenon
  <2> QED
    BY <1>4, <2>1
<1>6. ASSUME g # 0, \A i \in 0..h : ~(BitSet(c, i) /\ BitSet(c + 1, i)) PROVE FALSE
  <2>1. PICK j \in Nat : 2 ^ j <= g /\ g < 2 ^ (j + 1)
    <3>1. \E j \in 0 .. g : 2 ^ j <= g /\ g < 2 ^ (j + 1)
      BY <1>6, HighestBit
    <3> QED
      BY <3>1
  <2>2. PICK m : m = k + 1
    BY Zenon
  <2>3. m \in Nat /\ 2 ^ m = 2 * p /\ g \in Nat \ {0}
    BY <1>4, <1>6, <2>2
  <2>4. 2 ^ (m + j) <= c /\ BitSet(c, m + j)
    <3>1. PICK r : r = p - 1
      BY Zenon
    <3>2. r \in Nat /\ r < 2 ^ m /\ c = 2 ^ m * g + r
      BY <1>4, <1>5, <2>3, <3>1
    <3>3. /\ m \in Nat /\ g \in Nat \ {0} /\ r \in Nat /\ r < 2 ^ m /\ j \in Nat
          /\ 2 ^ j <= g /\ g < 2 ^ (j + 1) /\ c = 2 ^ m * g + r
      BY <2>1, <2>3, <3>2
    <3> QED
      BY <3>3, TopBit, Zenon
  <2>5. BitSet(c + 1, m + j)
    <3>1. p \in Nat /\ p < 2 ^ m /\ c + 1 = 2 ^ m * g + p
      BY <1>4, <1>5, <2>3
    <3> QED
      BY <2>1, <2>3, <3>1, TopBit
  <2>6. m + j \in 0..h
    <3>1. m + j \in Nat
      BY <2>3
    <3>2. ASSUME h + 1 <= m + j PROVE FALSE
      <4>0. h + 1 \in Nat
        OBVIOUS
      <4>1. 2 ^ (h + 1) <= 2 ^ (m + j)
        BY <3>1, <3>2, <4>0, PowMonotone
      <4>2. 2 ^ (h + 1) \in Nat /\ 2 ^ (m + j) \in Nat
        BY <3>1, <4>0, PowPositive
      <4> QED
        BY <2>4, <4>1, <4>2
    <3> QED
      BY <3>1, <3>2
  <2> QED
    BY <1>6, <2>4, <2>5, <2>6
<1> SUFFICES ASSUME \A i \in 0..h : ~(BitSet(c, i) /\ BitSet(c + 1, i)) PROVE \E e \in Nat : c + 1 = 2 ^ e
  OBVIOUS
<1>7. g = 0
  BY <1>6, Zenon
<1>8. c + 1 = p
  BY <1>4, <1>5, <1>7
<1> QED
  BY <1>2, <1>3, <1>8, Zenon

\* A mask is a run of ones within the capacity of the cache.
OnesRun(m, h) == \E a \in 0..h : \E b \in a..h : m = 2 ^ (b + 1) - 2 ^ a

LEMMA ValidRun ==
    ASSUME NEW m \in Nat, NEW h \in 0..31, ValidCbm(m, h)
    PROVE  OnesRun(m, h)
<1>0. \A n \in Nat : 2 ^ n \in Nat \ {0}
  BY PowPositive
<1>1. m # 0 /\ h + 1 \in Nat /\ h + 1 <= 32 /\ h \in Nat
  BY DEF ValidCbm
<1>2. m < 2 ^ (h + 1)
  <2>1. m <= 2 ^ (h + 1) - 1
    BY DEF ValidCbm, Ones
  <2>2. 2 ^ (h + 1) \in Nat
    BY <1>0, <1>1
  <2> QED
    BY <2>1, <2>2
<1>3. PICK a : a = BitScan(m)
  BY Zenon
<1>4. a \in 0..31 /\ m % 2 ^ (a + 1) # 0 /\ m % 2 ^ a = 0
  <2>1. PICK i \in 0..m : m % 2 ^ (i + 1) # 0 /\ m % 2 ^ i = 0
    BY <1>1, LowestBit
  <2>2. i \in 0..31
    <3>0. i \in Nat
      OBVIOUS
    <3>1. ASSUME 32 <= i PROVE FALSE
      <4>1. 2 ^ (h + 1) <= 2 ^ i
        BY <1>1, <3>0, <3>1, PowMonotone
      <4>2. m < 2 ^ i /\ 2 ^ i \in Nat \ {0}
        <5>1. 2 ^ i \in Nat \ {0} /\ 2 ^ (h + 1) \in Nat
          BY <1>0, <1>1, <3>0
        <5> QED
          BY <1>2, <4>1, <5>1
      <4>3. m = 2 ^ i * 0 + m
        BY <4>2
      <4>4. m % 2 ^ i = m
        BY <4>2, <4>3, DivUnique
      <4> QED
        BY <1>1, <2>1, <4>4
    <3> QED
      BY <3>0, <3>1
  <2> QED
    BY <1>3, <2>1, <2>2, Zenon DEF BitScan
<1>5. a \in Nat
  BY <1>4
<1>6. PICK p \in Nat \ {0} : p = 2 ^ a
  BY <1>0, <1>5
<1>7. PICK c : c = m \div p
  BY Zenon
<1>8. c \in Int /\ m = p * c
  <2>1. m = p * (m \div p) + (m % p) /\ m \div p \in Int
    BY DivMod
  <2>2. m % p = 0
    BY <1>4, <1>6, Zenon
  <2> QED
    BY <1>7, <2>1, <2>2
<1>9. c \in Nat \ {0} /\ c <= m
  <2>1. ASSUME c <= 0 PROVE FALSE
    <3>1. p * c <= 0
      BY <1>8, <2>1
    <3> QED
      BY <1>1, <1>8, <3>1
  <2>2. c \in Nat \ {0}
    BY <1>8, <2>1
  <2>3. c <= p * c
    BY <2>2
  <2> QED
    BY <1>8, <2>2, <2>3
<1>10. PICK k \in Nat : c + 1 = 2 ^ k
  <2>1. \A i \in 0..h : ~(BitSet(c, i) /\ BitSet(c + 1, i))
    BY <1>3, <1>6, <1>7, Zenon DEF ValidCbm
  <2>2. c < 2 ^ (h + 1)
    <3>1. 2 ^ (h + 1) \in Nat
      BY <1>0, <1>1
    <3> QED
      BY <1>2, <1>9, <3>1
  <2> QED
    BY <1>1, <1>9, <2>1, <2>2, NoHoles, Zenon
<1>11. k # 0
  <2>1. ASSUME k = 0 PROVE FALSE
    <3>1. c + 1 = 1
      BY <1>10, <2>1, PowZero, Zenon
    <3> QED
      BY <1>9, <3>1
  <2> QED
    BY <2>1
<1>12. m = 2 ^ (a + k) - 2 ^ a
  <2>1. 2 ^ (a + k) = 2 ^ a * 2 ^ k
    BY <1>5, PowSum
  <2>2. 2 ^ (a + k) = p * (c + 1)
    BY <1>6, <1>10, <2>1, Zenon
  <2>3. p * (c + 1) = p * c + p /\ p * c \in Nat
    BY <1>9
  <2>4. 2 ^ (a + k) - p = m
    BY <1>8, <2>2, <2>3
  <2> QED
    BY <1>6, <2>4
<1>13. a + k - 1 \in Nat /\ (a + k - 1) + 1 = a + k /\ a <= a + k - 1
  BY <1>5, <1>11
<1>14. a <= h
  <2>1. ASSUME h + 1 <= a PROVE FALSE
    <3>1. 2 ^ (h + 1) <= 2 ^ a
      BY <1>1, <1>5, <2>1, PowMonotone
    <3>2. p <= p * c
      BY <1>9
    <3>3. 2 ^ (h + 1) \in Nat
      BY <1>0, <1>1
    <3> QED
      BY <1>2, <1>6, <1>8, <3>1, <3>2, <3>3
  <2> QED
    BY <1>1, <1>5, <2>1
<1>15. a + k - 1 <= h
  <2>1. ASSUME h + 2 <= a + k PROVE FALSE
    <3>1. 2 ^ (h + 2) <= 2 ^ (a + k) /\ 2 ^ a <= 2 ^ h
      BY <1>1, <1>5, <1>14, <2>1, PowMonotone
    <3>2. PICK q \in Nat \ {0} : q = 2 ^ h
      BY <1>0, <1>1
    <3>3. 2 ^ (h + 1) = 2 * q
      BY <1>1, <3>2, PowDouble
    <3>4. 2 ^ (h + 2) = 4 * q
      <4>1. 2 ^ ((h + 1) + 1) = 2 * 2 ^ (h + 1) /\ (h + 1) + 1 = h + 2
        BY <1>1, PowDouble
      <4> QED
        BY <3>3, <4>1
    <3>5. 2 ^ (a + k) \in Nat
      BY <1>0, <1>5
    <3> QED
      BY <1>2, <1>6, <1>12, <3>1, <3>2, <3>3, <3>4, <3>5
  <2> QED
    BY <1>1, <1>5, <2>1
<1>16. PICK b : b = a + k - 1
  BY Zenon
<1>17. a \in 0..h /\ b \in a..h /\ b + 1 = a + k
  BY <1>1, <1>5, <1>13, <1>14, <1>15, <1>16
<1>18. m = 2 ^ (b + 1) - 2 ^ a
  BY <1>12, <1>17, Zenon
<1> QED
  BY <1>17, <1>18 DEF OnesRun

\* All ones are such a run.
LEMMA OnesValid ==
    ASSUME NEW h \in 0..31
    PROVE  OnesRun(Ones(h), h)
<1>1. 0 \in 0..h /\ h \in 0..h
  OBVIOUS
<1>2. Ones(h) = 2 ^ (h + 1) - 2 ^ 0
  BY PowZero, Zenon DEF Ones
<1> QED
  BY <1>1, <1>2, Zenon DEF OnesRun

-----------------------------------------------------------------------------
(* Classes of service: the invariant.                                      *)

\* A class that the registers of CPU c define.
Defined(c, cos) ==
    \/ cos = 0
    \/ kconf[c] # {} /\ (\/ cos < Halved(NumL3[c], "l3" \in kconf[c])
                         \/ cos < Halved(NumL2[c], "l2" \in kconf[c]) \/ cos < NumMb[c])

CosTypes ==
    /\ CosType
    /\ kcdp \in [KCpus -> SUBSET {"l3", "l2"}]
    /\ \A c \in KCpus : kconf[c] \subseteq SupCfg[c] \cup {"locked"}

\* A CPU that is up has the settings and the class it remembers, ...
SettingsHeld ==
    /\ kran = kcurrent
    /\ \A c \in KCpus \ kdown : kpqr[c] = kcurrent[c] /\ kcdp[c] = kconf[c] \ {"locked"}

\* ... and the class of its SCs and its own are defined, or strays.
Known(c, cos) == Defined(c, cos) \/ <<c, cos>> \in kstray

ClassesDefined ==
    \A c \in KCpus : Known(c, kcurrent[c]) /\ \A s \in KScs : kcpu[s] = {c} => Known(c, kcos[s])

\* The masks of one cache.
Runs(masks, num, hcb) ==
    /\ DOMAIN masks = KCpus
    /\ \A c \in KCpus : /\ masks[c] = [n \in 0..(num[c] - 1) |-> masks[c][n]]
                        /\ \A n \in 0..(num[c] - 1) : OnesRun(masks[c][n], hcb[c])

MasksValid == Runs(kl3, NumL3, HcbL3) /\ Runs(kl2, NumL2, HcbL2)

CosInv == CosTypes /\ SettingsHeld /\ ClassesDefined /\ MasksValid

LEMMA CosConstants ==
    /\ NumL3 \in [KCpus -> Nat] /\ NumL2 \in [KCpus -> Nat] /\ NumMb \in [KCpus -> Nat]
    /\ HcbL3 \in [KCpus -> 0..31] /\ HcbL2 \in [KCpus -> 0..31] /\ SupCfg \in [KCpus -> SUBSET {"l3", "l2"}]
  BY CosAssumption

\* A class number below the largest is one below one of them.
LEMMA ValidDefined ==
    ASSUME NEW c \in KCpus, NEW cos \in Nat, ValidCos(c, cos)
    PROVE  Defined(c, cos)
<1>1. CASE kconf[c] = {}
  BY <1>1 DEF ValidCos, Defined
<1>2. CASE kconf[c] # {}
  <2>1. PICK l3 : l3 = Halved(NumL3[c], "l3" \in kconf[c])
    BY Zenon
  <2>2. PICK l2 : l2 = Halved(NumL2[c], "l2" \in kconf[c])
    BY Zenon
  <2>3. l3 \in Nat /\ l2 \in Nat /\ NumMb[c] \in Nat
    <3>1. \A n \in Nat : n \div 2 \in Nat
      OBVIOUS
    <3> QED
      BY <2>1, <2>2, <3>1, CosConstants DEF Halved
  <2>4. PICK m \in {1, l3, l2, NumMb[c]} : \A n \in {1, l3, l2, NumMb[c]} : n <= m
    BY <2>3
  <2>5. MaxOf({1, l3, l2, NumMb[c]}) \in {1, l3, l2, NumMb[c]}
    BY <2>4, Zenon DEF MaxOf
  <2>6. cos < MaxOf({1, l3, l2, NumMb[c]})
    BY <1>2, <2>1, <2>2, Zenon DEF ValidCos
  <2>7. cos < 1 \/ cos < l3 \/ cos < l2 \/ cos < NumMb[c]
    BY <2>5, <2>6
  <2>8. cos < 1 => cos = 0
    OBVIOUS
  <2> QED
    BY <1>2, <2>1, <2>2, <2>7, <2>8, Zenon DEF Defined
<1> QED
  BY <1>1, <1>2

LEMMA CosInitial == CosInit => CosInv
<1> SUFFICES ASSUME CosInit PROVE CosInv
  OBVIOUS
<1>1. CosTypes
  BY DEF CosInit, CosTypes, CosType, Zeros
<1>2. SettingsHeld
  BY DEF CosInit, SettingsHeld, Zeros
<1>3. ClassesDefined
  <2>1. \A c \in KCpus : kcurrent[c] = 0
    BY DEF CosInit, Zeros
  <2>2. \A s \in KScs : kcos[s] = 0
    BY DEF CosInit
  <2> QED
    BY <2>1, <2>2, Zenon DEF ClassesDefined, Known, Defined
<1>4. MasksValid
  <2>1. \A c \in KCpus : HcbL3[c] \in 0..31 /\ HcbL2[c] \in 0..31
    BY CosConstants
  <2>2. \A h \in 0..31 : OnesRun(Ones(h), h)
    BY OnesValid
  <2>3. Runs(kl3, NumL3, HcbL3)
    BY <2>1, <2>2 DEF CosInit, Runs
  <2>4. Runs(kl2, NumL2, HcbL2)
    BY <2>1, <2>2 DEF CosInit, Runs
  <2> QED
    BY <2>3, <2>4 DEF MasksValid
<1> QED
  BY <1>1, <1>2, <1>3, <1>4 DEF CosInv

LEMMA CosTypesKept == CosInv /\ [CosNext]_kvars => CosTypes'
<1> SUFFICES ASSUME CosInv, [CosNext]_kvars PROVE CosTypes'
  OBVIOUS
<1>0. CosTypes
  BY DEF CosInv
<1>1. ASSUME NEW c \in KCpus, NEW cfg \in SUBSET {"l3", "l2"}, CfgQos(c, cfg) PROVE CosTypes'
  <2>1. kconf' \in [KCpus -> SUBSET {"l3", "l2", "locked"}]
    BY <1>0, <1>1 DEF CosTypes, CosType, CfgQos
  <2>2. kcdp' \in [KCpus -> SUBSET {"l3", "l2"}]
    BY <1>0, <1>1 DEF CosTypes, CfgQos
  <2>3. \A d \in KCpus : kconf'[d] \subseteq SupCfg[d] \cup {"locked"}
    BY <1>0, <1>1 DEF CosTypes, CosType, CfgQos
  <2> QED
    BY <1>0, <1>1, <2>1, <2>2, <2>3 DEF CosTypes, CosType, CfgQos
<1>2. ASSUME NEW c \in KCpus, NEW n, NEW cbm, CfgL3(c, n, cbm) \/ CfgL2(c, n, cbm) \/ CfgMb(c, n, cbm) PROVE CosTypes'
  BY <1>0, <1>2 DEF CosTypes, CosType, CfgL3, CfgL2, CfgMb
<1>3. ASSUME NEW c \in KCpus, NEW p \in KCpus, NEW s \in KScs, NEW cos \in 0..4, CreateSc(p, c, s, cos) PROVE CosTypes'
  <2>1. kcos' \in [KScs -> Nat] /\ kcpu' \in [KScs -> SUBSET KCpus]
    BY <1>0, <1>3 DEF CosTypes, CosType, CreateSc
  <2> QED
    BY <1>0, <1>3, <2>1 DEF CosTypes, CosType, CreateSc
<1>4. ASSUME NEW c \in KCpus, NEW s \in KScs, Dispatch(c, s) PROVE CosTypes'
  <2>1. kran' \in [KCpus -> Nat] /\ kcurrent' \in [KCpus -> Nat] /\ kpqr' \in [KCpus -> Nat]
    BY <1>0, <1>4 DEF CosTypes, CosType, Dispatch
  <2> QED
    BY <1>0, <1>4, <2>1 DEF CosTypes, CosType, Dispatch
<1>5. ASSUME NEW c \in KCpus, KSleep(c) PROVE CosTypes'
  <2>1. kpqr' \in [KCpus -> Nat] /\ kcdp' \in [KCpus -> SUBSET {"l3", "l2"}] /\ kdown' \subseteq KCpus
    BY <1>0, <1>5 DEF CosTypes, CosType, KSleep
  <2> QED
    BY <1>0, <1>5, <2>1 DEF CosTypes, CosType, KSleep
<1>6. ASSUME NEW c \in KCpus, KResume(c) PROVE CosTypes'
  <2>1. kpqr' \in [KCpus -> Nat] /\ kdown' \subseteq KCpus
    BY <1>0, <1>6 DEF CosTypes, CosType, KResume
  <2>2. kcdp' \in [KCpus -> SUBSET {"l3", "l2"}]
    <3>1. kconf[c] \cap SupCfg[c] \in SUBSET {"l3", "l2"}
      BY CosConstants
    <3> QED
      BY <1>0, <1>6, <3>1 DEF CosTypes, KResume
  <2> QED
    BY <1>0, <1>6, <2>1, <2>2 DEF CosTypes, CosType, KResume
<1>7. CASE UNCHANGED kvars
  BY <1>0, <1>7 DEF CosTypes, CosType, kvars
<1> QED
  BY <1>1, <1>2, <1>3, <1>4, <1>5, <1>6, <1>7 DEF CosNext

LEMMA SettingsHeldKept == CosInv /\ [CosNext]_kvars => SettingsHeld'
<1> SUFFICES ASSUME CosInv, [CosNext]_kvars PROVE SettingsHeld'
  OBVIOUS
<1>0. CosTypes /\ SettingsHeld
  BY DEF CosInv
<1>1. ASSUME NEW c \in KCpus, NEW cfg \in SUBSET {"l3", "l2"}, CfgQos(c, cfg) PROVE SettingsHeld'
  <2>1. \A d \in KCpus : /\ kconf'[d] = (IF d = c THEN cfg \cup {"locked"} ELSE kconf[d])
                         /\ kcdp'[d] = (IF d = c THEN cfg ELSE kcdp[d])
    BY <1>0, <1>1 DEF CosTypes, CosType, CfgQos
  <2>2. (cfg \cup {"locked"}) \ {"locked"} = cfg
    OBVIOUS
  <2>3. UNCHANGED <<kcurrent, kpqr, kran, kdown>>
    BY <1>1 DEF CfgQos
  <2> QED
    BY <1>0, <2>1, <2>2, <2>3, Zenon DEF SettingsHeld
<1>2. ASSUME NEW c \in KCpus, NEW n, NEW cbm, CfgL3(c, n, cbm) \/ CfgL2(c, n, cbm) \/ CfgMb(c, n, cbm) PROVE SettingsHeld'
  BY <1>0, <1>2 DEF SettingsHeld, CfgL3, CfgL2, CfgMb
<1>3. ASSUME NEW c \in KCpus, NEW p \in KCpus, NEW s \in KScs, NEW cos \in 0..4, CreateSc(p, c, s, cos) PROVE SettingsHeld'
  BY <1>0, <1>3 DEF SettingsHeld, CreateSc
<1>4. ASSUME NEW c \in KCpus, NEW s \in KScs, Dispatch(c, s) PROVE SettingsHeld'
  <2>1. c \notin kdown /\ kran' = kcurrent' /\ UNCHANGED <<kconf, kcdp, kdown>>
    BY <1>0, <1>4 DEF SettingsHeld, Dispatch
  <2>2. \A d \in KCpus : kcurrent'[d] = (IF d = c THEN kcos[s] ELSE kcurrent[d])
    BY <1>0, <1>4 DEF CosTypes, CosType, Dispatch
  <2>3. \A d \in KCpus : kpqr'[d] = (IF d = c /\ kcurrent[c] # kcos[s] THEN kcos[s] ELSE kpqr[d])
    BY <1>0, <1>4 DEF CosTypes, CosType, Dispatch
  <2> QED
    BY <1>0, <2>1, <2>2, <2>3, Zenon DEF SettingsHeld
<1>5. ASSUME NEW c \in KCpus, KSleep(c) PROVE SettingsHeld'
  <2>1. \A d \in KCpus \ kdown' : d \in KCpus \ kdown /\ kpqr'[d] = kpqr[d] /\ kcdp'[d] = kcdp[d]
    BY <1>0, <1>5 DEF CosTypes, CosType, KSleep
  <2>2. UNCHANGED <<kcurrent, kran, kconf>>
    BY <1>5 DEF KSleep
  <2> QED
    BY <1>0, <2>1, <2>2, Zenon DEF SettingsHeld
<1>6. ASSUME NEW c \in KCpus, KResume(c) PROVE SettingsHeld'
  <2>1. \A d \in KCpus : /\ kpqr'[d] = (IF d = c THEN kcurrent[c] ELSE kpqr[d])
                         /\ kcdp'[d] = (IF d = c THEN kconf[c] \cap SupCfg[c] ELSE kcdp[d])
    BY <1>0, <1>6 DEF CosTypes, CosType, KResume
  <2>2. kconf[c] \cap SupCfg[c] = kconf[c] \ {"locked"}
    <3>1. "locked" \notin SupCfg[c] /\ kconf[c] \subseteq SupCfg[c] \cup {"locked"}
      BY <1>0, CosConstants DEF CosTypes
    <3> QED
      BY <3>1
  <2>3. UNCHANGED <<kcurrent, kran, kconf>> /\ kdown' = kdown \ {c}
    BY <1>6 DEF KResume
  <2> QED
    BY <1>0, <2>1, <2>2, <2>3, Zenon DEF SettingsHeld
<1>7. CASE UNCHANGED kvars
  BY <1>0, <1>7 DEF SettingsHeld, kvars
<1> QED
  BY <1>1, <1>2, <1>3, <1>4, <1>5, <1>6, <1>7 DEF CosNext

LEMMA ClassesDefinedKept == CosInv /\ [CosNext]_kvars => ClassesDefined'
<1> SUFFICES ASSUME CosInv, [CosNext]_kvars PROVE ClassesDefined'
  OBVIOUS
<1>0. CosTypes /\ ClassesDefined
  BY DEF CosInv
<1>1. ASSUME NEW c \in KCpus, NEW cfg \in SUBSET {"l3", "l2"}, CfgQos(c, cfg) PROVE ClassesDefined'
  <2>1. \A d \in KCpus : d # c => kconf'[d] = kconf[d]
    BY <1>0, <1>1 DEF CosTypes, CosType, CfgQos
  <2>2. kconf[c] = {} /\ UNCHANGED <<kcurrent, kcos, kcpu, kstray>>
    BY <1>1 DEF CfgQos
  <2>3. \A d \in KCpus : \A cos : Defined(d, cos) => Defined(d, cos)'
    <3>1. \A cos : Defined(c, cos) => cos = 0
      BY <2>2, Zenon DEF Defined
    <3> QED
      BY <2>1, <3>1, Zenon DEF Defined
  <2>4. \A d \in KCpus : \A cos : Known(d, cos) => Known(d, cos)'
    BY <2>2, <2>3, Zenon DEF Known
  <2> QED
    BY <1>0, <2>2, <2>4, Zenon DEF ClassesDefined
<1>2. ASSUME NEW c \in KCpus, NEW n, NEW cbm, CfgL3(c, n, cbm) \/ CfgL2(c, n, cbm) \/ CfgMb(c, n, cbm) PROVE ClassesDefined'
  BY <1>0, <1>2 DEF ClassesDefined, Known, Defined, CfgL3, CfgL2, CfgMb
<1>3. ASSUME NEW c \in KCpus, NEW p \in KCpus, NEW s \in KScs, NEW cos \in 0..4, CreateSc(p, c, s, cos) PROVE ClassesDefined'
  <2>1. /\ UNCHANGED <<kconf, kcurrent>> /\ cos \in Nat
        /\ kstray' = IF ValidCos(c, cos) THEN kstray ELSE kstray \cup {<<c, cos>>}
    BY <1>3 DEF CreateSc
  <2>2. \A d, k : Known(d, k) => Known(d, k)'
    BY <2>1, Zenon DEF Known, Defined
  <2>3. Known(c, cos)'
    <3>1. CASE ValidCos(c, cos)
      <4>1. Known(c, cos)
        BY <2>1, <3>1, ValidDefined DEF Known
      <4> QED
        BY <2>2, <4>1, Zenon
    <3>2. CASE ~ValidCos(c, cos)
      BY <2>1, <3>2, Zenon DEF Known
    <3> QED
      BY <3>1, <3>2
  <2>4. \A t \in KScs : /\ kcos'[t] = (IF t = s THEN cos ELSE kcos[t])
                        /\ kcpu'[t] = (IF t = s THEN {c} ELSE kcpu[t])
    BY <1>0, <1>3 DEF CosTypes, CosType, CreateSc
  <2>5. \A d \in KCpus : {c} = {d} => d = c
    OBVIOUS
  <2>6. ASSUME NEW d \in KCpus, NEW t \in KScs, kcpu'[t] = {d} PROVE Known(d, kcos[t])'
    <3>1. CASE t = s
      BY <2>3, <2>4, <2>5, <2>6, <3>1, Zenon
    <3>2. CASE t # s
      <4>1. Known(d, kcos[t])
        BY <1>0, <2>4, <2>6, <3>2, Zenon DEF ClassesDefined
      <4> QED
        BY <2>2, <2>4, <3>2, <4>1, Zenon
    <3> QED
      BY <3>1, <3>2
  <2>7. ASSUME NEW d \in KCpus PROVE Known(d, kcurrent[d])'
    <3>1. Known(d, kcurrent[d])
      BY <1>0, Zenon DEF ClassesDefined
    <3> QED
      BY <2>1, <2>2, <3>1, Zenon
  <2> QED
    BY <2>6, <2>7, Zenon DEF ClassesDefined
<1>4. ASSUME NEW c \in KCpus, NEW s \in KScs, Dispatch(c, s) PROVE ClassesDefined'
  <2>1. kcpu[s] = {c} /\ UNCHANGED <<kconf, kcos, kcpu, kstray>>
    BY <1>4 DEF Dispatch
  <2>2. \A d \in KCpus : kcurrent'[d] = (IF d = c THEN kcos[s] ELSE kcurrent[d])
    BY <1>0, <1>4 DEF CosTypes, CosType, Dispatch
  <2>3. \A d, k : Known(d, k)' <=> Known(d, k)
    BY <2>1, Zenon DEF Known, Defined
  <2> QED
    BY <1>0, <2>1, <2>2, <2>3, Zenon DEF ClassesDefined
<1>5. ASSUME NEW c \in KCpus, KSleep(c) \/ KResume(c) PROVE ClassesDefined'
  BY <1>0, <1>5 DEF ClassesDefined, Known, Defined, KSleep, KResume
<1>7. CASE UNCHANGED kvars
  BY <1>0, <1>7 DEF ClassesDefined, Known, Defined, kvars
<1> QED
  BY <1>1, <1>2, <1>3, <1>4, <1>5, <1>7 DEF CosNext

\* One mask is written, or those of one CPU are set to ones.
LEMMA RunsStep ==
    ASSUME NEW masks, NEW num, NEW hcb, Runs(masks, num, hcb), hcb \in [KCpus -> 0..31],
           NEW c \in KCpus
    PROVE  /\ \A n, m : OnesRun(m, hcb[c]) => Runs([masks EXCEPT ![c][n] = m], num, hcb)
           /\ Runs([masks EXCEPT ![c] = [n \in DOMAIN @ |-> Ones(hcb[c])]], num, hcb)
<1>0. /\ DOMAIN masks = KCpus /\ hcb[c] \in 0..31
      /\ \A d \in KCpus : DOMAIN masks[d] = 0..(num[d] - 1) /\ masks[d] = [n \in 0..(num[d] - 1) |-> masks[d][n]]
      /\ \A d \in KCpus : \A n \in 0..(num[d] - 1) : OnesRun(masks[d][n], hcb[d])
  BY DEF Runs
<1>1. ASSUME NEW n, NEW m, OnesRun(m, hcb[c]) PROVE Runs([masks EXCEPT ![c][n] = m], num, hcb)
  <2>1. PICK new : new = [masks EXCEPT ![c][n] = m]
    BY Zenon
  <2>2. DOMAIN new = KCpus /\ \A d \in KCpus : d # c => new[d] = masks[d]
    BY <1>0, <2>1
  <2>3. new[c] = [masks[c] EXCEPT ![n] = m]
    BY <1>0, <2>1
  <2>4. new[c] = [i \in 0..(num[c] - 1) |-> IF i = n THEN m ELSE masks[c][i]]
    BY <1>0, <2>3
  <2>5. new[c] = [i \in 0..(num[c] - 1) |-> new[c][i]] /\ \A i \in 0..(num[c] - 1) : new[c][i] = (IF i = n THEN m ELSE masks[c][i])
    BY <2>4
  <2>6. \A i \in 0..(num[c] - 1) : OnesRun(new[c][i], hcb[c])
    BY <1>0, <1>1, <2>5, Zenon
  <2>7. Runs(new, num, hcb)
    BY <1>0, <2>2, <2>5, <2>6, Zenon DEF Runs
  <2> QED
    BY <2>1, <2>7, Zenon
<1>2. Runs([masks EXCEPT ![c] = [n \in DOMAIN @ |-> Ones(hcb[c])]], num, hcb)
  <2>1. PICK new : new = [masks EXCEPT ![c] = [n \in DOMAIN @ |-> Ones(hcb[c])]]
    BY Zenon
  <2>2. DOMAIN new = KCpus /\ \A d \in KCpus : d # c => new[d] = masks[d]
    BY <1>0, <2>1
  <2>3. new[c] = [i \in 0..(num[c] - 1) |-> Ones(hcb[c])]
    BY <1>0, <2>1
  <2>4. new[c] = [i \in 0..(num[c] - 1) |-> new[c][i]] /\ \A i \in 0..(num[c] - 1) : new[c][i] = Ones(hcb[c])
    BY <2>3
  <2>5. OnesRun(Ones(hcb[c]), hcb[c])
    BY <1>0, OnesValid, Zenon
  <2>6. \A i \in 0..(num[c] - 1) : OnesRun(new[c][i], hcb[c])
    BY <2>4, <2>5, Zenon
  <2>7. Runs(new, num, hcb)
    BY <1>0, <2>2, <2>4, <2>6, Zenon DEF Runs
  <2> QED
    BY <2>1, <2>7, Zenon
<1> QED
  BY <1>1, <1>2, Zenon

LEMMA MasksValidKept == CosInv /\ [CosNext]_kvars => MasksValid'
<1> SUFFICES ASSUME CosInv, [CosNext]_kvars PROVE MasksValid'
  OBVIOUS
<1>0. Runs(kl3, NumL3, HcbL3) /\ Runs(kl2, NumL2, HcbL2)
  BY DEF CosInv, MasksValid
<1>a. HcbL3 \in [KCpus -> 0..31] /\ HcbL2 \in [KCpus -> 0..31]
  BY CosConstants
<1>1. ASSUME NEW c \in KCpus, NEW n \in 0..NumL3[c], NEW cbm \in 0..(Ones(HcbL3[c]) + 1), CfgL3(c, n, cbm) PROVE MasksValid'
  <2>1. cbm \in Nat /\ HcbL3[c] \in 0..31 /\ ValidCbm(cbm, HcbL3[c])
    BY <1>1, <1>a DEF CfgL3
  <2>2. OnesRun(cbm, HcbL3[c])
    BY <2>1, ValidRun
  <2>3. kl3' = [kl3 EXCEPT ![c][n] = cbm] /\ kl2' = kl2
    BY <1>1, Zenon DEF CfgL3
  <2>4. Runs([kl3 EXCEPT ![c][n] = cbm], NumL3, HcbL3)
    BY <1>0, <1>a, <2>2, RunsStep, Zenon
  <2> QED
    BY <1>0, <2>3, <2>4, Zenon DEF MasksValid
<1>2. ASSUME NEW c \in KCpus, NEW n \in 0..NumL2[c], NEW cbm \in 0..(Ones(HcbL2[c]) + 1), CfgL2(c, n, cbm) PROVE MasksValid'
  <2>1. cbm \in Nat /\ HcbL2[c] \in 0..31 /\ ValidCbm(cbm, HcbL2[c])
    BY <1>2, <1>a DEF CfgL2
  <2>2. OnesRun(cbm, HcbL2[c])
    BY <2>1, ValidRun
  <2>3. kl2' = [kl2 EXCEPT ![c][n] = cbm] /\ kl3' = kl3
    BY <1>2, Zenon DEF CfgL2
  <2>4. Runs([kl2 EXCEPT ![c][n] = cbm], NumL2, HcbL2)
    BY <1>0, <1>a, <2>2, RunsStep, Zenon
  <2> QED
    BY <1>0, <2>3, <2>4, Zenon DEF MasksValid
<1>3. ASSUME NEW c \in KCpus, KResume(c) PROVE MasksValid'
  <2>1. /\ kl3' = [kl3 EXCEPT ![c] = [n \in DOMAIN @ |-> Ones(HcbL3[c])]]
        /\ kl2' = [kl2 EXCEPT ![c] = [n \in DOMAIN @ |-> Ones(HcbL2[c])]]
    BY <1>3, Zenon DEF KResume
  <2>2. Runs([kl3 EXCEPT ![c] = [n \in DOMAIN @ |-> Ones(HcbL3[c])]], NumL3, HcbL3)
    BY <1>0, <1>a, RunsStep, Zenon
  <2>3. Runs([kl2 EXCEPT ![c] = [n \in DOMAIN @ |-> Ones(HcbL2[c])]], NumL2, HcbL2)
    BY <1>0, <1>a, RunsStep, Zenon
  <2> QED
    BY <2>1, <2>2, <2>3, Zenon DEF MasksValid
<1>4. ASSUME NEW c \in KCpus,
             \/ \E cfg \in SUBSET {"l3", "l2"} : CfgQos(c, cfg)
             \/ \E n \in 0..NumMb[c], del \in 0..(DelMb[c] + 1) : CfgMb(c, n, del)
             \/ \E p \in KCpus, s \in KScs, cos \in 0..4 : CreateSc(p, c, s, cos)
             \/ \E s \in KScs : Dispatch(c, s)
             \/ KSleep(c)
      PROVE  MasksValid'
  <2>1. UNCHANGED <<kl3, kl2>>
    BY <1>4 DEF CfgQos, CfgMb, CreateSc, Dispatch, KSleep
  <2> QED
    BY <1>0, <2>1, Zenon DEF MasksValid
<1>5. CASE UNCHANGED kvars
  BY <1>0, <1>5 DEF MasksValid, kvars
<1> QED
  BY <1>1, <1>2, <1>3, <1>4, <1>5, Zenon DEF CosNext

\* A CPU that is up runs with the class of the SC it dispatched last, which
\* its registers define under the CDP settings in force, unless the class came
\* with an SC that was created when the CPU did not have it, through any number
\* of configurations, creations, switches and sleeps, and every mask that passes
\* valid_cbm is a run of ones within the capacity of the cache, for any number
\* of CPUs and SCs and any sizes (Cos::valid_cos, Cos::make_current, Cos::init,
\* and sys_create_sc, which compares with the range of its own CPU only).
THEOREM ClassesInForce == CosSpec => []ClassInForce
<1>1. CosInit => CosInv
  BY CosInitial
<1>2. CosInv /\ [CosNext]_kvars => CosInv'
  <2> SUFFICES ASSUME CosInv, [CosNext]_kvars PROVE CosInv'
    OBVIOUS
  <2>1. ClassesDefined'
    BY ClassesDefinedKept
  <2>2. CosTypes' /\ SettingsHeld' /\ MasksValid'
    BY CosTypesKept, SettingsHeldKept, MasksValidKept
  <2> QED
    BY <2>1, <2>2 DEF CosInv
<1>3. CosInv => ClassInForce
  <2> SUFFICES ASSUME CosInv PROVE ClassInForce
    OBVIOUS
  <2>0. CosTypes /\ SettingsHeld /\ ClassesDefined /\ Runs(kl3, NumL3, HcbL3) /\ Runs(kl2, NumL2, HcbL2)
    BY DEF CosInv, MasksValid
  <2>1. ASSUME NEW c \in KCpus \ kdown
        PROVE  /\ kpqr[c] = kran[c]
               /\ <<c, kpqr[c]>> \in kstray \/ kpqr[c] = 0 \/ kpqr[c] < Halved(NumL3[c], "l3" \in kcdp[c])
                  \/ kpqr[c] < Halved(NumL2[c], "l2" \in kcdp[c]) \/ kpqr[c] < NumMb[c]
    <3>1. kpqr[c] = kcurrent[c] /\ kpqr[c] = kran[c] /\ kcdp[c] = kconf[c] \ {"locked"}
      BY <2>0, <2>1 DEF SettingsHeld
    <3>2. ("l3" \in kcdp[c] <=> "l3" \in kconf[c]) /\ ("l2" \in kcdp[c] <=> "l2" \in kconf[c])
      BY <3>1
    <3>3. Known(c, kpqr[c])
      BY <2>0, <2>1, <3>1 DEF ClassesDefined
    <3>4. /\ Halved(NumL3[c], "l3" \in kcdp[c]) = Halved(NumL3[c], "l3" \in kconf[c])
          /\ Halved(NumL2[c], "l2" \in kcdp[c]) = Halved(NumL2[c], "l2" \in kconf[c])
      BY <3>2, Zenon DEF Halved
    <3> QED
      BY <3>1, <3>3, <3>4, Zenon DEF Known, Defined
  <2>2. ASSUME NEW c \in KCpus
        PROVE  (\A n \in DOMAIN kl3[c] : OnesRun(kl3[c][n], HcbL3[c])) /\ (\A n \in DOMAIN kl2[c] : OnesRun(kl2[c][n], HcbL2[c]))
    <3>1. DOMAIN kl3[c] = 0..(NumL3[c] - 1) /\ DOMAIN kl2[c] = 0..(NumL2[c] - 1)
      BY <2>0 DEF Runs
    <3> QED
      BY <2>0, <3>1, Zenon DEF Runs
  <2>3. CosType
    BY <2>0 DEF CosTypes
  <2> QED
    BY <2>1, <2>2, <2>3, Zenon DEF ClassInForce, OnesRun
<1> QED
  BY <1>1, <1>2, <1>3, PTL DEF CosSpec

-----------------------------------------------------------------------------
(* Buddy: the pool as a tiling.  A block is named by its first page, and   *)
(* its order is in the header of that page, free or held.  The statements  *)
(* are about any free blocks G, held blocks H, end of the pool e, orders r *)
(* and tags t, so that they can be made of the pool in the middle of       *)
(* coalesce() and of alloc() too.                                          *)

Sz(o) == 2 ^ o

\* The lowest bit set in y is bit j: y is the upper half of an order j + 1 block.
Upper(y, j) == y % Sz(j + 1) = Sz(j)

Headers(r, t) == r \in [Index -> Order] /\ t \in [Index -> {"USED", "FREE"}]

\* Blocks are inside the pool and aligned, and do not overlap.
Placed(B, e, r) ==
    /\ B \subseteq Index
    /\ \A x \in B : FirstIdx <= x /\ x + Sz(r[x]) <= e /\ x % Sz(r[x]) = 0
    /\ \A x, y \in B : x < y => x + Sz(r[x]) <= y

\* Every page is in one.
AllTiled(B, e, r) == \A y \in FirstIdx .. e - 1 : \E x \in B : x <= y /\ y < x + Sz(r[x])

\* What the headers say, those that are not the first of a block included.
Marked(G, H, e, r, t) ==
    /\ \A x \in G : t[x] = "FREE"
    /\ \A x \in H : t[x] = "USED"
    /\ \A y \in FirstIdx .. e - 1 : y \notin G /\ y \notin H =>
           t[y] = "FREE" /\ Upper(y, r[y])
    /\ \A y \in Index : y < FirstIdx \/ e <= y => t[y] = "USED" /\ r[y] = 0

Good(G, H, e, r, t) ==
    /\ Headers(r, t)
    /\ Placed(G \cup H, e, r)
    /\ AllTiled(G \cup H, e, r)
    /\ Marked(G, H, e, r, t)

\* a and b are the halves of a block.
Twins(a, b, r) == /\ r[a] = r[b] /\ r[a] < Orders - 1
                  /\ a % Sz(r[a] + 1) = 0 /\ b = a + Sz(r[a])

\* No two free blocks are, z aside.
NoTwins(G, z, r) == \A a, b \in G : a # z /\ b # z => ~Twins(a, b, r)

-----------------------------------------------------------------------------
(* Buddy: the invariant.                                                   *)

FreeHeads == {x \in Index : \E o \in Order : x \in Range(freelist[o])}
HeldHeads == {x \in Index : <<x, ord[x]>> \in used \/ \E c \in BuddyCpu : x \in Range(waitlist[c])}

BuddyTypes ==
    /\ boot \in FirstIdx .. MaxIdx
    /\ freelist \in [Order -> Seq(Index)]
    /\ waitlist \in [BuddyCpu -> Seq(Index)]
    /\ busy \subseteq BuddyCpu
    /\ used \subseteq Index \X Order

\* A list holds a block once, and the blocks of its order.
FreeLists ==
    \A o \in Order : IsInjective(freelist[o]) /\ \A x \in Range(freelist[o]) : ord[x] = o

\* A block is waited for once, by one CPU, and is not in use as well.
WaitLists ==
    /\ \A c \in BuddyCpu : IsInjective(waitlist[c])
    /\ \A c, d \in BuddyCpu : c # d => \A x \in Range(waitlist[c]) : x \notin Range(waitlist[d])
    /\ \A u \in used : ord[u[1]] = u[2] /\ \A c \in BuddyCpu : u[1] \notin Range(waitlist[c])

Tiling == Good(FreeHeads, HeldHeads, boot, ord, tag) /\ NoTwins(FreeHeads, -1, ord)

BuddyInv == BuddyTypes /\ FreeLists /\ WaitLists /\ Tiling

-----------------------------------------------------------------------------
(* Buddy: alignment and halves.                                            *)

LEMMA SzFacts ==
    /\ Sz(0) = 1
    /\ \A o \in Nat : Sz(o) \in Nat \ {0} /\ Sz(o + 1) = 2 * Sz(o) /\ Sz(o + 1) \in Nat \ {0}
<1>1. \A o \in Nat : 2 ^ o \in Nat \ {0}
  BY PowPositive
<1>2. \A o \in Nat : 2 ^ (o + 1) = 2 * 2 ^ o
  BY PowDouble
<1>3. \A o \in Nat : o + 1 \in Nat
  OBVIOUS
<1>4. \A o \in Nat : Sz(o) \in Nat \ {0}
  BY <1>1, Zenon DEF Sz
<1>5. \A o \in Nat : Sz(o + 1) = 2 * Sz(o)
  BY <1>2, Zenon DEF Sz
<1>6. \A o \in Nat : Sz(o + 1) \in Nat \ {0}
  BY <1>3, <1>4, Zenon
<1>7. Sz(0) = 1
  BY PowZero, Zenon DEF Sz
<1> QED
  BY <1>4, <1>5, <1>6, <1>7, Zenon

\* The remainder of x is r, and what that means.
LEMMA Remainder ==
    ASSUME NEW s \in Nat \ {0}, NEW x \in Int, NEW q \in Int, NEW r \in Nat, r < s, x = s * q + r
    PROVE  x % s = r
  BY DivUnique, ZenonT(40)

LEMMA Quotient ==
    ASSUME NEW s \in Nat \ {0}, NEW x \in Int, NEW r, x % s = r
    PROVE  \E q \in Int : x = s * q + r
<1>1. x \div s \in Int /\ x = s * (x \div s) + (x % s)
  BY DivMod, ZenonT(40)
<1> QED
  BY <1>1, Zenon

LEMMA Doubles ==
    ASSUME NEW s \in Int, NEW h \in Int, NEW d, d = 2 * s
    PROVE  s * (2 * h) = d * h /\ s * (2 * h + 1) = d * h + s
  OBVIOUS

LEMMA EvenOdd ==
    ASSUME NEW q \in Int
    PROVE  \E h \in Int : (q = 2 * h /\ q % 2 = 0) \/ (q = 2 * h + 1 /\ q % 2 # 0)
<1>1. PICK h, r : h = q \div 2 /\ r = q % 2
  BY Zenon
<1>2. 2 \in Nat \ {0}
  OBVIOUS
<1>3. h \in Int /\ r \in Nat /\ r < 2 /\ q = 2 * h + r
  BY <1>1, <1>2, DivMod, ZenonT(40)
<1>4. (q = 2 * h /\ r = 0) \/ (q = 2 * h + 1 /\ r # 0)
  BY <1>3
<1> QED
  BY <1>1, <1>3, <1>4, Zenon

\* Multiples of s, up to the next one.
LEMMA Multiples ==
    ASSUME NEW s \in Nat \ {0}, NEW a \in Int, NEW b \in Int, a % s = 0, b % s = 0
    PROVE  (a + b) % s = 0 /\ (a - b) % s = 0 /\ (a < b => a + s <= b)
<1>1. PICK p \in Int : a = s * p + 0
  BY Quotient, ZenonT(40)
<1>2. PICK q \in Int : b = s * q + 0
  BY Quotient, ZenonT(40)
<1>3. /\ p + q \in Int /\ a + b = s * (p + q) + 0 /\ a + b \in Int
      /\ p - q \in Int /\ a - b = s * (p - q) + 0 /\ a - b \in Int
      /\ 0 \in Nat /\ 0 < s
  BY <1>1, <1>2
<1>4. (a + b) % s = 0 /\ (a - b) % s = 0
  BY <1>3, Remainder, ZenonT(40)
<1>5. ASSUME a < b PROVE a + s <= b
  <2>1. p < q
    <3>1. ASSUME q <= p PROVE FALSE
      <4>1. p - q \in Nat /\ s \in Nat
        BY <3>1, <1>1, <1>2
      <4>2. s * (p - q) \in Nat
        BY <4>1
      <4> QED
        BY <4>2, <1>3, <1>5
    <3> QED
      BY <3>1
  <2>2. q - p - 1 \in Nat /\ s \in Nat
    BY <2>1
  <2>3. s * (q - p - 1) \in Nat
    BY <2>2
  <2>4. s * (q - p - 1) = s * q - s * p - s
    OBVIOUS
  <2> QED
    BY <2>3, <2>4, <1>1, <1>2
<1> QED
  BY <1>4, <1>5

LEMMA SzAligned ==
    ASSUME NEW x \in Int, NEW i \in Nat, NEW j \in Nat, i <= j, x % Sz(j) = 0
    PROVE  x % Sz(i) = 0
  BY AlignedDown, Zenon DEF Sz

LEMMA SzDivides ==
    ASSUME NEW i \in Nat, NEW j \in Nat, i <= j
    PROVE  Sz(j) % Sz(i) = 0
<1>1. Sz(j) \in Nat \ {0} /\ Sz(j) \in Int
  BY SzFacts
<1>2. Sz(j) = Sz(j) * 1 + 0 /\ 1 \in Int /\ 0 \in Nat /\ 0 < Sz(j)
  BY <1>1
<1>3. Sz(j) % Sz(j) = 0
  BY <1>1, <1>2, Remainder, ZenonT(40)
<1> QED
  BY <1>1, <1>3, SzAligned, Zenon

\* A multiple of a size is the lower or the upper half of a block twice that size.
LEMMA Halves ==
    ASSUME NEW x \in Int, NEW m \in Nat, x % Sz(m) = 0
    PROVE  \/ x % Sz(m + 1) = 0
           \/ Upper(x, m) /\ (x - Sz(m)) % Sz(m + 1) = 0
<1>1. PICK s, d : s = Sz(m) /\ s \in Nat \ {0} /\ d = Sz(m + 1) /\ d = 2 * s /\ d \in Nat \ {0}
  BY SzFacts
<1>9. x % s = 0 /\ s \in Nat \ {0}
  BY <1>1
<1>0. s \in Int /\ d = 2 * s
  BY <1>1
<1>2. PICK q \in Int : x = s * q + 0
  BY <1>9, Quotient, ZenonT(40)
<1>3. PICK h \in Int : (q = 2 * h /\ q % 2 = 0) \/ (q = 2 * h + 1 /\ q % 2 # 0)
  BY EvenOdd, Zenon
<1>d. s * (2 * h) = d * h /\ s * (2 * h + 1) = d * h + s
  BY <1>0, Doubles, ZenonT(40)
<1>4. CASE q = 2 * h
  <2>1. x = d * h + 0 /\ 0 \in Nat /\ 0 < d
    BY <1>1, <1>2, <1>4, <1>d
  <2>2. x % d = 0
    BY <2>1, <1>1, Remainder, ZenonT(40)
  <2> QED
    BY <2>2, <1>1
<1>5. CASE q = 2 * h + 1
  <2>1. x = d * h + s /\ s \in Nat /\ s < d
    BY <1>1, <1>2, <1>5, <1>d
  <2>2. x % d = s
    BY <2>1, <1>1, Remainder, ZenonT(40)
  <2>3. x - s = d * h + 0 /\ 0 \in Nat /\ 0 < d /\ x - s \in Int
    BY <2>1, <1>1
  <2>4. (x - s) % d = 0
    BY <2>3, <1>1, Remainder, ZenonT(40)
  <2> QED
    BY <2>2, <2>4, <1>1 DEF Upper
<1> QED
  BY <1>3, <1>4, <1>5

LEMMA UpperHalf ==
    ASSUME NEW a \in Int, NEW m \in Nat, a % Sz(m + 1) = 0
    PROVE  Upper(a + Sz(m), m) /\ (a + Sz(m)) % Sz(m) = 0
<1>1. PICK s, d : s = Sz(m) /\ s \in Nat \ {0} /\ d = Sz(m + 1) /\ d = 2 * s /\ d \in Nat \ {0}
  BY SzFacts
<1>9. a % d = 0 /\ d \in Nat \ {0}
  BY <1>1
<1>0. s \in Int /\ d = 2 * s
  BY <1>1
<1>2. PICK q \in Int : a = d * q + 0
  BY <1>9, Quotient, ZenonT(40)
<1>d. s * (2 * q + 1) = d * q + s
  BY <1>0, Doubles, ZenonT(40)
<1>3. a + s = d * q + s /\ s \in Nat /\ s < d /\ a + s \in Int
  BY <1>1, <1>2
<1>4. (a + s) % d = s
  BY <1>3, <1>1, Remainder, ZenonT(40)
<1>5. a + s = s * (2 * q + 1) + 0 /\ 2 * q + 1 \in Int /\ 0 \in Nat /\ 0 < s
  BY <1>3, <1>1, <1>d
<1>6. (a + s) % s = 0
  BY <1>3, <1>5, <1>1, Remainder, ZenonT(40)
<1> QED
  BY <1>1, <1>4, <1>6 DEF Upper

\* An upper half is aligned to its size and no more, so it is one of one order.
LEMMA UpperAligned ==
    ASSUME NEW y \in Int, NEW j \in Nat, NEW i \in Nat, Upper(y, j)
    PROVE  /\ i <= j => y % Sz(i) = 0
           /\ i > j => y % Sz(i) # 0
           /\ (y - Sz(j)) % Sz(j + 1) = 0
<1>1. PICK s, d : s = Sz(j) /\ s \in Nat \ {0} /\ d = Sz(j + 1) /\ d = 2 * s /\ d \in Nat \ {0}
  BY SzFacts
<1>2. y % d = s
  BY <1>1 DEF Upper
<1>3. PICK q \in Int : y = d * q + s
  BY <1>1, <1>2, Quotient, ZenonT(40)
<1>4. y - s = d * q + 0 /\ 0 \in Nat /\ 0 < d /\ y - s \in Int
  BY <1>1, <1>3
<1>5. (y - s) % d = 0
  BY <1>4, <1>1, Remainder, ZenonT(40)
<1>0. s \in Int /\ d = 2 * s
  BY <1>1
<1>d. s * (2 * q + 1) = d * q + s
  BY <1>0, Doubles, ZenonT(40)
<1>6. y = s * (2 * q + 1) + 0 /\ 2 * q + 1 \in Int /\ 0 \in Nat /\ 0 < s
  BY <1>1, <1>3, <1>d
<1>7. y % s = 0
  BY <1>6, <1>1, Remainder, ZenonT(40)
<1>8. i <= j => y % Sz(i) = 0
  BY <1>7, <1>1, SzAligned, Zenon
<1>9. i > j => y % Sz(i) # 0
  <2>1. SUFFICES ASSUME i > j, y % Sz(i) = 0 PROVE FALSE
    BY Zenon
  <2>2. j + 1 \in Nat /\ j + 1 <= i
    BY <2>1
  <2>3. y % Sz(j + 1) = 0
    BY <2>1, <2>2, SzAligned, Zenon
  <2> QED
    BY <2>3, <1>1, <1>2
<1> QED
  BY <1>1, <1>5, <1>8, <1>9

LEMMA UpperUnique ==
    ASSUME NEW y \in Int, NEW i \in Nat, NEW j \in Nat, Upper(y, i), Upper(y, j)
    PROVE  i = j
<1>1. i <= i /\ j <= j
  OBVIOUS
<1>2. y % Sz(i) = 0 /\ y % Sz(j) = 0
  BY <1>1, UpperAligned, Zenon
<1>3. ~(i > j) /\ ~(j > i)
  BY <1>2, UpperAligned, Zenon
<1> QED
  BY <1>3

-----------------------------------------------------------------------------
(* Buddy: the block of order m that page x is in, and that block's buddy.  *)

LEMMA BaseFacts ==
    ASSUME NEW x \in Int, NEW m \in Nat
    PROVE  Base(x, m) \in Int /\ Base(x, m) % Sz(m) = 0 /\ Base(x, m) <= x /\ x < Base(x, m) + Sz(m)
<1>1. PICK s : s = Sz(m) /\ s \in Nat \ {0}
  BY SzFacts
<1>2. PICK q, r : q = x \div s /\ r = x % s
  BY Zenon
<1>3. q \in Int /\ r \in Nat /\ r < s /\ x = s * q + r
  BY <1>1, <1>2, DivMod, ZenonT(40)
<1>4. PICK b : b = x - r
  BY Zenon
<1>5. Base(x, m) = b
  BY <1>1, <1>2, <1>4, Zenon DEF Base, Sz
<1>6. b \in Int /\ b <= x /\ x < b + s /\ b = s * q + 0 /\ 0 \in Nat /\ 0 < s
  BY <1>1, <1>3, <1>4
<1>7. b % s = 0
  BY <1>1, <1>3, <1>6, Remainder, ZenonT(40)
<1> QED
  BY <1>1, <1>5, <1>6, <1>7

LEMMA BaseOf ==
    ASSUME NEW x \in Int, NEW m \in Nat, NEW z \in Int, z % Sz(m) = 0, z <= x, x < z + Sz(m)
    PROVE  Base(x, m) = z
<1>1. PICK s : s = Sz(m) /\ s \in Nat \ {0}
  BY SzFacts
<1>2. PICK b : b = Base(x, m)
  BY Zenon
<1>3. b \in Int /\ b % s = 0 /\ b <= x /\ x < b + s /\ z % s = 0 /\ x < z + s
  BY <1>1, <1>2, BaseFacts
<1>4. (b < z => b + s <= z) /\ (z < b => z + s <= b)
  BY <1>1, <1>3, Multiples, Zenon
<1> QED
  BY <1>1, <1>2, <1>3, <1>4

LEMMA BuddyHalf ==
    ASSUME NEW x \in Int, NEW m \in Nat
    PROVE  \/ /\ Base(x, m) % Sz(m + 1) = 0 /\ BuddyOf(x, m) = Base(x, m) + Sz(m)
              /\ Base(x, m + 1) = Base(x, m)
           \/ /\ Upper(Base(x, m), m) /\ BuddyOf(x, m) = Base(x, m) - Sz(m)
              /\ BuddyOf(x, m) % Sz(m + 1) = 0 /\ Base(x, m + 1) = BuddyOf(x, m)
<1>1. PICK s, d : s = Sz(m) /\ s \in Nat \ {0} /\ d = Sz(m + 1) /\ d = 2 * s /\ d \in Nat \ {0}
  BY SzFacts
<1>2. PICK b : b = Base(x, m)
  BY Zenon
<1>3. b \in Int /\ b % s = 0 /\ b <= x /\ x < b + s /\ m + 1 \in Nat
  BY <1>1, <1>2, BaseFacts
<1>4. PICK q : q = b \div s
  BY Zenon
<1>5. q \in Int /\ b = s * q + 0
  BY <1>1, <1>3, <1>4, DivMod, ZenonT(40)
<1>6. BuddyOf(x, m) = IF q % 2 = 0 THEN b + s ELSE b - s
  BY <1>1, <1>2, <1>4, Zenon DEF BuddyOf, Sz
<1>7. PICK h \in Int : (q = 2 * h /\ q % 2 = 0) \/ (q = 2 * h + 1 /\ q % 2 # 0)
  BY <1>5, EvenOdd, Zenon
<1>0. s \in Int /\ d = 2 * s
  BY <1>1
<1>d. s * (2 * h) = d * h /\ s * (2 * h + 1) = d * h + s
  BY <1>0, Doubles, ZenonT(40)
<1>8. CASE q = 2 * h /\ q % 2 = 0
  <2>1. b = d * h + 0 /\ 0 \in Nat /\ 0 < d
    BY <1>1, <1>5, <1>8, <1>d
  <2>2. b % d = 0
    BY <2>1, <1>1, <1>3, Remainder, ZenonT(40)
  <2>3. b % Sz(m + 1) = 0 /\ x < b + Sz(m + 1)
    BY <2>2, <1>1, <1>3
  <2>4. Base(x, m + 1) = b
    BY <2>3, <1>3, BaseOf, Zenon
  <2> QED
    BY <2>3, <2>4, <1>6, <1>8, <1>1, <1>2
<1>9. CASE q = 2 * h + 1 /\ q % 2 # 0
  <2>1. b = d * h + s /\ s \in Nat /\ s < d /\ b - s = d * h + 0 /\ 0 \in Nat /\ 0 < d /\ b - s \in Int
    BY <1>1, <1>5, <1>9, <1>d
  <2>2. b % d = s /\ (b - s) % d = 0
    BY <2>1, <1>1, <1>3, Remainder, ZenonT(40)
  <2>3. (b - s) % Sz(m + 1) = 0 /\ b - s <= x /\ x < b - s + Sz(m + 1) /\ b - s \in Int
    BY <2>2, <1>1, <1>3
  <2>4. Base(x, m + 1) = b - s
    BY <2>3, <1>3, BaseOf, Zenon
  <2>5. Upper(b, m)
    BY <2>2, <1>1 DEF Upper
  <2> QED
    BY <2>3, <2>4, <2>5, <1>6, <1>9, <1>1, <1>2
<1> QED
  BY <1>7, <1>8, <1>9

-----------------------------------------------------------------------------
(* Buddy: one round of the loop in coalesce(), and one of the loop in      *)
(* alloc(), in any pool.                                                   *)

LEMMA BuddyConstants ==
    /\ Index \subseteq Nat /\ Order \subseteq Nat /\ MinIdx \in Nat /\ FirstIdx \in Nat /\ MaxIdx \in Nat
    /\ MinIdx <= FirstIdx /\ FirstIdx < MaxIdx /\ Orders \in Nat \ {0}
    /\ \A o \in Order : o < Orders
    /\ \A o \in Nat : o < Orders => o \in Order
    /\ \A x \in Index : MinIdx <= x /\ x < MaxIdx
  BY BuddyAssumption DEF Index, Order

\* What Good says of one block, with the numbers it takes to use it.
LEMMA BlockFacts ==
    ASSUME NEW B, NEW e \in Int, NEW r \in [Index -> Order], Placed(B, e, r), NEW x \in B
    PROVE  /\ x \in Index /\ x \in Nat /\ r[x] \in Order /\ r[x] \in Nat /\ Sz(r[x]) \in Nat \ {0}
           /\ FirstIdx <= x /\ x + Sz(r[x]) <= e /\ x < e /\ x % Sz(r[x]) = 0
           /\ \A y \in B : x < y => x + Sz(r[x]) <= y
<1>1. /\ x \in Index /\ FirstIdx <= x /\ x + Sz(r[x]) <= e /\ x % Sz(r[x]) = 0
      /\ \A y \in B : x < y => x + Sz(r[x]) <= y
  BY Zenon DEF Placed
<1>2. x \in Nat /\ r[x] \in Order /\ r[x] \in Nat
  BY <1>1, BuddyConstants, Zenon
<1>3. Sz(r[x]) \in Nat \ {0}
  BY <1>2, SzFacts, Zenon
<1>4. x < e
  BY <1>1, <1>2, <1>3
<1> QED
  BY <1>1, <1>2, <1>3, <1>4, Zenon

\* y is the other half of the block z, of order m.
Mate(z, y, m) == \/ z % Sz(m + 1) = 0 /\ y = z + Sz(m)
                 \/ y % Sz(m + 1) = 0 /\ z = y + Sz(m)

\* A header that says FREE and m in the other half of a block of order m is
\* that of a free block: it cannot be an old one, inside a larger block.
LEMMA MateIsBlock ==
    ASSUME NEW G, NEW H, NEW e \in Int, NEW r, NEW t, Good(G, H, e, r, t), NEW z \in G,
           NEW y \in Index, t[y] = "FREE", r[y] = r[z], Mate(z, y, r[z])
    PROVE  y \in G
<1>1. r \in [Index -> Order] /\ Placed(G \cup H, e, r)
  BY DEF Good, Headers
<1>2. PICK m : m = r[z]
  BY Zenon
<1>3. z \in G \cup H
  BY Zenon
<1>4. z \in Index /\ z \in Nat /\ m \in Nat /\ Sz(m) \in Nat \ {0} /\ FirstIdx <= z /\ z % Sz(m) = 0
  <2>1. /\ z \in Index /\ z \in Nat /\ r[z] \in Nat /\ Sz(r[z]) \in Nat \ {0} /\ FirstIdx <= z
        /\ z % Sz(r[z]) = 0
    BY <1>1, <1>3, BlockFacts
  <2> QED
    BY <2>1, <1>2, Zenon
<1>5. y \notin H
  BY DEF Good, Marked
<1>6. y \in Nat /\ FirstIdx \in Nat
  BY BuddyConstants, Zenon
<1>7. y \in FirstIdx .. e - 1
  <2>1. ~(y < FirstIdx) /\ ~(e <= y)
    BY DEF Good, Marked
  <2> QED
    BY <2>1, <1>6
<1> SUFFICES ASSUME y \notin G PROVE FALSE
  BY Zenon
<1>8. Upper(y, r[y])
  BY <1>5, <1>7, Zenon DEF Good, Marked
<1>9. Upper(y, m)
  BY <1>8, <1>2, Zenon
<1>10. Sz(m + 1) \in Nat \ {0} /\ Sz(m + 1) = 2 * Sz(m)
  BY <1>4, SzFacts, Zenon
<1>11. ~(y % Sz(m + 1) = 0)
  BY <1>9, <1>4, <1>10 DEF Upper
<1>12. z % Sz(m + 1) = 0 /\ y = z + Sz(m)
  BY <1>2, <1>11, Zenon DEF Mate
<1>13. PICK w \in G \cup H : w <= y /\ y < w + Sz(r[w])
  BY <1>7, Zenon DEF Good, AllTiled
<1>14. PICK n : n = r[w]
  BY Zenon
<1>15. /\ w \in Nat /\ n \in Nat /\ Sz(n) \in Nat \ {0} /\ w % Sz(n) = 0
       /\ w < z => w + Sz(n) <= z
  <2>1. /\ w \in Nat /\ r[w] \in Nat /\ Sz(r[w]) \in Nat \ {0} /\ w % Sz(r[w]) = 0
        /\ w < z => w + Sz(r[w]) <= z
    BY <1>1, <1>3, <1>13, BlockFacts
  <2> QED
    BY <2>1, <1>14, Zenon
<1>16. (w # y /\ w # z) \/ n = m
  BY <1>2, <1>5, <1>13, <1>14, Zenon
<1>17. w < y
  BY <1>5, <1>13, <1>15, <1>6
<1>18. y < w + Sz(n)
  BY <1>13, <1>14, Zenon
<1>19. CASE n <= m
  <2>1. y % Sz(n) = 0
    BY <1>19, <1>6, <1>4, <1>9, <1>15, UpperAligned
  <2>2. w \in Int /\ y \in Int
    BY <1>6, <1>15
  <2>3. w + Sz(n) <= y
    BY <2>1, <2>2, <1>15, <1>17, Multiples, Zenon
  <2> QED
    BY <2>3, <1>18, <1>15, <1>6
<1>20. CASE n > m
  <2>1. m + 1 \in Nat /\ m + 1 <= n /\ w \in Int /\ z \in Int
    BY <1>20, <1>4, <1>15
  <2>2. w % Sz(m + 1) = 0
    BY <2>1, <1>15, SzAligned, Zenon
  <2>3. z < w => z + Sz(m + 1) <= w
    BY <2>1, <2>2, <1>10, <1>12, Multiples, Zenon
  <2>4. w # z
    BY <1>20, <1>14, <1>2, <1>4
  <2> QED
    BY <2>3, <2>4, <1>15, <1>18, <1>17, <1>12, <1>10, <1>4
<1> QED
  BY <1>19, <1>20, <1>4, <1>15

\* One round of coalesce(): l and h are halves of a block, both free, and of
\* the order m that their headers say; h is no longer a block and l is twice
\* as large.
Merged(G, r, z, l, h, m, G2, r2) ==
    /\ NoTwins(G, z, r) /\ l \in G /\ h \in G /\ (z = l \/ z = h)
    /\ r[l] = m /\ r[h] = m /\ m < Orders - 1 /\ l % Sz(m + 1) = 0 /\ h = l + Sz(m)
    /\ \A w : w \in G2 <=> w \in G /\ w # h
    /\ r2 \in [Index -> Order] /\ r2[l] = m + 1 /\ \A w \in Index : w # l => r2[w] = r[w]

LEMMA MergeStep ==
    ASSUME NEW G, NEW H, NEW e \in Int, e <= MaxIdx, NEW r, NEW t, Good(G, H, e, r, t),
           NEW z, NEW l, NEW h, NEW m, NEW G2, NEW r2, Merged(G, r, z, l, h, m, G2, r2)
    PROVE  Good(G2, H, e, r2, t) /\ NoTwins(G2, l, r2)
<1> USE DEF Merged
<1>1. r \in [Index -> Order] /\ t \in [Index -> {"USED", "FREE"}] /\ Placed(G \cup H, e, r)
  BY DEF Good, Headers
<1>2. \A x \in G \cup H :
          /\ x \in Index /\ x \in Nat /\ r[x] \in Order /\ r[x] \in Nat /\ Sz(r[x]) \in Nat \ {0}
          /\ FirstIdx <= x /\ x + Sz(r[x]) <= e /\ x < e /\ x % Sz(r[x]) = 0
          /\ \A y \in G \cup H : x < y => x + Sz(r[x]) <= y
  BY <1>1, BlockFacts
<1>3. l \in G \cup H /\ h \in G \cup H
  BY Zenon
<1>4. PICK s : s = Sz(m)
  BY Zenon
<1>5. /\ l \in Index /\ l \in Nat /\ h \in Index /\ h \in Nat /\ s \in Nat \ {0} /\ FirstIdx <= l
      /\ h = l + s /\ h + s <= e /\ m \in Nat /\ l < e
      /\ \A y \in G \cup H : (l < y => l + s <= y) /\ (h < y => h + s <= y)
  <2>1. r[l] = m /\ r[h] = m /\ s = Sz(m) /\ h = l + Sz(m)
    BY <1>4, Zenon
  <2> QED
    BY <1>2, <1>3, <2>1, Zenon
<1>6. Sz(m + 1) = 2 * s
  BY <1>4, <1>5, SzFacts, Zenon
<1>7. h \notin H /\ l \notin H /\ t[l] = "FREE" /\ t[h] = "FREE"
  BY DEF Good, Marked
<1>8. \A x \in G2 \cup H : x \in G \cup H /\ x # h /\ (x # l => r2[x] = r[x])
  <2>1. \A x \in G2 \cup H : x \in G \cup H /\ x # h
    BY <1>7, Zenon
  <2> QED
    BY <2>1, <1>2, Zenon
<1>9. l \in G2 \cup H /\ l # h
  <2>1. l # h
    BY <1>5
  <2> QED
    BY <2>1, Zenon
<1>10. Placed(G2 \cup H, e, r2)
  <2>1. ASSUME NEW x \in G2 \cup H PROVE FirstIdx <= x /\ x + Sz(r2[x]) <= e /\ x % Sz(r2[x]) = 0
    <3>1. CASE x = l
      BY <3>1, <1>5, <1>6
    <3>2. CASE x # l
      BY <3>2, <1>2, <1>8
    <3> QED
      BY <3>1, <3>2
  <2>2. ASSUME NEW x \in G2 \cup H, NEW y \in G2 \cup H, x < y PROVE x + Sz(r2[x]) <= y
    <3>0. x \in G \cup H /\ y \in G \cup H /\ y # h /\ x # h
      BY <1>8, Zenon
    <3>1. CASE x = l
      <4>1. y \in Nat /\ (l < y => l + s <= y) /\ (h < y => h + s <= y)
        BY <3>0, <1>2, <1>5, Zenon
      <4>2. l + 2 * s <= y
        BY <4>1, <3>0, <3>1, <2>2, <1>5
      <4> QED
        BY <4>2, <3>1, <1>6
    <3>2. CASE x # l
      <4>1. r2[x] = r[x] /\ x + Sz(r[x]) <= y
        BY <3>0, <3>2, <2>2, <1>2, <1>8, Zenon
      <4> QED
        BY <4>1, Zenon
    <3> QED
      BY <3>1, <3>2
  <2>3. G2 \cup H \subseteq Index
    BY <1>2, <1>8, Zenon
  <2> QED
    BY <2>1, <2>2, <2>3, Zenon DEF Placed
<1>11. AllTiled(G2 \cup H, e, r2)
  <2>1. SUFFICES ASSUME NEW y \in FirstIdx .. e - 1
                 PROVE  \E x \in G2 \cup H : x <= y /\ y < x + Sz(r2[x])
    BY Zenon DEF AllTiled
  <2>2. PICK x \in G \cup H : x <= y /\ y < x + Sz(r[x])
    BY Zenon DEF AllTiled, Good
  <2>3. CASE x = l \/ x = h
    <3>1. y \in Int /\ r[x] = m
      BY <2>3, BuddyConstants
    <3>2. y < x + s
      BY <2>2, <3>1, <1>4, Zenon
    <3>3. l <= y /\ y < l + 2 * s
      BY <2>2, <2>3, <3>1, <3>2, <1>5
    <3>4. y < l + Sz(r2[l])
      BY <3>3, <1>6, Zenon
    <3> QED
      BY <3>3, <3>4, <1>9, Zenon
  <2>4. CASE x # l /\ x # h
    <3>1. x \in G2 \cup H /\ r2[x] = r[x]
      BY <2>4, <1>2, <2>2
    <3> QED
      BY <3>1, <2>2, Zenon
  <2> QED
    BY <2>3, <2>4
<1>12. Marked(G2, H, e, r2, t)
  <2>1. \A x \in G2 : t[x] = "FREE"
    BY Zenon DEF Good, Marked
  <2>2. \A x \in H : t[x] = "USED"
    BY Zenon DEF Good, Marked
  <2>3. ASSUME NEW y \in FirstIdx .. e - 1, y \notin G2, y \notin H
        PROVE  t[y] = "FREE" /\ Upper(y, r2[y])
    <3>1. CASE y = h
      <4>1. Upper(h, m)
        BY <1>5, <1>4, UpperHalf
      <4>2. r2[h] = m
        BY <1>5, <1>9
      <4> QED
        BY <4>1, <4>2, <3>1, <1>7, Zenon
    <3>2. CASE y # h
      <4>1. y \notin G /\ y # l
        BY <2>3, <3>2, Zenon
      <4>2. t[y] = "FREE" /\ Upper(y, r[y])
        BY <4>1, <2>3, Zenon DEF Good, Marked
      <4>3. y \in Index
        BY BuddyConstants DEF Index
      <4> QED
        BY <4>1, <4>2, <4>3, Zenon
    <3> QED
      BY <3>1, <3>2
  <2>4. \A y \in Index : y < FirstIdx \/ e <= y => t[y] = "USED" /\ r2[y] = 0
    <3>1. \A y \in Index : y < FirstIdx \/ e <= y => t[y] = "USED" /\ r[y] = 0
      BY Zenon DEF Good, Marked
    <3>2. ~(l < FirstIdx) /\ ~(e <= l)
      BY <1>5, BuddyConstants
    <3> QED
      BY <3>1, <3>2, Zenon
  <2> QED
    BY <2>1, <2>2, <2>3, <2>4, Zenon DEF Marked
<1>13. Good(G2, H, e, r2, t)
  BY <1>1, <1>10, <1>11, <1>12, Zenon DEF Good, Headers
<1>14. NoTwins(G2, l, r2)
  <2>1. SUFFICES ASSUME NEW a \in G2, NEW b \in G2, a # l, b # l PROVE ~Twins(a, b, r2)
    BY Zenon DEF NoTwins
  <2>2. a \in G /\ b \in G /\ a # z /\ b # z /\ a \in Index /\ b \in Index
    BY <2>1, <1>2
  <2>3. ~Twins(a, b, r) /\ r2[a] = r[a] /\ r2[b] = r[b]
    BY <2>1, <2>2, Zenon DEF NoTwins
  <2> QED
    BY <2>3 DEF Twins
<1> QED
  BY <1>13, <1>14

\* One round of alloc(): the upper half of a free block becomes a block, with
\* the header it has.
InHalves(G, r, z, m, h, G2, r2) ==
    /\ z \in G /\ NoTwins(G, z, r) /\ m \in Nat /\ r[z] = m + 1 /\ h = z + Sz(m)
    /\ \A w : w \in G2 <=> w \in G \/ w = h
    /\ r2 \in [Index -> Order] /\ r2[z] = m /\ \A w \in Index : w # z => r2[w] = r[w]

LEMMA SplitStep ==
    ASSUME NEW G, NEW H, NEW e \in Int, e <= MaxIdx, NEW r, NEW t, Good(G, H, e, r, t),
           NEW z, NEW m, NEW h, NEW G2, NEW r2, InHalves(G, r, z, m, h, G2, r2)
    PROVE  Good(G2, H, e, r2, t) /\ NoTwins(G2, z, r2) /\ r[h] = m /\ h \notin G /\ h \in Index
<1> USE DEF InHalves
<1>1. r \in [Index -> Order] /\ t \in [Index -> {"USED", "FREE"}] /\ Placed(G \cup H, e, r)
  BY DEF Good, Headers
<1>2. \A x \in G \cup H :
          /\ x \in Index /\ x \in Nat /\ r[x] \in Order /\ r[x] \in Nat /\ Sz(r[x]) \in Nat \ {0}
          /\ FirstIdx <= x /\ x + Sz(r[x]) <= e /\ x < e /\ x % Sz(r[x]) = 0
          /\ \A y \in G \cup H : x < y => x + Sz(r[x]) <= y
  BY <1>1, BlockFacts
<1>3. PICK s : s = Sz(m) /\ s \in Nat \ {0} /\ Sz(m + 1) = 2 * s
  BY SzFacts, Zenon
<1>4. z \in G \cup H
  BY Zenon
<1>5. /\ z \in Index /\ z \in Nat /\ FirstIdx <= z /\ z + 2 * s <= e /\ z % Sz(m + 1) = 0
      /\ \A y \in G \cup H : z < y => z + 2 * s <= y
  <2>1. /\ z \in Index /\ z \in Nat /\ FirstIdx <= z /\ z + Sz(r[z]) <= e /\ z % Sz(r[z]) = 0
        /\ \A y \in G \cup H : z < y => z + Sz(r[z]) <= y
    BY <1>2, <1>4, Zenon
  <2>2. r[z] = m + 1 /\ Sz(m + 1) = 2 * s
    BY <1>3, Zenon
  <2> QED
    BY <2>1, <2>2, Zenon
<1>6. h = z + s
  BY <1>3, Zenon
<1>7. h \in Nat /\ h \in Int /\ z < h /\ h + s <= e /\ h \in FirstIdx .. e - 1 /\ h # z
  BY <1>3, <1>5, <1>6, BuddyConstants
<1>8. h \in Index
  BY <1>7, BuddyConstants DEF Index
<1>9. h \notin G /\ h \notin H
  <2>1. h \notin G \cup H
    BY <1>3, <1>5, <1>6, <1>7
  <2> QED
    BY <2>1, Zenon
<1>10. t[h] = "FREE" /\ Upper(h, r[h])
  BY <1>7, <1>9, Zenon DEF Good, Marked
<1>11. Upper(h, m) /\ h % Sz(m) = 0
  <2>1. z \in Int /\ z % Sz(m + 1) = 0
    BY <1>5
  <2> QED
    BY <2>1, UpperHalf, Zenon
<1>12. r[h] = m
  <2>1. r[h] \in Nat
    BY <1>1, <1>8, BuddyConstants, Zenon
  <2> QED
    BY <2>1, <1>7, <1>10, <1>11, UpperUnique, Zenon
<1>13. r2[h] = m
  BY <1>7, <1>8, <1>12, Zenon
<1>14. \A x \in G2 \cup H : (x # h => x \in G \cup H) /\ (x # z => r2[x] = r[x])
  <2>1. \A x \in G2 \cup H : (x # h => x \in G \cup H)
    BY Zenon
  <2>2. \A x \in G2 \cup H : x \in Index
    BY <2>1, <1>2, <1>8, Zenon
  <2> QED
    BY <2>1, <2>2, Zenon
<1>15. Placed(G2 \cup H, e, r2)
  <2>1. ASSUME NEW x \in G2 \cup H PROVE FirstIdx <= x /\ x + Sz(r2[x]) <= e /\ x % Sz(r2[x]) = 0
    <3>1. CASE x = h
      <4>1. FirstIdx <= h /\ h + s <= e
        BY <1>7, BuddyConstants
      <4> QED
        BY <4>1, <3>1, <1>3, <1>11, <1>13, Zenon
    <3>2. CASE x = z
      <4>1. z + s <= e /\ z \in Int /\ m + 1 \in Nat /\ m <= m + 1
        BY <1>3, <1>5
      <4>2. z % Sz(m) = 0
        BY <4>1, <1>5, SzAligned, Zenon
      <4> QED
        BY <3>2, <4>1, <4>2, <1>3, <1>5, Zenon
    <3>3. CASE x # z /\ x # h
      BY <3>3, <1>2, <1>14, Zenon
    <3> QED
      BY <3>1, <3>2, <3>3
  <2>2. ASSUME NEW x \in G2 \cup H, NEW y \in G2 \cup H, x < y PROVE x + Sz(r2[x]) <= y
    <3>1. CASE x = h
      <4>1. y # h
        BY <2>2, <3>1, <1>7
      <4>2. y \in G \cup H
        BY <4>1, <1>14, Zenon
      <4>3. y \in Nat /\ (z < y => z + 2 * s <= y)
        BY <4>2, <1>2, <1>5, Zenon
      <4>4. h + s <= y
        BY <4>3, <2>2, <3>1, <1>3, <1>5, <1>6, <1>7
      <4> QED
        BY <4>4, <3>1, <1>3, <1>13, Zenon
    <3>2. CASE x = z
      <4>1. CASE y = h
        BY <4>1, <3>2, <1>3, <1>5, <1>6
      <4>2. CASE y # h
        <5>1. y \in G \cup H
          BY <4>2, <1>14, Zenon
        <5>2. y \in Nat /\ (z < y => z + 2 * s <= y)
          BY <5>1, <1>2, <1>5, Zenon
        <5>3. z + s <= y
          BY <5>2, <3>2, <2>2, <1>3, <1>5
        <5> QED
          BY <5>3, <3>2, <1>3, Zenon
      <4> QED
        BY <4>1, <4>2
    <3>3. CASE x # z /\ x # h
      <4>1. x \in G \cup H /\ r2[x] = r[x]
        BY <3>3, <1>14, Zenon
      <4>2. CASE y = h
        <5>1. x \in Nat /\ Sz(r[x]) \in Nat /\ (x < z => x + Sz(r[x]) <= z) /\ (z < x => z + 2 * s <= x)
          BY <4>1, <1>2, <1>4, <1>5
        <5>2. x + Sz(r[x]) <= h
          BY <5>1, <4>2, <3>3, <2>2, <1>3, <1>5, <1>6
        <5> QED
          BY <5>2, <4>1, <4>2, Zenon
      <4>3. CASE y # h
        BY <4>1, <4>3, <2>2, <1>2, <1>14, Zenon
      <4> QED
        BY <4>2, <4>3
    <3> QED
      BY <3>1, <3>2, <3>3
  <2>3. G2 \cup H \subseteq Index
    BY <1>2, <1>8, <1>14, Zenon
  <2> QED
    BY <2>1, <2>2, <2>3, Zenon DEF Placed
<1>16. AllTiled(G2 \cup H, e, r2)
  <2>1. SUFFICES ASSUME NEW y \in FirstIdx .. e - 1
                 PROVE  \E x \in G2 \cup H : x <= y /\ y < x + Sz(r2[x])
    BY Zenon DEF AllTiled
  <2>2. PICK x \in G \cup H : x <= y /\ y < x + Sz(r[x])
    BY Zenon DEF AllTiled, Good
  <2>3. x \in G2 \cup H
    BY Zenon
  <2>4. CASE x = z
    <3>1. y \in Int
      BY BuddyConstants
    <3>2. z <= y /\ y < z + 2 * s
      BY <2>2, <2>4, <1>3, Zenon
    <3>3. CASE y < z + s
      BY <3>2, <3>3, <2>3, <2>4, <1>3, Zenon
    <3>4. CASE ~(y < z + s)
      <4>1. h <= y /\ y < h + s
        BY <3>1, <3>2, <3>4, <1>3, <1>5, <1>6
      <4>2. y < h + Sz(r2[h])
        BY <4>1, <1>3, <1>13, Zenon
      <4>3. h \in G2 \cup H
        BY Zenon
      <4> QED
        BY <4>1, <4>2, <4>3, Zenon
    <3> QED
      BY <3>3, <3>4, Zenon
  <2>5. CASE x # z
    BY <2>2, <2>3, <2>5, <1>14, Zenon
  <2> QED
    BY <2>4, <2>5, Zenon
<1>17. Marked(G2, H, e, r2, t)
  <2>1. \A x \in G2 : t[x] = "FREE"
    BY <1>10, Zenon DEF Good, Marked
  <2>2. \A x \in H : t[x] = "USED"
    BY Zenon DEF Good, Marked
  <2>3. ASSUME NEW y \in FirstIdx .. e - 1, y \notin G2, y \notin H
        PROVE  t[y] = "FREE" /\ Upper(y, r2[y])
    <3>1. y \notin G /\ y # z
      BY <2>3, Zenon
    <3>2. t[y] = "FREE" /\ Upper(y, r[y])
      BY <3>1, <2>3, Zenon DEF Good, Marked
    <3>3. y \in Index
      BY BuddyConstants DEF Index
    <3> QED
      BY <3>1, <3>2, <3>3, Zenon
  <2>4. \A y \in Index : y < FirstIdx \/ e <= y => t[y] = "USED" /\ r2[y] = 0
    <3>1. \A y \in Index : y < FirstIdx \/ e <= y => t[y] = "USED" /\ r[y] = 0
      BY Zenon DEF Good, Marked
    <3>2. ~(z < FirstIdx) /\ ~(e <= z)
      BY <1>3, <1>5, BuddyConstants
    <3> QED
      BY <3>1, <3>2, Zenon
  <2> QED
    BY <2>1, <2>2, <2>3, <2>4, Zenon DEF Marked
<1>18. Good(G2, H, e, r2, t)
  BY <1>1, <1>15, <1>16, <1>17, Zenon DEF Good, Headers
<1>19. NoTwins(G2, z, r2)
  <2>1. SUFFICES ASSUME NEW a \in G2, NEW b \in G2, a # z, b # z, Twins(a, b, r2) PROVE FALSE
    BY Zenon DEF NoTwins
  <2>2. a \in G2 \cup H /\ b \in G2 \cup H
    BY Zenon
  <2>3. r2[a] = r[a] /\ r2[b] = r[b]
    BY <2>1, <2>2, <1>14, Zenon
  <2>4. Twins(a, b, r)
    BY <2>1, <2>3 DEF Twins
  <2>5. a = h \/ b = h
    BY <2>1, <2>4, Zenon DEF NoTwins
  <2>6. CASE a = h
    <3>1. h % Sz(m + 1) = 0
      BY <2>4, <2>6, <1>12, Zenon DEF Twins
    <3> QED
      BY <3>1, <1>11, <1>3 DEF Upper
  <2>7. CASE b = h /\ a # h
    <3>1. h = a + Sz(m)
      BY <2>4, <2>7, <1>12, Zenon DEF Twins
    <3>2. a \in G \cup H
      BY <2>2, <2>7, <1>14, Zenon
    <3>3. a \in Nat
      BY <3>2, <1>2, Zenon
    <3> QED
      BY <3>1, <3>3, <2>1, <1>3, <1>5, <1>6
  <2> QED
    BY <2>5, <2>6, <2>7
<1> QED
  BY <1>8, <1>9, <1>12, <1>18, <1>19, Zenon

-----------------------------------------------------------------------------
(* Buddy: a block changes hands; its header is the only one that changes.  *)

LEMMA Retagged ==
    ASSUME NEW G, NEW H, NEW e \in Int, e <= MaxIdx, NEW r, NEW t, Good(G, H, e, r, t),
           NEW G2, NEW H2, \A w : w \in G2 \/ w \in H2 <=> w \in G \/ w \in H,
           NEW t2 \in [Index -> {"USED", "FREE"}],
           \A w \in G2 : t2[w] = "FREE", \A w \in H2 : t2[w] = "USED",
           \A w \in Index : w \notin G /\ w \notin H => t2[w] = t[w]
    PROVE  Good(G2, H2, e, r, t2)
<1>1. G2 \cup H2 = G \cup H
  BY Zenon
<1>2. Headers(r, t2) /\ Placed(G2 \cup H2, e, r) /\ AllTiled(G2 \cup H2, e, r)
  BY <1>1, Zenon DEF Good, Headers
<1>3. \A y \in FirstIdx .. e - 1 : y \in Index
  BY BuddyConstants DEF Index
<1>4. \A y \in FirstIdx .. e - 1 : y \notin G2 /\ y \notin H2 => t2[y] = "FREE" /\ Upper(y, r[y])
  BY <1>3, Zenon DEF Good, Marked
<1>5. \A y \in Index : y < FirstIdx \/ e <= y => t2[y] = "USED" /\ r[y] = 0
  <2>1. ASSUME NEW y \in Index, y < FirstIdx \/ e <= y PROVE y \notin G /\ y \notin H
    <3>1. r \in [Index -> Order] /\ Placed(G \cup H, e, r)
      BY DEF Good, Headers
    <3>2. \A x \in G \cup H : FirstIdx <= x /\ x < e
      BY <3>1, BlockFacts
    <3>3. y \notin G \cup H
      BY <2>1, <3>2, BuddyConstants
    <3> QED
      BY <3>3, Zenon
  <2> QED
    BY <2>1, Zenon DEF Good, Marked
<1> QED
  BY <1>2, <1>4, <1>5, Zenon DEF Good, Marked

\* free() and free_wait(): coalesce() marks the block.
LEMMA OpenHeld ==
    ASSUME NEW F, NEW H, NEW e \in Int, e <= MaxIdx, NEW r, NEW t, Good(F, H, e, r, t),
           NoTwins(F, -1, r), NEW x \in H,
           NEW G, \A w : w \in G <=> w \in F \/ w = x, NEW H2, \A w : w \in H2 <=> w \in H /\ w # x,
           NEW t2 \in [Index -> {"USED", "FREE"}], t2[x] = "FREE", \A w \in Index : w # x => t2[w] = t[w]
    PROVE  Good(G, H2, e, r, t2) /\ NoTwins(G, x, r) /\ x \notin F
<1>1. /\ t \in [Index -> {"USED", "FREE"}] /\ F \subseteq Index /\ H \subseteq Index
      /\ \A w \in F : t[w] = "FREE" /\ w \in Nat
      /\ \A w \in H : t[w] = "USED"
  <2>1. F \subseteq Index /\ H \subseteq Index
    BY Zenon DEF Good, Placed
  <2>2. \A w \in F : w \in Nat
    BY <2>1, BuddyConstants, Zenon
  <2> QED
    BY <2>1, <2>2, Zenon DEF Good, Headers, Marked
<1>2. x \notin F /\ x \in Index
  BY <1>1
<1>3. t2 \in [Index -> {"USED", "FREE"}] /\ t2[x] = "FREE" /\ \A w \in Index : w # x => t2[w] = t[w]
  BY Zenon
<1>4. \A w : w \in G \/ w \in H2 <=> w \in F \/ w \in H
  BY Zenon
<1>9. \A w \in G : t2[w] = "FREE"
  BY <1>1, <1>3, Zenon
<1>5. \A w \in H2 : t2[w] = "USED"
  BY <1>1, <1>3, Zenon
<1>6. \A w \in Index : w \notin F /\ w \notin H => t2[w] = t[w]
  BY <1>3, Zenon
<1>8. Good(G, H2, e, r, t2)
  BY <1>3, <1>4, <1>5, <1>9, <1>6, Retagged, SMT
<1>7. NoTwins(G, x, r)
  <2>1. \A a \in F : a # -1
    BY <1>1
  <2> QED
    BY <2>1, Zenon DEF NoTwins
<1> QED
  BY <1>2, <1>8, <1>7

\* init(): the next page of the pool.
LEMMA OpenNext ==
    ASSUME NEW F, NEW H, NEW e \in Int, FirstIdx <= e, e < MaxIdx, NEW r, NEW t, Good(F, H, e, r, t),
           NoTwins(F, -1, r), NEW n, n = e + 1, NEW G, \A w : w \in G <=> w \in F \/ w = e,
           NEW t2 \in [Index -> {"USED", "FREE"}], t2[e] = "FREE", \A w \in Index : w # e => t2[w] = t[w]
    PROVE  Good(G, H, n, r, t2) /\ NoTwins(G, e, r) /\ e \notin F /\ e \in Index /\ r[e] = 0
<1>1. r \in [Index -> Order] /\ t \in [Index -> {"USED", "FREE"}] /\ Placed(F \cup H, e, r)
  BY DEF Good, Headers
<1>2. \A x \in F \cup H :
          /\ x \in Index /\ x \in Nat /\ r[x] \in Order /\ r[x] \in Nat /\ Sz(r[x]) \in Nat \ {0}
          /\ FirstIdx <= x /\ x + Sz(r[x]) <= e /\ x < e /\ x % Sz(r[x]) = 0
          /\ \A y \in F \cup H : x < y => x + Sz(r[x]) <= y
  BY <1>1, BlockFacts
<1>3. e \in Index
  BY BuddyConstants DEF Index
<1>4. e <= e
  OBVIOUS
<1>5. r[e] = 0 /\ t[e] = "USED"
  BY <1>3, <1>4, Zenon DEF Good, Marked
<1>6. Sz(r[e]) = 1
  BY <1>5, SzFacts, Zenon
<1>7. e \notin F /\ e \notin H
  <2>1. \A x \in F \cup H : x # e
    BY <1>2
  <2> QED
    BY <2>1, Zenon
<1>8. t2 \in [Index -> {"USED", "FREE"}] /\ t2[e] = "FREE" /\ \A w \in Index : w # e => t2[w] = t[w]
  BY Zenon
<1>9. \A x \in G \cup H : x = e \/ x \in F \cup H
  BY Zenon
<1>10. Placed(G \cup H, n, r)
  <2>1. ASSUME NEW x \in G \cup H
        PROVE  FirstIdx <= x /\ x + Sz(r[x]) <= n /\ x % Sz(r[x]) = 0 /\ x \in Index
    <3>1. CASE x = e
      <4>1. e % 1 = 0
        OBVIOUS
      <4> QED
        BY <3>1, <4>1, <1>3, <1>6
    <3>2. CASE x # e
      <4>1. x \in F \cup H
        BY <3>2, <1>9, Zenon
      <4>2. /\ x \in Index /\ x \in Nat /\ Sz(r[x]) \in Nat
            /\ FirstIdx <= x /\ x + Sz(r[x]) <= e /\ x % Sz(r[x]) = 0
        BY <4>1, <1>2
      <4>3. x + Sz(r[x]) <= n
        BY <4>2
      <4> QED
        BY <4>2, <4>3
    <3> QED
      BY <3>1, <3>2
  <2>2. ASSUME NEW x \in G \cup H, NEW y \in G \cup H, x < y PROVE x + Sz(r[x]) <= y
    <3>1. x # e
      <4>1. ASSUME x = e PROVE FALSE
        <5>1. y # e
          BY <4>1, <2>2
        <5>2. y \in Nat /\ y < e
          BY <5>1, <1>2, <1>9, Zenon
        <5> QED
          BY <5>2, <4>1, <2>2
      <4> QED
        BY <4>1
    <3>2. x \in F \cup H
      BY <3>1, <1>9, Zenon
    <3> QED
      BY <3>2, <2>2, <1>2, <1>9, Zenon
  <2> QED
    BY <2>1, <2>2, Zenon DEF Placed
<1>11. AllTiled(G \cup H, n, r)
  <2>1. SUFFICES ASSUME NEW y \in FirstIdx .. n - 1
                 PROVE  \E x \in G \cup H : x <= y /\ y < x + Sz(r[x])
    BY Zenon DEF AllTiled
  <2>2. CASE y = e
    <3>1. e <= e /\ e < e + Sz(r[e]) /\ e \in G \cup H
      BY <1>6
    <3> QED
      BY <3>1, <2>2, Zenon
  <2>3. CASE y # e
    <3>1. y \in FirstIdx .. e - 1
      BY <2>3, BuddyConstants
    <3>2. PICK x \in F \cup H : x <= y /\ y < x + Sz(r[x])
      BY <3>1, Zenon DEF AllTiled, Good
    <3> QED
      BY <3>2, Zenon
  <2> QED
    BY <2>2, <2>3
<1>12. Marked(G, H, n, r, t2)
  <2>1. \A x \in G : t2[x] = "FREE"
    <3>1. \A x \in F : x \in Index /\ t[x] = "FREE" /\ x # e
      BY <1>2, <1>7, Zenon DEF Good, Marked
    <3> QED
      BY <3>1, <1>8, Zenon
  <2>2. \A x \in H : t2[x] = "USED"
    <3>1. \A x \in H : x \in Index /\ t[x] = "USED" /\ x # e
      BY <1>2, <1>7, Zenon DEF Good, Marked
    <3> QED
      BY <3>1, <1>8, Zenon
  <2>3. ASSUME NEW y \in FirstIdx .. n - 1, y \notin G, y \notin H
        PROVE  t2[y] = "FREE" /\ Upper(y, r[y])
    <3>1. y \notin F /\ y # e
      BY <2>3, Zenon
    <3>2. y \in FirstIdx .. e - 1 /\ y \in Index
      BY <3>1, BuddyConstants DEF Index
    <3> QED
      BY <3>1, <3>2, <2>3, <1>8, Zenon DEF Good, Marked
  <2>4. ASSUME NEW y \in Index, y < FirstIdx \/ n <= y PROVE t2[y] = "USED" /\ r[y] = 0
    <3>1. (y < FirstIdx \/ e <= y) /\ y # e
      BY <2>4, BuddyConstants
    <3> QED
      BY <3>1, <1>8, Zenon DEF Good, Marked
  <2> QED
    BY <2>1, <2>2, <2>3, <2>4, Zenon DEF Marked
<1>13. NoTwins(G, e, r)
  <2>1. \A a \in F : a # -1
    BY <1>2
  <2> QED
    BY <2>1, Zenon DEF NoTwins
<1> QED
  BY <1>1, <1>3, <1>5, <1>7, <1>8, <1>10, <1>11, <1>12, <1>13, Zenon DEF Good, Headers

\* alloc(): what is left of the block is marked.
LEMMA CloseHeld ==
    ASSUME NEW G, NEW H, NEW e \in Int, e <= MaxIdx, NEW r, NEW t, Good(G, H, e, r, t),
           NEW z \in G, NoTwins(G, z, r),
           NEW F, \A w : w \in F <=> w \in G /\ w # z, NEW H2, \A w : w \in H2 <=> w \in H \/ w = z,
           NEW t2 \in [Index -> {"USED", "FREE"}], t2[z] = "USED", \A w \in Index : w # z => t2[w] = t[w]
    PROVE  Good(F, H2, e, r, t2) /\ NoTwins(F, -1, r)
<1>1. /\ t \in [Index -> {"USED", "FREE"}] /\ G \subseteq Index /\ H \subseteq Index
      /\ \A w \in G : t[w] = "FREE"
      /\ \A w \in H : t[w] = "USED"
  <2>1. G \subseteq Index /\ H \subseteq Index
    BY Zenon DEF Good, Placed
  <2> QED
    BY <2>1, Zenon DEF Good, Headers, Marked
<1>2. z \notin H /\ z \in Index
  BY <1>1
<1>3. t2 \in [Index -> {"USED", "FREE"}] /\ t2[z] = "USED" /\ \A w \in Index : w # z => t2[w] = t[w]
  BY Zenon
<1>4. \A w : w \in F \/ w \in H2 <=> w \in G \/ w \in H
  BY Zenon
<1>5. \A w \in F : t2[w] = "FREE"
  BY <1>1, <1>3, Zenon
<1>6. \A w \in H2 : t2[w] = "USED"
  BY <1>1, <1>2, <1>3, Zenon
<1>7. \A w \in Index : w \notin G /\ w \notin H => t2[w] = t[w]
  BY <1>3, Zenon
<1>8. Good(F, H2, e, r, t2)
  BY <1>3, <1>4, <1>5, <1>6, <1>7, Retagged, SMT
<1>9. NoTwins(F, -1, r)
  BY Zenon DEF NoTwins
<1> QED
  BY <1>8, <1>9

-----------------------------------------------------------------------------
(* Buddy: the loop in coalesce(), that merges x upward from order r[x].    *)

\* When it has reached order m: the free blocks and the orders in the headers.
Left(F, x, i, m) ==
    {w \in Index : w = Base(x, m) \/ (w \in F /\ \A o \in i .. m - 1 : w # BuddyOf(x, o))}
Raised(r, x, m) ==
    [y \in Index |-> IF OrdersWritten(x, r[x], m, y) = {} THEN r[y] ELSE Max(OrdersWritten(x, r[x], m, y))]

LEMMA BaseDown ==
    ASSUME NEW x \in Int, NEW i \in Nat, NEW j \in Nat, i <= j
    PROVE  Base(x, j) <= Base(x, i)
<1>1. PICK a : a = Base(x, i)
  BY Zenon
<1>2. PICK b : b = Base(x, j)
  BY Zenon
<1>3. a \in Int /\ a % Sz(i) = 0 /\ x < a + Sz(i)
  BY <1>1, BaseFacts
<1>4. b \in Int /\ b % Sz(j) = 0 /\ b <= x
  BY <1>2, BaseFacts
<1>5. b % Sz(i) = 0
  BY <1>4, SzAligned, Zenon
<1>6. Sz(i) \in Nat \ {0}
  BY SzFacts
<1>7. a < b => a + Sz(i) <= b
  BY <1>3, <1>4, <1>5, <1>6, Multiples, Zenon
<1>8. b <= a
  BY <1>3, <1>4, <1>6, <1>7
<1> QED
  BY <1>1, <1>2, <1>8, Zenon

\* The buddy at order m is not one of the blocks merged below that order.
LEMMA BuddyApart ==
    ASSUME NEW x \in Int, NEW m \in Nat, NEW o \in Nat, o <= m
    PROVE  BuddyOf(x, m) # Base(x, o) /\ BuddyOf(x, m) # x
<1>1. PICK a : a = Base(x, m)
  BY Zenon
<1>2. PICK b : b = Base(x, o)
  BY Zenon
<1>3. PICK s : s = Sz(m) /\ s \in Nat \ {0}
  BY SzFacts
<1>4. a \in Int /\ x < a + s /\ a <= x
  BY <1>1, <1>3, BaseFacts
<1>5. b \in Int /\ b <= x /\ a <= b
  BY <1>1, <1>2, BaseFacts, BaseDown
<1>6. BuddyOf(x, m) = a + s \/ BuddyOf(x, m) = a - s
  BY <1>1, <1>3, BuddyHalf, Zenon
<1>7. BuddyOf(x, m) # b /\ BuddyOf(x, m) # x
  BY <1>3, <1>4, <1>5, <1>6
<1> QED
  BY <1>2, <1>7, Zenon

LEMMA MaxTop ==
    ASSUME NEW S, NEW n, n \in S, \A a \in S : a \in Nat /\ a <= n
    PROVE  Max(S) = n
<1>1. \A a \in S : n >= a
  OBVIOUS
<1>2. Max(S) \in S /\ \A a \in S : Max(S) >= a
  BY <1>1, Zenon DEF Max
<1> QED
  BY <1>2

LEMMA RaisedStart ==
    ASSUME NEW r \in [Index -> Order], NEW x \in Index
    PROVE  Raised(r, x, r[x]) = r
<1>1. r[x] \in Nat
  BY BuddyConstants, Zenon
<1>2. \A y : OrdersWritten(x, r[x], r[x], y) = {}
  BY <1>1 DEF OrdersWritten
<1>3. Raised(r, x, r[x]) = [y \in Index |-> r[y]]
  BY <1>2 DEF Raised
<1> QED
  BY <1>3

LEMMA RaisedSame ==
    ASSUME NEW r \in [Index -> Order], NEW x \in Index, NEW m \in Nat, NEW y \in Index,
           \A o \in Nat : r[x] < o /\ o <= m => Base(x, o) # y
    PROVE  Raised(r, x, m)[y] = r[y]
<1>1. r[x] \in Nat
  BY BuddyConstants, Zenon
<1>2. \A o \in r[x] + 1 .. m : o \in Nat /\ r[x] < o /\ o <= m
  BY <1>1
<1>3. OrdersWritten(x, r[x], m, y) = {}
  BY <1>2, Zenon DEF OrdersWritten
<1> QED
  BY <1>3 DEF Raised

LEMMA RaisedNext ==
    ASSUME NEW r \in [Index -> Order], NEW x \in Index, NEW m \in Nat, r[x] <= m, m + 1 \in Order,
           Raised(r, x, m) \in [Index -> Order], Base(x, m + 1) \in Index
    PROVE  /\ Raised(r, x, m + 1) \in [Index -> Order]
           /\ Raised(r, x, m + 1)[Base(x, m + 1)] = m + 1
           /\ \A y \in Index : y # Base(x, m + 1) => Raised(r, x, m + 1)[y] = Raised(r, x, m)[y]
<1>1. r[x] \in Nat /\ m + 1 \in Nat
  BY BuddyConstants, Zenon
<1>2. PICK i : i = r[x] /\ i \in Nat /\ i <= m
  BY <1>1, Zenon
<1>3. PICK b : b = Base(x, m + 1) /\ b \in Index
  BY Zenon
<1>4. OrdersWritten(x, i, m + 1, b) # {} /\ Max(OrdersWritten(x, i, m + 1, b)) = m + 1
  <2>1. m + 1 \in i + 1 .. m + 1
    BY <1>2
  <2>2. \A o \in i + 1 .. m + 1 : o \in Nat /\ o <= m + 1
    BY <1>2
  <2>3. m + 1 \in OrdersWritten(x, i, m + 1, b)
    BY <1>3, <2>1, Zenon DEF OrdersWritten
  <2>4. \A o \in OrdersWritten(x, i, m + 1, b) : o \in Nat /\ o <= m + 1
    BY <2>2, Zenon DEF OrdersWritten
  <2>5. Max(OrdersWritten(x, i, m + 1, b)) = m + 1
    BY <2>3, <2>4, MaxTop, Zenon
  <2> QED
    BY <2>3, <2>5, Zenon
<1>5. ASSUME NEW y \in Index, y # b PROVE OrdersWritten(x, i, m + 1, y) = OrdersWritten(x, i, m, y)
  <2>1. \A o : o \in i + 1 .. m + 1 /\ o # m + 1 <=> o \in i + 1 .. m
    BY <1>2
  <2>2. \A o : o \in OrdersWritten(x, i, m + 1, y) <=> o \in OrdersWritten(x, i, m, y)
    BY <2>1, <1>3, <1>5, Zenon DEF OrdersWritten
  <2> QED
    BY <2>2, Zenon
<1>6. \A y \in Index : Raised(r, x, m)[y] = IF OrdersWritten(x, i, m, y) = {} THEN r[y] ELSE Max(OrdersWritten(x, i, m, y))
  BY <1>2, Zenon DEF Raised
<1>7. \A y \in Index : Raised(r, x, m + 1)[y] = IF OrdersWritten(x, i, m + 1, y) = {} THEN r[y] ELSE Max(OrdersWritten(x, i, m + 1, y))
  BY <1>2, Zenon DEF Raised
<1>8. Raised(r, x, m + 1)[b] = m + 1
  BY <1>3, <1>4, <1>7, Zenon
<1>9. \A y \in Index : y # b => Raised(r, x, m + 1)[y] = Raised(r, x, m)[y]
  BY <1>5, <1>6, <1>7, Zenon
<1>10. \A y \in Index : Raised(r, x, m + 1)[y] \in Order
  BY <1>3, <1>8, <1>9, Zenon
<1>11. Raised(r, x, m + 1) \in [Index -> Order]
  <2>1. Raised(r, x, m + 1) = [y \in Index |-> Raised(r, x, m + 1)[y]]
    BY DEF Raised
  <2> QED
    BY <2>1, <1>10, Zenon
<1> QED
  BY <1>3, <1>8, <1>9, <1>11, Zenon

\* The pool when the loop has reached order m.
Loop(F, H, e, r, t, x, m) ==
    /\ Base(x, m) \in Left(F, x, r[x], m)
    /\ Raised(r, x, m)[Base(x, m)] = m
    /\ Good(Left(F, x, r[x], m), H, e, Raised(r, x, m), t)
    /\ NoTwins(Left(F, x, r[x], m), Base(x, m), Raised(r, x, m))
    /\ \A w \in F : (\A o \in r[x] .. m - 1 : w # BuddyOf(x, o)) => w # Base(x, m)
    /\ \A o \in r[x] .. m - 1 : BuddyOf(x, o) \in F

LEMMA LoopStart ==
    ASSUME NEW F, NEW H, NEW e \in Int, e <= MaxIdx, NEW r, NEW t, NEW x \in Index, x \notin F,
           NEW G, \A w : w \in G <=> w \in F \/ w = x, Good(G, H, e, r, t), NoTwins(G, x, r)
    PROVE  Loop(F, H, e, r, t, x, r[x])
<1>1. r \in [Index -> Order] /\ Placed(G \cup H, e, r)
  BY DEF Good, Headers
<1>2. x \in G \cup H /\ x \in G
  BY Zenon
<1>3. x \in Nat /\ r[x] \in Nat /\ x % Sz(r[x]) = 0 /\ Sz(r[x]) \in Nat \ {0}
  BY <1>1, <1>2, BlockFacts
<1>4. Base(x, r[x]) = x
  <2>1. x \in Int /\ x <= x /\ x < x + Sz(r[x])
    BY <1>3
  <2> QED
    BY <2>1, <1>3, BaseOf, Zenon
<1>5. Raised(r, x, r[x]) = r
  BY <1>1, RaisedStart, Zenon
<1>6. Left(F, x, r[x], r[x]) = G
  <2>1. \A o \in r[x] .. r[x] - 1 : FALSE
    BY <1>3
  <2>2. \A w \in G : w \in Index
    BY Zenon DEF Good, Placed
  <2>3. \A w : w \in Left(F, x, r[x], r[x]) <=> w \in G
    BY <2>1, <2>2, <1>4, Zenon DEF Left
  <2> QED
    BY <2>3, Zenon
<1>7. \A o \in r[x] .. r[x] - 1 : FALSE
  BY <1>3
<1> QED
  BY <1>2, <1>4, <1>5, <1>6, <1>7, Zenon DEF Loop

LEMMA LoopStep ==
    ASSUME NEW F, NEW H, NEW e \in Int, e <= MaxIdx, NEW r \in [Index -> Order], NEW t, NEW x \in Index,
           NEW m \in Nat, r[x] <= m, Loop(F, H, e, r, t, x, m), m < Orders - 1,
           BuddyOf(x, m) \in Index, t[BuddyOf(x, m)] = "FREE", r[BuddyOf(x, m)] = m
    PROVE  Loop(F, H, e, r, t, x, m + 1)
<1>1. PICK i : i = r[x] /\ i \in Nat /\ i <= m
  BY BuddyConstants, Zenon
<1>2. PICK z : z = Base(x, m)
  BY Zenon
<1>3. PICK y : y = BuddyOf(x, m)
  BY Zenon
<1>4. PICK l : l = Base(x, m + 1)
  BY Zenon
<1>5. PICK G : G = Left(F, x, i, m)
  BY Zenon
<1>6. PICK q : q = Raised(r, x, m)
  BY Zenon
<1>7. /\ z \in G /\ q[z] = m /\ Good(G, H, e, q, t) /\ NoTwins(G, z, q)
      /\ \A w \in F : (\A o \in i .. m - 1 : w # BuddyOf(x, o)) => w # z
      /\ \A o \in i .. m - 1 : BuddyOf(x, o) \in F
  BY <1>1, <1>2, <1>5, <1>6, Zenon DEF Loop
<1>8. x \in Int /\ x \in Nat
  BY BuddyConstants
<1>9. \A o \in Nat : o <= m => Base(x, o) # y
  BY <1>3, <1>8, BuddyApart
<1>10. y \in Index /\ t[y] = "FREE" /\ q[y] = m
  <2>1. q[y] = r[y]
    BY <1>3, <1>6, <1>9, RaisedSame
  <2> QED
    BY <2>1, <1>3, Zenon
<1>11. m + 1 \in Nat /\ m <= m /\ m + 1 \in Order
  BY BuddyConstants
<1>12. y # z
  BY <1>2, <1>9, <1>11, Zenon
<1>13. PICK s : s = Sz(m) /\ s \in Nat \ {0}
  BY SzFacts
<1>14. \/ z % Sz(m + 1) = 0 /\ y = z + s /\ l = z
       \/ Upper(z, m) /\ y = z - s /\ y % Sz(m + 1) = 0 /\ l = y
  BY <1>2, <1>3, <1>4, <1>8, <1>13, BuddyHalf, Zenon
<1>15. z \in Int
  BY <1>2, <1>8, BaseFacts, Zenon
<1>16. \/ z % Sz(m + 1) = 0 /\ y = z + s /\ l = z
       \/ y % Sz(m + 1) = 0 /\ z = y + s /\ l = y
  BY <1>13, <1>14, <1>15
<1>17. Mate(z, y, q[z])
  BY <1>7, <1>13, <1>16, Zenon DEF Mate
<1>18. q[y] = q[z]
  BY <1>7, <1>10, Zenon
<1>19. y \in G
  BY <1>7, <1>10, <1>17, <1>18, MateIsBlock, Zenon
<1>20. PICK h : (l = z /\ h = y) \/ (l = y /\ h = z)
  BY <1>16, Zenon
<1>21. l \in G /\ h \in G /\ (z = l \/ z = h) /\ q[l] = m /\ q[h] = m
  BY <1>7, <1>10, <1>19, <1>20, Zenon
<1>22. l % Sz(m + 1) = 0 /\ h = l + Sz(m)
  BY <1>12, <1>13, <1>16, <1>20, Zenon
<1>23. G \subseteq Index
  BY <1>7, Zenon DEF Good, Placed
<1>24. PICK G2 : G2 = Left(F, x, i, m + 1)
  BY Zenon
<1>25. \A o : o \in i .. (m + 1) - 1 <=> o \in i .. m - 1 \/ o = m
  BY <1>1
<1>26. \A w : w \in G2 <=> w \in Index /\ (w = l \/ (w \in F /\ w # y /\ \A o \in i .. m - 1 : w # BuddyOf(x, o)))
  <2>1. \A w : w \in G2 <=> w \in Index /\ (w = l \/ (w \in F /\ \A o \in i .. (m + 1) - 1 : w # BuddyOf(x, o)))
    BY <1>4, <1>24, Zenon DEF Left
  <2>2. \A w : (\A o \in i .. (m + 1) - 1 : w # BuddyOf(x, o)) <=> w # y /\ \A o \in i .. m - 1 : w # BuddyOf(x, o)
    BY <1>3, <1>25, Zenon
  <2> QED
    BY <2>1, <2>2, Zenon
<1>27. \A w : w \in G <=> w \in Index /\ (w = z \/ (w \in F /\ \A o \in i .. m - 1 : w # BuddyOf(x, o)))
  BY <1>2, <1>5, Zenon DEF Left
<1>28. \A w : w \in G2 <=> w \in G /\ w # h
  <2>1. CASE l = z /\ h = y
    BY <2>1, <1>12, <1>26, <1>27, Zenon
  <2>2. CASE l = y /\ h = z
    <3>1. y \in F /\ \A o \in i .. m - 1 : y # BuddyOf(x, o)
      BY <1>12, <1>19, <1>27, Zenon
    <3> QED
      BY <2>2, <3>1, <1>7, <1>12, <1>19, <1>26, <1>27, Zenon
  <2> QED
    BY <2>1, <2>2, <1>20, Zenon
<1>29. PICK q2 : q2 = Raised(r, x, m + 1)
  BY Zenon
<1>30. q \in [Index -> Order]
  BY <1>7, Zenon DEF Good, Headers
<1>31. q2 \in [Index -> Order] /\ q2[l] = m + 1 /\ \A w \in Index : w # l => q2[w] = q[w]
  <2>1. Base(x, m + 1) \in Index /\ Raised(r, x, m) \in [Index -> Order]
    BY <1>4, <1>6, <1>21, <1>23, <1>30, Zenon
  <2>2. /\ Raised(r, x, m + 1) \in [Index -> Order]
        /\ Raised(r, x, m + 1)[Base(x, m + 1)] = m + 1
        /\ \A w \in Index : w # Base(x, m + 1) => Raised(r, x, m + 1)[w] = Raised(r, x, m)[w]
    BY <2>1, <1>11, RaisedNext, Zenon
  <2> QED
    BY <2>2, <1>4, <1>6, <1>29, Zenon
<1>32. Good(G2, H, e, q2, t) /\ NoTwins(G2, l, q2)
  <2>1. Merged(G, q, z, l, h, m, G2, q2)
    BY <1>7, <1>21, <1>22, <1>28, <1>31, Zenon DEF Merged
  <2> QED
    BY <2>1, <1>7, MergeStep, Zenon
<1>33. l \in G2
  <2>1. l # h
    BY <1>12, <1>20, Zenon
  <2> QED
    BY <2>1, <1>21, <1>28, Zenon
<1>34. \A w \in F : (\A o \in i .. (m + 1) - 1 : w # BuddyOf(x, o)) => w # l
  BY <1>3, <1>7, <1>20, <1>25, Zenon
<1>35. Base(x, m + 1) \in G2 /\ q2[Base(x, m + 1)] = m + 1 /\ NoTwins(G2, Base(x, m + 1), q2)
  BY <1>4, <1>31, <1>32, <1>33, Zenon
<1>36. \A w \in F : (\A o \in r[x] .. (m + 1) - 1 : w # BuddyOf(x, o)) => w # Base(x, m + 1)
  BY <1>1, <1>4, <1>34, Zenon
<1>38. \A o \in r[x] .. (m + 1) - 1 : BuddyOf(x, o) \in F
  <2>1. y \in F
    BY <1>12, <1>19, <1>27, Zenon
  <2> QED
    BY <2>1, <1>1, <1>3, <1>7, <1>25, Zenon
<1>37. G2 = Left(F, x, r[x], m + 1)
  BY <1>1, <1>24, Zenon
<1> QED
  BY <1>29, <1>32, <1>35, <1>36, <1>37, <1>38, Zenon DEF Loop

\* The loop stops at an order k at which the buddy is no free block.
LEMMA LoopEnd ==
    ASSUME NEW F, NEW H, NEW e \in Int, e <= MaxIdx, NEW r \in [Index -> Order], NEW t, NEW x \in Index,
           NEW k \in Nat, Loop(F, H, e, r, t, x, k),
           ~(k < Orders - 1 /\ BuddyOf(x, k) \in Index /\ t[BuddyOf(x, k)] = "FREE" /\ r[BuddyOf(x, k)] = k)
    PROVE  NoTwins(Left(F, x, r[x], k), -1, Raised(r, x, k))
<1>1. PICK G, q, z : G = Left(F, x, r[x], k) /\ q = Raised(r, x, k) /\ z = Base(x, k)
  BY Zenon
<1>2. z \in G /\ q[z] = k /\ Good(G, H, e, q, t) /\ NoTwins(G, z, q)
  BY <1>1, Zenon DEF Loop
<1> SUFFICES ASSUME NEW a \in G, NEW b \in G, Twins(a, b, q) PROVE FALSE
  BY <1>1, Zenon DEF NoTwins
<1>3. a = z \/ b = z
  BY <1>2, Zenon DEF NoTwins
<1>4. q[a] = k /\ q[b] = k /\ k < Orders - 1 /\ a % Sz(k + 1) = 0 /\ b = a + Sz(k)
  BY <1>2, <1>3 DEF Twins
<1>5. G \subseteq Index
  BY <1>2, Zenon DEF Good, Placed
<1>6. a \in Int /\ b \in Int /\ x \in Int
  BY <1>5, BuddyConstants
<1>7. PICK s : s = Sz(k) /\ s \in Nat \ {0}
  BY SzFacts
<1>8. \/ z % Sz(k + 1) = 0 /\ BuddyOf(x, k) = z + s
      \/ Upper(z, k) /\ BuddyOf(x, k) = z - s
  BY <1>1, <1>6, <1>7, BuddyHalf, Zenon
<1>9. ~Upper(a, k) /\ Upper(b, k) /\ ~(b % Sz(k + 1) = 0)
  <2>1. Upper(b, k)
    BY <1>4, <1>6, UpperHalf, Zenon
  <2>2. ~(Sz(k) = 0)
    BY <1>7
  <2> QED
    BY <2>1, <2>2, <1>4, Zenon DEF Upper
<1>10. PICK y : y = BuddyOf(x, k)
  BY Zenon
<1>11. y = a \/ y = b
  <2>1. CASE a = z
    BY <2>1, <1>4, <1>7, <1>8, <1>9, <1>10, Zenon
  <2>2. CASE b = z
    <3>1. y = b - s /\ b = a + s
      BY <2>2, <1>4, <1>7, <1>8, <1>9, <1>10, Zenon
    <3> QED
      BY <3>1, <1>6, <1>7
  <2> QED
    BY <2>1, <2>2, <1>3
<1>12. y \in Index /\ t[y] = "FREE" /\ q[y] = k
  BY <1>2, <1>4, <1>5, <1>11, Zenon DEF Good, Marked
<1>13. \A o \in Nat : r[x] < o /\ o <= k => Base(x, o) # y
  BY <1>6, <1>10, BuddyApart
<1>14. q[y] = r[y]
  BY <1>1, <1>12, <1>13, RaisedSame, Zenon
<1> QED
  BY <1>4, <1>10, <1>12, <1>14, Zenon

LEMMA LoopAll ==
    ASSUME NEW F, NEW H, NEW e \in Int, e <= MaxIdx, NEW r \in [Index -> Order], NEW t, NEW x \in Index,
           NEW k \in Nat, k < Orders, Loop(F, H, e, r, t, x, r[x]),
           \A o \in r[x] .. k - 1 : /\ BuddyOf(x, o) \in Index
                                    /\ t[BuddyOf(x, o)] = "FREE" /\ r[BuddyOf(x, o)] = o
    PROVE  \A m \in r[x] .. k : Loop(F, H, e, r, t, x, m)
<1> DEFINE X == {m \in Nat : m \in r[x] .. k /\ ~Loop(F, H, e, r, t, x, m)}
<1>0. r[x] \in Nat /\ Orders \in Nat
  BY BuddyConstants
<1>1. SUFFICES ASSUME X # {} PROVE FALSE
  <2>1. \A m \in r[x] .. k : m \in Nat
    BY <1>0
  <2> QED
    BY <2>1, <1>1, Zenon
<1>2. PICK m \in X : \A j \in X : m <= j
  <2>1. X \subseteq Nat
    BY Zenon
  <2> HIDE DEF X
  <2> QED
    BY <1>1, <2>1, NatHasLeast, Zenon
<1>3. m \in Nat /\ r[x] <= m /\ m <= k /\ ~Loop(F, H, e, r, t, x, m)
  BY <1>2, <1>0
<1>4. m # r[x]
  BY <1>3, Zenon
<1>5. m - 1 \in Nat /\ m - 1 \in r[x] .. k /\ m - 1 \in r[x] .. k - 1 /\ ~(m <= m - 1) /\ r[x] <= m - 1 /\ m - 1 < Orders - 1 /\ (m - 1) + 1 = m
  BY <1>0, <1>3, <1>4
<1>6. Loop(F, H, e, r, t, x, m - 1)
  BY <1>2, <1>5, Zenon
<1>7. /\ BuddyOf(x, m - 1) \in Index /\ t[BuddyOf(x, m - 1)] = "FREE" /\ r[BuddyOf(x, m - 1)] = m - 1
  BY <1>5, Zenon
<1>8. Loop(F, H, e, r, t, x, (m - 1) + 1)
  <2> HIDE DEF X
  <2>1. PICK j : j = m - 1
    BY Zenon
  <2>2. j \in Nat /\ r[x] <= j /\ j < Orders - 1 /\ Loop(F, H, e, r, t, x, j) /\ BuddyOf(x, j) \in Index
        /\ t[BuddyOf(x, j)] = "FREE" /\ r[BuddyOf(x, j)] = j
    BY <2>1, <1>5, <1>6, <1>7, Zenon
  <2>3. Loop(F, H, e, r, t, x, j + 1)
    BY <2>2, LoopStep
  <2> QED
    BY <2>1, <2>3, Zenon
<1> QED
  BY <1>3, <1>5, <1>8, Zenon

LEMMA FinalOrderIs ==
    ASSUME ord \in [Index -> Order], NEW x \in Index
    PROVE  /\ FinalOrder(x) \in ord[x] .. Orders - 1
           /\ ~Mergeable(x, FinalOrder(x))
           /\ \A o \in ord[x] .. FinalOrder(x) - 1 : Mergeable(x, o)
<1> DEFINE X == {k \in Nat : k \in ord[x] .. Orders - 1 /\ ~Mergeable(x, k)}
<1>0. ord[x] \in Nat /\ ord[x] < Orders /\ Orders \in Nat \ {0}
  BY BuddyConstants
<1>1. Orders - 1 \in X
  <2>1. ~(Orders - 1 < Orders - 1)
    BY <1>0
  <2>2. ~Mergeable(x, Orders - 1)
    BY <2>1, Zenon DEF Mergeable
  <2>3. Orders - 1 \in Nat /\ Orders - 1 \in ord[x] .. Orders - 1
    BY <1>0
  <2> QED
    BY <2>2, <2>3, Zenon
<1>2. PICK k \in X : \A j \in X : k <= j
  <2>1. X \subseteq Nat /\ X # {}
    BY <1>1, Zenon
  <2> HIDE DEF X
  <2> QED
    BY <2>1, NatHasLeast, Zenon
<1>3. k \in Nat /\ k \in ord[x] .. Orders - 1 /\ ~Mergeable(x, k)
  BY <1>2, Zenon
<1>4. ASSUME NEW o \in ord[x] .. k - 1 PROVE Mergeable(x, o)
  <2>1. o \in Nat /\ o \in ord[x] .. Orders - 1 /\ ~(k <= o)
    BY <1>0, <1>3
  <2> QED
    BY <2>1, <1>2, Zenon
<1>5. \E j \in ord[x] .. Orders - 1 : ~Mergeable(x, j) /\ \A o \in ord[x] .. j - 1 : Mergeable(x, o)
  BY <1>3, <1>4, Zenon
<1> HIDE DEF X
<1> QED
  BY <1>5, Zenon DEF FinalOrder

-----------------------------------------------------------------------------
(* Buddy: the lists.                                                       *)

LEMMA InRange ==
    ASSUME NEW S, NEW q \in Seq(S)
    PROVE  /\ \A w : w \in Range(q) <=> \E i \in 1 .. Len(q) : q[i] = w
           /\ IsInjective(q) <=> \A i, j \in 1 .. Len(q) : q[i] = q[j] => i = j
           /\ Range(q) \subseteq S
<1>1. DOMAIN q = 1 .. Len(q)
  OBVIOUS
<1>2. \A i \in 1 .. Len(q) : q[i] \in S
  OBVIOUS
<1> QED
  BY <1>1, <1>2, Zenon DEF Range, IsInjective

LEMMA DequeueFacts ==
    ASSUME NEW S, NEW q \in Seq(S), IsInjective(q), NEW b \in Range(q)
    PROVE  /\ Dequeue(q, b) \in Seq(S) /\ IsInjective(Dequeue(q, b))
           /\ \A w : w \in Range(Dequeue(q, b)) <=> w \in Range(q) /\ w # b
<1>1. PICK d : d = Dequeue(q, b)
  BY Zenon
<1>2. PICK k : k = CHOOSE i \in DOMAIN q : q[i] = b
  BY Zenon
<1>3. DOMAIN q = 1 .. Len(q) /\ Len(q) \in Nat /\ \A j \in 1 .. Len(q) : q[j] \in S
  OBVIOUS
<1>4. k \in 1 .. Len(q) /\ q[k] = b
  <2>1. \E j \in DOMAIN q : q[j] = b
    BY <1>3, InRange, Zenon
  <2> QED
    BY <2>1, <1>2, <1>3, Zenon
<1>5. \A i, j \in 1 .. Len(q) : q[i] = q[j] => i = j
  BY InRange, Zenon
<1>6. d = [j \in 1 .. Len(q) - 1 |-> q[IF j < k THEN j ELSE j + 1]]
  BY <1>1, <1>2, Zenon DEF Dequeue
<1>7. PICK n : n = Len(q) /\ n \in Nat \ {0}
  BY <1>3, <1>4
<1>8. n - 1 \in Nat /\ d = [j \in 1 .. n - 1 |-> q[IF j < k THEN j ELSE j + 1]]
  BY <1>6, <1>7
<1>9. \A j \in 1 .. n - 1 : q[IF j < k THEN j ELSE j + 1] \in S
  BY <1>3, <1>4, <1>7
<1>10. d \in Seq(S) /\ Len(d) = n - 1
  BY <1>8, <1>9
<1>11. \A j \in 1 .. n - 1 : d[j] = q[IF j < k THEN j ELSE j + 1]
  BY <1>8
<1>12. \A i, j \in 1 .. n - 1 : d[i] = d[j] => i = j
  BY <1>4, <1>5, <1>7, <1>11
<1>13. IsInjective(d)
  BY <1>10, <1>12, InRange, Zenon
<1>14. ASSUME NEW w, \E j \in 1 .. n - 1 : d[j] = w PROVE w # b /\ \E j \in 1 .. n : q[j] = w
  <2>1. PICK j \in 1 .. n - 1 : d[j] = w
    BY <1>14
  <2>2. PICK i : i = IF j < k THEN j ELSE j + 1
    BY Zenon
  <2>3. i \in 1 .. n /\ i # k
    BY <2>1, <2>2, <1>4, <1>7
  <2>4. q[i] = w
    BY <2>1, <2>2, <1>11, Zenon
  <2> QED
    BY <2>3, <2>4, <1>4, <1>5, <1>7
<1>15. ASSUME NEW w, w # b, \E j \in 1 .. n : q[j] = w PROVE \E j \in 1 .. n - 1 : d[j] = w
  <2>1. PICK i \in 1 .. n : q[i] = w
    BY <1>15
  <2>2. i # k
    BY <2>1, <1>4, <1>15
  <2>3. PICK j : j = IF i < k THEN i ELSE i - 1
    BY Zenon
  <2>4. j \in 1 .. n - 1 /\ i = IF j < k THEN j ELSE j + 1
    BY <2>2, <2>3, <1>4, <1>7
  <2>5. d[j] = w
    BY <2>1, <2>4, <1>11, Zenon
  <2> QED
    BY <2>4, <2>5
<1>16. \A w : w \in Range(d) <=> w \in Range(q) /\ w # b
  <2>1. \A w : w \in Range(d) <=> \E j \in 1 .. n - 1 : d[j] = w
    BY <1>10, InRange, Zenon
  <2>2. \A w : w \in Range(q) <=> \E j \in 1 .. n : q[j] = w
    BY <1>7, InRange, Zenon
  <2> QED
    BY <2>1, <2>2, <1>14, <1>15, Zenon
<1> QED
  BY <1>1, <1>10, <1>13, <1>16, Zenon

LEMMA ConsFacts ==
    ASSUME NEW S, NEW q \in Seq(S), IsInjective(q), NEW b \in S, b \notin Range(q)
    PROVE  /\ <<b>> \o q \in Seq(S) /\ IsInjective(<<b>> \o q)
           /\ \A w : w \in Range(<<b>> \o q) <=> w \in Range(q) \/ w = b
<1>1. PICK d : d = <<b>> \o q
  BY Zenon
<1>2. d \in Seq(S) /\ Len(d) = Len(q) + 1 /\ Len(q) \in Nat
  BY <1>1
<1>3. d[1] = b /\ \A j \in 1 .. Len(q) : d[j + 1] = q[j]
  BY <1>1
<1>4. \A w : w \in Range(q) <=> \E i \in 1 .. Len(q) : q[i] = w
  BY InRange, Zenon
<1>5. \A i, j \in 1 .. Len(q) : q[i] = q[j] => i = j
  BY InRange, Zenon
<1>6. PICK n : n = Len(q) /\ n \in Nat
  BY <1>2
<1>7. \A j \in 1 .. n + 1 : (j = 1 /\ d[j] = b) \/ (j - 1 \in 1 .. n /\ d[j] = q[j - 1])
  <2>1. SUFFICES ASSUME NEW j \in 1 .. n + 1, j # 1 PROVE j - 1 \in 1 .. n /\ d[j] = q[j - 1]
    BY <1>3
  <2>2. j - 1 \in 1 .. n /\ j = (j - 1) + 1
    BY <2>1, <1>6
  <2> QED
    BY <2>2, <1>3, <1>6, Zenon
<1>8. \A j \in 1 .. n : q[j] # b
  BY <1>4, <1>6, Zenon
<1>9. \A i, j \in 1 .. n + 1 : d[i] = d[j] => i = j
  BY <1>5, <1>6, <1>7, <1>8, SMTT(40)
<1>10. Len(d) = n + 1
  BY <1>2, <1>6
<1>11. IsInjective(d)
  BY <1>2, <1>9, <1>10, InRange, Zenon
<1>12. \A w : w \in Range(d) <=> \E i \in 1 .. n + 1 : d[i] = w
  BY <1>2, <1>10, InRange, Zenon
<1>13. ASSUME NEW w \in Range(d) PROVE w \in Range(q) \/ w = b
  BY <1>4, <1>6, <1>7, <1>12, Zenon
<1>14. ASSUME NEW w \in Range(q) PROVE w \in Range(d)
  <2>1. PICK i \in 1 .. n : q[i] = w
    BY <1>4, <1>6, Zenon
  <2>2. i + 1 \in 1 .. n + 1 /\ d[i + 1] = w
    BY <2>1, <1>3, <1>6
  <2> QED
    BY <2>2, <1>12, Zenon
<1>15. b \in Range(d)
  <2>1. 1 \in 1 .. n + 1
    BY <1>6
  <2> QED
    BY <2>1, <1>3, <1>12, Zenon
<1> QED
  BY <1>1, <1>2, <1>11, <1>13, <1>14, <1>15, Zenon

LEMMA TailFacts ==
    ASSUME NEW S, NEW q \in Seq(S), IsInjective(q), q # <<>>
    PROVE  /\ Tail(q) \in Seq(S) /\ IsInjective(Tail(q)) /\ Head(q) \in Range(q) /\ Head(q) \in S
           /\ \A w : w \in Range(Tail(q)) <=> w \in Range(q) /\ w # Head(q)
<1>1. PICK d, b : d = Tail(q) /\ b = Head(q)
  BY Zenon
<1>2. PICK n : n = Len(q) /\ n \in Nat \ {0}
  OBVIOUS
<1>3. d \in Seq(S) /\ Len(d) = n - 1 /\ \A j \in 1 .. n - 1 : d[j] = q[j + 1]
  BY <1>1, <1>2
<1>4. b = q[1] /\ b \in S
  BY <1>1, <1>2
<1>5. \A w : w \in Range(q) <=> \E i \in 1 .. n : q[i] = w
  BY <1>2, InRange, Zenon
<1>6. \A i, j \in 1 .. n : q[i] = q[j] => i = j
  BY <1>2, InRange, Zenon
<1>7. \A i, j \in 1 .. n - 1 : d[i] = d[j] => i = j
  BY <1>2, <1>3, <1>6
<1>8. IsInjective(d)
  BY <1>3, <1>7, InRange, Zenon
<1>9. \A w : w \in Range(d) <=> \E i \in 1 .. n - 1 : d[i] = w
  <2>1. d \in Seq(S)
    BY <1>3
  <2>2. \A w : w \in Range(d) <=> \E i \in 1 .. Len(d) : d[i] = w
    BY <2>1, InRange, Zenon
  <2>3. Len(d) = n - 1
    BY <1>3
  <2> QED
    BY <2>2, <2>3, Zenon
<1>10. ASSUME NEW w \in Range(d) PROVE w \in Range(q) /\ w # b
  <2>1. PICK i \in 1 .. n - 1 : d[i] = w
    BY <1>9, Zenon
  <2>2. i + 1 \in 1 .. n /\ q[i + 1] = w /\ i + 1 # 1 /\ 1 \in 1 .. n
    BY <2>1, <1>2, <1>3
  <2>3. w # b
    BY <2>2, <1>4, <1>6
  <2> QED
    BY <2>2, <2>3, <1>5, Zenon
<1>11. ASSUME NEW w \in Range(q), w # b PROVE w \in Range(d)
  <2>1. PICK i \in 1 .. n : q[i] = w
    BY <1>5, Zenon
  <2>2. i - 1 \in 1 .. n - 1 /\ (i - 1) + 1 = i
    BY <2>1, <1>2, <1>4, <1>11
  <2>3. d[i - 1] = w
    BY <2>1, <2>2, <1>3, Zenon
  <2> QED
    BY <2>2, <2>3, <1>9, Zenon
<1>12. b \in Range(q)
  <2>1. 1 \in 1 .. n
    BY <1>2
  <2> QED
    BY <2>1, <1>4, <1>5, Zenon
<1> QED
  BY <1>1, <1>3, <1>4, <1>8, <1>10, <1>11, <1>12, Zenon

LEMMA OneFacts ==
    ASSUME NEW S, NEW b \in S
    PROVE  /\ <<b>> \in Seq(S) /\ IsInjective(<<b>>)
           /\ \A w : w \in Range(<<b>>) <=> w = b
<1>1. PICK d : d = <<b>>
  BY Zenon
<1>2. d \in Seq(S) /\ Len(d) = 1 /\ d[1] = b
  BY <1>1
<1>3. \A i \in 1 .. 1 : i = 1
  OBVIOUS
<1>4. 1 \in 1 .. 1
  OBVIOUS
<1>5. \A i, j \in 1 .. Len(d) : d[i] = d[j] => i = j
  BY <1>2, <1>3
<1>6. IsInjective(d)
  BY <1>2, <1>5, InRange, Zenon
<1>7. \A w : w \in Range(d) <=> \E i \in 1 .. 1 : d[i] = w
  <2>1. d \in Seq(S)
    BY <1>2
  <2>2. \A w : w \in Range(d) <=> \E i \in 1 .. Len(d) : d[i] = w
    BY <2>1, InRange, Zenon
  <2>3. Len(d) = 1
    BY <1>2
  <2> QED
    BY <2>2, <2>3, Zenon
<1> QED
  BY <1>1, <1>2, <1>3, <1>4, <1>6, <1>7, Zenon

-----------------------------------------------------------------------------
(* Buddy: coalesce() as a step.                                            *)

LEMMA HeadsOf ==
    ASSUME freelist \in [Order -> Seq(Index)]
    PROVE  \A w : w \in FreeHeads <=> \E o \in Order : w \in Range(freelist[o])
<1>1. \A o \in Order : freelist[o] \in Seq(Index)
  BY Zenon
<1>2. \A o \in Order : Range(freelist[o]) \subseteq Index
  BY <1>1, InRange, Zenon
<1> QED
  BY <1>2, Zenon DEF FreeHeads

LEMMA HeadsOfNext ==
    ASSUME freelist' \in [Order -> Seq(Index)]
    PROVE  \A w : w \in FreeHeads' <=> \E o \in Order : w \in Range(freelist'[o])
<1>1. \A o \in Order : freelist'[o] \in Seq(Index)
  BY Zenon
<1>2. \A o \in Order : Range(freelist'[o]) \subseteq Index
  BY <1>1, InRange, Zenon
<1> QED
  BY <1>2, Zenon DEF FreeHeads

\* x is to be merged into the pool: it is none of the free blocks.
Opened(x, G, H, e) ==
    /\ x \in Index /\ x \notin FreeHeads
    /\ \A w : w \in G <=> w \in FreeHeads \/ w = x
    /\ Good(G, H, e, ord, tag') /\ NoTwins(G, x, ord)

LEMMA CoalesceLoop ==
    ASSUME BuddyTypes, FreeLists, ord \in [Index -> Order], tag \in [Index -> {"USED", "FREE"}],
           NEW x, NEW G, NEW H, NEW e \in Int, e <= MaxIdx, Opened(x, G, H, e), Coalesce(x)
    PROVE  \E k \in Nat :
             /\ k = FinalOrder(x) /\ k \in Order /\ ord[x] \in Nat /\ ord[x] <= k /\ ord' = Raised(ord, x, k)
             /\ \A m \in ord[x] .. k : Loop(FreeHeads, H, e, ord, tag', x, m)
             /\ \A o \in ord[x] .. k - 1 : o \in Order /\ ord[BuddyOf(x, o)] = o
             /\ NoTwins(Left(FreeHeads, x, ord[x], k), -1, ord')
<1>1. PICK k : k = FinalOrder(x)
  BY Zenon
<1>2. x \in Index /\ x \in Int
  <2>1. x \in Index
    BY Zenon DEF Opened
  <2> QED
    BY <2>1, BuddyConstants
<1>3. ord[x] \in Nat /\ Orders \in Nat
  BY <1>2, BuddyConstants
<1>4. k \in ord[x] .. Orders - 1 /\ ~Mergeable(x, k) /\ \A o \in ord[x] .. k - 1 : Mergeable(x, o)
  BY <1>1, <1>2, FinalOrderIs, Zenon
<1>5. k \in Nat /\ k < Orders /\ ord[x] <= k /\ k \in Order /\ k \in ord[x] .. k
  BY <1>3, <1>4, BuddyConstants
<1>6. tag' = [tag EXCEPT ![x] = "FREE"]
  BY DEF Coalesce
<1>7. \A w \in Index : w # x => tag'[w] = tag[w]
  BY <1>6
<1>8. ord' = Raised(ord, x, k)
  BY <1>1 DEF Coalesce, Raised
<1>9. Loop(FreeHeads, H, e, ord, tag', x, ord[x])
  BY <1>2, LoopStart, Zenon DEF Opened
<1>10. \A o \in ord[x] .. k - 1 : o \in Nat /\ o \in Order
  BY <1>3, <1>5, BuddyConstants
<1>11. \A o \in Nat : BuddyOf(x, o) # x
  <2>1. \A o \in Nat : o <= o
    OBVIOUS
  <2> QED
    BY <2>1, <1>2, BuddyApart, Zenon
<1>12. \A o \in ord[x] .. k - 1 : /\ BuddyOf(x, o) \in Index
                                  /\ tag'[BuddyOf(x, o)] = "FREE" /\ ord[BuddyOf(x, o)] = o
  BY <1>4, <1>7, <1>10, <1>11, Zenon DEF Mergeable, IsValid
<1>13. \A m \in ord[x] .. k : Loop(FreeHeads, H, e, ord, tag', x, m)
  BY <1>2, <1>5, <1>9, <1>12, LoopAll
<1>14. ~(k < Orders - 1 /\ BuddyOf(x, k) \in Index /\ tag'[BuddyOf(x, k)] = "FREE" /\ ord[BuddyOf(x, k)] = k)
  BY <1>4, <1>5, <1>7, <1>11, Zenon DEF Mergeable, IsValid
<1>15. Loop(FreeHeads, H, e, ord, tag', x, k)
  BY <1>5, <1>13, Zenon
<1>16. NoTwins(Left(FreeHeads, x, ord[x], k), -1, Raised(ord, x, k))
  BY <1>2, <1>5, <1>14, <1>15, LoopEnd
<1> QED
  BY <1>1, <1>3, <1>5, <1>8, <1>10, <1>12, <1>13, <1>16, Zenon

\* Afterwards the pool is whole again, and no header of a held block changed.
LEMMA CoalesceSound ==
    ASSUME BuddyTypes, FreeLists, ord \in [Index -> Order], tag \in [Index -> {"USED", "FREE"}],
           NEW x, NEW G, NEW H, NEW e \in Int, e <= MaxIdx, Opened(x, G, H, e), Coalesce(x)
    PROVE  /\ freelist' \in [Order -> Seq(Index)] /\ FreeLists'
           /\ Good(FreeHeads', H, e, ord', tag') /\ NoTwins(FreeHeads', -1, ord')
           /\ \A w \in H : ord'[w] = ord[w]
<1>1. PICK k \in Nat :
             /\ k = FinalOrder(x) /\ k \in Order /\ ord[x] \in Nat /\ ord[x] <= k /\ ord' = Raised(ord, x, k)
             /\ \A m \in ord[x] .. k : Loop(FreeHeads, H, e, ord, tag', x, m)
             /\ \A o \in ord[x] .. k - 1 : o \in Order /\ ord[BuddyOf(x, o)] = o
             /\ NoTwins(Left(FreeHeads, x, ord[x], k), -1, ord')
  BY CoalesceLoop
<1>2. PICK i : i = ord[x] /\ i \in Nat /\ i <= k
  BY <1>1, Zenon
<1>3. PICK z : z = Base(x, k)
  BY Zenon
<1>4. PICK F : F = FreeHeads
  BY Zenon
<1>5. k \in i .. k /\ \A m \in Nat : i < m /\ m <= k => m \in i .. k
  BY <1>1, <1>2
<1>6. /\ z \in Left(F, x, i, k) /\ ord'[z] = k /\ Good(Left(F, x, i, k), H, e, ord', tag')
      /\ \A w \in F : (\A o \in i .. k - 1 : w # BuddyOf(x, o)) => w # z
      /\ \A o \in i .. k - 1 : BuddyOf(x, o) \in F
      /\ NoTwins(Left(F, x, i, k), -1, ord')
  <2>1. Loop(F, H, e, ord, tag', x, k) /\ i = ord[x] /\ ord' = Raised(ord, x, k) /\ z = Base(x, k)
    BY <1>1, <1>2, <1>3, <1>4, <1>5, Zenon
  <2>2. NoTwins(Left(F, x, i, k), -1, ord')
    BY <1>1, <1>2, <1>4, Zenon
  <2> QED
    BY <2>1, <2>2, Zenon DEF Loop
<1>7. freelist \in [Order -> Seq(Index)] /\ \A o \in Order : freelist[o] \in Seq(Index) /\ IsInjective(freelist[o])
  BY Zenon DEF BuddyTypes, FreeLists
<1>8. \A w : w \in F <=> \E o \in Order : w \in Range(freelist[o])
  BY <1>4, <1>7, HeadsOf, Zenon
<1>9. \A o \in Order : \A w \in Range(freelist[o]) : ord[w] = o
  BY Zenon DEF FreeLists
<1>10. \A o \in i .. k - 1 : o \in Order /\ BuddyOf(x, o) \in Range(freelist[o]) /\ ord[BuddyOf(x, o)] = o
  <2>1. SUFFICES ASSUME NEW o \in i .. k - 1
                 PROVE  o \in Order /\ BuddyOf(x, o) \in Range(freelist[o]) /\ ord[BuddyOf(x, o)] = o
    BY Zenon
  <2>2. o \in Order /\ ord[BuddyOf(x, o)] = o
    BY <1>1, <1>2, Zenon
  <2>3. PICK j \in Order : BuddyOf(x, o) \in Range(freelist[j])
    BY <1>6, <1>8, Zenon
  <2>4. j = o
    BY <2>2, <2>3, <1>9, Zenon
  <2> QED
    BY <2>2, <2>3, <2>4, Zenon
<1>11. \A o \in Order : freelist'[o] = IF o \in i .. k - 1 THEN Dequeue(freelist[o], BuddyOf(x, o))
                                       ELSE IF o = k THEN <<z>> \o freelist[o] ELSE freelist[o]
  BY <1>1, <1>2, <1>3, Zenon DEF Coalesce
<1>12. z \in Index /\ z \notin Range(freelist[k])
  <2>1. z \in Index
    BY <1>6, Zenon DEF Left
  <2>2. ASSUME z \in Range(freelist[k]) PROVE FALSE
    <3>1. z \in F /\ ord[z] = k
      BY <2>2, <1>1, <1>8, <1>9, Zenon
    <3>2. PICK o \in i .. k - 1 : z = BuddyOf(x, o)
      BY <3>1, <1>6, Zenon
    <3>3. o = k
      BY <3>1, <3>2, <1>10, Zenon
    <3> QED
      BY <3>2, <3>3, <1>1, <1>2
  <2> QED
    BY <2>1, <2>2
<1>13. k \notin i .. k - 1
  BY <1>1, <1>2
<1>14. ASSUME NEW o \in Order
       PROVE  /\ freelist'[o] \in Seq(Index) /\ IsInjective(freelist'[o])
              /\ \A w : w \in Range(freelist'[o]) <=>
                     \/ o = k /\ w = z
                     \/ w \in Range(freelist[o]) /\ ~(o \in i .. k - 1 /\ w = BuddyOf(x, o))
  <2>1. CASE o \in i .. k - 1
    <3>1. freelist'[o] = Dequeue(freelist[o], BuddyOf(x, o)) /\ o # k
      BY <2>1, <1>11, <1>13, Zenon
    <3>2. /\ Dequeue(freelist[o], BuddyOf(x, o)) \in Seq(Index) /\ IsInjective(Dequeue(freelist[o], BuddyOf(x, o)))
          /\ \A w : w \in Range(Dequeue(freelist[o], BuddyOf(x, o))) <=> w \in Range(freelist[o]) /\ w # BuddyOf(x, o)
      BY <2>1, <1>7, <1>10, DequeueFacts
    <3> QED
      BY <2>1, <3>1, <3>2, Zenon
  <2>2. CASE o = k
    <3>1. freelist'[o] = <<z>> \o freelist[o] /\ o \notin i .. k - 1
      BY <2>2, <1>11, <1>13, Zenon
    <3>2. /\ <<z>> \o freelist[o] \in Seq(Index) /\ IsInjective(<<z>> \o freelist[o])
          /\ \A w : w \in Range(<<z>> \o freelist[o]) <=> w \in Range(freelist[o]) \/ w = z
      BY <2>2, <1>7, <1>12, ConsFacts
    <3> QED
      BY <2>2, <3>1, <3>2, Zenon
  <2>3. CASE o \notin i .. k - 1 /\ o # k
    BY <2>3, <1>7, <1>11, Zenon
  <2> QED
    BY <2>1, <2>2, <2>3, Zenon
<1>15. freelist' \in [Order -> Seq(Index)]
  <2>1. \A o \in Order : freelist'[o] \in Seq(Index)
    BY <1>14, Zenon
  <2>2. freelist' = [o \in Order |-> freelist'[o]]
    BY DEF Coalesce
  <2> QED
    BY <2>1, <2>2, Zenon
<1>16. \A w \in F : (\A o \in i .. k - 1 : w # BuddyOf(x, o)) => ord'[w] = ord[w]
  <2>1. SUFFICES ASSUME NEW w \in F, \A o \in i .. k - 1 : w # BuddyOf(x, o) PROVE ord'[w] = ord[w]
    BY Zenon
  <2>2. ASSUME NEW m \in Nat, i < m, m <= k PROVE Base(x, m) # w
    <3>1. Loop(F, H, e, ord, tag', x, m)
      BY <2>2, <1>1, <1>2, <1>4, <1>5, Zenon
    <3>2. (\A o \in i .. m - 1 : w # BuddyOf(x, o)) => w # Base(x, m)
      BY <3>1, <1>2, Zenon DEF Loop
    <3>3. \A o \in i .. m - 1 : o \in i .. k - 1
      BY <2>2, <1>1, <1>2
    <3> QED
      BY <2>1, <3>2, <3>3, Zenon
  <2>3. w \in Index /\ x \in Index
    BY <1>4, Zenon DEF FreeHeads, Opened
  <2> QED
    BY <2>2, <2>3, <1>1, <1>2, RaisedSame
<1>17. FreeLists'
  <2>1. ASSUME NEW o \in Order, NEW w \in Range(freelist'[o]) PROVE ord'[w] = o
    <3>1. CASE o = k /\ w = z
      BY <3>1, <1>6, Zenon
    <3>2. CASE w \in Range(freelist[o]) /\ ~(o \in i .. k - 1 /\ w = BuddyOf(x, o))
      <4>1. w \in F /\ ord[w] = o
        BY <3>2, <1>8, <1>9, Zenon
      <4>2. \A j \in i .. k - 1 : w # BuddyOf(x, j)
        BY <4>1, <3>2, <1>10, Zenon
      <4> QED
        BY <4>1, <4>2, <1>16, Zenon
    <3> QED
      BY <3>1, <3>2, <1>14, Zenon
  <2>2. \A o \in Order : IsInjective(freelist'[o])
    BY <1>14, Zenon
  <2> QED
    BY <2>1, <2>2, Zenon DEF FreeLists
<1>18. FreeHeads' = Left(F, x, i, k)
  <2>1. \A w : w \in FreeHeads' <=> \E o \in Order : w \in Range(freelist'[o])
    BY <1>15, HeadsOfNext, Zenon
  <2>2. ASSUME NEW w \in FreeHeads' PROVE w \in Left(F, x, i, k)
    <3>1. PICK o \in Order : w \in Range(freelist'[o])
      BY <2>1, Zenon
    <3>2. CASE o = k /\ w = z
      BY <3>2, <1>6, Zenon
    <3>3. CASE w \in Range(freelist[o]) /\ ~(o \in i .. k - 1 /\ w = BuddyOf(x, o))
      <4>1. w \in F /\ ord[w] = o
        BY <3>3, <1>8, <1>9, Zenon
      <4>2. \A j \in i .. k - 1 : w # BuddyOf(x, j)
        BY <4>1, <3>3, <1>10, Zenon
      <4>3. w \in Index
        BY <4>1, <1>4, Zenon DEF FreeHeads
      <4> QED
        BY <4>1, <4>2, <4>3, Zenon DEF Left
    <3> QED
      BY <3>1, <3>2, <3>3, <1>14, Zenon
  <2>3. ASSUME NEW w \in Left(F, x, i, k) PROVE w \in FreeHeads'
    <3>1. w = z \/ (w \in F /\ \A o \in i .. k - 1 : w # BuddyOf(x, o))
      BY <1>3, Zenon DEF Left
    <3>2. CASE w = z
      BY <3>2, <2>1, <1>1, <1>14, Zenon
    <3>3. CASE w \in F /\ \A o \in i .. k - 1 : w # BuddyOf(x, o)
      BY <3>3, <2>1, <1>8, <1>14, Zenon
    <3> QED
      BY <3>1, <3>2, <3>3
  <2> QED
    BY <2>2, <2>3, Zenon
<1>19. Good(FreeHeads', H, e, ord', tag') /\ NoTwins(FreeHeads', -1, ord')
  BY <1>6, <1>18, Zenon
<1>20. ASSUME NEW w \in H PROVE ord'[w] = ord[w]
  <2>1. w \in Index /\ x \in Index /\ tag'[w] = "USED"
    BY Zenon DEF Opened, Good, Placed, Marked
  <2>2. ASSUME NEW m \in Nat, i < m, m <= k PROVE Base(x, m) # w
    <3>1. Loop(F, H, e, ord, tag', x, m)
      BY <2>2, <1>1, <1>2, <1>4, <1>5, Zenon
    <3>2. tag'[Base(x, m)] = "FREE"
      BY <3>1, Zenon DEF Loop, Good, Marked
    <3> QED
      BY <3>2, <2>1
  <2> QED
    BY <2>1, <2>2, <1>1, <1>2, RaisedSame
<1> QED
  BY <1>15, <1>17, <1>19, <1>20, Zenon

-----------------------------------------------------------------------------
(* Buddy: the loop in alloc(), that splits b from order k downward.        *)

\* When it has reached order n: the free blocks, b still one of them.
Pieces(F, b, n, k) == {w \in Index : w \in F \/ \E i \in n .. k - 1 : w = b + Sz(i)}

Splits(F, H, e, r, t, b, k, n) ==
    /\ Good(Pieces(F, b, n, k), H, e, [r EXCEPT ![b] = n], t)
    /\ NoTwins(Pieces(F, b, n, k), b, [r EXCEPT ![b] = n])
    /\ \A i \in n .. k - 1 : b + Sz(i) \in Index /\ b + Sz(i) \notin F /\ r[b + Sz(i)] = i

LEMMA SplitsStart ==
    ASSUME NEW F, NEW H, NEW e \in Int, NEW r, NEW t, Good(F, H, e, r, t), NoTwins(F, -1, r), NEW b \in F
    PROVE  Splits(F, H, e, r, t, b, r[b], r[b])
<1>1. r \in [Index -> Order] /\ F \subseteq Index
  BY Zenon DEF Good, Headers, Placed
<1>2. r[b] \in Nat
  BY <1>1, BuddyConstants, Zenon
<1>3. \A i \in r[b] .. r[b] - 1 : FALSE
  BY <1>2
<1>4. Pieces(F, b, r[b], r[b]) = F
  BY <1>1, <1>3, Zenon DEF Pieces
<1>5. [r EXCEPT ![b] = r[b]] = r
  BY <1>1
<1>6. \A a \in F : a # -1
  BY <1>1, BuddyConstants
<1>7. NoTwins(F, b, r)
  BY <1>6, Zenon DEF NoTwins
<1> QED
  BY <1>3, <1>4, <1>5, <1>7, Zenon DEF Splits

LEMMA SplitsStep ==
    ASSUME NEW F, NEW H, NEW e \in Int, e <= MaxIdx, NEW r \in [Index -> Order], NEW t, NEW b \in F, b \in Index,
           NEW k \in Nat, NEW n \in Nat, n < k, k \in Order, Splits(F, H, e, r, t, b, k, n + 1)
    PROVE  Splits(F, H, e, r, t, b, k, n)
<1>1. PICK G : G = Pieces(F, b, n + 1, k)
  BY Zenon
<1>2. PICK q : q = [r EXCEPT ![b] = n + 1]
  BY Zenon
<1>3. PICK h : h = b + Sz(n)
  BY Zenon
<1>4. /\ Good(G, H, e, q, t) /\ NoTwins(G, b, q)
      /\ \A i \in n + 1 .. k - 1 : b + Sz(i) \in Index /\ b + Sz(i) \notin F /\ r[b + Sz(i)] = i
  BY <1>1, <1>2, Zenon DEF Splits
<1>5. n \in Order /\ n + 1 \in Order
  BY BuddyConstants
<1>6. b \in G
  BY <1>1, Zenon DEF Pieces
<1>7. q \in [Index -> Order] /\ q[b] = n + 1 /\ \A w \in Index : w # b => q[w] = r[w]
  BY <1>2, <1>5
<1>8. PICK q2 : q2 = [r EXCEPT ![b] = n]
  BY Zenon
<1>9. q2 \in [Index -> Order] /\ q2[b] = n /\ \A w \in Index : w # b => q2[w] = q[w]
  BY <1>5, <1>7, <1>8
<1>10. PICK G2 : \A w : w \in G2 <=> w \in G \/ w = h
  <2>1. \A w : w \in G \cup {h} <=> w \in G \/ w = h
    BY Zenon
  <2> QED
    BY <2>1, Zenon
<1>11. Good(G2, H, e, q2, t) /\ NoTwins(G2, b, q2) /\ q[h] = n /\ h \notin G /\ h \in Index
  <2>1. InHalves(G, q, b, n, h, G2, q2)
    BY <1>3, <1>4, <1>6, <1>7, <1>9, <1>10, Zenon DEF InHalves
  <2> QED
    BY <2>1, <1>4, SplitStep, Zenon
<1>12. h # b
  BY <1>6, <1>11, Zenon
<1>13. r[h] = n /\ h \notin F
  <2>1. r[h] = n
    BY <1>7, <1>11, <1>12, Zenon
  <2>2. h \notin F
    BY <1>1, <1>11, Zenon DEF Pieces
  <2> QED
    BY <2>1, <2>2
<1>14. \A i : i \in n .. k - 1 <=> i = n \/ i \in n + 1 .. k - 1
  OBVIOUS
<1>15. Pieces(F, b, n, k) = G2
  <2>1. \A w : w \in Pieces(F, b, n, k) <=> w \in G2
    BY <1>1, <1>3, <1>10, <1>11, <1>14, Zenon DEF Pieces
  <2> QED
    BY <2>1, Zenon
<1>16. \A i \in n .. k - 1 : b + Sz(i) \in Index /\ b + Sz(i) \notin F /\ r[b + Sz(i)] = i
  BY <1>3, <1>4, <1>11, <1>13, <1>14, Zenon
<1> QED
  BY <1>8, <1>11, <1>15, <1>16, Zenon DEF Splits

LEMMA SplitsAll ==
    ASSUME NEW F, NEW H, NEW e \in Int, e <= MaxIdx, NEW r \in [Index -> Order], NEW t, NEW b \in F, b \in Index,
           NEW k \in Nat, k \in Order, Splits(F, H, e, r, t, b, k, k), NEW o \in Nat, o <= k
    PROVE  Splits(F, H, e, r, t, b, k, o)
<1> DEFINE X == {d \in Nat : d <= k /\ ~Splits(F, H, e, r, t, b, k, k - d)}
<1>1. SUFFICES ASSUME X # {} PROVE FALSE
  <2>1. k - o \in Nat /\ k - o <= k /\ k - (k - o) = o
    OBVIOUS
  <2> QED
    BY <2>1, <1>1, Zenon
<1>2. PICK d \in X : \A j \in X : d <= j
  <2>1. X \subseteq Nat
    BY Zenon
  <2> HIDE DEF X
  <2> QED
    BY <1>1, <2>1, NatHasLeast, Zenon
<1>3. d \in Nat /\ d <= k /\ ~Splits(F, H, e, r, t, b, k, k - d)
  BY <1>2, Zenon
<1>4. d # 0
  <2>1. k - 0 = k
    OBVIOUS
  <2> QED
    BY <2>1, <1>3, Zenon
<1>5. d - 1 \in Nat /\ d - 1 <= k /\ ~(d <= d - 1)
  BY <1>3, <1>4
<1>6. Splits(F, H, e, r, t, b, k, k - (d - 1))
  BY <1>2, <1>5, Zenon
<1>7. PICK n : n = k - d /\ n \in Nat /\ n < k /\ n + 1 = k - (d - 1)
  BY <1>3, <1>4
<1> HIDE DEF X
<1>8. Splits(F, H, e, r, t, b, k, n + 1)
  BY <1>6, <1>7, Zenon
<1>9. Splits(F, H, e, r, t, b, k, n)
  BY <1>7, <1>8, SplitsStep, Zenon
<1> QED
  BY <1>3, <1>7, <1>9, Zenon

-----------------------------------------------------------------------------
(* Buddy: every action keeps the invariant.                                *)

LEMMA BuddyFacts ==
    ASSUME BuddyInv
    PROVE  /\ BuddyTypes /\ FreeLists /\ WaitLists
           /\ ord \in [Index -> Order] /\ tag \in [Index -> {"USED", "FREE"}]
           /\ boot \in Int /\ FirstIdx <= boot /\ boot <= MaxIdx
           /\ Good(FreeHeads, HeldHeads, boot, ord, tag) /\ NoTwins(FreeHeads, -1, ord)
<1>1. BuddyTypes /\ FreeLists /\ WaitLists /\ Good(FreeHeads, HeldHeads, boot, ord, tag) /\ NoTwins(FreeHeads, -1, ord)
  BY Zenon DEF BuddyInv, Tiling
<1>2. ord \in [Index -> Order] /\ tag \in [Index -> {"USED", "FREE"}]
  BY <1>1, Zenon DEF Good, Headers
<1>3. boot \in FirstIdx .. MaxIdx
  BY <1>1, Zenon DEF BuddyTypes
<1>4. boot \in Int /\ FirstIdx <= boot /\ boot <= MaxIdx
  BY <1>3, BuddyConstants
<1> QED
  BY <1>1, <1>2, <1>4, Zenon

\* A block in use, and one waited for, is held, and marked as such.
LEMMA HeldFacts ==
    ASSUME BuddyInv
    PROVE  /\ \A u \in used : /\ u = <<u[1], u[2]>> /\ u[1] \in Index /\ u[2] \in Order /\ ord[u[1]] = u[2]
                              /\ u[1] \in HeldHeads
           /\ \A c \in BuddyCpu : \A w \in Range(waitlist[c]) : w \in HeldHeads
           /\ \A w \in HeldHeads : w \in Index /\ tag[w] = "USED"
           /\ \A w \in FreeHeads : w \in Index /\ tag[w] = "FREE"
<1>1. BuddyTypes /\ WaitLists /\ Good(FreeHeads, HeldHeads, boot, ord, tag)
  BY BuddyFacts
<1>2. \A u \in used : u = <<u[1], u[2]>> /\ u[1] \in Index /\ u[2] \in Order
  <2>1. used \subseteq Index \X Order
    BY <1>1, Zenon DEF BuddyTypes
  <2> QED
    BY <2>1
<1>3. \A u \in used : ord[u[1]] = u[2]
  BY <1>1, Zenon DEF WaitLists
<1>4. \A u \in used : u[1] \in HeldHeads
  BY <1>2, <1>3, Zenon DEF HeldHeads
<1>5. \A c \in BuddyCpu : Range(waitlist[c]) \subseteq Index
  <2>1. \A c \in BuddyCpu : waitlist[c] \in Seq(Index)
    BY <1>1, Zenon DEF BuddyTypes
  <2> QED
    BY <2>1, InRange, Zenon
<1>6. \A c \in BuddyCpu : \A w \in Range(waitlist[c]) : w \in HeldHeads
  BY <1>5, Zenon DEF HeldHeads
<1>7. \A w \in HeldHeads : w \in Index /\ tag[w] = "USED"
  BY <1>1, Zenon DEF HeldHeads, Good, Marked
<1>8. \A w \in FreeHeads : w \in Index /\ tag[w] = "FREE"
  BY <1>1, Zenon DEF FreeHeads, Good, Marked
<1> QED
  BY <1>2, <1>3, <1>4, <1>6, <1>7, <1>8, Zenon

LEMMA InitFreeKeeps == BuddyInv /\ InitFree => BuddyInv'
<1> SUFFICES ASSUME BuddyInv, InitFree PROVE BuddyInv'
  OBVIOUS
<1>1. /\ boot < MaxIdx /\ Coalesce(boot) /\ boot' = boot + 1 /\ UNCHANGED <<waitlist, busy, used>>
      /\ tag' = [tag EXCEPT ![boot] = "FREE"]
  BY DEF InitFree, Coalesce
<1>2. /\ BuddyTypes /\ FreeLists /\ WaitLists
      /\ ord \in [Index -> Order] /\ tag \in [Index -> {"USED", "FREE"}]
      /\ boot \in Int /\ FirstIdx <= boot /\ boot <= MaxIdx
      /\ Good(FreeHeads, HeldHeads, boot, ord, tag) /\ NoTwins(FreeHeads, -1, ord)
  BY BuddyFacts
<1>3. boot \in Index
  BY <1>1, <1>2, BuddyConstants DEF Index
<1>4. tag' \in [Index -> {"USED", "FREE"}] /\ tag'[boot] = "FREE" /\ \A w \in Index : w # boot => tag'[w] = tag[w]
  BY <1>1, <1>2, <1>3
<1>5. PICK G : \A w : w \in G <=> w \in FreeHeads \/ w = boot
  <2>1. \A w : w \in FreeHeads \cup {boot} <=> w \in FreeHeads \/ w = boot
    BY Zenon
  <2> QED
    BY <2>1, Zenon
<1>6. PICK x, n : x = boot /\ n = x + 1
  BY Zenon
<1>7. Good(G, HeldHeads, n, ord, tag') /\ NoTwins(G, x, ord) /\ x \notin FreeHeads
  <2>1. /\ x \in Int /\ FirstIdx <= x /\ x < MaxIdx /\ Good(FreeHeads, HeldHeads, x, ord, tag)
        /\ \A w : w \in G <=> w \in FreeHeads \/ w = x
        /\ tag' \in [Index -> {"USED", "FREE"}] /\ tag'[x] = "FREE"
        /\ \A w \in Index : w # x => tag'[w] = tag[w]
    BY <1>1, <1>2, <1>4, <1>5, <1>6, Zenon
  <2> QED
    BY <2>1, <1>2, <1>6, OpenNext
<1>8. Opened(x, G, HeldHeads, n) /\ Coalesce(x)
  BY <1>1, <1>3, <1>5, <1>6, <1>7, Zenon DEF Opened
<1>9. n \in Int /\ n <= MaxIdx /\ n = boot' /\ boot' \in FirstIdx .. MaxIdx
  BY <1>1, <1>2, <1>6, BuddyConstants
<1>10. /\ freelist' \in [Order -> Seq(Index)] /\ FreeLists'
       /\ Good(FreeHeads', HeldHeads, n, ord', tag') /\ NoTwins(FreeHeads', -1, ord')
       /\ \A w \in HeldHeads : ord'[w] = ord[w]
  BY <1>2, <1>8, <1>9, CoalesceSound, Zenon
<1>11. \A u \in used : u = <<u[1], u[2]>> /\ u[1] \in HeldHeads /\ ord[u[1]] = u[2] /\ ord'[u[1]] = u[2]
  BY <1>10, HeldFacts, Zenon
<1>12. HeldHeads' = HeldHeads
  <2>1. ASSUME NEW w PROVE <<w, ord'[w]>> \in used <=> <<w, ord[w]>> \in used
    <3>1. ASSUME <<w, ord'[w]>> \in used PROVE ord'[w] = ord[w]
      <4>1. <<w, ord'[w]>>[1] = w /\ <<w, ord'[w]>>[2] = ord'[w]
        OBVIOUS
      <4> QED
        BY <3>1, <4>1, <1>11
    <3>2. ASSUME <<w, ord[w]>> \in used PROVE ord'[w] = ord[w]
      <4>1. <<w, ord[w]>>[1] = w /\ <<w, ord[w]>>[2] = ord[w]
        OBVIOUS
      <4> QED
        BY <3>2, <4>1, <1>11
    <3> QED
      BY <3>1, <3>2
  <2>2. used' = used /\ waitlist' = waitlist
    BY <1>1
  <2> QED
    BY <2>1, <2>2, Zenon DEF HeldHeads
<1>13. BuddyTypes'
  BY <1>1, <1>2, <1>9, <1>10 DEF BuddyTypes
<1>14. WaitLists'
  BY <1>1, <1>2, <1>11 DEF WaitLists
<1>15. Tiling'
  BY <1>9, <1>10, <1>12, Zenon DEF Tiling
<1> QED
  BY <1>10, <1>13, <1>14, <1>15, Zenon DEF BuddyInv

\* A held block is given back: free() and free_wait().
LEMMA GiveBack ==
    ASSUME BuddyInv, NEW x \in HeldHeads, Coalesce(x)
    PROVE  \E H : /\ \A w : w \in H <=> w \in HeldHeads /\ w # x
                  /\ freelist' \in [Order -> Seq(Index)] /\ FreeLists'
                  /\ Good(FreeHeads', H, boot, ord', tag') /\ NoTwins(FreeHeads', -1, ord')
                  /\ \A w \in H : ord'[w] = ord[w]
<1>1. tag' = [tag EXCEPT ![x] = "FREE"]
  BY DEF Coalesce
<1>2. /\ BuddyTypes /\ FreeLists
      /\ ord \in [Index -> Order] /\ tag \in [Index -> {"USED", "FREE"}] /\ boot \in Int /\ boot <= MaxIdx
      /\ Good(FreeHeads, HeldHeads, boot, ord, tag) /\ NoTwins(FreeHeads, -1, ord)
  BY BuddyFacts
<1>3. x \in Index
  BY HeldFacts, Zenon
<1>4. tag' \in [Index -> {"USED", "FREE"}] /\ tag'[x] = "FREE" /\ \A w \in Index : w # x => tag'[w] = tag[w]
  BY <1>1, <1>2, <1>3
<1>5. PICK G : \A w : w \in G <=> w \in FreeHeads \/ w = x
  <2>1. \A w : w \in FreeHeads \cup {x} <=> w \in FreeHeads \/ w = x
    BY Zenon
  <2> QED
    BY <2>1, Zenon
<1>6. PICK H : \A w : w \in H <=> w \in HeldHeads /\ w # x
  <2>1. \A w : w \in HeldHeads \ {x} <=> w \in HeldHeads /\ w # x
    BY Zenon
  <2> QED
    BY <2>1, Zenon
<1>7. Good(G, H, boot, ord, tag') /\ NoTwins(G, x, ord) /\ x \notin FreeHeads
  BY <1>2, <1>4, <1>5, <1>6, OpenHeld
<1>8. Opened(x, G, H, boot)
  BY <1>3, <1>5, <1>7, Zenon DEF Opened
<1>9. /\ freelist' \in [Order -> Seq(Index)] /\ FreeLists'
      /\ Good(FreeHeads', H, boot, ord', tag') /\ NoTwins(FreeHeads', -1, ord')
      /\ \A w \in H : ord'[w] = ord[w]
  BY <1>2, <1>8, CoalesceSound, Zenon
<1> QED
  BY <1>6, <1>9, Zenon

LEMMA FreeKeeps ==
    ASSUME BuddyInv, NEW c \in BuddyCpu, NEW u \in used, Free(c, u) PROVE BuddyInv'
<1>1. Coalesce(u[1]) /\ used' = used \ {u} /\ UNCHANGED <<boot, waitlist, busy>>
  BY DEF Free
<1>2. PICK x : x = u[1]
  BY Zenon
<1>3. BuddyTypes /\ WaitLists /\ ord \in [Index -> Order]
  BY BuddyFacts
<1>4. x \in HeldHeads /\ u = <<x, ord[x]>>
  BY <1>2, HeldFacts, Zenon
<1>5. PICK H : /\ \A w : w \in H <=> w \in HeldHeads /\ w # x
               /\ freelist' \in [Order -> Seq(Index)] /\ FreeLists'
               /\ Good(FreeHeads', H, boot, ord', tag') /\ NoTwins(FreeHeads', -1, ord')
               /\ \A w \in H : ord'[w] = ord[w]
  BY <1>1, <1>2, <1>4, GiveBack
<1>6. \A v \in used' : v \in used /\ v = <<v[1], v[2]>> /\ v[1] \in H /\ ord[v[1]] = v[2] /\ ord'[v[1]] = v[2]
  <2>1. SUFFICES ASSUME NEW v \in used, v # u
                 PROVE  v = <<v[1], v[2]>> /\ v[1] \in H /\ ord[v[1]] = v[2] /\ ord'[v[1]] = v[2]
    BY <1>1
  <2>2. v = <<v[1], v[2]>> /\ v[1] \in HeldHeads /\ ord[v[1]] = v[2]
    BY HeldFacts, Zenon
  <2>3. v[1] # x
    BY <2>1, <2>2, <1>4, Zenon
  <2> QED
    BY <2>2, <2>3, <1>5, Zenon
<1>7. \A d \in BuddyCpu : \A w \in Range(waitlist[d]) : w \in H
  <2>1. \A d \in BuddyCpu : u[1] \notin Range(waitlist[d])
    BY <1>3, Zenon DEF WaitLists
  <2> QED
    BY <2>1, <1>2, <1>5, HeldFacts, ZenonT(40)
<1>8. HeldHeads' = H
  <2>1. \A w \in H : w \in Index
    BY <1>5, HeldFacts, Zenon
  <2>2. ASSUME NEW w \in HeldHeads' PROVE w \in H
    <3>1. CASE <<w, ord'[w]>> \in used'
      <4>1. <<w, ord'[w]>>[1] = w
        OBVIOUS
      <4> QED
        BY <3>1, <4>1, <1>6
    <3>2. CASE \E d \in BuddyCpu : w \in Range(waitlist'[d])
      BY <3>2, <1>1, <1>7
    <3> QED
      BY <3>1, <3>2, <2>2, Zenon DEF HeldHeads
  <2>3. ASSUME NEW w \in H PROVE w \in HeldHeads'
    <3>1. w \in HeldHeads /\ w # x /\ ord'[w] = ord[w]
      BY <1>5, Zenon
    <3>2. CASE <<w, ord[w]>> \in used
      <4>1. <<w, ord[w]>> # u
        BY <3>1, <1>4
      <4>2. <<w, ord'[w]>> \in used'
        BY <4>1, <3>1, <3>2, <1>1
      <4> QED
        BY <4>2, <2>1, Zenon DEF HeldHeads
    <3>3. CASE \E d \in BuddyCpu : w \in Range(waitlist[d])
      <4>1. \E d \in BuddyCpu : w \in Range(waitlist'[d])
        BY <3>3, <1>1
      <4> QED
        BY <4>1, <2>1, Zenon DEF HeldHeads
    <3> QED
      BY <3>1, <3>2, <3>3, Zenon DEF HeldHeads
  <2> QED
    BY <2>2, <2>3, Zenon
<1>9. BuddyTypes'
  <2>1. boot' = boot /\ waitlist' = waitlist /\ busy' = busy /\ used' \subseteq used
    BY <1>1
  <2> QED
    BY <2>1, <1>3, <1>5 DEF BuddyTypes
<1>10. WaitLists'
  <2>1. waitlist' = waitlist
    BY <1>1
  <2> QED
    BY <2>1, <1>3, <1>6, Zenon DEF WaitLists
<1>11. Tiling'
  <2>1. boot' = boot
    BY <1>1
  <2> QED
    BY <2>1, <1>5, <1>8, Zenon DEF Tiling
<1> QED
  BY <1>5, <1>9, <1>10, <1>11, Zenon DEF BuddyInv

LEMMA FreeWaitKeeps ==
    ASSUME BuddyInv, NEW c \in BuddyCpu, FreeWait(c) PROVE BuddyInv'
<1>1. /\ waitlist[c] # <<>> /\ Coalesce(Head(waitlist[c])) /\ waitlist' = [waitlist EXCEPT ![c] = Tail(waitlist[c])]
      /\ UNCHANGED <<boot, used>> /\ busy' \in {busy \ {c}, busy \cup {c}}
  BY DEF FreeWait
<1>2. PICK x : x = Head(waitlist[c])
  BY Zenon
<1>3. BuddyTypes /\ WaitLists /\ ord \in [Index -> Order] /\ waitlist \in [BuddyCpu -> Seq(Index)]
  BY BuddyFacts DEF BuddyTypes
<1>4. waitlist[c] \in Seq(Index) /\ IsInjective(waitlist[c])
  BY <1>3, Zenon DEF WaitLists
<1>5. /\ Tail(waitlist[c]) \in Seq(Index) /\ IsInjective(Tail(waitlist[c])) /\ x \in Range(waitlist[c])
      /\ \A w : w \in Range(Tail(waitlist[c])) <=> w \in Range(waitlist[c]) /\ w # x
  BY <1>1, <1>2, <1>4, TailFacts, Zenon
<1>6. x \in HeldHeads
  BY <1>5, HeldFacts, Zenon
<1>7. PICK H : /\ \A w : w \in H <=> w \in HeldHeads /\ w # x
               /\ freelist' \in [Order -> Seq(Index)] /\ FreeLists'
               /\ Good(FreeHeads', H, boot, ord', tag') /\ NoTwins(FreeHeads', -1, ord')
               /\ \A w \in H : ord'[w] = ord[w]
  BY <1>1, <1>2, <1>6, GiveBack
<1>8. waitlist' \in [BuddyCpu -> Seq(Index)] /\ waitlist'[c] = Tail(waitlist[c]) /\ \A d \in BuddyCpu : d # c => waitlist'[d] = waitlist[d]
  BY <1>1, <1>3, <1>5
<1>9. \A d \in BuddyCpu : d # c => x \notin Range(waitlist[d])
  BY <1>3, <1>5, Zenon DEF WaitLists
<1>10. \A d \in BuddyCpu : \A w : w \in Range(waitlist'[d]) <=> w \in Range(waitlist[d]) /\ w # x
  BY <1>5, <1>8, <1>9, Zenon
<1>11. \A v \in used : v = <<v[1], v[2]>> /\ v[1] \in H /\ ord[v[1]] = v[2] /\ ord'[v[1]] = v[2]
  <2>1. SUFFICES ASSUME NEW v \in used
                 PROVE  v = <<v[1], v[2]>> /\ v[1] \in H /\ ord[v[1]] = v[2] /\ ord'[v[1]] = v[2]
    BY Zenon
  <2>2. v = <<v[1], v[2]>> /\ v[1] \in HeldHeads /\ ord[v[1]] = v[2]
    BY HeldFacts, Zenon
  <2>3. v[1] # x
    BY <1>3, <1>5, Zenon DEF WaitLists
  <2> QED
    BY <2>2, <2>3, <1>7, Zenon
<1>12. HeldHeads' = H
  <2>0. used' = used
    BY <1>1
  <2>1. \A w \in H : w \in Index
    BY <1>7, HeldFacts, Zenon
  <2>2. ASSUME NEW w \in HeldHeads' PROVE w \in H
    <3>1. CASE <<w, ord'[w]>> \in used'
      <4>1. <<w, ord'[w]>>[1] = w
        OBVIOUS
      <4> QED
        BY <3>1, <4>1, <2>0, <1>11
    <3>2. CASE \E d \in BuddyCpu : w \in Range(waitlist'[d])
      BY <3>2, <1>7, <1>10, HeldFacts, Zenon
    <3> QED
      BY <3>1, <3>2, <2>2, Zenon DEF HeldHeads
  <2>3. ASSUME NEW w \in H PROVE w \in HeldHeads'
    <3>1. w \in HeldHeads /\ w # x /\ ord'[w] = ord[w]
      BY <1>7, Zenon
    <3>2. CASE <<w, ord[w]>> \in used
      <4>1. <<w, ord'[w]>> \in used'
        BY <3>1, <3>2, <2>0, Zenon
      <4> QED
        BY <4>1, <2>1, Zenon DEF HeldHeads
    <3>3. CASE \E d \in BuddyCpu : w \in Range(waitlist[d])
      <4>1. \E d \in BuddyCpu : w \in Range(waitlist'[d])
        BY <3>1, <3>3, <1>10, Zenon
      <4> QED
        BY <4>1, <2>1, Zenon DEF HeldHeads
    <3> QED
      BY <3>1, <3>2, <3>3, Zenon DEF HeldHeads
  <2> QED
    BY <2>2, <2>3, Zenon
<1>13. BuddyTypes'
  BY <1>1, <1>3, <1>7, <1>8 DEF BuddyTypes
<1>14. WaitLists'
  <2>0. used' = used
    BY <1>1
  <2>1. \A d \in BuddyCpu : IsInjective(waitlist'[d])
    BY <1>3, <1>5, <1>8, Zenon DEF WaitLists
  <2>2. \A d, f \in BuddyCpu : d # f => \A w \in Range(waitlist'[d]) : w \notin Range(waitlist'[f])
    BY <1>3, <1>10, Zenon DEF WaitLists
  <2>3. \A v \in used : ord'[v[1]] = v[2] /\ \A d \in BuddyCpu : v[1] \notin Range(waitlist'[d])
    BY <1>3, <1>10, <1>11, Zenon DEF WaitLists
  <2> QED
    BY <2>0, <2>1, <2>2, <2>3, Zenon DEF WaitLists
<1>15. Tiling'
  <2>1. boot' = boot
    BY <1>1
  <2> QED
    BY <2>1, <1>7, <1>12, Zenon DEF Tiling
<1> QED
  BY <1>7, <1>13, <1>14, <1>15, Zenon DEF BuddyInv

LEMMA WaitKeeps ==
    ASSUME BuddyInv, NEW c \in BuddyCpu, NEW u \in used, Wait(c, u) PROVE BuddyInv'
<1>1. /\ waitlist' = [waitlist EXCEPT ![c] = <<u[1]>> \o waitlist[c]] /\ used' = used \ {u}
      /\ UNCHANGED <<boot, ord, tag, freelist, busy>>
  BY DEF Wait
<1>2. PICK x : x = u[1]
  BY Zenon
<1>3. BuddyTypes /\ WaitLists /\ ord \in [Index -> Order] /\ waitlist \in [BuddyCpu -> Seq(Index)]
  BY BuddyFacts DEF BuddyTypes
<1>4. x \in HeldHeads /\ x \in Index /\ u = <<x, ord[x]>>
  BY <1>2, HeldFacts, Zenon
<1>5. waitlist[c] \in Seq(Index) /\ IsInjective(waitlist[c]) /\ \A d \in BuddyCpu : x \notin Range(waitlist[d])
  BY <1>2, <1>3, Zenon DEF WaitLists
<1>6. /\ <<x>> \o waitlist[c] \in Seq(Index) /\ IsInjective(<<x>> \o waitlist[c])
      /\ \A w : w \in Range(<<x>> \o waitlist[c]) <=> w \in Range(waitlist[c]) \/ w = x
  BY <1>4, <1>5, ConsFacts, Zenon
<1>7. /\ waitlist' \in [BuddyCpu -> Seq(Index)] /\ waitlist'[c] = <<x>> \o waitlist[c]
      /\ \A d \in BuddyCpu : d # c => waitlist'[d] = waitlist[d]
  <2>1. waitlist' = [waitlist EXCEPT ![c] = <<x>> \o waitlist[c]]
    BY <1>1, <1>2, Zenon
  <2> QED
    BY <2>1, <1>3, <1>6
<1>8. \A d \in BuddyCpu : \A w : w \in Range(waitlist'[d]) <=> w \in Range(waitlist[d]) \/ (d = c /\ w = x)
  BY <1>6, <1>7, Zenon
<1>9. \A v : v \in used' <=> v \in used /\ v # u
  BY <1>1
<1>10. \A v \in used' : v \in used /\ ord[v[1]] = v[2] /\ v[1] # x
  <2>1. \A v \in used : v = <<v[1], v[2]>> /\ ord[v[1]] = v[2]
    BY HeldFacts, Zenon
  <2> QED
    BY <2>1, <1>4, <1>9, Zenon
<1>11. HeldHeads' = HeldHeads
  <2>0. ord' = ord
    BY <1>1
  <2>1. ASSUME NEW w \in HeldHeads' PROVE w \in HeldHeads
    <3>1. CASE <<w, ord'[w]>> \in used'
      BY <3>1, <2>0, <2>1, <1>9, Zenon DEF HeldHeads
    <3>2. CASE \E d \in BuddyCpu : w \in Range(waitlist'[d])
      BY <3>2, <2>1, <1>4, <1>8, Zenon DEF HeldHeads
    <3> QED
      BY <3>1, <3>2, <2>1, Zenon DEF HeldHeads
  <2>2. ASSUME NEW w \in HeldHeads PROVE w \in HeldHeads'
    <3>0. w \in Index
      BY <2>2, Zenon DEF HeldHeads
    <3>1. CASE w = x
      BY <3>0, <3>1, <1>8, Zenon DEF HeldHeads
    <3>2. CASE w # x /\ <<w, ord[w]>> \in used
      <4>1. <<w, ord[w]>> # u
        BY <3>2, <1>4
      <4>2. <<w, ord'[w]>> \in used'
        BY <4>1, <3>2, <2>0, <1>9, Zenon
      <4> QED
        BY <4>2, <3>0, Zenon DEF HeldHeads
    <3>3. CASE \E d \in BuddyCpu : w \in Range(waitlist[d])
      <4>1. \E d \in BuddyCpu : w \in Range(waitlist'[d])
        BY <3>3, <1>8, Zenon
      <4> QED
        BY <4>1, <3>0, Zenon DEF HeldHeads
    <3> QED
      BY <3>1, <3>2, <3>3, <2>2, Zenon DEF HeldHeads
  <2> QED
    BY <2>1, <2>2, Zenon
<1>12. FreeHeads' = FreeHeads /\ FreeLists'
  <2>1. freelist' = freelist /\ ord' = ord
    BY <1>1
  <2> QED
    BY <2>1, BuddyFacts, Zenon DEF FreeHeads, FreeLists
<1>13. BuddyTypes'
  <2>1. used' \subseteq used
    BY <1>1
  <2> QED
    BY <2>1, <1>1, <1>3, <1>7 DEF BuddyTypes
<1>14. WaitLists'
  <2>0. ord' = ord
    BY <1>1
  <2>1. \A d \in BuddyCpu : IsInjective(waitlist'[d])
    BY <1>3, <1>6, <1>7, Zenon DEF WaitLists
  <2>2. \A d, f \in BuddyCpu : d # f => \A w \in Range(waitlist'[d]) : w \notin Range(waitlist'[f])
    <3>1. SUFFICES ASSUME NEW d \in BuddyCpu, NEW f \in BuddyCpu, d # f, NEW w \in Range(waitlist'[d]),
                          w \in Range(waitlist'[f])
                   PROVE  FALSE
      BY Zenon
    <3>2. w \in Range(waitlist[d]) \/ (d = c /\ w = x)
      BY <3>1, <1>8, Zenon
    <3>3. w \in Range(waitlist[f]) \/ (f = c /\ w = x)
      BY <3>1, <1>8, Zenon
    <3> QED
      BY <3>1, <3>2, <3>3, <1>3, <1>5, Zenon DEF WaitLists
  <2>3. \A v \in used' : ord'[v[1]] = v[2] /\ \A d \in BuddyCpu : v[1] \notin Range(waitlist'[d])
    BY <2>0, <1>3, <1>8, <1>10, ZenonT(40) DEF WaitLists
  <2> QED
    BY <2>1, <2>2, <2>3, Zenon DEF WaitLists
<1>15. Tiling'
  <2>1. boot' = boot /\ ord' = ord /\ tag' = tag
    BY <1>1
  <2> QED
    BY <2>1, <1>11, <1>12, BuddyFacts, Zenon DEF Tiling
<1> QED
  BY <1>12, <1>13, <1>14, <1>15, Zenon DEF BuddyInv

LEMMA AllocKeeps ==
    ASSUME BuddyInv, NEW c \in BuddyCpu, NEW o \in Order, Alloc(c, o) PROVE BuddyInv'
<1>0. /\ BuddyTypes /\ FreeLists /\ WaitLists
      /\ ord \in [Index -> Order] /\ tag \in [Index -> {"USED", "FREE"}] /\ boot \in Int /\ boot <= MaxIdx
      /\ Good(FreeHeads, HeldHeads, boot, ord, tag) /\ NoTwins(FreeHeads, -1, ord)
  BY BuddyFacts
<1>1. PICK k \in o .. Orders - 1 :
        /\ freelist[k] # <<>>
        /\ \A i \in o .. k - 1 : freelist[i] = <<>>
        /\ freelist' = [i \in Order |->
              IF i = k THEN Tail(freelist[i])
              ELSE IF i \in o .. k - 1 THEN <<Head(freelist[k]) + 2^i>> ELSE freelist[i]]
        /\ ord' = [ord EXCEPT ![Head(freelist[k])] = o]
        /\ tag' = [tag EXCEPT ![Head(freelist[k])] = "USED"]
        /\ used' = used \cup {<<Head(freelist[k]), o>>}
  BY Zenon DEF Alloc
<1>2. UNCHANGED <<boot, waitlist, busy>>
  BY DEF Alloc
<1>3. PICK b : b = Head(freelist[k])
  BY Zenon
<1>4. o \in Nat /\ k \in Nat /\ o <= k /\ k \in Order /\ k \notin o .. k - 1 /\ \A i \in o .. k - 1 : i \in Order /\ i # k
  BY <1>1, BuddyConstants
<1>5. freelist \in [Order -> Seq(Index)] /\ \A i \in Order : freelist[i] \in Seq(Index) /\ IsInjective(freelist[i]) /\ \A w \in Range(freelist[i]) : ord[w] = i
  BY <1>0, Zenon DEF BuddyTypes, FreeLists
<1>6. /\ Tail(freelist[k]) \in Seq(Index) /\ IsInjective(Tail(freelist[k])) /\ b \in Range(freelist[k]) /\ b \in Index
      /\ \A w : w \in Range(Tail(freelist[k])) <=> w \in Range(freelist[k]) /\ w # b
  BY <1>1, <1>3, <1>4, <1>5, TailFacts, Zenon
<1>7. \A w : w \in FreeHeads <=> \E i \in Order : w \in Range(freelist[i])
  BY <1>5, HeadsOf, Zenon
<1>8. b \in FreeHeads /\ ord[b] = k
  BY <1>4, <1>5, <1>6, <1>7, Zenon
<1>9. Splits(FreeHeads, HeldHeads, boot, ord, tag, b, k, k)
  BY <1>0, <1>8, SplitsStart
<1>10. Splits(FreeHeads, HeldHeads, boot, ord, tag, b, k, o)
  BY <1>0, <1>4, <1>6, <1>8, <1>9, SplitsAll
<1>11. PICK G : G = Pieces(FreeHeads, b, o, k)
  BY Zenon
<1>12. ord' = [ord EXCEPT ![b] = o] /\ tag' = [tag EXCEPT ![b] = "USED"] /\ used' = used \cup {<<b, o>>}
  BY <1>1, <1>3, Zenon
<1>13. /\ Good(G, HeldHeads, boot, ord', tag) /\ NoTwins(G, b, ord')
       /\ \A i \in o .. k - 1 : b + Sz(i) \in Index /\ b + Sz(i) \notin FreeHeads /\ ord[b + Sz(i)] = i
  BY <1>10, <1>11, <1>12, Zenon DEF Splits
<1>14. ord' \in [Index -> Order] /\ ord'[b] = o /\ \A w \in Index : w # b => ord'[w] = ord[w]
  BY <1>0, <1>6, <1>12
<1>15. tag' \in [Index -> {"USED", "FREE"}] /\ tag'[b] = "USED" /\ \A w \in Index : w # b => tag'[w] = tag[w]
  BY <1>0, <1>6, <1>12
<1>16. PICK F : \A w : w \in F <=> w \in G /\ w # b
  <2>1. \A w : w \in G \ {b} <=> w \in G /\ w # b
    BY Zenon
  <2> QED
    BY <2>1, Zenon
<1>17. PICK H : \A w : w \in H <=> w \in HeldHeads \/ w = b
  <2>1. \A w : w \in HeldHeads \cup {b} <=> w \in HeldHeads \/ w = b
    BY Zenon
  <2> QED
    BY <2>1, Zenon
<1>18. b \in G
  BY <1>6, <1>8, <1>11, Zenon DEF Pieces
<1>19. Good(F, H, boot, ord', tag') /\ NoTwins(F, -1, ord')
  BY <1>0, <1>13, <1>15, <1>16, <1>17, <1>18, CloseHeld
<1>20. \A i \in Order : freelist'[i] = IF i = k THEN Tail(freelist[k])
                                       ELSE IF i \in o .. k - 1 THEN <<b + Sz(i)>> ELSE freelist[i]
  BY <1>1, <1>3, Zenon DEF Sz
<1>21. \A i \in o .. k - 1 : \A w : w \notin Range(freelist[i])
  <2>1. \A w : w \notin Range(<<>>)
    BY DEF Range
  <2> QED
    BY <2>1, <1>1, Zenon
<1>22. ASSUME NEW i \in Order
       PROVE  /\ freelist'[i] \in Seq(Index) /\ IsInjective(freelist'[i])
              /\ \A w : w \in Range(freelist'[i]) <=>
                     \/ i \in o .. k - 1 /\ w = b + Sz(i)
                     \/ w \in Range(freelist[i]) /\ ~(i = k /\ w = b)
  <2>1. CASE i = k
    BY <2>1, <1>4, <1>6, <1>20, Zenon
  <2>2. CASE i \in o .. k - 1
    <3>1. /\ <<b + Sz(i)>> \in Seq(Index) /\ IsInjective(<<b + Sz(i)>>)
          /\ \A w : w \in Range(<<b + Sz(i)>>) <=> w = b + Sz(i)
      BY <2>2, <1>13, OneFacts, Zenon
    <3>2. freelist'[i] = <<b + Sz(i)>>
      BY <2>2, <1>4, <1>20, Zenon
    <3> QED
      BY <2>2, <3>1, <3>2, <1>21, Zenon
  <2>3. CASE i # k /\ i \notin o .. k - 1
    BY <2>3, <1>5, <1>20, Zenon
  <2> QED
    BY <2>1, <2>2, <2>3, Zenon
<1>23. freelist' \in [Order -> Seq(Index)]
  <2>1. \A i \in Order : freelist'[i] \in Seq(Index)
    BY <1>22, Zenon
  <2>2. freelist' = [i \in Order |-> freelist'[i]]
    BY <1>1
  <2> QED
    BY <2>1, <2>2, Zenon
<1>24. \A i \in o .. k - 1 : b + Sz(i) # b
  BY <1>8, <1>13, Zenon
<1>25. FreeLists'
  <2>1. ASSUME NEW i \in Order, NEW w \in Range(freelist'[i]) PROVE ord'[w] = i
    <3>1. CASE i \in o .. k - 1 /\ w = b + Sz(i)
      BY <3>1, <1>13, <1>14, <1>24, Zenon
    <3>2. CASE w \in Range(freelist[i]) /\ ~(i = k /\ w = b)
      <4>1. ord[w] = i /\ w \in FreeHeads
        BY <3>2, <1>5, <1>7, Zenon
      <4>2. w # b /\ w \in Index
        BY <4>1, <3>2, <1>8, Zenon DEF FreeHeads
      <4> QED
        BY <4>1, <4>2, <1>14, Zenon
    <3> QED
      BY <2>1, <3>1, <3>2, <1>22, Zenon
  <2>2. \A i \in Order : IsInjective(freelist'[i])
    BY <1>22, Zenon
  <2> QED
    BY <2>1, <2>2, Zenon DEF FreeLists
<1>26. FreeHeads' = F
  <2>1. \A w : w \in FreeHeads' <=> \E i \in Order : w \in Range(freelist'[i])
    BY <1>23, HeadsOfNext, Zenon
  <2>2. \A w : w \in G <=> w \in Index /\ (w \in FreeHeads \/ \E i \in o .. k - 1 : w = b + Sz(i))
    BY <1>11, Zenon DEF Pieces
  <2>3. ASSUME NEW w \in FreeHeads' PROVE w \in F
    <3>1. PICK i \in Order : w \in Range(freelist'[i])
      BY <2>1, Zenon
    <3>2. CASE i \in o .. k - 1 /\ w = b + Sz(i)
      BY <3>2, <2>2, <1>13, <1>16, <1>24, Zenon
    <3>3. CASE w \in Range(freelist[i]) /\ ~(i = k /\ w = b)
      <4>1. ord[w] = i /\ w \in FreeHeads
        BY <3>3, <1>5, <1>7, Zenon
      <4>2. w # b /\ w \in Index
        BY <4>1, <3>3, <1>8, Zenon DEF FreeHeads
      <4> QED
        BY <4>1, <4>2, <2>2, <1>16, Zenon
    <3> QED
      BY <3>1, <3>2, <3>3, <1>22, Zenon
  <2>4. ASSUME NEW w \in F PROVE w \in FreeHeads'
    <3>1. w # b /\ (w \in FreeHeads \/ \E i \in o .. k - 1 : w = b + Sz(i))
      BY <2>2, <1>16, Zenon
    <3>2. CASE w \in FreeHeads
      BY <3>1, <3>2, <2>1, <1>7, <1>22, Zenon
    <3>3. CASE \E i \in o .. k - 1 : w = b + Sz(i)
      BY <3>3, <2>1, <1>4, <1>22, Zenon
    <3> QED
      BY <3>1, <3>2, <3>3
  <2> QED
    BY <2>3, <2>4, Zenon
<1>27. b \notin HeldHeads
  <2>1. \A w \in HeldHeads : tag[w] = "USED"
    BY HeldFacts, Zenon
  <2>2. tag[b] = "FREE"
    BY <1>8, HeldFacts, Zenon
  <2> QED
    BY <2>1, <2>2
<1>28. \A u \in used : u = <<u[1], u[2]>> /\ u[1] \in HeldHeads /\ u[1] # b /\ ord'[u[1]] = u[2] /\ ord[u[1]] = u[2]
  <2>1. SUFFICES ASSUME NEW u \in used
                 PROVE  u = <<u[1], u[2]>> /\ u[1] \in HeldHeads /\ u[1] # b /\ ord'[u[1]] = u[2] /\ ord[u[1]] = u[2]
    BY Zenon
  <2>2. u = <<u[1], u[2]>> /\ u[1] \in HeldHeads /\ u[1] \in Index /\ ord[u[1]] = u[2]
    BY HeldFacts, Zenon
  <2>3. u[1] # b
    BY <2>2, <1>27, Zenon
  <2> QED
    BY <2>2, <2>3, <1>14, Zenon
<1>29. HeldHeads' = H
  <2>0. waitlist' = waitlist /\ \A v : v \in used' <=> v \in used \/ v = <<b, o>>
    BY <1>2, <1>12
  <2>1. ASSUME NEW w \in HeldHeads' PROVE w \in H
    <3>0. w \in Index
      BY <2>1, Zenon DEF HeldHeads
    <3>1. CASE <<w, ord'[w]>> \in used'
      <4>1. CASE <<w, ord'[w]>> \in used
        <5>1. <<w, ord'[w]>>[1] = w
          OBVIOUS
        <5>2. w \in HeldHeads
          BY <4>1, <5>1, <1>28
        <5> QED
          BY <5>2, <1>17, Zenon
      <4>2. CASE <<w, ord'[w]>> = <<b, o>>
        <5>1. w = b
          BY <4>2
        <5> QED
          BY <5>1, <1>17, Zenon
      <4> QED
        BY <3>1, <4>1, <4>2, <2>0, Zenon
    <3>2. CASE \E d \in BuddyCpu : w \in Range(waitlist'[d])
      BY <3>0, <3>2, <2>0, <1>17, Zenon DEF HeldHeads
    <3> QED
      BY <3>1, <3>2, <2>1, Zenon DEF HeldHeads
  <2>2. ASSUME NEW w \in H PROVE w \in HeldHeads'
    <3>1. CASE w = b
      <4>1. <<w, ord'[w]>> \in used' /\ w \in Index
        BY <3>1, <2>0, <1>6, <1>14, Zenon
      <4> QED
        BY <4>1, Zenon DEF HeldHeads
    <3>2. CASE w # b /\ w \in HeldHeads
      <4>0. w \in Index
        BY <3>2, Zenon DEF HeldHeads
      <4>1. ord'[w] = ord[w]
        BY <4>0, <3>2, <1>14, Zenon
      <4>2. CASE <<w, ord[w]>> \in used
        BY <4>0, <4>1, <4>2, <2>0, Zenon DEF HeldHeads
      <4>3. CASE \E d \in BuddyCpu : w \in Range(waitlist[d])
        BY <4>0, <4>3, <2>0, Zenon DEF HeldHeads
      <4> QED
        BY <3>2, <4>2, <4>3, Zenon DEF HeldHeads
    <3> QED
      BY <3>1, <3>2, <1>17, Zenon
  <2> QED
    BY <2>1, <2>2, Zenon
<1>30. BuddyTypes'
  <2>1. <<b, o>> \in Index \X Order
    BY <1>6
  <2>2. used' \subseteq Index \X Order
    BY <2>1, <1>0, <1>12 DEF BuddyTypes
  <2> QED
    BY <2>2, <1>0, <1>2, <1>23 DEF BuddyTypes
<1>31. WaitLists'
  <2>0. waitlist' = waitlist /\ \A v : v \in used' <=> v \in used \/ v = <<b, o>>
    BY <1>2, <1>12
  <2>1. \A d \in BuddyCpu : b \notin Range(waitlist[d])
    BY <1>27, HeldFacts, Zenon
  <2>2. <<b, o>>[1] = b /\ <<b, o>>[2] = o
    OBVIOUS
  <2>3. ASSUME NEW v \in used' PROVE ord'[v[1]] = v[2] /\ \A d \in BuddyCpu : v[1] \notin Range(waitlist'[d])
    <3>1. CASE v \in used
      BY <3>1, <2>0, <1>0, <1>28, Zenon DEF WaitLists
    <3>2. CASE v = <<b, o>>
      BY <3>2, <2>0, <2>1, <2>2, <1>14, Zenon
    <3> QED
      BY <3>1, <3>2, <2>0, Zenon
  <2> QED
    BY <2>0, <2>3, <1>0, Zenon DEF WaitLists
<1>32. Tiling'
  <2>1. boot' = boot
    BY <1>2
  <2> QED
    BY <2>1, <1>19, <1>26, <1>29, Zenon DEF Tiling
<1> QED
  BY <1>25, <1>30, <1>31, <1>32, Zenon DEF BuddyInv

LEMMA BuddyStarts == BuddyInit => BuddyInv
<1> SUFFICES ASSUME BuddyInit PROVE BuddyInv
  OBVIOUS
<1>1. /\ boot = FirstIdx /\ ord = [x \in Index |-> 0] /\ tag = [x \in Index |-> "USED"]
      /\ freelist = [o \in Order |-> <<>>] /\ waitlist = [c \in BuddyCpu |-> <<>>] /\ busy = {} /\ used = {}
  BY DEF BuddyInit
<1>2. (\A w : w \notin Range(<<>>)) /\ IsInjective(<<>>)
  BY DEF Range, IsInjective
<1>3. FreeHeads = {} /\ HeldHeads = {}
  <2>1. \A o \in Order : freelist[o] = <<>>
    BY <1>1
  <2>2. \A c \in BuddyCpu : waitlist[c] = <<>>
    BY <1>1
  <2>3. \A w : w \notin FreeHeads
    BY <2>1, <1>2, Zenon DEF FreeHeads
  <2>4. \A w : w \notin HeldHeads
    BY <2>2, <1>1, <1>2, Zenon DEF HeldHeads
  <2> QED
    BY <2>3, <2>4, Zenon
<1>4. BuddyTypes
  BY <1>1, BuddyConstants DEF BuddyTypes
<1>5. FreeLists
  <2>1. \A o \in Order : freelist[o] = <<>>
    BY <1>1
  <2> QED
    BY <2>1, <1>2, Zenon DEF FreeLists
<1>6. WaitLists
  <2>1. \A c \in BuddyCpu : waitlist[c] = <<>>
    BY <1>1
  <2> QED
    BY <2>1, <1>1, <1>2, Zenon DEF WaitLists
<1>7. Tiling
  <2>1. Headers(ord, tag)
    <3>1. 0 \in Order
      BY BuddyConstants
    <3> QED
      BY <3>1, <1>1 DEF Headers
  <2>2. \A y \in FirstIdx .. boot - 1 : FALSE
    BY <1>1, BuddyConstants
  <2>3. Placed({} \cup {}, boot, ord)
    BY Zenon DEF Placed
  <2>4. AllTiled({} \cup {}, boot, ord)
    BY <2>2, Zenon DEF AllTiled
  <2>5. \A y \in Index : tag[y] = "USED" /\ ord[y] = 0
    BY <1>1
  <2>6. Marked({}, {}, boot, ord, tag)
    BY <2>2, <2>5, Zenon DEF Marked
  <2>7. NoTwins({}, -1, ord)
    BY Zenon DEF NoTwins
  <2> QED
    BY <2>1, <2>3, <2>4, <2>6, <2>7, <1>3, Zenon DEF Tiling, Good
<1> QED
  BY <1>4, <1>5, <1>6, <1>7, Zenon DEF BuddyInv

LEMMA BuddySteps == BuddyInv /\ [BuddyNext]_buddyVars => BuddyInv'
<1> SUFFICES ASSUME BuddyInv, [BuddyNext]_buddyVars PROVE BuddyInv'
  OBVIOUS
<1>1. CASE InitFree
  BY <1>1, InitFreeKeeps
<1>2. ASSUME NEW c \in BuddyCpu, NEW o \in Order, Alloc(c, o) PROVE BuddyInv'
  BY <1>2, AllocKeeps
<1>3. ASSUME NEW c \in BuddyCpu, NEW u \in used, Free(c, u) PROVE BuddyInv'
  BY <1>3, FreeKeeps
<1>4. ASSUME NEW c \in BuddyCpu, NEW u \in used, Wait(c, u) PROVE BuddyInv'
  BY <1>4, WaitKeeps
<1>5. ASSUME NEW c \in BuddyCpu, FreeWait(c) PROVE BuddyInv'
  BY <1>5, FreeWaitKeeps
<1>6. CASE UNCHANGED buddyVars
  <2>1. boot' = boot /\ ord' = ord /\ tag' = tag /\ freelist' = freelist /\ waitlist' = waitlist /\ busy' = busy /\ used' = used
    BY <1>6 DEF buddyVars
  <2>2. BuddyTypes' /\ FreeLists' /\ WaitLists'
    BY <2>1, BuddyFacts, Zenon DEF BuddyTypes, FreeLists, WaitLists
  <2>3. FreeHeads' = FreeHeads /\ HeldHeads' = HeldHeads
    BY <2>1, Zenon DEF FreeHeads, HeldHeads
  <2>4. Tiling'
    BY <2>1, <2>3, BuddyFacts, Zenon DEF Tiling
  <2> QED
    BY <2>2, <2>4, Zenon DEF BuddyInv
<1> QED
  BY <1>1, <1>2, <1>3, <1>4, <1>5, <1>6, Zenon DEF BuddyNext

-----------------------------------------------------------------------------
(* Buddy: what the invariant says of the pool.                             *)

\* A block, as a pair, is a head and the order in its header.
LEMMA BlockIs ==
    ASSUME BuddyInv
    PROVE  /\ \A a : a \in FreeBlocks <=> a[1] \in FreeHeads /\ a = <<a[1], ord[a[1]]>>
           /\ \A a \in Deferred : a = <<a[1], ord[a[1]]>> /\ \E c \in BuddyCpu : a[1] \in Range(waitlist[c])
           /\ \A c \in BuddyCpu : \A w \in Range(waitlist[c]) : <<w, ord[w]>> \in Deferred
           /\ \A a \in used : a = <<a[1], ord[a[1]]>> /\ a[1] \in HeldHeads
<1>1. /\ BuddyTypes /\ FreeLists /\ freelist \in [Order -> Seq(Index)]
  BY BuddyFacts DEF BuddyTypes
<1>2. \A w : w \in FreeHeads <=> \E o \in Order : w \in Range(freelist[o])
  BY <1>1, HeadsOf, Zenon
<1>3. \A w, o : <<w, o>>[1] = w /\ <<w, o>>[2] = o
  OBVIOUS
<1>4. \A a : a \in FreeBlocks <=> \E o \in Order : \E w \in Range(freelist[o]) : a = <<w, o>>
  <2> DEFINE At(o) == {<<x, o>> : x \in Range(freelist[o])}
  <2>1. \A a, o : a \in At(o) <=> \E w \in Range(freelist[o]) : a = <<w, o>>
    BY Zenon
  <2>2. FreeBlocks = UNION {At(o) : o \in Order}
    BY Zenon DEF FreeBlocks
  <2> HIDE DEF At
  <2>3. \A a : a \in FreeBlocks <=> \E o \in Order : a \in At(o)
    BY <2>2, Zenon
  <2> QED
    BY <2>1, <2>3, Zenon
<1>5. \A a : a \in Deferred <=> \E c \in BuddyCpu : \E w \in Range(waitlist[c]) : a = <<w, ord[w]>>
  <2> DEFINE At(c) == {<<x, ord[x]>> : x \in Range(waitlist[c])}
  <2>1. \A a, c : a \in At(c) <=> \E w \in Range(waitlist[c]) : a = <<w, ord[w]>>
    BY Zenon
  <2>2. Deferred = UNION {At(c) : c \in BuddyCpu}
    BY Zenon DEF Deferred
  <2> HIDE DEF At
  <2>3. \A a : a \in Deferred <=> \E c \in BuddyCpu : a \in At(c)
    BY <2>2, Zenon
  <2> QED
    BY <2>1, <2>3, Zenon
<1>6. \A o \in Order : \A w \in Range(freelist[o]) : ord[w] = o
  BY <1>1, Zenon DEF FreeLists
<1>7. ASSUME NEW a \in FreeBlocks PROVE a[1] \in FreeHeads /\ a = <<a[1], ord[a[1]]>>
  <2>1. PICK o \in Order : \E w \in Range(freelist[o]) : a = <<w, o>>
    BY <1>4, Zenon
  <2>2. PICK w \in Range(freelist[o]) : a = <<w, o>>
    BY <2>1, Zenon
  <2>3. a[1] = w /\ ord[w] = o /\ w \in FreeHeads
    BY <2>2, <1>2, <1>3, <1>6, Zenon
  <2> QED
    BY <2>2, <2>3, Zenon
<1>8. ASSUME NEW a, a[1] \in FreeHeads, a = <<a[1], ord[a[1]]>> PROVE a \in FreeBlocks
  <2>1. PICK o \in Order : a[1] \in Range(freelist[o])
    BY <1>8, <1>2, Zenon
  <2>2. ord[a[1]] = o
    BY <2>1, <1>6, Zenon
  <2> QED
    BY <2>1, <2>2, <1>8, <1>4, Zenon
<1>9. ASSUME NEW a \in Deferred PROVE a = <<a[1], ord[a[1]]>> /\ \E c \in BuddyCpu : a[1] \in Range(waitlist[c])
  <2>1. PICK c \in BuddyCpu : \E w \in Range(waitlist[c]) : a = <<w, ord[w]>>
    BY <1>5, Zenon
  <2>2. PICK w \in Range(waitlist[c]) : a = <<w, ord[w]>>
    BY <2>1, Zenon
  <2>3. a[1] = w
    BY <2>2, <1>3, Zenon
  <2> QED
    BY <2>2, <2>3, Zenon
<1>10. \A c \in BuddyCpu : \A w \in Range(waitlist[c]) : <<w, ord[w]>> \in Deferred
  BY <1>5, Zenon
<1>11. \A a \in used : a = <<a[1], ord[a[1]]>> /\ a[1] \in HeldHeads
  BY HeldFacts, Zenon
<1> QED
  BY <1>7, <1>8, <1>9, <1>10, <1>11, Zenon

LEMMA BlocksAre ==
    ASSUME BuddyInv
    PROVE  /\ \A a \in Blocks : a = <<a[1], ord[a[1]]>> /\ a[1] \in FreeHeads \cup HeldHeads
           /\ \A w \in FreeHeads \cup HeldHeads : <<w, ord[w]>> \in Blocks
<1>1. \A a \in Blocks : a = <<a[1], ord[a[1]]>> /\ a[1] \in FreeHeads \cup HeldHeads
  BY BlockIs, HeldFacts, Zenon DEF Blocks
<1>2. ASSUME NEW w \in FreeHeads PROVE <<w, ord[w]>> \in Blocks
  <2>1. <<w, ord[w]>>[1] = w
    OBVIOUS
  <2>2. <<w, ord[w]>> \in FreeBlocks
    BY <2>1, <1>2, BlockIs, Zenon
  <2> QED
    BY <2>2, Zenon DEF Blocks
<1>3. ASSUME NEW w \in HeldHeads PROVE <<w, ord[w]>> \in Blocks
  BY BlockIs, Zenon DEF Blocks, HeldHeads
<1> QED
  BY <1>1, <1>2, <1>3, Zenon

LEMMA ExtentIs ==
    ASSUME BuddyInv, NEW x \in FreeHeads \cup HeldHeads
    PROVE  Extent(<<x, ord[x]>>) = x .. x + Sz(ord[x]) - 1
  BY Zenon DEF Extent, Pages, Sz

\* No page twice, none lost.
LEMMA PartitionHolds ==
    ASSUME BuddyInv PROVE Partition
<1>1. /\ BuddyTypes /\ FreeLists /\ WaitLists /\ freelist \in [Order -> Seq(Index)] /\ waitlist \in [BuddyCpu -> Seq(Index)]
      /\ ord \in [Index -> Order] /\ tag \in [Index -> {"USED", "FREE"}] /\ boot \in Int
      /\ Placed(FreeHeads \cup HeldHeads, boot, ord) /\ AllTiled(FreeHeads \cup HeldHeads, boot, ord)
  BY BuddyFacts DEF Good, BuddyTypes
<1>2. PICK B : B = FreeHeads \cup HeldHeads
  BY Zenon
<1>3. \A x \in B :
          /\ x \in Index /\ x \in Nat /\ ord[x] \in Nat /\ Sz(ord[x]) \in Nat \ {0}
          /\ FirstIdx <= x /\ x + Sz(ord[x]) <= boot /\ x < boot
          /\ \A y \in B : x < y => x + Sz(ord[x]) <= y
  <2>1. Placed(B, boot, ord) /\ ord \in [Index -> Order] /\ boot \in Int
    BY <1>1, <1>2, Zenon
  <2> QED
    BY <2>1, BlockFacts
<1>4. BuddyType
  <2>1. \A o \in Order : Range(freelist[o]) \subseteq Index
    <3>1. \A o \in Order : freelist[o] \in Seq(Index)
      BY <1>1, Zenon
    <3> QED
      BY <3>1, InRange, Zenon
  <2>2. \A c \in BuddyCpu : Range(waitlist[c]) \subseteq Index
    <3>1. \A c \in BuddyCpu : waitlist[c] \in Seq(Index)
      BY <1>1, Zenon
    <3> QED
      BY <3>1, InRange, Zenon
  <2> QED
    BY <2>1, <2>2, <1>1, Zenon DEF BuddyTypes, BuddyType
<1>5. \A a \in Blocks : a = <<a[1], ord[a[1]]>> /\ a[1] \in B /\ Extent(a) = a[1] .. a[1] + Sz(ord[a[1]]) - 1
  BY <1>2, BlocksAre, ExtentIs, Zenon
<1>6. ASSUME NEW a \in Blocks, NEW b \in Blocks, a # b PROVE Extent(a) \cap Extent(b) = {}
  <2>1. PICK x, y : x = a[1] /\ y = b[1]
    BY Zenon
  <2>2. x # y
    BY <2>1, <1>5, <1>6, Zenon
  <2>3. PICK p, q : p = Sz(ord[x]) /\ q = Sz(ord[y])
    BY Zenon
  <2>4. Extent(a) = x .. x + p - 1 /\ Extent(b) = y .. y + q - 1
    BY <2>1, <2>3, <1>5, Zenon
  <2>5. x \in B /\ y \in B
    BY <2>1, <1>5, Zenon
  <2>6. /\ x \in Nat /\ y \in Nat /\ p \in Nat /\ q \in Nat
        /\ (x < y => x + p <= y) /\ (y < x => y + q <= x)
    BY <2>3, <2>5, <1>3
  <2>7. \A w : ~(w \in x .. x + p - 1 /\ w \in y .. y + q - 1)
    BY <2>2, <2>6
  <2> QED
    BY <2>4, <2>7, Zenon
<1>7. UNION {Extent(b) : b \in Blocks} = FirstIdx .. boot - 1
  <2>1. ASSUME NEW b \in Blocks, NEW w \in Extent(b) PROVE w \in FirstIdx .. boot - 1
    <3>1. PICK x, p : x = b[1] /\ p = Sz(ord[x])
      BY Zenon
    <3>2. w \in x .. x + p - 1 /\ x \in B
      BY <3>1, <1>5, <2>1, Zenon
    <3>3. x \in Nat /\ p \in Nat /\ FirstIdx <= x /\ x + p <= boot
      BY <3>1, <3>2, <1>3
    <3> QED
      BY <3>2, <3>3, <1>1, BuddyConstants
  <2>2. ASSUME NEW w \in FirstIdx .. boot - 1 PROVE \E b \in Blocks : w \in Extent(b)
    <3>1. PICK x \in B : x <= w /\ w < x + Sz(ord[x])
      BY <1>1, <1>2, Zenon DEF AllTiled
    <3>2. PICK p : p = Sz(ord[x])
      BY Zenon
    <3>3. w \in Int
      BY <1>1, BuddyConstants
    <3>4. x \in Nat /\ p \in Nat /\ x <= w /\ w < x + p
      BY <3>1, <3>2, <1>3
    <3>5. w \in x .. x + p - 1
      BY <3>3, <3>4
    <3>6. x \in FreeHeads \cup HeldHeads
      BY <3>1, <1>2, Zenon
    <3>7. <<x, ord[x]>> \in Blocks /\ Extent(<<x, ord[x]>>) = x .. x + p - 1
      BY <3>2, <3>6, BlocksAre, ExtentIs, Zenon
    <3> QED
      BY <3>5, <3>7, Zenon
  <2>3. \A w : w \in UNION {Extent(b) : b \in Blocks} <=> \E b \in Blocks : w \in Extent(b)
    BY Zenon
  <2>4. \A w : w \in UNION {Extent(b) : b \in Blocks} <=> w \in FirstIdx .. boot - 1
    BY <2>1, <2>2, <2>3, Zenon
  <2> QED
    BY <2>4, Zenon
<1>8. /\ \A a \in FreeBlocks : tag[a[1]] = "FREE"
      /\ \A a \in Deferred : tag[a[1]] = "USED"
      /\ \A a \in used : tag[a[1]] = "USED"
  BY BlockIs, HeldFacts, Zenon
<1>9. FreeBlocks \cap Deferred = {}
  BY <1>8
<1>10. used \cap (FreeBlocks \cup Deferred) = {}
  <2>1. \A a \in used : a \notin FreeBlocks
    BY <1>8
  <2>2. \A a \in used : a \notin Deferred
    BY <1>1, BlockIs, Zenon DEF WaitLists
  <2> QED
    BY <2>1, <2>2, Zenon
<1>11. \A o \in Order : IsInjective(freelist[o])
  BY <1>1, Zenon DEF FreeLists
<1> QED
  BY <1>4, <1>6, <1>7, <1>9, <1>10, <1>11, Zenon DEF Partition

\* A page inside a free block is the upper half of one order, and says so.
LEMMA HalfIsMarked ==
    ASSUME BuddyInv, NEW x \in FreeHeads, NEW o \in Nat, o < ord[x]
    PROVE  ord[x + Sz(o)] = o /\ tag[x + Sz(o)] = "FREE"
<1>1. /\ ord \in [Index -> Order] /\ boot \in Int /\ boot <= MaxIdx
      /\ Good(FreeHeads, HeldHeads, boot, ord, tag)
  BY BuddyFacts
<1>2. PICK B : B = FreeHeads \cup HeldHeads
  BY Zenon
<1>3. Placed(B, boot, ord) /\ x \in B
  BY <1>1, <1>2, Zenon DEF Good
<1>4. PICK m, s, h : m = ord[x] /\ s = Sz(m) /\ h = x + Sz(o)
  BY Zenon
<1>5. /\ x \in Index /\ x \in Nat /\ m \in Nat /\ s \in Nat \ {0} /\ FirstIdx <= x /\ x + s <= boot
      /\ x % Sz(m) = 0 /\ \A y \in B : x < y => x + s <= y
  <2>1. /\ x \in Index /\ x \in Nat /\ ord[x] \in Nat /\ Sz(ord[x]) \in Nat \ {0}
        /\ FirstIdx <= x /\ x + Sz(ord[x]) <= boot /\ x % Sz(ord[x]) = 0
        /\ \A y \in B : x < y => x + Sz(ord[x]) <= y
    BY <1>1, <1>3, BlockFacts
  <2> QED
    BY <2>1, <1>4, Zenon
<1>6. PICK p : p = Sz(o) /\ p \in Nat \ {0}
  BY SzFacts
<1>7. o + 1 \in Nat /\ o + 1 <= m
  BY <1>4, <1>5
<1>8. p < s
  <2>1. Sz(o + 1) = 2 * p
    BY <1>6, SzFacts
  <2>2. Sz(o + 1) <= Sz(m)
    BY <1>5, <1>7, PowMonotone, Zenon DEF Sz
  <2> QED
    BY <2>1, <2>2, <1>4, <1>5, <1>6
<1>9. h = x + p
  BY <1>4, <1>6
<1>10. h \in FirstIdx .. boot - 1 /\ h \in Int /\ x < h /\ h < x + s /\ h \in Index
  BY <1>1, <1>5, <1>6, <1>8, <1>9, BuddyConstants DEF Index
<1>11. h \notin B
  <2>1. h \in Int /\ x + s \in Int /\ ~(x + s <= h)
    BY <1>5, <1>10
  <2> QED
    BY <2>1, <1>5, <1>10, Zenon
<1>12. h \notin FreeHeads /\ h \notin HeldHeads
  BY <1>2, <1>11, Zenon
<1>13. tag[h] = "FREE" /\ Upper(h, ord[h])
  BY <1>1, <1>10, <1>12, Zenon DEF Good, Marked
<1>14. Upper(h, o)
  <2>1. x \in Int
    BY <1>5
  <2>2. x % Sz(o + 1) = 0
    BY <1>5, <1>7, <2>1, SzAligned, Zenon
  <2>3. Upper(x + Sz(o), o)
    BY <2>1, <2>2, UpperHalf, Zenon
  <2> QED
    BY <2>3, <1>4, Zenon
<1>15. ord[h] \in Nat
  BY <1>1, <1>10, BuddyConstants, Zenon
<1>16. ord[h] = o
  BY <1>10, <1>13, <1>14, <1>15, UpperUnique, Zenon
<1> QED
  BY <1>4, <1>13, <1>16, Zenon

LEMMA HeadersHold ==
    ASSUME BuddyInv PROVE HeadersIntact
<1>1. ord \in [Index -> Order]
  BY BuddyFacts
<1>2. ASSUME NEW b \in FreeBlocks
      PROVE  /\ tag[b[1]] = "FREE" /\ ord[b[1]] = b[2]
             /\ \A o \in 0 .. b[2] - 1 : ord[b[1] + 2^o] = o /\ tag[b[1] + 2^o] = "FREE"
  <2>1. b[1] \in FreeHeads /\ b = <<b[1], ord[b[1]]>>
    BY BlockIs, Zenon
  <2>2. ord[b[1]] = b[2]
    <3>1. <<b[1], ord[b[1]]>>[2] = ord[b[1]]
      OBVIOUS
    <3> QED
      BY <2>1, <3>1, Zenon
  <2>3. tag[b[1]] = "FREE" /\ b[1] \in Index
    BY <2>1, HeldFacts, Zenon
  <2>4. b[2] \in Nat
    BY <1>1, <2>2, <2>3, BuddyConstants
  <2>5. ASSUME NEW o \in 0 .. b[2] - 1 PROVE ord[b[1] + 2^o] = o /\ tag[b[1] + 2^o] = "FREE"
    <3>1. o \in Nat /\ o < ord[b[1]]
      BY <2>2, <2>4
    <3>2. ord[b[1] + Sz(o)] = o /\ tag[b[1] + Sz(o)] = "FREE"
      BY <2>1, <3>1, HalfIsMarked, Zenon
    <3> QED
      BY <3>2, Zenon DEF Sz
  <2> QED
    BY <2>2, <2>3, <2>5, Zenon
<1>3. \A b \in used : tag[b[1]] = "USED" /\ ord[b[1]] = b[2]
  BY HeldFacts, Zenon
<1>4. \A b \in Deferred : tag[b[1]] = "USED"
  BY BlockIs, HeldFacts, Zenon
<1> QED
  BY <1>2, <1>3, <1>4, Zenon DEF HeadersIntact

LEMMA CoalescedHolds ==
    ASSUME BuddyInv PROVE Coalesced
<1>1. /\ ord \in [Index -> Order] /\ boot \in Int /\ Good(FreeHeads, HeldHeads, boot, ord, tag)
      /\ NoTwins(FreeHeads, -1, ord)
  BY BuddyFacts
<1>2. SUFFICES ASSUME NEW b \in FreeBlocks, b[2] < Orders - 1, <<BuddyOf(b[1], b[2]), b[2]>> \in FreeBlocks
               PROVE  FALSE
  BY Zenon DEF Coalesced
<1>3. PICK x, m : x = b[1] /\ m = b[2]
  BY Zenon
<1>4. PICK y : y = BuddyOf(x, m)
  BY Zenon
<1>5. x \in FreeHeads /\ ord[x] = m /\ m < Orders - 1
  <2>1. b[1] \in FreeHeads /\ b = <<b[1], ord[b[1]]>>
    BY BlockIs, Zenon
  <2>2. <<b[1], ord[b[1]]>>[2] = ord[b[1]]
    OBVIOUS
  <2> QED
    BY <2>1, <2>2, <1>2, <1>3, Zenon
<1>6. y \in FreeHeads /\ ord[y] = m
  <2>1. <<y, m>> \in FreeBlocks
    BY <1>2, <1>3, <1>4, Zenon
  <2>2. <<y, m>>[1] = y /\ <<y, m>>[2] = m /\ <<y, ord[y]>>[2] = ord[y]
    OBVIOUS
  <2>3. <<y, m>>[1] \in FreeHeads /\ <<y, m>> = <<<<y, m>>[1], ord[<<y, m>>[1]]>>
    BY <2>1, BlockIs, Zenon
  <2>4. y \in FreeHeads /\ <<y, m>> = <<y, ord[y]>>
    BY <2>2, <2>3, Zenon
  <2> QED
    BY <2>4
<1>7. /\ x \in Int /\ y \in Int /\ x # -1 /\ y # -1 /\ m \in Nat /\ Sz(m) \in Nat \ {0} /\ x % Sz(m) = 0
  <2>1. PICK B : B = FreeHeads \cup HeldHeads
    BY Zenon
  <2>2. Placed(B, boot, ord) /\ x \in B /\ y \in B
    BY <2>1, <1>1, <1>5, <1>6, Zenon DEF Good
  <2>3. x \in Nat /\ ord[x] \in Nat /\ Sz(ord[x]) \in Nat \ {0} /\ x % Sz(ord[x]) = 0
    BY <2>2, <1>1, BlockFacts
  <2>4. y \in Nat
    BY <2>2, <1>1, BlockFacts
  <2>5. x \in Int /\ y \in Int /\ x # -1 /\ y # -1
    BY <2>3, <2>4
  <2> QED
    BY <2>3, <2>5, <1>5, Zenon
<1>8. Base(x, m) = x
  <2>1. x <= x /\ x < x + Sz(m)
    BY <1>7
  <2> QED
    BY <2>1, <1>7, BaseOf, Zenon
<1>9. \/ x % Sz(m + 1) = 0 /\ y = x + Sz(m)
      \/ y = x - Sz(m) /\ y % Sz(m + 1) = 0
  BY <1>4, <1>7, <1>8, BuddyHalf, Zenon
<1>10. ~Twins(x, y, ord) /\ ~Twins(y, x, ord)
  BY <1>1, <1>5, <1>6, <1>7, Zenon DEF NoTwins
<1>11. CASE x % Sz(m + 1) = 0 /\ y = x + Sz(m)
  BY <1>11, <1>10, <1>5, <1>6, Zenon DEF Twins
<1>12. CASE y = x - Sz(m) /\ y % Sz(m + 1) = 0
  <2>1. x = y + Sz(m)
    BY <1>12, <1>7
  <2> QED
    BY <2>1, <1>12, <1>10, <1>5, <1>6, Zenon DEF Twins
<1> QED
  BY <1>9, <1>11, <1>12

\* The page allocator of buddy.cpp keeps its pool exact: whatever CPUs
\* allocate, free, defer and release, in whatever order, no page is lost or
\* handed out twice, the headers are those alloc() and coalesce() assert,
\* the ones alloc() splits by without writing included, and no two free
\* buddies stay apart.
THEOREM BuddyPoolExact == BuddySpec => []BuddySafe
<1>1. BuddyInit => BuddyInv
  BY BuddyStarts
<1>2. BuddyInv /\ [BuddyNext]_buddyVars => BuddyInv'
  BY BuddySteps
<1>3. BuddyInv => BuddySafe
  BY PartitionHolds, HeadersHold, CoalescedHolds, Zenon DEF BuddySafe
<1> QED
  BY <1>1, <1>2, <1>3, PTL DEF BuddySpec
=============================================================================
