------------------------------ MODULE SmmuVtd ------------------------------
(***************************************************************************)
(* The IOMMU of x86_64: src/x86_64/smmu.cpp and inc/x86_64/smmu.hpp.        *)
(*                                                                         *)
(* Device assignment (sys_assign_dev, Smmu::configure) rewrites the context *)
(* entry of a device, interrupt assignment (Smmu::set_irt) an entry of the  *)
(* remapping table.  The unit caches both; software makes it forget through *)
(* the invalidation queue, a ring of QSize descriptors.  The unit executes  *)
(* descriptors and fills its caches at any time, and loses both over a      *)
(* sleep, while the tables and Smmu::invq_idx stay in memory.               *)
(***************************************************************************)
EXTENDS Naturals, FiniteSets

CONSTANTS
    Devs,           \* devices (bus, device and function)
    Dmas,           \* DMA spaces
    Irqs,           \* entries of the interrupt remapping table
    Dests,          \* destinations of interrupts
    Absent,         \* not present
    Callers,        \* CPUs that execute sys_assign_dev and sys_assign_int
    QSize,          \* cnt
    Serial,         \* user mode makes one call at a time
    WrapResume      \* a sleep may begin with invq_idx at one of the last two slots

ASSUME VtdAssumption ==
    /\ Absent \notin Dmas \cup Dests /\ QSize \in Nat \ {0, 1, 2}
    /\ Serial \in BOOLEAN /\ WrapResume \in BOOLEAN

VARIABLES
    vctx,           \* context entry of each device, in memory
    vcc,            \* the unit's context cache
    virt, viec,     \* remapping entries in memory, and the unit's cache
    vq,             \* the invalidation queue
    vidx,           \* Smmu::invq_idx
    viqh, viqt,     \* IQH and IQT
    vcall,          \* per CPU: what it is doing
    vwait,          \* per CPU: the tail qi_wait has read
    vqi,            \* has_qi(): the unit has an invalidation queue
    vdev, virq      \* history: what the last call that returned asked for

vtdvars == <<vctx, vcc, virt, viec, vq, vidx, viqh, viqt, vcall, vwait, vqi, vdev, virq>>

QSlots == 0..(QSize - 1)
QNext(s) == (s + 1) % QSize
NoCall == [op |-> "idle"]

VtdType ==
    /\ vctx \in [Devs -> Dmas \cup {Absent}] /\ vcc \in [Devs -> Dmas \cup {Absent}]
    /\ virt \in [Irqs -> Dests \cup {Absent}] /\ viec \in [Irqs -> Dests \cup {Absent}]
    /\ vq \in [QSlots -> {"none", "ctx", "tlb", "iec"}]
    /\ vidx \in QSlots /\ viqh \in QSlots /\ viqt \in QSlots /\ vwait \in [Callers -> QSlots]
    /\ vqi \in BOOLEAN
    /\ vdev \in [Devs -> Dmas \cup {Absent}] /\ virq \in [Irqs -> Dests \cup {Absent}]

VtdInit ==
    /\ vctx = [d \in Devs |-> Absent] /\ vcc = vctx /\ vdev = vctx
    /\ virt = [i \in Irqs |-> Absent] /\ viec = virt /\ virq = virt
    /\ vq = [s \in QSlots |-> "none"] /\ vidx = 0 /\ viqh = 0 /\ viqt = 0
    /\ vcall = [c \in Callers |-> NoCall] /\ vwait = [c \in Callers |-> 0]
    /\ vqi \in BOOLEAN

Doing(c, op, k) == vcall' = [vcall EXCEPT ![c] = [k EXCEPT !.op = op]]

MayCall(c) == vcall[c] = NoCall /\ (Serial => \A d \in Callers : vcall[d] = NoCall)

-----------------------------------------------------------------------------
(* Device assignment.                                                      *)

\* Mutation of VClear: the entry is replaced in one go, and invalidated after.
VClearReplace(c, d, s) ==
    /\ MayCall(c)
    /\ vcall' = [vcall EXCEPT ![c] = [op |-> "set", dev |-> d, dma |-> s]]
    /\ vdev' = [vdev EXCEPT ![d] = Absent]
    /\ UNCHANGED <<vqi, vctx, vcc, virt, viec, vq, vidx, viqh, viqt, vwait, virq>>

\* Smmu::configure: the entry of the device is made absent ...
VClear(c, d, s) ==
    /\ MayCall(c)
    /\ vctx' = [vctx EXCEPT ![d] = Absent]
    /\ vcall' = [vcall EXCEPT ![c] = [op |-> "ctx", dev |-> d, dma |-> s]]
    /\ vdev' = [vdev EXCEPT ![d] = Absent]
    /\ UNCHANGED <<vqi, vcc, virt, viec, vq, vidx, viqh, viqt, vwait, virq>>

\* ... and once the caches are clean it is set.
VSet(c) ==
    LET k == vcall[c]
    IN  /\ k.op = "set"
        /\ vctx' = [vctx EXCEPT ![k.dev] = k.dma]
        /\ vdev' = [vdev EXCEPT ![k.dev] = k.dma]
        /\ vcall' = [vcall EXCEPT ![c] = NoCall]
        /\ UNCHANGED <<vqi, vcc, virt, viec, vq, vidx, viqh, viqt, vwait, virq>>

-----------------------------------------------------------------------------
(* Interrupt assignment.                                                   *)

\* Smmu::set_irt writes the entry (remapping implies a queue) ...
VSetIrt(c, i, x) ==
    /\ MayCall(c) /\ vqi
    /\ virt' = [virt EXCEPT ![i] = x]
    /\ vcall' = [vcall EXCEPT ![c] = [op |-> "iec", irq |-> i, dst |-> x]]
    /\ virq' = [virq EXCEPT ![i] = Absent]
    /\ UNCHANGED <<vqi, vctx, vcc, viec, vq, vidx, viqh, viqt, vwait, vdev>>

\* ... and returns after the invalidation.
VIrtDone(c) ==
    LET k == vcall[c]
    IN  /\ k.op = "irt"
        /\ virq' = [virq EXCEPT ![k.irq] = k.dst]
        /\ vcall' = [vcall EXCEPT ![c] = NoCall]
        /\ UNCHANGED <<vqi, vctx, vcc, virt, viec, vq, vidx, viqh, viqt, vwait, vdev>>

-----------------------------------------------------------------------------
(* The invalidation queue.                                                 *)

\* What follows the descriptor t of a call.
After(t) == CASE t = "ctx" -> "tlb" [] OTHER -> "wait"

\* qi_submit.
QiSubmit(c) ==
    LET k == vcall[c]
        n == QNext(vidx)
    IN  /\ vqi /\ k.op \in {"ctx", "tlb", "iec"}
        /\ vq' = [vq EXCEPT ![vidx] = k.op]
        /\ vidx' = n /\ viqt' = n
        /\ Doing(c, After(k.op), k)
        /\ UNCHANGED <<vqi, vctx, vcc, virt, viec, viqh, vwait, vdev, virq>>

\* qi_wait reads the tail ...
QiTail(c) ==
    LET k == vcall[c]
    IN  /\ k.op = "wait" /\ vwait' = [vwait EXCEPT ![c] = viqt]
        /\ Doing(c, "poll", k)
        /\ UNCHANGED <<vqi, vctx, vcc, virt, viec, vq, vidx, viqh, viqt, vdev, virq>>

\* ... and waits for the head to reach it.
QiPoll(c) ==
    LET k == vcall[c]
    IN  /\ k.op = "poll" /\ viqh = vwait[c]
        /\ Doing(c, IF "dev" \in DOMAIN k THEN "set" ELSE "irt", k)
        /\ UNCHANGED <<vqi, vctx, vcc, virt, viec, vq, vidx, viqh, viqt, vwait, vdev, virq>>

\* A unit without a queue: the context and the IOTLB command register, each
\* polled until the unit is done.
VCommand(c) ==
    LET k == vcall[c]
    IN  /\ ~vqi /\ k.op \in {"ctx", "tlb"}
        /\ vcc' = IF k.op = "ctx" THEN [d \in Devs |-> Absent] ELSE vcc
        /\ Doing(c, IF k.op = "ctx" THEN "tlb" ELSE "set", k)
        /\ UNCHANGED <<vqi, vctx, virt, viec, vq, vidx, viqh, viqt, vwait, vdev, virq>>

\* The unit executes the descriptor at the head; all are global.
VExecute ==
    /\ viqh # viqt /\ vq[viqh] # "none"
    /\ viqh' = QNext(viqh)
    /\ vcc' = IF vq[viqh] = "ctx" THEN [d \in Devs |-> Absent] ELSE vcc
    /\ viec' = IF vq[viqh] = "iec" THEN [i \in Irqs |-> Absent] ELSE viec
    /\ UNCHANGED <<vqi, vctx, virt, vq, vidx, viqt, vcall, vwait, vdev, virq>>

\* A device accesses memory: its context entry is cached.
VFetch(d) ==
    /\ vcc[d] = Absent /\ vctx[d] # Absent
    /\ vcc' = [vcc EXCEPT ![d] = vctx[d]]
    /\ UNCHANGED <<vqi, vctx, virt, viec, vq, vidx, viqh, viqt, vcall, vwait, vdev, virq>>

\* A device raises an interrupt: its remapping entry is cached.
VRemap(i) ==
    /\ viec[i] = Absent /\ virt[i] # Absent
    /\ viec' = [viec EXCEPT ![i] = virt[i]]
    /\ UNCHANGED <<vqi, vctx, vcc, virt, vq, vidx, viqh, viqt, vcall, vwait, vdev, virq>>

\* A sleep, in which the unit forgets everything.
Asleep ==
    /\ \A c \in Callers : vcall[c] = NoCall
    /\ vcc' = [d \in Devs |-> Absent] /\ viec' = [i \in Irqs |-> Absent]
    /\ UNCHANGED <<vqi, vctx, virt, vcall, vwait, vdev, virq>>

\* Smmu::init on resume of a unit that invalidates by itself: IQT is reset,
\* invq_idx is not.  If it is at the end of the queue, the next tail wraps to
\* the head of the unit, which takes the queue for empty.
VResume ==
    /\ Asleep
    /\ vidx + 2 >= QSize => WrapResume
    /\ viqh' = 0 /\ viqt' = 0 /\ UNCHANGED <<vq, vidx>>

\* Smmu::init for other units: before remapping (ir), or translation (rt), is
\* enabled, it uses the queue, which starts again from slot 0, and waits.  No
\* one else uses the queue, so that this is one step; where it ends the unit is
\* in step with invq_idx, also if the first tail wrapped to its head.
VResumeFlush ==
    /\ vqi /\ Asleep
    /\ \E ir, rt \in BOOLEAN :
          LET q1 == IF ir THEN [vq EXCEPT ![vidx] = "iec"] ELSE vq
              n1 == IF ir THEN QNext(vidx) ELSE vidx
              q2 == IF rt THEN [q1 EXCEPT ![n1] = "ctx", ![QNext(n1)] = "tlb"] ELSE q1
              n2 == IF rt THEN QNext(QNext(n1)) ELSE n1
          IN  (ir \/ rt) /\ vq' = q2 /\ vidx' = n2 /\ viqh' = n2 /\ viqt' = n2

VtdNext ==
    \/ \E c \in Callers :
          \/ \E d \in Devs, s \in Dmas : VClear(c, d, s)
          \/ \E i \in Irqs, x \in Dests : VSetIrt(c, i, x)
          \/ VSet(c) \/ VIrtDone(c) \/ QiSubmit(c) \/ QiTail(c) \/ QiPoll(c) \/ VCommand(c)
    \/ VExecute \/ VResume \/ VResumeFlush
    \/ \E d \in Devs : VFetch(d)
    \/ \E i \in Irqs : VRemap(i)

VtdSpec == VtdInit /\ [][VtdNext]_vtdvars

-----------------------------------------------------------------------------
(* Properties.                                                             *)

\* When sys_assign_dev has returned, the device uses the space it was given
\* and no other, and when set_irt has returned, the interrupt goes where it
\* was sent: what the unit had cached before is gone, and the unit never
\* stops at a slot without a descriptor (configure,
\* invalidate_ctx, invalidate_iec, qi_submit, qi_wait, over any number of
\* turns of the queue and of sleeps).
AssignmentHolds ==
    /\ VtdType
    /\ \A d \in Devs : vdev[d] # Absent =>
          vctx[d] = vdev[d] /\ vcc[d] \in {Absent, vdev[d]}
    /\ \A i \in Irqs : virq[i] # Absent =>
          virt[i] = virq[i] /\ viec[i] \in {Absent, virq[i]}
    /\ viqh # viqt => vq[viqh] # "none"
=============================================================================
