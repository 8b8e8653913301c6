--------------------------------- MODULE Gic ---------------------------------
(***************************************************************************)
(* The interrupt controller of AArch64: every CPU initialises the          *)
(* distributor (v2 and v3), its redistributor (v3), its CPU interface and  *)
(* the virtual interface in Cpu::init, under the boot lock and the boot    *)
(* CPU first; then, without that lock, it configures the shared interrupts *)
(* (SPIs) assigned to it in Interrupt::init.  When all CPUs are up,        *)
(* assign_int reconfigures SPIs from any CPU.  A suspend loses the whole   *)
(* state of the controller; the assignments in int_table survive.          *)
(*                                                                         *)
(* The trigger bits of 16 SPIs and the targets of four share a register    *)
(* that Gicd::conf reads, changes and writes under Gicd::lock.  All SPIs   *)
(* of the model share them.  Redistributor frames follow each other in     *)
(* memory, one size or, with virtual LPIs, two sizes apart, in an order    *)
(* unrelated to the CPU numbers.                                           *)
(***************************************************************************)
EXTENDS Integers, Sequences, FiniteSets

CONSTANTS
    GCpus, GBoot,   \* CPUs, the boot CPU
    Spis,           \* shared interrupts
    SmmuSpis,       \* the ones an SMMU uses (left alone)
    GNone,          \* nobody: lock free, nothing running
    MaxAssign,      \* assign_int calls
    MaxSuspend      \* suspends

ASSUME GicAssumption ==
    /\ IsFiniteSet(GCpus) /\ GBoot \in GCpus /\ SmmuSpis \subseteq Spis
    /\ GNone \notin GCpus \cup Spis /\ {MaxAssign, MaxSuspend} \subseteq Nat

VARIABLES
    gver,       \* Gicd::arch: 2 or 3
    gframes,     \* the redistributor frames: CPU, and whether two sizes long
    gcpu,       \* CPU -> where it is
    glocal,     \* CPU -> [frame, sgis, awake, iface]: its private parts
    fwd,        \* GICD CTLR: forwarding is on
    gen, glvl, gtgt,  \* per SPI: enabled, level triggered, target
    gcfg,       \* int_table: SPI -> configuration
    gjob,       \* CPU -> the SPI and configuration Gicd::conf is called with
    gtmp,       \* CPU -> the shared register it has read
    glock,      \* Gicd::lock
    gtodo,       \* CPU -> SPIs Interrupt::init has still to look at
    gonline,    \* Cpu::online
    assigns, suspends

gicd == <<fwd, gen, glvl, gtgt>>
gicVars == <<gver, gframes, gcpu, glocal, gicd, gcfg, gjob, gtmp, glock, gtodo, gonline, assigns, suspends>>

GConfig == [cpu : GCpus, msk : BOOLEAN, lvl : BOOLEAN]
NoJob == [spi |-> GNone, cfg |-> [cpu |-> GBoot, msk |-> TRUE, lvl |-> FALSE]]
GLost == [frame |-> 0, sgis |-> FALSE, awake |-> FALSE, iface |-> FALSE, virt |-> FALSE]
GDefault == CHOOSE c \in GCpus : TRUE    \* CPU 0, not necessarily the boot CPU

(***************************************************************************)
(* The SPIs a CPU looks at in bootstrap, and the configuration it gives    *)
(* them: Interrupt::init leaves out the ones of SMMUs, which the boot CPU  *)
(* then takes itself in Smmu::init.                                        *)
(***************************************************************************)
ToConfigure(c) == IF c = GBoot THEN Spis ELSE Spis \ SmmuSpis
FaultConfig == [cpu |-> GBoot, msk |-> FALSE, lvl |-> TRUE]

(***************************************************************************)
(* The controller after a reset: anything the firmware left behind.        *)
(***************************************************************************)
GReset ==
    /\ fwd' \in BOOLEAN /\ gen' \in [Spis -> BOOLEAN]
    /\ glvl' = [s \in Spis |-> FALSE] /\ gtgt' = [s \in Spis |-> GNone]

GicInit ==
    /\ gver \in {2, 3}
    /\ gframes \in {f \in [1 .. Cardinality(GCpus) -> [cpu : GCpus, long : BOOLEAN]] :
                    {f[i].cpu : i \in DOMAIN f} = GCpus}
    /\ gcpu = [c \in GCpus |-> "lock"] /\ glocal = [c \in GCpus |-> GLost]
    /\ fwd = TRUE /\ gen \in [Spis -> BOOLEAN]
    /\ glvl = [s \in Spis |-> FALSE] /\ gtgt = [s \in Spis |-> GNone]
    /\ gcfg = [s \in Spis |-> [cpu |-> GDefault, msk |-> TRUE, lvl |-> FALSE]]
    /\ gjob = [c \in GCpus |-> NoJob] /\ gtmp = [c \in GCpus |-> glvl]
    /\ glock = GNone /\ gtodo = [c \in GCpus |-> ToConfigure(c)]
    /\ gonline = 0 /\ assigns = 0 /\ suspends = 0

GHeld == \E c \in GCpus : gcpu[c] \in {"dist", "groups", "redist", "iface", "virt"}

(***************************************************************************)
(* Cpu::init begins: the boot lock is handed over, the boot CPU first.     *)
(***************************************************************************)
GEnter(c) ==
    /\ gcpu[c] = "lock" /\ ~GHeld /\ (c # GBoot => gcpu[GBoot] # "lock")
    /\ gcpu' = [gcpu EXCEPT ![c] = "dist"]
    /\ UNCHANGED <<gver, gframes, glocal, gicd, gcfg, gjob, gtmp, glock, gtodo, gonline, assigns, suspends>>

(***************************************************************************)
(* Gicd::init_mmio: forwarding off; the boot CPU disables all SPIs, the    *)
(* others at most their private bank; v2 reads its own interface number    *)
(* and enables the SGIs; forwarding on.                                    *)
(***************************************************************************)
GDistOff(c) ==
    /\ gcpu[c] = "dist"
    /\ fwd' = FALSE
    /\ gcpu' = [gcpu EXCEPT ![c] = "groups"]
    /\ UNCHANGED <<gver, gframes, glocal, gen, glvl, gtgt, gcfg, gjob, gtmp, glock, gtodo, gonline, assigns, suspends>>

(***************************************************************************)
(* Mutation of GDistOn: every CPU disables the SPIs.                       *)
(***************************************************************************)
GDistOnAll(c) ==
    /\ gcpu[c] = "groups"
    /\ gen' = [s \in Spis |-> FALSE]
    /\ glocal' = [glocal EXCEPT ![c].sgis = (gver < 3), ![c].awake = (gver < 3)]
    /\ fwd' = TRUE
    /\ gcpu' = [gcpu EXCEPT ![c] = IF gver < 3 THEN "iface" ELSE "redist"]
    /\ UNCHANGED <<gver, gframes, glvl, gtgt, gcfg, gjob, gtmp, glock, gtodo, gonline, assigns, suspends>>

GDistOn(c) ==
    /\ gcpu[c] = "groups"
    /\ gen' = IF c = GBoot THEN [s \in Spis |-> FALSE] ELSE gen
    /\ glocal' = [glocal EXCEPT ![c].sgis = (gver < 3), ![c].awake = (gver < 3)]
    /\ fwd' = TRUE
    /\ gcpu' = [gcpu EXCEPT ![c] = IF gver < 3 THEN "iface" ELSE "redist"]
    /\ UNCHANGED <<gver, gframes, glvl, gtgt, gcfg, gjob, gtmp, glock, gtodo, gonline, assigns, suspends>>

(***************************************************************************)
(* Where the frames lie: frame i starts at Base(i), in units of 0x20000.   *)
(***************************************************************************)
FrameBase(i) == LET b[k \in 1 .. Len(gframes)] == IF k = 1 THEN 0 ELSE b[k - 1] + IF gframes[k - 1].long THEN 2 ELSE 1
           IN  b[i]
FrameAt(a) == IF \E i \in 1 .. Len(gframes) : FrameBase(i) = a
              THEN CHOOSE i \in 1 .. Len(gframes) : FrameBase(i) = a ELSE 0

(***************************************************************************)
(* Gicr::mmap_mmio walks from address a, by the size the frame reports,    *)
(* to the frame with the affinity of this CPU; the last frame ends it.     *)
(***************************************************************************)
FindFrame(c) ==
    LET walk[a \in 0 .. 2 * Len(gframes)] ==
            IF FrameAt(a) = 0 THEN 0
            ELSE IF gframes[FrameAt(a)].cpu = c THEN FrameAt(a)
            ELSE IF FrameAt(a) = Len(gframes) THEN 0
            ELSE walk[a + IF gframes[FrameAt(a)].long THEN 2 ELSE 1]
    IN  walk[0]

(***************************************************************************)
(* Gicr::init: on a first boot the frame is looked up (a CPU without one   *)
(* panics), a resume finds the mapping in place; private interrupts are    *)
(* disabled, the SGIs enabled, the CPU marked awake.                       *)
(***************************************************************************)
GRedist(c) ==
    /\ gcpu[c] = "redist"
    /\ LET f == IF suspends > 0 THEN glocal[c].frame ELSE FindFrame(c) IN
       /\ f # 0
       /\ glocal' = [glocal EXCEPT ![c].frame = f, ![c].sgis = TRUE, ![c].awake = TRUE]
    /\ gcpu' = [gcpu EXCEPT ![c] = "iface"]
    /\ UNCHANGED <<gver, gframes, gicd, gcfg, gjob, gtmp, glock, gtodo, gonline, assigns, suspends>>

(***************************************************************************)
(* Gicc::init, then Gich::init; Cpu::init then releases the boot lock.     *)
(***************************************************************************)
GIface(c) ==
    /\ gcpu[c] = "iface"
    /\ glocal' = [glocal EXCEPT ![c].iface = TRUE]
    /\ gcpu' = [gcpu EXCEPT ![c] = "virt"]
    /\ UNCHANGED <<gver, gframes, gicd, gcfg, gjob, gtmp, glock, gtodo, gonline, assigns, suspends>>

GVirt(c) ==
    /\ gcpu[c] = "virt"
    /\ glocal' = [glocal EXCEPT ![c].virt = TRUE]
    /\ gcpu' = [gcpu EXCEPT ![c] = "init"]
    /\ UNCHANGED <<gver, gframes, gicd, gcfg, gjob, gtmp, glock, gtodo, gonline, assigns, suspends>>

(***************************************************************************)
(* Interrupt::init: the next SPI, if it is assigned to this CPU, is        *)
(* configured; then, on the boot CPU, the fault interrupts of the SMMUs.   *)
(***************************************************************************)
GInitSpi(c, s) ==
    /\ gcpu[c] = "init" /\ s \in gtodo[c] /\ glock # c /\ gjob[c].spi = GNone
    /\ s \in SmmuSpis => gtodo[c] \subseteq SmmuSpis
    /\ gtodo' = [gtodo EXCEPT ![c] = @ \ {s}]
    /\ gjob' = IF s \in SmmuSpis THEN [gjob EXCEPT ![c] = [spi |-> s, cfg |-> FaultConfig]]
               ELSE IF gcfg[s].cpu = c THEN [gjob EXCEPT ![c] = [spi |-> s, cfg |-> gcfg[s]]] ELSE gjob
    /\ UNCHANGED <<gver, gframes, gcpu, glocal, gicd, gcfg, gtmp, glock, gonline, assigns, suspends>>

(***************************************************************************)
(* Gicd::conf: lock and mask ...                                           *)
(***************************************************************************)
GConfMask(c) ==
    /\ gjob[c].spi # GNone /\ glock = GNone
    /\ glock' = c
    /\ gen' = [gen EXCEPT ![gjob[c].spi] = FALSE]
    /\ gtmp' = [gtmp EXCEPT ![c] = glvl]
    /\ UNCHANGED <<gver, gframes, gcpu, glocal, fwd, glvl, gtgt, gcfg, gjob, gtodo, gonline, assigns, suspends>>

(***************************************************************************)
(* ... write the changed trigger register back, set the target, unmask if  *)
(* wanted, unlock.                                                         *)
(***************************************************************************)
GConfFinish(c) ==
    /\ gjob[c].spi # GNone /\ glock = c
    /\ LET s == gjob[c].spi  f == gjob[c].cfg IN
       /\ glvl' = [gtmp[c] EXCEPT ![s] = f.lvl]
       /\ gtgt' = [gtgt EXCEPT ![s] = f.cpu]
       /\ gen' = [gen EXCEPT ![s] = ~f.msk]
    /\ glock' = GNone /\ gjob' = [gjob EXCEPT ![c] = NoJob]
    /\ UNCHANGED <<gver, gframes, gcpu, glocal, fwd, gcfg, gtmp, gtodo, gonline, assigns, suspends>>

(***************************************************************************)
(* bootstrap: all SPIs seen to, the barrier is entered and, when everyone  *)
(* has arrived, left.                                                      *)
(***************************************************************************)
GArrive(c) ==
    /\ gcpu[c] = "init" /\ gtodo[c] = {} /\ gjob[c].spi = GNone
    /\ gonline' = gonline + 1 /\ gcpu' = [gcpu EXCEPT ![c] = "barrier"]
    /\ UNCHANGED <<gver, gframes, glocal, gicd, gcfg, gjob, gtmp, glock, gtodo, assigns, suspends>>

GRun(c) ==
    /\ gcpu[c] = "barrier" /\ gonline = Cardinality(GCpus)
    /\ gcpu' = [gcpu EXCEPT ![c] = "run"]
    /\ UNCHANGED <<gver, gframes, glocal, gicd, gcfg, gjob, gtmp, glock, gtodo, gonline, assigns, suspends>>

(***************************************************************************)
(* assign_int: Interrupt::configure records the configuration, then calls  *)
(* Gicd::conf.  Calls for one SPI do not overlap.                          *)
(***************************************************************************)
GAssign(c, s, f) ==
    /\ gcpu[c] = "run" /\ gjob[c].spi = GNone /\ assigns < MaxAssign
    /\ s \in Spis \ SmmuSpis /\ \A d \in GCpus : gjob[d].spi # s
    /\ assigns' = assigns + 1
    /\ gcfg' = [gcfg EXCEPT ![s] = f]
    /\ gjob' = [gjob EXCEPT ![c] = [spi |-> s, cfg |-> f]]
    /\ UNCHANGED <<gver, gframes, gcpu, glocal, gicd, gtmp, glock, gtodo, gonline, suspends>>

(***************************************************************************)
(* A suspend: all CPUs stop outside Gicd::conf, the controller loses its   *)
(* state, and every CPU comes back through Cpu::init.                      *)
(***************************************************************************)
GSuspend ==
    /\ suspends < MaxSuspend /\ \A c \in GCpus : gcpu[c] = "run" /\ gjob[c].spi = GNone
    /\ suspends' = suspends + 1 /\ gonline' = 0
    /\ GReset
    /\ gcpu' = [c \in GCpus |-> "lock"]
    /\ glocal' = [c \in GCpus |-> [GLost EXCEPT !.frame = glocal[c].frame]]
    /\ gtodo' = [c \in GCpus |-> ToConfigure(c)]
    /\ UNCHANGED <<gver, gframes, gcfg, gjob, gtmp, glock, assigns>>

GicNext ==
    \/ \E c \in GCpus :
          \/ GEnter(c) \/ GDistOff(c) \/ GDistOn(c) \/ GRedist(c) \/ GIface(c) \/ GVirt(c)
          \/ \E s \in Spis : GInitSpi(c, s)
          \/ GConfMask(c) \/ GConfFinish(c) \/ GArrive(c) \/ GRun(c)
          \/ \E s \in Spis, f \in GConfig : GAssign(c, s, f)
    \/ GSuspend

GicSpec == GicInit /\ [][GicNext]_gicVars

-----------------------------------------------------------------------------
GicType ==
    /\ gcpu \in [GCpus -> {"lock", "dist", "groups", "redist", "iface", "virt", "init", "barrier", "run"}]
    /\ gen \in [Spis -> BOOLEAN] /\ gcfg \in [Spis -> GConfig] /\ glock \in GCpus \cup {GNone}
    /\ gonline \in 0 .. Cardinality(GCpus)

(***************************************************************************)
(* As soon as a CPU runs (again), every SPI not being reconfigured at that *)
(* moment is enabled, triggered and routed as its configuration in         *)
(* int_table says, the fault interrupts of SMMUs reach the boot CPU,       *)
(* forwarding is on, and each CPU accepts remote requests through its own  *)
(* redistributor.                                                          *)
(***************************************************************************)
GicExact ==
    /\ GicType
    /\ (\E c \in GCpus : gcpu[c] = "run") =>
           /\ \A s \in Spis \ SmmuSpis :
                 (\A c \in GCpus : gjob[c].spi # s) =>
                     /\ gen[s] = ~gcfg[s].msk /\ glvl[s] = gcfg[s].lvl /\ gtgt[s] = gcfg[s].cpu
           /\ \A s \in SmmuSpis : gen[s] /\ glvl[s] /\ gtgt[s] = GBoot
           /\ fwd
           /\ \A c \in GCpus :
                 /\ glocal[c].sgis /\ glocal[c].awake /\ glocal[c].iface /\ glocal[c].virt
                 /\ gver >= 3 => gframes[glocal[c].frame].cpu = c
=============================================================================
