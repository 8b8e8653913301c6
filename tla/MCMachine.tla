------------------------------ MODULE MCMachine ------------------------------
(***************************************************************************)
(* What a CPU carries over from one execution context to the next, and how *)
(* a machine is brought up: eight modules. A behaviour is one of one part;  *)
(* the others rest in one of their first states.                           *)
(*                                                                         *)
(* Machine: two threads and two vCPUs on one x86 CPU, one of each without  *)
(* FPU, and one vCPU with a TSC offset.  ArmVcpu: a thread and two vCPUs,  *)
(* one without FPU.  Both twice: once with what is computed in the FPU,    *)
(* and once with what is written to offsets and system registers.  Utcb:   *)
(* every kind of execution context.                                        *)
(* Cos: a CPU with L3 classes, and one with L2 classes and throttling.     *)
(* Intr: a pin, an MSI, an SPI and an SPI of a guest, two CPUs.  Gic: two  *)
(* CPUs, three SPIs (one of an SMMU), and a suspend.  Launch: every        *)
(* protocol, with up to two items or more.  Discovery: the tables below.   *)
(***************************************************************************)
EXTENDS Machine, ArmVcpu, Utcb, Cos, Intr, Gic, Launch, Discovery, TLC

CONSTANTS c0, c1, u1, u2, u3

VARIABLE part

-----------------------------------------------------------------------------
\* Cos: c0 has two L3 classes, c1 two L2 classes and one of bandwidth.
PerCpu(x, y) == [c \in KCpus |-> IF c = c0 THEN x ELSE y]
MCNumL3  == PerCpu(2, 0)
MCNumL2  == PerCpu(0, 2)
MCNumMb  == PerCpu(0, 1)
MCHcbL3  == PerCpu(2, 0)
MCHcbL2  == PerCpu(0, 0)
MCDelMb  == PerCpu(1, 1)
MCSupCfg == PerCpu({"l3"}, {"l2"})

\* Launch: lists of up to two items, and UEFI with a module and more.
MCItems ==
    BoundedSeq(Tags, 2) \cup
    {<<"sys", "modA", "img">>, <<"img", "modB", "sys", "modA">>}

\* Launch: segments that begin at, before and after a boundary in the file and
\* in memory, alone, after a header of another kind and one after the other,
\* and two that root may not have.
Ph(load, file, virt, fsize, msize) ==
    [load |-> load, file |-> file, virt |-> virt, fsize |-> fsize, msize |-> msize]
MCLoad ==
    {Ph(TRUE, 1, 3, 12, 12), Ph(TRUE, 8, 8, 12, 12)}
MCNote == Ph(FALSE, 1, 2, 0, 3)
MCImages ==
    {<<s>> : s \in MCLoad} \cup
    {<<>>, <<Ph(TRUE, 0, 1, 2, 2)>>, <<Ph(TRUE, 1, 1, 5, 5), Ph(TRUE, 6, 8, 1, 2)>>,
     <<MCNote, Ph(TRUE, 2, 4, 5, 5), MCNote, Ph(TRUE, 7, 9, 6, 6)>>,
     <<Ph(TRUE, 0, 8, 7, 7), Ph(TRUE, 7, 1, 4, 4), MCNote>>}

-----------------------------------------------------------------------------
\* Discovery: PCI functions.  Behind a bridge the numbers of a bus are read.
Fn(bridge, sec, multi) == [bridge |-> bridge, sec |-> sec, multi |-> multi]
Endpoint == Fn(FALSE, 0, FALSE)
Bridge(sec) == Fn(TRUE, sec, FALSE)

MCPcis ==
    {0 :> Endpoint @@ 2 :> Fn(TRUE, 1, TRUE) @@ 3 :> Endpoint @@ 4 :> Bridge(2)
       @@ 6 :> Endpoint @@ 8 :> Endpoint,
     0 :> Bridge(2) @@ 2 :> Bridge(1) @@ 4 :> Endpoint @@ 6 :> Fn(FALSE, 0, TRUE)
       @@ 7 :> Endpoint @@ 8 :> Bridge(3) @@ 12 :> Endpoint}

\* DMAR tables: units for a bridge or two devices, a unit for all that is left
\* (before or after them), and reserved memory regions, after the units or
\* before some of them.
Scope(type, dev, id) == [type |-> type, dev |-> dev, id |-> id]
Drhd(u, all, scopes) == [type |-> "drhd", unit |-> u, all |-> all, scopes |-> scopes]
Rmrr(dev) == [type |-> "rmrr", scopes |-> <<Scope("bridge", 2, 0), Scope("ep", dev, 0)>>]

MCDmars ==
    LET named == {<<>>} \cup {<<Drhd(u1, FALSE, <<Scope("bridge", d, 0)>>)>> : d \in {0, 2, 4}}
                 \cup {<<Drhd(u1, FALSE, <<Scope("ep", d, 0), Scope("hpet", 3, 7)>>),
                         Drhd(u2, FALSE, <<Scope("bridge", e, 0)>>)>> : d \in {3, 6, 7}, e \in {0, 4}}
        rest == {<<>>, <<Drhd(u3, TRUE, <<Scope("ioapic", 5, 1)>>)>>,
                 <<Drhd(u3, TRUE, <<Scope("ioapic", 5, 2), Scope("ioapic", 6, 1)>>)>>}
    IN  {n \o r \o m : n \in named, r \in rest, m \in {<<>>, <<Rmrr(6)>>}}
        \cup {r \o n \o <<Rmrr(3), [type |-> "other"]>> : n \in named, r \in rest}
        \cup {r \o <<Rmrr(6)>> \o n : n \in named, r \in rest}

\* x86: more CPUs than there is room for; tables of the wrong length or sum,
\* and a second MADT, which must not count; an RSDT that is no good, an MCFG
\* without segment 0, and "nosmmu" on the command line.
Table(sig, ok, body) == [sig |-> sig, ok |-> ok, body |-> body]
Lapic(id, usable) == [type |-> "lapic", id |-> id, usable |-> usable]
IoApic(id, gsi, mre) == [type |-> "ioapic", id |-> id, gsi |-> gsi, mre |-> mre]
Fadt(long, hasPsci) == <<[type |-> "facp", long |-> long, psci |-> hasPsci]>>
Alloc(seg) == [type |-> "alloc", seg |-> seg]

MCMadts ==
    {<<Lapic(10, TRUE), Lapic(11, x), IoApic(1, 0, 1), Lapic(12, TRUE), IoApic(2, 2, m)>> :
        x \in BOOLEAN, m \in {0, 2}}

X86(r, ok, t, p, no) ==
    [arch |-> "x86", rsdp |-> r, rsdtOk |-> ok, rsdt |-> t, pci |-> p, nosmmu |-> no,
     mem |-> 1 :> Endpoint @@ 2 :> Bridge(2), board |-> <<>>, spin |-> FALSE]

MCX86 ==
    {X86("uefi", TRUE, <<Table("FACP", TRUE, Fadt(TRUE, FALSE)), Table("APIC", TRUE, m),
                   Table("MCFG", TRUE, <<Alloc(1), Alloc(0)>>),
                   Table("HPET", TRUE, <<[type |-> "hpet", id |-> 7, mmio |-> TRUE]>>),
                   Table("XXXX", TRUE, <<>>), Table("DMAR", TRUE, d), Table("APIC", TRUE, <<>>)>>, p, FALSE) :
        m \in MCMadts, d \in MCDmars, p \in MCPcis}
    \cup {X86(r, rok, <<Table("APIC", TRUE, <<Lapic(9, TRUE)>>), Table("DMAR", ok, <<Drhd(u3, TRUE, <<>>)>>),
                        Table("APIC", ok, m), Table("MCFG", TRUE, <<Alloc(seg)>>)>>, p, no) :
        r \in {"none", "probe"}, rok \in BOOLEAN, ok \in BOOLEAN, m \in MCMadts, seg \in {0, 1},
        p \in MCPcis, no \in BOOLEAN}

\* AArch64: CPUs that are disabled, parked, already on or fail to start, with
\* and without ACPI, and CPUs of a board that spin, or fail to start.
Gicc(id, on, parked, answer) ==
    [type |-> "gicc", id |-> id, enabled |-> on, parked |-> parked, answer |-> answer]
Board(id, aff, answer) == [type |-> "board", id |-> id, aff |-> aff, answer |-> answer]

MCArm ==
    {[arch |-> "arm", rsdp |-> r, rsdtOk |-> ok, pci |-> <<>>, mem |-> <<>>, nosmmu |-> FALSE, spin |-> sp,
      rsdt |-> <<Table("FACP", TRUE, Fadt(l, TRUE)),
                 Table("APIC", TRUE, <<Gicc(1, e, FALSE, x), Gicc(2, TRUE, pk, "success"),
                                       Gicc(3, TRUE, FALSE, "already_on"), Gicc(4, TRUE, FALSE, y)>>)>>,
      board |-> <<Board(7, 1, y), Board(8, 0, "already_on"), Board(9, 2, x)>>] :
        r \in {"uefi", "probe"}, ok \in BOOLEAN, l \in BOOLEAN, e \in BOOLEAN, pk \in BOOLEAN,
        x \in {"success", "failure"}, y \in {"success", "failure"}, sp \in BOOLEAN}

\* No tables at all.
MCBare == X86("none", TRUE, <<>>, <<>>, FALSE)

MCFirmwares == MCX86 \cup MCArm \cup {MCBare}

-----------------------------------------------------------------------------
\* A part that rests does so in one of its first states.
MachinesInit ==
    /\ part \in {"fpu", "time", "armfpu", "arm", "utcb", "cos", "intr", "gic", "launch", "discovery"}
    /\ MachineInit /\ ArmInit /\ CosInit
    /\ UtcbInit /\ (part # "utcb" => ukind = "exc")
    /\ IntrInit /\ (part # "intr" => ikind = "pin" /\ icfg.cpu = c0)
    /\ GicInit  /\ (part # "gic" => gver = 2 /\ gframes[1].cpu = c0 /\ gen = [n \in Spis |-> FALSE]
                                    /\ \A i \in DOMAIN gframes : ~gframes[i].long)
    /\ LaunchInit /\ (part # "launch" =>
                        lin = [arch |-> "x86", proto |-> "lgc", items |-> <<>>, aligned |-> TRUE])
    /\ DiscoveryInit /\ (part # "discovery" => fw = MCBare)

MachinesNext ==
    /\ UNCHANGED part
    /\ \/ part = "fpu" /\ MachineNext /\ offset' = offset
          /\ UNCHANGED <<avars, uvars, kvars, ivars, gicVars, lvars, discoveryVars>>
       \/ part = "time" /\ MachineNext /\ fseen' = fseen
          /\ UNCHANGED <<avars, uvars, kvars, ivars, gicVars, lvars, discoveryVars>>
       \/ part = "armfpu" /\ ArmNext /\ aseen'.regs = aseen.regs /\ avoff' = avoff
          /\ UNCHANGED <<mvars, uvars, kvars, ivars, gicVars, lvars, discoveryVars>>
       \/ part = "arm" /\ ArmNext /\ aseen'.fpu = aseen.fpu
          /\ UNCHANGED <<mvars, uvars, kvars, ivars, gicVars, lvars, discoveryVars>>
       \/ part = "utcb" /\ UtcbNext
          /\ UNCHANGED <<mvars, avars, kvars, ivars, gicVars, lvars, discoveryVars>>
       \/ part = "cos" /\ CosNext
          /\ UNCHANGED <<mvars, avars, uvars, ivars, gicVars, lvars, discoveryVars>>
       \/ part = "intr" /\ IntrNext
          /\ UNCHANGED <<mvars, avars, uvars, kvars, gicVars, lvars, discoveryVars>>
       \/ part = "gic" /\ GicNext
          /\ UNCHANGED <<mvars, avars, uvars, kvars, ivars, lvars, discoveryVars>>
       \/ part = "launch" /\ LaunchNext
          /\ UNCHANGED <<mvars, avars, uvars, kvars, ivars, gicVars, discoveryVars>>
       \/ part = "discovery" /\ DiscoveryNext
          /\ UNCHANGED <<mvars, avars, uvars, kvars, ivars, gicVars, lvars>>

MachinesSpec ==
    MachinesInit
    /\ [][MachinesNext]_<<part, mvars, avars, uvars, kvars, ivars, gicVars, lvars, discoveryVars>>
=============================================================================
