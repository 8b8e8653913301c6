------------------------------ MODULE Discovery ------------------------------
(***************************************************************************)
(* What the kernel learns from the firmware on its first boot: Acpi::init  *)
(* walks RSDP, RSDT and the tables, Pci::init enumerates the functions of  *)
(* the PCI hierarchy, the DMAR table hands functions, I/O APICs and HPETs  *)
(* to their remapping units, and the CPUs are numbered and, on AArch64,    *)
(* started, from the MADT or, without ACPI, from the board description.    *)
(*                                                                         *)
(* All firmware memory is read through ONE temporary window, Hptp::map     *)
(* (two superpages at MMAP_CPU_TMAP): the next map moves the window away   *)
(* from whatever an earlier pointer named.  The model keeps the window and *)
(* reads every table through it, so a read that comes after the window has *)
(* moved yields Junk.                                                      *)
(*                                                                         *)
(* PCI functions are numbered as requester ids, with DevNum devices of     *)
(* FnNum functions on a bus (32 and 8 in the hardware).                    *)
(***************************************************************************)
EXTENDS Integers, Sequences, FiniteSets, SequencesExt

CONSTANTS
    Firmwares,     \* the firmware descriptions the boot may find
    MaxTables,     \* RSDT entries that are looked at (64)
    MaxCpus,       \* NUM_CPU
    MaxGsi,        \* NUM_GSI
    DevNum, FnNum, \* devices of a bus, functions of a device
    NoUnit         \* no remapping unit

ASSUME DiscoveryAssumption ==
    /\ {MaxTables, MaxCpus, MaxGsi, DevNum, FnNum} \subseteq Nat \ {0}
    /\ \A f \in Firmwares : f.arch \in {"x86", "arm"}

VARIABLES
    fw,        \* the firmware of this boot
    at,        \* the parse function that runs
    window,    \* what Hptp::map shows: the table of an RSDT entry, or one of these
    pos,       \* the entry of the table that is parsed next
    tables,    \* the copied RSDT entries (local array of 64)
    found,     \* Acpi::tables: signature -> position in the RSDT, 0 without
    psci,      \* Psci::states # 0
    cpus,      \* the number each CPU was given: pairs of number and CPU
    count,     \* Cpu::count
    bootCpu,   \* Cpu::boot_cpu
    ioapics,   \* Ioapic::list
    gsis,      \* Interrupt::int_table[].ioapic, 0 without
    pin,       \* Interrupt::pin
    hpets,     \* Hpet::list
    cfgBase,   \* Pci::cfg_base has been set
    pci,       \* Pci::list
    scan,      \* the activations of Pci::init
    nova       \* pairs of a unit and a function it has in Space_dma::nova

fwvars == <<fw, at, window, pos, tables, found, psci>>
cpuvars == <<cpus, count, bootCpu>>
irqvars == <<ioapics, gsis, pin, hpets>>
pcivars == <<cfgBase, pci, scan, nova>>
discoveryVars == <<fwvars, cpuvars, irqvars, pcivars>>

(***************************************************************************)
(* What the window shows besides a table: the RSDT, or something else (the *)
(* FACS, a page of PCI configuration space, the page of the start vector). *)
(***************************************************************************)
RsdtShown == 0
Elsewhere == -1

Signatures == {"APIC", "DMAR", "FACP", "HPET", "MCFG"}

(***************************************************************************)
(* The order of Acpi::init and Acpi_arch::parse_tables.                    *)
(***************************************************************************)
ParseOrder == [x86 |-> <<"FACP", "HPET", "APIC", "MCFG", "DMAR">>,
               arm |-> <<"FACP", "APIC">>]

(***************************************************************************)
(* Reading through the window: the entries of the table that is shown, if  *)
(* it is the one the pointer was made for.                                 *)
(***************************************************************************)
Shown(sig) == IF window \in 1 .. Len(fw.rsdt) /\ fw.rsdt[window].sig = sig
              THEN fw.rsdt[window].body ELSE <<[type |-> "junk"]>>

DiscoveryInit ==
    /\ fw \in Firmwares
    /\ at = "rsdp" /\ window = Elsewhere /\ pos = 1 /\ tables = <<>>
    /\ found = [s \in Signatures |-> 0] /\ psci = FALSE
    /\ cpus = {} /\ count = 0 /\ bootCpu = 0
    /\ ioapics = <<>> /\ gsis = [g \in 0 .. MaxGsi - 1 |-> 0] /\ pin = 0
    /\ hpets = <<>> /\ cfgBase = FALSE /\ pci = <<>> /\ scan = <<>> /\ nova = {}

(***************************************************************************)
(* The parse function after the one for table s; "wake" ends Acpi::init.   *)
(***************************************************************************)
AfterTable(s) ==
    LET order == ParseOrder[fw.arch]
        i == CHOOSE k \in 1 .. Len(order) : order[k] = s
    IN  IF i < Len(order) THEN order[i + 1] ELSE "wake"

(***************************************************************************)
(* Acpi::init up to the RSDT: the pointer UEFI gave or, on x86, the one    *)
(* found by probing; without a valid RSDP there is no ACPI, and only the   *)
(* AArch64 kernel has another source, Fdt::init.                           *)
(***************************************************************************)
DRsdp ==
    /\ at = "rsdp"
    /\ LET ok == fw.rsdp \in {"uefi"} \cup (IF fw.arch = "x86" THEN {"probe"} ELSE {})
       IN  /\ window' = IF ok THEN RsdtShown ELSE window
           /\ at' = IF ok THEN "rsdt" ELSE IF fw.arch = "arm" THEN "fdt" ELSE "done"
    /\ UNCHANGED <<fw, pos, tables, found, psci, cpuvars, irqvars, pcivars>>

(***************************************************************************)
(* Acpi_table_rsdt::parse copies the entries before it maps any of them.   *)
(***************************************************************************)
DRsdt ==
    /\ at = "rsdt"
    /\ tables' = IF fw.rsdtOk /\ window = RsdtShown
                 THEN [i \in 1 .. (IF Len(fw.rsdt) < MaxTables THEN Len(fw.rsdt) ELSE MaxTables) |-> i]
                 ELSE <<>>
    /\ at' = "collect"
    /\ UNCHANGED <<fw, window, pos, found, psci, cpuvars, irqvars, pcivars>>

(***************************************************************************)
(* The second loop: every entry is mapped and validated; a good one is     *)
(* recorded under its signature, over an earlier one of that signature.    *)
(***************************************************************************)
DCollect ==
    /\ at = "collect"
    /\ IF pos <= Len(tables)
       THEN LET t == fw.rsdt[tables[pos]] IN
            /\ window' = tables[pos] /\ pos' = pos + 1
            /\ found' = IF t.ok /\ t.sig \in Signatures
                        THEN [found EXCEPT ![t.sig] = tables[pos]] ELSE found
            /\ UNCHANGED at
       ELSE /\ at' = "FACP" /\ pos' = 1
            /\ UNCHANGED <<window, found>>
    /\ UNCHANGED <<fw, tables, psci, cpuvars, irqvars, pcivars>>

(***************************************************************************)
(* Acpi_table_fadt::parse: tables from before ACPI 2.0 are ignored; on     *)
(* AArch64 the boot flags say whether PSCI can be used.  The FACS is then  *)
(* mapped and only traced.                                                 *)
(***************************************************************************)
DFadt ==
    /\ at = "FACP"
    /\ IF found["FACP"] = 0 THEN UNCHANGED <<window, psci>>
       ELSE LET t == fw.rsdt[found["FACP"]].body[1] IN
            /\ window' = IF t.long THEN Elsewhere ELSE found["FACP"]
            /\ psci' = (fw.arch = "arm" /\ t.long /\ t.psci)
    /\ at' = AfterTable("FACP")
    /\ UNCHANGED <<fw, pos, tables, found, cpuvars, irqvars, pcivars>>

(***************************************************************************)
(* Acpi_table_hpet::parse.                                                 *)
(***************************************************************************)
DHpet ==
    /\ at = "HPET"
    /\ IF found["HPET"] = 0 THEN UNCHANGED <<window, hpets>>
       ELSE /\ window' = found["HPET"]
            /\ hpets' = LET t == fw.rsdt[found["HPET"]].body[1]
                        IN  IF t.mmio THEN Append(hpets, [id |-> t.id, rid |-> 0]) ELSE hpets
    /\ at' = AfterTable("HPET")
    /\ UNCHANGED <<fw, pos, tables, found, psci, cpuvars, ioapics, gsis, pin, pcivars>>

(***************************************************************************)
(* The table s is mapped when its parse function is called; a missing one  *)
(* is skipped.                                                             *)
(***************************************************************************)
DMap(s) ==
    /\ at = s /\ pos = 1
    /\ \/ found[s] = 0 /\ at' = AfterTable(s) /\ UNCHANGED window
       \/ found[s] # 0 /\ window # found[s] /\ window' = found[s] /\ UNCHANGED at
    /\ UNCHANGED <<fw, pos, tables, found, psci, cpuvars, irqvars, pcivars>>

(***************************************************************************)
(* One entry e of the table s that is being parsed.                        *)
(***************************************************************************)
Entry(s, e) ==
    /\ at = s /\ found[s] # 0 /\ (pos > 1 \/ window = found[s])
    /\ pos <= Len(fw.rsdt[found[s]].body)
    /\ e = IF pos <= Len(Shown(s)) THEN Shown(s)[pos] ELSE [type |-> "junk"]

Entries(s) == {Shown(s)[i] : i \in 1 .. Len(Shown(s))} \cup {[type |-> "junk"]}

(***************************************************************************)
(* The next number is given to CPU id.                                     *)
(***************************************************************************)
NextCpu(id) == cpus' = cpus \cup {<<count, id>>} /\ count' = count + 1

(***************************************************************************)
(* Controller_lapic::parse: numbers are given in table order, up to        *)
(* NUM_CPU.                                                                *)
(***************************************************************************)
DLapic(e) ==
    /\ e.type = "lapic"
    /\ IF count < MaxCpus /\ e.usable THEN NextCpu(e.id) ELSE UNCHANGED <<cpus, count>>
    /\ UNCHANGED <<bootCpu, irqvars>>

(***************************************************************************)
(* Controller_ioapic::parse: the pins of the controller become the         *)
(* interrupts gsi .. gsi + mre, cut off at NUM_GSI.                        *)
(***************************************************************************)
DIoapic(e) ==
    LET end == IF e.gsi + e.mre + 1 < MaxGsi THEN e.gsi + e.mre + 1 ELSE MaxGsi IN
    /\ e.type = "ioapic"
    /\ ioapics' = Append(ioapics, [id |-> e.id, bdf |-> 0])
    /\ gsis' = [g \in DOMAIN gsis |-> IF g \in e.gsi .. end - 1 THEN Len(ioapics) + 1 ELSE gsis[g]]
    /\ pin' = IF end > pin THEN end ELSE pin
    /\ UNCHANGED <<cpuvars, hpets>>

(***************************************************************************)
(* Psci::boot_cpu: the outcome of CPU_ON for one CPU.  The CPU that runs   *)
(* this code is already on.                                                *)
(***************************************************************************)
BootCpu(n, answer) ==
    /\ bootCpu' = IF answer = "already_on" THEN n ELSE bootCpu
    /\ answer \in {"already_on", "success", "failure"}

(***************************************************************************)
(* Mutation of DGicc: a CPU that could not be started is counted, too.     *)
(***************************************************************************)
DGiccCounts(e) ==
    /\ e.type = "gicc"
    /\ IF e.enabled /\ ~e.parked /\ psci
       THEN BootCpu(count, e.answer) /\ NextCpu(e.id)
       ELSE UNCHANGED cpuvars
    /\ UNCHANGED irqvars

(***************************************************************************)
(* Controller_gicc::parse: an enabled CPU without the parking protocol is  *)
(* started as the next number, which is kept only if the start succeeds.   *)
(***************************************************************************)
DGicc(e) ==
    /\ e.type = "gicc"
    /\ IF e.enabled /\ ~e.parked /\ psci
       THEN /\ BootCpu(count, e.answer)
            /\ IF e.answer # "failure" THEN NextCpu(e.id) ELSE UNCHANGED <<cpus, count>>
       ELSE UNCHANGED cpuvars
    /\ UNCHANGED irqvars

(***************************************************************************)
(* Acpi_table_madt::parse, one structure at a time.                        *)
(***************************************************************************)
DMadt ==
    /\ \E e \in Entries("APIC") :
          /\ Entry("APIC", e)
          /\ \/ DLapic(e) \/ DIoapic(e) \/ DGicc(e)
             \/ e.type \in {"junk", "other"} /\ UNCHANGED <<cpuvars, irqvars>>
    /\ pos' = pos + 1
    /\ UNCHANGED <<fw, at, window, tables, found, psci, pcivars>>

(***************************************************************************)
(* The end of the MADT or DMAR loop.                                       *)
(***************************************************************************)
DEnd(s) ==
    /\ at = s /\ found[s] # 0 /\ (pos > 1 \/ window = found[s])
    /\ pos > Len(fw.rsdt[found[s]].body) \/ (s = "DMAR" /\ fw.nosmmu)
    /\ at' = AfterTable(s) /\ pos' = 1
    /\ UNCHANGED <<fw, window, tables, found, psci, cpuvars, irqvars, pcivars>>

PerBus == DevNum * FnNum
Bus(r) == r \div PerBus

(***************************************************************************)
(* Acpi_table_mcfg::parse reads all allocations, keeps the one of segment  *)
(* 0, and only then starts the enumeration, which moves the window, and    *)
(* starts it without such an allocation, too.                              *)
(***************************************************************************)
DMcfg ==
    /\ at = "MCFG" /\ found["MCFG"] # 0 /\ window = found["MCFG"] /\ pos = 1
    /\ cfgBase' = \E i \in 1 .. Len(Shown("MCFG")) : Shown("MCFG")[i].seg = 0
    /\ scan' = <<[r |-> 0, end |-> PerBus, lev |-> 0]>>
    /\ at' = "pci"
    /\ UNCHANGED <<fw, window, pos, tables, found, psci, cpuvars, irqvars, pci, nova>>

(***************************************************************************)
(* What Pci::init takes for configuration space: without a base address,   *)
(* the memory at address 0.                                                *)
(***************************************************************************)
ConfigSpace == IF cfgBase THEN fw.pci ELSE fw.mem

(***************************************************************************)
(* One turn of the loop in Pci::init: the function is probed through the   *)
(* window, appended to the list at the level of this activation; a bridge  *)
(* is descended into before the loop goes on; the other functions of a     *)
(* device that has only one are skipped.                                   *)
(***************************************************************************)
PciProbe ==
    /\ at = "pci" /\ scan # <<>> /\ Last(scan).r < Last(scan).end
    /\ LET a == Last(scan)
           there == a.r \in DOMAIN ConfigSpace
           h == ConfigSpace[a.r]
           single == there /\ a.r % FnNum = 0 /\ ~h.multi
           back == [scan EXCEPT ![Len(scan)].r = @ + IF single THEN FnNum ELSE 1]
       IN  /\ window' = Elsewhere
           /\ pci' = IF there THEN Append(pci, [rid |-> a.r, lev |-> a.lev, smmu |-> NoUnit]) ELSE pci
           /\ scan' = IF there /\ h.bridge
                      THEN Append(back, [r |-> h.sec * PerBus, end |-> (h.sec + 1) * PerBus, lev |-> a.lev + 1])
                      ELSE back
    /\ UNCHANGED <<fw, at, pos, tables, found, psci, cpuvars, irqvars, cfgBase, nova>>

PciReturn ==
    /\ at = "pci" /\ scan # <<>> /\ Last(scan).r >= Last(scan).end
    /\ scan' = Front(scan)
    /\ at' = IF Len(scan) = 1 THEN AfterTable("MCFG") ELSE at
    /\ UNCHANGED <<fw, window, pos, tables, found, psci, cpuvars, irqvars, cfgBase, pci, nova>>

(***************************************************************************)
(* Pci::claim_dev: the function r and the functions behind it, which are   *)
(* the entries that follow it in the list at a deeper level.               *)
(***************************************************************************)
ClaimDev(list, unit, r) ==
    LET is == {i \in 1 .. Len(list) : list[i].rid = r} IN
    IF is = {} THEN list
    ELSE LET i == CHOOSE k \in is : \A m \in is : k <= m IN
         [k \in 1 .. Len(list) |->
            IF k = i \/ (k > i /\ \A m \in i + 1 .. k : list[m].lev > list[i].lev)
            THEN [list[k] EXCEPT !.smmu = unit] ELSE list[k]]

(***************************************************************************)
(* Pci::claim_all: every function nobody has claimed.                      *)
(***************************************************************************)
ClaimAll(list, unit) ==
    [i \in 1 .. Len(list) |->
        IF list[i].smmu = NoUnit THEN [list[i] EXCEPT !.smmu = unit] ELSE list[i]]

(***************************************************************************)
(* Ioapic::claim_dev and Hpet::claim_dev: the first unclaimed device with  *)
(* that id takes the source id r.                                          *)
(***************************************************************************)
ClaimIoapic(list, r, id) ==
    LET is == {i \in 1 .. Len(list) : list[i].id = id /\ list[i].bdf = 0} IN
    IF is = {} THEN list ELSE [list EXCEPT ![CHOOSE k \in is : \A m \in is : k <= m].bdf = r]

ClaimHpet(list, r, id) ==
    LET is == {i \in 1 .. Len(list) : list[i].id = id /\ list[i].rid = 0} IN
    IF is = {} THEN list ELSE [list EXCEPT ![CHOOSE k \in is : \A m \in is : k <= m].rid = r]

(***************************************************************************)
(* Remapping_drhd::parse: a catch-all unit first takes what is unclaimed,  *)
(* then the scopes are claimed in order.                                   *)
(***************************************************************************)
DDrhd(e) ==
    LET start == IF e.all THEN ClaimAll(pci, e.unit) ELSE pci
        Claim(list, s) == IF s.type \in {"ep", "bridge"} THEN ClaimDev(list, e.unit, s.dev) ELSE list
        Io(list, s) == IF s.type = "ioapic" THEN ClaimIoapic(list, s.dev, s.id) ELSE list
        Hp(list, s) == IF s.type = "hpet" THEN ClaimHpet(list, s.dev, s.id) ELSE list
    IN  /\ e.type = "drhd"
        /\ pci' = FoldLeft(Claim, start, e.scopes)
        /\ ioapics' = FoldLeft(Io, ioapics, e.scopes)
        /\ hpets' = FoldLeft(Hp, hpets, e.scopes)
        /\ UNCHANGED <<gsis, pin, nova>>

(***************************************************************************)
(* Remapping_rmrr::parse: an endpoint whose unit is known by now is given  *)
(* the kernel's DMA space, in which the reserved region has been mapped.   *)
(***************************************************************************)
DRmrr(e) ==
    /\ e.type = "rmrr"
    /\ nova' = nova \cup {<<pci[i].smmu, pci[i].rid>> : i \in {k \in 1 .. Len(pci) :
                    /\ pci[k].smmu # NoUnit
                    /\ \E n \in 1 .. Len(e.scopes) :
                          e.scopes[n].type = "ep" /\ e.scopes[n].dev = pci[k].rid}}
    /\ UNCHANGED <<pci, irqvars>>

(***************************************************************************)
(* Acpi_table_dmar::parse, one structure at a time; Cmdline::nosmmu skips  *)
(* them all.                                                               *)
(***************************************************************************)
DDmar ==
    /\ ~fw.nosmmu
    /\ \E e \in Entries("DMAR") :
          /\ Entry("DMAR", e)
          /\ \/ DDrhd(e) \/ DRmrr(e)
             \/ e.type \in {"junk", "other"} /\ UNCHANGED <<irqvars, pci, nova>>
    /\ pos' = pos + 1
    /\ UNCHANGED <<fw, at, window, tables, found, psci, cpuvars, cfgBase, scan>>

(***************************************************************************)
(* The end of Acpi::init: on x86 wake_prepare maps the page of the start   *)
(* vector, then the FACS.                                                  *)
(***************************************************************************)
DWake ==
    /\ at = "wake"
    /\ at' = "done" /\ window' = IF fw.arch = "x86" THEN Elsewhere ELSE window
    /\ UNCHANGED <<fw, pos, tables, found, psci, cpuvars, irqvars, pcivars>>

(***************************************************************************)
(* Fdt::init, one turn of a loop over Board::cpu: with a spin table every  *)
(* CPU is released, takes the lowest part of its affinity for its number,  *)
(* and is counted; otherwise PSCI starts CPU i as number i, and only those *)
(* that start are counted.                                                 *)
(***************************************************************************)
DFdt ==
    /\ at = "fdt"
    /\ IF pos <= Len(fw.board)
       THEN LET c == fw.board[pos] IN
            /\ IF fw.spin THEN UNCHANGED bootCpu ELSE BootCpu(pos - 1, c.answer)
            /\ IF fw.spin \/ c.answer # "failure"
               THEN /\ cpus' = cpus \cup {<<IF fw.spin THEN c.aff ELSE pos - 1, c.id>>}
                    /\ count' = count + 1
               ELSE UNCHANGED <<cpus, count>>
            /\ pos' = pos + 1 /\ psci' = ~fw.spin
            /\ UNCHANGED at
       ELSE at' = "done" /\ UNCHANGED <<pos, psci, cpuvars>>
    /\ UNCHANGED <<fw, window, tables, found, irqvars, pcivars>>

DiscoveryNext ==
    \/ DRsdp \/ DRsdt \/ DCollect \/ DFadt \/ DHpet
    \/ \E s \in {"APIC", "MCFG", "DMAR"} : DMap(s)
    \/ DMadt \/ DMcfg \/ PciProbe \/ PciReturn \/ DDmar
    \/ \E s \in {"APIC", "DMAR"} : DEnd(s)
    \/ DWake \/ DFdt

DiscoverySpec == DiscoveryInit /\ [][DiscoveryNext]_discoveryVars

-----------------------------------------------------------------------------
(***************************************************************************)
(* What the firmware means.                                                *)
(***************************************************************************)
Good(sig) == {i \in 1 .. Len(fw.rsdt) :
                fw.rsdtOk /\ i <= MaxTables /\ fw.rsdt[i].ok /\ fw.rsdt[i].sig = sig}
Acpi == fw.rsdp = "uefi" \/ (fw.arch = "x86" /\ fw.rsdp = "probe")
Body(sig) == IF ~Acpi \/ Good(sig) = {} THEN <<>>
             ELSE fw.rsdt[CHOOSE i \in Good(sig) : \A k \in Good(sig) : k <= i].body

(***************************************************************************)
(* The functions above r in the PCI hierarchy, by bus numbers.             *)
(***************************************************************************)
BridgeTo(b) == {r \in DOMAIN fw.pci : fw.pci[r].bridge /\ fw.pci[r].sec = b}
Buses == {0} \cup {fw.pci[r].sec : r \in {f \in DOMAIN fw.pci : fw.pci[f].bridge}}
Above(r) ==
    LET up[b \in Buses] == IF b = 0 THEN {} ELSE BridgeTo(b) \cup UNION {up[Bus(p)] : p \in BridgeTo(b)}
    IN  up[Bus(r)]

(***************************************************************************)
(* The structures of the DMAR table that count, and the remapping units    *)
(* among the first n of them that are in charge of function r: those that  *)
(* name it or a bridge above it, else the catch-all units.                 *)
(***************************************************************************)
Dmar == IF fw.nosmmu THEN <<>> ELSE Body("DMAR")

UnitsFor(r, n) ==
    LET drhds == {i \in 1 .. n : Dmar[i].type = "drhd"}
        named == {i \in drhds : \E k \in 1 .. Len(Dmar[i].scopes) :
                    /\ Dmar[i].scopes[k].type \in {"ep", "bridge"}
                    /\ Dmar[i].scopes[k].dev \in {r} \cup Above(r)}
        rest == {i \in drhds : Dmar[i].all}
    IN  {Dmar[i].unit : i \in IF named # {} THEN named ELSE rest}

(***************************************************************************)
(* After discovery the functions in the list are the ones of the PCI       *)
(* hierarchy, each in the hands of the unit the DMAR table means for it,   *)
(* however buses, levels and scopes are ordered; and a device with a       *)
(* reserved region is configured for it in the unit that the structures    *)
(* before that region's put in charge of it, which is its unit in the end  *)
(* when the regions come after the units.  Needs an MCFG table with an     *)
(* allocation for segment 0: without one Pci::init takes the memory at     *)
(* address 0 for configuration space (Pci::init, Pci::claim_all and        *)
(* claim_dev, Remapping_drhd::parse and Remapping_rmrr::parse).            *)
(***************************************************************************)
ClaimsExact ==
    at = "done" /\ (\E i \in 1 .. Len(Body("MCFG")) : Body("MCFG")[i].seg = 0) =>
        LET reserved == {<<k, r>> \in (1 .. Len(Dmar)) \X DOMAIN fw.pci :
                /\ Dmar[k].type = "rmrr" /\ UnitsFor(r, k - 1) # {}
                /\ \E n \in 1 .. Len(Dmar[k].scopes) :
                      Dmar[k].scopes[n].type = "ep" /\ Dmar[k].scopes[n].dev = r}
            last(p) == \A i \in p[1] .. Len(Dmar) : Dmar[i].type # "drhd"
        IN  /\ {pci[i].rid : i \in 1 .. Len(pci)} = DOMAIN fw.pci
            /\ Len(pci) = Cardinality(DOMAIN fw.pci)
            /\ \A i \in 1 .. Len(pci) :
                  LET units == UnitsFor(pci[i].rid, Len(Dmar))
                  IN  pci[i].smmu \in IF units = {} THEN {NoUnit} ELSE units
            /\ \A x \in nova : \E p \in reserved : p[2] = x[2] /\ x[1] \in UnitsFor(p[2], p[1] - 1)
            /\ \A p \in reserved : \E x \in nova : x[2] = p[2] /\ x[1] \in UnitsFor(p[2], p[1] - 1)
            /\ \A p \in reserved : last(p) =>
                  \E i \in 1 .. Len(pci) : pci[i].rid = p[2] /\ <<pci[i].smmu, p[2]>> \in nova

(***************************************************************************)
(* After discovery Cpu::count is the number of CPUs that were released or  *)
(* started, no usable CPU below the limit is missing, boot_cpu is the      *)
(* number of the CPU that ran, and the numbers below the count stand for   *)
(* different CPUs that run under exactly that number (remote calls,        *)
(* barriers and hypercalls index by it).  The last does not hold, and is   *)
(* not claimed, when PSCI fails to start a CPU of a board description:     *)
(* Fdt::init goes by position and leaves a hole (Controller_lapic::parse,  *)
(* Controller_gicc::parse, Psci::boot_cpu, Fdt::init).                     *)
(***************************************************************************)
UsableCpus(src) == SelectSeq(src, LAMBDA e :
    \/ e.type = "lapic" /\ e.usable
    \/ e.type = "gicc" /\ e.enabled /\ ~e.parked /\ psci /\ e.answer # "failure"
    \/ e.type = "board" /\ (fw.spin \/ e.answer # "failure"))

CpusExact ==
    at = "done" =>
        LET src == IF Acpi THEN Body("APIC") ELSE IF fw.arch = "arm" THEN fw.board ELSE <<>>
            all == UsableCpus(src)
            want == IF fw.arch = "x86" /\ Len(all) > MaxCpus THEN SubSeq(all, 1, MaxCpus) ELSE all
            hole == ~Acpi /\ fw.arch = "arm" /\ Len(want) < Len(src)
        IN  /\ count = Len(want) /\ {p[2] : p \in cpus} = {want[i].id : i \in 1 .. Len(want)}
            /\ Cardinality(cpus) = count
            /\ ~hole => {p[1] : p \in cpus} = 0 .. count - 1
            /\ \A i \in 1 .. Len(want) :
                  fw.arch = "arm" /\ want[i].answer = "already_on" /\ ~(~Acpi /\ fw.spin) =>
                      <<bootCpu, want[i].id>> \in cpus

(***************************************************************************)
(* After discovery an interrupt line belongs to the I/O APIC whose pins    *)
(* cover it, the line count covers all of them, and an I/O APIC or HPET    *)
(* carries the source id the DMAR table gives it.                          *)
(***************************************************************************)
LinesExact ==
    at = "done" =>
        LET es == SelectSeq(Body("APIC"), LAMBDA e : e.type = "ioapic")
            scopes == UNION {{Dmar[i].scopes[n] : n \in 1 .. Len(Dmar[i].scopes)} :
                              i \in {k \in 1 .. Len(Dmar) : Dmar[k].type = "drhd"}}
            ids(t) == {<<s.id, s.dev>> : s \in {x \in scopes : x.type = t}}
        IN  /\ \A g \in DOMAIN gsis :
                  IF \E i \in 1 .. Len(es) : g \in es[i].gsi .. es[i].gsi + es[i].mre
                  THEN gsis[g] # 0 /\ g \in es[gsis[g]].gsi .. es[gsis[g]].gsi + es[gsis[g]].mre
                  ELSE gsis[g] = 0
            /\ \A g \in DOMAIN gsis : gsis[g] # 0 => g < pin
            /\ \A i \in 1 .. Len(ioapics) : ioapics[i].bdf # 0 => <<ioapics[i].id, ioapics[i].bdf>> \in ids("ioapic")
            /\ \A p \in ids("ioapic") : \A i \in 1 .. Len(ioapics) : ioapics[i].id = p[1] => ioapics[i].bdf = p[2]
            /\ \A i \in 1 .. Len(hpets) : hpets[i].rid # 0 => <<hpets[i].id, hpets[i].rid>> \in ids("hpet")

(***************************************************************************)
(* Types.                                                                  *)
(***************************************************************************)
DiscoveryType ==
    /\ at \in Signatures \cup {"rsdp", "rsdt", "collect", "pci", "wake", "fdt", "done"}
    /\ found \in [Signatures -> 0 .. MaxTables]
    /\ count \in Nat /\ (fw.arch = "x86" => count <= MaxCpus) /\ pin \in 0 .. MaxGsi
    /\ at # "pci" => scan = <<>>

(***************************************************************************)
(* The platform the kernel believes in is the one the firmware describes:  *)
(* claims on PCI functions, CPU numbers, interrupt lines and source ids    *)
(* after Acpi::init or Fdt::init, with the exceptions that the three name, *)
(* in whatever order tables and entries come.                              *)
(***************************************************************************)
DiscoveryExact == DiscoveryType /\ ClaimsExact /\ CpusExact /\ LinesExact
=============================================================================
