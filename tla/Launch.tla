------------------------------- MODULE Launch -------------------------------
(***************************************************************************)
(* The launch of NOVA on the boot CPU: src/x86_64/start.S,                 *)
(* src/aarch64/start.S, src/uefi.cpp and Ec::create_root in src/ec.cpp.    *)
(*                                                                         *)
(* A loader passes modules and a command line by one of three protocols.   *)
(* Under UEFI the boot services are left: devices stop mastering the bus,  *)
(* the memory map is fetched into a buffer that must be large enough, and  *)
(* ExitBootServices succeeds only while that map is current.  Then the     *)
(* image is mapped, and the first module becomes the root task.            *)
(***************************************************************************)
EXTENDS Naturals, Sequences, SequencesExt, FiniteSets

CONSTANTS
    LArchs,     \* "x86", "arm"
    LProtos,    \* protocols: "mb2", "mb1", "lgc" (the module in a register)
    LItems,     \* lists of items that loaders pass
    Mb1Arm,     \* multiboot v1 may pass a module on AArch64
    LDevices,   \* PCI devices the firmware drives
    LBehind,    \* those on a bus other than 0
    MaxEvents,  \* bound on firmware events that change the memory map
    LSizes,     \* sizes of the hypervisor image, in small pages
    LImages     \* root images, by their program headers: offset in the file, address
                \* and sizes, in half pages

Tags == {"cmd", "modA", "modB", "sys", "img", "other"}
Mods == {"modA", "modB"}
ProgramHeaders == [load : BOOLEAN, file : Nat, virt : Nat, fsize : Nat, msize : Nat]

ASSUME LaunchAssumption ==
    /\ LArchs \subseteq {"x86", "arm"} /\ LProtos \subseteq {"mb2", "mb1", "lgc"}
    /\ LItems \subseteq Seq(Tags) /\ MaxEvents \in Nat /\ LSizes \subseteq Nat \ {0}
    /\ LImages \subseteq Seq(ProgramHeaders)

Zero == "zero"              \* a null address
PerLarge == 2               \* small pages in a large page (scaled)
Slack == 2                  \* descriptors by which the buffer is made larger
Tries == 3                  \* attempts to get the memory map

VARIABLES
    lin,        \* what the loader passes: arch, proto, items, alignment
    lpc, lpos,  \* program counter; position in the items
    lcl, lra,   \* __boot_cl, __boot_ra
    lsys, limg, \* EFI system table and image handle found
    lfw,        \* firmware: services on, version and size of its map; devices with
                \* a driver, bus masters, and those it gives no access to
    lbuf,       \* buffer: size, version of the map in it (0: not filled)
    lkey, ltry, \* key returned with the map; attempts so far
    lmap,       \* Uefi::mmap: Zero, or the buffer at the time it was published
    lpt,        \* large pages of the image that are mapped
    lsize,      \* size of the image, fixed when it is looked at
    lseg,       \* root: its image, the next program header, what is left of the segment
    lroot,      \* root: chunks delegated to it
    lend        \* "run" when root runs, "none" when there is none

lvars == <<lin, lpc, lpos, lcl, lra, lsys, limg, lfw, lbuf, lkey, ltry, lmap, lpt, lsize,
           lseg, lroot, lend>>

NoSeg == [phys |-> 0, virt |-> 0, size |-> 0, im |-> <<>>, next |-> 1]
NoBuf == [size |-> 0, ver |-> 0]

\* The positions of the modules among the items, and the address of the first.
ModulesAt(items) == {i \in 1 .. Len(items) : items[i] \in Mods}
FirstModule(items) == IF ModulesAt(items) = {} THEN Zero ELSE items[Min(ModulesAt(items))]

\* Parameter p1: the information structure, or the module in a register.
P1 == IF lin.proto = "lgc" THEN FirstModule(lin.items) ELSE "info"

LaunchInit ==
    /\ lin \in [arch : LArchs, proto : LProtos, items : LItems, aligned : BOOLEAN]
    /\ lin.arch = "x86" => lin.aligned
    /\ lin.arch = "arm" /\ lin.proto = "mb1" /\ ~Mb1Arm => FirstModule(lin.items) = Zero
    /\ lpc = "entry" /\ lpos = 1 /\ lcl = Zero /\ lra = Zero /\ lsys = FALSE /\ limg = FALSE
    /\ lfw = [on |-> TRUE, ver |-> 1, size |-> 1, driven |-> LDevices, masters |-> LDevices,
              silent |-> LDevices]
    /\ lbuf = NoBuf /\ lkey = 0 /\ ltry = 0 /\ lmap = NoBuf /\ lpt = {} /\ lsize = 0
    /\ lseg = NoSeg /\ lroot = {} /\ lend = "boot"

LGo(pc) == lpc' = pc

-----------------------------------------------------------------------------
(* Boot parameters.                                                        *)

\* The boot CPU on x86: an unknown loader is refused.
LEntry ==
    /\ lpc = "entry" /\ lin.arch = "x86"
    /\ LGo(IF lin.proto = "lgc" THEN "halt" ELSE lin.proto)
    /\ UNCHANGED <<lin, lpos, lcl, lra, lsys, limg, lfw, lbuf, lkey, ltry, lmap, lpt, lsize, lseg, lroot, lend>>

\* On AArch64 a load address that is not aligned is refused.
LEntryArm ==
    /\ lpc = "entry" /\ lin.arch = "arm"
    /\ LGo(IF lin.aligned THEN lin.proto ELSE "halt")
    /\ UNCHANGED <<lin, lpos, lcl, lra, lsys, limg, lfw, lbuf, lkey, ltry, lmap, lpt, lsize, lseg, lroot, lend>>

\* The next multiboot v2 tag, with the module address it leaves.
Tag(arch, ra) ==
    /\ lpc = "mb2" /\ lin.arch = arch /\ lpos <= Len(lin.items) /\ lpos' = lpos + 1
    /\ LET t == lin.items[lpos]
       IN  /\ lcl' = IF t = "cmd" THEN t ELSE lcl
           /\ lra' = ra
           /\ lsys' = (lsys \/ t = "sys") /\ limg' = (limg \/ t = "img")
    /\ UNCHANGED <<lin, lpc, lfw, lbuf, lkey, ltry, lmap, lpt, lsize, lseg, lroot, lend>>

\* Mutation of LTag: the last module is taken.
LTagLast == Tag("x86", IF lin.items[lpos] \in Mods THEN lin.items[lpos] ELSE lra)

\* Of several modules the first counts, on x86 ...
LTag == Tag("x86", IF lin.items[lpos] \in Mods /\ lra = Zero THEN lin.items[lpos] ELSE lra)

\* ... and on AArch64.
LTagArm == Tag("arm", IF lin.items[lpos] \in Mods /\ lra = Zero THEN lin.items[lpos] ELSE lra)

\* The end of the tags: UEFI is left when both handles are known.
LTagEnd ==
    /\ lpc = "mb2" /\ lpos > Len(lin.items)
    /\ LGo(IF lsys /\ limg THEN "uefi" ELSE "paging")
    /\ UNCHANGED <<lin, lpos, lcl, lra, lsys, limg, lfw, lbuf, lkey, ltry, lmap, lpt, lsize, lseg, lroot, lend>>

\* Multiboot v1 on x86: command line and first module.
LMb1 ==
    /\ lpc = "mb1" /\ lin.arch = "x86" /\ LGo("paging")
    /\ lcl' = IF "cmd" \in Range(lin.items) THEN "cmd" ELSE lcl
    /\ lra' = FirstModule(lin.items)
    /\ UNCHANGED <<lin, lpos, lsys, limg, lfw, lbuf, lkey, ltry, lmap, lpt, lsize, lseg, lroot, lend>>

\* On AArch64 the code for a module runs on into the legacy launch.
LMb1Arm ==
    /\ lpc = "mb1" /\ lin.arch = "arm"
    /\ LGo(IF FirstModule(lin.items) = Zero THEN "paging" ELSE "lgc")
    /\ lcl' = IF "cmd" \in Range(lin.items) THEN "cmd" ELSE lcl
    /\ lra' = FirstModule(lin.items)
    /\ UNCHANGED <<lin, lpos, lsys, limg, lfw, lbuf, lkey, ltry, lmap, lpt, lsize, lseg, lroot, lend>>

\* Legacy launch: the module is at the second parameter.
LLegacy ==
    /\ lpc = "lgc" /\ lra' = P1 /\ LGo("paging")
    /\ UNCHANGED <<lin, lpos, lcl, lsys, limg, lfw, lbuf, lkey, ltry, lmap, lpt, lsize, lseg, lroot, lend>>

-----------------------------------------------------------------------------
(* Uefi::init.                                                             *)

\* The tables of the firmware are used only if they are valid.
LUefi ==
    /\ lpc = "uefi" /\ \E pc \in {"dev", "paging"} : LGo(pc)
    /\ UNCHANGED <<lin, lpos, lcl, lra, lsys, limg, lfw, lbuf, lkey, ltry, lmap, lpt, lsize, lseg, lroot, lend>>

\* An event in the firmware changes its memory map.
LEvent ==
    /\ lpc \in {"map", "exit"} /\ lfw.on /\ lfw.ver <= MaxEvents
    /\ \E n \in {0, Slack + 1} : lfw' = [lfw EXCEPT !.ver = @ + 1, !.size = @ + n]
    /\ UNCHANGED <<lin, lpc, lpos, lcl, lra, lsys, limg, lbuf, lkey, ltry, lmap, lpt, lsize, lseg, lroot, lend>>

\* A driver of the firmware uses its device.
LDriver ==
    /\ lpc \in {"dev", "quiet", "map", "exit"} /\ lfw.on
    /\ \E d \in lfw.driven \ lfw.masters : lfw' = [lfw EXCEPT !.masters = @ \cup {d}]
    /\ UNCHANGED <<lin, lpc, lpos, lcl, lra, lsys, limg, lbuf, lkey, ltry, lmap, lpt, lsize, lseg, lroot, lend>>

\* exit_boot_dev, first loop: drivers are disconnected from the devices behind
\* bridges, those that answer.
LDisconnect ==
    /\ lpc = "dev" /\ LGo("quiet")
    /\ \E S \in SUBSET LDevices : lfw' = [lfw EXCEPT !.silent = S, !.driven = @ \ (LBehind \ S)]
    /\ UNCHANGED <<lin, lpos, lcl, lra, lsys, limg, lbuf, lkey, ltry, lmap, lpt, lsize, lseg, lroot, lend>>

\* Second loop: bus mastering ends.
LQuiet ==
    /\ lpc = "quiet" /\ LGo("map")
    /\ lfw' = [lfw EXCEPT !.masters = @ \cap lfw.silent]
    /\ UNCHANGED <<lin, lpos, lcl, lra, lsys, limg, lbuf, lkey, ltry, lmap, lpt, lsize, lseg, lroot, lend>>

\* exit_boot_svc, one turn of the loop: the map fits, or the buffer is
\* replaced by a larger one, which may change the map.  A firmware whose map
\* does not fit may still return its key.
LGetMap ==
    /\ lpc = "map" /\ ltry < Tries /\ ltry' = ltry + 1
    /\ IF lbuf.size >= lfw.size
       THEN /\ lbuf' = [lbuf EXCEPT !.ver = lfw.ver] /\ lkey' = lfw.ver
            /\ LGo("exit") /\ UNCHANGED lfw
       ELSE /\ lbuf' = [size |-> lfw.size + Slack, ver |-> 0] /\ lkey' \in {lkey, lfw.ver}
            /\ \/ UNCHANGED lfw
               \/ \E n \in {0, 1} : lfw' = [lfw EXCEPT !.ver = @ + 1, !.size = @ + n]
            /\ LGo(IF ltry + 1 = Tries THEN "exit" ELSE "map")
    /\ UNCHANGED <<lin, lpos, lcl, lra, lsys, limg, lmap, lpt, lsize, lseg, lroot, lend>>

\* The firmware fails otherwise, or has no memory: nothing is published.
LGetMapFail ==
    /\ lpc = "map" /\ LGo("paging") /\ lbuf' = NoBuf
    /\ UNCHANGED <<lin, lpos, lcl, lra, lsys, limg, lfw, lkey, ltry, lmap, lpt, lsize, lseg, lroot, lend>>

\* The map is published and the services are left, if the key is current.
LExit ==
    /\ lpc = "exit" /\ LGo("paging")
    /\ lmap' = lbuf
    /\ lfw' = [lfw EXCEPT !.on = (lkey # lfw.ver)]
    /\ UNCHANGED <<lin, lpos, lcl, lra, lsys, limg, lbuf, lkey, ltry, lpt, lsize, lseg, lroot, lend>>

-----------------------------------------------------------------------------
(* Paging.                                                                 *)

\* The loop writes an entry and compares the next one, attributes included,
\* with the end of the image; addresses are in halves of small pages and the
\* attributes lie below one.
MapNext(arch) ==
    /\ lpc = "paging" /\ lin.arch = arch
    /\ lsize' \in IF lsize = 0 THEN LSizes ELSE {lsize}
    /\ LET next == Cardinality(lpt) + 1
       IN  /\ lpt' = lpt \cup {next - 1}
           /\ LGo(IF next * PerLarge * 2 + 1 < lsize' * 2 THEN "paging" ELSE "root")
    /\ UNCHANGED <<lin, lpos, lcl, lra, lsys, limg, lfw, lbuf, lkey, ltry, lmap, lseg, lroot, lend>>

LPage == MapNext("x86")
LPageArm == MapNext("arm")

-----------------------------------------------------------------------------
(* Ec::create_root.                                                        *)

DnPage(n) == n \div 2
UpPage(n) == (n + 1) \div 2

BitForward(n) == CHOOSE i \in 0..n : n % 2^(i + 1) # 0 /\ n % 2^i = 0
BitReverse(n) == CHOOSE i \in 0..n : 2^i <= n /\ n < 2^(i + 1)

\* max_order
MaxOrder(base, size) ==
    IF base # 0 /\ BitForward(base) < BitReverse(size) THEN BitForward(base) ELSE BitReverse(size)

\* Without a module, or with one that is no executable, root does not start.
LNoRoot ==
    /\ lpc = "root" /\ lend' = "none" /\ LGo("done")
    /\ UNCHANGED <<lin, lpos, lcl, lra, lsys, limg, lfw, lbuf, lkey, ltry, lmap, lpt, lsize, lseg, lroot>>

\* The program headers of the image.
LImage ==
    /\ lpc = "root" /\ lra \in Mods /\ LGo("chunk")
    /\ \E im \in LImages : lseg' = [lseg EXCEPT !.im = im]
    /\ UNCHANGED <<lin, lpos, lcl, lra, lsys, limg, lfw, lbuf, lkey, ltry, lmap, lpt, lsize, lroot, lend>>

Header == lseg.im[lseg.next]
Fits(s) == s.fsize = s.msize /\ s.virt % 2 = s.file % 2

\* One turn of the loop over them: a header that is no segment to load is
\* passed over, one that cannot be mapped ends the launch, and a segment is
\* aligned to pages.
LSegment ==
    /\ lpc = "chunk" /\ lseg.size = 0 /\ lseg.next <= Len(lseg.im)
    /\ \/ /\ ~Header.load
          /\ lseg' = [lseg EXCEPT !.next = @ + 1] /\ UNCHANGED <<lpc, lend>>
       \/ /\ Header.load /\ ~Fits(Header)
          /\ LGo("done") /\ lend' = "none" /\ UNCHANGED lseg
       \/ /\ Header.load /\ Fits(Header)
          /\ lseg' = [lseg EXCEPT !.phys = DnPage(Header.file), !.virt = DnPage(Header.virt),
                                  !.size = UpPage(Header.virt + Header.fsize) - DnPage(Header.virt),
                                  !.next = @ + 1]
          /\ UNCHANGED <<lpc, lend>>
    /\ UNCHANGED <<lin, lpos, lcl, lra, lsys, limg, lfw, lbuf, lkey, ltry, lmap, lpt, lsize, lroot>>

\* The largest aligned chunk of it is delegated.
LChunk ==
    /\ lpc = "chunk" /\ lseg.size # 0
    /\ LET a == MaxOrder(lseg.phys, lseg.size)
           b == MaxOrder(lseg.virt, lseg.size)
           o == IF a < b THEN a ELSE b
       IN  /\ lroot' = lroot \cup {[virt |-> lseg.virt, phys |-> lseg.phys, ord |-> o]}
           /\ lseg' = [lseg EXCEPT !.phys = @ + 2^o, !.virt = @ + 2^o, !.size = @ - 2^o]
    /\ UNCHANGED <<lin, lpc, lpos, lcl, lra, lsys, limg, lfw, lbuf, lkey, ltry, lmap, lpt, lsize, lend>>

\* The information page is built and root is made ready.
LRun ==
    /\ lpc = "chunk" /\ lseg.size = 0 /\ lseg.next > Len(lseg.im) /\ lend' = "run" /\ LGo("done")
    /\ UNCHANGED <<lin, lpos, lcl, lra, lsys, limg, lfw, lbuf, lkey, ltry, lmap, lpt, lsize, lseg, lroot>>

LaunchNext ==
    \/ LEntry \/ LEntryArm \/ LTag \/ LTagArm \/ LTagEnd \/ LMb1 \/ LMb1Arm \/ LLegacy
    \/ LUefi \/ LEvent \/ LDriver \/ LDisconnect \/ LQuiet \/ LGetMap \/ LGetMapFail \/ LExit
    \/ LPage \/ LPageArm \/ LNoRoot \/ LImage \/ LSegment \/ LChunk \/ LRun

LaunchSpec == LaunchInit /\ [][LaunchNext]_lvars

-----------------------------------------------------------------------------
(* Properties.                                                             *)

\* The types of the variables.
LaunchType ==
    /\ lpc \in {"entry", "halt", "mb2", "mb1", "lgc", "uefi", "dev", "quiet", "map", "exit", "paging", "root", "chunk",
                "done"}
    /\ lcl \in {"cmd", Zero} /\ lra \in Mods \cup {"info", Zero} /\ lend \in {"boot", "run", "none"}

\* Whatever the loader and in whatever order it passes things, once the boot
\* parameters are read they are the first module and the command line that
\* were passed (start.S: "Multiboot v2 Launch", "Multiboot v1 Launch", "Legacy
\* Launch").
ParametersExact ==
    lpc \in {"paging", "root", "chunk", "done"} =>
        /\ lra = FirstModule(lin.items)
        /\ lin.proto # "lgc" => (lcl = "cmd") = ("cmd" \in Range(lin.items))

\* The pages of a segment, and where they lie in memory.
SegmentPages(s) ==
    {<<n, n + DnPage(s.file) - DnPage(s.virt)>> :
        n \in {n \in 0..(s.virt + s.fsize) : 2 * n < s.virt + s.fsize /\ 2 * n + 1 >= s.virt}}

\* The firmware's drivers no longer start DMA behind bridges; when the boot
\* services have been left, the map that root is given is the one that was in
\* force at that moment, however the firmware changed it while it was being
\* fetched, unless it fitted in none of the attempts, when exit_boot_svc passes
\* on a buffer that was never filled; the large pages of the image are mapped,
\* and no other; and root is given exactly the pages of its segments, in
\* aligned chunks.
LaunchExact ==
    /\ lpc \notin {"dev", "quiet"} => lfw.masters \cap LBehind \subseteq lfw.silent
    /\ ~lfw.on => lmap = lbuf /\ (lmap.ver # 0 => lmap.ver = lfw.ver)
    /\ lpc \in {"root", "chunk", "done"} => lpt = {i \in 0..lsize : i * PerLarge < lsize}
    /\ lend = "run" =>
          /\ \A c \in lroot : c.virt % 2^c.ord = 0 /\ c.phys % 2^c.ord = 0
          /\ UNION {{<<c.virt + i, c.phys + i>> : i \in 0..(2^c.ord - 1)} : c \in lroot}
             = UNION {SegmentPages(lseg.im[i]) : i \in {j \in 1 .. Len(lseg.im) : lseg.im[j].load}}

\* From any loader the kernel gets to a root domain with the right parameters,
\* memory map and pages.
LaunchRight == LaunchType /\ ParametersExact /\ LaunchExact
=============================================================================
