-------------------------------- MODULE Ptab --------------------------------
(***************************************************************************)
(* Page tables: Pagetable::walk, update and Table::deallocate of           *)
(* src/ptab.cpp for one memory space, with the TLB shootdown and the       *)
(* free_wait that end a delegation in src/space_mem.cpp.                   *)
(*                                                                         *)
(* An entry is Empty or has an address, permissions and the superpage bit. *)
(* As in the hardware formats, what the address means depends on the level *)
(* it is read at: without the bit, a table above level 0 and a frame at    *)
(* level 0.  Tables are changed without a lock; each atomic access to a    *)
(* slot is a step.  The slots that deallocate reads are one step.          *)
(***************************************************************************)
EXTENDS Integers, FiniteSets

CONSTANTS
    PtabCpu,    \* CPUs that execute delegations into the space
    InSpace,    \* those that do so for an EC which runs in the space itself
    TablePage,  \* pages for page tables
    Root,       \* the root pointer of the space
    RootTable,  \* the table made by root_init
    Empty,      \* an empty entry, or a page nobody names
    Lev, Bpl,   \* levels of the tree, bits of an address per level
    LeafMax,    \* the argument of set_leaf_max, or M
    Requests    \* updates that are tried: page v, frame p, order ord, permissions pm

VARIABLES
    mem,        \* the root and the slots of every table
    inUse,      \* pages allocated as tables
    retired,    \* Buddy::waitlist of each CPU
    rke,        \* CPUs that have yet to take the RKE IPI of a CPU's shootdown
    pc, loc,    \* where each CPU is, and its local variables
    alone       \* history: no other CPU was at work since this one's update began

ptabVars == <<mem, inUse, retired, rke, pc, loc, alone>>

Ent   == 2 ^ Bpl            \* Table::entries
Limit == LeafMax * Bpl      \* lim
Slot  == 0 .. Ent - 1
Cell  == {<<Root, 0>>} \cup (TablePage \X Slot)
VirtPages == 0 .. Ent ^ Lev - 1

ASSUME PtabAssumption ==
    /\ Lev \in Nat \ {0} /\ Bpl \in Nat \ {0} /\ LeafMax \in 1 .. Lev
    /\ InSpace \subseteq PtabCpu
    /\ RootTable \in TablePage /\ Empty \notin TablePage
    /\ \A r \in Requests : /\ r.v \in VirtPages /\ r.v % 2 ^ r.ord = 0 /\ r.p % 2 ^ r.ord = 0
                           /\ r.v + 2 ^ r.ord <= Ent ^ Lev

\* The entry formats: is_large() and is_table() of an entry at level l.
Leaf(l, p, pm) == [addr |-> p, pm |-> pm, s |-> l # 0]
Table(t)  == [addr |-> t, pm |-> "path", s |-> FALSE]
IsLarge(e, l) == e # Empty /\ l # 0 /\ e.s
IsTable(e, l) == e # Empty /\ l # 0 /\ ~e.s

\* Size in pages of what an entry of level l covers, and the slot of page v.
Size(l) == Ent ^ l
Index(v, l) == (v \div Size(l)) % Ent

NoLoc == [r |-> Empty, i |-> 0, l |-> 0, ptr |-> <<Root, 0>>, pte |-> Empty,
          tbl |-> Empty, j |-> 0, sts |-> "SUCCESS"]

PtabInit ==
    /\ mem = [x \in Cell |-> IF x[1] = Root THEN Table(RootTable) ELSE Empty]
    /\ inUse = {RootTable}
    /\ retired = [c \in PtabCpu |-> {}]
    /\ rke = [c \in PtabCpu |-> {}]
    /\ pc = [c \in PtabCpu |-> "user"]
    /\ loc = [c \in PtabCpu |-> NoLoc]
    /\ alone = [c \in PtabCpu |-> TRUE]

Goto(c, p) == pc' = [pc EXCEPT ![c] = p]

-----------------------------------------------------------------------------
(* update(): the range is cut into pieces of order o, each of which is n   *)
(* slots of one table at level l.                                          *)

Order(r)  == IF r.ord < Limit THEN r.ord ELSE Limit
Level(r)  == Order(r) \div Bpl
Slots(r)  == 2 ^ (Order(r) % Bpl)
Pieces(r) == 2 ^ (r.ord - Order(r))
Virt(w)   == w.r.v + w.i * 2 ^ Order(w.r)
Phys(w)   == w.r.p + w.i * 2 ^ Order(w.r)
Zap(w)    == w.r.pm = "none"

\* walk() begins at the root.
BeginWalk(c, w) ==
    /\ loc' = [loc EXCEPT ![c] = [w EXCEPT !.l = Lev, !.ptr = <<Root, 0>>, !.pte = Empty,
                                           !.tbl = Empty, !.j = 0]]
    /\ Goto(c, "walk")

\* The outer loop of update(): the next piece, or the end.
NextPiece(c, w) ==
    IF w.i + 1 < Pieces(w.r) THEN BeginWalk(c, [w EXCEPT !.i = @ + 1])
    ELSE loc' = [loc EXCEPT ![c] = w] /\ Goto(c, "sync")

\* walk(): proceed with the table t for the next level.
Descend(c, w, t) ==
    /\ loc' = [loc EXCEPT ![c] = [w EXCEPT !.ptr = <<t, Index(Virt(w), w.l - 1)>>, !.l = @ - 1,
                                           !.pte = Empty, !.tbl = Empty]]
    /\ Goto(c, "walk")

\* walk(): what to do about entry e at the current slot: skip a hole, make
\* a table, or follow one.
Consider(c, w, e) ==
    IF e = Empty /\ Zap(w) THEN NextPiece(c, w)
    ELSE IF e = Empty \/ IsLarge(e, w.l)
    THEN loc' = [loc EXCEPT ![c] = [w EXCEPT !.pte = e, !.tbl = Empty]] /\ Goto(c, "alloc")
    ELSE Descend(c, w, e.addr)

PtabUpdate(c, r) ==
    /\ pc[c] = "user"
    /\ BeginWalk(c, [NoLoc EXCEPT !.r = r])
    /\ alone' = [d \in PtabCpu |-> IF d = c THEN \A e \in PtabCpu : pc[e] = "user" ELSE pc[d] = "user"]
    /\ UNCHANGED <<mem, inUse, retired, rke>>

\* walk(): stop at the target level, or read the entry.
Walk(c) ==
    /\ pc[c] = "walk"
    /\ IF loc[c].l = Level(loc[c].r) THEN Goto(c, "xchg") /\ UNCHANGED loc
       ELSE Consider(c, loc[c], mem[loc[c].ptr])
    /\ UNCHANGED <<mem, inUse, retired, rke, alone>>

\* The slots of a new table: empty, or the large page of entry e splintered.
Filled(e, l) ==
    [i \in Slot |-> IF e = Empty THEN Empty ELSE Leaf(l - 1, e.addr + i * Size(l - 1), e.pm)]

\* walk(): allocate and fill a table.
WalkAlloc(c) ==
    LET w == loc[c] IN
    /\ pc[c] = "alloc"
    /\ inUse # TablePage
    /\ LET t == CHOOSE t \in TablePage : t \notin inUse IN
        /\ inUse' = inUse \cup {t}
        /\ mem' = [x \in Cell |-> IF x[1] = t THEN Filled(w.pte, w.l)[x[2]] ELSE mem[x]]
        /\ loc' = [loc EXCEPT ![c].tbl = t]
    /\ Goto(c, "cas")
    /\ UNCHANGED <<retired, rke, alone>>

\* walk(): no memory, which all of the kernel shares; update() gives up.
WalkNoMem(c) ==
    /\ pc[c] = "alloc"
    /\ loc' = [loc EXCEPT ![c].sts = "INS_MEM"]
    /\ Goto(c, "sync")
    /\ UNCHANGED <<mem, inUse, retired, rke, alone>>

\* walk(): install the table if the slot still holds the entry; otherwise
\* free it and start over with the entry found.
WalkCas(c) ==
    LET w == loc[c] IN
    /\ pc[c] = "cas"
    /\ IF mem[w.ptr] = w.pte
       THEN mem' = [mem EXCEPT ![w.ptr] = Table(w.tbl)] /\ inUse' = inUse /\ Descend(c, w, w.tbl)
       ELSE mem' = mem /\ inUse' = inUse \ {w.tbl} /\ Consider(c, w, mem[w.ptr])
    /\ UNCHANGED <<retired, rke, alone>>

-----------------------------------------------------------------------------
\* The inner loop of update(): the next slot of the piece, or the next piece.
NextSlot(c, w) ==
    IF w.j + 1 < Slots(w.r)
    THEN loc' = [loc EXCEPT ![c] = [w EXCEPT !.j = @ + 1, !.tbl = Empty]] /\ Goto(c, "xchg")
    ELSE NextPiece(c, [w EXCEPT !.tbl = Empty])

\* Mutation of NewEntry: the frame does not advance from slot to slot.
NewEntrySame(w) == IF Zap(w) THEN Empty ELSE Leaf(Level(w.r), Phys(w), w.r.pm)

NewEntry(w) == IF Zap(w) THEN Empty ELSE Leaf(Level(w.r), Phys(w) + w.j * Size(Level(w.r)), w.r.pm)

\* update(): exchange the entry of one slot.
Exchange(c) ==
    LET w == loc[c]
        x == <<w.ptr[1], w.ptr[2] + w.j>>
    IN
    /\ pc[c] = "xchg"
    /\ mem' = [mem EXCEPT ![x] = NewEntry(w)]
    /\ IF IsTable(mem[x], Level(w.r))
       THEN loc' = [loc EXCEPT ![c].tbl = mem[x].addr] /\ Goto(c, "deallocate")
       ELSE NextSlot(c, w)
    /\ UNCHANGED <<inUse, retired, rke, alone>>

\* The tables below and including t, whose slots are of level l, by level.
Subtree(t, l) ==
    LET at[k \in 0 .. l] ==
            IF k = l THEN {t}
            ELSE {mem[x].addr : x \in {y \in at[k + 1] \X Slot : IsTable(mem[y], k + 1)}}
    IN  at

\* Table::deallocate() returns at once for a table of level 0.
Released(t, l) == UNION {Subtree(t, l)[k] : k \in 1 .. l}

\* update(): hand the tables of the replaced subtree to Buddy::wait().
Deallocate(c) ==
    LET w == loc[c] IN
    /\ pc[c] = "deallocate"
    /\ retired' = [retired EXCEPT ![c] = @ \cup Released(w.tbl, Level(w.r) - 1)]
    /\ NextSlot(c, w)
    /\ UNCHANGED <<mem, inUse, rke, alone>>

\* Mutation of PtabSync: the IPIs are sent, but not waited for.
SyncNoWait(c) ==
    /\ pc[c] = "sync"
    /\ Goto(c, "free")
    /\ UNCHANGED <<mem, inUse, retired, rke, loc, alone>>

\* delegate() ends with sync(): Tlb::shootdown() sends an RKE IPI to the
\* CPUs that run in the space and waits until each has taken it.
PtabSync(c) ==
    /\ pc[c] = "sync"
    /\ rke' = [rke EXCEPT ![c] = InSpace \ {c}]
    /\ Goto(c, "free")
    /\ UNCHANGED <<mem, inUse, retired, loc, alone>>

\* The IPI is taken in user mode, or while waiting in shootdown().
TakeRke(c) ==
    /\ pc[c] \in {"user", "free"}
    /\ \E d \in PtabCpu : c \in rke[d]
    /\ rke' = [d \in PtabCpu |-> rke[d] \ {c}]
    /\ UNCHANGED <<mem, inUse, retired, pc, loc, alone>>

\* After sync(), Buddy::free_wait().
PtabFreeWait(c) ==
    /\ pc[c] = "free"
    /\ rke[c] = {}
    /\ inUse' = inUse \ retired[c]
    /\ retired' = [retired EXCEPT ![c] = {}]
    /\ Goto(c, "user")
    /\ loc' = [loc EXCEPT ![c] = NoLoc]
    /\ alone' = [alone EXCEPT ![c] = TRUE]
    /\ UNCHANGED <<mem, rke>>

PtabNext == \E c \in PtabCpu :
    \/ \E r \in Requests : PtabUpdate(c, r)
    \/ Walk(c) \/ WalkAlloc(c) \/ WalkNoMem(c) \/ WalkCas(c)
    \/ Exchange(c) \/ Deallocate(c)
    \/ PtabSync(c) \/ TakeRke(c) \/ PtabFreeWait(c)

PtabSpec == PtabInit /\ [][PtabNext]_ptabVars

-----------------------------------------------------------------------------
\* lookup(): the frame and the permissions that page v translates to.
Translate(v) ==
    LET find[l \in 0 .. Lev, x \in Cell] ==
            IF IsTable(mem[x], l) THEN find[l - 1, <<mem[x].addr, Index(v, l - 1)>>]
            ELSE IF mem[x] = Empty THEN Empty
            ELSE [p |-> mem[x].addr + (v % Size(l)), pm |-> mem[x].pm]
    IN  find[Lev, <<Root, 0>>]

\* What request r maps page v to.
Wanted(r, v) == IF r.pm = "none" THEN Empty ELSE [p |-> r.p + v - r.v, pm |-> r.pm]

\* The pages of the slot that the next exchange of a CPU is for.
Piece(w) == LET f == Virt(w) + w.j * Size(Level(w.r)) IN f .. f + Size(Level(w.r)) - 1

(***************************************************************************)
(* Making tables, splintering large pages and freeing tables, by any       *)
(* number of CPUs at once, leave every translation as it is.  Only the     *)
(* exchange of update() changes translations, for the pages of its slot    *)
(* and to what was asked for.                                              *)
(***************************************************************************)
TranslationExact ==
    [][mem' # mem => \A v \in VirtPages :
          \/ Translate(v)' = Translate(v)
          \/ \E c \in PtabCpu : /\ pc[c] = "xchg" /\ v \in Piece(loc[c])
                                /\ Translate(v)' = Wanted(loc[c].r, v)]_ptabVars

\* The tables that can be reached from the root, by the level of their slots.
Tree == Subtree(RootTable, Lev - 1)
InTree == UNION {Tree[l] : l \in 0 .. Lev - 1}

(***************************************************************************)
(* The tree is one: each of its tables is allocated and has a single       *)
(* parent, at one level only, so no table is freed while it is in use and  *)
(* no frame is taken for a table; leaf pages are aligned to their size.    *)
(***************************************************************************)
TreeIntact ==
    LET tree == Tree IN
    \A l \in 0 .. Lev - 1 : LET tables == tree[l] IN
        /\ tables \subseteq inUse
        /\ \A k \in 0 .. l - 1 : tables \cap tree[k] = {}
        /\ \A x \in tables \X Slot :
              IF IsTable(mem[x], l)
              THEN \A y \in tables \X Slot : mem[y] = mem[x] => y = x
              ELSE mem[x] # Empty => mem[x].addr \in Nat /\ mem[x].addr % Size(l) = 0

\* When update() has succeeded, and nobody else was at work, every page of
\* the range translates to what was asked for.
RangeMapped ==
    \A c \in PtabCpu : pc[c] = "sync" /\ loc[c].sts = "SUCCESS" /\ alone[c] =>
        LET r == loc[c].r IN \A v \in r.v .. r.v + 2 ^ r.ord - 1 : Translate(v) = Wanted(r, v)

\* The tables are one tree, and an undisturbed update maps its whole range.
PtabSafe == TreeIntact /\ RangeMapped

-----------------------------------------------------------------------------
(* What a comment and an assertion of the code say, and the code does not  *)
(* keep.                                                                   *)

\* "If the old PTE refers to a page table, then deallocate it": tables that
\* left the tree are freed by the time the delegation is over.
ReplacedTablesFreed == (\A c \in PtabCpu : pc[c] = "user") => inUse = InTree

\* assert (!e->queued()) when Buddy::wait() puts a page on the waitlist of
\* its CPU: a table is not yet on that of another.
DeferredOnce == \A c, d \in PtabCpu : c # d => retired[c] \cap retired[d] = {}
=============================================================================
