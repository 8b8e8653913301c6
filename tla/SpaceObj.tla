------------------------------ MODULE SpaceObj ------------------------------
(***************************************************************************)
(* Object spaces and their capabilities: src/space_obj.cpp,                *)
(* inc/capability.hpp, and the operations of src/pd.cpp and                *)
(* src/syscall.cpp that create objects and delegate capabilities.          *)
(*                                                                         *)
(* An object space is a tree of capability tables that grows without a     *)
(* lock: a CPU that misses a table allocates one and installs it by        *)
(* compare-and-exchange.  Every access to a shared cell that can race is a *)
(* step.  A lookup is one step: table pointers never change once set       *)
(* (TablesStay), so it takes effect at its last read.                      *)
(***************************************************************************)
EXTENDS Integers, FiniteSets

CONSTANTS
    Cpu,        \* CPUs, each of which executes hypercalls of one EC
    Home,       \* the object space of that EC
    Space,      \* object spaces
    Pd,         \* protection domains
    Sm,         \* semaphores, standing for all objects without permissions on spaces
    Page,       \* pages for capability tables
    Null,       \* nullptr, and the null capability
    Lev, Ent,   \* levels of the tree and entries of a table
    Requests,   \* arguments of sys_ctrl_pd that are tried
    Selectors,  \* selectors for new objects that are tried
    Boot        \* the cells, objects and PD attachments at the start

VARIABLES
    mem,        \* the root cell of every space and the slots of every table
    used,       \* pages allocated as tables
    objs,       \* kernel objects that exist
    parent,     \* the PD each space belongs to
    attached,   \* PDs whose OBJ bit is set in Pd::spaces
    spaceObj,   \* Pd::space_obj
    pc, loc,    \* where each CPU is, and its local variables
    job         \* what it does: a delegation or the creation of an object

vars == <<mem, used, objs, parent, attached, spaceObj, pc, loc, job>>

Obj   == Space \cup Pd \cup Sm
Slot  == 0 .. Ent - 1
Cell  == (Space \X {0}) \cup (Page \X Slot)
Limit == Ent ^ Lev      \* Space_obj::num

\* Permission bits, by their position, as in Capability::Perm_*.
P_GRANT == 0
P_TAKE  == 1
P_PD    == 0
P_SM    == 4
Bits  == 0 .. 4

Defined(o) == IF o \in Space THEN {P_GRANT, P_TAKE}
              ELSE IF o \in Pd THEN Bits
              ELSE {0, 1}

Cap == [obj : Obj, prm : (SUBSET Bits) \ {{}}]

\* The object capability constructor: no permissions, no object.
MakeCap(o, p) == IF p = {} THEN Null ELSE [obj |-> o, prm |-> p]

Prm(cap) == IF cap = Null THEN {} ELSE cap.prm

\* Spaces, domains, semaphores and tables are different things.
ASSUME SpaceObjAssumption ==
    /\ Home \in [Cpu -> Space]
    /\ Lev \in Nat \ {0} /\ Ent \in Nat \ {0}
    /\ Space \cap (Pd \cup Sm) = {} /\ Page \cap (Obj \cup Cap) = {}
    /\ Null \notin Obj \cup Page \cup Cap
    /\ Requests \subseteq [src : Nat, dst : Nat, ssb : Nat, dsb : Nat, ord : Nat, pmm : SUBSET Bits]
    /\ Selectors \subseteq Nat

\* The tables are trees, one for each space: a table of level l of space sp is
\* in the root cell of sp for l = Lev, else in a slot of a table of level l + 1
\* of sp; the slots of level 1 hold capabilities.
Trees(m, spaces, tables, own, lvl) ==
    /\ \A sp \in spaces : LET t == m[<<sp, 0>>] IN
         t # Null => t \in tables /\ own[t] = sp /\ lvl[t] = Lev
    /\ \A p \in tables, i \in Slot : LET t == m[<<p, i>>] IN
         t # Null => IF lvl[p] = 1 THEN t \in Cap
                     ELSE t \in tables /\ own[t] = own[p] /\ lvl[t] = lvl[p] - 1
    /\ \A p \in tables :
         /\ own[p] \in spaces
         /\ IF lvl[p] = Lev THEN m[<<own[p], 0>>] = p
            ELSE \E q \in tables, i \in Slot :
                   own[q] = own[p] /\ lvl[q] = lvl[p] + 1 /\ m[<<q, i>>] = p

\* What the first object spaces look like.
ASSUME BootAssumption ==
    /\ Boot.mem \in [Cell -> Page \cup Cap \cup {Null}]
    /\ Boot.used \subseteq Page /\ Boot.objs \subseteq Obj
    /\ \A c \in Cpu : Home[c] \in Boot.objs
    /\ \E own \in [Page -> Space], lvl \in [Page -> 1 .. Lev] :
         Trees(Boot.mem, Space \cap Boot.objs, Boot.used, own, lvl)
    /\ \A p \in Boot.used, i \in Slot :
         Boot.mem[<<p, i>>] \in Cap => Boot.mem[<<p, i>>].obj \in Boot.objs
    /\ Boot.parent \in [Space -> Pd \cup {Null}] /\ Boot.spaceObj \in [Pd -> Space \cup {Null}]
    /\ \A sp, sq \in Space \cap Boot.objs :
         Boot.parent[sp] = Boot.parent[sq] => sp = sq \/ Boot.parent[sp] = Null
    /\ \A p \in Pd : Boot.spaceObj[p] # Null =>
         Boot.spaceObj[p] \in Boot.objs /\ Boot.parent[Boot.spaceObj[p]] = p
    /\ Boot.attached = {Boot.parent[sp] : sp \in Space \cap Boot.objs} \ {Null}

NoLoc == [sp |-> Null, sel |-> 0, l |-> 0, ptr |-> Null, tbl |-> Null, cap |-> Null]
NoJob == [kind |-> "none"]

TypeOK ==
    /\ mem \in [Cell -> Page \cup Cap \cup {Null}]
    /\ used \subseteq Page
    /\ objs \subseteq Obj
    /\ parent \in [Space -> Pd \cup {Null}]
    /\ attached \subseteq Pd
    /\ spaceObj \in [Pd -> Space \cup {Null}]
    /\ pc \in [Cpu -> {"user", "lookup", "walk", "alloc", "cas", "store", "publish", "undo"}]
    /\ \A c \in Cpu : loc[c].cap \in Cap \cup {Null} /\ loc[c].ptr \in Cell \cup {Null}

Init ==
    /\ mem = Boot.mem
    /\ used = Boot.used
    /\ objs = Boot.objs
    /\ parent = Boot.parent
    /\ attached = Boot.attached
    /\ spaceObj = Boot.spaceObj
    /\ pc = [c \in Cpu |-> "user"]
    /\ loc = [c \in Cpu |-> NoLoc]
    /\ job = [c \in Cpu |-> NoJob]

Goto(c, l) == pc' = [pc EXCEPT ![c] = l]

Done(c) ==
    /\ Goto(c, "user")
    /\ loc' = [loc EXCEPT ![c] = NoLoc]
    /\ job' = [job EXCEPT ![c] = NoJob]

-----------------------------------------------------------------------------
\* The slot index of a selector in a table of level l.
SlotOf(sel, l) == (sel \div Ent ^ l) % Ent

\* lookup(): follow the tables down to the leaf, or to the first hole.
Lookup(sp, sel) ==
    LET at[l \in 0 .. Lev] ==
            IF l = Lev THEN mem[<<sp, 0>>]
            ELSE IF at[l + 1] = Null THEN Null
            ELSE mem[<<at[l + 1], SlotOf(sel, l)>>]
    IN  at[0]

\* A walk for selector sel of space sp that will store cap.
BeginWalk(c, sp, sel, cap) ==
    /\ loc' = [loc EXCEPT ![c] = [sp |-> sp, sel |-> sel, l |-> Lev,
                                  ptr |-> <<sp, 0>>, tbl |-> Null, cap |-> cap]]
    /\ Goto(c, "walk")

\* Continue with the table found or installed at the current cell.
Descend(c, tbl) ==
    /\ loc' = [loc EXCEPT ![c].ptr = <<tbl, SlotOf(loc[c].sel, loc[c].l - 1)>>,
                          ![c].l = @ - 1, ![c].tbl = Null]
    /\ Goto(c, "walk")

\* update() of one selector is over; the loop of delegate() goes on.
NextSelector(c) ==
    IF job[c].left = 1 THEN Done(c)
    ELSE /\ job' = [job EXCEPT ![c].s = @ + 1, ![c].d = @ + 1, ![c].left = @ - 1]
         /\ loc' = [loc EXCEPT ![c] = NoLoc]
         /\ Goto(c, "lookup")

\* walk(): one level down.  Only entries need tables, not holes.
Walk(c) ==
    /\ pc[c] = "walk"
    /\ LET w == loc[c] IN
       IF w.l = 0 THEN Goto(c, "store") /\ UNCHANGED <<loc, job>>
       ELSE IF mem[w.ptr] # Null THEN Descend(c, mem[w.ptr]) /\ UNCHANGED job
       ELSE IF w.cap = Null THEN NextSelector(c)
       ELSE Goto(c, "alloc") /\ UNCHANGED <<loc, job>>
    /\ UNCHANGED <<mem, used, objs, parent, attached, spaceObj>>

\* walk(): allocate a table, with all slots null.
WalkAlloc(c) ==
    /\ pc[c] = "alloc"
    /\ used # Page
    /\ LET p == CHOOSE p \in Page : p \notin used IN
        /\ used' = used \cup {p}
        /\ mem' = [x \in Cell |-> IF x[1] = p THEN Null ELSE mem[x]]
        /\ loc' = [loc EXCEPT ![c].tbl = p]
    /\ Goto(c, "cas")
    /\ UNCHANGED <<objs, parent, attached, spaceObj, job>>

\* walk(): no memory, which all of the kernel shares, is left.
WalkNoMem(c) ==
    /\ pc[c] = "alloc"
    /\ IF job[c].kind = "create" THEN Goto(c, "undo") /\ UNCHANGED <<loc, job>> ELSE Done(c)
    /\ UNCHANGED <<mem, used, objs, parent, attached, spaceObj>>

\* Mutation of WalkCas: a plain store, which hides a table just installed.
WalkCasStore(c) ==
    /\ pc[c] = "cas"
    /\ mem' = [mem EXCEPT ![loc[c].ptr] = loc[c].tbl]
    /\ Descend(c, loc[c].tbl)
    /\ UNCHANGED <<used, objs, parent, attached, spaceObj, job>>

\* Mutation of WalkCas: the loser keeps its table.
WalkCasLeaks(c) ==
    /\ pc[c] = "cas"
    /\ LET w == loc[c] IN
       IF mem[w.ptr] = Null
       THEN mem' = [mem EXCEPT ![w.ptr] = w.tbl] /\ Descend(c, w.tbl)
       ELSE mem' = mem /\ Descend(c, mem[w.ptr])
    /\ UNCHANGED <<used, objs, parent, attached, spaceObj, job>>

\* Mutation of WalkCas: the loser tries again with the value it expected.
WalkCasRetries(c) ==
    /\ pc[c] = "cas"
    /\ LET w == loc[c] IN
       IF mem[w.ptr] = Null
       THEN mem' = [mem EXCEPT ![w.ptr] = w.tbl] /\ used' = used /\ Descend(c, w.tbl)
       ELSE mem' = mem /\ used' = used \ {w.tbl} /\ Goto(c, "alloc")
            /\ loc' = [loc EXCEPT ![c].tbl = Null]
    /\ UNCHANGED <<objs, parent, attached, spaceObj, job>>

\* walk(): install the table, or drop it and use the one that won.
WalkCas(c) ==
    /\ pc[c] = "cas"
    /\ LET w == loc[c] IN
       IF mem[w.ptr] = Null
       THEN mem' = [mem EXCEPT ![w.ptr] = w.tbl] /\ used' = used /\ Descend(c, w.tbl)
       ELSE mem' = mem /\ used' = used \ {w.tbl} /\ Descend(c, mem[w.ptr])
    /\ UNCHANGED <<objs, parent, attached, spaceObj, job>>

\* insert(): only an empty slot is filled.
StoreInsert(c) ==
    /\ pc[c] = "store" /\ job[c].kind = "create"
    /\ IF mem[loc[c].ptr] # Null
       THEN mem' = mem /\ Goto(c, "undo") /\ UNCHANGED <<loc, job>>
       ELSE /\ mem' = [mem EXCEPT ![loc[c].ptr] = loc[c].cap]
            /\ IF job[c].obj \in Space THEN Goto(c, "publish") /\ UNCHANGED <<loc, job>> ELSE Done(c)
    /\ UNCHANGED <<used, objs, parent, attached, spaceObj>>

\* update(): the slot is exchanged, whatever it holds.
StoreUpdate(c) ==
    /\ pc[c] = "store" /\ job[c].kind = "delegate"
    /\ mem' = [mem EXCEPT ![loc[c].ptr] = loc[c].cap]
    /\ NextSelector(c)
    /\ UNCHANGED <<used, objs, parent, attached, spaceObj>>

-----------------------------------------------------------------------------
\* sys_ctrl_pd() between two object spaces.  Requests that fail a check
\* change nothing.
SysCtrlPd(c, r) ==
    LET cst == Lookup(Home[c], r.src)
        cdt == Lookup(Home[c], r.dst)
    IN
    /\ pc[c] = "user"
    /\ r.ssb % 2^r.ord = 0 /\ r.dsb % 2^r.ord = 0
    /\ P_TAKE \in Prm(cst) /\ P_GRANT \in Prm(cdt)
    /\ cst.obj \in Space /\ cdt.obj \in Space
    /\ r.ssb + 2^r.ord <= Limit /\ r.dsb + 2^r.ord <= Limit
    /\ job' = [job EXCEPT ![c] = [kind |-> "delegate", src |-> cst.obj, dst |-> cdt.obj,
                                  s |-> r.ssb, d |-> r.dsb, left |-> 2^r.ord, pmm |-> r.pmm]]
    /\ Goto(c, "lookup")
    /\ UNCHANGED <<mem, used, objs, parent, attached, spaceObj, loc>>

\* Mutation of DelegateOne: the permission mask adds instead of restricting.
DelegateOneAdds(c) ==
    LET cap == Lookup(job[c].src, job[c].s) IN
    /\ pc[c] = "lookup"
    /\ BeginWalk(c, job[c].dst, job[c].d,
                 IF cap = Null THEN Null ELSE MakeCap(cap.obj, cap.prm \cup job[c].pmm))
    /\ UNCHANGED <<mem, used, objs, parent, attached, spaceObj, job>>

\* delegate(): read one capability of the source and restrict it.
DelegateOne(c) ==
    LET cap == Lookup(job[c].src, job[c].s) IN
    /\ pc[c] = "lookup"
    /\ BeginWalk(c, job[c].dst, job[c].d,
                 IF cap = Null THEN Null ELSE MakeCap(cap.obj, cap.prm \cap job[c].pmm))
    /\ UNCHANGED <<mem, used, objs, parent, attached, spaceObj, job>>

\* sys_create_sm(): any object that a PD capability permits to create.
SysCreateSm(c, psel, o, sel) ==
    LET cpd == Lookup(Home[c], psel) IN
    /\ pc[c] = "user"
    /\ P_SM \in Prm(cpd) /\ cpd.obj \in Pd
    /\ o \in Sm \ objs
    /\ objs' = objs \cup {o}
    /\ job' = [job EXCEPT ![c] = [kind |-> "create", obj |-> o, pd |-> cpd.obj]]
    /\ BeginWalk(c, Home[c], sel, MakeCap(o, Defined(o)))
    /\ UNCHANGED <<mem, used, parent, attached, spaceObj>>

\* sys_create_pd() for an object space, create_obj(): the PD must not have
\* one yet.
SysCreateObj(c, psel, o, sel) ==
    LET cpd == Lookup(Home[c], psel) IN
    /\ pc[c] = "user"
    /\ P_PD \in Prm(cpd) /\ cpd.obj \in Pd
    /\ cpd.obj \notin attached
    /\ attached' = attached \cup {cpd.obj}
    /\ o \in Space \ objs
    /\ objs' = objs \cup {o}
    /\ parent' = [parent EXCEPT ![o] = cpd.obj]
    /\ mem' = [mem EXCEPT ![<<o, 0>>] = Null]
    /\ job' = [job EXCEPT ![c] = [kind |-> "create", obj |-> o, pd |-> cpd.obj]]
    /\ BeginWalk(c, Home[c], sel, MakeCap(o, Defined(o)))
    /\ UNCHANGED <<used, spaceObj>>

\* create_obj(): the PD points to its space once the capability is in place.
Publish(c) ==
    /\ pc[c] = "publish"
    /\ spaceObj' = [spaceObj EXCEPT ![job[c].pd] = job[c].obj]
    /\ Done(c)
    /\ UNCHANGED <<mem, used, objs, parent, attached>>

\* create_*(): the capability could not be inserted: destroy the object,
\* and detach it if it is a space.
Undo(c) ==
    /\ pc[c] = "undo"
    /\ objs' = objs \ {job[c].obj}
    /\ attached' = IF job[c].obj \in Space THEN attached \ {job[c].pd} ELSE attached
    /\ Done(c)
    /\ UNCHANGED <<mem, used, parent, spaceObj>>

Step(c) ==
    \/ Walk(c) \/ WalkAlloc(c) \/ WalkNoMem(c) \/ WalkCas(c)
    \/ StoreInsert(c) \/ StoreUpdate(c) \/ DelegateOne(c) \/ Publish(c) \/ Undo(c)

Next == \E c \in Cpu :
    \/ Step(c)
    \/ \E r \in Requests : SysCtrlPd(c, r)
    \/ \E psel \in 0 .. Limit - 1, sel \in Selectors, o \in Obj :
        SysCreateSm(c, psel, o, sel) \/ SysCreateObj(c, psel, o, sel)

Spec == Init /\ [][Next]_vars

\* A hypercall runs with interrupts off until it is done.
FairSpec == Spec /\ \A c \in Cpu : WF_vars(Step(c))

-----------------------------------------------------------------------------
\* The tables of level l of a space: those of the root cell first.
Tables(sp) ==
    LET at[l \in 0 .. Lev] ==
            IF l = Lev THEN {mem[<<sp, 0>>]} \ {Null}
            ELSE {mem[x] : x \in at[l + 1] \X Slot} \ {Null}
    IN  [l \in 1 .. Lev |-> at[l]]

AllTables(sp) == UNION {Tables(sp)[l] : l \in 1 .. Lev}

\* The capabilities in the slots of the leaf tables of a space.
Caps(sp) == {mem[x] : x \in Tables(sp)[1] \X Slot} \ {Null}

Live == Space \cap objs

\* No table is lost: the pages in use are the tables of some live space, or
\* about to be installed or dropped by a CPU.
NoTableLeak ==
    used = (UNION {AllTables(sp) : sp \in Live}) \cup {loc[c].tbl : c \in {d \in Cpu : pc[d] = "cas"}}

\* Once a table is installed it stays, so a walk or lookup in progress
\* never ends up in a table that is no longer part of the space.
TablesStay ==
    [][\A x \in Cell : x[1] \in Live \cup used /\ mem[x] \in Page => mem'[x] = mem[x]]_vars

\* A capability in a slot names an object that exists: what a failed
\* create_*() destroys was never visible to anyone.
NoDanglingCaps ==
    /\ TypeOK
    /\ \A sp \in Live : \A cap \in Caps(sp) : cap.obj \in objs

\* All permissions anyone holds on an object, or is about to store.
Authority(o) ==
    (UNION {UNION {cap.prm : cap \in {x \in Caps(sp) : x.obj = o}} : sp \in Live})
    \cup UNION {loc[c].cap.prm : c \in {d \in Cpu : loc[d].cap # Null /\ loc[d].cap.obj = o}}

\* Delegation never amplifies: the permissions on an existing object that
\* are around can only become fewer.
NoAmplification == [][\A o \in objs : Authority(o)' \subseteq Authority(o)]_vars

\* A PD has at most one object space, and points to it only while both
\* exist and the space bit is set.
OneObjSpace ==
    /\ \A p \in Pd : Cardinality({sp \in Live : parent[sp] = p}) <= 1
    /\ \A p \in Pd : spaceObj[p] # Null => spaceObj[p] \in Live /\ parent[spaceObj[p]] = p
    /\ attached = {parent[sp] : sp \in Live} \ {Null}

\* Racing creations and delegations leave the object spaces consistent: no
\* table lost, no capability dangling, at most one object space for a PD.
SpacesIntact == NoTableLeak /\ NoDanglingCaps /\ OneObjSpace

\* Every hypercall on object spaces comes to an end, however many CPUs
\* race for the same tables.
HypercallsEnd == \A c \in Cpu : pc[c] # "user" ~> pc[c] = "user"
=============================================================================
