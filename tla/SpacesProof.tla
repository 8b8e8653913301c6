----------------------------- MODULE SpacesProof -----------------------------
(***************************************************************************)
(* Proofs about object spaces (SpaceObj), for any number of CPUs, spaces,  *)
(* protection domains and pages and for tables of any depth and size: the  *)
(* spaces stay intact (SpacesIntact), an installed table stays             *)
(* (TablesStay) and delegation never amplifies (NoAmplification).          *)
(*                                                                         *)
(* SpacesIntact speaks of what can be reached from the root cells of live  *)
(* spaces.  It is not inductive: a table may be lost by a store to a cell  *)
(* that a walk reached long ago, and a capability may dangle when the      *)
(* object it names is destroyed.  The invariant gives every installed      *)
(* table an owner and a level, which never change, places every walk under *)
(* way in a cell of its space and level, and separates the objects that    *)
(* only their creator can name from those that are visible: only visible   *)
(* ones have capabilities in tables, and only the others are destroyed.    *)
(***************************************************************************)
EXTENDS SpaceObj, FiniteSetTheorems, NaturalsInduction, WellFoundedInduction, TLAPS

-----------------------------------------------------------------------------
\* The records of a hypercall under way.
LocRecs == [sp : Space \cup {Null}, sel : Nat, l : 0 .. Lev, ptr : Cell \cup {Null},
            tbl : Page \cup {Null}, cap : Cap \cup {Null}]
DelegateJobs == [kind : {"delegate"}, src : Space, dst : Space, s : Nat, d : Nat, left : Int,
                 pmm : SUBSET Bits]
CreateJobs == [kind : {"create"}, obj : Obj, pd : Pd]
Jobs == {NoJob} \cup DelegateJobs \cup CreateJobs
Places == {"user", "lookup", "walk", "alloc", "cas", "store", "publish", "undo"}
Walking == {"walk", "alloc", "cas", "store"}

SpaceShape ==
    /\ mem \in [Cell -> Page \cup Cap \cup {Null}]
    /\ used \subseteq Page /\ objs \subseteq Obj
    /\ parent \in [Space -> Pd \cup {Null}]
    /\ attached \subseteq Pd
    /\ spaceObj \in [Pd -> Space \cup {Null}]
    /\ pc \in [Cpu -> Places]
    /\ loc \in [Cpu -> LocRecs]
    /\ job \in [Cpu -> Jobs]

\* A page is a table of some space once it has been installed.
Installed == {p \in used : \A c \in Cpu : pc[c] = "cas" => loc[c].tbl # p}

\* An object is pending while its creator is the only one who can name it.
Creates(c, o) == job[c].kind = "create" /\ job[c].obj = o /\ pc[c] # "publish"
Pending(o) == \E c \in Cpu : Creates(c, o)
Visible == {o \in objs : ~Pending(o)}

\* What a CPU does fits where it is, and names what exists: a delegation visible
\* spaces and objects, a creation the object it has made.
JobFits(c) ==
    /\ pc[c] = "user" <=> job[c] = NoJob
    /\ pc[c] = "lookup" => job[c].kind = "delegate"
    /\ pc[c] \in {"publish", "undo"} => job[c].kind = "create"
    /\ pc[c] = "publish" => job[c].obj \in Space
    /\ pc[c] \in {"user", "lookup"} => loc[c].cap = Null
    /\ job[c].kind = "delegate" =>
         /\ job[c].src \in Visible /\ job[c].dst \in Visible
         /\ loc[c].cap # Null => loc[c].cap.obj \in Visible
    /\ job[c].kind = "create" =>
         /\ job[c].obj \in objs /\ loc[c].cap # Null /\ loc[c].cap.obj = job[c].obj
         /\ job[c].obj \in Space => parent[job[c].obj] = job[c].pd

\* No two CPUs create the same object.
OneCreator ==
    \A c, d \in Cpu : job[c].kind = "create" /\ job[d].kind = "create" /\ job[c].obj = job[d].obj => c = d

\* The cell x is one of level l of the space sp.
CellOf(x, sp, l, own, lvl) ==
    IF l = Lev THEN x = <<sp, 0>>
    ELSE \E p \in Installed, i \in Slot : x = <<p, i>> /\ own[p] = sp /\ lvl[p] = l + 1

\* The cell a walk has reached is one of the level it is at, of the space it is for;
\* the table it is about to install is empty.
WalkFits(c, own, lvl) ==
    pc[c] \in Walking =>
        /\ loc[c].sp \in Space /\ loc[c].sp \in Visible
        /\ CellOf(loc[c].ptr, loc[c].sp, loc[c].l, own, lvl)
        /\ pc[c] = "store" => loc[c].l = 0
        /\ pc[c] \in {"alloc", "cas"} => loc[c].l > 0 /\ loc[c].cap # Null
        /\ pc[c] = "cas" => loc[c].tbl \in used /\ \A i \in Slot : mem[<<loc[c].tbl, i>>] = Null

OneInstaller ==
    \A c, d \in Cpu : pc[c] = "cas" /\ pc[d] = "cas" /\ loc[c].tbl = loc[d].tbl => c = d

\* Only visible objects have capabilities in a table, and a space that is pending is empty.
CapsSound ==
    /\ \A p \in Installed, i \in Slot : mem[<<p, i>>] \in Cap => mem[<<p, i>>].obj \in Visible
    /\ \A sp \in Space : Pending(sp) => mem[<<sp, 0>>] = Null
    /\ \A c \in Cpu : Home[c] \in Visible

ParentsOnce ==
    /\ \A sp, sq \in Live : parent[sp] = parent[sq] => sp = sq \/ parent[sp] = Null
    /\ \A p \in Pd : spaceObj[p] # Null => spaceObj[p] \in Visible /\ parent[spaceObj[p]] = p
    /\ attached = {parent[sp] : sp \in Live} \ {Null}

\* own and lvl are the space and the level of each installed table.
SpaceInv(own, lvl) ==
    /\ SpaceShape
    /\ Trees(mem, Live, Installed, own, lvl)
    /\ \A c \in Cpu : JobFits(c)
    /\ OneCreator
    /\ \A c \in Cpu : WalkFits(c, own, lvl)
    /\ OneInstaller
    /\ CapsSound
    /\ ParentsOnce

Owns == [Page -> Space]
Levels == [Page -> 1 .. Lev]
SpacesInv == \E own \in Owns, lvl \in Levels : SpaceInv(own, lvl)


-----------------------------------------------------------------------------
\* The root cells and the slots of the tables are different cells.
LEMMA Cells ==
    /\ \A sp \in Space : <<sp, 0>> \in Cell
    /\ \A p \in Page, i \in Slot : <<p, i>> \in Cell
    /\ \A sp \in Space, p \in Page, i \in Slot : <<sp, 0>> # <<p, i>>
    /\ \A x \in Cell : (\E sp \in Space : x = <<sp, 0>>) \/ (\E p \in Page, i \in Slot : x = <<p, i>>)
    /\ \A p \in Page : p \notin Cap /\ p # Null /\ p \notin Obj
    /\ Null \notin Cap /\ Null \notin Obj
<1>1. Space \cap Page = {} /\ Page \cap Cap = {} /\ Page \cap Obj = {} /\ Null \notin Obj /\ Null \notin Page /\ Null \notin Cap
  BY SpaceObjAssumption DEF Obj
<1> QED
  BY <1>1 DEF Cell

\* The index of a selector in a table is one of the slots.
LEMMA SlotOfType == ASSUME NEW sel \in Nat, NEW l \in Nat PROVE SlotOf(sel, l) \in Slot
<1>1. \A a, e \in Nat : \A b \in Nat \ {0} : (a \div b^e) % b \in 0 .. b - 1
  BY SMT
<1> QED
  BY <1>1, SpaceObjAssumption DEF SlotOf, Slot

\* A non-empty set of natural numbers has a least element.
LEMMA HasLeast ==
    ASSUME NEW S, S \subseteq Nat, S # {} PROVE \E m \in S : \A n \in S : m <= n
<1>1. PICK R : R = OpToRel(<, Nat)
  BY Zenon
<1>2. IsWellFoundedOn(R, Nat)
  BY NatLessThanWellFounded, <1>1, Zenon
<1>3. PICK m \in S : \A n \in S : ~(<<n, m>> \in R)
  BY <1>2, WFMin, Zenon
<1>4. \A p, q \in Nat : <<q, p>> \in R <=> q < p
  BY <1>1 DEF OpToRel
<1>5. \A n \in S : ~(n < m) /\ n \in Nat /\ m \in Nat
  BY <1>3, <1>4
<1> QED
  BY <1>3, <1>5

\* What the slots of the tables in T hold.
Into(T) == {mem[x] : x \in T \X Slot} \ {Null}

\* The installed tables of a space and a level.
TablesOf(sp, l, own, lvl) == {p \in Installed : own[p] = sp /\ lvl[p] = l}

\* The members of Into.
LEMMA IntoIs ==
    ASSUME NEW T, NEW v
    PROVE  v \in Into(T) <=> v # Null /\ \E t \in T, i \in Slot : v = mem[<<t, i>>]
<1>1. v \in Into(T) <=> v # Null /\ \E x \in T \X Slot : v = mem[x]
  BY DEF Into
<1>2. ASSUME NEW x \in T \X Slot PROVE \E t \in T, i \in Slot : x = <<t, i>>
  OBVIOUS
<1>3. ASSUME NEW t \in T, NEW i \in Slot PROVE <<t, i>> \in T \X Slot
  OBVIOUS
<1> QED
  BY <1>1, <1>2, <1>3

\* The table in the root cell, and those in the slots of tables, are the installed
\* ones of the space and the level below.
LEMMA OneLevel ==
    ASSUME NEW own \in Owns, NEW lvl \in Levels, SpaceInv(own, lvl), NEW sp \in Live
    PROVE  /\ {mem[<<sp, 0>>]} \ {Null} = TablesOf(sp, Lev, own, lvl)
           /\ \A l \in 1 .. Lev - 1 : Into(TablesOf(sp, l + 1, own, lvl)) = TablesOf(sp, l, own, lvl)
<1>0. Lev \in Nat /\ Lev > 0 /\ \A p \in Page : own[p] \in Space /\ lvl[p] \in 1 .. Lev
  BY SpaceObjAssumption DEF Owns, Levels
<1>1. Installed \subseteq Page
  BY DEF Installed, SpaceInv, SpaceShape
<1>2. {mem[<<sp, 0>>]} \ {Null} = TablesOf(sp, Lev, own, lvl)
  <2>1. mem[<<sp, 0>>] # Null => mem[<<sp, 0>>] \in TablesOf(sp, Lev, own, lvl)
    BY DEF SpaceInv, Trees, TablesOf
  <2>2. ASSUME NEW p \in TablesOf(sp, Lev, own, lvl) PROVE p = mem[<<sp, 0>>] /\ p # Null
    <3>1. p \in Installed /\ p \in Page /\ own[p] = sp /\ lvl[p] = Lev
      BY <1>1 DEF TablesOf
    <3>2. mem[<<own[p], 0>>] = p
      BY <3>1 DEF SpaceInv, Trees
    <3> QED
      BY <3>1, <3>2, Cells
  <2> QED
    BY <2>1, <2>2
<1>3. ASSUME NEW l \in 1 .. Lev - 1 PROVE Into(TablesOf(sp, l + 1, own, lvl)) = TablesOf(sp, l, own, lvl)
  <2>0. l + 1 # 1 /\ (l + 1) - 1 = l /\ l # Lev
    BY <1>0
  <2>1. ASSUME NEW t \in TablesOf(sp, l + 1, own, lvl), NEW i \in Slot, mem[<<t, i>>] # Null
        PROVE  mem[<<t, i>>] \in TablesOf(sp, l, own, lvl)
    <3>1. t \in Installed /\ own[t] = sp /\ lvl[t] = l + 1
      BY DEF TablesOf
    <3>2. mem[<<t, i>>] \in Installed /\ own[mem[<<t, i>>]] = own[t] /\ lvl[mem[<<t, i>>]] = lvl[t] - 1
      BY <2>0, <2>1, <3>1 DEF SpaceInv, Trees
    <3> QED
      BY <2>0, <3>1, <3>2 DEF TablesOf
  <2>2. ASSUME NEW p \in TablesOf(sp, l, own, lvl)
        PROVE  p # Null /\ \E t \in TablesOf(sp, l + 1, own, lvl), i \in Slot : p = mem[<<t, i>>]
    <3>1. p \in Installed /\ p \in Page /\ lvl[p] = l /\ own[p] = sp
      BY <1>1 DEF TablesOf
    <3>2. PICK q \in Installed, i \in Slot : own[q] = own[p] /\ lvl[q] = lvl[p] + 1 /\ mem[<<q, i>>] = p
      BY <2>0, <3>1 DEF SpaceInv, Trees
    <3> QED
      BY <3>1, <3>2, Cells DEF TablesOf
  <2>3. \A v : v \in Into(TablesOf(sp, l + 1, own, lvl)) <=>
               v # Null /\ \E t \in TablesOf(sp, l + 1, own, lvl), i \in Slot : v = mem[<<t, i>>]
    BY IntoIs
  <2>4. ASSUME NEW v PROVE v \in Into(TablesOf(sp, l + 1, own, lvl)) <=> v \in TablesOf(sp, l, own, lvl)
    <3>1. ASSUME v \in Into(TablesOf(sp, l + 1, own, lvl)) PROVE v \in TablesOf(sp, l, own, lvl)
      <4>1. PICK t \in TablesOf(sp, l + 1, own, lvl), i \in Slot : v = mem[<<t, i>>] /\ v # Null
        BY <2>3, <3>1, Zenon
      <4> QED
        BY <4>1, <2>1
    <3>2. ASSUME v \in TablesOf(sp, l, own, lvl) PROVE v \in Into(TablesOf(sp, l + 1, own, lvl))
      BY <3>2, <2>2, <2>3, Zenon
    <3> QED
      BY <3>1, <3>2
  <2> QED
    BY <2>4, Zenon
<1> QED
  BY <1>2, <1>3

\* The tables found level by level from the root cell of a space are the installed
\* ones of that space and level.
LEMMA TablesAre ==
    ASSUME NEW own \in Owns, NEW lvl \in Levels, SpaceInv(own, lvl), NEW sp \in Live
    PROVE  \A l \in 1 .. Lev : Tables(sp)[l] = TablesOf(sp, l, own, lvl)
<1>0. Lev \in Nat /\ Lev > 0
  BY SpaceObjAssumption
<1> DEFINE R == {mem[<<sp, 0>>]} \ {Null}
<1>2. PICK T : T = [l \in 1 .. Lev |-> TablesOf(sp, l, own, lvl)]
  OBVIOUS
<1>3. T[Lev] = R /\ \A l \in 1 .. Lev - 1 : Into(T[l + 1]) = T[l]
  <2>1. Lev \in 1 .. Lev /\ \A l \in 1 .. Lev - 1 : l \in 1 .. Lev /\ l + 1 \in 1 .. Lev
    BY <1>0
  <2> QED
    BY <2>1, <1>2, OneLevel
<1> HIDE DEF R
<1> DEFINE Body(f) == [l \in 0 .. Lev |-> IF l = Lev THEN R ELSE Into(f[l + 1])]
<1>4. PICK W : W = [l \in 0 .. Lev |-> IF l = 0 THEN Into(T[1]) ELSE T[l]]
  OBVIOUS
<1>5. W = Body(W)
  <2> SUFFICES ASSUME NEW l \in 0 .. Lev PROVE W[l] = IF l = Lev THEN R ELSE Into(W[l + 1])
    BY <1>4, Zenon
  <2>1. CASE l = Lev
    BY <2>1, <1>0, <1>3, <1>4
  <2>2. CASE l = 0
    <3>1. l # Lev /\ l + 1 = 1 /\ 1 \in 0 .. Lev /\ 1 # 0
      BY <2>2, <1>0
    <3> QED
      BY <2>2, <3>1, <1>4, Zenon
  <2>3. CASE l # Lev /\ l # 0
    <3>1. l \in 1 .. Lev - 1 /\ l + 1 \in 0 .. Lev /\ l + 1 # 0
      BY <2>3, <1>0
    <3>2. W[l] = T[l] /\ W[l + 1] = T[l + 1]
      BY <2>3, <3>1, <1>4, Zenon
    <3> QED
      BY <2>3, <3>1, <3>2, <1>3
  <2> QED
    BY <2>1, <2>2, <2>3
<1>6. PICK at : at = CHOOSE f : f = Body(f)
  BY Zenon
<1>7. at = Body(at)
  <2> HIDE DEF Body
  <2> QED
    BY <1>5, <1>6, Zenon
<1>8. \A l \in 0 .. Lev : at[l] = IF l = Lev THEN R ELSE Into(at[l + 1])
  BY <1>7, Zenon
<1>9. \A l \in 1 .. Lev : at[l] = T[l]
  <2> SUFFICES ASSUME NEW l0 \in 1 .. Lev, at[l0] # T[l0] PROVE FALSE
    BY Zenon
  <2>1. PICK S : S = {n \in 0 .. Lev - 1 : at[Lev - n] # T[Lev - n]}
    OBVIOUS
  <2>2. S \subseteq Nat /\ Lev - l0 \in S
    <3>1. Lev - (Lev - l0) = l0 /\ Lev - l0 \in 0 .. Lev - 1 /\ 0 .. Lev - 1 \subseteq Nat
      BY <1>0
    <3> QED
      BY <2>1, <3>1
  <2>3. PICK n \in S : \A m \in S : n <= m
    BY <2>2, HasLeast
  <2>4. PICK l : l = Lev - n
    OBVIOUS
  <2>5. n \in 0 .. Lev - 1 /\ l \in 1 .. Lev /\ l \in 0 .. Lev /\ at[l] # T[l]
    BY <2>1, <2>3, <2>4, <1>0
  <2>6. l # Lev
    BY <2>5, <1>3, <1>8
  <2>7. at[l + 1] = T[l + 1]
    <3>1. n - 1 \in 0 .. Lev - 1 /\ l + 1 = Lev - (n - 1) /\ ~(n <= n - 1)
      BY <2>4, <2>5, <2>6, <1>0
    <3> QED
      BY <3>1, <2>1, <2>3
  <2>8. l \in 1 .. Lev - 1
    BY <2>5, <2>6, <1>0
  <2> QED
    BY <2>5, <2>6, <2>7, <2>8, <1>3, <1>8
<1>10. Tables(sp) = [l \in 1 .. Lev |-> at[l]]
  <2> USE DEF R
  <2>1. Tables(sp) = LET f == CHOOSE f : f = Body(f) IN [l \in 1 .. Lev |-> f[l]]
    BY Zenon DEF Tables, Into
  <2> HIDE DEF Body
  <2> QED
    BY <2>1, <1>6, Zenon
<1> QED
  BY <1>2, <1>9, <1>10

\* A leaf table of the space holds the capability v.
InLeaf(v, sp, own, lvl) ==
    \E p \in Installed, i \in Slot : own[p] = sp /\ lvl[p] = 1 /\ v = mem[<<p, i>>]

\* What the capabilities of a space are.
LEMMA CapsAre ==
    ASSUME NEW own \in Owns, NEW lvl \in Levels, SpaceInv(own, lvl), NEW sp \in Live, NEW v
    PROVE  v \in Caps(sp) <=> v # Null /\ InLeaf(v, sp, own, lvl)
<1>1. Tables(sp)[1] = TablesOf(sp, 1, own, lvl)
  <2>1. 1 \in 1 .. Lev
    BY SpaceObjAssumption
  <2> QED
    BY <2>1, TablesAre
<1>2. Caps(sp) = Into(TablesOf(sp, 1, own, lvl))
  BY <1>1, Zenon DEF Caps, Into
<1>3. v \in Into(TablesOf(sp, 1, own, lvl)) <=> v # Null /\ \E t \in TablesOf(sp, 1, own, lvl), i \in Slot : v = mem[<<t, i>>]
  BY IntoIs
<1> QED
  BY <1>2, <1>3 DEF TablesOf, InLeaf

\* What lookup() reads at level l when it has read f so far.
Reads(f, l, sp, sel) ==
    IF l = Lev THEN mem[<<sp, 0>>]
    ELSE IF f[l + 1] = Null THEN Null ELSE mem[<<f[l + 1], SlotOf(sel, l)>>]

\* There is a descent of k levels.
Descent(k, sp, sel) ==
    \E f : \A l \in Lev - k .. Lev : f[l] = Reads(f, l, sp, sel)

\* There is a descent of any number of levels: each extends the one before.
LEMMA Descents ==
    ASSUME NEW sp, NEW sel PROVE \A k \in 0 .. Lev : Descent(k, sp, sel)
<1>0. Lev \in Nat /\ Lev > 0
  BY SpaceObjAssumption
<1> SUFFICES ASSUME NEW k0 \in 0 .. Lev, ~Descent(k0, sp, sel) PROVE FALSE
  BY Zenon
<1>1. PICK S : S = {k \in 0 .. Lev : ~Descent(k, sp, sel)}
  OBVIOUS
<1>2. S \subseteq Nat /\ k0 \in S
  BY <1>1
<1>3. PICK n \in S : \A m \in S : n <= m
  BY <1>2, HasLeast
<1>4. n \in 0 .. Lev /\ ~Descent(n, sp, sel)
  BY <1>1, <1>3
<1>5. n # 0
  <2> SUFFICES ASSUME n = 0 PROVE Descent(n, sp, sel)
    BY <1>4
  <2>1. PICK f : f = [l \in {Lev} |-> mem[<<sp, 0>>]]
    OBVIOUS
  <2>2. \A l \in Lev - n .. Lev : l = Lev
    BY <1>0
  <2>3. \A l \in Lev - n .. Lev : f[l] = Reads(f, l, sp, sel)
    BY <2>1, <2>2, Zenon DEF Reads
  <2> QED
    BY <2>3, Zenon DEF Descent
<1>6. n - 1 \in 0 .. Lev /\ ~(n <= n - 1)
  BY <1>0, <1>4, <1>5
<1>7. Descent(n - 1, sp, sel)
  BY <1>1, <1>3, <1>6
<1>8. PICK g : \A l \in Lev - (n - 1) .. Lev : g[l] = Reads(g, l, sp, sel)
  BY <1>7, Zenon DEF Descent
<1>9. PICK h : h = [l \in Lev - n .. Lev |-> IF l = Lev - n THEN Reads(g, l, sp, sel) ELSE g[l]]
  OBVIOUS
<1>10. ASSUME NEW l \in Lev - n .. Lev PROVE h[l] = Reads(h, l, sp, sel)
  <2>1. l # Lev => l + 1 \in Lev - n .. Lev /\ l + 1 # Lev - n
    BY <1>0, <1>4
  <2>2. l # Lev => h[l + 1] = g[l + 1]
    BY <2>1, <1>9, Zenon
  <2>3. Reads(h, l, sp, sel) = Reads(g, l, sp, sel)
    BY <2>2, Zenon DEF Reads
  <2>4. l # Lev - n => l \in Lev - (n - 1) .. Lev
    BY <1>0, <1>4
  <2>5. l # Lev - n => g[l] = Reads(g, l, sp, sel)
    BY <2>4, <1>8, Zenon
  <2> QED
    BY <2>3, <2>5, <1>9, Zenon
<1> QED
  BY <1>4, <1>10, Zenon DEF Descent

\* lookup() ends with what it reads at level 0.
LEMMA LookupReads ==
    ASSUME NEW sp, NEW sel
    PROVE  \E f : /\ \A l \in 0 .. Lev : f[l] = Reads(f, l, sp, sel)
                  /\ Lookup(sp, sel) = f[0]
<1> DEFINE Body(f) == [l \in 0 .. Lev |-> IF l = Lev THEN mem[<<sp, 0>>]
                                          ELSE IF f[l + 1] = Null THEN Null
                                          ELSE mem[<<f[l + 1], SlotOf(sel, l)>>]]
<1>0. Lev \in Nat /\ Lev > 0 /\ Lev - Lev = 0 /\ Lev \in 0 .. Lev /\ 0 \in 0 .. Lev
  BY SpaceObjAssumption
<1>1. PICK g : \A l \in 0 .. Lev : g[l] = Reads(g, l, sp, sel)
  <2>1. Descent(Lev, sp, sel)
    BY <1>0, Descents
  <2> QED
    BY <2>1, <1>0 DEF Descent
<1>2. PICK f : f = [l \in 0 .. Lev |-> g[l]]
  OBVIOUS
<1>3. ASSUME NEW l \in 0 .. Lev PROVE f[l] = Reads(f, l, sp, sel)
  <2>1. l # Lev => l + 1 \in 0 .. Lev
    BY <1>0
  <2>2. Reads(f, l, sp, sel) = Reads(g, l, sp, sel)
    BY <2>1, <1>2, Zenon DEF Reads
  <2> QED
    BY <2>2, <1>1, <1>2, Zenon
<1>4. f = Body(f)
  <2>1. f = [l \in 0 .. Lev |-> f[l]]
    BY <1>2
  <2> QED
    BY <2>1, <1>3 DEF Reads
<1>5. PICK a : a = CHOOSE x : x = Body(x)
  BY Zenon
<1>6. a = Body(a)
  <2> HIDE DEF Body
  <2> QED
    BY <1>4, <1>5, Zenon
<1>7. \A l \in 0 .. Lev : a[l] = Reads(a, l, sp, sel)
  BY <1>6, Zenon DEF Reads
<1>8. Lookup(sp, sel) = a[0]
  <2>1. Lookup(sp, sel) = LET x == CHOOSE x : x = Body(x) IN x[0]
    BY Zenon DEF Lookup
  <2> HIDE DEF Body
  <2> QED
    BY <2>1, <1>5, Zenon
<1> QED
  BY <1>7, <1>8, Zenon

\* What lookup() finds in a live space is one of its capabilities, or nothing.
LEMMA LookupFinds ==
    ASSUME NEW own \in Owns, NEW lvl \in Levels, SpaceInv(own, lvl), NEW sp \in Live, NEW sel \in Nat
    PROVE  \/ Lookup(sp, sel) = Null
           \/ \E p \in Installed, i \in Slot :
                 own[p] = sp /\ lvl[p] = 1 /\ Lookup(sp, sel) = mem[<<p, i>>]
<1>0. Lev \in Nat /\ Lev > 0 /\ \A p \in Page : own[p] \in Space /\ lvl[p] \in 1 .. Lev
  BY SpaceObjAssumption DEF Owns, Levels
<1>1. PICK f : /\ \A l \in 0 .. Lev : f[l] = Reads(f, l, sp, sel)
               /\ Lookup(sp, sel) = f[0]
  BY LookupReads, Zenon
<1> DEFINE Ok(l) == f[l] # Null => f[l] \in Installed /\ own[f[l]] = sp /\ lvl[f[l]] = l
<1>2. Ok(Lev)
  <2>1. f[Lev] = mem[<<sp, 0>>]
    <3>1. Lev \in 0 .. Lev
      BY <1>0
    <3> QED
      BY <3>1, <1>1, Zenon DEF Reads
  <2> QED
    BY <2>1 DEF SpaceInv, Trees
<1>3. ASSUME NEW l \in 0 .. Lev - 1, f[l + 1] # Null
      PROVE  SlotOf(sel, l) \in Slot /\ f[l] = mem[<<f[l + 1], SlotOf(sel, l)>>]
  <2>1. l \in Nat /\ l \in 0 .. Lev /\ l # Lev
    BY <1>0
  <2>2. f[l] = mem[<<f[l + 1], SlotOf(sel, l)>>]
    BY <2>1, <1>1, <1>3, Zenon DEF Reads
  <2> QED
    BY <2>1, <2>2, SlotOfType
<1>4. ASSUME NEW l \in 0 .. Lev - 1, f[l + 1] = Null PROVE f[l] = Null
  <2>1. l \in 0 .. Lev /\ l # Lev
    BY <1>0
  <2> QED
    BY <2>1, <1>1, <1>4, Zenon DEF Reads
<1>5. ASSUME NEW l \in 1 .. Lev - 1, Ok(l + 1) PROVE Ok(l)
  <2> SUFFICES ASSUME f[l] # Null PROVE f[l] \in Installed /\ own[f[l]] = sp /\ lvl[f[l]] = l
    OBVIOUS
  <2>1. l \in 0 .. Lev - 1 /\ l + 1 # 1 /\ (l + 1) - 1 = l
    BY <1>0
  <2>2. f[l + 1] # Null
    BY <2>1, <1>4
  <2>3. f[l + 1] \in Installed /\ own[f[l + 1]] = sp /\ lvl[f[l + 1]] = l + 1
    BY <1>5, <2>2
  <2>4. PICK t \in Installed, i \in Slot : t = f[l + 1] /\ f[l] = mem[<<t, i>>]
    BY <2>1, <2>2, <2>3, <1>3
  <2>5. mem[<<t, i>>] \in Installed /\ own[mem[<<t, i>>]] = own[t] /\ lvl[mem[<<t, i>>]] = lvl[t] - 1
    BY <2>1, <2>3, <2>4 DEF SpaceInv, Trees
  <2> QED
    BY <2>1, <2>3, <2>4, <2>5
<1>6. Ok(1)
  <2> SUFFICES ASSUME ~Ok(1) PROVE FALSE
    OBVIOUS
  <2>1. PICK S : S = {n \in 0 .. Lev - 1 : ~Ok(Lev - n)}
    OBVIOUS
  <2>2. S \subseteq Nat /\ Lev - 1 \in S
    <3>1. Lev - (Lev - 1) = 1 /\ Lev - 1 \in 0 .. Lev - 1 /\ 0 .. Lev - 1 \subseteq Nat
      BY <1>0
    <3> HIDE DEF Ok
    <3> QED
      BY <2>1, <3>1
  <2>3. PICK n \in S : \A m \in S : n <= m
    BY <2>2, HasLeast
  <2> HIDE DEF Ok
  <2>4. PICK l : l = Lev - n
    OBVIOUS
  <2>5. n \in 0 .. Lev - 1 /\ l \in 1 .. Lev /\ ~Ok(l)
    BY <2>1, <2>3, <2>4, <1>0
  <2>6. l # Lev
    BY <2>5, <1>2
  <2>7. Ok(l + 1)
    <3>1. n - 1 \in 0 .. Lev - 1 /\ l + 1 = Lev - (n - 1) /\ ~(n <= n - 1)
      BY <2>4, <2>5, <2>6, <1>0
    <3> QED
      BY <3>1, <2>1, <2>3
  <2>8. l \in 1 .. Lev - 1
    BY <2>5, <2>6, <1>0
  <2> QED
    BY <2>5, <2>7, <2>8, <1>5
<1>7. 0 \in 0 .. Lev - 1 /\ 0 + 1 = 1
  BY <1>0
<1>8. CASE f[1] = Null
  BY <1>1, <1>4, <1>7, <1>8
<1>9. CASE f[1] # Null
  <2>1. SlotOf(sel, 0) \in Slot /\ f[0] = mem[<<f[1], SlotOf(sel, 0)>>]
    BY <1>3, <1>7, <1>9
  <2> QED
    BY <2>1, <1>1, <1>6, <1>9
<1> QED
  BY <1>8, <1>9

\* Such a capability is of a visible object.
LEMMA LookupSound ==
    ASSUME SpacesInv, NEW sp \in Live, NEW sel \in Nat
    PROVE  /\ Lookup(sp, sel) \in Cap \cup {Null}
           /\ Lookup(sp, sel) # Null => Lookup(sp, sel).obj \in Visible
<1>1. PICK own \in Owns, lvl \in Levels : SpaceInv(own, lvl)
  BY DEF SpacesInv
<1> SUFFICES ASSUME Lookup(sp, sel) # Null PROVE Lookup(sp, sel) \in Cap /\ Lookup(sp, sel).obj \in Visible
  OBVIOUS
<1>2. PICK p \in Installed, i \in Slot : own[p] = sp /\ lvl[p] = 1 /\ Lookup(sp, sel) = mem[<<p, i>>]
  BY <1>1, LookupFinds
<1>3. PICK v : v = Lookup(sp, sel)
  OBVIOUS
<1>4. v = mem[<<p, i>>] /\ v # Null
  BY <1>2, <1>3
<1>5. v \in Cap
  BY <1>1, <1>2, <1>4 DEF SpaceInv, Trees
<1>6. v.obj \in Visible
  BY <1>1, <1>2, <1>4, <1>5 DEF SpaceInv, CapsSound
<1> QED
  BY <1>3, <1>5, <1>6

-----------------------------------------------------------------------------
\* A step of CPU c leaves the other CPUs where they are.
Alone(c) ==
    /\ pc' \in [Cpu -> Places] /\ loc' \in [Cpu -> LocRecs] /\ job' \in [Cpu -> Jobs]
    /\ \A d \in Cpu \ {c} : pc'[d] = pc[d] /\ loc'[d] = loc[d] /\ job'[d] = job[d]

\* The kinds of jobs.
LEMMA JobKinds ==
    ASSUME NEW j \in Jobs
    PROVE  /\ j.kind = "delegate" <=> j \in DelegateJobs
           /\ j.kind = "create" <=> j \in CreateJobs
           /\ j.kind = "none" <=> j = NoJob
           /\ j.kind \in {"none", "delegate", "create"}
  BY DEF Jobs, DelegateJobs, CreateJobs, NoJob

\* No walk is under way in NoLoc.
LEMMA NoLocType == NoLoc \in LocRecs /\ NoLoc.cap = Null /\ NoLoc.tbl = Null
  BY SpaceObjAssumption DEF NoLoc, LocRecs

\* A hypercall returns.
LEMMA DoneEffect ==
    ASSUME SpaceShape, NEW c \in Cpu, Done(c)
    PROVE  Alone(c) /\ pc'[c] = "user" /\ loc'[c] = NoLoc /\ job'[c] = NoJob
  BY NoLocType DEF SpaceShape, Done, Goto, Alone, Jobs, Places

\* A walk goes one level down.
LEMMA DescendEffect ==
    ASSUME SpaceShape, NEW c \in Cpu, NEW t \in Page, Descend(c, t), job' = job, loc[c].l # 0
    PROVE  /\ Alone(c) /\ pc'[c] = "walk" /\ job'[c] = job[c]
           /\ loc'[c].sp = loc[c].sp /\ loc'[c].cap = loc[c].cap /\ loc'[c].tbl = Null
           /\ loc'[c].l = loc[c].l - 1 /\ loc'[c].l \in 0 .. Lev
           /\ \E i \in Slot : loc'[c].ptr = <<t, i>>
<1>0. Lev \in Nat
  BY SpaceObjAssumption
<1>1. PICK w : w = loc[c]
  OBVIOUS
<1>2. w \in LocRecs
  BY <1>1 DEF SpaceShape
<1>3. w.l \in 0 .. Lev /\ w.l # 0 /\ w.sel \in Nat
  BY <1>1, <1>2 DEF LocRecs
<1>4. w.l - 1 \in Nat /\ w.l - 1 \in 0 .. Lev
  BY <1>0, <1>3
<1>5. PICK i \in Slot : i = SlotOf(w.sel, w.l - 1) /\ <<t, i>> \in Cell
  BY <1>3, <1>4, SlotOfType, Cells
<1>6. PICK v : v = [w EXCEPT !.ptr = <<t, i>>, !.l = w.l - 1, !.tbl = Null]
  OBVIOUS
<1>61. /\ v \in LocRecs /\ v.sp = w.sp /\ v.cap = w.cap /\ v.tbl = Null
       /\ v.l = w.l - 1 /\ v.ptr = <<t, i>>
  BY <1>2, <1>4, <1>5, <1>6 DEF LocRecs
<1>7. loc' = [loc EXCEPT ![c] = v]
  <2>1. loc = [d \in Cpu |-> loc[d]]
    BY DEF SpaceShape
  <2>2. loc' = [loc EXCEPT ![c].ptr = <<t, i>>, ![c].l = w.l - 1, ![c].tbl = Null]
    BY <1>1, <1>5, <2>1 DEF Descend
  <2> QED
    BY <1>1, <1>6, <2>1, <2>2
<1>8. loc'[c] = v /\ loc' \in [Cpu -> LocRecs] /\ \A d \in Cpu \ {c} : loc'[d] = loc[d]
  BY <1>61, <1>7 DEF SpaceShape
<1>9. pc'[c] = "walk" /\ pc' \in [Cpu -> Places] /\ \A d \in Cpu \ {c} : pc'[d] = pc[d]
  BY DEF SpaceShape, Descend, Goto, Places
<1>10. Alone(c)
  BY <1>8, <1>9 DEF Alone, SpaceShape, Jobs
<1> QED
  BY <1>1, <1>4, <1>61, <1>8, <1>9, <1>10

\* A walk begins.
LEMMA BeginEffect ==
    ASSUME SpaceShape, NEW c \in Cpu, NEW sp \in Space, NEW sel \in Nat, NEW cap \in Cap \cup {Null},
           BeginWalk(c, sp, sel, cap)
    PROVE  /\ pc' \in [Cpu -> Places] /\ loc' \in [Cpu -> LocRecs]
           /\ \A d \in Cpu \ {c} : pc'[d] = pc[d] /\ loc'[d] = loc[d]
           /\ pc'[c] = "walk" /\ loc'[c].sp = sp /\ loc'[c].l = Lev /\ loc'[c].ptr = <<sp, 0>>
           /\ loc'[c].tbl = Null /\ loc'[c].cap = cap
<1>1. PICK v : v = [sp |-> sp, sel |-> sel, l |-> Lev, ptr |-> <<sp, 0>>, tbl |-> Null, cap |-> cap]
  OBVIOUS
<1>2. v \in LocRecs
  BY <1>1, Cells, SpaceObjAssumption DEF LocRecs
<1>3. loc'[c] = v /\ loc' \in [Cpu -> LocRecs] /\ \A d \in Cpu \ {c} : loc'[d] = loc[d]
  BY <1>1, <1>2 DEF BeginWalk, SpaceShape
<1>4. pc'[c] = "walk" /\ pc' \in [Cpu -> Places] /\ \A d \in Cpu \ {c} : pc'[d] = pc[d]
  BY DEF SpaceShape, BeginWalk, Goto, Places
<1> QED
  BY <1>1, <1>3, <1>4

\* A delegation goes on, or returns.
LEMMA NextEffect ==
    ASSUME SpaceShape, NEW c \in Cpu, job[c] \in DelegateJobs, NextSelector(c)
    PROVE  /\ Alone(c) /\ loc'[c] = NoLoc
           /\ \/ pc'[c] = "user" /\ job'[c] = NoJob
              \/ /\ pc'[c] = "lookup" /\ job'[c] \in DelegateJobs
                 /\ job'[c].src = job[c].src /\ job'[c].dst = job[c].dst
<1>1. CASE job[c].left = 1
  <2>1. Done(c)
    BY <1>1 DEF NextSelector
  <2> QED
    BY <2>1, DoneEffect
<1>2. CASE job[c].left # 1
  <2>1. PICK j : j = job[c]
    OBVIOUS
  <2>2. j \in DelegateJobs
    BY <2>1
  <2>3. PICK k : k = [j EXCEPT !.s = j.s + 1, !.d = j.d + 1, !.left = j.left - 1]
    OBVIOUS
  <2>4. k \in DelegateJobs /\ k.src = j.src /\ k.dst = j.dst
    <3>1. j.s + 1 \in Nat /\ j.d + 1 \in Nat /\ j.left - 1 \in Int
      BY <2>2 DEF DelegateJobs
    <3> QED
      BY <2>2, <2>3, <3>1 DEF DelegateJobs
  <2>6. job' = [job EXCEPT ![c] = k]
    <3>1. job' = [job EXCEPT ![c].s = @ + 1, ![c].d = @ + 1, ![c].left = @ - 1]
      BY <1>2 DEF NextSelector
    <3>2. job = [d \in Cpu |-> job[d]]
      BY DEF SpaceShape
    <3> QED
      BY <2>1, <2>3, <3>1, <3>2
  <2>7. job'[c] = k /\ job' \in [Cpu -> Jobs] /\ \A d \in Cpu \ {c} : job'[d] = job[d]
    BY <2>4, <2>6 DEF SpaceShape, Jobs
  <2>8. loc'[c] = NoLoc /\ loc' \in [Cpu -> LocRecs] /\ \A d \in Cpu \ {c} : loc'[d] = loc[d]
    BY <1>2, NoLocType DEF SpaceShape, NextSelector
  <2>9. pc'[c] = "lookup" /\ pc' \in [Cpu -> Places] /\ \A d \in Cpu \ {c} : pc'[d] = pc[d]
    BY <1>2 DEF SpaceShape, NextSelector, Goto, Places
  <2>10. Alone(c)
    BY <2>7, <2>8, <2>9 DEF Alone
  <2> QED
    BY <2>1, <2>4, <2>7, <2>8, <2>9, <2>10
<1> QED
  BY <1>1, <1>2

\* A CPU goes elsewhere in the code, and nothing else.
LEMMA GotoEffect ==
    ASSUME SpaceShape, NEW c \in Cpu, NEW l \in Places, Goto(c, l), loc' = loc, job' = job
    PROVE  Alone(c) /\ pc'[c] = l /\ loc'[c] = loc[c] /\ job'[c] = job[c]
  BY DEF SpaceShape, Goto, Alone, Jobs

\* The other CPUs keep what they know when visible objects and installed tables remain.
LEMMA OthersKept ==
    ASSUME NEW own \in Owns, NEW lvl \in Levels, SpaceInv(own, lvl),
           NEW own2 \in Owns, NEW lvl2 \in Levels, NEW c \in Cpu, Alone(c),
           Visible \subseteq Visible', Installed \subseteq Installed',
           \A p \in Installed : own2[p] = own[p] /\ lvl2[p] = lvl[p],
           \A d \in Cpu \ {c} : job[d].kind = "create" =>
               job[d].obj \in objs' /\ (job[d].obj \in Space => parent'[job[d].obj] = parent[job[d].obj]),
           \A d \in Cpu \ {c} : pc[d] = "cas" =>
               loc[d].tbl \in used' /\ \A i \in Slot : mem'[<<loc[d].tbl, i>>] = mem[<<loc[d].tbl, i>>]
    PROVE  \A d \in Cpu \ {c} : JobFits(d)' /\ WalkFits(d, own2, lvl2)'
<1> SUFFICES ASSUME NEW d \in Cpu \ {c} PROVE JobFits(d)' /\ WalkFits(d, own2, lvl2)'
  OBVIOUS
<1>1. JobFits(d) /\ WalkFits(d, own, lvl)
  BY DEF SpaceInv
<1>2. pc'[d] = pc[d] /\ loc'[d] = loc[d] /\ job'[d] = job[d]
  BY DEF Alone
<1>3. JobFits(d)'
  BY <1>1, <1>2 DEF JobFits
<1>4. ASSUME pc[d] \in Walking, CellOf(loc[d].ptr, loc[d].sp, loc[d].l, own, lvl)
      PROVE  CellOf(loc[d].ptr, loc[d].sp, loc[d].l, own2, lvl2)'
  BY <1>2, <1>4 DEF CellOf
<1>5. WalkFits(d, own2, lvl2)'
  BY <1>1, <1>2, <1>4 DEF WalkFits
<1> QED
  BY <1>3, <1>5

\* Objects stay hidden, and become visible, with their creators.
LEMMA VisibleSame ==
    ASSUME NEW c \in Cpu, Alone(c), objs' = objs, \A o : Creates(c, o)' <=> Creates(c, o)
    PROVE  Visible' = Visible /\ \A o : Pending(o)' <=> Pending(o)
<1>1. ASSUME NEW o, NEW d \in Cpu PROVE Creates(d, o)' <=> Creates(d, o)
  <2>1. CASE d = c
    BY <2>1
  <2>2. CASE d # c
    BY <2>2 DEF Alone, Creates
  <2> QED
    BY <2>1, <2>2
<1>2. \A o : Pending(o)' <=> Pending(o)
  BY <1>1 DEF Pending
<1> QED
  BY <1>2 DEF Visible

\* Tables are installed by compare-and-exchange only.
LEMMA InstalledSame ==
    ASSUME NEW c \in Cpu, Alone(c), used' = used, pc[c] # "cas", pc'[c] # "cas"
    PROVE  Installed' = Installed
<1>1. ASSUME NEW p, NEW d \in Cpu PROVE (pc'[d] = "cas" => loc'[d].tbl # p) <=> (pc[d] = "cas" => loc[d].tbl # p)
  <2>1. CASE d = c
    BY <2>1
  <2>2. CASE d # c
    BY <2>2 DEF Alone
  <2> QED
    BY <2>1, <2>2
<1> QED
  BY <1>1 DEF Installed

\* A CPU that does not become the creator of an object, or of one nobody else creates.
LEMMA CreatorsKept ==
    ASSUME NEW c \in Cpu, Alone(c), OneCreator,
           job'[c].kind = "create" =>
               \A d \in Cpu \ {c} : job[d].kind = "create" => job[d].obj # job'[c].obj
    PROVE  OneCreator'
  BY DEF OneCreator, Alone

\* The same for tables that are about to be installed.
LEMMA InstallersKept ==
    ASSUME NEW c \in Cpu, Alone(c), OneInstaller,
           pc'[c] = "cas" => \A d \in Cpu \ {c} : pc[d] = "cas" => loc[d].tbl # loc'[c].tbl
    PROVE  OneInstaller'
  BY DEF OneInstaller, Alone

\* A step of a walk or of a delegation that changes no object and no table.
LEMMA QuietStep ==
    ASSUME NEW own \in Owns, NEW lvl \in Levels, SpaceInv(own, lvl), NEW c \in Cpu, Alone(c),
           UNCHANGED <<mem, used, objs, parent, attached, spaceObj>>,
           pc[c] # "cas", pc'[c] # "cas",
           job'[c].kind = "create" => job[c].kind = "create" /\ job'[c].obj = job[c].obj,
           \A o : Creates(c, o)' <=> Creates(c, o),
           JobFits(c)', WalkFits(c, own, lvl)'
    PROVE  SpaceInv(own, lvl)'
<1>1. Visible' = Visible /\ \A o : Pending(o)' <=> Pending(o)
  BY VisibleSame
<1>2. Installed' = Installed /\ Live' = Live
  BY InstalledSame DEF Live
<1>3. SpaceShape'
  BY DEF SpaceInv, SpaceShape, Alone
<1>4. Trees(mem, Live, Installed, own, lvl)'
  BY <1>2, Zenon DEF SpaceInv
<1>5. \A d \in Cpu \ {c} : JobFits(d)' /\ WalkFits(d, own, lvl)'
  <2>1. \A d \in Cpu \ {c} : job[d].kind = "create" =>
            job[d].obj \in objs' /\ (job[d].obj \in Space => parent'[job[d].obj] = parent[job[d].obj])
    BY DEF SpaceInv, JobFits
  <2>2. \A d \in Cpu \ {c} : pc[d] = "cas" =>
            loc[d].tbl \in used' /\ \A i \in Slot : mem'[<<loc[d].tbl, i>>] = mem[<<loc[d].tbl, i>>]
    BY DEF SpaceInv, WalkFits, Walking
  <2> QED
    BY <1>1, <1>2, <2>1, <2>2, OthersKept
<1>6. OneCreator'
  BY CreatorsKept DEF SpaceInv, OneCreator
<1>7. OneInstaller'
  BY InstallersKept DEF SpaceInv
<1>8. CapsSound'
  BY <1>1, <1>2 DEF SpaceInv, CapsSound
<1>9. ParentsOnce'
  BY <1>1, <1>2 DEF SpaceInv, ParentsOnce
<1> QED
  BY <1>3, <1>4, <1>5, <1>6, <1>7, <1>8, <1>9 DEF SpaceInv

\* The cell of a level of a space holds nothing or a table of that level.
LEMMA CellTable ==
    ASSUME NEW own \in Owns, NEW lvl \in Levels, SpaceInv(own, lvl), NEW sp \in Live, NEW l \in 1 .. Lev,
           NEW x, CellOf(x, sp, l, own, lvl), mem[x] # Null
    PROVE  mem[x] \in Installed /\ mem[x] \in Page /\ own[mem[x]] = sp /\ lvl[mem[x]] = l
<1>0. Lev \in Nat /\ l + 1 # 1 /\ (l + 1) - 1 = l
  BY SpaceObjAssumption
<1>1. Installed \subseteq Page
  BY DEF Installed, SpaceInv, SpaceShape
<1>2. CASE l = Lev
  BY <1>1, <1>2 DEF SpaceInv, Trees, CellOf
<1>3. CASE l # Lev
  <2>1. PICK p \in Installed, i \in Slot : x = <<p, i>> /\ own[p] = sp /\ lvl[p] = l + 1
    BY <1>3 DEF CellOf
  <2>2. PICK t : t = mem[<<p, i>>]
    OBVIOUS
  <2>3. t \in Installed /\ own[t] = own[p] /\ lvl[t] = lvl[p] - 1
    BY <1>0, <2>1, <2>2 DEF SpaceInv, Trees
  <2> QED
    BY <1>0, <1>1, <2>1, <2>2, <2>3
<1> QED
  BY <1>2, <1>3

\* A CPU that walks, and what it walks for.
LEMMA WalkFacts ==
    ASSUME NEW own \in Owns, NEW lvl \in Levels, SpaceInv(own, lvl), NEW c \in Cpu, pc[c] \in Walking
    PROVE  /\ job[c] \in DelegateJobs \cup CreateJobs /\ loc[c] \in LocRecs
           /\ loc[c].sp \in Live /\ loc[c].sp \in Space /\ loc[c].sp \in Visible
           /\ loc[c].l \in 0 .. Lev /\ loc[c].cap \in Cap \cup {Null}
           /\ CellOf(loc[c].ptr, loc[c].sp, loc[c].l, own, lvl) /\ JobFits(c)
           /\ job[c].kind = "create" => job[c] \in CreateJobs /\ loc[c].cap # Null
           /\ job[c].kind # "create" => job[c] \in DelegateJobs /\ job[c].kind = "delegate"
<1>1. JobFits(c) /\ WalkFits(c, own, lvl) /\ loc[c] \in LocRecs /\ job[c] \in Jobs
  BY DEF SpaceInv, SpaceShape
<1>2. job[c] # NoJob
  BY <1>1 DEF JobFits, Walking
<1>3. loc[c].sp \in Space /\ loc[c].sp \in Visible /\ CellOf(loc[c].ptr, loc[c].sp, loc[c].l, own, lvl)
  BY <1>1 DEF WalkFits
<1>4. loc[c].sp \in Live
  BY <1>3 DEF Visible, Live
<1>5. loc[c].l \in 0 .. Lev /\ loc[c].cap \in Cap \cup {Null}
  BY <1>1 DEF LocRecs
<1>6. PICK j : j = job[c]
  OBVIOUS
<1>7. j \in Jobs /\ j # NoJob
  BY <1>1, <1>2, <1>6
<1>8. /\ j \in DelegateJobs \cup CreateJobs
      /\ j.kind = "create" => j \in CreateJobs
      /\ j.kind # "create" => j \in DelegateJobs /\ j.kind = "delegate"
  BY <1>7, JobKinds
<1>9. job[c].kind = "create" => loc[c].cap # Null
  BY <1>1 DEF JobFits
<1> QED
  BY <1>1, <1>3, <1>4, <1>5, <1>6, <1>8, <1>9

\* walk() goes one level down.
LEMMA WalkInv ==
    ASSUME NEW own \in Owns, NEW lvl \in Levels, SpaceInv(own, lvl), NEW c \in Cpu, Walk(c)
    PROVE  SpaceInv(own, lvl)'
<1>0. pc[c] = "walk" /\ pc[c] \in Walking /\ UNCHANGED <<mem, used, objs, parent, attached, spaceObj>>
  BY DEF Walk, Walking
<1>1. /\ job[c] \in DelegateJobs \cup CreateJobs /\ loc[c] \in LocRecs
      /\ loc[c].sp \in Live /\ loc[c].sp \in Space /\ loc[c].sp \in Visible
      /\ loc[c].l \in 0 .. Lev /\ loc[c].cap \in Cap \cup {Null}
      /\ CellOf(loc[c].ptr, loc[c].sp, loc[c].l, own, lvl) /\ JobFits(c)
      /\ job[c].kind = "create" => job[c] \in CreateJobs /\ loc[c].cap # Null
      /\ job[c].kind # "create" => job[c] \in DelegateJobs /\ job[c].kind = "delegate"
  BY <1>0, WalkFacts
<1>2. SpaceShape /\ WalkFits(c, own, lvl)
  BY DEF SpaceInv
<1>3. Lev \in Nat
  BY SpaceObjAssumption
<1>4. ASSUME Alone(c), pc'[c] # "cas", pc'[c] # "publish", job'[c] = job[c] PROVE Visible' = Visible /\ Installed' = Installed
  <2>1. \A o : Creates(c, o)' <=> Creates(c, o)
    BY <1>0, <1>4 DEF Creates
  <2> QED
    BY <1>0, <1>4, <2>1, VisibleSame, InstalledSame
<1>5. ASSUME Alone(c), pc'[c] \in Walking, pc'[c] # "cas", job'[c] = job[c], loc'[c].cap = loc[c].cap, WalkFits(c, own, lvl)'
      PROVE  SpaceInv(own, lvl)'
  <2>1. \A o : Creates(c, o)' <=> Creates(c, o)
    BY <1>0, <1>5 DEF Creates, Walking
  <2>2. Visible' = Visible
    BY <1>4, <1>5 DEF Walking
  <2>3. JobFits(c)'
    BY <1>0, <1>1, <1>5, <2>2 DEF JobFits, Walking
  <2> QED
    BY <1>0, <1>5, <2>1, <2>3, QuietStep
<1>6. CASE loc[c].l = 0
  <2>1. Goto(c, "store") /\ loc' = loc /\ job' = job
    BY <1>0, <1>6 DEF Walk
  <2>2. Alone(c) /\ pc'[c] = "store" /\ loc'[c] = loc[c] /\ job'[c] = job[c]
    BY <1>2, <2>1, GotoEffect DEF Places
  <2>3. Visible' = Visible /\ Installed' = Installed
    BY <1>4, <2>2
  <2>4. WalkFits(c, own, lvl)'
    BY <1>0, <1>1, <1>6, <2>2, <2>3 DEF WalkFits, CellOf
  <2> QED
    BY <1>5, <2>2, <2>4 DEF Walking
<1>7. CASE loc[c].l # 0 /\ mem[loc[c].ptr] # Null
  <2>1. PICK t : t = mem[loc[c].ptr]
    OBVIOUS
  <2>2. Descend(c, t) /\ job' = job
    BY <1>0, <1>7, <2>1 DEF Walk
  <2>3. loc[c].l \in 1 .. Lev
    BY <1>1, <1>3, <1>7
  <2>4. t \in Installed /\ t \in Page /\ own[t] = loc[c].sp /\ lvl[t] = loc[c].l
    BY <1>1, <1>7, <2>1, <2>3, CellTable
  <2>5. /\ Alone(c) /\ pc'[c] = "walk" /\ job'[c] = job[c]
        /\ loc'[c].sp = loc[c].sp /\ loc'[c].cap = loc[c].cap /\ loc'[c].tbl = Null
        /\ loc'[c].l = loc[c].l - 1 /\ loc'[c].l \in 0 .. Lev
        /\ \E i \in Slot : loc'[c].ptr = <<t, i>>
    BY <1>2, <1>7, <2>2, <2>4, DescendEffect
  <2>6. Visible' = Visible /\ Installed' = Installed
    BY <1>4, <2>5
  <2>7. loc'[c].l # Lev /\ lvl[t] = loc'[c].l + 1
    BY <1>3, <2>3, <2>4, <2>5
  <2>8. CellOf(loc[c].ptr, loc[c].sp, loc[c].l, own, lvl)'
    BY <2>4, <2>5, <2>6, <2>7 DEF CellOf
  <2>9. WalkFits(c, own, lvl)'
    BY <1>1, <2>5, <2>6, <2>8 DEF WalkFits
  <2> QED
    BY <1>5, <2>5, <2>9 DEF Walking
<1>8. CASE loc[c].l # 0 /\ mem[loc[c].ptr] = Null /\ loc[c].cap = Null
  <2>1. NextSelector(c)
    BY <1>0, <1>8 DEF Walk
  <2>2. job[c] \in DelegateJobs /\ job[c].kind = "delegate"
    BY <1>1, <1>8
  <2>3. /\ Alone(c) /\ loc'[c] = NoLoc
        /\ \/ pc'[c] = "user" /\ job'[c] = NoJob
           \/ /\ pc'[c] = "lookup" /\ job'[c] \in DelegateJobs
              /\ job'[c].src = job[c].src /\ job'[c].dst = job[c].dst
    BY <1>2, <2>1, <2>2, NextEffect
  <2>4. job'[c] \in Jobs /\ job'[c].kind # "create" /\ (job'[c] = NoJob <=> pc'[c] = "user") /\ NoJob.kind = "none"
        /\ (pc'[c] = "lookup" => job'[c].kind = "delegate") /\ (job'[c].kind = "delegate" => pc'[c] = "lookup")
    BY <2>3 DEF Jobs, NoJob, DelegateJobs
  <2>5. \A o : Creates(c, o)' <=> Creates(c, o)
    BY <2>2, <2>4 DEF Creates
  <2>6. Visible' = Visible
    BY <1>0, <2>3, <2>5, VisibleSame
  <2>7. JobFits(c)'
    <3>1. loc'[c].cap = Null /\ pc'[c] \in {"user", "lookup"}
      BY <2>3, NoLocType
    <3>2. job[c].src \in Visible /\ job[c].dst \in Visible
      BY <1>1, <2>2 DEF JobFits
    <3> QED
      BY <2>3, <2>4, <2>6, <3>1, <3>2 DEF JobFits
  <2>8. WalkFits(c, own, lvl)'
    BY <2>3 DEF WalkFits, Walking
  <2> QED
    BY <1>0, <2>3, <2>4, <2>5, <2>7, <2>8, QuietStep
<1>9. CASE loc[c].l # 0 /\ mem[loc[c].ptr] = Null /\ loc[c].cap # Null
  <2>1. Goto(c, "alloc") /\ loc' = loc /\ job' = job
    BY <1>0, <1>9 DEF Walk
  <2>2. Alone(c) /\ pc'[c] = "alloc" /\ loc'[c] = loc[c] /\ job'[c] = job[c]
    BY <1>2, <2>1, GotoEffect DEF Places
  <2>3. Visible' = Visible /\ Installed' = Installed
    BY <1>4, <2>2
  <2>4. loc[c].l > 0
    BY <1>1, <1>3, <1>9
  <2>5. WalkFits(c, own, lvl)'
    BY <1>0, <1>1, <1>9, <2>2, <2>3, <2>4 DEF WalkFits, CellOf
  <2> QED
    BY <1>5, <2>2, <2>5 DEF Walking
<1> QED
  BY <1>6, <1>7, <1>8, <1>9

\* walk() finds no memory: the creation is undone, or the delegation returns.
LEMMA WalkNoMemInv ==
    ASSUME NEW own \in Owns, NEW lvl \in Levels, SpaceInv(own, lvl), NEW c \in Cpu, WalkNoMem(c)
    PROVE  SpaceInv(own, lvl)'
<1>0. pc[c] = "alloc" /\ pc[c] \in Walking /\ UNCHANGED <<mem, used, objs, parent, attached, spaceObj>>
  BY DEF WalkNoMem, Walking
<1>1. /\ job[c] \in DelegateJobs \cup CreateJobs /\ JobFits(c)
      /\ job[c].kind # "create" => job[c].kind = "delegate"
  BY <1>0, WalkFacts
<1>2. SpaceShape
  BY DEF SpaceInv
<1>3. CASE job[c].kind = "create"
  <2>1. Goto(c, "undo") /\ loc' = loc /\ job' = job
    BY <1>3 DEF WalkNoMem
  <2>2. Alone(c) /\ pc'[c] = "undo" /\ loc'[c] = loc[c] /\ job'[c] = job[c]
    BY <1>2, <2>1, GotoEffect DEF Places
  <2>3. \A o : Creates(c, o)' <=> Creates(c, o)
    BY <1>0, <2>2 DEF Creates
  <2>4. Visible' = Visible
    BY <1>0, <2>2, <2>3, VisibleSame
  <2>5. JobFits(c)'
    BY <1>0, <1>1, <1>3, <2>2, <2>4 DEF JobFits
  <2>6. WalkFits(c, own, lvl)'
    BY <2>2 DEF WalkFits, Walking
  <2> QED
    BY <1>0, <2>2, <2>3, <2>5, <2>6, QuietStep
<1>4. CASE job[c].kind # "create"
  <2>1. Done(c)
    BY <1>4 DEF WalkNoMem
  <2>2. Alone(c) /\ pc'[c] = "user" /\ loc'[c] = NoLoc /\ job'[c] = NoJob
    BY <1>2, <2>1, DoneEffect
  <2>3. job'[c].kind = "none" /\ loc'[c].cap = Null
    BY <2>2, NoLocType DEF NoJob
  <2>4. \A o : Creates(c, o)' <=> Creates(c, o)
    BY <1>4, <2>3 DEF Creates
  <2>5. JobFits(c)'
    BY <2>2, <2>3 DEF JobFits
  <2>6. WalkFits(c, own, lvl)'
    BY <2>2 DEF WalkFits, Walking
  <2> QED
    BY <1>0, <2>2, <2>3, <2>4, <2>5, <2>6, QuietStep
<1> QED
  BY <1>3, <1>4

\* A delegation reads a capability of its source.
LEMMA DelegateOneInv ==
    ASSUME NEW own \in Owns, NEW lvl \in Levels, SpaceInv(own, lvl), NEW c \in Cpu, DelegateOne(c)
    PROVE  SpaceInv(own, lvl)'
<1>0. pc[c] = "lookup" /\ UNCHANGED <<mem, used, objs, parent, attached, spaceObj, job>>
  BY DEF DelegateOne
<1>1. SpaceShape /\ JobFits(c) /\ SpacesInv
  BY DEF SpaceInv, SpacesInv
<1>2. PICK j : j = job[c]
  OBVIOUS
<1>3. j \in DelegateJobs /\ j.kind = "delegate" /\ j.src \in Visible /\ j.dst \in Visible
  <2>1. j \in Jobs /\ j.kind = "delegate"
    BY <1>0, <1>1, <1>2 DEF SpaceShape, JobFits
  <2>2. j \in DelegateJobs
    BY <2>1, JobKinds
  <2> QED
    BY <1>1, <1>2, <2>1, <2>2 DEF JobFits
<1>4. j.src \in Space /\ j.dst \in Space /\ j.s \in Nat /\ j.d \in Nat /\ j.pmm \subseteq Bits
  BY <1>3 DEF DelegateJobs
<1>5. j.src \in Live /\ j.dst \in Live
  BY <1>3, <1>4 DEF Live, Visible
<1>6. PICK cap : cap = Lookup(j.src, j.s)
  OBVIOUS
<1>7. cap \in Cap \cup {Null} /\ (cap # Null => cap.obj \in Visible)
  BY <1>1, <1>4, <1>5, <1>6, LookupSound
<1>8. PICK new : new = IF cap = Null THEN Null ELSE MakeCap(cap.obj, cap.prm \cap j.pmm)
  OBVIOUS
<1>9. new \in Cap \cup {Null} /\ (new # Null => new.obj \in Visible)
  BY <1>7, <1>8 DEF MakeCap, Cap
<1>10. BeginWalk(c, j.dst, j.d, new)
  BY <1>2, <1>6, <1>8 DEF DelegateOne
<1>11. /\ pc' \in [Cpu -> Places] /\ loc' \in [Cpu -> LocRecs]
       /\ \A d \in Cpu \ {c} : pc'[d] = pc[d] /\ loc'[d] = loc[d]
       /\ pc'[c] = "walk" /\ loc'[c].sp = j.dst /\ loc'[c].l = Lev /\ loc'[c].ptr = <<j.dst, 0>>
       /\ loc'[c].tbl = Null /\ loc'[c].cap = new
  BY <1>1, <1>4, <1>9, <1>10, BeginEffect
<1>12. Alone(c) /\ job'[c] = job[c]
  BY <1>0, <1>1, <1>11 DEF Alone, SpaceShape
<1>13. \A o : Creates(c, o)' <=> Creates(c, o)
  BY <1>2, <1>3, <1>12 DEF Creates
<1>14. Visible' = Visible
  BY <1>0, <1>12, <1>13, VisibleSame
<1>15. JobFits(c)'
  <2>1. job'[c].kind = "delegate" /\ job'[c] # NoJob /\ job'[c].src \in Visible' /\ job'[c].dst \in Visible'
    BY <1>2, <1>3, <1>12, <1>14 DEF NoJob
  <2> QED
    BY <1>9, <1>11, <1>14, <2>1 DEF JobFits
<1>16. WalkFits(c, own, lvl)'
  BY <1>3, <1>4, <1>11, <1>14 DEF WalkFits, CellOf
<1> QED
  BY <1>0, <1>11, <1>12, <1>13, <1>15, <1>16, QuietStep

\* A delegation begins.
LEMMA SysCtrlPdInv ==
    ASSUME NEW own \in Owns, NEW lvl \in Levels, SpaceInv(own, lvl), NEW c \in Cpu, NEW r \in Requests,
           SysCtrlPd(c, r)
    PROVE  SpaceInv(own, lvl)'
<1>0. pc[c] = "user" /\ UNCHANGED <<mem, used, objs, parent, attached, spaceObj, loc>>
  BY DEF SysCtrlPd
<1>1. SpaceShape /\ JobFits(c) /\ SpacesInv
  BY DEF SpaceInv, SpacesInv
<1>2. Home[c] \in Live /\ Home[c] \in Space
  BY SpaceObjAssumption DEF SpaceInv, CapsSound, Visible, Live
<1>3. r.src \in Nat /\ r.dst \in Nat /\ r.ssb \in Nat /\ r.dsb \in Nat /\ r.ord \in Nat /\ r.pmm \subseteq Bits
  BY SpaceObjAssumption
<1>4. PICK cst : cst = Lookup(Home[c], r.src)
  OBVIOUS
<1>5. PICK cdt : cdt = Lookup(Home[c], r.dst)
  OBVIOUS
<1>6. cst \in Cap \cup {Null} /\ (cst # Null => cst.obj \in Visible)
  BY <1>1, <1>2, <1>3, <1>4, LookupSound
<1>7. cdt \in Cap \cup {Null} /\ (cdt # Null => cdt.obj \in Visible)
  BY <1>1, <1>2, <1>3, <1>5, LookupSound
<1>8. P_TAKE \in Prm(cst) /\ P_GRANT \in Prm(cdt) /\ cst.obj \in Space /\ cdt.obj \in Space
  BY <1>4, <1>5 DEF SysCtrlPd
<1>9. cst.obj \in Visible /\ cdt.obj \in Visible
  BY <1>6, <1>7, <1>8 DEF Prm
<1>10. PICK j : j = [kind |-> "delegate", src |-> cst.obj, dst |-> cdt.obj,
                     s |-> r.ssb, d |-> r.dsb, left |-> 2^r.ord, pmm |-> r.pmm]
  OBVIOUS
<1>11. j \in DelegateJobs /\ j.kind = "delegate" /\ j.src = cst.obj /\ j.dst = cdt.obj
  <2>1. 2^r.ord \in Int
    BY <1>3
  <2> QED
    BY <1>3, <1>8, <1>10, <2>1 DEF DelegateJobs
<1>12. job' = [job EXCEPT ![c] = j]
  BY <1>4, <1>5, <1>10 DEF SysCtrlPd
<1>13. job'[c] = j /\ job' \in [Cpu -> Jobs] /\ \A d \in Cpu \ {c} : job'[d] = job[d]
  BY <1>1, <1>11, <1>12 DEF SpaceShape, Jobs
<1>14. pc'[c] = "lookup" /\ pc' \in [Cpu -> Places] /\ \A d \in Cpu \ {c} : pc'[d] = pc[d]
  BY <1>1 DEF SpaceShape, SysCtrlPd, Goto, Places
<1>15. Alone(c)
  BY <1>0, <1>1, <1>13, <1>14 DEF Alone, SpaceShape
<1>16. job[c].kind = "none" /\ job'[c].kind = "delegate" /\ job'[c] # NoJob
  BY <1>0, <1>1, <1>11, <1>13 DEF JobFits, NoJob
<1>17. \A o : Creates(c, o)' <=> Creates(c, o)
  BY <1>16 DEF Creates
<1>18. Visible' = Visible
  BY <1>0, <1>15, <1>17, VisibleSame
<1>19. loc'[c].cap = Null
  BY <1>0, <1>1 DEF JobFits
<1>20. JobFits(c)'
  BY <1>9, <1>11, <1>13, <1>14, <1>16, <1>18, <1>19 DEF JobFits
<1>21. WalkFits(c, own, lvl)'
  BY <1>14 DEF WalkFits, Walking
<1> QED
  BY <1>0, <1>14, <1>15, <1>16, <1>17, <1>20, <1>21, QuietStep

-----------------------------------------------------------------------------
\* Storing a capability in a leaf table leaves the trees as they are.
LEMMA StoreTrees ==
    ASSUME NEW m \in [Cell -> Page \cup Cap \cup {Null}], NEW spaces \in SUBSET Space, NEW tables \in SUBSET Page,
           NEW own \in Owns, NEW lvl \in Levels, Trees(m, spaces, tables, own, lvl),
           NEW p \in tables, NEW i \in Slot, lvl[p] = 1, NEW v \in Cap \cup {Null},
           NEW m2, m2 = [m EXCEPT ![<<p, i>>] = v]
    PROVE  Trees(m2, spaces, tables, own, lvl)
<1>0. /\ \A q \in tables, k \in Slot : <<q, k>> \in Cell
      /\ \A sp \in spaces : <<sp, 0>> \in Cell /\ <<sp, 0>> # <<p, i>>
      /\ \A q \in tables : lvl[q] \in 1 .. Lev /\ own[q] \in Space
      /\ Lev \in Nat
  BY Cells, SpaceObjAssumption DEF Owns, Levels
<1>1. \A x \in Cell : x # <<p, i>> => m2[x] = m[x]
  OBVIOUS
<1>2. m2[<<p, i>>] = v
  BY <1>0
<1>3. ASSUME NEW sp \in spaces
      PROVE  m2[<<sp, 0>>] # Null => m2[<<sp, 0>>] \in tables /\ own[m2[<<sp, 0>>]] = sp /\ lvl[m2[<<sp, 0>>]] = Lev
  <2>1. m2[<<sp, 0>>] = m[<<sp, 0>>]
    BY <1>0, <1>1
  <2> QED
    BY <2>1 DEF Trees
<1>4. ASSUME NEW q \in tables, NEW k \in Slot
      PROVE  m2[<<q, k>>] # Null => IF lvl[q] = 1 THEN m2[<<q, k>>] \in Cap
                ELSE m2[<<q, k>>] \in tables /\ own[m2[<<q, k>>]] = own[q] /\ lvl[m2[<<q, k>>]] = lvl[q] - 1
  <2>1. CASE <<q, k>> = <<p, i>>
    BY <2>1, <1>2
  <2>2. CASE <<q, k>> # <<p, i>>
    <3>1. m2[<<q, k>>] = m[<<q, k>>]
      BY <2>2, <1>0, <1>1
    <3> QED
      BY <3>1 DEF Trees
  <2> QED
    BY <2>1, <2>2
<1>5. ASSUME NEW q \in tables
      PROVE  /\ own[q] \in spaces
             /\ IF lvl[q] = Lev THEN m2[<<own[q], 0>>] = q
                ELSE \E t \in tables, k \in Slot : own[t] = own[q] /\ lvl[t] = lvl[q] + 1 /\ m2[<<t, k>>] = q
  <2>1. own[q] \in spaces
    BY DEF Trees
  <2>2. CASE lvl[q] = Lev
    <3>1. m[<<own[q], 0>>] = q
      BY <2>2 DEF Trees
    <3> QED
      BY <2>1, <2>2, <3>1, <1>0, <1>1
  <2>3. CASE lvl[q] # Lev
    <3>1. PICK t \in tables, k \in Slot : own[t] = own[q] /\ lvl[t] = lvl[q] + 1 /\ m[<<t, k>>] = q
      BY <2>3 DEF Trees
    <3>2. lvl[t] # 1
      BY <3>1, <1>0
    <3>3. <<t, k>> # <<p, i>>
      BY <3>2
    <3>4. m2[<<t, k>>] = q
      BY <3>1, <3>3, <1>0, <1>1
    <3> QED
      BY <2>1, <2>3, <3>1, <3>4
  <2> QED
    BY <2>2, <2>3
<1> QED
  BY <1>3, <1>4, <1>5 DEF Trees

\* The slot that update() and insert() write.
LEMMA StoreFacts ==
    ASSUME NEW own \in Owns, NEW lvl \in Levels, SpaceInv(own, lvl), NEW c \in Cpu, pc[c] = "store"
    PROVE  /\ \E p \in Installed, i \in Slot : loc[c].ptr = <<p, i>> /\ lvl[p] = 1 /\ own[p] = loc[c].sp
           /\ loc[c].ptr \in Cell /\ loc[c].cap \in Cap \cup {Null}
           /\ mem[loc[c].ptr] \notin Page
<1>1. pc[c] \in Walking /\ loc[c].l = 0 /\ Lev # 0
  BY SpaceObjAssumption DEF Walking, SpaceInv, WalkFits
<1>2. CellOf(loc[c].ptr, loc[c].sp, loc[c].l, own, lvl) /\ loc[c].cap \in Cap \cup {Null}
  BY <1>1, WalkFacts
<1>3. PICK p \in Installed, i \in Slot : loc[c].ptr = <<p, i>> /\ lvl[p] = 1 /\ own[p] = loc[c].sp
  BY <1>1, <1>2 DEF CellOf
<1>4. p \in Page
  BY DEF SpaceInv, SpaceShape, Installed
<1>5. mem[<<p, i>>] # Null => mem[<<p, i>>] \in Cap
  BY <1>3 DEF SpaceInv, Trees
<1> QED
  BY <1>2, <1>3, <1>4, <1>5, Cells

\* What a store of CPU c does to all that is not about c and the objects.
LEMMA StoreKeeps ==
    ASSUME NEW own \in Owns, NEW lvl \in Levels, SpaceInv(own, lvl), NEW c \in Cpu, Alone(c),
           pc[c] = "store", pc'[c] # "cas", mem' = [mem EXCEPT ![loc[c].ptr] = loc[c].cap],
           UNCHANGED <<used, objs, parent, attached, spaceObj>>,
           Visible \subseteq Visible', loc[c].cap # Null => loc[c].cap.obj \in Visible',
           \A o : Pending(o)' => Pending(o),
           job'[c].kind = "create" => job[c].kind = "create" /\ job'[c].obj = job[c].obj,
           JobFits(c)', WalkFits(c, own, lvl)'
    PROVE  SpaceInv(own, lvl)'
<1>0. PICK p \in Installed, i \in Slot : loc[c].ptr = <<p, i>> /\ lvl[p] = 1 /\ own[p] = loc[c].sp
  BY StoreFacts
<1>1. <<p, i>> \in Cell /\ p \in Page /\ loc[c].cap \in Cap \cup {Null}
  BY <1>0, StoreFacts DEF SpaceInv, SpaceShape, Installed
<1>2. Installed' = Installed /\ Live' = Live /\ Installed \subseteq Page /\ Live \subseteq Space
  BY InstalledSame DEF Live, SpaceInv, SpaceShape, Installed
<1>3. mem \in [Cell -> Page \cup Cap \cup {Null}] /\ mem' \in [Cell -> Page \cup Cap \cup {Null}]
      /\ mem' = [mem EXCEPT ![<<p, i>>] = loc[c].cap]
  BY <1>0, <1>1 DEF SpaceInv, SpaceShape
<1>4. mem'[<<p, i>>] = loc[c].cap /\ \A x \in Cell : x # <<p, i>> => mem'[x] = mem[x]
  BY <1>1, <1>3
<1>5. SpaceShape'
  BY <1>3 DEF SpaceInv, SpaceShape, Alone
<1>6. Trees(mem, Live, Installed, own, lvl)'
  <2>1. PICK m : m = mem
    OBVIOUS
  <2>2. PICK m2 : m2 = mem'
    OBVIOUS
  <2>3. PICK S, T : S = Live /\ T = Installed
    OBVIOUS
  <2>4. PICK v : v = loc[c].cap
    OBVIOUS
  <2>5. Trees(m, S, T, own, lvl)
    BY <2>1, <2>3, Zenon DEF SpaceInv
  <2>6. Trees(m2, S, T, own, lvl)
    <3>1. /\ m \in [Cell -> Page \cup Cap \cup {Null}] /\ S \in SUBSET Space /\ T \in SUBSET Page
          /\ p \in T /\ v \in Cap \cup {Null} /\ m2 = [m EXCEPT ![<<p, i>>] = v]
      BY <1>1, <1>2, <1>3, <2>1, <2>2, <2>3, <2>4
    <3> QED
      BY <1>0, <2>5, <3>1, StoreTrees
  <2> QED
    BY <1>2, <2>2, <2>3, <2>6, Zenon
<1>7. \A d \in Cpu \ {c} : JobFits(d)' /\ WalkFits(d, own, lvl)'
  <2>1. \A d \in Cpu \ {c} : job[d].kind = "create" =>
            job[d].obj \in objs' /\ (job[d].obj \in Space => parent'[job[d].obj] = parent[job[d].obj])
    BY DEF SpaceInv, JobFits
  <2>2. ASSUME NEW d \in Cpu \ {c}, pc[d] = "cas"
        PROVE  loc[d].tbl \in used' /\ \A k \in Slot : mem'[<<loc[d].tbl, k>>] = mem[<<loc[d].tbl, k>>]
    <3>1. loc[d].tbl \in used /\ loc[d].tbl \notin Installed /\ loc[d].tbl \in Page
      BY <2>2 DEF SpaceInv, WalkFits, Walking, Installed, SpaceShape
    <3>2. ASSUME NEW k \in Slot PROVE <<loc[d].tbl, k>> \in Cell /\ <<loc[d].tbl, k>> # <<p, i>>
      BY <3>1, Cells
    <3> QED
      BY <1>4, <3>1, <3>2
  <2> QED
    BY <1>2, <2>1, <2>2, OthersKept
<1>8. OneCreator'
  BY CreatorsKept DEF SpaceInv, OneCreator
<1>9. OneInstaller'
  BY InstallersKept DEF SpaceInv
<1>10. CapsSound'
  <2>1. ASSUME NEW q \in Installed, NEW k \in Slot, mem'[<<q, k>>] \in Cap PROVE mem'[<<q, k>>].obj \in Visible'
    <3>1. CASE <<q, k>> = <<p, i>>
      BY <1>4, <2>1, <3>1, Cells
    <3>2. CASE <<q, k>> # <<p, i>>
      <4>1. <<q, k>> \in Cell /\ mem'[<<q, k>>] = mem[<<q, k>>]
        BY <1>2, <1>4, <3>2, Cells
      <4> QED
        BY <2>1, <4>1 DEF SpaceInv, CapsSound
    <3> QED
      BY <3>1, <3>2
  <2>2. ASSUME NEW sp \in Space, Pending(sp)' PROVE mem'[<<sp, 0>>] = Null
    <3>1. <<sp, 0>> \in Cell /\ <<sp, 0>> # <<p, i>>
      BY <1>1, Cells
    <3> QED
      BY <1>4, <2>2, <3>1 DEF SpaceInv, CapsSound
  <2>3. \A d \in Cpu : Home[d] \in Visible'
    BY DEF SpaceInv, CapsSound
  <2> QED
    BY <1>2, <2>1, <2>2, <2>3 DEF CapsSound
<1>11. ParentsOnce'
  BY <1>2 DEF SpaceInv, ParentsOnce
<1> QED
  BY <1>5, <1>6, <1>7, <1>8, <1>9, <1>10, <1>11 DEF SpaceInv

\* update() exchanges a slot.
LEMMA StoreUpdateInv ==
    ASSUME NEW own \in Owns, NEW lvl \in Levels, SpaceInv(own, lvl), NEW c \in Cpu, StoreUpdate(c)
    PROVE  SpaceInv(own, lvl)'
<1>0. /\ pc[c] = "store" /\ pc[c] \in Walking /\ job[c].kind = "delegate"
      /\ mem' = [mem EXCEPT ![loc[c].ptr] = loc[c].cap] /\ UNCHANGED <<used, objs, parent, attached, spaceObj>>
  BY DEF StoreUpdate, Walking
<1>1. SpaceShape /\ JobFits(c) /\ job[c] \in DelegateJobs
  BY <1>0, WalkFacts DEF SpaceInv
<1>2. /\ Alone(c) /\ loc'[c] = NoLoc
      /\ \/ pc'[c] = "user" /\ job'[c] = NoJob
         \/ /\ pc'[c] = "lookup" /\ job'[c] \in DelegateJobs
            /\ job'[c].src = job[c].src /\ job'[c].dst = job[c].dst
  BY <1>1, NextEffect DEF StoreUpdate
<1>3. job'[c] \in Jobs /\ job'[c].kind # "create" /\ (job'[c] = NoJob <=> pc'[c] = "user") /\ NoJob.kind = "none"
      /\ (pc'[c] = "lookup" => job'[c].kind = "delegate") /\ (job'[c].kind = "delegate" => pc'[c] = "lookup")
  BY <1>2 DEF Jobs, NoJob, DelegateJobs
<1>4. \A o : Creates(c, o)' <=> Creates(c, o)
  BY <1>0, <1>3 DEF Creates
<1>5. Visible' = Visible /\ \A o : Pending(o)' <=> Pending(o)
  BY <1>0, <1>2, <1>4, VisibleSame
<1>6. JobFits(c)'
  <2>1. loc'[c].cap = Null /\ pc'[c] \in {"user", "lookup"}
    BY <1>2, NoLocType
  <2>2. job[c].src \in Visible /\ job[c].dst \in Visible
    BY <1>0, <1>1 DEF JobFits
  <2> QED
    BY <1>2, <1>3, <1>5, <2>1, <2>2 DEF JobFits
<1>7. WalkFits(c, own, lvl)' /\ pc'[c] # "cas"
  BY <1>2 DEF WalkFits, Walking
<1>8. loc[c].cap # Null => loc[c].cap.obj \in Visible'
  BY <1>0, <1>1, <1>5 DEF JobFits
<1> QED
  BY <1>0, <1>2, <1>3, <1>5, <1>6, <1>7, <1>8, StoreKeeps

\* insert() fills an empty slot, and the object becomes visible, or the object goes.
LEMMA StoreInsertInv ==
    ASSUME NEW own \in Owns, NEW lvl \in Levels, SpaceInv(own, lvl), NEW c \in Cpu, StoreInsert(c)
    PROVE  SpaceInv(own, lvl)'
<1>0. /\ pc[c] = "store" /\ pc[c] \in Walking /\ job[c].kind = "create"
      /\ UNCHANGED <<used, objs, parent, attached, spaceObj>>
  BY DEF StoreInsert, Walking
<1>1. SpaceShape /\ JobFits(c) /\ job[c] \in CreateJobs
  BY <1>0, WalkFacts DEF SpaceInv
<1>2. job[c].obj \in objs /\ loc[c].cap # Null /\ loc[c].cap.obj = job[c].obj
  BY <1>0, <1>1 DEF JobFits
<1>3. CASE mem[loc[c].ptr] # Null
  <2>1. mem' = mem /\ Goto(c, "undo") /\ loc' = loc /\ job' = job
    BY <1>3 DEF StoreInsert
  <2>2. Alone(c) /\ pc'[c] = "undo" /\ loc'[c] = loc[c] /\ job'[c] = job[c]
    BY <1>1, <2>1, GotoEffect DEF Places
  <2>3. \A o : Creates(c, o)' <=> Creates(c, o)
    BY <1>0, <2>2 DEF Creates
  <2>4. JobFits(c)'
    BY <1>0, <1>1, <2>2 DEF JobFits
  <2>5. WalkFits(c, own, lvl)'
    BY <2>2 DEF WalkFits, Walking
  <2> QED
    BY <1>0, <2>1, <2>2, <2>3, <2>4, <2>5, QuietStep
<1>4. CASE mem[loc[c].ptr] = Null
  <2>1. /\ mem' = [mem EXCEPT ![loc[c].ptr] = loc[c].cap]
        /\ IF job[c].obj \in Space THEN Goto(c, "publish") /\ loc' = loc /\ job' = job ELSE Done(c)
    BY <1>4 DEF StoreInsert
  <2>2. /\ Alone(c)
        /\ \/ job[c].obj \in Space /\ pc'[c] = "publish" /\ loc'[c] = loc[c] /\ job'[c] = job[c]
           \/ pc'[c] = "user" /\ loc'[c] = NoLoc /\ job'[c] = NoJob
    BY <1>1, <2>1, GotoEffect, DoneEffect DEF Places
  <2>3. NoJob.kind = "none" /\ NoLoc.cap = Null
    BY NoLocType DEF NoJob
  <2>4. \A o : ~Creates(c, o)'
    BY <2>2, <2>3 DEF Creates
  <2>5. \A o : Pending(o)' => Pending(o)
    BY <2>2, <2>4 DEF Pending, Alone, Creates
  <2>6. Visible \subseteq Visible'
    BY <1>0, <2>5 DEF Visible
  <2>7. job[c].obj \in Visible'
    <3>0. PICK x : x = job[c].obj
      OBVIOUS
    <3>1. ASSUME NEW d \in Cpu, Creates(d, x)' PROVE FALSE
      <4>1. d # c
        BY <2>4, <3>1
      <4>2. job[d].kind = "create" /\ job[d].obj = job[c].obj
        BY <2>2, <3>0, <3>1, <4>1 DEF Alone, Creates
      <4> QED
        BY <1>0, <4>1, <4>2 DEF SpaceInv, OneCreator
    <3>2. x \in Visible'
      BY <1>0, <1>2, <3>0, <3>1 DEF Visible, Pending
    <3> QED
      BY <3>0, <3>2
  <2>8. JobFits(c)'
    <3>1. CASE job[c].obj \in Space /\ pc'[c] = "publish" /\ loc'[c] = loc[c] /\ job'[c] = job[c]
      BY <1>0, <1>1, <1>2, <3>1 DEF JobFits
    <3>2. CASE pc'[c] = "user" /\ loc'[c] = NoLoc /\ job'[c] = NoJob
      BY <2>3, <3>2 DEF JobFits
    <3> QED
      BY <2>2, <3>1, <3>2
  <2>9. WalkFits(c, own, lvl)' /\ pc'[c] # "cas"
    BY <2>2 DEF WalkFits, Walking
  <2> QED
    BY <1>0, <1>2, <2>1, <2>2, <2>3, <2>5, <2>6, <2>7, <2>8, <2>9, StoreKeeps
<1> QED
  BY <1>3, <1>4

\* Cells outside of the trees, and spaces without tables, do not matter to them.
LEMMA TreesSame ==
    ASSUME NEW m, NEW m2, NEW S, NEW S2, NEW T, NEW own, NEW lvl, Trees(m, S, T, own, lvl),
           \A sp \in S2 : IF sp \in S THEN m2[<<sp, 0>>] = m[<<sp, 0>>] ELSE m2[<<sp, 0>>] = Null,
           \A p \in T, i \in Slot : m2[<<p, i>>] = m[<<p, i>>],
           \A p \in T : own[p] \in S2
    PROVE  Trees(m2, S2, T, own, lvl)
<1>1. ASSUME NEW sp \in S2, m2[<<sp, 0>>] # Null
      PROVE  m2[<<sp, 0>>] \in T /\ own[m2[<<sp, 0>>]] = sp /\ lvl[m2[<<sp, 0>>]] = Lev
  BY <1>1 DEF Trees
<1>2. ASSUME NEW p \in T, NEW i \in Slot, m2[<<p, i>>] # Null
      PROVE  IF lvl[p] = 1 THEN m2[<<p, i>>] \in Cap
             ELSE m2[<<p, i>>] \in T /\ own[m2[<<p, i>>]] = own[p] /\ lvl[m2[<<p, i>>]] = lvl[p] - 1
  <2>1. m2[<<p, i>>] = m[<<p, i>>]
    OBVIOUS
  <2> QED
    BY <1>2, <2>1 DEF Trees
<1>3. ASSUME NEW p \in T
      PROVE  IF lvl[p] = Lev THEN m2[<<own[p], 0>>] = p
             ELSE \E q \in T, i \in Slot : own[q] = own[p] /\ lvl[q] = lvl[p] + 1 /\ m2[<<q, i>>] = p
  <2>1. CASE lvl[p] = Lev
    <3>1. own[p] \in S /\ m[<<own[p], 0>>] = p
      BY <2>1 DEF Trees
    <3> QED
      BY <2>1, <3>1
  <2>2. CASE lvl[p] # Lev
    <3>1. PICK q \in T, i \in Slot : own[q] = own[p] /\ lvl[q] = lvl[p] + 1 /\ m[<<q, i>>] = p
      BY <2>2 DEF Trees
    <3>2. m2[<<q, i>>] = p
      BY <3>1
    <3> QED
      BY <2>2, <3>1, <3>2
  <2> QED
    BY <2>1, <2>2
<1> QED
  BY <1>1, <1>2, <1>3 DEF Trees

\* A space with an empty root cell has no tables.
LEMMA EmptySpace ==
    ASSUME NEW own \in Owns, NEW lvl \in Levels, SpaceInv(own, lvl), NEW sp \in Space, mem[<<sp, 0>>] = Null
    PROVE  \A p \in Installed : own[p] # sp
<1>0. Lev \in Nat /\ \A p \in Installed : p \in Page /\ p # Null /\ lvl[p] \in 1 .. Lev
  BY SpaceObjAssumption, Cells DEF Levels, SpaceInv, SpaceShape, Installed
<1> SUFFICES ASSUME NEW p0 \in Installed, own[p0] = sp PROVE FALSE
  OBVIOUS
<1>1. PICK S : S = {n \in Nat : \E p \in Installed : own[p] = sp /\ lvl[p] = Lev - n}
  OBVIOUS
<1>2. S \subseteq Nat /\ Lev - lvl[p0] \in S
  <2>1. Lev - lvl[p0] \in Nat /\ lvl[p0] = Lev - (Lev - lvl[p0])
    BY <1>0
  <2> QED
    BY <1>1, <2>1
<1>3. PICK n \in S : \A k \in S : n <= k
  BY <1>2, HasLeast
<1>4. PICK p \in Installed : own[p] = sp /\ lvl[p] = Lev - n
  BY <1>1, <1>3
<1>5. CASE lvl[p] = Lev
  <2>1. mem[<<own[p], 0>>] = p
    BY <1>5 DEF SpaceInv, Trees
  <2> QED
    BY <1>0, <1>4, <2>1
<1>6. CASE lvl[p] # Lev
  <2>1. PICK q \in Installed, i \in Slot : own[q] = own[p] /\ lvl[q] = lvl[p] + 1 /\ mem[<<q, i>>] = p
    BY <1>6 DEF SpaceInv, Trees
  <2>2. n - 1 \in Nat /\ lvl[q] = Lev - (n - 1) /\ ~(n <= n - 1)
    BY <1>0, <1>3, <1>4, <1>6, <2>1, <1>2
  <2>3. n - 1 \in S
    BY <1>1, <1>4, <2>1, <2>2
  <2> QED
    BY <1>3, <2>2, <2>3
<1> QED
  BY <1>5, <1>6

\* walk() allocates an empty table.
LEMMA WalkAllocInv ==
    ASSUME NEW own \in Owns, NEW lvl \in Levels, SpaceInv(own, lvl), NEW c \in Cpu, WalkAlloc(c)
    PROVE  SpaceInv(own, lvl)'
<1>0. /\ pc[c] = "alloc" /\ pc[c] \in Walking /\ used # Page /\ UNCHANGED <<objs, parent, attached, spaceObj, job>>
      /\ pc' = [pc EXCEPT ![c] = "cas"]
  BY DEF WalkAlloc, Goto, Walking
<1>1. SpaceShape /\ JobFits(c) /\ WalkFits(c, own, lvl) /\ used \subseteq Page
  BY DEF SpaceInv, SpaceShape
<1>2. PICK p \in Page : /\ p \notin used /\ used' = used \cup {p}
                        /\ mem' = [x \in Cell |-> IF x[1] = p THEN Null ELSE mem[x]]
                        /\ loc' = [loc EXCEPT ![c].tbl = p]
  <2>1. PICK p : p = CHOOSE q \in Page : q \notin used
    BY Zenon
  <2>2. p \in Page /\ p \notin used
    BY <1>0, <1>1, <2>1
  <2>3. /\ used' = used \cup {p} /\ mem' = [x \in Cell |-> IF x[1] = p THEN Null ELSE mem[x]]
        /\ loc' = [loc EXCEPT ![c].tbl = p]
    BY <2>1, Zenon DEF WalkAlloc
  <2> QED
    BY <2>2, <2>3
<1>3. /\ loc'[c] \in LocRecs /\ loc'[c].tbl = p /\ loc'[c].sp = loc[c].sp /\ loc'[c].l = loc[c].l
      /\ loc'[c].ptr = loc[c].ptr /\ loc'[c].cap = loc[c].cap
      /\ loc' \in [Cpu -> LocRecs] /\ \A d \in Cpu \ {c} : loc'[d] = loc[d]
  <2>1. PICK w : w = loc[c]
    OBVIOUS
  <2>2. w \in LocRecs
    BY <1>1, <2>1 DEF SpaceShape
  <2>3. PICK v : v = [w EXCEPT !.tbl = p]
    OBVIOUS
  <2>4. v \in LocRecs /\ v.tbl = p /\ v.sp = w.sp /\ v.l = w.l /\ v.ptr = w.ptr /\ v.cap = w.cap
    BY <2>2, <2>3 DEF LocRecs
  <2>5. loc' = [loc EXCEPT ![c] = v]
    BY <1>2, <2>1, <2>3
  <2> QED
    BY <1>1, <2>1, <2>4, <2>5 DEF SpaceShape
<1>4. pc'[c] = "cas" /\ pc' \in [Cpu -> Places] /\ \A d \in Cpu \ {c} : pc'[d] = pc[d]
  BY <1>0, <1>1 DEF SpaceShape, Places
<1>5. Alone(c) /\ job'[c] = job[c]
  BY <1>0, <1>1, <1>3, <1>4 DEF Alone, SpaceShape
<1>6. \A o : Creates(c, o)' <=> Creates(c, o)
  BY <1>0, <1>4, <1>5 DEF Creates
<1>7. Visible' = Visible /\ \A o : Pending(o)' <=> Pending(o)
  BY <1>0, <1>5, <1>6, VisibleSame
<1>8. Installed' = Installed /\ p \notin Installed
  <2>1. ASSUME NEW q \in used PROVE (\A d \in Cpu : pc'[d] = "cas" => loc'[d].tbl # q) <=> (\A d \in Cpu : pc[d] = "cas" => loc[d].tbl # q)
    <3>1. q # p
      BY <1>2
    <3> QED
      BY <1>0, <1>3, <1>4, <3>1
  <2>2. ~(\A d \in Cpu : pc'[d] = "cas" => loc'[d].tbl # p)
    BY <1>3, <1>4
  <2> QED
    BY <1>2, <2>1, <2>2 DEF Installed
<1>9. /\ \A q \in Page \ {p}, i \in Slot : mem'[<<q, i>>] = mem[<<q, i>>]
      /\ \A i \in Slot : mem'[<<p, i>>] = Null
      /\ \A sp \in Space : mem'[<<sp, 0>>] = mem[<<sp, 0>>]
  <2>1. \A q \in Page, i \in Slot : <<q, i>> \in Cell /\ <<q, i>>[1] = q
    BY Cells
  <2>2. \A sp \in Space : <<sp, 0>> \in Cell /\ <<sp, 0>>[1] = sp /\ sp # p
    BY Cells, SpaceObjAssumption DEF Obj
  <2> QED
    BY <1>2, <2>1, <2>2
<1>10. SpaceShape'
  <2>1. mem' \in [Cell -> Page \cup Cap \cup {Null}]
    BY <1>1, <1>2 DEF SpaceShape
  <2> QED
    BY <1>0, <1>1, <1>2, <1>5, <2>1 DEF SpaceShape, Alone
<1>11. Trees(mem, Live, Installed, own, lvl)'
  <2>1. PICK m, m2 : m = mem /\ m2 = mem'
    OBVIOUS
  <2>2. PICK S, T : S = Live /\ T = Installed
    OBVIOUS
  <2>3. Trees(m, S, T, own, lvl)
    BY <2>1, <2>2, Zenon DEF SpaceInv
  <2>4. \A sp \in S : m2[<<sp, 0>>] = m[<<sp, 0>>]
    BY <1>9, <2>1, <2>2 DEF Live
  <2>5. \A q \in T, i \in Slot : m2[<<q, i>>] = m[<<q, i>>]
    BY <1>1, <1>8, <1>9, <2>1, <2>2 DEF Installed
  <2>6. \A q \in T : own[q] \in S
    BY <2>3 DEF Trees
  <2>7. Trees(m2, S, T, own, lvl)
    BY <2>3, <2>4, <2>5, <2>6, TreesSame
  <2>8. Live' = Live
    BY <1>0 DEF Live
  <2> QED
    BY <1>8, <2>1, <2>2, <2>7, <2>8, Zenon
<1>12. JobFits(c)'
  BY <1>0, <1>1, <1>3, <1>4, <1>5, <1>7 DEF JobFits
<1>13. WalkFits(c, own, lvl)'
  BY <1>0, <1>1, <1>2, <1>3, <1>4, <1>7, <1>8, <1>9 DEF WalkFits, CellOf
<1>14. \A d \in Cpu \ {c} : JobFits(d)' /\ WalkFits(d, own, lvl)'
  <2>1. \A d \in Cpu \ {c} : job[d].kind = "create" =>
            job[d].obj \in objs' /\ (job[d].obj \in Space => parent'[job[d].obj] = parent[job[d].obj])
    BY <1>0 DEF SpaceInv, JobFits
  <2>2. ASSUME NEW d \in Cpu \ {c}, pc[d] = "cas"
        PROVE  loc[d].tbl \in used' /\ \A k \in Slot : mem'[<<loc[d].tbl, k>>] = mem[<<loc[d].tbl, k>>]
    <3>1. loc[d].tbl \in used
      BY <2>2 DEF SpaceInv, WalkFits, Walking
    <3> QED
      BY <1>1, <1>2, <1>9, <3>1
  <2> QED
    BY <1>5, <1>7, <1>8, <2>1, <2>2, OthersKept
<1>15. OneCreator'
  BY <1>5, CreatorsKept DEF SpaceInv, OneCreator
<1>16. OneInstaller'
  <2>1. ASSUME NEW d \in Cpu \ {c}, pc[d] = "cas" PROVE loc[d].tbl # loc'[c].tbl
    BY <1>2, <1>3, <2>1 DEF SpaceInv, WalkFits, Walking
  <2> QED
    BY <1>5, <2>1, InstallersKept DEF SpaceInv
<1>17. CapsSound'
  BY <1>1, <1>7, <1>8, <1>9 DEF SpaceInv, CapsSound, Installed
<1>18. ParentsOnce'
  BY <1>0, <1>7 DEF SpaceInv, ParentsOnce, Live
<1> QED
  BY <1>10, <1>11, <1>12, <1>13, <1>14, <1>15, <1>16, <1>17, <1>18 DEF SpaceInv

\* An empty table t gets into an empty cell x, and its owner, or level, is v.
Extends(m, m2, x, t) ==
    m[x] = Null /\ m2 = [m EXCEPT ![x] = t] /\ \A i \in Slot : m[<<t, i>>] = Null
Adds(f, g, t, v) == \A p \in Page : g[p] = IF p = t THEN v ELSE f[p]

\* Installing an empty table in an empty cell of its level extends the tree.
LEMMA InstallTrees ==
    ASSUME NEW m \in [Cell -> Page \cup Cap \cup {Null}], NEW S \in SUBSET Space, NEW T \in SUBSET Page,
           NEW own \in Owns, NEW lvl \in Levels, Trees(m, S, T, own, lvl),
           NEW x \in Cell, NEW sp \in S, NEW l \in 1 .. Lev, NEW t \in Page \ T,
           IF l = Lev THEN x = <<sp, 0>>
           ELSE \E p \in T, i \in Slot : x = <<p, i>> /\ own[p] = sp /\ lvl[p] = l + 1,
           NEW m2, Extends(m, m2, x, t),
           NEW own2 \in Owns, Adds(own, own2, t, sp), NEW lvl2 \in Levels, Adds(lvl, lvl2, t, l)
    PROVE  Trees(m2, S, T \cup {t}, own2, lvl2)
<1> USE DEF Extends, Adds
<1>0. /\ \A q \in Page, k \in Slot : <<q, k>> \in Cell
      /\ \A s \in S : <<s, 0>> \in Cell
      /\ \A s \in S, q \in Page, k \in Slot : <<s, 0>> # <<q, k>>
      /\ \A q \in Page : lvl[q] \in 1 .. Lev /\ own[q] \in Space
      /\ Lev \in Nat /\ t # Null /\ \A q \in Page : q # Null
  BY Cells, SpaceObjAssumption DEF Owns, Levels
<1>1. m2[x] = t /\ \A y \in Cell : y # x => m2[y] = m[y]
  OBVIOUS
<1>2. own2[t] = sp /\ lvl2[t] = l /\ \A p \in T : own2[p] = own[p] /\ lvl2[p] = lvl[p] /\ p # t
  OBVIOUS
<1>3. ASSUME NEW s \in S, m2[<<s, 0>>] # Null
      PROVE  m2[<<s, 0>>] \in T \cup {t} /\ own2[m2[<<s, 0>>]] = s /\ lvl2[m2[<<s, 0>>]] = Lev
  <2>1. CASE <<s, 0>> = x
    <3>1. l = Lev /\ s = sp
      BY <2>1, <1>0
    <3> QED
      BY <2>1, <3>1, <1>1, <1>2
  <2>2. CASE <<s, 0>> # x
    <3>1. m2[<<s, 0>>] = m[<<s, 0>>]
      BY <2>2, <1>0, <1>1
    <3>2. m[<<s, 0>>] \in T /\ own[m[<<s, 0>>]] = s /\ lvl[m[<<s, 0>>]] = Lev
      BY <1>3, <3>1 DEF Trees
    <3> QED
      BY <3>1, <3>2, <1>2
  <2> QED
    BY <2>1, <2>2
<1>4. ASSUME NEW q \in T \cup {t}, NEW k \in Slot, m2[<<q, k>>] # Null
      PROVE  IF lvl2[q] = 1 THEN m2[<<q, k>>] \in Cap
             ELSE m2[<<q, k>>] \in T \cup {t} /\ own2[m2[<<q, k>>]] = own2[q] /\ lvl2[m2[<<q, k>>]] = lvl2[q] - 1
  <2>0. q \in Page /\ <<q, k>> \in Cell
    BY <1>0
  <2>1. CASE <<q, k>> = x
    <3>1. l # Lev
      BY <2>0, <2>1, <1>0
    <3>2. PICK p \in T, i \in Slot : x = <<p, i>> /\ own[p] = sp /\ lvl[p] = l + 1
      BY <3>1
    <3>3. q = p
      BY <2>1, <3>2
    <3>4. own2[q] = sp /\ lvl2[q] = l + 1 /\ lvl2[q] # 1 /\ (l + 1) - 1 = l
      BY <3>2, <3>3, <1>0, <1>2
    <3> QED
      BY <2>1, <3>4, <1>1, <1>2
  <2>2. CASE <<q, k>> # x
    <3>1. m2[<<q, k>>] = m[<<q, k>>]
      BY <2>0, <2>2, <1>1
    <3>2. q \in T
      BY <1>4, <3>1
    <3>3. IF lvl[q] = 1 THEN m[<<q, k>>] \in Cap
          ELSE m[<<q, k>>] \in T /\ own[m[<<q, k>>]] = own[q] /\ lvl[m[<<q, k>>]] = lvl[q] - 1
      BY <1>4, <3>1, <3>2 DEF Trees
    <3> QED
      BY <3>1, <3>2, <3>3, <1>2
  <2> QED
    BY <2>1, <2>2
<1>5. ASSUME NEW q \in T \cup {t}
      PROVE  /\ own2[q] \in S
             /\ IF lvl2[q] = Lev THEN m2[<<own2[q], 0>>] = q
                ELSE \E p \in T \cup {t}, i \in Slot : own2[p] = own2[q] /\ lvl2[p] = lvl2[q] + 1 /\ m2[<<p, i>>] = q
  <2>1. CASE q = t
    <3>1. CASE l = Lev
      BY <2>1, <3>1, <1>1, <1>2
    <3>2. CASE l # Lev
      <4>1. PICK p \in T, i \in Slot : x = <<p, i>> /\ own[p] = sp /\ lvl[p] = l + 1
        BY <3>2
      <4>2. own2[p] = sp /\ lvl2[p] = l + 1 /\ m2[<<p, i>>] = t
        BY <4>1, <1>1, <1>2
      <4> QED
        BY <2>1, <3>2, <4>2, <1>2
    <3> QED
      BY <3>1, <3>2
  <2>2. CASE q \in T
    <3>0. own[q] \in S /\ own2[q] = own[q] /\ lvl2[q] = lvl[q] /\ q # Null
      BY <2>2, <1>0, <1>2 DEF Trees
    <3>1. CASE lvl[q] = Lev
      <4>1. m[<<own[q], 0>>] = q
        BY <2>2, <3>1 DEF Trees
      <4>2. <<own[q], 0>> # x /\ <<own[q], 0>> \in Cell
        BY <3>0, <4>1, <1>0
      <4> QED
        BY <3>0, <3>1, <4>1, <4>2, <1>1
    <3>2. CASE lvl[q] # Lev
      <4>1. PICK p \in T, i \in Slot : own[p] = own[q] /\ lvl[p] = lvl[q] + 1 /\ m[<<p, i>>] = q
        BY <2>2, <3>2 DEF Trees
      <4>2. <<p, i>> # x /\ <<p, i>> \in Cell
        BY <3>0, <4>1, <1>0
      <4>3. m2[<<p, i>>] = q /\ own2[p] = own2[q] /\ lvl2[p] = lvl2[q] + 1
        BY <3>0, <4>1, <4>2, <1>1, <1>2
      <4> QED
        BY <3>0, <3>2, <4>3
    <3> QED
      BY <3>1, <3>2
  <2> QED
    BY <2>1, <2>2
<1> QED
  BY <1>3, <1>4, <1>5 DEF Trees

\* What CPU c knows when it tries to install a table.
LEMMA CasFacts ==
    ASSUME NEW own \in Owns, NEW lvl \in Levels, SpaceInv(own, lvl), NEW c \in Cpu, pc[c] = "cas"
    PROVE  /\ loc[c].tbl \in used /\ loc[c].tbl \in Page /\ loc[c].tbl \notin Installed
           /\ \A i \in Slot : mem[<<loc[c].tbl, i>>] = Null
           /\ loc[c].l \in 1 .. Lev /\ loc[c].l # 0 /\ loc[c].cap # Null
           /\ loc[c].sp \in Live /\ loc[c].sp \in Space /\ loc[c].sp \in Visible
           /\ CellOf(loc[c].ptr, loc[c].sp, loc[c].l, own, lvl) /\ JobFits(c)
           /\ loc[c].ptr \in Cell
           /\ \A d \in Cpu \ {c} : pc[d] = "cas" => loc[d].tbl # loc[c].tbl
<1>0. pc[c] \in Walking
  BY DEF Walking
<1>1. /\ loc[c] \in LocRecs
      /\ loc[c].sp \in Live /\ loc[c].sp \in Space /\ loc[c].sp \in Visible
      /\ loc[c].l \in 0 .. Lev
      /\ CellOf(loc[c].ptr, loc[c].sp, loc[c].l, own, lvl) /\ JobFits(c)
  BY <1>0, WalkFacts
<1>2. loc[c].l > 0 /\ loc[c].cap # Null /\ loc[c].tbl \in used /\ \A i \in Slot : mem[<<loc[c].tbl, i>>] = Null
  BY <1>0 DEF SpaceInv, WalkFits
<1>3. loc[c].tbl \in Page /\ loc[c].tbl \notin Installed
  BY <1>2 DEF SpaceInv, SpaceShape, Installed
<1>4. loc[c].l \in 1 .. Lev /\ loc[c].l # 0
  BY <1>1, <1>2, SpaceObjAssumption
<1>5. loc[c].ptr \in Cell
  <2>1. Installed \subseteq Page
    BY DEF SpaceInv, SpaceShape, Installed
  <2> QED
    BY <1>1, <2>1, Cells, ZenonT(40) DEF CellOf
<1>6. \A d \in Cpu \ {c} : pc[d] = "cas" => loc[d].tbl # loc[c].tbl
  BY DEF SpaceInv, OneInstaller
<1> QED
  BY <1>1, <1>2, <1>3, <1>4, <1>5, <1>6

\* walk() loses the race for a cell: it drops its table and goes on with the other.
LEMMA CasLosesInv ==
    ASSUME NEW own \in Owns, NEW lvl \in Levels, SpaceInv(own, lvl), NEW c \in Cpu, WalkCas(c), mem[loc[c].ptr] # Null
    PROVE  SpaceInv(own, lvl)'
<1>0. /\ pc[c] = "cas" /\ UNCHANGED <<objs, parent, attached, spaceObj, job>> /\ mem' = mem
      /\ used' = used \ {loc[c].tbl} /\ Descend(c, mem[loc[c].ptr])
  BY DEF WalkCas
<1>1. SpaceShape /\ used \subseteq Page /\ Lev \in Nat
  BY SpaceObjAssumption DEF SpaceInv, SpaceShape
<1>2. /\ loc[c].tbl \in used /\ loc[c].tbl \in Page /\ loc[c].tbl \notin Installed
      /\ loc[c].l \in 1 .. Lev /\ loc[c].l # 0 /\ loc[c].cap # Null
      /\ loc[c].sp \in Live /\ loc[c].sp \in Space /\ loc[c].sp \in Visible
      /\ CellOf(loc[c].ptr, loc[c].sp, loc[c].l, own, lvl) /\ JobFits(c)
      /\ \A d \in Cpu \ {c} : pc[d] = "cas" => loc[d].tbl # loc[c].tbl
  BY <1>0, CasFacts
<1>3. PICK t : t = mem[loc[c].ptr]
  OBVIOUS
<1>4. t \in Installed /\ t \in Page /\ own[t] = loc[c].sp /\ lvl[t] = loc[c].l
  BY <1>2, <1>3, CellTable
<1>5. /\ Alone(c) /\ pc'[c] = "walk" /\ job'[c] = job[c]
      /\ loc'[c].sp = loc[c].sp /\ loc'[c].cap = loc[c].cap /\ loc'[c].tbl = Null
      /\ loc'[c].l = loc[c].l - 1 /\ loc'[c].l \in 0 .. Lev
      /\ \E i \in Slot : loc'[c].ptr = <<t, i>>
  BY <1>0, <1>1, <1>2, <1>3, <1>4, DescendEffect
<1>6. \A o : Creates(c, o)' <=> Creates(c, o)
  BY <1>0, <1>5 DEF Creates
<1>7. Visible' = Visible /\ (\A o : Pending(o)' <=> Pending(o)) /\ Live' = Live
  BY <1>0, <1>5, <1>6, VisibleSame DEF Live
<1>8. Installed' = Installed
  <2>1. ASSUME NEW p, p # loc[c].tbl
        PROVE  (\A d \in Cpu : pc'[d] = "cas" => loc'[d].tbl # p) <=> (\A d \in Cpu : pc[d] = "cas" => loc[d].tbl # p)
    BY <1>0, <1>5, <2>1 DEF Alone
  <2>2. ASSUME NEW p PROVE p \in Installed' <=> p \in Installed
    <3>1. CASE p = loc[c].tbl
      BY <1>0, <1>2, <3>1 DEF Installed
    <3>2. CASE p # loc[c].tbl
      BY <1>0, <2>1, <3>2 DEF Installed
    <3> QED
      BY <3>1, <3>2
  <2> QED
    BY <2>2
<1>9. SpaceShape'
  BY <1>0, <1>1, <1>5 DEF SpaceShape, Alone
<1>10. Trees(mem, Live, Installed, own, lvl)'
  BY <1>0, <1>7, <1>8, Zenon DEF SpaceInv
<1>11. JobFits(c)'
  BY <1>0, <1>2, <1>5, <1>7 DEF JobFits
<1>12. WalkFits(c, own, lvl)'
  <2>1. loc'[c].l # Lev /\ lvl[t] = loc'[c].l + 1
    BY <1>1, <1>2, <1>4, <1>5
  <2>2. CellOf(loc[c].ptr, loc[c].sp, loc[c].l, own, lvl)'
    BY <1>4, <1>5, <1>8, <2>1 DEF CellOf
  <2> QED
    BY <1>2, <1>5, <1>7, <2>2 DEF WalkFits
<1>13. \A d \in Cpu \ {c} : JobFits(d)' /\ WalkFits(d, own, lvl)'
  <2>1. \A d \in Cpu \ {c} : job[d].kind = "create" =>
            job[d].obj \in objs' /\ (job[d].obj \in Space => parent'[job[d].obj] = parent[job[d].obj])
    BY <1>0 DEF SpaceInv, JobFits
  <2>2. \A d \in Cpu \ {c} : pc[d] = "cas" =>
            loc[d].tbl \in used' /\ \A i \in Slot : mem'[<<loc[d].tbl, i>>] = mem[<<loc[d].tbl, i>>]
    BY <1>0, <1>2 DEF SpaceInv, WalkFits, Walking
  <2> QED
    BY <1>5, <1>7, <1>8, <2>1, <2>2, OthersKept
<1>14. OneCreator'
  BY <1>5, CreatorsKept DEF SpaceInv, OneCreator
<1>15. OneInstaller'
  BY <1>5, InstallersKept DEF SpaceInv
<1>16. CapsSound'
  BY <1>0, <1>7, <1>8 DEF SpaceInv, CapsSound
<1>17. ParentsOnce'
  BY <1>0, <1>7 DEF SpaceInv, ParentsOnce
<1> QED
  BY <1>9, <1>10, <1>11, <1>12, <1>13, <1>14, <1>15, <1>16, <1>17 DEF SpaceInv

\* Owners and levels with one table more.
LEMMA OneTableMore ==
    ASSUME NEW own \in Owns, NEW lvl \in Levels, NEW t \in Page, NEW sp \in Space, NEW l \in 1 .. Lev
    PROVE  \E own2 \in Owns, lvl2 \in Levels :
              Adds(own, own2, t, sp) /\ Adds(lvl, lvl2, t, l)
<1>1. PICK own2 : own2 = [p \in Page |-> IF p = t THEN sp ELSE own[p]]
  OBVIOUS
<1>2. PICK lvl2 : lvl2 = [p \in Page |-> IF p = t THEN l ELSE lvl[p]]
  OBVIOUS
<1>3. own2 \in Owns /\ lvl2 \in Levels
  BY <1>1, <1>2 DEF Owns, Levels
<1> QED
  BY <1>1, <1>2, <1>3 DEF Adds

\* walk() installs its table, which gets an owner and a level.
LEMMA CasWinsInv ==
    ASSUME NEW own \in Owns, NEW lvl \in Levels, SpaceInv(own, lvl), NEW c \in Cpu, WalkCas(c), mem[loc[c].ptr] = Null,
           NEW own2 \in Owns, NEW lvl2 \in Levels,
           Adds(own, own2, loc[c].tbl, loc[c].sp), Adds(lvl, lvl2, loc[c].tbl, loc[c].l)
    PROVE  SpaceInv(own2, lvl2)'
<1>0. /\ pc[c] = "cas" /\ UNCHANGED <<objs, parent, attached, spaceObj, job>> /\ used' = used
      /\ mem' = [mem EXCEPT ![loc[c].ptr] = loc[c].tbl] /\ Descend(c, loc[c].tbl)
  BY DEF WalkCas
<1>1. SpaceShape /\ used \subseteq Page /\ Lev \in Nat /\ Installed \subseteq Page
  BY SpaceObjAssumption DEF SpaceInv, SpaceShape, Installed
<1>2. PICK t, x, l, sp : t = loc[c].tbl /\ x = loc[c].ptr /\ l = loc[c].l /\ sp = loc[c].sp
  OBVIOUS
<1>3. /\ t \in used /\ t \in Page /\ t \notin Installed
      /\ \A i \in Slot : mem[<<t, i>>] = Null
      /\ l \in 1 .. Lev /\ loc[c].l # 0 /\ loc[c].cap # Null
      /\ sp \in Live /\ sp \in Space /\ sp \in Visible
      /\ CellOf(x, sp, l, own, lvl) /\ JobFits(c) /\ x \in Cell
      /\ \A d \in Cpu \ {c} : pc[d] = "cas" => loc[d].tbl # t
  BY <1>0, <1>2, CasFacts
<1>5. /\ Alone(c) /\ pc'[c] = "walk" /\ job'[c] = job[c]
      /\ loc'[c].sp = sp /\ loc'[c].cap = loc[c].cap /\ loc'[c].tbl = Null
      /\ loc'[c].l = l - 1 /\ loc'[c].l \in 0 .. Lev
      /\ \E i \in Slot : loc'[c].ptr = <<t, i>>
  BY <1>0, <1>1, <1>2, <1>3, DescendEffect
<1>6. \A o : Creates(c, o)' <=> Creates(c, o)
  BY <1>0, <1>5 DEF Creates
<1>7. Visible' = Visible /\ (\A o : Pending(o)' <=> Pending(o)) /\ Live' = Live
  BY <1>0, <1>5, <1>6, VisibleSame DEF Live
<1>8. Installed' = Installed \cup {t}
  <2>1. ASSUME NEW p, p # t
        PROVE  (\A d \in Cpu : pc'[d] = "cas" => loc'[d].tbl # p) <=> (\A d \in Cpu : pc[d] = "cas" => loc[d].tbl # p)
    BY <1>0, <1>2, <1>5, <2>1 DEF Alone
  <2>2. \A d \in Cpu : pc'[d] = "cas" => loc'[d].tbl # t
    BY <1>3, <1>5 DEF Alone
  <2>3. ASSUME NEW p PROVE p \in Installed' <=> p \in Installed \/ p = t
    <3>1. CASE p = t
      BY <1>0, <1>3, <2>2, <3>1 DEF Installed
    <3>2. CASE p # t
      BY <1>0, <2>1, <3>2 DEF Installed
    <3> QED
      BY <3>1, <3>2
  <2> QED
    BY <2>3
<1>9. own2[t] = sp /\ lvl2[t] = l /\ \A p \in Installed : own2[p] = own[p] /\ lvl2[p] = lvl[p]
  BY <1>1, <1>2, <1>3 DEF Adds
<1>10. mem'[x] = t /\ \A y \in Cell : y # x => mem'[y] = mem[y]
  BY <1>0, <1>1, <1>2, <1>3 DEF SpaceShape
<1>11. SpaceShape'
  <2>1. mem' \in [Cell -> Page \cup Cap \cup {Null}]
    BY <1>0, <1>1, <1>2, <1>3 DEF SpaceShape
  <2> QED
    BY <1>0, <1>1, <1>5, <2>1 DEF SpaceShape, Alone
<1>12. Trees(mem, Live, Installed, own2, lvl2)'
  <2>1. PICK m, m2 : m = mem /\ m2 = mem'
    OBVIOUS
  <2>2. PICK S, T : S = Live /\ T = Installed
    OBVIOUS
  <2>3. Trees(m, S, T, own, lvl)
    BY <2>1, <2>2, Zenon DEF SpaceInv
  <2>4. /\ m \in [Cell -> Page \cup Cap \cup {Null}] /\ S \in SUBSET Space /\ T \in SUBSET Page
        /\ sp \in S /\ t \in Page \ T /\ m[x] = Null /\ m2 = [m EXCEPT ![x] = t]
    <3>1. mem \in [Cell -> Page \cup Cap \cup {Null}] /\ Live \subseteq Space
      BY <1>1 DEF SpaceShape, Live
    <3>2. mem[x] = Null /\ mem' = [mem EXCEPT ![x] = t]
      BY <1>0, <1>2
    <3> QED
      BY <1>1, <1>3, <2>1, <2>2, <3>1, <3>2
  <2>5. IF l = Lev THEN x = <<sp, 0>>
        ELSE \E p \in T, i \in Slot : x = <<p, i>> /\ own[p] = sp /\ lvl[p] = l + 1
    BY <1>3, <2>2, Zenon DEF CellOf
  <2>6. Extends(m, m2, x, t)
    BY <1>3, <2>1, <2>4 DEF Extends
  <2>7. Adds(own, own2, t, sp) /\ Adds(lvl, lvl2, t, l)
    BY <1>2
  <2>8. Trees(m2, S, T \cup {t}, own2, lvl2)
    BY <1>3, <2>3, <2>4, <2>5, <2>6, <2>7, InstallTrees
  <2> QED
    BY <1>7, <1>8, <2>1, <2>2, <2>8, Zenon
<1>13. JobFits(c)'
  BY <1>0, <1>3, <1>5, <1>7 DEF JobFits
<1>14. WalkFits(c, own2, lvl2)'
  <2>1. loc'[c].l # Lev /\ lvl2[t] = loc'[c].l + 1
    BY <1>1, <1>3, <1>5, <1>9
  <2>2. CellOf(loc[c].ptr, loc[c].sp, loc[c].l, own2, lvl2)'
    BY <1>5, <1>8, <1>9, <2>1 DEF CellOf
  <2> QED
    BY <1>3, <1>5, <1>7, <2>2 DEF WalkFits
<1>15. \A d \in Cpu \ {c} : JobFits(d)' /\ WalkFits(d, own2, lvl2)'
  <2>1. \A d \in Cpu \ {c} : job[d].kind = "create" =>
            job[d].obj \in objs' /\ (job[d].obj \in Space => parent'[job[d].obj] = parent[job[d].obj])
    BY <1>0 DEF SpaceInv, JobFits
  <2>2. ASSUME NEW d \in Cpu \ {c}, pc[d] = "cas"
        PROVE  loc[d].tbl \in used' /\ \A i \in Slot : mem'[<<loc[d].tbl, i>>] = mem[<<loc[d].tbl, i>>]
    <3>1. loc[d].tbl \in used /\ loc[d].tbl \in Page /\ loc[d].tbl \notin Installed
      BY <2>2, CasFacts
    <3>2. ASSUME NEW i \in Slot PROVE <<loc[d].tbl, i>> \in Cell /\ <<loc[d].tbl, i>> # x
      BY <1>1, <1>3, <3>1, Cells DEF CellOf
    <3> QED
      BY <1>0, <1>10, <3>1, <3>2
  <2>3. Installed \subseteq Installed'
    BY <1>8
  <2> QED
    BY <1>5, <1>7, <1>9, <2>1, <2>2, <2>3, OthersKept
<1>16. OneCreator'
  BY <1>5, CreatorsKept DEF SpaceInv, OneCreator
<1>17. OneInstaller'
  BY <1>5, InstallersKept DEF SpaceInv
<1>18. CapsSound'
  <2>1. ASSUME NEW q \in Installed', NEW k \in Slot, mem'[<<q, k>>] \in Cap PROVE mem'[<<q, k>>].obj \in Visible'
    <3>1. CASE <<q, k>> = x
      BY <1>3, <1>10, <2>1, <3>1, Cells
    <3>2. CASE <<q, k>> # x
      <4>1. <<q, k>> \in Cell /\ mem'[<<q, k>>] = mem[<<q, k>>]
        BY <1>1, <1>3, <1>8, <1>10, <3>2, Cells
      <4>2. q # t
        BY <1>3, <2>1, <4>1, Cells
      <4> QED
        BY <1>7, <1>8, <2>1, <4>1, <4>2 DEF SpaceInv, CapsSound
    <3> QED
      BY <3>1, <3>2
  <2>2. ASSUME NEW s \in Space, Pending(s)' PROVE mem'[<<s, 0>>] = Null
    <3>1. <<s, 0>> \in Cell /\ Pending(s) /\ mem[<<s, 0>>] = Null
      BY <1>7, <2>2, Cells DEF SpaceInv, CapsSound
    <3>2. s # sp
      BY <1>3, <3>1 DEF Visible
    <3>3. <<s, 0>> # x
      BY <1>1, <1>3, <3>2, Cells DEF CellOf
    <3> QED
      BY <1>10, <3>1, <3>3
  <2>3. \A d \in Cpu : Home[d] \in Visible'
    BY <1>7 DEF SpaceInv, CapsSound
  <2> QED
    BY <2>1, <2>2, <2>3 DEF CapsSound
<1>19. ParentsOnce'
  BY <1>0, <1>7 DEF SpaceInv, ParentsOnce
<1> QED
  BY <1>11, <1>12, <1>13, <1>14, <1>15, <1>16, <1>17, <1>18, <1>19 DEF SpaceInv

-----------------------------------------------------------------------------
\* A new object is hidden until its capability is in place.
LEMMA CreateKeeps ==
    ASSUME NEW own \in Owns, NEW lvl \in Levels, SpaceInv(own, lvl), NEW c \in Cpu, pc[c] = "user",
           NEW o \in Obj \ objs, NEW pd \in Pd, NEW sel \in Nat,
           objs' = objs \cup {o}, used' = used, spaceObj' = spaceObj,
           job' = [job EXCEPT ![c] = [kind |-> "create", obj |-> o, pd |-> pd]],
           BeginWalk(c, Home[c], sel, MakeCap(o, Defined(o))),
           mem' \in [Cell -> Page \cup Cap \cup {Null}], parent' \in [Space -> Pd \cup {Null}], attached' \subseteq Pd,
           \A x \in Cell : x # <<o, 0>> => mem'[x] = mem[x],
           o \in Space => mem'[<<o, 0>>] = Null /\ parent'[o] = pd,
           \A sp \in Space \ {o} : parent'[sp] = parent[sp],
           Visible' = Visible => ParentsOnce'
    PROVE  SpaceInv(own, lvl)'
<1>0. SpaceShape /\ JobFits(c) /\ Home[c] \in Visible /\ Home[c] \in Space /\ Installed \subseteq Page
  BY SpaceObjAssumption DEF SpaceInv, CapsSound, SpaceShape, Installed
<1>1. PICK cap : cap = MakeCap(o, Defined(o))
  OBVIOUS
<1>2. cap \in Cap /\ cap.obj = o /\ cap # Null
  <2>1. Defined(o) \subseteq Bits /\ Defined(o) # {}
    BY DEF Defined, Bits, P_GRANT, P_TAKE
  <2>2. cap \in Cap /\ cap.obj = o
    BY <1>1, <2>1 DEF MakeCap, Cap
  <2> QED
    BY <2>2, Cells
<1>3. /\ pc' \in [Cpu -> Places] /\ loc' \in [Cpu -> LocRecs]
      /\ \A d \in Cpu \ {c} : pc'[d] = pc[d] /\ loc'[d] = loc[d]
      /\ pc'[c] = "walk" /\ loc'[c].sp = Home[c] /\ loc'[c].l = Lev /\ loc'[c].ptr = <<Home[c], 0>>
      /\ loc'[c].tbl = Null /\ loc'[c].cap = cap
  BY <1>0, <1>1, <1>2, BeginEffect
<1>4. PICK j : j = [kind |-> "create", obj |-> o, pd |-> pd]
  OBVIOUS
<1>5. j \in CreateJobs /\ j.kind = "create" /\ j.obj = o /\ j.pd = pd /\ j # NoJob
  BY <1>4 DEF CreateJobs, NoJob
<1>6. job'[c] = j /\ job' \in [Cpu -> Jobs] /\ \A d \in Cpu \ {c} : job'[d] = job[d]
  BY <1>0, <1>4, <1>5 DEF SpaceShape, Jobs
<1>7. Alone(c)
  BY <1>3, <1>6 DEF Alone
<1>8. job[c].kind = "none"
  BY <1>0 DEF JobFits, NoJob
<1>9. \A d \in Cpu \ {c} : job[d].kind = "create" => job[d].obj \in objs /\ job[d].obj # o
  BY DEF SpaceInv, JobFits
<1>10. \A x : Pending(x)' <=> Pending(x) \/ x = o
  <2>1. \A x : Creates(c, x)' <=> x = o
    BY <1>3, <1>5, <1>6 DEF Creates
  <2>2. \A x : ~Creates(c, x)
    BY <1>8 DEF Creates
  <2>3. \A x : \A d \in Cpu \ {c} : Creates(d, x)' <=> Creates(d, x)
    BY <1>3, <1>6 DEF Creates
  <2> QED
    BY <2>1, <2>2, <2>3 DEF Pending
<1>11. Visible' = Visible
  BY <1>10 DEF Visible
<1>12. Installed' = Installed
  BY <1>3, <1>7, InstalledSame
<1>13. SpaceShape'
  BY <1>0, <1>7 DEF SpaceShape, Alone
<1>14. /\ \A p \in Page, i \in Slot : mem'[<<p, i>>] = mem[<<p, i>>]
       /\ \A sp \in Space \ {o} : mem'[<<sp, 0>>] = mem[<<sp, 0>>]
  <2>1. \A p \in Page, i \in Slot : <<p, i>> \in Cell /\ <<p, i>> # <<o, 0>>
    BY Cells
  <2>2. \A sp \in Space \ {o} : <<sp, 0>> \in Cell /\ <<sp, 0>> # <<o, 0>>
    BY Cells
  <2> QED
    BY <2>1, <2>2
<1>15. Trees(mem, Live, Installed, own, lvl)'
  <2>1. PICK m, m2 : m = mem /\ m2 = mem'
    OBVIOUS
  <2>2. PICK S, S2, T : S = Live /\ S2 = Live' /\ T = Installed
    OBVIOUS
  <2>3. Trees(m, S, T, own, lvl)
    BY <2>1, <2>2, Zenon DEF SpaceInv
  <2>4. \A sp \in S2 : sp \in S \/ (sp = o /\ o \in Space)
    BY <2>2 DEF Live
  <2>5. S \subseteq S2 /\ S \subseteq Space \ {o}
    BY <2>2 DEF Live
  <2>6. \A sp \in S2 : IF sp \in S THEN m2[<<sp, 0>>] = m[<<sp, 0>>] ELSE m2[<<sp, 0>>] = Null
    BY <1>14, <2>1, <2>4, <2>5
  <2>7. \A p \in T, i \in Slot : m2[<<p, i>>] = m[<<p, i>>]
    BY <1>0, <1>14, <2>1, <2>2
  <2>8. \A p \in T : own[p] \in S2
    BY <2>3, <2>5 DEF Trees
  <2>9. Trees(m2, S2, T, own, lvl)
    BY <2>3, <2>6, <2>7, <2>8, TreesSame
  <2> QED
    BY <1>12, <2>1, <2>2, <2>9, Zenon
<1>16. JobFits(c)'
  <2>1. job'[c].kind = "create" /\ job'[c].obj = o /\ job'[c].pd = pd /\ job'[c] # NoJob
    BY <1>5, <1>6
  <2> QED
    BY <1>2, <1>3, <2>1 DEF JobFits
<1>17. WalkFits(c, own, lvl)'
  BY <1>0, <1>3, <1>11 DEF WalkFits, CellOf
<1>18. \A d \in Cpu \ {c} : JobFits(d)' /\ WalkFits(d, own, lvl)'
  <2>1. \A d \in Cpu \ {c} : job[d].kind = "create" =>
            job[d].obj \in objs' /\ (job[d].obj \in Space => parent'[job[d].obj] = parent[job[d].obj])
    BY <1>9
  <2>2. ASSUME NEW d \in Cpu \ {c}, pc[d] = "cas"
        PROVE  loc[d].tbl \in used' /\ \A i \in Slot : mem'[<<loc[d].tbl, i>>] = mem[<<loc[d].tbl, i>>]
    BY <1>14, <2>2, CasFacts
  <2> QED
    BY <1>7, <1>11, <1>12, <2>1, <2>2, OthersKept
<1>19. OneCreator'
  <2>1. \A d \in Cpu \ {c} : job[d].kind = "create" => job[d].obj # job'[c].obj
    BY <1>5, <1>6, <1>9
  <2> QED
    BY <1>7, <2>1, CreatorsKept DEF SpaceInv
<1>20. OneInstaller'
  BY <1>3, <1>7, InstallersKept DEF SpaceInv
<1>21. CapsSound'
  <2>1. ASSUME NEW q \in Installed, NEW k \in Slot, mem'[<<q, k>>] \in Cap PROVE mem'[<<q, k>>].obj \in Visible
    BY <1>0, <1>14, <2>1 DEF SpaceInv, CapsSound
  <2>2. ASSUME NEW sp \in Space, Pending(sp)' PROVE mem'[<<sp, 0>>] = Null
    BY <1>10, <1>14, <2>2 DEF SpaceInv, CapsSound
  <2>3. \A d \in Cpu : Home[d] \in Visible
    BY DEF SpaceInv, CapsSound
  <2> QED
    BY <1>11, <1>12, <2>1, <2>2, <2>3 DEF CapsSound
<1> QED
  BY <1>11, <1>13, <1>15, <1>16, <1>17, <1>18, <1>19, <1>20, <1>21 DEF SpaceInv

\* The domain that a creation names.
LEMMA CreatorFacts ==
    ASSUME NEW own \in Owns, NEW lvl \in Levels, SpaceInv(own, lvl), NEW c \in Cpu, NEW psel \in Nat, NEW b,
           b \in Prm(Lookup(Home[c], psel))
    PROVE  Lookup(Home[c], psel) # Null /\ Lookup(Home[c], psel) \in Cap
<1>1. Home[c] \in Live /\ SpacesInv
  BY SpaceObjAssumption DEF SpaceInv, CapsSound, Visible, Live, SpacesInv
<1>2. Lookup(Home[c], psel) \in Cap \cup {Null}
  BY <1>1, LookupSound
<1> QED
  BY <1>2 DEF Prm

\* The kernel creates an object that is not a space.
LEMMA SysCreateSmInv ==
    ASSUME NEW own \in Owns, NEW lvl \in Levels, SpaceInv(own, lvl), NEW c \in Cpu,
           NEW psel \in Nat, NEW sel \in Nat, NEW o \in Obj, SysCreateSm(c, psel, o, sel)
    PROVE  SpaceInv(own, lvl)'
<1>1. PICK pd : pd = Lookup(Home[c], psel).obj
  OBVIOUS
<1>2. /\ pc[c] = "user" /\ pd \in Pd /\ o \in Sm \ objs /\ o \in Obj \ objs /\ objs' = objs \cup {o}
      /\ job' = [job EXCEPT ![c] = [kind |-> "create", obj |-> o, pd |-> pd]]
      /\ BeginWalk(c, Home[c], sel, MakeCap(o, Defined(o)))
      /\ UNCHANGED <<mem, used, parent, attached, spaceObj>>
  BY <1>1 DEF SysCreateSm
<1>3. o \notin Space
  BY <1>2, SpaceObjAssumption
<1>4. /\ mem' \in [Cell -> Page \cup Cap \cup {Null}] /\ parent' \in [Space -> Pd \cup {Null}] /\ attached' \subseteq Pd
      /\ \A x \in Cell : x # <<o, 0>> => mem'[x] = mem[x]
      /\ o \in Space => mem'[<<o, 0>>] = Null /\ parent'[o] = pd
      /\ \A sp \in Space \ {o} : parent'[sp] = parent[sp]
  BY <1>2, <1>3 DEF SpaceInv, SpaceShape
<1>5. ASSUME Visible' = Visible PROVE ParentsOnce'
  <2>1. Live' = Live
    BY <1>2, <1>3 DEF Live
  <2> QED
    BY <1>2, <1>5, <2>1 DEF SpaceInv, ParentsOnce
<1> QED
  BY <1>2, <1>4, <1>5, CreateKeeps

\* The kernel creates an object space for a domain that has none.
LEMMA SysCreateObjInv ==
    ASSUME NEW own \in Owns, NEW lvl \in Levels, SpaceInv(own, lvl), NEW c \in Cpu,
           NEW psel \in Nat, NEW sel \in Nat, NEW o \in Obj, SysCreateObj(c, psel, o, sel)
    PROVE  SpaceInv(own, lvl)'
<1>1. PICK pd : pd = Lookup(Home[c], psel).obj
  OBVIOUS
<1>2. /\ pc[c] = "user" /\ pd \in Pd /\ pd \notin attached /\ attached' = attached \cup {pd}
      /\ o \in Space /\ o \in Obj \ objs /\ objs' = objs \cup {o}
      /\ parent' = [parent EXCEPT ![o] = pd] /\ mem' = [mem EXCEPT ![<<o, 0>>] = Null]
      /\ job' = [job EXCEPT ![c] = [kind |-> "create", obj |-> o, pd |-> pd]]
      /\ BeginWalk(c, Home[c], sel, MakeCap(o, Defined(o)))
      /\ UNCHANGED <<used, spaceObj>>
  BY <1>1 DEF SysCreateObj
<1>3. /\ mem' \in [Cell -> Page \cup Cap \cup {Null}] /\ parent' \in [Space -> Pd \cup {Null}] /\ attached' \subseteq Pd
      /\ \A x \in Cell : x # <<o, 0>> => mem'[x] = mem[x]
      /\ o \in Space => mem'[<<o, 0>>] = Null /\ parent'[o] = pd
      /\ \A sp \in Space \ {o} : parent'[sp] = parent[sp]
  BY <1>2, Cells DEF SpaceInv, SpaceShape
<1>4. ASSUME Visible' = Visible PROVE ParentsOnce'
  <2>1. Live' = Live \cup {o} /\ o \notin Live /\ Live \subseteq Space \ {o}
    BY <1>2 DEF Live
  <2>2. attached = {parent[sp] : sp \in Live} \ {Null} /\ pd # Null
    BY <1>2, SpaceObjAssumption DEF SpaceInv, ParentsOnce, Obj
  <2>3. \A sp \in Live : parent[sp] # pd /\ parent'[sp] = parent[sp]
    BY <1>2, <1>3, <2>1, <2>2
  <2>4. \A sp, sq \in Live' : parent'[sp] = parent'[sq] => sp = sq \/ parent'[sp] = Null
    BY <1>2, <1>3, <2>1, <2>3 DEF SpaceInv, ParentsOnce
  <2>5. ASSUME NEW p \in Pd, spaceObj[p] # Null PROVE spaceObj[p] \in Visible /\ parent'[spaceObj[p]] = p
    <3>1. spaceObj[p] \in Visible /\ parent[spaceObj[p]] = p /\ spaceObj[p] \in Space
      BY <2>5 DEF SpaceInv, ParentsOnce, SpaceShape
    <3>2. spaceObj[p] # o
      BY <1>2, <3>1 DEF Visible
    <3> QED
      BY <1>3, <3>1, <3>2
  <2>6. attached' = {parent'[sp] : sp \in Live'} \ {Null}
    <3>1. ASSUME NEW q PROVE q \in {parent'[sp] : sp \in Live'} <=> q = pd \/ q \in {parent[sp] : sp \in Live}
      BY <1>2, <1>3, <2>1, <2>3
    <3> QED
      BY <1>2, <2>2, <3>1
  <2> QED
    BY <1>2, <1>4, <2>4, <2>5, <2>6 DEF ParentsOnce
<1> QED
  BY <1>2, <1>3, <1>4, CreateKeeps

\* A step of the end of a creation: tables and capabilities stay, the creator is done.
LEMMA EndKeeps ==
    ASSUME NEW own \in Owns, NEW lvl \in Levels, SpaceInv(own, lvl), NEW c \in Cpu, pc[c] \in {"publish", "undo"},
           Done(c), UNCHANGED <<mem, used, parent>>, objs' \subseteq Obj, attached' \subseteq Pd,
           spaceObj' \in [Pd -> Space \cup {Null}], Visible' = Visible, objs' \subseteq objs,
           \A x \in objs : x # job[c].obj => x \in objs',
           \A p \in Installed : own[p] \in objs', ParentsOnce'
    PROVE  SpaceInv(own, lvl)'
<1>0. SpaceShape /\ JobFits(c) /\ Installed \subseteq Page
  BY DEF SpaceInv, SpaceShape, Installed
<1>1. Alone(c) /\ pc'[c] = "user" /\ loc'[c] = NoLoc /\ job'[c] = NoJob
  BY <1>0, DoneEffect
<1>2. NoJob.kind = "none" /\ NoLoc.cap = Null
  BY NoLocType DEF NoJob
<1>3. Installed' = Installed
  BY <1>1, InstalledSame
<1>4. SpaceShape'
  BY <1>0, <1>1 DEF SpaceShape, Alone
<1>5. Trees(mem, Live, Installed, own, lvl)'
  <2>1. PICK m : m = mem /\ m = mem'
    OBVIOUS
  <2>2. PICK S, S2, T : S = Live /\ S2 = Live' /\ T = Installed
    OBVIOUS
  <2>3. Trees(m, S, T, own, lvl)
    BY <2>1, <2>2, Zenon DEF SpaceInv
  <2>4. S2 \subseteq S
    BY <2>2 DEF Live
  <2>5. \A sp \in S2 : IF sp \in S THEN m[<<sp, 0>>] = m[<<sp, 0>>] ELSE m[<<sp, 0>>] = Null
    BY <2>4
  <2>6. \A p \in T, i \in Slot : m[<<p, i>>] = m[<<p, i>>]
    OBVIOUS
  <2>7. \A p \in T : own[p] \in S2
    BY <1>0, <2>2 DEF Live, Owns
  <2>8. Trees(m, S2, T, own, lvl)
    BY <2>3, <2>5, <2>6, <2>7, TreesSame
  <2> QED
    BY <1>3, <2>1, <2>2, <2>8, Zenon
<1>6. JobFits(c)'
  BY <1>1, <1>2 DEF JobFits
<1>7. WalkFits(c, own, lvl)'
  BY <1>1 DEF WalkFits, Walking
<1>8. \A d \in Cpu \ {c} : JobFits(d)' /\ WalkFits(d, own, lvl)'
  <2>0. job[c].kind = "create"
    BY <1>0 DEF JobFits
  <2>1. \A d \in Cpu \ {c} : job[d].kind = "create" =>
            job[d].obj \in objs' /\ (job[d].obj \in Space => parent'[job[d].obj] = parent[job[d].obj])
    BY <2>0 DEF SpaceInv, JobFits, OneCreator
  <2>2. \A d \in Cpu \ {c} : pc[d] = "cas" =>
            loc[d].tbl \in used' /\ \A i \in Slot : mem'[<<loc[d].tbl, i>>] = mem[<<loc[d].tbl, i>>]
    BY CasFacts
  <2> QED
    BY <1>1, <1>3, <2>1, <2>2, OthersKept
<1>9. OneCreator'
  BY <1>1, <1>2, CreatorsKept DEF SpaceInv
<1>10. OneInstaller'
  BY <1>1, InstallersKept DEF SpaceInv
<1>11. CapsSound'
  <2>1. \A x : Pending(x)' => Pending(x)
    <3>1. \A x : ~Creates(c, x)'
      BY <1>1, <1>2 DEF Creates
    <3> QED
      BY <1>1, <3>1 DEF Pending, Creates, Alone
  <2> QED
    BY <1>3, <2>1 DEF SpaceInv, CapsSound
<1> QED
  BY <1>4, <1>5, <1>6, <1>7, <1>8, <1>9, <1>10, <1>11 DEF SpaceInv

\* What a creator at the end of its work knows of the object.
LEMMA EndFacts ==
    ASSUME NEW own \in Owns, NEW lvl \in Levels, SpaceInv(own, lvl), NEW c \in Cpu, pc[c] \in {"publish", "undo"}
    PROVE  /\ job[c].kind = "create" /\ job[c].obj \in objs /\ job[c].obj \in Obj /\ job[c].pd \in Pd
           /\ job[c].obj \in Space => parent[job[c].obj] = job[c].pd
           /\ \A d \in Cpu \ {c} : job[d].kind = "create" => job[d].obj # job[c].obj
<1>1. JobFits(c) /\ job[c] \in Jobs
  BY DEF SpaceInv, SpaceShape
<1>2. job[c].kind = "create"
  BY <1>1 DEF JobFits
<1>3. PICK j : j = job[c]
  OBVIOUS
<1>4. j \in CreateJobs
  BY <1>1, <1>2, <1>3, JobKinds
<1>5. j.obj \in Obj /\ j.pd \in Pd
  BY <1>4 DEF CreateJobs
<1> QED
  BY <1>1, <1>2, <1>3, <1>5 DEF JobFits, SpaceInv, OneCreator

\* The domain points to its new space.
LEMMA PublishInv ==
    ASSUME NEW own \in Owns, NEW lvl \in Levels, SpaceInv(own, lvl), NEW c \in Cpu, Publish(c)
    PROVE  SpaceInv(own, lvl)'
<1>0. /\ pc[c] = "publish" /\ Done(c) /\ UNCHANGED <<mem, used, objs, parent, attached>>
      /\ spaceObj' = [spaceObj EXCEPT ![job[c].pd] = job[c].obj]
  BY DEF Publish
<1>1. SpaceShape /\ JobFits(c)
  BY DEF SpaceInv
<1>2. PICK o, pd : o = job[c].obj /\ pd = job[c].pd
  OBVIOUS
<1>3. /\ job[c].kind = "create" /\ o \in objs /\ o \in Space /\ pd \in Pd /\ parent[o] = pd
      /\ \A d \in Cpu \ {c} : job[d].kind = "create" => job[d].obj # o
  BY <1>0, <1>1, <1>2, EndFacts DEF JobFits
<1>4. Alone(c) /\ pc'[c] = "user" /\ job'[c] = NoJob /\ NoJob.kind = "none"
  BY <1>0, <1>1, DoneEffect DEF NoJob
<1>5. \A x : Creates(c, x)' <=> Creates(c, x)
  BY <1>0, <1>4 DEF Creates
<1>6. Visible' = Visible /\ Live' = Live
  BY <1>0, <1>4, <1>5, VisibleSame DEF Live
<1>7. o \in Visible
  BY <1>0, <1>3 DEF Visible, Pending, Creates
<1>8. spaceObj' = [spaceObj EXCEPT ![pd] = o] /\ spaceObj' \in [Pd -> Space \cup {Null}]
  BY <1>0, <1>1, <1>2, <1>3 DEF SpaceShape
<1>9. ParentsOnce'
  <2>1. ASSUME NEW p \in Pd, spaceObj'[p] # Null PROVE spaceObj'[p] \in Visible /\ parent[spaceObj'[p]] = p
    <3>1. CASE p = pd
      BY <1>1, <1>3, <1>7, <1>8, <3>1 DEF SpaceShape
    <3>2. CASE p # pd
      <4>1. spaceObj'[p] = spaceObj[p]
        BY <1>1, <1>8, <3>2 DEF SpaceShape
      <4> QED
        BY <2>1, <4>1 DEF SpaceInv, ParentsOnce
    <3> QED
      BY <3>1, <3>2
  <2> QED
    BY <1>0, <1>6, <2>1 DEF SpaceInv, ParentsOnce
<1>10. \A p \in Installed : own[p] \in objs'
  BY <1>0 DEF SpaceInv, Trees, Live
<1> QED
  BY <1>0, <1>1, <1>6, <1>8, <1>9, <1>10, EndKeeps DEF SpaceShape

\* A creation that failed is undone.
LEMMA UndoInv ==
    ASSUME NEW own \in Owns, NEW lvl \in Levels, SpaceInv(own, lvl), NEW c \in Cpu, Undo(c)
    PROVE  SpaceInv(own, lvl)'
<1>1. PICK o, pd : o = job[c].obj /\ pd = job[c].pd
  OBVIOUS
<1>2. /\ pc[c] = "undo" /\ Done(c) /\ UNCHANGED <<mem, used, parent, spaceObj>> /\ objs' = objs \ {o}
      /\ attached' = IF o \in Space THEN attached \ {pd} ELSE attached
  BY <1>1 DEF Undo
<1>3. /\ job[c].kind = "create" /\ o \in objs /\ pd \in Pd /\ (o \in Space => parent[o] = pd)
      /\ \A d \in Cpu \ {c} : job[d].kind = "create" => job[d].obj # o
  BY <1>1, <1>2, EndFacts
<1>4. SpaceShape
  BY DEF SpaceInv
<1>5. Alone(c) /\ pc'[c] = "user" /\ job'[c] = NoJob /\ NoJob.kind = "none"
  BY <1>2, <1>4, DoneEffect DEF NoJob
<1>6. Pending(o) /\ \A x : Pending(x)' <=> Pending(x) /\ x # o
  <2>1. \A x : Creates(c, x) <=> x = o
    BY <1>1, <1>2, <1>3 DEF Creates
  <2>2. \A x : ~Creates(c, x)'
    BY <1>5 DEF Creates
  <2>3. \A x : \A d \in Cpu \ {c} : (Creates(d, x)' <=> Creates(d, x)) /\ (Creates(d, x) => x # o)
    BY <1>3, <1>5 DEF Creates, Alone
  <2> QED
    BY <2>1, <2>2, <2>3 DEF Pending
<1>7. Visible' = Visible
  BY <1>2, <1>6 DEF Visible
<1>8. \A p \in Installed : own[p] \in objs'
  <2>1. ASSUME NEW p \in Installed PROVE own[p] \in objs /\ own[p] \in Space
    BY DEF SpaceInv, Trees, Live
  <2>2. o \in Space => \A p \in Installed : own[p] # o
    BY <1>6, EmptySpace DEF SpaceInv, CapsSound
  <2> QED
    BY <1>2, <2>1, <2>2
<1>9. ParentsOnce'
  <2>1. CASE o \notin Space
    <3>1. Live' = Live /\ attached' = attached
      BY <1>2, <2>1 DEF Live
    <3> QED
      BY <1>2, <1>7, <3>1 DEF SpaceInv, ParentsOnce
  <2>2. CASE o \in Space
    <3>1. Live' = Live \ {o} /\ attached' = attached \ {pd} /\ o \in Live /\ parent[o] = pd /\ pd # Null
      BY <1>2, <1>3, <2>2, SpaceObjAssumption DEF Live, Obj
    <3>2. \A sp \in Live \ {o} : parent[sp] # pd
      BY <3>1 DEF SpaceInv, ParentsOnce
    <3>3. attached = {parent[sp] : sp \in Live} \ {Null}
      BY DEF SpaceInv, ParentsOnce
    <3>4. ASSUME NEW q PROVE q \in {parent[sp] : sp \in Live \ {o}} <=> q \in {parent[sp] : sp \in Live} /\ q # pd
      BY <3>1, <3>2
    <3>5. attached' = {parent'[sp] : sp \in Live'} \ {Null}
      BY <1>2, <3>1, <3>3, <3>4
    <3> QED
      BY <1>2, <1>7, <3>1, <3>5 DEF SpaceInv, ParentsOnce
  <2> QED
    BY <2>1, <2>2
<1>10. \A x \in objs : x # job[c].obj => x \in objs'
  BY <1>1, <1>2
<1>11. objs' \subseteq Obj /\ attached' \subseteq Pd /\ spaceObj' \in [Pd -> Space \cup {Null}] /\ objs' \subseteq objs
  BY <1>2, <1>4 DEF SpaceShape
<1> QED
  BY <1>2, <1>7, <1>8, <1>9, <1>10, <1>11, EndKeeps

-----------------------------------------------------------------------------
\* The first spaces are as the invariant wants them.
LEMMA SpacesInit == Init => SpacesInv
<1> SUFFICES ASSUME Init PROVE SpacesInv
  OBVIOUS
<1>1. PICK own \in Owns, lvl \in Levels : Trees(Boot.mem, Space \cap Boot.objs, Boot.used, own, lvl)
  BY BootAssumption DEF Owns, Levels
<1>2. \A c \in Cpu : pc[c] = "user" /\ loc[c] = NoLoc /\ job[c] = NoJob
  BY DEF Init
<1>3. NoJob.kind = "none"
  BY DEF NoJob
<1>4. Installed = Boot.used
  BY <1>2 DEF Installed, Init
<1>5. \A o : ~Pending(o)
  BY <1>2, <1>3 DEF Pending, Creates
<1>6. Visible = Boot.objs /\ Live = Space \cap Boot.objs
  BY <1>5 DEF Visible, Live, Init
<1>7. SpaceShape
  <2>1. /\ Boot.mem \in [Cell -> Page \cup Cap \cup {Null}] /\ Boot.used \subseteq Page /\ Boot.objs \subseteq Obj
        /\ Boot.parent \in [Space -> Pd \cup {Null}] /\ Boot.spaceObj \in [Pd -> Space \cup {Null}]
        /\ Boot.attached = {Boot.parent[sp] : sp \in Space \cap Boot.objs} \ {Null}
    BY BootAssumption
  <2>2. Boot.attached \subseteq Pd
    BY <2>1
  <2>3. pc \in [Cpu -> Places] /\ loc \in [Cpu -> LocRecs] /\ job \in [Cpu -> Jobs]
    BY NoLocType DEF Init, Places, Jobs
  <2> QED
    BY <2>1, <2>2, <2>3 DEF Init, SpaceShape
<1>8. Trees(mem, Live, Installed, own, lvl)
  BY <1>1, <1>4, <1>6 DEF Init
<1>9. \A c \in Cpu : JobFits(c) /\ WalkFits(c, own, lvl)
  BY <1>2, <1>3, NoLocType DEF JobFits, WalkFits, Walking
<1>10. OneCreator /\ OneInstaller
  BY <1>2, <1>3 DEF OneCreator, OneInstaller
<1>11. CapsSound
  BY <1>4, <1>5, <1>6, BootAssumption DEF CapsSound, Init
<1>12. ParentsOnce
  <2>1. \A sp, sq \in Space \cap Boot.objs : Boot.parent[sp] = Boot.parent[sq] => sp = sq \/ Boot.parent[sp] = Null
    BY BootAssumption
  <2>2. \A p \in Pd : Boot.spaceObj[p] # Null => Boot.spaceObj[p] \in Boot.objs /\ Boot.parent[Boot.spaceObj[p]] = p
    BY BootAssumption
  <2>3. Boot.attached = {Boot.parent[sp] : sp \in Space \cap Boot.objs} \ {Null}
    BY BootAssumption
  <2>4. parent = Boot.parent /\ spaceObj = Boot.spaceObj /\ attached = Boot.attached
    BY DEF Init
  <2>5. attached = {parent[sp] : sp \in Live} \ {Null}
    BY <2>3, <2>4, <1>6, Zenon
  <2> QED
    BY <2>1, <2>2, <2>4, <2>5, <1>6 DEF ParentsOnce
<1> QED
  BY <1>7, <1>8, <1>9, <1>10, <1>11, <1>12 DEF SpaceInv, SpacesInv

\* Every step keeps the invariant, with the owners and levels it has, or one more.
LEMMA SpacesStep == SpacesInv /\ [Next]_vars => SpacesInv'
<1> SUFFICES ASSUME SpacesInv, [Next]_vars PROVE SpacesInv'
  OBVIOUS
<1>1. PICK own \in Owns, lvl \in Levels : SpaceInv(own, lvl)
  BY DEF SpacesInv
<1>2. (SpaceInv(own, lvl)') => SpacesInv'
  BY Zenon DEF SpacesInv
<1>3. CASE UNCHANGED vars
  <2>1. SpaceInv(own, lvl)'
    <3>1. Visible' = Visible /\ Installed' = Installed /\ Live' = Live /\ \A o : Pending(o)' <=> Pending(o)
      BY <1>3 DEF vars, Visible, Installed, Live, Pending, Creates
    <3>2. \A c \in Cpu : JobFits(c)' /\ WalkFits(c, own, lvl)'
      BY <1>1, <1>3, <3>1 DEF SpaceInv, vars, JobFits, WalkFits, CellOf
    <3>3. Trees(mem, Live, Installed, own, lvl)'
      BY <1>1, <1>3, <3>1, Zenon DEF SpaceInv, vars
    <3>4. SpaceShape' /\ OneCreator' /\ OneInstaller'
      BY <1>1, <1>3 DEF SpaceInv, vars, SpaceShape, OneCreator, OneInstaller
    <3>5. CapsSound' /\ ParentsOnce'
      BY <1>1, <1>3, <3>1 DEF SpaceInv, vars, CapsSound, ParentsOnce
    <3> QED
      BY <3>2, <3>3, <3>4, <3>5 DEF SpaceInv
  <2> QED
    BY <2>1, <1>2
<1>4. ASSUME NEW c \in Cpu, Walk(c) PROVE SpacesInv'
  BY <1>1, <1>2, <1>4, WalkInv
<1>5. ASSUME NEW c \in Cpu, WalkAlloc(c) PROVE SpacesInv'
  BY <1>1, <1>2, <1>5, WalkAllocInv
<1>6. ASSUME NEW c \in Cpu, WalkNoMem(c) PROVE SpacesInv'
  BY <1>1, <1>2, <1>6, WalkNoMemInv
<1>7. ASSUME NEW c \in Cpu, WalkCas(c) PROVE SpacesInv'
  <2>1. CASE mem[loc[c].ptr] # Null
    BY <1>1, <1>2, <1>7, <2>1, CasLosesInv
  <2>2. CASE mem[loc[c].ptr] = Null
    <3>1. pc[c] = "cas"
      BY <1>7 DEF WalkCas
    <3>2. loc[c].tbl \in Page /\ loc[c].sp \in Space /\ loc[c].l \in 1 .. Lev
      BY <3>1, <1>1, CasFacts
    <3>3. PICK own2 \in Owns, lvl2 \in Levels :
              Adds(own, own2, loc[c].tbl, loc[c].sp) /\ Adds(lvl, lvl2, loc[c].tbl, loc[c].l)
      BY <3>2, <1>1, OneTableMore
    <3>4. SpaceInv(own2, lvl2)'
      BY <1>1, <1>7, <2>2, <3>3, CasWinsInv
    <3> QED
      BY <3>4, Zenon DEF SpacesInv
  <2> QED
    BY <2>1, <2>2
<1>8. ASSUME NEW c \in Cpu, StoreInsert(c) PROVE SpacesInv'
  BY <1>1, <1>2, <1>8, StoreInsertInv
<1>9. ASSUME NEW c \in Cpu, StoreUpdate(c) PROVE SpacesInv'
  BY <1>1, <1>2, <1>9, StoreUpdateInv
<1>10. ASSUME NEW c \in Cpu, DelegateOne(c) PROVE SpacesInv'
  BY <1>1, <1>2, <1>10, DelegateOneInv
<1>11. ASSUME NEW c \in Cpu, Publish(c) PROVE SpacesInv'
  BY <1>1, <1>2, <1>11, PublishInv
<1>12. ASSUME NEW c \in Cpu, Undo(c) PROVE SpacesInv'
  BY <1>1, <1>2, <1>12, UndoInv
<1>13. ASSUME NEW c \in Cpu, NEW r \in Requests, SysCtrlPd(c, r) PROVE SpacesInv'
  BY <1>1, <1>2, <1>13, SysCtrlPdInv
<1>14. ASSUME NEW c \in Cpu, NEW psel \in 0 .. Limit - 1, NEW sel \in Selectors, NEW o \in Obj, SysCreateSm(c, psel, o, sel)
       PROVE  SpacesInv'
  <2>1. psel \in Nat /\ sel \in Nat
    BY SpaceObjAssumption
  <2> QED
    BY <1>1, <1>2, <1>14, <2>1, SysCreateSmInv
<1>15. ASSUME NEW c \in Cpu, NEW psel \in 0 .. Limit - 1, NEW sel \in Selectors, NEW o \in Obj, SysCreateObj(c, psel, o, sel)
       PROVE  SpacesInv'
  <2>1. psel \in Nat /\ sel \in Nat
    BY SpaceObjAssumption
  <2> QED
    BY <1>1, <1>2, <1>15, <2>1, SysCreateObjInv
<1> QED
  BY <1>3, <1>4, <1>5, <1>6, <1>7, <1>8, <1>9, <1>10, <1>11, <1>12, <1>13, <1>14, <1>15, Zenon DEF Next, Step

\* The invariant holds always.
LEMMA SpacesAlways == Spec => []SpacesInv
  BY SpacesInit, SpacesStep, PTL DEF Spec

-----------------------------------------------------------------------------
\* A table in use is installed in a live space, or about to be.
LEMMA TablesKept == SpacesInv => NoTableLeak
<1> SUFFICES ASSUME NEW own \in Owns, NEW lvl \in Levels, SpaceInv(own, lvl) PROVE NoTableLeak
  BY DEF SpacesInv
<1>0. \A p \in Page : lvl[p] \in 1 .. Lev
  BY DEF Levels
<1>1. used \subseteq Page /\ Installed \subseteq used
  BY DEF SpaceInv, SpaceShape, Installed
<1>2. PICK A : A = UNION {AllTables(sp) : sp \in Live}
  OBVIOUS
<1>3. ASSUME NEW p \in A PROVE p \in used
  <2>1. PICK sp \in Live : p \in AllTables(sp)
    BY <1>2, <1>3
  <2>2. PICK l \in 1 .. Lev : p \in Tables(sp)[l]
    BY <2>1 DEF AllTables
  <2>3. p \in TablesOf(sp, l, own, lvl)
    BY <2>2, TablesAre
  <2> QED
    BY <2>3, <1>1 DEF TablesOf
<1>4. ASSUME NEW p \in Installed PROVE p \in A
  <2>1. own[p] \in Live /\ lvl[p] \in 1 .. Lev
    BY <1>0, <1>1 DEF SpaceInv, Trees
  <2>2. p \in TablesOf(own[p], lvl[p], own, lvl)
    BY DEF TablesOf
  <2>3. p \in Tables(own[p])[lvl[p]]
    BY <2>1, <2>2, TablesAre
  <2>4. p \in AllTables(own[p])
    BY <2>1, <2>3 DEF AllTables
  <2> QED
    BY <2>1, <2>4, <1>2
<1>5. PICK B : B = {loc[c].tbl : c \in {d \in Cpu : pc[d] = "cas"}}
  OBVIOUS
<1>6. ASSUME NEW p \in B PROVE p \in used
  <2>1. PICK c \in Cpu : pc[c] = "cas" /\ p = loc[c].tbl
    BY <1>5, <1>6
  <2> QED
    BY <2>1, CasFacts
<1>7. ASSUME NEW p \in used, p \notin Installed PROVE p \in B
  BY <1>5, <1>7 DEF Installed
<1>8. used = A \cup B
  BY <1>1, <1>3, <1>4, <1>6, <1>7
<1> QED
  BY <1>2, <1>5, <1>8 DEF NoTableLeak

\* A capability in a table is of an object that exists.
LEMMA CapsAlive == SpacesInv => NoDanglingCaps
<1> SUFFICES ASSUME NEW own \in Owns, NEW lvl \in Levels, SpaceInv(own, lvl) PROVE NoDanglingCaps
  BY DEF SpacesInv
<1>1. TypeOK
  <2>1. ASSUME NEW c \in Cpu PROVE loc[c].cap \in Cap \cup {Null} /\ loc[c].ptr \in Cell \cup {Null}
    BY DEF SpaceInv, SpaceShape, LocRecs
  <2> QED
    BY <2>1 DEF SpaceInv, SpaceShape, TypeOK, Places
<1>2. ASSUME NEW sp \in Live, NEW v \in Caps(sp) PROVE v.obj \in objs
  <2>1. PICK p \in Installed, i \in Slot : own[p] = sp /\ lvl[p] = 1 /\ v = mem[<<p, i>>] /\ v # Null
    <3>1. v # Null /\ InLeaf(v, sp, own, lvl)
      BY CapsAre
    <3> QED
      BY <3>1 DEF InLeaf
  <2>2. mem[<<p, i>>] \in Cap
    BY <2>1 DEF SpaceInv, Trees
  <2>3. mem[<<p, i>>].obj \in Visible
    BY <2>1, <2>2 DEF SpaceInv, CapsSound
  <2> QED
    BY <2>1, <2>3 DEF Visible
<1> QED
  BY <1>1, <1>2 DEF NoDanglingCaps

\* A domain has one space at most.
LEMMA SpaceOnce == SpacesInv => OneObjSpace
<1> SUFFICES ASSUME NEW own \in Owns, NEW lvl \in Levels, SpaceInv(own, lvl) PROVE OneObjSpace
  BY DEF SpacesInv
<1>1. ASSUME NEW p \in Pd PROVE Cardinality({sp \in Live : parent[sp] = p}) <= 1
  <2>1. PICK S : S = {sp \in Live : parent[sp] = p}
    OBVIOUS
  <2>2. p # Null
    BY SpaceObjAssumption DEF Obj
  <2>3. \A sp, sq \in S : sp = sq
    BY <2>1, <2>2 DEF SpaceInv, ParentsOnce
  <2>4. CASE S = {}
    <3>1. Cardinality(S) = 0
      BY <2>4, FS_EmptySet
    <3> QED
      BY <3>1, <2>1
  <2>5. CASE S # {}
    <3>1. PICK x : S = {x}
      BY <2>3, <2>5
    <3>2. Cardinality({x}) = 1
      BY FS_Singleton
    <3> QED
      BY <3>1, <3>2, <2>1
  <2> QED
    BY <2>4, <2>5
<1>2. ASSUME NEW p \in Pd, spaceObj[p] # Null PROVE spaceObj[p] \in Live /\ parent[spaceObj[p]] = p
  BY <1>2 DEF SpaceInv, SpaceShape, ParentsOnce, Visible, Live
<1>3. attached = {parent[sp] : sp \in Live} \ {Null}
  BY DEF SpaceInv, ParentsOnce
<1> QED
  BY <1>1, <1>2, <1>3 DEF OneObjSpace

\* Racing creations and delegations leave the object spaces consistent, for any number
\* of CPUs, spaces and pages and for tables of any depth.
THEOREM SpacesStayIntact == Spec => []SpacesIntact
<1>1. SpacesInv => SpacesIntact
  BY TablesKept, CapsAlive, SpaceOnce DEF SpacesIntact
<1> QED
  BY <1>1, SpacesAlways, PTL

-----------------------------------------------------------------------------
\* How a step of CPU c changes a cell: not at all, by a store to a slot without a
\* table, by installing a table, or by clearing what nobody can reach.
CellStep(c, x) ==
    \/ mem'[x] = mem[x]
    \/ mem[x] \notin Page /\ mem'[x] = loc[c].cap
    \/ mem[x] = Null /\ mem'[x] \in Page
    \/ x[1] \notin objs \cup used /\ mem'[x] = Null

\* A table a step allocates is empty.
FreshEmpty == \A p \in used', i \in Slot : p \in used \/ mem'[<<p, i>>] = Null

\* A table in use holds a capability for the object of v with all of its permissions.
Derived(v) ==
    \E p \in used, i \in Slot :
        mem[<<p, i>>] \in Cap /\ mem[<<p, i>>].obj = v.obj /\ v.prm \subseteq mem[<<p, i>>].prm

\* The capability CPU d is to store is the one it had, none, one for a new object, or
\* no more than one that somebody has.
CapStep(d) ==
    \/ loc'[d].cap = loc[d].cap
    \/ loc'[d].cap = Null
    \/ loc'[d].cap.obj \notin objs
    \/ Derived(loc'[d].cap)

Cautious(c) == (\A x \in Cell : CellStep(c, x)) /\ FreshEmpty /\ \A d \in Cpu : CapStep(d)

\* A step that leaves all cells and allocates nothing.
LEMMA CellsKept ==
    ASSUME NEW c \in Cpu, mem' = mem, used' \subseteq used, Alone(c), CapStep(c) PROVE Cautious(c)
<1>1. \A x \in Cell : CellStep(c, x)
  BY DEF CellStep
<1>2. FreshEmpty
  BY DEF FreshEmpty
<1>3. \A d \in Cpu : CapStep(d)
  BY DEF CapStep, Alone
<1> QED
  BY <1>1, <1>2, <1>3 DEF Cautious

\* walk(), below the installation of tables.
LEMMA WalkCautious ==
    ASSUME NEW own \in Owns, NEW lvl \in Levels, SpaceInv(own, lvl), NEW c \in Cpu, Walk(c) PROVE Cautious(c)
<1>0. pc[c] \in Walking /\ UNCHANGED <<mem, used, objs, parent, attached, spaceObj>>
  BY DEF Walk, Walking
<1>1. /\ SpaceShape /\ loc[c].l \in 0 .. Lev /\ loc[c].sp \in Live
      /\ CellOf(loc[c].ptr, loc[c].sp, loc[c].l, own, lvl)
      /\ loc[c].cap = Null => job[c] \in DelegateJobs
  BY <1>0, WalkFacts DEF SpaceInv
<1>2. CASE loc[c].l = 0
  <2>1. Alone(c) /\ loc'[c] = loc[c]
    BY <1>1, <1>2, GotoEffect DEF Walk, Places
  <2> QED
    BY <1>0, <2>1, CellsKept DEF CapStep
<1>3. CASE loc[c].l # 0 /\ mem[loc[c].ptr] # Null
  <2>1. PICK t : t = mem[loc[c].ptr]
    OBVIOUS
  <2>2. Descend(c, t) /\ job' = job
    BY <1>3, <2>1 DEF Walk
  <2>3. loc[c].l \in 1 .. Lev
    BY <1>1, <1>3, SpaceObjAssumption
  <2>4. t \in Page
    BY <1>1, <1>3, <2>1, <2>3, CellTable
  <2>5. Alone(c) /\ loc'[c].cap = loc[c].cap
    BY <1>1, <1>3, <2>2, <2>4, DescendEffect
  <2> QED
    BY <1>0, <2>5, CellsKept DEF CapStep
<1>4. CASE loc[c].l # 0 /\ mem[loc[c].ptr] = Null /\ loc[c].cap = Null
  <2>1. NextSelector(c)
    BY <1>4 DEF Walk
  <2>2. Alone(c) /\ loc'[c].cap = Null
    BY <1>1, <1>4, <2>1, NextEffect, NoLocType
  <2> QED
    BY <1>0, <2>2, CellsKept DEF CapStep
<1>5. CASE loc[c].l # 0 /\ mem[loc[c].ptr] = Null /\ loc[c].cap # Null
  <2>1. Alone(c) /\ loc'[c] = loc[c]
    BY <1>1, <1>5, GotoEffect DEF Walk, Places
  <2> QED
    BY <1>0, <2>1, CellsKept DEF CapStep
<1> QED
  BY <1>2, <1>3, <1>4, <1>5

\* Allocation of a table, or none left.
LEMMA AllocCautious ==
    ASSUME NEW own \in Owns, NEW lvl \in Levels, SpaceInv(own, lvl), NEW c \in Cpu, WalkAlloc(c) \/ WalkNoMem(c)
    PROVE  Cautious(c)
<1>1. SpaceShape
  BY DEF SpaceInv
<1>2. CASE WalkNoMem(c)
  <2>1. mem' = mem /\ used' = used
    BY <1>2 DEF WalkNoMem
  <2>2. CASE job[c].kind = "create"
    <3>1. Alone(c) /\ loc'[c] = loc[c]
      BY <1>1, <1>2, <2>2, GotoEffect DEF WalkNoMem, Places
    <3> QED
      BY <2>1, <3>1, CellsKept DEF CapStep
  <2>3. CASE job[c].kind # "create"
    <3>1. Alone(c) /\ loc'[c].cap = Null
      BY <1>1, <1>2, <2>3, DoneEffect, NoLocType DEF WalkNoMem
    <3> QED
      BY <2>1, <3>1, CellsKept DEF CapStep
  <2> QED
    BY <2>2, <2>3
<1>3. CASE WalkAlloc(c)
  <2>1. PICK p : p = CHOOSE q \in Page : q \notin used
    OBVIOUS
  <2>2. p \in Page /\ p \notin used
    <3>1. \E q \in Page : q \notin used
      BY <1>1, <1>3 DEF WalkAlloc, SpaceShape
    <3> QED
      BY <2>1, <3>1
  <2>3. /\ used' = used \cup {p} /\ mem' = [x \in Cell |-> IF x[1] = p THEN Null ELSE mem[x]]
        /\ loc' = [loc EXCEPT ![c].tbl = p]
    BY <1>3, <2>1 DEF WalkAlloc
  <2>4. p \notin objs
    BY <1>1, <2>2, Cells DEF SpaceShape
  <2>5. ASSUME NEW x \in Cell PROVE CellStep(c, x)
    BY <2>2, <2>3, <2>4 DEF CellStep
  <2>6. \A i \in Slot : mem'[<<p, i>>] = Null
    BY <2>2, <2>3, Cells
  <2>7. FreshEmpty
    BY <2>3, <2>6 DEF FreshEmpty
  <2>8. ASSUME NEW d \in Cpu PROVE loc'[d].cap = loc[d].cap
    <3>1. loc[d] \in LocRecs /\ loc = [e \in Cpu |-> loc[e]]
      BY <1>1 DEF SpaceShape
    <3> QED
      BY <2>3, <3>1 DEF LocRecs
  <2> QED
    BY <2>5, <2>7, <2>8 DEF Cautious, CapStep
<1> QED
  BY <1>2, <1>3

\* Installation of a table, which is there for all to see, or not at all.
LEMMA CasCautious ==
    ASSUME NEW own \in Owns, NEW lvl \in Levels, SpaceInv(own, lvl), NEW c \in Cpu, WalkCas(c) PROVE Cautious(c)
<1>0. pc[c] = "cas" /\ job' = job /\ SpaceShape
  BY DEF WalkCas, SpaceInv
<1>1. /\ loc[c].tbl \in Page /\ loc[c].l \in 1 .. Lev /\ loc[c].l # 0 /\ loc[c].sp \in Live
      /\ CellOf(loc[c].ptr, loc[c].sp, loc[c].l, own, lvl) /\ loc[c].ptr \in Cell
  BY <1>0, CasFacts
<1>2. CASE mem[loc[c].ptr] # Null
  <2>1. PICK t : t = mem[loc[c].ptr]
    OBVIOUS
  <2>2. Descend(c, t) /\ mem' = mem /\ used' = used \ {loc[c].tbl}
    BY <1>2, <2>1 DEF WalkCas
  <2>3. t \in Page
    BY <1>1, <1>2, <2>1, CellTable
  <2>4. Alone(c) /\ loc'[c].cap = loc[c].cap
    BY <1>0, <1>1, <2>2, <2>3, DescendEffect
  <2> QED
    BY <2>2, <2>4, CellsKept DEF CapStep
<1>3. CASE mem[loc[c].ptr] = Null
  <2>2. Descend(c, loc[c].tbl) /\ mem' = [mem EXCEPT ![loc[c].ptr] = loc[c].tbl] /\ used' = used
    BY <1>3 DEF WalkCas
  <2>3. Alone(c) /\ loc'[c].cap = loc[c].cap
    BY <1>0, <1>1, <2>2, DescendEffect
  <2>4. ASSUME NEW x \in Cell PROVE CellStep(c, x)
    <3>1. mem'[x] = IF x = loc[c].ptr THEN loc[c].tbl ELSE mem[x]
      BY <1>0, <2>2 DEF SpaceShape
    <3> QED
      BY <1>1, <1>3, <3>1 DEF CellStep
  <2>5. FreshEmpty
    BY <2>2 DEF FreshEmpty
  <2>6. \A d \in Cpu : CapStep(d)
    BY <2>3 DEF CapStep, Alone
  <2> QED
    BY <2>4, <2>5, <2>6 DEF Cautious
<1> QED
  BY <1>2, <1>3

\* A store hits a slot of a leaf table.
LEMMA StoreCautious ==
    ASSUME NEW own \in Owns, NEW lvl \in Levels, SpaceInv(own, lvl), NEW c \in Cpu, StoreInsert(c) \/ StoreUpdate(c)
    PROVE  Cautious(c)
<1>0. pc[c] = "store" /\ pc[c] \in Walking /\ SpaceShape /\ used' = used
  BY DEF StoreInsert, StoreUpdate, SpaceInv, Walking
<1>1. loc[c].ptr \in Cell /\ mem[loc[c].ptr] \notin Page
  BY <1>0, StoreFacts
<1>2. ASSUME mem' = [mem EXCEPT ![loc[c].ptr] = loc[c].cap], Alone(c), CapStep(c) PROVE Cautious(c)
  <2>1. ASSUME NEW x \in Cell PROVE CellStep(c, x)
    <3>1. mem'[x] = IF x = loc[c].ptr THEN loc[c].cap ELSE mem[x]
      BY <1>0, <1>2 DEF SpaceShape
    <3> QED
      BY <1>1, <3>1 DEF CellStep
  <2>2. FreshEmpty
    BY <1>0 DEF FreshEmpty
  <2>3. \A d \in Cpu : CapStep(d)
    BY <1>2 DEF CapStep, Alone
  <2> QED
    BY <2>1, <2>2, <2>3 DEF Cautious
<1>3. CASE StoreUpdate(c)
  <2>1. job[c] \in DelegateJobs
    BY <1>0, <1>3, WalkFacts DEF StoreUpdate
  <2>2. Alone(c) /\ loc'[c].cap = Null
    BY <1>0, <1>3, <2>1, NextEffect, NoLocType DEF StoreUpdate
  <2> QED
    BY <1>2, <1>3, <2>2 DEF StoreUpdate, CapStep
<1>4. CASE StoreInsert(c) /\ mem[loc[c].ptr] # Null
  <2>1. mem' = mem /\ Alone(c) /\ loc'[c] = loc[c]
    BY <1>0, <1>4, GotoEffect DEF StoreInsert, Places
  <2> QED
    BY <1>0, <2>1, CellsKept DEF CapStep
<1>5. CASE StoreInsert(c) /\ mem[loc[c].ptr] = Null
  <2>1. mem' = [mem EXCEPT ![loc[c].ptr] = loc[c].cap]
    BY <1>5 DEF StoreInsert
  <2>2. CASE job[c].obj \in Space
    <3>1. Alone(c) /\ loc'[c] = loc[c]
      BY <1>0, <1>5, <2>2, GotoEffect DEF StoreInsert, Places
    <3> QED
      BY <1>2, <2>1, <3>1 DEF CapStep
  <2>3. CASE job[c].obj \notin Space
    <3>1. Alone(c) /\ loc'[c].cap = Null
      BY <1>0, <1>5, <2>3, DoneEffect, NoLocType DEF StoreInsert
    <3> QED
      BY <1>2, <2>1, <3>1 DEF CapStep
  <2> QED
    BY <2>2, <2>3
<1> QED
  BY <1>3, <1>4, <1>5

\* The end of a creation.
LEMMA EndCautious ==
    ASSUME NEW own \in Owns, NEW lvl \in Levels, SpaceInv(own, lvl), NEW c \in Cpu, Publish(c) \/ Undo(c)
    PROVE  Cautious(c)
<1>1. SpaceShape /\ Done(c) /\ mem' = mem /\ used' = used
  BY DEF Publish, Undo, SpaceInv
<1>2. Alone(c) /\ loc'[c].cap = Null
  BY <1>1, DoneEffect, NoLocType
<1> QED
  BY <1>1, <1>2, CellsKept DEF CapStep

\* The beginning of a delegation stores nothing.
LEMMA CtrlPdCautious ==
    ASSUME NEW own \in Owns, NEW lvl \in Levels, SpaceInv(own, lvl), NEW c \in Cpu, NEW r \in Requests,
           SysCtrlPd(c, r)
    PROVE  Cautious(c)
<1>1. mem' = mem /\ used' = used /\ loc' = loc
  BY DEF SysCtrlPd
<1>2. \A d \in Cpu : CapStep(d)
  BY <1>1 DEF CapStep
<1>3. \A x \in Cell : CellStep(c, x)
  BY <1>1 DEF CellStep
<1>4. FreshEmpty
  BY <1>1 DEF FreshEmpty
<1> QED
  BY <1>2, <1>3, <1>4 DEF Cautious

\* A delegation passes on no more than what it found.
LEMMA DelegateCautious ==
    ASSUME NEW own \in Owns, NEW lvl \in Levels, SpaceInv(own, lvl), NEW c \in Cpu, DelegateOne(c)
    PROVE  Cautious(c)
<1>0. pc[c] = "lookup" /\ UNCHANGED <<mem, used, objs, parent, attached, spaceObj, job>>
  BY DEF DelegateOne
<1>1. SpaceShape /\ JobFits(c) /\ SpacesInv
  BY DEF SpaceInv, SpacesInv
<1>2. PICK j : j = job[c]
  OBVIOUS
<1>3. j \in DelegateJobs /\ j.src \in Visible
  <2>1. j \in Jobs /\ j.kind = "delegate"
    BY <1>0, <1>1, <1>2 DEF SpaceShape, JobFits
  <2>2. j \in DelegateJobs
    BY <2>1, JobKinds
  <2> QED
    BY <1>1, <1>2, <2>1, <2>2 DEF JobFits
<1>4. j.src \in Space /\ j.dst \in Space /\ j.s \in Nat /\ j.d \in Nat /\ j.pmm \subseteq Bits
  BY <1>3 DEF DelegateJobs
<1>5. j.src \in Live
  BY <1>3, <1>4 DEF Live, Visible
<1>6. PICK cap : cap = Lookup(j.src, j.s)
  OBVIOUS
<1>7. cap \in Cap \cup {Null}
  BY <1>1, <1>4, <1>5, <1>6, LookupSound
<1>8. PICK new : new = IF cap = Null THEN Null ELSE MakeCap(cap.obj, cap.prm \cap j.pmm)
  OBVIOUS
<1>9. new \in Cap \cup {Null} /\ (new # Null => cap # Null /\ new.obj = cap.obj /\ new.prm \subseteq cap.prm)
  BY <1>7, <1>8 DEF MakeCap, Cap
<1>10. BeginWalk(c, j.dst, j.d, new)
  BY <1>2, <1>6, <1>8 DEF DelegateOne
<1>11. /\ pc' \in [Cpu -> Places] /\ loc' \in [Cpu -> LocRecs]
       /\ \A d \in Cpu \ {c} : pc'[d] = pc[d] /\ loc'[d] = loc[d]
       /\ loc'[c].cap = new
  BY <1>1, <1>4, <1>9, <1>10, BeginEffect
<1>12. Alone(c)
  BY <1>0, <1>1, <1>11 DEF Alone, SpaceShape
<1>13. ASSUME new # Null PROVE Derived(new)
  <2>1. PICK p \in Installed, i \in Slot : cap = mem[<<p, i>>]
    BY <1>4, <1>5, <1>6, <1>9, <1>13, LookupFinds
  <2>2. p \in used /\ mem[<<p, i>>] \in Cap
    BY <1>7, <1>9, <1>13, <2>1 DEF Installed
  <2> QED
    BY <1>9, <1>13, <2>1, <2>2 DEF Derived
<1>14. CapStep(c)
  BY <1>11, <1>13 DEF CapStep
<1> QED
  BY <1>0, <1>12, <1>14, CellsKept

\* A creation holds the first capability of an object that did not exist.
LEMMA CreateCautious ==
    ASSUME NEW own \in Owns, NEW lvl \in Levels, SpaceInv(own, lvl), NEW c \in Cpu, NEW sel \in Nat,
           NEW o \in Obj \ objs, BeginWalk(c, Home[c], sel, MakeCap(o, Defined(o))), used' = used,
           mem' = mem \/ (o \in Space /\ mem' = [mem EXCEPT ![<<o, 0>>] = Null])
    PROVE  Cautious(c)
<1>0. SpaceShape /\ Home[c] \in Space
  BY SpaceObjAssumption DEF SpaceInv
<1>1. PICK cap : cap = MakeCap(o, Defined(o))
  OBVIOUS
<1>2. cap \in Cap /\ cap.obj = o
  BY <1>1 DEF MakeCap, Defined, Cap, Bits, P_GRANT, P_TAKE
<1>3. BeginWalk(c, Home[c], sel, cap)
  BY <1>1
<1>4. loc'[c].cap = cap /\ \A d \in Cpu \ {c} : loc'[d] = loc[d]
  BY <1>0, <1>2, <1>3, BeginEffect
<1>5. \A d \in Cpu : CapStep(d)
  BY <1>2, <1>4 DEF CapStep
<1>6. FreshEmpty
  BY DEF FreshEmpty
<1>7. o \notin used
  BY <1>0, Cells DEF SpaceShape
<1>8. ASSUME NEW x \in Cell PROVE CellStep(c, x)
  <2>1. CASE mem' = mem
    BY <2>1 DEF CellStep
  <2>2. CASE o \in Space /\ mem' = [mem EXCEPT ![<<o, 0>>] = Null]
    <3>1. mem'[x] = IF x = <<o, 0>> THEN Null ELSE mem[x]
      BY <1>0, <2>2 DEF SpaceShape
    <3> QED
      BY <1>7, <3>1 DEF CellStep
  <2> QED
    BY <2>1, <2>2
<1> QED
  BY <1>5, <1>6, <1>8 DEF Cautious

\* Every step is of this kind.
LEMMA StepsCautious == SpacesInv /\ Next => \E c \in Cpu : Cautious(c)
<1> SUFFICES ASSUME SpacesInv, Next PROVE \E c \in Cpu : Cautious(c)
  OBVIOUS
<1>1. PICK own \in Owns, lvl \in Levels : SpaceInv(own, lvl)
  BY DEF SpacesInv
<1>2. ASSUME NEW c \in Cpu, Walk(c) PROVE Cautious(c)
  BY <1>1, <1>2, WalkCautious
<1>3. ASSUME NEW c \in Cpu, WalkAlloc(c) \/ WalkNoMem(c) PROVE Cautious(c)
  BY <1>1, <1>3, AllocCautious
<1>4. ASSUME NEW c \in Cpu, WalkCas(c) PROVE Cautious(c)
  BY <1>1, <1>4, CasCautious
<1>5. ASSUME NEW c \in Cpu, StoreInsert(c) \/ StoreUpdate(c) PROVE Cautious(c)
  BY <1>1, <1>5, StoreCautious
<1>6. ASSUME NEW c \in Cpu, DelegateOne(c) PROVE Cautious(c)
  BY <1>1, <1>6, DelegateCautious
<1>7. ASSUME NEW c \in Cpu, Publish(c) \/ Undo(c) PROVE Cautious(c)
  BY <1>1, <1>7, EndCautious
<1>8. ASSUME NEW c \in Cpu, NEW r \in Requests, SysCtrlPd(c, r) PROVE Cautious(c)
  BY <1>1, <1>8, CtrlPdCautious
<1>9. ASSUME NEW c \in Cpu, NEW psel \in 0 .. Limit - 1, NEW sel \in Selectors, NEW o \in Obj,
             SysCreateSm(c, psel, o, sel) \/ SysCreateObj(c, psel, o, sel)
      PROVE  Cautious(c)
  <2>1. sel \in Nat
    BY SpaceObjAssumption
  <2>2. /\ o \in Obj \ objs /\ BeginWalk(c, Home[c], sel, MakeCap(o, Defined(o))) /\ used' = used
        /\ mem' = mem \/ (o \in Space /\ mem' = [mem EXCEPT ![<<o, 0>>] = Null])
    BY <1>9 DEF SysCreateSm, SysCreateObj
  <2> QED
    BY <1>1, <2>1, <2>2, CreateCautious
<1> QED
  BY <1>2, <1>3, <1>4, <1>5, <1>6, <1>7, <1>8, <1>9, Zenon DEF Next, Step

-----------------------------------------------------------------------------
\* Once a table is installed it stays, which lets lookup() and walk() go without a lock.
THEOREM InstalledTablesStay == Spec => TablesStay
<1>1. SpacesInv /\ [Next]_vars => [\A x \in Cell : x[1] \in Live \cup used /\ mem[x] \in Page => mem'[x] = mem[x]]_vars
  <2> SUFFICES ASSUME SpacesInv, Next, NEW x \in Cell, x[1] \in Live \cup used, mem[x] \in Page
               PROVE  mem'[x] = mem[x]
    BY DEF vars
  <2>1. PICK c \in Cpu : CellStep(c, x)
    BY StepsCautious DEF Cautious
  <2>2. mem[x] # Null /\ x[1] \in objs \cup used
    BY Cells DEF Live
  <2> QED
    BY <2>1, <2>2 DEF CellStep
<1> QED
  BY <1>1, SpacesAlways, PTL DEF Spec, TablesStay

\* Somebody has the permission b on the object o, or is about to store it.
Held(b, o) ==
    \/ \E p \in used, i \in Slot : mem[<<p, i>>] \in Cap /\ mem[<<p, i>>].obj = o /\ b \in mem[<<p, i>>].prm
    \/ \E c \in Cpu : loc[c].cap \in Cap /\ loc[c].cap.obj = o /\ b \in loc[c].cap.prm

\* This is what Authority collects.
LEMMA AuthorityIs == SpacesInv => \A o, b : b \in Authority(o) <=> Held(b, o)
<1> SUFFICES ASSUME NEW own \in Owns, NEW lvl \in Levels, SpaceInv(own, lvl), NEW o, NEW b
             PROVE  b \in Authority(o) <=> Held(b, o)
  BY DEF SpacesInv
<1>0. SpaceShape /\ Installed \subseteq used /\ used \subseteq Page
  BY DEF SpaceInv, SpaceShape, Installed
<1>1. ASSUME NEW sp \in Live, NEW v \in Caps(sp)
      PROVE  v \in Cap /\ \E p \in used, i \in Slot : v = mem[<<p, i>>]
  <2>1. v # Null /\ InLeaf(v, sp, own, lvl)
    BY CapsAre
  <2>2. PICK p \in Installed, i \in Slot : lvl[p] = 1 /\ v = mem[<<p, i>>]
    BY <2>1 DEF InLeaf
  <2>3. mem[<<p, i>>] \in Cap
    BY <2>1, <2>2 DEF SpaceInv, Trees
  <2> QED
    BY <1>0, <2>2, <2>3
<1>2. ASSUME NEW p \in used, NEW i \in Slot, mem[<<p, i>>] \in Cap
      PROVE  \E sp \in Live : mem[<<p, i>>] \in Caps(sp)
  <2>1. mem[<<p, i>>] # Null /\ mem[<<p, i>>] \notin Page
    BY <1>2, Cells
  <2>2. p \in Installed
    <3> SUFFICES ASSUME NEW c \in Cpu, pc[c] = "cas", loc[c].tbl = p PROVE FALSE
      BY DEF Installed
    <3> QED
      BY <2>1, CasFacts
  <2>3. own[p] \in Live /\ lvl[p] = 1
    BY <1>0, <2>1, <2>2 DEF SpaceInv, Trees
  <2>4. InLeaf(mem[<<p, i>>], own[p], own, lvl)
    BY <2>2, <2>3 DEF InLeaf
  <2> QED
    BY <2>1, <2>3, <2>4, CapsAre
<1>3. PICK A : A = UNION {UNION {cap.prm : cap \in {x \in Caps(sp) : x.obj = o}} : sp \in Live}
  OBVIOUS
<1>4. b \in A <=> \E sp \in Live : \E v \in Caps(sp) : v.obj = o /\ b \in v.prm
  BY <1>3
<1>5. PICK B : B = UNION {loc[c].cap.prm : c \in {d \in Cpu : loc[d].cap # Null /\ loc[d].cap.obj = o}}
  OBVIOUS
<1>6. b \in B <=> \E c \in Cpu : loc[c].cap # Null /\ loc[c].cap.obj = o /\ b \in loc[c].cap.prm
  BY <1>5
<1>7. \A c \in Cpu : loc[c].cap # Null <=> loc[c].cap \in Cap
  BY <1>0, Cells DEF SpaceShape, LocRecs
<1>8. (\E sp \in Live : \E v \in Caps(sp) : v.obj = o /\ b \in v.prm) <=>
      (\E p \in used, i \in Slot : mem[<<p, i>>] \in Cap /\ mem[<<p, i>>].obj = o /\ b \in mem[<<p, i>>].prm)
  <2>1. ASSUME NEW sp \in Live, NEW v \in Caps(sp), v.obj = o, b \in v.prm
        PROVE  \E p \in used, i \in Slot : mem[<<p, i>>] \in Cap /\ mem[<<p, i>>].obj = o /\ b \in mem[<<p, i>>].prm
    <3>1. PICK p \in used, i \in Slot : v = mem[<<p, i>>] /\ v \in Cap
      BY <1>1
    <3> QED
      BY <2>1, <3>1
  <2>2. ASSUME NEW p \in used, NEW i \in Slot,
               mem[<<p, i>>] \in Cap, mem[<<p, i>>].obj = o, b \in mem[<<p, i>>].prm
        PROVE  \E sp \in Live : \E v \in Caps(sp) : v.obj = o /\ b \in v.prm
    <3>1. PICK sp \in Live : mem[<<p, i>>] \in Caps(sp)
      BY <1>2, <2>2
    <3> QED
      BY <2>2, <3>1
  <2> QED
    BY <2>1, <2>2
<1>9. Authority(o) = A \cup B
  BY <1>3, <1>5, Zenon DEF Authority
<1> QED
  BY <1>4, <1>6, <1>7, <1>8, <1>9 DEF Held

\* The same after a step.
LEMMA AuthorityIsNext == SpacesInv' => (\A o, b : b \in Authority(o) <=> Held(b, o))'
  BY AuthorityIs, PTL

\* A cautious step gives nobody a permission on an existing object that nobody had.
LEMMA HeldKept ==
    ASSUME SpacesInv, NEW c \in Cpu, Cautious(c), NEW o \in objs, NEW b, Held(b, o)' PROVE Held(b, o)
<1>0. used \subseteq Page /\ Null \notin Cap /\ loc \in [Cpu -> LocRecs] /\ \A p \in Page : p \notin Cap
  BY Cells DEF SpacesInv, SpaceInv, SpaceShape
<1>1. CASE \E p \in used', i \in Slot : mem'[<<p, i>>] \in Cap /\ mem'[<<p, i>>].obj = o /\ b \in mem'[<<p, i>>].prm
  <2>1. PICK p \in used', i \in Slot : mem'[<<p, i>>] \in Cap /\ mem'[<<p, i>>].obj = o /\ b \in mem'[<<p, i>>].prm
    BY <1>1
  <2>2. p \in used
    BY <1>0, <2>1 DEF Cautious, FreshEmpty
  <2>3. <<p, i>> \in Cell
    BY <1>0, <2>2, Cells
  <2>4. CellStep(c, <<p, i>>)
    BY <2>3 DEF Cautious
  <2>5. mem'[<<p, i>>] = mem[<<p, i>>] \/ mem'[<<p, i>>] = loc[c].cap
    BY <1>0, <2>1, <2>4 DEF CellStep
  <2> QED
    BY <2>1, <2>2, <2>5 DEF Held
<1>2. CASE \E d \in Cpu : loc'[d].cap \in Cap /\ loc'[d].cap.obj = o /\ b \in loc'[d].cap.prm
  <2>1. PICK d \in Cpu : loc'[d].cap \in Cap /\ loc'[d].cap.obj = o /\ b \in loc'[d].cap.prm
    BY <1>2
  <2>2. loc'[d].cap = loc[d].cap \/ Derived(loc'[d].cap)
    BY <1>0, <2>1 DEF Cautious, CapStep
  <2> QED
    BY <2>1, <2>2 DEF Held, Derived
<1> QED
  BY <1>1, <1>2 DEF Held

\* Delegation never amplifies: all permissions on an object that exists come from the
\* capability with which it was created.
THEOREM AuthorityOnlyShrinks == Spec => NoAmplification
<1>1. SpacesInv /\ SpacesInv' /\ [Next]_vars => [\A o \in objs : Authority(o)' \subseteq Authority(o)]_vars
  <2> SUFFICES ASSUME SpacesInv, SpacesInv', Next, NEW o \in objs, NEW b, b \in Authority(o)'
               PROVE  b \in Authority(o)
    BY DEF vars
  <2>1. PICK c \in Cpu : Cautious(c)
    BY StepsCautious
  <2>2. Held(b, o)'
    BY AuthorityIsNext
  <2>3. Held(b, o)
    BY <2>1, <2>2, HeldKept
  <2> QED
    BY <2>3, AuthorityIs
<1> QED
  BY <1>1, SpacesAlways, PTL DEF Spec, NoAmplification
=============================================================================
