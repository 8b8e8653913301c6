-------------------------------- MODULE Slab --------------------------------
(***************************************************************************)
(* The slab allocator of src/slab.cpp, down to its pointers: one cache of  *)
(* equal buffers, carved from pages of the buddy allocator.  Slabs that    *)
(* have a free buffer (partial) precede full ones in a doubly linked list; *)
(* curr is the last partial one.  alloc and free run under the cache lock  *)
(* and are single steps.                                                   *)
(***************************************************************************)
EXTENDS Integers, Sequences, FiniteSets, SequencesExt

CONSTANTS
    SlabPage,   \* pages the buddy allocator can hand out
    Null,       \* nullptr
    Sizes       \* numbers of buffers that fit into a slab, over all caches

ASSUME SlabAssumption ==
    Null \notin SlabPage /\ IsFiniteSet(SlabPage) /\ Sizes \subseteq Nat \ {0}

VARIABLES
    bps,        \* buffers per slab, fixed when the cache is made
    head, curr, \* Slab_cache::head and curr
    prev, next, \* links of every slab
    bufs,       \* the buffer list of every slab, first free buffer first
    acnt,       \* available buffers of every slab
    slabs,      \* pages that are slabs of this cache
    elems       \* history: the <<slab, buffer>> elements in use

slabVars == <<bps, head, curr, prev, next, bufs, acnt, slabs, elems>>

SlabType ==
    /\ bps \in Sizes
    /\ head \in slabs \cup {Null} /\ curr \in slabs \cup {Null}
    /\ prev \in [SlabPage -> SlabPage \cup {Null}]
    /\ next \in [SlabPage -> SlabPage \cup {Null}]
    /\ \A p \in SlabPage : Range(bufs[p]) \subseteq 1 .. bps
    /\ acnt \in [SlabPage -> 0 .. bps]
    /\ slabs \subseteq SlabPage
    /\ elems \subseteq slabs \X (1 .. bps)

SlabInit ==
    /\ bps \in Sizes
    /\ head = Null /\ curr = Null
    /\ prev = [p \in SlabPage |-> Null]
    /\ next = [p \in SlabPage |-> Null]
    /\ bufs = [p \in SlabPage |-> <<>>]
    /\ acnt = [p \in SlabPage |-> 0]
    /\ slabs = {}
    /\ elems = {}

\* Assignments through a pointer that is skipped when it is null.
Set(f, p, x) == IF p = Null THEN f ELSE [f EXCEPT ![p] = x]

\* The slab constructor frees the buffers from the lowest to the highest.
AllFree == [i \in 1 .. bps |-> bps + 1 - i]

\* Metadata::alloc() on slab p, and the choice of the next current slab;
\* pr are the prev links and b, a the buffers and counts to start from.
Take(p, pr, b, a) ==
    /\ elems' = elems \cup {<<p, Head(b[p])>>}
    /\ bufs' = [b EXCEPT ![p] = Tail(@)]
    /\ acnt' = [a EXCEPT ![p] = @ - 1]
    /\ curr' = IF a[p] = 1 THEN pr[p] ELSE p

\* alloc() with a current slab.
AllocCurr ==
    /\ curr # Null
    /\ Take(curr, prev, bufs, acnt)
    /\ UNCHANGED <<bps, head, prev, next, slabs>>

\* A page from the buddy allocator.  The cache never compares addresses, so
\* one page is as good as another.
FreshPage == CHOOSE p \in SlabPage : p \notin slabs

\* alloc() without one: a fresh slab is linked in front.  When the buddy
\* allocator has no page, alloc() fails and changes nothing.
AllocNew ==
    /\ curr = Null /\ slabs # SlabPage
    /\ LET p == FreshPage IN
        /\ Take(p, [prev EXCEPT ![p] = Null], [bufs EXCEPT ![p] = AllFree], [acnt EXCEPT ![p] = bps])
        /\ next' = [next EXCEPT ![p] = head]
        /\ prev' = Set([prev EXCEPT ![p] = Null], head, p)
        /\ head' = p
        /\ slabs' = slabs \cup {p}
    /\ UNCHANGED bps

\* Metadata::free(): what free() does to the slab of the element.
Put(e) ==
    /\ e \in elems
    /\ elems' = elems \ {e}
    /\ bufs' = [bufs EXCEPT ![e[1]] = <<e[2]>> \o @]
    /\ acnt' = [acnt EXCEPT ![e[1]] = @ + 1]

\* free() of the last element of a slab: unlink it, give its page back.  What
\* the page held is gone with it.
FreeEmpty(e) ==
    LET p == e[1] IN
    /\ acnt[p] + 1 = bps
    /\ elems' = elems \ {e}
    /\ bufs' = [bufs EXCEPT ![p] = <<>>]
    /\ acnt' = [acnt EXCEPT ![p] = 0]
    /\ curr' = IF p = curr THEN prev[p] ELSE curr
    /\ head' = IF p = head THEN next[p] ELSE head
    /\ next' = [Set(next, prev[p], next[p]) EXCEPT ![p] = Null]
    /\ prev' = [Set(prev, next[p], prev[p]) EXCEPT ![p] = Null]
    /\ slabs' = slabs \ {p}
    /\ UNCHANGED bps

Full(p) == acnt[p] = 0

\* Mutation of FreeFull: a full slab becomes partial where it is.
FreeFullStays(e) ==
    LET p == e[1] IN
    /\ Put(e)
    /\ acnt[p] = 0 /\ bps > 1
    /\ curr' = p
    /\ UNCHANGED <<bps, head, prev, next, slabs>>

\* free() of an element of a full slab: unless it is next to the partial
\* slabs already, move it behind curr, or to the front if there is none.
FreeFull(e) ==
    LET p  == e[1]
        n1 == Set(next, prev[p], next[p])
        p1 == Set(prev, next[p], prev[p])
    IN
    /\ Put(e)
    /\ acnt[p] = 0 /\ bps > 1
    /\ curr' = p
    /\ IF prev[p] = Null \/ ~Full(prev[p])
       THEN UNCHANGED <<head, prev, next>>
       ELSE IF curr # Null
       THEN /\ next' = [n1 EXCEPT ![p] = n1[curr], ![curr] = p]
            /\ prev' = [p1 EXCEPT ![p] = curr, ![n1[curr]] = p]
            /\ UNCHANGED head
       ELSE /\ next' = [n1 EXCEPT ![p] = head]
            /\ prev' = [p1 EXCEPT ![p] = Null, ![head] = p]
            /\ head' = p
    /\ UNCHANGED <<bps, slabs>>

\* free() of an element of any other slab.
FreePartial(e) ==
    /\ Put(e)
    /\ acnt[e[1]] > 0 /\ acnt[e[1]] + 1 < bps
    /\ UNCHANGED <<bps, head, curr, prev, next, slabs>>

SlabNext ==
    \/ AllocCurr \/ AllocNew
    \/ \E e \in elems : FreeEmpty(e) \/ FreeFull(e) \/ FreePartial(e)

SlabSpec == SlabInit /\ [][SlabNext]_slabVars

-----------------------------------------------------------------------------
\* The slab reached from head after n links.
Nth[n \in 0 .. Cardinality(SlabPage)] ==
    IF n = 0 THEN head ELSE IF Nth[n - 1] = Null THEN Null ELSE next[Nth[n - 1]]

Position(p) == CHOOSE n \in DOMAIN Nth : Nth[n] = p

\* The list is well formed: it ends, it holds exactly the slabs of the
\* cache, and going back is the inverse of going on.
ListIntact ==
    /\ \E n \in DOMAIN Nth : Nth[n] = Null
    /\ {Nth[n] : n \in DOMAIN Nth} \ {Null} = slabs
    /\ head # Null => prev[head] = Null
    /\ \A p \in slabs : next[p] # Null => prev[next[p]] = p

\* The linkage documented at the constructor: a well-formed list in which
\* partial slabs precede full ones and curr is the last partial one; so
\* alloc()'s two asserts hold.
Linkage ==
    /\ SlabType /\ ListIntact
    /\ \A p, q \in slabs : ~Full(p) /\ Full(q) => Position(p) < Position(q)
    /\ curr = Null <=> \A p \in slabs : Full(p)
    /\ curr # Null => /\ ~Full(curr)
                      /\ next[curr] # Null => Full(next[curr])

\* No buffer is handed out twice and none is lost, and the count of every
\* slab is the length of its buffer list; no slab is kept empty.
BuffersConserved ==
    \A p \in slabs :
        LET used == {e[2] : e \in {x \in elems : x[1] = p}} IN
        /\ used \cup Range(bufs[p]) = 1 .. bps
        /\ used \cap Range(bufs[p]) = {}
        /\ acnt[p] = Len(bufs[p]) /\ acnt[p] = Cardinality(Range(bufs[p]))
        /\ used # {}

\* The cache is exact: its list is linked as documented, and every buffer of
\* every slab is either free or held once.
SlabSafe == Linkage /\ BuffersConserved
=============================================================================
