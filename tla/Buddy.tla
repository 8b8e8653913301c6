------------------------------- MODULE Buddy -------------------------------
(***************************************************************************)
(* The page allocator of src/buddy.cpp.  A block is named by the index of  *)
(* its first page; the header of every page holds an order and a tag, and  *)
(* the headers inside a block keep what was last written to them.  alloc   *)
(* and coalesce run under the allocator lock and are single steps.         *)
(***************************************************************************)
EXTENDS Integers, Sequences, FiniteSets, SequencesExt

CONSTANTS
    BuddyCpu,   \* each CPU has its own waitlist
    MinIdx,     \* min_idx: first page of the pool (KMEM_HVAS)
    FirstIdx,   \* first page that is not part of the image (KMEM_HVAF)
    MaxIdx,     \* max_idx: end of the pool
    Orders      \* number of block sizes: 2^0 to 2^(Orders-1) pages

ASSUME BuddyAssumption ==
    /\ MinIdx \in Nat /\ FirstIdx \in Nat /\ MaxIdx \in Nat
    /\ MinIdx <= FirstIdx /\ FirstIdx < MaxIdx
    /\ Orders \in Nat \ {0}

VARIABLES
    boot,       \* init(): the next page to free
    ord, tag,   \* Block::ord and Block::tag of every page
    freelist,   \* the freelist of each order
    waitlist,   \* the deferred blocks of each CPU
    busy,       \* the CPUs inside free_wait()
    used        \* history: blocks the callers hold, each with its order

buddyVars == <<boot, ord, tag, freelist, waitlist, busy, used>>

Index  == MinIdx .. MaxIdx - 1
Order  == 0 .. Orders - 1
Pages(x, o) == x .. x + 2^o - 1
IsValid(x) == x \in Index

BuddyType ==
    /\ boot \in FirstIdx .. MaxIdx
    /\ ord \in [Index -> Order]
    /\ tag \in [Index -> {"USED", "FREE"}]
    /\ \A o \in Order : Range(freelist[o]) \subseteq Index
    /\ \A c \in BuddyCpu : Range(waitlist[c]) \subseteq Index
    /\ busy \subseteq BuddyCpu
    /\ used \subseteq Index \X Order

BuddyInit ==
    /\ boot = FirstIdx
    /\ ord = [x \in Index |-> 0]
    /\ tag = [x \in Index |-> "USED"]
    /\ freelist = [o \in Order |-> <<>>]
    /\ waitlist = [c \in BuddyCpu |-> <<>>]
    /\ busy = {}
    /\ used = {}

(***************************************************************************)
(* coalesce(): the block is merged with its buddy, order by order, while   *)
(* the buddy is in the pool, free and whole.                               *)
(***************************************************************************)
Base(x, o) == x - (x % 2^o)
BuddyOf(x, o) == LET b == Base(x, o) IN IF (b \div 2^o) % 2 = 0 THEN b + 2^o ELSE b - 2^o

Mergeable(x, o) ==
    /\ o < Orders - 1
    /\ IsValid(BuddyOf(x, o))
    /\ tag[BuddyOf(x, o)] = "FREE"
    /\ ord[BuddyOf(x, o)] = o

\* The order at which the loop stops.
FinalOrder(x) ==
    CHOOSE k \in ord[x] .. Orders - 1 :
        /\ ~Mergeable(x, k)
        /\ \A o \in ord[x] .. k - 1 : Mergeable(x, o)

\* Queue::dequeue() of a block that is somewhere in the list.
Dequeue(q, b) ==
    LET i == CHOOSE i \in DOMAIN q : q[i] = b
    IN  [j \in 1 .. Len(q) - 1 |-> q[IF j < i THEN j ELSE j + 1]]

\* The orders that the loop, on its way from order i to order k, writes to
\* the header of page y: those of the blocks that start there.
OrdersWritten(x, i, k, y) == {o \in i + 1 .. k : Base(x, o) = y}

\* The last order written stays; a buddy leaves the freelist of its order.
Coalesce(x) ==
    LET k == FinalOrder(x)
    IN  /\ tag' = [tag EXCEPT ![x] = "FREE"]
        /\ ord' = [y \in Index |-> IF OrdersWritten(x, ord[x], k, y) = {} THEN ord[y]
                                  ELSE Max(OrdersWritten(x, ord[x], k, y))]
        /\ freelist' = [o \in Order |->
              IF o \in ord[x] .. k - 1 THEN Dequeue(freelist[o], BuddyOf(x, o))
              ELSE IF o = k THEN <<Base(x, k)>> \o freelist[o] ELSE freelist[o]]

-----------------------------------------------------------------------------
\* init(): free the pages of the pool one by one.
InitFree ==
    /\ boot < MaxIdx
    /\ Coalesce(boot)
    /\ boot' = boot + 1
    /\ UNCHANGED <<waitlist, busy, used>>

Booted == boot = MaxIdx

\* alloc(): take the first block of the smallest order that has one, and
\* give back the upper halves it is split into.
Alloc(c, o) ==
    /\ Booted /\ c \notin busy
    /\ \E k \in o .. Orders - 1 :
        /\ freelist[k] # <<>>
        /\ \A i \in o .. k - 1 : freelist[i] = <<>>
        /\ LET b == Head(freelist[k]) IN
            /\ freelist' = [i \in Order |->
                  IF i = k THEN Tail(freelist[i])
                  ELSE IF i \in o .. k - 1 THEN <<b + 2^i>> ELSE freelist[i]]
            /\ ord' = [ord EXCEPT ![b] = o]
            /\ tag' = [tag EXCEPT ![b] = "USED"]
            /\ used' = used \cup {<<b, o>>}
    /\ UNCHANGED <<boot, waitlist, busy>>

\* free(): by the caller that holds the block.
Free(c, u) ==
    /\ Booted /\ c \notin busy
    /\ u \in used
    /\ Coalesce(u[1])
    /\ used' = used \ {u}
    /\ UNCHANGED <<boot, waitlist, busy>>

\* Mutation of Wait: the block is put on the list and freed as well.
WaitFrees(c, u) ==
    /\ Booted /\ c \notin busy
    /\ u \in used
    /\ waitlist' = [waitlist EXCEPT ![c] = <<u[1]>> \o @]
    /\ Coalesce(u[1])
    /\ used' = used \ {u}
    /\ UNCHANGED <<boot, busy>>

\* wait(): defer the release until the TLBs no longer refer to the block.
Wait(c, u) ==
    /\ Booted /\ c \notin busy
    /\ u \in used
    /\ waitlist' = [waitlist EXCEPT ![c] = <<u[1]>> \o @]
    /\ used' = used \ {u}
    /\ UNCHANGED <<boot, ord, tag, freelist, busy>>

\* free_wait(): release the deferred blocks of this CPU, one critical
\* section each, until none is left.
FreeWait(c) ==
    /\ Booted
    /\ waitlist[c] # <<>>
    /\ Coalesce(Head(waitlist[c]))
    /\ waitlist' = [waitlist EXCEPT ![c] = Tail(@)]
    /\ busy' = IF Len(waitlist[c]) = 1 THEN busy \ {c} ELSE busy \cup {c}
    /\ UNCHANGED <<boot, used>>

BuddyNext ==
    \/ InitFree
    \/ \E c \in BuddyCpu :
        \/ \E o \in Order : Alloc(c, o)
        \/ \E u \in used : Free(c, u) \/ Wait(c, u)
        \/ FreeWait(c)

BuddySpec == BuddyInit /\ [][BuddyNext]_buddyVars

-----------------------------------------------------------------------------
FreeBlocks == UNION {{<<x, o>> : x \in Range(freelist[o])} : o \in Order}
Deferred   == UNION {{<<x, ord[x]>> : x \in Range(waitlist[c])} : c \in BuddyCpu}
Blocks     == FreeBlocks \cup Deferred \cup used
Extent(b)  == Pages(b[1], b[2])

\* No page is handed out twice and none is lost: the free, deferred and
\* allocated blocks are disjoint, none is listed twice, and together they
\* are the pages released by init().
Partition ==
    /\ BuddyType
    /\ \A a, b \in Blocks : a # b => Extent(a) \cap Extent(b) = {}
    /\ UNION {Extent(b) : b \in Blocks} = FirstIdx .. boot - 1
    /\ FreeBlocks \cap Deferred = {} /\ used \cap (FreeBlocks \cup Deferred) = {}
    /\ \A o \in Order : IsInjective(freelist[o])

\* The headers are what the asserts of alloc() and coalesce() demand.  The
\* upper halves of a free block have the order and the tag that alloc()
\* relies on when it splits the block, without writing them; a block that
\* is held still has the order it was allocated with, whatever happened
\* around it, and is not marked free.
HeadersIntact ==
    /\ \A b \in FreeBlocks :
        /\ tag[b[1]] = "FREE" /\ ord[b[1]] = b[2]
        /\ \A o \in 0 .. b[2] - 1 : /\ ord[b[1] + 2^o] = o
                                    /\ tag[b[1] + 2^o] = "FREE"
    /\ \A b \in used : tag[b[1]] = "USED" /\ ord[b[1]] = b[2]
    /\ \A b \in Deferred : tag[b[1]] = "USED"

\* Memory never stays fragmented: two free buddies are always merged.
Coalesced ==
    \A b \in FreeBlocks :
        b[2] < Orders - 1 => <<BuddyOf(b[1], b[2]), b[2]>> \notin FreeBlocks

\* The pool is exact: no page lost or handed out twice, headers as alloc()
\* and coalesce() assert them, and no two free buddies.
BuddySafe == Partition /\ HeadersIntact /\ Coalesced
=============================================================================
