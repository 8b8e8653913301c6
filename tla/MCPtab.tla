------------------------------- MODULE MCPtab -------------------------------
(* Two CPUs that run in the space update overlapping ranges of a tree of   *)
(* four levels: four slots per table and large pages up to level 2, or two *)
(* slots and large pages up to level 3.  Five tables can be allocated.     *)
EXTENDS Ptab, TLC

CONSTANTS c0, c1, t0, t1, t2, t3, t4

Request(v, ord, p, pm) == [v |-> v, ord |-> ord, p |-> p, pm |-> pm]

\* An update above the limit, which is cut into two large pages of level 2;
\* two slots of level 1 inside the first of them; and a small hole, for
\* which a large page is splintered twice.
MCRequests ==
    {Request(0, 5, 32, "RW"), Request(0, 3, 8, "R"), Request(15, 0, 0, "none")}

\* With large pages of level 3: a small page, and the two sizes that replace a table
\* above its table, and one above that.
MCNested ==
    {Request(0, 0, 0, "R"), Request(0, 2, 0, "none"), Request(0, 3, 0, "none")}

Symmetry == Permutations(PtabCpu)
=============================================================================
