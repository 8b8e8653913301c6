------------------------------ MODULE MCTables ------------------------------
(***************************************************************************)
(* Everything that translates addresses: page tables, the TLBs of CPUs and *)
(* the IOMMUs of both architectures.  A behaviour is one of one part; the  *)
(* others rest in their first state.                                       *)
(*                                                                         *)
(* Ptab: two CPUs that run in the space update overlapping ranges of a     *)
(* tree of four levels with four slots per table, after set_leaf_max (2):  *)
(* the tables of x86 on a CPU without 1 GB pages.  Five tables can be      *)
(* allocated.  Tlb: two CPUs, a thread and a vCPU, and a delegation to     *)
(* each space.  SmmuVtd: two devices and an interrupt over a queue of four *)
(* slots, which wraps.  SmmuArm: an SMMU with two groups and contexts, and *)
(* one with a single one, for two DMA spaces; the first matches its        *)
(* streams, the second indexes them.                                       *)
(***************************************************************************)
EXTENDS Ptab, Tlb, SmmuVtd, SmmuArm, TLC

CONSTANTS c0, c1, t0, t1, t2, t3, t4, h0, h1, g0, a, b

VARIABLE part

Request(v, ord, p, pm) == [v |-> v, ord |-> ord, p |-> p, pm |-> pm]

\* An update above the limit, which is cut into two large pages of level 2;
\* two slots of level 1 inside the first of them; and a small hole, for
\* which a large page is splintered twice.
MCRequests ==
    {Request(0, 5, 32, "RW"), Request(0, 3, 8, "R"), Request(15, 0, 0, "none")}

MCEcs == {[hst |-> h0, gst |-> NoSpace], [hst |-> h1, gst |-> g0]}

MCNum == <<2, 1>>

TablesInit ==
    /\ part \in {"ptab", "tlb", "vtd", "smmu"}
    /\ PtabInit
    /\ TlbInit /\ (part # "tlb" => pcid /\ \A c \in TCpus : tec[c].gst = NoSpace)
    /\ VtdInit /\ (part # "vtd" => vqi)
    /\ SmmuInit /\ ~sindex[1] /\ sindex[2]

TablesNext ==
    /\ UNCHANGED part
    /\ \/ part = "ptab" /\ PtabNext /\ UNCHANGED <<tlbvars, vtdvars, smmuvars>>
       \/ part = "tlb" /\ TlbNext /\ UNCHANGED <<ptabVars, vtdvars, smmuvars>>
       \/ part = "vtd" /\ VtdNext /\ UNCHANGED <<ptabVars, tlbvars, smmuvars>>
       \/ part = "smmu" /\ SmmuNext /\ UNCHANGED <<ptabVars, tlbvars, vtdvars>>

TablesSpec == TablesInit /\ [][TablesNext]_<<part, ptabVars, tlbvars, vtdvars, smmuvars>>

\* The CPUs of Ptab are interchangeable, and so are the DMA spaces.
Symmetry ==
    {p \in Permutations({c0, c1, a, b}) :
        {p[c0], p[c1]} = {c0, c1} /\ {p[a], p[b]} = {a, b} /\ (p[c0] = c0 <=> p[a] = a)}
=============================================================================
