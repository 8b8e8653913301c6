------------------------------- MODULE MCAlloc -------------------------------
(***************************************************************************)
(* The kernel's own data structures: the page and the buffer allocator,    *)
(* object creation, timeouts and consoles.  A behaviour is one of one      *)
(* part; the others rest in their first state.                             *)
(*                                                                         *)
(* Buddy: six free pages, aligned at neither end, after an image page;     *)
(* blocks of 1, 2 and 4 pages; two CPUs.  Slab: four pages, and slabs of   *)
(* one, two or three buffers, of which one goes straight from full to      *)
(* empty.  Create: two CPUs that draw their hypercalls from one of five    *)
(* mixes.  Timeout: three timeouts, each kind of timer, and a count-down   *)
(* that wraps.  Console: two writers, two UARTs, and a ring of three slots *)
(* that overflows.                                                         *)
(***************************************************************************)
EXTENDS Buddy, Slab, Create, Timeout, Console

VARIABLE part

MCMixes ==
    {{"obj", "hst", "pio", "global", "sc"}, {"obj", "hst", "pio", "local", "pt"},
     {"obj", "hst", "vcpu", "sc", "plain"}, {"hst", "pio", "delegate"}, {"msr", "delegate"}}

AllocInit ==
    /\ part \in {"buddy", "slab", "create", "timeout", "console"}
    /\ BuddyInit
    /\ SlabInit /\ (part # "slab" => bps = 1)
    /\ CreateInit /\ (part # "create" => mix = {"msr", "delegate"})
    /\ TimeoutInit /\ (part # "timeout" => kind = "deadline")
    /\ ConsoleInit

AllocNext ==
    /\ UNCHANGED part
    /\ \/ part = "buddy" /\ BuddyNext
          /\ UNCHANGED <<slabVars, createVars, tvars, consoleVars>>
       \/ part = "slab" /\ SlabNext
          /\ UNCHANGED <<buddyVars, createVars, tvars, consoleVars>>
       \/ part = "create" /\ CreateNext
          /\ UNCHANGED <<buddyVars, slabVars, tvars, consoleVars>>
       \/ part = "timeout" /\ TimeoutNext
          /\ UNCHANGED <<buddyVars, slabVars, createVars, consoleVars>>
       \/ part = "console" /\ ConsoleNext
          /\ UNCHANGED <<buddyVars, slabVars, createVars, tvars>>

AllocSpec ==
    AllocInit /\ [][AllocNext]_<<part, buddyVars, slabVars, createVars, tvars, consoleVars>>

\* The CPUs are interchangeable, and the same in every part.
Symmetry == Permutations(BuddyCpu)
=============================================================================
