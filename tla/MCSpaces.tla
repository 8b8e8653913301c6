------------------------------ MODULE MCSpaces ------------------------------
(***************************************************************************)
(* Two parts with liveness properties: hypercalls on object spaces, and    *)
(* sleep transitions of three CPUs.  A behaviour is one of one part; the   *)
(* other rests.                                                            *)
(*                                                                         *)
(* Object spaces: one CPU runs an EC whose space A holds P_TAKE on itself  *)
(* and P_GRANT on space B, the other an EC of space B.  Tables have three  *)
(* slots and spaces two levels; all but the first leaf table is missing in *)
(* both, and both missing tables are wanted.                               *)
(***************************************************************************)
EXTENDS SpaceObj, Power, TLC

VARIABLE part

CONSTANTS c0, c1, A, B, N, P, Q, R, sm, p1, p2, p3, p4, p5, p6

MCHome == c0 :> A @@ c1 :> B

MCBoot ==
    LET set == (<<A, 0>> :> p1) @@ (<<p1, 0>> :> p2)
            @@ (<<p2, 0>> :> [obj |-> A, prm |-> {P_GRANT, P_TAKE}])
            @@ (<<p2, 1>> :> [obj |-> B, prm |-> {P_GRANT}])
            @@ (<<p2, 2>> :> [obj |-> Q, prm |-> {P_PD, P_SM}])
            @@ (<<B, 0>> :> p3) @@ (<<p3, 0>> :> p4)
            @@ (<<p4, 0>> :> [obj |-> Q, prm |-> {P_SM}])
    IN  [mem      |-> [x \in Cell |-> IF x \in DOMAIN set THEN set[x] ELSE Null],
         used     |-> {p1, p2, p3, p4},
         objs     |-> {A, B, P, Q, R},
         parent   |-> A :> P @@ B :> R @@ N :> Null,
         attached |-> {P, R},
         spaceObj |-> P :> A @@ Q :> Null @@ R :> B]

Request(dst, ssb, ord, pmm) ==
    [src |-> 0, dst |-> dst, ssb |-> ssb, dsb |-> 4, ord |-> ord, pmm |-> pmm]

MCRequests ==
    {Request(1, 0, 1, {1}), Request(1, 2, 0, {0, 1, 4}), Request(1, 2, 1, {0, 1}), Request(0, 0, 0, {0})}
-----------------------------------------------------------------------------
parts == <<part, vars, powervars>>

InSpaces(X) == part = "spaces" /\ X /\ UNCHANGED <<part, powervars>>
InPower(X)  == part = "power" /\ X /\ UNCHANGED <<part, vars>>

\* All CPUs run after a boot on x86_64: where Power rests.
PowerAtRest ==
    /\ parch = "x86_64" /\ canreset = TRUE
    /\ pcpu = [c \in PCpus |-> "run"] /\ plast = [c \in PCpus |-> 0]
    /\ pinit = TRUE /\ bootlock = <<>> /\ online = Cardinality(PCpus)
    /\ trans = 0 /\ resume = FALSE /\ slphaz = {} /\ prke = {} /\ wak = FALSE
    /\ dirty = PCpus /\ sipi = "user" /\ sra = "user" /\ idle = PCpus

SpacesInit ==
    /\ part \in {"spaces", "power"} /\ Init
    /\ IF part = "power" THEN PowerInit ELSE PowerAtRest

SpacesNext == InSpaces(Next) \/ InPower(PowerNext)

\* The fairness of SpaceObj!FairSpec and of PowerFair, each for its part.
SpacesFair ==
    /\ \A c \in Cpu : WF_parts(InSpaces(Step(c)))
    /\ \A c \in PCpus : /\ WF_parts(InPower(PowerStep(c)))
                        /\ WF_parts(InPower(PRke(c)))
                        /\ WF_parts(InPower(PFini(c)))

SpacesSpec == SpacesInit /\ [][SpacesNext]_parts /\ SpacesFair
=============================================================================
