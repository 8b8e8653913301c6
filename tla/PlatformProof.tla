---------------------------- MODULE PlatformProof ----------------------------
(***************************************************************************)
(* Proofs about the platform.  ACPI sleep and CPU hotplug, for any finite  *)
(* number of CPUs, both architectures and any set of transitions; the      *)
(* consoles, for any ring of three entries or more and any number of       *)
(* UARTs; and the GIC, for any number of CPUs, SPIs and frames.            *)
(*                                                                         *)
(* NothingLostInSleep looks at the moment the power goes.  What leads      *)
(* there: Cpu::online counts the CPUs between the barrier and their last   *)
(* step, so that online = 0 tells the BSP that all of them are gone, and   *)
(* all of them have read one and the same transition in Cpu::fini.         *)
(***************************************************************************)
EXTENDS Power, Console, Gic, FiniteSetTheorems, WellFoundedInduction, NaturalsInduction, TLAPS

(***************************************************************************)
(* The CPUs that Cpu::online counts, the states the BSP ends in, and where *)
(* an AP that is no longer online stays.                                   *)
(***************************************************************************)
OnlineAt == {"barrier", "sched", "run", "send", "fini", "leave"}
OnlineCpus == {c \in PCpus : pcpu[c] \in OnlineAt}
Ended == {"wakechk", "asleep", "down", "reset"}
Stopped == IF parch = "x86_64" THEN "wakechk" ELSE "off"

(***************************************************************************)
(* From power-on or wake to the barrier: no CPU has passed it.  The APs    *)
(* are off until the BSP starts them, and trans is cleared, a CPU's hazard *)
(* reset and the trampoline in place before any of them gets on.           *)
(***************************************************************************)
Rising ==
    /\ pcpu[Bsp] \in {"boot", "start", "lock", "arrive", "barrier"}
    /\ \A c \in Aps : pcpu[c] \in {"off", "start", "lock", "arrive", "barrier"}
    /\ pcpu[Bsp] = "boot" => ~pinit
    /\ pcpu[Bsp] = "start" => parch = "x86_64"
    /\ pcpu[Bsp] \in {"start", "arrive", "barrier"} => pinit
    /\ pcpu[Bsp] = "lock" /\ parch = "x86_64" => pinit
    /\ pcpu[Bsp] \in {"boot", "start", "lock"} =>
          \A c \in Aps : IF parch = "aarch64" /\ pinit THEN pcpu[c] \in {"start", "lock"}
                         ELSE pcpu[c] = "off"
    /\ pcpu[Bsp] \in {"arrive", "barrier"} => \A c \in Aps : pcpu[c] # "off"
    /\ pinit => trans = 0
    /\ \A c \in PCpus : pcpu[c] \in {"arrive", "barrier"} => c \notin slphaz
    /\ parch = "x86_64" =>
          IF pcpu[Bsp] = "boot" /\ ~resume THEN sipi = "user"
          ELSE sipi = "trampoline" /\ sra = "user"

(***************************************************************************)
(* From the barrier until the power goes: no CPU is before it.  Only a     *)
(* transition lets a CPU leave, every CPU that leaves has read it, and its *)
(* cache is clean if the transition keeps memory.                          *)
(***************************************************************************)
Running ==
    /\ pcpu[Bsp] \in {"barrier", "sched", "run", "send", "fini", "wait"} \cup Ended
    /\ \A c \in Aps : pcpu[c] \in OnlineAt \cup {Stopped}
    /\ pinit <=> pcpu[Bsp] \notin Ended
    /\ pcpu[Bsp] \in Ended => online = 0
    /\ trans = 0 => slphaz = {} /\ \A c \in PCpus : pcpu[c] \in {"barrier", "sched", "run"}
    /\ \A c \in PCpus : pcpu[c] \notin {"barrier", "sched", "run", "send"} => plast[c] = trans
    /\ \A c \in Aps : pcpu[c] \in {"leave", Stopped} /\ trans \in 1 .. 3 => c \notin dirty
    /\ pcpu[Bsp] = "asleep" => trans \in 2 .. 3 /\ Bsp \notin dirty /\ resume
    /\ \A c \in PCpus : pcpu[c] \notin {"barrier", "sched"} => c \in idle
    /\ parch = "x86_64" =>
          sra = "user" /\ sipi = IF pcpu[Bsp] \in {"barrier", "sched", "asleep"}
                                 THEN "trampoline" ELSE "user"

(***************************************************************************)
(* The tickets of the boot lock: each CPU in start.S has one, the BSP the  *)
(* first.                                                                  *)
(***************************************************************************)
Tickets ==
    /\ \A i \in 1 .. Len(bootlock) : pcpu[bootlock[i]] = "lock"
    /\ \A i, j \in 1 .. Len(bootlock) : bootlock[i] = bootlock[j] => i = j
    /\ \A c \in PCpus : pcpu[c] = "lock" => \E i \in 1 .. Len(bootlock) : bootlock[i] = c
    /\ pcpu[Bsp] = "lock" => bootlock[1] = Bsp

PowerInv ==
    /\ PowerType /\ Tickets /\ (Rising \/ Running)
    /\ online = Cardinality(OnlineCpus)
    /\ parch = "aarch64" => sipi = "user"
    /\ resume => idle = PCpus

-----------------------------------------------------------------------------
(* Cpu::online.                                                            *)

\* Some CPUs of finitely many are finitely many, and not more.
LEMMA OnlineFinite ==
    /\ IsFiniteSet(OnlineCpus) /\ Cardinality(OnlineCpus) \in 0 .. Cardinality(PCpus)
    /\ IsFiniteSet(PCpus) /\ Cardinality(PCpus) \in Nat
<1>1. OnlineCpus \subseteq PCpus
  BY DEF OnlineCpus
<1> QED
  BY <1>1, FS_Subset, FS_CardinalityType, PowerAssumption

\* online counts every CPU that enters the barrier and every one that leaves.
LEMMA CpuMoved ==
    ASSUME PowerInv, NEW c \in PCpus, NEW s, pcpu' = [pcpu EXCEPT ![c] = s]
    PROVE  /\ (pcpu[c] \in OnlineAt <=> s \in OnlineAt) => OnlineCpus' = OnlineCpus
           /\ pcpu[c] \notin OnlineAt /\ s \in OnlineAt =>
                  Cardinality(OnlineCpus') = online + 1 /\ Cardinality(OnlineCpus') <= Cardinality(PCpus)
           /\ pcpu[c] \in OnlineAt /\ s \notin OnlineAt =>
                  Cardinality(OnlineCpus') = online - 1 /\ online - 1 \in Nat
<1>1. DOMAIN pcpu = PCpus
  BY DEF PowerInv, PowerType
<1>2. ASSUME pcpu[c] \in OnlineAt <=> s \in OnlineAt PROVE OnlineCpus' = OnlineCpus
  BY <1>1, <1>2 DEF OnlineCpus
<1>3. ASSUME pcpu[c] \notin OnlineAt, s \in OnlineAt
      PROVE  OnlineCpus' = OnlineCpus \cup {c} /\ c \notin OnlineCpus
  BY <1>1, <1>3 DEF OnlineCpus
<1>4. ASSUME pcpu[c] \in OnlineAt, s \notin OnlineAt
      PROVE  OnlineCpus' = OnlineCpus \ {c} /\ c \in OnlineCpus
  BY <1>1, <1>4 DEF OnlineCpus
<1>5. ASSUME pcpu[c] \notin OnlineAt, s \in OnlineAt
      PROVE  Cardinality(OnlineCpus') = online + 1 /\ Cardinality(OnlineCpus') <= Cardinality(PCpus)
  <2>1. OnlineCpus \cup {c} \subseteq PCpus
    BY DEF OnlineCpus
  <2>2. Cardinality(OnlineCpus \cup {c}) = Cardinality(OnlineCpus) + 1
    BY <1>3, <1>5, OnlineFinite, FS_AddElement
  <2>3. Cardinality(OnlineCpus \cup {c}) <= Cardinality(PCpus)
    BY <2>1, OnlineFinite, FS_Subset
  <2> QED
    BY <1>3, <1>5, <2>2, <2>3 DEF PowerInv
<1>6. ASSUME pcpu[c] \in OnlineAt, s \notin OnlineAt
      PROVE  Cardinality(OnlineCpus') = online - 1 /\ online - 1 \in Nat
  <2>1. Cardinality(OnlineCpus \ {c}) = Cardinality(OnlineCpus) - 1
    BY <1>4, <1>6, OnlineFinite, FS_RemoveElement
  <2>2. Cardinality(OnlineCpus \ {c}) \in Nat
    BY OnlineFinite, FS_RemoveElement, FS_CardinalityType, FS_Subset, OnlineCpus \ {c} \subseteq OnlineCpus
  <2> QED
    BY <1>4, <1>6, <2>1, <2>2 DEF PowerInv
<1> QED
  BY <1>2, <1>5, <1>6

\* The barrier opens when all CPUs are online, the BSP sleeps when none is.
LEMMA OnlineAll ==
    ASSUME PowerInv, online = Cardinality(PCpus)
    PROVE  \A c \in PCpus : pcpu[c] \in OnlineAt
<1>1. OnlineCpus \subseteq PCpus
  BY DEF OnlineCpus
<1>2. OnlineCpus = PCpus
  BY <1>1, OnlineFinite, FS_Subset DEF PowerInv
<1> QED
  BY <1>2 DEF OnlineCpus

LEMMA OnlineNone ==
    ASSUME PowerInv, online = 0
    PROVE  \A c \in PCpus : pcpu[c] \notin OnlineAt
<1>1. OnlineCpus = {}
  BY OnlineFinite, FS_EmptySet DEF PowerInv
<1> QED
  BY <1>1 DEF OnlineCpus

-----------------------------------------------------------------------------
(* Every step keeps PowerInv.                                              *)

\* A CPU takes a ticket of the boot lock.
LEMMA PLockSafe ==
    ASSUME PowerInv, NEW c \in PCpus, PLock(c)
    PROVE  PowerInv'
<1> USE PowerAssumption DEF Aps
<1>0. pcpu' = [pcpu EXCEPT ![c] = "lock"]
  BY DEF PLock, MoveTo
<1>1. online' = Cardinality(OnlineCpus') /\ online' \in 0 .. Cardinality(PCpus)
  <2>1. pcpu[c] \notin OnlineAt /\ "lock" \notin OnlineAt
    BY DEF OnlineAt, PLock
  <2> QED
    BY <1>0, <2>1, CpuMoved, OnlineFinite DEF PowerInv, PowerType, PLock
<1>2. PowerType'
  BY <1>1 DEF PowerInv, PowerType, Pages, PLock, MoveTo
<1>3. Tickets'
  <2>1. bootlock \in Seq(PCpus) /\ c \in PCpus /\ pcpu[c] # "lock" /\ bootlock' = Append(bootlock, c)
    BY DEF PowerInv, PowerType, PLock
  <2>2. Len(bootlock') = Len(bootlock) + 1 /\ bootlock'[Len(bootlock) + 1] = c
        /\ \A i \in 1 .. Len(bootlock) : bootlock'[i] = bootlock[i] /\ bootlock[i] \in PCpus
    BY <2>1
  <2>3. \A d \in PCpus : pcpu'[d] = IF d = c THEN "lock" ELSE pcpu[d]
    BY <1>0 DEF PowerInv, PowerType
  <2>4. c = Bsp => Len(bootlock) = 0
    <3>1. c = Bsp => \A d \in PCpus : pcpu[d] # "lock"
      BY DEF PowerInv, PowerType, Rising, Running, Ended, PLock
    <3> QED
      BY <2>1, <2>2, <3>1 DEF PowerInv, Tickets
  <2>5. \A i \in 1 .. Len(bootlock) : pcpu[bootlock[i]] = "lock" /\ bootlock[i] # c
    BY <2>1 DEF PowerInv, Tickets
  <2>6. \A i \in 1 .. Len(bootlock') : i \in 1 .. Len(bootlock) \/ i = Len(bootlock) + 1
    BY <2>1, <2>2
  <2>7. \A i \in 1 .. Len(bootlock') : pcpu'[bootlock'[i]] = "lock"
    BY <2>1, <2>2, <2>3, <2>5, <2>6
  <2>8. \A i, j \in 1 .. Len(bootlock') : bootlock'[i] = bootlock'[j] => i = j
    BY <2>1, <2>2, <2>5, <2>6 DEF PowerInv, Tickets
  <2>9. \A d \in PCpus : pcpu'[d] = "lock" => \E i \in 1 .. Len(bootlock') : bootlock'[i] = d
    BY <2>1, <2>2, <2>3 DEF PowerInv, Tickets
  <2>10. pcpu'[Bsp] = "lock" => bootlock'[1] = Bsp
    <3>1. CASE c = Bsp
      BY <2>1, <2>2, <2>4, <3>1
    <3>2. CASE c # Bsp
      BY <2>1, <2>2, <2>3, <3>2 DEF PowerInv, Tickets
    <3> QED
      BY <3>1, <3>2
  <2> QED
    BY <2>7, <2>8, <2>9, <2>10 DEF Tickets
<1>4. CASE Rising
  <2>1. \A d \in PCpus : pcpu'[d] = IF d = c THEN "lock" ELSE pcpu[d]
    BY <1>0 DEF PowerInv, PowerType
  <2>2. Rising'
    <3>1. CASE c = Bsp
      BY <2>1, <3>1, <1>4 DEF Rising, PLock
    <3>2. CASE c # Bsp
      BY <2>1, <3>2, <1>4 DEF Rising, PLock
    <3> QED
      BY <3>1, <3>2
  <2> QED
    BY <1>1, <1>2, <1>3, <2>2 DEF PowerInv, PLock
<1>5. CASE Running
  BY <1>1, <1>2, <1>3, <1>5 DEF PowerInv, PowerType, Tickets, Rising, Running, Stopped, Ended, OnlineAt, PLock, MoveTo
<1> QED
  BY <1>4, <1>5 DEF PowerInv

\* Cpu::init hands the boot lock on.
LEMMA PCpuInitSafe ==
    ASSUME PowerInv, NEW c \in PCpus, PCpuInit(c)
    PROVE  PowerInv'
<1> USE PowerAssumption DEF Aps
<1>a. bootlock \in Seq(PCpus) /\ bootlock # <<>> /\ bootlock[1] = c /\ bootlock' = Tail(bootlock)
  <2>1. \E i \in 1 .. Len(bootlock) : bootlock[i] = c
    BY DEF PowerInv, Tickets, PCpuInit
  <2> QED
    BY <2>1 DEF PowerInv, PowerType, PCpuInit
<1>b. \A d \in PCpus : pcpu'[d] = IF d = c THEN "arrive"
                                 ELSE IF c = Bsp /\ pcpu[d] = "off" THEN "start" ELSE pcpu[d]
  BY DEF PCpuInit
<1>1. online' = Cardinality(OnlineCpus') /\ online' \in 0 .. Cardinality(PCpus)
  <2>1. OnlineCpus' = OnlineCpus
    BY <1>b DEF OnlineCpus, OnlineAt, PCpuInit
  <2> QED
    BY <2>1, OnlineFinite DEF PowerInv, PowerType, PCpuInit
<1>2. PowerType'
  <2>1. bootlock' \in Seq(PCpus)
    BY <1>a
  <2>2. pcpu' \in [PCpus -> {"off", "boot", "start", "lock", "arrive", "barrier", "sched",
                             "run", "send", "fini", "wait", "leave", "wakechk", "rejoin",
                             "asleep", "down", "reset"}]
    BY DEF PowerInv, PowerType, PCpuInit
  <2> QED
    BY <1>1, <2>1, <2>2 DEF PowerInv, PowerType, PCpuInit
<1>3. Tickets'
  <2>1. Len(bootlock') = Len(bootlock) - 1
        /\ \A i \in 1 .. Len(bootlock') : /\ bootlock'[i] = bootlock[i + 1] /\ i + 1 \in 1 .. Len(bootlock)
                                         /\ bootlock'[i] \in PCpus
    BY <1>a
  <2>2. \A i \in 1 .. Len(bootlock') : bootlock'[i] # c
    BY <1>a, <2>1 DEF PowerInv, Tickets
  <2>3. \A i \in 1 .. Len(bootlock') : pcpu'[bootlock'[i]] = "lock"
    BY <1>b, <2>1, <2>2 DEF PowerInv, Tickets
  <2>4. \A i, j \in 1 .. Len(bootlock') : bootlock'[i] = bootlock'[j] => i = j
    BY <1>a, <2>1 DEF PowerInv, Tickets
  <2>5. \A d \in PCpus : pcpu'[d] = "lock" => \E i \in 1 .. Len(bootlock') : bootlock'[i] = d
    <3> SUFFICES ASSUME NEW d \in PCpus, pcpu'[d] = "lock" PROVE \E i \in 1 .. Len(bootlock') : bootlock'[i] = d
      OBVIOUS
    <3>1. PICK i \in 1 .. Len(bootlock) : bootlock[i] = d
      BY <1>b DEF PowerInv, Tickets
    <3>2. i # 1
      BY <1>a, <1>b, <3>1
    <3>3. i - 1 \in 1 .. Len(bootlock') /\ (i - 1) + 1 = i
      BY <1>a, <2>1, <3>2
    <3>4. bootlock'[i - 1] = bootlock[i]
      BY <2>1, <3>3
    <3> QED
      BY <3>1, <3>3, <3>4
  <2>6. pcpu'[Bsp] # "lock"
    BY <1>a, <1>b DEF PowerInv, Tickets
  <2> QED
    BY <2>3, <2>4, <2>5, <2>6 DEF Tickets
<1>4. CASE Rising
  BY <1>1, <1>2, <1>3, <1>4 DEF PowerInv, PowerType, Tickets, Rising, Running, Stopped, Ended, OnlineAt, PCpuInit
<1>5. CASE Running
  BY <1>1, <1>2, <1>3, <1>5 DEF PowerInv, PowerType, Tickets, Rising, Running, Stopped, Ended, OnlineAt, PCpuInit
<1> QED
  BY <1>4, <1>5 DEF PowerInv

\* A CPU enters the barrier.
LEMMA PArriveSafe ==
    ASSUME PowerInv, NEW c \in PCpus, PArrive(c)
    PROVE  PowerInv'
<1> USE PowerAssumption DEF Aps
<1>0. pcpu' = [pcpu EXCEPT ![c] = "barrier"]
  BY DEF PArrive, MoveTo
<1>1. online' = Cardinality(OnlineCpus') /\ online' \in 0 .. Cardinality(PCpus)
  <2>1. pcpu[c] \notin OnlineAt /\ "barrier" \in OnlineAt
    BY DEF OnlineAt, PArrive
  <2>2. Cardinality(OnlineCpus') = online + 1 /\ Cardinality(OnlineCpus') <= Cardinality(PCpus)
    BY <1>0, <2>1, CpuMoved
  <2>3. online \in 0 .. Cardinality(PCpus) /\ Cardinality(PCpus) \in Nat
    BY OnlineFinite DEF PowerInv, PowerType
  <2>4. online' = online + 1
    BY DEF PArrive
  <2> QED
    BY <2>2, <2>3, <2>4
<1>2. PowerType'
  BY <1>1 DEF PowerInv, PowerType, Pages, PArrive, MoveTo
<1>3. Tickets'
  BY DEF PowerInv, PowerType, Tickets, PArrive, MoveTo
<1>4. CASE Rising
  BY <1>1, <1>2, <1>3, <1>4 DEF PowerInv, PowerType, Tickets, Rising, Running, Stopped, Ended, OnlineAt, PArrive, MoveTo
<1>5. CASE Running
  BY <1>1, <1>2, <1>3, <1>5 DEF PowerInv, PowerType, Tickets, Rising, Running, Stopped, Ended, OnlineAt, PArrive, MoveTo
<1> QED
  BY <1>4, <1>5 DEF PowerInv

\* A CPU leaves the barrier, when all have entered it: no CPU is before it any more.
LEMMA PLeaveSafe ==
    ASSUME PowerInv, NEW c \in PCpus, PLeave(c)
    PROVE  PowerInv'
<1> USE PowerAssumption DEF Aps
<1>0. pcpu' = [pcpu EXCEPT ![c] = "sched"]
  BY DEF PLeave, MoveTo
<1>1. online' = Cardinality(OnlineCpus') /\ online' \in 0 .. Cardinality(PCpus)
  BY <1>0, CpuMoved, OnlineFinite DEF PowerInv, PowerType, OnlineAt, PLeave
<1>2. PowerType'
  BY <1>1 DEF PowerInv, PowerType, Pages, PLeave, MoveTo
<1>3. Tickets'
  BY DEF PowerInv, PowerType, Tickets, PLeave, MoveTo
<1>4. CASE Rising
  BY <1>1, <1>2, <1>3, <1>4, OnlineAll
  DEF PowerInv, PowerType, Tickets, Rising, Running, Stopped, Ended, OnlineAt, PLeave, MoveTo
<1>5. CASE Running
  BY <1>1, <1>2, <1>3, <1>5 DEF PowerInv, PowerType, Tickets, Rising, Running, Stopped, Ended, OnlineAt, PLeave, MoveTo
<1> QED
  BY <1>4, <1>5 DEF PowerInv

\* The rest of bootstrap.
LEMMA PScheduleSafe ==
    ASSUME PowerInv, NEW c \in PCpus, PSchedule(c)
    PROVE  PowerInv'
<1> USE PowerAssumption DEF Aps
<1>0. pcpu' = [pcpu EXCEPT ![c] = "run"]
  BY DEF PSchedule, MoveTo
<1>1. online' = Cardinality(OnlineCpus') /\ online' \in 0 .. Cardinality(PCpus)
  BY <1>0, CpuMoved, OnlineFinite DEF PowerInv, PowerType, OnlineAt, PSchedule
<1>2. PowerType'
  BY <1>1 DEF PowerInv, PowerType, Pages, PSchedule, MoveTo
<1>3. Tickets'
  BY DEF PowerInv, PowerType, Tickets, PSchedule, MoveTo
<1>4. CASE Rising
  BY <1>1, <1>2, <1>3, <1>4 DEF PowerInv, PowerType, Tickets, Rising, Running, Stopped, Ended, OnlineAt, PSchedule, MoveTo
<1>5. CASE Running
  BY <1>1, <1>2, <1>3, <1>5 DEF PowerInv, PowerType, Tickets, Rising, Running, Stopped, Ended, OnlineAt, PSchedule, MoveTo
<1> QED
  BY <1>4, <1>5 DEF PowerInv

\* The RKE interrupts of a transition are sent.
LEMMA PSendExcSafe ==
    ASSUME PowerInv, NEW c \in PCpus, PSendExc(c)
    PROVE  PowerInv'
<1> USE PowerAssumption DEF Aps
<1>0. pcpu' = [pcpu EXCEPT ![c] = "run"]
  BY DEF PSendExc, MoveTo
<1>1. online' = Cardinality(OnlineCpus') /\ online' \in 0 .. Cardinality(PCpus)
  BY <1>0, CpuMoved, OnlineFinite DEF PowerInv, PowerType, OnlineAt, PSendExc
<1>2. PowerType'
  BY <1>1 DEF PowerInv, PowerType, Pages, PSendExc, MoveTo
<1>3. Tickets'
  BY DEF PowerInv, PowerType, Tickets, PSendExc, MoveTo
<1>4. CASE Rising
  BY <1>1, <1>2, <1>3, <1>4 DEF PowerInv, PowerType, Tickets, Rising, Running, Stopped, Ended, OnlineAt, PSendExc, MoveTo
<1>5. CASE Running
  BY <1>1, <1>2, <1>3, <1>5 DEF PowerInv, PowerType, Tickets, Rising, Running, Stopped, Ended, OnlineAt, PSendExc, MoveTo
<1> QED
  BY <1>4, <1>5 DEF PowerInv

\* RKE for a TLB shootdown.
LEMMA PShootdownSafe ==
    ASSUME PowerInv, NEW c \in PCpus, PShootdown(c)
    PROVE  PowerInv'
<1> USE PowerAssumption DEF Aps
<1>1. online' = Cardinality(OnlineCpus') /\ online' \in 0 .. Cardinality(PCpus)
  BY OnlineFinite DEF PowerInv, PowerType, OnlineCpus, PShootdown
<1>2. PowerType'
  BY <1>1 DEF PowerInv, PowerType, Pages, PShootdown
<1>3. Tickets'
  BY DEF PowerInv, PowerType, Tickets, PShootdown
<1>4. CASE Rising
  BY <1>1, <1>2, <1>3, <1>4 DEF PowerInv, PowerType, Tickets, Rising, Running, Stopped, Ended, OnlineAt, PShootdown
<1>5. CASE Running
  BY <1>1, <1>2, <1>3, <1>5 DEF PowerInv, PowerType, Tickets, Rising, Running, Stopped, Ended, OnlineAt, PShootdown
<1> QED
  BY <1>4, <1>5 DEF PowerInv

\* Rke_handler.
LEMMA PRkeSafe ==
    ASSUME PowerInv, NEW c \in PCpus, PRke(c)
    PROVE  PowerInv'
<1> USE PowerAssumption DEF Aps
<1>1. online' = Cardinality(OnlineCpus') /\ online' \in 0 .. Cardinality(PCpus)
  BY OnlineFinite DEF PowerInv, PowerType, OnlineCpus, PRke
<1>2. PowerType'
  BY <1>1 DEF PowerInv, PowerType, Pages, PRke
<1>3. Tickets'
  BY DEF PowerInv, PowerType, Tickets, PRke
<1>4. CASE Rising
  BY <1>1, <1>2, <1>3, <1>4 DEF PowerInv, PowerType, Tickets, Rising, Running, Stopped, Ended, OnlineAt, PRke
<1>5. CASE Running
  BY <1>1, <1>2, <1>3, <1>5 DEF PowerInv, PowerType, Tickets, Rising, Running, Stopped, Ended, OnlineAt, PRke
<1> QED
  BY <1>4, <1>5 DEF PowerInv

\* Cpu::fini reads the transition.
LEMMA PFiniSafe ==
    ASSUME PowerInv, NEW c \in PCpus, PFini(c)
    PROVE  PowerInv'
<1> USE PowerAssumption DEF Aps
<1>0. pcpu' = [pcpu EXCEPT ![c] = "fini"]
  BY DEF PFini, MoveTo
<1>1. online' = Cardinality(OnlineCpus') /\ online' \in 0 .. Cardinality(PCpus)
  BY <1>0, CpuMoved, OnlineFinite DEF PowerInv, PowerType, OnlineAt, PFini
<1>2. PowerType'
  BY <1>1 DEF PowerInv, PowerType, Pages, PFini, MoveTo
<1>3. Tickets'
  BY DEF PowerInv, PowerType, Tickets, PFini, MoveTo
<1>4. CASE Rising
  BY <1>1, <1>2, <1>3, <1>4 DEF PowerInv, PowerType, Tickets, Rising, Running, Stopped, Ended, OnlineAt, PFini, MoveTo
<1>5. CASE Running
  BY <1>1, <1>2, <1>3, <1>5 DEF PowerInv, PowerType, Tickets, Rising, Running, Stopped, Ended, OnlineAt, PFini, MoveTo
<1> QED
  BY <1>4, <1>5 DEF PowerInv

\* An AP cleans its cache.
LEMMA PCleanApSafe ==
    ASSUME PowerInv, NEW c \in PCpus, PCleanAp(c)
    PROVE  PowerInv'
<1> USE PowerAssumption DEF Aps
<1>0. pcpu' = [pcpu EXCEPT ![c] = "leave"]
  BY DEF PCleanAp, MoveTo
<1>1. online' = Cardinality(OnlineCpus') /\ online' \in 0 .. Cardinality(PCpus)
  BY <1>0, CpuMoved, OnlineFinite DEF PowerInv, PowerType, OnlineAt, PCleanAp
<1>2. PowerType'
  BY <1>1 DEF PowerInv, PowerType, Pages, PCleanAp, MoveTo
<1>3. Tickets'
  BY DEF PowerInv, PowerType, Tickets, PCleanAp, MoveTo
<1>4. CASE Rising
  BY <1>1, <1>2, <1>3, <1>4 DEF PowerInv, PowerType, Tickets, Rising, Running, Stopped, Ended, OnlineAt, PCleanAp, MoveTo
<1>5. CASE Running
  BY <1>1, <1>2, <1>3, <1>5 DEF PowerInv, PowerType, Tickets, Rising, Running, Stopped, Ended, OnlineAt, PCleanAp, MoveTo
<1> QED
  BY <1>4, <1>5 DEF PowerInv

\* An AP goes offline.
LEMMA POfflineSafe ==
    ASSUME PowerInv, NEW c \in PCpus, POffline(c)
    PROVE  PowerInv'
<1> USE PowerAssumption DEF Aps
<1>0. pcpu' = [pcpu EXCEPT ![c] = IF parch = "x86_64" THEN "wakechk" ELSE "off"]
  BY DEF POffline, MoveTo
<1>1. online' = Cardinality(OnlineCpus') /\ online' \in 0 .. Cardinality(PCpus)
  <2>1. pcpu[c] \in OnlineAt /\ (IF parch = "x86_64" THEN "wakechk" ELSE "off") \notin OnlineAt
    BY DEF OnlineAt, POffline
  <2>2. Cardinality(OnlineCpus') = online - 1 /\ online - 1 \in Nat
    BY <1>0, <2>1, CpuMoved
  <2>3. online \in 0 .. Cardinality(PCpus) /\ Cardinality(PCpus) \in Nat
    BY OnlineFinite DEF PowerInv, PowerType
  <2>4. online' = online - 1
    BY DEF POffline
  <2> QED
    BY <2>2, <2>3, <2>4
<1>2. PowerType'
  BY <1>1 DEF PowerInv, PowerType, Pages, POffline, MoveTo
<1>3. Tickets'
  BY DEF PowerInv, PowerType, Tickets, POffline, MoveTo
<1>4. CASE Rising
  BY <1>1, <1>2, <1>3, <1>4 DEF PowerInv, PowerType, Tickets, Rising, Running, Stopped, Ended, OnlineAt, POffline, MoveTo
<1>5. CASE Running
  BY <1>1, <1>2, <1>3, <1>5 DEF PowerInv, PowerType, Tickets, Rising, Running, Stopped, Ended, OnlineAt, POffline, MoveTo
<1> QED
  BY <1>4, <1>5 DEF PowerInv

\* The BSP goes offline.
LEMMA PFiniBspSafe ==
    ASSUME PowerInv, PFiniBsp
    PROVE  PowerInv'
<1> USE PowerAssumption DEF Aps
<1>0. pcpu' = [pcpu EXCEPT ![Bsp] = "wait"]
  BY DEF PFiniBsp, MoveTo
<1>1. online' = Cardinality(OnlineCpus') /\ online' \in 0 .. Cardinality(PCpus)
  <2>1. pcpu[Bsp] \in OnlineAt /\ "wait" \notin OnlineAt
    BY DEF OnlineAt, PFiniBsp
  <2>2. Cardinality(OnlineCpus') = online - 1 /\ online - 1 \in Nat
    BY <1>0, <2>1, CpuMoved
  <2>3. online \in 0 .. Cardinality(PCpus) /\ Cardinality(PCpus) \in Nat
    BY OnlineFinite DEF PowerInv, PowerType
  <2>4. online' = online - 1
    BY DEF PFiniBsp
  <2> QED
    BY <2>2, <2>3, <2>4
<1>2. PowerType'
  BY <1>1 DEF PowerInv, PowerType, Pages, PFiniBsp, MoveTo
<1>3. Tickets'
  BY DEF PowerInv, PowerType, Tickets, PFiniBsp, MoveTo
<1>4. CASE Rising
  BY <1>1, <1>2, <1>3, <1>4 DEF PowerInv, PowerType, Tickets, Rising, Running, Stopped, Ended, OnlineAt, PFiniBsp, MoveTo
<1>5. CASE Running
  BY <1>1, <1>2, <1>3, <1>5 DEF PowerInv, PowerType, Tickets, Rising, Running, Stopped, Ended, OnlineAt, PFiniBsp, MoveTo
<1> QED
  BY <1>4, <1>5 DEF PowerInv

\* init on the BSP: the transition is cleared and, on AArch64, the APs start.
LEMMA PInitBspSafe ==
    ASSUME PowerInv, PInitBsp
    PROVE  PowerInv'
<1> USE PowerAssumption DEF Aps
<1>1. Rising
  BY DEF PowerInv, Running, Ended, PInitBsp
<1>2. \A d \in PCpus : pcpu'[d] = IF d = Bsp THEN IF parch = "x86_64" THEN "start" ELSE "lock"
                                 ELSE IF parch = "x86_64" THEN pcpu[d] ELSE "start"
  BY DEF PowerInv, PowerType, PInitBsp
<1>3. \A d \in PCpus : d # Bsp => pcpu[d] = "off"
  BY <1>1 DEF Rising, PInitBsp
<1>4. online' = Cardinality(OnlineCpus') /\ online' \in 0 .. Cardinality(PCpus)
  <2>1. OnlineCpus' = OnlineCpus
    BY <1>2, <1>3 DEF OnlineCpus, OnlineAt, PInitBsp
  <2> QED
    BY <2>1, OnlineFinite DEF PowerInv, PowerType, PInitBsp
<1>5. PowerType'
  <2>1. sra' \in Pages /\ sipi' \in Pages
    BY DEF PowerInv, PowerType, Pages, PInitBsp, WakePrepare
  <2>2. pcpu' \in [PCpus -> {"off", "boot", "start", "lock", "arrive", "barrier", "sched",
                             "run", "send", "fini", "wait", "leave", "wakechk", "rejoin",
                             "asleep", "down", "reset"}]
    BY DEF PowerInv, PowerType, PInitBsp
  <2>3. trans' \in 0 .. 7
    BY DEF PInitBsp
  <2>4. pinit' \in BOOLEAN /\ wak' \in BOOLEAN
    <3>1. pinit' = TRUE /\ wak' = FALSE
      BY Zenon DEF PInitBsp
    <3> QED
      BY <3>1
  <2>5. UNCHANGED <<parch, canreset, plast, bootlock, resume, slphaz, prke, dirty, idle>>
    BY DEF PInitBsp
  <2> QED
    BY <1>4, <2>1, <2>2, <2>3, <2>4, <2>5 DEF PowerInv, PowerType
<1>6. Tickets'
  <2>1. \A d \in PCpus : pcpu'[d] = "lock" <=> pcpu[d] = "lock"
    BY <1>2, <1>3 DEF PowerInv, PowerType, PInitBsp
  <2>2. bootlock' = bootlock /\ bootlock \in Seq(PCpus)
    BY DEF PowerInv, PowerType, PInitBsp
  <2> QED
    BY <2>1, <2>2 DEF PowerInv, Tickets
<1>7. Rising'
  <2>1. CASE parch = "x86_64"
    BY <1>1, <1>2, <1>3, <2>1 DEF Rising, PInitBsp, WakePrepare
  <2>2. CASE parch = "aarch64"
    BY <1>1, <1>2, <1>3, <2>2 DEF Rising, PInitBsp
  <2> QED
    BY <2>1, <2>2 DEF PowerInv, PowerType
<1> QED
  BY <1>4, <1>5, <1>6, <1>7 DEF PowerInv, PInitBsp, WakePrepare

\* sys_ctrl_hw asks for a transition, when none is under way.
LEMMA PRequestSafe ==
    ASSUME PowerInv, NEW c \in PCpus, NEW s \in PStates, PRequest(c, s)
    PROVE  PowerInv'
<1> USE PowerAssumption DEF Aps
<1>0. pcpu' = [pcpu EXCEPT ![c] = "send"]
  BY DEF PRequest, MoveTo
<1>1. online' = Cardinality(OnlineCpus') /\ online' \in 0 .. Cardinality(PCpus)
  BY <1>0, CpuMoved, OnlineFinite DEF PowerInv, PowerType, OnlineAt, PRequest
<1>2. PowerType'
  BY <1>1 DEF PowerInv, PowerType, Pages, PRequest, MoveTo
<1>3. Tickets'
  BY DEF PowerInv, PowerType, Tickets, PRequest, MoveTo
<1>4. Running
  BY DEF PowerInv, Rising, PRequest
<1>5. \A d \in PCpus : pcpu'[d] = IF d = c THEN "send" ELSE pcpu[d]
  BY <1>0 DEF PowerInv, PowerType
<1>6. s # 0 /\ trans' = s
  BY DEF PRequest
<1>7. Running'
  BY <1>2, <1>4, <1>5, <1>6 DEF Running, Stopped, Ended, OnlineAt, PRequest
<1> QED
  BY <1>1, <1>2, <1>3, <1>7 DEF PowerInv, PRequest

\* The BSP, last of all CPUs, prepares the wake vector and goes to sleep.
LEMMA PSleepSafe ==
    ASSUME PowerInv, PSleep
    PROVE  PowerInv'
<1> USE PowerAssumption DEF Aps
<1> DEFINE s == plast[Bsp]
<1> DEFINE to == CASE s = 1 -> "wakechk" [] s \in 2..3 -> "asleep"
                   [] s \in {4, 5, 7} -> "down" [] OTHER -> "reset"
<1>1. Running
  BY DEF PowerInv, Rising, PSleep
<1>2. to \in Ended /\ (to = "asleep" <=> s \in {2, 3})
  BY DEF PowerInv, PowerType, Ended
<1> HIDE DEF to
<1>3. pcpu' = [pcpu EXCEPT ![Bsp] = to]
  BY DEF PSleep, MoveTo, to
<1>4. \A d \in PCpus : pcpu'[d] = IF d = Bsp THEN to ELSE pcpu[d]
  BY <1>3 DEF PowerInv, PowerType
<1>5. \A d \in Aps : pcpu[d] = Stopped
  BY <1>1, OnlineNone DEF Running, PSleep
<1>6. online' = 0 /\ online' = Cardinality(OnlineCpus')
  <2>1. OnlineCpus' = OnlineCpus
    <3>1. pcpu[Bsp] \notin OnlineAt /\ to \notin OnlineAt
      BY <1>2 DEF PSleep, OnlineAt, Ended
    <3> QED
      BY <1>3, <3>1, CpuMoved
  <2> QED
    BY <2>1 DEF PowerInv, PSleep
<1>7. PowerType'
  <2>1. sra' \in Pages /\ sipi' \in Pages
    BY DEF PowerInv, PowerType, Pages, PSleep, WakePrepare
  <2>2. pcpu' \in [PCpus -> {"off", "boot", "start", "lock", "arrive", "barrier", "sched",
                             "run", "send", "fini", "wait", "leave", "wakechk", "rejoin",
                             "asleep", "down", "reset"}]
    BY <1>2, <1>3 DEF PowerInv, PowerType, Ended
  <2>3. dirty' \subseteq PCpus
    BY DEF PowerInv, PowerType, PSleep
  <2> QED
    BY <1>6, <2>1, <2>2, <2>3, OnlineFinite DEF PowerInv, PowerType, PSleep
<1>8. Tickets'
  <2>1. \A d \in PCpus : pcpu'[d] = "lock" <=> pcpu[d] = "lock"
    BY <1>2, <1>4 DEF Ended, PSleep
  <2>2. bootlock' = bootlock /\ bootlock \in Seq(PCpus)
    BY DEF PowerInv, PowerType, PSleep
  <2> QED
    BY <2>1, <2>2 DEF PowerInv, Tickets
<1>9. idle = PCpus
  <2>1. \A d \in PCpus : d \in idle
    BY <1>1, OnlineNone DEF Running, OnlineAt, PSleep
  <2> QED
    BY <2>1 DEF PowerInv, PowerType
<1>10. Running'
  <2>1. s = trans /\ trans' = trans /\ plast' = plast /\ resume' /\ ~pinit' /\ idle' = idle
        /\ parch' = parch /\ slphaz' = slphaz /\ Stopped' = Stopped
    BY <1>1 DEF Running, Ended, PSleep, Stopped
  <2>2. trans # 0
    BY <1>1 DEF Running, PSleep
  <2>3. \A d \in PCpus : d # Bsp => pcpu[d] = Stopped /\ plast[d] = trans
    BY <1>1, <1>5 DEF Running, Stopped
  <2>4. \A d \in PCpus : trans \in 1 .. 3 => d \notin dirty'
    BY <1>1, <1>5, <2>1 DEF Running, PSleep
  <2>5. parch = "x86_64" => sra' = "user" /\ sipi' = IF to = "asleep" THEN "trampoline" ELSE "user"
    BY <1>1, <1>2 DEF Running, PSleep, WakePrepare
  <2> QED
    BY <1>2, <1>4, <1>6, <1>9, <2>1, <2>2, <2>3, <2>4, <2>5 DEF Running, Ended, OnlineAt
<1> QED
  BY <1>6, <1>7, <1>8, <1>9, <1>10 DEF PowerInv, PSleep, WakePrepare

\* A platform that starts has no CPU online.
LEMMA NoneOnline ==
    ASSUME pcpu = [c \in PCpus |-> IF c = Bsp THEN "boot" ELSE "off"]
    PROVE  Cardinality(OnlineCpus) = 0
<1>1. OnlineCpus = {}
  BY DEF OnlineCpus, OnlineAt
<1> QED
  BY <1>1, FS_EmptySet

\* A wake event finds the trampoline and the save area as PSleep left them.
LEMMA PWakeSafe ==
    ASSUME PowerInv, PWake
    PROVE  PowerInv'
<1> USE PowerAssumption DEF Aps
<1>1. Running
  BY DEF PowerInv, Rising, PWake
<1>2. \A d \in PCpus : pcpu'[d] = IF d = Bsp THEN "boot" ELSE "off"
  BY DEF PWake
<1>3. online' = 0 /\ online' = Cardinality(OnlineCpus')
  <2>1. OnlineCpus' = {}
    BY <1>2 DEF OnlineCpus, OnlineAt
  <2> QED
    BY <1>1, <2>1, FS_EmptySet DEF Running, Ended, PWake
<1>4. PowerType'
  BY DEF PowerInv, PowerType, PWake
<1>5. bootlock = <<>>
  <2>1. \A d \in PCpus : pcpu[d] # "lock"
    BY <1>1 DEF Running, Ended, OnlineAt, Stopped
  <2>2. bootlock \in Seq(PCpus) /\ \A i \in 1 .. Len(bootlock) : bootlock[i] \in PCpus
    BY DEF PowerInv, PowerType
  <2>3. Len(bootlock) = 0
    BY <2>1, <2>2 DEF PowerInv, Tickets
  <2> QED
    BY <2>2, <2>3
<1>6. Tickets'
  BY <1>2, <1>5 DEF Tickets, PWake
<1>7. Rising'
  BY <1>1, <1>2 DEF Rising, Running, Ended, PWake
<1> QED
  BY <1>3, <1>4, <1>6, <1>7 DEF PowerInv, PWake

\* The platform is switched on.
LEMMA PowerInitInv ==
    ASSUME PowerInit
    PROVE  PowerInv
<1> USE PowerAssumption DEF Aps
<1>1. \A d \in PCpus : pcpu[d] = IF d = Bsp THEN "boot" ELSE "off"
  BY DEF PowerInit
<1>2. PowerType
  <2>1. bootlock \in Seq(PCpus) /\ 0 \in 0 .. 7 /\ 0 \in 0 .. Cardinality(PCpus)
    BY OnlineFinite DEF PowerInit
  <2>2. plast \in [PCpus -> 0 .. 7]
    BY DEF PowerInit
  <2>3. pcpu \in [PCpus -> {"off", "boot", "start", "lock", "arrive", "barrier", "sched",
                             "run", "send", "fini", "wait", "leave", "wakechk", "rejoin",
                             "asleep", "down", "reset"}]
    BY DEF PowerInit
  <2> QED
    BY <2>1, <2>2, <2>3 DEF PowerInit, PowerType, Pages
<1>3. Tickets
  BY <1>1 DEF Tickets, PowerInit
<1>4. Rising
  BY <1>1 DEF Rising, PowerInit
<1> QED
  BY <1>2, <1>3, <1>4, NoneOnline DEF PowerInv, PowerInit

\* It is switched on again.
LEMMA PPowerOnSafe ==
    ASSUME PowerInv, PPowerOn
    PROVE  PowerInv'
<1> USE PowerAssumption DEF Aps
<1>1. \A d \in PCpus : pcpu'[d] = IF d = Bsp THEN "boot" ELSE "off"
  BY DEF PPowerOn
<1>2. PowerType'
  <2>1. bootlock' \in Seq(PCpus) /\ 0 \in 0 .. 7 /\ 0 \in 0 .. Cardinality(PCpus)
    BY OnlineFinite DEF PPowerOn
  <2>2. plast' \in [PCpus -> 0 .. 7]
    BY DEF PPowerOn
  <2>3. pcpu' \in [PCpus -> {"off", "boot", "start", "lock", "arrive", "barrier", "sched",
                             "run", "send", "fini", "wait", "leave", "wakechk", "rejoin",
                             "asleep", "down", "reset"}]
    BY DEF PPowerOn
  <2> QED
    BY <2>1, <2>2, <2>3 DEF PowerInv, PPowerOn, PowerType, Pages
<1>3. Tickets'
  BY <1>1 DEF Tickets, PPowerOn
<1>4. Rising'
  BY <1>1 DEF Rising, PPowerOn
<1>5. online' = Cardinality(OnlineCpus')
  <2>1. OnlineCpus' = {}
    BY <1>1 DEF OnlineCpus, OnlineAt
  <2> QED
    BY <2>1, FS_EmptySet DEF PPowerOn
<1> QED
  BY <1>2, <1>3, <1>4, <1>5 DEF PowerInv, PPowerOn

\* Every step keeps PowerInv.
LEMMA PowerStepSafe ==
    ASSUME PowerInv, [PowerNext]_powervars
    PROVE  PowerInv'
<1>1. CASE UNCHANGED powervars
  BY <1>1 DEF powervars, PowerInv, PowerType, Tickets, Rising, Running, OnlineCpus, Stopped
<1>2. CASE PWake \/ PPowerOn
  BY <1>2, PWakeSafe, PPowerOnSafe
<1>3. ASSUME NEW c \in PCpus, PowerStep(c) PROVE PowerInv'
  BY <1>3, PLockSafe, PCpuInitSafe, PArriveSafe, PLeaveSafe, PScheduleSafe, PSendExcSafe,
     PCleanApSafe, POfflineSafe, PInitBspSafe, PFiniBspSafe, PSleepSafe DEF PowerStep
<1>4. ASSUME NEW c \in PCpus, PRke(c) \/ PFini(c) \/ PShootdown(c) PROVE PowerInv'
  BY <1>4, PRkeSafe, PFiniSafe, PShootdownSafe
<1>5. ASSUME NEW c \in PCpus, NEW s \in PStates, PRequest(c, s) PROVE PowerInv'
  BY <1>5, PRequestSafe
<1> QED
  BY <1>1, <1>2, <1>3, <1>4, <1>5 DEF PowerNext

\* What the BSP relies on when it writes the sleep register.
LEMMA PowerInvSuffices ==
    ASSUME PowerInv
    PROVE  NothingLostInSleep
<1> USE PowerAssumption DEF Aps
<1>1. ASSUME pcpu[Bsp] = "asleep"
      PROVE  /\ dirty = {} /\ online = 0 /\ bootlock = <<>>
             /\ \A c \in Aps : pcpu[c] = IF parch = "x86_64" THEN "wakechk" ELSE "off"
             /\ parch = "x86_64" => sipi = "trampoline" /\ sra = "user"
  <2>1. Running /\ online = 0
    BY <1>1 DEF PowerInv, Rising, Running, Ended
  <2>2. \A c \in Aps : pcpu[c] = Stopped
    BY <2>1, OnlineNone DEF Running
  <2>3. \A c \in PCpus : c \notin dirty
    BY <1>1, <2>1, <2>2 DEF Running
  <2>4. \A c \in PCpus : pcpu[c] # "lock"
    BY <1>1, <2>2 DEF Stopped
  <2>5. bootlock \in Seq(PCpus) /\ \A i \in 1 .. Len(bootlock) : bootlock[i] \in PCpus
    BY DEF PowerInv, PowerType
  <2>6. Len(bootlock) = 0
    BY <2>4, <2>5 DEF PowerInv, Tickets
  <2>7. bootlock = <<>>
    BY <2>5, <2>6
  <2>8. dirty = {}
    BY <2>3 DEF PowerInv, PowerType
  <2> QED
    BY <1>1, <2>1, <2>2, <2>7, <2>8 DEF Running, Stopped
<1>2. ASSUME NEW c \in PCpus
      PROVE  /\ pcpu[c] \in {"off", "start"} /\ parch = "x86_64" /\ pinit => sipi = "trampoline"
             /\ pcpu[c] = "arrive" => pinit
  <2>1. CASE Rising
    BY <2>1 DEF Rising
  <2>2. CASE Running
    BY <2>2 DEF Running, Stopped, OnlineAt, Ended
  <2> QED
    BY <2>1, <2>2 DEF PowerInv
<1>3. ASSUME \A c \in PCpus : pcpu[c] = "run" PROVE sipi = "user" /\ idle = PCpus
  <2>1. Running
    BY <1>3 DEF PowerInv, Rising
  <2>2. sipi = "user"
    BY <1>3, <2>1 DEF PowerInv, PowerType, Running
  <2>3. \A c \in PCpus : c \in idle
    BY <1>3, <2>1 DEF Running
  <2> QED
    BY <2>2, <2>3 DEF PowerInv, PowerType
<1> QED
  BY <1>1, <1>2, <1>3 DEF NothingLostInSleep, PowerInv

\* What a CPU wrote before it stopped survives the sleep, and the CPUs come up in
\* order: Acpi::fini, Acpi::init and start.S on any number of CPUs.
THEOREM NothingIsLost == PowerSpec => []NothingLostInSleep
<1>1. PowerInv /\ [PowerNext]_powervars => PowerInv'
  BY PowerStepSafe
<1>2. PowerInit => PowerInv
  BY PowerInitInv
<1>3. PowerInv => NothingLostInSleep
  BY PowerInvSuffices
<1> QED
  BY <1>1, <1>2, <1>3, PTL DEF PowerSpec

-----------------------------------------------------------------------------
(* The consoles.                                                           *)

ConsoleSet == Uarts \cup {Mbuf}

(***************************************************************************)
(* The memory buffer is enabled last, so it ends every list of consoles.   *)
(***************************************************************************)
MbufLast(q) == Len(q) >= 1 /\ q[Len(q)] = Mbuf /\ \A i \in 1 .. Len(q) - 1 : q[i] \in Uarts

(***************************************************************************)
(* The slot of the k-th newest character in the ring.                      *)
(***************************************************************************)
Place(k) == (wIdx + Ring - k) % Ring

FlushTags == {"no", "walk", "off", "done"}

ConsoleTypes ==
    /\ ConsoleType /\ slot \in [0 .. Ring - 1 -> Nat] /\ signals \in Nat
    /\ prn \in [chr : Nat, to : Seq(ConsoleSet),
                step : {"idle", "outc", "discard", "store", "publish"}, r : 0 .. Ring - 1]
    /\ rd \in [step : {"wait", "load", "take"}, r : 0 .. Ring - 1, c : Nat]
    /\ read \in Seq(Nat) /\ consoles \in Seq(ConsoleSet)
    /\ flush \in Seq(ConsoleSet \cup FlushTags) /\ Len(flush) >= 1 /\ flush[1] \in FlushTags

(***************************************************************************)
(* The list of consoles, what is left of it for the current character and  *)
(* what is left of it for flush, which works on the first console.         *)
(***************************************************************************)
ConsoleLists ==
    /\ MbufLast(consoles)
    /\ prn.step # "idle" => MbufLast(prn.to)
    /\ prn.step = "idle" <=> prn.to = <<>>
    /\ prn.step = "idle" <=> holder = NoWriter
    /\ prn.step \in {"discard", "store", "publish"} => prn.to = <<Mbuf>>
    /\ flush[1] \in {"walk", "off"} =>
          /\ Len(flush) = Len(consoles) + 1
          /\ \A i \in 1 .. Len(consoles) : flush[i + 1] = consoles[i]
    /\ flush[1] = "off" => flush[2] \in Uarts
    /\ flush[1] = "done" => consoles = <<Mbuf>>

(***************************************************************************)
(* The ring while Console_mbuf::outc is at work: it discards only from a   *)
(* ring that was full, and once it has, there is room for what it stores.  *)
(***************************************************************************)
RingInv ==
    /\ prn.step = "discard" => prn.r = (wIdx + 1) % Ring
    /\ prn.step \in {"store", "publish"} => Unread # Ring - 1
    /\ prn.step = "publish" => slot[wIdx] = prn.chr
    /\ \A k \in 1 .. Unread : slot[Place(k)] = Published - k + 1

(***************************************************************************)
(* The reader: what it has taken is older than what is in the ring.  While *)
(* it is between its load and its compare-and-exchange the ring is not     *)
(* empty, and what it holds is not newer than the oldest character there:  *)
(* if r_idx comes round to the same slot, the character is stale, but not  *)
(* out of order.                                                           *)
(***************************************************************************)
ReadInv ==
    /\ \A i \in 2 .. Len(read) : read[i - 1] < read[i]
    /\ Len(read) > 0 => read[Len(read)] <= Published - Unread
    /\ rd.step = "take" =>
          /\ Unread >= 1 /\ rd.c <= Published - Unread + 1
          /\ Len(read) > 0 => read[Len(read)] < rd.c

ConsoleInv == ConsoleTypes /\ ConsoleLists /\ RingInv /\ ReadInv /\ NoLineMissed

\* An index that runs past the end of the ring once.
LEMMA WrapOnce ==
    ASSUME NEW n \in Nat \ {0}, NEW a \in 0 .. 2 * n - 1
    PROVE  a % n = IF a < n THEN a ELSE a - n
OBVIOUS

\* The indices without their remainders.
LEMMA RingIndex ==
    ASSUME NEW r \in 0 .. Ring - 1, NEW w \in 0 .. Ring - 1
    PROVE  /\ (w + Ring - r) % Ring = IF r <= w THEN w - r ELSE w + Ring - r
           /\ (w + 1) % Ring = IF w = Ring - 1 THEN 0 ELSE w + 1
           /\ \A k \in 1 .. Ring : (w + Ring - k) % Ring = IF k <= w THEN w - k ELSE w + Ring - k
<1> USE ConsoleAssumption
<1>1. \A a \in 0 .. 2 * Ring - 1 : a % Ring = IF a < Ring THEN a ELSE a - Ring
  BY WrapOnce
<1>2. (w + Ring - r) % Ring = IF r <= w THEN w - r ELSE w + Ring - r
  <2>1. w + Ring - r \in 0 .. 2 * Ring - 1
    OBVIOUS
  <2>2. (w + Ring - r) % Ring = IF w + Ring - r < Ring THEN w + Ring - r ELSE (w + Ring - r) - Ring
    BY <1>1, <2>1
  <2> QED
    BY <2>2
<1>3. (w + 1) % Ring = IF w = Ring - 1 THEN 0 ELSE w + 1
  <2>1. w + 1 \in 0 .. 2 * Ring - 1
    OBVIOUS
  <2>2. (w + 1) % Ring = IF w + 1 < Ring THEN w + 1 ELSE (w + 1) - Ring
    BY <1>1, <2>1
  <2> QED
    BY <2>2
<1>4. ASSUME NEW k \in 1 .. Ring PROVE (w + Ring - k) % Ring = IF k <= w THEN w - k ELSE w + Ring - k
  <2>1. w + Ring - k \in 0 .. 2 * Ring - 1
    OBVIOUS
  <2>2. (w + Ring - k) % Ring = IF w + Ring - k < Ring THEN w + Ring - k ELSE (w + Ring - k) - Ring
    BY <1>1, <2>1
  <2> QED
    BY <2>2
<1> QED
  BY <1>2, <1>3, <1>4

\* The same about the ring as it is.
LEMMA RingFacts ==
    ASSUME ConsoleTypes
    PROVE  /\ Unread \in 0 .. Ring - 1 /\ (Unread = 0 <=> rIdx = wIdx)
           /\ \A k \in 1 .. Ring : Place(k) \in 0 .. Ring - 1
           /\ \A k \in 1 .. Ring - 1 : Place(k) # wIdx
           /\ (wIdx + 1) % Ring \in 0 .. Ring - 1 /\ (rIdx + 1) % Ring \in 0 .. Ring - 1
           /\ (wIdx + 1) % Ring = rIdx <=> Unread = Ring - 1
           /\ Unread >= 1 => Place(Unread) = rIdx
<1> USE ConsoleAssumption
<1>1. rIdx \in 0 .. Ring - 1 /\ wIdx \in 0 .. Ring - 1
  BY DEF ConsoleTypes, ConsoleType
<1>2. Unread = IF rIdx <= wIdx THEN wIdx - rIdx ELSE wIdx + Ring - rIdx
  BY <1>1, RingIndex DEF Unread
<1>3. \A k \in 1 .. Ring : Place(k) = IF k <= wIdx THEN wIdx - k ELSE wIdx + Ring - k
  BY <1>1, RingIndex DEF Place
<1>4. (wIdx + 1) % Ring = IF wIdx = Ring - 1 THEN 0 ELSE wIdx + 1
  BY <1>1, RingIndex
<1>5. (rIdx + 1) % Ring = IF rIdx = Ring - 1 THEN 0 ELSE rIdx + 1
  BY <1>1, RingIndex
<1> QED
  BY <1>1, <1>2, <1>3, <1>4, <1>5

\* Publishing a character: it is the newest, the others are one older.
LEMMA WriteMoves ==
    ASSUME ConsoleTypes, Unread # Ring - 1, rIdx' = rIdx, wIdx' = (wIdx + 1) % Ring
    PROVE  /\ Unread' = Unread + 1 /\ Place(1)' = wIdx
           /\ \A k \in 2 .. Ring : Place(k)' = Place(k - 1)
<1> USE ConsoleAssumption
<1>1. rIdx \in 0 .. Ring - 1 /\ wIdx \in 0 .. Ring - 1
  BY DEF ConsoleTypes, ConsoleType
<1>2. wIdx' = IF wIdx = Ring - 1 THEN 0 ELSE wIdx + 1
  BY <1>1, RingIndex
<1>3. wIdx' \in 0 .. Ring - 1
  BY <1>1, <1>2
<1>4. Unread = IF rIdx <= wIdx THEN wIdx - rIdx ELSE wIdx + Ring - rIdx
  BY <1>1, RingIndex DEF Unread
<1>5. Unread' = IF rIdx <= wIdx' THEN wIdx' - rIdx ELSE wIdx' + Ring - rIdx
  BY <1>1, <1>3, RingIndex DEF Unread
<1>6. \A k \in 1 .. Ring : Place(k) = IF k <= wIdx THEN wIdx - k ELSE wIdx + Ring - k
  BY <1>1, RingIndex DEF Place
<1>7. \A k \in 1 .. Ring : Place(k)' = IF k <= wIdx' THEN wIdx' - k ELSE wIdx' + Ring - k
  BY <1>3, RingIndex DEF Place
<1>8. Unread' = Unread + 1
  BY <1>1, <1>2, <1>4, <1>5
<1>9. Place(1)' = wIdx
  BY <1>1, <1>2, <1>7
<1>10. ASSUME NEW k \in 2 .. Ring PROVE Place(k)' = Place(k - 1)
  <2>1. Place(k - 1) = IF k - 1 <= wIdx THEN wIdx - (k - 1) ELSE wIdx + Ring - (k - 1)
    BY <1>6
  <2>2. Place(k)' = IF k <= wIdx' THEN wIdx' - k ELSE wIdx' + Ring - k
    BY <1>7
  <2> QED
    BY <1>1, <1>2, <2>1, <2>2
<1> QED
  BY <1>8, <1>9, <1>10

\* Taking or discarding the oldest character.
LEMMA ReadMoves ==
    ASSUME ConsoleTypes, Unread >= 1, wIdx' = wIdx, rIdx' = (rIdx + 1) % Ring
    PROVE  Unread' = Unread - 1 /\ \A k \in 1 .. Ring : Place(k)' = Place(k)
<1> USE ConsoleAssumption
<1>1. rIdx \in 0 .. Ring - 1 /\ wIdx \in 0 .. Ring - 1
  BY DEF ConsoleTypes, ConsoleType
<1>2. rIdx' = IF rIdx = Ring - 1 THEN 0 ELSE rIdx + 1
  BY <1>1, RingIndex
<1>3. rIdx' \in 0 .. Ring - 1
  BY <1>1, <1>2
<1>4. Unread = IF rIdx <= wIdx THEN wIdx - rIdx ELSE wIdx + Ring - rIdx
  BY <1>1, RingIndex DEF Unread
<1>5. Unread' = IF rIdx' <= wIdx THEN wIdx - rIdx' ELSE wIdx + Ring - rIdx'
  BY <1>1, <1>3, RingIndex DEF Unread
<1>6. Unread' = Unread - 1
  BY <1>1, <1>2, <1>4, <1>5
<1> QED
  BY <1>6 DEF Place

\* The last character published in the ring.
LEMMA PublishedIs ==
    ASSUME ConsoleTypes, ConsoleLists
    PROVE  Published = IF prn.step = "idle" THEN prn.chr ELSE prn.chr - 1
<1>1. CASE prn.step = "idle"
  BY <1>1 DEF ConsoleLists, Published
<1>2. CASE prn.step # "idle"
  <2>1. Len(prn.to) \in 1 .. Len(prn.to) /\ prn.to[Len(prn.to)] = Mbuf
    BY <1>2 DEF ConsoleTypes, ConsoleLists, MbufLast
  <2> QED
    BY <1>2, <2>1 DEF Published
<1> QED
  BY <1>1, <1>2

\* A list that ends with the memory buffer holds it.
LEMMA HasMbuf ==
    ASSUME NEW q \in Seq(ConsoleSet), MbufLast(q)
    PROVE  Mbuf \in {q[i] : i \in 1 .. Len(q)}
<1>1. Len(q) \in 1 .. Len(q) /\ q[Len(q)] = Mbuf
  BY DEF MbufLast
<1> QED
  BY <1>1

\* The rest of such a list, and a list whose first console is the buffer.
LEMMA MbufTail ==
    ASSUME NEW q \in Seq(ConsoleSet), MbufLast(q)
    PROVE  /\ q # <<>> /\ Head(q) = q[1] /\ 1 \in 1 .. Len(q)
           /\ Tail(q) \in Seq(ConsoleSet) /\ Len(Tail(q)) = Len(q) - 1
           /\ \A i \in 1 .. Len(q) - 1 : Tail(q)[i] = q[i + 1] /\ i + 1 \in 1 .. Len(q)
           /\ q[1] \in Uarts <=> Len(q) > 1
           /\ Len(q) > 1 => MbufLast(Tail(q)) /\ Tail(q) # <<>>
           /\ Len(q) = 1 => q = <<Mbuf>>
<1> USE ConsoleAssumption
<1>1. q # <<>> /\ Head(q) = q[1] /\ Len(q) \in Nat /\ 1 \in 1 .. Len(q)
  BY DEF MbufLast
<1>2. /\ Tail(q) \in Seq(ConsoleSet) /\ Len(Tail(q)) = Len(q) - 1
      /\ \A i \in 1 .. Len(q) - 1 : Tail(q)[i] = q[i + 1] /\ i + 1 \in 1 .. Len(q)
  BY <1>1
<1>3. CASE Len(q) = 1
  BY <1>1, <1>2, <1>3 DEF MbufLast
<1>4. CASE Len(q) > 1
  <2>1. 1 \in 1 .. Len(q) - 1 /\ q[1] \in Uarts
    BY <1>1, <1>4 DEF MbufLast
  <2>2. Tail(q)[Len(q) - 1] = q[Len(q)] /\ Len(Tail(q)) >= 1
    BY <1>1, <1>2, <1>4
  <2>3. \A i \in 1 .. (Len(q) - 1) - 1 : i + 1 \in 1 .. Len(q) - 1 /\ Tail(q)[i] = q[i + 1]
    BY <1>1, <1>2
  <2>4. MbufLast(Tail(q))
    BY <1>2, <2>2, <2>3 DEF MbufLast
  <2>5. Tail(q) # <<>>
    BY <2>2
  <2>6. Len(q) # 1
    <3>1. \A n \in Nat : n > 1 => n # 1
      OBVIOUS
    <3> QED
      BY <1>1, <1>4, <3>1, Zenon
  <2> QED
    BY <1>1, <1>2, <1>4, <2>1, <2>4, <2>5, <2>6
<1> QED
  BY <1>1, <1>2, <1>3, <1>4

\* Steps that leave the ring alone.
LEMMA RingStays ==
    ASSUME ConsoleInv, UNCHANGED <<rIdx, wIdx, slot>>, Published' = Published
    PROVE  /\ Unread' = Unread /\ \A k \in 1 .. Ring : Place(k)' = Place(k)
           /\ \A k \in 1 .. Unread' : slot'[Place(k)'] = Published' - k + 1
<1>1. Unread' = Unread
  BY DEF Unread
<1>2. \A k \in 1 .. Ring : Place(k)' = Place(k)
  BY DEF Place
<1>3. Unread \in 0 .. Ring - 1
  BY RingFacts DEF ConsoleInv
<1> QED
  BY <1>1, <1>2, <1>3, ConsoleAssumption DEF ConsoleInv, RingInv

\* Console::print: a line begins, on the list as it is.
LEMMA CPrintSafe ==
    ASSUME ConsoleInv, NEW w \in Writers, CPrint(w)
    PROVE  ConsoleInv'
<1> USE ConsoleAssumption
<1>0. /\ prn \in [chr : Nat, to : Seq(ConsoleSet),
                 step : {"idle", "outc", "discard", "store", "publish"}, r : 0 .. Ring - 1]
      /\ consoles \in Seq(ConsoleSet)
  BY DEF ConsoleInv, ConsoleTypes
<1>1. /\ prn.step = "idle" /\ prn.to = <<>> /\ prn' = [prn EXCEPT !.chr = @ + 1, !.to = consoles, !.step = "outc"]
      /\ prn'.chr = prn.chr + 1 /\ prn'.to = consoles /\ prn'.step = "outc" /\ prn'.r = prn.r
  BY <1>0 DEF ConsoleInv, ConsoleLists, CPrint
<1>2. ConsoleTypes'
  <2>1. prn' \in [chr : Nat, to : Seq(ConsoleSet),
                 step : {"idle", "outc", "discard", "store", "publish"}, r : 0 .. Ring - 1]
    <3>1. prn.chr + 1 \in Nat
      BY <1>0
    <3> QED
      BY <1>0, <1>1, <3>1
  <2> QED
    BY <2>1 DEF ConsoleInv, ConsoleTypes, ConsoleType, CPrint, flushVars, ringVars, readerVars
<1>3. ConsoleLists'
  <2>1. consoles # <<>> /\ MbufLast(consoles)
    BY <1>0 DEF ConsoleInv, ConsoleLists, MbufLast
  <2>2. holder' # NoWriter /\ UNCHANGED <<consoles, flush>>
    BY DEF CPrint
  <2> QED
    BY <1>1, <2>1, <2>2 DEF ConsoleInv, ConsoleLists
<1>4. Published' = Published
  <2>1. Published = prn.chr
    BY <1>1 DEF Published
  <2>2. Published' = (prn.chr + 1) - 1
    BY <1>0, <1>1, HasMbuf DEF ConsoleInv, ConsoleLists, Published
  <2> QED
    BY <1>0, <2>1, <2>2
<1>5. UNCHANGED <<rIdx, wIdx, slot, signals, rd, read>>
  BY DEF CPrint, ringVars, readerVars
<1>6. RingInv'
  BY <1>1, <1>4, <1>5, RingStays DEF RingInv
<1>7. ReadInv' /\ NoLineMissed'
  BY <1>4, <1>5, RingStays DEF ConsoleInv, ReadInv, NoLineMissed, Unread
<1> QED
  BY <1>2, <1>3, <1>6, <1>7 DEF ConsoleInv

\* Console_uart::outc: there is another console after a UART.
LEMMA CUartSafe ==
    ASSUME ConsoleInv, CUart
    PROVE  ConsoleInv'
<1> USE ConsoleAssumption
<1> DEFINE u == Head(prn.to)
<1>0. /\ prn \in [chr : Nat, to : Seq(ConsoleSet),
                 step : {"idle", "outc", "discard", "store", "publish"}, r : 0 .. Ring - 1]
      /\ consoles \in Seq(ConsoleSet)
  BY DEF ConsoleInv, ConsoleTypes
<1>1. prn.step = "outc" /\ MbufLast(prn.to) /\ prn.to # <<>> /\ u = prn.to[1] /\ u \in Uarts
  <2>1. prn.step = "outc" /\ MbufLast(prn.to) /\ u \in Uarts
    BY DEF ConsoleInv, ConsoleLists, CUart
  <2> QED
    BY <1>0, <2>1, MbufTail
<1>2. Len(prn.to) > 1 /\ 1 \in 1 .. Len(prn.to)
  BY <1>0, <1>1, MbufTail
<1>3. /\ prn' = [prn EXCEPT !.to = Tail(@), !.step = "outc"] /\ holder' = holder
      /\ prn'.chr = prn.chr /\ prn'.to = Tail(prn.to) /\ prn'.step = "outc" /\ prn'.r = prn.r
  BY <1>0, <1>2 DEF CUart, Advance
<1>4. /\ Tail(prn.to) \in Seq(ConsoleSet) /\ Len(Tail(prn.to)) = Len(prn.to) - 1
      /\ \A i \in 1 .. Len(prn.to) - 1 : Tail(prn.to)[i] = prn.to[i + 1] /\ i + 1 \in 1 .. Len(prn.to)
  BY <1>0, <1>1, MbufTail
<1>5. MbufLast(Tail(prn.to)) /\ Tail(prn.to) # <<>>
  BY <1>0, <1>1, <1>2, MbufTail
<1>6. ConsoleTypes'
  <2>1. prn' \in [chr : Nat, to : Seq(ConsoleSet),
                 step : {"idle", "outc", "discard", "store", "publish"}, r : 0 .. Ring - 1]
    BY <1>0, <1>3, <1>4
  <2>2. txq' \in [Uarts -> 0 .. Fifo]
    <3>1. txq \in [Uarts -> 0 .. Fifo] /\ txq[u] < Fifo /\ txq' = [txq EXCEPT ![u] = txq[u] + 1]
      BY DEF ConsoleInv, ConsoleTypes, ConsoleType, CUart
    <3>2. txq[u] + 1 \in 0 .. Fifo
      BY <1>1, <3>1
    <3> QED
      BY <3>1, <3>2
  <2> QED
    BY <1>3, <2>1, <2>2 DEF ConsoleInv, ConsoleTypes, ConsoleType, CUart, ringVars, readerVars
<1>9. ConsoleLists'
  <2>1. UNCHANGED <<consoles, flush>> /\ holder # NoWriter
    BY <1>1 DEF CUart, ConsoleInv, ConsoleLists
  <2> QED
    BY <1>1, <1>3, <1>5, <2>1 DEF ConsoleInv, ConsoleLists
<1>10. Published' = Published
  <2>1. Mbuf \in {prn.to[i] : i \in 1 .. Len(prn.to)}
    BY <1>0, <1>1, HasMbuf
  <2>2. Mbuf \in {prn'.to[i] : i \in 1 .. Len(prn'.to)}
    <3>1. Mbuf \in {Tail(prn.to)[i] : i \in 1 .. Len(Tail(prn.to))}
      BY <1>4, <1>5, HasMbuf
    <3> QED
      BY <1>3, <3>1
  <2> QED
    BY <1>3, <2>1, <2>2 DEF Published
<1>11. UNCHANGED <<rIdx, wIdx, slot, signals, rd, read>>
  BY DEF CUart, ringVars, readerVars
<1>12. RingInv'
  BY <1>3, <1>10, <1>11, RingStays DEF RingInv
<1>13. ReadInv' /\ NoLineMissed'
  BY <1>10, <1>11, RingStays DEF ConsoleInv, ReadInv, NoLineMissed, Unread
<1> QED
  BY <1>6, <1>9, <1>12, <1>13 DEF ConsoleInv

\* The transmitter.
LEMMA CTransmitSafe ==
    ASSUME ConsoleInv, NEW u \in Uarts, CTransmit(u)
    PROVE  ConsoleInv'
<1> USE ConsoleAssumption
<1>1. UNCHANGED <<consoles, holder, prn, flush, rIdx, wIdx, slot, signals, rd, read>>
  BY DEF CTransmit, flushVars, ringVars, readerVars
<1>2. txq' \in [Uarts -> 0 .. Fifo]
  <2>1. txq \in [Uarts -> 0 .. Fifo] /\ txq[u] > 0 /\ txq' = [txq EXCEPT ![u] = txq[u] - 1]
    BY DEF CTransmit, ConsoleInv, ConsoleTypes, ConsoleType
  <2>2. txq[u] - 1 \in 0 .. Fifo
    BY <2>1
  <2> QED
    BY <2>1, <2>2
<1>3. ConsoleTypes' /\ ConsoleLists'
  <2>1. ConsoleTypes'
    BY <1>1, <1>2 DEF ConsoleInv, ConsoleTypes, ConsoleType
  <2>2. ConsoleLists'
    BY <1>1, <1>2 DEF ConsoleInv, ConsoleLists, MbufLast
  <2> QED
    BY <2>1, <2>2
<1>4. RingInv' /\ ReadInv' /\ NoLineMissed'
  BY <1>1 DEF ConsoleInv, RingInv, ReadInv, NoLineMissed, Unread, Published, Place
<1> QED
  BY <1>3, <1>4 DEF ConsoleInv

\* Console_mbuf::outc loads the indices.
LEMMA CMbufLoadSafe ==
    ASSUME ConsoleInv, CMbufLoad
    PROVE  ConsoleInv'
<1> USE ConsoleAssumption
<1> DEFINE full == (wIdx + 1) % Ring = rIdx
<1>0. /\ prn \in [chr : Nat, to : Seq(ConsoleSet),
                 step : {"idle", "outc", "discard", "store", "publish"}, r : 0 .. Ring - 1]
      /\ rIdx \in 0 .. Ring - 1
  BY DEF ConsoleInv, ConsoleTypes, ConsoleType
<1>1. /\ prn'.chr = prn.chr /\ prn'.to = prn.to /\ prn'.r = rIdx
      /\ prn'.step = (IF full THEN "discard" ELSE "store") /\ prn.step = "outc"
  BY <1>0 DEF CMbufLoad
<1>2. UNCHANGED <<consoles, holder, txq, flush, rIdx, wIdx, slot, signals, rd, read>>
  BY DEF CMbufLoad, flushVars, ringVars, readerVars
<1>3. prn' \in [chr : Nat, to : Seq(ConsoleSet),
               step : {"idle", "outc", "discard", "store", "publish"}, r : 0 .. Ring - 1]
  BY <1>0 DEF CMbufLoad
<1>4. ConsoleTypes'
  BY <1>2, <1>3 DEF ConsoleInv, ConsoleTypes, ConsoleType
<1>5. prn.to = <<Mbuf>>
  <2>1. MbufLast(prn.to) /\ Head(prn.to) = Mbuf
    BY <1>1 DEF ConsoleInv, ConsoleLists, CMbufLoad
  <2>2. ~(Len(prn.to) > 1) /\ Len(prn.to) \in Nat /\ Len(prn.to) >= 1
    <3>1. prn.to[1] = Mbuf /\ (prn.to[1] \in Uarts <=> Len(prn.to) > 1)
      BY <1>0, <2>1, MbufTail
    <3>2. Len(prn.to) \in Nat /\ Len(prn.to) >= 1
      BY <1>0, <2>1 DEF MbufLast
    <3> QED
      BY <3>1, <3>2
  <2>3. Len(prn.to) = 1
    <3>1. \A n \in Nat : ~(n > 1) /\ n >= 1 => n = 1
      OBVIOUS
    <3> QED
      BY <2>2, <3>1, Zenon
  <2> QED
    BY <1>0, <2>1, <2>3, MbufTail
<1>6. ConsoleLists'
  BY <1>1, <1>2, <1>5 DEF ConsoleInv, ConsoleLists
<1>7. Published' = Published
  BY <1>1 DEF Published
<1>8. RingInv'
  <2>1. ~full => Unread # Ring - 1
    BY RingFacts DEF ConsoleInv
  <2>2. ~full => Unread' # Ring - 1
    BY <1>2, <2>1 DEF Unread
  <2> QED
    BY <1>1, <1>2, <1>7, <2>2, RingStays DEF RingInv
<1>9. ReadInv' /\ NoLineMissed'
  BY <1>2, <1>7, RingStays DEF ConsoleInv, ReadInv, NoLineMissed, Unread
<1> QED
  BY <1>4, <1>6, <1>8, <1>9 DEF ConsoleInv

\* Console_mbuf::outc discards the oldest character of a full ring, unless the
\* reader has just taken it.
LEMMA CMbufDiscardSafe ==
    ASSUME ConsoleInv, CMbufDiscard
    PROVE  ConsoleInv'
<1> USE ConsoleAssumption
<1>0. /\ prn \in [chr : Nat, to : Seq(ConsoleSet),
                 step : {"idle", "outc", "discard", "store", "publish"}, r : 0 .. Ring - 1]
      /\ rIdx \in 0 .. Ring - 1 /\ ConsoleTypes
  BY DEF ConsoleInv, ConsoleTypes, ConsoleType
<1>1. /\ prn'.chr = prn.chr /\ prn'.to = prn.to /\ prn'.r = prn.r
      /\ prn'.step = "store" /\ prn.step = "discard"
  BY <1>0 DEF CMbufDiscard
<1>2. UNCHANGED <<consoles, holder, txq, flush, wIdx, slot, signals, rd, read>>
  BY DEF CMbufDiscard, flushVars, readerVars
<1>3. prn' \in [chr : Nat, to : Seq(ConsoleSet),
               step : {"idle", "outc", "discard", "store", "publish"}, r : 0 .. Ring - 1]
  BY <1>0 DEF CMbufDiscard
<1>4. prn.r = (wIdx + 1) % Ring
  BY <1>1 DEF ConsoleInv, RingInv
<1>5. /\ rIdx' \in 0 .. Ring - 1 /\ Unread' # Ring - 1 /\ Unread' <= Unread /\ Unread' \in Nat
      /\ rd.step = "take" => Unread' >= 1
      /\ \A k \in 1 .. Ring : Place(k)' = Place(k)
  <2>1. CASE rIdx = prn.r
    <3>1. Unread = Ring - 1 /\ rIdx' = (rIdx + 1) % Ring
      BY <1>0, <1>4, <2>1, RingFacts DEF CMbufDiscard
    <3>2. Unread' = Unread - 1 /\ \A k \in 1 .. Ring : Place(k)' = Place(k)
      BY <1>0, <1>2, <3>1, ReadMoves
    <3> QED
      BY <1>0, <3>1, <3>2, RingFacts
  <2>2. CASE rIdx # prn.r
    <3>1. rIdx' = rIdx /\ Unread' = Unread /\ \A k \in 1 .. Ring : Place(k)' = Place(k)
      BY <1>2, <2>2 DEF CMbufDiscard, Unread, Place
    <3>2. Unread # Ring - 1 /\ Unread \in 0 .. Ring - 1
      BY <1>0, <1>4, <2>2, RingFacts
    <3> QED
      BY <1>0, <3>1, <3>2 DEF ConsoleInv, ReadInv
  <2> QED
    BY <2>1, <2>2
<1>6. ConsoleTypes'
  BY <1>2, <1>3, <1>5 DEF ConsoleInv, ConsoleTypes, ConsoleType
<1>7. ConsoleLists'
  BY <1>1, <1>2 DEF ConsoleInv, ConsoleLists
<1>8. Published' = Published /\ Published \in Int
  <2>1. Published' = Published
    BY <1>1 DEF Published
  <2>2. prn.chr \in Int /\ prn.chr - 1 \in Int
    BY <1>0
  <2>3. Published \in {prn.chr, prn.chr - 1}
    BY Zenon DEF Published
  <2> QED
    BY <2>1, <2>2, <2>3
<1>9. Unread \in 0 .. Ring - 1
  BY <1>0, RingFacts
<1>10. \A k \in 1 .. Unread' : k \in 1 .. Unread /\ slot'[Place(k)'] = slot[Place(k)]
  BY <1>2, <1>5, <1>9
<1>11. RingInv'
  BY <1>1, <1>5, <1>8, <1>10 DEF ConsoleInv, RingInv
<1>12. ReadInv'
  <2>1. read \in Seq(Nat) /\ (Len(read) > 0 => read[Len(read)] \in Nat) /\ rd.c \in Nat
    <3>1. read \in Seq(Nat) /\ rd.c \in Nat
      BY <1>0 DEF ConsoleTypes
    <3>2. Len(read) > 0 => Len(read) \in 1 .. Len(read)
      BY <3>1
    <3> QED
      BY <3>1, <3>2
  <2>2. Published - Unread <= Published' - Unread'
    <3>1. \A p \in Int : \A a, b \in Nat : b <= a => p - a <= p - b
      OBVIOUS
    <3>2. Unread \in Nat
      BY <1>9
    <3> QED
      BY <1>5, <1>8, <3>1, <3>2
  <2>3. Len(read) > 0 => read[Len(read)] <= Published' - Unread'
    BY <1>5, <1>8, <1>9, <2>1, <2>2 DEF ConsoleInv, ReadInv
  <2>4. rd.step = "take" => rd.c <= Published' - Unread' + 1
    BY <1>5, <1>8, <1>9, <2>1, <2>2 DEF ConsoleInv, ReadInv
  <2> QED
    BY <1>2, <1>5, <2>3, <2>4 DEF ConsoleInv, ReadInv
<1>13. NoLineMissed'
  BY <1>2, <1>10 DEF ConsoleInv, NoLineMissed, Place
<1> QED
  BY <1>6, <1>7, <1>11, <1>12, <1>13 DEF ConsoleInv

\* Console_mbuf::outc stores the character in a slot that is not read.
LEMMA CMbufStoreSafe ==
    ASSUME ConsoleInv, CMbufStore
    PROVE  ConsoleInv'
<1> USE ConsoleAssumption
<1>0. /\ prn \in [chr : Nat, to : Seq(ConsoleSet),
                 step : {"idle", "outc", "discard", "store", "publish"}, r : 0 .. Ring - 1]
      /\ wIdx \in 0 .. Ring - 1 /\ ConsoleTypes /\ slot \in [0 .. Ring - 1 -> Nat]
  BY DEF ConsoleInv, ConsoleTypes, ConsoleType
<1>1. /\ prn'.chr = prn.chr /\ prn'.to = prn.to /\ prn'.r = prn.r
      /\ prn'.step = "publish" /\ prn.step = "store"
  BY <1>0 DEF CMbufStore
<1>2. UNCHANGED <<consoles, holder, txq, flush, rIdx, wIdx, signals, rd, read>>
  BY DEF CMbufStore, flushVars, readerVars
<1>3. prn' \in [chr : Nat, to : Seq(ConsoleSet),
               step : {"idle", "outc", "discard", "store", "publish"}, r : 0 .. Ring - 1]
  BY <1>0 DEF CMbufStore
<1>4. slot' = [slot EXCEPT ![wIdx] = prn.chr] /\ slot' \in [0 .. Ring - 1 -> Nat] /\ slot'[wIdx] = prn.chr
  BY <1>0 DEF CMbufStore
<1>5. ConsoleTypes'
  BY <1>2, <1>3, <1>4 DEF ConsoleInv, ConsoleTypes, ConsoleType
<1>6. ConsoleLists'
  BY <1>1, <1>2 DEF ConsoleInv, ConsoleLists
<1>7. Published' = Published /\ Unread' = Unread /\ \A k \in 1 .. Ring : Place(k)' = Place(k)
  BY <1>1, <1>2 DEF Published, Unread, Place
<1>8. \A k \in 1 .. Unread : k \in 1 .. Ring /\ slot'[Place(k)'] = slot[Place(k)]
  <2>1. Unread \in 0 .. Ring - 1
    BY <1>0, RingFacts
  <2>2. \A k \in 1 .. Unread : k \in 1 .. Ring - 1 /\ k \in 1 .. Ring
    BY <2>1
  <2>3. \A k \in 1 .. Unread : Place(k) \in 0 .. Ring - 1 /\ Place(k) # wIdx
    BY <1>0, <2>2, RingFacts
  <2> QED
    BY <1>0, <1>4, <1>7, <2>2, <2>3
<1>9. RingInv'
  BY <1>1, <1>2, <1>4, <1>7, <1>8 DEF ConsoleInv, RingInv
<1>10. ReadInv'
  BY <1>2, <1>7 DEF ConsoleInv, ReadInv
<1>11. NoLineMissed'
  BY <1>2, <1>7, <1>8 DEF ConsoleInv, NoLineMissed, Place
<1> QED
  BY <1>5, <1>6, <1>9, <1>10, <1>11 DEF ConsoleInv

\* Console_mbuf::outc publishes the character and signals the end of a line.
LEMMA CMbufPublishSafe ==
    ASSUME ConsoleInv, CMbufPublish
    PROVE  ConsoleInv'
<1> USE ConsoleAssumption
<1>0. /\ prn \in [chr : Nat, to : Seq(ConsoleSet),
                 step : {"idle", "outc", "discard", "store", "publish"}, r : 0 .. Ring - 1]
      /\ wIdx \in 0 .. Ring - 1 /\ ConsoleTypes /\ consoles \in Seq(ConsoleSet) /\ signals \in Nat
      /\ holder \in Writers \cup {NoWriter}
  BY DEF ConsoleInv, ConsoleTypes, ConsoleType
<1>1. prn.step = "publish" /\ prn.to = <<Mbuf>> /\ Unread # Ring - 1 /\ slot[wIdx] = prn.chr
  BY DEF ConsoleInv, ConsoleLists, RingInv, CMbufPublish
<1>2. UNCHANGED <<consoles, txq, flush, rIdx, slot, rd, read>>
  BY DEF CMbufPublish, flushVars, readerVars
<1>3. \/ /\ prn' = [prn EXCEPT !.to = <<>>, !.step = "idle"] /\ holder' = NoWriter
      \/ /\ prn' = [prn EXCEPT !.chr = prn.chr + 1, !.to = consoles, !.step = "outc"] /\ holder' = holder
  <2>1. ~(Len(prn.to) > 1)
    BY <1>1
  <2> QED
    BY <2>1 DEF CMbufPublish, Advance
<1>4. \/ prn'.chr = prn.chr /\ prn'.to = <<>> /\ prn'.step = "idle" /\ holder' = NoWriter /\ prn'.r = prn.r
      \/ prn'.chr = prn.chr + 1 /\ prn'.to = consoles /\ prn'.step = "outc" /\ holder' = holder /\ prn'.r = prn.r
  BY <1>0, <1>3
<1>5. prn' \in [chr : Nat, to : Seq(ConsoleSet),
               step : {"idle", "outc", "discard", "store", "publish"}, r : 0 .. Ring - 1]
  <2>1. prn.chr + 1 \in Nat /\ <<>> \in Seq(ConsoleSet)
    BY <1>0
  <2> QED
    BY <1>0, <1>3, <2>1
<1>6. wIdx' = (wIdx + 1) % Ring /\ wIdx' \in 0 .. Ring - 1
  BY <1>0, RingFacts DEF CMbufPublish
<1>7. signals' \in Nat /\ (IsEnd(prn.chr) => signals' # 0) /\ (signals' = 0 => signals = 0)
  BY <1>0 DEF CMbufPublish
<1>8. ConsoleTypes'
  BY <1>0, <1>2, <1>4, <1>5, <1>6, <1>7 DEF ConsoleInv, ConsoleTypes, ConsoleType
<1>9. holder # NoWriter /\ MbufLast(consoles) /\ consoles # <<>>
  BY <1>0, <1>1 DEF ConsoleInv, ConsoleLists, MbufLast
<1>10. ConsoleLists'
  <2>1. CASE prn'.to = <<>> /\ prn'.step = "idle" /\ holder' = NoWriter
    BY <1>2, <1>9, <2>1 DEF ConsoleInv, ConsoleLists
  <2>2. CASE prn'.to = consoles /\ prn'.step = "outc" /\ holder' = holder
    BY <1>2, <1>9, <2>2 DEF ConsoleInv, ConsoleLists
  <2> QED
    BY <1>4, <2>1, <2>2
<1>11. Published = prn.chr - 1 /\ Published' = prn.chr
  <2>1. Published = prn.chr - 1
    BY <1>0, <1>1, PublishedIs DEF ConsoleInv
  <2>2. CASE prn'.chr = prn.chr /\ prn'.to = <<>>
    BY <2>1, <2>2 DEF Published
  <2>3. CASE prn'.chr = prn.chr + 1 /\ prn'.to = consoles
    <3>1. Mbuf \in {consoles[i] : i \in 1 .. Len(consoles)}
      BY <1>0, <1>9, HasMbuf
    <3>2. Published' = (prn.chr + 1) - 1
      BY <1>2, <2>3, <3>1 DEF Published
    <3> QED
      BY <1>0, <2>1, <3>2
  <2> QED
    BY <1>4, <2>2, <2>3
<1>12. /\ Unread' = Unread + 1 /\ Unread \in 0 .. Ring - 1 /\ Place(1)' = wIdx
       /\ \A k \in 2 .. Ring : Place(k)' = Place(k - 1)
  BY <1>0, <1>1, <1>2, <1>6, WriteMoves, RingFacts
<1>13. ASSUME NEW k \in 1 .. Unread'
       PROVE  \/ k = 1 /\ slot'[Place(k)'] = prn.chr
              \/ k - 1 \in 1 .. Unread /\ slot'[Place(k)'] = slot[Place(k - 1)]
  <2>1. k = 1 \/ (k \in 2 .. Ring /\ k - 1 \in 1 .. Unread)
    BY <1>12
  <2> QED
    BY <1>1, <1>2, <1>12, <2>1
<1>14. RingInv'
  <2>1. ASSUME NEW k \in 1 .. Unread' PROVE slot'[Place(k)'] = Published' - k + 1
    <3>1. CASE k = 1 /\ slot'[Place(k)'] = prn.chr
      BY <1>0, <1>11, <3>1
    <3>2. CASE k - 1 \in 1 .. Unread /\ slot'[Place(k)'] = slot[Place(k - 1)]
      <4>1. slot[Place(k - 1)] = Published - (k - 1) + 1
        BY <3>2 DEF ConsoleInv, RingInv
      <4> QED
        BY <1>0, <1>11, <1>12, <3>2, <4>1
    <3> QED
      BY <1>13, <3>1, <3>2
  <2> QED
    BY <1>4, <2>1 DEF RingInv
<1>15. ReadInv'
  <2>1. Published' - Unread' = Published - Unread /\ Unread' >= 1
    BY <1>0, <1>11, <1>12
  <2> QED
    BY <1>2, <2>1 DEF ConsoleInv, ReadInv
<1>16. NoLineMissed'
  <2> SUFFICES ASSUME rd'.step = "wait", signals' = 0, NEW k \in 1 .. Unread'
               PROVE  ~IsEnd(slot'[Place(k)'])
    BY DEF NoLineMissed, Place
  <2>1. ~IsEnd(prn.chr) /\ signals = 0
    BY <1>7
  <2>2. \A j \in 1 .. Unread : ~IsEnd(slot[Place(j)])
    BY <1>2, <2>1 DEF ConsoleInv, NoLineMissed, Place
  <2> QED
    BY <1>13, <2>1, <2>2
<1> QED
  BY <1>8, <1>10, <1>14, <1>15, <1>16 DEF ConsoleInv

\* The reader wakes up, or finds a character or the ring empty.
LEMMA RWakeSafe ==
    ASSUME ConsoleInv, RWake
    PROVE  ConsoleInv'
<1>1. UNCHANGED <<consoles, holder, prn, txq, flush, rIdx, wIdx, slot, read>>
  BY DEF RWake, flushVars
<1>2. /\ rd' \in [step : {"wait", "load", "take"}, r : 0 .. Ring - 1, c : Nat]
      /\ rd'.step = "load" /\ signals' \in Nat
  <2>1. /\ rd \in [step : {"wait", "load", "take"}, r : 0 .. Ring - 1, c : Nat] /\ signals \in Nat
        /\ signals > 0 /\ signals' = signals - 1 /\ rd' = [rd EXCEPT !.step = "load"]
    BY DEF RWake, ConsoleInv, ConsoleTypes
  <2>2. signals' \in Nat
    BY <2>1
  <2> QED
    BY <2>1, <2>2
<1>3. ConsoleTypes' /\ ConsoleLists'
  <2>1. ConsoleTypes'
    BY <1>1, <1>2 DEF ConsoleInv, ConsoleTypes, ConsoleType
  <2>2. ConsoleLists'
    BY <1>1 DEF ConsoleInv, ConsoleLists
  <2> QED
    BY <2>1, <2>2
<1>4. RingInv' /\ ReadInv' /\ NoLineMissed'
  BY <1>1, <1>2 DEF ConsoleInv, RingInv, ReadInv, NoLineMissed, Unread, Published, Place
<1> QED
  BY <1>3, <1>4 DEF ConsoleInv

LEMMA RLoadSafe ==
    ASSUME ConsoleInv, RLoad
    PROVE  ConsoleInv'
<1> USE ConsoleAssumption
<1>1. UNCHANGED <<consoles, holder, prn, txq, flush, rIdx, wIdx, slot, signals, read>>
  BY DEF RLoad, flushVars, ringVars
<1>2. ConsoleTypes /\ Unread \in 0 .. Ring - 1
  BY RingFacts DEF ConsoleInv
<1>3. Unread' = Unread /\ Published' = Published /\ (\A k \in 1 .. Ring : Place(k)' = Place(k))
  BY <1>1 DEF Unread, Published, Place
<1>4. /\ rd \in [step : {"wait", "load", "take"}, r : 0 .. Ring - 1, c : Nat]
      /\ rIdx \in 0 .. Ring - 1 /\ slot[rIdx] \in Nat
  BY <1>2 DEF ConsoleTypes, ConsoleType
<1>5. rd' \in [step : {"wait", "load", "take"}, r : 0 .. Ring - 1, c : Nat]
  BY <1>4 DEF RLoad
<1>6. ConsoleTypes' /\ ConsoleLists' /\ RingInv'
  <2>1. ConsoleTypes' /\ ConsoleLists'
    BY <1>1, <1>5 DEF ConsoleInv, ConsoleTypes, ConsoleType, ConsoleLists
  <2>2. RingInv'
    BY <1>1 DEF ConsoleInv, RingInv, Unread, Published, Place
  <2> QED
    BY <2>1, <2>2
<1>7. CASE rIdx = wIdx
  <2>1. rd'.step = "wait" /\ Unread' = 0
    BY <1>2, <1>3, <1>4, <1>7, RingFacts DEF RLoad
  <2>2. ReadInv'
    BY <1>1, <1>3, <2>1 DEF ConsoleInv, ReadInv
  <2>3. NoLineMissed'
    BY <2>1 DEF NoLineMissed
  <2> QED
    BY <1>6, <2>2, <2>3 DEF ConsoleInv
<1>8. CASE rIdx # wIdx
  <2>1. rd'.step = "take" /\ rd'.c = slot[rIdx]
    BY <1>8 DEF RLoad
  <2>2. Unread >= 1 /\ Place(Unread) = rIdx /\ Unread \in 1 .. Unread
    BY <1>2, <1>8, RingFacts
  <2>3. slot[rIdx] = Published - Unread + 1
    BY <2>2 DEF ConsoleInv, RingInv
  <2>4. Published \in Int
    <3>1. prn.chr \in Nat
      BY <1>2 DEF ConsoleTypes
    <3> QED
      BY <3>1 DEF Published
  <2>5. Len(read) > 0 => read[Len(read)] <= Published - Unread /\ read[Len(read)] \in Nat
    <3>1. read \in Seq(Nat)
      BY <1>2 DEF ConsoleTypes
    <3>2. Len(read) > 0 => Len(read) \in 1 .. Len(read)
      BY <3>1
    <3>3. Len(read) > 0 => read[Len(read)] \in Nat
      BY <3>1, <3>2
    <3> QED
      BY <3>3 DEF ConsoleInv, ReadInv
  <2>6. rd'.c <= Published - Unread + 1 /\ (Len(read) > 0 => read[Len(read)] < rd'.c)
    BY <1>2, <1>4, <2>1, <2>3, <2>4, <2>5
  <2>7. ReadInv'
    BY <1>1, <1>3, <2>2, <2>6 DEF ConsoleInv, ReadInv
  <2>8. NoLineMissed'
    BY <2>1 DEF NoLineMissed
  <2> QED
    BY <1>6, <2>7, <2>8 DEF ConsoleInv
<1> QED
  BY <1>7, <1>8

\* The reader takes its character if r_idx is what it has loaded.
LEMMA RTakeSafe ==
    ASSUME ConsoleInv, RTake
    PROVE  ConsoleInv'
<1> USE ConsoleAssumption
<1>1. UNCHANGED <<consoles, holder, prn, txq, flush, wIdx, slot, signals>>
  BY DEF RTake, flushVars
<1>2. ConsoleTypes /\ Unread \in 0 .. Ring - 1 /\ Unread >= 1
  BY RingFacts DEF ConsoleInv, ReadInv, RTake
<1>3. Published' = Published /\ Published \in Int
  <2>1. Published' = Published
    BY <1>1 DEF Published
  <2>2. prn.chr \in Nat
    BY <1>2 DEF ConsoleTypes
  <2> QED
    BY <2>1, <2>2 DEF Published
<1>4. /\ rd \in [step : {"wait", "load", "take"}, r : 0 .. Ring - 1, c : Nat] /\ rd.c \in Nat
      /\ rIdx \in 0 .. Ring - 1 /\ read \in Seq(Nat) /\ Len(read) \in Nat
  BY <1>2 DEF ConsoleTypes, ConsoleType
<1>5. rd' \in [step : {"wait", "load", "take"}, r : 0 .. Ring - 1, c : Nat] /\ rd'.step = "load"
  BY <1>4 DEF RTake
<1>6. ConsoleLists'
  BY <1>1 DEF ConsoleInv, ConsoleLists
<1>7. CASE rIdx = rd.r
  <2>1. rIdx' = (rIdx + 1) % Ring /\ read' = Append(read, rd.c)
    BY <1>7 DEF RTake
  <2>2. Unread' = Unread - 1 /\ \A k \in 1 .. Ring : Place(k)' = Place(k)
    BY <1>1, <1>2, <2>1, ReadMoves
  <2>3. rIdx' \in 0 .. Ring - 1
    BY <1>2, <2>1, RingFacts
  <2>4. /\ read' \in Seq(Nat) /\ Len(read') = Len(read) + 1 /\ read'[Len(read) + 1] = rd.c
        /\ \A i \in 1 .. Len(read) : read'[i] = read[i]
    BY <1>4, <2>1
  <2>5. ConsoleTypes'
    BY <1>1, <1>5, <2>3, <2>4 DEF ConsoleInv, ConsoleTypes, ConsoleType
  <2>6. \A k \in 1 .. Unread' : k \in 1 .. Unread /\ slot'[Place(k)'] = slot[Place(k)]
    BY <1>1, <1>2, <2>2
  <2>7. RingInv'
    <3>1. prn.step \in {"store", "publish"} => Unread' # Ring - 1
      BY <1>2, <2>2
    <3> QED
      BY <1>1, <1>3, <2>6, <3>1 DEF ConsoleInv, RingInv
  <2>8. ReadInv'
    <3>1. rd.c <= Published - Unread + 1 /\ (Len(read) > 0 => read[Len(read)] < rd.c)
      BY DEF ConsoleInv, ReadInv, RTake
    <3>2. read'[Len(read')] <= Published' - Unread'
      BY <1>2, <1>3, <1>4, <2>2, <2>4, <3>1
    <3>3. ASSUME NEW i \in 2 .. Len(read') PROVE read'[i - 1] < read'[i]
      <4>1. CASE i \in 2 .. Len(read)
        <5>1. i - 1 \in 1 .. Len(read) /\ i \in 1 .. Len(read)
          BY <1>4, <4>1
        <5> QED
          BY <2>4, <4>1, <5>1 DEF ConsoleInv, ReadInv
      <4>2. CASE i = Len(read) + 1
        <5>1. i - 1 = Len(read) /\ Len(read) > 0 /\ i - 1 \in 1 .. Len(read)
          BY <1>4, <4>2
        <5> QED
          BY <2>4, <3>1, <4>2, <5>1
      <4> QED
        BY <1>4, <2>4, <4>1, <4>2
    <3> QED
      BY <1>5, <3>2, <3>3 DEF ReadInv
  <2>9. NoLineMissed'
    BY <1>5 DEF NoLineMissed
  <2> QED
    BY <1>6, <2>5, <2>7, <2>8, <2>9 DEF ConsoleInv
<1>8. CASE rIdx # rd.r
  <2>1. UNCHANGED <<rIdx, read>>
    BY <1>8 DEF RTake
  <2>2. ConsoleTypes'
    BY <1>1, <1>5, <2>1 DEF ConsoleInv, ConsoleTypes, ConsoleType
  <2>3. RingInv' /\ ReadInv' /\ NoLineMissed'
    BY <1>1, <1>5, <2>1 DEF ConsoleInv, RingInv, ReadInv, NoLineMissed, Unread, Published, Place
  <2> QED
    BY <1>6, <2>2, <2>3 DEF ConsoleInv
<1> QED
  BY <1>7, <1>8

\* Console::flush starts its walk.
LEMMA CFlushSafe ==
    ASSUME ConsoleInv, CFlush
    PROVE  ConsoleInv'
<1> DEFINE T == ConsoleSet \cup FlushTags
<1>1. UNCHANGED <<consoles, holder, prn, txq, rIdx, wIdx, slot, signals, rd, read>>
  BY DEF CFlush, ringVars, readerVars
<1>2. consoles \in Seq(T) /\ <<"walk">> \in Seq(T)
  BY DEF ConsoleInv, ConsoleTypes, FlushTags
<1>3. flush' = <<"walk">> \o consoles
  BY DEF CFlush
<1>4. /\ flush' \in Seq(T) /\ Len(flush') = Len(consoles) + 1 /\ flush'[1] = "walk" /\ Len(flush') >= 1
      /\ \A i \in 1 .. Len(consoles) : flush'[i + 1] = consoles[i]
  <2> HIDE DEF T
  <2>1. Len(<<"walk">>) = 1 /\ <<"walk">>[1] = "walk" /\ Len(consoles) \in Nat
    BY <1>2
  <2>2. /\ flush' \in Seq(T) /\ Len(flush') = 1 + Len(consoles)
        /\ \A i \in 1 .. 1 + Len(consoles) : flush'[i] = IF i <= 1 THEN <<"walk">>[i] ELSE consoles[i - 1]
    BY <1>2, <1>3, <2>1
  <2> QED
    BY <2>1, <2>2
<1>6. ConsoleTypes'
  BY <1>1, <1>4 DEF ConsoleInv, ConsoleTypes, ConsoleType, FlushTags
<1>7. ConsoleLists'
  BY <1>1, <1>4 DEF ConsoleInv, ConsoleLists
<1>8. RingInv' /\ ReadInv' /\ NoLineMissed'
  BY <1>1 DEF ConsoleInv, RingInv, ReadInv, NoLineMissed, Unread, Published, Place
<1> QED
  BY <1>6, <1>7, <1>8 DEF ConsoleInv

\* Console::disable of the first console.
LEMMA DisableFirst ==
    ASSUME NEW q \in Seq(ConsoleSet), q # <<>>
    PROVE  Disable(q, q[1]) = Tail(q)
<1> DEFINE I == {i \in 1 .. Len(q) : q[i] = q[1]}
<1>1. Len(q) \in Nat /\ 1 \in 1 .. Len(q)
  OBVIOUS
<1>2. 1 \in I /\ \A i \in I : 1 <= i
  BY <1>1
<1>3. Min(I) = 1
  <2>1. \A m \in I : (\A i \in I : m <= i) => m = 1
    BY <1>1, <1>2
  <2> QED
    BY <1>2, <2>1 DEF Min
<1>4. SelectInSeq(q, LAMBDA v : v = q[1]) = 1
  BY <1>2, <1>3 DEF SelectInSeq
<1>5. RemoveFirst(q, q[1]) = RemoveAt(q, 1)
  BY <1>1, <1>4 DEF RemoveFirst
<1>6. RemoveAt(q, 1) = SubSeq(q, 1, 0) \o SubSeq(q, 2, Len(q))
  BY DEF RemoveAt
<1>7. SubSeq(q, 1, 0) = <<>> /\ SubSeq(q, 2, Len(q)) = Tail(q)
  BY <1>1
<1>8. <<>> \o Tail(q) = Tail(q)
  BY <1>1
<1> QED
  BY <1>5, <1>6, <1>7, <1>8 DEF Disable

\* Console::flush has waited for a UART, or finds the memory buffer.
LEMMA CFlushFiniSafe ==
    ASSUME ConsoleInv, CFlushFini
    PROVE  ConsoleInv'
<1> USE ConsoleAssumption
<1> DEFINE T == ConsoleSet \cup FlushTags
<1>1. UNCHANGED <<consoles, holder, prn, txq, rIdx, wIdx, slot, signals, rd, read>>
  BY DEF CFlushFini, ringVars, readerVars
<1>2. consoles \in Seq(ConsoleSet) /\ MbufLast(consoles) /\ flush \in Seq(T) /\ Len(flush) \in Nat
  BY DEF ConsoleInv, ConsoleTypes, ConsoleLists
<1>3. /\ Len(flush) = Len(consoles) + 1
      /\ \A i \in 1 .. Len(consoles) : flush[i + 1] = consoles[i]
  BY DEF ConsoleInv, ConsoleLists, CFlushFini
<1>4. 1 \in 1 .. Len(consoles) /\ flush[2] = consoles[1]
  <2>1. 1 \in 1 .. Len(consoles)
    BY <1>2, MbufTail
  <2>2. flush[1 + 1] = consoles[1]
    BY <1>3, <2>1
  <2> QED
    BY <2>1, <2>2
<1>5. RingInv' /\ ReadInv' /\ NoLineMissed'
  BY <1>1 DEF ConsoleInv, RingInv, ReadInv, NoLineMissed, Unread, Published, Place
<1>6. CASE flush[2] = Mbuf /\ flush' = <<"done">>
  <2>1. ~(Len(consoles) > 1)
    BY <1>2, <1>4, <1>6, MbufTail
  <2>2. Len(consoles) \in Nat /\ Len(consoles) >= 1
    BY <1>2 DEF MbufLast
  <2>3. Len(consoles) = 1
    <3>1. \A n \in Nat : ~(n > 1) /\ n >= 1 => n = 1
      OBVIOUS
    <3> QED
      BY <2>1, <2>2, <3>1, Zenon
  <2>4. consoles = <<Mbuf>>
    BY <1>2, <2>3, MbufTail
  <2>5. flush' \in Seq(T) /\ Len(flush') >= 1 /\ flush'[1] = "done"
    BY <1>6 DEF FlushTags
  <2>6. ConsoleTypes'
    BY <1>1, <2>5 DEF ConsoleInv, ConsoleTypes, ConsoleType, FlushTags
  <2>7. ConsoleLists'
    BY <1>1, <2>4, <2>5 DEF ConsoleInv, ConsoleLists
  <2> QED
    BY <1>5, <2>6, <2>7 DEF ConsoleInv
<1>7. CASE flush[2] \in Uarts /\ flush' = [flush EXCEPT ![1] = "off"]
  <2>1. 1 \in 1 .. Len(flush) /\ "off" \in T
    BY <1>2, <1>3, <1>4 DEF FlushTags
  <2>2. /\ flush' \in Seq(T) /\ Len(flush') = Len(flush) /\ flush'[1] = "off"
        /\ \A i \in 1 .. Len(flush) : i # 1 => flush'[i] = flush[i]
    <3> HIDE DEF T
    <3> QED
      BY <1>2, <1>7, <2>1
  <2>3. ASSUME NEW i \in 1 .. Len(consoles) PROVE flush'[i + 1] = consoles[i]
    <3>1. i + 1 \in 1 .. Len(flush) /\ i + 1 # 1
      BY <1>2, <1>3
    <3> QED
      BY <1>3, <2>2, <3>1
  <2>4. flush'[2] = flush[2]
    <3>1. 2 \in 1 .. Len(flush) /\ 2 # 1
      BY <1>2, <1>3, <1>4
    <3> QED
      BY <2>2, <3>1
  <2>5. ConsoleTypes'
    BY <1>1, <2>2 DEF ConsoleInv, ConsoleTypes, ConsoleType, FlushTags
  <2>6. ConsoleLists'
    BY <1>1, <1>3, <1>7, <2>2, <2>3, <2>4 DEF ConsoleInv, ConsoleLists
  <2> QED
    BY <1>5, <2>5, <2>6 DEF ConsoleInv
<1> QED
  BY <1>6, <1>7 DEF CFlushFini

\* What Console::disable leaves of the lists of consoles and flush.
LEMMA FlushNext ==
    ASSUME ConsoleInv, CFlushDisable
    PROVE  /\ consoles' = Tail(consoles) /\ consoles' \in Seq(ConsoleSet)
           /\ Len(consoles') = Len(consoles) - 1 /\ MbufLast(consoles')
           /\ \A i \in 1 .. Len(consoles) - 1 : consoles'[i] = consoles[i + 1] /\ i + 1 \in 1 .. Len(consoles)
           /\ 1 \in 1 .. Len(consoles) /\ flush[2] = consoles[1] /\ flush[2] \in Uarts
<1> USE ConsoleAssumption
<1>1. consoles \in Seq(ConsoleSet) /\ MbufLast(consoles) /\ flush[2] \in Uarts
  BY DEF ConsoleInv, ConsoleTypes, ConsoleLists, CFlushDisable
<1>2. 1 \in 1 .. Len(consoles) /\ consoles # <<>>
  BY <1>1, MbufTail
<1>3. flush[1 + 1] = consoles[1]
  BY <1>2 DEF ConsoleInv, ConsoleLists, CFlushDisable
<1>4. flush[2] = consoles[1] /\ Len(consoles) > 1
  BY <1>1, <1>3, MbufTail
<1>5. consoles' = Tail(consoles)
  BY <1>1, <1>2, <1>4, DisableFirst DEF CFlushDisable
<1> QED
  BY <1>1, <1>2, <1>4, <1>5, MbufTail

\* Console::flush takes the UART it has waited for off the list.
LEMMA CFlushDisableSafe ==
    ASSUME ConsoleInv, CFlushDisable
    PROVE  ConsoleInv'
<1> USE ConsoleAssumption
<1> DEFINE T == ConsoleSet \cup FlushTags
<1> DEFINE rest == SubSeq(flush, 3, Len(flush))
<1>1. UNCHANGED <<holder, prn, txq, rIdx, wIdx, slot, signals, rd, read>>
  BY DEF CFlushDisable, ringVars, readerVars
<1>2. consoles \in Seq(ConsoleSet) /\ Len(consoles) \in Nat /\ flush \in Seq(T) /\ Len(flush) \in Nat
  BY DEF ConsoleInv, ConsoleTypes
<1>3. /\ Len(flush) = Len(consoles) + 1
      /\ \A i \in 1 .. Len(consoles) : flush[i + 1] = consoles[i]
  BY DEF ConsoleInv, ConsoleLists, CFlushDisable
<1>4. RingInv' /\ ReadInv' /\ NoLineMissed'
  BY <1>1 DEF ConsoleInv, RingInv, ReadInv, NoLineMissed, Unread, Published, Place
<1>5. Len(flush) > 2
  BY <1>2, <1>3, FlushNext DEF MbufLast
<1>6. /\ flush' \in Seq(T) /\ flush'[1] = "walk" /\ Len(flush') = Len(flush) - 1
      /\ \A i \in 2 .. Len(flush) - 1 : flush'[i] = flush[i + 1]
  <2>1. /\ rest \in Seq(T) /\ Len(rest) = Len(flush) - 2
        /\ \A i \in 1 .. Len(flush) - 2 : rest[i] = flush[i + 2]
    BY <1>2, <1>5
  <2>2. flush' = <<"walk">> \o rest
    BY DEF CFlushDisable
  <2>3. "walk" \in T
    BY DEF FlushTags
  <2> HIDE DEF T, rest
  <2>4. Len(<<"walk">>) = 1 /\ <<"walk">>[1] = "walk" /\ <<"walk">> \in Seq(T)
    BY <2>3
  <2>5. /\ flush' \in Seq(T) /\ Len(flush') = 1 + Len(rest)
        /\ \A i \in 1 .. 1 + Len(rest) : flush'[i] = IF i <= 1 THEN <<"walk">>[i] ELSE rest[i - 1]
    BY <2>1, <2>2, <2>4
  <2>6. flush'[1] = "walk" /\ Len(flush') = Len(flush) - 1
    BY <1>2, <1>5, <2>1, <2>4, <2>5
  <2>7. ASSUME NEW i \in 2 .. Len(flush) - 1 PROVE flush'[i] = flush[i + 1]
    <3>1. flush'[i] = rest[i - 1]
      BY <1>2, <1>5, <2>1, <2>5
    <3>2. i - 1 \in 1 .. Len(flush) - 2 /\ (i - 1) + 2 = i + 1
      BY <1>2, <1>5
    <3> QED
      BY <2>1, <3>1, <3>2
  <2> QED
    BY <2>5, <2>6, <2>7
<1>7. ConsoleTypes'
  <2>1. Len(flush') >= 1
    BY <1>2, <1>5, <1>6
  <2> QED
    BY <1>1, <1>6, <2>1, FlushNext DEF ConsoleInv, ConsoleTypes, ConsoleType, FlushTags
<1>8. Len(flush') = Len(consoles') + 1 /\ \A i \in 1 .. Len(consoles') : flush'[i + 1] = consoles'[i]
  <2>1. Len(flush') = Len(consoles') + 1
    BY <1>2, <1>3, <1>6, FlushNext
  <2>2. ASSUME NEW i \in 1 .. Len(consoles') PROVE flush'[i + 1] = consoles'[i]
    <3>1. i \in 1 .. Len(consoles) - 1 /\ i + 1 \in 2 .. Len(flush) - 1 /\ i + 1 \in 1 .. Len(consoles)
      BY <1>2, <1>3, FlushNext
    <3>2. flush'[i + 1] = flush[(i + 1) + 1] /\ flush[(i + 1) + 1] = consoles[i + 1]
      BY <1>3, <1>6, <3>1
    <3> QED
      BY <3>1, <3>2, FlushNext
  <2> QED
    BY <2>1, <2>2
<1>9. ConsoleLists'
  BY <1>1, <1>6, <1>8, FlushNext DEF ConsoleInv, ConsoleLists
<1> QED
  BY <1>4, <1>7, <1>9 DEF ConsoleInv

\* The consoles as their constructors enabled them.
LEMMA ConsoleInitInv ==
    ASSUME ConsoleInit
    PROVE  ConsoleInv
<1> USE ConsoleAssumption
<1>1. UartSeq \in [1 .. Cardinality(Uarts) -> Uarts] /\ Cardinality(Uarts) \in Nat
  <2>1. Cardinality(Uarts) \in Nat /\ ExistsBijection(1 .. Cardinality(Uarts), Uarts)
    BY FS_CardinalityType
  <2>2. \E f \in [1 .. Cardinality(Uarts) -> Uarts] : IsInjective(f)
    BY <2>1 DEF ExistsBijection, Bijection, Injection
  <2> QED
    BY <2>1, <2>2 DEF UartSeq, SetToSeq
<1>2. UartSeq \in Seq(ConsoleSet) /\ \A i \in 1 .. Len(UartSeq) : UartSeq[i] \in Uarts
  BY <1>1 DEF ConsoleSet
<1>3. consoles = Append(UartSeq, Mbuf) /\ Mbuf \in ConsoleSet
  BY DEF ConsoleInit, Enable, ConsoleSet
<1>4. /\ consoles \in Seq(ConsoleSet) /\ Len(consoles) = Len(UartSeq) + 1
      /\ consoles[Len(UartSeq) + 1] = Mbuf /\ \A i \in 1 .. Len(UartSeq) : consoles[i] = UartSeq[i]
  BY <1>2, <1>3
<1>5. MbufLast(consoles)
  BY <1>2, <1>4 DEF MbufLast
<1>6. /\ prn.chr = 0 /\ prn.to = <<>> /\ prn.step = "idle" /\ prn.r = 0
      /\ rd.step = "wait" /\ flush = <<"no">> /\ flush[1] = "no" /\ read = <<>> /\ Len(read) = 0
  BY DEF ConsoleInit
<1>7. ConsoleTypes
  <2>1. prn \in [chr : Nat, to : Seq(ConsoleSet),
                step : {"idle", "outc", "discard", "store", "publish"}, r : 0 .. Ring - 1]
    BY DEF ConsoleInit
  <2>2. rd \in [step : {"wait", "load", "take"}, r : 0 .. Ring - 1, c : Nat]
    BY DEF ConsoleInit
  <2>3. flush \in Seq(ConsoleSet \cup FlushTags) /\ Len(flush) >= 1 /\ read \in Seq(Nat)
    BY <1>6 DEF FlushTags
  <2>4. ConsoleType /\ slot \in [0 .. Ring - 1 -> Nat] /\ signals \in Nat
    BY DEF ConsoleInit, ConsoleType
  <2> QED
    BY <1>4, <1>6, <2>1, <2>2, <2>3, <2>4 DEF ConsoleTypes, FlushTags
<1>8. ConsoleLists
  BY <1>5, <1>6 DEF ConsoleInit, ConsoleLists
<1>9. Unread = 0
  BY <1>7, RingFacts DEF ConsoleInit
<1>10. RingInv /\ ReadInv /\ NoLineMissed
  BY <1>6, <1>9 DEF RingInv, ReadInv, NoLineMissed
<1> QED
  BY <1>7, <1>8, <1>10 DEF ConsoleInv

\* Every step keeps ConsoleInv.
LEMMA ConsoleStepSafe ==
    ASSUME ConsoleInv, [ConsoleNext]_consoleVars
    PROVE  ConsoleInv'
<1>1. CASE UNCHANGED consoleVars
  <2>1. ConsoleTypes' /\ ConsoleLists'
    BY <1>1 DEF consoleVars, ConsoleInv, ConsoleTypes, ConsoleType, ConsoleLists
  <2>2. RingInv' /\ ReadInv' /\ NoLineMissed'
    BY <1>1 DEF consoleVars, ConsoleInv, RingInv, ReadInv, NoLineMissed, Unread, Published, Place
  <2> QED
    BY <2>1, <2>2 DEF ConsoleInv
<1> QED
  BY <1>1, CPrintSafe, CUartSafe, CMbufLoadSafe, CMbufDiscardSafe, CMbufStoreSafe, CMbufPublishSafe,
     CTransmitSafe, RWakeSafe, RLoadSafe, RTakeSafe, CFlushSafe, CFlushFiniSafe, CFlushDisableSafe DEF ConsoleNext

(***************************************************************************)
(* The UARTs that flush hands over.  A character goes through the list as  *)
(* it was when the character was begun, so a UART that has left the list   *)
(* since then may get that one and no other.                               *)
(***************************************************************************)
Distinct(q) == \A i, j \in 1 .. Len(q) : q[i] = q[j] => i = j

Pending(u) == \E i \in 1 .. Len(prn.to) : prn.to[i] = u

HandInv ==
    /\ sent \in [Uarts -> Nat] /\ overlap \in BOOLEAN
    /\ Distinct(consoles) /\ Distinct(prn.to)
    /\ \A u \in Uarts : sent[u] <= 1 /\ (Listed(u) \/ Pending(u) => sent[u] = 0)
    /\ flush[1] = "no" => ~overlap
    /\ ~overlap => /\ flush[1] \in {"walk", "off"} => prn.step = "idle"
                   /\ flush[1] = "off" => txq[flush[2]] = 0
                   /\ \A u \in Uarts : ~Listed(u) => ~Pending(u) /\ sent[u] = 0 /\ txq[u] = 0

\* Steps that do not concern the lists; a transmitter may become idle.
LEMMA HandSame ==
    ASSUME ConsoleInv, HandInv, UNCHANGED <<consoles, flush, sent, overlap>>, prn'.to = prn.to,
           prn.step = "idle" <=> prn'.step = "idle", \A u \in Uarts : txq[u] = 0 => txq'[u] = 0
    PROVE  HandInv'
<1>1. flush[1] = "off" => flush[2] \in Uarts
  BY DEF ConsoleInv, ConsoleLists
<1> QED
  BY <1>1 DEF HandInv, Distinct, Listed, Pending

\* Console::print and Console_mbuf::outc: a character begins on the list as it is,
\* or the line is over.
LEMMA HandList ==
    ASSUME ConsoleInv, HandInv, UNCHANGED <<consoles, flush, sent, txq>>,
           overlap' \in BOOLEAN, overlap => overlap', flush[1] = "no" => ~overlap',
           ~overlap' /\ flush[1] \in {"walk", "off"} => prn'.step = "idle",
           prn'.to = consoles \/ prn'.to = <<>>
    PROVE  HandInv'
<1>1. CASE prn'.to = consoles
  <2>1. \A u : Pending(u)' <=> Listed(u)
    BY <1>1 DEF Pending, Listed
  <2>2. \A u : Listed(u)' <=> Listed(u)
    BY DEF Listed
  <2>3. Distinct(consoles)' /\ Distinct(prn.to)'
    BY <1>1 DEF HandInv, Distinct
  <2> QED
    BY <2>1, <2>2, <2>3 DEF HandInv
<1>2. CASE prn'.to = <<>>
  <2>1. \A u : ~Pending(u)'
    BY <1>2 DEF Pending
  <2>2. \A u : Listed(u)' <=> Listed(u)
    BY DEF Listed
  <2>3. Distinct(consoles)' /\ Distinct(prn.to)'
    BY <1>2 DEF HandInv, Distinct
  <2> QED
    BY <2>1, <2>2, <2>3 DEF HandInv
<1> QED
  BY <1>1, <1>2

\* Console_uart::outc.
LEMMA CUartHand ==
    ASSUME ConsoleInv, HandInv, CUart
    PROVE  HandInv'
<1> USE ConsoleAssumption
<1> DEFINE v == Head(prn.to)
<1>0. prn \in [chr : Nat, to : Seq(ConsoleSet),
               step : {"idle", "outc", "discard", "store", "publish"}, r : 0 .. Ring - 1]
  BY DEF ConsoleInv, ConsoleTypes
<1>1. prn.step = "outc" /\ MbufLast(prn.to) /\ v \in Uarts
  BY DEF ConsoleInv, ConsoleLists, CUart
<1>2. /\ v = prn.to[1] /\ Len(prn.to) > 1 /\ 1 \in 1 .. Len(prn.to)
      /\ Len(Tail(prn.to)) = Len(prn.to) - 1
      /\ \A i \in 1 .. Len(prn.to) - 1 : Tail(prn.to)[i] = prn.to[i + 1] /\ i + 1 \in 1 .. Len(prn.to)
  BY <1>0, <1>1, MbufTail
<1>3. prn'.to = Tail(prn.to) /\ prn'.step = "outc" /\ UNCHANGED <<consoles, flush, overlap>>
  BY <1>0, <1>2 DEF CUart, Advance
<1>4. Len(prn.to) \in Nat
  BY <1>0
<1>5. Distinct(prn.to)'
  <2> SUFFICES ASSUME NEW i \in 1 .. Len(prn.to) - 1, NEW j \in 1 .. Len(prn.to) - 1,
                      Tail(prn.to)[i] = Tail(prn.to)[j]
               PROVE  i = j
    BY <1>2, <1>3 DEF Distinct
  <2>1. i + 1 = j + 1
    BY <1>2 DEF HandInv, Distinct
  <2> QED
    BY <1>4, <2>1
<1>6. \A u : Pending(u)' => Pending(u) /\ u # v
  <2> SUFFICES ASSUME NEW i \in 1 .. Len(prn.to) - 1
               PROVE  /\ \E k \in 1 .. Len(prn.to) : prn.to[k] = Tail(prn.to)[i]
                      /\ Tail(prn.to)[i] # v
    BY <1>2, <1>3 DEF Pending
  <2>1. Tail(prn.to)[i] = prn.to[i + 1] /\ i + 1 \in 1 .. Len(prn.to) /\ i + 1 # 1
    BY <1>2, <1>4
  <2> QED
    BY <1>2, <2>1 DEF HandInv, Distinct
<1>7. Pending(v)
  BY <1>2 DEF Pending
<1>8. \A u : Listed(u)' <=> Listed(u)
  BY <1>3 DEF Listed
<1>9. Distinct(consoles)'
  BY <1>3 DEF HandInv, Distinct
<1>10. CASE Listed(v)
  <2>1. sent' = sent /\ \A u \in Uarts : u # v => txq'[u] = txq[u]
    BY <1>1, <1>10 DEF CUart, ConsoleInv, ConsoleTypes, ConsoleType
  <2>2. ~overlap => flush[1] \notin {"walk", "off"}
    BY <1>1 DEF HandInv
  <2> QED
    BY <1>3, <1>5, <1>6, <1>8, <1>9, <1>10, <2>1, <2>2 DEF HandInv
<1>11. CASE ~Listed(v)
  <2>1. overlap /\ sent[v] = 0
    BY <1>1, <1>7, <1>11 DEF HandInv
  <2>2. sent' = [sent EXCEPT ![v] = sent[v] + 1] /\ sent \in [Uarts -> Nat]
    BY <1>11 DEF CUart, HandInv
  <2>3. sent' \in [Uarts -> Nat] /\ sent'[v] = 1 /\ \A u \in Uarts : u # v => sent'[u] = sent[u]
    BY <1>1, <2>1, <2>2
  <2>4. ASSUME NEW u \in Uarts PROVE sent'[u] <= 1 /\ (Listed(u)' \/ Pending(u)' => sent'[u] = 0)
    <3>1. CASE u = v
      BY <1>6, <1>8, <1>11, <2>3, <3>1
    <3>2. CASE u # v
      BY <1>6, <1>8, <2>3, <3>2 DEF HandInv
    <3> QED
      BY <3>1, <3>2
  <2> QED
    BY <1>3, <1>5, <1>9, <2>1, <2>3, <2>4 DEF HandInv
<1> QED
  BY <1>10, <1>11

\* Console::disable: only the first console leaves the list.
LEMMA CFlushDisableHand ==
    ASSUME ConsoleInv, HandInv, CFlushDisable
    PROVE  HandInv'
<1> USE ConsoleAssumption
<1>0. UNCHANGED <<prn, txq, sent, overlap>> /\ flush[1] = "off" /\ flush'[1] = "walk"
  <2>1. UNCHANGED <<prn, txq, sent, overlap>> /\ flush[1] = "off"
    BY DEF CFlushDisable
  <2>2. flush'[1] \in {"walk"}
    <3>1. flush' = <<"walk">> \o SubSeq(flush, 3, Len(flush))
      BY DEF CFlushDisable
    <3>2. flush \in Seq(ConsoleSet \cup FlushTags) /\ "walk" \in ConsoleSet \cup FlushTags
      BY DEF ConsoleInv, ConsoleTypes, FlushTags
    <3>3. SubSeq(flush, 3, Len(flush)) \in Seq(ConsoleSet \cup FlushTags)
      BY <3>2
    <3> QED
      BY <3>1, <3>2, <3>3
  <2> QED
    BY <2>1, <2>2
<1>1. Len(consoles) \in Nat
  BY DEF ConsoleInv, ConsoleTypes
<1>2. Distinct(consoles)'
  <2> SUFFICES ASSUME NEW i \in 1 .. Len(consoles) - 1, NEW j \in 1 .. Len(consoles) - 1,
                      consoles'[i] = consoles'[j]
               PROVE  i = j
    BY FlushNext DEF Distinct
  <2>1. i + 1 = j + 1
    BY FlushNext DEF HandInv, Distinct
  <2> QED
    BY <1>1, <2>1
<1>3. \A u : Listed(u)' => Listed(u)
  BY FlushNext DEF Listed
<1>4. \A u : Listed(u) => Listed(u)' \/ u = flush[2]
  <2> SUFFICES ASSUME NEW k \in 1 .. Len(consoles), k # 1
               PROVE  \E i \in 1 .. Len(consoles) - 1 : consoles'[i] = consoles[k]
    BY FlushNext DEF Listed
  <2>1. k - 1 \in 1 .. Len(consoles) - 1 /\ (k - 1) + 1 = k
    BY <1>1
  <2> QED
    BY <2>1, FlushNext
<1>5. Listed(flush[2]) /\ flush[2] \in Uarts
  BY FlushNext DEF Listed
<1>6. \A u : Pending(u)' <=> Pending(u)
  BY <1>0 DEF Pending
<1>7. Distinct(prn.to)'
  BY <1>0 DEF HandInv, Distinct
<1>8. \A u \in Uarts : sent'[u] <= 1 /\ (Listed(u)' \/ Pending(u)' => sent'[u] = 0)
  BY <1>0, <1>3, <1>6 DEF HandInv
<1>9. ASSUME ~overlap PROVE \A u \in Uarts : ~Listed(u)' => ~Pending(u)' /\ sent'[u] = 0 /\ txq'[u] = 0
  <2>1. prn.step = "idle" /\ txq[flush[2]] = 0 /\ sent[flush[2]] = 0
    BY <1>0, <1>5, <1>9 DEF HandInv
  <2>2. prn.to = <<>>
    BY <2>1 DEF ConsoleInv, ConsoleLists
  <2>3. \A u : ~Pending(u)
    BY <2>2 DEF Pending
  <2> QED
    BY <1>0, <1>4, <1>6, <1>9, <2>1, <2>3 DEF HandInv
<1> QED
  BY <1>0, <1>2, <1>7, <1>8, <1>9 DEF HandInv

\* Console::flush begins, or has waited for a UART.
LEMMA CFlushHand ==
    ASSUME ConsoleInv, HandInv, CFlush \/ CFlushFini
    PROVE  HandInv'
<1> USE ConsoleAssumption
<1>1. UNCHANGED <<consoles, prn, txq, sent>>
  BY DEF CFlush, CFlushFini
<1>2. (\A u : Listed(u)' <=> Listed(u)) /\ (\A u : Pending(u)' <=> Pending(u)) /\ Distinct(consoles)' /\ Distinct(prn.to)'
  BY <1>1 DEF Listed, Pending, HandInv, Distinct
<1>3. CASE CFlush
  <2>1. flush'[1] = "walk" /\ (overlap' <=> holder # NoWriter) /\ overlap' \in BOOLEAN /\ ~overlap
    <3>1. flush' = <<"walk">> \o consoles /\ consoles \in Seq(ConsoleSet) /\ flush[1] = "no"
      BY <1>3 DEF CFlush, ConsoleInv, ConsoleTypes
    <3>2. flush'[1] = "walk"
      BY <3>1
    <3>3. (overlap' <=> holder # NoWriter) /\ overlap' \in BOOLEAN
      BY <1>3 DEF CFlush
    <3>4. ~overlap
      BY <3>1 DEF HandInv
    <3> QED
      BY <3>2, <3>3, <3>4
  <2>2. ~overlap' => prn'.step = "idle"
    BY <1>1, <2>1 DEF ConsoleInv, ConsoleLists
  <2> QED
    BY <1>1, <1>2, <2>1, <2>2 DEF HandInv
<1>4. CASE CFlushFini
  <2>1. overlap' = overlap /\ flush[1] = "walk"
    BY <1>4 DEF CFlushFini
  <2>2. CASE flush' = <<"done">>
    BY <1>1, <1>2, <2>1, <2>2 DEF HandInv
  <2>3. CASE flush[2] \in Uarts /\ txq[flush[2]] = 0 /\ flush' = [flush EXCEPT ![1] = "off"]
    <3>1. flush'[1] = "off" /\ flush'[2] = flush[2]
      <4>1. flush \in Seq(ConsoleSet \cup FlushTags) /\ Len(flush) > 1 /\ Len(flush) \in Nat
        BY <1>4 DEF ConsoleInv, ConsoleTypes, CFlushFini
      <4>2. 1 \in 1 .. Len(flush) /\ 2 \in 1 .. Len(flush) /\ DOMAIN flush = 1 .. Len(flush)
        BY <4>1
      <4> QED
        BY <2>3, <4>2
    <3> QED
      BY <1>1, <1>2, <2>1, <2>3, <3>1 DEF HandInv
  <2> QED
    BY <1>4, <2>2, <2>3 DEF CFlushFini
<1> QED
  BY <1>3, <1>4

\* Every step keeps HandInv.
LEMMA HandStep ==
    ASSUME ConsoleInv, HandInv, [ConsoleNext]_consoleVars
    PROVE  HandInv'
<1> USE ConsoleAssumption
<1>0. prn \in [chr : Nat, to : Seq(ConsoleSet),
               step : {"idle", "outc", "discard", "store", "publish"}, r : 0 .. Ring - 1]
  BY DEF ConsoleInv, ConsoleTypes
<1>1. ASSUME NEW w \in Writers, CPrint(w) PROVE HandInv'
  <2>1. UNCHANGED <<consoles, flush, sent, txq>> /\ prn'.to = consoles
    BY <1>0, <1>1 DEF CPrint
  <2>2. overlap' = (overlap \/ flush[1] \in {"walk", "off"})
    BY <1>1 DEF CPrint, Walking
  <2>3. overlap \in BOOLEAN /\ (flush[1] = "no" => ~overlap)
    BY DEF HandInv
  <2>4. overlap' \in BOOLEAN /\ (overlap => overlap') /\ (flush[1] = "no" => ~overlap')
    BY <2>2, <2>3
  <2>5. flush[1] \in {"walk", "off"} => overlap'
    BY <2>2
  <2> QED
    BY <2>1, <2>4, <2>5, HandList
<1>2. CASE CMbufPublish
  <2>1. UNCHANGED <<consoles, flush, sent, txq, overlap>>
    BY <1>2 DEF CMbufPublish, flushVars
  <2>2. prn.to = <<Mbuf>> /\ prn.step = "publish"
    BY <1>2 DEF CMbufPublish, ConsoleInv, ConsoleLists
  <2>3. ~(Len(prn.to) > 1)
    BY <2>2
  <2>4. prn'.to = consoles \/ prn'.to = <<>>
    BY <1>0, <1>2, <2>3 DEF CMbufPublish, Advance
  <2>5. ~overlap => flush[1] \notin {"walk", "off"}
    BY <2>2 DEF HandInv
  <2>6. overlap \in BOOLEAN /\ (flush[1] = "no" => ~overlap)
    BY DEF HandInv
  <2> QED
    BY <2>1, <2>4, <2>5, <2>6, HandList
<1>3. CASE CMbufLoad \/ CMbufDiscard \/ CMbufStore
  <2>1. UNCHANGED <<consoles, flush, sent, overlap, txq>>
    BY <1>3 DEF CMbufLoad, CMbufDiscard, CMbufStore, flushVars
  <2>2. prn'.to = prn.to /\ prn.step # "idle" /\ prn'.step # "idle"
    BY <1>0, <1>3 DEF CMbufLoad, CMbufDiscard, CMbufStore
  <2> QED
    BY <2>1, <2>2, HandSame
<1>4. CASE RWake \/ RLoad \/ RTake \/ UNCHANGED consoleVars
  <2>1. UNCHANGED <<consoles, flush, sent, overlap, txq, prn>>
    BY <1>4 DEF RWake, RLoad, RTake, flushVars, consoleVars
  <2> QED
    BY <2>1, HandSame
<1>5. ASSUME NEW u \in Uarts, CTransmit(u) PROVE HandInv'
  <2>1. UNCHANGED <<consoles, flush, sent, overlap, prn>>
    BY <1>5 DEF CTransmit, flushVars
  <2>2. txq \in [Uarts -> 0 .. Fifo] /\ txq[u] > 0 /\ txq' = [txq EXCEPT ![u] = txq[u] - 1]
    BY <1>5 DEF CTransmit, ConsoleInv, ConsoleTypes, ConsoleType
  <2>3. \A v \in Uarts : txq[v] = 0 => txq'[v] = 0
    BY <2>2
  <2> QED
    BY <2>1, <2>3, HandSame
<1> QED
  BY <1>1, <1>2, <1>3, <1>4, <1>5, CUartHand, CFlushHand, CFlushDisableHand DEF ConsoleNext

\* No UART has left the list, and none is in it twice.
LEMMA HandInitInv ==
    ASSUME ConsoleInit
    PROVE  HandInv
<1> USE ConsoleAssumption
<1>1. /\ UartSeq \in [1 .. Cardinality(Uarts) -> Uarts] /\ Cardinality(Uarts) \in Nat
      /\ IsInjective(UartSeq)
  <2>1. Cardinality(Uarts) \in Nat /\ ExistsBijection(1 .. Cardinality(Uarts), Uarts)
    BY FS_CardinalityType
  <2>2. \E f \in [1 .. Cardinality(Uarts) -> Uarts] : IsInjective(f)
    BY <2>1 DEF ExistsBijection, Bijection, Injection
  <2>3. UartSeq \in [1 .. Cardinality(Uarts) -> Uarts] /\ IsInjective(UartSeq)
    BY <2>1, <2>2 DEF UartSeq, SetToSeq
  <2> QED
    BY <2>1, <2>3
<1>2. UartSeq \in Seq(Uarts) /\ Len(UartSeq) = Cardinality(Uarts)
  BY <1>1
<1>3. consoles = Append(UartSeq, Mbuf)
  BY DEF ConsoleInit, Enable
<1>4. /\ Len(consoles) = Len(UartSeq) + 1 /\ consoles[Len(UartSeq) + 1] = Mbuf
      /\ \A i \in 1 .. Len(UartSeq) : consoles[i] = UartSeq[i] /\ UartSeq[i] \in Uarts
  BY <1>2, <1>3
<1>5. Distinct(consoles)
  <2> SUFFICES ASSUME NEW i \in 1 .. Len(UartSeq) + 1, NEW j \in 1 .. Len(UartSeq) + 1, consoles[i] = consoles[j]
               PROVE  i = j
    BY <1>4 DEF Distinct
  <2>1. \A k \in 1 .. Len(UartSeq) + 1 : k = Len(UartSeq) + 1 \/ k \in 1 .. Len(UartSeq)
    BY <1>1, <1>2
  <2>2. CASE i \in 1 .. Len(UartSeq) /\ j \in 1 .. Len(UartSeq)
    BY <1>1, <1>2, <1>4, <2>2 DEF IsInjective
  <2> QED
    BY <1>4, <2>1, <2>2
<1>6. \A u \in Uarts : Listed(u)
  <2> DEFINE I == 1 .. Cardinality(Uarts)
  <2>1. \A u \in Uarts : \E i \in I : UartSeq[i] = u
    <3>1. Cardinality(I) = Cardinality(Uarts)
      BY <1>1, FS_Interval
    <3>2. UartSeq \in Injection(I, Uarts)
      BY <1>1 DEF Injection
    <3> HIDE DEF I
    <3>3. UartSeq \in Surjection(I, Uarts)
      BY <3>1, <3>2, FS_Injection
    <3> QED
      BY <3>3 DEF Surjection
  <2>2. \A i \in 1 .. Cardinality(Uarts) : i \in 1 .. Len(consoles)
    BY <1>1, <1>2, <1>4
  <2> QED
    BY <1>2, <1>4, <2>1, <2>2 DEF Listed
<1>7. /\ sent = [u \in Uarts |-> 0] /\ overlap = FALSE /\ prn.to = <<>> /\ flush[1] = "no"
  BY DEF ConsoleInit
<1>8. Distinct(prn.to) /\ sent \in [Uarts -> Nat] /\ \A u \in Uarts : sent[u] = 0
  BY <1>7 DEF Distinct
<1>9. overlap \in BOOLEAN /\ ~overlap /\ flush[1] \notin {"walk", "off"} /\ flush[1] # "off"
  BY <1>7
<1>10. \A u \in Uarts : sent[u] <= 1 /\ (Listed(u) \/ Pending(u) => sent[u] = 0)
  BY <1>8
<1> QED
  BY <1>5, <1>6, <1>8, <1>9, <1>10, Zenon DEF HandInv

\* What is left of the list after flush has no UART.
LEMMA ConsoleInvSuffices ==
    ASSUME ConsoleInv, HandInv
    PROVE  ConsolesExact
<1>1. ConsoleType
  BY DEF ConsoleInv, ConsoleTypes
<1>2. RingExact
  BY DEF ConsoleInv, RingInv, ReadInv, RingExact, Place
<1>3. Listed(Mbuf)
  <2>1. Mbuf \in {consoles[i] : i \in 1 .. Len(consoles)}
    BY HasMbuf DEF ConsoleInv, ConsoleTypes, ConsoleLists
  <2> QED
    BY <2>1 DEF Listed
<1>4. flush[1] = "done" => consoles = <<Mbuf>>
  BY DEF ConsoleInv, ConsoleLists
<1>5. UartsHandedOver
  BY <1>3, <1>4 DEF UartsHandedOver, HandInv
<1> QED
  BY <1>1, <1>2, <1>5 DEF ConsolesExact, ConsoleInv

\* Whatever the interleaving of Console::print, the reader of the memory buffer and
\* Console::flush, the ring is exact, no line is missed, and no UART is touched after
\* it was handed over, but for the one character that was on its way to it when
\* flush, which takes no lock, met a CPU that was printing.
THEOREM ConsolesStayExact == ConsoleSpec => []ConsolesExact
<1>1. ConsoleInv /\ HandInv /\ [ConsoleNext]_consoleVars => ConsoleInv' /\ HandInv'
  BY ConsoleStepSafe, HandStep
<1>2. ConsoleInit => ConsoleInv /\ HandInv
  BY ConsoleInitInv, HandInitInv
<1>3. ConsoleInv /\ HandInv => ConsolesExact
  BY ConsoleInvSuffices
<1> QED
  BY <1>1, <1>2, <1>3, PTL DEF ConsoleSpec

-----------------------------------------------------------------------------
(* Gicr::mmap_mmio finds the frame of a CPU.                               *)

\* A non-empty set of natural numbers has a least element.
LEMMA LeastNumber ==
    ASSUME NEW S, S \subseteq Nat, S # {}
    PROVE  \E m \in S : \A n \in S : m <= n
<1>1. PICK R : R = OpToRel(<, Nat)
  BY Zenon
<1>2. IsWellFoundedOn(R, Nat)
  BY <1>1, NatLessThanWellFounded, Zenon
<1>3. PICK m \in S : \A n \in S : ~(<<n, m>> \in R)
  BY <1>2, WFMin, Zenon
<1>4. \A p, q \in Nat : <<q, p>> \in R <=> q < p
  BY <1>1 DEF OpToRel
<1>5. \A n \in S : ~(n < m) /\ n \in Nat /\ m \in Nat
  BY <1>3, <1>4
<1> QED
  BY <1>3, <1>5

Frames == gframes \in Seq([cpu : GCpus, long : BOOLEAN]) /\ Len(gframes) >= 1
FrameSize(i) == IF gframes[i].long THEN 2 ELSE 1

\* The recursive definition of the addresses has a solution.
LEMMA FrameBases ==
    ASSUME Frames
    PROVE  /\ FrameBase(1) = 0
           /\ \A k \in 2 .. Len(gframes) : FrameBase(k) = FrameBase(k - 1) + FrameSize(k - 1)
<1> DEFINE L == Len(gframes)
<1> DEFINE long(k) == {j \in 1 .. k - 1 : gframes[j].long}
<1> DEFINE w == [k \in 1 .. L |-> (k - 1) + Cardinality(long(k))]
<1> DEFINE B(b) == b = [k \in 1 .. L |-> IF k = 1 THEN 0 ELSE b[k - 1] + IF gframes[k - 1].long THEN 2 ELSE 1]
<1>1. L \in Nat /\ L >= 1
  BY DEF Frames
<1> HIDE DEF L
<1>2. \A k \in 1 .. L : IsFiniteSet(long(k)) /\ Cardinality(long(k)) \in Nat
  <2> TAKE k \in 1 .. L
  <2>1. long(k) \subseteq 1 .. k - 1 /\ IsFiniteSet(1 .. k - 1)
    BY <1>1, FS_Interval
  <2> QED
    BY <2>1, FS_Subset, FS_CardinalityType
<1>3. Cardinality(long(1)) = 0
  <2>1. long(1) = {}
    BY SMT
  <2> QED
    BY <2>1, FS_EmptySet
<1>4. ASSUME NEW k \in 2 .. L
      PROVE  Cardinality(long(k)) = Cardinality(long(k - 1)) + IF gframes[k - 1].long THEN 1 ELSE 0
  <2>1. k - 1 \in 1 .. L /\ k \in 1 .. L
    BY <1>1
  <2>2. CASE gframes[k - 1].long
    <3>1. long(k) = long(k - 1) \cup {k - 1} /\ k - 1 \notin long(k - 1)
      BY <2>1, <2>2
    <3> QED
      BY <1>2, <2>1, <2>2, <3>1, FS_AddElement
  <2>3. CASE ~gframes[k - 1].long
    <3>1. long(k) = long(k - 1)
      BY <2>1, <2>3
    <3>2. Cardinality(long(k - 1)) \in Nat
      BY <1>2, <2>1
    <3> HIDE DEF long
    <3> QED
      BY <2>3, <3>1, <3>2
  <2> QED
    BY <2>2, <2>3
<1> HIDE DEF long
<1>5. B(w)
  <2>1. \A k \in 1 .. L : w[k] = IF k = 1 THEN 0 ELSE w[k - 1] + IF gframes[k - 1].long THEN 2 ELSE 1
    <3> TAKE k \in 1 .. L
    <3>1. CASE k = 1
      BY <1>1, <1>3, <3>1
    <3>2. CASE k # 1
      <4>1. k \in 2 .. L /\ k - 1 \in 1 .. L
        BY <1>1, <3>2
      <4>2. w[k] = (k - 1) + Cardinality(long(k)) /\ w[k - 1] = (k - 1 - 1) + Cardinality(long(k - 1))
        BY <4>1
      <4>3. Cardinality(long(k)) \in Nat /\ Cardinality(long(k - 1)) \in Nat
        BY <1>2, <4>1
      <4>4. CASE gframes[k - 1].long
        BY <1>4, <3>2, <4>1, <4>2, <4>3, <4>4
      <4>5. CASE ~gframes[k - 1].long
        BY <1>4, <3>2, <4>1, <4>2, <4>3, <4>5
      <4> QED
        BY <4>4, <4>5
    <3> QED
      BY <3>1, <3>2
  <2> QED
    BY <2>1
<1> DEFINE base == CHOOSE b : B(b)
<1>6. B(base)
  <2> HIDE DEF B
  <2> QED
    BY <1>5, Zenon
<1>7. \A i : FrameBase(i) = base[i]
  BY Zenon DEF FrameBase, L
<1> HIDE DEF base
<1>8. \A k \in 1 .. L : base[k] = IF k = 1 THEN 0 ELSE base[k - 1] + IF gframes[k - 1].long THEN 2 ELSE 1
  BY <1>6
<1> QED
  BY <1>1, <1>7, <1>8 DEF FrameSize, L

\* The frames lie in their order, without overlap.
LEMMA FrameOrder ==
    ASSUME Frames
    PROVE  /\ \A i \in 1 .. Len(gframes) : FrameBase(i) \in 0 .. 2 * (i - 1)
           /\ \A i \in 1 .. Len(gframes) : FrameAt(FrameBase(i)) = i
<1> DEFINE L == Len(gframes)
<1>1. L \in Nat /\ L >= 1 /\ FrameBase(1) = 0
      /\ \A k \in 2 .. L : FrameBase(k) = FrameBase(k - 1) + FrameSize(k - 1) /\ FrameSize(k - 1) \in {1, 2}
  BY FrameBases DEF Frames, FrameSize
<1> HIDE DEF L
<1>2. \A i \in 1 .. L : FrameBase(i) \in 0 .. 2 * (i - 1)
  <2> DEFINE X == {i \in 1 .. L : FrameBase(i) \notin 0 .. 2 * (i - 1)}
  <2> SUFFICES ASSUME X # {} PROVE FALSE
    OBVIOUS
  <2>0. X \subseteq Nat
    BY <1>1
  <2>1. PICK m \in X : \A n \in X : m <= n
    <3> HIDE DEF X
    <3> QED
      BY <2>0, LeastNumber
  <2>2. m # 1
    BY <1>1, <2>1
  <2>3. m - 1 \in 1 .. L /\ m \in 2 .. L /\ m - 1 \notin X
    BY <1>1, <2>1, <2>2
  <2>4. FrameBase(m - 1) \in 0 .. 2 * ((m - 1) - 1)
    BY <2>3
  <2> QED
    BY <1>1, <2>1, <2>3, <2>4
<1>3. \A i, j \in 1 .. L : i < j => FrameBase(i) < FrameBase(j)
  <2> SUFFICES ASSUME NEW i \in 1 .. L PROVE \A j \in 1 .. L : i < j => FrameBase(i) < FrameBase(j)
    OBVIOUS
  <2> DEFINE X == {j \in 1 .. L : i < j /\ ~(FrameBase(i) < FrameBase(j))}
  <2> SUFFICES ASSUME X # {} PROVE FALSE
    OBVIOUS
  <2>0. X \subseteq Nat
    BY <1>1
  <2>1. PICK m \in X : \A n \in X : m <= n
    <3> HIDE DEF X
    <3> QED
      BY <2>0, LeastNumber
  <2>2. m \in 2 .. L /\ m - 1 \in 1 .. L /\ m - 1 \notin X
    BY <1>1, <2>1
  <2>3. FrameBase(i) \in Nat /\ FrameBase(m - 1) \in Nat /\ FrameBase(m) > FrameBase(m - 1)
    BY <1>1, <1>2, <2>2
  <2>4. FrameBase(i) <= FrameBase(m - 1)
    BY <2>1, <2>2, <2>3
  <2> QED
    BY <1>2, <2>1, <2>3, <2>4
<1>4. ASSUME NEW i \in 1 .. L PROVE FrameAt(FrameBase(i)) = i
  <2>1. \A j \in 1 .. L : FrameBase(j) = FrameBase(i) => j = i
    <3> TAKE j \in 1 .. L
    <3>1. FrameBase(i) \in Nat /\ FrameBase(j) \in Nat
      BY <1>2
    <3>2. i < j \/ j < i \/ j = i
      BY <1>1
    <3> QED
      BY <1>3, <3>1, <3>2
  <2> QED
    BY <2>1 DEF FrameAt, L
<1> QED
  BY <1>2, <1>4 DEF L

\* The walk ends at the frame of the CPU, if it finds one.
LEMMA FrameFound ==
    ASSUME Frames, NEW c
    PROVE  /\ FindFrame(c) \in 0 .. Len(gframes)
           /\ FindFrame(c) # 0 => gframes[FindFrame(c)].cpu = c
<1> DEFINE L == Len(gframes)
<1> DEFINE D == 0 .. 2 * L
<1> DEFINE W(f) == f = [a \in D |-> IF FrameAt(a) = 0 THEN 0
                                    ELSE IF gframes[FrameAt(a)].cpu = c THEN FrameAt(a)
                                    ELSE IF FrameAt(a) = L THEN 0
                                    ELSE f[a + IF gframes[FrameAt(a)].long THEN 2 ELSE 1]]
<1> DEFINE First(f, j) == j \in f .. L /\ gframes[j].cpu = c /\ \A i \in f .. L : gframes[i].cpu = c => j <= i
<1> DEFINE Choice(f) == CHOOSE j : First(f, j)
<1> DEFINE At(f) == IF \E j \in f .. L : gframes[j].cpu = c THEN Choice(f) ELSE 0
<1> DEFINE v == [a \in D |-> IF FrameAt(a) = 0 THEN 0 ELSE At(FrameAt(a))]
<1>1. L \in Nat /\ L >= 1
  BY DEF Frames
<1>2. /\ \A i \in 1 .. L : FrameBase(i) \in D /\ FrameAt(FrameBase(i)) = i
      /\ \A i \in 1 .. L : i # L => FrameBase(i + 1) = FrameBase(i) + FrameSize(i)
  <2>1. \A i \in 1 .. L : FrameBase(i) \in D /\ FrameAt(FrameBase(i)) = i
    BY <1>1, FrameOrder
  <2>2. ASSUME NEW i \in 1 .. L, i # L PROVE FrameBase(i + 1) = FrameBase(i) + FrameSize(i)
    <3>1. i + 1 \in 2 .. L /\ (i + 1) - 1 = i
      BY <1>1, <2>2
    <3> QED
      BY <3>1, FrameBases
  <2> QED
    BY <2>1, <2>2
<1>3. \A a : FrameAt(a) # 0 => FrameAt(a) \in 1 .. L /\ FrameBase(FrameAt(a)) = a
  BY DEF FrameAt
<1> HIDE DEF L
<1>4. \A f \in 1 .. L : (\E j \in f .. L : gframes[j].cpu = c) => First(f, At(f))
  <2> TAKE f \in 1 .. L
  <2> HAVE \E j \in f .. L : gframes[j].cpu = c
  <2> DEFINE X == {j \in f .. L : gframes[j].cpu = c}
  <2>1. X \subseteq Nat /\ X # {}
    BY <1>1
  <2>2. PICK m \in X : \A n \in X : m <= n
    BY <2>1, LeastNumber
  <2>3. First(f, m)
    BY <2>2
  <2> HIDE DEF First
  <2> QED
    BY <2>3
<1>5. ASSUME NEW f \in 1 .. L
      PROVE  At(f) = IF gframes[f].cpu = c THEN f ELSE IF f = L THEN 0 ELSE At(f + 1)
  <2>1. CASE gframes[f].cpu = c
    <3>1. f \in f .. L
      BY <1>1
    <3>2. First(f, At(f))
      BY <1>4, <2>1, <3>1
    <3>3. At(f) \in f .. L /\ At(f) <= f
      BY <2>1, <3>1, <3>2
    <3> HIDE DEF At
    <3>4. At(f) = f
      BY <1>1, <3>3
    <3> QED
      BY <2>1, <3>4
  <2>2. CASE gframes[f].cpu # c /\ f = L
    BY <1>1, <2>2
  <2>3. CASE gframes[f].cpu # c /\ f # L
    <3>1. \A j \in f .. L : gframes[j].cpu = c => j \in f + 1 .. L
      BY <1>1, <2>3
    <3>2. \A j \in f + 1 .. L : j \in f .. L
      BY <1>1
    <3>3. \A j : First(f, j) <=> First(f + 1, j)
      BY <3>1, <3>2
    <3>4. (\E j \in f .. L : gframes[j].cpu = c) <=> (\E j \in f + 1 .. L : gframes[j].cpu = c)
      BY <3>1, <3>2
    <3>5. Choice(f) = Choice(f + 1)
      <4> HIDE DEF First
      <4> QED
        BY <3>3
    <3> HIDE DEF First, Choice
    <3> QED
      BY <2>3, <3>4, <3>5
  <2> QED
    BY <2>1, <2>2, <2>3
<1> HIDE DEF At
<1>6. W(v)
  <2>1. ASSUME NEW a \in D, FrameAt(a) # 0, gframes[FrameAt(a)].cpu # c, FrameAt(a) # L
        PROVE  v[a + IF gframes[FrameAt(a)].long THEN 2 ELSE 1] = At(FrameAt(a))
    <3> DEFINE i == FrameAt(a)
    <3>1. i \in 1 .. L /\ FrameBase(i) = a /\ i # L /\ i + 1 \in 1 .. L
      BY <1>1, <1>3, <2>1
    <3>2. a + FrameSize(i) = FrameBase(i + 1) /\ FrameBase(i + 1) \in D /\ FrameAt(FrameBase(i + 1)) = i + 1
      BY <1>2, <3>1
    <3>3. i + 1 # 0
      BY <3>1
    <3>4. v[FrameBase(i + 1)] = At(i + 1)
      BY <3>2, <3>3
    <3>5. At(i) = At(i + 1)
      BY <1>5, <2>1, <3>1
    <3> QED
      BY <3>2, <3>4, <3>5 DEF FrameSize
  <2>2. \A a \in D : v[a] = IF FrameAt(a) = 0 THEN 0
                            ELSE IF gframes[FrameAt(a)].cpu = c THEN FrameAt(a)
                            ELSE IF FrameAt(a) = L THEN 0
                            ELSE v[a + IF gframes[FrameAt(a)].long THEN 2 ELSE 1]
    BY <1>3, <1>5, <2>1
  <2> HIDE DEF D
  <2> QED
    BY <2>2
<1> DEFINE walk == CHOOSE f : W(f)
<1>7. W(walk)
  <2> HIDE DEF W
  <2> QED
    BY <1>6, Zenon
<1>8. FindFrame(c) = walk[0]
  BY Zenon DEF FindFrame, L
<1> HIDE DEF walk
<1>9. \A a \in D : walk[a] = IF FrameAt(a) = 0 THEN 0
                             ELSE IF gframes[FrameAt(a)].cpu = c THEN FrameAt(a)
                             ELSE IF FrameAt(a) = L THEN 0
                             ELSE walk[a + IF gframes[FrameAt(a)].long THEN 2 ELSE 1]
  BY <1>7
<1> DEFINE Right(n) == n = 0 \/ (n \in 1 .. L /\ gframes[n].cpu = c)
<1>10. \A i \in 1 .. L : Right(walk[FrameBase(i)])
  <2> DEFINE X == {n \in 0 .. L - 1 : ~Right(walk[FrameBase(L - n)])}
  <2>1. X = {}
    <3> SUFFICES ASSUME X # {} PROVE FALSE
      OBVIOUS
    <3>1. X \subseteq Nat
      BY <1>1
    <3>2. PICK m \in X : \A n \in X : m <= n
      BY <3>1, LeastNumber
    <3> DEFINE i == L - m
    <3>3. i \in 1 .. L /\ ~Right(walk[FrameBase(i)]) /\ m \in 0 .. L - 1
      BY <1>1, <3>2
    <3>4. /\ FrameBase(i) \in D /\ FrameAt(FrameBase(i)) = i /\ i # 0
          /\ i # L => FrameBase(i + 1) = FrameBase(i) + FrameSize(i)
      BY <1>1, <1>2, <3>3
    <3>5. walk[FrameBase(i)] = IF gframes[i].cpu = c THEN i
                               ELSE IF i = L THEN 0 ELSE walk[FrameBase(i) + FrameSize(i)]
      BY <1>9, <3>4 DEF FrameSize
    <3>6. gframes[i].cpu # c /\ i # L
      BY <3>3, <3>5
    <3>7. ~Right(walk[FrameBase(i + 1)])
      BY <3>3, <3>4, <3>5, <3>6
    <3>8. m - 1 \in 0 .. L - 1 /\ L - (m - 1) = i + 1
      BY <1>1, <3>3, <3>6
    <3>9. m - 1 \in X
      BY <3>7, <3>8
    <3> QED
      BY <3>2, <3>3, <3>9
  <2>2. ASSUME NEW i \in 1 .. L PROVE Right(walk[FrameBase(i)])
    <3>1. L - i \in 0 .. L - 1 /\ L - (L - i) = i
      BY <1>1
    <3> QED
      BY <2>1, <3>1
  <2> QED
    BY <2>2
<1>11. 1 \in 1 .. L /\ FrameBase(1) = 0
  BY <1>1, FrameBases
<1>12. Right(walk[0])
  BY <1>10, <1>11
<1> QED
  BY <1>1, <1>8, <1>12 DEF L

-----------------------------------------------------------------------------
(* The interrupt controller.                                               *)

GUp == {"barrier", "run"}
GHeldAt == {"dist", "groups", "redist", "iface", "virt"}
GEarly == {"lock", "dist", "groups", "redist", "iface", "virt"}
GLate == {"init", "barrier", "run"}
GOnlineCpus == {c \in GCpus : gcpu[c] \in GUp}
GLocals == [frame : 0 .. Len(gframes), sgis : BOOLEAN, awake : BOOLEAN, iface : BOOLEAN, virt : BOOLEAN]

GicTypes ==
    /\ GicType /\ Frames /\ gver \in {2, 3} /\ fwd \in BOOLEAN /\ suspends \in Nat
    /\ gjob \in [GCpus -> [spi : Spis \cup {GNone}, cfg : GConfig]]
    /\ glocal \in [GCpus -> GLocals]
    /\ glvl \in [Spis -> BOOLEAN] /\ gtgt \in [Spis -> GCpus \cup {GNone}]
    /\ gtmp \in [GCpus -> [Spis -> BOOLEAN]]
    /\ gtodo \in [GCpus -> SUBSET Spis] /\ \A c \in GCpus : gtodo[c] \subseteq ToConfigure(c)

(***************************************************************************)
(* The order of the boot: one CPU at a time holds the boot lock, the boot  *)
(* CPU before all others; no CPU runs before all have entered the barrier. *)
(***************************************************************************)
BootOrder ==
    /\ gonline = Cardinality(GOnlineCpus)
    /\ (\E c \in GCpus : gcpu[c] = "run") => \A c \in GCpus : gcpu[c] \in GUp
    /\ \A c, d \in GCpus : gcpu[c] \in GHeldAt /\ gcpu[d] \in GHeldAt => c = d
    /\ gcpu[GBoot] \in GEarly => \A c \in GCpus : c # GBoot => gcpu[c] = "lock"
    /\ gcpu[GBoot] \notin {"lock", "dist", "groups"} /\ (\A c \in GCpus : gcpu[c] # "groups") => fwd

(***************************************************************************)
(* What a CPU has initialised of its private parts.                        *)
(***************************************************************************)
PrivatePart(c) ==
    /\ gcpu[c] \in {"iface", "virt"} \cup GLate => glocal[c].sgis /\ glocal[c].awake
    /\ gcpu[c] \in {"virt"} \cup GLate => glocal[c].iface
    /\ gcpu[c] \in GLate => glocal[c].virt
    /\ gcpu[c] = "redist" => gver = 3
    /\ gver = 3 /\ (gcpu[c] \in {"iface", "virt"} \cup GLate \/ suspends > 0) =>
           glocal[c].frame # 0 /\ gframes[glocal[c].frame].cpu = c
PrivateParts == \A c \in GCpus : PrivatePart(c)

(***************************************************************************)
(* The calls of Gicd::conf: never two for one SPI, each with the           *)
(* configuration that int_table holds, and the register that the holder of *)
(* Gicd::lock has read is still the one it will change.                    *)
(***************************************************************************)
ConfCalls ==
    /\ \A c \in GCpus :
          /\ gcpu[c] \in GEarly => gtodo[c] = ToConfigure(c) /\ gjob[c].spi = GNone
          /\ gcpu[c] \in GUp => gtodo[c] = {}
          /\ gcpu[c] = "barrier" => gjob[c].spi = GNone
          /\ gjob[c].spi \notin gtodo[c]
          /\ gjob[c].spi \in Spis \ SmmuSpis =>
                /\ gjob[c].cfg = gcfg[gjob[c].spi]
                /\ gcpu[c] = "init" => gcfg[gjob[c].spi].cpu = c
          /\ gjob[c].spi \in SmmuSpis => c = GBoot /\ gcpu[c] = "init" /\ gjob[c].cfg = FaultConfig
    /\ \A c, d \in GCpus : gjob[c].spi = gjob[d].spi /\ gjob[c].spi # GNone => c = d
    /\ \A c \in GCpus : glock = c => gjob[c].spi # GNone /\ gtmp[c] = glvl

(***************************************************************************)
(* An SPI that its CPU has seen to and that is not in Gicd::conf is as     *)
(* int_table says, the ones of SMMUs as Smmu::init wants them.             *)
(***************************************************************************)
SeenTo(c, s) == gcpu[c] \in GLate /\ s \notin gtodo[c]
AsConfigured(s) == gen[s] = ~gcfg[s].msk /\ glvl[s] = gcfg[s].lvl /\ gtgt[s] = gcfg[s].cpu
AsFault(s) == gen[s] /\ glvl[s] /\ gtgt[s] = GBoot
SpisRight ==
    /\ \A s \in Spis \ SmmuSpis :
          SeenTo(gcfg[s].cpu, s) /\ (\A c \in GCpus : gjob[c].spi # s) => AsConfigured(s)
    /\ \A s \in SmmuSpis : SeenTo(GBoot, s) /\ gjob[GBoot].spi # s => AsFault(s)

GicInv == GicTypes /\ BootOrder /\ PrivateParts /\ ConfCalls /\ SpisRight

\* The online CPUs are finitely many.
LEMMA GOnlineFinite ==
    /\ IsFiniteSet(GOnlineCpus) /\ Cardinality(GOnlineCpus) \in 0 .. Cardinality(GCpus)
    /\ IsFiniteSet(GCpus) /\ Cardinality(GCpus) \in Nat
<1>1. GOnlineCpus \subseteq GCpus
  BY DEF GOnlineCpus
<1> QED
  BY <1>1, FS_Subset, FS_CardinalityType, GicAssumption

\* A CPU that goes on before or after the barrier does not change their number.
LEMMA GMoved ==
    ASSUME GicInv, NEW c \in GCpus, NEW s, gcpu' = [gcpu EXCEPT ![c] = s],
           gcpu[c] \in GUp <=> s \in GUp, gonline' = gonline
    PROVE  gonline' = Cardinality(GOnlineCpus')
<1>1. GOnlineCpus' = GOnlineCpus
  BY DEF GOnlineCpus, GicInv, GicTypes, GicType
<1> QED
  BY <1>1 DEF GicInv, BootOrder

\* GEnter: the boot lock is handed over, to the boot CPU first.
LEMMA GEnterSafe ==
    ASSUME GicInv, NEW c \in GCpus, GEnter(c)
    PROVE  GicInv'
<1> USE GicAssumption
<1>1. UNCHANGED <<gver, gframes, glocal, fwd, gen, glvl, gtgt, gcfg, gjob, gtmp, glock, gtodo, gonline, suspends>>
  BY DEF GEnter, gicd
<1>2. gcpu' = [gcpu EXCEPT ![c] = "dist"]
      /\ gcpu \in [GCpus -> {"lock", "dist", "groups", "redist", "iface", "virt", "init", "barrier", "run"}]
  BY DEF GEnter, GicInv, GicTypes, GicType
<1>3. \A d \in GCpus : gcpu'[d] = IF d = c THEN "dist" ELSE gcpu[d]
  BY <1>2
<1>4. GicTypes'
  BY <1>1, <1>2 DEF GEnter, GicInv, GicTypes, GicType, Frames, GLocals
<1>5. BootOrder'
  <2>1. gonline' = Cardinality(GOnlineCpus')
    BY <1>1, <1>2, GMoved DEF GEnter, GUp
  <2> QED
    BY <1>1, <1>3, <2>1 DEF GEnter, GHeld, GicInv, BootOrder, GUp, GHeldAt, GEarly
<1>6. PrivateParts'
  BY <1>1, <1>3 DEF GEnter, GicInv, GicTypes, GLocals, PrivateParts, PrivatePart, GLate
<1>7. ConfCalls'
  BY <1>1, <1>3 DEF GEnter, GicInv, ConfCalls, GEarly, GUp
<1>8. SpisRight'
  BY <1>1, <1>3 DEF GEnter, GicInv, GicTypes, GicType, GConfig, SpisRight, SeenTo, AsConfigured, AsFault, GLate
<1> QED
  BY <1>4, <1>5, <1>6, <1>7, <1>8 DEF GicInv

\* GDistOff: forwarding is switched off.
LEMMA GDistOffSafe ==
    ASSUME GicInv, NEW c \in GCpus, GDistOff(c)
    PROVE  GicInv'
<1> USE GicAssumption
<1>1. UNCHANGED <<gver, gframes, glocal, gen, glvl, gtgt, gcfg, gjob, gtmp, glock, gtodo, gonline, suspends>>
  BY DEF GDistOff
<1>2. gcpu' = [gcpu EXCEPT ![c] = "groups"]
      /\ gcpu \in [GCpus -> {"lock", "dist", "groups", "redist", "iface", "virt", "init", "barrier", "run"}]
  BY DEF GDistOff, GicInv, GicTypes, GicType
<1>3. \A d \in GCpus : gcpu'[d] = IF d = c THEN "groups" ELSE gcpu[d]
  BY <1>2
<1>4. GicTypes'
  BY <1>1, <1>2 DEF GDistOff, GicInv, GicTypes, GicType, Frames, GLocals
<1>5. BootOrder'
  <2>1. gonline' = Cardinality(GOnlineCpus')
    BY <1>1, <1>2, GMoved DEF GDistOff, GUp
  <2> QED
    BY <1>1, <1>3, <2>1 DEF GDistOff, GHeld, GicInv, BootOrder, GUp, GHeldAt, GEarly
<1>6. PrivateParts'
  BY <1>1, <1>3 DEF GDistOff, GicInv, GicTypes, GLocals, PrivateParts, PrivatePart, GLate
<1>7. ConfCalls'
  BY <1>1, <1>3 DEF GDistOff, GicInv, ConfCalls, GEarly, GUp
<1>8. SpisRight'
  BY <1>1, <1>3 DEF GDistOff, GicInv, GicTypes, GicType, GConfig, SpisRight, SeenTo, AsConfigured, AsFault, GLate
<1> QED
  BY <1>4, <1>5, <1>6, <1>7, <1>8 DEF GicInv

\* GDistOn: forwarding is switched on; the boot CPU, before any other, disables the SPIs.
LEMMA GDistOnSafe ==
    ASSUME GicInv, NEW c \in GCpus, GDistOn(c)
    PROVE  GicInv'
<1> USE GicAssumption
<1>1. UNCHANGED <<gver, gframes, glvl, gtgt, gcfg, gjob, gtmp, glock, gtodo, gonline, suspends>>
  BY DEF GDistOn
<1>2. gcpu' = [gcpu EXCEPT ![c] = IF gver < 3 THEN "iface" ELSE "redist"]
      /\ gcpu \in [GCpus -> {"lock", "dist", "groups", "redist", "iface", "virt", "init", "barrier", "run"}]
  BY DEF GDistOn, GicInv, GicTypes, GicType
<1>3. \A d \in GCpus : gcpu'[d] = IF d = c THEN IF gver < 3 THEN "iface" ELSE "redist" ELSE gcpu[d]
  BY <1>2
<1>4. GicTypes'
  <2>1. glocal' \in [GCpus -> GLocals]
    <3>1. \A b \in BOOLEAN : [glocal EXCEPT ![c].sgis = b, ![c].awake = b] \in [GCpus -> GLocals]
      <4> DEFINE N == 0 .. Len(gframes)
      <4>1. glocal \in [GCpus -> [frame : N, sgis : BOOLEAN, awake : BOOLEAN, iface : BOOLEAN, virt : BOOLEAN]]
        BY DEF GicInv, GicTypes, GLocals
      <4> HIDE DEF N
      <4>2. \A b \in BOOLEAN : [glocal EXCEPT ![c].sgis = b, ![c].awake = b]
                \in [GCpus -> [frame : N, sgis : BOOLEAN, awake : BOOLEAN, iface : BOOLEAN, virt : BOOLEAN]]
        BY <4>1
      <4> QED
        BY <4>2 DEF N, GLocals
    <3>2. (gver < 3) \in BOOLEAN
      OBVIOUS
    <3>3. glocal' = [glocal EXCEPT ![c].sgis = (gver < 3), ![c].awake = (gver < 3)]
      BY DEF GDistOn
    <3> QED
      BY <3>1, <3>2, <3>3, Zenon
  <2>2. glocal' \in [GCpus -> GLocals']
    BY <1>1, <2>1 DEF GLocals
  <2>3. gen' \in [Spis -> BOOLEAN] /\ fwd' \in BOOLEAN
    BY DEF GDistOn, GicInv, GicTypes, GicType
  <2> QED
    BY <1>1, <1>2, <2>2, <2>3 DEF GicInv, GicTypes, GicType, Frames
<1>5. BootOrder'
  <2>1. gonline' = Cardinality(GOnlineCpus')
    BY <1>1, <1>2, GMoved DEF GDistOn, GUp
  <2> QED
    BY <1>1, <1>3, <2>1 DEF GDistOn, GHeld, GicInv, BootOrder, GUp, GHeldAt, GEarly
<1>6. PrivateParts'
  <2> DEFINE b == (gver < 3)
  <2>1. b \in BOOLEAN /\ (b <=> gver < 3) /\ gver \in {2, 3}
    BY DEF GicInv, GicTypes
  <2>2. glocal' = [glocal EXCEPT ![c].sgis = b, ![c].awake = b]
    BY DEF GDistOn
  <2> HIDE DEF b
  <2> DEFINE N == 0 .. Len(gframes)
  <2>3. glocal \in [GCpus -> [frame : N, sgis : BOOLEAN, awake : BOOLEAN, iface : BOOLEAN, virt : BOOLEAN]]
    BY DEF GicInv, GicTypes, GLocals
  <2> HIDE DEF N
  <2>4. /\ glocal'[c].frame = glocal[c].frame /\ glocal'[c].sgis = b /\ glocal'[c].awake = b
        /\ \A d \in GCpus : d # c => glocal'[d] = glocal[d]
    BY <2>2, <2>3
  <2>5. gcpu'[c] = (IF b THEN "iface" ELSE "redist") /\ \A d \in GCpus : d # c => gcpu'[d] = gcpu[d]
    BY <1>3, <2>1
  <2>6. b => gver # 3
    BY <2>1
  <2>7. ~b => gver = 3
    BY <2>1
  <2>8. \A d \in GCpus : d # c => PrivatePart(d)'
    BY <1>1, <2>4, <2>5 DEF GicInv, PrivateParts, PrivatePart
  <2>9. PrivatePart(c)
    BY DEF GicInv, PrivateParts
  <2>10. PrivatePart(c)'
    <3>1. CASE b
      BY <1>1, <2>4, <2>5, <2>6, <3>1 DEF PrivatePart, GLate
    <3>2. CASE ~b
      BY <1>1, <2>4, <2>5, <2>7, <2>9, <3>2 DEF PrivatePart, GLate
    <3> QED
      BY <3>1, <3>2
  <2> QED
    BY <2>8, <2>10 DEF PrivateParts
<1>7. ConfCalls'
  BY <1>1, <1>3 DEF GDistOn, GicInv, ConfCalls, GEarly, GUp
<1>8. SpisRight'
  <2>1. gcfg \in [Spis -> GConfig] /\ \A s \in Spis : gcfg[s].cpu \in GCpus
    BY DEF GicInv, GicTypes, GicType, GConfig
  <2>2. CASE c = GBoot
    <3>1. \A d \in GCpus : gcpu'[d] \notin GLate
      BY <1>3, <2>2 DEF GDistOn, GicInv, BootOrder, GEarly, GLate
    <3> QED
      BY <1>1, <2>1, <3>1 DEF SpisRight, SeenTo
  <2>3. CASE c # GBoot
    <3>1. gen' = gen
      BY <2>3 DEF GDistOn
    <3>2. \A d \in GCpus : gcpu'[d] \in GLate => gcpu[d] \in GLate
      BY <1>3 DEF GLate
    <3> QED
      BY <1>1, <2>1, <3>1, <3>2 DEF GicInv, SpisRight, SeenTo, AsConfigured, AsFault
  <2> QED
    BY <2>2, <2>3
<1> QED
  BY <1>4, <1>5, <1>6, <1>7, <1>8 DEF GicInv

\* GRedist: the redistributor.
LEMMA GRedistSafe ==
    ASSUME GicInv, NEW c \in GCpus, GRedist(c)
    PROVE  GicInv'
<1> USE GicAssumption
<1>1. UNCHANGED <<gver, gframes, fwd, gen, glvl, gtgt, gcfg, gjob, gtmp, glock, gtodo, gonline, suspends>>
  BY DEF GRedist, gicd
<1>2. gcpu' = [gcpu EXCEPT ![c] = "iface"]
      /\ gcpu \in [GCpus -> {"lock", "dist", "groups", "redist", "iface", "virt", "init", "barrier", "run"}]
  BY DEF GRedist, GicInv, GicTypes, GicType
<1>3. \A d \in GCpus : gcpu'[d] = IF d = c THEN "iface" ELSE gcpu[d]
  BY <1>2
<1>4. GicTypes'
  <2>1. glocal' \in [GCpus -> GLocals]
    <3>1. (IF suspends > 0 THEN glocal[c].frame ELSE FindFrame(c)) \in 0 .. Len(gframes)
      BY FrameFound DEF GicInv, GicTypes, GLocals
    <3>2. \A f \in 0 .. Len(gframes) :
             [glocal EXCEPT ![c].frame = f, ![c].sgis = TRUE, ![c].awake = TRUE] \in [GCpus -> GLocals]
      <4> DEFINE N == 0 .. Len(gframes)
      <4>1. glocal \in [GCpus -> [frame : N, sgis : BOOLEAN, awake : BOOLEAN, iface : BOOLEAN, virt : BOOLEAN]]
        BY DEF GicInv, GicTypes, GLocals
      <4> HIDE DEF N
      <4>2. \A f \in N : [glocal EXCEPT ![c].frame = f, ![c].sgis = TRUE, ![c].awake = TRUE]
                          \in [GCpus -> [frame : N, sgis : BOOLEAN, awake : BOOLEAN, iface : BOOLEAN, virt : BOOLEAN]]
        BY <4>1
      <4> QED
        BY <4>2 DEF N, GLocals
    <3> QED
      BY <3>1, <3>2, Zenon DEF GRedist
  <2>2. glocal' \in [GCpus -> GLocals']
    BY <1>1, <2>1 DEF GLocals
  <2> QED
    BY <1>1, <1>2, <2>2 DEF GicInv, GicTypes, GicType, Frames
<1>5. BootOrder'
  <2>1. gonline' = Cardinality(GOnlineCpus')
    BY <1>1, <1>2, GMoved DEF GRedist, GUp
  <2> QED
    BY <1>1, <1>3, <2>1 DEF GRedist, GHeld, GicInv, BootOrder, GUp, GHeldAt, GEarly
<1>6. PrivateParts'
  <2> DEFINE f == IF suspends > 0 THEN glocal[c].frame ELSE FindFrame(c)
  <2>1. gver = 3
    BY DEF GRedist, GicInv, PrivateParts, PrivatePart
  <2>2. f # 0 /\ gframes[f].cpu = c
    BY <2>1, FrameFound DEF GRedist, GicInv, GicTypes, PrivateParts, PrivatePart
  <2>3. glocal' = [glocal EXCEPT ![c].frame = f, ![c].sgis = TRUE, ![c].awake = TRUE]
    BY DEF GRedist
  <2> HIDE DEF f
  <2>4. glocal'[c].frame = f /\ glocal'[c].sgis /\ glocal'[c].awake
        /\ \A d \in GCpus : d # c => glocal'[d] = glocal[d]
    BY <2>3 DEF GicInv, GicTypes, GLocals
  <2>5. gcpu'[c] = "iface" /\ \A d \in GCpus : d # c => gcpu'[d] = gcpu[d]
    BY <1>3
  <2> QED
    BY <1>1, <2>2, <2>4, <2>5 DEF GicInv, PrivateParts, PrivatePart, GLate
<1>7. ConfCalls'
  BY <1>1, <1>3 DEF GRedist, GicInv, ConfCalls, GEarly, GUp
<1>8. SpisRight'
  BY <1>1, <1>3 DEF GRedist, GicInv, GicTypes, GicType, GConfig, SpisRight, SeenTo, AsConfigured, AsFault, GLate
<1> QED
  BY <1>4, <1>5, <1>6, <1>7, <1>8 DEF GicInv

\* GIface: the CPU interface.
LEMMA GIfaceSafe ==
    ASSUME GicInv, NEW c \in GCpus, GIface(c)
    PROVE  GicInv'
<1> USE GicAssumption
<1>1. UNCHANGED <<gver, gframes, fwd, gen, glvl, gtgt, gcfg, gjob, gtmp, glock, gtodo, gonline, suspends>>
  BY DEF GIface, gicd
<1>2. gcpu' = [gcpu EXCEPT ![c] = "virt"]
      /\ gcpu \in [GCpus -> {"lock", "dist", "groups", "redist", "iface", "virt", "init", "barrier", "run"}]
  BY DEF GIface, GicInv, GicTypes, GicType
<1>3. \A d \in GCpus : gcpu'[d] = IF d = c THEN "virt" ELSE gcpu[d]
  BY <1>2
<1>4. GicTypes'
  <2>1. glocal' \in [GCpus -> GLocals]
    <3> DEFINE N == 0 .. Len(gframes)
    <3>1. glocal \in [GCpus -> [frame : N, sgis : BOOLEAN, awake : BOOLEAN, iface : BOOLEAN, virt : BOOLEAN]]
      BY DEF GicInv, GicTypes, GLocals
    <3> HIDE DEF N
    <3>2. glocal' \in [GCpus -> [frame : N, sgis : BOOLEAN, awake : BOOLEAN, iface : BOOLEAN, virt : BOOLEAN]]
      BY <3>1 DEF GIface
    <3> QED
      BY <3>2 DEF N, GLocals
  <2>2. glocal' \in [GCpus -> GLocals']
    BY <1>1, <2>1 DEF GLocals
  <2> QED
    BY <1>1, <1>2, <2>2 DEF GicInv, GicTypes, GicType, Frames
<1>5. BootOrder'
  <2>1. gonline' = Cardinality(GOnlineCpus')
    BY <1>1, <1>2, GMoved DEF GIface, GUp
  <2> QED
    BY <1>1, <1>3, <2>1 DEF GIface, GHeld, GicInv, BootOrder, GUp, GHeldAt, GEarly
<1>6. PrivateParts'
  BY <1>1, <1>3 DEF GIface, GicInv, GicTypes, GLocals, PrivateParts, PrivatePart, GLate
<1>7. ConfCalls'
  BY <1>1, <1>3 DEF GIface, GicInv, ConfCalls, GEarly, GUp
<1>8. SpisRight'
  BY <1>1, <1>3 DEF GIface, GicInv, GicTypes, GicType, GConfig, SpisRight, SeenTo, AsConfigured, AsFault, GLate
<1> QED
  BY <1>4, <1>5, <1>6, <1>7, <1>8 DEF GicInv

\* GVirt: the virtual interface.
LEMMA GVirtSafe ==
    ASSUME GicInv, NEW c \in GCpus, GVirt(c)
    PROVE  GicInv'
<1> USE GicAssumption
<1>1. UNCHANGED <<gver, gframes, fwd, gen, glvl, gtgt, gcfg, gjob, gtmp, glock, gtodo, gonline, suspends>>
  BY DEF GVirt, gicd
<1>2. gcpu' = [gcpu EXCEPT ![c] = "init"]
      /\ gcpu \in [GCpus -> {"lock", "dist", "groups", "redist", "iface", "virt", "init", "barrier", "run"}]
  BY DEF GVirt, GicInv, GicTypes, GicType
<1>3. \A d \in GCpus : gcpu'[d] = IF d = c THEN "init" ELSE gcpu[d]
  BY <1>2
<1>4. GicTypes'
  <2>1. glocal' \in [GCpus -> GLocals]
    <3> DEFINE N == 0 .. Len(gframes)
    <3>1. glocal \in [GCpus -> [frame : N, sgis : BOOLEAN, awake : BOOLEAN, iface : BOOLEAN, virt : BOOLEAN]]
      BY DEF GicInv, GicTypes, GLocals
    <3> HIDE DEF N
    <3>2. glocal' \in [GCpus -> [frame : N, sgis : BOOLEAN, awake : BOOLEAN, iface : BOOLEAN, virt : BOOLEAN]]
      BY <3>1 DEF GVirt
    <3> QED
      BY <3>2 DEF N, GLocals
  <2>2. glocal' \in [GCpus -> GLocals']
    BY <1>1, <2>1 DEF GLocals
  <2> QED
    BY <1>1, <1>2, <2>2 DEF GicInv, GicTypes, GicType, Frames
<1>5. BootOrder'
  <2>1. gonline' = Cardinality(GOnlineCpus')
    BY <1>1, <1>2, GMoved DEF GVirt, GUp
  <2> QED
    BY <1>1, <1>3, <2>1 DEF GVirt, GHeld, GicInv, BootOrder, GUp, GHeldAt, GEarly
<1>6. PrivateParts'
  BY <1>1, <1>3 DEF GVirt, GicInv, GicTypes, GLocals, PrivateParts, PrivatePart, GLate
<1>7. ConfCalls'
  BY <1>1, <1>3 DEF GVirt, GicInv, ConfCalls, GEarly, GUp
<1>8. SpisRight'
  <2>1. gcfg \in [Spis -> GConfig] /\ \A s \in Spis : gcfg[s].cpu \in GCpus
    BY DEF GicInv, GicTypes, GicType, GConfig
  <2>2. gtodo[c] = ToConfigure(c)
    BY DEF GVirt, GicInv, ConfCalls, GEarly
  <2>3. \A d \in GCpus : d # c => (gcpu'[d] \in GLate <=> gcpu[d] \in GLate)
    BY <1>3
  <2>4. \A s \in Spis \ SmmuSpis : s \in gtodo[c]
    BY <2>2 DEF ToConfigure
  <2>5. c = GBoot => \A s \in SmmuSpis : s \in gtodo[c]
    BY <2>2 DEF ToConfigure
  <2> QED
    BY <1>1, <2>1, <2>3, <2>4, <2>5 DEF GicInv, SpisRight, SeenTo, AsConfigured, AsFault
<1> QED
  BY <1>4, <1>5, <1>6, <1>7, <1>8 DEF GicInv

\* The calls that change the assignment of work leave the boot as it is.
LEMMA GQuiet ==
    ASSUME GicInv, UNCHANGED <<gver, gframes, gcpu, glocal, fwd, gonline, suspends>>
    PROVE  BootOrder' /\ PrivateParts'
<1>1. BootOrder'
  BY DEF GicInv, BootOrder, GOnlineCpus
<1>2. PrivateParts'
  BY DEF GicInv, PrivateParts, PrivatePart
<1> QED
  BY <1>1, <1>2

\* Interrupt::init takes up an SPI.
LEMMA GInitSpiSafe ==
    ASSUME GicInv, NEW c \in GCpus, NEW s \in Spis, GInitSpi(c, s)
    PROVE  GicInv'
<1> USE GicAssumption
<1>1. UNCHANGED <<gver, gframes, gcpu, glocal, fwd, gen, glvl, gtgt, gcfg, gtmp, glock, gonline, suspends>>
  BY DEF GInitSpi, gicd
<1>2. BootOrder' /\ PrivateParts'
  BY <1>1, GQuiet
<1>3. /\ gcpu[c] = "init" /\ s \in gtodo[c] /\ gjob[c].spi = GNone /\ glock # c
      /\ gtodo' = [gtodo EXCEPT ![c] = gtodo[c] \ {s}]
  BY DEF GInitSpi
<1>4. /\ gjob \in [GCpus -> [spi : Spis \cup {GNone}, cfg : GConfig]] /\ gtodo \in [GCpus -> SUBSET Spis]
      /\ gcfg \in [Spis -> GConfig] /\ FaultConfig \in GConfig
  BY DEF GicInv, GicTypes, GicType, GConfig, FaultConfig
<1>5. \A d \in GCpus : gtodo'[d] = IF d = c THEN gtodo[c] \ {s} ELSE gtodo[d]
  BY <1>3, <1>4
<1>6. s \in SmmuSpis => c = GBoot
  BY <1>3 DEF GicInv, GicTypes, ToConfigure
<1>7. \A d \in GCpus : gcpu[d] # "run"
  BY <1>3 DEF GicInv, BootOrder, GUp
<1>8. \A d \in GCpus : gjob[d].spi # GNone => gcpu[d] = "init"
  BY <1>7 DEF GicInv, GicTypes, GicType, ConfCalls, GEarly
<1>9. CASE s \in SmmuSpis \/ gcfg[s].cpu = c
  <2> DEFINE f == IF s \in SmmuSpis THEN FaultConfig ELSE gcfg[s]
  <2>1. gjob' = [gjob EXCEPT ![c] = [spi |-> s, cfg |-> f]] /\ f \in GConfig
    BY <1>4, <1>9 DEF GInitSpi
  <2> HIDE DEF f
  <2>2. \A d \in GCpus : gjob'[d] = IF d = c THEN [spi |-> s, cfg |-> f] ELSE gjob[d]
    BY <1>4, <2>1
  <2>3. \A d \in GCpus : d # c => gjob[d].spi # s
    BY <1>6, <1>8, <1>9 DEF GicInv, ConfCalls
  <2>4. GicTypes'
    <3>1. gjob' \in [GCpus -> [spi : Spis \cup {GNone}, cfg : GConfig]]
      BY <1>4, <2>1
    <3>2. gtodo' \in [GCpus -> SUBSET Spis] /\ \A d \in GCpus : gtodo'[d] \subseteq ToConfigure(d)
      BY <1>3, <1>4, <1>5 DEF GicInv, GicTypes
    <3> QED
      BY <1>1, <3>1, <3>2 DEF GicInv, GicTypes, GicType, Frames, GLocals
  <2>5. ConfCalls'
    <3>1. /\ gjob'[c].spi = s /\ gjob'[c].cfg = f /\ s # GNone /\ s \notin gtodo'[c]
          /\ \A d \in GCpus : d # c => gjob'[d] = gjob[d] /\ gtodo'[d] = gtodo[d]
      BY <1>5, <2>2
    <3>2. s \in SmmuSpis => f = FaultConfig
      BY DEF f
    <3>3. s \notin SmmuSpis => f = gcfg[s] /\ gcfg[s].cpu = c
      BY <1>9 DEF f
    <3> QED
      BY <1>1, <1>3, <1>6, <2>3, <3>1, <3>2, <3>3 DEF GicInv, ConfCalls, GEarly, GUp
  <2>6. SpisRight'
    <3>1. \A d \in GCpus, t \in Spis : t # s => (t \in gtodo'[d] <=> t \in gtodo[d])
      BY <1>5
    <3>2. \A d \in GCpus, t \in Spis : t # s /\ gjob'[d].spi # t => gjob[d].spi # t
      BY <1>3, <2>2
    <3>3. gjob'[c].spi = s
      BY <2>2
    <3>4. ASSUME NEW t \in Spis \ SmmuSpis, SeenTo(gcfg[t].cpu, t)', \A d \in GCpus : gjob'[d].spi # t
          PROVE  AsConfigured(t)'
      <4>1. t # s /\ (\A d \in GCpus : gjob[d].spi # t) /\ gcfg[t].cpu \in GCpus
        BY <1>4, <3>2, <3>3, <3>4 DEF GConfig
      <4>2. AsConfigured(t)
        BY <1>1, <3>1, <3>4, <4>1 DEF GicInv, SpisRight, SeenTo
      <4> QED
        BY <1>1, <4>2 DEF AsConfigured
    <3>5. ASSUME NEW t \in SmmuSpis, SeenTo(GBoot, t)', gjob'[GBoot].spi # t
          PROVE  AsFault(t)'
      <4>1. t # s /\ gjob[GBoot].spi # t
        BY <1>6, <3>2, <3>3, <3>5
      <4>2. AsFault(t)
        BY <1>1, <3>1, <3>5, <4>1 DEF GicInv, SpisRight, SeenTo
      <4> QED
        BY <1>1, <4>2 DEF AsFault
    <3> QED
      BY <1>1, <3>4, <3>5 DEF SpisRight
  <2> QED
    BY <1>2, <2>4, <2>5, <2>6 DEF GicInv
<1>10. CASE s \notin SmmuSpis /\ gcfg[s].cpu # c
  <2>1. gjob' = gjob
    BY <1>10 DEF GInitSpi
  <2>2. GicTypes'
    <3>1. gtodo' \in [GCpus -> SUBSET Spis] /\ \A d \in GCpus : gtodo'[d] \subseteq ToConfigure(d)
      BY <1>3, <1>4, <1>5 DEF GicInv, GicTypes
    <3> QED
      BY <1>1, <2>1, <3>1 DEF GicInv, GicTypes, GicType, Frames, GLocals
  <2>3. ConfCalls'
    BY <1>1, <1>3, <1>5, <2>1 DEF GicInv, ConfCalls, GEarly, GUp
  <2>4. SpisRight'
    <3>1. \A t \in Spis \ SmmuSpis : gcfg[t].cpu \in GCpus /\ (t \in gtodo'[gcfg[t].cpu] <=> t \in gtodo[gcfg[t].cpu])
      BY <1>4, <1>5, <1>10 DEF GConfig
    <3>2. \A t \in SmmuSpis : t \in gtodo'[GBoot] <=> t \in gtodo[GBoot]
      BY <1>5, <1>10
    <3>3. ASSUME NEW t \in Spis \ SmmuSpis, SeenTo(gcfg[t].cpu, t)', \A d \in GCpus : gjob'[d].spi # t
          PROVE  AsConfigured(t)'
      <4>1. AsConfigured(t)
        BY <1>1, <2>1, <3>1, <3>3 DEF GicInv, SpisRight, SeenTo
      <4> QED
        BY <1>1, <4>1 DEF AsConfigured
    <3>4. ASSUME NEW t \in SmmuSpis, SeenTo(GBoot, t)', gjob'[GBoot].spi # t
          PROVE  AsFault(t)'
      <4>1. AsFault(t)
        BY <1>1, <2>1, <3>2, <3>4 DEF GicInv, SpisRight, SeenTo
      <4> QED
        BY <1>1, <4>1 DEF AsFault
    <3> QED
      BY <1>1, <3>3, <3>4 DEF SpisRight
  <2> QED
    BY <1>2, <2>2, <2>3, <2>4 DEF GicInv
<1> QED
  BY <1>9, <1>10

\* Gicd::conf masks the SPI and reads the shared register, under Gicd::lock.
LEMMA GConfMaskSafe ==
    ASSUME GicInv, NEW c \in GCpus, GConfMask(c)
    PROVE  GicInv'
<1> USE GicAssumption
<1>1. UNCHANGED <<gver, gframes, gcpu, glocal, fwd, glvl, gtgt, gcfg, gjob, gtodo, gonline, suspends>>
  BY DEF GConfMask
<1>2. BootOrder' /\ PrivateParts'
  BY <1>1, GQuiet
<1> DEFINE s == gjob[c].spi
<1>3. /\ s \in Spis /\ glock = GNone /\ glock' = c /\ gen' = [gen EXCEPT ![s] = FALSE]
      /\ gtmp' = [gtmp EXCEPT ![c] = glvl]
  BY DEF GConfMask, GicInv, GicTypes
<1>4. gen \in [Spis -> BOOLEAN] /\ gtmp \in [GCpus -> [Spis -> BOOLEAN]] /\ glvl \in [Spis -> BOOLEAN]
  BY DEF GicInv, GicTypes, GicType
<1> HIDE DEF s
<1>5. gen' \in [Spis -> BOOLEAN] /\ \A t \in Spis : t # s => gen'[t] = gen[t]
  BY <1>3, <1>4
<1>6. gtmp' \in [GCpus -> [Spis -> BOOLEAN]] /\ gtmp'[c] = glvl
  BY <1>3, <1>4
<1>7. GicTypes'
  BY <1>1, <1>3, <1>5, <1>6 DEF GicInv, GicTypes, GicType, Frames, GLocals
<1>8. ConfCalls'
  BY <1>1, <1>3, <1>6 DEF GicInv, ConfCalls, s
<1>9. SpisRight'
  <2>1. \A t \in Spis : (\A d \in GCpus : gjob[d].spi # t) => t # s
    BY DEF s
  <2>2. \A t \in SmmuSpis : gjob[GBoot].spi # t => t # s
    BY DEF s, GicInv, ConfCalls
  <2> QED
    BY <1>1, <1>5, <2>1, <2>2 DEF GicInv, SpisRight, SeenTo, AsConfigured, AsFault
<1> QED
  BY <1>2, <1>7, <1>8, <1>9 DEF GicInv

\* Gicd::conf writes the register back, sets target and mask, and unlocks.
LEMMA GConfFinishSafe ==
    ASSUME GicInv, NEW c \in GCpus, GConfFinish(c)
    PROVE  GicInv'
<1> USE GicAssumption
<1>1. UNCHANGED <<gver, gframes, gcpu, glocal, fwd, gcfg, gtmp, gtodo, gonline, suspends>>
  BY DEF GConfFinish
<1>2. BootOrder' /\ PrivateParts'
  BY <1>1, GQuiet
<1> DEFINE s == gjob[c].spi
<1> DEFINE f == gjob[c].cfg
<1>3. /\ s \in Spis /\ glock = c /\ glock' = GNone /\ gtmp[c] = glvl /\ f \in GConfig
      /\ glvl' = [glvl EXCEPT ![s] = f.lvl] /\ gtgt' = [gtgt EXCEPT ![s] = f.cpu]
      /\ gen' = [gen EXCEPT ![s] = ~f.msk] /\ gjob' = [gjob EXCEPT ![c] = NoJob]
  <2>1. glock = c /\ glock' = GNone /\ s # GNone
    BY DEF GConfFinish
  <2>2. s \in Spis /\ f \in GConfig
    BY <2>1 DEF GicInv, GicTypes
  <2>3. gtmp[c] = glvl
    BY <2>1 DEF GicInv, ConfCalls
  <2>4. /\ glvl' = [gtmp[c] EXCEPT ![s] = f.lvl] /\ gtgt' = [gtgt EXCEPT ![s] = f.cpu]
        /\ gen' = [gen EXCEPT ![s] = ~f.msk] /\ gjob' = [gjob EXCEPT ![c] = NoJob]
    BY Zenon DEF GConfFinish
  <2> QED
    BY <2>1, <2>2, <2>3, <2>4, Zenon
<1>4. /\ gen \in [Spis -> BOOLEAN] /\ glvl \in [Spis -> BOOLEAN] /\ gtgt \in [Spis -> GCpus \cup {GNone}]
      /\ gjob \in [GCpus -> [spi : Spis \cup {GNone}, cfg : GConfig]]
  BY DEF GicInv, GicTypes, GicType
<1>5. NoJob \in [spi : Spis \cup {GNone}, cfg : GConfig] /\ NoJob.spi = GNone
  BY DEF NoJob, GConfig
<1>6. /\ \A d \in GCpus : d # c => gjob'[d] = gjob[d]
      /\ gjob'[c].spi = GNone /\ gjob' \in [GCpus -> [spi : Spis \cup {GNone}, cfg : GConfig]]
  BY <1>3, <1>4, <1>5
<1>7. s \in Spis \ SmmuSpis => f = gcfg[s]
  BY DEF GicInv, ConfCalls
<1>8. s \in SmmuSpis => f = FaultConfig
  BY DEF GicInv, ConfCalls
<1>9. \A d \in GCpus : d # c => gjob[d].spi # s
  BY <1>3 DEF GicInv, ConfCalls
<1> HIDE DEF s, f
<1>10. /\ gen' \in [Spis -> BOOLEAN] /\ glvl' \in [Spis -> BOOLEAN] /\ gtgt' \in [Spis -> GCpus \cup {GNone}]
       /\ gen'[s] = ~f.msk /\ glvl'[s] = f.lvl /\ gtgt'[s] = f.cpu
       /\ \A t \in Spis : t # s => gen'[t] = gen[t] /\ glvl'[t] = glvl[t] /\ gtgt'[t] = gtgt[t]
  BY <1>3, <1>4 DEF GConfig
<1>11. GicTypes'
  BY <1>1, <1>3, <1>6, <1>10 DEF GicInv, GicTypes, GicType, Frames, GLocals
<1>12. ConfCalls'
  BY <1>1, <1>3, <1>6 DEF GicInv, GicTypes, ConfCalls
<1>13. SpisRight'
  <2>1. ASSUME NEW t \in Spis \ SmmuSpis, SeenTo(gcfg[t].cpu, t)', \A d \in GCpus : gjob'[d].spi # t
        PROVE  AsConfigured(t)'
    <3>1. CASE t = s
      BY <1>1, <1>7, <1>10, <3>1 DEF AsConfigured
    <3>2. CASE t # s
      <4>1. \A d \in GCpus : gjob[d].spi # t
        BY <1>6, <2>1, <3>2 DEF s
      <4>2. AsConfigured(t)
        BY <1>1, <2>1, <4>1 DEF GicInv, SpisRight, SeenTo
      <4> QED
        BY <1>1, <1>10, <3>2, <4>2 DEF AsConfigured
    <3> QED
      BY <3>1, <3>2
  <2>2. ASSUME NEW t \in SmmuSpis, SeenTo(GBoot, t)', gjob'[GBoot].spi # t
        PROVE  AsFault(t)'
    <3>1. CASE t = s
      BY <1>8, <1>10, <3>1 DEF AsFault, FaultConfig
    <3>2. CASE t # s
      <4>1. gjob[GBoot].spi # t
        BY <1>6, <2>2, <3>2 DEF s
      <4>2. AsFault(t)
        BY <1>1, <2>2, <4>1 DEF GicInv, SpisRight, SeenTo
      <4> QED
        BY <1>10, <3>2, <4>2 DEF AsFault
    <3> QED
      BY <3>1, <3>2
  <2> QED
    BY <1>1, <2>1, <2>2 DEF SpisRight
<1> QED
  BY <1>2, <1>11, <1>12, <1>13 DEF GicInv


\* bootstrap: a CPU that has seen to all its SPIs enters the barrier.
LEMMA GArriveSafe ==
    ASSUME GicInv, NEW c \in GCpus, GArrive(c)
    PROVE  GicInv'
<1> USE GicAssumption
<1>1. UNCHANGED <<gver, gframes, glocal, fwd, gen, glvl, gtgt, gcfg, gjob, gtmp, glock, gtodo, suspends>>
  BY DEF GArrive, gicd
<1>2. gcpu' = [gcpu EXCEPT ![c] = "barrier"]
      /\ gcpu \in [GCpus -> {"lock", "dist", "groups", "redist", "iface", "virt", "init", "barrier", "run"}]
  BY DEF GArrive, GicInv, GicTypes, GicType
<1>3. \A d \in GCpus : gcpu'[d] = IF d = c THEN "barrier" ELSE gcpu[d]
  BY <1>2
<1>4. gcpu[c] = "init" /\ gtodo[c] = {} /\ gjob[c].spi = GNone /\ gonline' = gonline + 1
  BY DEF GArrive
<1>5. gonline' = Cardinality(GOnlineCpus') /\ gonline' \in 0 .. Cardinality(GCpus)
  <2>1. GOnlineCpus' = GOnlineCpus \cup {c} /\ c \notin GOnlineCpus
    BY <1>3, <1>4 DEF GOnlineCpus, GUp
  <2>2. Cardinality(GOnlineCpus') = Cardinality(GOnlineCpus) + 1
    BY <2>1, FS_AddElement, GOnlineFinite
  <2>3. GOnlineCpus' \subseteq GCpus
    BY DEF GOnlineCpus
  <2>4. Cardinality(GOnlineCpus') <= Cardinality(GCpus)
    BY <2>3, FS_Subset
  <2>5. gonline = Cardinality(GOnlineCpus)
    BY DEF GicInv, BootOrder
  <2> QED
    BY <1>4, <2>2, <2>4, <2>5, GOnlineFinite
<1>6. GicTypes'
  BY <1>1, <1>2, <1>5 DEF GicInv, GicTypes, GicType, Frames, GLocals
<1>7. BootOrder'
  BY <1>1, <1>3, <1>4, <1>5 DEF GicInv, BootOrder, GUp, GHeldAt, GEarly
<1>8. PrivateParts'
  BY <1>1, <1>3, <1>4 DEF GicInv, PrivateParts, PrivatePart, GLate
<1>9. ConfCalls'
  BY <1>1, <1>3, <1>4 DEF GicInv, ConfCalls, GEarly, GUp
<1>10. SpisRight'
  <2>1. \A d \in GCpus : gcpu'[d] \in GLate => gcpu[d] \in GLate
    BY <1>3, <1>4 DEF GLate
  <2>2. \A s \in Spis : gcfg[s].cpu \in GCpus
    BY DEF GicInv, GicTypes, GicType, GConfig
  <2> QED
    BY <1>1, <2>1, <2>2 DEF GicInv, SpisRight, SeenTo, AsConfigured, AsFault
<1> QED
  BY <1>6, <1>7, <1>8, <1>9, <1>10 DEF GicInv

\* bootstrap: the barrier opens when all CPUs are in it.
LEMMA GRunSafe ==
    ASSUME GicInv, NEW c \in GCpus, GRun(c)
    PROVE  GicInv'
<1> USE GicAssumption
<1>1. UNCHANGED <<gver, gframes, glocal, fwd, gen, glvl, gtgt, gcfg, gjob, gtmp, glock, gtodo, gonline, suspends>>
  BY DEF GRun, gicd
<1>2. gcpu' = [gcpu EXCEPT ![c] = "run"]
      /\ gcpu \in [GCpus -> {"lock", "dist", "groups", "redist", "iface", "virt", "init", "barrier", "run"}]
  BY DEF GRun, GicInv, GicTypes, GicType
<1>3. \A d \in GCpus : gcpu'[d] = IF d = c THEN "run" ELSE gcpu[d]
  BY <1>2
<1>4. gcpu[c] = "barrier"
  BY DEF GRun
<1>5. \A d \in GCpus : gcpu[d] \in GUp
  <2>1. Cardinality(GOnlineCpus) = Cardinality(GCpus) /\ GOnlineCpus \subseteq GCpus
    BY DEF GRun, GicInv, BootOrder, GOnlineCpus
  <2>2. GOnlineCpus = GCpus
    BY <2>1, FS_Subset
  <2> QED
    BY <2>2 DEF GOnlineCpus
<1>6. gonline' = Cardinality(GOnlineCpus')
  BY <1>1, <1>2, <1>4, GMoved DEF GUp
<1>7. GicTypes'
  BY <1>1, <1>2 DEF GicInv, GicTypes, GicType, Frames, GLocals
<1>8. BootOrder'
  BY <1>1, <1>3, <1>4, <1>5, <1>6 DEF GicInv, BootOrder, GUp, GHeldAt, GEarly
<1>9. PrivateParts'
  BY <1>1, <1>3, <1>4 DEF GicInv, PrivateParts, PrivatePart, GLate
<1>10. ConfCalls'
  BY <1>1, <1>3, <1>4 DEF GicInv, ConfCalls, GEarly, GUp
<1>11. SpisRight'
  <2>1. \A d \in GCpus : gcpu'[d] \in GLate => gcpu[d] \in GLate
    BY <1>3, <1>4 DEF GLate
  <2>2. \A s \in Spis : gcfg[s].cpu \in GCpus
    BY DEF GicInv, GicTypes, GicType, GConfig
  <2> QED
    BY <1>1, <2>1, <2>2 DEF GicInv, SpisRight, SeenTo, AsConfigured, AsFault
<1> QED
  BY <1>7, <1>8, <1>9, <1>10, <1>11 DEF GicInv

\* assign_int: the configuration is recorded and Gicd::conf called with it.
LEMMA GAssignSafe ==
    ASSUME GicInv, NEW c \in GCpus, NEW s \in Spis, NEW f \in GConfig, GAssign(c, s, f)
    PROVE  GicInv'
<1> USE GicAssumption
<1>1. UNCHANGED <<gver, gframes, gcpu, glocal, fwd, gen, glvl, gtgt, gtmp, glock, gtodo, gonline, suspends>>
  BY DEF GAssign, gicd
<1>2. BootOrder' /\ PrivateParts'
  BY <1>1, GQuiet
<1>3. /\ gcpu[c] = "run" /\ gjob[c].spi = GNone /\ s \in Spis \ SmmuSpis /\ \A d \in GCpus : gjob[d].spi # s
      /\ gcfg' = [gcfg EXCEPT ![s] = f] /\ gjob' = [gjob EXCEPT ![c] = [spi |-> s, cfg |-> f]]
  BY DEF GAssign
<1>4. gjob \in [GCpus -> [spi : Spis \cup {GNone}, cfg : GConfig]] /\ gcfg \in [Spis -> GConfig]
  BY DEF GicInv, GicTypes, GicType
<1>5. /\ gjob' \in [GCpus -> [spi : Spis \cup {GNone}, cfg : GConfig]]
      /\ gjob'[c].spi = s /\ gjob'[c].cfg = f /\ \A d \in GCpus : d # c => gjob'[d] = gjob[d]
  BY <1>3, <1>4
<1>6. gcfg' \in [Spis -> GConfig] /\ gcfg'[s] = f /\ \A t \in Spis : t # s => gcfg'[t] = gcfg[t]
  BY <1>3, <1>4
<1>7. \A d \in GCpus : gcpu[d] \in GUp /\ gtodo[d] = {}
  BY <1>3 DEF GicInv, BootOrder, ConfCalls
<1>8. GicTypes'
  BY <1>1, <1>5, <1>6 DEF GicInv, GicTypes, GicType, Frames, GLocals
<1>9. ConfCalls'
  <2>1. glock # c
    BY <1>3 DEF GicInv, ConfCalls
  <2>2. \A d \in GCpus : gjob[d].spi \in Spis \cup {GNone}
    BY <1>4
  <2> QED
    BY <1>1, <1>3, <1>5, <1>6, <1>7, <2>1, <2>2 DEF GicInv, ConfCalls, GEarly, GUp
<1>10. SpisRight'
  <2>1. ASSUME NEW t \in Spis \ SmmuSpis, SeenTo(gcfg[t].cpu, t)', \A d \in GCpus : gjob'[d].spi # t
        PROVE  AsConfigured(t)'
    <3>1. t # s /\ gcfg'[t] = gcfg[t]
      BY <1>5, <1>6, <2>1
    <3>2. \A d \in GCpus : gjob[d].spi # t
      BY <1>3, <1>5, <2>1
    <3>3. AsConfigured(t)
      BY <1>1, <2>1, <3>1, <3>2 DEF GicInv, SpisRight, SeenTo
    <3> QED
      BY <1>1, <3>1, <3>3 DEF AsConfigured
  <2>2. ASSUME NEW t \in SmmuSpis, SeenTo(GBoot, t)', gjob'[GBoot].spi # t
        PROVE  AsFault(t)'
    <3>1. gjob[GBoot].spi # t
      BY <1>3, <1>5, <2>2
    <3>2. AsFault(t)
      BY <1>1, <2>2, <3>1 DEF GicInv, SpisRight, SeenTo
    <3> QED
      BY <1>1, <3>2 DEF AsFault
  <2> QED
    BY <2>1, <2>2 DEF SpisRight
<1> QED
  BY <1>2, <1>8, <1>9, <1>10 DEF GicInv

\* A suspend: the controller and the boot start over; int_table and the frames stay.
LEMMA GSuspendSafe ==
    ASSUME GicInv, GSuspend
    PROVE  GicInv'
<1> USE GicAssumption
<1>1. /\ UNCHANGED <<gver, gframes, gcfg, gjob, gtmp, glock>>
      /\ suspends' = suspends + 1 /\ gonline' = 0
      /\ \A c \in GCpus : gcpu[c] = "run" /\ gjob[c].spi = GNone
  BY DEF GSuspend
<1>2. /\ fwd' \in BOOLEAN /\ gen' \in [Spis -> BOOLEAN] /\ glvl' \in [Spis -> BOOLEAN]
      /\ gtgt' \in [Spis -> GCpus \cup {GNone}]
  BY DEF GSuspend, GReset
<1>3. gcpu' = [c \in GCpus |-> "lock"] /\ gtodo' = [c \in GCpus |-> ToConfigure(c)]
  BY DEF GSuspend
<1>4. \A c \in GCpus : gcpu'[c] = "lock" /\ gtodo'[c] = ToConfigure(c)
  BY <1>3
<1>5. glock = GNone
  BY <1>1 DEF GicInv, GicTypes, GicType, ConfCalls
<1>6. glocal' \in [GCpus -> GLocals] /\ \A c \in GCpus : glocal'[c].frame = glocal[c].frame
  <2>1. glocal' = [c \in GCpus |-> [GLost EXCEPT !.frame = glocal[c].frame]]
    BY DEF GSuspend
  <2>2. \A c \in GCpus : glocal[c].frame \in 0 .. Len(gframes)
    BY DEF GicInv, GicTypes, GLocals
  <2>3. \A n \in 0 .. Len(gframes) : [GLost EXCEPT !.frame = n] \in GLocals /\ [GLost EXCEPT !.frame = n].frame = n
    BY DEF GLost, GLocals
  <2> QED
    BY <2>1, <2>2, <2>3, Zenon
<1>7. GicTypes'
  <2>1. glocal' \in [GCpus -> GLocals']
    BY <1>1, <1>6 DEF GLocals
  <2>2. suspends' \in Nat /\ gonline' \in 0 .. Cardinality(GCpus)
    BY <1>1, GOnlineFinite DEF GicInv, GicTypes
  <2>3. gcpu' \in [GCpus -> {"lock", "dist", "groups", "redist", "iface", "virt", "init", "barrier", "run"}]
    BY <1>3
  <2>4. gtodo' \in [GCpus -> SUBSET Spis] /\ \A c \in GCpus : gtodo'[c] \subseteq ToConfigure(c)
    BY <1>3 DEF ToConfigure
  <2> QED
    BY <1>1, <1>2, <2>1, <2>2, <2>3, <2>4 DEF GicInv, GicTypes, GicType, Frames
<1>8. BootOrder'
  <2>1. GOnlineCpus' = {}
    BY <1>4 DEF GOnlineCpus, GUp
  <2>2. gonline' = Cardinality(GOnlineCpus')
    BY <1>1, <2>1, FS_EmptySet
  <2> QED
    BY <1>4, <2>2 DEF BootOrder, GUp, GHeldAt, GEarly
<1>9. PrivateParts'
  <2>1. gver = 3 => \A c \in GCpus : glocal[c].frame # 0 /\ gframes[glocal[c].frame].cpu = c
    BY <1>1 DEF GicInv, PrivateParts, PrivatePart, GLate
  <2> QED
    BY <1>1, <1>4, <1>6, <2>1 DEF PrivateParts, PrivatePart, GLate
<1>10. ConfCalls'
  <2>1. \A c \in GCpus : GNone \notin ToConfigure(c)
    BY DEF ToConfigure
  <2>2. \A c \in GCpus : gjob'[c].spi = GNone /\ glock' # c
    BY <1>1, <1>5
  <2> QED
    BY <1>4, <2>1, <2>2 DEF ConfCalls, GEarly, GUp
<1>11. SpisRight'
  <2>1. \A c \in GCpus : gcpu'[c] \notin GLate
    BY <1>4 DEF GLate
  <2>2. \A s \in Spis : gcfg'[s].cpu \in GCpus
    BY <1>1 DEF GicInv, GicTypes, GicType, GConfig
  <2> QED
    BY <2>1, <2>2 DEF SpisRight, SeenTo
<1> QED
  BY <1>7, <1>8, <1>9, <1>10, <1>11 DEF GicInv

\* The invariant holds when the boot begins.
LEMMA GicInitInv ==
    ASSUME GicInit
    PROVE  GicInv
<1> USE GicAssumption
<1>1. Frames
  <2>1. gframes \in [1 .. Cardinality(GCpus) -> [cpu : GCpus, long : BOOLEAN]]
        /\ {gframes[i].cpu : i \in DOMAIN gframes} = GCpus
    BY DEF GicInit
  <2>2. Cardinality(GCpus) \in Nat \ {0}
    BY FS_EmptySet, FS_CardinalityType
  <2>3. gframes \in Seq([cpu : GCpus, long : BOOLEAN]) /\ Len(gframes) = Cardinality(GCpus)
        /\ DOMAIN gframes = 1 .. Len(gframes)
    <3> DEFINE N == Cardinality(GCpus)  T == [cpu : GCpus, long : BOOLEAN]
    <3>1. N \in Nat /\ gframes \in [1 .. N -> T]
      BY <2>1, <2>2
    <3> HIDE DEF N, T
    <3>2. gframes \in Seq(T) /\ Len(gframes) = N
      BY <3>1
    <3> QED
      BY <3>1, <3>2 DEF N, T
  <2> QED
    BY <2>1, <2>2, <2>3 DEF Frames
<1>2. GDefault \in GCpus
  BY DEF GDefault
<1>3. /\ \A c \in GCpus : gcpu[c] = "lock" /\ gjob[c] = NoJob /\ gtodo[c] = ToConfigure(c)
      /\ glock = GNone /\ gonline = 0 /\ suspends = 0
  BY DEF GicInit
<1>4. NoJob \in [spi : Spis \cup {GNone}, cfg : GConfig] /\ NoJob.spi = GNone
  BY DEF NoJob, GConfig
<1>5. GicTypes
  <2>1. GLost \in GLocals
    BY <1>1 DEF GLost, GLocals, Frames
  <2>2. glocal \in [GCpus -> GLocals] /\ gjob \in [GCpus -> [spi : Spis \cup {GNone}, cfg : GConfig]]
    BY <1>4, <2>1 DEF GicInit
  <2>3. gcfg \in [Spis -> GConfig]
    BY <1>2 DEF GicInit, GConfig
  <2>4. gtodo \in [GCpus -> SUBSET Spis] /\ \A c \in GCpus : gtodo[c] \subseteq ToConfigure(c)
    BY DEF GicInit, ToConfigure
  <2>5. gcpu \in [GCpus -> {"lock", "dist", "groups", "redist", "iface", "virt", "init", "barrier", "run"}]
    BY DEF GicInit
  <2>6. /\ gver \in {2, 3} /\ fwd \in BOOLEAN /\ suspends \in Nat /\ gen \in [Spis -> BOOLEAN]
        /\ glvl \in [Spis -> BOOLEAN] /\ gtgt \in [Spis -> GCpus \cup {GNone}] /\ gtmp \in [GCpus -> [Spis -> BOOLEAN]]
    BY DEF GicInit
  <2>7. gonline \in 0 .. Cardinality(GCpus)
    BY <1>3, GOnlineFinite
  <2> QED
    BY <1>1, <1>3, <2>2, <2>3, <2>4, <2>5, <2>6, <2>7 DEF GicTypes, GicType
<1>6. BootOrder
  <2>1. GOnlineCpus = {}
    BY <1>3 DEF GOnlineCpus, GUp
  <2>2. gonline = Cardinality(GOnlineCpus)
    BY <1>3, <2>1, FS_EmptySet
  <2> QED
    BY <1>3, <2>2 DEF BootOrder, GUp, GHeldAt, GEarly
<1>7. PrivateParts
  BY <1>3 DEF PrivateParts, PrivatePart, GLate
<1>8. ConfCalls
  <2>1. \A c \in GCpus : GNone \notin ToConfigure(c)
    BY DEF ToConfigure
  <2> QED
    BY <1>3, <1>4, <2>1 DEF ConfCalls, GEarly, GUp
<1>9. SpisRight
  <2>1. \A s \in Spis : gcfg[s].cpu \in GCpus
    BY <1>5 DEF GicTypes, GicType, GConfig
  <2> QED
    BY <1>3, <2>1 DEF SpisRight, SeenTo, GLate
<1> QED
  BY <1>5, <1>6, <1>7, <1>8, <1>9 DEF GicInv

\* Every step of the controller keeps the invariant.
LEMMA GicStepSafe ==
    ASSUME GicInv, [GicNext]_gicVars
    PROVE  GicInv'
<1>1. CASE UNCHANGED gicVars
  <2>1. UNCHANGED <<gver, gframes, gcpu, glocal, fwd, gen, glvl, gtgt, gcfg, gjob, gtmp, glock, gtodo, gonline, suspends>>
    BY <1>1 DEF gicVars, gicd
  <2>2. GicTypes'
    BY <2>1 DEF GicInv, GicTypes, GicType, Frames, GLocals
  <2>3. BootOrder' /\ PrivateParts'
    BY <2>1, GQuiet
  <2>4. ConfCalls'
    BY <2>1 DEF GicInv, ConfCalls
  <2>5. SpisRight'
    BY <2>1 DEF GicInv, SpisRight, SeenTo, AsConfigured, AsFault
  <2> QED
    BY <2>2, <2>3, <2>4, <2>5 DEF GicInv
<1>2. CASE GSuspend
  BY <1>2, GSuspendSafe
<1>3. ASSUME NEW c \in GCpus,
             \/ GEnter(c) \/ GDistOff(c) \/ GDistOn(c) \/ GRedist(c) \/ GIface(c) \/ GVirt(c)
             \/ GConfMask(c) \/ GConfFinish(c) \/ GArrive(c) \/ GRun(c)
      PROVE  GicInv'
  BY <1>3, GEnterSafe, GDistOffSafe, GDistOnSafe, GRedistSafe, GIfaceSafe, GVirtSafe, GConfMaskSafe,
     GConfFinishSafe, GArriveSafe, GRunSafe
<1>4. ASSUME NEW c \in GCpus, NEW s \in Spis, GInitSpi(c, s)
      PROVE  GicInv'
  BY <1>4, GInitSpiSafe
<1>5. ASSUME NEW c \in GCpus, NEW s \in Spis, NEW f \in GConfig, GAssign(c, s, f)
      PROVE  GicInv'
  BY <1>5, GAssignSafe
<1> QED
  BY <1>1, <1>2, <1>3, <1>4, <1>5 DEF GicNext

\* When a CPU runs, all have passed the barrier, so every SPI has been seen to.
LEMMA GicInvSuffices ==
    ASSUME GicInv
    PROVE  GicExact
<1> USE GicAssumption
<1>1. GicType
  BY DEF GicInv, GicTypes
<1>2. ASSUME \E c \in GCpus : gcpu[c] = "run"
      PROVE  /\ \A s \in Spis \ SmmuSpis : (\A c \in GCpus : gjob[c].spi # s) => AsConfigured(s)
             /\ \A s \in SmmuSpis : AsFault(s)
             /\ fwd
             /\ \A c \in GCpus :
                   /\ glocal[c].sgis /\ glocal[c].awake /\ glocal[c].iface /\ glocal[c].virt
                   /\ gver >= 3 => gframes[glocal[c].frame].cpu = c
  <2>1. \A c \in GCpus : gcpu[c] \in GUp /\ gtodo[c] = {}
    BY <1>2 DEF GicInv, BootOrder, ConfCalls
  <2>2. \A s \in Spis : gcfg[s].cpu \in GCpus
    BY <1>1 DEF GicType, GConfig
  <2>3. \A s \in Spis \ SmmuSpis : (\A c \in GCpus : gjob[c].spi # s) => AsConfigured(s)
    BY <2>1, <2>2 DEF GicInv, SpisRight, SeenTo, GUp, GLate
  <2>4. \A s \in SmmuSpis : AsFault(s)
    <3>1. \A s \in SmmuSpis : gjob[GBoot].spi # s
      BY <2>1 DEF GicInv, ConfCalls, GUp
    <3> QED
      BY <2>1, <3>1 DEF GicInv, SpisRight, SeenTo, GUp, GLate
  <2>5. fwd
    BY <2>1 DEF GicInv, BootOrder, GUp
  <2>6. gver \in {2, 3}
    BY DEF GicInv, GicTypes
  <2>7. \A c \in GCpus :
           /\ glocal[c].sgis /\ glocal[c].awake /\ glocal[c].iface /\ glocal[c].virt
           /\ gver >= 3 => gframes[glocal[c].frame].cpu = c
    BY <2>1, <2>6 DEF GicInv, PrivateParts, PrivatePart, GUp, GLate
  <2> QED
    BY <2>3, <2>4, <2>5, <2>7
<1> QED
  BY <1>1, <1>2 DEF GicExact, AsConfigured, AsFault

(***************************************************************************)
(* As soon as a CPU runs, after a boot or a resume, every SPI that no      *)
(* Gicd::conf is working on is enabled, triggered and routed as int_table  *)
(* says, the fault interrupts of the SMMUs reach the boot CPU, forwarding  *)
(* is on, and every CPU has found its own redistributor, for any number of *)
(* CPUs, any order of the frames and any interleaving of the boot.         *)
(***************************************************************************)
THEOREM GicStaysExact == GicSpec => []GicExact
<1>1. GicInit => GicInv
  BY GicInitInv
<1>2. GicInv /\ [GicNext]_gicVars => GicInv'
  BY GicStepSafe
<1>3. GicInv => GicExact
  BY GicInvSuffices
<1> QED
  BY <1>1, <1>2, <1>3, PTL DEF GicSpec
=============================================================================
