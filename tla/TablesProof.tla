----------------------------- MODULE TablesProof -----------------------------
(***************************************************************************)
(* Proofs about what CPUs and IOMMUs keep of address translations: the TLB *)
(* shootdown (Tlb), for any number of CPUs, spaces and delegations, and    *)
(* device assignment on both architectures (SmmuVtd, SmmuArm).             *)
(***************************************************************************)
EXTENDS Tlb, SmmuVtd, SmmuArm, TLAPS

-----------------------------------------------------------------------------
(* TLB shootdown.  ShootdownExact speaks of finished delegations.  The     *)
(* invariant says the same of one under way, for the CPUs its shootdown    *)
(* has passed; what it says of a CPU and a version is made of two parts.   *)

\* The oldest translation of s that d keeps is from before version v.
Stale(d, s, v) == tcache[s][d] < v

\* d is about to drop its translations of s.
Flushing(d, s) ==
    \/ tinv[d] /\ tmode[d] = "load" /\ tcr3[d] = s
    \/ tinv[d] /\ tmode[d] = "entry" /\ tec[d].gst = s

\* Nothing makes d look at its mark before it runs in s: it runs there already,
\* is past the look at the mark, or returns there without going through schedule.
Unchecked(d, s) ==
    \/ /\ s \in HostSpaces /\ tec[d].gst = NoSpace /\ tec[d].hst = s
       /\ tmode[d] = "user" \/ (tmode[d] \in {"kern", "sync", "look", "send", "wait"} /\ d \notin tsched)
    \/ s \in HostSpaces /\ tmode[d] \in {"load", "become"} /\ tnext[d].hst = s /\ ~Flushing(d, s)
    \/ s \in GuestSpaces /\ tec[d].gst = s /\ tmode[d] \in {"user", "entry"} /\ ~Flushing(d, s)

\* Of stale translations, d keeps its mark or is about to drop them ...
Marked(d, s, v) == Stale(d, s, v) => d \in tlb[s] \/ Flushing(d, s)

\* ... and looks at the mark before it runs, unless the shootdown raced with its
\* switch to the space.
Checked(d, s, v) == Stale(d, s, v) => ~Unchecked(d, s) \/ (s \in HostSpaces /\ d \in traced[s])

\* What finished delegations guarantee.
Finished ==
    \A s \in TSpaces : /\ tsafe[s] <= tver[s]
                       /\ \A d \in TCpus : Marked(d, s, tsafe[s]) /\ Checked(d, s, tsafe[s])

\* What a delegation under way has achieved.
Passed(i, d) == d < tpos[i] \/ (tmoved[i] /\ d = tpos[i])

UnderwayOf(i) ==
    /\ tmode[i] \in {"sync", "look", "send", "wait"} =>
          tshoot[i].spc \in TSpaces /\ tshoot[i].ver <= tver[tshoot[i].spc]
    /\ tmode[i] \in {"look", "send", "wait"} =>
          \A d \in TCpus : /\ Marked(d, tshoot[i].spc, tshoot[i].ver)
                           /\ Passed(i, d) => Checked(d, tshoot[i].spc, tshoot[i].ver)

Underway == \A i \in TCpus : UnderwayOf(i)

\* Which space is loaded where, and when the fields of a shootdown are in use.
Places ==
    \A c \in TCpus :
        /\ tcr3[c] = IF tmode[c] \in {"load", "become"} THEN tnext[c].hst ELSE tec[c].hst
        /\ tmode[c] = "entry" => tec[c].gst # NoSpace
        /\ tmode[c] \in {"send", "wait"} => tpos[c] < TNum
        /\ tmoved[c] => tmode[c] \in {"send", "wait"}
        /\ \A s \in TSpaces : tver[s] <= tclock

TInv == TlbType /\ Places /\ Finished /\ Underway

\* A step takes nothing back of what is known of a CPU, a space and a version.
Kept ==
    \A d \in TCpus, s \in TSpaces, v \in 0..MaxVersion :
        v <= tver[s] /\ Marked(d, s, v) => Marked(d, s, v)' /\ (Checked(d, s, v) => Checked(d, s, v)')

\* Finished delegations stay so.
LEMMA FinishedKept ==
    ASSUME TInv, Kept, tsafe' = tsafe, \A s \in TSpaces : tver[s] <= tver'[s],
           tver' \in [TSpaces -> 0..MaxVersion]
    PROVE  Finished'
<1> SUFFICES ASSUME NEW s \in TSpaces
             PROVE  /\ tsafe[s] <= tver'[s]
                    /\ \A d \in TCpus : Marked(d, s, tsafe[s])' /\ Checked(d, s, tsafe[s])'
  BY DEF Finished
<1>1. tsafe[s] \in 0..MaxVersion /\ tver[s] \in 0..MaxVersion /\ tsafe[s] <= tver[s] /\ tver'[s] \in 0..MaxVersion
  BY DEF TInv, TlbType, Finished
<1>2. tsafe[s] <= tver'[s]
  BY <1>1, TlbAssumption
<1>3. \A d \in TCpus : Marked(d, s, tsafe[s])' /\ Checked(d, s, tsafe[s])'
  <2>1. \A d \in TCpus : Marked(d, s, tsafe[s]) /\ Checked(d, s, tsafe[s])
    BY DEF TInv, Finished
  <2> SUFFICES ASSUME NEW d \in TCpus, NEW v, v = tsafe[s]
               PROVE  Marked(d, s, v)' /\ Checked(d, s, v)'
    BY DEF Marked, Checked, Stale
  <2> QED
    BY <1>1, <2>1 DEF Kept
<1> QED
  BY <1>2, <1>3

\* So do delegations under way that go no further in the step, or no further than
\* to a CPU that is all right.
LEMMA UnderwayKept ==
    ASSUME TInv, Kept, NEW i \in TCpus, \A s \in TSpaces : tver[s] <= tver'[s],
           tver' \in [TSpaces -> 0..MaxVersion],
           tmode'[i] \in {"sync", "look", "send", "wait"} =>
              tmode[i] \in {"sync", "look", "send", "wait"} /\ tshoot'[i] = tshoot[i],
           tmode'[i] \in {"look", "send", "wait"} =>
              /\ tmode[i] \in {"look", "send", "wait"}
              /\ \A d \in TCpus : Passed(i, d)' => Passed(i, d) \/ Checked(d, tshoot[i].spc, tshoot[i].ver)'
    PROVE  UnderwayOf(i)'
<1>1. ASSUME tmode'[i] \in {"sync", "look", "send", "wait"}
      PROVE  /\ tshoot'[i] = tshoot[i] /\ tshoot[i].spc \in TSpaces /\ tshoot[i].ver \in 0..MaxVersion
             /\ tshoot[i].ver <= tver[tshoot[i].spc] /\ tshoot[i].ver <= tver'[tshoot[i].spc]
  <2>1. tshoot'[i] = tshoot[i] /\ tshoot[i].spc \in TSpaces /\ tshoot[i].ver \in 0..MaxVersion
        /\ tshoot[i].ver <= tver[tshoot[i].spc]
    BY <1>1 DEF TInv, TlbType, Underway, UnderwayOf
  <2>2. tver[tshoot[i].spc] \in 0..MaxVersion /\ tver'[tshoot[i].spc] \in 0..MaxVersion
        /\ tver[tshoot[i].spc] <= tver'[tshoot[i].spc]
    BY <2>1 DEF TInv, TlbType
  <2> QED
    BY <2>1, <2>2, TlbAssumption
<1>2. ASSUME tmode'[i] \in {"look", "send", "wait"}, NEW d \in TCpus
      PROVE  /\ Marked(d, tshoot[i].spc, tshoot[i].ver)'
             /\ Passed(i, d)' => Checked(d, tshoot[i].spc, tshoot[i].ver)'
  <2> DEFINE s == tshoot[i].spc
             v == tshoot[i].ver
  <2>1. s' = s /\ v' = v /\ s \in TSpaces /\ v \in 0..MaxVersion /\ v <= tver[s]
    BY <1>1, <1>2
  <2>2. Marked(d, s, v) /\ (Passed(i, d) => Checked(d, s, v))
    BY <1>2 DEF TInv, Underway, UnderwayOf
  <2>3. Passed(i, d)' => Passed(i, d) \/ Checked(d, s, v)'
    BY <1>2
  <2>4. ASSUME NEW t, NEW w, t \in TSpaces, w \in 0..MaxVersion, w <= tver[t], Marked(d, t, w)
        PROVE  Marked(d, t, w)' /\ (Checked(d, t, w) => Checked(d, t, w)')
    BY <2>4 DEF Kept
  <2>5. PICK t, w : t = s /\ w = v
    OBVIOUS
  <2>6. Marked(d, t, w)' /\ (Checked(d, t, w) => Checked(d, t, w)')
    BY <2>1, <2>2, <2>4, <2>5
  <2> QED
    BY <2>1, <2>2, <2>3, <2>5, <2>6 DEF Marked, Checked, Stale
<1> QED
  BY <1>1, <1>2 DEF UnderwayOf

-----------------------------------------------------------------------------
(* The steps that run code.                                                *)

\* Execution contexts name spaces.
LEMMA EcType ==
    ASSUME NEW e \in TEcs
    PROVE  /\ e.hst \in HostSpaces /\ e.hst \in TSpaces /\ e.gst \in GuestSpaces \cup {NoSpace}
           /\ e.gst # NoSpace => e.gst \in TSpaces
           /\ e.gst \notin HostSpaces /\ e.hst \notin GuestSpaces /\ e.hst # NoSpace
  BY TlbAssumption DEF TSpaces

\* A switch looks at the mark of the space and clears it, and flushes if it was set.
LEMMA TSwitchInv == ASSUME TInv, NEW c \in TCpus, NEW e \in TEcs, TSwitch(c, e) PROVE TInv'
<1> USE TlbAssumption DEF TInv
<1>0. \A x \in TCpus : tec[x] \in TEcs /\ tnext[x] \in TEcs /\ tcr3[x] \in HostSpaces
  BY DEF TlbType
<1>1. TlbType'
  BY <1>0, EcType DEF TlbType, NoEntry, GoTo, RunsIn, TSwitch
<1>2. Places'
  BY <1>0 DEF TlbType, Places, GoTo, TSwitch
<1>3. Kept
  <2> SUFFICES ASSUME NEW d \in TCpus, NEW s \in TSpaces, NEW v \in 0..MaxVersion, v <= tver[s],
                      Marked(d, s, v)
               PROVE  Marked(d, s, v)' /\ (Checked(d, s, v) => Checked(d, s, v)')
    BY DEF Kept
  <2>1. CASE d # c
    BY <2>1, <1>0, EcType DEF TlbType, TSpaces, Marked, Checked, Stale, Flushing, Unchecked, NoEntry, GoTo, TSwitch
  <2>2. CASE d = c
    <3>1. /\ tmode[c] = "kern" /\ e.hst \in HostSpaces /\ tnext'[c] = e /\ tcr3'[c] = e.hst
          /\ tmode'[c] \in {"load", "become"} /\ UNCHANGED <<tcache, traced>>
      BY EcType DEF TlbType, GoTo, TSwitch
    <3>2. c \in tlb[e.hst] => tmode'[c] = "load" /\ tinv'[c] = TRUE
      BY EcType DEF TlbType, GoTo, TSwitch
    <3>3. s # e.hst => (c \in tlb'[s] <=> c \in tlb[s])
      BY EcType DEF TlbType, TSwitch
    <3>4. Marked(c, s, v)'
      BY <2>2, <3>1, <3>2, <3>3 DEF Marked, Stale, Flushing
    <3>5. Checked(c, s, v)'
      BY <2>2, <3>1, <3>2, TlbAssumption DEF Marked, Checked, Stale, Flushing, Unchecked
    <3> QED
      BY <2>2, <3>4, <3>5
  <2> QED
    BY <2>1, <2>2
<1>4. tver' = tver /\ tsafe' = tsafe /\ \A s \in TSpaces : tver[s] <= tver'[s]
  BY DEF TlbType, TSwitch
<1>5. Finished'
  BY <1>1, <1>3, <1>4, FinishedKept DEF TlbType
<1>6. ASSUME NEW i \in TCpus PROVE UnderwayOf(i)'
  <2>1. tmode'[i] \in {"sync", "look", "send", "wait"} => tmode'[i] = tmode[i]
    BY DEF TlbType, GoTo, TSwitch
  <2>2. UNCHANGED <<tshoot, tpos, tmoved>>
    BY DEF TSwitch
  <2> QED
    BY <1>1, <1>3, <1>4, <2>1, <2>2, UnderwayKept DEF TlbType, Passed
<1> QED
  BY <1>1, <1>2, <1>5, <1>6 DEF Underway

\* The flush happens.
LEMMA TLoadInv == ASSUME TInv, NEW c \in TCpus, TLoad(c) PROVE TInv'
<1> USE TlbAssumption DEF TInv
<1>0. \A x \in TCpus : tec[x] \in TEcs /\ tnext[x] \in TEcs /\ tcr3[x] \in HostSpaces
  BY DEF TlbType
<1>1. TlbType'
  <2>1. tcache' \in [TSpaces -> [TCpus -> 0..NoEntry]]
    BY DEF TlbType, NoEntry, TLoad
  <2>2. traced' \in [TSpaces -> SUBSET TCpus]
    BY DEF TlbType, TLoad
  <2>3. tmode' \in [TCpus -> {"user", "kern", "load", "become", "entry", "sync", "look", "send", "wait"}]
    BY DEF TlbType, GoTo, TLoad
  <2> QED
    BY <2>1, <2>2, <2>3 DEF TlbType, TLoad
<1>2. Places'
  BY <1>0 DEF TlbType, Places, GoTo, TLoad
<1>3. Kept
  <2> SUFFICES ASSUME NEW d \in TCpus, NEW s \in TSpaces, NEW v \in 0..MaxVersion, v <= tver[s],
                      Marked(d, s, v)
               PROVE  Marked(d, s, v)' /\ (Checked(d, s, v) => Checked(d, s, v)')
    BY DEF Kept
  <2>1. CASE d # c
    BY <2>1, <1>0, EcType DEF TlbType, TSpaces, Marked, Checked, Stale, Flushing, Unchecked, NoEntry, GoTo, TLoad
  <2>2. CASE d = c
    BY <2>2, <1>0, EcType DEF TlbType, TSpaces, Places, Marked, Checked, Stale, Flushing, Unchecked, NoEntry,
       RunsIn, GoTo, TLoad
  <2> QED
    BY <2>1, <2>2
<1>4. tver' = tver /\ tsafe' = tsafe /\ \A s \in TSpaces : tver[s] <= tver'[s]
  BY DEF TlbType, TLoad
<1>5. Finished'
  BY <1>1, <1>3, <1>4, FinishedKept DEF TlbType
<1>6. ASSUME NEW i \in TCpus PROVE UnderwayOf(i)'
  <2>1. tmode'[i] \in {"sync", "look", "send", "wait"} => tmode'[i] = tmode[i]
    BY DEF TlbType, GoTo, TLoad
  <2>2. UNCHANGED <<tshoot, tpos, tmoved>>
    BY DEF TLoad
  <2> QED
    BY <1>1, <1>3, <1>4, <2>1, <2>2, UnderwayKept DEF TlbType, Passed
<1> QED
  BY <1>1, <1>2, <1>5, <1>6 DEF Underway

\* The EC becomes current.
LEMMA TBecomeInv == ASSUME TInv, NEW c \in TCpus, TBecome(c) PROVE TInv'
<1> USE TlbAssumption DEF TInv
<1>0. \A x \in TCpus : tec[x] \in TEcs /\ tnext[x] \in TEcs /\ tcr3[x] \in HostSpaces
  BY DEF TlbType
<1>1. TlbType'
  BY <1>0, EcType DEF TlbType, NoEntry, GoTo, RunsIn, TBecome
<1>2. Places'
  BY <1>0 DEF TlbType, Places, GoTo, TBecome
<1>3. Kept
  <2> SUFFICES ASSUME NEW d \in TCpus, NEW s \in TSpaces, NEW v \in 0..MaxVersion, v <= tver[s],
                      Marked(d, s, v)
               PROVE  Marked(d, s, v)' /\ (Checked(d, s, v) => Checked(d, s, v)')
    BY DEF Kept
  <2>1. CASE d # c
    BY <2>1, <1>0, EcType DEF TlbType, TSpaces, Marked, Checked, Stale, Flushing, Unchecked, NoEntry, GoTo, TBecome
  <2>2. CASE d = c
    BY <2>2, <1>0, EcType DEF TlbType, TSpaces, Places, Marked, Checked, Stale, Flushing, Unchecked, NoEntry,
       RunsIn, GoTo, TBecome
  <2> QED
    BY <2>1, <2>2
<1>4. tver' = tver /\ tsafe' = tsafe /\ \A s \in TSpaces : tver[s] <= tver'[s]
  BY DEF TlbType, TBecome
<1>5. Finished'
  BY <1>1, <1>3, <1>4, FinishedKept DEF TlbType
<1>6. ASSUME NEW i \in TCpus PROVE UnderwayOf(i)'
  <2>1. tmode'[i] \in {"sync", "look", "send", "wait"} => tmode'[i] = tmode[i]
    BY DEF TlbType, GoTo, TBecome
  <2>2. UNCHANGED <<tshoot, tpos, tmoved>>
    BY DEF TBecome
  <2> QED
    BY <1>1, <1>3, <1>4, <2>1, <2>2, UnderwayKept DEF TlbType, Passed
<1> QED
  BY <1>1, <1>2, <1>5, <1>6 DEF Underway

\* A thread returns to user mode, unless asked to go through schedule.
LEMMA TReturnInv == ASSUME TInv, NEW c \in TCpus, TReturn(c) PROVE TInv'
<1> USE TlbAssumption DEF TInv
<1>0. \A x \in TCpus : tec[x] \in TEcs /\ tnext[x] \in TEcs /\ tcr3[x] \in HostSpaces
  BY DEF TlbType
<1>1. TlbType'
  BY <1>0, EcType DEF TlbType, NoEntry, GoTo, RunsIn, TReturn
<1>2. Places'
  BY <1>0 DEF TlbType, Places, GoTo, TReturn
<1>3. Kept
  <2> SUFFICES ASSUME NEW d \in TCpus, NEW s \in TSpaces, NEW v \in 0..MaxVersion, v <= tver[s],
                      Marked(d, s, v)
               PROVE  Marked(d, s, v)' /\ (Checked(d, s, v) => Checked(d, s, v)')
    BY DEF Kept
  <2>1. CASE d # c
    BY <2>1, <1>0, EcType DEF TlbType, TSpaces, Marked, Checked, Stale, Flushing, Unchecked, NoEntry, GoTo, TReturn
  <2>2. CASE d = c
    BY <2>2, <1>0, EcType DEF TlbType, TSpaces, Places, Marked, Checked, Stale, Flushing, Unchecked, NoEntry,
       RunsIn, GoTo, TReturn
  <2> QED
    BY <2>1, <2>2
<1>4. tver' = tver /\ tsafe' = tsafe /\ \A s \in TSpaces : tver[s] <= tver'[s]
  BY DEF TlbType, TReturn
<1>5. Finished'
  BY <1>1, <1>3, <1>4, FinishedKept DEF TlbType
<1>6. ASSUME NEW i \in TCpus PROVE UnderwayOf(i)'
  <2>1. tmode'[i] \in {"sync", "look", "send", "wait"} => tmode'[i] = tmode[i]
    BY DEF TlbType, GoTo, TReturn
  <2>2. UNCHANGED <<tshoot, tpos, tmoved>>
    BY DEF TReturn
  <2> QED
    BY <1>1, <1>3, <1>4, <2>1, <2>2, UnderwayKept DEF TlbType, Passed
<1> QED
  BY <1>1, <1>2, <1>5, <1>6 DEF Underway

\* A guest entry looks at the mark of the guest space and clears it.
LEMMA TGuestTestInv == ASSUME TInv, NEW c \in TCpus, TGuestTest(c) PROVE TInv'
<1> USE TlbAssumption DEF TInv
<1>0. \A x \in TCpus : tec[x] \in TEcs /\ tnext[x] \in TEcs /\ tcr3[x] \in HostSpaces
  BY DEF TlbType
<1>1. TlbType'
  BY <1>0, EcType DEF TlbType, NoEntry, GoTo, RunsIn, TGuestTest
<1>2. Places'
  BY <1>0 DEF TlbType, Places, GoTo, TGuestTest
<1>3. Kept
  <2> SUFFICES ASSUME NEW d \in TCpus, NEW s \in TSpaces, NEW v \in 0..MaxVersion, v <= tver[s],
                      Marked(d, s, v)
               PROVE  Marked(d, s, v)' /\ (Checked(d, s, v) => Checked(d, s, v)')
    BY DEF Kept
  <2>1. CASE d # c
    BY <2>1, <1>0, EcType DEF TlbType, TSpaces, Marked, Checked, Stale, Flushing, Unchecked, NoEntry, GoTo, TGuestTest
  <2>2. CASE d = c
    BY <2>2, <1>0, EcType DEF TlbType, TSpaces, Places, Marked, Checked, Stale, Flushing, Unchecked, NoEntry,
       RunsIn, GoTo, TGuestTest
  <2> QED
    BY <2>1, <2>2
<1>4. tver' = tver /\ tsafe' = tsafe /\ \A s \in TSpaces : tver[s] <= tver'[s]
  BY DEF TlbType, TGuestTest
<1>5. Finished'
  BY <1>1, <1>3, <1>4, FinishedKept DEF TlbType
<1>6. ASSUME NEW i \in TCpus PROVE UnderwayOf(i)'
  <2>1. tmode'[i] \in {"sync", "look", "send", "wait"} => tmode'[i] = tmode[i]
    BY DEF TlbType, GoTo, TGuestTest
  <2>2. UNCHANGED <<tshoot, tpos, tmoved>>
    BY DEF TGuestTest
  <2> QED
    BY <1>1, <1>3, <1>4, <2>1, <2>2, UnderwayKept DEF TlbType, Passed
<1> QED
  BY <1>1, <1>2, <1>5, <1>6 DEF Underway

\* The flush happens, and the guest runs.
LEMMA TGuestEnterInv == ASSUME TInv, NEW c \in TCpus, TGuestEnter(c) PROVE TInv'
<1> USE TlbAssumption DEF TInv
<1>0. \A x \in TCpus : tec[x] \in TEcs /\ tnext[x] \in TEcs /\ tcr3[x] \in HostSpaces
  BY DEF TlbType
<1>1. TlbType'
  <2>1. tec[c].gst \in TSpaces
    BY <1>0, EcType DEF Places, TGuestEnter
  <2>2. tcache' \in [TSpaces -> [TCpus -> 0..NoEntry]]
    BY <2>1 DEF TlbType, NoEntry, TGuestEnter
  <2> QED
    BY <2>2 DEF TlbType, GoTo, TGuestEnter
<1>2. Places'
  BY <1>0 DEF TlbType, Places, GoTo, TGuestEnter
<1>3. Kept
  <2> SUFFICES ASSUME NEW d \in TCpus, NEW s \in TSpaces, NEW v \in 0..MaxVersion, v <= tver[s],
                      Marked(d, s, v)
               PROVE  Marked(d, s, v)' /\ (Checked(d, s, v) => Checked(d, s, v)')
    BY DEF Kept
  <2>1. CASE d # c
    BY <2>1, <1>0, EcType DEF TlbType, TSpaces, Marked, Checked, Stale, Flushing, Unchecked, NoEntry, GoTo, TGuestEnter
  <2>2. CASE d = c
    BY <2>2, <1>0, EcType DEF TlbType, TSpaces, Places, Marked, Checked, Stale, Flushing, Unchecked, NoEntry,
       RunsIn, GoTo, TGuestEnter
  <2> QED
    BY <2>1, <2>2
<1>4. tver' = tver /\ tsafe' = tsafe /\ \A s \in TSpaces : tver[s] <= tver'[s]
  BY DEF TlbType, TGuestEnter
<1>5. Finished'
  BY <1>1, <1>3, <1>4, FinishedKept DEF TlbType
<1>6. ASSUME NEW i \in TCpus PROVE UnderwayOf(i)'
  <2>1. tmode'[i] \in {"sync", "look", "send", "wait"} => tmode'[i] = tmode[i]
    BY DEF TlbType, GoTo, TGuestEnter
  <2>2. UNCHANGED <<tshoot, tpos, tmoved>>
    BY DEF TGuestEnter
  <2> QED
    BY <1>1, <1>3, <1>4, <2>1, <2>2, UnderwayKept DEF TlbType, Passed
<1> QED
  BY <1>1, <1>2, <1>5, <1>6 DEF Underway

\* A translation is cached as it is now, which is no older than any delegation.
LEMMA TFillInv == ASSUME TInv, NEW c \in TCpus, TFill(c) PROVE TInv'
<1> USE TlbAssumption DEF TInv
<1>0. \A x \in TCpus : tec[x] \in TEcs /\ tnext[x] \in TEcs /\ tcr3[x] \in HostSpaces
  BY DEF TlbType
<1>1. TlbType'
  BY <1>0, EcType DEF TlbType, NoEntry, GoTo, RunsIn, TFill
<1>2. Places'
  BY <1>0 DEF TlbType, Places, GoTo, TFill
<1>3. Kept
  <2> SUFFICES ASSUME NEW d \in TCpus, NEW s \in TSpaces, NEW v \in 0..MaxVersion, v <= tver[s],
                      Marked(d, s, v)
               PROVE  Marked(d, s, v)' /\ (Checked(d, s, v) => Checked(d, s, v)')
    BY DEF Kept
  <2>1. CASE d # c
    BY <2>1, <1>0, EcType DEF TlbType, TSpaces, Marked, Checked, Stale, Flushing, Unchecked, NoEntry, GoTo, TFill
  <2>2. CASE d = c
    BY <2>2, <1>0, EcType DEF TlbType, TSpaces, Places, Marked, Checked, Stale, Flushing, Unchecked, NoEntry,
       RunsIn, GoTo, TFill
  <2> QED
    BY <2>1, <2>2
<1>4. tver' = tver /\ tsafe' = tsafe /\ \A s \in TSpaces : tver[s] <= tver'[s]
  BY DEF TlbType, TFill
<1>5. Finished'
  BY <1>1, <1>3, <1>4, FinishedKept DEF TlbType
<1>6. ASSUME NEW i \in TCpus PROVE UnderwayOf(i)'
  <2>1. tmode'[i] \in {"sync", "look", "send", "wait"} => tmode'[i] = tmode[i]
    BY DEF TlbType, GoTo, TFill
  <2>2. UNCHANGED <<tshoot, tpos, tmoved>>
    BY DEF TFill
  <2> QED
    BY <1>1, <1>3, <1>4, <2>1, <2>2, UnderwayKept DEF TlbType, Passed
<1> QED
  BY <1>1, <1>2, <1>5, <1>6 DEF Underway

\* The CPU enters the kernel.
LEMMA TEnterInv == ASSUME TInv, NEW c \in TCpus, TEnter(c) PROVE TInv'
<1> USE TlbAssumption DEF TInv
<1>0. \A x \in TCpus : tec[x] \in TEcs /\ tnext[x] \in TEcs /\ tcr3[x] \in HostSpaces
  BY DEF TlbType
<1>1. TlbType'
  BY <1>0, EcType DEF TlbType, NoEntry, GoTo, RunsIn, TEnter
<1>2. Places'
  BY <1>0 DEF TlbType, Places, GoTo, TEnter
<1>3. Kept
  <2> SUFFICES ASSUME NEW d \in TCpus, NEW s \in TSpaces, NEW v \in 0..MaxVersion, v <= tver[s],
                      Marked(d, s, v)
               PROVE  Marked(d, s, v)' /\ (Checked(d, s, v) => Checked(d, s, v)')
    BY DEF Kept
  <2>1. CASE d # c
    BY <2>1, <1>0, EcType DEF TlbType, TSpaces, Marked, Checked, Stale, Flushing, Unchecked, NoEntry, GoTo, TEnter
  <2>2. CASE d = c
    BY <2>2, <1>0, EcType DEF TlbType, TSpaces, Places, Marked, Checked, Stale, Flushing, Unchecked, NoEntry,
       RunsIn, GoTo, TEnter
  <2> QED
    BY <2>1, <2>2
<1>4. tver' = tver /\ tsafe' = tsafe /\ \A s \in TSpaces : tver[s] <= tver'[s]
  BY DEF TlbType, TEnter
<1>5. Finished'
  BY <1>1, <1>3, <1>4, FinishedKept DEF TlbType
<1>6. ASSUME NEW i \in TCpus PROVE UnderwayOf(i)'
  <2>1. tmode'[i] \in {"sync", "look", "send", "wait"} => tmode'[i] = tmode[i]
    BY DEF TlbType, GoTo, TEnter
  <2>2. UNCHANGED <<tshoot, tpos, tmoved>>
    BY DEF TEnter
  <2> QED
    BY <1>1, <1>3, <1>4, <2>1, <2>2, UnderwayKept DEF TlbType, Passed
<1> QED
  BY <1>1, <1>2, <1>5, <1>6 DEF Underway

-----------------------------------------------------------------------------
(* The shootdown itself.                                                   *)

\* The interrupt takes the CPU out of user mode, and through schedule if it is marked.
LEMMA TRkeInv == ASSUME TInv, NEW c \in TCpus, TRke(c) PROVE TInv'
<1> USE TlbAssumption DEF TInv
<1>0. \A x \in TCpus : tec[x] \in TEcs /\ tnext[x] \in TEcs /\ tcr3[x] \in HostSpaces
  BY DEF TlbType
<1>1. TlbType'
  BY <1>0, EcType DEF TlbType, Underway, UnderwayOf, NoShoot, NoEntry, GoTo, TCpus, TRke
<1>2. Places'
  BY <1>0 DEF TlbType, Places, TCpus, GoTo, TRke
<1>3. Kept
  <2> SUFFICES ASSUME NEW d \in TCpus, NEW s \in TSpaces, NEW v \in 0..MaxVersion, v <= tver[s],
                      Marked(d, s, v)
               PROVE  Marked(d, s, v)' /\ (Checked(d, s, v) => Checked(d, s, v)')
    BY DEF Kept
  <2>1. CASE d # c
    BY <2>1, <1>0, EcType DEF TlbType, TSpaces, Marked, Checked, Stale, Flushing, Unchecked, NoEntry, GoTo, TRke
  <2>2. CASE d = c
    BY <2>2, <1>0, EcType DEF TlbType, TSpaces, Places, Marked, Checked, Stale, Flushing, Unchecked, NoEntry,
       GoTo, TRke
  <2> QED
    BY <2>1, <2>2
<1>4. tver' = tver /\ \A s \in TSpaces : tver[s] <= tver'[s]
  BY DEF TlbType, TRke
<1>5. Finished'
  <2>1. tsafe' = tsafe
    BY DEF TRke
  <2> QED
    BY <1>1, <1>3, <1>4, <2>1, FinishedKept DEF TlbType
<1>6. ASSUME NEW i \in TCpus PROVE UnderwayOf(i)'
  <2>1. tmode'[i] \in {"sync", "look", "send", "wait"} => tmode'[i] = tmode[i]
    BY DEF TlbType, TRke
  <2>2. UNCHANGED <<tshoot, tpos>>
    BY DEF TRke
  <2>3. ASSUME NEW d \in TCpus, Passed(i, d)', ~Passed(i, d), tmode'[i] \in {"look", "send", "wait"}
        PROVE  Checked(d, tshoot[i].spc, tshoot[i].ver)'
    <3> DEFINE s == tshoot[i].spc
               v == tshoot[i].ver
    <3>1. d = c /\ s \in TSpaces /\ s' = s /\ v' = v
      BY <2>1, <2>2, <2>3 DEF TlbType, Underway, UnderwayOf, Passed, TRke
    <3>2. Marked(c, s, v)
      BY <2>1, <2>3, <3>1 DEF Underway, UnderwayOf
    <3>3. /\ tmode[c] \in {"user", "kern", "look", "send", "wait"}
          /\ tmode'[c] \in {"kern", "look", "send", "wait"}
          /\ tcr3[c] = tec[c].hst /\ UNCHANGED <<tec, tcache, tlb>>
          /\ c \in tlb[tcr3[c]] => c \in tsched'
      BY DEF TlbType, Places, TRke
    <3>4. Stale(c, s, v) => c \in tlb[s]
      BY <3>2, <3>3 DEF Marked, Flushing
    <3>5. Stale(c, s, v) => ~Unchecked(c, s)'
      BY <3>1, <3>3, <3>4 DEF Unchecked
    <3> QED
      BY <3>1, <3>3, <3>5 DEF Checked, Stale
  <2> QED
    BY <1>1, <1>3, <1>4, <2>1, <2>2, <2>3, UnderwayKept DEF TlbType
<1> QED
  BY <1>1, <1>2, <1>5, <1>6 DEF Underway

\* The page tables change, and the shootdown has not begun.
LEMMA TUpdateInv == ASSUME TInv, NEW c \in TCpus, NEW t \in TSpaces, TUpdate(c, t) PROVE TInv'
<1> USE TlbAssumption DEF TInv
<1>0. \A x \in TCpus : tec[x] \in TEcs /\ tnext[x] \in TEcs /\ tcr3[x] \in HostSpaces
  BY DEF TlbType
<1>1. TlbType'
  <2>1. tclock' \in 0..MaxVersion
    BY DEF TlbType, TUpdate
  <2>2. tver' \in [TSpaces -> 0..MaxVersion]
    BY <2>1 DEF TlbType, TUpdate
  <2>3. tshoot' \in [TCpus -> [spc : TSpaces \cup {NoSpace}, ver : 0..MaxVersion]]
    BY <2>1 DEF TlbType, TUpdate
  <2> QED
    BY <2>1, <2>2, <2>3 DEF TlbType, GoTo, TUpdate
<1>2. Places'
  <2>1. \A s \in TSpaces : tver'[s] <= tclock'
    BY DEF TlbType, Places, TUpdate
  <2> QED
    BY <1>0, <2>1 DEF TlbType, Places, GoTo, TUpdate
<1>3. Kept
  <2> SUFFICES ASSUME NEW d \in TCpus, NEW s \in TSpaces, NEW v \in 0..MaxVersion, v <= tver[s],
                      Marked(d, s, v)
               PROVE  Marked(d, s, v)' /\ (Checked(d, s, v) => Checked(d, s, v)')
    BY DEF Kept
  <2>1. CASE d # c
    BY <2>1, <1>0, EcType DEF TlbType, TSpaces, Marked, Checked, Stale, Flushing, Unchecked, NoEntry, GoTo, TUpdate
  <2>2. CASE d = c
    BY <2>2, <1>0, EcType DEF TlbType, TSpaces, Places, Marked, Checked, Stale, Flushing, Unchecked, NoEntry,
       GoTo, TUpdate
  <2> QED
    BY <2>1, <2>2
<1>4. \A s \in TSpaces : tver[s] <= tver'[s]
  BY DEF TlbType, Places, TUpdate
<1>5. Finished'
  <2>1. tsafe' = tsafe
    BY DEF TUpdate
  <2> QED
    BY <1>1, <1>3, <1>4, <2>1, FinishedKept DEF TlbType
<1>6. ASSUME NEW i \in TCpus PROVE UnderwayOf(i)'
  <2>1. CASE i # c
    <3>1. tmode'[i] = tmode[i] /\ tshoot'[i] = tshoot[i] /\ tpos'[i] = tpos[i] /\ tmoved'[i] = tmoved[i]
      BY <2>1 DEF TlbType, GoTo, TUpdate
    <3> QED
      BY <1>1, <1>3, <1>4, <3>1, UnderwayKept DEF TlbType, Passed
  <2>2. CASE i = c
    BY <2>2, <1>1 DEF TlbType, UnderwayOf, GoTo, TUpdate
  <2> QED
    BY <2>1, <2>2
<1> QED
  BY <1>1, <1>2, <1>5, <1>6 DEF Underway

\* Every CPU is marked.
LEMMA TSyncInv == ASSUME TInv, NEW c \in TCpus, TSync(c) PROVE TInv'
<1> USE TlbAssumption DEF TInv
<1>0. \A x \in TCpus : tec[x] \in TEcs /\ tnext[x] \in TEcs /\ tcr3[x] \in HostSpaces
  BY DEF TlbType
<1>1. TlbType'
  <2>1. tshoot[c].spc \in TSpaces
    BY DEF Underway, UnderwayOf, TSync
  <2>2. tpos' \in [TCpus -> 0..TNum]
    BY DEF TlbType, TSync
  <2> QED
    BY <2>1, <2>2 DEF TlbType, GoTo, TSync
<1>2. Places'
  BY <1>0 DEF TlbType, Places, TCpus, GoTo, TSync
<1>3. Kept
  <2> SUFFICES ASSUME NEW d \in TCpus, NEW s \in TSpaces, NEW v \in 0..MaxVersion, v <= tver[s],
                      Marked(d, s, v)
               PROVE  Marked(d, s, v)' /\ (Checked(d, s, v) => Checked(d, s, v)')
    BY DEF Kept
  <2>1. CASE d # c
    BY <2>1, <1>0, EcType DEF TlbType, TSpaces, Marked, Checked, Stale, Flushing, Unchecked, NoEntry, GoTo, TSync
  <2>2. CASE d = c
    BY <2>2, <1>0, EcType DEF TlbType, TSpaces, Places, Marked, Checked, Stale, Flushing, Unchecked, NoEntry,
       GoTo, TSync
  <2> QED
    BY <2>1, <2>2
<1>4. tver' = tver /\ \A s \in TSpaces : tver[s] <= tver'[s]
  BY DEF TlbType, TSync
<1>5. Finished'
  <2>1. tsafe' = tsafe
    BY DEF TSync
  <2> QED
    BY <1>1, <1>3, <1>4, <2>1, FinishedKept DEF TlbType
<1>6. ASSUME NEW i \in TCpus PROVE UnderwayOf(i)'
  <2>1. CASE i # c
    <3>1. tmode'[i] = tmode[i] /\ tshoot'[i] = tshoot[i] /\ tpos'[i] = tpos[i] /\ tmoved'[i] = tmoved[i]
      BY <2>1 DEF TlbType, GoTo, TSync
    <3> QED
      BY <1>1, <1>3, <1>4, <3>1, UnderwayKept DEF TlbType, Passed
  <2>2. CASE i = c
    <3>1. /\ tmode[c] = "sync" /\ tmode'[c] = "look" /\ tpos'[c] = 0 /\ tmoved'[c] = FALSE
          /\ tshoot' = tshoot /\ tshoot[c].spc \in TSpaces /\ tlb'[tshoot[c].spc] = TCpus
          /\ tshoot[c].ver <= tver[tshoot[c].spc] /\ tver' = tver
      BY DEF TlbType, Places, Underway, UnderwayOf, GoTo, TSync
    <3> QED
      BY <2>2, <3>1 DEF UnderwayOf, Passed, Marked, TCpus
  <2> QED
    BY <2>1, <2>2
<1> QED
  BY <1>1, <1>2, <1>5, <1>6 DEF Underway

\* A CPU that is passed over does not run in the space, or is switching to it.
LEMMA TLookInv == ASSUME TInv, NEW c \in TCpus, TLook(c) PROVE TInv'
<1> USE TlbAssumption DEF TInv
<1>0. \A x \in TCpus : tec[x] \in TEcs /\ tnext[x] \in TEcs /\ tcr3[x] \in HostSpaces
  BY DEF TlbType
<1>1. TlbType'
  <2>1. tshoot[c].spc \in TSpaces
    BY DEF Underway, UnderwayOf, TLook
  <2>2. tpos[c] \in TCpus /\ tpos[c] + 1 \in 0..TNum
    BY SMTT(30) DEF TlbType, TCpus, TLook
  <2>3. tpos' \in [TCpus -> 0..TNum]
    BY <2>2 DEF TlbType, TLook
  <2>4. tsched' \subseteq TCpus /\ traced' \in [TSpaces -> SUBSET TCpus]
    <3>1. tsched' \subseteq TCpus
      BY DEF TlbType, TLook
    <3>2. traced' = traced \/ traced' = [traced EXCEPT ![tshoot[c].spc] = @ \cup {tpos[c]}]
      BY DEF TLook
    <3>3. traced \in [TSpaces -> SUBSET TCpus] /\ traced[tshoot[c].spc] \cup {tpos[c]} \in SUBSET TCpus
      BY <2>1, <2>2 DEF TlbType
    <3>4. traced' \in [TSpaces -> SUBSET TCpus]
      BY <2>1, <3>2, <3>3
    <3> QED
      BY <3>1, <3>4
  <2>5. tmode' \in [TCpus -> {"user", "kern", "load", "become", "entry", "sync", "look", "send", "wait"}]
    <3>1. tmode' = tmode \/ tmode' = [tmode EXCEPT ![c] = "send"]
      BY DEF GoTo, TLook
    <3> QED
      BY <3>1 DEF TlbType
  <2> QED
    BY <2>3, <2>4, <2>5 DEF TlbType, TLook
<1>2. Places'
  BY <1>0, ZenonT(40) DEF TlbType, Places, TCpus, GoTo, TLook
<1>3. Kept
  <2> SUFFICES ASSUME NEW d \in TCpus, NEW s \in TSpaces, NEW v \in 0..MaxVersion, v <= tver[s],
                      Marked(d, s, v)
               PROVE  Marked(d, s, v)' /\ (Checked(d, s, v) => Checked(d, s, v)')
    BY DEF Kept
  <2>1. CASE d # c
    BY <2>1, <1>0, EcType DEF TlbType, TSpaces, Marked, Checked, Stale, Flushing, Unchecked, NoEntry, GoTo, TLook
  <2>2. CASE d = c
    BY <2>2, <1>0, EcType DEF TlbType, TSpaces, Places, Marked, Checked, Stale, Flushing, Unchecked, NoEntry,
       GoTo, TLook
  <2> QED
    BY <2>1, <2>2
<1>4. tver' = tver /\ \A s \in TSpaces : tver[s] <= tver'[s]
  BY DEF TlbType, TLook
<1>5. Finished'
  <2>1. tsafe' = tsafe
    BY DEF TLook
  <2> QED
    BY <1>1, <1>3, <1>4, <2>1, FinishedKept DEF TlbType
<1>6. ASSUME NEW i \in TCpus PROVE UnderwayOf(i)'
  <2>1. CASE i # c
    <3>1. tmode'[i] = tmode[i] /\ tshoot'[i] = tshoot[i] /\ tpos'[i] = tpos[i] /\ tmoved'[i] = tmoved[i]
      BY <2>1 DEF TlbType, GoTo, TLook
    <3> QED
      BY <1>1, <1>3, <1>4, <3>1, UnderwayKept DEF TlbType, Passed
  <2>2. CASE i = c
    <3>0. tpos[c] \in TCpus /\ tshoot[c].spc \in TSpaces /\ tshoot[c].ver \in 0..MaxVersion
      BY DEF TlbType, TCpus, Underway, UnderwayOf, TLook
    <3>1. PICK d \in TCpus, s \in TSpaces, v \in 0..MaxVersion :
             /\ d = tpos[c] /\ s = tshoot[c].spc /\ v = tshoot[c].ver
             /\ tmode[c] = "look" /\ tmode'[c] \in {"look", "send"}
             /\ tmoved[c] = FALSE /\ tmoved'[c] = FALSE /\ tpos'[c] \in {d, d + 1} /\ tshoot' = tshoot
             /\ UNCHANGED <<tcache, tec, tnext, tlb, tinv, tcr3>>
      BY <3>0 DEF TlbType, Places, GoTo, TLook
    <3>2. ASSUME tpos'[c] = d + 1 PROVE Checked(d, s, v)'
      <4>0. /\ s \notin {tec[d].hst, tec[d].gst} \/ d = c
            /\ d = c /\ s \in {tec[c].hst, tec[c].gst} => c \in tsched'
            /\ s \notin {tec[d].hst, tec[d].gst} /\ Switching(d, s) => d \in traced'[s]
            /\ tmode' = tmode
        <5>1. tpos[c] = d /\ tpos'[c] # tpos[c] /\ traced[s] \in SUBSET TCpus
          BY <3>1, <3>2, SMTT(30) DEF TlbType, TCpus
        <5>2. tmode' = tmode /\ (s \notin {tec[d].hst, tec[d].gst} \/ d = c)
          BY <3>1, <5>1 DEF GoTo, TLook
        <5>3. d = c /\ s \in {tec[c].hst, tec[c].gst} => c \in tsched'
          BY <3>1, <5>1 DEF TLook
        <5>4. ASSUME s \notin {tec[d].hst, tec[d].gst}, Switching(d, s) PROVE d \in traced'[s]
          <6>1. traced' = [traced EXCEPT ![s] = @ \cup {d}]
            BY <3>1, <5>4 DEF TLook
          <6> QED
            BY <3>1, <6>1 DEF TlbType
        <5> QED
          BY <5>2, <5>3, <5>4
      <4>1. CASE s \notin {tec[d].hst, tec[d].gst}
        BY <3>1, <4>0, <4>1 DEF Checked, Unchecked, Stale, Flushing, Switching
      <4>2. CASE d = c /\ s \in {tec[c].hst, tec[c].gst}
        BY <3>1, <4>0, <4>2 DEF Checked, Unchecked, Stale
      <4> QED
        BY <4>0, <4>1, <4>2
    <3>3. ASSUME NEW x \in TCpus, Passed(c, x)' PROVE Passed(c, x) \/ Checked(x, s, v)'
      <4>1. CASE x < d
        BY <3>1, <4>1 DEF Passed
      <4>2. CASE ~(x < d)
        <5>1. tpos'[c] = d + 1 /\ x = d
          BY <3>1, <3>3, <4>2 DEF Passed, TCpus
        <5> QED
          BY <5>1, <3>2
      <4> QED
        BY <4>1, <4>2
    <3> QED
      BY <1>1, <1>3, <1>4, <2>2, <3>1, <3>3, UnderwayKept DEF TlbType
  <2> QED
    BY <2>1, <2>2
<1> QED
  BY <1>1, <1>2, <1>5, <1>6 DEF Underway

\* The interrupt is sent.
LEMMA TSendInv == ASSUME TInv, NEW c \in TCpus, TSend(c) PROVE TInv'
<1> USE TlbAssumption DEF TInv
<1>0. \A x \in TCpus : tec[x] \in TEcs /\ tnext[x] \in TEcs /\ tcr3[x] \in HostSpaces
  BY DEF TlbType
<1>1. TlbType'
  <2>1. tpos[c] \in TCpus
    BY DEF TlbType, Places, TCpus, TSend
  <2> QED
    BY <2>1 DEF TlbType, GoTo, TSend
<1>2. Places'
  BY <1>0 DEF TlbType, Places, TCpus, GoTo, TSend
<1>3. Kept
  <2> SUFFICES ASSUME NEW d \in TCpus, NEW s \in TSpaces, NEW v \in 0..MaxVersion, v <= tver[s],
                      Marked(d, s, v)
               PROVE  Marked(d, s, v)' /\ (Checked(d, s, v) => Checked(d, s, v)')
    BY DEF Kept
  <2>1. CASE d # c
    BY <2>1, <1>0, EcType DEF TlbType, TSpaces, Marked, Checked, Stale, Flushing, Unchecked, NoEntry, GoTo, TSend
  <2>2. CASE d = c
    BY <2>2, <1>0, EcType DEF TlbType, TSpaces, Places, Marked, Checked, Stale, Flushing, Unchecked, NoEntry,
       GoTo, TSend
  <2> QED
    BY <2>1, <2>2
<1>4. tver' = tver /\ \A s \in TSpaces : tver[s] <= tver'[s]
  BY DEF TlbType, TSend
<1>5. Finished'
  <2>1. tsafe' = tsafe
    BY DEF TSend
  <2> QED
    BY <1>1, <1>3, <1>4, <2>1, FinishedKept DEF TlbType
<1>6. ASSUME NEW i \in TCpus PROVE UnderwayOf(i)'
  <2>1. CASE i # c
    <3>1. tmode'[i] = tmode[i] /\ tshoot'[i] = tshoot[i] /\ tpos'[i] = tpos[i] /\ tmoved'[i] = tmoved[i]
      BY <2>1 DEF TlbType, GoTo, TSend
    <3> QED
      BY <1>1, <1>3, <1>4, <3>1, UnderwayKept DEF TlbType, Passed
  <2>2. CASE i = c
    <3>1. tmode[c] = "send" /\ UNCHANGED <<tshoot, tpos, tmoved>>
      BY DEF TSend
    <3> QED
      BY <1>1, <1>3, <1>4, <2>2, <3>1, UnderwayKept DEF TlbType, Passed
  <2> QED
    BY <2>1, <2>2
<1> QED
  BY <1>1, <1>2, <1>5, <1>6 DEF Underway

\* The CPU has taken the interrupt.
LEMMA TWaitInv == ASSUME TInv, NEW c \in TCpus, TWait(c) PROVE TInv'
<1> USE TlbAssumption DEF TInv
<1>0. \A x \in TCpus : tec[x] \in TEcs /\ tnext[x] \in TEcs /\ tcr3[x] \in HostSpaces
  BY DEF TlbType
<1>1. TlbType'
  <2>1. tpos[c] + 1 \in 0..TNum
    BY DEF TlbType, Places, TWait
  <2>2. tpos' \in [TCpus -> 0..TNum]
    BY <2>1 DEF TlbType, TWait
  <2> QED
    BY <2>2 DEF TlbType, GoTo, TWait
<1>2. Places'
  BY <1>0 DEF TlbType, Places, TCpus, GoTo, TWait
<1>3. Kept
  <2> SUFFICES ASSUME NEW d \in TCpus, NEW s \in TSpaces, NEW v \in 0..MaxVersion, v <= tver[s],
                      Marked(d, s, v)
               PROVE  Marked(d, s, v)' /\ (Checked(d, s, v) => Checked(d, s, v)')
    BY DEF Kept
  <2>1. CASE d # c
    BY <2>1, <1>0, EcType DEF TlbType, TSpaces, Marked, Checked, Stale, Flushing, Unchecked, NoEntry, GoTo, TWait
  <2>2. CASE d = c
    BY <2>2, <1>0, EcType DEF TlbType, TSpaces, Places, Marked, Checked, Stale, Flushing, Unchecked, NoEntry,
       GoTo, TWait
  <2> QED
    BY <2>1, <2>2
<1>4. tver' = tver /\ \A s \in TSpaces : tver[s] <= tver'[s]
  BY DEF TlbType, TWait
<1>5. Finished'
  <2>1. tsafe' = tsafe
    BY DEF TWait
  <2> QED
    BY <1>1, <1>3, <1>4, <2>1, FinishedKept DEF TlbType
<1>6. ASSUME NEW i \in TCpus PROVE UnderwayOf(i)'
  <2>1. CASE i # c
    <3>1. tmode'[i] = tmode[i] /\ tshoot'[i] = tshoot[i] /\ tpos'[i] = tpos[i] /\ tmoved'[i] = tmoved[i]
      BY <2>1 DEF TlbType, GoTo, TWait
    <3> QED
      BY <1>1, <1>3, <1>4, <3>1, UnderwayKept DEF TlbType, Passed
  <2>2. CASE i = c
    <3>1. /\ tmode[c] = "wait" /\ tmoved[c] = TRUE /\ tshoot' = tshoot /\ tpos[c] \in 0..TNum
          /\ tpos'[c] = tpos[c] + 1 /\ tmoved'[c] = FALSE
      BY DEF TlbType, TWait
    <3>2. \A x \in TCpus : Passed(c, x)' => Passed(c, x)
      BY <3>1 DEF Passed, TCpus
    <3> QED
      BY <1>1, <1>3, <1>4, <2>2, <3>1, <3>2, UnderwayKept DEF TlbType
  <2> QED
    BY <2>1, <2>2
<1> QED
  BY <1>1, <1>2, <1>5, <1>6 DEF Underway

\* The shootdown has passed every CPU, and the delegation is finished.
LEMMA TDoneInv == ASSUME TInv, NEW c \in TCpus, TDone(c) PROVE TInv'
<1> USE TlbAssumption DEF TInv
<1>0. \A x \in TCpus : tec[x] \in TEcs /\ tnext[x] \in TEcs /\ tcr3[x] \in HostSpaces
  BY DEF TlbType
<1>1. TlbType'
  <2>1. tshoot[c].spc \in TSpaces /\ tshoot[c].ver \in 0..MaxVersion
    BY DEF TlbType, Underway, UnderwayOf, TDone
  <2>2. tsafe' \in [TSpaces -> 0..MaxVersion]
    BY <2>1 DEF TlbType, TDone
  <2>3. tpos' \in [TCpus -> 0..TNum] /\ tshoot' \in [TCpus -> [spc : TSpaces \cup {NoSpace}, ver : 0..MaxVersion]]
    BY DEF TlbType, NoShoot, TDone
  <2> QED
    BY <2>2, <2>3 DEF TlbType, GoTo, TDone
<1>2. Places'
  BY <1>0 DEF TlbType, Places, TCpus, GoTo, TDone
<1>3. Kept
  <2> SUFFICES ASSUME NEW d \in TCpus, NEW s \in TSpaces, NEW v \in 0..MaxVersion, v <= tver[s],
                      Marked(d, s, v)
               PROVE  Marked(d, s, v)' /\ (Checked(d, s, v) => Checked(d, s, v)')
    BY DEF Kept
  <2>1. CASE d # c
    BY <2>1, <1>0, EcType DEF TlbType, TSpaces, Marked, Checked, Stale, Flushing, Unchecked, NoEntry, GoTo, TDone
  <2>2. CASE d = c
    BY <2>2, <1>0, EcType DEF TlbType, TSpaces, Places, Marked, Checked, Stale, Flushing, Unchecked, NoEntry,
       GoTo, TDone
  <2> QED
    BY <2>1, <2>2
<1>4. tver' = tver /\ \A s \in TSpaces : tver[s] <= tver'[s]
  BY DEF TlbType, TDone
<1>5. Finished'
  <2> DEFINE t == tshoot[c].spc
             w == tshoot[c].ver
  <2>1. /\ tmode[c] = "look" /\ tpos[c] = TNum /\ t \in TSpaces /\ w \in 0..MaxVersion /\ w <= tver[t]
        /\ tsafe'[t] \in {tsafe[t], w} /\ \A s \in TSpaces : s # t => tsafe'[s] = tsafe[s]
    BY DEF TlbType, Underway, UnderwayOf, TDone
  <2>2. ASSUME NEW d \in TCpus PROVE Marked(d, t, w) /\ Checked(d, t, w)
    BY <2>1 DEF Underway, UnderwayOf, Passed, TCpus
  <2>3. ASSUME NEW d \in TCpus, NEW s \in TSpaces
        PROVE  \E v \in 0..MaxVersion : v = tsafe'[s] /\ v <= tver[s] /\ Marked(d, s, v) /\ Checked(d, s, v)
    <3>1. tsafe[s] \in 0..MaxVersion /\ tsafe[s] <= tver[s] /\ Marked(d, s, tsafe[s]) /\ Checked(d, s, tsafe[s])
      BY DEF TlbType, Finished
    <3>2. tsafe'[s] = tsafe[s] \/ (s = t /\ tsafe'[s] = w)
      BY <2>1
    <3> QED
      BY <2>1, <2>2, <3>1, <3>2
  <2>4. ASSUME NEW d \in TCpus, NEW s \in TSpaces
        PROVE  tsafe'[s] <= tver[s] /\ Marked(d, s, tsafe[s])' /\ Checked(d, s, tsafe[s])'
    <3>1. PICK v \in 0..MaxVersion : v = tsafe'[s] /\ v <= tver[s] /\ Marked(d, s, v) /\ Checked(d, s, v)
      BY <2>3
    <3>2. Marked(d, s, v)' /\ Checked(d, s, v)'
      BY <1>3, <3>1 DEF Kept
    <3> QED
      BY <3>1, <3>2 DEF Marked, Checked, Stale
  <2>5. 0 \in TCpus
    BY DEF TCpus
  <2> QED
    BY <1>4, <2>4, <2>5 DEF Finished
<1>6. ASSUME NEW i \in TCpus PROVE UnderwayOf(i)'
  <2>1. CASE i # c
    <3>1. tmode'[i] = tmode[i] /\ tshoot'[i] = tshoot[i] /\ tpos'[i] = tpos[i] /\ tmoved'[i] = tmoved[i]
      BY <2>1 DEF TlbType, GoTo, TDone
    <3> QED
      BY <1>1, <1>3, <1>4, <3>1, UnderwayKept DEF TlbType, Passed
  <2>2. CASE i = c
    BY <2>2 DEF TlbType, UnderwayOf, GoTo, TDone
  <2> QED
    BY <2>1, <2>2
<1> QED
  BY <1>1, <1>2, <1>5, <1>6 DEF Underway

-----------------------------------------------------------------------------
(* The theorem.                                                            *)

\* At boot nothing is cached.
LEMMA TlbInitInv == ASSUME TlbInit PROVE TInv
<1> USE TlbAssumption DEF TlbInit
<1>1. \A c \in TCpus : tec[c] \in TEcs /\ tec[c].hst \in HostSpaces
  BY EcType
<1>2. TlbType
  BY <1>1 DEF TlbType, NoShoot, NoEntry
<1>3. Places
  BY DEF Places
<1>4. Finished
  BY DEF Finished, Marked, Checked, Stale, NoEntry
<1>5. Underway
  BY DEF Underway, UnderwayOf
<1> QED
  BY <1>2, <1>3, <1>4, <1>5 DEF TInv

\* What is known of finished delegations is what the shootdown promises.
LEMMA TInvImplies == TInv => ShootdownExact
<1> SUFFICES ASSUME TInv PROVE ShootdownExact
  OBVIOUS
<1> USE TlbAssumption DEF TInv
<1>1. RevokedIsGone
  <2> SUFFICES ASSUME NEW c \in TCpus, tmode[c] = "user", NEW s, s = RunsIn(tec[c]), tcache[s][c] < tsafe[s]
               PROVE  s \in HostSpaces /\ c \in traced[s]
    BY DEF RevokedIsGone
  <2>1. tec[c] \in TEcs
    BY DEF TlbType
  <2>2. s \in TSpaces
    BY <2>1, EcType DEF RunsIn
  <2>3. Checked(c, s, tsafe[s])
    BY <2>2 DEF Finished
  <2>4. Unchecked(c, s)
    BY <2>1, <2>2, EcType DEF Unchecked, Flushing, RunsIn, TSpaces
  <2> QED
    BY <2>3, <2>4 DEF Checked, Stale
<1>2. StaleIsMarked
  BY DEF StaleIsMarked, Finished, Marked, Stale, Flushing
<1> QED
  BY <1>1, <1>2 DEF ShootdownExact

\* When a delegation returns, no CPU runs in the space with a translation from
\* before it, except one that the shootdown met in make_current, after the test of its
\* htlb bit and before it could be seen in the space (traced); and every CPU that keeps
\* such a translation is marked: for any number of CPUs, spaces, execution contexts and
\* concurrent delegations.
THEOREM ShootdownsExact == TlbSpec => []ShootdownExact
<1>1. TlbInit => TInv
  BY TlbInitInv
<1>2. TInv /\ [TlbNext]_tlbvars => TInv'
  <2> SUFFICES ASSUME TInv, [TlbNext]_tlbvars PROVE TInv'
    OBVIOUS
  <2>1. CASE TlbNext
    <3>1. PICK c \in TCpus :
             \/ \E e \in TEcs : TSwitch(c, e)
             \/ TLoad(c) \/ TBecome(c) \/ TReturn(c) \/ TGuestTest(c) \/ TGuestEnter(c)
             \/ TFill(c) \/ TEnter(c) \/ TRke(c)
             \/ \E s \in TSpaces : TUpdate(c, s)
             \/ TSync(c) \/ TLook(c) \/ TSend(c) \/ TWait(c) \/ TDone(c)
      BY <2>1 DEF TlbNext
    <3> QED
      BY <3>1, TSwitchInv, TLoadInv, TBecomeInv, TReturnInv, TGuestTestInv, TGuestEnterInv, TFillInv,
         TEnterInv, TRkeInv, TUpdateInv, TSyncInv, TLookInv, TSendInv, TWaitInv, TDoneInv
  <2>2. CASE UNCHANGED tlbvars
    BY <2>2 DEF TInv, TlbType, Places, Finished, Underway, UnderwayOf, Passed, Marked, Checked, Stale,
       Flushing, Unchecked, tlbvars
  <2> QED
    BY <2>1, <2>2
<1> QED
  BY <1>1, <1>2, TInvImplies, PTL DEF TlbSpec

-----------------------------------------------------------------------------
(* Device and interrupt assignment on x86_64, for callers that take turns  *)
(* and sleeps that do not begin at the end of the invalidation queue.      *)

VOps == {"ctx", "tlb", "wait", "poll", "set"}
DevCalls == [op : VOps, dev : Devs, dma : Dmas]
IrqCalls == [op : {"iec", "wait", "poll", "irt"}, irq : Irqs, dst : Dests]

\* What a call is about, and that one is made at a time.
CallsOk ==
    /\ vcall \in [Callers -> {NoCall} \cup DevCalls \cup IrqCalls]
    /\ \A c, e \in Callers : vcall[c] # NoCall /\ vcall[e] # NoCall => c = e

\* The slot before s.
PrevSlot(s) == IF s = 0 THEN QSize - 1 ELSE s - 1

\* The unit has executed everything, and the next descriptors do not wrap to its head.
Drained == viqh = viqt /\ (viqt = vidx \/ (viqt = 0 /\ vidx + 2 < QSize))

\* Slots of the queue in use hold descriptors.
Written ==
    /\ \A s \in QSlots : s < vidx => vq[s] # "none"
    /\ viqt < viqh => \A s \in QSlots : vq[s] # "none"
    /\ viqh # viqt => viqt = vidx

\* What the call k of a device or an interrupt has achieved with its descriptors.
CallOk(k, w) ==
    /\ k.op \in {"ctx", "iec", "set", "irt"} => Drained
    /\ k.op \in {"tlb", "wait", "poll"} =>
          IF vqi THEN viqt = vidx ELSE k \in DevCalls /\ k.op = "tlb" /\ Drained
    /\ k.op = "poll" => w = viqt
    /\ k \in IrqCalls => vqi /\ virt[k.irq] = k.dst /\ virq[k.irq] = Absent
    /\ k \in DevCalls => vctx[k.dev] = Absent /\ vdev[k.dev] = Absent

\* The first descriptor of a call is on its way, or has done its work.
FlushOk(k) ==
    /\ k \in DevCalls /\ k.op = "set" => vcc[k.dev] = Absent
    /\ k \in DevCalls /\ k.op = "tlb" =>
          \/ vcc[k.dev] = Absent
          \/ vqi /\ viqh # vidx /\ vq[PrevSlot(vidx)] = "ctx"
    /\ k \in DevCalls /\ k.op = "tlb" /\ vqi =>
          viqh \in {vidx, PrevSlot(vidx)} \/ (viqh < vidx /\ vidx < QSize - 1)
    /\ k \in DevCalls /\ k.op \in {"wait", "poll"} =>
          \/ vcc[k.dev] = Absent
          \/ viqh \notin {vidx, PrevSlot(vidx)} /\ vq[PrevSlot(PrevSlot(vidx))] = "ctx"
    /\ k \in IrqCalls /\ k.op = "irt" => viec[k.irq] \in {Absent, k.dst}
    /\ k \in IrqCalls /\ k.op \in {"wait", "poll"} =>
          \/ viec[k.irq] \in {Absent, k.dst}
          \/ viqh # vidx /\ vq[PrevSlot(vidx)] = "iec"

\* Without a call the queue is drained.
Quiet == (\A c \in Callers : vcall[c] = NoCall) => Drained

VInv == AssignmentHolds /\ CallsOk /\ Written /\ Quiet
        /\ \A c \in Callers : CallOk(vcall[c], vwait[c]) /\ FlushOk(vcall[c])

\* The slot after s.
LEMMA NextSlot ==
    ASSUME NEW s \in QSlots
    PROVE  QNext(s) = (IF s = QSize - 1 THEN 0 ELSE s + 1) /\ QNext(s) \in QSlots
           /\ PrevSlot(s) \in QSlots /\ PrevSlot(s) # s /\ PrevSlot(PrevSlot(s)) # s
           /\ PrevSlot(QNext(s)) = s /\ QNext(PrevSlot(s)) = s
<1>1. ASSUME NEW t \in QSlots PROVE QNext(t) = IF t = QSize - 1 THEN 0 ELSE t + 1
  BY VtdAssumption, SMT DEF QSlots, QNext
<1> QED
  BY <1>1, VtdAssumption DEF QSlots, PrevSlot

\* A CPU that makes no call has nothing to keep.
LEMMA IdleOk ==
    ASSUME NEW w
    PROVE  CallOk(NoCall, w) /\ FlushOk(NoCall) /\ CallOk(NoCall, w)' /\ FlushOk(NoCall)'
           /\ \A k \in DevCalls \cup IrqCalls : k # NoCall
  BY DEF CallOk, FlushOk, NoCall, DevCalls, IrqCalls

\* A call is about a device or about an interrupt.
LEMMA CallKinds ==
    /\ \A k \in DevCalls : /\ k \notin IrqCalls /\ k # NoCall /\ "dev" \in DOMAIN k
                           /\ k.op \in VOps /\ k.dev \in Devs /\ k.dma \in Dmas
    /\ \A k \in IrqCalls : /\ k \notin DevCalls /\ k # NoCall /\ "dev" \notin DOMAIN k
                           /\ k.op \in {"iec", "wait", "poll", "irt"} /\ k.irq \in Irqs /\ k.dst \in Dests
  BY DEF DevCalls, IrqCalls, NoCall

\* It stays so.
LEMMA CallGoes ==
    /\ \A k \in DevCalls, o \in VOps :
          \E x \in DevCalls : x = [k EXCEPT !.op = o] /\ x.op = o /\ x.dev = k.dev /\ x.dma = k.dma
    /\ \A k \in IrqCalls, o \in {"iec", "wait", "poll", "irt"} :
          \E x \in IrqCalls : x = [k EXCEPT !.op = o] /\ x.op = o /\ x.irq = k.irq /\ x.dst = k.dst
<1>1. ASSUME NEW k \in DevCalls, NEW o \in VOps
      PROVE  [k EXCEPT !.op = o] \in DevCalls /\ [k EXCEPT !.op = o].op = o
             /\ [k EXCEPT !.op = o].dev = k.dev /\ [k EXCEPT !.op = o].dma = k.dma
  BY DEF DevCalls
<1>2. ASSUME NEW k \in IrqCalls, NEW o \in {"iec", "wait", "poll", "irt"}
      PROVE  [k EXCEPT !.op = o] \in IrqCalls /\ [k EXCEPT !.op = o].op = o
             /\ [k EXCEPT !.op = o].irq = k.irq /\ [k EXCEPT !.op = o].dst = k.dst
  BY DEF IrqCalls
<1>3. ASSUME NEW k \in DevCalls, NEW o \in VOps
      PROVE  \E x \in DevCalls : x = [k EXCEPT !.op = o] /\ x.op = o /\ x.dev = k.dev /\ x.dma = k.dma
  <2> USE <1>1
  <2> WITNESS [k EXCEPT !.op = o] \in DevCalls
  <2> QED
    OBVIOUS
<1>4. ASSUME NEW k \in IrqCalls, NEW o \in {"iec", "wait", "poll", "irt"}
      PROVE  \E x \in IrqCalls : x = [k EXCEPT !.op = o] /\ x.op = o /\ x.irq = k.irq /\ x.dst = k.dst
  <2> USE <1>2
  <2> WITNESS [k EXCEPT !.op = o] \in IrqCalls
  <2> QED
    OBVIOUS
<1> QED
  BY <1>3, <1>4

\* The call of a CPU goes on or ends; no other CPU is in one.
LEMMA CallsKept ==
    ASSUME CallsOk, NEW c \in Callers, vcall[c] # NoCall,
           NEW k \in {NoCall} \cup DevCalls \cup IrqCalls, vcall' = [vcall EXCEPT ![c] = k]
    PROVE  CallsOk' /\ vcall'[c] = k /\ \A e \in Callers : e # c => vcall'[e] = NoCall
  BY DEF CallsOk

\* The caches are clean, and the entry is set.
LEMMA VSetInv == ASSUME VInv, NEW c \in Callers, VSet(c) PROVE VInv'
<1> USE VtdAssumption DEF VInv
<1>0. VtdType /\ CallsOk /\ CallOk(vcall[c], vwait[c]) /\ FlushOk(vcall[c])
  BY DEF AssignmentHolds
<1>1. PICK k \in DevCalls \cup IrqCalls :
         /\ k = vcall[c] /\ k # NoCall
         /\ k \in DevCalls /\ k.op = "set"
  BY <1>0, CallKinds DEF CallsOk, NoCall, VOps, VSet
<1>2. PICK n \in {NoCall} \cup DevCalls \cup IrqCalls :
         /\ vcall' = [vcall EXCEPT ![c] = n]
         /\ n = NoCall
  BY DEF VSet
<1>3. CallsOk' /\ vcall'[c] = n /\ \A e \in Callers : e # c => vcall'[e] = NoCall
  BY <1>0, <1>1, <1>2, CallsKept
<1>4. VtdType'
  BY <1>0, <1>1, NextSlot, CallKinds DEF VtdType, VSet
<1>5. Written' /\ Drained /\ Drained'
  BY <1>0, <1>1 DEF Written, CallOk, Drained, VSet
<1>6. Quiet'
  BY <1>5 DEF Quiet
<1>7. AssignmentHolds'
  BY <1>0, <1>1, <1>4, <1>5, CallKinds DEF AssignmentHolds, VtdType, CallOk, FlushOk, VSet
<1>8. CallOk(vcall[c], vwait[c])' /\ FlushOk(vcall[c])'
  <2>1. PICK w : w = vwait'[c]
    OBVIOUS
  <2>2. CallOk(NoCall, w)' /\ FlushOk(NoCall)'
    BY IdleOk
  <2> QED
    BY <1>2, <1>3, <2>1, <2>2
<1>9. ASSUME NEW e \in Callers PROVE CallOk(vcall[e], vwait[e])' /\ FlushOk(vcall[e])'
  <2>1. CASE e = c
    BY <2>1, <1>3, <1>8
  <2>2. CASE e # c
    <3>1. PICK w : w = vwait'[e]
      OBVIOUS
    <3>2. CallOk(NoCall, w)' /\ FlushOk(NoCall)'
      BY IdleOk
    <3> QED
      BY <2>2, <1>3, <3>1, <3>2
  <2> QED
    BY <2>1, <2>2
<1> QED
  BY <1>3, <1>5, <1>6, <1>7, <1>9

\* The caches are clean, and the call returns.
LEMMA VIrtDoneInv == ASSUME VInv, NEW c \in Callers, VIrtDone(c) PROVE VInv'
<1> USE VtdAssumption DEF VInv
<1>0. VtdType /\ CallsOk /\ CallOk(vcall[c], vwait[c]) /\ FlushOk(vcall[c])
  BY DEF AssignmentHolds
<1>1. PICK k \in DevCalls \cup IrqCalls :
         /\ k = vcall[c] /\ k # NoCall
         /\ k \in IrqCalls /\ k.op = "irt"
  BY <1>0, CallKinds DEF CallsOk, NoCall, VOps, VIrtDone
<1>2. PICK n \in {NoCall} \cup DevCalls \cup IrqCalls :
         /\ vcall' = [vcall EXCEPT ![c] = n]
         /\ n = NoCall
  BY DEF VIrtDone
<1>3. CallsOk' /\ vcall'[c] = n /\ \A e \in Callers : e # c => vcall'[e] = NoCall
  BY <1>0, <1>1, <1>2, CallsKept
<1>4. VtdType'
  BY <1>0, <1>1, NextSlot, CallKinds DEF VtdType, VIrtDone
<1>5. Written' /\ Drained /\ Drained'
  BY <1>0, <1>1 DEF Written, CallOk, Drained, VIrtDone
<1>6. Quiet'
  BY <1>5 DEF Quiet
<1>7. AssignmentHolds'
  BY <1>0, <1>1, <1>4, <1>5, CallKinds DEF AssignmentHolds, VtdType, CallOk, FlushOk, VIrtDone
<1>8. CallOk(vcall[c], vwait[c])' /\ FlushOk(vcall[c])'
  <2>1. PICK w : w = vwait'[c]
    OBVIOUS
  <2>2. CallOk(NoCall, w)' /\ FlushOk(NoCall)'
    BY IdleOk
  <2> QED
    BY <1>2, <1>3, <2>1, <2>2
<1>9. ASSUME NEW e \in Callers PROVE CallOk(vcall[e], vwait[e])' /\ FlushOk(vcall[e])'
  <2>1. CASE e = c
    BY <2>1, <1>3, <1>8
  <2>2. CASE e # c
    <3>1. PICK w : w = vwait'[e]
      OBVIOUS
    <3>2. CallOk(NoCall, w)' /\ FlushOk(NoCall)'
      BY IdleOk
    <3> QED
      BY <2>2, <1>3, <3>1, <3>2
  <2> QED
    BY <2>1, <2>2
<1> QED
  BY <1>3, <1>5, <1>6, <1>7, <1>9

\* A descriptor follows the last one, and never catches up with the head of the unit.
LEMMA QiSubmitInv == ASSUME VInv, NEW c \in Callers, QiSubmit(c) PROVE VInv'
<1> USE VtdAssumption DEF VInv
<1>0. VtdType /\ CallsOk /\ CallOk(vcall[c], vwait[c]) /\ FlushOk(vcall[c])
  BY DEF AssignmentHolds
<1>1. PICK k \in DevCalls \cup IrqCalls :
         /\ k = vcall[c] /\ k # NoCall
         /\ k.op \in {"ctx", "tlb", "iec"} /\ (k.op = "iec" <=> k \in IrqCalls)
  BY <1>0, CallKinds DEF CallsOk, NoCall, VOps, QiSubmit
<1>2. PICK n \in {NoCall} \cup DevCalls \cup IrqCalls :
         /\ vcall' = [vcall EXCEPT ![c] = n]
         /\ n \in DevCalls \cup IrqCalls /\ n # NoCall
         /\ k \in DevCalls => n \in DevCalls /\ n.dev = k.dev /\ n.dma = k.dma /\ n \notin IrqCalls
         /\ k \in IrqCalls => n \in IrqCalls /\ n.irq = k.irq /\ n.dst = k.dst /\ n \notin DevCalls
         /\ n.op = (IF k.op = "ctx" THEN "tlb" ELSE "wait")
  <2>1. vcall' = [vcall EXCEPT ![c] = [k EXCEPT !.op = (IF k.op = "ctx" THEN "tlb" ELSE "wait")]]
    BY <1>1, CallKinds DEF Doing, After, QiSubmit
  <2>2. CASE k \in DevCalls
    <3>1. (IF k.op = "ctx" THEN "tlb" ELSE "wait") \in VOps
      BY <1>1, <2>2, CallKinds DEF VOps, QiSubmit
    <3>2. PICK o \in VOps : o = (IF k.op = "ctx" THEN "tlb" ELSE "wait")
      BY <3>1
    <3>3. PICK x \in DevCalls : x = [k EXCEPT !.op = o] /\ x.op = o /\ x.dev = k.dev /\ x.dma = k.dma
      BY <2>2, CallGoes
    <3> QED
      BY <2>1, <2>2, <3>2, <3>3, CallKinds
  <2>3. CASE k \in IrqCalls
    <3>1. (IF k.op = "ctx" THEN "tlb" ELSE "wait") \in {"iec", "wait", "poll", "irt"}
      BY <1>1, <2>3, CallKinds DEF QiSubmit
    <3>2. PICK o \in {"iec", "wait", "poll", "irt"} : o = (IF k.op = "ctx" THEN "tlb" ELSE "wait")
      BY <3>1
    <3>3. PICK x \in IrqCalls : x = [k EXCEPT !.op = o] /\ x.op = o /\ x.irq = k.irq /\ x.dst = k.dst
      BY <2>3, CallGoes
    <3> QED
      BY <2>1, <2>3, <3>2, <3>3, CallKinds
  <2> QED
    BY <1>1, <2>2, <2>3
<1>3. CallsOk' /\ vcall'[c] = n /\ \A e \in Callers : e # c => vcall'[e] = NoCall
  BY <1>0, <1>1, <1>2, CallsKept
<1>4. VtdType'
  BY <1>0, <1>1, NextSlot, CallKinds DEF VtdType, QiSubmit
<1>5. Written'
  <2>1. /\ \A s \in QSlots : vq'[s] = IF s = vidx THEN k.op ELSE vq[s]
        /\ vidx' = viqt' /\ viqh' = viqh /\ vidx' = (IF vidx = QSize - 1 THEN 0 ELSE vidx + 1)
        /\ vidx \in QSlots /\ viqh \in QSlots /\ viqt \in QSlots
    BY <1>0, <1>1, NextSlot DEF VtdType, QiSubmit
  <2>2. viqt = vidx \/ (viqt = 0 /\ viqh = 0)
    BY <1>0, <1>1, CallKinds DEF CallOk, Drained, QiSubmit
  <2> QED
    BY <1>1, <2>1, <2>2 DEF Written, QSlots
<1>6. Quiet'
  BY <1>2, <1>3, CallKinds DEF Quiet
<1>7. AssignmentHolds'
  BY <1>0, <1>4, <1>5 DEF AssignmentHolds, Written, VtdType, QSlots, QiSubmit
<1>8. CallOk(vcall[c], vwait[c])' /\ FlushOk(vcall[c])'
  <2>0. PICK w : w = vwait'[c]
    OBVIOUS
  <2> SUFFICES CallOk(n, w)' /\ FlushOk(n)'
    BY <1>3, <2>0
  <2>1. /\ vq'[vidx] = k.op /\ PrevSlot(vidx') = vidx /\ vidx' \in QSlots /\ viqt' = vidx'
        /\ vq'[PrevSlot(vidx)] = vq[PrevSlot(vidx)] /\ vqi = TRUE /\ vqi' = TRUE /\ viqh' = viqh
        /\ UNCHANGED <<vctx, vcc, virt, viec, vdev, virq>>
        /\ vidx' = IF vidx = QSize - 1 THEN 0 ELSE vidx + 1
    BY <1>0, <1>1, NextSlot DEF VtdType, QiSubmit
  <2>2. CASE k \in DevCalls /\ k.op = "ctx"
    <3>1. viqh' \in {vidx', PrevSlot(vidx')} \/ (viqh' < vidx' /\ vidx' < QSize - 1)
      BY <1>0, <1>1, <2>1, <2>2 DEF CallOk, Drained, QSlots, VtdType
    <3>2. viqh' # vidx'
      BY <1>0, <1>1, <2>1, <2>2 DEF CallOk, Drained, QSlots, VtdType
    <3> QED
      BY <1>0, <1>1, <1>2, <2>1, <2>2, <3>1, <3>2 DEF CallOk, FlushOk
  <2>3. CASE k \in DevCalls /\ k.op = "tlb"
    <3>1. viqh' # vidx'
      BY <1>0, <1>1, <2>1, <2>3 DEF FlushOk, QSlots, VtdType, PrevSlot
    <3>2. vcc[k.dev] = Absent \/ (viqh' \notin {vidx', PrevSlot(vidx')} /\ vq'[PrevSlot(PrevSlot(vidx'))] = "ctx")
      BY <1>0, <1>1, <2>1, <2>3, <3>1 DEF FlushOk
    <3> QED
      BY <1>0, <1>1, <1>2, <2>1, <2>3, <3>2 DEF CallOk, FlushOk
  <2>4. CASE k \in IrqCalls
    <3>1. viqh' # vidx'
      BY <1>0, <1>1, <2>1, <2>4 DEF CallOk, Drained, QSlots, VtdType
    <3> QED
      BY <1>0, <1>1, <1>2, <2>1, <2>4, <3>1 DEF CallOk, FlushOk
  <2> QED
    BY <1>1, <2>2, <2>3, <2>4, CallKinds
<1>9. ASSUME NEW e \in Callers PROVE CallOk(vcall[e], vwait[e])' /\ FlushOk(vcall[e])'
  <2>1. CASE e = c
    BY <2>1, <1>3, <1>8
  <2>2. CASE e # c
    <3>1. PICK w : w = vwait'[e]
      OBVIOUS
    <3>2. CallOk(NoCall, w)' /\ FlushOk(NoCall)'
      BY IdleOk
    <3> QED
      BY <2>2, <1>3, <3>1, <3>2
  <2> QED
    BY <2>1, <2>2
<1> QED
  BY <1>3, <1>5, <1>6, <1>7, <1>9

\* The tail is read.
LEMMA QiTailInv == ASSUME VInv, NEW c \in Callers, QiTail(c) PROVE VInv'
<1> USE VtdAssumption DEF VInv
<1>0. VtdType /\ CallsOk /\ CallOk(vcall[c], vwait[c]) /\ FlushOk(vcall[c])
  BY DEF AssignmentHolds
<1>1. PICK k \in DevCalls \cup IrqCalls :
         /\ k = vcall[c] /\ k # NoCall
         /\ k.op = "wait"
  BY <1>0, CallKinds DEF CallsOk, NoCall, VOps, QiTail
<1>2. PICK n \in {NoCall} \cup DevCalls \cup IrqCalls :
         /\ vcall' = [vcall EXCEPT ![c] = n]
         /\ n \in DevCalls \cup IrqCalls /\ n # NoCall
         /\ k \in DevCalls => n \in DevCalls /\ n.dev = k.dev /\ n.dma = k.dma /\ n \notin IrqCalls
         /\ k \in IrqCalls => n \in IrqCalls /\ n.irq = k.irq /\ n.dst = k.dst /\ n \notin DevCalls
         /\ n.op = "poll"
  <2>1. vcall' = [vcall EXCEPT ![c] = [k EXCEPT !.op = "poll"]]
    BY <1>1, CallKinds DEF Doing, After, QiTail
  <2>2. CASE k \in DevCalls
    <3>1. "poll" \in VOps
      BY <1>1, <2>2, CallKinds DEF VOps, QiTail
    <3>2. PICK o \in VOps : o = "poll"
      BY <3>1
    <3>3. PICK x \in DevCalls : x = [k EXCEPT !.op = o] /\ x.op = o /\ x.dev = k.dev /\ x.dma = k.dma
      BY <2>2, CallGoes
    <3> QED
      BY <2>1, <2>2, <3>2, <3>3, CallKinds
  <2>3. CASE k \in IrqCalls
    <3>1. "poll" \in {"iec", "wait", "poll", "irt"}
      BY <1>1, <2>3, CallKinds DEF QiTail
    <3>2. PICK o \in {"iec", "wait", "poll", "irt"} : o = "poll"
      BY <3>1
    <3>3. PICK x \in IrqCalls : x = [k EXCEPT !.op = o] /\ x.op = o /\ x.irq = k.irq /\ x.dst = k.dst
      BY <2>3, CallGoes
    <3> QED
      BY <2>1, <2>3, <3>2, <3>3, CallKinds
  <2> QED
    BY <1>1, <2>2, <2>3
<1>3. CallsOk' /\ vcall'[c] = n /\ \A e \in Callers : e # c => vcall'[e] = NoCall
  BY <1>0, <1>1, <1>2, CallsKept
<1>4. VtdType'
  BY <1>0, <1>1, NextSlot, CallKinds DEF VtdType, QiTail
<1>5. Written'
  BY DEF Written, QiTail
<1>6. Quiet'
  BY <1>2, <1>3, CallKinds DEF Quiet
<1>7. AssignmentHolds'
  BY <1>0, <1>4, <1>5 DEF AssignmentHolds, Written, VtdType, QSlots, QiTail
<1>8. CallOk(vcall[c], vwait[c])' /\ FlushOk(vcall[c])'
  <2>0. PICK w : w = vwait'[c]
    OBVIOUS
  <2> SUFFICES CallOk(n, w)' /\ FlushOk(n)'
    BY <1>3, <2>0
  <2>1. w = viqt
    BY <1>0, <2>0 DEF VtdType, QiTail
  <2>2. UNCHANGED <<vqi, vctx, vcc, virt, viec, vq, vidx, viqh, viqt, vdev, virq>>
    BY DEF QiTail
  <2> QED
    BY <1>0, <1>1, <1>2, <2>1, <2>2 DEF CallOk, FlushOk
<1>9. ASSUME NEW e \in Callers PROVE CallOk(vcall[e], vwait[e])' /\ FlushOk(vcall[e])'
  <2>1. CASE e = c
    BY <2>1, <1>3, <1>8
  <2>2. CASE e # c
    <3>1. PICK w : w = vwait'[e]
      OBVIOUS
    <3>2. CallOk(NoCall, w)' /\ FlushOk(NoCall)'
      BY IdleOk
    <3> QED
      BY <2>2, <1>3, <3>1, <3>2
  <2> QED
    BY <2>1, <2>2
<1> QED
  BY <1>3, <1>5, <1>6, <1>7, <1>9

\* The head has reached the tail: all descriptors of the call are executed.
LEMMA QiPollInv == ASSUME VInv, NEW c \in Callers, QiPoll(c) PROVE VInv'
<1> USE VtdAssumption DEF VInv
<1>0. VtdType /\ CallsOk /\ CallOk(vcall[c], vwait[c]) /\ FlushOk(vcall[c])
  BY DEF AssignmentHolds
<1>1. PICK k \in DevCalls \cup IrqCalls :
         /\ k = vcall[c] /\ k # NoCall
         /\ k.op = "poll"
  BY <1>0, CallKinds DEF CallsOk, NoCall, VOps, QiPoll
<1>2. PICK n \in {NoCall} \cup DevCalls \cup IrqCalls :
         /\ vcall' = [vcall EXCEPT ![c] = n]
         /\ n \in DevCalls \cup IrqCalls /\ n # NoCall
         /\ k \in DevCalls => n \in DevCalls /\ n.dev = k.dev /\ n.dma = k.dma /\ n \notin IrqCalls
         /\ k \in IrqCalls => n \in IrqCalls /\ n.irq = k.irq /\ n.dst = k.dst /\ n \notin DevCalls
         /\ n.op = (IF k \in DevCalls THEN "set" ELSE "irt")
  <2>1. vcall' = [vcall EXCEPT ![c] = [k EXCEPT !.op = (IF k \in DevCalls THEN "set" ELSE "irt")]]
    BY <1>1, CallKinds DEF Doing, After, QiPoll
  <2>2. CASE k \in DevCalls
    <3>1. (IF k \in DevCalls THEN "set" ELSE "irt") \in VOps
      BY <1>1, <2>2, CallKinds DEF VOps, QiPoll
    <3>2. PICK o \in VOps : o = (IF k \in DevCalls THEN "set" ELSE "irt")
      BY <3>1
    <3>3. PICK x \in DevCalls : x = [k EXCEPT !.op = o] /\ x.op = o /\ x.dev = k.dev /\ x.dma = k.dma
      BY <2>2, CallGoes
    <3> QED
      BY <2>1, <2>2, <3>2, <3>3, CallKinds
  <2>3. CASE k \in IrqCalls
    <3>1. (IF k \in DevCalls THEN "set" ELSE "irt") \in {"iec", "wait", "poll", "irt"}
      BY <1>1, <2>3, CallKinds DEF QiPoll
    <3>2. PICK o \in {"iec", "wait", "poll", "irt"} : o = (IF k \in DevCalls THEN "set" ELSE "irt")
      BY <3>1
    <3>3. PICK x \in IrqCalls : x = [k EXCEPT !.op = o] /\ x.op = o /\ x.irq = k.irq /\ x.dst = k.dst
      BY <2>3, CallGoes
    <3> QED
      BY <2>1, <2>3, <3>2, <3>3, CallKinds
  <2> QED
    BY <1>1, <2>2, <2>3
<1>3. CallsOk' /\ vcall'[c] = n /\ \A e \in Callers : e # c => vcall'[e] = NoCall
  BY <1>0, <1>1, <1>2, CallsKept
<1>4. VtdType'
  BY <1>0, <1>1, NextSlot, CallKinds DEF VtdType, QiPoll
<1>5. Written'
  BY DEF Written, QiPoll
<1>6. Quiet'
  BY <1>2, <1>3, CallKinds DEF Quiet
<1>7. AssignmentHolds'
  BY <1>0, <1>4, <1>5 DEF AssignmentHolds, Written, VtdType, QSlots, QiPoll
<1>8. CallOk(vcall[c], vwait[c])' /\ FlushOk(vcall[c])'
  <2>0. PICK w : w = vwait'[c]
    OBVIOUS
  <2> SUFFICES CallOk(n, w)' /\ FlushOk(n)'
    BY <1>3, <2>0
  <2>1. viqh = viqt /\ UNCHANGED <<vqi, vctx, vcc, virt, viec, vq, vidx, viqh, viqt, vwait, vdev, virq>>
    BY <1>0, <1>1 DEF CallOk, QiPoll
  <2> QED
    BY <1>0, <1>1, <1>2, <2>1 DEF CallOk, FlushOk, Drained
<1>9. ASSUME NEW e \in Callers PROVE CallOk(vcall[e], vwait[e])' /\ FlushOk(vcall[e])'
  <2>1. CASE e = c
    BY <2>1, <1>3, <1>8
  <2>2. CASE e # c
    <3>1. PICK w : w = vwait'[e]
      OBVIOUS
    <3>2. CallOk(NoCall, w)' /\ FlushOk(NoCall)'
      BY IdleOk
    <3> QED
      BY <2>2, <1>3, <3>1, <3>2
  <2> QED
    BY <2>1, <2>2
<1> QED
  BY <1>3, <1>5, <1>6, <1>7, <1>9

\* A unit without a queue has executed the command.
LEMMA VCommandInv == ASSUME VInv, NEW c \in Callers, VCommand(c) PROVE VInv'
<1> USE VtdAssumption DEF VInv
<1>0. VtdType /\ CallsOk /\ CallOk(vcall[c], vwait[c]) /\ FlushOk(vcall[c])
  BY DEF AssignmentHolds
<1>1. PICK k \in DevCalls \cup IrqCalls :
         /\ k = vcall[c] /\ k # NoCall
         /\ k.op \in {"ctx", "tlb"} /\ k \in DevCalls
  BY <1>0, CallKinds DEF CallsOk, NoCall, VOps, VCommand
<1>2. PICK n \in {NoCall} \cup DevCalls \cup IrqCalls :
         /\ vcall' = [vcall EXCEPT ![c] = n]
         /\ n \in DevCalls \cup IrqCalls /\ n # NoCall
         /\ k \in DevCalls => n \in DevCalls /\ n.dev = k.dev /\ n.dma = k.dma /\ n \notin IrqCalls
         /\ k \in IrqCalls => n \in IrqCalls /\ n.irq = k.irq /\ n.dst = k.dst /\ n \notin DevCalls
         /\ n.op = (IF k.op = "ctx" THEN "tlb" ELSE "set")
  <2>1. vcall' = [vcall EXCEPT ![c] = [k EXCEPT !.op = (IF k.op = "ctx" THEN "tlb" ELSE "set")]]
    BY <1>1, CallKinds DEF Doing, After, VCommand
  <2>2. CASE k \in DevCalls
    <3>1. (IF k.op = "ctx" THEN "tlb" ELSE "set") \in VOps
      BY <1>1, <2>2, CallKinds DEF VOps, VCommand
    <3>2. PICK o \in VOps : o = (IF k.op = "ctx" THEN "tlb" ELSE "set")
      BY <3>1
    <3>3. PICK x \in DevCalls : x = [k EXCEPT !.op = o] /\ x.op = o /\ x.dev = k.dev /\ x.dma = k.dma
      BY <2>2, CallGoes
    <3> QED
      BY <2>1, <2>2, <3>2, <3>3, CallKinds
  <2>3. CASE k \in IrqCalls
    <3>1. (IF k.op = "ctx" THEN "tlb" ELSE "set") \in {"iec", "wait", "poll", "irt"}
      BY <1>1, <2>3, CallKinds DEF VCommand
    <3>2. PICK o \in {"iec", "wait", "poll", "irt"} : o = (IF k.op = "ctx" THEN "tlb" ELSE "set")
      BY <3>1
    <3>3. PICK x \in IrqCalls : x = [k EXCEPT !.op = o] /\ x.op = o /\ x.irq = k.irq /\ x.dst = k.dst
      BY <2>3, CallGoes
    <3> QED
      BY <2>1, <2>3, <3>2, <3>3, CallKinds
  <2> QED
    BY <1>1, <2>2, <2>3
<1>3. CallsOk' /\ vcall'[c] = n /\ \A e \in Callers : e # c => vcall'[e] = NoCall
  BY <1>0, <1>1, <1>2, CallsKept
<1>4. VtdType'
  BY <1>0, <1>1, NextSlot, CallKinds DEF VtdType, VCommand
<1>5. Written'
  BY DEF Written, VCommand
<1>6. Quiet'
  BY <1>2, <1>3, CallKinds DEF Quiet
<1>7. AssignmentHolds'
  BY <1>0, <1>4, <1>5 DEF AssignmentHolds, Written, VtdType, QSlots, VCommand
<1>8. CallOk(vcall[c], vwait[c])' /\ FlushOk(vcall[c])'
  <2>0. PICK w : w = vwait'[c]
    OBVIOUS
  <2> SUFFICES CallOk(n, w)' /\ FlushOk(n)'
    BY <1>3, <2>0
  <2>1. /\ vqi = FALSE /\ vqi' = FALSE /\ UNCHANGED <<vctx, virt, viec, vq, vidx, viqh, viqt, vdev, virq>>
        /\ k.op = "ctx" => vcc'[k.dev] = Absent
        /\ k.op = "tlb" => vcc' = vcc
    BY <1>0, <1>1, CallKinds DEF VtdType, VCommand
  <2> QED
    BY <1>0, <1>1, <1>2, <2>1 DEF CallOk, FlushOk, Drained
<1>9. ASSUME NEW e \in Callers PROVE CallOk(vcall[e], vwait[e])' /\ FlushOk(vcall[e])'
  <2>1. CASE e = c
    BY <2>1, <1>3, <1>8
  <2>2. CASE e # c
    <3>1. PICK w : w = vwait'[e]
      OBVIOUS
    <3>2. CallOk(NoCall, w)' /\ FlushOk(NoCall)'
      BY IdleOk
    <3> QED
      BY <2>2, <1>3, <3>1, <3>2
  <2> QED
    BY <2>1, <2>2
<1> QED
  BY <1>3, <1>5, <1>6, <1>7, <1>9

\* The entry of the device is absent.
LEMMA VClearInv == ASSUME VInv, NEW c \in Callers, NEW d \in Devs, NEW s \in Dmas, Serial = TRUE, VClear(c, d, s) PROVE VInv'
<1> USE VtdAssumption DEF VInv
<1>0. /\ VtdType /\ vcall[c] \in {NoCall} \cup DevCalls \cup IrqCalls
      /\ CallOk(vcall[c], vwait[c]) /\ FlushOk(vcall[c])
      /\ \A e \in Callers : e # c => vcall'[e] = NoCall
  BY IdleOk DEF AssignmentHolds, CallsOk, MayCall, VClear
<1>1. VtdType'
  BY <1>0, CallKinds, NextSlot DEF VtdType, VClear
<1>2. CallsOk'
  <2>1. [op |-> "ctx", dev |-> d, dma |-> s] \in DevCalls
    BY DEF DevCalls, VOps
  <2> QED
    BY <1>0, <2>1 DEF CallsOk, VClear
<1>3. Written'
  BY DEF Written, VClear
<1>4. AssignmentHolds'
  BY <1>0, <1>1, <1>3, CallKinds DEF AssignmentHolds, VtdType, CallOk, FlushOk, VClear
<1>5. Quiet'
  BY <1>0, <1>2, IdleOk DEF Quiet, CallsOk, CallOk, Drained, NoCall, Doing, VClear
<1>6. ASSUME NEW e \in Callers PROVE CallOk(vcall[e], vwait[e])' /\ FlushOk(vcall[e])'
  <2>1. CASE e # c
    BY <2>1, <1>0, IdleOk DEF CallOk, FlushOk, Drained
  <2>2. CASE e = c
    <3>1. PICK k \in DevCalls : k = [op |-> "ctx", dev |-> d, dma |-> s] /\ vcall'[c] = k
      BY <1>0 DEF DevCalls, VOps, CallsOk, VClear
    <3>2. Drained /\ UNCHANGED <<vqi, viqh, viqt, vidx>> /\ vctx'[d] = Absent /\ vdev'[d] = Absent
      BY <1>0 DEF VtdType, Quiet, MayCall, VClear
    <3> QED
      BY <2>2, <3>1, <3>2, CallKinds DEF CallOk, FlushOk, Drained
  <2> QED
    BY <2>1, <2>2
<1> QED
  BY <1>2, <1>3, <1>4, <1>5, <1>6

\* The remapping entry is written.
LEMMA VSetIrtInv == ASSUME VInv, NEW c \in Callers, NEW i \in Irqs, NEW x \in Dests, Serial = TRUE, VSetIrt(c, i, x) PROVE VInv'
<1> USE VtdAssumption DEF VInv
<1>0. /\ VtdType /\ vcall[c] \in {NoCall} \cup DevCalls \cup IrqCalls
      /\ CallOk(vcall[c], vwait[c]) /\ FlushOk(vcall[c])
      /\ \A e \in Callers : e # c => vcall'[e] = NoCall
  BY IdleOk DEF AssignmentHolds, CallsOk, MayCall, VSetIrt
<1>1. VtdType'
  BY <1>0, CallKinds, NextSlot DEF VtdType, VSetIrt
<1>2. CallsOk'
  <2>1. [op |-> "iec", irq |-> i, dst |-> x] \in IrqCalls
    BY DEF IrqCalls
  <2> QED
    BY <1>0, <2>1 DEF CallsOk, VSetIrt
<1>3. Written'
  BY DEF Written, VSetIrt
<1>4. AssignmentHolds'
  BY <1>0, <1>1, <1>3, CallKinds DEF AssignmentHolds, VtdType, CallOk, FlushOk, VSetIrt
<1>5. Quiet'
  BY <1>0, <1>2, IdleOk DEF Quiet, CallsOk, CallOk, Drained, NoCall, Doing, VSetIrt
<1>6. ASSUME NEW e \in Callers PROVE CallOk(vcall[e], vwait[e])' /\ FlushOk(vcall[e])'
  <2>1. CASE e # c
    BY <2>1, <1>0, IdleOk DEF CallOk, FlushOk, Drained
  <2>2. CASE e = c
    <3>1. PICK k \in IrqCalls : k = [op |-> "iec", irq |-> i, dst |-> x] /\ vcall'[c] = k
      BY <1>0 DEF IrqCalls, CallsOk, VSetIrt
    <3>2. Drained /\ UNCHANGED <<viqh, viqt, vidx>> /\ virt'[i] = x /\ virq'[i] = Absent /\ vqi' = TRUE
      BY <1>0 DEF VtdType, Quiet, MayCall, VSetIrt
    <3> QED
      BY <2>2, <3>1, <3>2, CallKinds DEF CallOk, FlushOk, Drained
  <2> QED
    BY <2>1, <2>2
<1> QED
  BY <1>2, <1>3, <1>4, <1>5, <1>6

-----------------------------------------------------------------------------
(* The unit, and sleep.                                                    *)

\* The unit executes a descriptor and forgets what it says.
LEMMA VExecuteInv == ASSUME VInv, VExecute PROVE VInv'
<1> USE VtdAssumption DEF VInv
<1>1. VtdType /\ VtdType'
  BY NextSlot DEF AssignmentHolds, VtdType, QSlots, VExecute
<1>2. CallsOk' /\ UNCHANGED <<vcall, vwait>>
  BY DEF CallsOk, VExecute
<1>3. Written'
  <2>1. viqh' = (IF viqh = QSize - 1 THEN 0 ELSE viqh + 1) /\ viqh # viqt
        /\ viqh \in QSlots /\ viqt \in QSlots /\ UNCHANGED <<vq, vidx, viqt>>
    BY <1>1, NextSlot DEF VtdType, VExecute
  <2>2. viqt < viqh' => viqt < viqh
    BY <2>1 DEF QSlots
  <2> QED
    BY <2>1, <2>2 DEF Written
<1>4. AssignmentHolds'
  BY <1>1, <1>3 DEF AssignmentHolds, VtdType, Written, QSlots, VExecute
<1>5. Quiet'
  BY <1>1 DEF Quiet, Drained, VtdType, QSlots, VExecute
<1>6. ASSUME NEW e \in Callers PROVE CallOk(vcall[e], vwait[e])' /\ FlushOk(vcall[e])'
  <2>1. PICK k, w : k = vcall[e] /\ w = vwait[e] /\ CallOk(k, w) /\ FlushOk(k)
    OBVIOUS
  <2>2. /\ viqh' = (IF viqh = QSize - 1 THEN 0 ELSE viqh + 1) /\ viqh # viqt
        /\ UNCHANGED <<vqi, vctx, virt, vq, vidx, viqt, vdev, virq>>
        /\ vq[viqh] = "ctx" => vcc' = [d \in Devs |-> Absent]
        /\ vq[viqh] # "ctx" => vcc' = vcc
        /\ vq[viqh] = "iec" => viec' = [i \in Irqs |-> Absent]
        /\ vq[viqh] # "iec" => viec' = viec
    BY <1>1, NextSlot DEF VtdType, VExecute
  <2>3. viqt = vidx /\ vidx \in QSlots /\ viqh \in QSlots
    BY <1>1, <2>2 DEF Written, VtdType
  <2>4. CallOk(k, w)'
    BY <2>1, <2>2, <2>3 DEF CallOk, Drained
  <2>5. ASSUME k \in DevCalls PROVE FlushOk(k)'
    <3>1. k.dev \in Devs /\ k \notin IrqCalls
      BY <2>5, CallKinds
    <3>2. vcc[k.dev] = Absent => vcc'[k.dev] = Absent
      BY <2>2, <3>1
    <3>3. viqh' = vidx => viqh = PrevSlot(vidx)
      BY <2>2, <2>3 DEF PrevSlot, QSlots
    <3>4. viqh' = PrevSlot(vidx) => viqh = PrevSlot(PrevSlot(vidx))
      BY <2>2, <2>3 DEF PrevSlot, QSlots
    <3>5. vq[viqh] = "ctx" => vcc'[k.dev] = Absent
      BY <2>2, <3>1
    <3>6. viqh < vidx /\ vidx < QSize - 1 => viqh' = vidx \/ viqh' < vidx
      BY <2>2, <2>3 DEF QSlots
    <3>7. viqh = PrevSlot(vidx) => viqh' = vidx
      BY <2>2, <2>3 DEF PrevSlot, QSlots
    <3> QED
      BY <2>1, <2>2, <2>3, <2>5, <3>1, <3>2, <3>3, <3>4, <3>5, <3>6, <3>7 DEF FlushOk
  <2>6. ASSUME k \in IrqCalls PROVE FlushOk(k)'
    <3>1. k.irq \in Irqs /\ k \notin DevCalls
      BY <2>6, CallKinds
    <3>2. viec[k.irq] \in {Absent, k.dst} => viec'[k.irq] \in {Absent, k.dst}
      BY <2>2, <3>1
    <3>3. viqh' = vidx => viqh = PrevSlot(vidx)
      BY <2>2, <2>3 DEF PrevSlot, QSlots
    <3>4. vq[viqh] = "iec" => viec'[k.irq] = Absent
      BY <2>2, <3>1
    <3> QED
      BY <2>1, <2>2, <2>6, <3>1, <3>2, <3>3, <3>4 DEF FlushOk
  <2>7. ASSUME k = NoCall PROVE FlushOk(k)'
    BY <2>7, IdleOk
  <2>8. FlushOk(k)'
    BY <2>1, <2>5, <2>6, <2>7 DEF CallsOk
  <2> QED
    BY <1>2, <2>1, <2>4, <2>8
<1> QED
  BY <1>2, <1>3, <1>4, <1>5, <1>6

\* An entry that is cached is the one in memory.
LEMMA VFetchInv == ASSUME VInv, NEW d \in Devs, VFetch(d) PROVE VInv'
<1> USE VtdAssumption DEF VInv
<1>1. VtdType /\ VtdType'
  BY NextSlot DEF AssignmentHolds, VtdType, QSlots, VFetch
<1>2. CallsOk' /\ UNCHANGED <<vcall, vwait>>
  BY DEF CallsOk, VFetch
<1>3. Written'
  BY DEF Written, VFetch
<1>4. AssignmentHolds'
  BY <1>1, <1>3 DEF AssignmentHolds, VtdType, Written, QSlots, VFetch
<1>5. Quiet'
  BY <1>1 DEF Quiet, Drained, VtdType, QSlots, VFetch
<1>6. ASSUME NEW e \in Callers PROVE CallOk(vcall[e], vwait[e])' /\ FlushOk(vcall[e])'
  BY <1>2, CallKinds DEF AssignmentHolds, VtdType, CallsOk, CallOk, FlushOk, Drained, VFetch
<1> QED
  BY <1>2, <1>3, <1>4, <1>5, <1>6

\* So is a remapping entry.
LEMMA VRemapInv == ASSUME VInv, NEW i \in Irqs, VRemap(i) PROVE VInv'
<1> USE VtdAssumption DEF VInv
<1>1. VtdType /\ VtdType'
  BY NextSlot DEF AssignmentHolds, VtdType, QSlots, VRemap
<1>2. CallsOk' /\ UNCHANGED <<vcall, vwait>>
  BY DEF CallsOk, VRemap
<1>3. Written'
  BY DEF Written, VRemap
<1>4. AssignmentHolds'
  BY <1>1, <1>3 DEF AssignmentHolds, VtdType, Written, QSlots, VRemap
<1>5. Quiet'
  BY <1>1 DEF Quiet, Drained, VtdType, QSlots, VRemap
<1>6. ASSUME NEW e \in Callers PROVE CallOk(vcall[e], vwait[e])' /\ FlushOk(vcall[e])'
  BY <1>2, CallKinds DEF AssignmentHolds, VtdType, CallsOk, CallOk, FlushOk, Drained, VRemap
<1> QED
  BY <1>2, <1>3, <1>4, <1>5, <1>6

\* One more descriptor.
LEMMA PutWritten ==
    ASSUME NEW q \in [QSlots -> {"none", "ctx", "tlb", "iec"}], NEW n \in QSlots, \A s \in QSlots : s < n => q[s] # "none",
           NEW d \in {"ctx", "tlb", "iec"}
    PROVE  /\ [q EXCEPT ![n] = d] \in [QSlots -> {"none", "ctx", "tlb", "iec"}] /\ QNext(n) \in QSlots
           /\ \A s \in QSlots : s < QNext(n) => [q EXCEPT ![n] = d][s] # "none"
<1>1. QNext(n) = (IF n = QSize - 1 THEN 0 ELSE n + 1) /\ QNext(n) \in QSlots
  BY NextSlot
<1>2. \A s \in QSlots : s < QNext(n) => s = n \/ s < n
  BY <1>1, VtdAssumption DEF QSlots
<1> QED
  BY <1>1, <1>2

\* The unit has forgotten everything, and is in step with Smmu::invq_idx.
LEMMA VResumeFlushInv == ASSUME VInv, VResumeFlush PROVE VInv'
<1> USE VtdAssumption DEF VInv
<1>0. VtdType /\ Asleep /\ \A s \in QSlots : s < vidx => vq[s] # "none"
  BY DEF AssignmentHolds, VResumeFlush, Written
<1>1. PICK ir \in BOOLEAN, rt \in BOOLEAN :
        LET q1 == IF ir THEN [vq EXCEPT ![vidx] = "iec"] ELSE vq
            n1 == IF ir THEN QNext(vidx) ELSE vidx
            q2 == IF rt THEN [q1 EXCEPT ![n1] = "ctx", ![QNext(n1)] = "tlb"] ELSE q1
            n2 == IF rt THEN QNext(QNext(n1)) ELSE n1
        IN  vq' = q2 /\ vidx' = n2 /\ viqh' = n2 /\ viqt' = n2
  BY DEF VResumeFlush
<1>2. PICK q1, n1 : /\ q1 = IF ir THEN [vq EXCEPT ![vidx] = "iec"] ELSE vq
                    /\ n1 = IF ir THEN QNext(vidx) ELSE vidx
  BY Zenon
<1>3. /\ q1 \in [QSlots -> {"none", "ctx", "tlb", "iec"}] /\ n1 \in QSlots
      /\ \A s \in QSlots : s < n1 => q1[s] # "none"
  BY <1>0, <1>2, PutWritten DEF VtdType
<1>4. PICK q2, n2 : q2 = [q1 EXCEPT ![n1] = "ctx"] /\ n2 = QNext(n1)
  BY Zenon
<1>5. /\ q2 \in [QSlots -> {"none", "ctx", "tlb", "iec"}] /\ n2 \in QSlots
      /\ \A s \in QSlots : s < n2 => q2[s] # "none"
  BY <1>3, <1>4, PutWritten
<1>6. PICK q3, n3 : q3 = [q2 EXCEPT ![n2] = "tlb"] /\ n3 = QNext(n2)
  BY Zenon
<1>7. /\ q3 \in [QSlots -> {"none", "ctx", "tlb", "iec"}] /\ n3 \in QSlots
      /\ \A s \in QSlots : s < n3 => q3[s] # "none"
  BY <1>5, <1>6, PutWritten
<1>8. /\ vq' = (IF rt THEN q3 ELSE q1) /\ vidx' = (IF rt THEN n3 ELSE n1)
      /\ viqh' = vidx' /\ viqt' = vidx'
  BY <1>1, <1>2, <1>4, <1>6
<1>9. /\ vq' \in [QSlots -> {"none", "ctx", "tlb", "iec"}] /\ vidx' \in QSlots
      /\ \A s \in QSlots : s < vidx' => vq'[s] # "none"
  BY <1>3, <1>7, <1>8
<1>10. VtdType'
  BY <1>0, <1>8, <1>9 DEF VtdType, Asleep
<1>11. CallsOk' /\ UNCHANGED <<vcall, vwait>>
  BY <1>0 DEF CallsOk, Asleep
<1>12. Written' /\ Quiet'
  BY <1>8, <1>9 DEF Written, Quiet, Drained, QSlots
<1>13. AssignmentHolds'
  BY <1>0, <1>8, <1>10 DEF AssignmentHolds, VtdType, Asleep
<1>14. ASSUME NEW e \in Callers PROVE CallOk(vcall[e], vwait[e])' /\ FlushOk(vcall[e])'
  BY <1>0, <1>11, IdleOk DEF Asleep
<1> QED
  BY <1>11, <1>12, <1>13, <1>14

\* The unit has forgotten everything, and the queue starts at its first slot.
LEMMA VResumeInv == ASSUME VInv, WrapResume = FALSE, VResume PROVE VInv'
<1> USE VtdAssumption DEF VInv
<1>1. VtdType /\ VtdType'
  <2>1. 0 \in QSlots
    BY DEF QSlots
  <2> QED
    BY <2>1 DEF AssignmentHolds, VtdType, VResume, Asleep
<1>2. CallsOk' /\ UNCHANGED <<vcall, vwait>>
  BY DEF CallsOk, VResume, Asleep
<1>3. Written'
  BY DEF Written, VResume, Asleep
<1>4. AssignmentHolds'
  BY <1>1, <1>3 DEF AssignmentHolds, VtdType, Written, QSlots, VResume, Asleep
<1>5. Quiet'
  BY <1>1 DEF Quiet, Drained, VtdType, QSlots, VResume, Asleep
<1>6. ASSUME NEW e \in Callers PROVE CallOk(vcall[e], vwait[e])' /\ FlushOk(vcall[e])'
  BY <1>2, IdleOk DEF VResume, Asleep
<1> QED
  BY <1>2, <1>3, <1>4, <1>5, <1>6

\* When the calls return, devices use the space they were given and interrupts go where
\* they were sent, with a queue of any size and any number of devices, spaces, callers
\* and sleeps.  Callers take turns, as configure and set_irt require of user mode, and no
\* sleep of a unit that invalidates by itself begins in the last two slots, where the tail
\* would wrap to the head of the unit.
THEOREM AssignmentsHold == Serial = TRUE /\ WrapResume = FALSE => (VtdSpec => []AssignmentHolds)
<1> SUFFICES ASSUME Serial = TRUE, WrapResume = FALSE PROVE VtdSpec => []AssignmentHolds
  OBVIOUS
<1>1. VtdInit => VInv
  <2> SUFFICES ASSUME VtdInit PROVE VInv
    OBVIOUS
  <2> USE VtdAssumption DEF VtdInit
  <2>1. AssignmentHolds
    BY DEF AssignmentHolds, VtdType, QSlots
  <2>2. Written /\ Quiet /\ CallsOk
    BY DEF Written, Quiet, Drained, CallsOk, QSlots
  <2> QED
    BY <2>1, <2>2, IdleOk DEF VInv
<1>2. VInv /\ [VtdNext]_vtdvars => VInv'
  <2> SUFFICES ASSUME VInv, [VtdNext]_vtdvars PROVE VInv'
    OBVIOUS
  <2>1. CASE VtdNext
    BY <2>1, VClearInv, VSetInv, VSetIrtInv, VIrtDoneInv, QiSubmitInv, QiTailInv, QiPollInv,
       VCommandInv, VExecuteInv, VResumeInv, VResumeFlushInv, VFetchInv, VRemapInv DEF VtdNext
  <2>2. CASE UNCHANGED vtdvars
    BY <2>2 DEF VInv, AssignmentHolds, VtdType, CallsOk, Written, Quiet, Drained, CallOk, FlushOk, vtdvars
  <2> QED
    BY <2>1, <2>2
<1>3. VInv => AssignmentHolds
  BY DEF VInv
<1> QED
  BY <1>1, <1>2, <1>3, PTL DEF VtdSpec

-----------------------------------------------------------------------------
(* Device assignment on AArch64, for user mode that gives a group or a     *)
(* bank to one stream.                                                     *)

\* What SmmuType leaves open.
StateOk ==
    /\ ssmr \in [Smmus -> [Smgs -> Sids \cup {NoMatch}]]
    /\ sgave \in [Smmus -> [Sids -> SDmas \cup {NoDma}]]
    /\ \/ srev = NoRev
       \/ srev \in [dma : SDmas, ver : 0..MaxDelegations, pos : Smmus, op : {"tlbi", "sync"}]

\* The group is configured.
Conf(m, g) == sconf[m][g].dma # NoDma

\* configure() is at work on the group.
Busy(m, g) == scall[m] # Idle /\ scall[m].smg = g

\* Groups share neither streams nor banks; with stream indexing a group is its stream.
Disjoint ==
    \A m \in Smmus, g \in Smgs : Conf(m, g) =>
        /\ sindex[m] => sconf[m][g].sid = g
        /\ \A h \in Smgs : h # g /\ Conf(m, h) =>
              sconf[m][h].sid # sconf[m][g].sid /\ sconf[m][h].ctx # sconf[m][g].ctx

\* The registers of a group say what was configured, but for the group being configured,
\* whose old stream no other group has.
RegistersOf(m, g) ==
    /\ Conf(m, g) => sbank[m][sconf[m][g].ctx] = sconf[m][g].dma
    /\ Conf(m, g) /\ ~Busy(m, g) => ssmr[m][g] = sconf[m][g].sid /\ ss2cr[m][g] = sconf[m][g].ctx
    /\ ~Conf(m, g) => ssmr[m][g] = NoMatch /\ ss2cr[m][g] = Fault /\ ~Busy(m, g)
    /\ Busy(m, g) /\ scall[m].op = "s2cr" => ssmr[m][g] = sconf[m][g].sid
    /\ Busy(m, g) => \A h \in Smgs : h # g /\ Conf(m, h) => ssmr[m][g] # sconf[m][h].sid

Registers == \A m \in Smmus, g \in Smgs : RegistersOf(m, g)

\* A stream was given what a group says that is not being configured.
Given ==
    \A m \in Smmus, s \in Sids : sgave[m][s] # NoDma =>
        \E g \in Smgs : Conf(m, g) /\ ~Busy(m, g) /\ sconf[m][g].sid = s /\ sconf[m][g].dma = sgave[m][s]

\* Versions: a delegation under way has cleaned the SMMUs it has passed, and cleans the
\* one it is at.
Revoked ==
    /\ \A d \in SDmas : ssafe[d] <= sver[d]
    /\ srev # NoRev =>
          /\ srev.ver = sver[srev.dma]
          /\ \A m \in Smmus :
                m < srev.pos => stlb[m][srev.dma] >= srev.ver
    /\ srev.op = "sync" =>
          stlb[srev.pos][srev.dma] >= srev.ver \/ srev.dma \in spend[srev.pos]

SInv == SmmuType /\ StateOk /\ Disjoint /\ Registers /\ Given /\ DmaRevokedIsGone /\ Revoked

\* The names of groups, banks and streams.
LEMMA SmmuNames ==
    /\ 1 \in Smmus /\ 0 \in Smgs /\ Smgs \subseteq Nat /\ Ctxs = Smgs /\ Sids = Smgs
    /\ Fault \notin Smgs /\ NoMatch \notin Smgs
    /\ Idle \in [op : {"idle", "smr", "s2cr"}, smg : Smgs] /\ Idle.op = "idle"
    /\ NoRev.op = "none" /\ NoRev.dma = NoDma
  BY SmmuAssumption DEF Smmus, Smgs, Ctxs, Sids, Fault, NoMatch, Idle, NoRev

\* What configure does to group g of SMMU m.
Configured(m, g, dma, sid, ctx) ==
    /\ scall[m] = Idle /\ scall'[m] # Idle /\ scall'[m].op = "smr" /\ scall'[m].smg = g
    /\ sconf'[m][g].dma = dma /\ sconf'[m][g].sid = sid /\ sconf'[m][g].ctx = ctx /\ dma # NoDma
    /\ \A h \in Smgs : h # g => sconf'[m][h] = sconf[m][h]
    /\ \A h \in Smgs : h # g /\ Conf(m, h) => sconf[m][h].sid # sid /\ sconf[m][h].ctx # ctx
    /\ sindex[m] => g = sid
    /\ sbank'[m][ctx] = dma /\ \A c \in Ctxs : c # ctx => sbank'[m][c] = sbank[m][c]
    /\ \A s \in Sids : sgave'[m][s] = IF s = sid \/ (Conf(m, g) /\ sconf[m][g].sid = s)
                                      THEN NoDma ELSE sgave[m][s]
    /\ \A x \in Smmus : x # m => /\ sconf'[x] = sconf[x] /\ sbank'[x] = sbank[x]
                                 /\ scall'[x] = scall[x] /\ sgave'[x] = sgave[x]
    /\ UNCHANGED <<sindex, ssmr, ss2cr>>

\* Configuring touches one group and its bank.
LEMMA SConfigureFacts ==
    ASSUME SInv, NEW m \in Smmus, NEW dma \in SDmas, NEW sid \in Sids, NEW smg \in Smgs, NEW ctx \in Ctxs,
           SharedBanks = FALSE, SConfigure(m, dma, sid, smg, ctx)
    PROVE  \E g \in Smgs : Configured(m, g, dma, sid, ctx)
<1> USE DEF SInv
<1>1. PICK g \in Smgs : g = IF sindex[m] THEN sid ELSE smg
  BY SmmuNames
<1>2. /\ scall[m] = Idle /\ Exclusive(m, g, sid, ctx)
      /\ sconf' = [sconf EXCEPT ![m][g] = [dma |-> dma, sid |-> sid, ctx |-> ctx]]
      /\ sbank' = [sbank EXCEPT ![m][ctx] = dma]
      /\ scall' = [scall EXCEPT ![m] = [op |-> "smr", smg |-> g]]
      /\ sgave' = [sgave EXCEPT ![m] = [s \in Sids |->
                     IF s = sid \/ (sconf[m][g].dma # NoDma /\ sconf[m][g].sid = s) THEN NoDma ELSE @[s]]]
      /\ UNCHANGED <<sindex, ssmr, ss2cr>>
  BY <1>1 DEF SConfigure
<1>3. scall'[m] = [op |-> "smr", smg |-> g] /\ \A x \in Smmus : x # m => scall'[x] = scall[x]
  BY <1>2 DEF SmmuType
<1>4. /\ sconf'[m][g] = [dma |-> dma, sid |-> sid, ctx |-> ctx]
      /\ \A h \in Smgs : h # g => sconf'[m][h] = sconf[m][h]
      /\ \A x \in Smmus : x # m => sconf'[x] = sconf[x]
  BY <1>2 DEF SmmuType
<1>5. /\ sbank'[m][ctx] = dma /\ \A c \in Ctxs : c # ctx => sbank'[m][c] = sbank[m][c]
      /\ \A x \in Smmus : x # m => sbank'[x] = sbank[x]
  BY <1>2 DEF SmmuType
<1>6. /\ \A s \in Sids : sgave'[m][s] = IF s = sid \/ (Conf(m, g) /\ sconf[m][g].sid = s)
                                        THEN NoDma ELSE sgave[m][s]
      /\ \A x \in Smmus : x # m => sgave'[x] = sgave[x]
  BY <1>2 DEF StateOk, Conf
<1>7. Configured(m, g, dma, sid, ctx)
  BY SmmuAssumption, SmmuNames, <1>1, <1>2, <1>3, <1>4, <1>5, <1>6 DEF Configured, Exclusive, Conf
<1> QED
  BY <1>7

\* With a bank of its own, every configured group has its space back after a sleep.
LEMMA SResumeBanks ==
    ASSUME SInv, SResume, NEW x \in Smmus
    PROVE  /\ \A c \in Ctxs : sbank'[x][c] \in SDmas \cup {NoDma}
           /\ \A h \in Smgs : Conf(x, h) => sbank'[x][sconf[x][h].ctx] = sconf[x][h].dma
<1> USE DEF SInv
<1> DEFINE Using(c) == {g \in Smgs : sconf[x][g].dma # NoDma /\ sconf[x][g].ctx = c}
<1>1. ASSUME NEW c \in Ctxs
      PROVE  sbank'[x][c] = IF Using(c) = {} THEN NoDma
                            ELSE sconf[x][CHOOSE g \in Using(c) : \A h \in Using(c) : h <= g].dma
  BY DEF SResume
<1>2. ASSUME NEW h \in Smgs, Conf(x, h) PROVE Using(sconf[x][h].ctx) = {h}
  BY <1>2 DEF Disjoint, Conf
<1>3. ASSUME NEW h \in Smgs, Conf(x, h) PROVE sbank'[x][sconf[x][h].ctx] = sconf[x][h].dma
  <2> DEFINE c == sconf[x][h].ctx
  <2>1. c \in Ctxs
    BY DEF SmmuType
  <2>2. PICK S : S = Using(c) /\ S = {h}
    BY <1>2, <1>3
  <2>3. (CHOOSE g \in S : \A i \in S : i <= g) = h
    BY <2>2
  <2> QED
    BY <1>1, <2>1, <2>2, <2>3
<1>4. ASSUME NEW c \in Ctxs PROVE sbank'[x][c] \in SDmas \cup {NoDma}
  <2>1. CASE Using(c) = {}
    BY <1>1, <2>1
  <2>2. CASE Using(c) # {}
    <3>1. PICK h \in Smgs : Conf(x, h) /\ sconf[x][h].ctx = c
      BY <2>2 DEF Conf
    <3> QED
      BY <1>3, <3>1 DEF SmmuType
  <2> QED
    BY <2>1, <2>2
<1> QED
  BY <1>3, <1>4

\* A device reaches spaces.
LEMMA SReaches ==
    ASSUME SInv, NEW m \in Smmus, NEW s \in Sids PROVE Reaches(m, s) \ {NoDma} \subseteq SDmas
<1> USE DEF SInv
<1>1. ASSUME NEW g \in Matching(m, s), ss2cr[m][g] # Fault PROVE sbank[m][ss2cr[m][g]] \in SDmas \cup {NoDma}
  <2>1. g \in Smgs
    BY SmmuNames DEF Matching
  <2>2. ss2cr[m][g] \in Ctxs
    BY <1>1, <2>1 DEF SmmuType
  <2> QED
    BY <2>2 DEF SmmuType
<1> QED
  BY <1>1 DEF Reaches

\* The group has a stream and a bank to itself, and its old stream is taken back.
LEMMA SConfigureInv == ASSUME SInv, NEW m \in Smmus, NEW dma \in SDmas, NEW sid \in Sids, NEW smg \in Smgs, NEW ctx \in Ctxs, SharedBanks = FALSE, SConfigure(m, dma, sid, smg, ctx) PROVE SInv'
<1> USE DEF SInv
<1>1. SmmuType'
  BY SmmuAssumption, SmmuNames DEF SmmuType, StateOk, SConfigure
<1>2. StateOk'
  BY SmmuAssumption, SmmuNames, SMTT(30) DEF SmmuType, StateOk, SConfigure
<1>3. Disjoint'
  <2>1. PICK g \in Smgs : Configured(m, g, dma, sid, ctx)
    BY SConfigureFacts
  <2> SUFFICES ASSUME NEW x \in Smmus, NEW h \in Smgs, Conf(x, h)', NEW i \in Smgs
               PROVE  /\ sindex'[x] => sconf'[x][h].sid = h
                      /\ i # h /\ Conf(x, i)' => sconf'[x][i].sid # sconf'[x][h].sid
                                                 /\ sconf'[x][i].ctx # sconf'[x][h].ctx
    BY DEF Disjoint
  <2>2. CASE x # m
    BY <2>1, <2>2 DEF Disjoint, Conf, Configured
  <2>3. CASE x = m
    BY <2>1, <2>3 DEF Disjoint, Conf, Configured
  <2> QED
    BY <2>2, <2>3
<1>4. Registers'
  <2>1. PICK g \in Smgs : Configured(m, g, dma, sid, ctx)
    BY SConfigureFacts
  <2> SUFFICES ASSUME NEW x \in Smmus, NEW h \in Smgs PROVE RegistersOf(x, h)'
    BY DEF Registers, RegistersOf
  <2>0. RegistersOf(x, h)
    BY DEF Registers, RegistersOf
  <2>2. CASE x # m
    BY <2>0, <2>1, <2>2 DEF RegistersOf, Conf, Busy, Configured
  <2>3. CASE x = m /\ h # g
    <3>1. sconf[m][h] \in [dma : SDmas \cup {NoDma}, sid : Sids, ctx : Ctxs]
      BY DEF SmmuType
    <3> QED
      BY <2>0, <2>1, <2>3, <3>1 DEF RegistersOf, Conf, Busy, Configured
  <2>4. CASE x = m /\ h = g
    <3>1. ASSUME NEW i \in Smgs, i # g, Conf(m, i) PROVE ssmr[m][g] # sconf[m][i].sid
      <4>1. ~Busy(m, g)
        BY <2>1 DEF Busy, Configured
      <4>2. CASE Conf(m, g)
        BY <2>0, <2>4, <3>1, <4>1, <4>2 DEF RegistersOf, Disjoint
      <4>3. CASE ~Conf(m, g)
        BY <2>0, <2>4, <4>3, SmmuNames DEF RegistersOf, SmmuType
      <4> QED
        BY <4>2, <4>3
    <3> QED
      BY <2>0, <2>1, <2>4, <3>1 DEF RegistersOf, Conf, Busy, Configured
  <2> QED
    BY <2>2, <2>3, <2>4
<1>5. Given'
  <2>1. PICK g \in Smgs : Configured(m, g, dma, sid, ctx)
    BY SConfigureFacts
  <2> SUFFICES ASSUME NEW x \in Smmus, NEW s \in Sids, sgave'[x][s] # NoDma
               PROVE  \E h \in Smgs : /\ Conf(x, h)' /\ ~Busy(x, h)' /\ sconf'[x][h].sid = s
                                      /\ sconf'[x][h].dma = sgave'[x][s]
    BY DEF Given
  <2>2. sgave[x][s] = sgave'[x][s] /\ sgave[x][s] # NoDma
    BY <2>1 DEF Configured
  <2>3. PICK h \in Smgs : Conf(x, h) /\ ~Busy(x, h) /\ sconf[x][h].sid = s /\ sconf[x][h].dma = sgave[x][s]
    BY <2>2 DEF Given
  <2>4. CASE x # m
    BY <2>1, <2>2, <2>3, <2>4 DEF Conf, Busy, Configured
  <2>5. CASE x = m
    <3>1. h # g
      BY <2>1, <2>2, <2>3, <2>5 DEF Configured
    <3> QED
      BY <2>1, <2>2, <2>3, <2>5, <3>1 DEF Conf, Busy, Configured
  <2> QED
    BY <2>4, <2>5
<1>6. (DmaRevokedIsGone /\ Revoked)'
  BY SmmuAssumption, SmmuNames DEF DmaRevokedIsGone, Revoked, SConfigure
<1> QED
  BY <1>1, <1>2, <1>3, <1>4, <1>5, <1>6

\* The group matches its stream.
LEMMA SMatchInv == ASSUME SInv, NEW m \in Smmus, SMatch(m) PROVE SInv'
<1> USE DEF SInv
<1>1. SmmuType'
  <2>1. scall \in [Smmus -> [op : {"idle", "smr", "s2cr"}, smg : Smgs]]
    BY DEF SmmuType
  <2>2. scall' \in [Smmus -> [op : {"idle", "smr", "s2cr"}, smg : Smgs]]
    BY <2>1 DEF SMatch
  <2> QED
    BY <2>2 DEF SmmuType, SMatch
<1>2. StateOk'
  BY SmmuAssumption, SmmuNames DEF SmmuType, StateOk, SMatch
<1>3. Disjoint'
  BY SmmuAssumption, SmmuNames DEF Disjoint, Conf, SMatch
<1>4. Registers'
  <2>1. PICK g \in Smgs : g = scall[m].smg /\ Busy(m, g)
    BY SmmuAssumption, SmmuNames DEF SmmuType, Busy, SMatch
  <2>2. /\ ssmr'[m][g] = sconf[m][g].sid /\ scall'[m].op = "s2cr" /\ scall'[m].smg = g /\ scall[m] # Idle
        /\ \A h \in Smgs : h # g => ssmr'[m][h] = ssmr[m][h]
        /\ \A x \in Smmus : x # m => ssmr'[x] = ssmr[x] /\ scall'[x] = scall[x]
        /\ UNCHANGED <<sconf, ss2cr, sbank>>
    BY <2>1, SmmuAssumption, SmmuNames DEF SmmuType, StateOk, SMatch
  <2> SUFFICES ASSUME NEW x \in Smmus, NEW h \in Smgs PROVE RegistersOf(x, h)'
    BY DEF Registers, RegistersOf
  <2>0. RegistersOf(x, h)
    BY DEF Registers, RegistersOf
  <2>3. CASE x # m
    BY <2>0, <2>2, <2>3 DEF RegistersOf, Conf, Busy
  <2>4. CASE x = m /\ h # g
    BY <2>0, <2>1, <2>2, <2>4 DEF RegistersOf, Conf, Busy
  <2>5. CASE x = m /\ h = g
    <3>1. Conf(m, g)
      BY <2>0, <2>1, <2>5 DEF RegistersOf
    <3>2. \A i \in Smgs : i # g /\ Conf(m, i) => sconf[m][g].sid # sconf[m][i].sid
      BY <3>1 DEF Disjoint
    <3>3. Conf(m, g)' /\ Busy(m, g)' /\ \A i \in Smgs : Conf(m, i)' = Conf(m, i)
      BY <2>1, <2>2, <3>1, SmmuNames DEF Conf, Busy
    <3> QED
      BY <2>0, <2>2, <2>5, <3>1, <3>2, <3>3 DEF RegistersOf
  <2> QED
    BY <2>3, <2>4, <2>5
<1>5. Given'
  BY SmmuAssumption, SmmuNames DEF SmmuType, StateOk, Disjoint, Registers, RegistersOf, Given, Conf, Busy, SMatch
<1>6. (DmaRevokedIsGone /\ Revoked)'
  BY SmmuAssumption, SmmuNames DEF DmaRevokedIsGone, Revoked, SMatch
<1> QED
  BY <1>1, <1>2, <1>3, <1>4, <1>5, <1>6

\* The group points to its bank, and the stream is given its space.
LEMMA SPointInv == ASSUME SInv, NEW m \in Smmus, SPoint(m) PROVE SInv'
<1> USE DEF SInv
<1>1. SmmuType'
  <2>1. scall' \in [Smmus -> [op : {"idle", "smr", "s2cr"}, smg : Smgs]]
    BY SmmuAssumption, SmmuNames DEF SmmuType, SPoint
  <2>2. ss2cr' \in [Smmus -> [Smgs -> Ctxs \cup {Fault}]]
    BY SmmuAssumption, SmmuNames DEF SmmuType, SPoint
  <2> QED
    BY <2>1, <2>2 DEF SmmuType, SPoint
<1>2. StateOk'
  <2>1. scall[m].smg \in Smgs
    BY DEF SmmuType
  <2>2. sconf[m][scall[m].smg].sid \in Sids /\ sconf[m][scall[m].smg].dma \in SDmas \cup {NoDma}
    BY <2>1 DEF SmmuType
  <2>3. sgave' \in [Smmus -> [Sids -> SDmas \cup {NoDma}]]
    BY <2>2 DEF StateOk, SPoint
  <2> QED
    BY <2>3 DEF StateOk, SPoint
<1>3. Disjoint'
  BY SmmuAssumption, SmmuNames DEF Disjoint, Conf, SPoint
<1>4. Registers'
  BY SmmuAssumption, SmmuNames, SMTT(30) DEF SmmuType, StateOk, Disjoint, Registers, RegistersOf, Conf, Busy, SPoint
<1>5. Given'
  <2>1. PICK g \in Smgs : g = scall[m].smg /\ Busy(m, g)
    BY SmmuAssumption, SmmuNames DEF SmmuType, Busy, SPoint
  <2>2. Conf(m, g) /\ sconf[m][g].sid \in Sids
    BY <2>1 DEF Registers, RegistersOf, SmmuType
  <2>3. /\ \A s \in Sids : sgave'[m][s] = IF s = sconf[m][g].sid THEN sconf[m][g].dma ELSE sgave[m][s]
        /\ \A x \in Smmus : x # m => sgave'[x] = sgave[x] /\ scall'[x] = scall[x]
        /\ scall'[m] = Idle /\ UNCHANGED sconf
    BY <2>1, <2>2 DEF SmmuType, StateOk, SPoint
  <2> SUFFICES ASSUME NEW x \in Smmus, NEW s \in Sids, sgave'[x][s] # NoDma
               PROVE  \E h \in Smgs : /\ Conf(x, h)' /\ ~Busy(x, h)' /\ sconf'[x][h].sid = s
                                      /\ sconf'[x][h].dma = sgave'[x][s]
    BY DEF Given
  <2>4. CASE x = m /\ s = sconf[m][g].sid
    BY <2>1, <2>2, <2>3, <2>4 DEF Conf, Busy
  <2>5. CASE ~(x = m /\ s = sconf[m][g].sid)
    <3>1. sgave[x][s] = sgave'[x][s]
      BY <2>3, <2>5
    <3>2. PICK h \in Smgs : Conf(x, h) /\ ~Busy(x, h) /\ sconf[x][h].sid = s /\ sconf[x][h].dma = sgave[x][s]
      BY <3>1 DEF Given
    <3> QED
      BY <2>3, <3>1, <3>2 DEF Conf, Busy
  <2> QED
    BY <2>4, <2>5
<1>6. (DmaRevokedIsGone /\ Revoked)'
  BY SmmuAssumption, SmmuNames DEF DmaRevokedIsGone, Revoked, SPoint
<1> QED
  BY <1>1, <1>2, <1>3, <1>4, <1>5, <1>6

\* The registers are written again from the configuration.
LEMMA SResumeInv == ASSUME SInv, SResume PROVE SInv'
<1> USE DEF SInv
<1>1. SmmuType'
  <2>1. ss2cr' \in [Smmus -> [Smgs -> Ctxs \cup {Fault}]]
    BY DEF SmmuType, SResume
  <2>2. ASSUME NEW x \in Smmus, NEW c \in Ctxs PROVE sbank'[x][c] \in SDmas \cup {NoDma}
    BY SResumeBanks
  <2>3. sbank' \in [Smmus -> [Ctxs -> SDmas \cup {NoDma}]]
    <3>1. sbank' = [x \in Smmus |-> [c \in Ctxs |-> sbank'[x][c]]]
      BY SMTT(30) DEF SResume
    <3> QED
      BY <2>2, <3>1
  <2>4. stlb' \in [Smmus -> [SDmas -> 0..NoTlb]]
    BY SmmuAssumption, SmmuNames DEF NoTlb, SResume
  <2> QED
    BY <2>1, <2>3, <2>4 DEF SmmuType, SResume
<1>2. StateOk'
  BY SmmuAssumption, SmmuNames DEF SmmuType, StateOk, SResume
<1>3. Disjoint'
  BY SmmuAssumption, SmmuNames DEF Disjoint, Conf, SResume
<1>4. Registers'
  <2> SUFFICES ASSUME NEW x \in Smmus, NEW h \in Smgs PROVE RegistersOf(x, h)'
    BY DEF Registers, RegistersOf
  <2>1. Conf(x, h) => sbank'[x][sconf[x][h].ctx] = sconf[x][h].dma
    BY SResumeBanks
  <2>2. scall[x] = Idle /\ UNCHANGED <<sconf, scall>>
        /\ ssmr'[x][h] = (IF Conf(x, h) THEN sconf[x][h].sid ELSE NoMatch)
        /\ ss2cr'[x][h] = (IF Conf(x, h) THEN sconf[x][h].ctx ELSE Fault)
    BY DEF Conf, SResume
  <2> QED
    BY <2>1, <2>2 DEF RegistersOf, Conf, Busy
<1>5. Given'
  BY SmmuAssumption, SmmuNames DEF SmmuType, StateOk, Disjoint, Registers, RegistersOf, Given, Conf, Busy, SResume
<1>6. (DmaRevokedIsGone /\ Revoked)'
  BY SmmuAssumption, SmmuNames DEF SmmuType, StateOk, NoTlb, DmaRevokedIsGone, Revoked, SResume
<1> QED
  BY <1>1, <1>2, <1>3, <1>4, <1>5, <1>6

\* What is cached is what the page table says now.
LEMMA SAccessInv == ASSUME SInv, NEW m \in Smmus, NEW s \in Sids, SAccess(m, s) PROVE SInv'
<1> USE DEF SInv
<1>1. SmmuType'
  <2>1. PICK d \in SDmas : stlb' = [stlb EXCEPT ![m][d] = sver[d]]
    BY SReaches DEF SAccess
  <2>2. stlb' \in [Smmus -> [SDmas -> 0..NoTlb]]
    BY <2>1, SmmuAssumption, SmmuNames DEF SmmuType, NoTlb
  <2> QED
    BY <2>2 DEF SmmuType, SAccess
<1>2. StateOk'
  BY SmmuAssumption, SmmuNames DEF SmmuType, StateOk, SAccess
<1>3. (Disjoint /\ Registers /\ Given)'
  <2>1. UNCHANGED <<sindex, sconf, ssmr, ss2cr, sbank, scall, sgave>>
    BY DEF SAccess
  <2> QED
    BY <2>1 DEF Disjoint, Registers, RegistersOf, Given, Conf, Busy
<1>4. DmaRevokedIsGone'
  <2>1. PICK d \in SDmas : stlb' = [stlb EXCEPT ![m][d] = sver[d]] /\ UNCHANGED <<ssafe, sver>>
    BY SReaches DEF SAccess
  <2> QED
    BY <2>1 DEF SmmuType, DmaRevokedIsGone, Revoked
<1>5. Revoked'
  <2>1. PICK d \in SDmas : stlb' = [stlb EXCEPT ![m][d] = sver[d]] /\ UNCHANGED <<ssafe, sver, srev, spend>>
    BY SReaches DEF SAccess
  <2>2. ASSUME NEW x \in Smmus, NEW e \in SDmas, NEW v \in 0..MaxDelegations, stlb[x][e] >= v, v <= sver[e]
        PROVE  stlb'[x][e] >= v
    BY <2>1, <2>2 DEF SmmuType
  <2>3. ASSUME srev # NoRev
        PROVE  srev.dma \in SDmas /\ srev.ver \in 0..MaxDelegations /\ srev.ver <= sver[srev.dma] /\ srev.pos \in Smmus
    BY <2>3 DEF SmmuType, StateOk, Revoked
  <2> QED
    BY <2>1, <2>2, <2>3, SmmuAssumption, SmmuNames DEF Revoked
<1> QED
  BY <1>1, <1>2, <1>3, <1>4, <1>5

\* The page table changes.
LEMMA SDelegateInv == ASSUME SInv, NEW d \in SDmas, SDelegate(d) PROVE SInv'
<1> USE DEF SInv
<1>1. SmmuType'
  BY SmmuAssumption, SmmuNames, SMTT(30) DEF SmmuType, StateOk, NoTlb, SDelegate
<1>2. StateOk'
  BY SmmuAssumption, SmmuNames DEF SmmuType, StateOk, SDelegate
<1>3. (Disjoint /\ Registers /\ Given)'
  <2>1. UNCHANGED <<sindex, sconf, ssmr, ss2cr, sbank, scall, sgave>>
    BY DEF SDelegate
  <2> QED
    BY <2>1 DEF Disjoint, Registers, RegistersOf, Given, Conf, Busy
<1>4. DmaRevokedIsGone'
  BY SmmuAssumption, SmmuNames DEF SmmuType, StateOk, NoTlb, DmaRevokedIsGone, Revoked, SDelegate
<1>5. Revoked'
  <2>1. /\ srev' = [dma |-> d, ver |-> sver[d] + 1, pos |-> 1, op |-> "tlbi"] /\ ssafe' = ssafe
        /\ sver'[d] = sver[d] + 1 /\ \A e \in SDmas : e # d => sver'[e] = sver[e]
    BY DEF SmmuType, SDelegate
  <2>2. \A e \in SDmas : ssafe'[e] <= sver'[e]
    <3> SUFFICES ASSUME NEW e \in SDmas PROVE ssafe[e] <= sver'[e]
      BY <2>1
    <3>1. ssafe[e] \in Nat /\ sver[e] \in Nat /\ ssafe[e] <= sver[e] /\ sver'[e] \in {sver[e], sver[e] + 1}
      BY <2>1, SmmuAssumption DEF SmmuType, Revoked
    <3> QED
      BY <3>1
  <2>3. \A x \in Smmus : ~(x < 1)
    BY SmmuAssumption DEF Smmus
  <2> QED
    BY <2>1, <2>2, <2>3, SmmuAssumption, SmmuNames DEF Revoked
<1> QED
  BY <1>1, <1>2, <1>3, <1>4, <1>5

\* The SMMU is told to forget.
LEMMA SInvalidateInv == ASSUME SInv, SInvalidate PROVE SInv'
<1> USE DEF SInv
<1>1. SmmuType'
  BY SmmuAssumption, SmmuNames DEF SmmuType, StateOk, NoTlb, SInvalidate
<1>2. StateOk'
  BY SmmuAssumption, SmmuNames DEF SmmuType, StateOk, SInvalidate
<1>3. (Disjoint /\ Registers /\ Given)'
  BY SmmuAssumption, SmmuNames DEF Disjoint, Registers, RegistersOf, Given, Conf, Busy, SInvalidate
<1>4. DmaRevokedIsGone'
  BY SmmuAssumption, SmmuNames DEF SmmuType, StateOk, NoTlb, DmaRevokedIsGone, Revoked, SInvalidate
<1>5. Revoked'
  BY SmmuAssumption, SmmuNames DEF SmmuType, StateOk, NoTlb, DmaRevokedIsGone, Revoked, SInvalidate
<1> QED
  BY <1>1, <1>2, <1>3, <1>4, <1>5

\* It forgets.
LEMMA SExecuteInv == ASSUME SInv, NEW m \in Smmus, SExecute(m) PROVE SInv'
<1> USE DEF SInv
<1>1. SmmuType'
  BY SmmuAssumption, SmmuNames, SMTT(30) DEF SmmuType, StateOk, NoTlb, SExecute
<1>2. StateOk'
  BY SmmuAssumption, SmmuNames DEF SmmuType, StateOk, SExecute
<1>3. (Disjoint /\ Registers /\ Given)'
  BY SmmuAssumption, SmmuNames DEF Disjoint, Registers, RegistersOf, Given, Conf, Busy, SExecute
<1>4. DmaRevokedIsGone'
  BY SmmuAssumption, SmmuNames DEF SmmuType, StateOk, NoTlb, DmaRevokedIsGone, Revoked, SExecute
<1>5. Revoked'
  <2>1. PICK d \in SDmas : /\ spend' = [spend EXCEPT ![m] = @ \ {d}] /\ stlb' = [stlb EXCEPT ![m][d] = NoTlb]
                           /\ UNCHANGED <<sver, srev, ssafe>>
    BY DEF SmmuType, SExecute
  <2>2. ASSUME NEW x \in Smmus, NEW e \in SDmas, NEW v \in 0..MaxDelegations
        PROVE  /\ stlb[x][e] >= v => stlb'[x][e] >= v
               /\ e \in spend[x] => e \in spend'[x] \/ stlb'[x][e] >= v
    <3>1. stlb[x][e] \in Nat /\ NoTlb >= v
      BY SmmuAssumption DEF SmmuType, NoTlb
    <3>2. CASE x = m /\ e = d
      <4>1. stlb'[m][d] = NoTlb
        BY <2>1 DEF SmmuType
      <4> QED
        BY <3>1, <3>2, <4>1
    <3>3. CASE ~(x = m /\ e = d)
      BY <2>1, <3>3 DEF SmmuType
    <3> QED
      BY <3>2, <3>3
  <2>3. ASSUME srev # NoRev
        PROVE  srev.dma \in SDmas /\ srev.ver \in 0..MaxDelegations /\ srev.pos \in Smmus
    BY <2>3 DEF StateOk
  <2> QED
    BY <2>1, <2>2, <2>3, SmmuAssumption, SmmuNames DEF Revoked
<1> QED
  BY <1>1, <1>2, <1>3, <1>4, <1>5

\* It has forgotten: the next SMMU, or the delegation returns.
LEMMA SSyncedInv == ASSUME SInv, SSynced PROVE SInv'
<1> USE DEF SInv
<1>1. SmmuType'
  BY SmmuAssumption, SmmuNames DEF SmmuType, StateOk, NoTlb, SSynced
<1>2. StateOk'
  <2>1. srev \in [dma : SDmas, ver : 0..MaxDelegations, pos : Smmus, op : {"tlbi", "sync"}]
    BY SmmuAssumption, SmmuNames DEF StateOk, SSynced
  <2>2. CASE srev.pos < SmmuNum
    <3>1. srev.pos + 1 \in Smmus /\ srev' = [srev EXCEPT !.pos = @ + 1, !.op = "tlbi"]
      BY <2>1, <2>2, SmmuAssumption, SmmuNames DEF SSynced, Smmus
    <3> QED
      BY <2>1, <3>1 DEF StateOk, SSynced
  <2>3. CASE ~(srev.pos < SmmuNum)
    BY <2>3 DEF StateOk, SSynced
  <2> QED
    BY <2>2, <2>3
<1>3. (Disjoint /\ Registers /\ Given)'
  BY SmmuAssumption, SmmuNames DEF Disjoint, Registers, RegistersOf, Given, Conf, Busy, SSynced
<1>4. DmaRevokedIsGone'
  <2>1. srev \in [dma : SDmas, ver : 0..MaxDelegations, pos : Smmus, op : {"tlbi", "sync"}] /\ srev # NoRev
    BY SmmuAssumption, SmmuNames DEF StateOk, SSynced
  <2>2. CASE srev.pos < SmmuNum
    BY <2>2 DEF DmaRevokedIsGone, SSynced
  <2>3. CASE ~(srev.pos < SmmuNum)
    <3>1. ASSUME NEW x \in Smmus PROVE stlb[x][srev.dma] >= srev.ver
      <4>1. x < srev.pos \/ x = srev.pos
        BY <2>1, <2>3, SmmuAssumption, SmmuNames DEF Smmus
      <4> QED
        BY <2>1, <4>1 DEF Revoked, SSynced
    <3>2. ssafe' = [ssafe EXCEPT ![srev.dma] = srev.ver] /\ stlb' = stlb
      BY <2>3 DEF SSynced
    <3> QED
      BY <2>1, <3>1, <3>2 DEF DmaRevokedIsGone, SmmuType
  <2> QED
    BY <2>2, <2>3
<1>5. Revoked'
  <2>1. srev \in [dma : SDmas, ver : 0..MaxDelegations, pos : Smmus, op : {"tlbi", "sync"}] /\ srev # NoRev
    BY SmmuAssumption, SmmuNames DEF StateOk, SSynced
  <2>2. CASE srev.pos < SmmuNum
    <3>1. /\ srev'.dma = srev.dma /\ srev'.ver = srev.ver /\ srev'.pos = srev.pos + 1 /\ srev'.op = "tlbi"
          /\ UNCHANGED <<stlb, spend, sver, ssafe>>
      BY <2>1, <2>2 DEF SSynced
    <3>2. ASSUME NEW x \in Smmus, x < srev.pos + 1 PROVE stlb[x][srev.dma] >= srev.ver
      <4>1. x < srev.pos \/ x = srev.pos
        BY <2>1, <3>2, SmmuAssumption, SmmuNames, SMTT(30) DEF Smmus
      <4> QED
        BY <2>1, <4>1 DEF Revoked, SSynced
    <3> QED
      BY <2>1, <3>1, <3>2, SmmuAssumption, SmmuNames DEF Revoked
  <2>3. CASE ~(srev.pos < SmmuNum)
    <3>1. ssafe' = [ssafe EXCEPT ![srev.dma] = srev.ver] /\ sver' = sver /\ srev' = NoRev
      BY <2>3 DEF SSynced
    <3>2. srev.ver = sver[srev.dma] /\ \A d \in SDmas : ssafe[d] <= sver[d] /\ sver[d] \in 0..MaxDelegations
      BY <2>1 DEF Revoked, SmmuType
    <3> QED
      BY <2>1, <3>1, <3>2, SmmuAssumption, SmmuNames DEF Revoked, SmmuType
  <2> QED
    BY <2>2, <2>3
<1> QED
  BY <1>1, <1>2, <1>3, <1>4, <1>5

\* Registers that say what was configured send a stream to the space it was given.
LEMMA SInvStreams == ASSUME SInv PROVE StreamsExact
<1> USE DEF SInv
<1> SUFFICES ASSUME NEW m \in Smmus, NEW s \in Sids, sgave[m][s] # NoDma
             PROVE  Reaches(m, s) = {sgave[m][s]}
  BY DEF StreamsExact
<1>1. PICK g \in Smgs : Conf(m, g) /\ ~Busy(m, g) /\ sconf[m][g].sid = s /\ sconf[m][g].dma = sgave[m][s]
  BY DEF Given
<1>2. ssmr[m][g] = s /\ ss2cr[m][g] = sconf[m][g].ctx /\ sbank[m][ss2cr[m][g]] = sgave[m][s]
  BY <1>1 DEF Registers, RegistersOf
<1>3. ss2cr[m][g] # Fault
  BY <1>1, <1>2, SmmuNames DEF SmmuType
<1>4. Matching(m, s) = {g}
  <2>1. CASE sindex[m]
    BY <1>1, <2>1, SmmuNames DEF Disjoint, Matching
  <2>2. CASE ~sindex[m]
    <3>1. ASSUME NEW h \in Smgs, h # g PROVE ssmr[m][h] # s
      <4>1. CASE Conf(m, h)
        BY <1>1, <3>1, <4>1 DEF Registers, RegistersOf, Disjoint
      <4>2. CASE ~Conf(m, h)
        BY <4>2, SmmuNames DEF Registers, RegistersOf
      <4> QED
        BY <4>1, <4>2
    <3> QED
      BY <1>2, <2>2, <3>1 DEF Matching
  <2> QED
    BY <2>1, <2>2
<1> QED
  BY <1>2, <1>3, <1>4 DEF Reaches

\* Devices reach the DMA space they were given and nothing that was revoked there, for any
\* number of SMMUs, groups, banks, streams, spaces, delegations and sleeps, as long as
\* user mode does not let groups share a bank or a stream.
THEOREM SmmusExact == SharedBanks = FALSE => (SmmuSpec => []SmmuExact)
<1> SUFFICES ASSUME SharedBanks = FALSE PROVE SmmuSpec => []SmmuExact
  OBVIOUS
<1>1. SmmuInit => SInv
  <2> SUFFICES ASSUME SmmuInit PROVE SInv
    OBVIOUS
  <2> USE SmmuAssumption, SmmuNames DEF SmmuInit
  <2>1. SmmuType
    BY DEF SmmuType, NoConf, NoTlb
  <2>2. StateOk
    BY DEF StateOk
  <2>3. Disjoint /\ Registers /\ Given
    BY DEF Disjoint, Registers, RegistersOf, Given, Conf, Busy, NoConf
  <2>4. DmaRevokedIsGone /\ Revoked
    BY DEF DmaRevokedIsGone, Revoked, NoTlb
  <2> QED
    BY <2>1, <2>2, <2>3, <2>4 DEF SInv
<1>2. SInv /\ [SmmuNext]_smmuvars => SInv'
  <2> SUFFICES ASSUME SInv, [SmmuNext]_smmuvars PROVE SInv'
    OBVIOUS
  <2>1. CASE SmmuNext
    BY <2>1, SConfigureInv, SMatchInv, SPointInv, SResumeInv, SAccessInv, SDelegateInv, SInvalidateInv,
       SExecuteInv, SSyncedInv DEF SmmuNext
  <2>2. CASE UNCHANGED smmuvars
    BY <2>2 DEF SInv, SmmuType, StateOk, Disjoint, Registers, RegistersOf, Given, Conf, Busy, DmaRevokedIsGone, Revoked, smmuvars
  <2> QED
    BY <2>1, <2>2
<1>3. SInv => SmmuExact
  BY SInvStreams DEF SInv, SmmuExact
<1> QED
  BY <1>1, <1>2, <1>3, PTL DEF SmmuSpec

=============================================================================
