-------------------------------- MODULE Tlb --------------------------------
(***************************************************************************)
(* TLB shootdown on x86_64: src/x86_64/tlb.cpp, Space_hst::make_current,    *)
(* the guest entry path and the RKE interrupt.                              *)
(*                                                                          *)
(* A CPU may keep translations of a space it does not run in (PCIDs, EPT    *)
(* tags).  After a delegation has changed the page tables, sync marks the   *)
(* space in every CPU's htlb/gtlb bit and interrupts the CPUs whose current *)
(* EC uses the space.  Delegations are numbered; the version of a space is  *)
(* the number of its last one, and a CPU's translations are represented by  *)
(* the version of the oldest of them.                                       *)
(***************************************************************************)
EXTENDS Naturals

CONSTANTS
    TNum,           \* Cpu::count
    HostSpaces, GuestSpaces,
    TEcs,           \* execution contexts: their host and guest space
    NoSpace,
    MaxVersion      \* bound on the delegations

TCpus == 0..(TNum - 1)
TSpaces == HostSpaces \cup GuestSpaces

ASSUME TlbAssumption ==
    /\ TNum \in Nat \ {0} /\ MaxVersion \in Nat
    /\ HostSpaces \cap GuestSpaces = {} /\ NoSpace \notin TSpaces
    /\ TEcs # {} /\ TEcs \subseteq [hst : HostSpaces, gst : GuestSpaces \cup {NoSpace}]

VARIABLES
    tmode,          \* per CPU: where it is (see TlbType)
    tec,            \* Ec::current
    tcr3,           \* Space_hst::current
    tnext,          \* the EC make_current is switching to
    tinv,           \* the pending CR3 load or guest entry flushes
    tlb,            \* htlb and gtlb: per space, the CPUs marked
    tclock,         \* number of delegations so far
    tver,           \* version of the page tables of a space
    tcache,         \* per space and CPU: version of the oldest translation
    tsched,         \* CPUs with Hazard::SCHED
    trke,           \* CPUs with RKE pending
    tshoot,         \* per CPU: the space and the version of its delegation
    tpos,           \* per CPU: the CPU its shootdown has reached
    tmoved,         \* per CPU: the counter it waits for has moved
    tsafe,          \* version the last finished shootdown of a space was for
    traced,         \* per space: CPUs skipped while they were switching to it
    pcid            \* Cpu::feature (PCID)

tlbvars == <<tmode, tec, tcr3, tnext, tinv, tlb, tclock, tver, tcache, tsched,
             trke, tshoot, tpos, tmoved, tsafe, traced, pcid>>

NoShoot == [spc |-> NoSpace, ver |-> 0]

\* No translation is cached.
NoEntry == MaxVersion + 1

TlbType ==
    /\ tmode \in [TCpus -> {"user", "kern", "load", "become", "entry",
                            "sync", "look", "send", "wait"}]
    /\ tec \in [TCpus -> TEcs] /\ tnext \in [TCpus -> TEcs]
    /\ tcr3 \in [TCpus -> HostSpaces] /\ tinv \in [TCpus -> BOOLEAN]
    /\ tlb \in [TSpaces -> SUBSET TCpus] /\ tclock \in 0..MaxVersion
    /\ tver \in [TSpaces -> 0..MaxVersion]
    /\ tcache \in [TSpaces -> [TCpus -> 0..NoEntry]]
    /\ tsched \subseteq TCpus /\ trke \subseteq TCpus
    /\ tshoot \in [TCpus -> [spc : TSpaces \cup {NoSpace}, ver : 0..MaxVersion]]
    /\ tpos \in [TCpus -> 0..TNum] /\ tmoved \in [TCpus -> BOOLEAN]
    /\ tsafe \in [TSpaces -> 0..MaxVersion]
    /\ traced \in [TSpaces -> SUBSET TCpus] /\ pcid \in BOOLEAN

TlbInit ==
    /\ tmode = [c \in TCpus |-> "kern"]
    /\ tec \in [TCpus -> TEcs] /\ tnext = tec
    /\ tcr3 = [c \in TCpus |-> tec[c].hst] /\ tinv = [c \in TCpus |-> FALSE]
    /\ tlb = [s \in TSpaces |-> {}] /\ tclock = 0 /\ tver = [s \in TSpaces |-> 0]
    /\ tcache = [s \in TSpaces |-> [c \in TCpus |-> NoEntry]]
    /\ tsched = {} /\ trke = {}
    /\ tshoot = [c \in TCpus |-> NoShoot]
    /\ tpos = [c \in TCpus |-> 0] /\ tmoved = [c \in TCpus |-> FALSE]
    /\ tsafe = [s \in TSpaces |-> 0] /\ traced = [s \in TSpaces |-> {}]
    /\ pcid \in BOOLEAN

GoTo(c, m) == tmode' = [tmode EXCEPT ![c] = m]

\* The space whose translations EC e uses outside the kernel.
RunsIn(e) == IF e.gst = NoSpace THEN e.hst ELSE e.gst

-----------------------------------------------------------------------------
(* Switching and running.                                                  *)

\* schedule picks e, and Ec_arch::make_current calls Space_hst::make_current:
\* the htlb bit is tested and cleared; without it a space that is already
\* loaded stays loaded.
TSwitch(c, e) ==
    LET s == e.hst
    IN  /\ tmode[c] = "kern"
        /\ tsched' = tsched \ {c} /\ tnext' = [tnext EXCEPT ![c] = e]
        /\ tlb' = [tlb EXCEPT ![s] = @ \ {c}]
        /\ IF c \notin tlb[s] /\ tcr3[c] = s
           THEN GoTo(c, "become") /\ UNCHANGED <<tinv, tcr3>>
           ELSE /\ GoTo(c, "load") /\ tcr3' = [tcr3 EXCEPT ![c] = s]
                /\ tinv' = [tinv EXCEPT ![c] = c \in tlb[s] \/ ~pcid]
        /\ UNCHANGED <<tec, tclock, tver, tcache, trke, tshoot, tpos, tmoved, tsafe, traced, pcid>>

\* Hptp::make_current: CR3 is loaded; bit 63 keeps the translations.  Without
\* PCIDs every load drops those of all host spaces.
TLoad(c) ==
    /\ tmode[c] = "load" /\ GoTo(c, "become")
    /\ tcache' = [s \in TSpaces |->
           IF tinv[c] /\ (s = tcr3[c] \/ (~pcid /\ s \in HostSpaces))
           THEN [tcache[s] EXCEPT ![c] = NoEntry] ELSE tcache[s]]
    /\ tinv' = [tinv EXCEPT ![c] = FALSE]
    /\ traced' = IF tinv[c] THEN [traced EXCEPT ![tcr3[c]] = @ \ {c}] ELSE traced
    /\ UNCHANGED <<tec, tcr3, tnext, tlb, tclock, tver, tsched, trke, tshoot, tpos, tmoved, tsafe, pcid>>

\* Ec::current = this, and the continuation starts.
TBecome(c) ==
    /\ tmode[c] = "become" /\ GoTo(c, "kern")
    /\ tec' = [tec EXCEPT ![c] = tnext[c]]
    /\ UNCHANGED <<tcr3, tnext, tinv, tlb, tclock, tver, tcache, tsched, trke, tshoot, tpos,
                   tmoved, tsafe, traced, pcid>>

\* ret_user_hypercall and ret_user_exception: not with Hazard::SCHED.
TReturn(c) ==
    /\ tmode[c] = "kern" /\ c \notin tsched /\ tec[c].gst = NoSpace
    /\ GoTo(c, "user")
    /\ UNCHANGED <<tec, tcr3, tnext, tinv, tlb, tclock, tver, tcache, tsched, trke, tshoot, tpos,
                   tmoved, tsafe, traced, pcid>>

\* ret_user_vmexit_vmx: the gtlb bit is tested and cleared ...
TGuestTest(c) ==
    LET s == tec[c].gst
    IN  /\ tmode[c] = "kern" /\ c \notin tsched /\ s # NoSpace
        /\ GoTo(c, "entry")
        /\ tinv' = [tinv EXCEPT ![c] = c \in tlb[s]]
        /\ tlb' = [tlb EXCEPT ![s] = @ \ {c}]
        /\ UNCHANGED <<tec, tcr3, tnext, tclock, tver, tcache, tsched, trke, tshoot, tpos, tmoved,
                       tsafe, traced, pcid>>

\* ... Space_gst::invalidate, and VM entry.
TGuestEnter(c) ==
    /\ tmode[c] = "entry" /\ GoTo(c, "user")
    /\ tcache' = IF tinv[c] THEN [tcache EXCEPT ![tec[c].gst][c] = NoEntry] ELSE tcache
    /\ tinv' = [tinv EXCEPT ![c] = FALSE]
    /\ UNCHANGED <<tec, tcr3, tnext, tlb, tclock, tver, tsched, trke, tshoot, tpos, tmoved, tsafe,
                   traced, pcid>>

\* The CPU walks the page tables and caches what it finds.
TFill(c) ==
    LET s == RunsIn(tec[c])
    IN  /\ tmode[c] = "user" /\ tcache[s][c] = NoEntry
        /\ tcache' = [tcache EXCEPT ![s][c] = tver[s]]
        /\ UNCHANGED <<tmode, tec, tcr3, tnext, tinv, tlb, tclock, tver, tsched, trke, tshoot,
                       tpos, tmoved, tsafe, traced, pcid>>

\* A hypercall, an exception or a VM exit.
TEnter(c) ==
    /\ tmode[c] = "user" /\ GoTo(c, "kern")
    /\ UNCHANGED <<tec, tcr3, tnext, tinv, tlb, tclock, tver, tcache, tsched, trke, tshoot, tpos,
                   tmoved, tsafe, traced, pcid>>

\* Mutation of TRke: rke_handler does not force the CPU through schedule.
TRkeNoSched(c) ==
    /\ c \in trke /\ tmode[c] \in {"user", "kern", "look", "send", "wait"}
    /\ trke' = trke \ {c} /\ tmoved' = [i \in TCpus |-> tmoved[i] \/ (tmode[i] \in {"send", "wait"} /\ tpos[i] = c)]
    /\ tmode' = [tmode EXCEPT ![c] = IF @ = "user" THEN "kern" ELSE @]
    /\ UNCHANGED <<tec, tcr3, tnext, tinv, tlb, tclock, tver, tcache, tsched, tshoot, tpos, tsafe,
                   traced, pcid>>

\* handle_ipi (RKE): the counter is incremented, and rke_handler asks for
\* schedule if the loaded host space is marked.  Interrupts are on outside
\* the kernel, at preemption points and during a shootdown.
TRke(c) ==
    /\ c \in trke /\ tmode[c] \in {"user", "kern", "look", "send", "wait"}
    /\ trke' = trke \ {c} /\ tmoved' = [i \in TCpus |-> tmoved[i] \/ (tmode[i] \in {"send", "wait"} /\ tpos[i] = c)]
    /\ tmode' = [tmode EXCEPT ![c] = IF @ = "user" THEN "kern" ELSE @]
    /\ tsched' = IF c \in tlb[tcr3[c]] THEN tsched \cup {c} ELSE tsched
    /\ UNCHANGED <<tec, tcr3, tnext, tinv, tlb, tclock, tver, tcache, tshoot, tpos, tsafe, traced, pcid>>

-----------------------------------------------------------------------------
(* Delegation.                                                             *)

\* Space_mem::delegate has changed the page tables of s.
TUpdate(c, s) ==
    /\ tmode[c] = "kern" /\ c \notin tsched /\ tclock < MaxVersion
    /\ tclock' = tclock + 1 /\ tver' = [tver EXCEPT ![s] = tclock']
    /\ tshoot' = [tshoot EXCEPT ![c] = [spc |-> s, ver |-> tclock']]
    /\ GoTo(c, "sync")
    /\ UNCHANGED <<tec, tcr3, tnext, tinv, tlb, tcache, tsched, trke, tpos, tmoved, tsafe,
                   traced, pcid>>

\* sync: htlb.set or gtlb.set, then the shootdown begins.
TSync(c) ==
    /\ tmode[c] = "sync" /\ GoTo(c, "look")
    /\ tlb' = [tlb EXCEPT ![tshoot[c].spc] = TCpus]
    /\ tpos' = [tpos EXCEPT ![c] = 0]
    /\ UNCHANGED <<tec, tcr3, tnext, tinv, tclock, tver, tcache, tsched, trke, tshoot, tmoved,
                   tsafe, traced, pcid>>

\* The CPU d is switching to an EC that uses s, but Ec::current is still the
\* one before.
Switching(d, s) ==
    tmode[d] \in {"load", "become"} /\ tnext[d].hst = s

\* One iteration of Tlb::shootdown up to the read of the counter.  The CPU
\* itself is only asked to schedule.
TLook(c) ==
    LET s == tshoot[c].spc
        d == tpos[c]
    IN  /\ tmode[c] = "look" /\ d < TNum
        /\ IF s \notin {tec[d].hst, tec[d].gst} \/ d = c
           THEN /\ tpos' = [tpos EXCEPT ![c] = @ + 1]
                /\ UNCHANGED tmode
           ELSE /\ GoTo(c, "send") /\ UNCHANGED tpos
        /\ tsched' = IF d = c /\ s \in {tec[c].hst, tec[c].gst} THEN tsched \cup {c} ELSE tsched
        /\ traced' = IF s \notin {tec[d].hst, tec[d].gst} /\ Switching(d, s)
                     THEN [traced EXCEPT ![s] = @ \cup {d}] ELSE traced
        /\ UNCHANGED <<tec, tcr3, tnext, tinv, tlb, tclock, tver, tcache, trke, tshoot, tmoved, tsafe,
                       pcid>>

\* Interrupt::send_cpu (RKE).
TSend(c) ==
    /\ tmode[c] = "send" /\ GoTo(c, "wait") /\ trke' = trke \cup {tpos[c]}
    /\ UNCHANGED <<tec, tcr3, tnext, tinv, tlb, tclock, tver, tcache, tsched, tshoot, tpos,
                   tmoved, tsafe, traced, pcid>>

\* The counter has moved: the next CPU.
TWait(c) ==
    /\ tmode[c] = "wait" /\ tmoved[c] /\ GoTo(c, "look")
    /\ tpos' = [tpos EXCEPT ![c] = @ + 1] /\ tmoved' = [tmoved EXCEPT ![c] = FALSE]
    /\ UNCHANGED <<tec, tcr3, tnext, tinv, tlb, tclock, tver, tcache, tsched, trke, tshoot,
                   tsafe, traced, pcid>>

\* The shootdown returns, and the delegation with it.
TDone(c) ==
    LET d == tshoot[c]
    IN  /\ tmode[c] = "look" /\ tpos[c] = TNum /\ GoTo(c, "kern")
        /\ tsafe' = [tsafe EXCEPT ![d.spc] = IF @ < d.ver THEN d.ver ELSE @]
        /\ tshoot' = [tshoot EXCEPT ![c] = NoShoot] /\ tpos' = [tpos EXCEPT ![c] = 0]
        /\ UNCHANGED <<tec, tcr3, tnext, tinv, tlb, tclock, tver, tcache, tsched, trke,
                       tmoved, traced, pcid>>

TlbNext ==
    \E c \in TCpus :
       \/ \E e \in TEcs : TSwitch(c, e)
       \/ TLoad(c) \/ TBecome(c) \/ TReturn(c) \/ TGuestTest(c) \/ TGuestEnter(c)
       \/ TFill(c) \/ TEnter(c) \/ TRke(c)
       \/ \E s \in TSpaces : TUpdate(c, s)
       \/ TSync(c) \/ TLook(c) \/ TSend(c) \/ TWait(c) \/ TDone(c)

TlbSpec == TlbInit /\ [][TlbNext]_tlbvars

-----------------------------------------------------------------------------
(* Properties.                                                             *)

\* Once a delegation has returned, no CPU runs in the space with a
\* translation from before it, whatever it was doing meanwhile (a revoked
\* page is unreachable when the revoking hypercall returns).  The exception
\* is the window in Ec_arch::make_current between the test of the htlb bit
\* and the store to Ec::current: a shootdown that looks at the CPU there
\* skips it, and the CPU enters the space with its old translations.
RevokedIsGone ==
    \A c \in TCpus :
       LET s == RunsIn(tec[c])
       IN  tmode[c] = "user" /\ tcache[s][c] < tsafe[s]
              => s \in HostSpaces /\ c \in traced[s]

\* A CPU that holds a translation from before a finished delegation is still
\* marked, or about to flush: the next switch to the space drops it.
StaleIsMarked ==
    \A c \in TCpus, s \in TSpaces :
       tcache[s][c] < tsafe[s] =>
          \/ c \in tlb[s]
          \/ tinv[c] /\ tmode[c] = "load" /\ tcr3[c] = s
          \/ tinv[c] /\ tmode[c] = "entry" /\ tec[c].gst = s

\* A shootdown is complete: CPUs in the space have dropped what was revoked,
\* and all others will before they enter it.
ShootdownExact == TlbType /\ RevokedIsGone /\ StaleIsMarked
=============================================================================
