------------------------------- MODULE Create -------------------------------
(***************************************************************************)
(* Creation of kernel objects by concurrent hypercalls on one protection   *)
(* domain (Pd::create_*, Ec::create, Space_*::create), and the delegation  *)
(* of I/O port and MSR permissions between the spaces they create.         *)
(*                                                                         *)
(* A protection domain has one object space, one host space and one        *)
(* attached PIO space.  Who may create each is decided by an atomic test-  *)
(* and-set of a bit, the pointer is stored only after the capability is in *)
(* the caller's object space, and the creator of the attached PIO space    *)
(* maps its bitmap at MMAP_SPC_PIO of the host space.  Everything in       *)
(* between can fail for lack of memory or because the selector is in use.  *)
(*                                                                         *)
(* Objects are never destroyed once their capability is inserted, since no *)
(* hypercall destroys one.  A failed insertion gives the object back but   *)
(* not its bitmap: destroy() does not run the destructor.                  *)
(***************************************************************************)
EXTENDS Naturals, Sequences, FiniteSets

CONSTANTS
    CThreads,   \* threads that make hypercalls, each on its own CPU
    MaxObjs,    \* bound: objects that exist at the same time
    Mixes,      \* bound: sets of kinds (see KindOf) that are created together
    MaxOfKind,  \* bound: objects of one kind, PIO spaces excepted
    MaxBmps,    \* bound: permission bitmaps ever allocated, with NOVA's two
    MaxPort,    \* selectors of a PIO or MSR space are 0..MaxPort
    Reserved    \* ports NOVA keeps for itself (ACPI registers, SMI command)

ASSUME CreateAssumption ==
    /\ MaxObjs \in Nat \ {0} /\ MaxOfKind \in Nat /\ MaxBmps \in Nat \ {0, 1} /\ MaxPort \in Nat
    /\ Reserved \subseteq 0 .. MaxPort

VARIABLES
    mix,            \* the kinds of objects this behaviour creates; "delegate" for delegations
    attachedBits,   \* Pd::spaces
    spaceOf,        \* Pd::space_obj, Pd::space_hst, Pd::space_pio
    objectAt,       \* the object in each buffer of the slab caches
    window,         \* the bitmap a host space maps at MMAP_SPC_PIO
    inserted,       \* objects with a capability in an object space
    rights,         \* the clear bits of each bitmap: <<selector, permission>>
    queuedScs,      \* scheduling contexts given to Scheduler::unblock
    hypercall       \* what each thread is doing

createVars == <<mix, attachedBits, spaceOf, objectAt, window, inserted, rights, queuedScs, hypercall>>

Objects == 1 .. MaxObjs
NoObject == 0
Freed == [kind |-> "free"]
Attachable == {"obj", "hst", "pio"}
EcKinds == {"local", "global", "vcpu"}

\* Domains, guest and DMA spaces and semaphores refer to nothing that is modelled here.
KindOf(op) == IF op \in {"pd", "gst", "dma", "sm"} THEN "plain" ELSE op

\* NOVA's own PIO and MSR spaces; user mode holds TAKE on them, never GRANT.
NovaBmp == [pio |-> 1, msr |-> 2]
PermsOf == [pio |-> {"R"}, msr |-> {"W", "R"}]
Resting == [step |-> "idle"]

CreateInit ==
    /\ mix \in Mixes
    /\ attachedBits = {}
    /\ spaceOf = [k \in Attachable |-> NoObject]
    /\ objectAt = [o \in Objects |-> Freed]
    /\ window = [o \in Objects |-> 0]
    /\ inserted = {}
    /\ rights = <<((0 .. MaxPort) \ Reserved) \X {"R"}, {}>>
    /\ queuedScs = {}
    /\ hypercall = [c \in CThreads |-> Resting]

FreeObjects == {o \in Objects : objectAt[o] = Freed}
Fresh == CHOOSE o \in FreeObjects : \A p \in FreeObjects : o <= p

-----------------------------------------------------------------------------
(* The hypercalls.  A call that a check refuses leaves everything as it is. *)

Start(c, kind, own, target) ==
    /\ hypercall[c] = Resting
    /\ KindOf(kind) \in mix
    /\ kind # "pio" => Cardinality({o \in inserted : objectAt[o].kind = KindOf(kind)}) < MaxOfKind
    /\ hypercall' = [hypercall EXCEPT ![c] =
                        [step |-> "build", kind |-> KindOf(kind), own |-> own, target |-> target, o |-> NoObject]]

\* A second object or host space is refused here; a second PIO space is made, but unattached.
SysCreatePd(c, kind) ==
    /\ kind \in {"obj", "hst"} => kind \notin attachedBits
    /\ attachedBits' = attachedBits \cup ({kind} \cap Attachable)
    /\ Start(c, kind, kind \in Attachable \ attachedBits, NoObject)
    /\ UNCHANGED <<spaceOf, objectAt, window, inserted, rights, queuedScs>>

NothingYet == UNCHANGED <<attachedBits, spaceOf, objectAt, window, inserted, rights, queuedScs>>

SysCreateEc(c, kind) == Start(c, kind, FALSE, NoObject) /\ NothingYet

SysCreateSc(c, e) ==
    /\ e \in inserted /\ objectAt[e].kind \in EcKinds \ {"local"}
    /\ Start(c, "sc", FALSE, e) /\ NothingYet

SysCreatePt(c, e) ==
    /\ e \in inserted /\ objectAt[e].kind = "local"
    /\ Start(c, "pt", FALSE, e) /\ NothingYet

SysCreateSm(c) == Start(c, "sm", FALSE, NoObject) /\ NothingYet

-----------------------------------------------------------------------------
(* The factory functions.                                                   *)

\* Mutation of MappedHst: an unattached PIO space maps its bitmap as well.
MappedHstAlways(own) == spaceOf["hst"]

\* The host space that a new PIO space maps its bitmap into.
MappedHst(own) == IF own THEN spaceOf["hst"] ELSE NoObject

\* What the new object refers to; the call is aborted when a space it needs is missing.
CanBuild(kind) ==
    /\ kind \in EcKinds => spaceOf["obj"] # NoObject
    /\ kind \in EcKinds \cup {"pio"} => spaceOf["hst"] # NoObject
    /\ kind \in {"local", "global"} => spaceOf["pio"] # NoObject
    /\ kind \in {"pio", "msr"} => Len(rights) < MaxBmps

Built(call) ==
    CASE call.kind = "pio" -> [kind |-> "pio", bmp |-> Len(rights) + 1, hst |-> MappedHst(call.own)]
      [] call.kind = "msr" -> [kind |-> "msr", bmp |-> Len(rights) + 1]
      [] call.kind \in EcKinds ->
            [kind |-> call.kind, obj |-> spaceOf["obj"], hst |-> spaceOf["hst"],
             pio |-> IF call.kind = "vcpu" THEN NoObject ELSE spaceOf["pio"]]
      [] OTHER -> [kind |-> call.kind, target |-> call.target]

\* The pointers of the domain are set once, so reading them in one step or in three is the same.
Build(c) ==
    LET call == hypercall[c]
        new == Built(call)
    IN  /\ call.step = "build" /\ CanBuild(call.kind) /\ FreeObjects # {}
        /\ objectAt' = [objectAt EXCEPT ![Fresh] = new]
        /\ rights' = IF call.kind \in {"pio", "msr"} THEN Append(rights, {}) ELSE rights
        /\ window' = IF call.kind = "pio" /\ new.hst # NoObject THEN [window EXCEPT ![new.hst] = new.bmp]
                     ELSE window
        /\ hypercall' = [hypercall EXCEPT ![c].step = "insert", ![c].o = Fresh]
        /\ UNCHANGED <<attachedBits, spaceOf, inserted, queuedScs>>

\* The call is aborted, or an allocation fails and the earlier ones are undone.
BuildFails(c) ==
    /\ hypercall[c].step = "build"
    /\ hypercall' = [hypercall EXCEPT ![c].step = "detach"]
    /\ NothingYet

Insert(c) ==
    /\ hypercall[c].step = "insert"
    /\ inserted' = inserted \cup {hypercall[c].o}
    /\ hypercall' = [hypercall EXCEPT ![c].step = "publish"]
    /\ UNCHANGED <<attachedBits, spaceOf, objectAt, window, rights, queuedScs>>

\* The selector is in use or beyond memory.  Only the object is freed: its bitmap, and the
\* mapping of the bitmap in the window, stay.
InsertFails(c) ==
    /\ hypercall[c].step = "insert"
    /\ objectAt' = [objectAt EXCEPT ![hypercall[c].o] = Freed]
    /\ hypercall' = [hypercall EXCEPT ![c].step = "detach"]
    /\ UNCHANGED <<attachedBits, spaceOf, window, inserted, rights, queuedScs>>

Detach(c) ==
    /\ hypercall[c].step = "detach"
    /\ attachedBits' = IF hypercall[c].own THEN attachedBits \ {hypercall[c].kind} ELSE attachedBits
    /\ hypercall' = [hypercall EXCEPT ![c] = Resting]
    /\ UNCHANGED <<spaceOf, objectAt, window, inserted, rights, queuedScs>>

\* The creator stores the pointer, or hands the new scheduling context to the scheduler.
Publish(c) ==
    LET call == hypercall[c]
    IN  /\ call.step = "publish"
        /\ spaceOf' = IF call.own THEN [spaceOf EXCEPT ![call.kind] = call.o] ELSE spaceOf
        /\ queuedScs' = IF call.kind = "sc" THEN queuedScs \cup {call.o} ELSE queuedScs
        /\ hypercall' = [hypercall EXCEPT ![c] = Resting]
        /\ UNCHANGED <<attachedBits, objectAt, window, inserted, rights>>

-----------------------------------------------------------------------------
(* Delegation between PIO spaces and between MSR spaces, selector by selector. *)

SpacesOf(kind) == {objectAt[o].bmp : o \in {o \in inserted : objectAt[o].kind = kind}}

\* 2^ord aligned selectors, with the same base in both spaces.
SysCtrlPd(c, kind, src, dst, base, ord, mask) ==
    /\ hypercall[c] = Resting /\ "delegate" \in mix
    /\ src \in SpacesOf(kind) \cup {NovaBmp[kind]} /\ dst \in SpacesOf(kind)
    /\ base % 2^ord = 0 /\ base + 2^ord - 1 <= MaxPort
    /\ hypercall' = [hypercall EXCEPT ![c] =
                        [step |-> "lookup", kind |-> kind, src |-> src, dst |-> dst,
                         sel |-> base, end |-> base + 2^ord, mask |-> mask]]
    /\ NothingYet

Lookup(c) ==
    LET call == hypercall[c]
    IN  /\ call.step = "lookup"
        /\ hypercall' = [hypercall EXCEPT ![c] =
              IF call.sel = call.end THEN Resting
              ELSE [step |-> "update", kind |-> call.kind, src |-> call.src, dst |-> call.dst,
                    sel |-> call.sel, end |-> call.end, mask |-> call.mask,
                    perms |-> {p \in call.mask : <<call.sel, p>> \in rights[call.src]},
                    left |-> PermsOf[call.kind]]]
        /\ NothingYet

\* Each bit is cleared or set by an atomic operation of its own, the write bit of an MSR first.
Update(c) ==
    LET call == hypercall[c]
        p == IF "W" \in call.left THEN "W" ELSE "R"
    IN  /\ call.step = "update"
        /\ rights' = [rights EXCEPT ![call.dst] =
                        IF p \in call.perms THEN @ \cup {<<call.sel, p>>} ELSE @ \ {<<call.sel, p>>}]
        /\ hypercall' = [hypercall EXCEPT ![c] =
              IF call.left = {p}
              THEN [step |-> "lookup", kind |-> call.kind, src |-> call.src, dst |-> call.dst,
                    sel |-> call.sel + 1, end |-> call.end, mask |-> call.mask]
              ELSE [call EXCEPT !.left = @ \ {p}]]
        /\ UNCHANGED <<attachedBits, spaceOf, objectAt, window, inserted, queuedScs>>

CreateStep ==
    \E c \in CThreads :
        \/ \E kind \in {"pd", "obj", "hst", "gst", "dma", "pio", "msr"} : SysCreatePd(c, kind)
        \/ \E kind \in EcKinds : SysCreateEc(c, kind)
        \/ \E e \in Objects : SysCreateSc(c, e) \/ SysCreatePt(c, e)
        \/ SysCreateSm(c)
        \/ Build(c) \/ BuildFails(c) \/ Insert(c) \/ InsertFails(c) \/ Detach(c) \/ Publish(c)
        \/ \E kind \in {"pio", "msr"}, src, dst \in 1 .. MaxBmps, base \in 0 .. MaxPort,
              ord \in 0 .. 1, mask \in {{}, {"W", "R"}} :
              SysCtrlPd(c, kind, src, dst, base, ord, mask)
        \/ Lookup(c) \/ Update(c)

CreateNext == CreateStep /\ UNCHANGED mix

CreateSpec == CreateInit /\ [][CreateNext]_createVars

-----------------------------------------------------------------------------
(* Properties.                                                              *)

Owner(kind) == {c \in CThreads : /\ hypercall[c].step \in {"build", "insert", "publish", "detach"}
                                 /\ hypercall[c].kind = kind /\ hypercall[c].own}

CreateType ==
    /\ attachedBits \subseteq Attachable
    /\ spaceOf \in [Attachable -> Objects \cup {NoObject}]
    /\ inserted \subseteq Objects /\ queuedScs \subseteq Objects
    /\ Len(rights) \in 2 .. MaxBmps

(***************************************************************************)
(* Creation keeps a protection domain consistent.  However the creations   *)
(* race and wherever they fail, a bit of Pd::spaces is held by one creator *)
(* or stands for a published space, and is free otherwise, so that a       *)
(* failed creation can be repeated; a published space, a thread's spaces   *)
(* and a queued scheduling context are objects with a capability, never    *)
(* ones that were given back; the window of the host space shows the       *)
(* bitmap of the attached PIO space, so that a thread's I/O permissions    *)
(* are those of its own PIO space; and no delegation gives user mode a     *)
(* port or MSR that NOVA keeps.                                            *)
(***************************************************************************)
CreateExact ==
    /\ CreateType
    /\ \A k \in Attachable :
          /\ k \in attachedBits => (spaceOf[k] # NoObject) # (Owner(k) # {})
          /\ k \notin attachedBits => spaceOf[k] = NoObject /\ Owner(k) = {}
          /\ \A c, d \in Owner(k) : c = d
          /\ spaceOf[k] # NoObject => spaceOf[k] \in inserted /\ objectAt[spaceOf[k]].kind = k
    /\ spaceOf["pio"] # NoObject => window[spaceOf["hst"]] = objectAt[spaceOf["pio"]].bmp
    /\ \A o \in inserted :
          /\ objectAt[o].kind \in EcKinds => {objectAt[o].obj, objectAt[o].hst} \subseteq inserted
          /\ objectAt[o].kind \in {"local", "global"} =>
                window[objectAt[o].hst] = objectAt[objectAt[o].pio].bmp
          /\ objectAt[o].kind \in {"pio", "msr"} =>
                rights[objectAt[o].bmp] \subseteq rights[NovaBmp[objectAt[o].kind]]
    /\ \A s \in queuedScs : s \in inserted /\ objectAt[s].kind = "sc" /\ objectAt[s].target \in inserted
=============================================================================
