------------------------------ MODULE SmmuArm ------------------------------
(***************************************************************************)
(* The SMMUv2 of AArch64: src/aarch64/smmu.cpp, inc/aarch64/smmu.hpp.       *)
(*                                                                         *)
(* A stream mapping group (SMG) matches the stream ID of a device and       *)
(* points to a context bank, which holds the page table and the VMID of a   *)
(* DMA space.  configure() remembers each group, because the registers do   *)
(* not survive a sleep.  Translations are cached under the VMID; a          *)
(* delegation to a DMA space ends with an invalidation in every SMMU.       *)
(* Versions number the delegations to a space.                              *)
(***************************************************************************)
EXTENDS Naturals

CONSTANTS
    SmmuNum,        \* the list of SMMUs, by position
    NumSmg, NumCtx, \* per SMMU: stream mapping groups and context banks
    NumSid,         \* per SMMU: stream IDs, BIT (sidx_bits)
    MaxNum,         \* bound on the three
    SDmas,          \* DMA spaces; each stands for its VMID, too
    NoDma,          \* nullptr
    MaxDelegations, \* bound: no delegation once a space has had so many
    SharedBanks     \* user mode lets groups share a bank or a stream ID

ASSUME SmmuAssumption ==
    /\ SmmuNum \in Nat \ {0} /\ MaxNum \in Nat \ {0} /\ MaxDelegations \in Nat
    /\ NumSmg \in [1..SmmuNum -> 0..MaxNum] /\ NumCtx \in [1..SmmuNum -> 0..MaxNum]
    /\ NumSid \in [1..SmmuNum -> 0..MaxNum]
    /\ NoDma \notin SDmas /\ SharedBanks \in BOOLEAN

Smmus == 1..SmmuNum
Smgs == 0..(MaxNum - 1)
Ctxs == Smgs
Sids == Smgs                \* stream IDs; with stream indexing they are the SMGs
Fault == MaxNum             \* S2CR: "invalid context" fault; a bank faults with NoDma
NoMatch == MaxNum           \* SMR: not valid

VARIABLES
    sindex,         \* per SMMU: Mode::STREAM_INDEXING
    sconf,          \* per SMMU and group: Config::entry
    ssmr, ss2cr,    \* per SMMU and group: SMR and S2CR
    sbank,          \* per SMMU and bank: the DMA space in TTBR0, or NoDma (CBAR)
    scall,          \* per SMMU: the configure() that holds the lock
    stlb,           \* per SMMU and space: version of the oldest translation
    spend,          \* per SMMU: VMIDs to invalidate
    sver,           \* version of each space
    srev,           \* the delegation under way: space, version, SMMU, step
    ssafe,          \* history: version whose delegation has returned
    sgave           \* history: per SMMU and stream ID, the space it was given

smmuvars == <<sindex, sconf, ssmr, ss2cr, sbank, scall, stlb, spend, sver, srev, ssafe, sgave>>

NoConf == [dma |-> NoDma, sid |-> 0, ctx |-> 0]
NoTlb == MaxDelegations + 1
Idle == [op |-> "idle", smg |-> 0]
NoRev == [dma |-> NoDma, ver |-> 0, pos |-> 0, op |-> "none"]

SmmuType ==
    /\ sindex \in [Smmus -> BOOLEAN]
    /\ sconf \in [Smmus -> [Smgs -> [dma : SDmas \cup {NoDma}, sid : Sids, ctx : Ctxs]]]
    /\ ss2cr \in [Smmus -> [Smgs -> Ctxs \cup {Fault}]]
    /\ sbank \in [Smmus -> [Ctxs -> SDmas \cup {NoDma}]]
    /\ scall \in [Smmus -> [op : {"idle", "smr", "s2cr"}, smg : Smgs]]
    /\ stlb \in [Smmus -> [SDmas -> 0..NoTlb]] /\ spend \in [Smmus -> SUBSET SDmas]
    /\ sver \in [SDmas -> 0..MaxDelegations] /\ ssafe \in [SDmas -> 0..MaxDelegations]

\* Smmu::init without any configuration: every group and bank faults.
SmmuInit ==
    /\ sindex \in [Smmus -> BOOLEAN]
    /\ sconf = [m \in Smmus |-> [g \in Smgs |-> NoConf]]
    /\ ssmr = [m \in Smmus |-> [g \in Smgs |-> NoMatch]]
    /\ ss2cr = [m \in Smmus |-> [g \in Smgs |-> Fault]]
    /\ sbank = [m \in Smmus |-> [c \in Ctxs |-> NoDma]]
    /\ scall = [m \in Smmus |-> Idle]
    /\ stlb = [m \in Smmus |-> [d \in SDmas |-> NoTlb]] /\ spend = [m \in Smmus |-> {}]
    /\ sver = [d \in SDmas |-> 0] /\ ssafe = sver /\ srev = NoRev
    /\ sgave = [m \in Smmus |-> [s \in Sids |-> NoDma]]

-----------------------------------------------------------------------------
(* Device assignment.                                                      *)

\* The group is used for one stream ID and its bank for one group.
Exclusive(m, g, sid, ctx) ==
    \A h \in Smgs \ {g} : sconf[m][h].dma # NoDma => sconf[m][h].sid # sid /\ sconf[m][h].ctx # ctx

\* configure: the group comes from the stream ID with stream indexing; under
\* the lock the configuration is remembered and conf_smg writes the bank ...
\* The registers of the bank, TTBR0 to CBA2R, are one step; so is storing the
\* configuration, which only conf_smg reads. A group matches one stream ID: the
\* mask of the match register would make it several that go together.
SConfigure(m, dma, sid, smg, ctx) ==
    LET g == IF sindex[m] THEN sid ELSE smg
    IN  /\ scall[m] = Idle /\ sid < NumSid[m] /\ g < NumSmg[m] /\ ctx < NumCtx[m]
        /\ SharedBanks \/ Exclusive(m, g, sid, ctx)
        /\ sconf' = [sconf EXCEPT ![m][g] = [dma |-> dma, sid |-> sid, ctx |-> ctx]]
        /\ sbank' = [sbank EXCEPT ![m][ctx] = dma]
        /\ scall' = [scall EXCEPT ![m] = [op |-> "smr", smg |-> g]]
        /\ sgave' = [sgave EXCEPT ![m] = [s \in Sids |->
                       IF s = sid \/ (sconf[m][g].dma # NoDma /\ sconf[m][g].sid = s)
                       THEN NoDma ELSE @[s]]]
        /\ UNCHANGED <<sindex, ssmr, ss2cr, stlb, spend, sver, srev, ssafe>>

\* ... then the match register ...
SMatch(m) ==
    LET g == scall[m].smg
    IN  /\ scall[m].op = "smr"
        /\ ssmr' = [ssmr EXCEPT ![m][g] = sconf[m][g].sid]
        /\ scall' = [scall EXCEPT ![m].op = "s2cr"]
        /\ UNCHANGED <<sindex, sconf, ss2cr, sbank, stlb, spend, sver, srev, ssafe, sgave>>

\* ... and points the group to the bank.
SPoint(m) ==
    LET g == scall[m].smg
    IN  /\ scall[m].op = "s2cr"
        /\ ss2cr' = [ss2cr EXCEPT ![m][g] = sconf[m][g].ctx]
        /\ scall' = [scall EXCEPT ![m] = Idle]
        /\ sgave' = [sgave EXCEPT ![m][sconf[m][g].sid] = sconf[m][g].dma]
        /\ UNCHANGED <<sindex, sconf, ssmr, sbank, stlb, spend, sver, srev, ssafe>>

\* Groups that match stream ID s.
Matching(m, s) == IF sindex[m] THEN {s} ELSE {g \in Smgs : ssmr[m][g] = s}

\* The space a device reaches; several matches are a conflict fault.
Reaches(m, s) ==
    {sbank[m][ss2cr[m][g]] : g \in {h \in Matching(m, s) : ss2cr[m][h] # Fault}}

\* Mutation of SResume: the banks are made to fault after the groups.
SResumeBanksLast ==
    /\ \A m \in Smmus : scall[m] = Idle /\ spend[m] = {}
    /\ srev = NoRev
    /\ ssmr' = [m \in Smmus |-> [g \in Smgs |->
                  IF sconf[m][g].dma = NoDma THEN NoMatch ELSE sconf[m][g].sid]]
    /\ ss2cr' = [m \in Smmus |-> [g \in Smgs |->
                  IF sconf[m][g].dma = NoDma THEN Fault ELSE sconf[m][g].ctx]]
    /\ sbank' = [m \in Smmus |-> [c \in Ctxs |-> NoDma]]
    /\ stlb' = [m \in Smmus |-> [d \in SDmas |-> NoTlb]]
    /\ UNCHANGED <<sindex, sconf, scall, spend, sver, srev, ssafe, sgave>>

\* A sleep, and Smmu::init on resume: banks fault, then conf_smg in the order
\* of the groups, so that of several groups with one bank the last one wins.
SResume ==
    /\ \A m \in Smmus : scall[m] = Idle /\ spend[m] = {}
    /\ srev = NoRev
    /\ ssmr' = [m \in Smmus |-> [g \in Smgs |->
                  IF sconf[m][g].dma = NoDma THEN NoMatch ELSE sconf[m][g].sid]]
    /\ ss2cr' = [m \in Smmus |-> [g \in Smgs |->
                  IF sconf[m][g].dma = NoDma THEN Fault ELSE sconf[m][g].ctx]]
    /\ sbank' = [m \in Smmus |-> [c \in Ctxs |->
                  LET gs == {g \in Smgs : sconf[m][g].dma # NoDma /\ sconf[m][g].ctx = c}
                  IN  IF gs = {} THEN NoDma
                      ELSE sconf[m][CHOOSE g \in gs : \A h \in gs : h <= g].dma]]
    /\ stlb' = [m \in Smmus |-> [d \in SDmas |-> NoTlb]]
    /\ UNCHANGED <<sindex, sconf, scall, spend, sver, srev, ssafe, sgave>>

-----------------------------------------------------------------------------
(* Translation and its invalidation.                                       *)

\* A device with stream ID s accesses memory through SMMU m.
SAccess(m, s) ==
    \E d \in Reaches(m, s) \ {NoDma} :
        /\ stlb[m][d] = NoTlb
        /\ stlb' = [stlb EXCEPT ![m][d] = sver[d]]
        /\ UNCHANGED <<sindex, sconf, ssmr, ss2cr, sbank, scall, spend, sver, srev, ssafe, sgave>>

\* Space_mem::delegate has changed the page table of d; sync begins with the
\* first SMMU of the list.
SDelegate(d) ==
    /\ srev = NoRev /\ \A e \in SDmas : sver[e] < MaxDelegations
    /\ sver' = [sver EXCEPT ![d] = @ + 1]
    /\ srev' = [dma |-> d, ver |-> sver[d] + 1, pos |-> 1, op |-> "tlbi"]
    /\ UNCHANGED <<sindex, sconf, ssmr, ss2cr, sbank, scall, stlb, spend, ssafe, sgave>>

\* Smmu::invalidate: TLBIVMID ...
SInvalidate ==
    /\ srev.op = "tlbi"
    /\ spend' = [spend EXCEPT ![srev.pos] = @ \cup {srev.dma}]
    /\ srev' = [srev EXCEPT !.op = "sync"]
    /\ UNCHANGED <<sindex, sconf, ssmr, ss2cr, sbank, scall, stlb, sver, ssafe, sgave>>

\* ... which the SMMU executes ...
SExecute(m) ==
    \E d \in spend[m] :
        /\ spend' = [spend EXCEPT ![m] = @ \ {d}]
        /\ stlb' = [stlb EXCEPT ![m][d] = NoTlb]
        /\ UNCHANGED <<sindex, sconf, ssmr, ss2cr, sbank, scall, sver, srev, ssafe, sgave>>

\* ... before TLBGSTATUS says that TLBGSYNC is done; the lock must be free.
\* After the last SMMU the delegation returns.
SSynced ==
    /\ srev.op = "sync" /\ spend[srev.pos] = {} /\ scall[srev.pos] = Idle
    /\ IF srev.pos < SmmuNum
       THEN /\ srev' = [srev EXCEPT !.pos = @ + 1, !.op = "tlbi"]
            /\ UNCHANGED ssafe
       ELSE /\ srev' = NoRev
            /\ ssafe' = [ssafe EXCEPT ![srev.dma] = srev.ver]
    /\ UNCHANGED <<sindex, sconf, ssmr, ss2cr, sbank, scall, stlb, spend, sver, sgave>>

SmmuNext ==
    \/ \E m \in Smmus :
          \/ \E d \in SDmas, s \in Sids, g \in Smgs, c \in Ctxs : SConfigure(m, d, s, g, c)
          \/ SMatch(m) \/ SPoint(m) \/ SExecute(m)
          \/ \E s \in Sids : SAccess(m, s)
    \/ \E d \in SDmas : SDelegate(d)
    \/ SInvalidate \/ SSynced \/ SResume

SmmuSpec == SmmuInit /\ [][SmmuNext]_smmuvars

-----------------------------------------------------------------------------
(* Properties.                                                             *)

\* A device that was assigned reaches its DMA space and nothing else, also
\* after groups were reused for other devices and after any number of sleeps
\* ("Remember SMG configuration for suspend/resume").
StreamsExact ==
    \A m \in Smmus, s \in Sids :
        sgave[m][s] # NoDma => Reaches(m, s) = {sgave[m][s]}

\* When a delegation to a DMA space has returned, no SMMU translates with what
\* was there before (Space_dma::sync, invalidate_all, invalidate).
DmaRevokedIsGone == \A m \in Smmus, d \in SDmas : stlb[m][d] >= ssafe[d]

\* Devices reach their own DMA space, and there nothing that was revoked.
SmmuExact == SmmuType /\ StreamsExact /\ DmaRevokedIsGone
=============================================================================
