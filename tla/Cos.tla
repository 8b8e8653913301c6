-------------------------------- MODULE Cos --------------------------------
(***************************************************************************)
(* Classes of service: inc/x86_64/cos.hpp, src/x86_64/cos.cpp.             *)
(*                                                                         *)
(* Every CPU has capacity masks for its L3 and L2 cache, throttling values *)
(* for memory bandwidth and one register, PQR, that selects the class of   *)
(* the current SC.  Root configures code/data prioritisation (CDP) once;   *)
(* the masks must then be all ones.  A sleep loses the registers.          *)
(***************************************************************************)
EXTENDS Naturals

CONSTANTS
    KCpus, KScs,
    NumL3, NumL2, NumMb,    \* per CPU: cos_l3, cos_l2, cos_mb
    HcbL3, HcbL2, DelMb,    \* per CPU: hcb_l3, hcb_l2, del_mb
    SupCfg                  \* per CPU: the CDP bits of supcfg

ASSUME CosAssumption ==
    /\ \A f \in {NumL3, NumL2, NumMb, DelMb} : f \in [KCpus -> Nat]
    /\ HcbL3 \in [KCpus -> 0..31] /\ HcbL2 \in [KCpus -> 0..31]
    /\ SupCfg \in [KCpus -> SUBSET {"l3", "l2"}]

Ones(h) == 2^(h + 1) - 1    \* BIT_RANGE (h, 0)
MaxOf(S) == CHOOSE m \in S : \A n \in S : n <= m

VARIABLES
    kconf,      \* per CPU: config, {} before it is configured
    kcurrent,   \* per CPU: current
    kpqr,       \* per CPU: IA32_PQR_ASSOC
    kcdp,       \* per CPU: IA32_L3_QOS_CFG and IA32_L2_QOS_CFG
    kl3, kl2, kmb,  \* per CPU: mask and throttling registers
    kcos, kcpu, \* per SC: class and CPU; kcpu is {} before it is created
    kran,       \* history, per CPU: class of the SC dispatched last
    kstray,     \* history: pairs of a CPU and a class it did not have when it got an SC of it
    kdown       \* CPUs that sleep

kvars == <<kconf, kcurrent, kpqr, kcdp, kl3, kl2, kmb, kcos, kcpu, kran, kstray, kdown>>

Zeros == [c \in KCpus |-> 0]

\* Cos::init of a CPU whose configuration and class are zero.
CosInit ==
    /\ kconf = [c \in KCpus |-> {}] /\ kcurrent = Zeros /\ kpqr = Zeros /\ kran = Zeros
    /\ kcdp = [c \in KCpus |-> {}] /\ kdown = {}
    /\ kl3 = [c \in KCpus |-> [n \in 0..(NumL3[c] - 1) |-> Ones(HcbL3[c])]]
    /\ kl2 = [c \in KCpus |-> [n \in 0..(NumL2[c] - 1) |-> Ones(HcbL2[c])]]
    /\ kmb = [c \in KCpus |-> [n \in 0..(NumMb[c] - 1) |-> 0]]
    /\ kcos = [s \in KScs |-> 0] /\ kcpu = [s \in KScs |-> {}] /\ kstray = {}

-----------------------------------------------------------------------------
(* Validity of masks and classes.                                          *)

BitScan(n) == CHOOSE i \in 0..31 : n % 2^(i + 1) # 0 /\ n % 2^i = 0

BitSet(n, i) == (n \div 2^i) % 2 = 1

\* valid_cbm: what is left of the mask without its low zeros has no holes:
\* c & (c + 1), whose bits end at hcb, is zero.
ValidCbm(cbm, hcb) ==
    /\ cbm # 0 /\ cbm <= Ones(hcb)
    /\ LET c == cbm \div 2^BitScan(cbm) IN \A i \in 0..hcb : ~(BitSet(c, i) /\ BitSet(c + 1, i))

\* The class numbers a mask or throttling register stands for: CDP pairs them.
Halved(n, cdp) == IF cdp THEN n \div 2 ELSE n

\* valid_cos on CPU c.
ValidCos(c, cos) ==
    cos < IF kconf[c] = {} THEN 1
          ELSE MaxOf({1, Halved(NumL3[c], "l3" \in kconf[c]),
                      Halved(NumL2[c], "l2" \in kconf[c]), NumMb[c]})

-----------------------------------------------------------------------------
(* Hypercalls.                                                             *)

\* cfg_qos: once, and only what the CPU supports.
CfgQos(c, cfg) ==
    /\ c \notin kdown /\ kconf[c] = {} /\ cfg \subseteq SupCfg[c]
    /\ kconf' = [kconf EXCEPT ![c] = cfg \cup {"locked"}]
    /\ kcdp' = [kcdp EXCEPT ![c] = cfg]
    /\ UNCHANGED <<kcurrent, kpqr, kl3, kl2, kmb, kcos, kcpu, kran, kstray, kdown>>

\* cfg_l3_mask, after the configuration.
CfgL3(c, n, cbm) ==
    /\ c \notin kdown /\ kconf[c] # {}
    /\ n < NumL3[c] /\ ValidCbm(cbm, HcbL3[c])
    /\ kl3' = [kl3 EXCEPT ![c][n] = cbm]
    /\ UNCHANGED <<kconf, kcurrent, kpqr, kcdp, kl2, kmb, kcos, kcpu, kran, kstray, kdown>>

\* cfg_l2_mask
CfgL2(c, n, cbm) ==
    /\ c \notin kdown /\ kconf[c] # {}
    /\ n < NumL2[c] /\ ValidCbm(cbm, HcbL2[c])
    /\ kl2' = [kl2 EXCEPT ![c][n] = cbm]
    /\ UNCHANGED <<kconf, kcurrent, kpqr, kcdp, kl3, kmb, kcos, kcpu, kran, kstray, kdown>>

\* cfg_mb_thrt
CfgMb(c, n, del) ==
    /\ c \notin kdown /\ kconf[c] # {}
    /\ n < NumMb[c] /\ del <= DelMb[c]
    /\ kmb' = [kmb EXCEPT ![c][n] = del]
    /\ UNCHANGED <<kconf, kcurrent, kpqr, kcdp, kl3, kl2, kcos, kcpu, kran, kstray, kdown>>

\* sys_create_sc, executed on CPU p for an EC of CPU c: the class is compared
\* with the range of p alone.
CreateSc(p, c, s, cos) ==
    /\ p \notin kdown /\ kcpu[s] = {} /\ ValidCos(p, cos)
    /\ kstray' = IF ValidCos(c, cos) THEN kstray ELSE kstray \cup {<<c, cos>>}
    /\ kcos' = [kcos EXCEPT ![s] = cos] /\ kcpu' = [kcpu EXCEPT ![s] = {c}]
    /\ UNCHANGED <<kconf, kcurrent, kpqr, kcdp, kl3, kl2, kmb, kran, kdown>>

\* Scheduler::schedule and make_current: PQR is written when the class changes.
Dispatch(c, s) ==
    /\ c \notin kdown /\ kcpu[s] = {c}
    /\ kran' = [kran EXCEPT ![c] = kcos[s]]
    /\ kcurrent' = [kcurrent EXCEPT ![c] = kcos[s]]
    /\ kpqr' = IF kcurrent[c] # kcos[s] THEN [kpqr EXCEPT ![c] = kcos[s]] ELSE kpqr
    /\ UNCHANGED <<kconf, kcdp, kl3, kl2, kmb, kcos, kcpu, kstray, kdown>>

\* The CPU is off; its registers return to their reset values.
KSleep(c) ==
    /\ c \notin kdown /\ kdown' = kdown \cup {c}
    /\ kpqr' = [kpqr EXCEPT ![c] = 0] /\ kcdp' = [kcdp EXCEPT ![c] = {}]
    /\ UNCHANGED <<kconf, kcurrent, kl3, kl2, kmb, kcos, kcpu, kran, kstray>>

\* Mutation of KResume: the class is left to the next switch.
KResumeNoPqr(c) ==
    /\ c \in kdown /\ kdown' = kdown \ {c}
    /\ kl3' = [kl3 EXCEPT ![c] = [n \in DOMAIN @ |-> Ones(HcbL3[c])]]
    /\ kl2' = [kl2 EXCEPT ![c] = [n \in DOMAIN @ |-> Ones(HcbL2[c])]]
    /\ kmb' = [kmb EXCEPT ![c] = [n \in DOMAIN @ |-> 0]]
    /\ kcdp' = [kcdp EXCEPT ![c] = kconf[c] \cap SupCfg[c]]
    /\ UNCHANGED <<kconf, kcurrent, kpqr, kcos, kcpu, kran, kstray>>

\* Cos::init on resume.
KResume(c) ==
    /\ c \in kdown /\ kdown' = kdown \ {c}
    /\ kl3' = [kl3 EXCEPT ![c] = [n \in DOMAIN @ |-> Ones(HcbL3[c])]]
    /\ kl2' = [kl2 EXCEPT ![c] = [n \in DOMAIN @ |-> Ones(HcbL2[c])]]
    /\ kmb' = [kmb EXCEPT ![c] = [n \in DOMAIN @ |-> 0]]
    /\ kcdp' = [kcdp EXCEPT ![c] = kconf[c] \cap SupCfg[c]]
    /\ kpqr' = [kpqr EXCEPT ![c] = kcurrent[c]]
    /\ UNCHANGED <<kconf, kcurrent, kcos, kcpu, kran, kstray>>

CosNext ==
    \E c \in KCpus :
        \/ \E cfg \in SUBSET {"l3", "l2"} : CfgQos(c, cfg)
        \/ \E n \in 0..NumL3[c], cbm \in 0..(Ones(HcbL3[c]) + 1) : CfgL3(c, n, cbm)
        \/ \E n \in 0..NumL2[c], cbm \in 0..(Ones(HcbL2[c]) + 1) : CfgL2(c, n, cbm)
        \/ \E n \in 0..NumMb[c], del \in 0..(DelMb[c] + 1) : CfgMb(c, n, del)
        \/ \E p \in KCpus, s \in KScs, cos \in 0..4 : CreateSc(p, c, s, cos)
        \/ \E s \in KScs : Dispatch(c, s)
        \/ KSleep(c) \/ KResume(c)

CosSpec == CosInit /\ [][CosNext]_kvars

-----------------------------------------------------------------------------
(* Properties.                                                             *)

\* The types of the variables.
CosType ==
    /\ kconf \in [KCpus -> SUBSET {"l3", "l2", "locked"}]
    /\ kcurrent \in [KCpus -> Nat] /\ kpqr \in [KCpus -> Nat] /\ kran \in [KCpus -> Nat]
    /\ kcos \in [KScs -> Nat] /\ kcpu \in [KScs -> SUBSET KCpus] /\ kdown \subseteq KCpus
    /\ kstray \subseteq KCpus \X Nat

\* A CPU that is up runs with the class of the SC it dispatched last, which its
\* own registers define under the CDP settings that are really in force, also
\* after sleeps ("to ensure consistency between CDP state and the COS values
\* in existing kernel objects"), unless that class came with an SC which was
\* created for the CPU when it did not have the class (sys_create_sc compares
\* with the range of the CPU it is executed on); its masks are runs of ones within the
\* capacity of the cache ("all (and only) contiguous combinations of 1-bits").
ClassInForce ==
    /\ CosType
    /\ \A c \in KCpus \ kdown :
           /\ kpqr[c] = kran[c]
           /\ <<c, kpqr[c]>> \in kstray \/ kpqr[c] = 0 \/ kpqr[c] < Halved(NumL3[c], "l3" \in kcdp[c])
              \/ kpqr[c] < Halved(NumL2[c], "l2" \in kcdp[c]) \/ kpqr[c] < NumMb[c]
           /\ \A n \in DOMAIN kl3[c] :
                 \E a \in 0..HcbL3[c] : \E b \in a..HcbL3[c] : kl3[c][n] = 2^(b + 1) - 2^a
           /\ \A n \in DOMAIN kl2[c] :
                 \E a \in 0..HcbL2[c] : \E b \in a..HcbL2[c] : kl2[c][n] = 2^(b + 1) - 2^a
=============================================================================
