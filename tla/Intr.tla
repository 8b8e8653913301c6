-------------------------------- MODULE Intr --------------------------------
(***************************************************************************)
(* One device interrupt on its way to the thread that drives the device:    *)
(* the interrupt controller, the handler on the CPU it is routed to, the    *)
(* driver's ctrl_sm (down), assign_int, and sleep.  The kinds are           *)
(*   "pin"  level-triggered pin of an I/O APIC (src/x86_64/interrupt.cpp)   *)
(*   "msi"  message-signalled or edge-triggered, never masked               *)
(*   "spi"  level-triggered SPI of a GIC (src/aarch64/interrupt.cpp)        *)
(*   "gst"  the same, assigned to a guest, which deactivates it             *)
(* CPUs run the kernel with interrupts off, so on one CPU a handler and a   *)
(* hypercall do not interleave; on two CPUs they do.                        *)
(***************************************************************************)
EXTENDS Naturals

CONSTANTS
    ICpus,          \* CPUs
    IKinds,         \* kinds of interrupt to check
    MaxCount        \* bound on the semaphore's counter

ASSUME IntrAssumption ==
    ICpus # {} /\ IKinds \subseteq {"pin", "msi", "spi", "gst"} /\ MaxCount \in Nat \ {0}

VARIABLES
    ikind,          \* the kind of the interrupt
    iline,          \* the device wants service
    ihw,            \* routing: CPU, and masked (I/O APIC) or disabled (GIC)
    iheld,          \* Remote IRR of the pin, or active state of the SPI
    iirr,           \* CPUs with the interrupt pending at their local APIC
    ihand,          \* per CPU: "idle", "got", "mid" (masked or up done) or "eoi"
    icfg,           \* int_table[].config: CPU and mask
    iasg,           \* assign_int: "none" or the step it has reached
    icount,         \* the interrupt semaphore's counter
    idrv,           \* the driver: "woken", "work", "deact", "dn" or "sleep"
    idcpu           \* the CPU the driver runs on

ivars == <<ikind, iline, ihw, iheld, iirr, ihand, icfg, iasg, icount, idrv, idcpu>>

Gic == ikind \in {"spi", "gst"}
IConfigs == [cpu : ICpus, msk : BOOLEAN]

IntrType ==
    /\ ikind \in IKinds /\ iline \in BOOLEAN /\ ihw \in IConfigs /\ iheld \in BOOLEAN
    /\ iirr \subseteq ICpus /\ ihand \in [ICpus -> {"idle", "got", "mid", "eoi"}]
    /\ icfg \in IConfigs /\ iasg \in {"none", "dst", "cfg"} /\ icount \in 0..MaxCount
    /\ idrv \in {"woken", "work", "deact", "dn", "sleep"} /\ idcpu \in ICpus

\* Interrupt::setup and init_all: the interrupt is masked until it is assigned.
IntrInit ==
    /\ ikind \in IKinds /\ iline = FALSE
    /\ icfg \in {c \in IConfigs : c.msk} /\ ihw = icfg
    /\ iheld = FALSE /\ iirr = {} /\ ihand = [c \in ICpus |-> "idle"]
    /\ iasg = "none" /\ icount = 0 /\ idrv = "work" /\ idcpu = icfg.cpu

-----------------------------------------------------------------------------
(* The device and the interrupt controllers.                               *)

\* The device wants service; a message goes to the local APIC at once.
IRaise ==
    /\ ~iline /\ iline' = TRUE
    /\ iirr' = IF ikind = "msi" THEN iirr \cup {ihw.cpu} ELSE iirr
    /\ UNCHANGED <<ikind, ihw, iheld, ihand, icfg, iasg, icount, idrv, idcpu>>

\* An unmasked pin is sent to its CPU unless Remote IRR is set.
IPinSend ==
    /\ ikind = "pin" /\ iline /\ ~ihw.msk /\ ~iheld
    /\ iheld' = TRUE /\ iirr' = iirr \cup {ihw.cpu}
    /\ UNCHANGED <<ikind, iline, ihw, ihand, icfg, iasg, icount, idrv, idcpu>>

\* CPU c takes the interrupt.  Gicc::ack makes an SPI active.
IAccept(c) ==
    /\ ihand[c] = "idle" /\ ~(idrv \in {"deact", "dn"} /\ idcpu = c)
    /\ IF Gic THEN /\ iline /\ ~ihw.msk /\ ~iheld /\ ihw.cpu = c
                   /\ iheld' = TRUE /\ UNCHANGED iirr
              ELSE c \in iirr /\ iirr' = iirr \ {c} /\ UNCHANGED iheld
    /\ ihand' = [ihand EXCEPT ![c] = "got"]
    /\ UNCHANGED <<ikind, iline, ihw, icfg, iasg, icount, idrv, idcpu>>

-----------------------------------------------------------------------------
(* The handler.                                                            *)

\* Sm::up: the driver wakes up, or the counter grows unless it is at its limit.
IUp ==
    IF idrv = "sleep" THEN idrv' = "woken" /\ UNCHANGED icount
    ELSE /\ icount' = IF icount < MaxCount THEN icount + 1 ELSE icount
         /\ UNCHANGED idrv

\* Mutation of IHandle: the semaphore is upped before the pin is masked.
IHandleUpFirst(c) ==
    /\ \/ /\ ihand[c] = "got" /\ ihand' = [ihand EXCEPT ![c] = "mid"]
          /\ IUp /\ UNCHANGED ihw
       \/ /\ ihand[c] = "mid" /\ ihand' = [ihand EXCEPT ![c] = "eoi"]
          /\ ihw' = IF ikind = "pin" THEN [ihw EXCEPT !.msk = TRUE] ELSE ihw
          /\ UNCHANGED <<idrv, icount>>
    /\ UNCHANGED <<ikind, iline, iheld, iirr, icfg, iasg, idcpu>>

\* handle_gsi: set_mask for level-triggered pins, then up; handle_spi: up.
IHandle(c) ==
    /\ \/ /\ ihand[c] = "got" /\ ihand' = [ihand EXCEPT ![c] = "mid"]
          /\ ihw' = IF ikind = "pin" THEN [ihw EXCEPT !.msk = TRUE] ELSE ihw
          /\ UNCHANGED <<idrv, icount>>
       \/ /\ ihand[c] = "mid" /\ ihand' = [ihand EXCEPT ![c] = "eoi"]
          /\ IUp /\ UNCHANGED ihw
    /\ UNCHANGED <<ikind, iline, iheld, iirr, icfg, iasg, idcpu>>

\* Lapic::eoi, which clears Remote IRR.  handle_spi has dropped the priority
\* before up; the SPI stays active.
IEoi(c) ==
    /\ ihand[c] = "eoi" /\ ihand' = [ihand EXCEPT ![c] = "idle"]
    /\ iheld' = IF ikind = "pin" THEN FALSE ELSE iheld
    /\ UNCHANGED <<ikind, iline, ihw, iirr, icfg, iasg, icount, idrv, idcpu>>

-----------------------------------------------------------------------------
(* The driver.                                                             *)

\* The driver serves the device each time ctrl_sm returns.
IServe ==
    /\ idrv = "woken" /\ idrv' = "work" /\ iline' = FALSE
    /\ UNCHANGED <<ikind, ihw, iheld, iirr, ihand, icfg, iasg, icount, idcpu>>

\* sys_ctrl_sm down: BAD_CPU unless the interrupt is routed here.
ICtrlSm ==
    /\ idrv = "work" /\ icfg.cpu = idcpu /\ ihand[idcpu] = "idle"
    /\ idrv' = IF ikind = "gst" THEN "dn" ELSE "deact"
    /\ UNCHANGED <<ikind, iline, ihw, iheld, iirr, ihand, icfg, iasg, icount, idcpu>>

\* Interrupt::deactivate: the pin is unmasked, the SPI deactivated.
IDeactivate ==
    /\ idrv = "deact" /\ idrv' = "dn"
    /\ ihw' = IF ikind = "pin" THEN [ihw EXCEPT !.msk = FALSE] ELSE ihw
    /\ iheld' = IF ikind = "spi" THEN FALSE ELSE iheld
    /\ UNCHANGED <<ikind, iline, iirr, ihand, icfg, iasg, icount, idcpu>>

\* Sm::dn with zero-counter, or decrementing.
IDn(zc) ==
    /\ idrv = "dn"
    /\ IF icount = 0 THEN idrv' = "sleep" /\ UNCHANGED icount
       ELSE idrv' = "woken" /\ icount' = IF zc THEN 0 ELSE icount - 1
    /\ UNCHANGED <<ikind, iline, ihw, iheld, iirr, ihand, icfg, iasg, idcpu>>

\* After BAD_CPU the driver carries on with an EC on the right CPU.
IMigrate ==
    /\ idrv = "work" /\ icfg.cpu # idcpu /\ idcpu' = icfg.cpu
    /\ UNCHANGED <<ikind, iline, ihw, iheld, iirr, ihand, icfg, iasg, icount, idrv>>

\* A guest that was given the interrupt deactivates it.
IGuestDeactivate ==
    /\ ikind = "gst" /\ iheld /\ iheld' = FALSE
    /\ \A c \in ICpus : ihand[c] \in {"idle", "eoi"}
    /\ UNCHANGED <<ikind, iline, ihw, iirr, ihand, icfg, iasg, icount, idrv, idcpu>>

-----------------------------------------------------------------------------
(* assign_int and sleep.                                                   *)

\* Interrupt::configure: the configuration, then set_dst, then set_cfg, or
\* Gicd::conf.  The trigger mode of a device does not change.
IAssign(cfg) ==
    /\ iasg = "none" /\ icfg' = cfg
    /\ iasg' = "dst"
    /\ UNCHANGED <<ikind, iline, ihw, iheld, iirr, ihand, icount, idrv, idcpu>>

ISetDst ==
    /\ iasg = "dst" /\ iasg' = "cfg"
    /\ ihw' = [cpu |-> icfg.cpu, msk |-> Gic \/ ihw.msk]
    /\ UNCHANGED <<ikind, iline, iheld, iirr, ihand, icfg, icount, idrv, idcpu>>

ISetCfg ==
    /\ iasg = "cfg" /\ iasg' = "none"
    /\ ihw' = [ihw EXCEPT !.msk = icfg.msk]
    /\ UNCHANGED <<ikind, iline, iheld, iirr, ihand, icfg, icount, idrv, idcpu>>

\* The machine slept: no handler was running, Ioapic::init_all masked every
\* pin, Gicd::init_mmio disabled every SPI, then Interrupt::init_all (or init)
\* restored the configurations; active states and pending messages are gone.
IResume ==
    /\ iasg = "none" /\ \A c \in ICpus : ihand[c] = "idle"
    /\ idrv \in {"woken", "work", "sleep"}
    /\ ihw' = icfg /\ iheld' = FALSE /\ iirr' = {}
    /\ iline' = (iline /\ ikind # "msi")
    /\ UNCHANGED <<ikind, ihand, icfg, iasg, icount, idrv, idcpu>>

IntrNext ==
    \/ IRaise \/ IPinSend \/ IServe \/ ICtrlSm \/ IDeactivate \/ IMigrate
    \/ IGuestDeactivate \/ ISetDst \/ ISetCfg \/ IResume
    \/ \E c \in ICpus : IAccept(c) \/ IHandle(c) \/ IEoi(c)
    \/ \E zc \in BOOLEAN : IDn(zc)
    \/ \E cfg \in IConfigs : IAssign(cfg)

IntrSpec == IntrInit /\ [][IntrNext]_ivars

-----------------------------------------------------------------------------
(* Properties.                                                             *)

\* The kernel still has the interrupt in hand: it is pending at a CPU, a
\* handler has yet to up the semaphore, or assign_int has yet to finish.
InHand == iirr # {} \/ iasg # "none" \/ \E c \in ICpus : ihand[c] \in {"got", "mid"}

\* A driver never sleeps in ctrl_sm while its device wants service and the
\* interrupt that would wake it can no longer come: the pin masked, the SPI
\* active, or Remote IRR set with no CPU left to clear it; whatever CPUs the
\* handler, the driver and assign_int run on (set_mask in handle_gsi and in
\* deactivate, configure, init_all).
NoLostInterrupt ==
    /\ IntrType
    /\ idrv = "sleep" /\ iline /\ ~icfg.msk /\ ~InHand =>
          /\ ikind # "msi"
          /\ ~ihw.msk
          /\ ikind = "spi" => ~iheld
          /\ ikind = "pin" /\ iheld => \E c \in ICpus : ihand[c] = "eoi"
=============================================================================
