------------------------------ MODULE Timeout ------------------------------
(***************************************************************************)
(* The timeouts of one CPU: the sorted list of src/timeout.cpp and the     *)
(* one-shot timer it programs.  The kernel runs with interrupts disabled,  *)
(* so an operation on the list is a step; the timer counts, fires and      *)
(* leaves its interrupt pending between any two steps.  check() is a step  *)
(* per timeout, because time passes while triggers run.                    *)
(*                                                                         *)
(* Three timers are modelled: the TSC deadline and the APIC count-down of  *)
(* x86_64, and the level-sensitive compare timer of AArch64.               *)
(***************************************************************************)
EXTENDS Integers, FiniteSets

CONSTANTS
    Timeouts,       \* Timeout objects that exist on the CPU
    NoTimeout,      \* nullptr
    Kinds,          \* which timers the CPU may have, of TimerKinds
    MaxTime,        \* bound on the time that is modelled
    Ratio,          \* TSC ticks per tick of the APIC timer
    CountRange      \* values of the APIC count register, 2^32 in the code

TimerKinds == {"deadline", "countdown", "compare"}

ASSUME TimeoutAssumption ==
    /\ NoTimeout \notin Timeouts /\ IsFiniteSet(Timeouts) /\ Kinds \subseteq TimerKinds
    /\ MaxTime \in Nat /\ Ratio \in Nat \ {0} /\ CountRange \in Nat \ {0}

VARIABLES
    kind,           \* the timer of this CPU, fixed at boot
    tlist,          \* Timeout::list
    tprev, tnext,   \* the links of each timeout
    ttime,          \* Timeout::time of each timeout
    now,            \* Timer::time()
    fire,           \* when the armed timer fires, or Off
    irq,            \* the timer interrupt is pending
    loop,           \* inside Timeout::check()
    early           \* history: the count-down was set to end before the deadline

tvars == <<kind, tlist, tprev, tnext, ttime, now, fire, irq, loop, early>>
tlinks == <<tlist, tprev, tnext, ttime>>

\* Beyond any time the timer can be armed for.
Off == MaxTime + Ratio + 1

TimeoutType ==
    /\ kind \in Kinds
    /\ tlist \in Timeouts \cup {NoTimeout}
    /\ tprev \in [Timeouts -> Timeouts \cup {NoTimeout}]
    /\ tnext \in [Timeouts -> Timeouts \cup {NoTimeout}]
    /\ ttime \in [Timeouts -> 0 .. MaxTime]
    /\ now \in 0 .. MaxTime /\ fire \in Nat
    /\ irq \in BOOLEAN /\ loop \in BOOLEAN /\ early \in BOOLEAN

TimeoutInit ==
    /\ kind \in Kinds
    /\ tlist = NoTimeout
    /\ tprev = [t \in Timeouts |-> NoTimeout]
    /\ tnext = [t \in Timeouts |-> NoTimeout]
    /\ ttime = [t \in Timeouts |-> 0]
    /\ now = 0 /\ fire = Off
    /\ irq = FALSE /\ loop = FALSE /\ early = FALSE

-----------------------------------------------------------------------------
(* Programming the timer.                                                  *)

\* Lapic::set_timer without TSC deadline: a 32-bit count, and at least 1.
SetCount(t) ==
    LET icr == IF t > now THEN ((t - now) % CountRange) \div Ratio ELSE 0
        end == now + Ratio * (IF icr > 0 THEN icr ELSE 1)
    IN  /\ fire' = end
        /\ early' = (end < t)

\* Timer::set_dln(t).
SetDeadline(t) ==
    CASE kind = "countdown" -> SetCount(t)
      [] OTHER -> fire' = t /\ early' = FALSE

\* Timer::stop() does nothing on x86_64 and moves the deadline to infinity
\* on AArch64.
StopTimer ==
    /\ fire' = IF kind = "compare" THEN Off ELSE fire
    /\ early' = early

\* Mutation of TimerSync: the timer is only moved to an earlier deadline.
SyncEarlier(head, time) ==
    IF head # NoTimeout /\ time[head] < fire
    THEN SetDeadline(time[head]) ELSE UNCHANGED <<fire, early>>

\* Timeout::sync(), for the given head and times.
TimerSync(head, time) ==
    IF head # NoTimeout THEN SetDeadline(time[head]) ELSE StopTimer

-----------------------------------------------------------------------------
(* The list.                                                               *)

Queued(t) == tlist = t \/ tprev[t] # NoTimeout

\* The timeouts of the list, found through their links.
OnList == {t \in Timeouts : Queued(t)}

\* The last timeout that is earlier than time, after which a new one goes.
Before(time) ==
    {p \in OnList : /\ ttime[p] < time
                    /\ tnext[p] = NoTimeout \/ ttime[tnext[p]] >= time}

\* t->enqueue(time): the timer is programmed when t becomes the head.
TEnqueue(t, time) ==
    LET prev == IF Before(time) = {} THEN NoTimeout ELSE CHOOSE p \in Before(time) : TRUE
        next == IF prev = NoTimeout THEN tlist ELSE tnext[prev]
    IN  /\ ~loop /\ ~Queued(t)
        /\ tprev' = [u \in Timeouts |-> IF u = t THEN prev ELSE IF u = next THEN t ELSE tprev[u]]
        /\ tnext' = [u \in Timeouts |-> IF u = t THEN next ELSE IF u = prev THEN t ELSE tnext[u]]
        /\ ttime' = [ttime EXCEPT ![t] = time]
        /\ tlist' = IF prev = NoTimeout THEN t ELSE tlist
        /\ IF prev = NoTimeout THEN TimerSync(t, ttime') ELSE UNCHANGED <<fire, early>>
        /\ UNCHANGED <<kind, now, irq, loop>>

\* The body of t->dequeue() for a queued t.
Unlink(t) ==
    /\ tprev' = [u \in Timeouts |-> IF u = t THEN NoTimeout
                                    ELSE IF u = tnext[t] THEN tprev[t] ELSE tprev[u]]
    /\ tnext' = [u \in Timeouts |-> IF u = t THEN NoTimeout
                                    ELSE IF u = tprev[t] THEN tnext[t] ELSE tnext[u]]
    /\ tlist' = IF tprev[t] = NoTimeout THEN tnext[t] ELSE tlist
    /\ IF tprev[t] = NoTimeout THEN TimerSync(tnext[t], ttime) ELSE UNCHANGED <<fire, early>>
    /\ UNCHANGED ttime

\* t->dequeue(), which may be called for a timeout that is not queued.
TDequeue(t) ==
    /\ ~loop
    /\ IF Queued(t) THEN Unlink(t) ELSE UNCHANGED <<tlinks, fire, early>>
    /\ UNCHANGED <<kind, now, irq, loop>>

-----------------------------------------------------------------------------
(* The interrupt.                                                          *)

Expired == tlist # NoTimeout /\ ttime[tlist] <= now

\* The timer interrupt.  On x86_64 the handler looks at the list only when
\* the timer is not armed again; on AArch64 it always does, and the
\* interrupt stays asserted until the deadline is moved.
TInterrupt ==
    /\ irq /\ ~loop
    /\ irq' = (kind = "compare" /\ now >= fire)
    /\ loop' = (kind = "compare" \/ fire = Off)
    /\ UNCHANGED <<kind, tlinks, now, fire, early>>

\* One iteration of check(): the head is dequeued and triggered.
TCheckNext ==
    /\ loop /\ Expired
    /\ Unlink(tlist)
    /\ UNCHANGED <<kind, now, irq, loop>>

TCheckEnd ==
    /\ loop /\ ~Expired
    /\ loop' = FALSE
    /\ UNCHANGED <<kind, tlinks, now, fire, irq, early>>

\* A sleep state that loses the timer, and the resume that writes the time
\* back and arms the timer for the head again.
TResume ==
    /\ ~loop
    /\ irq' = FALSE
    /\ IF tlist # NoTimeout THEN SetDeadline(ttime[tlist])
                            ELSE fire' = Off /\ early' = FALSE
    /\ UNCHANGED <<kind, tlinks, now, loop>>

-----------------------------------------------------------------------------
(* The hardware.                                                           *)

TTick ==
    /\ now < MaxTime
    /\ now' = now + 1
    /\ UNCHANGED <<kind, tlinks, fire, irq, loop, early>>

\* The timer fires; the timers of x86_64 are disarmed by that, the compare
\* timer keeps its interrupt asserted.
TFire ==
    /\ now >= fire /\ ~irq
    /\ irq' = TRUE
    /\ fire' = IF kind = "compare" THEN fire ELSE Off
    /\ UNCHANGED <<kind, tlinks, now, loop, early>>

TimeoutNext ==
    \/ \E t \in Timeouts, time \in 0 .. MaxTime : TEnqueue(t, time)
    \/ \E t \in Timeouts : TDequeue(t)
    \/ TInterrupt \/ TCheckNext \/ TCheckEnd \/ TResume
    \/ TTick \/ TFire

TimeoutSpec == TimeoutInit /\ [][TimeoutNext]_tvars

-----------------------------------------------------------------------------
(* The links agree, times ascend, and only the timeouts on the list have   *)
(* links: enqueue() and dequeue() decide by them whether one is queued.    *)
TimeoutsLinked ==
    /\ tlist # NoTimeout => tprev[tlist] = NoTimeout
    /\ \A t \in Timeouts :
        /\ tnext[t] # NoTimeout =>
             Queued(t) /\ tprev[tnext[t]] = t /\ ttime[t] <= ttime[tnext[t]]
        /\ tprev[t] # NoTimeout => tnext[tprev[t]] = t

(* The timer never misses the head of the list: it is armed for exactly    *)
(* that time, or has fired and its interrupt will find the head expired.   *)
(* The count-down may also end with the tick that has begun, and it keeps  *)
(* this as long as the distance to the deadline fits its 32 bits and is a  *)
(* multiple of its tick (Timeout::sync, Timeout::check, Lapic::set_timer). *)
TimerArmed ==
    tlist # NoTimeout /\ ~loop /\ ~early =>
        \/ fire = ttime[tlist]
        \/ kind = "countdown" /\ ttime[tlist] <= fire /\ fire <= now + Ratio
        \/ kind # "compare" /\ irq /\ ttime[tlist] <= now

(* No timeout is missed: the list is sorted and well linked, and the timer *)
(* is armed for its head.                                                  *)
TimeoutsExact == TimeoutType /\ TimeoutsLinked /\ TimerArmed
=============================================================================
