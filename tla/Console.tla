------------------------------- MODULE Console -------------------------------
(***************************************************************************)
(* The consoles: Console::print on any CPU, under Console::lock, sends     *)
(* every character to each console of the list; a UART waits until the     *)
(* transmitter has room; the memory buffer is a ring that a reader outside *)
(* the kernel empties and is woken for by a semaphore at the end of each   *)
(* line.  When the root domain is started Console::flush gives the UARTs   *)
(* to user space: it waits for the transmitter and takes them off the list,*)
(* without the lock, so that other CPUs may be printing.                   *)
(*                                                                         *)
(* A character is its number in the output; every LineLen-th one ends a    *)
(* line.  The ring of Ring slots is written with relaxed loads, a       *)
(* compare-and-exchange and stores, one step each.                         *)
(* What vprintf, print_num and print_str put into a line is left out.      *)
(***************************************************************************)
EXTENDS Integers, Sequences, FiniteSets, SequencesExt

CONSTANTS
    Writers,     \* CPUs that print
    Uarts,       \* UART consoles, enabled before the memory buffer
    Mbuf,        \* the memory buffer console
    NoWriter,    \* Console::lock is free
    Ring,        \* slots of the buffer (entries)
    Fifo,        \* characters a transmitter holds
    LineLen,     \* characters of a line
    MaxLines     \* lines that are printed

ASSUME ConsoleAssumption ==
    /\ Ring \in Nat \ {0, 1, 2} /\ Fifo \in Nat \ {0} /\ LineLen \in Nat \ {0}
    /\ MaxLines \in Nat /\ IsFiniteSet(Uarts)
    /\ Mbuf \notin Uarts /\ NoWriter \notin Writers

VARIABLES
    consoles,   \* Console::list
    holder,     \* Console::lock
    prn,        \* how far the holder is: [chr, to, step] (putc, outc)
    txq,        \* UART -> characters in its transmitter
    flush,      \* Console::flush: "no", "walk" or "off" and the consoles left, "done"
    sent,       \* history: characters a UART was sent after it left the list
    overlap,    \* history: Console::lock was held at some time during the walk
    rIdx, wIdx, slot,   \* the memory buffer
    signals,    \* the counter of the semaphore NOVA_CON
    rd,         \* the reader: [step, r, c]
    read        \* characters the reader has taken

consoleVars == <<consoles, holder, prn, txq, flush, sent, overlap, rIdx, wIdx, slot, signals, rd, read>>

UartSeq == SetToSeq(Uarts)
Listed(u) == \E i \in 1 .. Len(consoles) : consoles[i] = u
Walking == flush[1] \in {"walk", "off"}
Printed == prn.chr
IsEnd(c) == c % LineLen = 0

(***************************************************************************)
(* Console::enable appends, so the consoles stand in the order of their    *)
(* constructors.                                                           *)
(***************************************************************************)
Enable(list, c) == Append(list, c)

(***************************************************************************)
(* Console::disable unlinks the console; its own next pointer stays.       *)
(***************************************************************************)
Disable(list, c) == RemoveFirst(list, c)

ConsoleInit ==
    /\ consoles = Enable(UartSeq, Mbuf)
    /\ holder = NoWriter
    /\ prn = [chr |-> 0, to |-> <<>>, step |-> "idle", r |-> 0]
    /\ txq = [u \in Uarts |-> 0] /\ flush = <<"no">>
    /\ sent = [u \in Uarts |-> 0] /\ overlap = FALSE
    /\ rIdx = 0 /\ wIdx = 0 /\ slot = [i \in 0 .. Ring - 1 |-> 0]
    /\ signals = 0 /\ rd = [step |-> "wait", r |-> 0, c |-> 0] /\ read = <<>>

ringVars == <<rIdx, wIdx, slot, signals>>
readerVars == <<rd, read>>
flushVars == <<flush, sent, overlap>>

(***************************************************************************)
(* Console::print takes the lock and starts a line; the first character    *)
(* goes to the first console of the list.                                  *)
(***************************************************************************)
CPrint(w) ==
    /\ holder = NoWriter /\ Printed < MaxLines * LineLen
    /\ holder' = w
    /\ overlap' = (overlap \/ Walking)
    /\ prn' = [prn EXCEPT !.chr = @ + 1, !.to = consoles, !.step = "outc"]
    /\ UNCHANGED <<consoles, txq, flush, sent, ringVars, readerVars>>

(***************************************************************************)
(* The next console for this character, else the next character of the     *)
(* line, else the lock is released.                                        *)
(***************************************************************************)
Advance ==
    IF Len(prn.to) > 1 THEN prn' = [prn EXCEPT !.to = Tail(@), !.step = "outc"] /\ UNCHANGED holder
    ELSE IF IsEnd(prn.chr) THEN prn' = [prn EXCEPT !.to = <<>>, !.step = "idle"] /\ holder' = NoWriter
    ELSE prn' = [prn EXCEPT !.chr = @ + 1, !.to = consoles, !.step = "outc"] /\ UNCHANGED holder

(***************************************************************************)
(* Console_uart::outc: spin while the transmitter is full, then send.      *)
(***************************************************************************)
CUart ==
    /\ prn.step = "outc" /\ Head(prn.to) \in Uarts
    /\ LET u == Head(prn.to) IN
       /\ txq[u] < Fifo
       /\ txq' = [txq EXCEPT ![u] = @ + 1]
       /\ sent' = IF Listed(u) THEN sent ELSE [sent EXCEPT ![u] = @ + 1]
    /\ Advance
    /\ UNCHANGED <<consoles, flush, overlap, ringVars, readerVars>>

(***************************************************************************)
(* The transmitter sends a character.                                      *)
(***************************************************************************)
CTransmit(u) ==
    /\ txq[u] > 0 /\ txq' = [txq EXCEPT ![u] = @ - 1]
    /\ UNCHANGED <<consoles, holder, prn, flushVars, ringVars, readerVars>>

(***************************************************************************)
(* Console_mbuf::outc: load both indices; if the ring is full take the     *)
(* oldest character away from the reader, unless it has just moved on;     *)
(* store the character; publish the index; signal at the end of a line.    *)
(***************************************************************************)
CMbufLoad ==
    /\ prn.step = "outc" /\ Head(prn.to) = Mbuf
    /\ prn' = [prn EXCEPT !.step = IF (wIdx + 1) % Ring = rIdx THEN "discard" ELSE "store", !.r = rIdx]
    /\ UNCHANGED <<consoles, holder, txq, flushVars, ringVars, readerVars>>

(***************************************************************************)
(* Mutation of CMbufDiscard: the reader's index is stored without a        *)
(* compare-and-exchange.                                                   *)
(***************************************************************************)
CMbufDiscardStore ==
    /\ prn.step = "discard"
    /\ rIdx' = (prn.r + 1) % Ring
    /\ prn' = [prn EXCEPT !.step = "store"]
    /\ UNCHANGED <<consoles, holder, txq, flushVars, wIdx, slot, signals, readerVars>>

CMbufDiscard ==
    /\ prn.step = "discard"
    /\ rIdx' = IF rIdx = prn.r THEN (prn.r + 1) % Ring ELSE rIdx
    /\ prn' = [prn EXCEPT !.step = "store"]
    /\ UNCHANGED <<consoles, holder, txq, flushVars, wIdx, slot, signals, readerVars>>

CMbufStore ==
    /\ prn.step = "store"
    /\ slot' = [slot EXCEPT ![wIdx] = prn.chr]
    /\ prn' = [prn EXCEPT !.step = "publish"]
    /\ UNCHANGED <<consoles, holder, txq, flushVars, rIdx, wIdx, signals, readerVars>>

CMbufPublish ==
    /\ prn.step = "publish"
    /\ wIdx' = (wIdx + 1) % Ring
    /\ signals' = IF IsEnd(prn.chr) THEN signals + 1 ELSE signals
    /\ Advance
    /\ UNCHANGED <<consoles, txq, flushVars, rIdx, slot, readerVars>>

(***************************************************************************)
(* The reader, a user program: it waits on the semaphore, then takes       *)
(* characters by load, load, compare-and-exchange until the ring is empty. *)
(***************************************************************************)
RWake ==
    /\ rd.step = "wait" /\ signals > 0
    /\ signals' = signals - 1 /\ rd' = [rd EXCEPT !.step = "load"]
    /\ UNCHANGED <<consoles, holder, prn, txq, flushVars, rIdx, wIdx, slot, read>>

RLoad ==
    /\ rd.step = "load"
    /\ rd' = IF rIdx = wIdx THEN [rd EXCEPT !.step = "wait"]
             ELSE [step |-> "take", r |-> rIdx, c |-> slot[rIdx]]
    /\ UNCHANGED <<consoles, holder, prn, txq, flushVars, ringVars, read>>

RTake ==
    /\ rd.step = "take" /\ rd' = [rd EXCEPT !.step = "load"]
    /\ IF rIdx = rd.r
       THEN rIdx' = (rIdx + 1) % Ring /\ read' = Append(read, rd.c)
       ELSE UNCHANGED <<rIdx, read>>
    /\ UNCHANGED <<consoles, holder, prn, txq, flushVars, wIdx, slot, signals>>

(***************************************************************************)
(* Console::flush, at the end of create_root: the walk follows the next    *)
(* pointers of consoles it has just taken off the list, and takes no lock. *)
(***************************************************************************)
CFlush ==
    /\ flush[1] = "no"
    /\ flush' = <<"walk">> \o consoles
    /\ overlap' = (holder # NoWriter)
    /\ UNCHANGED <<consoles, holder, prn, txq, sent, ringVars, readerVars>>

(***************************************************************************)
(* fini() of the next console: a UART waits until its transmitter is idle; *)
(* the memory buffer, the last console, says no.                           *)
(***************************************************************************)
CFlushFini ==
    /\ flush[1] = "walk" /\ Len(flush) > 1
    /\ \/ flush[2] \in Uarts /\ txq[flush[2]] = 0 /\ flush' = [flush EXCEPT ![1] = "off"]
       \/ flush[2] = Mbuf /\ flush' = <<"done">>
    /\ UNCHANGED <<consoles, holder, prn, txq, sent, overlap, ringVars, readerVars>>

(***************************************************************************)
(* disable() of the UART that fini() has found idle.                       *)
(***************************************************************************)
CFlushDisable ==
    /\ flush[1] = "off"
    /\ consoles' = Disable(consoles, flush[2])
    /\ flush' = <<"walk">> \o SubSeq(flush, 3, Len(flush))
    /\ UNCHANGED <<holder, prn, txq, sent, overlap, ringVars, readerVars>>

ConsoleNext ==
    \/ \E w \in Writers : CPrint(w)
    \/ CUart \/ CMbufLoad \/ CMbufDiscard \/ CMbufStore \/ CMbufPublish
    \/ \E u \in Uarts : CTransmit(u)
    \/ RWake \/ RLoad \/ RTake \/ CFlush \/ CFlushFini \/ CFlushDisable

ConsoleSpec == ConsoleInit /\ [][ConsoleNext]_consoleVars

-----------------------------------------------------------------------------
ConsoleType ==
    /\ holder \in Writers \cup {NoWriter} /\ rIdx \in 0 .. Ring - 1 /\ wIdx \in 0 .. Ring - 1
    /\ txq \in [Uarts -> 0 .. Fifo]

(***************************************************************************)
(* The characters in the ring, and the last one published in it.           *)
(***************************************************************************)
Unread == (wIdx + Ring - rIdx) % Ring
Published == IF Mbuf \in {prn.to[i] : i \in 1 .. Len(prn.to)} THEN prn.chr - 1 ELSE prn.chr

(***************************************************************************)
(* Between reader and writer the ring never holds anything but the newest  *)
(* characters, in order: slots r_idx up to w_idx are the last ones         *)
(* published, and what the reader took is an increasing sequence: nothing  *)
(* is read twice, out of order or before it was stored.                    *)
(***************************************************************************)
RingExact ==
    /\ \A k \in 1 .. Unread : slot[(wIdx + Ring - k) % Ring] = Published - k + 1
    /\ \A i \in 2 .. Len(read) : read[i - 1] < read[i]

(***************************************************************************)
(* A reader that waits with no signal pending has not missed a line: the   *)
(* unread characters, if any, belong to a line that is still being printed.*)
(***************************************************************************)
NoLineMissed ==
    rd.step = "wait" /\ signals = 0 =>
        \A k \in 1 .. Unread : ~IsEnd(slot[(wIdx + Ring - k) % Ring])

(***************************************************************************)
(* Console::flush gives every UART away and the memory buffer survives.  A *)
(* UART that is off the list is idle and is not touched by the kernel any  *)
(* more, unless a line was being printed during the walk, which flush does *)
(* not prevent: then the character that is on its way through the old list *)
(* may still be sent to it, but none after that one.                       *)
(***************************************************************************)
UartsHandedOver ==
    /\ Listed(Mbuf) /\ (flush[1] = "done" => consoles = <<Mbuf>>)
    /\ \A u \in Uarts : ~Listed(u) => sent[u] <= 1 /\ (~overlap => sent[u] = 0 /\ txq[u] = 0)

(***************************************************************************)
(* Printing, reading and handing over may interleave in any way: the ring  *)
(* is exact, no line is missed and the UARTs are left alone after flush,   *)
(* but for one character of a line that was being printed.                 *)
(***************************************************************************)
ConsolesExact == ConsoleType /\ RingExact /\ NoLineMissed /\ UartsHandedOver
=============================================================================
