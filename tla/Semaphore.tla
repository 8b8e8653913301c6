----------------------------- MODULE Semaphore -----------------------------
(***************************************************************************)
(* What a semaphore promises, without CPUs, scheduling contexts or         *)
(* interrupts: a counting semaphore whose waiters are served in FIFO       *)
(* order.  A wait ends exactly once, with a token handed over by an up or  *)
(* with a timeout, never with both.                                        *)
(***************************************************************************)
EXTENDS Naturals, Sequences

CONSTANTS Threads, Sems, Max, Start

VARIABLES
    count,      \* tokens of each semaphore
    queue,      \* waiting threads of each semaphore, oldest first
    state       \* "free", "waiting", "granted" or "expired", per thread

Init ==
    /\ count = Start
    /\ queue = [m \in Sems |-> <<>>]
    /\ state = [e \in Threads |-> "free"]

\* Take one token, or all of them.
Take(e, m) ==
    /\ state[e] = "free" /\ count[m] > 0
    /\ \E n \in {0, count[m] - 1} : count' = [count EXCEPT ![m] = n]
    /\ UNCHANGED <<queue, state>>

Wait(e, m) ==
    /\ state[e] = "free" /\ count[m] = 0
    /\ queue' = [queue EXCEPT ![m] = Append(@, e)]
    /\ state' = [state EXCEPT ![e] = "waiting"]
    /\ UNCHANGED count

\* Hand the token to the oldest waiter if there is one.
Signal(m) ==
    IF queue[m] = <<>>
    THEN /\ count[m] < Max
         /\ count' = [count EXCEPT ![m] = @ + 1]
         /\ UNCHANGED <<queue, state>>
    ELSE /\ queue' = [queue EXCEPT ![m] = Tail(@)]
         /\ state' = [state EXCEPT ![Head(queue[m])] = "granted"]
         /\ UNCHANGED count

Expire(e, m) ==
    /\ \E i \in 1 .. Len(queue[m]) :
         /\ queue[m][i] = e
         /\ queue' = [queue EXCEPT ![m] = SubSeq(@, 1, i - 1) \o SubSeq(@, i + 1, Len(@))]
    /\ state' = [state EXCEPT ![e] = "expired"]
    /\ UNCHANGED count

Return(e) ==
    /\ state[e] \in {"granted", "expired"}
    /\ state' = [state EXCEPT ![e] = "free"]
    /\ UNCHANGED <<count, queue>>

Next ==
    \/ \E e \in Threads, m \in Sems : Take(e, m) \/ Wait(e, m) \/ Expire(e, m)
    \/ \E m \in Sems : Signal(m)
    \/ \E e \in Threads : Return(e)

Spec == Init /\ [][Next]_<<count, queue, state>>
=============================================================================
