------------------------------ MODULE FifoLock ------------------------------
(***************************************************************************)
(* What a coroutine mutex promises, whatever schedules the coroutines:     *)
(* one holder at a time, passed on only by its holder, and to the one that *)
(* has stood in line longest.                                              *)
(***************************************************************************)
EXTENDS Sequences

CONSTANTS Co, Mutexes, None

VARIABLES
    holder,     \* mutex -> the coroutine that has it, or None
    line        \* mutex -> those that wait, in the order of their calls

vars == <<holder, line>>

Init ==
    /\ holder = [m \in Mutexes |-> None]
    /\ line = [m \in Mutexes |-> <<>>]

(* A free mutex has nobody in line.                                         *)
Take(c, m) ==
    /\ holder[m] = None
    /\ line[m] = <<>>
    /\ holder' = [holder EXCEPT ![m] = c]
    /\ UNCHANGED line

(* Nobody stands in line for what it has.                                   *)
StandInLine(c, m) ==
    /\ holder[m] # None
    /\ holder[m] # c
    /\ \A i \in DOMAIN line[m] : line[m][i] # c
    /\ line' = [line EXCEPT ![m] = Append(@, c)]
    /\ UNCHANGED holder

PassOn(m) ==
    /\ holder[m] # None
    /\ line[m] # <<>>
    /\ holder' = [holder EXCEPT ![m] = Head(line[m])]
    /\ line' = [line EXCEPT ![m] = Tail(@)]

GiveBack(m) ==
    /\ holder[m] # None
    /\ line[m] = <<>>
    /\ holder' = [holder EXCEPT ![m] = None]
    /\ UNCHANGED line

Next ==
    \E m \in Mutexes : \/ \E c \in Co : Take(c, m) \/ StandInLine(c, m)
                       \/ PassOn(m) \/ GiveBack(m)

Spec == Init /\ [][Next]_vars
=============================================================================
