------------------------------- MODULE CoMutex ------------------------------
(***************************************************************************)
(* The coroutine mutexes and condition variables of                        *)
(* src/src/coroutine/coroutine.c.  A mutex is a list of coroutines whose   *)
(* head owns it; unlocking hands it to the next one in the list.  Every    *)
(* coroutine keeps the mutexes it locked in mutex_list, from which they    *)
(* are released when it ends.                                              *)
(*                                                                         *)
(* The coroutines belong to one base, so they run one at a time (CoBase).  *)
(* Its active list followed by its prepare list is the queue ready here:   *)
(* both are served from the head and every wake-up appends to prepare.     *)
(***************************************************************************)
EXTENDS Integers, Sequences, FiniteSets, SequencesExt

CONSTANTS
    Co,         \* coroutines
    Mutexes,    \* zcoroutine_mutex_t
    Conds,      \* zcoroutine_cond_t
    None        \* no coroutine, no mutex

ASSUME MutexAssumption ==
    IsFiniteSet(Co) /\ None \notin Co /\ None \notin Mutexes

VARIABLES
    current,    \* the coroutine that runs, or None
    ready,      \* active_coroutines \o prepare_coroutines
    pc,         \* what each coroutine is doing
    want,       \* the mutex argument of the call a coroutine is in
    colist,     \* mutex -> m->colist
    waiters,    \* cond -> cond->colist
    mutex_list, \* coroutine -> co->mutex_list
    holds,      \* mutexes a coroutine has locked and not unlocked (history)
    handed      \* mutexes handed to it, not locked again nor unlocked (history)

vars == <<current, ready, pc, want, colist, waiters, mutex_list, holds, handed>>

TypeOK ==
    /\ current \in Co \cup {None}
    /\ ready \in Seq(Co)
    /\ pc \in [Co -> {"run", "lock", "cond", "relock", "exit", "ended"}]
    /\ want \in [Co -> Mutexes \cup {None}]
    /\ colist \in [Mutexes -> Seq(Co)]
    /\ waiters \in [Conds -> Seq(Co)]
    /\ mutex_list \in [Co -> Seq(Mutexes)]
    /\ holds \in [Co -> SUBSET Mutexes]
    /\ handed \in [Co -> SUBSET Mutexes]

(* Every coroutine has been started with zcoroutine_go, in some order.      *)
Init ==
    /\ current = None
    /\ ready \in SetToSeqs(Co)
    /\ pc = [c \in Co |-> "run"]
    /\ want = [c \in Co |-> None]
    /\ colist = [m \in Mutexes |-> <<>>]
    /\ waiters = [v \in Conds |-> <<>>]
    /\ mutex_list = [c \in Co |-> <<>>]
    /\ holds = [c \in Co |-> {}]
    /\ handed = [c \in Co |-> {}]

-----------------------------------------------------------------------------

Owns(c, m) == colist[m] # <<>> /\ Head(colist[m]) = c

(* zcoroutine_yield_my: the next coroutine returns from where it switched   *)
(* away.  One that waited in zcoroutine_mutex_lock returns with the mutex;  *)
(* one that waited in zcoroutine_cond_wait goes on to lock the mutex.       *)
Switch(rdy, pcs, held) ==
    IF rdy = <<>>
    THEN current' = None /\ ready' = <<>> /\ pc' = pcs /\ holds' = held
    ELSE LET c == Head(rdy)
         IN  /\ current' = c
             /\ ready' = Tail(rdy)
             /\ pc' = [pcs EXCEPT ![c] = IF @ = "cond" THEN "relock" ELSE "run"]
             /\ holds' = IF pcs[c] = "lock" THEN [held EXCEPT ![c] = @ \cup {want[c]}]
                                            ELSE held

(* zcoroutine_base_run starts the first coroutine.                          *)
Start ==
    /\ current = None
    /\ ready # <<>>
    /\ Switch(ready, pc, holds)
    /\ UNCHANGED <<want, colist, waiters, mutex_list, handed>>

Running(c) == current = c /\ pc[c] = "run"

(* zcoroutine_append_mutex: at the end, once.                               *)
AppendMutex(c, m) ==
    IF m \in ToSet(mutex_list[c]) THEN mutex_list
    ELSE [mutex_list EXCEPT ![c] = Append(@, m)]

(* zcoroutine_remove_mutex: the first node that names it is deleted.        *)
RemoveMutex(c, m) ==
    LET list == mutex_list[c]
        at   == {i \in DOMAIN list : list[i] = m /\ \A j \in DOMAIN list : j < i => list[j] # m}
    IN  [mutex_list EXCEPT ![c] = IF at = {} THEN @ ELSE RemoveAt(@, CHOOSE i \in at : TRUE)]

(* zcoroutine_mutex_lock: taken at once when nobody has it or the caller    *)
(* has it already (there is no count) ...                                   *)
LockNow(c, m) ==
    /\ colist[m] = <<>> \/ Owns(c, m)
    /\ colist' = IF colist[m] = <<>> THEN [colist EXCEPT ![m] = <<c>>] ELSE colist
    /\ mutex_list' = AppendMutex(c, m)
    /\ holds' = [holds EXCEPT ![c] = @ \cup {m}]
    /\ handed' = [handed EXCEPT ![c] = @ \ {m}]
    /\ pc' = [pc EXCEPT ![c] = "run"]
    /\ UNCHANGED <<current, ready, want, waiters>>

(* ... else the caller queues up and switches; nothing is done after the    *)
(* switch: the mutex that is handed over later is not put in mutex_list.    *)
LockWaitFirst(c, m) ==                   \* wrong on purpose: next in line, not last
    /\ colist[m] # <<>> /\ ~Owns(c, m)
    /\ colist' = [colist EXCEPT ![m] = <<Head(@), c>> \o Tail(@)]
    /\ want' = [want EXCEPT ![c] = m]
    /\ Switch(ready, [pc EXCEPT ![c] = "lock"], holds)
    /\ UNCHANGED <<waiters, mutex_list, handed>>
LockWait(c, m) ==
    /\ colist[m] # <<>> /\ ~Owns(c, m)
    /\ colist' = [colist EXCEPT ![m] = Append(@, c)]
    /\ want' = [want EXCEPT ![c] = m]
    /\ Switch(ready, [pc EXCEPT ![c] = "lock"], holds)
    /\ UNCHANGED <<waiters, mutex_list, handed>>

Lock(c, m) == Running(c) /\ (LockNow(c, m) \/ LockWait(c, m))

(* zcoroutine_cond_wait after its switch                                    *)
Relock(c) ==
    /\ current = c /\ pc[c] = "relock"
    /\ LockNow(c, want[c]) \/ LockWait(c, want[c])

HandoverNull(m) ==                       \* wrong on purpose: no test for the end
    IF Tail(colist[m]) = <<>> THEN Append(ready, None)
    ELSE Append(ready, Head(Tail(colist[m])))
HandoverLost(m) == ready                 \* wrong on purpose: nobody is woken
HandoverLast(m) ==                       \* wrong on purpose: wakes the last waiter
    IF Len(colist[m]) < 2 THEN ready ELSE Append(ready, Last(colist[m]))

(* The lists after zcoroutine_mutex_unlock by the owner: the next one in    *)
(* the list owns the mutex and is made ready.                               *)
Handover(m) ==
    IF Tail(colist[m]) = <<>> THEN ready ELSE Append(ready, Head(Tail(colist[m])))

UnlockedBy(c, m) == [holds EXCEPT ![c] = @ \ {m}]

(* Whom a mutex is handed to is remembered: the next one in the list.       *)
HandedOver(m) ==
    [d \in Co |-> IF d = Head(colist[m]) THEN handed[d] \ {m}
                  ELSE IF Len(colist[m]) > 1 /\ d = colist[m][2] THEN handed[d] \cup {m}
                  ELSE handed[d]]

(* zcoroutine_mutex_unlock by the owner; by anyone else it does nothing.    *)
Unlock(c, m) ==
    /\ Running(c)
    /\ Owns(c, m)
    /\ mutex_list' = RemoveMutex(c, m)
    /\ colist' = [colist EXCEPT ![m] = Tail(@)]
    /\ ready' = Handover(m)
    /\ holds' = UnlockedBy(c, m)
    /\ handed' = HandedOver(m)
    /\ UNCHANGED <<current, pc, want, waiters>>

(* zcoroutine_cond_wait: unlock, queue up at the condition, switch.         *)
CondWait(c, v, m) ==
    /\ Running(c)
    /\ waiters' = [waiters EXCEPT ![v] = Append(@, c)]
    /\ want' = [want EXCEPT ![c] = m]
    /\ IF Owns(c, m)
       THEN /\ mutex_list' = RemoveMutex(c, m)
            /\ colist' = [colist EXCEPT ![m] = Tail(@)]
            /\ handed' = HandedOver(m)
            /\ Switch(Handover(m), [pc EXCEPT ![c] = "cond"], UnlockedBy(c, m))
       ELSE /\ Switch(ready, [pc EXCEPT ![c] = "cond"], holds)
            /\ UNCHANGED <<mutex_list, colist, handed>>

(* zcoroutine_cond_signal wakes the first waiter and yields ...             *)
CondSignal(c, v) ==
    /\ Running(c)
    /\ waiters[v] # <<>>
    /\ waiters' = [waiters EXCEPT ![v] = Tail(@)]
    /\ Switch(Append(Append(ready, Head(waiters[v])), c), pc, holds)
    /\ UNCHANGED <<want, colist, mutex_list, handed>>

Woken(v) == waiters[v]

(* ... zcoroutine_cond_broadcast wakes all and yields, waiters or not.      *)
CondBroadcast(c, v) ==
    /\ Running(c)
    /\ waiters' = [waiters EXCEPT ![v] = <<>>]
    /\ Switch(ready \o Woken(v) \o <<c>>, pc, holds)
    /\ UNCHANGED <<want, colist, mutex_list, handed>>

Requeued(c) == Append(ready, c)

(* zcoroutine_yield *)
Yield(c) ==
    /\ Running(c)
    /\ Switch(Requeued(c), pc, holds)
    /\ UNCHANGED <<want, colist, waiters, mutex_list, handed>>

(* The coroutine returns or calls zcoroutine_exit ...                       *)
Exit(c) ==
    /\ Running(c)
    /\ pc' = [pc EXCEPT ![c] = "exit"]
    /\ UNCHANGED <<current, ready, want, colist, waiters, mutex_list, holds, handed>>

(* ... zcoroutine_release_all_mutex pops and unlocks one after the other    *)
ReleasePopped(c) ==                      \* wrong on purpose: popped, not unlocked
    /\ current = c /\ pc[c] = "exit"
    /\ mutex_list[c] # <<>>
    /\ mutex_list' = [mutex_list EXCEPT ![c] = Front(@)]
    /\ UNCHANGED <<current, ready, pc, want, colist, waiters, holds, handed>>
ReleaseOne(c) ==
    /\ current = c /\ pc[c] = "exit"
    /\ mutex_list[c] # <<>>
    /\ LET m == Last(mutex_list[c])
       IN  /\ mutex_list' = [mutex_list EXCEPT ![c] = Front(@)]
           /\ IF Owns(c, m)
              THEN /\ colist' = [colist EXCEPT ![m] = Tail(@)]
                   /\ ready' = Handover(m)
                   /\ holds' = UnlockedBy(c, m)
                   /\ handed' = HandedOver(m)
              ELSE UNCHANGED <<colist, ready, holds, handed>>
    /\ UNCHANGED <<current, pc, want, waiters>>

(* ... and it switches away for good.                                       *)
Ended(c) ==
    /\ current = c /\ pc[c] = "exit"
    /\ mutex_list[c] = <<>>
    /\ Switch(ready, [pc EXCEPT ![c] = "ended"], holds)
    /\ UNCHANGED <<want, colist, waiters, mutex_list, handed>>

Step(c) ==
    \/ \E m \in Mutexes : Lock(c, m) \/ Unlock(c, m)
    \/ \E v \in Conds : \/ CondSignal(c, v) \/ CondBroadcast(c, v)
                        \/ \E m \in Mutexes : CondWait(c, v, m)
    \/ Relock(c) \/ Yield(c) \/ Exit(c) \/ ReleaseOne(c) \/ Ended(c)

Next == Start \/ \E c \in Co : Step(c)

Spec == Init /\ [][Next]_vars

(***************************************************************************)
(* The base runs the ready coroutines; a coroutine that runs gives up the  *)
(* processor or finishes what it is in; and, the one assumption about the  *)
(* program that uses the mutexes, a coroutine that owns a mutex and runs   *)
(* again and again unlocks it at last.                                     *)
(***************************************************************************)
Fairness ==
    /\ WF_vars(Start)
    /\ \A c \in Co : WF_vars(Yield(c) \/ Relock(c) \/ ReleaseOne(c) \/ Ended(c))
    /\ \A c \in Co, m \in Mutexes : SF_vars(Unlock(c, m))

FairSpec == Spec /\ Fairness

-----------------------------------------------------------------------------

(* Mutual exclusion as its users see it: a coroutine that has returned from *)
(* zcoroutine_mutex_lock, or from zcoroutine_cond_wait, and has not         *)
(* unlocked since is the head of the list, so no two hold one mutex.        *)
MutualExclusion == \A c \in Co : \A m \in holds[c] : Owns(c, m)

Occurs(c, s) == Cardinality({i \in DOMAIN s : s[i] = c})

(* Every living coroutine is in exactly one place: at the processor, ready, *)
(* queued behind the owner of one mutex, or at one condition.  A wake-up is *)
(* neither lost nor given twice (the links are in the coroutine).           *)
OnePlace ==
    \A c \in Co :
        LET behind == {m \in Mutexes : c \in ToSet(colist[m]) /\ ~Owns(c, m)}
            at     == {v \in Conds : c \in ToSet(waiters[v])}
        IN  /\ \A m \in Mutexes : Occurs(c, colist[m]) <= 1
            /\ \A v \in Conds : Occurs(c, waiters[v]) <= 1
            /\ Occurs(c, ready) + Cardinality(behind) + Cardinality(at)
                 + (IF current = c THEN 1 ELSE 0) = IF pc[c] = "ended" THEN 0 ELSE 1

(* mutex_list, from which an exit releases, names what the coroutine owns,  *)
(* nobody else's mutex and none of its own left out but those that were     *)
(* handed to it and that it has not locked again; so a coroutine that ended *)
(* owns nothing it locked itself, and stands in line nowhere.               *)
ExitReleasesListed ==
    /\ \A c \in Co : ToSet(mutex_list[c]) = {m \in Mutexes : Owns(c, m)} \ handed[c]
    /\ \A c \in Co : pc[c] = "ended" =>
          \A m \in Mutexes : c \in ToSet(colist[m]) => Owns(c, m) /\ m \in handed[c]

(* What the sample sample/coroutine/cond_test.c says of its coroutines:     *)
(* "auto release all mutexs when a coroutine exit".                         *)
ExitReleasesAll ==
    \A c \in Co : pc[c] = "ended" => \A m \in Mutexes : c \notin ToSet(colist[m])

(* The head of the list is the holder, the rest stands in line.             *)
Holder == [m \in Mutexes |-> IF colist[m] = <<>> THEN None ELSE Head(colist[m])]
Line   == [m \in Mutexes |-> IF colist[m] = <<>> THEN <<>> ELSE Tail(colist[m])]

Lock0 == INSTANCE FifoLock WITH holder <- Holder, line <- Line

(* The mutexes implement FIFO locks: across locking, recursive locking,     *)
(* unlocking, waiting at a condition and ending, a mutex passes only from   *)
(* its holder and only to the coroutine that called first.                  *)
ImplementsFifoLock == Lock0!Spec

(* Somebody keeps a mutex while waiting for another one, or at a condition. *)
HoldAndWait == \E c \in Co : pc[c] \in {"lock", "cond"} /\ holds[c] # {}

(* Whoever queues for a mutex gets it, unless a coroutine has ended with a  *)
(* mutex that was handed to it or keeps one while it waits (two taken in    *)
(* opposite orders deadlock, as pthread mutexes do).                        *)
LockGranted ==
    \A c \in Co : pc[c] = "lock" ~>
        \/ pc[c] = "run"
        \/ HoldAndWait
        \/ \E d \in Co : pc[d] = "ended" /\ handed[d] # {}

=============================================================================
