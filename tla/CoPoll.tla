------------------------------- MODULE CoPoll -------------------------------
(***************************************************************************)
(* poll for coroutines, _co_poll of src/src/coroutine/coroutine.c, and the *)
(* part of zcoroutine_base_run that serves it: a coroutine registers its   *)
(* descriptors with epoll and with the timeout tree, switches away, and is *)
(* made active by an event or by the timeout, whichever the loop sees.     *)
(* Every blocking call of the library (read, write, accept, connect, ...)  *)
(* waits in this way.                                                      *)
(*                                                                         *)
(* One thread does it all.  A step of the loop is one visit of a node of   *)
(* the timeout tree or one event, so that the flags ep_loop and            *)
(* active_list are seen between visits; the kernel and the clock run on    *)
(* their own.                                                              *)
(***************************************************************************)
EXTENDS Integers, Sequences, FiniteSets, SequencesExt

CONSTANTS
    Co,         \* coroutines
    Fds,        \* descriptors with a _co_fd_attribute_t
    None,       \* no coroutine: the loop runs
    MinEvents,  \* epoll_event_size at the start, 256
    MaxEvents   \* what it may grow to, 4096

ASSUME PollAssumption ==
    /\ IsFiniteSet(Co) /\ None \notin Co
    /\ MinEvents \in Nat \ {0} /\ MaxEvents \in Nat

VARIABLES
    phase,      \* where the loop is, "run" while a coroutine runs
    todo,       \* nodes or events the loop has still to visit
    event_size, \* epoll_event_size
    current,    \* the coroutine that runs
    active,     \* active_coroutines list
    polls,      \* coroutine -> descriptors of the poll it is in
    co,         \* descriptor -> cfa->co
    by_epoll,   \* descriptors with by_epoll
    in_epoll,   \* descriptors with in_epoll
    epoll,      \* descriptors registered with epoll_ctl
    tree,       \* fd_timeout_zrbtree
    expired,    \* descriptors whose cfa->timeout has passed
    ep_loop,    \* coroutines with ep_loop
    active_list,\* coroutines with active_list
    readable,   \* the kernel's view: descriptors with an event
    reported,   \* coroutine -> descriptors its last poll reported
    looked      \* coroutines whose descriptors epoll_wait examined after
                \* their timeout had passed (history)

loopVars == <<phase, todo, event_size, current, active>>
fdVars   == <<co, by_epoll, in_epoll, epoll, tree, expired>>
flagVars == <<ep_loop, active_list>>
vars == <<phase, todo, event_size, current, active, polls, co, by_epoll, in_epoll, epoll,
          tree, expired, ep_loop, active_list, readable, reported, looked>>

TypeOK ==
    /\ phase \in {"top", "timeout", "epoll", "events", "switch", "run"}
    /\ todo \subseteq Fds
    /\ event_size \in Nat \ {0}
    /\ event_size = MinEvents \/ event_size < 2 * MaxEvents
    /\ current \in Co \cup {None}
    /\ active \in Seq(Co)
    /\ polls \in [Co -> SUBSET Fds]
    /\ co \in [Fds -> Co \cup {None}]
    /\ by_epoll \subseteq Fds /\ in_epoll \subseteq Fds /\ epoll \subseteq Fds
    /\ tree \subseteq Fds /\ expired \subseteq Fds
    /\ ep_loop \subseteq Co /\ active_list \subseteq Co
    /\ readable \subseteq Fds
    /\ reported \in [Co -> SUBSET Fds]
    /\ looked \subseteq Co

Init ==
    /\ phase = "top" /\ todo = {}
    /\ event_size = MinEvents
    /\ current = None
    /\ active \in SetToSeqs(Co)
    /\ polls = [c \in Co |-> {}]
    /\ co = [f \in Fds |-> None]
    /\ by_epoll = {} /\ in_epoll = {} /\ epoll = {} /\ tree = {} /\ expired = {}
    /\ ep_loop = {} /\ active_list = {}
    /\ readable = {}
    /\ reported = [c \in Co |-> {}]
    /\ looked = {}

Parked(c) == polls[c] # {}

-----------------------------------------------------------------------------
(* The loop                                                                 *)

OverdueAll == tree                       \* wrong on purpose: no look at the time
Overdue == tree \cap expired

(* A round begins: the nodes at the front of the tree whose time has passed. *)
LoopTop ==
    /\ phase = "top"
    /\ phase' = "timeout"
    /\ todo' = Overdue
    /\ UNCHANGED <<event_size, current, active, polls, fdVars, flagVars, readable,
                   reported, looked>>

AppendedOnce(c) ==
    IF c \in ep_loop /\ c \notin active_list THEN Append(active, c) ELSE active

(* A node of the timeout tree whose time has passed: its coroutine becomes  *)
(* active on the second visit, when epoll_wait has been called in between   *)
(* or another of its descriptors has been visited.                          *)
VisitTimeout(f) ==
    /\ phase = "timeout"
    /\ f \in todo
    /\ todo' = todo \ {f}
    /\ LET c == co[f]
       IN  /\ active' = AppendedOnce(c)
           /\ active_list' = IF c \in ep_loop THEN active_list \cup {c} ELSE active_list
           /\ ep_loop' = ep_loop \cup {c}
    /\ UNCHANGED <<phase, event_size, current, polls, fdVars, readable, reported,
                   looked>>

TimeoutsDone ==
    /\ phase = "timeout"
    /\ todo = {}
    /\ phase' = "epoll"
    /\ UNCHANGED <<todo, event_size, current, active, polls, fdVars, flagVars,
                   readable, reported, looked>>

Smaller(a, b) == IF a < b THEN a ELSE b

Grown(n) ==
    IF n = event_size /\ event_size < MaxEvents THEN 2 * event_size ELSE event_size

(* epoll_wait returns as many of the registered descriptors with an event   *)
(* as the vector holds, which grows when it was full.  With nothing active  *)
(* it may also return empty, after at most a second.                        *)
EpollWait ==
    /\ phase = "epoll"
    /\ phase' = "events"
    /\ LET has == epoll \cap readable
       IN  \E S \in SUBSET has :
             /\ Cardinality(S) = Smaller(event_size, Cardinality(has))
             /\ todo' = S
             /\ event_size' = Grown(Cardinality(S))
    /\ looked' = looked \cup {c \in Co : Parked(c) /\ polls[c] \subseteq expired}
    /\ UNCHANGED <<current, active, polls, fdVars, flagVars, readable, reported>>

MovedToEndTwice(c) == Append(active, c)  \* wrong on purpose: not detached first
MovedToEnd(c) ==
    Append(IF c \in active_list THEN RemoveFirst(active, c) ELSE active, c)

VisitEvent(f) ==
    /\ phase = "events"
    /\ f \in todo
    /\ todo' = todo \ {f}
    /\ by_epoll' = by_epoll \cup {f}
    /\ active' = MovedToEnd(co[f])
    /\ active_list' = active_list \cup {co[f]}
    /\ UNCHANGED <<phase, event_size, current, polls, co, in_epoll, epoll, tree,
                   expired, ep_loop, readable, reported, looked>>

EventsDone ==
    /\ phase = "events"
    /\ todo = {}
    /\ phase' = "switch"
    /\ UNCHANGED <<todo, event_size, current, active, polls, fdVars, flagVars,
                   readable, reported, looked>>

(* zcoroutine_yield_my with nothing active: the loop goes on.               *)
SwitchToLoop ==
    /\ phase = "switch"
    /\ active = <<>>
    /\ phase' = "top"
    /\ UNCHANGED <<todo, event_size, current, active, polls, fdVars, flagVars,
                   readable, reported, looked>>

Result(c) == polls[c] \cap by_epoll

LeaveTree(c) == tree \ polls[c]

(* zcoroutine_yield_my to the head of the active list; a coroutine that was *)
(* in poll collects its events and takes its descriptors out of epoll and   *)
(* out of the tree.                                                         *)
SwitchTo(c) ==
    /\ phase = "switch"
    /\ active # <<>> /\ c = Head(active)
    /\ phase' = "run"
    /\ current' = c
    /\ active' = Tail(active)
    /\ reported' = [reported EXCEPT ![c] = Result(c)]
    /\ in_epoll' = in_epoll \ polls[c]
    /\ epoll' = epoll \ polls[c]
    /\ tree' = LeaveTree(c)
    /\ expired' = expired \ polls[c]
    /\ polls' = [polls EXCEPT ![c] = {}]
    /\ looked' = looked \ {c}
    /\ UNCHANGED <<todo, event_size, co, by_epoll, flagVars, readable>>

-----------------------------------------------------------------------------
(* The coroutines                                                           *)

Fatal(F) == F \cap in_epoll # {}         \* zcoroutine_fatal("mutli monitor fd:%d")

(* Which descriptors a program lets a coroutine poll.                       *)
Allowed(F) == F \cap UNION {polls[d] : d \in Co} = {}

ByEpollStale(F) == by_epoll              \* wrong on purpose: not reset
ByEpollAfter(F) == by_epoll \ F

StaleFlags(c) == UNCHANGED <<ep_loop, active_list>>    \* wrong on purpose: not reset
FreshFlags(c) == ep_loop' = ep_loop \ {c} /\ active_list' = active_list \ {c}

(* _co_poll up to its switch.                                               *)
Poll(c, F) ==
    /\ current = c
    /\ F # {}
    /\ Allowed(F)
    /\ ~Fatal(F)
    /\ FreshFlags(c)
    /\ polls' = [polls EXCEPT ![c] = F]
    /\ co' = [f \in Fds |-> IF f \in F THEN c ELSE co[f]]
    /\ by_epoll' = ByEpollAfter(F)
    /\ epoll' = epoll \cup F
    /\ tree' = tree \cup F
    /\ expired' = expired \ F
    /\ current' = None
    /\ phase' = "switch"
    /\ UNCHANGED <<todo, event_size, active, in_epoll, readable, reported, looked>>

(* zcoroutine_exit: it is put in no list but the one of the deleted.        *)
Exit(c) ==
    /\ current = c
    /\ current' = None
    /\ phase' = "switch"
    /\ UNCHANGED <<todo, event_size, active, polls, fdVars, flagVars, readable,
                   reported, looked>>

-----------------------------------------------------------------------------
(* The kernel and the clock                                                 *)

Arrive(f) ==
    /\ f \notin readable
    /\ readable' = readable \cup {f}
    /\ UNCHANGED <<loopVars, polls, fdVars, flagVars, reported, looked>>

(* The running coroutine reads what there was.                              *)
Consume(f) ==
    /\ current # None
    /\ f \in readable
    /\ readable' = readable \ {f}
    /\ UNCHANGED <<loopVars, polls, fdVars, flagVars, reported, looked>>

(* One call of poll has one deadline for all its descriptors.               *)
Expire(c) ==
    /\ polls[c] # {}
    /\ ~(polls[c] \subseteq expired)
    /\ expired' = expired \cup polls[c]
    /\ UNCHANGED <<loopVars, polls, co, by_epoll, in_epoll, epoll, tree, flagVars,
                   readable, reported, looked>>

Loop ==
    \/ \E f \in Fds : VisitTimeout(f) \/ VisitEvent(f)
    \/ LoopTop \/ TimeoutsDone \/ EpollWait \/ EventsDone \/ SwitchToLoop
    \/ \E c \in Co : SwitchTo(c)

Next ==
    \/ Loop
    \/ \E c \in Co : Expire(c) \/ Exit(c) \/ \E F \in SUBSET Fds : Poll(c, F)
    \/ \E f \in Fds : Arrive(f) \/ Consume(f)

Spec == Init /\ [][Next]_vars

(***************************************************************************)
(* The base thread is scheduled and epoll_wait returns within a second, a  *)
(* coroutine that runs polls again or ends, deadlines pass.  Events need   *)
(* not come.                                                               *)
(***************************************************************************)
Fairness ==
    /\ WF_vars(Loop)
    /\ \A c \in Co : /\ WF_vars(Expire(c))
                     /\ WF_vars(Exit(c) \/ \E F \in SUBSET Fds : Poll(c, F))

FairSpec == Spec /\ Fairness

-----------------------------------------------------------------------------

(* A coroutine is active once, and not while it runs: the flag active_list  *)
(* keeps timeout and event of one poll, or events of two of its             *)
(* descriptors, from linking it twice.  Between polls nothing of it is left *)
(* in epoll or in the tree, and during a poll every descriptor leads back   *)
(* to its own coroutine: none is woken for what it does not wait for.       *)
WokenOnce ==
    /\ \A c \in Co : Cardinality({i \in DOMAIN active : active[i] = c}) <= 1
    /\ current \notin ToSet(active)
    /\ tree = UNION {polls[c] : c \in Co}
    /\ epoll = tree
    /\ \A c \in Co : \A f \in polls[c] : co[f] = c

(* What a coroutine finds when it comes back from poll: events, or none at  *)
(* all when its time is over and epoll_wait has looked once more since.     *)
TimeoutHonest ==
    [][\A c \in Co : polls[c] # {} /\ polls'[c] = {} /\ reported'[c] = {} =>
          c \in looked /\ polls[c] \subseteq expired]_vars

(* No event is invented: what poll reports, an epoll_wait of this very call *)
(* has returned (a stale by_epoll of an earlier call does not count).       *)
ReportsOnlySeen ==
    \A f \in by_epoll : tree \cap {f} # {} => co[f] \in ToSet(active) \cup {current}

(* Every poll returns: its timeout ends it even if no event ever comes.     *)
PollReturns == \A c \in Co : polls[c] # {} ~> polls[c] = {}
=============================================================================
