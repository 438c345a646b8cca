-------------------------------- MODULE Aio --------------------------------
(***************************************************************************)
(* The asynchronous I/O engine, src/src/event/aio.c: an event loop over    *)
(* epoll, a tree of timeouts and queues of aios with a new operation.      *)
(*                                                                         *)
(* One thread runs the loop and, from it, the callbacks; what a callback   *)
(* still has to call is its script, one call a step.  Another thread hands *)
(* over aios and stops the loop.  One node of an aio, rbnode_time, links   *)
(* it into the tree and into any of three queues, so the queues are        *)
(* modelled with their links.  Bytes are units that a socket holds; the    *)
(* caches that keep them are the subject of AioCache.                      *)
(***************************************************************************)
EXTENDS Integers, Sequences, FiniteSets

CONSTANTS
    Aios,       \* aios of the program
    Ev,         \* eventfd_aio of the base
    None,
    MaxRx,      \* units a socket may hold
    Wants(_, _),    \* units that an operation on an aio may ask for
    Timed       \* aios with a read and a write wait timeout

ASSUME AioAssumption ==
    /\ Ev \notin Aios /\ None \notin Aios \cup {Ev}
    /\ MaxRx \in Nat \ {0}
    /\ Timed \subseteq Aios
    /\ \A a \in Aios : /\ Wants(a, "read") \subseteq Nat
                      /\ Wants(a, "writen") \subseteq Nat
                      /\ Wants(a, "cint") \subseteq Nat \ {0}
                      /\ Wants(a, "data") \subseteq Nat \ {0}

Node  == Aios \cup {Ev}
Queue == {"incoming", "extern", "tmp"}
Event == {"read", "write"}

(* action_type.  "read" stands for read, readn and read_delimiter, which    *)
(* all wait for more until their condition holds; "cint" is the length,     *)
(* "data" what it announces; "sleep0" is sleep with a timeout below 1.      *)
Persistent == {"readable", "writeable"}
Action == Persistent \cup {"none", "read", "cint", "data", "writen", "tls", "sleep", "sleep0"}

VARIABLES
    pc,         \* where the loop is; "cb" in a callback
    stage,      \* active_stage of the aios that the loop serves now
    cur,        \* the aio whose callback runs
    script,     \* calls the callback has still to make
    vec,        \* events of epoll_wait not served yet
    delay,      \* will epoll_wait block?
    stop_flag,
    eventfd,    \* has the eventfd been written?
    links,      \* the queues: head, tail, prev (zrbtree_left), next (zrbtree_right)
    inq,        \* queue -> aios with its flag (in_incoming_queue, ...)
    tree,       \* timeout_tree, in_timeout_tree
    due,        \* aios of the tree whose cutoff_time has passed
    alive,      \* aios that exist
    action,     \* action_type
    reg,        \* old_input_events, what epoll watches
    ret,        \* ret of the aio that is called back, until the callback has seen it
    pend,       \* aios with an operation whose callback is to come (history)
    want,       \* units a read wants in the cache, or a write has still to send
    rcache,     \* read_cache.len
    rx,         \* units that wait in the socket
    other       \* the other thread: "run", or "touch" before the eventfd

loopVars == <<pc, stage, cur, ret, script, vec, delay>>
baseVars == <<stop_flag, eventfd, other>>
linkVars == <<links, inq>>
timeVars == <<tree, due>>
aioVars  == <<alive, action, reg, pend, want, rcache>>
vars == <<loopVars, baseVars, linkVars, timeVars, aioVars, rx>>

(* in_base_context is set with every operation and cleared by zaio_disable. *)
InContext(n) == action[n] # "none"

Links == [head : [Queue -> Node \cup {None}], tail : [Queue -> Node \cup {None}],
          prev : [Node -> Node \cup {None}], next : [Node -> Node \cup {None}]]

-----------------------------------------------------------------------------
(* The queues: ZMLINK_APPEND, ZMLINK_DETACH and ZMLINK_CONCAT of zc.h       *)

Appended(l, q, n) ==
    LET t == l.tail[q]
    IN  [head |-> IF l.head[q] = None THEN [l.head EXCEPT ![q] = n] ELSE l.head,
         tail |-> [l.tail EXCEPT ![q] = n],
         prev |-> [l.prev EXCEPT ![n] = IF l.head[q] = None THEN None ELSE t],
         next |-> [m \in Node |-> IF m = n THEN None
                                  ELSE IF l.head[q] # None /\ m = t THEN n ELSE l.next[m]]]

Detached(l, q, n) ==
    LET p == l.prev[n]
        x == l.next[n]
    IN  [head |-> IF p = None THEN [l.head EXCEPT ![q] = x] ELSE l.head,
         tail |-> IF x = None THEN [l.tail EXCEPT ![q] = p] ELSE l.tail,
         next |-> IF p = None THEN l.next ELSE [l.next EXCEPT ![p] = x],
         prev |-> IF x = None THEN l.prev ELSE [l.prev EXCEPT ![x] = p]]

(* The model forgets the links of an aio in no queue: the next append sets  *)
(* them before anything reads them.                                         *)
Settled(l, f) ==
    LET in == UNION {f[q] : q \in Queue}
    IN  [l EXCEPT !.prev = [n \in Node |-> IF n \in in THEN @[n] ELSE None],
                  !.next = [n \in Node |-> IF n \in in THEN @[n] ELSE None]]

(* _check_incoming: incoming becomes tmp, extern is put behind it.          *)
Taken(l) ==
    LET h == l.head["incoming"]
        t == l.tail["incoming"]
        g == l.head["extern"]
        both == h # None /\ g # None
    IN  [head |-> [q \in Queue |-> IF q # "tmp" THEN None ELSE IF h = None THEN g ELSE h],
         tail |-> [q \in Queue |-> IF q # "tmp" THEN None
                                   ELSE IF g = None THEN t ELSE l.tail["extern"]],
         next |-> IF both THEN [l.next EXCEPT ![t] = g] ELSE l.next,
         prev |-> IF both THEN [l.prev EXCEPT ![g] = t] ELSE l.prev]

(* What a walk from the head of q comes across: the head and, with any      *)
(* node, the next.                                                          *)
Walk(l, q) ==
    LET Closed(S) == /\ l.head[q] \in S \cup {None}
                     /\ \A n \in S : l.next[n] \in S \cup {None}
    IN  {n \in Node : \A S \in SUBSET Node : Closed(S) => n \in S}

-----------------------------------------------------------------------------

(* zaio_base_create enters the eventfd's aio from outside the loop.         *)
Init ==
    /\ pc = "top" /\ stage = "incoming" /\ cur = None /\ ret = None /\ script = <<>> /\ vec = {}
    /\ delay = FALSE /\ stop_flag = FALSE /\ eventfd = TRUE /\ other = "run"
    /\ links = [head |-> [q \in Queue |-> IF q = "extern" THEN Ev ELSE None],
                tail |-> [q \in Queue |-> IF q = "extern" THEN Ev ELSE None],
                prev |-> [n \in Node |-> None], next |-> [n \in Node |-> None]]
    /\ inq = [q \in Queue |-> IF q = "extern" THEN {Ev} ELSE {}]
    /\ tree = {} /\ due = {}
    /\ alive = Node
    /\ action = [n \in Node |-> IF n = Ev THEN "readable" ELSE "none"]
    /\ reg = [n \in Node |-> {}]
    /\ pend = {}
    /\ want = [n \in Node |-> 0]
    /\ rcache = [n \in Node |-> 0]
    /\ rx = [a \in Aios |-> 0]

-----------------------------------------------------------------------------
(* What a handler of _active_vector does with an aio: it is ready and calls *)
(* back ("go"), waits for events, enters the incoming queue again, or does  *)
(* nothing.  take: it moves what the socket holds into the read cache;      *)
(* drop: it shifts so much out of it; left: what is wanted afterwards.      *)

Outcome(d, r, W, k, w) ==
    [do |-> d, ret |-> r, on |-> W, take |-> FALSE, drop |-> k, left |-> w]

Ready(n, r)   == Outcome("go", r, {}, 0, want[n])
Wait(n, W, w) == Outcome("wait", None, W, 0, w)
Taking(o)     == [o EXCEPT !.take = TRUE]
Nothing(n)    == Outcome("none", None, {}, 0, want[n])

(* _active_read_cint shifts the length out of the cache; it was all that    *)
(* was asked for, or w units of data follow.                                *)
Length(n)     == Outcome("go", "ok", {}, want[n], 0)
Again(n, w)   == Outcome("again", None, {}, want[n], w)

(* The loops over _zaio_io_read, up to the units wanted; then o.  When they *)
(* do not come the call fails, at the end of the stream or with an error,   *)
(* or waits; an event that brought nothing is an error or the end.          *)
Filled(n, st, o) ==
    CASE rcache[n] >= want[n] -> {o}
      [] rcache[n] < want[n] /\ rcache[n] + rx[n] >= want[n] -> {Taking(o)}
      [] rcache[n] + rx[n] < want[n] ->
           {Taking(Ready(n, "error"))}
           \cup (IF st = "epoll" /\ rx[n] = 0 THEN {} ELSE {Taking(Wait(n, {"read"}, want[n]))})

(* ret is -2, or -1 if anything was ever read or written before.            *)
TimedOut(n) == Ready(n, "timeout")

(* _active_readable: an event, or what is cached already.                   *)
Readable(n, st) ==
    {IF rcache[n] > 0 \/ st = "epoll" THEN Ready(n, "ok")
     ELSE IF st = "timeout" THEN TimedOut(n) ELSE Wait(n, {"read"}, 0)}

(* _active_read, _active_readn, _active_read_delimiter                      *)
Reading(n, st) == IF st = "timeout" THEN {TimedOut(n)} ELSE Filled(n, st, Ready(n, "ok"))

(* _active_read_cint: the length alone, or with data to follow, or more     *)
(* bytes than a length has, which stay in the cache.                        *)
ReadingCint(n, st) ==
    IF st = "timeout" THEN {TimedOut(n)}
    ELSE UNION {Filled(n, st, o) :
                  o \in {Length(n), Ready(n, "error")} \cup {Again(n, w) : w \in Wants(n, "data")}}

(* _active_writeable                                                        *)
Writeable(n, st) ==
    {IF st = "timeout" THEN TimedOut(n)
     ELSE IF st = "epoll" THEN Ready(n, "ok") ELSE Wait(n, {"write"}, 0)}

(* What may be left when the kernel took only a part: after an event it     *)
(* took something.                                                          *)
Unsent(n, st) == 1 .. (IF st = "epoll" THEN want[n] - 1 ELSE want[n])

(* _active_writen                                                           *)
Writing(n, st) ==
    IF st = "timeout" THEN {TimedOut(n)}
    ELSE IF want[n] = 0 THEN {Ready(n, "ok")}
    ELSE {Ready(n, "ok"), Ready(n, "error")} \cup {Wait(n, {"write"}, w) : w \in Unsent(n, st)}

(* _active_tls_connect, _active_tls_accept                                  *)
Handshaking(n, st) ==
    IF st = "timeout" THEN {Ready(n, "error")}
    ELSE {Ready(n, "ok"), Ready(n, "error"), Wait(n, {"read"}, 0), Wait(n, {"write"}, 0)}

(* _active_sleep; 0 seconds are over when the loop sees them.               *)
Sleeping(n, st) ==
    {IF st = "timeout" \/ (st = "incoming" /\ action[n] = "sleep0") THEN Ready(n, "ok")
     ELSE Wait(n, {}, 0)}

(* _zaio_active: the handler of the action in _active_vector.               *)
Outcomes(n, st) ==
    CASE action[n] = "none" -> {Nothing(n)}
      [] action[n] = "readable" -> Readable(n, st)
      [] action[n] = "writeable" -> Writeable(n, st)
      [] action[n] \in {"read", "data"} -> Reading(n, st)
      [] action[n] = "cint" -> ReadingCint(n, st)
      [] action[n] = "writen" -> Writing(n, st)
      [] action[n] = "tls" -> Handshaking(n, st)
      [] action[n] \in {"sleep", "sleep0"} -> Sleeping(n, st)

(* _zaio_event_monitor with monitor_active: the timer.                      *)
ArmedForIo(n, W, T) ==                   \* wrong on purpose: not for a sleep
    IF W # {} /\ n \in Timed THEN T \cup {n} ELSE T
ArmedForSleep(n, W, T) ==                \* wrong on purpose: not for a read or write
    IF action[n] \in {"sleep", "sleep0"} THEN T \cup {n} ELSE T
Armed(n, W, T) ==
    IF action[n] \in {"sleep", "sleep0"} \/ (W # {} /\ n \in Timed) THEN T \cup {n} ELSE T

(* _ready_go_and_return: only readable and writeable stay registered.       *)
KeptAll(n) == reg[n]                     \* wrong on purpose: nothing is cleared
Kept(n) == IF action[n] \in Persistent THEN reg[n] ELSE {}

(* _zaio_enter_incoming in the thread of the loop, on links l and flags f.  *)
Enter(n, l, f) ==
    /\ links' = IF n \in f["incoming"] THEN l ELSE Appended(l, "incoming", n)
    /\ inq' = [f EXCEPT !["incoming"] = @ \cup {n}]

(* One call of _zaio_active for n in stage st, with links l, flags f and    *)
(* tree T as the caller left them.                                          *)
Serve(n, st, l, f, T) ==
    \E o \in Outcomes(n, st) :
      /\ due' = due \ {n}
      /\ rx' = IF o.take THEN [rx EXCEPT ![n] = 0] ELSE rx
      /\ rcache' = [rcache EXCEPT ![n] = @ + (IF o.take THEN rx[n] ELSE 0)
                                           - o.drop]
      /\ want' = [want EXCEPT ![n] = o.left]
      /\ \/ /\ o.do = "go"
            /\ pc' = "cb" /\ cur' = n
            /\ reg' = [reg EXCEPT ![n] = Kept(n)]
            /\ ret' = o.ret
            /\ pend' = pend \ {n}
            /\ links' = l /\ inq' = f /\ tree' = T
            /\ UNCHANGED action
         \/ /\ o.do = "wait"
            /\ reg' = [reg EXCEPT ![n] = o.on]
            /\ tree' = Armed(n, o.on, T)
            /\ links' = l /\ inq' = f
            /\ UNCHANGED <<pc, cur, action, ret, pend>>
         \/ /\ o.do = "again"
            /\ action' = [action EXCEPT ![n] = "data"]
            /\ Enter(n, l, f)
            /\ tree' = T
            /\ UNCHANGED <<pc, cur, reg, ret, pend>>
         \/ /\ o.do = "none"
            /\ links' = l /\ inq' = f /\ tree' = T
            /\ UNCHANGED <<pc, cur, action, reg, ret, pend>>
      /\ UNCHANGED <<stage, script, delay, baseVars, alive>>

-----------------------------------------------------------------------------
(* zaio_base_run                                                            *)

Waiting == links.head["incoming"] # None \/ links.head["extern"] # None

StoppingIdle == stop_flag /\ ~Waiting   \* wrong on purpose: only when nothing waits
Stopping == stop_flag

(* The top of the loop: stop, or _check_incoming up to its last loop.       *)
LoopTop ==
    /\ pc = "top"
    /\ IF Stopping
       THEN pc' = "down" /\ UNCHANGED <<stage, linkVars>>
       ELSE IF Waiting
       THEN LET l == Taken(links)
                W == Walk(l, "tmp")
            IN  /\ pc' = "tmp" /\ stage' = "incoming"
                /\ links' = l
                /\ inq' = [inq EXCEPT !["incoming"] = @ \ W, !["extern"] = @ \ W,
                                      !["tmp"] = @ \cup W]
       ELSE pc' = "timeout" /\ stage' = "timeout" /\ UNCHANGED linkVars
    /\ UNCHANGED <<cur, ret, script, vec, delay, baseVars, timeVars, aioVars, rx>>

ServeIncoming ==
    /\ pc = "tmp"
    /\ links.head["tmp"] # None
    /\ LET n == links.head["tmp"]
           f == [inq EXCEPT !["tmp"] = @ \ {n}]
       IN  Serve(n, "incoming", Settled(Detached(links, "tmp", n), f), f, tree)
    /\ UNCHANGED vec

IncomingDone ==
    /\ pc = "tmp"
    /\ links.head["tmp"] = None
    /\ pc' = "timeout" /\ stage' = "timeout"
    /\ UNCHANGED <<cur, ret, script, vec, delay, baseVars, linkVars, timeVars, aioVars,
                   rx>>

(* _check_timeout: the aio with the earliest cutoff_time, if it has passed. *)
LeftInTree(n) == tree                    \* wrong on purpose: not detached
OutOfTree(n) == tree \ {n}

ServeTimeout(n) ==
    /\ pc = "timeout"
    /\ ~Stopping
    /\ n \in due
    /\ Serve(n, "timeout", links, inq, OutOfTree(n))
    /\ UNCHANGED vec

Blocks == ~Waiting

TimeoutsDone ==
    /\ pc = "timeout"
    /\ Stopping \/ due = {}
    /\ pc' = IF Stopping THEN "down" ELSE "wait"
    /\ delay' = Blocks
    /\ UNCHANGED <<stage, cur, ret, script, vec, baseVars, linkVars, timeVars, aioVars, rx>>

HasEvent(n) == "read" \in reg[n] /\ IF n = Ev THEN eventfd ELSE rx[n] > 0

(* epoll_wait: it returns with what there is, or empty when the delay, a    *)
(* second at most, is over.  Room to write, errors and the end of a stream  *)
(* come when they like.                                                     *)
EpollWait ==
    /\ pc = "wait"
    /\ \E S \in SUBSET {n \in Aios : reg[n] # {}} :
         vec' = {n \in Node : HasEvent(n)} \cup S
    /\ pc' = "vec" /\ stage' = "epoll"
    /\ delay' = FALSE
    /\ UNCHANGED <<cur, ret, script, baseVars, linkVars, timeVars, aioVars, rx>>

ServeEvent(n) ==
    /\ pc = "vec"
    /\ ~Stopping
    /\ n \in vec /\ n \in alive
    /\ vec' = vec \ {n}
    /\ Serve(n, "epoll", links, inq, OutOfTree(n))

(* The event of an aio that a callback before it in the vector has freed:   *)
(* what follows is undefined.  No program that frees only the aio called    *)
(* back gets here.                                                          *)
ServeFreed(n) ==
    /\ pc = "vec"
    /\ ~Stopping
    /\ n \in vec /\ n \notin alive
    /\ pc' = "undefined"
    /\ UNCHANGED <<stage, cur, ret, script, vec, delay, baseVars, linkVars, timeVars, aioVars,
                   rx>>

EventsDone ==
    /\ pc = "vec"
    /\ Stopping \/ vec = {}
    /\ pc' = "top"
    /\ vec' = {}
    /\ UNCHANGED <<stage, cur, ret, script, delay, baseVars, linkVars, timeVars, aioVars, rx>>

(* Where a callback returns to.                                             *)
Caller == CASE stage = "incoming" -> "tmp"
            [] stage = "timeout" -> "timeout"
            [] stage = "epoll" -> "vec"

(* _zaio_base_event_notify_reader, the callback of the eventfd's aio.       *)
EventfdRead ==
    /\ pc = "cb" /\ cur = Ev
    /\ eventfd' = FALSE
    /\ pc' = Caller /\ cur' = None /\ ret' = None
    /\ UNCHANGED <<stage, script, vec, delay, stop_flag, other, linkVars, timeVars, aioVars,
                   rx>>

-----------------------------------------------------------------------------
(* Calls of a callback, the head of the script                              *)

CallIssue(n, op) == [call |-> "issue", aio |-> n, op |-> op]
CallDisable(n)   == [call |-> "disable", aio |-> n]
CallFree(n)      == [call |-> "free", aio |-> n]

Calling(c) == pc = "call" /\ script # <<>> /\ Head(script).call = c /\ script' = Tail(script)

(* want_read_len, or the distance to the delimiter or to the end of the     *)
(* length; for a flush what is in the write cache.                          *)
Wanting(a, op) == IF op \in {"read", "cint", "writen"} THEN Wants(a, op) ELSE {0}

(* zaio_read, zaio_sleep, zaio_cache_flush, ... in the thread of the loop.  *)
Issue ==
    /\ Calling("issue")
    /\ LET n == Head(script).aio
           op == Head(script).op
       IN  /\ action' = [action EXCEPT ![n] = op]
           /\ \E w \in Wanting(n, op) : want' = [want EXCEPT ![n] = w]
           /\ pend' = pend \cup {n}
           /\ Enter(n, links, inq)
    /\ UNCHANGED <<pc, stage, cur, ret, vec, delay, baseVars, timeVars, alive, reg, rcache, rx>>

(* zaio_disable takes n out of wherever its flags say it is.                *)
Left(l, f, n) ==
    LET l1 == IF n \in f["tmp"] THEN Detached(l, "tmp", n) ELSE l
        l2 == IF n \in f["incoming"] THEN Detached(l1, "incoming", n) ELSE l1
    IN  IF n \in f["extern"] THEN Detached(l2, "extern", n) ELSE l2

Disabled(n) ==
    /\ tree' = OutOfTree(n)
    /\ due' = due \ {n}
    /\ inq' = [q \in Queue |-> inq[q] \ {n}]
    /\ links' = Settled(Left(links, inq, n), inq')
    /\ action' = [action EXCEPT ![n] = "none"]
    /\ reg' = [reg EXCEPT ![n] = {}]
    /\ want' = [want EXCEPT ![n] = 0]
    /\ pend' = pend \ {n}

Disable ==
    /\ Calling("disable")
    /\ Disabled(Head(script).aio)
    /\ UNCHANGED <<pc, stage, cur, ret, vec, delay, baseVars, alive, rcache, rx>>

(* zaio_free with close_fd_and_release_ssl: the socket is closed.           *)
Free ==
    /\ Calling("free")
    /\ LET n == Head(script).aio
       IN  /\ Disabled(n)
           /\ alive' = alive \ {n}
           /\ rcache' = [rcache EXCEPT ![n] = 0]
           /\ rx' = [rx EXCEPT ![n] = 0]
    /\ UNCHANGED <<pc, stage, cur, ret, vec, delay, baseVars>>

Return ==
    /\ pc = "call" /\ script = <<>>
    /\ pc' = Caller /\ cur' = None
    /\ UNCHANGED <<stage, ret, script, vec, delay, baseVars, linkVars, timeVars, aioVars, rx>>

Loop ==
    \/ LoopTop \/ ServeIncoming \/ IncomingDone \/ TimeoutsDone \/ EpollWait \/ EventsDone
    \/ \E n \in Node : ServeTimeout(n) \/ ServeEvent(n)
    \/ EventfdRead \/ Issue \/ Disable \/ Free \/ Return

-----------------------------------------------------------------------------
(* The peers and the clock, as long as it matters                           *)

Up == pc \notin {"down", "undefined"}

Arrive(a) ==
    /\ Up /\ a \in alive /\ rx[a] < MaxRx
    /\ rx' = [rx EXCEPT ![a] = @ + 1]
    /\ UNCHANGED <<loopVars, baseVars, linkVars, timeVars, aioVars>>

Expire(a) ==
    /\ Up /\ a \in tree \ due
    /\ due' = due \cup {a}
    /\ UNCHANGED <<loopVars, baseVars, linkVars, tree, aioVars, rx>>

Environment == \E a \in Aios : Arrive(a) \/ Expire(a)

-----------------------------------------------------------------------------
(* Another thread                                                           *)

NoTouch == "run"                         \* wrong on purpose: nobody wakes the loop
ThenTouch == "touch"

(* An operation on an aio that is in no context: _zaio_enter_incoming links *)
(* it under the lock and then touches the base.                             *)
OtherIssue(a, op) ==
    /\ Up /\ other = "run"
    /\ a \in alive /\ ~InContext(a)
    /\ action' = [action EXCEPT ![a] = op]
    /\ \E w \in Wanting(a, op) : want' = [want EXCEPT ![a] = w]
    /\ pend' = pend \cup {a}
    /\ links' = Appended(links, "extern", a)
    /\ inq' = [inq EXCEPT !["extern"] = @ \cup {a}]
    /\ other' = ThenTouch
    /\ UNCHANGED <<loopVars, stop_flag, eventfd, timeVars, alive, reg, rcache, rx>>

(* zaio_base_stop_notify                                                    *)
OtherStop ==
    /\ Up /\ other = "run"
    /\ ~stop_flag
    /\ stop_flag' = TRUE
    /\ other' = ThenTouch
    /\ UNCHANGED <<loopVars, eventfd, linkVars, timeVars, aioVars, rx>>

(* zaio_base_touch                                                          *)
OtherTouch ==
    /\ other = "touch"
    /\ eventfd' = TRUE
    /\ other' = "run"
    /\ UNCHANGED <<loopVars, stop_flag, linkVars, timeVars, aioVars, rx>>

(* zaio_create: a fresh aio on a fresh socket.                              *)
Create(a) ==
    /\ Up
    /\ a \notin alive /\ a \notin vec
    /\ alive' = alive \cup {a}
    /\ UNCHANGED <<loopVars, baseVars, linkVars, timeVars, action, reg, pend, want, rcache, rx>>

-----------------------------------------------------------------------------

TypeOK ==
    /\ pc \in {"top", "tmp", "timeout", "wait", "vec", "cb", "call", "down", "undefined"}
    /\ stage \in {"incoming", "timeout", "epoll"}
    /\ cur \in Node \cup {None}
    /\ vec \subseteq Node /\ alive \subseteq Node /\ pend \subseteq Node
    /\ due \subseteq tree /\ tree \subseteq Node
    /\ delay \in BOOLEAN /\ stop_flag \in BOOLEAN /\ eventfd \in BOOLEAN
    /\ other \in {"run", "touch"}
    /\ links \in Links
    /\ inq \in [Queue -> SUBSET Node]
    /\ action \in [Node -> Action]
    /\ reg \in [Node -> SUBSET Event]
    /\ ret \in {"ok", "error", "timeout", None}
    /\ want \in [Node -> Nat]
    /\ rcache \in [Node -> Nat]
    /\ rx \in [Aios -> 0..MaxRx]

(* rbnode_time is one node: an aio is in one queue or in the tree or in     *)
(* none, a walk over a queue finds exactly the aios that carry its flag,    *)
(* and none of them has been freed.                                         *)
LinkedOnce ==
    /\ \A q \in Queue : Walk(links, q) = inq[q]
    /\ \A q, r \in Queue : q # r => inq[q] \cap inq[r] = {}
    /\ \A q \in Queue : inq[q] \cap tree = {}
    /\ tree \cup UNION {inq[q] : q \in Queue} \subseteq alive

(* An operation whose callback is still to come is where the loop finds it: *)
(* in a queue it can walk, in the timeout tree or in epoll.                 *)
Found ==
    \A n \in pend : \/ \E q \in Queue : n \in Walk(links, q)
                    \/ n \in tree
                    \/ reg[n] # {}

(* Only readable and writeable call back more than once.                    *)
CompletesOnce ==
    [][\A a \in Aios : pc # "cb" /\ pc' = "cb" /\ cur' = a =>
          a \in pend \/ action[a] \in Persistent]_vars

(* epoll_wait never blocks over an aio that another thread has handed over, *)
(* or over a stop, without the eventfd to wake it: the queue is linked      *)
(* before the eventfd is written, and read after it.                        *)
NoLostTouch ==
    pc = "wait" /\ delay /\ other = "run" /\ (links.head["extern"] # None \/ stop_flag)
      => HasEvent(Ev)
=============================================================================
