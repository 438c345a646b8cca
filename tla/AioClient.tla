----------------------------- MODULE AioClient -----------------------------
(***************************************************************************)
(* A program over Aio that keeps to the rules of doc/aio.md: a callback    *)
(* operates its own aio, or one that is in no context; it frees its own    *)
(* only; another thread operates an aio after zaio_disable.                *)
(***************************************************************************)
EXTENDS Aio

CONSTANTS
    Ops(_),     \* operations the program uses on an aio
    Careful     \* does it disable a registered aio before another operation?

ASSUME ClientAssumption ==
    /\ \A a \in Aios : Ops(a) \subseteq Action \ {"none", "data"}
    /\ Careful \in BOOLEAN

(* An aio may come back from readable or writeable still registered.  By a  *)
(* timeout, or with data from the cache, epoll may then report it before    *)
(* the loop sees what it was told to do next; and after an event too, if    *)
(* that is zaio_get_cint_and_data, which enters the queue a second time.    *)
Overtaken(a, op) == reg[a] # {} /\ op # action[a] /\ (stage # "epoll" \/ op = "cint")

MayIssue(a) == {op \in Ops(a) : Careful => ~Overtaken(a, op)}

Scripts(a) ==
    {<<>>, <<CallDisable(a)>>, <<CallFree(a)>>}
    \cup {<<CallIssue(a, op)>> : op \in MayIssue(a)}
    \cup {<<CallDisable(a), CallIssue(a, op)>> : op \in Ops(a)}
    \cup UNION {{<<CallIssue(b, op)>> : op \in Ops(b)} : b \in {c \in alive : ~InContext(c)}}

(* What stays in the cache when a callback takes what it was given.         *)
Untaken(a) ==
    CASE action[a] = "readable" -> 0
      [] action[a] \in {"read", "data"} /\ want[a] <= rcache[a] -> rcache[a] - want[a]
      [] OTHER -> rcache[a]

(* The callback takes what it was given out of the cache, or reads the      *)
(* socket itself, and decides what to call.                                 *)
Callback(a) ==
    /\ pc = "cb" /\ cur = a
    /\ \E s \in Scripts(a) : script' = s
    /\ pc' = "call" /\ ret' = None
    /\ rcache' = [rcache EXCEPT ![a] = IF ret = "ok" THEN Untaken(a) ELSE @]
    /\ want' = [want EXCEPT ![a] = 0]
    /\ rx' = IF ret = "ok" /\ action[a] = "readable" /\ rcache[a] = 0
             THEN [rx EXCEPT ![a] = 0] ELSE rx
    /\ UNCHANGED <<stage, cur, vec, delay, baseVars, linkVars, timeVars, alive, action, reg, pend>>

(* The program's own synchronisation: no two threads operate one aio.       *)
Unclaimed(a) == \A i \in DOMAIN script : script[i].aio # a

Client == \E a \in Aios : Callback(a)

Next ==
    \/ Loop \/ Client \/ Environment
    \/ \E a \in Aios : Create(a) \/ \E op \in Ops(a) : Unclaimed(a) /\ OtherIssue(a, op)
    \/ OtherStop \/ OtherTouch

Spec == Init /\ [][Next]_vars

(* The loop's thread runs and its callbacks return, deadlines pass, and the *)
(* other thread does not stop between linking an aio and the eventfd.       *)
Fairness ==
    /\ WF_vars(Loop) /\ WF_vars(Client) /\ WF_vars(OtherTouch)
    /\ \A a \in Aios : WF_vars(Expire(a))

FairSpec == Spec /\ Fairness

(* Every operation with a timeout, and every sleep, calls back unless the   *)
(* loop is stopped, whatever the peers and the other aios do: each event    *)
(* that brings too little sets the timer anew, but an operation wants so    *)
(* many units and no more.  (Not so the TLS handshake, whose messages the   *)
(* engine does not count.)                                                  *)
Ends(a) == action[a] # "tls" /\ (a \in Timed \/ action[a] \in {"sleep", "sleep0"})

OpCompletes ==
    \A a \in Aios : a \in pend /\ Ends(a) ~> a \notin pend \/ stop_flag

(* zaio_base_stop_notify ends the loop: "导致 zaio_base_run 返回".          *)
LoopStops == stop_flag ~> pc = "down"
=============================================================================
