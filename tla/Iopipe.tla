------------------------------- MODULE Iopipe -------------------------------
(***************************************************************************)
(* The pipe between two aios, src/src/event/iopope.c, over Aio: what one   *)
(* side reads is put in the write cache of the other and flushed, and only *)
(* then both are read again.  When a side fails both are freed.            *)
(***************************************************************************)
EXTENDS Aio

CONSTANTS
    Clients,    \* the aios given as client; the others are their servers
    Partner(_)  \* pair->server of a client, pair->client of a server: its own inverse

VARIABLE cb     \* aio -> its callback, _begin_read or _after_read

PipeInit == Init /\ cb = [a \in Aios |-> None]

ClientOf(a) == IF a \in Clients THEN a ELSE Partner(a)

(* zaio_iopipe_enter, from another thread: the loop starts with the client. *)
PipeEnter(c) ==
    /\ c \in Clients
    /\ cb[c] = None
    /\ OtherIssue(c, "sleep0")
    /\ cb' = [cb EXCEPT ![c] = "_begin_read"]

CalledBack(a, f) == pc = "cb" /\ cur = a /\ cb[a] = f

(* The rest of a callback is calls of the engine.                           *)
Calls(s) ==
    /\ script' = s
    /\ pc' = "call" /\ ret' = None
    /\ want' = [want EXCEPT ![cur] = 0]
    /\ UNCHANGED <<stage, cur, vec, delay, baseVars, linkVars, timeVars, alive, action, reg,
                   pend, rx>>

(* _release_pair frees both; after_close is the caller's.                   *)
ReleasePair(a) ==
    /\ \E f \in {"_begin_read", "_after_read"} : CalledBack(a, f)
    /\ ret # "ok"
    /\ Calls(<<CallFree(ClientOf(a)), CallFree(Partner(ClientOf(a)))>>)
    /\ UNCHANGED <<cb, rcache>>

BeginRead(a) ==
    /\ CalledBack(a, "_begin_read")
    /\ ret = "ok"
    /\ LET c == ClientOf(a)
       IN  /\ cb' = [cb EXCEPT ![c] = "_after_read", ![Partner(c)] = "_after_read"]
           /\ Calls(<<CallIssue(c, "read"), CallIssue(Partner(c), "read")>>)
    /\ UNCHANGED rcache

AfterRead(a) ==
    /\ CalledBack(a, "_after_read")
    /\ ret = "ok"
    /\ rcache' = [rcache EXCEPT ![a] = 0]
    /\ cb' = [cb EXCEPT ![Partner(a)] = "_begin_read"]
    /\ Calls(<<CallDisable(a), CallIssue(Partner(a), "writen")>>)

PipeNext ==
    \/ Loop /\ UNCHANGED cb
    \/ Environment /\ UNCHANGED cb
    \/ OtherTouch /\ UNCHANGED cb
    \/ \E a \in Aios : ServeFreed(a) /\ UNCHANGED cb
    \/ \E a \in Aios : PipeEnter(a) \/ ReleasePair(a) \/ BeginRead(a) \/ AfterRead(a)

PipeSpec == PipeInit /\ [][PipeNext]_<<vars, cb>>
=============================================================================
