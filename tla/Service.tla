------------------------------- MODULE Service -------------------------------
(***************************************************************************)
(* A service process under the master (master/aio_server.c), as far as the *)
(* master can tell: it starts, learns over a pipe that the master reloads  *)
(* or is gone, drains and ends, or detaches itself from the master.        *)
(*                                                                         *)
(* The master keeps the read end of one pipe for all processes of a        *)
(* generation and closes it when it reloads; a process watches the write   *)
(* end (zvar_master_server_status_fd).  In the other direction a process   *)
(* keeps the read end of a pipe of its own (zvar_aio_server_status_fd) and *)
(* the master watches the write end: it becomes ready when the process     *)
(* ends or closes its end.  coroutine_server.c has the same protocol, with *)
(* coroutines in the place of the event loop's timers.                     *)
(*                                                                         *)
(* flag_stop makes zaio_server_main_loop end the loop at its next turn.    *)
(* Nothing the process does in between reaches the master, so setting the  *)
(* flag and ending are one step here.                                      *)
(***************************************************************************)
EXTENDS Integers

CONSTANT Procs

VARIABLES
    state,    \* "dead", "forked" (before zaio_server_init), "serving"
    pipe,     \* the generation of the master's pipe that the process holds
    soft,     \* flag_softstop
    timer,    \* a stop_now timer is running
    detach,   \* "no", "asked" (flag_detach_from_master), "dealt" (detach_dealed)
    term      \* a SIGTERM is on its way

procVars == <<state, pipe, soft, timer, detach, term>>

ServiceInitState ==
    /\ state = [p \in Procs |-> "dead"]
    /\ pipe = [p \in Procs |-> 0]
    /\ soft = [p \in Procs |-> FALSE]
    /\ timer = [p \in Procs |-> FALSE]
    /\ detach = [p \in Procs |-> "no"]
    /\ term = [p \in Procs |-> FALSE]

Alive(p) == state[p] # "dead"

(* The process's end of its own pipe is closed: the master's end is ready.  *)
StatusClosed(p) == state[p] = "dead" \/ detach[p] = "dealt"

(* The process ends, however: the kernel closes what it held.               *)
Die(p) ==
    /\ state' = [state EXCEPT ![p] = "dead"]
    /\ pipe' = [pipe EXCEPT ![p] = 0]
    /\ soft' = [soft EXCEPT ![p] = FALSE]
    /\ timer' = [timer EXCEPT ![p] = FALSE]
    /\ detach' = [detach EXCEPT ![p] = "no"]
    /\ term' = [term EXCEPT ![p] = FALSE]

(* zaio_server_init: a process whose master is gone before it asked for the *)
(* death signal finds itself a child of process 1 and exits.                *)
ServiceInit(p, orphan) ==
    /\ state[p] = "forked"
    /\ IF orphan
       THEN Die(p)
       ELSE /\ state' = [state EXCEPT ![p] = "serving"]
            /\ UNCHANGED <<pipe, soft, timer, detach, term>>

(* on_master_softstop: the master closed its end of the generation's pipe.  *)
(* A process that has detached only stops accepting; another stops at once  *)
(* or when server-stop-on-softstop-after has passed.                        *)
OnMasterSoftstop(p, closed) ==
    /\ state[p] = "serving" /\ ~soft[p] /\ closed
    /\ \/ /\ soft' = [soft EXCEPT ![p] = TRUE]
          /\ timer' = [timer EXCEPT ![p] = timer[p] \/ detach[p] = "no"]
          /\ UNCHANGED <<state, pipe, detach, term>>
       \/ /\ detach[p] = "no"
          /\ Die(p)

(* stop_now, when a timer is due.                                           *)
StopNow(p) == timer[p] /\ Die(p)

(* zaio_server_stop_notify, called by the application.                      *)
StopNotify(p) ==
    /\ state[p] = "serving"
    /\ \/ Die(p)
       \/ /\ timer' = [timer EXCEPT ![p] = TRUE]
          /\ UNCHANGED <<state, pipe, soft, detach, term>>

(* zaio_server_detach_from_master, called by the application.               *)
DetachFromMaster(p) ==
    /\ state[p] = "serving" /\ detach[p] = "no"
    /\ detach' = [detach EXCEPT ![p] = "asked"]
    /\ UNCHANGED <<state, pipe, soft, timer, term>>

(* zaio_server_main_loop: a process whose parent has changed ends.          *)
MainLoopOrphan(p, orphan) == state[p] = "serving" /\ orphan /\ Die(p)

(* zaio_server_main_loop, the detaching: close the status pipe, so that the *)
(* master takes the process for ended, and arrange to stop later.           *)
MainLoopDetach(p) ==
    /\ state[p] = "serving"
    /\ detach[p] = "asked"
    /\ detach' = [detach EXCEPT ![p] = "dealt"]
    /\ timer' = [timer EXCEPT ![p] = TRUE]
    /\ UNCHANGED <<state, pipe, soft, term>>

(* The default action of SIGTERM, and of the SIGHUP that the kernel sends   *)
(* when the parent is gone (PR_SET_PDEATHSIG, set in zaio_server_init).     *)
Signalled(p, orphan) ==
    /\ \/ Alive(p) /\ term[p]
       \/ state[p] = "serving" /\ orphan
    /\ Die(p)

(* Until it calls execvp a child has the handler of the master, which sets  *)
(* a flag that execvp throws away: the SIGTERM has no effect.               *)
SigtermLost(p) ==
    /\ state[p] = "forked" /\ term[p]
    /\ term' = [term EXCEPT ![p] = FALSE]
    /\ UNCHANGED <<state, pipe, soft, timer, detach>>

(* A process may end by itself at any time, in the exec already.            *)
Crash(p) == Alive(p) /\ Die(p)

ServiceTypeOK ==
    /\ state \in [Procs -> {"dead", "forked", "serving"}]
    /\ pipe \in [Procs -> Nat]
    /\ soft \in [Procs -> BOOLEAN]
    /\ timer \in [Procs -> BOOLEAN]
    /\ detach \in [Procs -> {"no", "asked", "dealt"}]
    /\ term \in [Procs -> BOOLEAN]
=============================================================================
