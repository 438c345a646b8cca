------------------------------- MODULE Master --------------------------------
(***************************************************************************)
(* The master process (master/master_server.c): it keeps the listening     *)
(* sockets, starts as many processes of every configured service as its    *)
(* server-proc-count says, replaces the ones that end, and on SIGHUP reads *)
(* the configuration again.  The processes are those of Service.           *)
(*                                                                         *)
(* A configuration gives every service name its addresses (the list of     *)
(* server-service) and its limit; a name with an empty list has no file,   *)
(* or a file that prepare_server_by_config passes over.  The freshly       *)
(* allocated server_info_t of a reload are told from the freed ones by the *)
(* generation: a child that has a server started in an older generation    *)
(* would have a pointer to freed memory.  Of time the model keeps whether  *)
(* starting is put off for a service and the age of a child that ends,     *)
(* which may be anything.                                                  *)
(***************************************************************************)
EXTENDS Service, FiniteSets, Sequences, SequencesExt, TLC

CONSTANTS Names, Uris, Configs,
          MaxGen,   \* bound on the number of reloads
          None

Config == [Names -> [uris : Seq(Uris), limit : Nat]]

ASSUME MasterAssumption ==
    /\ IsFiniteSet(Procs)
    /\ Configs \subseteq Config
    /\ MaxGen \in Nat \ {0}
    /\ None \notin Names

VARIABLES
    phase,        \* where zmaster_server_main is
    flag_reload, flag_stop,   \* set by the signal handlers
    edited,       \* the configuration files were changed after they were read
    loaded,       \* what server_info_vec was made from
    gen,          \* how often reload_server has renewed the master's pipe
    count,        \* server_info_t.proc_count
    throttled,    \* stamp_next_start is still to come
    todo,         \* the addresses of each file that reload_config has not come to yet
    listens,      \* listen_pair_map: the generation that opened the socket, 0 for none
    used,         \* the addresses whose listen_pair_t.used is set
    given,        \* server_info_t.listens
    children,     \* child_status_map
    server,       \* child_status_t.server
    uris          \* child_status_t.uri_argv

listenVars == <<todo, listens, used, given>>
childVars == <<children, server, uris>>
masterVars == <<phase, flag_reload, flag_stop, edited, loaded, gen, count, throttled,
                listenVars, childVars>>
vars == <<masterVars, procVars>>

(* What the files of a configuration ask for.                               *)
Wanted(c, s) == ToSet(c[s].uris)
AllWanted(c) == UNION {Wanted(c, s) : s \in Names}
Limit(c, s) == IF c[s].uris = <<>> THEN 0 ELSE c[s].limit

Empty == [s \in Names |-> [uris |-> <<>>, limit |-> 0]]

Init ==
    /\ phase = "init"
    /\ flag_reload = FALSE /\ flag_stop = FALSE
    /\ edited = TRUE
    /\ loaded = Empty
    /\ gen = 0
    /\ count = [s \in Names |-> 0]
    /\ throttled = [s \in Names |-> FALSE]
    /\ todo = [s \in Names |-> <<>>]
    /\ listens = [u \in Uris |-> 0]
    /\ used = {}
    /\ given = [s \in Names |-> {}]
    /\ children = {}
    /\ server = [p \in Procs |-> None]
    /\ uris = [p \in Procs |-> {}]
    /\ ServiceInitState
-----------------------------------------------------------------------------
(* reload_server.                                                           *)

(* What reload_config may find in the files.                                *)
Readable(c) == c = loaded \/ (edited /\ c \in Configs)

SetUnusedNot == used                     \* wrong on purpose: the flags stay

(* set_listen_unused.                                                       *)
SetUnused == {}

(* The pipe is renewed, remove_server frees the services, set_listen_unused *)
(* clears the flags and the files are read; what they say is put into       *)
(* effect afterwards, file by file.                                         *)
ReloadServer(c) ==
    /\ phase \in {"init", "reload"}
    /\ Readable(c)
    /\ phase' = IF phase = "init" THEN "initprep" ELSE "prep"
    /\ gen' = gen + 1
    /\ loaded' = c /\ edited' = FALSE
    /\ count' = [s \in Names |-> 0]
    /\ throttled' = [s \in Names |-> FALSE]
    /\ todo' = [s \in Names |-> c[s].uris]
    /\ used' = SetUnused
    /\ given' = [s \in Names |-> {}]
    /\ UNCHANGED <<flag_reload, flag_stop, listens, childVars, procVars>>

Preparing == phase \in {"initprep", "prep"}

(* reload_config walks the files one after the other.                       *)
Turn(s) ==
    /\ Preparing /\ todo[s] # <<>>
    /\ \A t \in Names \ {s} : todo[t] \in {<<>>, loaded[t].uris}

(* An address that is in listen_pair_map keeps its socket.                  *)
Opened(u) == IF listens[u] # 0 THEN listens[u] ELSE gen

MarkedOpened(u) ==                       \* wrong on purpose: only when it is opened
    IF listens[u] # 0 THEN used ELSE used \cup {u}

Marked(u) == used \cup {u}

(* prepare_server_by_config, one address of the service.                    *)
PrepareListen(s) ==
    LET u == Head(todo[s]) IN
    /\ Turn(s) /\ u \notin used
    /\ todo' = [todo EXCEPT ![s] = Tail(todo[s])]
    /\ listens' = [listens EXCEPT ![u] = Opened(u)]
    /\ used' = Marked(u)
    /\ given' = [given EXCEPT ![s] = given[s] \cup {u}]
    /\ UNCHANGED <<phase, flag_reload, flag_stop, edited, loaded, gen, count, throttled,
                   childVars, procVars>>

(* remove_old_child: a child none of whose addresses is listened to any     *)
(* more is told to terminate...                                             *)
Unwanted(p, open) == p \in children /\ \A u \in uris[p] : u \notin open

ForgottenNot == [p \in Procs |-> server[p]]   \* wrong on purpose: pointer kept

(* ...and no child keeps its pointer to the freed server_info_t.            *)
Forgotten == [p \in Procs |-> None]

(* release_unused_listen.                                                   *)
Released(u) == IF u \in used THEN listens[u] ELSE 0

(* All files are dealt with: release_unused_listen and remove_old_child.    *)
ReleaseUnused ==
    LET open == {u \in Uris : Released(u) # 0} IN
    /\ Preparing /\ \A s \in Names : todo[s] = <<>>
    /\ phase' = IF phase = "initprep" THEN "initstart" ELSE "start"
    /\ listens' = [u \in Uris |-> Released(u)]
    /\ server' = Forgotten
    /\ term' = [p \in Procs |-> term[p] \/ (Alive(p) /\ Unwanted(p, open))]
    /\ UNCHANGED <<flag_reload, flag_stop, edited, loaded, gen, count, throttled, todo, used,
                   given, children, uris, state, pipe, soft, timer, detach>>

(* The master's memory goes with it, and the kernel closes its sockets.     *)
ExitMaster ==
    /\ phase' = "gone"
    /\ flag_reload' = FALSE /\ flag_stop' = FALSE /\ edited' = FALSE
    /\ loaded' = Empty
    /\ count' = [s \in Names |-> 0]
    /\ throttled' = [s \in Names |-> FALSE]
    /\ todo' = [s \in Names |-> <<>>]
    /\ listens' = [u \in Uris |-> 0]
    /\ used' = {}
    /\ given' = [s \in Names |-> {}]
    /\ children' = {}
    /\ server' = [p \in Procs |-> None]
    /\ uris' = [p \in Procs |-> {}]
    /\ UNCHANGED gen

(* zfatal: no pipe, or no directory to read.                                *)
ReloadFatal ==
    /\ phase \in {"init", "reload"}
    /\ ExitMaster
    /\ UNCHANGED procVars

(* zfatal for one file: a path that is not there or an address that is too  *)
(* long, comes twice or cannot be opened.                                   *)
PrepareFatal(s) ==
    /\ Turn(s)
    /\ ExitMaster
    /\ UNCHANGED procVars
-----------------------------------------------------------------------------
(* start_all_child.                                                         *)

MayStartUnder(s, n) == count[s] + n < Limit(loaded, s)   \* wrong on purpose: one short

(* A number of forks that start_one_child may make: it looks at proc_count  *)
(* itself.                                                                  *)
MayStart(s, n) == count[s] + n <= Limit(loaded, s)

Free == {p \in Procs : state[p] = "dead" /\ p \notin children}

FlagAfterStartCleared == FALSE               \* wrong on purpose: cleared after, not before

(* zmaster_server_main clears the flag once more after the first reload.    *)
FlagAfterStart == IF phase = "initstart" THEN FALSE ELSE flag_reload

(* fork gives process p to service f[p]; a fork that fails starts nobody.   *)
Forked(f, s) == {p \in Free : f[p] = s}
Started(f) == {p \in Free : f[p] # None}

(* What server_info_start_all lets happen in one round of start_all_child.  *)
(* A round that comes within 100 ms of the last starts nobody.              *)
Round(f) ==
    /\ phase \in {"initstart", "start"}
    /\ \A s \in Names :
          Forked(f, s) # {} =>
              /\ ~throttled[s]
              /\ MayStart(s, Cardinality(Forked(f, s)))

(* The child's side of the forks.                                           *)
Fork(f) ==
    /\ state' = [p \in Procs |-> IF p \in Started(f) THEN "forked" ELSE state[p]]
    /\ pipe' = [p \in Procs |-> IF p \in Started(f) THEN gen ELSE pipe[p]]
    /\ UNCHANGED <<soft, timer, detach, term>>

StartAllChild(f) ==
    /\ Round(f) /\ Fork(f)
    /\ phase' = "run"
    /\ flag_reload' = FlagAfterStart
    /\ count' = [s \in Names |-> count[s] + Cardinality(Forked(f, s))]
    /\ children' = children \cup Started(f)
    /\ server' = [p \in Procs |-> IF p \in Started(f) THEN f[p] ELSE server[p]]
    /\ uris' = [p \in Procs |-> IF p \in Started(f) THEN given[f[p]] ELSE uris[p]]
    /\ UNCHANGED <<flag_stop, edited, loaded, gen, throttled, listenVars>>

(* zfatal: the pipe for one child more than those of f cannot be made.      *)
StartFatal(f) ==
    /\ Round(f) /\ Fork(f)
    /\ \E s \in Names : ~throttled[s] /\ MayStart(s, Cardinality(Forked(f, s)) + 1)
    /\ ExitMaster

Starts == [Free -> Names \cup {None}]

(* No fork fails: whoever may be started is, as far as there are processes. *)
StartsAll(f) ==
    \/ \A p \in Free : f[p] # None
    \/ \A s \in Names : throttled[s] \/ count[s] + Cardinality(Forked(f, s)) >= Limit(loaded, s)
-----------------------------------------------------------------------------
(* zmaster_server_main_loop and the events of the master's loop.            *)

LoopReload ==
    /\ phase = "run" /\ ~flag_stop /\ flag_reload
    /\ phase' = "reload"
    /\ flag_reload' = FALSE
    /\ UNCHANGED <<flag_stop, edited, loaded, gen, count, throttled, listenVars,
                   childVars, procVars>>

(* Nothing to reload; a signal may come before start_all_child is done.     *)
LoopStart ==
    /\ phase = "run" /\ ~flag_stop /\ ~flag_reload
    /\ phase' = "start"
    /\ UNCHANGED <<flag_reload, flag_stop, edited, loaded, gen, count, throttled, listenVars,
                   childVars, procVars>>

StopSeenIdle == flag_stop /\ ~flag_reload    \* wrong on purpose: reload comes first

(* zmaster_server_main_loop looks at flag_stop first.                       *)
StopSeen == flag_stop

(* flag_stop ends the loop; fini_all closes every socket, so remove_old_child *)
(* kills every child.  What nothing looks at after the loop is dropped.     *)
LoopStop ==
    /\ phase = "run" /\ StopSeen
    /\ phase' = "fini"
    /\ flag_reload' = FALSE /\ edited' = FALSE
    /\ loaded' = Empty
    /\ count' = [s \in Names |-> 0]
    /\ throttled' = [s \in Names |-> FALSE]
    /\ listens' = [u \in Uris |-> 0]
    /\ used' = SetUnused
    /\ given' = [s \in Names |-> {}]
    /\ server' = Forgotten
    /\ term' = [p \in Procs |-> term[p] \/ (Alive(p) /\ Unwanted(p, {}))]
    /\ UNCHANGED <<flag_stop, gen, todo, children, uris, state, pipe, soft, timer, detach>>

MasterExit ==
    /\ phase = "fini"
    /\ ExitMaster
    /\ UNCHANGED procVars

RemainingFor(p) == {q \in children : server[q] # server[p]}   \* wrong on purpose: key of the service

(* zmap_delete by the status descriptor, which is the child's own.          *)
Remaining(p) == children \ {p}

(* child_strike: the pipe of a child is ready.  A service whose child ended *)
(* young is started again only later; one that lived long is forgiven.      *)
CountAfterStrike(s) == count[s] - 1

(* a is the time since child_status_t.stamp: below 100 ms, above 1000 ms or *)
(* in between.                                                              *)
Ages == {"young", "middle", "old"}
ThrottledAfterStrike(s, a) == a = "young" \/ (a = "middle" /\ throttled[s])

ChildStrike(p, a) ==
    /\ phase = "run" /\ p \in children /\ StatusClosed(p)
    /\ IF server[p] = None
       THEN UNCHANGED <<count, throttled>>
       ELSE /\ count' = [count EXCEPT ![server[p]] = CountAfterStrike(server[p])]
            /\ throttled' = [throttled EXCEPT ![server[p]] = ThrottledAfterStrike(server[p], a)]
    /\ children' = Remaining(p)
    /\ server' = [server EXCEPT ![p] = None]
    /\ uris' = [uris EXCEPT ![p] = {}]
    /\ UNCHANGED <<phase, flag_reload, flag_stop, edited, loaded, gen, listenVars,
                   procVars>>
-----------------------------------------------------------------------------
(* Signals, files and time.  Signals and changes that nothing looks at any  *)
(* more, after the loop, after a SIGTERM or after the last reload within    *)
(* MaxGen, are left out.                                                    *)
Ended == phase \in {"fini", "gone"}

Sighup ==
    /\ ~Ended /\ ~flag_stop /\ ~flag_reload /\ gen < MaxGen
    /\ flag_reload' = TRUE
    /\ UNCHANGED <<phase, flag_stop, edited, loaded, gen, count, throttled, listenVars,
                   childVars, procVars>>

Sigterm ==
    /\ ~Ended /\ ~flag_stop
    /\ flag_stop' = TRUE
    /\ UNCHANGED <<phase, flag_reload, edited, loaded, gen, count, throttled, listenVars,
                   childVars, procVars>>

EditConfig ==
    /\ ~Ended /\ ~flag_stop /\ ~edited /\ gen < MaxGen
    /\ edited' = TRUE
    /\ UNCHANGED <<phase, flag_reload, flag_stop, loaded, gen, count, throttled, listenVars,
                   childVars, procVars>>

Permit(s) ==
    /\ throttled[s]
    /\ throttled' = [throttled EXCEPT ![s] = FALSE]
    /\ UNCHANGED <<phase, flag_reload, flag_stop, edited, loaded, gen, count, listenVars,
                   childVars, procVars>>
-----------------------------------------------------------------------------
Gone == phase = "gone"

PipeClosedGone(p) == Gone                    \* wrong on purpose: pipe not renewed

(* The read end of the pipe a process watches is closed by the next reload  *)
(* or by the end of the master.                                             *)
PipeClosed(p) == Gone \/ pipe[p] # gen

Process(p) ==
    /\ \/ ServiceInit(p, Gone)
       \/ OnMasterSoftstop(p, PipeClosed(p))
       \/ StopNow(p)
       \/ MainLoopOrphan(p, Gone)
       \/ MainLoopDetach(p)
       \/ Signalled(p, Gone)
       \/ SigtermLost(p)
    /\ UNCHANGED masterVars

Application(p) ==
    /\ \/ StopNotify(p)
       \/ DetachFromMaster(p)
       \/ Crash(p)
    /\ UNCHANGED masterVars

Next ==
    \/ \E c \in Configs \cup {Empty} : ReloadServer(c)
    \/ \E s \in Names : PrepareListen(s) \/ PrepareFatal(s)
    \/ ReloadFatal \/ ReleaseUnused
    \/ LoopReload \/ LoopStart \/ LoopStop \/ MasterExit
    \/ \E f \in Starts : StartAllChild(f) \/ StartFatal(f)
    \/ \E p \in Procs : Process(p) \/ Application(p) \/ \E a \in Ages : ChildStrike(p, a)
    \/ EditConfig \/ Sighup \/ Sigterm
    \/ \E s \in Names : Permit(s)

Spec == Init /\ [][Next]_vars

(* The master and the processes run, timers come due and signals arrive;    *)
(* fork does not fail for ever, nor is every round within 100 ms of the     *)
(* last.  Every turn of the loop asks epoll for the pipes that are ready,   *)
(* so a child that ended is struck in the end.                              *)
Fairness ==
    /\ WF_vars(\/ \E c \in Configs \cup {Empty} : ReloadServer(c)
               \/ \E s \in Names : PrepareListen(s) \/ PrepareFatal(s)
               \/ ReleaseUnused
               \/ LoopReload \/ LoopStart \/ LoopStop \/ MasterExit)
    /\ WF_vars(\E f \in Starts : StartAllChild(f))
    /\ SF_vars(\E f \in Starts : StartsAll(f) /\ StartAllChild(f))
    /\ \A s \in Names : WF_vars(Permit(s))
    /\ \A p \in Procs : WF_vars(Process(p)) /\ SF_vars(\E a \in Ages : ChildStrike(p, a))

FairSpec == Spec /\ Fairness
-----------------------------------------------------------------------------
(* Types, and the counters within what the bounds allow.                    *)
TypeOK ==
    /\ ServiceTypeOK
    /\ phase \in {"init", "initprep", "initstart", "run", "reload", "prep", "start", "fini", "gone"}
    /\ flag_reload \in BOOLEAN /\ flag_stop \in BOOLEAN
    /\ edited \in BOOLEAN /\ loaded \in Configs \cup {Empty}
    /\ gen \in Nat
    /\ count \in [Names -> Nat]
    /\ throttled \in [Names -> BOOLEAN]
    /\ todo \in [Names -> Seq(Uris)]
    /\ listens \in [Uris -> Nat]
    /\ used \in SUBSET Uris
    /\ given \in [Names -> SUBSET Uris]
    /\ children \in SUBSET Procs
    /\ server \in [Procs -> Names \cup {None}]
    /\ uris \in [Procs -> SUBSET Uris]

(* A running process of the present generation that has not detached itself *)
(* is in child_status_map with its service.                                    *)
NoneUncounted ==
    \A p \in Procs :
        Alive(p) /\ ~StatusClosed(p) /\ pipe[p] = gen /\ ~Ended
            => p \in children /\ server[p] # None

(* proc_count is the number of children that belong to the service, through *)
(* forks, strikes and reloads, never above the service's limit, and no      *)
(* running process escapes it: a drift would leave a service without        *)
(* processes or flood the machine.  While a reload prepares the services    *)
(* the children still have the freed ones.                                  *)
CountMatches ==
    /\ NoneUncounted
    /\ \A s \in Names :
          /\ Preparing \/ count[s] = Cardinality({p \in children : server[p] = s})
          /\ count[s] <= Limit(loaded, s)

(* A child's server pointer is never left from before a reload when the     *)
(* loop runs again: child_strike would write to freed memory.               *)
NoDangling ==
    \A p \in Procs :
        ~Preparing /\ server[p] # None =>
            /\ p \in children
            /\ uris[p] = Wanted(loaded, server[p])
            /\ Alive(p) => pipe[p] = gen

(* listen_pair_t.used is set for exactly the addresses that the services of *)
(* this configuration were given, so that "open twice" means what it says,  *)
(* no address goes to two services, and after the reload the open sockets   *)
(* are those of the configuration: none is leaked and none is missing.      *)
ListenExact ==
    /\ used = UNION {given[s] : s \in Names}
    /\ \A s, t \in Names : s # t => given[s] \cap given[t] = {}
    /\ Preparing \/ /\ \A s \in Names : given[s] = Wanted(loaded, s)
                    /\ {u \in Uris : listens[u] # 0} = AllWanted(loaded)

(* From the reading of the files to the next, an open socket that the files *)
(* still ask for is the same socket: connections that wait on it survive a  *)
(* reload, also one that gives the address to another service.              *)
SocketKept ==
    [][\A u \in Uris :
          listens[u] # 0 /\ u \in AllWanted(loaded') /\ ~Ended' => listens'[u] = listens[u]]_vars

(* A process of an older generation comes to its end: it is told by the     *)
(* pipe even when remove_old_child leaves it alone.                         *)
OldDrain ==
    \A p \in Procs : (Alive(p) /\ pipe[p] # gen) ~> ~(Alive(p) /\ pipe[p] # gen)

(* After a SIGTERM, in whatever step the master is, it and all processes    *)
(* come to their end: those killed, those detached, and one that was forked *)
(* just before and has not asked for the death signal yet.                  *)
StopEnds == flag_stop ~> (Gone /\ \A p \in Procs : ~Alive(p))

(* When processes stop ending and nobody interferes, every service gets all *)
(* its processes, through throttling and failed forks.                      *)
Disturbance ==
    \/ Sighup \/ Sigterm
    \/ \E p \in Procs : Application(p)
Filled ==
    <>[][~Disturbance]_vars =>
        <>[](Gone \/ \A s \in Names : count[s] = Limit(loaded, s))

(* A SIGHUP that comes while the loop runs is not lost: files that were     *)
(* changed before it are read.                                              *)
Heard == ~edited \/ flag_stop \/ Gone
ReloadApplied ==
    (phase \in {"run", "reload", "prep", "start"} /\ flag_reload /\ edited) ~> Heard

(* What general_master.sh promises of its reload command as soon as the pid *)
(* file is locked: the system is refreshed.                                 *)
ReloadNeverLost == (flag_reload /\ edited) ~> Heard
=============================================================================
