----------------------------- MODULE ThreadPool -----------------------------
(***************************************************************************)
(* The thread pool of src/src/pthread/pool.c: worker threads that share a  *)
(* job queue and a timer tree under one mutex, are created on demand and   *)
(* leave when they have been idle for too long.                            *)
(*                                                                         *)
(* Every region between POOL_INNER_LOCK and POOL_INNER_UNLOCK is one       *)
(* action, except the end of _pool_worker_run_fini, where a worker that    *)
(* has already given up its place still holds the mutex (pc = "unlock").   *)
(* The flags that are read without the mutex (soft_stop_flag, the loop     *)
(* test of _pool_worker_run, the tests of zpthread_pool_job and            *)
(* zpthread_pool_timer) are read in steps of their own.                    *)
(***************************************************************************)
EXTENDS Integers, Sequences, FiniteSets

CONSTANTS
    Workers,        \* identities of threads; one that has ended is used again
    Jobs,           \* calls of zpthread_pool_job
    Timers,         \* calls of zpthread_pool_timer
    MinCount,       \* ptp->min_count
    MaxCount,       \* ptp->max_count
    IdleTimeout,    \* ptp->idle_timeout, in seconds
    MaxDelay,       \* bound on a timer's delay, in seconds
    NoTask          \* a worker without a task

(***************************************************************************)
(* zpthread_pool_create and zpthread_pool_set_min_max_count leave          *)
(* min_count >= 0 and max_count >= 1, with no order between them, and      *)
(* zpthread_pool_set_idle_timeout keeps idle_timeout >= 1.  Thread         *)
(* identities never run out (CountBound shows how many are needed).        *)
(***************************************************************************)
ASSUME PoolAssumption ==
    /\ MinCount \in Nat
    /\ MaxCount \in Nat \ {0}
    /\ IdleTimeout \in Nat \ {0}
    /\ MaxDelay \in Nat
    /\ IsFiniteSet(Workers)
    /\ Jobs \cap Timers = {}
    /\ NoTask \notin Jobs \cup Timers

VARIABLES
    data_node_queue,    \* zmqueue_t, with queue_length as its length
    timeout_tree,       \* pending timer -> seconds left, 0 when it is due
    current_count,
    idle_count,
    first_worker_flag,
    timeout_flag,       \* the pool's flag, which nothing ever sets
    soft_stop_flag,
    zvar_sigint_flag,
    pc,                 \* where each worker is
    first_worker,       \* workers whose node has first_worker_flag
    timed_out,          \* workers whose node has timeout_flag
    entering,           \* workers whose node has enter_flag_for_idle
    waited,             \* seconds since curstamp of a worker's current get
    task,               \* dnode: what a worker has taken
    start_i,            \* the loop counter of zpthread_pool_start
    call,               \* progress of each zpthread_pool_job/timer call
    runs,               \* how often each callback has been called (history)
    early,              \* a job came before zpthread_pool_start ended (history)
    owner               \* progress of zpthread_pool_wait_all_stopped

poolVars  == <<data_node_queue, timeout_tree, current_count, idle_count>>
flagVars  == <<first_worker_flag, timeout_flag, soft_stop_flag, zvar_sigint_flag>>
nodeVars  == <<first_worker, timed_out, entering, waited>>
workVars  == <<pc, first_worker, timed_out, entering, waited, task>>
callVars  == <<start_i, call, runs, early, owner>>
vars == <<data_node_queue, timeout_tree, current_count, idle_count,
          first_worker_flag, timeout_flag, soft_stop_flag, zvar_sigint_flag,
          pc, first_worker, timed_out, entering, waited, task, start_i, call, runs, early, owner>>

Tasks == Jobs \cup Timers

PCs == {"none", "init", "loop", "enter", "wait", "run", "fini", "unlock"}

TypeOK ==
    /\ data_node_queue \in Seq(Jobs)
    /\ timeout_tree \in [Timers -> -1 .. MaxDelay]
    /\ current_count \in Int
    /\ idle_count \in Int
    /\ first_worker_flag \in BOOLEAN
    /\ timeout_flag \in BOOLEAN
    /\ soft_stop_flag \in BOOLEAN
    /\ zvar_sigint_flag \in BOOLEAN
    /\ pc \in [Workers -> PCs]
    /\ first_worker \subseteq Workers
    /\ timed_out \subseteq Workers
    /\ entering \subseteq Workers
    /\ waited \in [Workers -> 0 .. IdleTimeout + 1]
    /\ task \in [Workers -> Tasks \cup {NoTask}]
    /\ start_i \in 0 .. MinCount
    /\ call \in [Tasks -> {"new", "checked", "given", "late", "dropped", "inline"}]
    /\ runs \in [Tasks -> Nat]
    /\ early \in BOOLEAN
    /\ owner \in {"using", "waiting", "stopped", "gaveup"}

Init ==
    /\ data_node_queue = <<>>
    /\ timeout_tree = [t \in Timers |-> -1]
    /\ current_count = 0
    /\ idle_count = 0
    /\ first_worker_flag = FALSE
    /\ timeout_flag = FALSE
    /\ soft_stop_flag = FALSE
    /\ zvar_sigint_flag = FALSE
    /\ pc = [w \in Workers |-> "none"]
    /\ first_worker = {}
    /\ timed_out = {}
    /\ entering = {}
    /\ waited = [w \in Workers |-> 0]
    /\ task = [w \in Workers |-> NoTask]
    /\ start_i = 0
    /\ call = [x \in Tasks |-> "new"]
    /\ runs = [x \in Tasks |-> 0]
    /\ early = FALSE
    /\ owner = "using"

-----------------------------------------------------------------------------

Stopping == zvar_sigint_flag \/ soft_stop_flag

(* Only a worker at the end of its fini holds the mutex across a step. *)
MutexFree == \A w \in Workers : pc[w] # "unlock"

Pending(t) == timeout_tree[t] >= 0

DueTwice(t) == timeout_tree[t] <= 0                 \* wrong on purpose: a taken timer too
Due(t) == timeout_tree[t] = 0

Live  == {w \in Workers : pc[w] \notin {"none", "unlock"}}

(* zpthread_pool_start, one round of its loop: counted first, then created. *)
StartOne ==
    /\ MutexFree
    /\ owner = "using"
    /\ start_i < MinCount
    /\ start_i' = start_i + 1
    /\ idle_count' = idle_count + 1
    /\ current_count' = current_count + 1
    /\ \E w \in Workers : pc[w] = "none" /\ pc' = [pc EXCEPT ![w] = "init"]
    /\ UNCHANGED <<data_node_queue, timeout_tree, flagVars, nodeVars, task,
                   call, runs, early, owner>>

(* _pool_worker_run_init: the first worker of all marks itself. *)
WorkerInit(w) ==
    /\ MutexFree
    /\ pc[w] = "init"
    /\ pc' = [pc EXCEPT ![w] = "loop"]
    /\ entering' = entering \cup {w}
    /\ first_worker' = IF first_worker_flag THEN first_worker ELSE first_worker \cup {w}
    /\ first_worker_flag' = TRUE
    /\ UNCHANGED <<poolVars, timeout_flag, soft_stop_flag, zvar_sigint_flag,
                   timed_out, waited, task, callVars>>

(* The loop test of _pool_worker_run, without the mutex. *)
WorkerLoop(w) ==
    /\ pc[w] = "loop"
    /\ pc' = [pc EXCEPT ![w] =
                 IF Stopping \/ w \in timed_out THEN "fini" ELSE "enter"]
    /\ waited' = [waited EXCEPT ![w] = 0]
    /\ UNCHANGED <<poolVars, flagVars, first_worker, timed_out, entering,
                   task, callVars>>

(* Wrong on purpose: a wait without a time limit that only a job ends, and  *)
(* one that a job or a due timer ends but the stop does not.                *)
InGetNoStop(w) ==
    MutexFree /\ (pc[w] = "enter" \/ (pc[w] = "wait" /\ ~Stopping))

(* _pool_worker_run_get holds the mutex: on entry, or woken from the wait.  *)
InGet(w) == MutexFree /\ pc[w] \in {"enter", "wait"}

(* idle_count after the entry of _pool_worker_run_get: a worker counts      *)
(* itself idle, except the first time, when its creator has done so.        *)
IdleOnEntryTwice(w) == idle_count + (IF pc[w] = "enter" THEN 1 ELSE 0)  \* wrong on purpose
IdleOnEntry(w) ==
    IF pc[w] = "enter" /\ w \notin entering
    THEN idle_count + 1 ELSE idle_count

(* A due timer comes before any job; it wakes no other thread, creates none *)
(* and does not look at the queue.                                          *)
GetTimer(w) ==
    /\ InGet(w)
    /\ ~Stopping
    /\ \E t \in Timers :
          /\ Due(t)
          /\ timeout_tree' = [timeout_tree EXCEPT ![t] = -1]
          /\ task' = [task EXCEPT ![w] = t]
    /\ idle_count' = IdleOnEntry(w) - 1
    /\ pc' = [pc EXCEPT ![w] = "run"]
    /\ entering' = entering \ {w}
    /\ UNCHANGED <<data_node_queue, current_count, flagVars, first_worker,
                   timed_out, waited, callVars>>

(* Wrong on purpose: one thread too many, and one idle worker too few.      *)
NeedCreateOver(length, idle) == length > 0 /\ idle < 1 /\ current_count <= MaxCount
NeedCreateLate(length, idle) == length > 0 /\ idle < 0 /\ current_count < MaxCount

NeedCreate(length, idle) == length > 0 /\ idle < 1 /\ current_count < MaxCount

(* The head of the queue; when it was the last idle worker that took it and *)
(* more jobs wait, one more thread is counted and created.                  *)
GetJob(w) ==
    /\ InGet(w)
    /\ ~Stopping
    /\ \A t \in Timers : ~Due(t)
    /\ data_node_queue # <<>>
    /\ task' = [task EXCEPT ![w] = Head(data_node_queue)]
    /\ data_node_queue' = Tail(data_node_queue)
    /\ entering' = entering \ {w}
    /\ IF NeedCreate(Len(data_node_queue) - 1, IdleOnEntry(w) - 1)
       THEN /\ idle_count' = IdleOnEntry(w)
            /\ current_count' = current_count + 1
            /\ \E v \in Workers :
                  /\ pc[v] = "none"
                  /\ pc' = [pc EXCEPT ![w] = "run", ![v] = "init"]
       ELSE /\ idle_count' = IdleOnEntry(w) - 1
            /\ pc' = [pc EXCEPT ![w] = "run"]
            /\ UNCHANGED current_count
    /\ UNCHANGED <<timeout_tree, flagVars, first_worker, timed_out, waited, callVars>>

(* Wrong on purpose: the first worker may leave as well.                    *)
IdleTooLongFirst(w) ==
    /\ ~timeout_flag
    /\ MinCount # MaxCount
    /\ current_count > MinCount
    /\ waited[w] > IdleTimeout

(* The five nested tests before the wait.                                   *)
IdleTooLong(w) ==
    /\ ~timeout_flag
    /\ w \notin first_worker
    /\ MinCount # MaxCount
    /\ current_count > MinCount
    /\ waited[w] > IdleTimeout

(* The worker decides to leave; it is still counted, as idle, until fini.   *)
GetIdleTimeout(w) ==
    /\ InGet(w)
    /\ ~Stopping
    /\ \A t \in Timers : ~Due(t)
    /\ data_node_queue = <<>>
    /\ IdleTooLong(w)
    /\ idle_count' = IdleOnEntry(w)
    /\ pc' = [pc EXCEPT ![w] = "loop"]
    /\ entering' = entering \ {w}
    /\ timed_out' = timed_out \cup {w}
    /\ UNCHANGED <<data_node_queue, timeout_tree, current_count, flagVars,
                   first_worker, waited, task, callVars>>

(* pthread_cond_timedwait, of at most a second: a signal, the timeout and a *)
(* spurious wake-up all lead to the next round of the same loop, so from    *)
(* "wait" this is a step that changes nothing.                              *)
GetWait(w) ==
    /\ InGet(w)
    /\ pc[w] = "enter"
    /\ ~Stopping
    /\ \A t \in Timers : ~Due(t)
    /\ data_node_queue = <<>>
    /\ ~IdleTooLong(w)
    /\ idle_count' = IdleOnEntry(w)
    /\ pc' = [pc EXCEPT ![w] = "wait"]
    /\ entering' = entering \ {w}
    /\ UNCHANGED <<data_node_queue, timeout_tree, current_count, flagVars,
                   first_worker, timed_out, waited, task, callVars>>

(* The pool stops: return without a task, still counted idle.               *)
GetStopped(w) ==
    /\ InGet(w)
    /\ Stopping
    /\ idle_count' = IdleOnEntry(w)
    /\ pc' = [pc EXCEPT ![w] = "loop"]
    /\ entering' = entering \ {w}
    /\ UNCHANGED <<data_node_queue, timeout_tree, current_count, flagVars,
                   first_worker, timed_out, waited, task, callVars>>

(* dnode.fn(dnode.ctx) *)
RunTask(w) ==
    /\ pc[w] = "run"
    /\ pc' = [pc EXCEPT ![w] = "loop"]
    /\ task' = [task EXCEPT ![w] = NoTask]
    /\ runs' = [runs EXCEPT ![task[w]] = @ + 1]
    /\ UNCHANGED <<poolVars, flagVars, nodeVars, start_i, call, early, owner>>

(* Wrong on purpose: a worker that timed out keeps its place.               *)
CountAfterFiniKept(w) == IF w \in timed_out THEN current_count ELSE current_count - 1

CountAfterFini(w) == current_count - 1

(* _pool_worker_run_fini up to the unlock *)
WorkerFini(w) ==
    /\ MutexFree
    /\ pc[w] = "fini"
    /\ pc' = [pc EXCEPT ![w] = "unlock"]
    /\ idle_count' = idle_count - 1
    /\ current_count' = CountAfterFini(w)
    /\ timeout_flag' = IF w \in timed_out THEN FALSE ELSE timeout_flag
    /\ first_worker' = first_worker \ {w}
    /\ timed_out' = timed_out \ {w}
    /\ entering' = entering \ {w}
    /\ waited' = [waited EXCEPT ![w] = 0]
    /\ UNCHANGED <<data_node_queue, timeout_tree, first_worker_flag,
                   soft_stop_flag, zvar_sigint_flag, task, callVars>>

WorkerUnlock(w) ==
    /\ pc[w] = "unlock"
    /\ pc' = [pc EXCEPT ![w] = "none"]
    /\ UNCHANGED <<poolVars, flagVars, nodeVars, task, callVars>>

Worker(w) ==
    \/ WorkerInit(w) \/ WorkerLoop(w)
    \/ GetTimer(w) \/ GetJob(w) \/ GetIdleTimeout(w) \/ GetWait(w) \/ GetStopped(w)
    \/ RunTask(w) \/ WorkerFini(w) \/ WorkerUnlock(w)

-----------------------------------------------------------------------------

(* zpthread_pool_job: the unlocked test; a stopped pool runs it in place.   *)
JobTest(j) ==
    /\ call[j] = "new"
    /\ IF soft_stop_flag
       THEN /\ call' = [call EXCEPT ![j] = "inline"]
            /\ runs' = [runs EXCEPT ![j] = @ + 1]
       ELSE /\ call' = [call EXCEPT ![j] = "checked"]
            /\ UNCHANGED runs
    /\ UNCHANGED <<poolVars, flagVars, workVars, start_i, early, owner>>

(* ... and the locked push, which never looks at the flag again.            *)
JobPush(j) ==
    /\ MutexFree
    /\ call[j] = "checked"
    /\ call' = [call EXCEPT ![j] = IF Stopping THEN "late" ELSE "given"]
    /\ data_node_queue' = Append(data_node_queue, j)
    /\ early' = (early \/ start_i < MinCount)
    /\ IF NeedCreate(Len(data_node_queue) + 1, idle_count)
       THEN /\ idle_count' = idle_count + 1
            /\ current_count' = current_count + 1
            /\ \E w \in Workers : pc[w] = "none" /\ pc' = [pc EXCEPT ![w] = "init"]
       ELSE UNCHANGED <<idle_count, current_count, pc>>
    /\ UNCHANGED <<timeout_tree, flagVars, nodeVars, task, start_i, runs, owner>>

(* zpthread_pool_timer: a stopped pool forgets the timer.                   *)
TimerTest(t) ==
    /\ call[t] = "new"
    /\ call' = [call EXCEPT ![t] = IF soft_stop_flag THEN "dropped" ELSE "checked"]
    /\ UNCHANGED <<poolVars, flagVars, workVars, start_i, runs, early, owner>>

(* ... and the locked attach, with neither a signal nor a new thread.       *)
TimerAttach(t) ==
    /\ MutexFree
    /\ call[t] = "checked"
    /\ call' = [call EXCEPT ![t] = IF Stopping THEN "late" ELSE "given"]
    /\ \E d \in 0 .. MaxDelay : timeout_tree' = [timeout_tree EXCEPT ![t] = d]
    /\ UNCHANGED <<data_node_queue, current_count, idle_count, flagVars,
                   workVars, start_i, runs, early, owner>>

(* zpthread_pool_softstop, with no mutex; the broadcast only hastens waits. *)
SoftStop ==
    /\ ~soft_stop_flag
    /\ soft_stop_flag' = TRUE
    /\ UNCHANGED <<poolVars, first_worker_flag, timeout_flag, zvar_sigint_flag,
                   workVars, callVars>>

(* zpthread_pool_wait_all_stopped: stop, then look at current_count without *)
(* the mutex until it is 0 or max_second is over.                           *)
WaitAllStopped ==
    /\ owner = "using"
    /\ owner' = "waiting"
    /\ soft_stop_flag' = TRUE
    /\ UNCHANGED <<poolVars, first_worker_flag, timeout_flag, zvar_sigint_flag,
                   workVars, start_i, call, runs, early>>

WaitDoneIdle == idle_count < 1                     \* wrong on purpose: the other counter
WaitDone == current_count < 1

WaitReturn ==
    /\ owner = "waiting"
    /\ owner' = IF WaitDone THEN "stopped" ELSE "gaveup"
    /\ UNCHANGED <<poolVars, flagVars, workVars, start_i, call, runs, early>>

(* The process-wide flag its signal handlers set.                           *)
SigInt ==
    /\ ~zvar_sigint_flag
    /\ zvar_sigint_flag' = TRUE
    /\ UNCHANGED <<poolVars, first_worker_flag, timeout_flag, soft_stop_flag,
                   workVars, callVars>>

LeftUnclamped(t) == timeout_tree[t] - 1            \* wrong on purpose
Left(t) == IF timeout_tree[t] > 0 THEN timeout_tree[t] - 1 ELSE timeout_tree[t]

(* A second passes, for the timers and for the workers in their wait.       *)
Tick ==
    /\ timeout_tree' = [t \in Timers |-> Left(t)]
    /\ waited' = [w \in Workers |->
          IF pc[w] = "wait" /\ waited[w] <= IdleTimeout THEN waited[w] + 1 ELSE waited[w]]
    /\ UNCHANGED <<data_node_queue, current_count, idle_count, flagVars,
                   pc, first_worker, timed_out, entering, task, callVars>>

-----------------------------------------------------------------------------

Next ==
    \/ \E w \in Workers : Worker(w)
    \/ \E j \in Jobs : JobTest(j) \/ JobPush(j)
    \/ \E t \in Timers : TimerTest(t) \/ TimerAttach(t)
    \/ StartOne \/ SoftStop \/ WaitAllStopped \/ WaitReturn \/ SigInt \/ Tick

Spec == Init /\ [][Next]_vars

(***************************************************************************)
(* The kernel runs every thread that can run (a worker in its timed wait   *)
(* wakes within a second), a caller that has begun a call finishes it, and *)
(* time passes.  Whether anyone calls the pool, stops it or interrupts it  *)
(* is left open.  Callbacks return: RunTask is a step of the worker.       *)
(***************************************************************************)
Fairness ==
    /\ \A w \in Workers : WF_vars(Worker(w))
    /\ \A j \in Jobs : WF_vars(JobPush(j))
    /\ \A t \in Timers : WF_vars(TimerAttach(t))
    /\ WF_vars(Tick)

FairSpec == Spec /\ Fairness

-----------------------------------------------------------------------------

(* The workers that someone has counted into idle_count.                    *)
CountedIdle ==
    {w \in Workers :
        \/ pc[w] \in {"init", "wait"}
        \/ pc[w] \in {"loop", "enter"} /\ w \in entering
        \/ pc[w] \in {"loop", "fini"} /\ w \in timed_out}

(* current_count, which creators raise before the thread exists and workers *)
(* lower while they leave, is at every moment the number of threads that    *)
(* still have their place: no order of creation, idle timeout and stop      *)
(* makes it drift.                                                          *)
CurrentMatches == current_count = Cardinality(Live)

(* Until the pool is stopped, idle_count is the number of workers that wait *)
(* or are about to: a creator's count, the worker's own on entry and the    *)
(* two decrements never count one worker twice.  (A worker that finds the   *)
(* pool stopped right after a task lowers it once more than it raised it.)  *)
IdleMatches == ~Stopping => idle_count = Cardinality(CountedIdle)

LargerCount == IF MinCount > MaxCount THEN MinCount ELSE MaxCount

(* zpthread_pool_start counts without looking at max_count, so threads      *)
(* number at most the larger of min_count and max_count when jobs come only *)
(* after it, and at most the sum of both whatever the callers do.           *)
CountBound ==
    /\ current_count <= MaxCount + MinCount
    /\ ~early => current_count <= LargerCount

(* Every callback is in exactly one place from the moment its call took the *)
(* lock: in the queue (or the tree), in the hands of one worker, or called  *)
(* once.                                                                    *)
TaskOnce ==
    \A x \in Tasks :
        LET queued == Cardinality({i \in DOMAIN data_node_queue : data_node_queue[i] = x})
            armed  == IF x \in Timers /\ timeout_tree[x] >= 0 THEN 1 ELSE 0
            held   == Cardinality({w \in Workers : task[w] = x})
        IN  queued + armed + held + runs[x] =
                IF call[x] \in {"new", "checked", "dropped"} THEN 0 ELSE 1

(* When zpthread_pool_wait_all_stopped has seen current_count at 0, no      *)
(* worker will lock the mutex again (at most one is about to unlock it),    *)
(* unless a job slipped in between its unlocked test and its push.          *)
AllStopped ==
    owner = "stopped" =>
        \/ \A w \in Workers : pc[w] \in {"none", "unlock"}
        \/ \E j \in Jobs : call[j] = "late"

(* A queued job has an idle worker to take it, or no thread may be added.   *)
Served ==
    data_node_queue = <<>> \/ idle_count >= 1 \/ current_count >= MaxCount

(* While the pool runs only two steps leave a queued job with neither an    *)
(* idle worker nor a new thread: a worker that takes a timer, and a worker  *)
(* that had already timed out and now leaves.  No other step does.          *)
ServedUnlessTimerOrLeave ==
    [][Served /\ ~Served' =>
          \/ Stopping'
          \/ \E w \in Workers : task[w] = NoTask /\ task'[w] \in Timers
          \/ \E w \in timed_out : pc[w] = "fini" /\ pc'[w] = "unlock"]_vars

(* A job pushed into a running pool is called, unless the pool is stopped;  *)
(* so is a timer once the pool has any thread: nothing creates one for it.  *)
TaskServed ==
    /\ \A j \in Jobs : call[j] = "given" ~> runs[j] = 1 \/ Stopping
    /\ \A t \in Timers : Pending(t) /\ Live # {} ~> runs[t] = 1 \/ Stopping

(* A stopped pool loses all its threads.                                    *)
StopDrains == Stopping ~> current_count = 0

=============================================================================
