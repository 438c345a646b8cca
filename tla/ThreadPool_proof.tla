-------------------------- MODULE ThreadPool_proof --------------------------
(* Theorems about the thread pool for every number of workers, jobs and     *)
(* timers and every min_count, max_count and idle_timeout.                  *)
EXTENDS ThreadPool, Occurrences

(* TypeOK without the range of task, as the invariant of the induction: a   *)
(* worker that runs has a task.                                             *)
RunHasTask == \A w \in Workers : pc[w] = "run" => task[w] \in Tasks

TypeInv == TypeOK /\ RunHasTask

LEMMA TypeInit == Init => TypeInv
<1> SUFFICES ASSUME Init PROVE TypeInv
  OBVIOUS
<1> USE PoolAssumption DEF Init, PCs, Tasks
<1>1. /\ first_worker_flag \in BOOLEAN /\ timeout_flag \in BOOLEAN
      /\ soft_stop_flag \in BOOLEAN /\ zvar_sigint_flag \in BOOLEAN /\ early \in BOOLEAN
  BY Zenon
<1> QED
  BY <1>1 DEF TypeInv, TypeOK, RunHasTask

LEMMA TypeStep == TypeInv /\ [Next]_vars => TypeInv'
<1> SUFFICES ASSUME TypeInv, [Next]_vars PROVE TypeInv'
  OBVIOUS
<1> USE PoolAssumption DEF TypeInv, TypeOK, RunHasTask, poolVars, flagVars, workVars,
        callVars, nodeVars, PCs, Tasks
<1>1. ASSUME NEW w \in Workers, WorkerInit(w) PROVE TypeInv'
  BY <1>1 DEF WorkerInit
<1>2. ASSUME NEW w \in Workers, WorkerLoop(w) PROVE TypeInv'
  BY <1>2 DEF WorkerLoop
<1>3. ASSUME NEW w \in Workers, GetTimer(w) PROVE TypeInv'
  BY <1>3 DEF GetTimer, IdleOnEntry
<1>4. ASSUME NEW w \in Workers, GetJob(w) PROVE TypeInv'
<2>1. data_node_queue' \in Seq(Jobs) /\ Head(data_node_queue) \in Jobs
  BY <1>4 DEF GetJob
<2>2. task' \in [Workers -> Tasks \cup {NoTask}]
  BY <1>4, <2>1 DEF GetJob
<2>3. idle_count' \in Int /\ current_count' \in Int
  BY <1>4 DEF GetJob, IdleOnEntry
<2>4. pc' \in [Workers -> PCs] /\ RunHasTask'
  <3>1. task' = [task EXCEPT ![w] = Head(data_node_queue)]
    BY <1>4 DEF GetJob
  <3>2. CASE \E v \in Workers : pc' = [pc EXCEPT ![w] = "run", ![v] = "init"]
    BY <2>1, <3>1, <3>2
  <3>3. CASE pc' = [pc EXCEPT ![w] = "run"]
    BY <2>1, <3>1, <3>3
  <3> QED BY <1>4, <3>2, <3>3 DEF GetJob
<2> QED
  BY <1>4, <2>1, <2>2, <2>3, <2>4 DEF GetJob
<1>5. ASSUME NEW w \in Workers, GetIdleTimeout(w) PROVE TypeInv'
  BY <1>5 DEF GetIdleTimeout, IdleOnEntry
<1>6. ASSUME NEW w \in Workers, GetWait(w) PROVE TypeInv'
  BY <1>6 DEF GetWait, IdleOnEntry
<1>7. ASSUME NEW w \in Workers, GetStopped(w) PROVE TypeInv'
  BY <1>7 DEF GetStopped, IdleOnEntry
<1>8. ASSUME NEW w \in Workers, RunTask(w) PROVE TypeInv'
  BY <1>8 DEF RunTask
<1>9. ASSUME NEW w \in Workers, WorkerFini(w) PROVE TypeInv'
<2>1. timeout_flag' \in BOOLEAN
  BY <1>9, Zenon DEF WorkerFini
<2>2. pc' \in [Workers -> PCs] /\ RunHasTask'
  BY <1>9 DEF WorkerFini
<2>3. idle_count' \in Int /\ current_count' \in Int
  BY <1>9 DEF WorkerFini, CountAfterFini
<2>4. /\ first_worker' \subseteq Workers /\ timed_out' \subseteq Workers
      /\ entering' \subseteq Workers /\ waited' \in [Workers -> 0 .. IdleTimeout + 1]
  BY <1>9 DEF WorkerFini
<2>5. UNCHANGED <<data_node_queue, timeout_tree, first_worker_flag,
                   soft_stop_flag, zvar_sigint_flag, task, callVars>>
  BY <1>9 DEF WorkerFini
<2> QED
  BY <2>1, <2>2, <2>3, <2>4, <2>5
<1>10. ASSUME NEW w \in Workers, WorkerUnlock(w) PROVE TypeInv'
  BY <1>10 DEF WorkerUnlock
<1>11. ASSUME NEW j \in Jobs, JobTest(j) PROVE TypeInv'
<2>1. runs' \in [Tasks -> Nat]
  <3>1. CASE soft_stop_flag
    <4>1. runs' = [runs EXCEPT ![j] = @ + 1]
      BY <1>11, <3>1, Zenon DEF JobTest
    <4> QED BY <4>1
  <3>2. CASE ~soft_stop_flag
    BY <1>11, <3>2 DEF JobTest
  <3> QED BY <3>1, <3>2
<2>2. call' \in [Tasks -> {"new", "checked", "given", "late", "dropped", "inline"}]
  BY <1>11 DEF JobTest
<2> QED
  BY <1>11, <2>1, <2>2 DEF JobTest
<1>12. ASSUME NEW j \in Jobs, JobPush(j) PROVE TypeInv'
<2>1. early' \in BOOLEAN
  BY <1>12, Zenon DEF JobPush
<2>2. data_node_queue' \in Seq(Jobs) /\ call' \in [Tasks -> {"new", "checked", "given", "late", "dropped", "inline"}]
  BY <1>12 DEF JobPush
<2>3. pc' \in [Workers -> PCs] /\ RunHasTask' /\ idle_count' \in Int /\ current_count' \in Int
  <3> DEFINE create == NeedCreate(Len(data_node_queue) + 1, idle_count)
  <3>1. CASE create
    <4>1. PICK w \in Workers : pc[w] = "none" /\ pc' = [pc EXCEPT ![w] = "init"]
      BY <1>12, <3>1, Zenon DEF JobPush
    <4>2. idle_count' = idle_count + 1 /\ current_count' = current_count + 1 /\ task' = task
      BY <1>12, <3>1, Zenon DEF JobPush
    <4> QED BY <4>1, <4>2
  <3>2. CASE ~create
    <4>1. idle_count' = idle_count /\ current_count' = current_count /\ task' = task /\ pc' = pc
      BY <1>12, <3>2, Zenon DEF JobPush
    <4> QED BY <4>1
  <3> QED BY <3>1, <3>2
<2>4. UNCHANGED <<timeout_tree, flagVars, nodeVars, task, start_i, runs, owner>>
  BY <1>12 DEF JobPush
<2> QED
  BY <2>1, <2>2, <2>3, <2>4
<1>13. ASSUME NEW t \in Timers, TimerTest(t) PROVE TypeInv'
  BY <1>13 DEF TimerTest
<1>14. ASSUME NEW t \in Timers, TimerAttach(t) PROVE TypeInv'
  BY <1>14 DEF TimerAttach
<1>15. CASE StartOne
  BY <1>15 DEF StartOne
<1>16. CASE SoftStop
  BY <1>16 DEF SoftStop
<1>17. CASE WaitAllStopped
  BY <1>17 DEF WaitAllStopped
<1>18. CASE WaitReturn
  BY <1>18 DEF WaitReturn
<1>19. CASE SigInt
  BY <1>19 DEF SigInt
<1>20. CASE Tick
  BY <1>20 DEF Tick, Left
<1>21. CASE UNCHANGED vars
  BY <1>21 DEF vars
<1> QED
  BY <1>1, <1>2, <1>3, <1>4, <1>5, <1>6, <1>7, <1>8, <1>9, <1>10, <1>11, <1>12,
     <1>13, <1>14, <1>15, <1>16, <1>17, <1>18, <1>19, <1>20, <1>21 DEF Next, Worker

(* Type correctness of the pool: counters stay integers, a worker always    *)
(* has a legal node and a task of the pool or none.                         *)
THEOREM TypeCorrect == Spec => []TypeOK
<1>1. TypeInv => TypeOK
  BY DEF TypeInv
<1> QED
  BY TypeInit, TypeStep, <1>1, PTL DEF Spec

-----------------------------------------------------------------------------
(***************************************************************************)
(* The counter and the threads.  A step leaves both alone, creates one     *)
(* thread, or lets one go.                                                 *)
(***************************************************************************)
Same   == Live' = Live /\ current_count' = current_count
Grown  == \E v \in Workers \ Live : Live' = Live \cup {v} /\ current_count' = current_count + 1
Shrunk == \E w \in Live : Live' = Live \ {w} /\ current_count' = current_count - 1

LEMMA LiveStep == ASSUME TypeInv, [Next]_vars PROVE Same \/ Grown \/ Shrunk
<1>0. pc \in [Workers -> PCs]
  BY DEF TypeInv, TypeOK
<1> USE <1>0 DEF PCs, Live
<1>1. ASSUME NEW w \in Workers, NEW to \in PCs, pc[w] \notin {"none", "unlock"},
             to \notin {"none", "unlock"}, pc' = [pc EXCEPT ![w] = to]
      PROVE  Live' = Live
  BY <1>1
<1>2. ASSUME NEW v \in Workers, pc[v] = "none", pc' = [pc EXCEPT ![v] = "init"],
             current_count' = current_count + 1
      PROVE  Grown
  <2>1. v \in Workers \ Live /\ Live' = Live \cup {v}
    BY <1>2
  <2> QED BY <1>2, <2>1 DEF Grown
<1>3. ASSUME NEW w \in Workers, WorkerInit(w) PROVE Same
  BY <1>1, <1>3 DEF WorkerInit, Same, poolVars
<1>4. ASSUME NEW w \in Workers, WorkerLoop(w) PROVE Same
  <2>1. PICK to \in {"fini", "enter"} : pc' = [pc EXCEPT ![w] = to]
    BY <1>4 DEF WorkerLoop
  <2> QED BY <1>1, <1>4, <2>1 DEF WorkerLoop, Same, poolVars
<1>5. ASSUME NEW w \in Workers, GetTimer(w) \/ GetIdleTimeout(w) \/ GetWait(w) \/ GetStopped(w)
      PROVE  Same
  <2>1. PICK to \in {"run", "loop", "wait"} : pc' = [pc EXCEPT ![w] = to]
    BY <1>5 DEF GetTimer, GetIdleTimeout, GetWait, GetStopped
  <2>2. current_count' = current_count /\ pc[w] \in {"enter", "wait"}
    BY <1>5 DEF GetTimer, GetIdleTimeout, GetWait, GetStopped, InGet
  <2> QED BY <1>1, <2>1, <2>2 DEF Same
<1>6. ASSUME NEW w \in Workers, GetJob(w) PROVE Same \/ Grown
  <2>1. pc[w] \in {"enter", "wait"}
    BY <1>6 DEF GetJob, InGet
  <2>2. CASE NeedCreate(Len(data_node_queue) - 1, IdleOnEntry(w) - 1)
    <3>1. PICK v \in Workers : pc[v] = "none" /\ pc' = [pc EXCEPT ![w] = "run", ![v] = "init"]
      BY <1>6, <2>2 DEF GetJob
    <3>2. current_count' = current_count + 1
      BY <1>6, <2>2 DEF GetJob
    <3>3. v \in Workers \ Live /\ Live' = Live \cup {v}
      BY <2>1, <3>1
    <3> QED BY <3>2, <3>3 DEF Grown
  <2>3. CASE ~NeedCreate(Len(data_node_queue) - 1, IdleOnEntry(w) - 1)
    <3>1. pc' = [pc EXCEPT ![w] = "run"] /\ current_count' = current_count
      BY <1>6, <2>3 DEF GetJob
    <3> QED BY <1>1, <2>1, <3>1 DEF Same
  <2> QED BY <2>2, <2>3
<1>7. ASSUME NEW w \in Workers, RunTask(w) PROVE Same
  BY <1>1, <1>7 DEF RunTask, Same, poolVars
<1>8. ASSUME NEW w \in Workers, WorkerFini(w) PROVE Shrunk
  <2>1. /\ pc[w] = "fini" /\ pc' = [pc EXCEPT ![w] = "unlock"]
        /\ current_count' = current_count - 1
    BY <1>8 DEF WorkerFini, CountAfterFini
  <2>2. w \in Live /\ Live' = Live \ {w}
    BY <2>1
  <2> QED BY <2>1, <2>2 DEF Shrunk
<1>9. ASSUME NEW w \in Workers, WorkerUnlock(w) PROVE Same
  BY <1>9 DEF WorkerUnlock, Same, poolVars
<1>10. ASSUME NEW j \in Jobs, JobTest(j) PROVE Same
  BY <1>10 DEF JobTest, Same, poolVars, workVars
<1>11. ASSUME NEW j \in Jobs, JobPush(j) PROVE Same \/ Grown
  <2>1. CASE NeedCreate(Len(data_node_queue) + 1, idle_count)
    <3>1. /\ current_count' = current_count + 1
          /\ \E v \in Workers : pc[v] = "none" /\ pc' = [pc EXCEPT ![v] = "init"]
      BY <1>11, <2>1, Zenon DEF JobPush
    <3> QED BY <1>2, <3>1
  <2>2. CASE ~NeedCreate(Len(data_node_queue) + 1, idle_count)
    <3>1. current_count' = current_count /\ pc' = pc
      BY <1>11, <2>2, Zenon DEF JobPush
    <3> QED BY <3>1 DEF Same
  <2> QED BY <2>1, <2>2
<1>12. ASSUME NEW t \in Timers, TimerTest(t) \/ TimerAttach(t) PROVE Same
  BY <1>12 DEF TimerTest, TimerAttach, Same, poolVars, workVars
<1>13. CASE StartOne
  BY <1>2, <1>13 DEF StartOne
<1>14. CASE SoftStop \/ WaitAllStopped \/ WaitReturn \/ SigInt \/ Tick
  BY <1>14 DEF SoftStop, WaitAllStopped, WaitReturn, SigInt, Tick, Same, poolVars, workVars
<1>15. CASE UNCHANGED vars
  BY <1>15 DEF vars, Same
<1> QED
  BY <1>3, <1>4, <1>5, <1>6, <1>7, <1>8, <1>9, <1>10, <1>11, <1>12, <1>13, <1>14, <1>15
     DEF Next, Worker

LEMMA MatchStep ==
  ASSUME TypeInv, CurrentMatches, [Next]_vars PROVE CurrentMatches'
<1>1. IsFiniteSet(Live) /\ Cardinality(Live) \in Nat
  <2>1. Live \subseteq Workers
    BY DEF Live
  <2>2. IsFiniteSet(Live)
    BY <2>1, PoolAssumption, FS_Subset
  <2> QED BY <2>2, FS_CardinalityType
<1>2. CASE Same
  BY <1>2 DEF Same, CurrentMatches
<1>3. CASE Grown
  <2>1. PICK v \in Workers \ Live : Live' = Live \cup {v} /\ current_count' = current_count + 1
    BY <1>3 DEF Grown
  <2>2. Cardinality(Live \cup {v}) = Cardinality(Live) + 1
    BY <1>1, <2>1, FS_AddElement
  <2> QED BY <2>1, <2>2 DEF CurrentMatches
<1>4. CASE Shrunk
  <2>1. PICK w \in Live : Live' = Live \ {w} /\ current_count' = current_count - 1
    BY <1>4 DEF Shrunk
  <2>2. Cardinality(Live \ {w}) = Cardinality(Live) - 1
    BY <1>1, <2>1, FS_RemoveElement
  <2> QED BY <2>1, <2>2 DEF CurrentMatches
<1> QED BY <1>2, <1>3, <1>4, LiveStep

(* current_count never drifts from the number of threads that have their    *)
(* place in the pool, whatever the order of zpthread_pool_start, creation   *)
(* on demand, idle timeouts, stops and _pool_worker_run_fini.               *)
THEOREM CountCorrect == Spec => []CurrentMatches
<1>1. Init => CurrentMatches
  <2> SUFFICES ASSUME Init PROVE CurrentMatches
    OBVIOUS
  <2>1. Live = {}
    BY DEF Init, Live
  <2> QED BY <2>1, FS_EmptySet DEF Init, CurrentMatches
<1>2. TypeInv /\ CurrentMatches /\ [Next]_vars => CurrentMatches'
  BY MatchStep
<1> QED BY <1>1, <1>2, TypeInit, TypeStep, PTL DEF Spec

-----------------------------------------------------------------------------
(***************************************************************************)
(* The bound on the threads.  While zpthread_pool_start has rounds to go   *)
(* and no job came early, the queue is empty and only start has created    *)
(* threads; afterwards creation on demand looks at max_count.              *)
(***************************************************************************)
BoundInv ==
    /\ current_count <= MaxCount + start_i
    /\ ~early /\ start_i < MinCount => data_node_queue = <<>> /\ current_count <= start_i
    /\ ~early => current_count <= LargerCount

LEMMA BoundStep == ASSUME TypeInv, BoundInv, [Next]_vars PROVE BoundInv'
<1>0. /\ current_count \in Int /\ start_i \in 0 .. MinCount /\ data_node_queue \in Seq(Jobs)
      /\ MinCount \in Nat /\ MaxCount \in Nat /\ LargerCount \in Nat
      /\ MinCount <= LargerCount /\ MaxCount <= LargerCount
  BY PoolAssumption DEF TypeInv, TypeOK, LargerCount
<1> USE <1>0 DEF BoundInv
<1>1. ASSUME UNCHANGED <<start_i, early, data_node_queue>>,
             current_count' = current_count \/ current_count' = current_count - 1
      PROVE  BoundInv'
  BY <1>1 DEF LargerCount
<1>2. ASSUME NEW w \in Workers,
             WorkerInit(w) \/ WorkerLoop(w) \/ GetTimer(w) \/ GetIdleTimeout(w) \/ GetWait(w)
             \/ GetStopped(w) \/ RunTask(w) \/ WorkerUnlock(w)
      PROVE  BoundInv'
  <2>1. UNCHANGED <<start_i, early, data_node_queue, current_count>>
    BY <1>2 DEF WorkerInit, WorkerLoop, GetTimer, GetIdleTimeout, GetWait, GetStopped,
                RunTask, WorkerUnlock, poolVars, callVars
  <2> QED BY <1>1, <2>1
<1>3. ASSUME NEW w \in Workers, WorkerFini(w) PROVE BoundInv'
  <2>1. UNCHANGED <<start_i, early, data_node_queue>> /\ current_count' = current_count - 1
    BY <1>3 DEF WorkerFini, CountAfterFini, callVars
  <2> QED BY <1>1, <2>1
<1>4. ASSUME NEW w \in Workers, GetJob(w) PROVE BoundInv'
  <2>1. data_node_queue # <<>> /\ UNCHANGED <<start_i, early>>
    BY <1>4 DEF GetJob, callVars
  <2>2. \/ current_count' = current_count
        \/ current_count' = current_count + 1 /\ current_count < MaxCount
    BY <1>4 DEF GetJob, NeedCreate
  <2> QED BY <2>1, <2>2 DEF LargerCount
<1>5. ASSUME NEW j \in Jobs, JobTest(j) PROVE BoundInv'
  <2>1. UNCHANGED <<start_i, early, data_node_queue, current_count>>
    BY <1>5 DEF JobTest, poolVars
  <2> QED BY <1>1, <2>1
<1>6. ASSUME NEW j \in Jobs, JobPush(j) PROVE BoundInv'
  <2>1. start_i' = start_i /\ (~early' => ~early /\ ~(start_i < MinCount))
    BY <1>6, Zenon DEF JobPush
  <2>2. \/ current_count' = current_count
        \/ current_count' = current_count + 1 /\ current_count < MaxCount
    BY <1>6, Zenon DEF JobPush, NeedCreate
  <2> QED BY <2>1, <2>2 DEF LargerCount
<1>7. ASSUME NEW t \in Timers, TimerTest(t) \/ TimerAttach(t) PROVE BoundInv'
  <2>1. UNCHANGED <<start_i, early, data_node_queue, current_count>>
    BY <1>7 DEF TimerTest, TimerAttach, poolVars
  <2> QED BY <1>1, <2>1
<1>8. CASE StartOne
  <2>1. /\ start_i < MinCount /\ start_i' = start_i + 1 /\ current_count' = current_count + 1
        /\ UNCHANGED <<data_node_queue, early>>
    BY <1>8 DEF StartOne
  <2> QED BY <2>1 DEF LargerCount
<1>9. CASE SoftStop \/ WaitAllStopped \/ WaitReturn \/ SigInt \/ Tick
  <2>1. UNCHANGED <<start_i, early, data_node_queue, current_count>>
    BY <1>9 DEF SoftStop, WaitAllStopped, WaitReturn, SigInt, Tick, poolVars, callVars
  <2> QED BY <1>1, <2>1
<1>10. CASE UNCHANGED vars
  BY <1>1, <1>10 DEF vars
<1> QED
  BY <1>2, <1>3, <1>4, <1>5, <1>6, <1>7, <1>8, <1>9, <1>10 DEF Next, Worker

(* The pool never has more than min_count + max_count threads, and never    *)
(* more than the larger of the two when jobs come after zpthread_pool_start *)
(* (which does not look at max_count).                                      *)
THEOREM ThreadsBounded == Spec => []CountBound
<1>1. Init => BoundInv
  BY PoolAssumption DEF Init, BoundInv, LargerCount
<1>2. TypeInv /\ BoundInv /\ [Next]_vars => BoundInv'
  BY BoundStep
<1>3. TypeInv /\ BoundInv => CountBound
  BY PoolAssumption DEF TypeInv, TypeOK, BoundInv, CountBound
<1> QED BY <1>1, <1>2, <1>3, TypeInit, TypeStep, PTL DEF Spec
-----------------------------------------------------------------------------
(***************************************************************************)
(* The flags of a worker's node.  enter_flag_for_idle is up only from the  *)
(* creation to the first get, timeout_flag only from the decision to leave *)
(* to the end; in a pool that runs only a worker that timed out leaves; a  *)
(* worker has a task only while it runs it.                                *)
(***************************************************************************)
NodeInv ==
    \A w \in Workers :
        /\ w \in timed_out => pc[w] \in {"loop", "fini"}
        /\ w \in entering => pc[w] \in {"loop", "enter", "fini"}
        /\ pc[w] = "fini" /\ ~Stopping => w \in timed_out
        /\ pc[w] # "run" => task[w] = NoTask

LEMMA NodeInit == Init => NodeInv
BY DEF Init, NodeInv

(* Once the pool stops it never runs again.                                 *)
LEMMA StopStable == ASSUME [Next]_vars, Stopping PROVE Stopping'
<1> USE DEF Stopping
<1>1. ASSUME UNCHANGED <<soft_stop_flag, zvar_sigint_flag>> PROVE Stopping'
  BY <1>1, Zenon
<1>2. ASSUME NEW w \in Workers, Worker(w) PROVE Stopping'
  <2>1. UNCHANGED <<soft_stop_flag, zvar_sigint_flag>>
    BY <1>2 DEF Worker, WorkerInit, WorkerLoop, GetTimer, GetJob, GetIdleTimeout, GetWait,
                GetStopped, RunTask, WorkerFini, WorkerUnlock, flagVars
  <2> QED BY <1>1, <2>1
<1>3. ASSUME NEW j \in Jobs, JobTest(j) \/ JobPush(j) PROVE Stopping'
  <2>1. UNCHANGED <<soft_stop_flag, zvar_sigint_flag>>
    BY <1>3 DEF JobTest, JobPush, flagVars
  <2> QED BY <1>1, <2>1
<1>4. ASSUME NEW t \in Timers, TimerTest(t) \/ TimerAttach(t) PROVE Stopping'
  <2>1. UNCHANGED <<soft_stop_flag, zvar_sigint_flag>>
    BY <1>4 DEF TimerTest, TimerAttach, flagVars
  <2> QED BY <1>1, <2>1
<1>5. CASE StartOne \/ WaitReturn \/ Tick \/ UNCHANGED vars
  <2>1. UNCHANGED <<soft_stop_flag, zvar_sigint_flag>>
    BY <1>5 DEF StartOne, WaitReturn, Tick, flagVars, vars
  <2> QED BY <1>1, <2>1
<1>6. CASE SoftStop \/ WaitAllStopped
  <2>1. soft_stop_flag' = TRUE
    BY <1>6 DEF SoftStop, WaitAllStopped
  <2> QED BY <2>1
<1>7. CASE SigInt
  <2>1. zvar_sigint_flag' = TRUE
    BY <1>7 DEF SigInt
  <2> QED BY <2>1
<1> QED BY <1>2, <1>3, <1>4, <1>5, <1>6, <1>7 DEF Next

LEMMA NodeStep == ASSUME TypeInv, NodeInv, [Next]_vars PROVE NodeInv'
<1>0. /\ pc \in [Workers -> PCs] /\ task \in [Workers -> Tasks \cup {NoTask}]
      /\ timed_out \subseteq Workers /\ entering \subseteq Workers
  BY DEF TypeInv, TypeOK
<1>s. ~Stopping' => ~Stopping
  BY StopStable
<1> USE <1>0, <1>s DEF NodeInv, PCs
<1>1. ASSUME NEW w \in Workers, WorkerInit(w) PROVE NodeInv'
  <2>1. /\ pc[w] = "init" /\ pc' = [pc EXCEPT ![w] = "loop"] /\ entering' = entering \cup {w}
        /\ UNCHANGED <<timed_out, task>>
    BY <1>1 DEF WorkerInit
  <2> QED BY <2>1
<1>2. ASSUME NEW w \in Workers, WorkerLoop(w) PROVE NodeInv'
  <2>1. /\ pc[w] = "loop" /\ UNCHANGED <<timed_out, entering, task>>
        /\ \/ pc' = [pc EXCEPT ![w] = "fini"] /\ (Stopping \/ w \in timed_out)
           \/ pc' = [pc EXCEPT ![w] = "enter"] /\ w \notin timed_out
    BY <1>2 DEF WorkerLoop
  <2> QED BY <2>1
<1>3. ASSUME NEW w \in Workers, GetTimer(w) PROVE NodeInv'
  <2>1. /\ pc[w] \in {"enter", "wait"} /\ pc' = [pc EXCEPT ![w] = "run"]
        /\ entering' = entering \ {w} /\ timed_out' = timed_out
        /\ \E t \in Timers : task' = [task EXCEPT ![w] = t]
    BY <1>3 DEF GetTimer, InGet
  <2> QED BY <2>1
<1>4. ASSUME NEW w \in Workers, GetJob(w) PROVE NodeInv'
  <2>1. /\ pc[w] \in {"enter", "wait"} /\ entering' = entering \ {w} /\ timed_out' = timed_out
        /\ task' = [task EXCEPT ![w] = Head(data_node_queue)]
    BY <1>4 DEF GetJob, InGet
  <2>2. \/ \E v \in Workers : pc[v] = "none" /\ pc' = [pc EXCEPT ![w] = "run", ![v] = "init"]
        \/ pc' = [pc EXCEPT ![w] = "run"]
    BY <1>4 DEF GetJob
  <2> QED BY <2>1, <2>2
<1>5. ASSUME NEW w \in Workers, GetIdleTimeout(w) \/ GetWait(w) \/ GetStopped(w) PROVE NodeInv'
  <2>1. /\ pc[w] \in {"enter", "wait"} /\ entering' = entering \ {w} /\ task' = task
        /\ \/ pc' = [pc EXCEPT ![w] = "loop"] /\ timed_out' \in {timed_out, timed_out \cup {w}}
           \/ pc' = [pc EXCEPT ![w] = "wait"] /\ timed_out' = timed_out
    BY <1>5 DEF GetIdleTimeout, GetWait, GetStopped, InGet
  <2> QED BY <2>1
<1>6. ASSUME NEW w \in Workers, RunTask(w) PROVE NodeInv'
  <2>1. /\ pc[w] = "run" /\ pc' = [pc EXCEPT ![w] = "loop"] /\ UNCHANGED <<timed_out, entering>>
        /\ task' = [task EXCEPT ![w] = NoTask]
    BY <1>6 DEF RunTask, nodeVars
  <2> QED BY <2>1
<1>7. ASSUME NEW w \in Workers, WorkerFini(w) PROVE NodeInv'
  <2>1. /\ pc[w] = "fini" /\ pc' = [pc EXCEPT ![w] = "unlock"] /\ task' = task
        /\ timed_out' = timed_out \ {w} /\ entering' = entering \ {w}
    BY <1>7 DEF WorkerFini
  <2> QED BY <2>1
<1>8. ASSUME NEW w \in Workers, WorkerUnlock(w) PROVE NodeInv'
  <2>1. /\ pc[w] = "unlock" /\ pc' = [pc EXCEPT ![w] = "none"]
        /\ UNCHANGED <<timed_out, entering, task>>
    BY <1>8 DEF WorkerUnlock, nodeVars
  <2> QED BY <2>1
<1>9. ASSUME UNCHANGED <<timed_out, entering, task>>,
             pc' = pc \/ \E v \in Workers : pc[v] = "none" /\ pc' = [pc EXCEPT ![v] = "init"]
      PROVE  NodeInv'
  BY <1>9
<1>10. ASSUME NEW j \in Jobs, JobTest(j) \/ JobPush(j) PROVE NodeInv'
  <2>1. CASE JobTest(j)
    BY <1>9, <2>1 DEF JobTest, workVars
  <2>2. CASE JobPush(j)
    <3>1. pc' = pc \/ \E v \in Workers : pc[v] = "none" /\ pc' = [pc EXCEPT ![v] = "init"]
      BY <2>2, Zenon DEF JobPush
    <3>2. UNCHANGED <<timed_out, entering, task>>
      BY <2>2 DEF JobPush, nodeVars
    <3> QED BY <1>9, <3>1, <3>2
  <2> QED BY <1>10, <2>1, <2>2
<1>11. ASSUME NEW t \in Timers, TimerTest(t) \/ TimerAttach(t) PROVE NodeInv'
  BY <1>9, <1>11 DEF TimerTest, TimerAttach, workVars
<1>12. CASE StartOne
  BY <1>9, <1>12 DEF StartOne, nodeVars
<1>13. CASE SoftStop \/ WaitAllStopped \/ WaitReturn \/ SigInt \/ Tick
  BY <1>9, <1>13 DEF SoftStop, WaitAllStopped, WaitReturn, SigInt, Tick, workVars
<1>14. CASE UNCHANGED vars
  BY <1>9, <1>14 DEF vars
<1> QED
  BY <1>1, <1>2, <1>3, <1>4, <1>5, <1>6, <1>7, <1>8, <1>10, <1>11, <1>12, <1>13, <1>14
     DEF Next, Worker

(***************************************************************************)
(* The counter of idle workers.  Between the entry of _pool_worker_run_get *)
(* and the decision, idle_count stands for CountedIdle with the worker in  *)
(* it.                                                                     *)
(***************************************************************************)
LEMMA IdleFinite == IsFiniteSet(CountedIdle) /\ Cardinality(CountedIdle) \in Nat
<1>1. CountedIdle \subseteq Workers
  BY DEF CountedIdle
<1>2. IsFiniteSet(CountedIdle)
  BY <1>1, PoolAssumption, FS_Subset
<1> QED BY <1>2, FS_CardinalityType

LEMMA IdleOnGet ==
  ASSUME TypeInv, NodeInv, idle_count = Cardinality(CountedIdle),
         NEW w \in Workers, pc[w] \in {"enter", "wait"}
  PROVE  /\ IdleOnEntry(w) = Cardinality(CountedIdle \cup {w})
         /\ IdleOnEntry(w) - 1 = Cardinality(CountedIdle \ {w})
<1>1. w \in CountedIdle <=> ~(pc[w] = "enter" /\ w \notin entering)
  BY DEF CountedIdle, NodeInv
<1>2. idle_count \in Nat
  BY IdleFinite
<1>3. CASE w \in CountedIdle
  <2>1. Cardinality(CountedIdle \ {w}) = Cardinality(CountedIdle) - 1
    BY <1>3, IdleFinite, FS_RemoveElement
  <2>2. CountedIdle \cup {w} = CountedIdle
    BY <1>3
  <2>3. IdleOnEntry(w) = idle_count
    BY <1>1, <1>3 DEF IdleOnEntry
  <2> QED BY <2>1, <2>2, <2>3
<1>4. CASE w \notin CountedIdle
  <2>1. Cardinality(CountedIdle \cup {w}) = Cardinality(CountedIdle) + 1
    BY <1>4, IdleFinite, FS_AddElement
  <2>2. CountedIdle \ {w} = CountedIdle
    BY <1>4
  <2>3. IdleOnEntry(w) = idle_count + 1
    BY <1>1, <1>4 DEF IdleOnEntry
  <2> QED BY <1>2, <2>1, <2>2, <2>3
<1> QED BY <1>3, <1>4

LEMMA IdleStep == ASSUME TypeInv, NodeInv, IdleMatches, [Next]_vars PROVE IdleMatches'
<1> SUFFICES ASSUME ~Stopping' PROVE idle_count' = Cardinality(CountedIdle')
  BY DEF IdleMatches
<1>0. /\ pc \in [Workers -> PCs] /\ idle_count \in Int
      /\ timed_out \subseteq Workers /\ entering \subseteq Workers
  BY DEF TypeInv, TypeOK
<1>s. ~Stopping
  BY StopStable
<1>c. idle_count = Cardinality(CountedIdle)
  BY <1>s DEF IdleMatches
<1>same. ASSUME CountedIdle' = CountedIdle, idle_count' = idle_count
         PROVE  idle_count' = Cardinality(CountedIdle')
  BY <1>c, <1>same
<1>up. ASSUME NEW v \in Workers, pc[v] = "none", pc' = [pc EXCEPT ![v] = "init"],
              UNCHANGED <<entering, timed_out>>, idle_count' = idle_count + 1
       PROVE  idle_count' = Cardinality(CountedIdle')
  <2>1. v \notin CountedIdle /\ CountedIdle' = CountedIdle \cup {v}
    BY <1>0, <1>up DEF CountedIdle
  <2>2. Cardinality(CountedIdle \cup {v}) = Cardinality(CountedIdle) + 1
    BY <2>1, IdleFinite, FS_AddElement
  <2> QED BY <1>c, <1>up, <2>1, <2>2
<1> USE <1>0, <1>s DEF NodeInv, PCs
<1>1. ASSUME NEW w \in Workers, WorkerInit(w) PROVE idle_count' = Cardinality(CountedIdle')
  <2>1. /\ pc[w] = "init" /\ pc' = [pc EXCEPT ![w] = "loop"] /\ entering' = entering \cup {w}
        /\ UNCHANGED <<timed_out, idle_count>>
    BY <1>1 DEF WorkerInit, poolVars
  <2>2. CountedIdle' = CountedIdle
    BY <2>1 DEF CountedIdle
  <2> QED BY <1>same, <2>1, <2>2
<1>2. ASSUME NEW w \in Workers, WorkerLoop(w) PROVE idle_count' = Cardinality(CountedIdle')
  <2>1. /\ pc[w] = "loop" /\ UNCHANGED <<timed_out, entering, idle_count>>
        /\ \/ pc' = [pc EXCEPT ![w] = "fini"] /\ w \in timed_out
           \/ pc' = [pc EXCEPT ![w] = "enter"] /\ w \notin timed_out
    BY <1>2 DEF WorkerLoop, poolVars
  <2>2. CountedIdle' = CountedIdle
    BY <2>1 DEF CountedIdle
  <2> QED BY <1>same, <2>1, <2>2
<1>3. ASSUME NEW w \in Workers, GetTimer(w) PROVE idle_count' = Cardinality(CountedIdle')
  <2>1. /\ pc[w] \in {"enter", "wait"} /\ pc' = [pc EXCEPT ![w] = "run"]
        /\ entering' = entering \ {w} /\ timed_out' = timed_out
        /\ idle_count' = IdleOnEntry(w) - 1
    BY <1>3 DEF GetTimer, InGet
  <2>2. CountedIdle' = CountedIdle \ {w}
    BY <2>1 DEF CountedIdle
  <2> QED BY <1>c, <2>1, <2>2, IdleOnGet
<1>4. ASSUME NEW w \in Workers, GetJob(w) PROVE idle_count' = Cardinality(CountedIdle')
  <2>1. /\ pc[w] \in {"enter", "wait"} /\ entering' = entering \ {w} /\ timed_out' = timed_out
    BY <1>4 DEF GetJob, InGet
  <2>0. IdleOnEntry(w) \in Int
    BY DEF IdleOnEntry
  <2>2. IdleOnEntry(w) - 1 = Cardinality(CountedIdle \ {w}) /\ IdleOnEntry(w) \in Int
    BY <1>c, <2>0, <2>1, IdleOnGet
  <2>3. CASE NeedCreate(Len(data_node_queue) - 1, IdleOnEntry(w) - 1)
    <3>1. /\ idle_count' = IdleOnEntry(w)
          /\ \E v \in Workers : pc[v] = "none" /\ pc' = [pc EXCEPT ![w] = "run", ![v] = "init"]
      BY <1>4, <2>3, Zenon DEF GetJob
    <3>2. PICK v \in Workers : pc[v] = "none" /\ pc' = [pc EXCEPT ![w] = "run", ![v] = "init"]
      BY <3>1
    <3>3. v \notin CountedIdle \ {w} /\ CountedIdle' = (CountedIdle \ {w}) \cup {v}
      BY <2>1, <3>2 DEF CountedIdle
    <3>4. IsFiniteSet(CountedIdle \ {w})
      BY IdleFinite, FS_RemoveElement
    <3>5. Cardinality((CountedIdle \ {w}) \cup {v}) = Cardinality(CountedIdle \ {w}) + 1
      BY <3>3, <3>4, FS_AddElement
    <3> QED BY <2>2, <3>1, <3>3, <3>5
  <2>4. CASE ~NeedCreate(Len(data_node_queue) - 1, IdleOnEntry(w) - 1)
    <3>1. idle_count' = IdleOnEntry(w) - 1 /\ pc' = [pc EXCEPT ![w] = "run"]
      BY <1>4, <2>4, Zenon DEF GetJob
    <3>2. CountedIdle' = CountedIdle \ {w}
      BY <2>1, <3>1 DEF CountedIdle
    <3> QED BY <2>2, <3>1, <3>2
  <2> QED BY <2>3, <2>4
<1>5. ASSUME NEW w \in Workers, GetIdleTimeout(w) \/ GetWait(w)
      PROVE  idle_count' = Cardinality(CountedIdle')
  <2>1. /\ pc[w] \in {"enter", "wait"} /\ entering' = entering \ {w}
        /\ idle_count' = IdleOnEntry(w)
        /\ \/ pc' = [pc EXCEPT ![w] = "loop"] /\ timed_out' = timed_out \cup {w}
           \/ pc' = [pc EXCEPT ![w] = "wait"] /\ timed_out' = timed_out
    BY <1>5 DEF GetIdleTimeout, GetWait, InGet
  <2>2. CountedIdle' = CountedIdle \cup {w}
    BY <2>1 DEF CountedIdle
  <2> QED BY <1>c, <2>1, <2>2, IdleOnGet
<1>6. ASSUME NEW w \in Workers, RunTask(w) PROVE idle_count' = Cardinality(CountedIdle')
  <2>1. /\ pc[w] = "run" /\ pc' = [pc EXCEPT ![w] = "loop"]
        /\ UNCHANGED <<timed_out, entering, idle_count>>
    BY <1>6 DEF RunTask, nodeVars, poolVars
  <2>2. CountedIdle' = CountedIdle
    BY <2>1 DEF CountedIdle
  <2> QED BY <1>same, <2>1, <2>2
<1>7. ASSUME NEW w \in Workers, WorkerFini(w) PROVE idle_count' = Cardinality(CountedIdle')
  <2>1. /\ pc[w] = "fini" /\ pc' = [pc EXCEPT ![w] = "unlock"] /\ idle_count' = idle_count - 1
        /\ timed_out' = timed_out \ {w} /\ entering' = entering \ {w}
    BY <1>7 DEF WorkerFini
  <2>2. w \in CountedIdle /\ CountedIdle' = CountedIdle \ {w}
    BY <2>1 DEF CountedIdle
  <2>3. Cardinality(CountedIdle \ {w}) = Cardinality(CountedIdle) - 1
    BY <2>2, IdleFinite, FS_RemoveElement
  <2> QED BY <1>c, <2>1, <2>2, <2>3
<1>8. ASSUME NEW w \in Workers, WorkerUnlock(w) PROVE idle_count' = Cardinality(CountedIdle')
  <2>1. /\ pc[w] = "unlock" /\ pc' = [pc EXCEPT ![w] = "none"]
        /\ UNCHANGED <<timed_out, entering, idle_count>>
    BY <1>8 DEF WorkerUnlock, nodeVars, poolVars
  <2>2. CountedIdle' = CountedIdle
    BY <2>1 DEF CountedIdle
  <2> QED BY <1>same, <2>1, <2>2
<1>9. ASSUME NEW w \in Workers, GetStopped(w) PROVE FALSE
  BY <1>9 DEF GetStopped
<1>10. ASSUME NEW j \in Jobs, JobTest(j) PROVE idle_count' = Cardinality(CountedIdle')
  BY <1>10, <1>same DEF JobTest, poolVars, workVars, CountedIdle
<1>11. ASSUME NEW j \in Jobs, JobPush(j) PROVE idle_count' = Cardinality(CountedIdle')
  <2>1. UNCHANGED <<timed_out, entering>>
    BY <1>11 DEF JobPush, nodeVars
  <2>2. CASE NeedCreate(Len(data_node_queue) + 1, idle_count)
    <3>1. /\ idle_count' = idle_count + 1
          /\ \E v \in Workers : pc[v] = "none" /\ pc' = [pc EXCEPT ![v] = "init"]
      BY <1>11, <2>2, Zenon DEF JobPush
    <3> QED BY <1>up, <2>1, <3>1
  <2>3. CASE ~NeedCreate(Len(data_node_queue) + 1, idle_count)
    <3>1. idle_count' = idle_count /\ pc' = pc
      BY <1>11, <2>3, Zenon DEF JobPush
    <3>2. CountedIdle' = CountedIdle
      BY <2>1, <3>1 DEF CountedIdle
    <3> QED BY <1>same, <3>1, <3>2
  <2> QED BY <2>2, <2>3
<1>12. ASSUME NEW t \in Timers, TimerTest(t) \/ TimerAttach(t)
       PROVE  idle_count' = Cardinality(CountedIdle')
  BY <1>12, <1>same DEF TimerTest, TimerAttach, poolVars, workVars, CountedIdle
<1>13. CASE StartOne
  BY <1>up, <1>13 DEF StartOne, nodeVars
<1>14. CASE SoftStop \/ WaitAllStopped \/ WaitReturn \/ SigInt \/ Tick
  <2>1. UNCHANGED <<pc, timed_out, entering, idle_count>>
    BY <1>14 DEF SoftStop, WaitAllStopped, WaitReturn, SigInt, Tick, poolVars, workVars
  <2>2. CountedIdle' = CountedIdle
    BY <2>1 DEF CountedIdle
  <2> QED BY <1>same, <2>1, <2>2
<1>15. CASE UNCHANGED vars
  BY <1>15, <1>same DEF vars, CountedIdle
<1> QED
  BY <1>1, <1>2, <1>3, <1>4, <1>5, <1>6, <1>7, <1>8, <1>9, <1>10, <1>11, <1>12, <1>13, <1>14,
     <1>15 DEF Next, Worker

(* While the pool runs, idle_count is the number of workers that wait or    *)
(* are about to: creator, first entry (enter_flag_for_idle), later entries, *)
(* taking a task and leaving after an idle timeout count each worker once.  *)
THEOREM IdleCorrect == Spec => []IdleMatches
<1>1. Init => IdleMatches
  <2> SUFFICES ASSUME Init PROVE IdleMatches
    OBVIOUS
  <2>1. CountedIdle = {}
    BY DEF Init, CountedIdle
  <2> QED BY <2>1, FS_EmptySet DEF Init, IdleMatches
<1>2. TypeInv /\ NodeInv /\ IdleMatches /\ [Next]_vars => IdleMatches'
  BY IdleStep
<1>3. TypeInv /\ NodeInv /\ [Next]_vars => NodeInv'
  BY NodeStep
<1> QED BY <1>1, <1>2, <1>3, TypeInit, TypeStep, NodeInit, PTL DEF Spec

-----------------------------------------------------------------------------
(***************************************************************************)
(* Where a callback is.  OnceOf is TaskOnce for one of them.               *)
(***************************************************************************)
Armed(x)   == IF x \in Timers /\ timeout_tree[x] >= 0 THEN 1 ELSE 0
Holders(x) == {w \in Workers : task[w] = x}
Owed(x)    == IF call[x] \in {"new", "checked", "dropped"} THEN 0 ELSE 1
OnceOf(x)  ==
    Times(x, data_node_queue) + Armed(x) + Cardinality(Holders(x)) + runs[x] = Owed(x)

LEMMA OnceEach == TaskOnce <=> \A x \in Tasks : OnceOf(x)
BY DEF TaskOnce, OnceOf, Times, Positions, Armed, Holders, Owed

LEMMA OnceType ==
  ASSUME TypeInv, NEW x \in Tasks
  PROVE  /\ Times(x, data_node_queue) \in Nat
         /\ Armed(x) \in 0 .. 1
         /\ IsFiniteSet(Holders(x)) /\ Cardinality(Holders(x)) \in Nat
         /\ runs[x] \in Nat
         /\ Owed(x) \in 0 .. 1
<1>1. Holders(x) \subseteq Workers
  BY DEF Holders
<1>2. IsFiniteSet(Holders(x))
  BY <1>1, PoolAssumption, FS_Subset
<1>3. Cardinality(Holders(x)) \in Nat
  BY <1>2, FS_CardinalityType
<1>4. Times(x, data_node_queue) \in Nat
  BY TimesType DEF TypeInv, TypeOK
<1>5. Armed(x) \in 0 .. 1 /\ runs[x] \in Nat /\ Owed(x) \in 0 .. 1
  BY DEF TypeInv, TypeOK, Armed, Owed
<1> QED BY <1>2, <1>3, <1>4, <1>5

LEMMA OnceStep ==
  ASSUME TypeInv, NodeInv, [Next]_vars, NEW x \in Tasks, OnceOf(x) PROVE OnceOf(x)'
<1>0. /\ data_node_queue \in Seq(Jobs) /\ timeout_tree \in [Timers -> -1 .. MaxDelay]
      /\ task \in [Workers -> Tasks \cup {NoTask}] /\ runs \in [Tasks -> Nat]
      /\ call \in [Tasks -> {"new", "checked", "given", "late", "dropped", "inline"}]
      /\ x # NoTask /\ NoTask \notin Tasks /\ Jobs \subseteq Tasks /\ Timers \subseteq Tasks
      /\ MaxDelay \in Nat
  BY PoolAssumption DEF TypeInv, TypeOK, Tasks
<1>1. /\ Times(x, data_node_queue) \in Nat /\ Armed(x) \in 0 .. 1
      /\ Cardinality(Holders(x)) \in Nat /\ runs[x] \in Nat /\ Owed(x) \in 0 .. 1
      /\ Times(x, data_node_queue) + Armed(x) + Cardinality(Holders(x)) + runs[x] = Owed(x)
  BY OnceType DEF OnceOf
<1>2. ASSUME UNCHANGED <<data_node_queue, timeout_tree, task, call, runs>> PROVE OnceOf(x)'
  BY <1>1, <1>2 DEF OnceOf, Armed, Holders, Owed
<1>3. ASSUME NEW w \in Workers, pc[w] \in {"enter", "wait"}, NEW y \in Tasks,
             task' = [task EXCEPT ![w] = y]
      PROVE  Cardinality(Holders(x)') =
                IF x = y THEN Cardinality(Holders(x)) + 1 ELSE Cardinality(Holders(x))
  <2>1. task[w] = NoTask
    BY <1>3 DEF NodeInv
  <2>2. CASE x = y
    <3>1. w \notin Holders(x) /\ Holders(x)' = Holders(x) \cup {w}
      BY <1>0, <1>3, <2>1, <2>2 DEF Holders
    <3>2. Cardinality(Holders(x) \cup {w}) = Cardinality(Holders(x)) + 1
      BY <3>1, OnceType, FS_AddElement
    <3> QED BY <2>2, <3>1, <3>2
  <2>3. CASE x # y
    <3>1. Holders(x)' = Holders(x)
      BY <1>0, <1>3, <2>1, <2>3 DEF Holders
    <3> QED BY <2>3, <3>1
  <2> QED BY <2>2, <2>3
<1>4. ASSUME NEW w \in Workers, GetTimer(w) PROVE OnceOf(x)'
  <2>1. PICK t \in Timers : /\ timeout_tree[t] = 0
                            /\ timeout_tree' = [timeout_tree EXCEPT ![t] = -1]
                            /\ task' = [task EXCEPT ![w] = t]
    BY <1>4 DEF GetTimer, Due
  <2>2. pc[w] \in {"enter", "wait"} /\ UNCHANGED <<data_node_queue, call, runs>>
    BY <1>4 DEF GetTimer, InGet, callVars
  <2>3. Cardinality(Holders(x)') =
            IF x = t THEN Cardinality(Holders(x)) + 1 ELSE Cardinality(Holders(x))
    BY <1>0, <1>3, <2>1, <2>2
  <2>4. Armed(x)' = IF x = t THEN Armed(x) - 1 ELSE Armed(x)
    BY <1>0, <2>1 DEF Armed
  <2>5. Times(x, data_node_queue)' = Times(x, data_node_queue)
        /\ runs'[x] = runs[x] /\ Owed(x)' = Owed(x)
    BY <2>2 DEF Owed
  <2> QED BY <1>1, <2>3, <2>4, <2>5 DEF OnceOf
<1>5. ASSUME NEW w \in Workers, GetJob(w) PROVE OnceOf(x)'
  <2> DEFINE y == Head(data_node_queue)
  <2>1. /\ data_node_queue # <<>> /\ data_node_queue' = Tail(data_node_queue)
        /\ task' = [task EXCEPT ![w] = y] /\ pc[w] \in {"enter", "wait"}
        /\ UNCHANGED <<timeout_tree, call, runs>>
    BY <1>5 DEF GetJob, InGet, callVars
  <2>2. y \in Tasks
    BY <1>0, <2>1
  <2>3. Times(x, data_node_queue') =
            IF x = y THEN Times(x, data_node_queue) - 1 ELSE Times(x, data_node_queue)
    BY <1>0, <2>1, TimesTail
  <2>4. Cardinality(Holders(x)') =
            IF x = y THEN Cardinality(Holders(x)) + 1 ELSE Cardinality(Holders(x))
    BY <1>3, <2>1, <2>2
  <2>5. Armed(x)' = Armed(x) /\ runs'[x] = runs[x] /\ Owed(x)' = Owed(x)
    BY <2>1 DEF Armed, Owed
  <2> QED BY <1>1, <2>3, <2>4, <2>5 DEF OnceOf
<1>6. ASSUME NEW w \in Workers, RunTask(w) PROVE OnceOf(x)'
  <2>1. /\ pc[w] = "run" /\ task' = [task EXCEPT ![w] = NoTask]
        /\ runs' = [runs EXCEPT ![task[w]] = @ + 1]
        /\ UNCHANGED <<data_node_queue, timeout_tree, call>>
    BY <1>6 DEF RunTask, poolVars
  <2>2. task[w] \in Tasks
    BY <2>1 DEF TypeInv, RunHasTask
  <2>3. Times(x, data_node_queue)' = Times(x, data_node_queue)
        /\ Armed(x)' = Armed(x) /\ Owed(x)' = Owed(x)
    BY <2>1 DEF Armed, Owed
  <2>4. CASE x = task[w]
    <3>1. w \in Holders(x) /\ Holders(x)' = Holders(x) \ {w}
      BY <1>0, <2>1, <2>4 DEF Holders
    <3>2. Cardinality(Holders(x) \ {w}) = Cardinality(Holders(x)) - 1
      BY <3>1, OnceType, FS_RemoveElement
    <3>3. runs'[x] = runs[x] + 1
      BY <1>0, <2>1, <2>4
    <3>4. Cardinality(Holders(x)') = Cardinality(Holders(x)) - 1
      BY <3>1, <3>2
    <3> QED BY <1>1, <2>3, <3>3, <3>4 DEF OnceOf
  <2>5. CASE x # task[w]
    <3>1. Holders(x)' = Holders(x)
      BY <1>0, <2>1, <2>5 DEF Holders
    <3>2. runs'[x] = runs[x]
      BY <1>0, <2>1, <2>2, <2>5
    <3> QED BY <1>1, <2>3, <3>1, <3>2 DEF OnceOf
  <2> QED BY <2>4, <2>5
<1>7. ASSUME NEW w \in Workers,
             WorkerInit(w) \/ WorkerLoop(w) \/ GetIdleTimeout(w) \/ GetWait(w)
             \/ GetStopped(w) \/ WorkerFini(w) \/ WorkerUnlock(w)
      PROVE  OnceOf(x)'
  <2>1. UNCHANGED <<data_node_queue, timeout_tree, task, call, runs>>
    BY <1>7 DEF WorkerInit, WorkerLoop, GetIdleTimeout, GetWait, GetStopped, WorkerFini,
                WorkerUnlock, poolVars, callVars
  <2> QED BY <1>2, <2>1
<1>8. ASSUME NEW j \in Jobs, JobTest(j) PROVE OnceOf(x)'
  <2>1. UNCHANGED <<data_node_queue, timeout_tree, task>> /\ call[j] = "new"
    BY <1>8 DEF JobTest, poolVars, workVars
  <2>2. \/ call' = [call EXCEPT ![j] = "inline"] /\ runs' = [runs EXCEPT ![j] = @ + 1]
        \/ call' = [call EXCEPT ![j] = "checked"] /\ runs' = runs
    BY <1>8, Zenon DEF JobTest
  <2>3. runs'[x] - runs[x] = Owed(x)' - Owed(x) /\ runs'[x] \in Int /\ Owed(x)' \in Int
    BY <1>0, <2>1, <2>2 DEF Owed
  <2>4. Times(x, data_node_queue)' = Times(x, data_node_queue)
        /\ Armed(x)' = Armed(x) /\ Holders(x)' = Holders(x)
    BY <2>1 DEF Armed, Holders
  <2> QED BY <1>1, <2>3, <2>4 DEF OnceOf
<1>9. ASSUME NEW j \in Jobs, JobPush(j) PROVE OnceOf(x)'
  <2>1. /\ UNCHANGED <<timeout_tree, task, runs>> /\ call[j] = "checked"
        /\ data_node_queue' = Append(data_node_queue, j)
    BY <1>9 DEF JobPush
  <2>2. PICK to \in {"late", "given"} : call' = [call EXCEPT ![j] = to]
    BY <1>9 DEF JobPush
  <2>3. Times(x, data_node_queue') =
            IF x = j THEN Times(x, data_node_queue) + 1 ELSE Times(x, data_node_queue)
    BY <1>0, <2>1, TimesAppend
  <2>4. Owed(x)' = IF x = j THEN Owed(x) + 1 ELSE Owed(x)
    BY <1>0, <2>1, <2>2 DEF Owed
  <2>5. Armed(x)' = Armed(x) /\ Holders(x)' = Holders(x) /\ runs'[x] = runs[x]
    BY <2>1 DEF Armed, Holders
  <2> QED BY <1>1, <2>3, <2>4, <2>5 DEF OnceOf
<1>10. ASSUME NEW t \in Timers, TimerTest(t) PROVE OnceOf(x)'
  <2>1. /\ UNCHANGED <<data_node_queue, timeout_tree, task, runs>> /\ call[t] = "new"
        /\ \E to \in {"dropped", "checked"} : call' = [call EXCEPT ![t] = to]
    BY <1>10 DEF TimerTest, poolVars, workVars
  <2>2. Owed(x)' = Owed(x)
    BY <1>0, <2>1 DEF Owed
  <2> QED BY <1>1, <2>1, <2>2 DEF OnceOf, Armed, Holders
<1>11. ASSUME NEW t \in Timers, TimerAttach(t) PROVE OnceOf(x)'
  <2>1. /\ UNCHANGED <<data_node_queue, task, runs>> /\ call[t] = "checked"
        /\ \E to \in {"late", "given"} : call' = [call EXCEPT ![t] = to]
        /\ \E d \in 0 .. MaxDelay : timeout_tree' = [timeout_tree EXCEPT ![t] = d]
    BY <1>11 DEF TimerAttach, workVars
  <2>2. Owed(x)' = IF x = t THEN Owed(x) + 1 ELSE Owed(x)
    BY <1>0, <2>1 DEF Owed
  <2>3. x = t => Armed(x) = 0
    BY <1>0, <1>1, <2>1 DEF Owed
  <2>4. Armed(x)' = IF x = t THEN Armed(x) + 1 ELSE Armed(x)
    BY <1>0, <2>1, <2>3 DEF Armed
  <2>5. Times(x, data_node_queue)' = Times(x, data_node_queue)
        /\ Holders(x)' = Holders(x) /\ runs'[x] = runs[x]
    BY <2>1 DEF Holders
  <2> QED BY <1>1, <2>2, <2>4, <2>5 DEF OnceOf
<1>12. CASE StartOne \/ SoftStop \/ WaitAllStopped \/ WaitReturn \/ SigInt \/ UNCHANGED vars
  <2>1. UNCHANGED <<data_node_queue, timeout_tree, task, call, runs>>
    BY <1>12 DEF StartOne, SoftStop, WaitAllStopped, WaitReturn, SigInt, vars, poolVars,
                 workVars, callVars
  <2> QED BY <1>2, <2>1
<1>13. CASE Tick
  <2>1. /\ UNCHANGED <<data_node_queue, task, call, runs>>
        /\ timeout_tree' = [t \in Timers |-> Left(t)]
    BY <1>13 DEF Tick, callVars
  <2>2. Armed(x)' = Armed(x)
    BY <1>0, <2>1 DEF Armed, Left
  <2> QED BY <1>1, <2>1, <2>2 DEF OnceOf, Holders, Owed
<1> QED
  BY <1>4, <1>5, <1>6, <1>7, <1>8, <1>9, <1>10, <1>11, <1>12, <1>13 DEF Next, Worker

(* No callback is lost or called twice: from its locked push or attach on   *)
(* it is once in the queue or the tree, with one worker, or called.         *)
THEOREM CalledOnce == Spec => []TaskOnce
<1>1. Init => TaskOnce
  <2> SUFFICES ASSUME Init, NEW x \in Tasks PROVE OnceOf(x)
    BY OnceEach
  <2>1. Holders(x) = {} /\ Armed(x) = 0 /\ Owed(x) = 0 /\ runs[x] = 0
    BY PoolAssumption DEF Init, Holders, Armed, Owed, Tasks
  <2>2. Times(x, data_node_queue) = 0
    BY TimesEmpty DEF Init
  <2>3. Cardinality(Holders(x)) = 0
    BY <2>1, FS_EmptySet
  <2> QED BY <2>1, <2>2, <2>3 DEF OnceOf
<1>2. TypeInv /\ NodeInv /\ TaskOnce /\ [Next]_vars => TaskOnce'
  <2> SUFFICES ASSUME TypeInv, NodeInv, TaskOnce, [Next]_vars PROVE TaskOnce'
    OBVIOUS
  <2>1. \A x \in Tasks : OnceOf(x)'
    BY OnceEach, OnceStep
  <2>2. TaskOnce' <=> \A x \in Tasks : OnceOf(x)'
    BY DEF TaskOnce, OnceOf, Times, Positions, Armed, Holders, Owed
  <2> QED BY <2>1, <2>2
<1>3. TypeInv /\ NodeInv /\ [Next]_vars => NodeInv'
  BY NodeStep
<1> QED BY <1>1, <1>2, <1>3, TypeInit, TypeStep, NodeInit, PTL DEF Spec

-----------------------------------------------------------------------------
(***************************************************************************)
(* Stopping.  The owner that waits has raised soft_stop_flag, so a job     *)
(* pushed from then on is one whose unlocked test came before.             *)
(***************************************************************************)
AnyLate == \E j \in Jobs : call[j] = "late"

StopInv ==
    /\ owner # "using" => soft_stop_flag
    /\ owner = "stopped" => Live = {} \/ AnyLate

LEMMA StoppedNone == TypeInv /\ StopInv => AllStopped
BY DEF TypeInv, TypeOK, StopInv, AnyLate, AllStopped, Live

LEMMA LateStays == ASSUME TypeInv, [Next]_vars, AnyLate PROVE AnyLate'
<1>0. /\ call \in [Tasks -> {"new", "checked", "given", "late", "dropped", "inline"}]
      /\ Jobs \subseteq Tasks /\ Jobs \cap Timers = {}
  BY PoolAssumption DEF TypeInv, TypeOK, Tasks
<1>1. PICK j \in Jobs : call[j] = "late"
  BY DEF AnyLate
<1>2. ASSUME NEW k \in Tasks, call[k] # "late", NEW to, call' = [call EXCEPT ![k] = to]
      PROVE  AnyLate'
  BY <1>0, <1>1, <1>2 DEF AnyLate
<1>3. ASSUME call' = call PROVE AnyLate'
  BY <1>1, <1>3 DEF AnyLate
<1>4. ASSUME NEW w \in Workers, Worker(w) PROVE AnyLate'
  BY <1>3, <1>4 DEF Worker, WorkerInit, WorkerLoop, GetTimer, GetJob, GetIdleTimeout, GetWait,
                    GetStopped, RunTask, WorkerFini, WorkerUnlock, callVars
<1>5. ASSUME NEW k \in Jobs, JobTest(k) \/ JobPush(k) PROVE AnyLate'
  <2>1. call[k] # "late" /\ \E to : call' = [call EXCEPT ![k] = to]
    BY <1>5 DEF JobTest, JobPush
  <2> QED BY <1>0, <1>2, <2>1
<1>6. ASSUME NEW t \in Timers, TimerTest(t) \/ TimerAttach(t) PROVE AnyLate'
  <2>1. call[t] # "late" /\ \E to : call' = [call EXCEPT ![t] = to]
    BY <1>6 DEF TimerTest, TimerAttach
  <2> QED BY <1>2, <2>1 DEF Tasks
<1>7. CASE StartOne \/ SoftStop \/ WaitAllStopped \/ WaitReturn \/ SigInt \/ Tick \/ UNCHANGED vars
  BY <1>3, <1>7 DEF StartOne, SoftStop, WaitAllStopped, WaitReturn, SigInt, Tick, vars, callVars
<1> QED BY <1>4, <1>5, <1>6, <1>7 DEF Next

LEMMA StopStep ==
  ASSUME TypeInv, CurrentMatches, StopInv, [Next]_vars PROVE StopInv'
<1>0. pc \in [Workers -> PCs] /\ soft_stop_flag \in BOOLEAN
  BY DEF TypeInv, TypeOK
<1>1. owner' = "stopped" /\ owner = "stopped" /\ AnyLate => AnyLate'
  BY LateStays
<1>2. ASSUME owner' = owner, soft_stop_flag' = soft_stop_flag,
             owner = "stopped" /\ Live = {} => Live' = {} \/ AnyLate'
      PROVE  StopInv'
  BY <1>1, <1>2 DEF StopInv
<1>3. ASSUME NEW w \in Workers, Worker(w) PROVE StopInv'
  <2>1. owner' = owner /\ soft_stop_flag' = soft_stop_flag
    BY <1>3 DEF Worker, WorkerInit, WorkerLoop, GetTimer, GetJob, GetIdleTimeout, GetWait,
                GetStopped, RunTask, WorkerFini, WorkerUnlock, flagVars, callVars
  <2>2. ASSUME Live = {} PROVE Live' = {}
    <3>1. pc[w] \in {"none", "unlock"}
      BY <2>2 DEF Live
    <3>2. WorkerUnlock(w)
      BY <1>3, <3>1 DEF Worker, WorkerInit, WorkerLoop, GetTimer, GetJob, GetIdleTimeout, GetWait,
                        GetStopped, RunTask, WorkerFini, InGet
    <3> QED BY <1>0, <2>2, <3>2 DEF WorkerUnlock, Live
  <2> QED BY <1>2, <2>1, <2>2
<1>4. ASSUME NEW j \in Jobs, JobTest(j) PROVE StopInv'
  BY <1>2, <1>4 DEF JobTest, workVars, flagVars, Live
<1>5. ASSUME NEW j \in Jobs, JobPush(j) PROVE StopInv'
  <2>1. owner' = owner /\ soft_stop_flag' = soft_stop_flag
    BY <1>5 DEF JobPush, flagVars
  <2>2. ASSUME owner = "stopped" PROVE AnyLate'
    <3>1. Stopping
      BY <2>2 DEF StopInv, Stopping
    <3>2. call' = [call EXCEPT ![j] = IF Stopping THEN "late" ELSE "given"]
      BY <1>5 DEF JobPush
    <3>3. call'[j] = "late"
      BY <3>1, <3>2 DEF TypeInv, TypeOK, Tasks
    <3> QED BY <3>3 DEF AnyLate
  <2> QED BY <1>2, <2>1, <2>2
<1>6. ASSUME NEW t \in Timers, TimerTest(t) \/ TimerAttach(t) PROVE StopInv'
  BY <1>2, <1>6 DEF TimerTest, TimerAttach, workVars, flagVars, Live
<1>7. CASE StartOne
  <2>1. owner = "using" /\ owner' = owner
    BY <1>7 DEF StartOne
  <2> QED BY <2>1 DEF StopInv
<1>8. CASE SoftStop
  <2>1. soft_stop_flag' = TRUE /\ owner' = owner /\ Live' = Live
    BY <1>8 DEF SoftStop, workVars, callVars, Live
  <2> QED BY <1>1, <2>1 DEF StopInv
<1>9. CASE WaitAllStopped
  <2>1. soft_stop_flag' = TRUE /\ owner' = "waiting"
    BY <1>9 DEF WaitAllStopped
  <2> QED BY <2>1 DEF StopInv
<1>10. CASE WaitReturn
  <2>1. /\ owner = "waiting" /\ owner' = (IF WaitDone THEN "stopped" ELSE "gaveup")
        /\ soft_stop_flag' = soft_stop_flag /\ pc' = pc
    BY <1>10 DEF WaitReturn, flagVars, workVars
  <2>2. ASSUME owner' = "stopped" PROVE Live' = {}
    <3>1. Live \subseteq Workers
      BY DEF Live
    <3>2. IsFiniteSet(Live) /\ Cardinality(Live) \in Nat
      BY <3>1, PoolAssumption, FS_Subset, FS_CardinalityType
    <3>3. current_count < 1
      BY <2>1, <2>2 DEF WaitDone
    <3>4. Cardinality(Live) = 0
      BY <3>2, <3>3 DEF CurrentMatches
    <3>5. Live = {}
      BY <3>2, <3>4, FS_EmptySet
    <3> QED BY <2>1, <3>5 DEF Live
  <2>3. soft_stop_flag'
    BY <2>1, Zenon DEF StopInv
  <2> QED BY <2>2, <2>3 DEF StopInv
<1>11. CASE SigInt \/ Tick \/ UNCHANGED vars
  <2>1. owner' = owner /\ soft_stop_flag' = soft_stop_flag /\ pc' = pc
    BY <1>11 DEF SigInt, Tick, vars, flagVars, workVars, callVars
  <2> QED BY <1>2, <2>1 DEF Live
<1> QED
  BY <1>3, <1>4, <1>5, <1>6, <1>7, <1>8, <1>9, <1>10, <1>11 DEF Next

(* When zpthread_pool_wait_all_stopped returns success, no thread of the    *)
(* pool will lock the mutex again, unless a job's unlocked test of          *)
(* soft_stop_flag came before the stop and its push after.                  *)
THEOREM StoppedForGood == Spec => []AllStopped
<1>1. Init => StopInv
  BY DEF Init, StopInv
<1>2. TypeInv /\ CurrentMatches /\ StopInv /\ [Next]_vars => StopInv'
  BY StopStep
<1> QED BY <1>1, <1>2, CountCorrect, TypeInit, TypeStep, StoppedNone, PTL DEF Spec

-----------------------------------------------------------------------------
LEMMA ServedStep ==
  ASSUME TypeInv, NodeInv, IdleMatches, [Next]_vars, Served, ~Served', ~Stopping'
  PROVE  \/ \E w \in Workers : task[w] = NoTask /\ task'[w] \in Timers
         \/ \E w \in timed_out : pc[w] = "fini" /\ pc'[w] = "unlock"
<1>0. /\ data_node_queue \in Seq(Jobs) /\ current_count \in Int
      /\ MaxCount \in Nat /\ ~Stopping /\ pc \in [Workers -> PCs]
      /\ task \in [Workers -> Tasks \cup {NoTask}]
  BY PoolAssumption, StopStable DEF TypeInv, TypeOK
<1>1. idle_count = Cardinality(CountedIdle) /\ idle_count \in Nat
  BY <1>0, IdleFinite DEF IdleMatches
<1>2. ASSUME UNCHANGED <<data_node_queue, idle_count, current_count>> PROVE FALSE
  BY <1>2 DEF Served
<1>3. ASSUME NEW w \in Workers, WorkerInit(w) \/ WorkerLoop(w) \/ RunTask(w) \/ WorkerUnlock(w)
      PROVE  FALSE
  BY <1>2, <1>3 DEF WorkerInit, WorkerLoop, RunTask, WorkerUnlock, poolVars
<1>4. ASSUME NEW w \in Workers, GetTimer(w)
      PROVE  task[w] = NoTask /\ task'[w] \in Timers
  <2>1. pc[w] \in {"enter", "wait"} /\ \E t \in Timers : task' = [task EXCEPT ![w] = t]
    BY <1>4 DEF GetTimer, InGet
  <2> QED BY <1>0, <2>1 DEF NodeInv
<1>5. ASSUME NEW w \in Workers, GetJob(w) PROVE FALSE
  <2>1. pc[w] \in {"enter", "wait"} /\ data_node_queue # <<>>
        /\ data_node_queue' = Tail(data_node_queue)
    BY <1>5 DEF GetJob, InGet
  <2>2. IdleOnEntry(w) \in Int
    BY <1>1 DEF IdleOnEntry
  <2>3. IsFiniteSet(CountedIdle \ {w})
    BY IdleFinite, FS_RemoveElement
  <2>4. IdleOnEntry(w) - 1 \in Nat
    BY <1>1, <2>1, <2>3, IdleOnGet, FS_CardinalityType
  <2>5. CASE NeedCreate(Len(data_node_queue) - 1, IdleOnEntry(w) - 1)
    <3>1. idle_count' = IdleOnEntry(w)
      BY <1>5, <2>5, Zenon DEF GetJob
    <3> QED BY <2>2, <2>4, <3>1 DEF Served
  <2>6. CASE ~NeedCreate(Len(data_node_queue) - 1, IdleOnEntry(w) - 1)
    <3>1. idle_count' = IdleOnEntry(w) - 1 /\ current_count' = current_count
      BY <1>5, <2>6, Zenon DEF GetJob
    <3>2. Len(data_node_queue) - 1 > 0 \/ data_node_queue' = <<>>
      BY <1>0, <2>1
    <3> QED BY <1>0, <2>4, <2>6, <3>1, <3>2 DEF Served, NeedCreate
  <2> QED BY <2>5, <2>6
<1>6. ASSUME NEW w \in Workers, GetIdleTimeout(w) \/ GetWait(w) PROVE FALSE
  <2>1. data_node_queue' = <<>>
    BY <1>6 DEF GetIdleTimeout, GetWait
  <2> QED BY <2>1 DEF Served
<1>7. ASSUME NEW w \in Workers, GetStopped(w) PROVE FALSE
  BY <1>0, <1>7 DEF GetStopped
<1>8. ASSUME NEW w \in Workers, WorkerFini(w)
      PROVE  w \in timed_out /\ pc[w] = "fini" /\ pc'[w] = "unlock"
  BY <1>0, <1>8 DEF WorkerFini, NodeInv
<1>9. ASSUME NEW j \in Jobs, JobTest(j) PROVE FALSE
  BY <1>2, <1>9 DEF JobTest, poolVars
<1>10. ASSUME NEW j \in Jobs, JobPush(j) PROVE FALSE
  <2>1. CASE NeedCreate(Len(data_node_queue) + 1, idle_count)
    <3>1. idle_count' = idle_count + 1
      BY <1>10, <2>1, Zenon DEF JobPush
    <3> QED BY <1>1, <3>1 DEF Served
  <2>2. CASE ~NeedCreate(Len(data_node_queue) + 1, idle_count)
    <3>1. idle_count' = idle_count /\ current_count' = current_count
      BY <1>10, <2>2, Zenon DEF JobPush
    <3> QED BY <1>0, <1>1, <2>2, <3>1 DEF Served, NeedCreate
  <2> QED BY <2>1, <2>2
<1>11. ASSUME NEW t \in Timers, TimerTest(t) \/ TimerAttach(t) PROVE FALSE
  BY <1>2, <1>11 DEF TimerTest, TimerAttach, poolVars
<1>12. CASE StartOne
  <2>1. idle_count' = idle_count + 1
    BY <1>12 DEF StartOne
  <2> QED BY <1>1, <2>1 DEF Served
<1>13. CASE SoftStop \/ WaitAllStopped \/ WaitReturn \/ SigInt \/ Tick \/ UNCHANGED vars
  BY <1>2, <1>13 DEF SoftStop, WaitAllStopped, WaitReturn, SigInt, Tick, vars, poolVars
<1> QED
  BY <1>3, <1>4, <1>5, <1>6, <1>7, <1>8, <1>9, <1>10, <1>11, <1>12, <1>13 DEF Next, Worker

(* Creation on demand leaves exactly two holes while the pool runs: a       *)
(* worker that takes a timer, and one that leaves after its idle timeout.   *)
THEOREM ServedOrKnownHole == Spec => ServedUnlessTimerOrLeave
<1> DEFINE A == Served /\ ~Served' =>
          \/ Stopping'
          \/ \E w \in Workers : task[w] = NoTask /\ task'[w] \in Timers
          \/ \E w \in timed_out : pc[w] = "fini" /\ pc'[w] = "unlock"
<1>1. TypeInv /\ NodeInv /\ IdleMatches /\ [Next]_vars => [A]_vars
  BY ServedStep
<1>2. TypeInv /\ NodeInv /\ [Next]_vars => NodeInv'
  BY NodeStep
<1>3. ServedUnlessTimerOrLeave <=> [][A]_vars
  BY DEF ServedUnlessTimerOrLeave
<1> HIDE DEF A
<1> QED BY <1>1, <1>2, <1>3, IdleCorrect, TypeInit, TypeStep, NodeInit, PTL DEF Spec
=============================================================================
