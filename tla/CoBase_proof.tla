---------------------------- MODULE CoBase_proof ----------------------------
(* Theorems about one coroutine base for every set of coroutines and block  *)
(* threads.                                                                 *)
EXTENDS CoBase, Occurrences

(* A block thread has a request exactly between taking and handing it back; *)
(* the base thread is in the loop's own coroutine unless one runs, and only *)
(* one that runs may have published a request.                              *)
JobHeld   == \A w \in Threads : job[w] # None <=> thread[w] \in {"busy", "append"}
LoopSelf  == phase # "run" => current = Self
InnerRuns == inner => phase = "run"

BaseInv == TypeOK /\ JobHeld /\ LoopSelf /\ InnerRuns

(* zcoroutine_yield_my goes to a coroutine of the active list or the loop.  *)
LEMMA SwitchType ==
  ASSUME TypeOK, Switch(active)
  PROVE  /\ active' \in Seq(Co) /\ current' \in Co \cup {Self} /\ phase' \in Phases /\ due' \subseteq Co
         /\ LoopSelf'
<1>1. active \in Seq(Co) /\ due \subseteq Co
  BY DEF TypeOK
<1>2. CASE active = <<>>
  BY <1>1, <1>2 DEF Switch, Phases, LoopSelf
<1>3. CASE active # <<>>
  BY <1>1, <1>3 DEF Switch, Phases, LoopSelf
<1> QED BY <1>2, <1>3

LEMMA BaseInit == Init => BaseInv
<1> SUFFICES ASSUME Init PROVE BaseInv
  OBVIOUS
<1> USE BaseAssumption
<1>1. inner \in BOOLEAN /\ break \in BOOLEAN /\ event_fd \in BOOLEAN /\ InnerRuns
  BY Zenon DEF Init, InnerRuns
<1>2. PICK c \in Co : prepare = <<c>> /\ unborn = Co \ {c}
  BY DEF Init
<1>3. prepare \in Seq(Co) /\ unborn \subseteq Co
  BY <1>2
<1>4. /\ thread \in [Threads -> {"none", "idle", "busy", "append", "write"}]
      /\ job \in [Threads -> Co \cup {None}] /\ JobHeld
  BY DEF Init, JobHeld
<1>5. /\ phase \in Phases /\ current \in Co \cup {Self} /\ LoopSelf
      /\ active \in Seq(Co) /\ deleted \in Seq(Co)
      /\ extern \in Seq(Co) /\ fileio \in Seq(Co) /\ queue \in Seq(Co)
      /\ sleeping \subseteq Co /\ due \subseteq Co
      /\ unwritten \subseteq Co /\ freed \subseteq Co
  BY DEF Init, Phases, LoopSelf
<1> QED BY <1>1, <1>3, <1>4, <1>5 DEF BaseInv, TypeOK

LEMMA BaseStep == ASSUME BaseInv, [Next]_vars PROVE BaseInv'
<1> USE BaseAssumption
<1>0. /\ phase \in Phases /\ current \in Co \cup {Self}
      /\ inner \in BOOLEAN /\ break \in BOOLEAN /\ event_fd \in BOOLEAN
      /\ active \in Seq(Co) /\ prepare \in Seq(Co) /\ deleted \in Seq(Co)
      /\ extern \in Seq(Co) /\ fileio \in Seq(Co) /\ queue \in Seq(Co)
      /\ sleeping \subseteq Co /\ due \subseteq Co
      /\ unborn \subseteq Co /\ unwritten \subseteq Co /\ freed \subseteq Co
      /\ thread \in [Threads -> {"none", "idle", "busy", "append", "write"}]
      /\ job \in [Threads -> Co \cup {None}]
      /\ TypeOK /\ JobHeld /\ LoopSelf /\ InnerRuns
  BY DEF BaseInv, TypeOK
<1> DEFINE FlagsKept == inner' = inner /\ break' = break /\ event_fd' \in BOOLEAN
           FlagsType == inner' \in BOOLEAN /\ break' \in BOOLEAN /\ event_fd' \in BOOLEAN
           ThreadsKept == thread' = thread /\ job' = job
           ListsType == /\ active' \in Seq(Co) /\ prepare' \in Seq(Co) /\ deleted' \in Seq(Co)
                        /\ extern' \in Seq(Co) /\ fileio' \in Seq(Co) /\ queue' \in Seq(Co)
           SetsType == /\ sleeping' \subseteq Co /\ due' \subseteq Co /\ unborn' \subseteq Co
                       /\ unwritten' \subseteq Co /\ freed' \subseteq Co
           ProcType == phase' \in Phases /\ current' \in Co \cup {Self} /\ LoopSelf'
           ThreadsType == /\ thread' \in [Threads -> {"none", "idle", "busy", "append", "write"}]
                          /\ job' \in [Threads -> Co \cup {None}] /\ JobHeld'
<1>a. ASSUME FlagsType, ThreadsType, ListsType, SetsType, ProcType, InnerRuns' PROVE BaseInv'
  BY <1>a DEF BaseInv, TypeOK
<1>b. ThreadsKept => ThreadsType
  BY <1>0 DEF JobHeld
<1>c. ToSet(deleted) \subseteq Co
  BY <1>0 DEF ToSet
<1>d. FlagsKept => FlagsType
  BY <1>0
<1>1. CASE LoopTop \/ TakeExtern \/ TakeFileio \/ WakeDone \/ \E c \in Co : WakeSleeper(c)
  <2>0. phase # "run" /\ phase' \in Phases \ {"run"} /\ current' = current
    BY <1>1 DEF LoopTop, TakeExtern, TakeFileio, WakeDone, WakeSleeper, Phases
  <2>1. FlagsKept /\ ThreadsKept
    BY <1>0, <1>1 DEF LoopTop, TakeExtern, TakeFileio, WakeDone, WakeSleeper, outerVars, threadVars
  <2>2. ListsType /\ SetsType
    <3> USE <1>0 DEF outerVars, sleepVars, threadVars
    <3>1. CASE LoopTop
      BY <1>c, <3>1 DEF LoopTop, RemoveDeleted
    <3>2. CASE TakeExtern
      <4>1. prepare \o extern \in Seq(Co)
        BY ConcatProperties
      <4> QED BY <3>2, <4>1 DEF TakeExtern, Adopt
    <3>3. CASE TakeFileio
      <4>1. active \o fileio \o prepare \in Seq(Co)
        OBVIOUS
      <4> QED BY <3>3, <4>1 DEF TakeFileio
    <3>4. CASE WakeDone
      BY <3>4 DEF WakeDone
    <3>5. ASSUME NEW c \in Co, WakeSleeper(c) PROVE ListsType /\ SetsType
      BY <3>5 DEF WakeSleeper
    <3> QED BY <1>1, <3>1, <3>2, <3>3, <3>4, <3>5
  <2>3. ProcType
    BY <1>0, <2>0 DEF LoopSelf
  <2>4. InnerRuns'
    BY <1>0, <2>0, <2>1, Zenon DEF InnerRuns
  <2> QED BY <1>a, <1>b, <1>d, <2>1, <2>2, <2>3, <2>4
<1>2. CASE EpollReturn \/ \E c \in Co : Leave(c)
  <2>1. Switch(active)
    BY <1>2 DEF EpollReturn, Leave, Yield, Exit, Return, Sleep, InnerYield
  <2>2. ThreadsKept /\ break' = break /\ UNCHANGED <<extern, fileio, queue, unborn, unwritten>>
    BY <1>2 DEF EpollReturn, Leave, Yield, Exit, Return, Sleep, InnerYield, outerVars, threadVars
  <2>3. event_fd' \in BOOLEAN
    BY <1>0, <1>2, Zenon DEF EpollReturn, Leave, Yield, Exit, Return, Sleep, InnerYield
  <2>4. inner' = FALSE
    <3>1. CASE EpollReturn
      <4>1. phase = "epoll" /\ inner' = inner
        BY <3>1 DEF EpollReturn
      <4>2. ~inner
        BY <1>0, <4>1, Zenon DEF InnerRuns
      <4> QED BY <1>0, <4>1, <4>2
    <3>2. ASSUME NEW c \in Co, Leave(c) PROVE inner' = FALSE
      <4>1. CASE InnerYield(c)
        BY <4>1 DEF InnerYield
      <4>2. CASE Yield(c) \/ Exit(c) \/ Return(c) \/ Sleep(c)
        <5>1. ~inner /\ inner' = inner
          BY <4>2 DEF Yield, Exit, Return, Sleep, Running
        <5> QED BY <1>0, <5>1
      <4> QED BY <3>2, <4>1, <4>2 DEF Leave
    <3> QED BY <1>2, <3>1, <3>2
  <2>5. prepare' \in Seq(Co) /\ deleted' \in Seq(Co) /\ sleeping' \subseteq Co /\ freed' \subseteq Co
    <3> USE <1>0
    <3>1. CASE EpollReturn
      BY <3>1 DEF EpollReturn
    <3>2. ASSUME NEW c \in Co, Yield(c) \/ Exit(c)
             PROVE  /\ prepare' \in Seq(Co) /\ deleted' \in Seq(Co)
                    /\ sleeping' \subseteq Co /\ freed' \subseteq Co
      <4>1. Append(prepare, c) \in Seq(Co) /\ Append(deleted, c) \in Seq(Co)
        OBVIOUS
      <4>2. prepare' \in {prepare, Append(prepare, c)} /\ deleted' \in {deleted, Append(deleted, c)}
        BY <3>2 DEF Yield, Exit, Prepared
      <4>3. sleeping' = sleeping /\ freed' = freed
        BY <3>2 DEF Yield, Exit
      <4> QED BY <4>1, <4>2, <4>3
    <3>3. ASSUME NEW c \in Co, Return(c)
             PROVE  /\ prepare' \in Seq(Co) /\ deleted' \in Seq(Co)
                    /\ sleeping' \subseteq Co /\ freed' \subseteq Co
      BY <1>c, <3>3 DEF Return
    <3>4. ASSUME NEW c \in Co, Sleep(c) \/ InnerYield(c)
             PROVE  /\ prepare' \in Seq(Co) /\ deleted' \in Seq(Co)
                    /\ sleeping' \subseteq Co /\ freed' \subseteq Co
      BY <3>4 DEF Sleep, InnerYield
    <3> QED BY <1>2, <3>1, <3>2, <3>3, <3>4 DEF Leave
  <2>6. active' \in Seq(Co) /\ due' \subseteq Co /\ ProcType
    BY <1>0, <2>1, SwitchType
  <2>7. ListsType /\ SetsType
    BY <1>0, <2>2, <2>5, <2>6
  <2>8. InnerRuns' /\ FlagsType
    BY <1>0, <2>2, <2>3, <2>4 DEF InnerRuns
  <2> QED BY <1>a, <1>b, <2>2, <2>6, <2>7, <2>8
<1>3. ASSUME NEW c \in Co, NEW n \in Co, Go(c, n) PROVE BaseInv'
  <2>1. FlagsKept /\ ThreadsKept /\ phase' = phase /\ current' = current
    BY <1>0, <1>3 DEF Go, threadVars
  <2>2. ListsType /\ SetsType
    BY <1>0, <1>3, <1>c DEF Go, RemoveDeleted, sleepVars, threadVars
  <2>3. ProcType
    BY <1>0, <2>1 DEF LoopSelf
  <2>4. InnerRuns'
    BY <1>0, <2>1, Zenon DEF InnerRuns
  <2> QED BY <1>a, <1>b, <1>d, <2>1, <2>2, <2>3, <2>4
<1>4. ASSUME NEW c \in Co, Request(c) PROVE BaseInv'
  <2>1. /\ phase' = phase /\ current' = current /\ phase = "run" /\ inner' = TRUE
        /\ break' = break /\ event_fd' = event_fd /\ job' = job
    BY <1>4 DEF Request, Running, outerVars
  <2>2. ListsType /\ SetsType
    BY <1>0, <1>4 DEF Request, sleepVars, outerVars
  <2>3. ProcType
    BY <1>0, <2>1 DEF LoopSelf
  <2>4. InnerRuns' /\ FlagsType
    BY <1>0, <2>1 DEF InnerRuns
  <2>5. thread' = thread \/ \E w \in Threads \ Started : thread' = [thread EXCEPT ![w] = "idle"]
    BY <1>4 DEF Request
  <2>6. ThreadsType
    BY <1>0, <2>1, <2>5 DEF JobHeld, Started
  <2> QED BY <1>a, <2>2, <2>3, <2>4, <2>6
<1>5. ASSUME NEW w \in Threads, Thread(w) PROVE BaseInv'
  <2>1. /\ phase' = phase /\ current' = current /\ inner' = inner /\ break' = break
        /\ UNCHANGED <<active, prepare, deleted, extern, sleeping, due, unborn, unwritten, freed>>
    BY <1>5 DEF Thread, ThreadTake, ThreadDo, ThreadAppend, ThreadWrite, baseVars, outerVars, sleepVars
  <2>2. event_fd' \in BOOLEAN
    BY <1>0, <1>5, Zenon DEF Thread, ThreadTake, ThreadDo, ThreadAppend, ThreadWrite, EventWritten
  <2>3. ThreadsType /\ fileio' \in Seq(Co) /\ queue' \in Seq(Co)
    <3>1. CASE ThreadTake(w)
      <4>1. Head(queue) \in Co /\ Tail(queue) \in Seq(Co)
        BY <1>0, <3>1 DEF ThreadTake
      <4> QED BY <1>0, <3>1, <4>1 DEF ThreadTake, JobHeld
    <3>2. CASE ThreadDo(w) \/ ThreadWrite(w)
      BY <1>0, <3>2 DEF ThreadDo, ThreadWrite, JobHeld
    <3>3. CASE ThreadAppend(w)
      <4>1. job[w] \in Co
        BY <1>0, <3>3 DEF ThreadAppend, JobHeld
      <4> QED BY <1>0, <3>3, <4>1 DEF ThreadAppend, JobHeld
    <3> QED BY <1>5, <3>1, <3>2, <3>3 DEF Thread
  <2>4. ListsType /\ SetsType
    BY <1>0, <2>1, <2>3
  <2>5. ProcType /\ FlagsType
    BY <1>0, <2>1, <2>2 DEF LoopSelf
  <2>6. InnerRuns'
    BY <1>0, <2>1, Zenon DEF InnerRuns
  <2> QED BY <1>a, <2>3, <2>4, <2>5, <2>6
<1>6. CASE StopNotify \/ \E c \in Co : Expire(c) \/ AdvancedGo(c) \/ AdvancedGoWrite(c)
  <2>1. /\ phase' = phase /\ current' = current /\ inner' = inner /\ ThreadsKept
    BY <1>6 DEF StopNotify, Expire, AdvancedGo, AdvancedGoWrite, baseVars, threadVars
  <2>2. FlagsType
    BY <1>0, <1>6, <2>1, Zenon DEF StopNotify, Expire, AdvancedGo, AdvancedGoWrite, outerVars
  <2>3. ListsType /\ SetsType
    <3> USE <1>0 DEF baseVars, outerVars, sleepVars, threadVars
    <3>1. CASE StopNotify
      BY <3>1 DEF StopNotify
    <3>2. ASSUME NEW c \in Co, Expire(c) PROVE ListsType /\ SetsType
      BY <3>2 DEF Expire
    <3>3. ASSUME NEW c \in Co, AdvancedGo(c) PROVE ListsType /\ SetsType
      BY <3>3 DEF AdvancedGo
    <3>4. ASSUME NEW c \in Co, AdvancedGoWrite(c) PROVE ListsType /\ SetsType
      BY <3>4 DEF AdvancedGoWrite
    <3> QED BY <1>6, <3>1, <3>2, <3>3, <3>4
  <2>4. ProcType
    BY <1>0, <2>1 DEF LoopSelf
  <2>5. InnerRuns'
    BY <1>0, <2>1, Zenon DEF InnerRuns
  <2> QED BY <1>a, <1>b, <2>1, <2>2, <2>3, <2>4, <2>5
<1>7. CASE UNCHANGED vars
  BY <1>0, <1>7 DEF vars, BaseInv, TypeOK, JobHeld, LoopSelf, InnerRuns
<1> QED BY <1>1, <1>2, <1>3, <1>4, <1>5, <1>6, <1>7 DEF Next, Loop

(* Every list of the base holds coroutines, and every block thread that     *)
(* hands a request back has one.                                            *)
THEOREM TypeCorrect == Spec => []TypeOK
<1>1. BaseInv => TypeOK
  BY DEF BaseInv
<1>2. BaseInv /\ [Next]_vars => BaseInv'
  BY BaseStep
<1> QED BY BaseInit, <1>1, <1>2, PTL DEF Spec

-----------------------------------------------------------------------------
(***************************************************************************)
(* The wake-up.  From the moment the loop has taken a list until the       *)
(* eventfd is read after epoll_wait, whoever filled the list again has     *)
(* written the eventfd or is about to.                                     *)
(***************************************************************************)
WakeInv ==
    /\ phase \in {"fileio", "wake", "epoll"} /\ extern # <<>> => event_fd \/ unwritten # {}
    /\ phase \in {"wake", "epoll"} /\ fileio # <<>> =>
          event_fd \/ \E w \in Threads : thread[w] = "write"

LEMMA WakeStep == ASSUME BaseInv, WakeInv, [Next]_vars PROVE WakeInv'
<1>0. thread \in [Threads -> {"none", "idle", "busy", "append", "write"}]
  BY DEF BaseInv, TypeOK
<1>1. ASSUME phase' \notin {"fileio", "wake", "epoll"} PROVE WakeInv'
  BY <1>1 DEF WakeInv
<1>2. ASSUME event_fd' = TRUE PROVE WakeInv'
  BY <1>2 DEF WakeInv
<1>3. CASE LoopTop
  <2>1. phase' \in {"stopped", "extern"}
    BY <1>3 DEF LoopTop
  <2> QED BY <1>1, <2>1
<1>4. CASE TakeExtern
  BY <1>4 DEF TakeExtern, WakeInv
<1>5. CASE TakeFileio
  <2>1. phase = "fileio" /\ phase' = "wake" /\ fileio' = <<>> /\ UNCHANGED <<extern, event_fd, unwritten>>
    BY <1>5 DEF TakeFileio, outerVars
  <2> QED BY <2>1, Zenon DEF WakeInv
<1>6. CASE WakeDone \/ \E c \in Co : WakeSleeper(c)
  <2>1. phase = "wake" /\ UNCHANGED <<extern, event_fd, unwritten, fileio, thread>>
    BY <1>6 DEF WakeDone, WakeSleeper, outerVars, threadVars
  <2> QED BY <2>1, Zenon DEF WakeInv
<1>7. CASE EpollReturn \/ \E c \in Co : Leave(c)
  <2>1. phase' \in {"top", "run"}
    BY <1>7 DEF EpollReturn, Leave, Yield, Exit, Return, Sleep, InnerYield, Switch
  <2> QED BY <1>1, <2>1
<1>8. CASE \E c \in Co : Request(c) \/ \E n \in Co : Go(c, n)
  <2>1. phase' = "run"
    BY <1>8 DEF Request, Go, Running
  <2> QED BY <1>1, <2>1
<1>9. ASSUME NEW c \in Co, Expire(c) PROVE WakeInv'
  <2>1. UNCHANGED <<phase, extern, event_fd, unwritten, fileio, thread>>
    BY <1>9 DEF Expire, baseVars, outerVars, threadVars
  <2> QED BY <2>1, Zenon DEF WakeInv
<1>10. ASSUME NEW c \in Co, AdvancedGo(c) PROVE WakeInv'
  <2>1. UNCHANGED <<phase, event_fd, fileio, thread>> /\ unwritten' # {}
    BY <1>10 DEF AdvancedGo, baseVars, threadVars
  <2> QED BY <2>1, Zenon DEF WakeInv
<1>11. ASSUME NEW c \in Co, AdvancedGoWrite(c) PROVE WakeInv'
  BY <1>2, <1>11 DEF AdvancedGoWrite
<1>12. ASSUME NEW w \in Threads, ThreadTake(w) \/ ThreadDo(w) PROVE WakeInv'
  <2>1. UNCHANGED <<phase, extern, event_fd, unwritten, fileio>>
    BY <1>12 DEF ThreadTake, ThreadDo, baseVars, outerVars
  <2>2. \A v \in Threads : thread[v] = "write" => thread'[v] = "write"
    BY <1>0, <1>12 DEF ThreadTake, ThreadDo
  <2> QED BY <2>1, <2>2, Zenon DEF WakeInv
<1>13. ASSUME NEW w \in Threads, ThreadAppend(w) PROVE WakeInv'
  <2>1. UNCHANGED <<phase, extern, event_fd, unwritten>> /\ thread'[w] = "write"
    BY <1>0, <1>13 DEF ThreadAppend, baseVars, outerVars
  <2> QED BY <2>1, Zenon DEF WakeInv
<1>14. ASSUME NEW w \in Threads, ThreadWrite(w) PROVE WakeInv'
  BY <1>2, <1>14 DEF ThreadWrite, EventWritten
<1>15. CASE StopNotify \/ UNCHANGED vars
  <2>1. UNCHANGED <<phase, extern, event_fd, unwritten, fileio, thread>>
    BY <1>15 DEF StopNotify, vars, baseVars, threadVars
  <2> QED BY <2>1, Zenon DEF WakeInv
<1> QED
  BY <1>3, <1>4, <1>5, <1>6, <1>7, <1>8, <1>9, <1>10, <1>11, <1>12, <1>13, <1>14, <1>15
     DEF Next, Loop, Thread

(* The loop never sleeps in epoll_wait on a coroutine that another thread   *)
(* has handed in or a block thread has finished with, unless the write to   *)
(* the eventfd is still to come.                                            *)
THEOREM WakeupKept == Spec => []NoLostWakeup
<1>1. Init => WakeInv
  BY DEF Init, WakeInv
<1>2. BaseInv /\ WakeInv /\ [Next]_vars => WakeInv'
  BY WakeStep
<1>3. WakeInv => NoLostWakeup
  BY Zenon DEF WakeInv, NoLostWakeup
<1>4. BaseInv /\ [Next]_vars => BaseInv'
  BY BaseStep
<1> QED BY <1>1, <1>2, <1>3, <1>4, BaseInit, PTL DEF Spec

-----------------------------------------------------------------------------
(***************************************************************************)
(* Where a coroutine is.  The numbers below count the places of one        *)
(* coroutine x; CoInv relates them, and every action moves x from one      *)
(* place to another, or leaves all of them alone.                          *)
(***************************************************************************)
Holders(x) == {w \in Threads : job[w] = x}

NActive(x) == Times(x, active)
NReady(x)  == Times(x, prepare) + Times(x, extern)
NAway(x)   == Times(x, fileio) + Times(x, queue) + Cardinality(Holders(x))
NDead(x)   == Times(x, deleted)

Gone(x)  == x \in unborn \/ x \in freed
Aside(x) == x \in sleeping \/ x \in due
Here(x)  == x = current /\ ~inner      \* at the processor
Asked(x) == x = current /\ inner       \* there too, its request published

(* A live coroutine is at one place exactly; one that has ended is in the   *)
(* deleted list, once, until it is freed; a sleeper is not active before    *)
(* its time; and one that has published a request is with the block         *)
(* threads and in no list of the base thread.                               *)
CoInv(x) ==
    /\ NActive(x) + NReady(x) + NAway(x) + (IF Aside(x) /\ NActive(x) = 0 THEN 1 ELSE 0)
         = IF Gone(x) \/ NDead(x) > 0 \/ Here(x) THEN 0 ELSE 1
    /\ NDead(x) <= 1
    /\ NDead(x) > 0 => ~Gone(x)
    /\ ~(x \in unborn /\ x \in freed)
    /\ Here(x) \/ Asked(x) => ~Gone(x) /\ NDead(x) = 0
    /\ x \in sleeping => NActive(x) = 0 /\ x \notin due
    /\ Asked(x) => NActive(x) = 0 /\ NReady(x) = 0 /\ ~Aside(x)

LEMMA NumbersType ==
  ASSUME BaseInv, NEW x \in Co
  PROVE  /\ NActive(x) \in Nat /\ NReady(x) \in Nat /\ NAway(x) \in Nat /\ NDead(x) \in Nat
         /\ Times(x, prepare) \in Nat /\ Times(x, extern) \in Nat
         /\ Times(x, fileio) \in Nat /\ Times(x, queue) \in Nat
         /\ IsFiniteSet(Holders(x)) /\ Cardinality(Holders(x)) \in Nat
<1>1. /\ active \in Seq(Co) /\ prepare \in Seq(Co) /\ deleted \in Seq(Co)
      /\ extern \in Seq(Co) /\ fileio \in Seq(Co) /\ queue \in Seq(Co)
  BY DEF BaseInv, TypeOK
<1>2. /\ Times(x, active) \in Nat /\ Times(x, prepare) \in Nat /\ Times(x, deleted) \in Nat
      /\ Times(x, extern) \in Nat /\ Times(x, fileio) \in Nat /\ Times(x, queue) \in Nat
  BY <1>1, TimesType
<1>3. Holders(x) \in SUBSET Threads /\ IsFiniteSet(Threads)
  BY BaseAssumption DEF Holders
<1>4. IsFiniteSet(Holders(x)) /\ Cardinality(Holders(x)) \in Nat
  BY <1>3, FS_Subset, FS_CardinalityType
<1> QED BY <1>2, <1>4 DEF NActive, NReady, NAway, NDead

LEMMA InList ==
  ASSUME NEW x \in Co, NEW s \in Seq(Co)
  PROVE  x \in ToSet(s) <=> Times(x, s) > 0
<1>1. DOMAIN s = 1 .. Len(s)
  OBVIOUS
<1>2. x \in ToSet(s) <=> \E i \in 1 .. Len(s) : s[i] = x
  BY <1>1 DEF ToSet
<1>3. Times(x, s) = 0 <=> \A i \in 1 .. Len(s) : s[i] # x
  BY TimesZero
<1>4. Times(x, s) \in Nat
  BY TimesType
<1> QED BY <1>2, <1>3, <1>4

(* The switch takes the head of the active list to the processor, and a     *)
(* sleeper out of the tree; every other coroutine stays where it is.        *)
LEMMA Switched ==
  ASSUME BaseInv, Switch(active), inner' = FALSE, NEW x \in Co
  PROVE  /\ ~Asked(x)'
         /\ \/ NActive(x)' = NActive(x) /\ ~Here(x)' /\ (x \in due' <=> x \in due)
            \/ NActive(x) >= 1 /\ NActive(x)' = NActive(x) - 1 /\ Here(x)' /\ x \notin due'
<1>0. active \in Seq(Co) /\ x # Self
  BY BaseAssumption DEF BaseInv, TypeOK
<1>1. CASE active = <<>>
  <2>1. current' = Self /\ active' = active /\ due' = due
    BY <1>1 DEF Switch
  <2> QED BY <1>0, <2>1 DEF Asked, Here, NActive
<1>2. CASE active # <<>>
  <2>1. current' = Head(active) /\ active' = Tail(active) /\ due' = due \ {Head(active)}
    BY <1>2 DEF Switch
  <2>2. Times(x, Tail(active)) = IF x = Head(active) THEN Times(x, active) - 1 ELSE Times(x, active)
    BY <1>0, <1>2, TimesTail
  <2>3. CASE x = Head(active)
    <3>1. 1 \in 1 .. Len(active) /\ active[1] = x
      BY <1>0, <1>2, <2>3
    <3>2. Times(x, active) # 0 /\ Times(x, active) \in Nat
      BY <1>0, <3>1, TimesZero, TimesType
    <3> QED BY <2>1, <2>2, <2>3, <3>2 DEF Asked, Here, NActive
  <2>4. CASE x # Head(active)
    BY <2>1, <2>2, <2>4 DEF Asked, Here, NActive
  <2> QED BY <2>3, <2>4
<1> QED BY <1>1, <1>2

LEMMA CoStep == ASSUME BaseInv, [Next]_vars, NEW x \in Co, CoInv(x) PROVE CoInv(x)'
<1>0. /\ active \in Seq(Co) /\ prepare \in Seq(Co) /\ deleted \in Seq(Co)
      /\ extern \in Seq(Co) /\ fileio \in Seq(Co) /\ queue \in Seq(Co)
      /\ thread \in [Threads -> {"none", "idle", "busy", "append", "write"}]
      /\ job \in [Threads -> Co \cup {None}]
      /\ JobHeld /\ LoopSelf /\ InnerRuns
  BY DEF BaseInv, TypeOK
<1>n. /\ NActive(x) \in Nat /\ NReady(x) \in Nat /\ NAway(x) \in Nat /\ NDead(x) \in Nat
      /\ Times(x, prepare) \in Nat /\ Times(x, extern) \in Nat
      /\ Times(x, fileio) \in Nat /\ Times(x, queue) \in Nat
      /\ IsFiniteSet(Holders(x)) /\ Cardinality(Holders(x)) \in Nat
  BY NumbersType
<1> DEFINE ActiveKept == NActive(x)' = NActive(x)
           ReadyKept  == NReady(x)' = NReady(x)
           AwayKept   == NAway(x)' = NAway(x)
           DeadKept   == NDead(x)' = NDead(x)
           BornKept   == x \in unborn' <=> x \in unborn
           FreeKept   == x \in freed' <=> x \in freed
           SleepKept  == x \in sleeping' <=> x \in sleeping
           DueKept    == x \in due' <=> x \in due
           HereKept   == (Here(x)' <=> Here(x)) /\ (Asked(x)' <=> Asked(x))
           Buried     == NDead(x)' = 0 /\ (x \in freed' <=> x \in freed \/ NDead(x) > 0)
<1>d. x \in ToSet(deleted) <=> NDead(x) > 0
  BY <1>0, InList DEF NDead
<1>e. RemoveDeleted => Buried
  BY <1>d, TimesEmpty DEF RemoveDeleted, NDead
<1>s. ASSUME phase # "run" PROVE ~Here(x) /\ ~Asked(x)
  BY <1>0, <1>s, BaseAssumption DEF LoopSelf, Here, Asked
<1> USE DEF CoInv, Gone, Aside
<1>1. CASE LoopTop
  <2>1. ActiveKept /\ ReadyKept /\ AwayKept /\ BornKept /\ SleepKept /\ DueKept /\ HereKept
    BY <1>1 DEF LoopTop, NActive, NReady, NAway, Holders, Here, Asked, sleepVars, outerVars, threadVars
  <2>2. Buried
    BY <1>1, <1>e DEF LoopTop
  <2> QED BY <1>n, <2>1, <2>2
<1>2. CASE TakeExtern
  <2>1. ActiveKept /\ AwayKept /\ DeadKept /\ BornKept /\ FreeKept /\ SleepKept /\ DueKept /\ HereKept
    BY <1>2 DEF TakeExtern, NActive, NDead, NAway, Holders, Here, Asked, sleepVars, outerVars, threadVars
  <2>2. Times(x, prepare \o extern) = Times(x, prepare) + Times(x, extern) /\ Times(x, <<>>) = 0
    BY <1>0, TimesConcat, TimesEmpty
  <2>3. prepare' = prepare \o extern /\ extern' = <<>>
    BY <1>2 DEF TakeExtern, Adopt
  <2>4. ReadyKept
    BY <1>n, <2>2, <2>3 DEF NReady
  <2> QED BY <1>n, <2>1, <2>4
<1>3. CASE TakeFileio
  <2>1. /\ DeadKept /\ BornKept /\ FreeKept /\ SleepKept /\ DueKept /\ HereKept
        /\ extern' = extern /\ queue' = queue /\ Holders(x)' = Holders(x)
    BY <1>3 DEF TakeFileio, NDead, Holders, Here, Asked, sleepVars, outerVars, threadVars
  <2>2. active' = active \o fileio \o prepare /\ fileio' = <<>> /\ prepare' = <<>> /\ phase # "run"
    BY <1>3 DEF TakeFileio
  <2>3. active \o fileio \in Seq(Co)
    BY <1>0
  <2>4. Times(x, active \o fileio \o prepare) = Times(x, active \o fileio) + Times(x, prepare)
    BY <1>0, <2>3, TimesConcat
  <2>5. Times(x, active \o fileio) = Times(x, active) + Times(x, fileio) /\ Times(x, <<>>) = 0
    BY <1>0, TimesConcat, TimesEmpty
  <2>6. NActive(x)' = NActive(x) + Times(x, fileio) + Times(x, prepare)
    BY <1>n, <2>2, <2>4, <2>5 DEF NActive
  <2>7. NReady(x)' = NReady(x) - Times(x, prepare) /\ Times(x, prepare) <= NReady(x)
    BY <1>n, <2>1, <2>2, <2>5 DEF NReady
  <2>8. NAway(x)' = NAway(x) - Times(x, fileio) /\ Times(x, fileio) <= NAway(x)
    <3>1. NAway(x)' = Times(x, <<>>) + Times(x, queue) + Cardinality(Holders(x))
      BY <2>1, <2>2 DEF NAway
    <3>2. NAway(x)' = Times(x, queue) + Cardinality(Holders(x))
      BY <1>n, <2>5, <3>1
    <3>3. NAway(x) = Times(x, fileio) + Times(x, queue) + Cardinality(Holders(x))
      BY DEF NAway
    <3>4. NAway(x) - Times(x, fileio) = Times(x, queue) + Cardinality(Holders(x))
      BY <1>n, <3>3
    <3>5. Times(x, fileio) <= NAway(x)
      BY <1>n, <3>3
    <3> QED BY <3>2, <3>4, <3>5
  <2>9. ~Here(x) /\ ~Asked(x)
    BY <1>s, <2>2
  <2>10. CASE Gone(x) \/ NDead(x) > 0
    <3>1. NActive(x) = 0 /\ NReady(x) = 0 /\ NAway(x) = 0 /\ ~Aside(x)
      BY <1>n, <2>10
    <3> QED BY <1>n, <2>1, <2>6, <2>7, <2>8, <2>9, <2>10, <3>1
  <2>11. CASE ~Gone(x) /\ NDead(x) = 0 /\ Aside(x) /\ NActive(x) = 0
    <3>1. NReady(x) = 0 /\ NAway(x) = 0
      BY <1>n, <2>9, <2>11
    <3> QED BY <1>n, <2>1, <2>6, <2>7, <2>8, <2>9, <2>11, <3>1
  <2>12. CASE ~Gone(x) /\ NDead(x) = 0 /\ ~(Aside(x) /\ NActive(x) = 0)
    <3>1. NActive(x) + NReady(x) + NAway(x) = 1
      BY <1>n, <2>9, <2>12
    <3>2. x \notin sleeping /\ (Aside(x) => NActive(x) = 1 /\ NReady(x) = 0 /\ NAway(x) = 0)
      BY <1>n, <2>12, <3>1
    <3> QED BY <1>n, <2>1, <2>6, <2>7, <2>8, <2>9, <2>12, <3>1, <3>2
  <2> QED BY <1>n, <2>10, <2>11, <2>12
<1>4. ASSUME NEW c \in Co, WakeSleeper(c) PROVE CoInv(x)'
  <2>1. /\ ReadyKept /\ AwayKept /\ DeadKept /\ BornKept /\ FreeKept /\ SleepKept /\ DueKept /\ HereKept
    BY <1>4 DEF WakeSleeper, NReady, NAway, NDead, Holders, Here, Asked, sleepVars, outerVars, threadVars
  <2>2. active' = Append(active, c) /\ c \in due /\ c \notin ToSet(active)
    BY <1>4 DEF WakeSleeper
  <2>3. NActive(x)' = IF x = c THEN NActive(x) + 1 ELSE NActive(x)
    BY <1>0, <2>2, TimesAppend DEF NActive
  <2>4. x = c => NActive(x) = 0
    BY <1>0, <1>n, <2>2, InList DEF NActive
  <2>5. phase # "run"
    BY <1>4 DEF WakeSleeper
  <2>6. ~Here(x) /\ ~Asked(x)
    BY <1>s, <2>5
  <2> QED BY <1>n, <2>1, <2>2, <2>3, <2>4, <2>6
<1>5. CASE WakeDone \/ StopNotify \/ \E c \in Co : AdvancedGoWrite(c)
  <2>1. /\ ActiveKept /\ ReadyKept /\ AwayKept /\ DeadKept /\ BornKept /\ FreeKept /\ SleepKept
        /\ DueKept /\ HereKept
    BY <1>5 DEF WakeDone, StopNotify, AdvancedGoWrite, NActive, NReady, NAway, NDead, Holders, Here,
                Asked, baseVars, sleepVars, outerVars, threadVars
  <2> QED BY <1>n, <2>1
<1> DEFINE Turned == /\ ~Asked(x)'
                     /\ \/ NActive(x)' = NActive(x) /\ ~Here(x)' /\ (x \in due' <=> x \in due)
                        \/ NActive(x) >= 1 /\ NActive(x)' = NActive(x) - 1 /\ Here(x)' /\ x \notin due'
<1>f. ASSUME Switch(active), inner' = FALSE PROVE Turned
  BY <1>f, Switched
<1>g. ASSUME NEW c \in Co, Running(c), inner' = inner PROVE inner' = FALSE
  <2>1. ~inner
    BY <1>g DEF Running
  <2>2. inner \in BOOLEAN
    BY DEF BaseInv, TypeOK
  <2> QED BY <1>g, <2>1, <2>2
<1>h. ASSUME NEW c \in Co, Running(c) PROVE (Here(x) <=> x = c) /\ ~Asked(x)
  BY <1>h, Zenon DEF Running, Here, Asked
<1>6. CASE EpollReturn
  <2>1. ReadyKept /\ AwayKept /\ DeadKept /\ BornKept /\ FreeKept /\ SleepKept
    BY <1>6 DEF EpollReturn, NReady, NAway, NDead, Holders, outerVars, threadVars
  <2>2. phase # "run" /\ Switch(active) /\ inner' = inner
    BY <1>6 DEF EpollReturn
  <2>3. inner' = FALSE
    <3>1. ~inner /\ inner \in BOOLEAN
      BY <1>0, <2>2, Zenon DEF InnerRuns, BaseInv, TypeOK
    <3> QED BY <2>2, <3>1
  <2>4. Turned
    BY <1>f, <2>2, <2>3
  <2>5. ~Here(x) /\ ~Asked(x)
    BY <1>s, <2>2
  <2> QED BY <1>n, <2>1, <2>4, <2>5
<1>7. ASSUME NEW c \in Co, Yield(c) PROVE CoInv(x)'
  <2>1. AwayKept /\ DeadKept /\ BornKept /\ FreeKept /\ SleepKept
    BY <1>7 DEF Yield, NAway, NDead, Holders, outerVars, threadVars
  <2>2. /\ Switch(active) /\ inner' = inner /\ Running(c)
        /\ prepare' = Append(prepare, c) /\ extern' = extern
    BY <1>7 DEF Yield, Prepared, outerVars
  <2>3. Turned
    BY <1>f, <1>g, <2>2
  <2>4. NReady(x)' = IF x = c THEN NReady(x) + 1 ELSE NReady(x)
    <3>1. Times(x, Append(prepare, c)) = IF x = c THEN Times(x, prepare) + 1 ELSE Times(x, prepare)
      BY <1>0, TimesAppend
    <3> QED BY <1>n, <2>2, <3>1 DEF NReady
  <2>5. (Here(x) <=> x = c) /\ ~Asked(x)
    BY <1>h, <2>2
  <2> QED BY <1>n, <2>1, <2>3, <2>4, <2>5
<1>8. ASSUME NEW c \in Co, Exit(c) PROVE CoInv(x)'
  <2>1. ReadyKept /\ AwayKept /\ BornKept /\ FreeKept /\ SleepKept
    BY <1>8 DEF Exit, NReady, NAway, Holders, outerVars, threadVars
  <2>2. /\ Switch(active) /\ inner' = inner /\ Running(c) /\ deleted' = Append(deleted, c)
    BY <1>8 DEF Exit
  <2>3. Turned
    BY <1>f, <1>g, <2>2
  <2>4. NDead(x)' = IF x = c THEN NDead(x) + 1 ELSE NDead(x)
    BY <1>0, <2>2, TimesAppend DEF NDead
  <2>5. (Here(x) <=> x = c) /\ ~Asked(x)
    BY <1>h, <2>2
  <2> QED BY <1>n, <2>1, <2>3, <2>4, <2>5
<1>9. ASSUME NEW c \in Co, Return(c) PROVE CoInv(x)'
  <2>1. ReadyKept /\ AwayKept /\ BornKept /\ SleepKept
    BY <1>9 DEF Return, NReady, NAway, Holders, outerVars, threadVars
  <2>2. /\ Switch(active) /\ inner' = inner /\ Running(c) /\ deleted' = <<c>>
        /\ freed' = freed \cup ToSet(deleted)
    BY <1>9 DEF Return
  <2>3. Turned
    BY <1>f, <1>g, <2>2
  <2>4. NDead(x)' = IF x = c THEN 1 ELSE 0
    <3>1. <<c>> = Append(<<>>, c) /\ <<>> \in Seq(Co)
      OBVIOUS
    <3>2. Times(x, Append(<<>>, c)) = IF x = c THEN Times(x, <<>>) + 1 ELSE Times(x, <<>>)
      BY <3>1, TimesAppend
    <3>3. Times(x, <<>>) = 0
      BY TimesEmpty
    <3> QED BY <2>2, <3>1, <3>2, <3>3 DEF NDead
  <2>5. x \in freed' <=> x \in freed \/ NDead(x) > 0
    BY <1>d, <2>2
  <2>6. (Here(x) <=> x = c) /\ ~Asked(x)
    BY <1>h, <2>2
  <2> QED BY <1>n, <2>1, <2>3, <2>4, <2>5, <2>6
<1>10. ASSUME NEW c \in Co, Sleep(c) PROVE CoInv(x)'
  <2>1. ReadyKept /\ AwayKept /\ DeadKept /\ BornKept /\ FreeKept
    BY <1>10 DEF Sleep, NReady, NAway, NDead, Holders, outerVars, threadVars
  <2>2. /\ Switch(active) /\ inner' = inner /\ Running(c) /\ sleeping' = sleeping \cup {c}
    BY <1>10 DEF Sleep
  <2>3. Turned
    BY <1>f, <1>g, <2>2
  <2>4. (Here(x) <=> x = c) /\ ~Asked(x)
    BY <1>h, <2>2
  <2> QED BY <1>n, <2>1, <2>2, <2>3, <2>4
<1>11. ASSUME NEW c \in Co, InnerYield(c) PROVE CoInv(x)'
  <2>1. ReadyKept /\ AwayKept /\ DeadKept /\ BornKept /\ FreeKept /\ SleepKept
    BY <1>11 DEF InnerYield, NReady, NAway, NDead, Holders, outerVars, threadVars
  <2>2. /\ Switch(active) /\ inner' = FALSE
    BY <1>11 DEF InnerYield
  <2>3. Turned
    BY <1>f, <2>2
  <2>4. (Asked(x) <=> x = c) /\ ~Here(x)
    BY <1>11, Zenon DEF InnerYield, Here, Asked
  <2> QED BY <1>n, <2>1, <2>3, <2>4
<1>12. ASSUME NEW c \in Co, Request(c) PROVE CoInv(x)'
  <2>1. ActiveKept /\ ReadyKept /\ DeadKept /\ BornKept /\ FreeKept /\ SleepKept /\ DueKept
    BY <1>12 DEF Request, NActive, NReady, NDead, sleepVars, outerVars
  <2>2. /\ Running(c) /\ inner' = TRUE /\ current' = current /\ queue' = Append(queue, c)
        /\ fileio' = fileio /\ Holders(x)' = Holders(x)
    BY <1>12 DEF Request, Holders
  <2>3. NAway(x)' = IF x = c THEN NAway(x) + 1 ELSE NAway(x)
    <3>1. Times(x, Append(queue, c)) = IF x = c THEN Times(x, queue) + 1 ELSE Times(x, queue)
      BY <1>0, TimesAppend
    <3> QED BY <1>n, <2>2, <3>1 DEF NAway
  <2>4. (Here(x) <=> x = c) /\ ~Asked(x)
    BY <1>h, <2>2
  <2>5. ~Here(x)' /\ (Asked(x)' <=> x = c)
    BY <2>2, Zenon DEF Here, Asked, Running
  <2> QED BY <1>n, <2>1, <2>3, <2>4, <2>5
<1>13. ASSUME NEW c \in Co, NEW n \in Co, Go(c, n) PROVE CoInv(x)'
  <2>1. ActiveKept /\ AwayKept /\ SleepKept /\ DueKept /\ HereKept
    BY <1>13 DEF Go, NActive, NAway, Holders, Here, Asked, sleepVars, threadVars
  <2>2. /\ prepare' = Append(prepare, n) /\ extern' = extern /\ RemoveDeleted
        /\ n \in unborn /\ unborn' = unborn \ {n}
    BY <1>13 DEF Go
  <2>3. NReady(x)' = IF x = n THEN NReady(x) + 1 ELSE NReady(x)
    <3>1. Times(x, Append(prepare, n)) = IF x = n THEN Times(x, prepare) + 1 ELSE Times(x, prepare)
      BY <1>0, TimesAppend
    <3> QED BY <1>n, <2>2, <3>1 DEF NReady
  <2>4. Buried
    BY <1>e, <2>2
  <2> QED BY <1>n, <2>1, <2>2, <2>3, <2>4
<1>14. ASSUME NEW n \in Co, AdvancedGo(n) PROVE CoInv(x)'
  <2>1. ActiveKept /\ AwayKept /\ DeadKept /\ FreeKept /\ SleepKept /\ DueKept /\ HereKept
    BY <1>14 DEF AdvancedGo, NActive, NAway, NDead, Holders, Here, Asked, baseVars, sleepVars, threadVars
  <2>2. prepare' = prepare /\ extern' = Append(extern, n) /\ n \in unborn /\ unborn' = unborn \ {n}
    BY <1>14 DEF AdvancedGo, baseVars
  <2>3. NReady(x)' = IF x = n THEN NReady(x) + 1 ELSE NReady(x)
    <3>1. Times(x, Append(extern, n)) = IF x = n THEN Times(x, extern) + 1 ELSE Times(x, extern)
      BY <1>0, TimesAppend
    <3> QED BY <1>n, <2>2, <3>1 DEF NReady
  <2>4. CASE x = n
    <3>1. NActive(x) = 0 /\ NReady(x) = 0 /\ NAway(x) = 0 /\ NDead(x) = 0 /\ ~Aside(x) /\ ~Here(x) /\ ~Asked(x)
      BY <1>n, <2>2, <2>4
    <3> QED BY <1>n, <2>1, <2>2, <2>3, <2>4, <3>1
  <2>5. CASE x # n
    BY <1>n, <2>1, <2>2, <2>3, <2>5
  <2> QED BY <2>4, <2>5
<1>15. ASSUME NEW c \in Co, Expire(c) PROVE CoInv(x)'
  <2>1. ActiveKept /\ ReadyKept /\ AwayKept /\ DeadKept /\ BornKept /\ FreeKept /\ HereKept
    BY <1>15 DEF Expire, NActive, NReady, NAway, NDead, Holders, Here, Asked, baseVars, outerVars,
                 threadVars
  <2>2. c \in sleeping /\ sleeping' = sleeping \ {c} /\ due' = due \cup {c}
    BY <1>15 DEF Expire
  <2> QED BY <1>n, <2>1, <2>2
<1>16. ASSUME NEW w \in Threads, Thread(w) PROVE CoInv(x)'
  <2>1. /\ ActiveKept /\ ReadyKept /\ DeadKept /\ BornKept /\ FreeKept /\ SleepKept /\ DueKept
        /\ HereKept
    BY <1>16 DEF Thread, ThreadTake, ThreadDo, ThreadAppend, ThreadWrite, NActive, NReady, NDead,
                 Here, Asked, baseVars, sleepVars, outerVars
  <2>2. x # None
    BY BaseAssumption
  <2>3. AwayKept
    <3>1. CASE ThreadTake(w)
      <4>1. /\ queue # <<>> /\ queue' = Tail(queue) /\ job' = [job EXCEPT ![w] = Head(queue)]
            /\ fileio' = fileio /\ job[w] = None
        BY <1>0, <3>1 DEF ThreadTake, JobHeld
      <4>2. Times(x, Tail(queue)) = IF x = Head(queue) THEN Times(x, queue) - 1 ELSE Times(x, queue)
        BY <1>0, <4>1, TimesTail
      <4>3. w \notin Holders(x)
        BY <2>2, <4>1 DEF Holders
      <4>4. Holders(x)' = IF x = Head(queue) THEN Holders(x) \cup {w} ELSE Holders(x)
        BY <1>0, <2>2, <4>1 DEF Holders
      <4>5. Cardinality(Holders(x) \cup {w}) = Cardinality(Holders(x)) + 1
        BY <1>n, <4>3, FS_AddElement
      <4> QED BY <1>n, <4>1, <4>2, <4>4, <4>5 DEF NAway
    <3>2. CASE ThreadDo(w) \/ ThreadWrite(w)
      BY <3>2 DEF ThreadDo, ThreadWrite, NAway, Holders
    <3>3. CASE ThreadAppend(w)
      <4>1. /\ fileio' = Append(fileio, job[w]) /\ job' = [job EXCEPT ![w] = None]
            /\ queue' = queue /\ job[w] \in Co
        BY <1>0, <3>3 DEF ThreadAppend, JobHeld
      <4>2. Times(x, Append(fileio, job[w])) =
               IF x = job[w] THEN Times(x, fileio) + 1 ELSE Times(x, fileio)
        BY <1>0, <4>1, TimesAppend
      <4>3. Holders(x)' = Holders(x) \ {w}
        BY <1>0, <2>2, <4>1 DEF Holders
      <4>4. w \in Holders(x) <=> x = job[w]
        BY DEF Holders
      <4>5. Cardinality(Holders(x) \ {w}) =
               IF w \in Holders(x) THEN Cardinality(Holders(x)) - 1 ELSE Cardinality(Holders(x))
        BY <1>n, FS_RemoveElement
      <4> QED BY <1>n, <4>1, <4>2, <4>3, <4>4, <4>5 DEF NAway
    <3> QED BY <1>16, <3>1, <3>2, <3>3 DEF Thread
  <2> QED BY <1>n, <2>1, <2>3
<1>17. CASE UNCHANGED vars
  <2>1. /\ ActiveKept /\ ReadyKept /\ AwayKept /\ DeadKept /\ BornKept /\ FreeKept /\ SleepKept
        /\ DueKept /\ HereKept
    BY <1>17 DEF vars, NActive, NReady, NAway, NDead, Holders, Here, Asked
  <2> QED BY <1>n, <2>1
<1> QED
  BY <1>1, <1>2, <1>3, <1>4, <1>5, <1>6, <1>7, <1>8, <1>9, <1>10, <1>11, <1>12, <1>13, <1>14,
     <1>15, <1>16, <1>17 DEF Next, Loop, Leave

LEMMA CoInit == ASSUME Init, NEW x \in Co PROVE CoInv(x)
<1>1. PICK c \in Co : prepare = <<c>> /\ unborn = Co \ {c}
  BY DEF Init
<1>2. /\ active = <<>> /\ extern = <<>> /\ fileio = <<>> /\ queue = <<>> /\ deleted = <<>>
      /\ sleeping = {} /\ due = {} /\ freed = {} /\ current = Self
      /\ job = [w \in Threads |-> None]
  BY DEF Init
<1>3. Times(x, <<>>) = 0
  BY TimesEmpty
<1>4. Holders(x) = {} /\ x # Self
  BY <1>2, BaseAssumption DEF Holders
<1>5. Cardinality(Holders(x)) = 0
  BY <1>4, FS_EmptySet
<1>6. prepare = Append(<<>>, c) /\ <<>> \in Seq(Co)
  BY <1>1
<1>7. Times(x, prepare) = IF x = c THEN 1 ELSE 0
  <2>1. Times(x, Append(<<>>, c)) = IF x = c THEN Times(x, <<>>) + 1 ELSE Times(x, <<>>)
    BY <1>6, TimesAppend
  <2> QED BY <1>3, <1>6, <2>1
<1>8. NActive(x) = 0 /\ NAway(x) = 0 /\ NDead(x) = 0 /\ NReady(x) = IF x = c THEN 1 ELSE 0
  BY <1>2, <1>3, <1>5, <1>7 DEF NActive, NAway, NDead, NReady
<1>9. ~Here(x) /\ ~Asked(x) /\ ~Aside(x) /\ (Gone(x) <=> x # c)
  BY <1>1, <1>2, <1>4 DEF Here, Asked, Aside, Gone
<1> QED BY <1>2, <1>8, <1>9 DEF CoInv

(* The properties count positions in the lists joined together; the         *)
(* invariant counts list by list.                                           *)
LEMMA ListsCount ==
  ASSUME BaseInv, NEW x \in Co
  PROVE  /\ Lists \in Seq(Co)
         /\ Occurs(x, Lists) = NActive(x) + NReady(x) + NDead(x) + Times(x, fileio)
         /\ Occurs(x, active \o prepare \o extern \o fileio \o queue)
              + Cardinality({w \in Threads : job[w] = x}) = NActive(x) + NReady(x) + NAway(x)
<1>0. /\ active \in Seq(Co) /\ prepare \in Seq(Co) /\ deleted \in Seq(Co)
      /\ extern \in Seq(Co) /\ fileio \in Seq(Co) /\ queue \in Seq(Co)
  BY DEF BaseInv, TypeOK
<1>n. /\ NActive(x) \in Nat /\ NReady(x) \in Nat /\ NAway(x) \in Nat /\ NDead(x) \in Nat
      /\ Times(x, prepare) \in Nat /\ Times(x, extern) \in Nat
      /\ Times(x, fileio) \in Nat /\ Times(x, queue) \in Nat
      /\ IsFiniteSet(Holders(x)) /\ Cardinality(Holders(x)) \in Nat
  BY NumbersType
<1>1. \A s : Occurs(x, s) = Times(x, s)
  BY DEF Occurs, Times, Positions
<1> DEFINE ap == active \o prepare
           apd == ap \o deleted
           apde == apd \o extern
           ape == ap \o extern
           apef == ape \o fileio
<1>2. ap \in Seq(Co)
  BY <1>0
<1>3. Times(x, ap) = Times(x, active) + Times(x, prepare)
  BY <1>0, TimesConcat
<1> HIDE DEF ap
<1>4. apd \in Seq(Co) /\ ape \in Seq(Co)
  BY <1>0, <1>2
<1>5. Times(x, apd) = Times(x, ap) + Times(x, deleted) /\ Times(x, ape) = Times(x, ap) + Times(x, extern)
  BY <1>0, <1>2, TimesConcat
<1> HIDE DEF apd, ape
<1>6. apde \in Seq(Co) /\ apef \in Seq(Co)
  BY <1>0, <1>4
<1>7. Times(x, apde) = Times(x, apd) + Times(x, extern) /\ Times(x, apef) = Times(x, ape) + Times(x, fileio)
  BY <1>0, <1>4, TimesConcat
<1> HIDE DEF apde, apef
<1>8. apde \o fileio \in Seq(Co)
  BY <1>0, <1>6
<1>9. Times(x, apde \o fileio) = Times(x, apde) + Times(x, fileio)
  BY <1>0, <1>6, TimesConcat
<1>10. Times(x, apef \o queue) = Times(x, apef) + Times(x, queue)
  BY <1>0, <1>6, TimesConcat
<1>11. Lists = apde \o fileio /\ active \o prepare \o extern \o fileio \o queue = apef \o queue
  BY DEF Lists, apde, apd, apef, ape, ap
<1>12. {w \in Threads : job[w] = x} = Holders(x)
  BY DEF Holders
<1>13. Occurs(x, Lists) = Times(x, apde) + Times(x, fileio)
  BY <1>1, <1>9, <1>11
<1>14. Occurs(x, active \o prepare \o extern \o fileio \o queue) = Times(x, apef) + Times(x, queue)
  BY <1>1, <1>10, <1>11
<1>15. /\ NActive(x) = Times(x, active) /\ NReady(x) = Times(x, prepare) + Times(x, extern)
       /\ NAway(x) = Times(x, fileio) + Times(x, queue) + Cardinality(Holders(x))
       /\ NDead(x) = Times(x, deleted)
  BY DEF NActive, NReady, NAway, NDead
<1>16. Occurs(x, Lists) = NActive(x) + NReady(x) + NDead(x) + Times(x, fileio)
  BY <1>n, <1>3, <1>5, <1>7, <1>13, <1>15
<1>17. Occurs(x, active \o prepare \o extern \o fileio \o queue) + Cardinality(Holders(x))
          = NActive(x) + NReady(x) + NAway(x)
  BY <1>n, <1>3, <1>5, <1>7, <1>14, <1>15
<1> QED BY <1>8, <1>11, <1>12, <1>16, <1>17

LEMMA CoInvSuffices ==
  ASSUME BaseInv, \A x \in Co : CoInv(x)
  PROVE  NeverForgotten /\ NoFreedRuns
<1>0. /\ active \in Seq(Co) /\ deleted \in Seq(Co) /\ fileio \in Seq(Co)
      /\ current \in Co \cup {Self} /\ freed \subseteq Co
  BY DEF BaseInv, TypeOK
<1>1. ASSUME NEW x \in Co
      PROVE  /\ NActive(x) \in Nat /\ NReady(x) \in Nat /\ NAway(x) \in Nat /\ NDead(x) \in Nat
             /\ Times(x, fileio) \in Nat /\ Times(x, fileio) <= NAway(x)
  <2>1. /\ NActive(x) \in Nat /\ NReady(x) \in Nat /\ NAway(x) \in Nat /\ NDead(x) \in Nat
        /\ Times(x, fileio) \in Nat /\ Times(x, queue) \in Nat /\ Cardinality(Holders(x)) \in Nat
    BY <1>1, NumbersType
  <2> QED BY <2>1 DEF NAway
<1>2. ASSUME NEW x \in Co PROVE Occurs(x, Lists) <= 1
  <2>1. Occurs(x, Lists) = NActive(x) + NReady(x) + NDead(x) + Times(x, fileio)
    BY <1>2, ListsCount
  <2> QED BY <1>1, <1>2, <2>1 DEF CoInv
<1>3. ASSUME current \in ToSet(Lists) PROVE inner /\ current \in ToSet(fileio)
  <2>1. Lists \in Seq(Co)
    <3>1. PICK i \in DOMAIN Lists : current = Lists[i]
      BY <1>3 DEF ToSet
    <3>2. Lists \in Seq(Co)
      BY <1>0 DEF Lists, BaseInv, TypeOK
    <3> QED BY <3>2
  <2>2. current \in Co
    BY <1>3, <2>1 DEF ToSet
  <2>3. Occurs(current, Lists) = NActive(current) + NReady(current) + NDead(current) + Times(current, fileio)
    BY <2>2, ListsCount
  <2>4. Occurs(current, Lists) = Times(current, Lists)
    BY DEF Occurs, Times, Positions
  <2>5. Times(current, Lists) > 0
    BY <1>3, <2>1, <2>2, InList
  <2>6. CoInv(current) /\ (Here(current) \/ Asked(current))
    BY <2>2, Zenon DEF Here, Asked
  <2>7. ~Here(current)
    BY <1>1, <2>2, <2>3, <2>4, <2>5, <2>6 DEF CoInv
  <2>8. Asked(current) /\ Times(current, fileio) > 0
    BY <1>1, <2>2, <2>3, <2>4, <2>5, <2>6, <2>7 DEF CoInv
  <2>9. current \in ToSet(fileio)
    BY <1>0, <2>2, <2>8, InList
  <2> QED BY <2>8, <2>9 DEF Asked
<1>4. ASSUME NEW x \in Co
      PROVE  Places(x) = IF ~(x \notin unborn \cup freed \cup ToSet(deleted)) \/ (x = current /\ ~inner)
                         THEN 0 ELSE 1
  <2>1. Occurs(x, active \o prepare \o extern \o fileio \o queue)
          + Cardinality({w \in Threads : job[w] = x}) = NActive(x) + NReady(x) + NAway(x)
    BY <1>4, ListsCount
  <2>2. (x \in ToSet(active) <=> NActive(x) > 0) /\ (x \in ToSet(deleted) <=> NDead(x) > 0)
    BY <1>0, <1>4, InList DEF NActive, NDead
  <2>3. x \in sleeping \cup due /\ x \notin ToSet(active) <=> Aside(x) /\ NActive(x) = 0
    BY <1>1, <1>4, <2>2 DEF Aside
  <2>4. Places(x) = NActive(x) + NReady(x) + NAway(x) + (IF Aside(x) /\ NActive(x) = 0 THEN 1 ELSE 0)
    BY <2>1, <2>3 DEF Places
  <2>5. ~(x \notin unborn \cup freed \cup ToSet(deleted)) \/ (x = current /\ ~inner)
           <=> Gone(x) \/ NDead(x) > 0 \/ Here(x)
    BY <2>2, Zenon DEF Gone, Here
  <2>6. NActive(x) + NReady(x) + NAway(x) + (IF Aside(x) /\ NActive(x) = 0 THEN 1 ELSE 0)
         = IF Gone(x) \/ NDead(x) > 0 \/ Here(x) THEN 0 ELSE 1
    BY <1>4 DEF CoInv
  <2> QED BY <2>4, <2>5, <2>6
<1>5. current \notin freed
  <2>1. SUFFICES ASSUME current \in Co PROVE ~Gone(current)
    BY <1>0 DEF Gone
  <2>2. Here(current) \/ Asked(current)
    BY Zenon DEF Here, Asked
  <2> QED BY <2>1, <2>2 DEF CoInv
<1>6. ASSUME NEW x \in freed PROVE Occurs(x, Lists) = 0
  <2>1. x \in Co /\ Gone(x)
    BY <1>0, <1>6 DEF Gone
  <2>2. Occurs(x, Lists) = NActive(x) + NReady(x) + NDead(x) + Times(x, fileio)
    BY <2>1, ListsCount
  <2>3. /\ NActive(x) \in Nat /\ NReady(x) \in Nat /\ NAway(x) \in Nat /\ NDead(x) \in Nat
        /\ Times(x, fileio) \in Nat /\ Times(x, fileio) <= NAway(x)
    BY <1>1, <2>1
  <2>4. NDead(x) = 0 /\ NActive(x) = 0 /\ NReady(x) = 0 /\ NAway(x) = 0
    BY <2>1, <2>3 DEF CoInv
  <2> QED BY <2>2, <2>3, <2>4
<1>7. OneList
  BY <1>2, <1>3 DEF OneList
<1>8. NoFreedRuns
  BY <1>5, <1>6 DEF NoFreedRuns
<1> QED BY <1>4, <1>7, <1>8 DEF NeverForgotten

PlacedInv == \A x \in Co : CoInv(x)

LEMMA PlacedStep == BaseInv /\ PlacedInv /\ [Next]_vars => PlacedInv'
<1> SUFFICES ASSUME BaseInv, PlacedInv, [Next]_vars, NEW x \in Co PROVE CoInv(x)'
  BY DEF PlacedInv
<1> QED BY CoStep DEF PlacedInv

(* A coroutine that lives is at the processor or in exactly one place that  *)
(* will bring it back, and linked into one list at most: whatever the order *)
(* of block threads, sleepers, callers from other threads and the loop,     *)
(* none is forgotten and none is woken twice.                               *)
THEOREM NobodyForgotten == Spec => []NeverForgotten
<1>1. Init => PlacedInv
  BY CoInit DEF PlacedInv
<1>2. BaseInv /\ [Next]_vars => BaseInv'
  BY BaseStep
<1>3. BaseInv /\ PlacedInv => NeverForgotten
  BY CoInvSuffices DEF PlacedInv
<1> QED BY <1>1, <1>2, <1>3, BaseInit, PlacedStep, PTL DEF Spec

(* _remove_deleted_coroutines, wherever it is called, frees no coroutine    *)
(* that runs or is linked into a list.                                      *)
THEOREM FreedStayAway == Spec => []NoFreedRuns
<1>1. Init => PlacedInv
  BY CoInit DEF PlacedInv
<1>2. BaseInv /\ [Next]_vars => BaseInv'
  BY BaseStep
<1>3. BaseInv /\ PlacedInv => NoFreedRuns
  BY CoInvSuffices DEF PlacedInv
<1> QED BY <1>1, <1>2, <1>3, BaseInit, PlacedStep, PTL DEF Spec
=============================================================================
