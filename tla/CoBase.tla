------------------------------- MODULE CoBase -------------------------------
(***************************************************************************)
(* One coroutine base of src/src/coroutine/coroutine.c: the loop of        *)
(* zcoroutine_base_run, the lists a coroutine moves through, the switch in *)
(* zcoroutine_yield_my, sleeping, coroutines that other threads hand in    *)
(* with zcoroutine_advanced_go, and the block threads that run file and    *)
(* block functions for a coroutine.                                        *)
(*                                                                         *)
(* The base thread runs one coroutine at a time and switches only inside   *)
(* zcoroutine_yield_my, so what a coroutine does between two switches is   *)
(* one action, unless another thread can see the middle of it: the request *)
(* to a block thread is published before the coroutine yields.  The steps  *)
(* of the loop are cut where they read what other threads write.           *)
(***************************************************************************)
EXTENDS Integers, Sequences, FiniteSets, SequencesExt

CONSTANTS
    Co,         \* coroutines
    Self,       \* cobs->self_coroutine, the loop itself
    Threads,    \* block threads
    Limit,      \* zvar_coroutine_block_pthread_count_limit
    None        \* no coroutine

(* A limit below 1 disables the block threads; the pool is in use here.     *)
ASSUME BaseAssumption ==
    /\ IsFiniteSet(Threads)
    /\ Limit \in 1 .. Cardinality(Threads)
    /\ Self \notin Co
    /\ None \notin Co \cup {Self}

VARIABLES
    phase,      \* where the base thread is in the loop
    current,    \* current_coroutine
    inner,      \* the current coroutine has published a request (inner_yield)
    active,     \* active_coroutines list
    prepare,    \* prepare_coroutines list
    deleted,    \* deleted_coroutine list
    extern,     \* extern_coroutines list, filled by other threads
    fileio,     \* fileio_coroutines list, filled by the block threads
    sleeping,   \* in sleep_zrbtree, time not reached
    due,        \* in sleep_zrbtree, time reached
    break,      \* ___break
    event_fd,   \* the counter of the eventfd is not 0
    unborn,     \* coroutines nobody has created yet
    unwritten,  \* handed in, but the eventfd not yet written
    freed,      \* coroutines whose memory is freed
    queue,      \* zvar_coroutine_hook_fileio list
    thread,     \* state of each block thread
    job         \* the coroutine whose request a block thread has

baseVars   == <<phase, current, inner, active, prepare, deleted>>
sleepVars  == <<sleeping, due>>
outerVars  == <<extern, break, unborn, unwritten>>
threadVars == <<queue, thread, job>>
vars == <<phase, current, inner, active, prepare, deleted, extern, fileio,
          sleeping, due, break, event_fd, unborn, unwritten, freed,
          queue, thread, job>>

Phases == {"top", "extern", "fileio", "wake", "epoll", "run", "stopped"}

TypeOK ==
    /\ phase \in Phases
    /\ current \in Co \cup {Self}
    /\ inner \in BOOLEAN
    /\ active \in Seq(Co) /\ prepare \in Seq(Co) /\ deleted \in Seq(Co)
    /\ extern \in Seq(Co) /\ fileio \in Seq(Co) /\ queue \in Seq(Co)
    /\ sleeping \subseteq Co /\ due \subseteq Co
    /\ unborn \subseteq Co /\ unwritten \subseteq Co /\ freed \subseteq Co
    /\ break \in BOOLEAN /\ event_fd \in BOOLEAN
    /\ thread \in [Threads -> {"none", "idle", "busy", "append", "write"}]
    /\ job \in [Threads -> Co \cup {None}]

(* zcoroutine_base_init, and one zcoroutine_go before zcoroutine_base_run.  *)
Init ==
    /\ phase = "top"
    /\ current = Self
    /\ inner = FALSE
    /\ active = <<>> /\ deleted = <<>> /\ extern = <<>> /\ fileio = <<>>
    /\ \E c \in Co : prepare = <<c>> /\ unborn = Co \ {c}
    /\ sleeping = {} /\ due = {}
    /\ break = FALSE /\ event_fd = FALSE
    /\ unwritten = {} /\ freed = {}
    /\ queue = <<>>
    /\ thread = [w \in Threads |-> "none"]
    /\ job = [w \in Threads |-> None]

-----------------------------------------------------------------------------
(* The loop of zcoroutine_base_run                                          *)

RemoveDeletedKept ==                     \* wrong on purpose: the list stays
    freed' = freed \cup ToSet(deleted) /\ deleted' = deleted

(* _remove_deleted_coroutines frees every coroutine of the list.            *)
RemoveDeleted ==
    /\ freed' = freed \cup ToSet(deleted)
    /\ deleted' = <<>>

StopSeen == break

LoopTop ==
    /\ phase = "top"
    /\ RemoveDeleted
    /\ phase' = IF StopSeen THEN "stopped" ELSE "extern"
    /\ UNCHANGED <<current, inner, active, prepare, fileio, sleepVars, event_fd,
                   outerVars, threadVars>>

AdoptBusy ==                             \* wrong on purpose: only into an empty list
    IF prepare = <<>> THEN extern ELSE prepare
Adopt == prepare \o extern

(* The whole extern list is taken under the lock; zcoroutine_advanced_go_now *)
(* makes coroutines of it.                                                   *)
TakeExtern ==
    /\ phase = "extern"
    /\ phase' = "fileio"
    /\ prepare' = Adopt
    /\ extern' = <<>>
    /\ UNCHANGED <<current, inner, active, deleted, fileio, sleepVars, event_fd,
                   break, unborn, unwritten, freed, threadVars>>

(* Finished requests first, then the prepared coroutines, become active.    *)
TakeFileio ==
    /\ phase = "fileio"
    /\ phase' = "wake"
    /\ active' = active \o fileio \o prepare
    /\ fileio' = <<>>
    /\ prepare' = <<>>
    /\ UNCHANGED <<current, inner, deleted, sleepVars, event_fd, outerVars,
                   freed, threadVars>>

(* Every sleeper whose time has come is made active; it stays in the tree   *)
(* until it runs and takes itself out.                                      *)
WakeSleeper(c) ==
    /\ phase = "wake"
    /\ c \in due \ ToSet(active)
    /\ active' = Append(active, c)
    /\ UNCHANGED <<phase, current, inner, prepare, deleted, fileio, sleepVars,
                   event_fd, outerVars, freed, threadVars>>

WakeDone ==
    /\ phase = "wake"
    /\ due \subseteq ToSet(active)
    /\ phase' = "epoll"
    /\ UNCHANGED <<current, inner, active, prepare, deleted, fileio, sleepVars,
                   event_fd, outerVars, freed, threadVars>>

(* zcoroutine_yield_my from its choice of the next coroutine on: the head   *)
(* of the active list, or the loop when it is empty.  A sleeper detaches    *)
(* itself as the first thing it does when it runs again.                    *)
Switch(ready) ==
    IF ready = <<>>
    THEN /\ current' = Self
         /\ active' = ready
         /\ phase' = "top"
         /\ UNCHANGED due
    ELSE /\ current' = Head(ready)
         /\ active' = Tail(ready)
         /\ phase' = "run"
         /\ due' = due \ {Head(ready)}

(* epoll_wait returns at once when the active list is not empty, when the   *)
(* eventfd has been written, and after at most a second anyway; reading the *)
(* eventfd sets it back to 0.                                               *)
EpollReturn ==
    /\ phase = "epoll"
    /\ event_fd' = FALSE
    /\ Switch(active)
    /\ UNCHANGED <<inner, prepare, deleted, fileio, sleeping, outerVars, freed,
                   threadVars>>

-----------------------------------------------------------------------------
(* What the current coroutine can do                                        *)

Running(c) == phase = "run" /\ current = c /\ ~inner

(* zcoroutine_go: ended coroutines are freed, the new one is prepared.      *)
Go(c, n) ==
    /\ Running(c)
    /\ n \in unborn
    /\ unborn' = unborn \ {n}
    /\ prepare' = Append(prepare, n)
    /\ RemoveDeleted
    /\ UNCHANGED <<phase, current, inner, active, extern, fileio, sleepVars,
                   break, event_fd, unwritten, threadVars>>

PreparedNot(c) == prepare                \* wrong on purpose: a stale inner_yield flag
Prepared(c) == Append(prepare, c)

(* zcoroutine_yield *)
Yield(c) ==
    /\ Running(c)
    /\ prepare' = Prepared(c)
    /\ Switch(active)
    /\ UNCHANGED <<inner, deleted, fileio, sleeping, event_fd, outerVars, freed,
                   threadVars>>

(* zcoroutine_exit: the coroutine still runs on the stack that the deleted  *)
(* list will free.                                                          *)
Exit(c) ==
    /\ Running(c)
    /\ deleted' = Append(deleted, c)
    /\ Switch(active)
    /\ UNCHANGED <<inner, prepare, fileio, sleeping, event_fd, outerVars, freed,
                   threadVars>>

(* _co_start_wrap after start_job: earlier ones are freed, not itself.      *)
Return(c) ==
    /\ Running(c)
    /\ freed' = freed \cup ToSet(deleted)
    /\ deleted' = <<c>>
    /\ Switch(active)
    /\ UNCHANGED <<inner, prepare, fileio, sleeping, event_fd, outerVars,
                   threadVars>>

(* zcoroutine_sleep_millisecond: poll without descriptors                   *)
Sleep(c) ==
    /\ Running(c)
    /\ sleeping' = sleeping \cup {c}
    /\ Switch(active)
    /\ UNCHANGED <<inner, prepare, deleted, fileio, event_fd, outerVars, freed,
                   threadVars>>

Started == {w \in Threads : thread[w] # "none"}

NeedThreadNever(n) == FALSE              \* wrong on purpose
NeedThread(n) ==
    /\ Cardinality(Started) < Limit
    /\ Started = {} \/ n > Cardinality(Started)

(* zcoroutine_hook_fileio_run_part3 up to the unlock: the request is in the *)
(* queue, and a thread more is created when requests outnumber the threads. *)
Request(c) ==
    /\ Running(c)
    /\ inner' = TRUE
    /\ queue' = Append(queue, c)
    /\ IF NeedThread(Len(queue) + 1)
       THEN \E w \in Threads \ Started : thread' = [thread EXCEPT ![w] = "idle"]
       ELSE UNCHANGED thread
    /\ UNCHANGED <<phase, current, active, prepare, deleted, fileio, sleepVars,
                   event_fd, outerVars, freed, job>>

(* ... and the yield with inner_yield set: it is put into no list.          *)
InnerYield(c) ==
    /\ phase = "run" /\ current = c /\ inner
    /\ inner' = FALSE
    /\ Switch(active)
    /\ UNCHANGED <<prepare, deleted, fileio, sleeping, event_fd, outerVars,
                   freed, threadVars>>

-----------------------------------------------------------------------------
(* The other threads                                                        *)

(* zcoroutine_hook_fileio_worker *)
ThreadTake(w) ==
    /\ thread[w] = "idle"
    /\ queue # <<>>
    /\ job' = [job EXCEPT ![w] = Head(queue)]
    /\ queue' = Tail(queue)
    /\ thread' = [thread EXCEPT ![w] = "busy"]
    /\ UNCHANGED <<baseVars, fileio, sleepVars, event_fd, outerVars, freed>>

(* zcoroutine_hook_fileio_worker_do, without any lock *)
ThreadDo(w) ==
    /\ thread[w] = "busy"
    /\ thread' = [thread EXCEPT ![w] = "append"]
    /\ UNCHANGED <<baseVars, fileio, sleepVars, event_fd, outerVars, freed,
                   queue, job>>

ThreadAppend(w) ==
    /\ thread[w] = "append"
    /\ fileio' = Append(fileio, job[w])
    /\ job' = [job EXCEPT ![w] = None]
    /\ thread' = [thread EXCEPT ![w] = "write"]
    /\ UNCHANGED <<baseVars, sleepVars, event_fd, outerVars, freed, queue>>

EventForgotten(w) == event_fd                \* wrong on purpose: no write
EventWritten(w) == TRUE

ThreadWrite(w) ==
    /\ thread[w] = "write"
    /\ event_fd' = EventWritten(w)
    /\ thread' = [thread EXCEPT ![w] = "idle"]
    /\ UNCHANGED <<baseVars, fileio, sleepVars, outerVars, freed, queue, job>>

Thread(w) == ThreadTake(w) \/ ThreadDo(w) \/ ThreadAppend(w) \/ ThreadWrite(w)

(* zcoroutine_advanced_go of another thread: append under the lock, ...     *)
AdvancedGo(n) ==
    /\ n \in unborn
    /\ unborn' = unborn \ {n}
    /\ extern' = Append(extern, n)
    /\ unwritten' = unwritten \cup {n}
    /\ UNCHANGED <<baseVars, fileio, sleepVars, break, event_fd, freed, threadVars>>

(* ... then wake the loop.                                                  *)
AdvancedGoWrite(n) ==
    /\ n \in unwritten
    /\ unwritten' = unwritten \ {n}
    /\ event_fd' = TRUE
    /\ UNCHANGED <<baseVars, extern, fileio, sleepVars, break, unborn, freed,
                   threadVars>>

(* zcoroutine_base_stop_notify: a flag, and no write to the eventfd.        *)
StopNotify ==
    /\ ~break
    /\ break' = TRUE
    /\ UNCHANGED <<baseVars, extern, fileio, sleepVars, event_fd, unborn,
                   unwritten, freed, threadVars>>

(* A sleeper's time comes.                                                  *)
Expire(c) ==
    /\ c \in sleeping
    /\ sleeping' = sleeping \ {c}
    /\ due' = due \cup {c}
    /\ UNCHANGED <<baseVars, fileio, event_fd, outerVars, freed, threadVars>>

-----------------------------------------------------------------------------

Loop == LoopTop \/ TakeExtern \/ TakeFileio \/ WakeDone \/ EpollReturn
            \/ \E c \in Co : WakeSleeper(c)

Leave(c) == Yield(c) \/ Exit(c) \/ Return(c) \/ Sleep(c) \/ InnerYield(c)

Next ==
    \/ Loop
    \/ \E c \in Co : \/ Leave(c) \/ Request(c) \/ Expire(c)
                     \/ AdvancedGo(c) \/ AdvancedGoWrite(c)
    \/ \E c, n \in Co : Go(c, n)
    \/ \E w \in Threads : Thread(w)
    \/ StopNotify

Spec == Init /\ [][Next]_vars

(***************************************************************************)
(* The base thread and the block threads are scheduled by the kernel and   *)
(* epoll_wait returns within a second; a coroutine that runs gives up the  *)
(* thread sooner or later (the library is cooperative); time passes; a     *)
(* caller of zcoroutine_advanced_go finishes its call.                     *)
(***************************************************************************)
Fairness ==
    /\ WF_vars(Loop)
    /\ \A c \in Co : /\ WF_vars(Leave(c))
                     /\ WF_vars(Expire(c))
                     /\ WF_vars(AdvancedGoWrite(c))
    /\ \A w \in Threads : WF_vars(Thread(w))

FairSpec == Spec /\ Fairness

-----------------------------------------------------------------------------

Occurs(c, s) == Cardinality({i \in DOMAIN s : s[i] = c})

Lists == active \o prepare \o deleted \o extern \o fileio

(* The links prev and next are in the coroutine, so it may be in one list   *)
(* at a time, once; and only a finished request may be in a list while its  *)
(* coroutine still runs (the block thread was faster than the yield).       *)
OneList ==
    /\ \A c \in Co : Occurs(c, Lists) <= 1
    /\ current \in ToSet(Lists) => inner /\ current \in ToSet(fileio)

(* How many places will bring a coroutine back to the processor.            *)
Places(c) ==
    Occurs(c, active \o prepare \o extern \o fileio \o queue)
    + Cardinality({w \in Threads : job[w] = c})
    + (IF c \in sleeping \cup due /\ c \notin ToSet(active) THEN 1 ELSE 0)

(* A coroutine that lives is at the processor or in exactly one place that  *)
(* will bring it back, and never in two lists: no coroutine is forgotten    *)
(* and none is woken twice, whatever the order of block threads, sleepers   *)
(* and callers.                                                             *)
NeverForgotten ==
    /\ OneList
    /\ \A c \in Co :
          LET lives == c \notin unborn \cup freed \cup ToSet(deleted)
          IN  Places(c) = IF ~lives \/ (c = current /\ ~inner) THEN 0 ELSE 1

(* A freed coroutine is neither at the processor nor in any place that      *)
(* would bring it back: _remove_deleted_coroutines never frees too early.   *)
NoFreedRuns == current \notin freed /\ \A c \in freed : Occurs(c, Lists) = 0

(* The loop never sleeps on work handed in by another thread: while         *)
(* epoll_wait may block, either the eventfd is written or the thread that   *)
(* appended is about to write it.                                           *)
NoLostWakeup ==
    phase = "epoll" /\ active = <<>> /\ (extern # <<>> \/ fileio # <<>>) =>
        \/ event_fd
        \/ unwritten # {}
        \/ \E w \in Threads : thread[w] = "write"

(* A coroutine that asked a block thread for something, that was handed in  *)
(* by another thread, that yielded or that sleeps gets the processor,       *)
(* unless the base is stopped.                                              *)
Resumes ==
    \A c \in Co : c \in ToSet(queue \o extern \o prepare) \cup sleeping ~>
        (current = c /\ ~inner) \/ break
=============================================================================
