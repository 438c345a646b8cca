# lib-zc: TLA+ models, model checking and proofs

This directory is a verification development of lib-zc, a C library (with a
C++ port) for network servers: containers and text handling, an event loop, a
coroutine runtime that takes over the blocking system calls, a thread pool, a
master/service process framework, and clients and servers for several protocols
on top of them. The modules here model the parts whose correctness depends on
the order of things: threads, coroutines, processes, signals, timeouts. They are
written from the C sources (`src/src/`) and checked by TLC on small instances; every
safety property that a run shows to hold is also proved with TLAPS, for every instance.

Paths below are relative to the repository (`pthread/pool.c` is
`src/pthread/pool.c` there, `src/src/pthread/pool.c` in `PROJECT.json`).

## 1. Inventory

| component | state | operations | talks to | what is hard |
|---|---|---|---|---|
| thread pool `pthread/pool.c` | job queue, timer tree, `current_count`, `idle_count`, flags, one mutex and condition | start, job, timer, soft stop, wait; worker loop | application threads | counters kept by many threads; flags read without the mutex; threads that leave while work arrives |
| coroutine base `coroutine/coroutine.c` | lists active, prepare, deleted, extern, fileio; sleep tree; eventfd | go, yield, exit, sleep, block call, hand-in from another thread, loop, stop | block threads, other threads, epoll | one pair of links for five lists; requests published before the yield; lost wake-ups; freeing stacks |
| coroutine mutex, condition | list per mutex (head owns it), list per condition, `mutex_list` per coroutine | lock, unlock, wait, signal, broadcast, release at exit | scheduler | hand-over, re-acquisition, release at exit |
| coroutine poll | attribute per descriptor, timeout tree, `ep_loop`, `active_list` | poll, event, timeout | epoll, scheduler | timeout against event, flags that outlive a call, several descriptors |
| system call hooks | attribute table | connect, accept, read, write, close ... | poll, block threads | close during a poll |
| iopipe (`coroutine/iopipe.c`, `event/iopope.c`) | two ends, two buffers | start, copy, end | poll, aio | who frees, half-closed ends |
| aio `event/aio.c`, `event/ssl.c` | queues, timeout tree, read and write caches per aio | read, write, sleep, connect, free, loop | epoll, other threads | one node for tree and queues, frees in a handler, cache arithmetic |
| master `master/master_server.c` | services, listening sockets, children, flags; log list | load, reload, start, strike, stop; log threads | service processes, signals, files | signals against reload, children that outlive a reload, throttling |
| service `master/aio_server.c`, `coroutine_server.c` | flags, timers, two pipes | init, soft stop, detach, stop | master, event loop | end of the master at any moment |
| redis client, puny redis server, memcache, sqlite3 proxy | connections, key space | commands, replies | streams | reconnection, partial replies, expiry |
| http, websocket | connection and request state | request loop, upgrade, frames | streams | keep-alive, fragmentation |
| streams, timed I/O | buffers, error and end-of-file flags | read, write, flush | system calls | partial transfers, deadlines |
| containers, pools | red-black tree, lists, vectors, free lists | insert, delete, find | everything | structural invariants |
| cdb, msearch, encodings, hashes | files, tables | build, look up, encode | - | agreement of two halves |
| json, mime, url, xml, charset, string | text | parse, serialise | - | text; data more than control |
| C++ port `cpp_src/` | as above | as above | - | differences from the C code |

What makes each modelled component correct:

* *thread pool*: counters equal what they count; every callback is called once;
  jobs and timers are not stranded; a stop drains; the number of threads is bounded.
* *coroutine base*: every living coroutine is in exactly one place that brings it
  back; none runs after it is freed; a wake-up by another thread is not lost.
* *mutex, condition*: mutual exclusion and FIFO order; no wake-up lost or doubled;
  release at exit.
* *poll*: a poll wakes its coroutine once, for a reason of its own call, and returns.
* *aio*: an aio is linked in one place; an operation is always where the loop finds
  it, and calls back once; a hand-over or a stop by another thread is seen; the caches
  are byte queues.
* *master, service*: children are counted and within the limit; no pointer to a
  freed service; sockets survive a reload; old processes drain; signals count.

`PROJECT.json` lists every component with its status, and the hazards of the
code, each at its line with the properties that watch it.

## 2. Modules

| module | models | extends / uses |
|---|---|---|
| `ThreadPool` | `pthread/pool.c` | |
| `CoBase` | scheduler, block threads and loop of `coroutine/coroutine.c` | |
| `FifoLock` | what a mutex promises: a holder and a line | |
| `CoMutex` | mutexes and conditions of `coroutine/coroutine.c` | instantiates `FifoLock` |
| `CoPoll` | `_co_poll` and its part of the loop | |
| `Aio` | the event loop of `event/aio.c` (and `event/ssl.c`): queues, timeouts, epoll, operations | |
| `AioClient` | a program over `Aio` that follows `doc/aio.md` | extends `Aio` |
| `Iopipe` | `event/iopope.c` over `Aio` | extends `Aio` |
| `ByteFifo` | what a cache promises: bytes come out once and in order | |
| `AioCache` | the read and write cache of an aio, with the operations that wait on them | instantiates `ByteFifo` |
| `Service` | the life of a service process, `master/aio_server.c` | |
| `Master` | `master/master_server.c`, composed with `Service` | extends `Service` |
| `MC...` | instances for TLC, where the constants need definitions | the module of the same name |
| `Occurrences` | lemmas on sequences: how often an element occurs, cutting one out; induction in terms of sets | TLAPS and its theorem modules |
| `ThreadPool_proof`, `CoBase_proof`, `CoMutex_proof`, `CoPoll_proof`, `AioCache_proof` | theorems | the module of the same name, `Occurrences` |
| `Aio_proof` | theorems about `Aio` under `AioClient` | `AioClient`, `Occurrences` |
| `Master_proof` | theorems about `Master` with `Service` | `Master`, TLAPS |

Definitions called "wrong on purpose" in a comment are variants of the
definition that follows them, with a bug one could well write. Replacing the
definition by its variant makes TLC report the property that `PROJECT.json`
("mutants") names: each property is known to be able to fail.

### ThreadPool

One action per region between lock and unlock of the pool's mutex. What the code
reads without the mutex is a step of its own: the stop test of the worker loop
(`WorkerLoop`), the tests of `zpthread_pool_job` and `zpthread_pool_timer`
(`JobTest`, `TimerTest`) and the poll of `current_count` in
`zpthread_pool_wait_all_stopped` (`WaitReturn`). `WorkerUnlock` is apart from
`WorkerFini` since the owner can see the count before the mutex is free. A wait
on the condition is the state `pc = "wait"`, and a worker may leave it at any
time, as a condition variable allows; `GetWait` goes back to waiting. Time is
whole seconds (`Tick`), kept as what is left of each timer and what each idle
worker has waited. `runs` and `early` are history.

### CoBase

The base thread runs one coroutine at a time and gives up the processor only in
`zcoroutine_yield_my` (`Switch`), so a coroutine's step between two switches is
one action. The exception is a block call: `Request` publishes it, `InnerYield`
switches, and a block thread may be faster. The loop is cut where it reads what
others write: `LoopTop`, `TakeExtern`, `TakeFileio`, `WakeSleeper`, `WakeDone`,
`EpollReturn`. Block threads: `ThreadTake`, `ThreadDo`, `ThreadAppend`,
`ThreadWrite`. Another thread hands in a coroutine in two steps, `AdvancedGo`
(append) and `AdvancedGoWrite` (eventfd).

### CoMutex and FifoLock

A mutex is its list `colist`; the head owns it, and an unlock moves the next one
to `ready` (`Handover`). `CondWait` unlocks, queues and switches; the woken
coroutine takes the mutex again in `Relock`. `mutex_list` is what
`zcoroutine_release_all_mutex` goes through (`ReleaseOne`) when the coroutine
ends. `holds` and `handed` are history: what the coroutine has locked and not
unlocked, and of it what an unlock by somebody else has given it and it has not locked
again since. `ExitReleasesListed` compares them: `mutex_list` is always what the
coroutine owns apart from what was handed to it, so that one that has ended owns
nothing it took by itself.
`FifoLock` is the abstract lock; the mapping takes the head of `colist` as the
holder and the rest as the line.

### CoPoll

`Poll` registers the descriptors and switches; the loop walks the timeout tree
(`VisitTimeout`), calls `EpollWait`, visits the events (`VisitEvent`) and runs
the active coroutines; `SwitchTo` is the rest of `_co_poll` after the switch.
The event vector has its size and grows. The kernel (`Arrive`, `Consume`) and the
clock (`Expire`) are on their own. A program has one poller per descriptor at a
time (`Allowed`), and it has to: `_co_poll` ends the process with "mutli monitor fd"
when `in_epoll` is set, but nothing ever sets it, so a second poller is not
stopped; without `Allowed`, `WokenOnce` fails at the second `Poll`.

### Aio, AioClient and Iopipe

One thread runs the loop and all callbacks. An action is one pass through a handler
of `_active_vector` (`Serve`, with one operator per handler for what it may decide),
or one call that a callback makes of the engine; the calls a callback has still to
make are its `script`, so that the state between two of them is visible. Another
thread links an aio (`OtherIssue`) or sets the stop flag (`OtherStop`) and then,
as a step of its own, writes the eventfd (`OtherTouch`).

`rbnode_time` is the one node by which an aio hangs in the timeout tree and in each
of three queues, and a wrong relinking shows only in the pointers. So `links` keeps
head, tail, prev and next as `ZMLINK_APPEND`, `ZMLINK_DETACH` and `ZMLINK_CONCAT`
leave them, apart from the flags (`inq`), and `Walk` is what one finds by following
them from the head: the smallest set that has the head and, with an aio, the next one.
`Settled` forgets the links of an aio in no queue, which nothing reads. `pend` is history: operations
whose callback is to come.

Data is abstract: a socket holds up to `MaxRx` units, and an operation asks for a
number of them (`Wants`, kept in `want`). A read waits until its cache has what it wants
(`Filled`), a write until the kernel has taken everything (`Writing`, `Unsent`). An event
that brings only a part, or lets the kernel take only a part, makes it wait again and
re-arms its timer; an event that brings nothing is an error or the end of the stream. A
compressed integer may turn out to be none, and fails with its bytes left in the cache. A
TLS handshake may want either direction any number of times. `is_want_read` and `is_want_write` are part of what a handler decides. The
return values -1 and -2 of a timeout are one ("timeout"), since `is_io_ok_once`, which
chooses between them, has no other effect. `sleep0` is a sleep of less than a second,
`data` the second half of `zaio_get_cint_and_data`. The aios of a due deadline are
served in any order. `zaio_base_timer` is a creation, a sleep and a free, all of which
the program of `AioClient` may do.

`AioClient` is what `doc/aio.md` allows: a callback operates its own aio or one that is
in no context, frees its own only, and another thread operates an aio after
`zaio_disable`. One rule is stricter than the manual (`Careful`): after readable or
writeable, which stay registered, a program does not go on with another operation
while an old event may overtake it, and disables the aio first. Without it, with
`Careful` set to FALSE in `Aio.cfg`, TLC reports two violations. `LinkedOnce`: a readable
times out, its callback starts another operation, and an event of the same round serves
the aio while it is in the incoming queue, so that one node is in the queue and in the
tree. `CompletesOnce`: that event completes the new `zaio_read`, and then the loop
serves the aio again from the queue, so that its callback runs twice for one call. `Found`
and `NoLostTouch` hold all the same. The manual does not forbid such a program, so the
rule is an assumption on the user that the code needs.

`Iopipe` runs the three callbacks of a pipe instead. It breaks the rules above: a
callback operates, and frees, the partner. `ServeFreed`, the event of an aio that a
callback before it in the vector has freed, is possible there only; what follows is
undefined, so nothing follows.

### AioCache and ByteFifo

A cache is the chain of buffers with their inclusive indexes `p1` and `p2`, its
`length`, and the bytes, numbered as they come. `Appended`, `Shifted` and `FirstLine`
are the three functions on a chain; the loops over bytes are one sequence expression.
On them: writing and flushing (`CacheWrite`, `CacheFlush`, `Write`, `Written`), the
four ways to wait for input (`LookAny`, `LookN`, `LookLine`, `LookCint`, and `More`
when bytes come), and taking bytes out. `Final` are the bytes that end a line or an
integer. `DirectSpec` adds `zaio_cache_write_direct`; it stops short of a write after
it, which would write over the long buffer's own indexes.

### Master and Service

`Service` is a process: forked, serving, told to stop, draining under a timer,
detached, ended. A SIGTERM between fork and `execvp` meets the master's handler, which
the child still has, and does nothing (`SigtermLost`).

`Master` is the loop of the master: a turn looks at the flags (`LoopReload`, which clears
the flag, `LoopStart` or `LoopStop`, which is `fini_all`). A reload has the steps of the
code. `ReloadServer` renews the pipe, frees the services, clears the `used` flags of the
sockets (`set_listen_unused`) and reads the files. `PrepareListen` is one address of one
file: a marked address is an error, an open one keeps its socket, any other is opened, and
it is marked and given to its service; `todo` is what is still to come. `ReleaseUnused`
closes what is not marked and deals with the children (`release_unused_listen`,
`remove_old_child`). So the sockets after a reload are computed from the flags, and
`ListenExact` and `SocketKept` compare them with the configuration. `StartAllChild` forks:
any number up to the limit, since a fork may fail and a round within 100 ms of the last
starts nobody. `ChildStrike` handles an ended child. The ends by `zfatal` are
`ReloadFatal` (no pipe, no directory), `PrepareFatal` (a path or address that fails) and
`StartFatal` (no pipe for one more child).

The signal handlers only set flags and come between any two of these. Master and
processes meet in two pipes: the master closes the read end of its pipe in a
reload and by ending (`PipeClosed`), a process closes its own by ending or
detaching (`StatusClosed`). A generation number tells a freed service from a new
one and a kept socket from a reopened one. Of time there is only what the code
compares: a service may be put off (`throttled`), and a child that ends may have any
age. `flag_stop` of a process and its end are one step, since nothing in between reaches
the master.

## 3. Runs

| run | instance | result |
|---|---|---|
| `pool_safety` | 3 jobs, 1 timer, 3 thread identities, min 1, max 2 | `CurrentMatches`, `IdleMatches`, `CountBound`, `TaskOnce`, `AllStopped`, `ServedUnlessTimerOrLeave` hold |
| `pool_liveness` | 2 jobs, 1 timer, min 0, max 2 | jobs and timers are served, a stop drains |
| `co_base` | 3 coroutines, 1 block thread | `NeverForgotten`, `NoFreedRuns`, `NoLostWakeup` hold; who asked, yielded, slept or was handed in runs again, until a stop (`Resumes`) |
| `co_mutex` | 3 coroutines, 2 mutexes, 1 condition | exclusion, one place, release at exit, refinement of `FifoLock`, locks are granted |
| `co_mutex_exit` | 2 coroutines, 1 mutex | finding 1 |
| `co_poll` | 2 coroutines, 2 descriptors, event vector 1 growing to 2 | `WokenOnce`, `ReportsOnlySeen`, `TimeoutHonest` hold; every poll returns |
| `aio` | 2 aios, one with timeouts and all operations; reads and writes of up to 2 units, which come one at a time | `LinkedOnce`, `Found`, `NoLostTouch`, `CompletesOnce` hold; operations with a timeout end, a stop ends the loop |
| `aio_pipe` | 2 pipes on one base | finding 3 |
| `aio_cache` | buffers of 3, 11 bytes in pieces of up to 7 | both caches implement `ByteFifo`, `FlushSendsAll`, `ReadsExact` hold |
| `aio_cache_direct` | buffers of 2, 7 bytes | finding 4 |
| `master` | 2 processes, 2 services, 2 addresses, 2 loads of 3 configurations | `NoDangling`, `CountMatches`, `ListenExact`, `SocketKept` hold; old processes drain, a stop ends everything, services fill up, a SIGHUP during the loop is not lost |
| `master_lost_hup` | 2 processes, 2 loads | finding 2 |

*Bounds.* Each is the smallest at which the case in question happens. Pool: two
workers race for work while a third is created or leaves, jobs and the timer compete
for one wake-up, and min 0 in the liveness run lets the pool be empty. Base: one
coroutine runs, one is on its way through a list, one is at the block thread or waits
for it, which is at its limit. Mutex: an owner and a line of two, or one who waits on
the condition, one who queues and one who signals; two mutexes allow holding several
at exit and waiting in a cycle. Poll: two events against a vector of one leave one for
a later round, and one coroutine may poll both descriptors. Aio: one aio runs through
every operation while the other is handed over, read, disabled, freed and created
again around it; with the aio of the eventfd a queue has up to three nodes, so that
one can be first, in the middle and last. A read wants two units of a socket that holds
one, so that it needs two events and waits again in between. Pipes: two, since a queue cut off behind a
pipe's own partner hurts another pipe. Cache: a buffer of three is partly filled,
exactly full and partly used up, and a piece of seven spans three of them; an integer
may be too long (`MaxCint`). Master: two loads let a reload meet every state of the
processes of the first; of the configurations one has a service with two processes, one
gives its address to the other service together with a new one, and one has both on the
same address, which is an error. The two services are never up together, which would be too large for the
temporal properties. `MaxGen` bounds the loads, `MaxDelay` the delays, `MaxRx` what a socket
holds, `Wants` what an operation asks for, `MaxByte` what comes, and the number of identities the processes, threads,
coroutines and aios. Safety and liveness share one instance except in the pool, where
the safety run is larger; only there identities are symmetric.

*Deadlock* is checked where the system goes on for ever (`co_poll`); the others may
stop: a stopped pool, a base or master or event loop that has ended, coroutines that
have all ended or wait for each other's mutexes, a stream of bytes that is used up.

*Fairness.* Threads, the loops and processes that can run do run (weak fairness
per thread): the kernel schedules them. Clocks go on (`Tick`, `Expire`, `Permit`),
and a call that another thread has begun goes on (`JobPush`, `AdvancedGoWrite`).
In the coroutine modules a running coroutine eventually switches, ends or unlocks
what it holds: without preemption nothing else can run before; for `LockGranted`
this is strong fairness of `Unlock`, the usual assumption on users of a lock.
In `AioClient` the loop's thread runs, callbacks return, deadlines pass and the other
thread does not stop between linking an aio and writing the eventfd.
Nothing is assumed of events on descriptors, of peers, of new jobs or of signals.
`OpCompletes` holds whatever the peers do: a peer that sends in small pieces has the timer
re-armed with each, but an operation wants so many units only. A TLS handshake is
excluded, because it may wait again and again. In
`Master`, neither do forks fail for ever nor is every round within 100 ms of the one
before (strong fairness of a round of starts in which none fails), a child that ended is struck (strong fairness: every turn of the
loop asks epoll again), and `Filled` speaks only of behaviours in which processes
stop ending.

## 4. Findings

1. **A mutex that is handed over is not released at exit.**
   `zcoroutine_mutex_lock` enters a mutex into `mutex_list` only when it is taken
   at once; a coroutine that had to wait returns without. When it ends, the mutex
   keeps its owner for ever. `sample/coroutine/cond_test.c:25` says "auto release
   all mutexs when a coroutine exit" (run `co_mutex_exit`). `ExitReleasesListed`
   states what holds: only what was handed over is left. `LockGranted` has the exception
   of a coroutine that ended with such a mutex (its other exception is a
   coroutine that keeps one mutex while it waits, which may deadlock).
2. **A SIGHUP during start-up is lost.** `zmaster_server_main` clears `flag_reload`
   after the first `reload_server`. `general_master.sh reload` considers the master
   running from the lock on the pid file on, and says "refreshing the system" (run
   `master_lost_hup`). The window is all of that reload and the first starts: files that
   are changed after they were read, and the SIGHUP sent for it before the flag is
   cleared, go unnoticed. TLC may print the edit and the signal in either order; both are
   lost alike. In the loop the flag is cleared before the files are read,
   which is what `ReloadApplied` shows to be right.
3. **A pipe cuts off the queue of the loop.** `_zaio_enter_incoming` tests
   `in_incoming_queue`, not `in_tmp_queue`. A pipe reads both its ends; when the first
   has something at once, its callback flushes the second, which is next in the queue
   that `_check_incoming` works through. `ZMLINK_APPEND` clears the node's `next`, and
   everything behind it is never served. `doc/aio.md:403` says of `zaio_read` that the
   callback is called after success, failure or timeout (run `aio_pipe`). Two more
   things that TLC finds in `Iopipe` are not runs: with one pipe `LinkedOnce` fails for
   the same reason, and `ServeFreed` is reached, when both ends fail in one round and
   `_release_pair` frees the one whose event is still in the vector.
4. **`zaio_cache_write_direct` loses bytes.** The last index of a long buffer is
   inclusive, and `___zaio_cache_shift` frees the buffer when the first index reaches
   it: a last single byte is dropped and the flush reports success. It also links the
   buffer behind the head, so that what was queued after the head is lost, and does not
   count its length. `doc/aio.md:466` says that the buffer is linked into the write
   cache (run `aio_cache_direct`).

## 5. Proofs

All theorems hold for every value of the constants that the assumptions in the modules
allow: any number of jobs, timers, descriptors, aios, services and bytes; finite sets of
threads, coroutines and processes where something is counted; `min_count` and
`max_count` in any order; any size of a buffer; and markers (`NoTask`, `None`) that are
not members of the sets. `PROJECT.json` lists the theorems with what each says.

None of the properties is inductive as it stands. What each proof adds:

*ThreadPool_proof.* For `CurrentMatches`, the set `Live` of threads that have their
place changes in a step by nothing, one new element or the loss of one (`LiveStep`),
and `current_count` with it. `CountBound` needs `BoundInv`: `zpthread_pool_start` counts
up without a test, so the bound is in terms of the rounds it has made. `IdleMatches`
needs `NodeInv`, in which phase each flag of a worker's node may be up: `idle_count` is
changed in one place for a change that happens in another. For `TaskOnce` the places of
one task are added up as numbers (occurrences in the queue, in the tree, holders, calls),
and every step moves one. `AllStopped` rests on `StopInv`: a job pushed after the stop is
one whose test came before.

*CoMutex_proof.* Mutual exclusion says nothing about those who wait. `IInv` adds where a
coroutine may be according to its `pc` (`ReadyAt`, `LineAt`, `CondAt`, `RunAt`): whoever
is in a line behind the head waits for exactly that mutex, once and nowhere else, and
whoever is ready after a hand-over is the head. It is stated over values (`InvAt`), so
that an unlock, a part of `Unlock`, `CondWait` and `ReleaseOne`, is proved once and used
with intermediate values. The refinement maps each change of a `colist` to a step of
`FifoLock`. `Everywhere` is the other half of `OnePlace`: nobody is in no place.
`ExitInv` says that `mutex_list` names, once each, exactly the mutexes that the coroutine
owns and that were not handed to it; after the release loop it is empty, so what is still
owned was handed over.

*CoBase_proof.* `WakeInv` extends `NoLostWakeup` over the whole part of the loop between
taking a list and reading the eventfd. `NeverForgotten` and `NoFreedRuns` follow from
`CoInv`, an equation for each coroutine: its occurrences in the six lists, with the block
threads and in the sleep tree add up to one, or to none while it is at the processor or
gone.

*CoPoll_proof.* `PollInv`: the tree and epoll are the descriptors of the polls under way,
each leads back to its coroutine, and a deadline passes for all descriptors of a poll.
`ActiveInv`: the flag says whether the coroutine is in the list, once. For `TimeoutHonest`,
`HonestInv` says why a coroutine is ready: a report on one of its descriptors, or its time
was over and `epoll_wait` has looked since or will before it runs.

*Aio_proof.* The queues are right (`Queues`) when each is a sequence of distinct aios
linked in its order and no two share one; append, detach and concat are shown to keep
that, and `Walk` to find exactly the members, by induction along the sequence. Then
`EngineInv`: where an aio may be and what epoll may watch, by its operation
(`NodeInv`), by the phase of the loop (`PhaseInv`) and by the call a callback is about to
make (`CallInv`). What a handler may do is stated once (`Decided`, `DecidedOutcomes`): it
never waits after a timeout, waits again after an event only with an operation that does
not stay registered, and shifts no more out of the cache than is there. The hypothesis `Careful` is the rule of section 2, which holds in the
run `aio` as well; without it the properties fail, as said there.

*AioCache_proof.* `FlattenSeq`, the content of a chain, is a recursive function; that it
exists and turns concatenation into concatenation is shown by induction over its steps.
From there: new buffers hold the bytes they are made for, filling the tail and adding
buffers appends (`AppendedHolds`), freeing buffers and moving `p1` takes away from the
front (`ShiftedHolds`), with `p1 <= p2` in every buffer. `CacheInv` adds that `length`,
which is only counted, is the length of the content, that what left and what is there are
the bytes that came, and, for a line, that what was looked through once has no delimiter
and is shorter than the line may be. The theorems are about `Spec`; with
`zaio_cache_write_direct` (`DirectSpec`) they fail, see finding 4.

*Master_proof.* `NoDangling`, `CountMatches` and `ListenExact` are inductive together
with the types, `PipeBound` (no process has a pipe of a generation to come) and
`Reloading`, which says how far a reload is: every address of the configuration is given
to its service or still to come, a marked address is open, and nobody was forked in the
new generation. The count of a service is right because a process with a pointer belongs
to what is loaded now. `ListenExact` follows when nothing is left to come, as the marked
addresses are then those of the configuration; `SocketKept`, because what
`ReleaseUnused` closes is not marked and so not asked for.

*Only model-checked.* Liveness: `TaskServed`, `StopDrains`, `Resumes`, `LockGranted`,
`PollReturns`, `OpCompletes`, `LoopStops`, `OldDrain`, `StopEnds`, `Filled` and
`ReloadApplied`, because fairness and ENABLED are beyond the prover. The findings are
counterexamples, which TLC gives. Nothing about `Iopipe` is proved: its properties fail
(finding 3). The library's induction theorems take a predicate as a parameter, which the
provers cannot instantiate; where a proof needs induction it uses `SetInduction` of
`Occurrences`, which has a set instead.

## 6. Not modelled

The modules stand for some 3,000 lines of six files (`pthread/pool.c`,
`coroutine/coroutine.c`, `event/aio.c`, `event/iopope.c`, `master/master_server.c`,
`master/aio_server.c`), out of some 44,000 lines of C in the library and as many in
the C++ port: the concurrent core, and a small part of the whole. `PROJECT.json` has
the reason for each part. In the modelled files: the statistics functions of the
pool; `zcoroutine_base_fini`, the stack switch in assembly and the system call hooks;
closing a descriptor during a poll and failures of `epoll_ctl`; moving an aio to
another base, freeing a base, the lists for others, `loop_fn`, the growth of the event
vector of aio (a larger vector holds what a second round would) and the inner states
of a TLS stream; the log threads and pid lock of the master, reuse of process numbers,
and the accepting of connections in a service. Parsers and codecs of text are data
rather than control.

## 7. Plan

In this order, the most exposed first.

1. Proofs: the safety properties of the runs are done. What is left are statements of
   which no run exists yet: `Aio` and `AioCache` together, so that a flush that is called
   back has sent its bytes; a `Spec` of `Iopipe` with finding 3 repaired.
2. `MasterLog`: the receiving and the saving thread, their mutex and the end.
   `coroutine_server.c` against the same `Service` interface.
3. Coroutine descriptors: attribute table, the close hook against `CoPoll`, and
   `zcoroutine_base_fini` against the block threads; `coroutine/iopipe.c`.
4. Streams and timed I/O: buffers, end of file, deadlines; then the redis client,
   memcache client and sqlite3 proxy as request/answer protocols on a connection
   that can be lost; the puny redis server's key space with expiry.
5. Pure algorithms against a reference definition: red-black tree, vector,
   memory pools, base64, cdb (what the builder writes, the reader finds), msearch,
   the compressed integer.
6. http keep-alive loop and websocket frames.
