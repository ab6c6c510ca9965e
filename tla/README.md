# Verification of spe

spe is a single-threaded event library in C for Linux: a task scheduler with
timers, an epoll table, non-blocking connections with callbacks, and services
(HTTP, Redis client, monitor) written as drivers over those connections. Beside
the main thread there is a thread pool, and a server may run as several processes
that share a listening socket. The modules in this directory are translated from
`src/spe/`; `PROJECT.json` maps every definition to the lines it stands for.

## Contents

1. [The system](#1-the-system)
2. [What is modelled](#2-what-is-modelled)
3. [The runs](#3-the-runs)
4. [Fairness](#4-fairness)
5. [What is proved](#5-what-is-proved)
6. [Disagreements found](#6-disagreements-found)
7. [What is not modelled](#7-what-is-not-modelled)
8. [Plan](#8-plan)

## 1. The system

Everything runs in the loop of `spe_main.c:64-72`:

    while (!GStop) {
      timeout = work is queued ? 0 : 300 ms
      serverBeforeLoop();      // try the accept mutex, watch the listening socket
      epollProcess(timeout);   // events become queued tasks
      serverAfterLoop();       // release the accept mutex
      taskProcess();           // due timers become queued tasks; run the queue until it is empty
      speSignalProcess();      // call the handlers of the signals that arrived
    }

| component | state it keeps | operations | used by / uses |
|---|---|---|---|
| **Task scheduler** `spe_task.c` | run queue `task_head`, timer tree `timer_head`, `gTaskNum`; per task `status`, `expire`, `Timeout`; and for other threads `threadTask_head`, `gThreadTaskNum`, a lock | `SpeTaskEnqueue`, `SpeTaskDequeue`, `SpeTaskEnqueueTimer`, `SpeTaskDequeueTimer`, `SpeThreadTaskEnqueue`, `SpeThreadTaskDequeue`, `taskProcess` | called by everything, from inside handlers too |
| **Event table** `spe_epoll.c` | `all_epoll[fd]`: two task pointers and a mask; the epoll and event descriptors | `epollEnable`, `epollDisable`, `epollProcess`, `epollWakeup`, `epollFork` | enqueues tasks |
| **Connections** `spe_conn.c` | `all_conn[fd]`: four tasks, request types, timeouts, flags, three buffers | create, connect, three reads, writes, flush, set timeout, destroy; static handlers `connectNormal`, `readNormal`, `writeNormal` | scheduler, event table, sockets; calls back into the program |
| **Server** `spe_server.c`, `spe_shm.c` | listening descriptor, listen task, process-shared mutex and the local belief `acceptMutexHold` | init, deinit, before/after the poll, accept | event table, connections; shared between processes |
| **Main loop** `spe_main.c` | `GStop` | start-up order, `SpeProcs`, the loop | all of the above |
| **Signals** `spe_signal.c` | a queue of signal numbers and a count per signal, written by the signal handler | register, handler, process | main loop |
| **Thread pool** `spe_tpool.c` | `gTpool`: free list with a lock, thread count; per thread a lock, a condition, a handler slot, a stop flag | `SpeTpoolInit`, `SpeTpoolDo`, two thread routines, `SpeTpoolDeinit` | real threads beside the main one |
| **Redis client** `spe_redis.c` | per client a status, the reply being collected, `blockLeft`; a pool of idle clients | do/get/set, pool get/put, a driver of six states | connections |
| **HTTP server** `spe_http_server.c` | registered handlers; per connection a request with parser, url, headers | accept handler, driver, dispatch, finish, destroy | server, connections, http_parser, map, regular expressions |
| **Monitor** `spe_monitor.c` | listening descriptor; per connection a two-state driver | init, accept, driver | event table, connections |
| **Strings, map, options** `spe_string.c`, `spe_map.c`, `spe_opt.c` | growable buffers, string lists; a chained hash map; sections of a configuration file | copy, append, consume, search, split; get/set/del; lookup | sequential, used by the drivers |
| **Lists and tree** `spe_list.h`, `spe_rbtree.c` | the pointers of circular lists, hash chains and the red-black tree | add, delete, move, splice, cut, replace; insert, erase, replace, walk | scheduler (tasks, timers), map, drivers |
| **Blocking I/O** `spe_io.c` | a descriptor with two buffers | read, read until, write, flush with poll timeouts | options |
| **Blocking connection** `leagcy/spe_conb.c` | a table of sockets with a buffer each | connect, read, read until, write, destroy, with `select` timeouts | no caller |
| **Object workers** `leagcy/spe_worker.c` | a queue of objects, each with a status and a list of messages | init, send, worker threads | no caller |
| **Coroutines** `leagcy/spe_routine.c` | contexts, the running one, who resumed whom | create, resume, yield, destroy | no caller |

What is hard about it, and what makes each part correct:

* *Scheduler.* Handlers call the scheduler about any task, their own included,
  while `taskProcess` walks its lists. Four pieces of state (list, tree, status
  word, counter) say the same thing and must agree after every order of calls,
  because the run loop only tests the counter and then dereferences the first
  list entry. A handler must not be re-entered, timers must fire in order and
  not early, queued work must not starve.
* *Connections.* One request touches the task status, the timer tree, the event
  mask, the request type and the callback task; events are turned into tasks
  first and handled later, when a timeout, another callback or a destroy may have
  happened. Every accepted request must end in exactly one callback with the
  right flags; a destroyed connection must leave nothing behind for the next one
  in the slot; a reader must not wait for data it already has.
* *Server.* The mutex is tried once per loop; the local belief, the epoll
  registration and the lock must agree; a process may die while holding it.
* *Signals.* The handler can be interrupted by another signal between reading
  and writing the queue length.
* *Thread pool.* Some accesses are outside the locks (the test of the free list,
  the reset of the handler slot, the stop flag); no job may be lost or
  overwritten, no wake-up missed, and shut-down must not free memory in use.
* *Drivers.* State machines over callbacks, with buffers cut at any byte, errors
  in every state, and objects that must be freed exactly once.
* *Lists, tree, strings, map.* Pointer surgery with special cases (neighbours,
  empty and single lists, eight cases of rebalancing, memory that is used again)
  that must mean the same sequence, order, text or dictionary after any history.
* *Object workers.* The sender gives up if the object is not free, the worker looks
  for messages without their lock: neither may lose one, and no object may be
  with two workers.

The individual hazards, each with its line and the properties that cover it, are
listed in `PROJECT.json`.

## 2. What is modelled

| module | code | how |
|---|---|---|
| `TaskQueue` | data and operations of `spe_task.c` | A scheduler state is one record; each C function is an operator from state to state. The list is a sequence. The red-black tree is the sequence of its in-order walk: `TimerSlot` is the position the descent reaches (equal keys go right), `rb_first` is `Head`. |
| `SpeTask` | `taskProcess` and the loop around it | One action per call a handler or outside code may make, one per step of the two loops of `taskProcess`. `pc` is the place of the main thread, `running` the task whose handler is on the stack, `curr_time` the sample `taskProcess` takes. |
| `TaskLifecycle` | what the scheduler promises | Abstract: one line of work in order, one alarm per task, at most one active task. No lists, tree, status words or counter. |
| `SpeEpoll` | `all_epoll` of `spe_epoll.c` | The table and its operations as operators; `DispatchEvent` is one round of the event loop. |
| `SpeConn` | `spe_conn.c`, `spe_conn.h` | An action per API call and per static handler, over an instance of `SpeTask` whose tasks are the four of each connection. Around it the kernel and the peer (external), and the program, which may call the API from a callback and from any other task. |
| `SpeTpool` | `spe_tpool.c` | One action per critical section and per access outside the locks, for each pool thread, each thread of its own, and the callers. |
| `SpeServer` | `spe_main.c`, `spe_server.c`, `spe_spawn` | Start-up and loop of several processes, one action per step between two calls of the mutex or the kernel. |
| `SpeSignal` | `spe_signal.c` | `signal_handler` in its machine steps, one activation on top of another; the main thread runs while none is active. |
| `SpeThreadTask` | the half of `spe_task.c` for other threads, `epollWakeup` | One action per critical section and per test outside the lock. |
| `ConnSpec` | `spe_conn.c` as a driver sees it | Abstract: per direction no request, one that waits, or one whose callback is queued (a connect is one request); the connection has ended or not. Operators from one connection to the next. |
| `ConnLifecycle` | what `spe_conn.c` promises a program | Abstract: the calls of a program and the callbacks it gets, as steps from one `ConnSpec` connection to the next, and the one callback that is on the stack. No event table, timers, bytes or sockets. `SpeConn` implements it. |
| `SpeRedis` | `spe_redis.c` | The driver and its states, the commands and the pool, over `ConnSpec`. A reply is a sequence of tokens; how many have arrived together is the network's choice. |
| `SpeHttp`, `SpeMonitor` | `spe_http_server.c`, `spe_monitor.c` | The life of the object that belongs to a connection, over `ConnSpec`. |
| `SpeList`, `SpeHlist` | `spe_list.h` | Each function is an operator on the pointers, in the order of its assignments; beside it the sequences the lists are meant to be. |
| `SpeRbtree` | `spe_rbtree.c`, the descent of `spe_task.c:87` | Pointers and colours; what the code writes twice is written once with a side as parameter. |
| `SpeString` | `spe_string.c` | A string is its memory and a window on it. Unwritten memory is visible as such. The loop of `SpeStringSplit` is a function of the number of turns. |
| `SpeMap` | `spe_map.c` | Chains and the list of items are sequences, which is what `SpeHlist` and `SpeList` show. A key is a value with the prefix an item keeps of it. |
| `SpeIo`, `SpeConb`, `BlockingRead` | `spe_io.c`, `leagcy/spe_conb.c` | Byte sequences that arrive in any pieces; `BlockingRead` has what both wait for. |
| `SpeOpt` | `spe_opt.c` | A file of abstract lines, and the list of options it makes. |
| `SpeWorker` | `leagcy/spe_worker.c` | One action per critical section and per test outside the locks, for each sender and each worker. |
| `SpeRoutine` | `leagcy/spe_routine.c` | Who runs, who resumed whom, what is allocated. |
| `Drivers`, `Structures` | | The parts of the library that serve somebody, and its data structures and blocking readers, each as an instance with variables of its own. |
| `SpeTaskProofs`, `SpeConnProofs`, `AnswerProofs`, `SpeTpoolProofs`, `ProcessProofs`, `DriverProofs`, `StructureProofs`, `ListProofs` | | Lemmas and theorems, section 5. |
| `MCSpeTask`, `MCSpeConn`, `MCSpeTpool`, `MCSpeThreadTask`, `MCSpeRedis` | | Constants for the runs of one module; `MCSpeTpool` for `tpool_deinit` only. |
| `MCProcesses`, `MCLibrary` | | One run over several parts (server, object workers and thread pool in `MCProcesses`; those of `Drivers` and `Structures`, with the tree, in `MCLibrary`) that do not interact: the first state chooses the part that moves, so the states are the sum and not the product of the parts. |

How the parts interact: `SpeConn` is composed with the scheduler (`SpeTask`, an
instance) and the table (`SpeEpoll`); the drivers (`SpeRedis`, `SpeHttp`,
`SpeMonitor`) with `ConnSpec`, the abstract connection, which `SpeConn` is shown to
implement (`ImplementsConnSpec`); `SpeServer` takes
`taskProcess` as one step, in which a queued `serverAccept` runs; `SpeTask` and
`SpeMap` take lists and tree as the sequences `SpeList`, `SpeHlist` and `SpeRbtree`
show them to be.

### State of SpeConn

`conn[c]` is the `SpeConn_t` of slot `c`; `epoll[c]` its `all_epoll` entry;
`sched` the scheduler; `net[c]` what the kernel and the peer know of the
descriptor; `req[c]` a history variable with the requests the program has made
and not yet been called back for. `events[c]` is what `epoll_wait` has reported of
the descriptor and the loop over the events has not come to yet; it comes to the
descriptors in any order (`EpollDispatches`). `frame` says whose code is on the
stack: the loop over the events (`"polled"`), a static handler about to run
(`"body"`), a callback of the program (`"user"`), or the tail of a handler that
calls nobody (`"return"`). A call that may be answered at once or later has an
operator for each: `ConnectReturns` and `ConnectStarts`, `ReadAnswered` and
`ReadWaits`, `FlushNothing` and `FlushWaits`. A static handler is one
step, because the main thread is the only one that touches its state; the
program's callback at its end is a separate phase in which any number of API
calls may follow.

Bytes are counted: byte *i* of the peer's stream is the number *i*, `got` is what
`read()` has delivered, `taken` what has been handed to the program, so
`readBuffer->len` is `got - taken`. The delimiter is one byte at the positions
`Delims`. `Answer` is the test that both the synchronous path of the read calls
and `readNormal` make.

The program follows the ASSERTs of the API: one read and one flush outstanding
per connection, reads and flushes only once the connection is up, and
`SpeConnSetTimeout` between requests, which is how `src/example/` and the
services use it. Within that it is free: it may destroy any connection from any
callback, reuse the slot at once, or never call anything.

### State of SpeTpool

`place[t]` is the place of pool thread `t` in `threadRoutine`; `caller[c]` the place
of a caller in `SpeTpoolDo`, with its job and the thread it took. Locks need no
variable: no holder blocks inside, so a critical section is one step, and what
the code does outside them (the test of the free list at line 113, the second
read of `stop` at line 66, `handler = SPE_HANDLER_NULL` at line 69) is a step
of its own. `pthread_cond_wait` may wake without a signal. The thread structures
lie inside `gTpool`; after `free(gTpool)` any step of a thread is undefined and
the model stops there, which is why its runs do not check for deadlock. Names of the module that the other
parts of the run `processes` have too begin with `Pool`.

### State of SpeServer

`pc[p]` is the place of process `p` in `main` and its loop; `acceptMutexHold[p]` the
flag of `spe_server.c`, `watched[p]` the mask of the listening socket in the
process's own epoll, `ready[p]` whether `listenTask` is queued. `owner` is the
process that has locked the shared mutex. The flag outlives the unlock: a process
that held the mutex in its last loop and gets it again need not call
`epollEnable`. A process may be killed at any place of the loop; the kernel closes
its descriptors but the mutex is not robust. `mod_init` is the program's: it calls
`SpeServerInit` and `SpeProcs` in any order and also again, or neither, or fails.

### State of the drivers

A driver of `SpeRedis`, `SpeHttp` or `SpeMonitor` has a connection record of
`ConnSpec`. An action is a callback of that connection (data, write done, error,
end) with everything the driver does in it, or a call of the program. What a call
returns now and what is answered later is a choice; a request that is answered at
once in the callback it would queue is dropped, as `SpeTaskEnqueue` does. The
models of HTTP and monitor say which objects are allocated, and every step that
touches one requires it; a use after a free would be a state `RequestsAreOwned`
excludes.

## 3. The runs

Run any of them with `tlc -config X.cfg M`.

| run | size | what it shows |
|---|---|---|
| `task` (`SpeTask.cfg`) | 46 000 states | Three tasks; every handler may call anything on any task. Counter, list, tree and status words never disagree (`QueueConsistent`, `TimersConsistent`), no handler is re-entered (`OneRuns`), a task is marked timed out only when its time has come and nothing was due before it (`TimeoutIsDue`), the timer loop leaves nothing due behind (`NoDueTimerLeft`), queued tasks run (`QueuedTaskRuns`), timers fire if the queue keeps becoming empty (`DueTimerFires`), and the whole implements `TaskLifecycle` (`ImplementsLifecycle`). |
| `conn_reads` | 278 000 states | One connection, the three read calls, with and without a timeout, a peer that sends in pieces, closes or resets, interrupted polls, and destruction and reuse from any task. An accepted read is not forgotten (`RequestIsHeld`) nor left waiting for what is in the buffer (`WaitNeedsMore`); it is timed out by its own timer only (`TimeoutIsEarned`); a callback without flags has new data (`PlainCallbackMeansDone`); a read whose peer ends is answered (`PeerEndAnswersRead`). |
| `conn_duplex` | 377 000 states | Both directions at once: connects, reads, partial writes, timeouts, destruction and reuse. The program sees the connection of `ConnLifecycle` (`ImplementsConnSpec`): one callback per request, by the task of its direction, none inside another and none after the end, and no handler drops the request of the other direction. The kernel watches exactly what somebody waits for and the table points at the right task (`MaskMatchesRequest`), no callback comes uncalled for, also in a slot that is used again (`NoStrayCallback`), and a callback without flags means a connection, data, or an empty buffer (`PlainCallbackMeansDone`). |
| `conn_pair` | 97 000 states | Two connections whose handlers may destroy each other and reuse slots. No task of a destroyed connection is left queued (`DestroyedIsQuiet`), a callback is refused only to itself (`OnlyOwnCallbackIsRefused`), and the scheduler's inductive invariant survives all of it (`SchedulerIntact`). |
| `processes` | 81 000 states | Three processes from start-up to exit, one of which may die: who polls watches the listening socket just when it owns the mutex (`WatcherHoldsMutex`), and a pending connection is accepted unless the mutex is gone for good (`PendingIsAccepted`). Two workers, two senders and two objects: an object is never with two workers (`ObjectRunsAlone`), and every message is handled, in order (`MessageIsHandled`). A pool with three jobs for two threads: its state is well-typed and `threadRun` never negative (`PoolTypeOK`), the thread looked up without the lock is still there under it (`PopFindsThread`), a listed thread will not wipe the next handler (`FreeIsIdle`), every job is in exactly one place until it runs, and runs once (`JobIsHeld`), and no wake-up is lost (`JobRuns`). |
| `library` | 167 000 states | Fourteen sequential parts. A signal is lost only by an overwritten entry or a full queue (`SignalIsHeld`). A command that succeeds has its own reply, all of it (`ReplyIsOfCommand`); a pooled client waits for nothing and a freed one has no connection (`PooledIsQuiet`). Requests, monitor connections and coroutines are freed once and not before their last user (`RequestsAreOwned`). Lists and chains are the sequences their calls make (`ListsAreSequences`), the tree is balanced and in order (`TreeIsRedBlack`), strings hold their text within their memory (`StringsAreSound`), the map is a dictionary for keys of at most 15 bytes (`MapIsDictionary`), and files and peers are read in order, each byte once, the tail at the end of a file too, and options looked up are those of the lines that were read (`BytesAreReadInOrder`; that an empty line ends the reading is the run `opt_empty_line`). |
| `conn_refused`, `conn_unarmed`, `tpool_deinit`, `thread_task`, `redis_reply`, `opt_empty_line` | short | Counterexamples, section 6. |

Each property has a mutant in `PROJECT.json`: a plausible slip in a modelled
definition (written beside it as "Faulty variant") under which the same run finds
the property violated.

### Bounds

* `task`: three tasks are needed to have one running, one queued and one armed,
  or two armed around a third; `Delays = {0, 1}` and `MaxTime = 2` give equal
  keys, keys in either order, and timers due now, later, and overdue. Symmetry is
  not used because the run checks liveness.
* `conn_reads`: `MaxSent = 3` with the delimiter at 2 and `BUF_SIZE = 2`: the
  delimiter comes alone, with the byte before it, or with one behind it that
  stays in the buffer for a synchronous answer; a burst does not fit one `read()`.
  `MaxTime = 2` with timeouts 0 and 1 lets a read time out and a second one run
  into a stale flag.
* `conn_duplex`: `MaxWrite = 2` makes a write partial; `MaxSent = 0` because what
  a read returns is the subject of `conn_reads`; end of file still answers reads.
  `SpeConnSetTimeout` sets both timeouts to 1 or is not called, so every request
  is made with and without a timeout.
* `conn_pair`: two slots, one byte each, no timeouts: what one connection's
  callback can do to the other is in the run queue and the event table.
* `processes`, the pool: three jobs for two threads take both from the list and need a thread
  of their own. One caller: all callers of `SpeTpoolDo` in the repository are on
  the main thread. With two, `PopFindsThread` is false (see the hazards).
* `processes`, the others: three processes give an owner, a waiter and one that exits; one
  arrival is enough, because `PendingIsAccepted` speaks of each connection by
  itself and a second would only queue behind it; one death, because a second
  changes nothing that `Blocked` does not already name. Two workers and two objects
  let an object be queued again while the other worker looks for work; two
  messages per object let one come in at every step of the first.
* `library`, per part: two signals and a queue of two let a handler interrupt
  another between its read and its write, and fill the queue; two redis clients
  for a pool of one, two commands, and replies of each kind (those of
  `redis_reply` excepted); two HTTP requests and one registered handler, which a
  handler may remove; three entries over two lists and two chains, so that neighbours,
  single and empty lists occur on either side; eight tree nodes with two pairs of
  equal keys, which reach every case of insertion and removal; strings of at most
  four bytes, a list of two; five keys of which two share a bucket with a third
  and with the prefix they are cut to; files of at most four bytes; three lines;
  three coroutines; two addresses and one failing call for the blocking connection.
* `thread_task`, `redis_reply`, `opt_empty_line`: two threads and two tasks; two clients
  and every form of a reply; two lines. The counterexamples are short.
* The clock stops at `MaxTime`; no property needs time to go on.

## 4. Fairness

* `SpeTask!FairSpec`: weak fairness of the main loop (`epoll_wait` has a timeout
  of at most 300 ms and handlers are assumed to return) and of the clock.
  Nothing is assumed of the callers. `DueTimerFires` has the premise that the
  main loop comes back to the poll again and again: the run loop at
  `spe_task.c:188` has no bound, so two handlers that keep queueing each other do
  keep timers and descriptors waiting for ever. TLC shows this if the premise is
  dropped.
* `SpeConn!FairSpec`: the same for the loop, and strong fairness of
  `EpollReports`: a poll may be interrupted by a signal any number of times, but
  not every time. Nothing is assumed of peer or program.
* `SpeTpool!PoolFairness`: each thread is scheduled, a handler returns, and a caller
  inside `SpeTpoolDo` goes on. Nobody has to call it, and spurious wake-ups are
  possible but not promised.
* `SpeServer!Fairness`: each process goes on in its loop (weak), and a poll that
  could report the socket again and again does so some time (strong: other events
  and signals may end a poll first, but not each one). Nobody has to connect,
  start, exit or die.
* `SpeWorker!WorkerFairness`: workers, and senders inside a call, go on. The
  wake-up of a worker needs its signal; a spurious one is not promised.
* The parts of `library`, and the modules of the three last counterexamples, have
  no fairness: their runs check invariants.

## 5. What is proved

Checked by tlapm. The scheduler, for every set of tasks, every set of delays and
unbounded time. Assumptions: `DelaysAssumption`, `MaxTimeAssumption`, `NoTaskAssumption`
(no task is the "nothing runs" value) and `NeverAssumption`.

`SpeTaskProofs` has one lemma per operation of `TaskQueue` and per half of the consistency
condition: each of the operations keeps the state well-typed, keeps `QueueExact`
and keeps `TimersExact`, together with the lemmas about sequences they rest on
(removing an element of an injective sequence, inserting into a sorted one, the
existence of the slot that `TimerSlot` chooses).

About `SpeTask` it then proves, all from one inductive invariant

    IInv == TypeOK /\ QueueConsistent /\ TimersConsistent /\ OneRuns /\ SampleIsPast

* `TypeCorrect`, `QueueIsConsistent`, `TimersAreConsistent`, `OneTaskRuns`: the
  state invariants of the run `task`. None is inductive alone. Removing a task
  from the list by its status needs the list to hold it (`QueueExact`); the timer
  that fires is known to be unqueued only because the tree and the status words
  agree (`TimersExact`); a handler's return frees the right task only because at
  most one has status RUN (`OneRuns`).
* `TimeoutsAreDue`: the first timer is due before all others because the walk is
  sorted, and it is due at all because the sample is not in the future
  (`SampleIsPast`).
* `TimerLoopIsComplete`: when the loop stops at a timer that is not due, none
  behind it is.
* `Refinement`: `Spec => ImplementsLifecycle`. Each action maps to the action of
  `TaskLifecycle` that does the same to the line, the alarms and the active task,
  or to a stutter; the case where an operation is refused maps to a refusal.

`SpeTpoolProofs` does the same for the thread pool, for any finite set of threads
(`ThreadsAssumption`; the code has at most 64) and any sets of callers and jobs,
with `NoJobAssumption` and `NoThreadAssumption`. Its invariant has one part per
kind of knowledge, each kept by a lemma of its own:

* `ListInv`: threads on the free list and threads callers took from it are
  idle and distinct. It needs `LoopInv` (a thread joins the list without a
  handler, and leaves its wait with one or to stop), and it gives
  `ListedThreadsAreIdle`.
* `PlaceInv`: a job has a place (a caller, a handler slot, a thread of its own)
  exactly between acceptance and run, and only one. A caller that stores its job
  does not overwrite another because of `ListInv`. It gives `JobsAreHeld`.
* `CountInv`: `threadRun` is the number of threads that have not passed its
  decrement (`ThreadRunCounts`), so it is never negative (`PoolTypeCorrect`). A
  thread of its own is counted once because its job had no other place.

`PopFindsThreadAlone` is stated for one caller, as the code requires; the model
stops a second caller that finds the list empty, where the code would use the
list head as a thread, so for several callers the other theorems speak of the
executions in which that does not happen.

`ProcessProofs`, on the server: `WatchersHoldMutex`, for any set of processes and any numbers of
connections and deaths (`FirstAssumption`, `NobodyAssumption`, `ArrivalsAssumption`,
`DeathsAssumption`). `WatcherHoldsMutex` speaks of a process that polls, and is not
inductive: what the process will watch is decided by a flag of an earlier loop.
`FlagInv` says what the flag and the mask mean at each place of the loop (they
agree everywhere in it, and mean the ownership only from the trylock to the
unlock), and `StartInv` that before the mutex is made there is only one process,
so that no flag is older than the mutex.

On the object workers: `ObjectsRunAlone`, for any workers, senders, objects and messages
(`NoObjectAssumption`, `MaxSentAssumption`). With the types of places and local
variables (`PlaceType`) the property is inductive: a sender queues an object only
if it is free, and then it is neither in the queue nor with a worker.

`SpeConnProofs` proves every state invariant of `SpeConn` that the runs check, for any set
of connections, timeouts and delimiters, any buffer size and unbounded data and
time (`TimesAssumption`, `SizeAssumption`, `BoundsAssumption`, `NeverAssumption`,
`NoTaskAssumption`), two action properties, and that `SpeConn` implements
`ConnLifecycle`. Its first section restates the
lemmas of `SpeTaskProofs`, instantiated for the four tasks of each connection, for
the calls `spe_conn.c` makes. The invariant (`ConnInvariance`) is

    IInv == TaskInv /\ TypeInv /\ \A c \in Conns : ConnInv(c)

where `TaskInv` is the scheduler's own and `ConnInv(c)` has these parts:

* `MaskInv`, `HeldInv`, `WaitInv` are `MaskMatchesRequest`, `RequestIsHeld` and
  `WaitNeedsMore` of one connection. None is inductive.
* `WorkInv`: a handler is queued or about to run only for a request that waits.
  Without it `readNormal` might end a request that is not there, after a destroy or
  after the other direction was served first. It depends on `MaskInv`, because an
  event is turned into a task by the mask of the moment of dispatch.
* `TimerInv`: a timer is armed only for a request that waits and has a timeout, so
  that a handler or a destroy that finds the timeout 0 leaves no timer behind.
* `OwedInv` and `CallbackInv`: what waits, and what is queued, belongs to a request
  that has not been called back, and to only one. They give `NoStrayCallback`.
* `QuietInv`: nothing is owed to a destroyed connection. With the parts above it
  gives `DestroyedIsQuiet`.

A step of one connection keeps the parts of all others because it changes none of
their tasks, entries and records (`OneMoves`, `Untouched`), so each action is proved
for its own connection only. `NoStrayCallbacks` and `OnlyOwnCallbacksAreRefused`
follow from the invariant and from which steps can enter a callback (`WhoCalls`) or
lose one (`WhoIsRefused`).

The refinement (`ImplementsConnSpecs`) needs no more than this invariant. Every step
lemma says, with what it keeps of `IInv`, what the program sees of the step: nothing
(`Stays`: no connection has another view), or one connection that has a new one
(`Turns`). The last section of the module puts these facts together with who is on
the stack, and finds the step of `ConnLifecycle` for each call, callback and return;
the kernel, the peers and the loop up to the callback are stutters. `TaskInv` is what
makes the callback on the stack the only one, and `WorkInv` and `CallbackInv` what
makes its request an open one.

`AnswerProofs` proves what a callback tells the program, from the same assumptions:
`TimeoutsAreEarned` and `PlainCallbacksMeanDone`. Both speak of the step that enters a
callback and of a request made many steps before, so the invariant (`CallInvariance`)

    CallInv == IInv /\ \A c \in Conns : DueInv(c) /\ KindInv(c) /\ AnswerInv(c) /\ LinkInv(c)

carries what the request is owed through everything between:

* `DueInv`: an armed timer of a request has the request's own deadline, and a set
  `Timeout` flag of its task means that this deadline has passed. The flag
  outlives its request; what makes it right for the next one is that the
  asynchronous path of every call arms the task or resets its flag.
* `KindInv`: the handler that is installed is that of the request, and nothing has
  been taken since it was made.
* `AnswerInv`: a queued read callback has data beyond those the request found, or an
  error to report.
* `LinkInv`: a connect that is not decided is woken by its timer only. Without it a
  callback without flags might report a connection that is not there.

What a step does to these is said once for each side of a connection (`ReadSide`,
`WriteSide`, `TimerSide`, `EventSide`, `NetSide`), and every action of `SpeConn` is
shown to do one of these things.

`DriverProofs`, `StructureProofs` and `ListProofs`, on the parts of `Drivers` and of
`Structures`:

* `SignalIsAlwaysHeld`, for any signals and any size of the queue (`SignalAssumption`).
  `SignalIsHeld` is not inductive: an interrupted handler writes at the length it
  read before. `SignalInv` adds that the activations on the stack are of distinct
  signals and their lengths rise with the stack (`ActivationsAreSound`,
  `QueueIsWritten`), so that what an activation overwrites when it goes on is an entry of
  those that were on top of it, which is the loss the property names.
* `RepliesAreOfCommands` and `PooledAreQuiet`, for any clients, commands, size of the
  pool, and any replies that are a line, no value, a value, or an array of any number of
  values (`RedisAssumption`). The assumption is what `spe_redis.c` can follow: with an
  empty value, or none inside an array, the driver loses its place, which is the run
  `redis_reply`. `RedisInv` describes each client by where it is. One without a command is
  `Idle`: nothing is asked, unread or waited for, which is what makes the next command
  start with its own reply. One with a command is at one of the places of `Waits`; from
  the first answer on, `NextAt` computes from the state of the driver and the number of
  blocks given the place in the reply it looks at, and `Progress` says that the `Buffer`
  has the blocks before that place and the connection the tokens from there on.
  `Driven` is the same between a callback of the connection and the driver's next
  step; every branch of `driver_machine` leads from it to `ClientInv`.
* `RequestsAreAlwaysOwned`, for any requests, handlers, monitors and routines
  (`HttpAssumption`, `RoutineAssumption`). Requests and monitor connections need that
  a connection that has ended keeps no request (`HttpQuiet`, `MonitorQuiet`);
  routines need the chain of those inside a resume (`RoutineChain`), because
  `prev` is overwritten by each resume.
* `BytesAreAlwaysInOrder`, for any files, peers, configuration files, buffer sizes
  and bounds (`TextsAssumption`: texts are made of delimiters and other bytes;
  `OptionsAssumption`: there is a section "global"). Of files and peers it says that every
  byte is read in order and once. `IoInv` says where the bytes are that the last call
  found (`NothingIsLost`), and that the read which meets the end of a file or an error
  gives all that had come (`EndsWithTail`); `ConbInv` that a slot is of one connection at
  a time (`SlotHasOneUse`). Of configuration files it says less, because the code
  does less: the first option of a section and key is that of the first line *that was
  read* (`SameFirst`), and all lines of an accepted file were read, and none was wrong, if
  no line that was read is empty (`EndIsRight`). The lines behind an empty one are
  lost; that is the run `opt_empty_line` and no part of the theorem. "First" is
  the least of some naturals, whose existence (`LeastExists`) follows from the
  well-founded order of the library, without an induction over an operator; the
  same lemma gives the first delimiter of a text (`FirstDelimiter`).

* `ListsAreAlwaysSequences`, for any sets of heads, entries, buckets and nodes
  (`AddressAssumption`: these are different addresses, and none is NULL). The property
  says what the pointers of one list are. That a write through a pointer reaches no
  other list is what the invariants add: in `ListInv` lists share no cell and a
  stale head keeps none, in `ChainInv` chains share no node and the nodes of no chain
  have no `pprev`, which is what lets `hlist_del_init` be called for them. Each operation is
  proved in three parts: what the function does to the pointers, whatever they were
  (`Added`, `Passed`, `Joined`, `Hooked`, ...); what the sequence operation does to the
  places (`Inserted`, `Removed`, `Spliced`, ...); and that the two agree on a ring of any
  length. `list_replace_init` of a head, `list_splice` and `list_cut_position` change two
  rings at once (`TwoListsChange`), all others one.
* `MapIsAlwaysDictionary`, for any keys, hash, buckets, objects and sizes
  (`MapAssumption`: the hash gives a bucket, NULL is no object, and cutting a key that was
  cut changes nothing). The property speaks of keys one by one; what keeps it is
  that the two places an item is linked into agree. `MapInv` says that the chains and the
  list of all items have the same items, each once and in the bucket its key hashes
  to, that no object is held by two, and that a key which is kept whole has
  exactly the item of what was set last (`SearchFinds`). A long key is hashed and compared
  whole but stored cut, so no search for it ever matches, and every set of it adds an
  item under the cut key; the property excepts a key that a long one of
  its own bucket is cut to (`Alias`), and no other.
* `StringsAreAlwaysSound`, for any texts, patterns and sizes (`StringAssumption`: a
  new string has room for its NUL, and a pattern is not empty, as an empty one is found
  everywhere and the loop of `SpeStringSplit` would not end). `StringInv` says byte by
  byte what the property says of the contents: the window of a string lies in its memory
  with room for the NUL, and has the text's bytes (`Holds`, `Window`), for the string and
  every slot of the list (`ListHolds`); it also types the slots behind the length, which
  the next call uses again. `ReadyFacts` is the heart of it: whether there is room
  behind the window, before it, or only in a new memory, the bytes stay what they were. Of
  search and split it follows that the NUL behind the window stops `strstr` where
  the text ends (`strstrFinds`), and that the list and the rest of the text are all pieces
  after every turn of the loop (`Turns`, `TurnKeeps`), each of which gets further
  (`TurnsFacts`). The turns and the pieces of a text are recursive functions. That such
  a function exists (`StepsExist`, `PiecesFacts`) and what it is at the last turn is again
  shown by the least number at which it would fail.

Left to TLC:

* liveness (`QueuedTaskRuns`, `DueTimerFires`, `PeerEndAnswersRead`, `JobRuns`,
  `PendingIsAccepted`, `MessageIsHandled`), which needs fairness and ENABLED;
* `TreeIsRedBlack`, whose module describes a tree of any depth by recursive operators:
  a proof would need them as recursive functions, and of every node its place in the
  order, the extent of its subtree and its black height as labels that each rotation keeps.

## 6. Disagreements found

| run | what the code does | what the repository says |
|---|---|---|
| `conn_refused` | A read answered from the buffer inside the read callback *task* returns true, but `SpeTaskEnqueue` refuses the running task and the result is ignored (`spe_conn.c:190`, also 77, 163, 217, 275). The callback never comes. | `spe_conn.c:76`: "(sync): ... call handler" |
| `conn_unarmed` | The event for the first part of the data takes `readTask` out of the timer tree; `readNormal` returns at line 140 without arming it again. A peer that falls silent in mid-line is waited for without limit. | `src/example/pf.c:22,53` sets a timeout and expects `ReadTimeout` |
| `tpool_deinit` | The loop that should wait has the condition `0 > 10`; the pool is freed under its threads. | `spe_tpool.c:181`: "wait all quit" |
| `thread_task` | `SpeThreadTaskEnqueue` links the task into `task_head` (`spe_task.c:132`) and counts it for the loop over `threadTask_head`, which then takes an entry of an empty list. | `spe_list.h:350`: "Note, that list is expected to be not empty"; the ASSERT in `spe_task.c:208` |
| `opt_empty_line` | The loop of `speOptCreate` ends when `SpeIoReaduntil` returns 0 (`spe_opt.c:97`), which it does for an empty line: the options behind it are not read, and the file is accepted. | `spe_opt.c:100`: "ignore empty and comment line" |
| `redis_reply` | A size of 0 or less ends a reply at once (`spe_redis.c:149`, 176): the empty line of `$0`, and all that follows a nil in an array, are left for the next command. | `spe_redis.c:139`: "recv the first response line" |

Met while modelling, in the code as it is, and without a run of their own because
no interleaving is needed to see them or nothing in the repository says otherwise:

* `spe_tpool.c:79`: a pool thread that stops frees its structure, an element of the array `gTpool`.
* `spe_epoll.c:166`: the `exit(0)` of the constructor is under no condition, so at this commit
  a program that is linked with the library prints "epoll init error" and ends before `main`.
  Everything here is modelled as if the constructor only called `epollInit`.
* `spe_signal.c:44`: if interrupting handlers fill the queue between the test in line 44 and
  the increment in line 45, the entry is written behind the array. What follows is
  undefined; in `SpeSignal` the activation stops at `Load`, so `SignalIsHeld` and its theorem
  speak of the executions in which this does not happen.
* `spe_main.c:50`: with the default `Mode` "Server" a server without handler is made
  first, and a later `SpeServerInit` returns false (`spe_server.c:140`).
* `spe_shm.c:73`: the mutex is unmapped with the length 0, which fails.
* `spe_opt.c:97`: a last line without its newline is dropped: the read returns 0 at the end
  of the file, although `Buffer` has the line.
* `spe_io.c:112`: `SpeIoFlush` leaves what it wrote in `writeBuffer`; a second flush writes it again.
* `spe_string.c:386`: `spe_slist_appendb` counts the slot although the copy into it failed.
* `spe_conn.c:169`: `ReadTimeout` is reset on the asynchronous path only.
* `spe_server.c`, `spe_monitor.c`: the listening socket is closed without
  `epollDisable`, so the mask of the descriptor in `all_epoll` stays.
* `leagcy/spe_conb.c:139`, 236, 269, 285: a partial write is counted wrongly, a
  refused connect is reported as success, and sockets of failed attempts stay open.
* `leagcy/spe_pool.c:37`: `spe_pool_create` never stores its handler.

## 7. What is not modelled

* *Failing calls.* Allocation failures (`connInit`, `SpeTpoolDo`), `epoll_ctl` failing,
  descriptors at or above `MAX_FD`, and `getaddrinfo` failing, which changes no
  state.
* *Contents.* `conn->Buffer`, which holds a copy of what was taken, and the text
  of any message. The asynchronous read-until appends the delimiter to it and
  the synchronous one does not (`spe_conn.c:121`, 161); the model does not see it.
* *The clock* is monotone; `spe_current_time` uses the wall clock and is not.
* *Timeouts changed during a request*: `SpeConnSetTimeout(conn, 0, 0)` on an armed
  connection leaves the task in the tree when it is destroyed. No caller does it.
* *`epollFork` and the constructor* (section 6). The masks of `all_epoll` survive the fork although
  the new epoll instance watches nothing; nothing in `src/` registers a descriptor
  before `SpeProcs`, so no state of the program shows it.
* *Main.* The limit of open files, the command line and `mod_exit`'s result.
* *Strings.* Case conversion, the printf and number conversions, and destruction.
* *Lists.* The macros that only walk a list, and the RCU forms, which have no caller.
* *The map's hash function*, a constant of the model: any distribution over buckets.
* *Legacy timer, pool, object map* (`leagcy/spe_timer.c`, `spe_pool.c`, `spe_objmap.c`):
  in no build rule, included nowhere, and `spe_timer.c` calls `spe_task_enqueue`, which
  no longer exists. Their races are listed as a hazard.
* *Sockets, utilities, log, regular expressions*: wrappers without state of their own.
* *cJSON and http_parser* are third-party code with their own tests; `SpeHttp` takes
  the parser's verdict as a choice.
* *Examples* are users of the library; what they expect of it is quoted in section 6.

Library parts are checked one by one, not composed with their users; `SpeConn` is
not composed with the drivers, which use the abstract connection it implements.
The drivers allow more than `ConnLifecycle` where it does not say which of two
callbacks a program is in (`own` in `SpeRedis` is a choice).

## 8. Plan

What remains, the most useful first:

1. Failing calls: `epoll_ctl` and allocations in `SpeConn`, for which the table and
   the initialisation of a slot need an error path each.
2. The red-black tree for any size. Its operators recurse over the tree and would have to
   become functions, as those of `SpeString` are, and the loops that repair it need an
   invariant of a tree with one fault.
