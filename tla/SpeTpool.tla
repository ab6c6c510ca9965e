------------------------------ MODULE SpeTpool -------------------------------
(***************************************************************************)
(* The thread pool, src/spe/spe_tpool.c.  Pool threads wait on a condition *)
(* of their own for a handler; SpeTpoolDo takes a thread from the free     *)
(* list, stores the handler and signals, or starts a thread for this one   *)
(* handler if none is free.  A critical section whose holder cannot block  *)
(* is one step; what happens outside the locks is a step of its own.       *)
(***************************************************************************)
EXTENDS Integers, Sequences, SequencesExt, FiniteSets

CONSTANTS Threads,      \* the elements of gTpool->threads in use
          Callers,      \* the threads of the program that use the pool
          Jobs,         \* the handlers they hand over, each once
          NoJob,        \* SPE_HANDLER_NULL
          NoThread      \* a NULL thread pointer

ASSUME ThreadsAssumption == IsFiniteSet(Threads)   \* MAX_THREAD
ASSUME NoJobAssumption == NoJob \notin Jobs
ASSUME NoThreadAssumption == NoThread \notin Threads

VARIABLES gTpool,       \* "none", "live", "stopping" or "freed"
          threadRun,    \* gTpool->threadRun
          freeList,     \* gTpool->freeList
          handler, stop,\* the fields of each thread
          signalled,    \* threads whose condition was signalled while waiting
          place,        \* where each pool thread is
          caller,       \* where each caller is in SpeTpoolDo, and with what
          once,         \* the jobs that have a thread of their own
          given, ran    \* jobs handed over, runs of each (in no code)

poolVars == <<gTpool, threadRun, freeList>>
threadVars == <<handler, stop, signalled, place>>
tpoolVars == <<poolVars, threadVars, caller, once, given, ran>>

\* A caller, "out" of SpeTpoolDo or at the step it takes next.
CallState ==
  [at : {"out", "pop", "give", "signal", "start"},
   job : Jobs \cup {NoJob}, thread : Threads \cup {NoThread}]

\* place.  "test": about to lock and test; "wait": in pthread_cond_wait; "woken":
\* past the wait, the lock released; "run": the handler is called; "clear":
\* it has returned; "join": about to join freeList; "quit": behind the loop.
PoolTypeOK ==
  /\ gTpool \in {"none", "live", "stopping", "freed"}
  /\ threadRun \in Nat
  /\ freeList \in Seq(Threads)
  /\ handler \in [Threads -> Jobs \cup {NoJob}]
  /\ stop \in [Threads -> BOOLEAN]
  /\ signalled \subseteq Threads
  /\ place \in [Threads -> {"none", "test", "wait", "woken", "run", "clear",
                         "join", "quit", "gone"}]
  /\ caller \in [Callers -> CallState]
  /\ once \in [Jobs -> {"no", "started", "done", "gone"}]
  /\ given \subseteq Jobs
  /\ ran \in [Jobs -> Nat]

NoCall == [at |-> "out", job |-> NoJob, thread |-> NoThread]

PoolInit ==
  /\ gTpool = "none" /\ threadRun = 0 /\ freeList = << >>
  /\ handler = [t \in Threads |-> NoJob] /\ stop = [t \in Threads |-> FALSE]
  /\ signalled = {} /\ place = [t \in Threads |-> "none"]
  /\ caller = [c \in Callers |-> NoCall]
  /\ once = [j \in Jobs |-> "no"] /\ given = {} /\ ran = [j \in Jobs |-> 0]

-----------------------------------------------------------------------------
(* SpeTpoolInit and SpeTpoolDo *)

\* Every thread is on the free list before it runs.
SpeTpoolInit ==
  /\ gTpool = "none"
  /\ gTpool' = "live"
  /\ freeList' \in SetToSeqs(Threads)
  /\ threadRun' = Cardinality(Threads)
  /\ place' = [t \in Threads |-> "test"]
  /\ UNCHANGED <<handler, stop, signalled, caller, once, given, ran>>

\* Faulty variant: no test.
DoTestBlind(c, j) ==
  /\ gTpool = "live" /\ caller[c] = NoCall /\ j \notin given
  /\ given' = given \cup {j}
  /\ caller' = [caller EXCEPT ![c].job = j, ![c].at = "pop"]
  /\ UNCHANGED <<poolVars, threadVars, once, ran>>

\* SpeTpoolDo up to the test of freeList, which takes no lock.
DoTest(c, j) ==
  /\ gTpool = "live" /\ caller[c] = NoCall /\ j \notin given
  /\ given' = given \cup {j}
  /\ caller' = [caller EXCEPT ![c].job = j,
                              ![c].at = IF freeList = << >> THEN "start" ELSE "pop"]
  /\ UNCHANGED <<poolVars, threadVars, once, ran>>

\* Faulty variant: the entry is used but stays on the list.
DoPopKeeps(c) ==
  /\ caller[c].at = "pop" /\ freeList # << >>
  /\ caller' = [caller EXCEPT ![c].at = "give", ![c].thread = Head(freeList)]
  /\ UNCHANGED <<poolVars, threadVars, once, given, ran>>

\* The section under freeListLock.  list_first_entry of an empty list is no
\* thread: PopFindsThread shows that the case does not arise.
DoPop(c) ==
  /\ caller[c].at = "pop" /\ freeList # << >>
  /\ caller' = [caller EXCEPT ![c].at = "give", ![c].thread = Head(freeList)]
  /\ freeList' = Tail(freeList)
  /\ UNCHANGED <<gTpool, threadRun, threadVars, once, given, ran>>

DoGive(c) ==
  /\ caller[c].at = "give"
  /\ handler' = [handler EXCEPT ![caller[c].thread] = caller[c].job]
  /\ caller' = [caller EXCEPT ![c].at = "signal"]
  /\ UNCHANGED <<poolVars, stop, signalled, place, once, given, ran>>

\* pthread_cond_signal wakes the thread if it waits, else it does nothing.
WakeThread(t) == IF place[t] = "wait" THEN signalled' = signalled \cup {t}
                               ELSE UNCHANGED signalled

\* Faulty variant: the signal is forgotten.
DoSignalSkipped(c) ==
  /\ caller[c].at = "signal"
  /\ caller' = [caller EXCEPT ![c] = NoCall]
  /\ UNCHANGED <<poolVars, threadVars, once, given, ran>>

DoSignal(c) ==
  /\ caller[c].at = "signal"
  /\ WakeThread(caller[c].thread)
  /\ caller' = [caller EXCEPT ![c] = NoCall]
  /\ UNCHANGED <<poolVars, handler, stop, place, once, given, ran>>

\* Faulty variant: the thread is not counted.
DoStartUncounted(c) ==
  /\ caller[c].at = "start"
  /\ once' = [once EXCEPT ![caller[c].job] = "started"]
  /\ caller' = [caller EXCEPT ![c] = NoCall]
  /\ UNCHANGED <<poolVars, threadVars, given, ran>>

\* calloc and threadInit with threadRoutineOnce.
DoStart(c) ==
  /\ caller[c].at = "start"
  /\ once' = [once EXCEPT ![caller[c].job] = "started"]
  /\ threadRun' = threadRun + 1
  /\ caller' = [caller EXCEPT ![c] = NoCall]
  /\ UNCHANGED <<gTpool, freeList, threadVars, given, ran>>

-----------------------------------------------------------------------------
(* threadRoutine and threadRoutineOnce *)

\* The thread structures are part of gTpool, so after the free of Deinit any
\* step of a pool thread is undefined; the model ends there.
Usable == gTpool \in {"live", "stopping"}

Goes(t, from, to) == Usable /\ place[t] = from /\ place' = [place EXCEPT ![t] = to]

\* The lock, the test of the while loop, and the wait or the unlock.
Test(t) ==
  /\ Goes(t, "test", IF handler[t] = NoJob /\ ~ stop[t] THEN "wait" ELSE "woken")
  /\ UNCHANGED <<poolVars, handler, stop, signalled, caller, once, given, ran>>

WakeUp(t) ==
  /\ t \in signalled
  /\ Goes(t, "wait", "test")
  /\ signalled' = signalled \ {t}
  /\ UNCHANGED <<poolVars, handler, stop, caller, once, given, ran>>

\* pthread_cond_wait may return without a signal.
WakeUpSpuriously(t) ==
  /\ t \notin signalled
  /\ Goes(t, "wait", "test")
  /\ UNCHANGED <<poolVars, handler, stop, signalled, caller, once, given, ran>>

\* The stop flag is read again without the lock.
Proceed(t) ==
  /\ Goes(t, "woken", IF stop[t] THEN "quit" ELSE "run")
  /\ UNCHANGED <<poolVars, handler, stop, signalled, caller, once, given, ran>>

RunHandler(t) ==
  /\ Goes(t, "run", "clear")
  /\ ran' = [ran EXCEPT ![handler[t]] = @ + 1]
  /\ UNCHANGED <<poolVars, handler, stop, signalled, caller, once, given>>

\* Faulty variant: the handler is kept.
ClearSkipped(t) ==
  /\ Goes(t, "clear", "join")
  /\ UNCHANGED <<poolVars, handler, stop, signalled, caller, once, given, ran>>

\* The handler returned; the assignment takes no lock.
Clear(t) ==
  /\ Goes(t, "clear", "join")
  /\ handler' = [handler EXCEPT ![t] = NoJob]
  /\ UNCHANGED <<poolVars, stop, signalled, caller, once, given, ran>>

Join(t) ==
  /\ Goes(t, "join", "test")
  /\ freeList' = Append(freeList, t)
  /\ UNCHANGED <<gTpool, threadRun, handler, stop, signalled, caller, once, given, ran>>

\* Behind the loop; free(thread) of an array element is left out.
Quit(t) ==
  /\ Goes(t, "quit", "gone")
  /\ threadRun' = threadRun - 1
  /\ UNCHANGED <<gTpool, freeList, handler, stop, signalled, caller, once, given, ran>>

OnceRuns(j) ==
  /\ once[j] = "started"
  /\ once' = [once EXCEPT ![j] = "done"]
  /\ ran' = [ran EXCEPT ![j] = @ + 1]
  /\ UNCHANGED <<poolVars, threadVars, caller, given>>

OnceQuits(j) ==
  /\ Usable /\ once[j] = "done"
  /\ once' = [once EXCEPT ![j] = "gone"]
  /\ threadRun' = threadRun - 1
  /\ UNCHANGED <<gTpool, freeList, threadVars, caller, given, ran>>

-----------------------------------------------------------------------------
(* SpeTpoolDeinit *)

\* One round of the loop that sets the flags; the main thread is not inside
\* SpeTpoolDo then.
DeinitStops(t) ==
  /\ Usable /\ ~ stop[t]
  /\ \A c \in Callers : caller[c] = NoCall
  /\ gTpool' = "stopping"
  /\ stop' = [stop EXCEPT ![t] = TRUE]
  /\ WakeThread(t)
  /\ UNCHANGED <<threadRun, freeList, handler, place, caller, once, given, ran>>

\* The loop that waits is never entered (0 > 10), and the pool is freed.
DeinitFrees ==
  /\ gTpool = "stopping" /\ \A t \in Threads : stop[t]
  /\ gTpool' = "freed"
  /\ UNCHANGED <<threadRun, freeList, threadVars, caller, once, given, ran>>

-----------------------------------------------------------------------------
Do(c) ==
  (\E j \in Jobs : DoTest(c, j)) \/ DoPop(c) \/ DoGive(c) \/ DoSignal(c) \/ DoStart(c)

Routine(t) ==
  Test(t) \/ WakeUp(t) \/ Proceed(t) \/ RunHandler(t) \/ Clear(t) \/ Join(t) \/ Quit(t)

RoutineOnce(j) == OnceRuns(j) \/ OnceQuits(j)

PoolNext ==
  \/ SpeTpoolInit
  \/ \E c \in Callers : Do(c)
  \/ \E t \in Threads : Routine(t) \/ WakeUpSpuriously(t) \/ DeinitStops(t)
  \/ \E j \in Jobs : RoutineOnce(j)
  \/ DeinitFrees

PoolSpec == PoolInit /\ [][PoolNext]_tpoolVars

\* Every thread is scheduled, handlers return, and a caller inside SpeTpoolDo
\* goes on; nobody has to call it.
GoesOn(c) == DoPop(c) \/ DoGive(c) \/ DoSignal(c) \/ DoStart(c)

PoolFairness ==
  /\ \A t \in Threads : WF_tpoolVars(Routine(t))
  /\ \A j \in Jobs : WF_tpoolVars(RoutineOnce(j))
  /\ \A c \in Callers : WF_tpoolVars(GoesOn(c))

PoolFairSpec == PoolSpec /\ PoolFairness

-----------------------------------------------------------------------------
\* spe_tpool.c:113-116.  The list that was not empty without the lock is not
\* empty under it: with one caller, nobody else takes threads from it.
PopFindsThread == \A c \in Callers : caller[c].at = "pop" => freeList # << >>

\* spe_tpool.c:67-73, 114-123.  A thread on the free list has no handler and
\* is not about to clear one: the handler a caller stores is not wiped by the
\* end of the previous one.
FreeIsIdle ==
  /\ IsInjective(freeList)
  /\ \A t \in Range(freeList) :
       handler[t] = NoJob /\ place[t] \notin {"run", "clear", "join"}
  /\ \A c \in Callers : caller[c].at = "give" =>
       /\ caller[c].thread \notin Range(freeList)
       /\ handler[caller[c].thread] = NoJob
       /\ place[caller[c].thread] \notin {"run", "clear", "join"}

\* The places a job that has not been run can be in.
Holders(j) ==
  {c \in Callers : caller[c].job = j /\ caller[c].at \in {"pop", "give", "start"}}
  \cup {t \in Threads : handler[t] = j /\ place[t] \notin {"clear", "join"}}
  \cup {x \in {j} : once[j] = "started"}

\* spe_tpool.c:57-75, 110-135.  A job that was accepted is in exactly one
\* place until it has run, and it runs at most once.
JobIsHeld ==
  \A j \in given :
    /\ ran[j] = 0 => \E h \in Holders(j) : Holders(j) = {h}
    /\ ran[j] = 1 => Holders(j) = {}
    /\ ran[j] <= 1

\* spe_tpool.c:61-65, 122-125.  A job that was accepted is run unless the pool
\* is shut down first: no wake-up is lost.
JobRuns ==
  \A j \in Jobs : j \in given ~> (ran[j] = 1 \/ gTpool \notin {"none", "live"})

\* spe_tpool.c, the comment "wait all quit" of SpeTpoolDeinit: the pool is
\* freed when no thread uses it any more.
DeinitWaits ==
  gTpool = "freed" => /\ \A t \in Threads : place[t] = "gone"
                      /\ \A j \in Jobs : once[j] \in {"no", "gone"}
=============================================================================
