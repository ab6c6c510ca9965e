------------------------------- MODULE SpeTask -------------------------------
(***************************************************************************)
(* The task scheduler of src/spe/spe_task.c as the main loop drives it     *)
(* (src/spe/spe_main.c): poll, then taskProcess, which turns due timers    *)
(* into queued tasks and runs the queue until it is empty.  The callers of *)
(* the four operations are left free: before taskProcess and inside every  *)
(* handler, any operation may be called on any task, any number of times.  *)
(*                                                                         *)
(* The thread-task half of the file is not part of this module; nothing    *)
(* here sets gThreadTaskNum, so the loop over threadTask_head is skipped.  *)
(***************************************************************************)
EXTENDS TaskQueue

CONSTANTS Delays,       \* the milliseconds callers ask for
          MaxTime,      \* bound: the clock stops here
          NoTask        \* nothing is running

ASSUME DelaysAssumption == Delays \subseteq Nat
ASSUME MaxTimeAssumption == MaxTime \in Nat
ASSUME NoTaskAssumption == NoTask \notin Tasks

VARIABLES sched,        \* the scheduler state, see TaskQueue
          clock,        \* what spe_current_time returns
          curr_time,    \* taskProcess's sample of it, 0 out of scope
          running,      \* the task whose handler is on the stack
          pc            \* where the main thread is

vars == <<sched, clock, curr_time, running, pc>>

\* "poll": the main loop outside taskProcess; "timers", "run": the two loops
\* of taskProcess; "handler": inside SPE_HANDLER_CALL.
TypeOK ==
  /\ sched \in SchedState
  /\ clock \in Nat
  /\ curr_time \in Nat
  /\ running \in Tasks \cup {NoTask}
  /\ pc \in {"poll", "timers", "run", "handler"}

Init ==
  /\ sched = SchedInit
  /\ clock = 0
  /\ curr_time = 0
  /\ running = NoTask
  /\ pc = "poll"

-----------------------------------------------------------------------------
\* Code of the program is running, and may call the scheduler.
CallerRuns == pc \in {"poll", "handler"}

CallEnqueue(t) ==
  /\ CallerRuns
  /\ sched' = SpeTaskEnqueue(sched, t)
  /\ UNCHANGED <<clock, curr_time, running, pc>>

CallDequeue(t) ==
  /\ CallerRuns
  /\ sched' = SpeTaskDequeue(sched, t)
  /\ UNCHANGED <<clock, curr_time, running, pc>>

CallEnqueueTimer(t, ms) ==
  /\ CallerRuns
  /\ sched' = SpeTaskEnqueueTimer(sched, t, clock, ms)
  /\ UNCHANGED <<clock, curr_time, running, pc>>

CallDequeueTimer(t) ==
  /\ CallerRuns
  /\ sched' = SpeTaskDequeueTimer(sched, t)
  /\ UNCHANGED <<clock, curr_time, running, pc>>

\* Faulty variant: timers are looked at only when no other work is queued.
BeginTaskProcessBusy ==
  /\ pc = "poll"
  /\ \/ /\ sched.timer_head # << >> /\ sched.gTaskNum = 0
        /\ curr_time' = clock
        /\ pc' = "timers"
     \/ /\ sched.timer_head = << >> \/ sched.gTaskNum # 0
        /\ pc' = "run"
        /\ UNCHANGED curr_time
  /\ UNCHANGED <<sched, clock, running>>

\* The main loop calls taskProcess; the clock is read only if a timer exists.
BeginTaskProcess ==
  /\ pc = "poll"
  /\ \/ /\ sched.timer_head # << >>
        /\ curr_time' = clock
        /\ pc' = "timers"
     \/ /\ sched.timer_head = << >>
        /\ pc' = "run"
        /\ UNCHANGED curr_time
  /\ UNCHANGED <<sched, clock, running>>

\* Faulty variant: the timer loop takes the first timer without looking at
\* its key.
FireTimerUnchecked ==
  /\ pc = "timers"
  /\ sched.timer_head # << >>
  /\ sched' = FireFirst(sched)
  /\ UNCHANGED <<clock, curr_time, running, pc>>

FireTimer ==
  /\ pc = "timers"
  /\ TimerDue(sched, curr_time)
  /\ sched' = FireFirst(sched)
  /\ UNCHANGED <<clock, curr_time, running, pc>>

TimersDone ==
  /\ pc = "timers"
  /\ ~ TimerDue(sched, curr_time)
  /\ curr_time' = 0
  /\ pc' = "run"
  /\ UNCHANGED <<sched, clock, running>>

RunTask ==
  /\ pc = "run"
  /\ sched.gTaskNum # 0
  /\ running' = Head(sched.task_head)
  /\ sched' = RunFirst(sched)
  /\ pc' = "handler"
  /\ UNCHANGED <<clock, curr_time>>

HandlerReturn ==
  /\ pc = "handler"
  /\ sched' = Release(sched, running)
  /\ running' = NoTask
  /\ pc' = "run"
  /\ UNCHANGED <<clock, curr_time>>

EndTaskProcess ==
  /\ pc = "run"
  /\ sched.gTaskNum = 0
  /\ pc' = "poll"
  /\ UNCHANGED <<sched, clock, curr_time, running>>

\* The clock is taken to be monotone (gettimeofday is not, see the README).
Tick ==
  /\ clock < MaxTime
  /\ clock' = clock + 1
  /\ UNCHANGED <<sched, curr_time, running, pc>>

Calls ==
  \E t \in Tasks :
    \/ CallEnqueue(t)
    \/ CallDequeue(t)
    \/ \E ms \in Delays : CallEnqueueTimer(t, ms)
    \/ CallDequeueTimer(t)

\* The steps of the main thread that do not depend on what handlers want.
Loop ==
  \/ BeginTaskProcess
  \/ FireTimer
  \/ TimersDone
  \/ RunTask
  \/ HandlerReturn
  \/ EndTaskProcess

Next == Calls \/ Loop \/ Tick

Spec == Init /\ [][Next]_vars

\* The main loop never blocks for ever (epoll_wait has a timeout), handlers
\* return, and time passes.
FairSpec == Spec /\ WF_vars(Loop) /\ WF_vars(Tick)

-----------------------------------------------------------------------------
(* Safety *)

\* spe_task.c:187-199.  The run loop only looks at gTaskNum and then takes the
\* first entry of the list unconditionally: the list, the status words and the
\* counter must never disagree, whatever handlers call.
QueueConsistent == QueueExact(sched)

\* spe_task.c:168-186.  The tree and the status words never disagree and the
\* walk order is the key order, also when armed tasks are re-armed, cancelled
\* or enqueued from handlers.
TimersConsistent == TimersExact(sched)

\* spe_task.c:195-198.  At most one task has status RUN, and it is the one
\* whose handler is on the stack: a handler cannot be re-entered.
OneRuns ==
  /\ running # NoTask <=> pc = "handler"
  /\ \A t \in Tasks : sched.status[t] = SPE_TASK_RUN <=> t = running

\* taskProcess works with a time that has passed.
SampleIsPast == curr_time <= clock

\* The inductive invariant of the proofs.
IInv == TypeOK /\ QueueConsistent /\ TimersConsistent /\ OneRuns /\ SampleIsPast

\* spe_task.c:172-185.  A task is marked as timed out only by its own timer:
\* the time it was armed for has come and no other armed task was due before.
TimeoutIsDue ==
  [][\A t \in Tasks :
       sched.Timeout[t] = 0 /\ sched'.Timeout[t] = 1 =>
         /\ sched.status[t] = SPE_TASK_TIMER
         /\ sched.expire[t] <= clock
         /\ \A u \in Tasks :
              sched.status[u] = SPE_TASK_TIMER =>
                sched.expire[t] <= sched.expire[u]]_vars

\* spe_task.c:172-186.  The timer loop stops at the first task that is not
\* due; no task further up the tree is due either when it does.
NoDueTimerLeft ==
  [][(pc \in {"poll", "timers"} /\ pc' = "run") =>
       \A t \in Tasks :
         sched.status[t] = SPE_TASK_TIMER => sched.expire[t] > curr_time]_vars

-----------------------------------------------------------------------------
(* Refinement: the scheduler implements TaskLifecycle. *)

CONSTANT Never
ASSUME NeverAssumption == Never \notin Nat

Lifecycle ==
  INSTANCE TaskLifecycle
    WITH Nobody <- NoTask,
         line   <- sched.task_head,
         alarm  <- [t \in Tasks |->
                      IF sched.status[t] = SPE_TASK_TIMER
                      THEN sched.expire[t] ELSE Never],
         active <- running,
         now    <- clock

\* The lists, the tree and the counter of spe_task.c behave as one line of
\* work and one alarm per task.
ImplementsLifecycle == Lifecycle!Spec

-----------------------------------------------------------------------------
(* Liveness *)

\* spe_task.c:187-199.  A queued task is run or withdrawn, even if handlers
\* keep queueing others.
QueuedTaskRuns ==
  \A t \in Tasks :
    sched.status[t] = SPE_TASK_QUEUE ~> sched.status[t] # SPE_TASK_QUEUE

\* spe_task.c:168-186.  If the run queue keeps becoming empty, no timer whose
\* time has come is left in the tree for ever (it may be cancelled or armed
\* anew).  The premise is needed: the run loop has no bound, so two handlers
\* that keep queueing each other keep taskProcess from ever returning.
DueTimerFires ==
  []<>(pc = "poll") =>
    \A t \in Tasks :
      (sched.status[t] = SPE_TASK_TIMER /\ sched.expire[t] <= clock)
        ~> ~ (sched.status[t] = SPE_TASK_TIMER /\ sched.expire[t] <= clock)
=============================================================================
