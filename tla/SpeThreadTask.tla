---------------------------- MODULE SpeThreadTask ----------------------------
(***************************************************************************)
(* Tasks queued by other threads: SpeThreadTaskEnqueue and -Dequeue of     *)
(* src/spe/spe_task.c, the two loops of taskProcess, and the descriptor    *)
(* that wakes the main thread.  The first test of a status takes no lock;  *)
(* everything under threadTask_lock is one step.  List operations of the   *)
(* two sides are taken to be atomic, which the code does not ensure.       *)
(***************************************************************************)
EXTENDS Integers, Sequences, SequencesExt

CONSTANTS Tasks,        \* the tasks other threads queue
          Threads,      \* those threads
          NoTask        \* a NULL task

VARIABLES task_head, threadTask_head,   \* the two lists
          status,                       \* of each task
          gTaskNum, gThreadTaskNum,     \* their counters
          main, running,                \* where the main thread is, its task
          thread,                       \* where each thread is, its task
          wakeup                        \* the eventfd is readable

vars == <<task_head, threadTask_head, status, gTaskNum, gThreadTaskNum, main, running, thread, wakeup>>

TypeOK ==
  /\ task_head \in Seq(Tasks) /\ threadTask_head \in Seq(Tasks)
  /\ status \in [Tasks -> {"free", "queue", "run"}]
  /\ gTaskNum \in Int /\ gThreadTaskNum \in Int
  /\ main \in {"poll", "run", "thread", "lost"}
  /\ running \in Tasks \cup {NoTask}
  /\ thread \in [Threads -> [at : {"out", "enqueue", "wake", "dequeue"},
                             task : Tasks \cup {NoTask}]]
  /\ wakeup \in BOOLEAN

Outside == [at |-> "out", task |-> NoTask]

Init ==
  /\ task_head = << >> /\ threadTask_head = << >>
  /\ status = [t \in Tasks |-> "free"] /\ gTaskNum = 0 /\ gThreadTaskNum = 0
  /\ main = "poll" /\ running = NoTask
  /\ thread = [p \in Threads |-> Outside] /\ wakeup = FALSE

-----------------------------------------------------------------------------
(* The other threads *)

\* The test of the status without the lock.
Call(p, t) ==
  /\ thread[p] = Outside
  /\ \/ status[t] = "free" /\ thread' = [thread EXCEPT ![p] = [at |-> "enqueue", task |-> t]]
     \/ status[t] = "queue" /\ thread' = [thread EXCEPT ![p] = [at |-> "dequeue", task |-> t]]
  /\ UNCHANGED <<task_head, threadTask_head, status, gTaskNum, gThreadTaskNum, main, running, wakeup>>

\* The task goes to task_head.
SpeThreadTaskEnqueue(p) ==
  /\ thread[p].at = "enqueue"
  /\ LET t == thread[p].task
     IN  IF status[t] # "free"
         THEN /\ thread' = [thread EXCEPT ![p] = Outside]
              /\ UNCHANGED <<task_head, status, gThreadTaskNum>>
         ELSE /\ task_head' = Append(task_head, t)
              /\ status' = [status EXCEPT ![t] = "queue"]
              /\ gThreadTaskNum' = gThreadTaskNum + 1
              /\ thread' = [thread EXCEPT ![p].at = "wake"]
  /\ UNCHANGED <<threadTask_head, gTaskNum, main, running, wakeup>>

epollWakeup(p) ==
  /\ thread[p].at = "wake"
  /\ wakeup' = TRUE
  /\ thread' = [thread EXCEPT ![p] = Outside]
  /\ UNCHANGED <<task_head, threadTask_head, status, gTaskNum, gThreadTaskNum, main, running>>

\* A task that is still queued is left alone, any other one is unlinked.
SpeThreadTaskDequeue(p) ==
  /\ thread[p].at = "dequeue"
  /\ LET t == thread[p].task
     IN  IF status[t] = "queue" THEN UNCHANGED <<task_head, status, gThreadTaskNum>>
         ELSE /\ task_head' = SelectSeq(task_head, LAMBDA x : x # t)
              /\ status' = [status EXCEPT ![t] = "free"]
              /\ gThreadTaskNum' = gThreadTaskNum - 1
  /\ thread' = [thread EXCEPT ![p] = Outside]
  /\ UNCHANGED <<threadTask_head, gTaskNum, main, running, wakeup>>

-----------------------------------------------------------------------------
(* The main thread *)

\* epoll_wait returns, and the eventfd is read.
Poll ==
  /\ main = "poll"
  /\ main' = "run" /\ wakeup' = FALSE
  /\ UNCHANGED <<task_head, threadTask_head, status, gTaskNum, gThreadTaskNum, running, thread>>

\* A round of the loop of the main thread's own tasks, up to the handler.
RunTask ==
  /\ main = "run" /\ running = NoTask /\ gTaskNum # 0 /\ task_head # << >>
  /\ running' = Head(task_head)
  /\ task_head' = Tail(task_head)
  /\ gTaskNum' = gTaskNum - 1
  /\ status' = [status EXCEPT ![Head(task_head)] = "run"]
  /\ UNCHANGED <<threadTask_head, gThreadTaskNum, main, thread, wakeup>>

\* A handler calls SpeTaskEnqueue.
SpeTaskEnqueue(t) ==
  /\ running # NoTask /\ status[t] = "free"
  /\ task_head' = Append(task_head, t)
  /\ status' = [status EXCEPT ![t] = "queue"]
  /\ gTaskNum' = gTaskNum + 1
  /\ UNCHANGED <<threadTask_head, gThreadTaskNum, main, running, thread, wakeup>>

HandlerReturns ==
  /\ running # NoTask
  /\ status' = [status EXCEPT ![running] = "free"]
  /\ running' = NoTask
  /\ UNCHANGED <<task_head, threadTask_head, gTaskNum, gThreadTaskNum, main, thread, wakeup>>

\* Both loops test their counters without the lock.
TestThreadTasks ==
  /\ running = NoTask
  /\ \/ main = "run" /\ gTaskNum = 0
     \/ main = "thread"
  /\ main' = IF gThreadTaskNum # 0 THEN "thread" ELSE "poll"
  /\ UNCHANGED <<task_head, threadTask_head, status, gTaskNum, gThreadTaskNum, running, thread, wakeup>>

\* A round of the second loop, up to the handler.
RunThreadTask ==
  /\ main = "thread" /\ running = NoTask /\ threadTask_head # << >>
  /\ running' = Head(threadTask_head)
  /\ threadTask_head' = Tail(threadTask_head)
  /\ gThreadTaskNum' = gThreadTaskNum - 1
  /\ status' = [status EXCEPT ![Head(threadTask_head)] = "run"]
  /\ UNCHANGED <<task_head, gTaskNum, main, thread, wakeup>>

\* The first entry of an empty list is no task, and the step undefined.
RunNoTask ==
  /\ main = "thread" /\ running = NoTask /\ threadTask_head = << >>
  /\ gThreadTaskNum # 0
  /\ main' = "lost"
  /\ UNCHANGED <<task_head, threadTask_head, status, gTaskNum, gThreadTaskNum, running, thread, wakeup>>

-----------------------------------------------------------------------------
Next ==
  \/ \E p \in Threads :
       \/ \E t \in Tasks : Call(p, t)
       \/ SpeThreadTaskEnqueue(p) \/ epollWakeup(p) \/ SpeThreadTaskDequeue(p)
  \/ Poll \/ RunTask \/ HandlerReturns \/ TestThreadTasks \/ RunThreadTask \/ RunNoTask
  \/ \E t \in Tasks : SpeTaskEnqueue(t)

Spec == Init /\ [][Next]_vars

-----------------------------------------------------------------------------
\* spe_list.h:350, "Note, that list is expected to be not empty", of the
\* list_first_entry in spe_task.c:203, and the ASSERT in line 208: the loop
\* finds the task that was counted.
ThreadLoopFindsTask == main # "lost"
=============================================================================
