------------------------------ MODULE TaskQueue ------------------------------
(***************************************************************************)
(* The data structures of src/spe/spe_task.c and the operations on them,   *)
(* as functions from one scheduler state to the next.  A scheduler state   *)
(* is the record of everything the main thread's half of the file keeps:   *)
(*                                                                         *)
(*   status, expire, Timeout    the fields of each SpeTask_t               *)
(*   task_head                  the run queue, a linked list               *)
(*   timer_head                 the red-black tree, as its in-order walk   *)
(*   gTaskNum                   the exported counter of queued tasks       *)
(*                                                                         *)
(* The main loop and the connection layer call these operations several    *)
(* times in one handler, so they are operators here and become actions in  *)
(* SpeTask and SpeConn.                                                    *)
(***************************************************************************)
EXTENDS Integers, Sequences, SequencesExt

CONSTANT Tasks          \* the SpeTask_t objects of the program

SPE_TASK_FREE  == "FREE"      \* in no queue
SPE_TASK_TIMER == "TIMER"     \* in the timer tree
SPE_TASK_QUEUE == "QUEUE"     \* in the run queue
SPE_TASK_RUN   == "RUN"       \* its handler is running

Status == {SPE_TASK_FREE, SPE_TASK_TIMER, SPE_TASK_QUEUE, SPE_TASK_RUN}

SchedState ==
  [status     : [Tasks -> Status],
   expire     : [Tasks -> Nat],
   Timeout    : [Tasks -> {0, 1}],
   task_head  : Seq(Tasks),
   timer_head : Seq(Tasks),
   gTaskNum   : Nat]

\* task_init, and SpeTaskInit on every task before it is first used.
SchedInit ==
  [status     |-> [t \in Tasks |-> SPE_TASK_FREE],
   expire     |-> [t \in Tasks |-> 0],
   Timeout    |-> [t \in Tasks |-> 0],
   task_head  |-> << >>,
   timer_head |-> << >>,
   gTaskNum   |-> 0]

-----------------------------------------------------------------------------
\* list_del_init on the node of t, and rb_erase on the node of t.
Unlink(list, t) == RemoveAt(list, CHOOSE i \in DOMAIN list : list[i] = t)

\* Faulty variant: the comparison of the descent is the wrong way round.
TimerSlotReversed(s, e) ==
  CHOOSE k \in 1 .. Len(s.timer_head) + 1 :
    /\ \A i \in 1 .. k - 1 : s.expire[s.timer_head[i]] > e
    /\ k <= Len(s.timer_head) => e >= s.expire[s.timer_head[k]]

\* The in-order position the descent of SpeTaskEnqueueTimer reaches for a key
\* e: behind every node whose key is not larger (equal keys go right).
TimerSlot(s, e) ==
  CHOOSE k \in 1 .. Len(s.timer_head) + 1 :
    /\ \A i \in 1 .. k - 1 : s.expire[s.timer_head[i]] <= e
    /\ k <= Len(s.timer_head) => e < s.expire[s.timer_head[k]]

\* Faulty variants: the test forgets a status.
AcceptsQueued(s, t)  == s.status[t] # SPE_TASK_RUN
AcceptsRunning(s, t) == s.status[t] # SPE_TASK_QUEUE

\* The first test of both enqueue operations, and the value they return.
Accepts(s, t) == s.status[t] \notin {SPE_TASK_QUEUE, SPE_TASK_RUN}

\* Faulty variant: the node stays in the tree.
LeaveTreeSkipped(s, t) == s

\* The second test of both: a task waiting in the tree leaves it.
LeaveTree(s, t) ==
  IF s.status[t] = SPE_TASK_TIMER
  THEN [s EXCEPT !.timer_head = Unlink(@, t)]
  ELSE s

\* Faulty variant: list_add instead of list_add_tail.
JoinQueueAtHead(s, t) ==
  [s EXCEPT !.task_head = << t >> \o @,
            !.status[t] = SPE_TASK_QUEUE,
            !.gTaskNum  = @ + 1]

\* list_add_tail, status and counter: how a task joins the run queue.
JoinQueue(s, t) ==
  [s EXCEPT !.task_head = Append(@, t),
            !.status[t] = SPE_TASK_QUEUE,
            !.gTaskNum  = @ + 1]

SpeTaskEnqueue(s, t) ==
  IF Accepts(s, t) THEN JoinQueue(LeaveTree(s, t), t) ELSE s

SpeTaskDequeue(s, t) ==
  IF s.status[t] = SPE_TASK_QUEUE
  THEN [s EXCEPT !.task_head = Unlink(@, t),
                 !.status[t] = SPE_TASK_FREE,
                 !.gTaskNum  = @ - 1]
  ELSE s

\* Key, timeout flag, link into the tree, status.
JoinTree(s, t, e) ==
  [s EXCEPT !.timer_head = InsertAt(@, TimerSlot(s, e), t),
            !.expire[t]  = e,
            !.Timeout[t] = 0,
            !.status[t]  = SPE_TASK_TIMER]

SpeTaskEnqueueTimer(s, t, now, ms) ==
  IF Accepts(s, t) THEN JoinTree(LeaveTree(s, t), t, now + ms) ELSE s

\* Faulty variant: the counter update is copied from SpeTaskDequeue.
SpeTaskDequeueTimerCounts(s, t) ==
  IF s.status[t] = SPE_TASK_TIMER
  THEN [LeaveTree(s, t) EXCEPT !.status[t] = SPE_TASK_FREE,
                               !.gTaskNum = @ - 1]
  ELSE s

SpeTaskDequeueTimer(s, t) ==
  IF s.status[t] = SPE_TASK_TIMER
  THEN [LeaveTree(s, t) EXCEPT !.status[t] = SPE_TASK_FREE]
  ELSE s

-----------------------------------------------------------------------------
\* The pieces of taskProcess.  list_first_entry of an empty list is not a
\* task: QueueExact shows that a non-zero gTaskNum excludes it.
TimerDue(s, curr_time) ==
  s.timer_head # << >> /\ s.expire[Head(s.timer_head)] <= curr_time

FireFirst(s) ==
  LET t == Head(s.timer_head)
  IN  JoinQueue([s EXCEPT !.timer_head = Tail(@), !.Timeout[t] = 1], t)

RunFirst(s) ==
  LET t == Head(s.task_head)
  IN  [s EXCEPT !.task_head = Tail(@),
                !.gTaskNum  = @ - 1,
                !.status[t] = SPE_TASK_RUN]

\* The status write after the handler returned.
Release(s, t) == [s EXCEPT !.status[t] = SPE_TASK_FREE]

-----------------------------------------------------------------------------
\* The run queue holds exactly the tasks whose status says so, each once, and
\* gTaskNum counts them: what the ASSERTs of the run loop and the NULL-less
\* list_first_entry rely on.
QueueExact(s) ==
  /\ s.gTaskNum = Len(s.task_head)
  /\ IsInjective(s.task_head)
  /\ Range(s.task_head) = {t \in Tasks : s.status[t] = SPE_TASK_QUEUE}

\* The tree holds exactly the tasks whose status says so, each once, in the
\* order of their keys, and none of them is already marked as timed out.
TimersExact(s) ==
  /\ IsInjective(s.timer_head)
  /\ Range(s.timer_head) = {t \in Tasks : s.status[t] = SPE_TASK_TIMER}
  /\ \A i, j \in DOMAIN s.timer_head :
       i < j => s.expire[s.timer_head[i]] <= s.expire[s.timer_head[j]]
  /\ \A t \in Range(s.timer_head) : s.Timeout[t] = 0
=============================================================================
