---------------------------- MODULE SpeConnProofs ----------------------------
(***************************************************************************)
(* Theorems about SpeConn, for any number of connections, any timeouts and *)
(* any behaviour of the program, the kernel and the peers.                 *)
(***************************************************************************)
EXTENDS SpeConn, TLAPS

(***************************************************************************)
(* What the scheduler's operations do to the four tasks of a connection:   *)
(* the lemmas of SpeTaskProofs for the tasks of SpeConn, and the effect  *)
(* of each operation on the status words.                                  *)
(***************************************************************************)
Queue == INSTANCE SpeTaskProofs WITH Tasks <- ConnTasks, Delays <- ExpireTimes

SchedInv(s) == s \in SchedState /\ QueueExact(s) /\ TimersExact(s)

\* What SpeTask assumes is so for the tasks of SpeConn.
LEMMA QueueAssumptions ==
  ExpireTimes \subseteq Nat /\ MaxTime \in Nat /\ NoTask \notin ConnTasks /\ Never \notin Nat
BY TimesAssumption, NoTaskAssumption, NeverAssumption

\* The operations that the modules reach on two ways are the same ones.
LEMMA SameInv == \A s : Queue!SchedInv(s) <=> SchedInv(s)
BY DEF SchedInv, Queue!SchedInv, SchedState, Queue!SchedState, QueueExact, Queue!QueueExact,
       TimersExact, Queue!TimersExact, Status, Queue!Status, IsInjective, Queue!IsInjective,
       Range, Queue!Range, SPE_TASK_FREE, Queue!SPE_TASK_FREE, SPE_TASK_TIMER, Queue!SPE_TASK_TIMER,
       SPE_TASK_QUEUE, Queue!SPE_TASK_QUEUE, SPE_TASK_RUN, Queue!SPE_TASK_RUN

\* The pieces of the operations, by both names.
LEMMA SameOperations ==
  ASSUME NEW s, NEW t, NEW now, NEW ms
  PROVE  /\ Queue!Accepts(s, t) <=> Accepts(s, t)
         /\ Queue!LeaveTree(s, t) = LeaveTree(s, t)
         /\ Queue!JoinQueue(s, t) = JoinQueue(s, t)
         /\ Queue!JoinTree(s, t, now) = JoinTree(s, t, now)
BY SMTT(30) DEF Accepts, Queue!Accepts, LeaveTree, Queue!LeaveTree, JoinQueue, Queue!JoinQueue,
       JoinTree, Queue!JoinTree, TimerSlot, Queue!TimerSlot, InsertAt, Queue!InsertAt,
       Unlink, Queue!Unlink, RemoveAt, Queue!RemoveAt,
       SPE_TASK_FREE, Queue!SPE_TASK_FREE, SPE_TASK_TIMER, Queue!SPE_TASK_TIMER,
       SPE_TASK_QUEUE, Queue!SPE_TASK_QUEUE, SPE_TASK_RUN, Queue!SPE_TASK_RUN

\* The four operations, by both names.
LEMMA SameCalls ==
  ASSUME NEW s, NEW t, NEW now, NEW ms
  PROVE  /\ Queue!SpeTaskEnqueue(s, t) = SpeTaskEnqueue(s, t)
         /\ Queue!SpeTaskDequeue(s, t) = SpeTaskDequeue(s, t)
         /\ Queue!SpeTaskEnqueueTimer(s, t, now, ms) = SpeTaskEnqueueTimer(s, t, now, ms)
         /\ Queue!SpeTaskDequeueTimer(s, t) = SpeTaskDequeueTimer(s, t)
BY SameOperations
   DEF SpeTaskEnqueue, Queue!SpeTaskEnqueue, SpeTaskDequeue, Queue!SpeTaskDequeue,
       SpeTaskEnqueueTimer, Queue!SpeTaskEnqueueTimer, SpeTaskDequeueTimer, Queue!SpeTaskDequeueTimer,
       Unlink, Queue!Unlink, RemoveAt, Queue!RemoveAt,
       SPE_TASK_FREE, Queue!SPE_TASK_FREE, SPE_TASK_TIMER, Queue!SPE_TASK_TIMER,
       SPE_TASK_QUEUE, Queue!SPE_TASK_QUEUE

-----------------------------------------------------------------------------
(* Every operation keeps SchedInv and changes the status words as said.     *)

\* SpeTaskEnqueue queues a task that accepts it.
LEMMA EnqueueFacts ==
  ASSUME NEW s, SchedInv(s), NEW t \in ConnTasks
  PROVE  /\ SchedInv(SpeTaskEnqueue(s, t))
         /\ SpeTaskEnqueue(s, t).status =
              IF Accepts(s, t) THEN [s.status EXCEPT ![t] = SPE_TASK_QUEUE] ELSE s.status
<1>1. Queue!SchedInv(s) /\ s \in Queue!SchedState
  BY SameInv DEF Queue!SchedInv
<1>2. SchedInv(SpeTaskEnqueue(s, t))
  BY <1>1, QueueAssumptions, Queue!EnqueueInv, SameInv, SameCalls
<1>3. LET r == Queue!SpeTaskEnqueue(s, t)
      IN  IF Queue!Accepts(s, t)
          THEN r.status = [s.status EXCEPT ![t] = Queue!SPE_TASK_QUEUE]
          ELSE r = s
  BY <1>1, QueueAssumptions, Queue!EnqueueEffect
<1>4. Queue!SpeTaskEnqueue(s, t) = SpeTaskEnqueue(s, t) /\ (Queue!Accepts(s, t) <=> Accepts(s, t))
  BY SameCalls, SameOperations
<1> QED  BY <1>2, <1>3, <1>4 DEF SPE_TASK_QUEUE, Queue!SPE_TASK_QUEUE

\* SpeTaskDequeue frees a queued task and leaves an armed one in the tree.
LEMMA DequeueFacts ==
  ASSUME NEW s, SchedInv(s), NEW t \in ConnTasks
  PROVE  /\ SchedInv(SpeTaskDequeue(s, t))
         /\ SpeTaskDequeue(s, t).status =
              IF s.status[t] = SPE_TASK_QUEUE
              THEN [s.status EXCEPT ![t] = SPE_TASK_FREE] ELSE s.status
<1>1. Queue!SchedInv(s) /\ s \in Queue!SchedState
  BY SameInv DEF Queue!SchedInv
<1>2. SchedInv(SpeTaskDequeue(s, t))
  BY <1>1, QueueAssumptions, Queue!DequeueInv, SameInv, SameCalls
<1>3. LET r == Queue!SpeTaskDequeue(s, t)
      IN  IF s.status[t] = Queue!SPE_TASK_QUEUE
          THEN r.status = [s.status EXCEPT ![t] = Queue!SPE_TASK_FREE]
          ELSE r = s
  BY <1>1, QueueAssumptions, Queue!DequeueEffect
<1>4. Queue!SpeTaskDequeue(s, t) = SpeTaskDequeue(s, t)
  BY SameCalls
<1> QED  BY <1>2, <1>3, <1>4
         DEF SPE_TASK_QUEUE, Queue!SPE_TASK_QUEUE, SPE_TASK_FREE, Queue!SPE_TASK_FREE

\* SpeTaskEnqueueTimer arms a task that accepts it.
LEMMA EnqueueTimerFacts ==
  ASSUME NEW s, SchedInv(s), NEW t \in ConnTasks, NEW now \in Nat, NEW ms \in Nat
  PROVE  /\ SchedInv(SpeTaskEnqueueTimer(s, t, now, ms))
         /\ SpeTaskEnqueueTimer(s, t, now, ms).status =
              IF Accepts(s, t) THEN [s.status EXCEPT ![t] = SPE_TASK_TIMER] ELSE s.status
<1>1. Queue!SchedInv(s) /\ s \in Queue!SchedState
  BY SameInv DEF Queue!SchedInv
<1>2. SchedInv(SpeTaskEnqueueTimer(s, t, now, ms))
  BY <1>1, QueueAssumptions, Queue!EnqueueTimerInv, SameInv, SameCalls
<1>3. LET r == Queue!SpeTaskEnqueueTimer(s, t, now, ms)
      IN  IF Queue!Accepts(s, t)
          THEN r.status = [s.status EXCEPT ![t] = Queue!SPE_TASK_TIMER]
          ELSE r = s
  BY <1>1, QueueAssumptions, Queue!EnqueueTimerEffect
<1>4. /\ Queue!SpeTaskEnqueueTimer(s, t, now, ms) = SpeTaskEnqueueTimer(s, t, now, ms)
      /\ Queue!Accepts(s, t) <=> Accepts(s, t)
  BY SameCalls, SameOperations
<1> QED  BY <1>2, <1>3, <1>4 DEF SPE_TASK_TIMER, Queue!SPE_TASK_TIMER

\* SpeTaskDequeueTimer frees an armed task.
LEMMA DequeueTimerFacts ==
  ASSUME NEW s, SchedInv(s), NEW t \in ConnTasks
  PROVE  /\ SchedInv(SpeTaskDequeueTimer(s, t))
         /\ SpeTaskDequeueTimer(s, t).status =
              IF s.status[t] = SPE_TASK_TIMER
              THEN [s.status EXCEPT ![t] = SPE_TASK_FREE] ELSE s.status
<1>1. Queue!SchedInv(s) /\ s \in Queue!SchedState
  BY SameInv DEF Queue!SchedInv
<1>2. SchedInv(SpeTaskDequeueTimer(s, t))
  BY <1>1, QueueAssumptions, Queue!DequeueTimerInv, SameInv, SameCalls
<1>3. LET r == Queue!SpeTaskDequeueTimer(s, t)
      IN  IF s.status[t] = Queue!SPE_TASK_TIMER
          THEN r.status = [s.status EXCEPT ![t] = Queue!SPE_TASK_FREE]
          ELSE r = s
  BY <1>1, QueueAssumptions, Queue!DequeueTimerEffect
<1>4. Queue!SpeTaskDequeueTimer(s, t) = SpeTaskDequeueTimer(s, t)
  BY SameCalls
<1> QED  BY <1>2, <1>3, <1>4
         DEF SPE_TASK_TIMER, Queue!SPE_TASK_TIMER, SPE_TASK_FREE, Queue!SPE_TASK_FREE

\* The timer loop moves the first timer into the queue.
LEMMA FireFirstFacts ==
  ASSUME NEW s, SchedInv(s), s.timer_head # << >>
  PROVE  /\ SchedInv(Task!FireFirst(s))
         /\ Head(s.timer_head) \in ConnTasks
         /\ s.status[Head(s.timer_head)] = SPE_TASK_TIMER
         /\ Task!FireFirst(s).status = [s.status EXCEPT ![Head(s.timer_head)] = SPE_TASK_QUEUE]
<1>1. Queue!SchedInv(s) /\ s \in Queue!SchedState
  BY SameInv DEF Queue!SchedInv
<1>2. Queue!FireFirst(s) = Task!FireFirst(s)
  BY DEF Queue!FireFirst, Task!FireFirst, Queue!JoinQueue, Task!JoinQueue,
         Queue!SPE_TASK_QUEUE, Task!SPE_TASK_QUEUE
<1>3. SchedInv(Task!FireFirst(s))
  BY <1>1, QueueAssumptions, <1>2, Queue!FireFirstInv, SameInv
<1>4. Queue!FireFirst(s).status = [s.status EXCEPT ![Head(s.timer_head)] = Queue!SPE_TASK_QUEUE]
  BY <1>1, QueueAssumptions, Queue!FireFirstEffect
<1>5. Head(s.timer_head) \in Range(s.timer_head)
  BY DEF SchedInv, SchedState, Range
<1>6. Head(s.timer_head) \in ConnTasks /\ s.status[Head(s.timer_head)] = SPE_TASK_TIMER
  BY <1>5 DEF SchedInv, TimersExact
<1> QED  BY <1>2, <1>3, <1>4, <1>6 DEF SPE_TASK_QUEUE, Queue!SPE_TASK_QUEUE

\* The run loop takes the head of the queue.
LEMMA RunFirstFacts ==
  ASSUME NEW s, SchedInv(s), s.gTaskNum # 0
  PROVE  /\ SchedInv(Task!RunFirst(s))
         /\ Head(s.task_head) \in ConnTasks
         /\ s.status[Head(s.task_head)] = SPE_TASK_QUEUE
         /\ Task!RunFirst(s).status = [s.status EXCEPT ![Head(s.task_head)] = SPE_TASK_RUN]
<1>1. Queue!SchedInv(s) /\ s \in Queue!SchedState
  BY SameInv DEF Queue!SchedInv
<1>2. Queue!RunFirst(s) = Task!RunFirst(s)
  BY DEF Queue!RunFirst, Task!RunFirst, Queue!SPE_TASK_RUN, Task!SPE_TASK_RUN
<1>3. /\ Queue!SchedInv(Queue!RunFirst(s)) /\ Head(s.task_head) \in ConnTasks
      /\ s.status[Head(s.task_head)] = Queue!SPE_TASK_QUEUE
  BY <1>1, QueueAssumptions, Queue!RunFirstInv
<1>4. Queue!RunFirst(s).status = [s.status EXCEPT ![Head(s.task_head)] = Queue!SPE_TASK_RUN]
  BY <1>1, QueueAssumptions, Queue!RunFirstEffect
<1> QED  BY <1>2, <1>3, <1>4, SameInv
         DEF SPE_TASK_QUEUE, Queue!SPE_TASK_QUEUE, SPE_TASK_RUN, Queue!SPE_TASK_RUN

\* The task is free when its handler has returned.
LEMMA ReleaseFacts ==
  ASSUME NEW s, SchedInv(s), NEW t \in ConnTasks, s.status[t] = SPE_TASK_RUN
  PROVE  /\ SchedInv(Task!Release(s, t))
         /\ Task!Release(s, t).status = [s.status EXCEPT ![t] = SPE_TASK_FREE]
<1>1. Queue!SchedInv(s) /\ s \in Queue!SchedState /\ s.status[t] = Queue!SPE_TASK_RUN
  BY SameInv DEF Queue!SchedInv, SPE_TASK_RUN, Queue!SPE_TASK_RUN
<1>2. Queue!Release(s, t) = Task!Release(s, t)
  BY DEF Queue!Release, Task!Release, Queue!SPE_TASK_FREE, Task!SPE_TASK_FREE
<1>3. Queue!SchedInv(Queue!Release(s, t))
  BY <1>1, QueueAssumptions, Queue!ReleaseInv
<1>4. Queue!Release(s, t).status = [s.status EXCEPT ![t] = Queue!SPE_TASK_FREE]
  BY <1>1, QueueAssumptions, Queue!ReleaseEffect
<1> QED  BY <1>2, <1>3, <1>4, SameInv DEF SPE_TASK_FREE, Queue!SPE_TASK_FREE

-----------------------------------------------------------------------------
(* The pieces of spe_conn.c and spe_epoll.c that call them.                 *)

\* Timeout = 0 changes no list and no state.
LEMMA ClearTimeoutFacts ==
  ASSUME NEW s, SchedInv(s), NEW t \in ConnTasks
  PROVE  /\ SchedInv(ClearTimeout(s, t))
         /\ ClearTimeout(s, t).status = s.status
<1> DEFINE r == ClearTimeout(s, t)
<1>1. /\ r \in SchedState
      /\ r.task_head = s.task_head /\ r.timer_head = s.timer_head
      /\ r.gTaskNum = s.gTaskNum /\ r.expire = s.expire /\ r.status = s.status
      /\ \A u \in ConnTasks : r.Timeout[u] = IF u = t THEN 0 ELSE s.Timeout[u]
  BY DEF ClearTimeout, SchedInv, SchedState
<1> HIDE DEF r
<1>2. QueueExact(r)
  BY <1>1 DEF SchedInv, QueueExact
<1>3. Range(s.timer_head) \subseteq ConnTasks
  BY DEF SchedInv, TimersExact
<1>4. TimersExact(r)
  BY <1>1, <1>3 DEF SchedInv, TimersExact
<1> QED  BY <1>1, <1>2, <1>4 DEF SchedInv, r

\* A timer is started only if there is a timeout.
LEMMA StartTimerFacts ==
  ASSUME NEW s, SchedInv(s), NEW t \in ConnTasks, NEW ms \in Nat, clock \in Nat
  PROVE  /\ SchedInv(StartTimer(s, t, ms))
         /\ StartTimer(s, t, ms).status =
              IF ms # 0 /\ Accepts(s, t) THEN [s.status EXCEPT ![t] = SPE_TASK_TIMER] ELSE s.status
BY EnqueueTimerFacts DEF StartTimer

\* A timer is stopped only if there is a timeout.
LEMMA StopTimerFacts ==
  ASSUME NEW s, SchedInv(s), NEW t \in ConnTasks, NEW ms
  PROVE  /\ SchedInv(StopTimer(s, t, ms))
         /\ StopTimer(s, t, ms).status =
              IF ms # 0 /\ s.status[t] = SPE_TASK_TIMER
              THEN [s.status EXCEPT ![t] = SPE_TASK_FREE] ELSE s.status
BY DequeueTimerFacts DEF StopTimer

\* A request that waits clears the flag of its task and arms it.
LEMMA ArmFacts ==
  ASSUME NEW s, SchedInv(s), NEW t \in ConnTasks, NEW ms \in Nat, clock \in Nat
  PROVE  /\ SchedInv(StartTimer(ClearTimeout(s, t), t, ms))
         /\ StartTimer(ClearTimeout(s, t), t, ms).status =
              IF ms # 0 /\ Accepts(s, t) THEN [s.status EXCEPT ![t] = SPE_TASK_TIMER] ELSE s.status
<1> DEFINE r == ClearTimeout(s, t)
<1>1. SchedInv(r) /\ r.status = s.status
  BY ClearTimeoutFacts
<1>2. Accepts(r, t) <=> Accepts(s, t)
  BY <1>1 DEF Accepts
<1> HIDE DEF r
<1>3. /\ SchedInv(StartTimer(r, t, ms))
      /\ StartTimer(r, t, ms).status =
              IF ms # 0 /\ Accepts(r, t) THEN [r.status EXCEPT ![t] = SPE_TASK_TIMER] ELSE r.status
  BY <1>1, StartTimerFacts
<1> QED  BY <1>1, <1>2, <1>3 DEF r

\* Every task has one of the four states.
LEMMA StatusOfSched ==
  ASSUME NEW s, SchedInv(s)
  PROVE  s.status \in [ConnTasks -> {SPE_TASK_FREE, SPE_TASK_TIMER, SPE_TASK_QUEUE, SPE_TASK_RUN}]
BY DEF SchedInv, SchedState, Status

Four(c) == {readTask(c), writeTask(c), ReadCallback(c), WriteCallback(c)}

\* Every task belongs to a connection.
LEMMA FourAreTasks ==
  /\ \A c \in Conns : Four(c) \subseteq ConnTasks
  /\ \A t \in ConnTasks : \E c \in Conns : t \in Four(c)
BY DEF Four, ConnTasks, readTask, writeTask, ReadCallback, WriteCallback

\* The tasks of a connection are distinct, and no two connections share one.
LEMMA FourDiffer ==
  ASSUME NEW c, NEW d
  PROVE  /\ readTask(c) # writeTask(d) /\ readTask(c) # ReadCallback(d)
         /\ readTask(c) # WriteCallback(d) /\ writeTask(c) # ReadCallback(d)
         /\ writeTask(c) # WriteCallback(d) /\ ReadCallback(c) # WriteCallback(d)
         /\ c # d => Four(c) \cap Four(d) = {}
BY DEF Four, readTask, writeTask, ReadCallback, WriteCallback

\* The four calls of SpeConnDestroy take the connection's tasks off the queue.
LEMMA DequeueAllFacts ==
  ASSUME NEW s, SchedInv(s), NEW c \in Conns
  PROVE  /\ SchedInv(DequeueAll(s, c))
         /\ \A u \in ConnTasks :
              DequeueAll(s, c).status[u] =
                IF u \in Four(c) /\ s.status[u] = SPE_TASK_QUEUE THEN SPE_TASK_FREE ELSE s.status[u]
<1> DEFINE s1 == SpeTaskDequeue(s, readTask(c))
           s2 == SpeTaskDequeue(s1, writeTask(c))
           s3 == SpeTaskDequeue(s2, ReadCallback(c))
           s4 == SpeTaskDequeue(s3, WriteCallback(c))
<1>1. Four(c) \subseteq ConnTasks
  BY FourAreTasks
<1> DEFINE Stops(r, p, t) == \A u \in ConnTasks :
             r.status[u] = IF u = t /\ p.status[u] = SPE_TASK_QUEUE THEN SPE_TASK_FREE ELSE p.status[u]
<1>2. ASSUME NEW p, SchedInv(p), NEW t \in ConnTasks
      PROVE  SchedInv(SpeTaskDequeue(p, t)) /\ Stops(SpeTaskDequeue(p, t), p, t)
  BY <1>2, DequeueFacts, StatusOfSched
<1>3. SchedInv(s1) /\ Stops(s1, s, readTask(c))
  BY <1>1, <1>2 DEF Four
<1> HIDE DEF s1, Stops
<1>4. SchedInv(s2) /\ Stops(s2, s1, writeTask(c))
  BY <1>1, <1>2, <1>3 DEF Four
<1> HIDE DEF s2
<1>5. SchedInv(s3) /\ Stops(s3, s2, ReadCallback(c))
  BY <1>1, <1>2, <1>4 DEF Four
<1> HIDE DEF s3
<1>6. SchedInv(s4) /\ Stops(s4, s3, WriteCallback(c))
  BY <1>1, <1>2, <1>5 DEF Four
<1>7. DequeueAll(s, c) = s4
  BY DEF DequeueAll, s1, s2, s3
<1> HIDE DEF s4
<1>8. \A u \in ConnTasks :
        s4.status[u] = IF u \in Four(c) /\ s.status[u] = SPE_TASK_QUEUE THEN SPE_TASK_FREE ELSE s.status[u]
  BY <1>3, <1>4, <1>5, <1>6 DEF Stops, Four, SPE_TASK_FREE, SPE_TASK_QUEUE
<1> QED  BY <1>6, <1>7, <1>8

-----------------------------------------------------------------------------
\* The status words of the tasks of c, and whether the body of readTask or
\* writeTask is queued or on the stack.
RStatus(c)  == sched.status[readTask(c)]
WStatus(c)  == sched.status[writeTask(c)]
RCStatus(c) == sched.status[ReadCallback(c)]
WCStatus(c) == sched.status[WriteCallback(c)]

RWorks(c) == RStatus(c) = SPE_TASK_QUEUE \/ (frame = "body" /\ running = readTask(c))
WWorks(c) == WStatus(c) = SPE_TASK_QUEUE \/ (frame = "body" /\ running = writeTask(c))

Reads(c)  == Open(c) /\ conn[c].readType # SPE_CONN_READNONE
Writes(c) == Open(c) /\ conn[c].writeType # SPE_CONN_WRITENONE

\* Nothing is left of a connection that was destroyed, and nothing was asked
\* of a socket that is not connected.
QuietInv(c) ==
  /\ ~ Open(c) \/ net[c].link = "fresh" => ~ req[c].read.owed /\ ~ req[c].write.owed
  /\ net[c].link = "fresh" => ~ Reads(c) /\ ~ Writes(c)

\* Timers belong to requests that wait and have a timeout.
TimerInv(c) ==
  /\ RStatus(c) = SPE_TASK_TIMER => Reads(c) /\ conn[c].readExpireTime # 0
  /\ WStatus(c) = SPE_TASK_TIMER => Writes(c) /\ ~ Connects(c) /\ conn[c].writeExpireTime # 0
  /\ RCStatus(c) # SPE_TASK_TIMER /\ WCStatus(c) # SPE_TASK_TIMER

\* A body runs for a request that waits.
WorkInv(c) ==
  /\ RWorks(c) => Reads(c)
  /\ WWorks(c) => Writes(c) /\ ~ Connects(c)

\* A direction waits for a request; a connect waits in both and is one request.
OwedInv(c) ==
  /\ Reads(c) => req[c].read.owed
  /\ Writes(c) /\ ~ Connects(c) => req[c].write.owed
  /\ Open(c) /\ Connects(c) => Writes(c) /\ ~ req[c].write.owed

\* A queued callback is that of a request that does not wait any more.
CallbackInv(c) ==
  /\ RCStatus(c) = SPE_TASK_QUEUE => Open(c) /\ ~ Reads(c) /\ req[c].read.owed
  /\ WCStatus(c) = SPE_TASK_QUEUE => Open(c) /\ ~ Writes(c) /\ req[c].write.owed

\* RequestIsHeld, of c.
HeldInv(c) ==
  /\ req[c].read.owed /\ ~ req[c].read.lost => Reads(c) \/ RCStatus(c) = SPE_TASK_QUEUE
  /\ req[c].write.owed /\ ~ req[c].write.lost => Writes(c) \/ WCStatus(c) = SPE_TASK_QUEUE

\* MaskMatchesRequest, of c.
MaskInv(c) ==
  /\ SPE_EPOLL_READ \in epoll[c].mask <=> Reads(c)
  /\ SPE_EPOLL_WRITE \in epoll[c].mask <=> Writes(c)
  /\ Reads(c) => epoll[c].readTask = readTask(c)
  /\ Writes(c) => epoll[c].writeTask = IF Connects(c) THEN readTask(c) ELSE writeTask(c)

\* WaitNeedsMore, of c.
WaitInv(c) ==
  Reads(c) /\ conn[c].handler = "readNormal" =>
    Answer(conn[c], conn[c].readType, conn[c].rbytes) = {}

ConnInv(c) ==
  /\ QuietInv(c) /\ TimerInv(c) /\ WorkInv(c) /\ OwedInv(c)
  /\ CallbackInv(c) /\ HeldInv(c) /\ MaskInv(c) /\ WaitInv(c)

TaskInv ==
  /\ SchedInv(sched)
  /\ clock \in Nat /\ curr_time \in Nat /\ curr_time <= clock
  /\ running \in ConnTasks \cup {NoTask}
  /\ pc \in {"poll", "timers", "run", "handler"}
  /\ running # NoTask <=> pc = "handler"
  /\ \A t \in ConnTasks : sched.status[t] = SPE_TASK_RUN <=> t = running

TypeInv ==
  /\ frame \in {"none", "polled", "body", "user", "return"}
  /\ events \in [Conns -> SUBSET {SPE_EPOLL_READ, SPE_EPOLL_WRITE}]
  /\ epoll \in EpollTable
  /\ conn \in [Conns -> ConnState]
  /\ net \in [Conns -> NetState]
  /\ req \in [Conns -> [read : ReqState, write : ReqState]]

IInv == TaskInv /\ TypeInv /\ \A c \in Conns : ConnInv(c)

\* The parts of the scheduler's invariant mean the same by both names.
LEMMA SameParts ==
  /\ Task!SchedState = SchedState
  /\ \A s : Task!QueueExact(s) <=> QueueExact(s)
  /\ \A s : Task!TimersExact(s) <=> TimersExact(s)
  /\ Task!SPE_TASK_RUN = SPE_TASK_RUN
BY DEF SchedState, Task!SchedState, QueueExact, Task!QueueExact, Range, Task!Range,
       IsInjective, Task!IsInjective, TimersExact, Task!TimersExact, Status, Task!Status,
       SPE_TASK_FREE, Task!SPE_TASK_FREE, SPE_TASK_TIMER, Task!SPE_TASK_TIMER,
       SPE_TASK_QUEUE, Task!SPE_TASK_QUEUE, SPE_TASK_RUN, Task!SPE_TASK_RUN

\* TaskInv is the invariant that SpeTaskProofs proves of the scheduler alone.
LEMMA TaskParts == TaskInv <=> Task!IInv
BY SameParts DEF TaskInv, SchedInv, Task!IInv, Task!TypeOK, Task!QueueConsistent,
       Task!TimersConsistent, Task!OneRuns, Task!SampleIsPast

-----------------------------------------------------------------------------
(* Frames                                                                   *)

\* What a call of the program or of a handler must keep of the main thread.
LEMMA CallKeepsTask ==
  ASSUME TaskInv, SchedInv(sched'), UNCHANGED threadVars,
         \A u \in ConnTasks : sched'.status[u] = SPE_TASK_RUN <=> sched.status[u] = SPE_TASK_RUN
  PROVE  TaskInv'
BY DEF TaskInv, threadVars

\* What ConnInv reads of the record and of the socket.
SameRequests(d) ==
  /\ conn'[d].readType = conn[d].readType /\ conn'[d].writeType = conn[d].writeType
  /\ conn'[d].handler = conn[d].handler /\ conn'[d].rbytes = conn[d].rbytes
  /\ conn'[d].readExpireTime = conn[d].readExpireTime
  /\ conn'[d].writeExpireTime = conn[d].writeExpireTime
  /\ conn'[d].got = conn[d].got /\ conn'[d].taken = conn[d].taken

SameLink(d) ==
  net'[d].link # net[d].link =>
    net[d].link \notin {"none", "fresh"} /\ net'[d].link \notin {"none", "fresh"}

\* A connection nobody touches.
LEMMA Untouched ==
  ASSUME NEW d \in Conns, ConnInv(d),
         SameRequests(d), epoll'[d] = epoll[d], req'[d] = req[d], SameLink(d),
         \A u \in Four(d) : sched'.status[u] = sched.status[u],
         frame' = "body" => (frame = "body" /\ running' = running) \/ running' \notin Four(d)
  PROVE  ConnInv(d)'
<1>1. /\ RStatus(d)' = RStatus(d) /\ WStatus(d)' = WStatus(d)
      /\ RCStatus(d)' = RCStatus(d) /\ WCStatus(d)' = WCStatus(d)
  BY DEF Four, RStatus, WStatus, RCStatus, WCStatus
<1>2. (RWorks(d)' => RWorks(d)) /\ (WWorks(d)' => WWorks(d))
  BY <1>1 DEF RWorks, WWorks, Four
<1>3. /\ Open(d)' <=> Open(d)
      /\ Reads(d)' <=> Reads(d)
      /\ Writes(d)' <=> Writes(d)
      /\ Connects(d)' <=> Connects(d)
  BY DEF Open, Reads, Writes, Connects, SameRequests, SameLink
<1>4. QuietInv(d)' /\ TimerInv(d)'
  BY <1>1, <1>3 DEF ConnInv, QuietInv, TimerInv, SameRequests, SameLink
<1>5. WorkInv(d)' /\ OwedInv(d)'
  BY <1>2, <1>3 DEF ConnInv, WorkInv, OwedInv
<1>6. CallbackInv(d)' /\ HeldInv(d)'
  BY <1>1, <1>3 DEF ConnInv, CallbackInv, HeldInv
<1>7. MaskInv(d)' /\ WaitInv(d)'
  BY <1>3 DEF ConnInv, MaskInv, WaitInv, SameRequests, Answer
<1> QED  BY <1>4, <1>5, <1>6, <1>7 DEF ConnInv

\* A step of one connection.
OnlyMoves(c) ==
  /\ \A d \in Conns \ {c} :
       conn'[d] = conn[d] /\ epoll'[d] = epoll[d] /\ req'[d] = req[d] /\ net'[d] = net[d]
  /\ \A u \in ConnTasks \ Four(c) : sched'.status[u] = sched.status[u]
  /\ frame' = "body" => (frame = "body" /\ running' = running) \/ running' \in Four(c)

\* A step of one connection keeps IInv if it keeps the part of c.
LEMMA OneMoves ==
  ASSUME IInv, NEW c \in Conns, TaskInv', TypeInv', OnlyMoves(c), ConnInv(c)'
  PROVE  IInv'
<1>1. ASSUME NEW d \in Conns, d # c PROVE ConnInv(d)'
  <2>1. \A u \in Four(d) : sched'.status[u] = sched.status[u]
    BY <1>1, FourAreTasks, FourDiffer DEF OnlyMoves
  <2>2. frame' = "body" => (frame = "body" /\ running' = running) \/ running' \notin Four(d)
    BY <1>1, FourDiffer DEF OnlyMoves
  <2> QED  BY <1>1, <2>1, <2>2, Untouched DEF OnlyMoves, IInv, SameRequests, SameLink
<1> QED  BY <1>1 DEF IInv

-----------------------------------------------------------------------------
(* What the program sees                                                    *)

\* The parts of the view, by the predicates of the invariant.
LEMMA Parts ==
  ASSUME NEW c
  PROVE  /\ ReadPart(c) = IF ~ Open(c) THEN "none"
                          ELSE IF Connects(c) THEN "connect"
                          ELSE IF Reads(c) THEN "wait"
                          ELSE IF RCStatus(c) = SPE_TASK_QUEUE THEN "queued" ELSE "none"
         /\ WritePart(c) = IF ~ Open(c) \/ Connects(c) THEN "none"
                           ELSE IF Writes(c) THEN "wait"
                           ELSE IF WCStatus(c) = SPE_TASK_QUEUE THEN "queued" ELSE "none"
BY DEF ReadPart, WritePart, Pending, Reads, Writes, RCStatus, WCStatus,
       SPE_CONN_READNONE, SPE_CONN_WRITENONE

\* The same of the next state.
LEMMA PartsAfter ==
  ASSUME NEW c
  PROVE  /\ ReadPart(c)' = IF ~ Open(c)' THEN "none"
                           ELSE IF Connects(c)' THEN "connect"
                           ELSE IF Reads(c)' THEN "wait"
                           ELSE IF RCStatus(c)' = SPE_TASK_QUEUE THEN "queued" ELSE "none"
         /\ WritePart(c)' = IF ~ Open(c)' \/ Connects(c)' THEN "none"
                            ELSE IF Writes(c)' THEN "wait"
                            ELSE IF WCStatus(c)' = SPE_TASK_QUEUE THEN "queued" ELSE "none"
BY DEF ReadPart, WritePart, Pending, Reads, Writes, RCStatus, WCStatus,
       SPE_CONN_READNONE, SPE_CONN_WRITENONE

\* A connection of which the view keeps every part.
SameView(d) ==
  /\ Open(d)' = Open(d) /\ (Open(d) => Ended(d)' = Ended(d))
  /\ ReadPart(d)' = ReadPart(d) /\ WritePart(d)' = WritePart(d)

\* It looks the same.
LEMMA SameViews ==
  ASSUME NEW d, SameView(d)
  PROVE  ViewOf(d)' = ViewOf(d)
BY DEF SameView, ViewOf

\* A step the program does not see.
Stays == View' = View

\* A step that changes no part of any connection's view.
LEMMA NothingSeen ==
  ASSUME \A d \in Conns : SameView(d)
  PROVE  Stays
BY SameViews DEF Stays, View

\* A step that leaves what the parts are made of.
LEMMA PartsStay ==
  ASSUME NEW d, (Open(d)' <=> Open(d)), (Ended(d)' <=> Ended(d)),
         (Reads(d)' <=> Reads(d)), (Writes(d)' <=> Writes(d)), (Connects(d)' <=> Connects(d)),
         (RCStatus(d)' = SPE_TASK_QUEUE <=> RCStatus(d) = SPE_TASK_QUEUE),
         (WCStatus(d)' = SPE_TASK_QUEUE <=> WCStatus(d) = SPE_TASK_QUEUE)
  PROVE  SameView(d)
<1>1. Open(d)' = Open(d) /\ Ended(d)' = Ended(d)
  BY DEF Open, Ended
<1> QED  BY <1>1, Parts, PartsAfter DEF SameView

\* A step of c leaves the view of all others.
LEMMA OthersStay ==
  ASSUME NEW c \in Conns, OnlyMoves(c)
  PROVE  \A d \in Conns \ {c} : SameView(d)
<1> SUFFICES ASSUME NEW d \in Conns, d # c PROVE SameView(d)
  OBVIOUS
<1>1. conn'[d] = conn[d] /\ net'[d] = net[d]
  BY DEF OnlyMoves
<1>2. ReadCallback(d) \in ConnTasks \ Four(c) /\ WriteCallback(d) \in ConnTasks \ Four(c)
  BY FourAreTasks, FourDiffer DEF Four
<1>3. RCStatus(d)' = RCStatus(d) /\ WCStatus(d)' = WCStatus(d)
  BY <1>2 DEF OnlyMoves, RCStatus, WCStatus
<1>4. /\ (Open(d)' <=> Open(d)) /\ (Ended(d)' <=> Ended(d))
      /\ (Reads(d)' <=> Reads(d)) /\ (Writes(d)' <=> Writes(d)) /\ (Connects(d)' <=> Connects(d))
  BY <1>1 DEF Open, Ended, Reads, Writes, Connects
<1> QED  BY <1>3, <1>4, PartsStay

\* A step after which c is open and looks as given, and no other has changed.
Turns(c, ended, read, write) ==
  /\ OnlyMoves(c) /\ Open(c)'
  /\ Ended(c)' <=> ended
  /\ ReadPart(c)' = read /\ WritePart(c)' = write

\* What Turns says of the view.
LEMMA TurnsView ==
  ASSUME NEW c \in Conns, NEW e \in BOOLEAN, NEW r, NEW w, Turns(c, e, r, w)
  PROVE  View' = [View EXCEPT ![c] = [open |-> TRUE, ended |-> e, read |-> r, write |-> w]]
<1>1. \A d \in Conns \ {c} : ViewOf(d)' = ViewOf(d)
  BY OthersStay, SameViews DEF Turns
<1>2. ViewOf(c)' = [open |-> TRUE, ended |-> e, read |-> r, write |-> w]
  <2>1. Open(c)' = TRUE /\ (Open(c)' /\ Ended(c)') = e
    BY DEF Turns, Open
  <2> QED  BY <2>1 DEF Turns, ViewOf
<1> QED  BY <1>1, <1>2 DEF View

\* A step of c that keeps its view.
LEMMA TurnsBack ==
  ASSUME NEW c \in Conns, OnlyMoves(c), SameView(c)
  PROVE  Stays
BY OthersStay, NothingSeen

-----------------------------------------------------------------------------
(* The initial state                                                        *)

\* The initial state: no connection is open and no task is queued.
LEMMA InitStep == Init => IInv
<1> SUFFICES ASSUME Init PROVE IInv
  OBVIOUS
<1>1. SchedInv(sched)
  <2>1. Queue!SchedInv(Queue!SchedInit)
    BY QueueAssumptions, Queue!InitInv
  <2>2. Queue!SchedInit = Task!SchedInit
    BY DEF Queue!SchedInit, Task!SchedInit, Queue!SPE_TASK_FREE, Task!SPE_TASK_FREE
  <2> QED  BY <2>1, <2>2, SameInv DEF Init, Task!Init
<1>2. \A t \in ConnTasks : sched.status[t] = SPE_TASK_FREE
  BY DEF Init, Task!Init, Task!SchedInit, SPE_TASK_FREE, Task!SPE_TASK_FREE
<1>3. TaskInv
  BY <1>1, <1>2, NoTaskAssumption DEF Init, Task!Init, TaskInv, SPE_TASK_FREE, SPE_TASK_RUN
<1>4. TypeInv
  BY DEF Init, TypeInv, EpollEmpty, EpollTable, ConnState, ConnZero, NetState, Socket, Links,
         ReqState, NoRequest, SPE_CONN_READNONE, SPE_CONN_WRITENONE
<1>5. ASSUME NEW c \in Conns PROVE ConnInv(c)
  <2>1. /\ RStatus(c) = SPE_TASK_FREE /\ WStatus(c) = SPE_TASK_FREE
        /\ RCStatus(c) = SPE_TASK_FREE /\ WCStatus(c) = SPE_TASK_FREE
    BY <1>2, FourAreTasks DEF Four, RStatus, WStatus, RCStatus, WCStatus
  <2>2. /\ ~ Open(c) /\ ~ Reads(c) /\ ~ Writes(c) /\ ~ RWorks(c) /\ ~ WWorks(c)
        /\ net[c].link = "none"
        /\ ~ req[c].read.owed /\ ~ req[c].write.owed /\ epoll[c].mask = {}
    BY <2>1 DEF Init, Open, Reads, Writes, RWorks, WWorks, Socket, NoRequest, EpollEmpty,
                SPE_TASK_FREE, SPE_TASK_QUEUE
  <2> QED  BY <2>1, <2>2 DEF ConnInv, QuietInv, TimerInv, WorkInv, OwedInv, CallbackInv, HeldInv,
                MaskInv, WaitInv, SPE_TASK_FREE, SPE_TASK_QUEUE, SPE_TASK_TIMER
<1> QED  BY <1>3, <1>4, <1>5 DEF IInv

\* A step that leaves the scheduler alone keeps its invariant.
LEMMA TaskStays ==
  ASSUME TaskInv, UNCHANGED <<sched, threadVars>>
  PROVE  TaskInv'
BY DEF TaskInv, threadVars

\* SpeConnWrite fills writeBuffer, of which IInv says nothing.
LEMMA WriteStep ==
  ASSUME IInv, NEW c \in Conns, SpeConnWrite(c)
  PROVE  IInv' /\ Stays
<1> DEFINE k == conn[c]
           j == [k EXCEPT !.writeBuffer = @ + 1]
<1>1. conn \in [Conns -> ConnState] /\ k \in ConnState
  BY DEF IInv, TypeInv
<1>2. conn' = [conn EXCEPT ![c] = j] /\ UNCHANGED <<sched, loopVars, frame, epoll, net, req>>
  BY DEF SpeConnWrite
<1>3. /\ j \in ConnState
      /\ j.readType = k.readType /\ j.writeType = k.writeType
      /\ j.handler = k.handler /\ j.rbytes = k.rbytes
      /\ j.readExpireTime = k.readExpireTime /\ j.writeExpireTime = k.writeExpireTime
      /\ j.got = k.got /\ j.taken = k.taken /\ j.Closed = k.Closed /\ j.Error = k.Error
  BY <1>1 DEF ConnState
<1> HIDE DEF j
<1>4. conn' \in [Conns -> ConnState] /\ \A d \in Conns : SameRequests(d)
  BY <1>1, <1>2, <1>3 DEF SameRequests
<1>5. TaskInv'
  BY <1>2, TaskStays DEF IInv, loopVars
<1>6. TypeInv'
  BY <1>2, <1>4 DEF IInv, TypeInv, loopVars
<1>7. \A d \in Conns : ConnInv(d)'
  BY <1>2, <1>4, Untouched DEF IInv, SameLink, loopVars, threadVars
<1>8. \A d \in Conns : SameView(d)
  BY <1>1, <1>2, <1>3, PartsStay DEF Open, Ended, Reads, Writes, Connects, RCStatus, WCStatus
<1>9. Stays
  BY <1>8, NothingSeen
<1> QED  BY <1>5, <1>6, <1>7, <1>9 DEF IInv

\* A step of the kernel or a peer keeps open sockets open.
LEMMA NetStepFacts ==
  ASSUME IInv, NEW c \in Conns, NEW from, NEW state \in NetState, NetStep(c, from, state),
         net[c].link \notin {"none", "fresh"}, state.link \notin {"none", "fresh"}
  PROVE  IInv' /\ Stays
<1>1. /\ UNCHANGED <<sched, loopVars, frame, epoll, conn, req>>
      /\ net' \in [Conns -> NetState]
      /\ \A d \in Conns : SameLink(d)
  BY DEF NetStep, SameLink, IInv, TypeInv
<1>2. TaskInv'
  BY <1>1, TaskStays DEF IInv, loopVars
<1>3. TypeInv'
  BY <1>1 DEF IInv, TypeInv, loopVars
<1>4. \A d \in Conns : ConnInv(d)'
  BY <1>1, Untouched DEF IInv, SameRequests, loopVars, threadVars
<1>5. \A d \in Conns : SameView(d)
  BY <1>1, PartsStay DEF SameLink, Open, Ended, Reads, Writes, Connects, RCStatus, WCStatus
<1>6. Stays
  BY <1>5, NothingSeen
<1> QED  BY <1>2, <1>3, <1>4, <1>6 DEF IInv

\* All the steps of the kernel and the peer.
LEMMA PeerStep ==
  ASSUME IInv, NEW c \in Conns, Peer(c)
  PROVE  IInv' /\ Stays
<1> DEFINE n == net[c]
<1>1. n \in NetState
  BY DEF IInv, TypeInv
<1>2. CASE PeerSend(c)
  <2>1. [n EXCEPT !.sent = @ + 1] \in NetState /\ [n EXCEPT !.sent = @ + 1].link = n.link
    BY <1>1 DEF NetState
  <2> QED  BY <1>2, <2>1, NetStepFacts DEF PeerSend, NetStep
<1>3. CASE PeerDrains(c)
  <2>1. [n EXCEPT !.room = TRUE] \in NetState /\ [n EXCEPT !.room = TRUE].link = n.link
    BY <1>1 DEF NetState
  <2> QED  BY <1>3, <2>1, NetStepFacts DEF PeerDrains, NetStep
<1>4. ASSUME NEW l \in Links
      PROVE  [n EXCEPT !.link = l] \in NetState /\ [n EXCEPT !.link = l].link = l
  BY <1>1 DEF NetState
<1>5. CASE PeerClose(c) \/ PeerReset(c)
  BY <1>4, <1>5, NetStepFacts DEF PeerClose, PeerReset, NetStep, Links
<1>6. CASE ConnectDone(c) \/ ConnectFails(c)
  BY <1>4, <1>6, NetStepFacts DEF ConnectDone, ConnectFails, NetStep, Links
<1> QED  BY <1>2, <1>3, <1>5, <1>6 DEF Peer

\* Time passes.
LEMMA TickStep ==
  ASSUME IInv, Tick
  PROVE  IInv' /\ Stays
<1>1. /\ UNCHANGED <<sched, running, pc, curr_time, events, frame, epoll, conn, net, req>>
      /\ clock' = clock + 1
  BY DEF Tick, Task!Tick, connVars
<1>2. TaskInv'
  BY <1>1 DEF IInv, TaskInv
<1>3. TypeInv'
  BY <1>1 DEF IInv, TypeInv
<1>4. \A d \in Conns : ConnInv(d)'
  BY <1>1, Untouched DEF IInv, SameRequests, SameLink
<1>5. \A d \in Conns : SameView(d)
  BY <1>1, PartsStay DEF Open, Ended, Reads, Writes, Connects, RCStatus, WCStatus
<1>6. Stays
  BY <1>5, NothingSeen
<1> QED  BY <1>2, <1>3, <1>4, <1>6 DEF IInv

-----------------------------------------------------------------------------
(* The pieces of the actions                                                *)

\* What a read or connect request changes in req.
LEMMA IssueReadFacts ==
  ASSUME TypeInv, NEW c \in Conns, NEW kind \in {"none", "connect", "read", "write"},
         NEW accepted \in BOOLEAN, NEW ms \in Nat, NEW mark \in Nat, clock \in Nat,
         Issue(c, "read", kind, accepted, ms, mark)
  PROVE  /\ req' \in [Conns -> [read : ReqState, write : ReqState]]
         /\ req'[c].read.owed /\ req'[c].read.lost = ~ accepted
         /\ req'[c].write = req[c].write
         /\ \A d \in Conns \ {c} : req'[d] = req[d]
<1> DEFINE r == [kind |-> kind, owed |-> TRUE, lost |-> ~ accepted, mark |-> mark,
                 due |-> IF ms = 0 THEN Never ELSE clock + ms]
           q == req[c]
           q2 == [q EXCEPT !["read"] = r]
<1>1. r \in ReqState
  BY DEF ReqState
<1>2. q \in [read : ReqState, write : ReqState]
  BY DEF TypeInv
<1>3. req' = [req EXCEPT ![c] = q2]
  BY DEF Issue
<1>4. q2 \in [read : ReqState, write : ReqState] /\ q2.read = r /\ q2.write = q.write
  BY <1>1, <1>2
<1>5. r.owed /\ r.lost = ~ accepted
  OBVIOUS
<1> HIDE DEF r, q2
<1> QED  BY <1>1, <1>2, <1>3, <1>4, <1>5 DEF TypeInv

\* What a write request changes in req.
LEMMA IssueWriteFacts ==
  ASSUME TypeInv, NEW c \in Conns, NEW accepted \in BOOLEAN, NEW ms \in Nat, clock \in Nat,
         Issue(c, "write", "write", accepted, ms, 0)
  PROVE  /\ req' \in [Conns -> [read : ReqState, write : ReqState]]
         /\ req'[c].write.owed /\ req'[c].write.lost = ~ accepted
         /\ req'[c].read = req[c].read
         /\ \A d \in Conns \ {c} : req'[d] = req[d]
<1> DEFINE r == [kind |-> "write", owed |-> TRUE, lost |-> ~ accepted, mark |-> 0,
                 due |-> IF ms = 0 THEN Never ELSE clock + ms]
           q == req[c]
           q2 == [q EXCEPT !["write"] = r]
<1>1. r \in ReqState
  BY DEF ReqState
<1>2. q \in [read : ReqState, write : ReqState]
  BY DEF TypeInv
<1>3. req' = [req EXCEPT ![c] = q2]
  BY DEF Issue
<1>4. q2 \in [read : ReqState, write : ReqState] /\ q2.write = r /\ q2.read = q.read
  BY <1>1, <1>2
<1>5. r.owed /\ r.lost = ~ accepted
  OBVIOUS
<1> HIDE DEF r, q2
<1> QED  BY <1>1, <1>2, <1>3, <1>4, <1>5 DEF TypeInv

\* What the call of a program's callback changes in req.
LEMMA EnterFacts ==
  ASSUME TypeInv, NEW c \in Conns, NEW dir \in {"read", "write"}, EnterCallback(c, dir)
  PROVE  /\ req' \in [Conns -> [read : ReqState, write : ReqState]]
         /\ frame' = "user"
         /\ dir = "read" => ~ req'[c].read.owed /\ req'[c].write = req[c].write
         /\ dir = "write" => ~ req'[c].write.owed /\ req'[c].read = req[c].read
         /\ \A d \in Conns \ {c} : req'[d] = req[d]
<1> DEFINE q == req[c]
           qr == [q EXCEPT !["read"] = NoRequest]
           qw == [q EXCEPT !["write"] = NoRequest]
<1>1. NoRequest \in ReqState /\ ~ NoRequest.owed
  BY DEF ReqState, NoRequest
<1>2. q \in [read : ReqState, write : ReqState]
  BY DEF TypeInv
<1>3. /\ dir = "read" => req' = [req EXCEPT ![c] = qr]
      /\ dir = "write" => req' = [req EXCEPT ![c] = qw]
      /\ frame' = "user"
  BY DEF EnterCallback
<1>4. qr \in [read : ReqState, write : ReqState] /\ qr.read = NoRequest /\ qr.write = q.write
  BY <1>1, <1>2
<1>5. qw \in [read : ReqState, write : ReqState] /\ qw.write = NoRequest /\ qw.read = q.read
  BY <1>1, <1>2
<1> HIDE DEF qr, qw
<1> QED  BY <1>1, <1>2, <1>3, <1>4, <1>5 DEF TypeInv

Directions == {SPE_EPOLL_READ, SPE_EPOLL_WRITE}

Enables(c, mask, t) == epoll' = epollEnable(epoll, c, mask, t)
Disables(c, mask) == epoll' = epollDisable(epoll, c, mask)

\* What epollEnable changes in the table, for any mask.
LEMMA EnableFacts ==
  ASSUME TypeInv, NEW c \in Conns, NEW mask \in SUBSET Directions, NEW t \in ConnTasks,
         Enables(c, mask, t)
  PROVE  /\ epoll' \in EpollTable
         /\ epoll'[c].mask = epoll[c].mask \cup mask
         /\ SPE_EPOLL_READ \in mask => epoll'[c].readTask = t
         /\ SPE_EPOLL_READ \notin mask => epoll'[c].readTask = epoll[c].readTask
         /\ SPE_EPOLL_WRITE \in mask => epoll'[c].writeTask = t
         /\ SPE_EPOLL_WRITE \notin mask => epoll'[c].writeTask = epoll[c].writeTask
         /\ \A d \in Conns \ {c} : epoll'[d] = epoll[d]
<1> DEFINE e == epoll[c]
           e2 == [e EXCEPT !.readTask = Pointed(@, SPE_EPOLL_READ, mask, t),
                           !.writeTask = Pointed(@, SPE_EPOLL_WRITE, mask, t),
                           !.mask = @ \cup mask]
<1>1. e \in [readTask : ConnTasks \cup {NoTask}, writeTask : ConnTasks \cup {NoTask},
             mask : SUBSET Directions]
  BY DEF TypeInv, EpollTable, Directions
<1>2. epoll' = [epoll EXCEPT ![c] = e2]
  BY DEF Enables, epollEnable
<1>3. /\ e2 \in [readTask : ConnTasks \cup {NoTask}, writeTask : ConnTasks \cup {NoTask},
                 mask : SUBSET Directions]
      /\ e2.mask = e.mask \cup mask
      /\ e2.readTask = IF SPE_EPOLL_READ \in mask THEN t ELSE e.readTask
      /\ e2.writeTask = IF SPE_EPOLL_WRITE \in mask THEN t ELSE e.writeTask
  BY <1>1 DEF Pointed
<1> HIDE DEF e2
<1> QED  BY <1>1, <1>2, <1>3 DEF TypeInv, EpollTable, Directions

\* What epollDisable changes in the table, for any mask.
LEMMA DisableFacts ==
  ASSUME TypeInv, NEW c \in Conns, NEW mask \in SUBSET Directions,
         Disables(c, mask)
  PROVE  /\ epoll' \in EpollTable
         /\ epoll'[c].mask = epoll[c].mask \ mask
         /\ SPE_EPOLL_READ \notin mask => epoll'[c].readTask = epoll[c].readTask
         /\ SPE_EPOLL_WRITE \notin mask => epoll'[c].writeTask = epoll[c].writeTask
         /\ \A d \in Conns \ {c} : epoll'[d] = epoll[d]
<1> DEFINE e == epoll[c]
           e2 == [e EXCEPT !.readTask = Pointed(@, SPE_EPOLL_READ, mask, NoTask),
                           !.writeTask = Pointed(@, SPE_EPOLL_WRITE, mask, NoTask),
                           !.mask = @ \ mask]
<1>1. e \in [readTask : ConnTasks \cup {NoTask}, writeTask : ConnTasks \cup {NoTask},
             mask : SUBSET Directions]
  BY DEF TypeInv, EpollTable, Directions
<1>2. epoll' = [epoll EXCEPT ![c] = e2]
  BY DEF Disables, epollDisable
<1>3. /\ e2 \in [readTask : ConnTasks \cup {NoTask}, writeTask : ConnTasks \cup {NoTask},
                 mask : SUBSET Directions]
      /\ e2.mask = e.mask \ mask
      /\ SPE_EPOLL_READ \notin mask => e2.readTask = e.readTask
      /\ SPE_EPOLL_WRITE \notin mask => e2.writeTask = e.writeTask
  BY <1>1 DEF Pointed
<1> HIDE DEF e2
<1> QED  BY <1>1, <1>2, <1>3 DEF TypeInv, EpollTable, Directions

\* The masks the code passes: one direction or both.
LEMMA Masks ==
  /\ {SPE_EPOLL_READ} \in SUBSET Directions
  /\ {SPE_EPOLL_WRITE} \in SUBSET Directions
  /\ {SPE_EPOLL_READ, SPE_EPOLL_WRITE} \in SUBSET Directions
  /\ SPE_EPOLL_READ # SPE_EPOLL_WRITE
BY DEF Directions, SPE_EPOLL_READ, SPE_EPOLL_WRITE

\* epollEnable of both directions, as SpeConnConnect calls it.
LEMMA EnableBoth ==
  ASSUME TypeInv, NEW c \in Conns, NEW t \in ConnTasks,
         Enables(c, {SPE_EPOLL_READ, SPE_EPOLL_WRITE}, t)
  PROVE  /\ epoll' \in EpollTable
         /\ SPE_EPOLL_READ \in epoll'[c].mask /\ SPE_EPOLL_WRITE \in epoll'[c].mask
         /\ epoll'[c].readTask = t /\ epoll'[c].writeTask = t
         /\ \A d \in Conns \ {c} : epoll'[d] = epoll[d]
<1> DEFINE m == {SPE_EPOLL_READ, SPE_EPOLL_WRITE}
<1>1. m \in SUBSET Directions /\ SPE_EPOLL_READ \in m /\ SPE_EPOLL_WRITE \in m
  BY Masks
<1>2. Enables(c, m, t)
  OBVIOUS
<1> HIDE DEF m
<1>3. /\ epoll' \in EpollTable /\ epoll'[c].mask = epoll[c].mask \cup m
      /\ SPE_EPOLL_READ \in m => epoll'[c].readTask = t
      /\ SPE_EPOLL_READ \notin m => epoll'[c].readTask = epoll[c].readTask
      /\ SPE_EPOLL_WRITE \in m => epoll'[c].writeTask = t
      /\ SPE_EPOLL_WRITE \notin m => epoll'[c].writeTask = epoll[c].writeTask
      /\ \A d \in Conns \ {c} : epoll'[d] = epoll[d]
  BY <1>1, <1>2, EnableFacts
<1> QED  BY <1>1, <1>3

\* epollEnable of the read direction.
LEMMA EnableRead ==
  ASSUME TypeInv, NEW c \in Conns, NEW t \in ConnTasks,
         Enables(c, {SPE_EPOLL_READ}, t)
  PROVE  /\ epoll' \in EpollTable
         /\ SPE_EPOLL_READ \in epoll'[c].mask
         /\ SPE_EPOLL_WRITE \in epoll'[c].mask <=> SPE_EPOLL_WRITE \in epoll[c].mask
         /\ epoll'[c].readTask = t /\ epoll'[c].writeTask = epoll[c].writeTask
         /\ \A d \in Conns \ {c} : epoll'[d] = epoll[d]
<1> DEFINE m == {SPE_EPOLL_READ}
<1>1. m \in SUBSET Directions /\ SPE_EPOLL_READ \in m /\ SPE_EPOLL_WRITE \notin m
  BY Masks
<1>2. Enables(c, m, t)
  OBVIOUS
<1> HIDE DEF m
<1>3. /\ epoll' \in EpollTable /\ epoll'[c].mask = epoll[c].mask \cup m
      /\ SPE_EPOLL_READ \in m => epoll'[c].readTask = t
      /\ SPE_EPOLL_READ \notin m => epoll'[c].readTask = epoll[c].readTask
      /\ SPE_EPOLL_WRITE \in m => epoll'[c].writeTask = t
      /\ SPE_EPOLL_WRITE \notin m => epoll'[c].writeTask = epoll[c].writeTask
      /\ \A d \in Conns \ {c} : epoll'[d] = epoll[d]
  BY <1>1, <1>2, EnableFacts
<1> QED  BY <1>1, <1>3

\* epollEnable of the write direction.
LEMMA EnableWrite ==
  ASSUME TypeInv, NEW c \in Conns, NEW t \in ConnTasks,
         Enables(c, {SPE_EPOLL_WRITE}, t)
  PROVE  /\ epoll' \in EpollTable
         /\ SPE_EPOLL_WRITE \in epoll'[c].mask
         /\ SPE_EPOLL_READ \in epoll'[c].mask <=> SPE_EPOLL_READ \in epoll[c].mask
         /\ epoll'[c].writeTask = t /\ epoll'[c].readTask = epoll[c].readTask
         /\ \A d \in Conns \ {c} : epoll'[d] = epoll[d]
<1> DEFINE m == {SPE_EPOLL_WRITE}
<1>1. m \in SUBSET Directions /\ SPE_EPOLL_WRITE \in m /\ SPE_EPOLL_READ \notin m
  BY Masks
<1>2. Enables(c, m, t)
  OBVIOUS
<1> HIDE DEF m
<1>3. /\ epoll' \in EpollTable /\ epoll'[c].mask = epoll[c].mask \cup m
      /\ SPE_EPOLL_READ \in m => epoll'[c].readTask = t
      /\ SPE_EPOLL_READ \notin m => epoll'[c].readTask = epoll[c].readTask
      /\ SPE_EPOLL_WRITE \in m => epoll'[c].writeTask = t
      /\ SPE_EPOLL_WRITE \notin m => epoll'[c].writeTask = epoll[c].writeTask
      /\ \A d \in Conns \ {c} : epoll'[d] = epoll[d]
  BY <1>1, <1>2, EnableFacts
<1> QED  BY <1>1, <1>3

\* epollDisable of both directions, as connectNormal calls it.
LEMMA DisableBoth ==
  ASSUME TypeInv, NEW c \in Conns,
         Disables(c, {SPE_EPOLL_READ, SPE_EPOLL_WRITE})
  PROVE  /\ epoll' \in EpollTable
         /\ SPE_EPOLL_READ \notin epoll'[c].mask /\ SPE_EPOLL_WRITE \notin epoll'[c].mask
         /\ \A d \in Conns \ {c} : epoll'[d] = epoll[d]
<1> DEFINE m == {SPE_EPOLL_READ, SPE_EPOLL_WRITE}
<1>1. m \in SUBSET Directions /\ SPE_EPOLL_READ \in m /\ SPE_EPOLL_WRITE \in m
  BY Masks
<1>2. Disables(c, m)
  OBVIOUS
<1> HIDE DEF m
<1>3. /\ epoll' \in EpollTable /\ epoll'[c].mask = epoll[c].mask \ m
      /\ SPE_EPOLL_READ \notin m => epoll'[c].readTask = epoll[c].readTask
      /\ SPE_EPOLL_WRITE \notin m => epoll'[c].writeTask = epoll[c].writeTask
      /\ \A d \in Conns \ {c} : epoll'[d] = epoll[d]
  BY <1>1, <1>2, DisableFacts
<1> QED  BY <1>1, <1>3

\* epollDisable of the read direction.
LEMMA DisableRead ==
  ASSUME TypeInv, NEW c \in Conns, Disables(c, {SPE_EPOLL_READ})
  PROVE  /\ epoll' \in EpollTable
         /\ SPE_EPOLL_READ \notin epoll'[c].mask
         /\ SPE_EPOLL_WRITE \in epoll'[c].mask <=> SPE_EPOLL_WRITE \in epoll[c].mask
         /\ epoll'[c].writeTask = epoll[c].writeTask
         /\ \A d \in Conns \ {c} : epoll'[d] = epoll[d]
<1> DEFINE m == {SPE_EPOLL_READ}
<1>1. m \in SUBSET Directions /\ SPE_EPOLL_READ \in m /\ SPE_EPOLL_WRITE \notin m
  BY Masks
<1>2. Disables(c, m)
  OBVIOUS
<1> HIDE DEF m
<1>3. /\ epoll' \in EpollTable /\ epoll'[c].mask = epoll[c].mask \ m
      /\ SPE_EPOLL_READ \notin m => epoll'[c].readTask = epoll[c].readTask
      /\ SPE_EPOLL_WRITE \notin m => epoll'[c].writeTask = epoll[c].writeTask
      /\ \A d \in Conns \ {c} : epoll'[d] = epoll[d]
  BY <1>1, <1>2, DisableFacts
<1> QED  BY <1>1, <1>3

\* epollDisable of the write direction.
LEMMA DisableWrite ==
  ASSUME TypeInv, NEW c \in Conns, Disables(c, {SPE_EPOLL_WRITE})
  PROVE  /\ epoll' \in EpollTable
         /\ SPE_EPOLL_WRITE \notin epoll'[c].mask
         /\ SPE_EPOLL_READ \in epoll'[c].mask <=> SPE_EPOLL_READ \in epoll[c].mask
         /\ epoll'[c].readTask = epoll[c].readTask
         /\ \A d \in Conns \ {c} : epoll'[d] = epoll[d]
<1> DEFINE m == {SPE_EPOLL_WRITE}
<1>1. m \in SUBSET Directions /\ SPE_EPOLL_WRITE \in m /\ SPE_EPOLL_READ \notin m
  BY Masks
<1>2. Disables(c, m)
  OBVIOUS
<1> HIDE DEF m
<1>3. /\ epoll' \in EpollTable /\ epoll'[c].mask = epoll[c].mask \ m
      /\ SPE_EPOLL_READ \notin m => epoll'[c].readTask = epoll[c].readTask
      /\ SPE_EPOLL_WRITE \notin m => epoll'[c].writeTask = epoll[c].writeTask
      /\ \A d \in Conns \ {c} : epoll'[d] = epoll[d]
  BY <1>1, <1>2, DisableFacts
<1> QED  BY <1>1, <1>3

\* Each field of a connection record can be set by itself.
LEMMA RecordUpdates ==
  ASSUME NEW k \in ConnState
  PROVE  /\ \A x \in 0 .. 3 : [k EXCEPT !.readType = x] \in ConnState
         /\ \A x \in 0 .. 1 : [k EXCEPT !.writeType = x] \in ConnState
         /\ \A x \in Nat : [k EXCEPT !.rbytes = x] \in ConnState
         /\ \A x \in Nat : [k EXCEPT !.readExpireTime = x] \in ConnState
         /\ \A x \in Nat : [k EXCEPT !.writeExpireTime = x] \in ConnState
         /\ \A x \in Nat : [k EXCEPT !.got = x] \in ConnState
         /\ \A x \in Nat : [k EXCEPT !.taken = x] \in ConnState
         /\ \A x \in Nat : [k EXCEPT !.writeBuffer = x] \in ConnState
         /\ \A x \in {"none", "connectNormal", "readNormal"} : [k EXCEPT !.handler = x] \in ConnState
         /\ \A x \in {0, 1} : [k EXCEPT !.ConnectTimeout = x] \in ConnState
         /\ \A x \in {0, 1} : [k EXCEPT !.ReadTimeout = x] \in ConnState
         /\ \A x \in {0, 1} : [k EXCEPT !.WriteTimeout = x] \in ConnState
         /\ \A x \in {0, 1} : [k EXCEPT !.Closed = x] \in ConnState
         /\ \A x \in {0, 1} : [k EXCEPT !.Error = x] \in ConnState
BY Zenon DEF ConnState

\* The constants of the request types are values of the fields.
LEMMA RequestTypes ==
  /\ SPE_CONN_READNONE \in 0 .. 3 /\ SPE_CONN_CONNECT \in 0 .. 3
  /\ SPE_CONN_WRITENONE \in 0 .. 1 /\ SPE_CONN_WRITE \in 0 .. 1 /\ SPE_CONN_CONNECT \in 0 .. 1
BY DEF SPE_CONN_READNONE, SPE_CONN_WRITENONE, SPE_CONN_CONNECT, SPE_CONN_WRITE

\* The effects of the scheduler's operations on the tasks of c and the others.
Arms(c, t, ms) ==
  /\ SchedInv(sched')
  /\ \A u \in ConnTasks :
       sched'.status[u] =
         IF u = t /\ ms # 0 /\ Accepts(sched, t) THEN SPE_TASK_TIMER ELSE sched.status[u]

\* A request that waits arms its task and touches no other.
LEMMA ArmsFacts ==
  ASSUME TaskInv, NEW c \in Conns, NEW t \in Four(c), NEW ms \in Nat,
         sched' = StartTimer(ClearTimeout(sched, t), t, ms)
  PROVE  Arms(c, t, ms)
BY ArmFacts, FourAreTasks, StatusOfSched DEF TaskInv, Arms

Queues(t) ==
  /\ SchedInv(sched')
  /\ \A u \in ConnTasks :
       sched'.status[u] =
         IF u = t /\ Accepts(sched, t) THEN SPE_TASK_QUEUE ELSE sched.status[u]

\* A request answered at once queues its callback and touches no other.
LEMMA QueuesFacts ==
  ASSUME TaskInv, NEW t \in ConnTasks, sched' = SpeTaskEnqueue(sched, t)
  PROVE  Queues(t)
BY EnqueueFacts, StatusOfSched DEF TaskInv, Queues

-----------------------------------------------------------------------------
(* The API                                                                  *)

\* SpeConnCreate finds the slot quiet and leaves it so.
LEMMA CreateStep ==
  ASSUME IInv, NEW c \in Conns, SpeConnCreate(c)
  PROVE  IInv' /\ Turns(c, FALSE, "none", "none")
<1> DEFINE k == conn[c]
           j == [k EXCEPT !.got = 0, !.taken = 0, !.writeBuffer = 0,
                          !.readExpireTime = 0, !.writeExpireTime = 0,
                          !.readType = SPE_CONN_READNONE, !.writeType = SPE_CONN_WRITENONE,
                          !.Closed = 0, !.Error = 0]
<1>1. k \in ConnState /\ conn \in [Conns -> ConnState] /\ net \in [Conns -> NetState]
  BY SMTT(30) DEF IInv, TypeInv
<1>2. /\ conn' = [conn EXCEPT ![c] = j] /\ UNCHANGED <<sched, loopVars, frame, epoll, req>>
      /\ ~ Open(c)
  BY DEF SpeConnCreate
<1>3. /\ j \in ConnState /\ j.readType = SPE_CONN_READNONE /\ j.writeType = SPE_CONN_WRITENONE
      /\ j.Closed = 0 /\ j.Error = 0
  <2>1. j \in ConnState
    BY <1>1, RecordUpdates, RequestTypes
  <2>2. /\ j.readType = SPE_CONN_READNONE /\ j.writeType = SPE_CONN_WRITENONE
        /\ j.Closed = 0 /\ j.Error = 0
    BY <1>1 DEF ConnState
  <2> QED  BY <2>1, <2>2
<1> HIDE DEF j
<1>4. PICK link \in {"up", "fresh"} : net' = [net EXCEPT ![c] = Socket(link)]
  BY DEF SpeConnCreate
<1>5. Socket(link) \in NetState /\ Socket(link).link = link
  BY DEF Socket, NetState, Links
<1>6. TaskInv'
  BY <1>2, TaskStays DEF IInv, loopVars
<1>7. TypeInv'
  BY <1>1, <1>2, <1>3, <1>4, <1>5 DEF IInv, TypeInv, loopVars
<1>8. OnlyMoves(c)
  BY <1>1, <1>2, <1>4 DEF OnlyMoves, loopVars, threadVars
<1>9. /\ net'[c].link \in {"up", "fresh"}
      /\ conn'[c].readType = SPE_CONN_READNONE /\ conn'[c].writeType = SPE_CONN_WRITENONE
      /\ conn'[c].Closed = 0 /\ conn'[c].Error = 0
  BY <1>1, <1>2, <1>3, <1>4, <1>5
<1>10. /\ Open(c)' /\ ~ Reads(c)' /\ ~ Writes(c)' /\ ~ Reads(c) /\ ~ Writes(c)
       /\ ~ Connects(c)'
       /\ RStatus(c)' = RStatus(c) /\ WStatus(c)' = WStatus(c)
       /\ RCStatus(c)' = RCStatus(c) /\ WCStatus(c)' = WCStatus(c)
       /\ RWorks(c)' = RWorks(c) /\ WWorks(c)' = WWorks(c)
  BY <1>2, <1>9 DEF Open, Reads, Writes, Connects, RStatus, WStatus, RCStatus, WCStatus,
                    RWorks, WWorks, loopVars, threadVars
<1>11. ConnInv(c)'
  BY <1>2, <1>9, <1>10 DEF IInv, ConnInv, QuietInv, TimerInv, WorkInv, OwedInv, CallbackInv,
                           HeldInv, MaskInv, WaitInv
<1>12. RCStatus(c) # SPE_TASK_QUEUE /\ WCStatus(c) # SPE_TASK_QUEUE
  BY <1>2 DEF IInv, ConnInv, CallbackInv
<1>13. Turns(c, FALSE, "none", "none")
  BY <1>8, <1>9, <1>10, <1>12, PartsAfter DEF Turns, Ended
<1> QED  BY <1>6, <1>7, <1>8, <1>11, <1>13, OneMoves

\* SpeConnSetTimeout is called while no timer can be armed.
LEMMA SetTimeoutStep ==
  ASSUME IInv, NEW c \in Conns, SpeConnSetTimeout(c)
  PROVE  IInv' /\ Stays
<1> DEFINE k == conn[c]
<1>1. k \in ConnState /\ conn \in [Conns -> ConnState]
  BY DEF IInv, TypeInv
<1>2. PICK r \in ExpireTimes, w \in ExpireTimes :
        conn' = [conn EXCEPT ![c].readExpireTime = r, ![c].writeExpireTime = w]
  BY DEF SpeConnSetTimeout
<1> DEFINE j == [k EXCEPT !.readExpireTime = r, !.writeExpireTime = w]
<1>3. /\ UNCHANGED <<sched, loopVars, frame, epoll, net, req>>
      /\ k.readType = SPE_CONN_READNONE /\ k.writeType = SPE_CONN_WRITENONE
  BY DEF SpeConnSetTimeout
<1>4. /\ j \in ConnState /\ j.readType = k.readType /\ j.writeType = k.writeType
      /\ j.Closed = k.Closed /\ j.Error = k.Error
  <2>1. j \in ConnState
    BY <1>1, RecordUpdates, TimesAssumption
  <2>2. /\ j.readType = k.readType /\ j.writeType = k.writeType
        /\ j.Closed = k.Closed /\ j.Error = k.Error
    BY <1>1 DEF ConnState
  <2> QED  BY <2>1, <2>2
<1>5. conn' = [conn EXCEPT ![c] = j]
  BY <1>2
<1> HIDE DEF j
<1>6. TaskInv'
  BY <1>3, TaskStays DEF IInv, loopVars
<1>7. TypeInv'
  BY <1>1, <1>3, <1>4, <1>5 DEF IInv, TypeInv, loopVars
<1>8. OnlyMoves(c)
  BY <1>1, <1>3, <1>5 DEF OnlyMoves, loopVars, threadVars
<1>9. /\ Open(c)' = Open(c) /\ ~ Reads(c)' /\ ~ Writes(c)' /\ ~ Reads(c) /\ ~ Writes(c)
      /\ ~ Connects(c) /\ ~ Connects(c)'
      /\ RStatus(c)' = RStatus(c) /\ WStatus(c)' = WStatus(c)
      /\ RCStatus(c)' = RCStatus(c) /\ WCStatus(c)' = WCStatus(c)
      /\ RWorks(c)' = RWorks(c) /\ WWorks(c)' = WWorks(c)
  BY <1>1, <1>3, <1>4, <1>5 DEF Open, Reads, Writes, Connects, RStatus, WStatus, RCStatus, WCStatus,
                    RWorks, WWorks, loopVars, threadVars
<1>10. ConnInv(c)'
  BY <1>3, <1>9 DEF IInv, ConnInv, QuietInv, TimerInv, WorkInv, OwedInv, CallbackInv,
                    HeldInv, MaskInv, WaitInv
<1>11. Ended(c)' <=> Ended(c)
  BY <1>1, <1>4, <1>5 DEF Ended
<1>12. SameView(c)
  BY <1>9, <1>11, PartsStay
<1>13. Stays
  BY <1>8, <1>12, TurnsBack
<1> QED  BY <1>6, <1>7, <1>8, <1>10, <1>13, OneMoves

\* What a call that leaves the main thread alone keeps.
LEMMA CallTask ==
  ASSUME TaskInv, NEW t \in ConnTasks, SchedInv(sched'), UNCHANGED threadVars,
         \A u \in ConnTasks :
           \/ sched'.status[u] = sched.status[u]
           \/ /\ sched.status[u] # SPE_TASK_RUN
              /\ sched'.status[u] # SPE_TASK_RUN
  PROVE  TaskInv'
BY CallKeepsTask

\* A connect that is under way waits in both directions.
LEMMA ConnectStartsStep ==
  ASSUME IInv, NEW c \in Conns, net[c].link = "fresh", ConnectStarts(c), UNCHANGED <<loopVars, frame>>
  PROVE  /\ IInv' /\ Open(c) /\ ReadPart(c) = "none" /\ WritePart(c) = "none"
         /\ Turns(c, Ended(c), "connect", "none")
<1> DEFINE k == conn[c]
           j == [k EXCEPT !.handler = "connectNormal", !.ConnectTimeout = 0,
                          !.readType = SPE_CONN_CONNECT, !.writeType = SPE_CONN_CONNECT]
           n == [net[c] EXCEPT !.link = "connecting"]
<1>1. /\ k \in ConnState /\ conn \in [Conns -> ConnState]
      /\ net[c] \in NetState /\ net \in [Conns -> NetState]
      /\ TypeInv /\ TaskInv /\ ConnInv(c)
  BY DEF IInv, TypeInv
<1>2. k.readExpireTime \in Nat /\ clock \in Nat
  BY <1>1 DEF ConnState, TaskInv
<1>3. j \in ConnState
  BY <1>1, RecordUpdates, RequestTypes
<1>4. /\ j.readType # SPE_CONN_READNONE /\ j.writeType # SPE_CONN_WRITENONE
      /\ j.handler = "connectNormal" /\ j.readExpireTime = k.readExpireTime
      /\ j.Closed = k.Closed /\ j.Error = k.Error
  BY <1>1 DEF ConnState, SPE_CONN_CONNECT, SPE_CONN_READNONE, SPE_CONN_WRITENONE
<1>5. n \in NetState /\ n.link = "connecting"
  BY <1>1 DEF NetState, Links
<1>6. conn' = [conn EXCEPT ![c] = j] /\ net' = [net EXCEPT ![c] = n]
  BY DEF ConnectStarts
<1> HIDE DEF j, n
<1>7. Arms(c, readTask(c), k.readExpireTime)
  BY <1>1, <1>2, ArmsFacts DEF ConnectStarts, Four
<1>8. /\ epoll' \in EpollTable
      /\ SPE_EPOLL_READ \in epoll'[c].mask /\ SPE_EPOLL_WRITE \in epoll'[c].mask
      /\ epoll'[c].readTask = readTask(c) /\ epoll'[c].writeTask = readTask(c)
      /\ \A d \in Conns \ {c} : epoll'[d] = epoll[d]
  <2>1. readTask(c) \in ConnTasks
    BY FourAreTasks DEF Four
  <2>2. Enables(c, {SPE_EPOLL_READ, SPE_EPOLL_WRITE}, readTask(c))
    BY DEF ConnectStarts, Enables
  <2> QED  BY <1>1, <2>1, <2>2, EnableBoth
<1>9. /\ req' \in [Conns -> [read : ReqState, write : ReqState]]
      /\ req'[c].read.owed /\ req'[c].write = req[c].write
      /\ \A d \in Conns \ {c} : req'[d] = req[d]
  BY <1>1, <1>2, IssueReadFacts DEF ConnectStarts
<1>10. TaskInv'
  BY <1>1, <1>7, CallTask, FourAreTasks DEF Arms, Accepts, loopVars, Four, SPE_TASK_TIMER, SPE_TASK_RUN
<1>11. TypeInv'
  BY <1>1, <1>3, <1>5, <1>6, <1>8, <1>9 DEF TypeInv, loopVars
<1>12. OnlyMoves(c)
  BY <1>1, <1>6, <1>7, <1>8, <1>9 DEF OnlyMoves, Arms, Four, loopVars, threadVars
<1>13. /\ ~ Reads(c) /\ ~ Writes(c) /\ ~ req[c].write.owed
       /\ RStatus(c) \notin {SPE_TASK_TIMER, SPE_TASK_QUEUE}
       /\ WStatus(c) \notin {SPE_TASK_TIMER, SPE_TASK_QUEUE}
       /\ RCStatus(c) \notin {SPE_TASK_TIMER, SPE_TASK_QUEUE}
       /\ WCStatus(c) \notin {SPE_TASK_TIMER, SPE_TASK_QUEUE}
       /\ ~ RWorks(c) /\ ~ WWorks(c)
  BY <1>1 DEF ConnInv, QuietInv, TimerInv, WorkInv, CallbackInv, RWorks, WWorks
<1>14. /\ RStatus(c)' = SPE_TASK_TIMER => k.readExpireTime # 0
       /\ RStatus(c)' # SPE_TASK_QUEUE
       /\ WStatus(c)' = WStatus(c) /\ RCStatus(c)' = RCStatus(c) /\ WCStatus(c)' = WCStatus(c)
  BY <1>7, <1>13, FourAreTasks, FourDiffer
     DEF Arms, RStatus, WStatus, RCStatus, WCStatus, Four, SPE_TASK_TIMER, SPE_TASK_QUEUE
<1>15. ~ RWorks(c)' /\ ~ WWorks(c)'
  BY <1>13, <1>14 DEF RWorks, WWorks, loopVars, threadVars
<1>16. /\ net'[c].link = "connecting" /\ conn'[c] = j
       /\ Open(c)' /\ Reads(c)' /\ Writes(c)' /\ Connects(c)'
  BY <1>1, <1>4, <1>5, <1>6 DEF Open, Reads, Writes, Connects
<1>17. ConnInv(c)'
  BY <1>4, <1>8, <1>9, <1>13, <1>14, <1>15, <1>16
     DEF ConnInv, QuietInv, TimerInv, WorkInv, OwedInv, CallbackInv, HeldInv, MaskInv, WaitInv
<1>18. Open(c) /\ ReadPart(c) = "none" /\ WritePart(c) = "none"
  BY <1>13, Parts DEF Open, Reads, Connects
<1>19. Turns(c, Ended(c), "connect", "none")
  BY <1>4, <1>12, <1>16, PartsAfter DEF Turns, Ended
<1> QED  BY <1>10, <1>11, <1>12, <1>17, <1>18, <1>19, OneMoves

\* Queueing a callback keeps the scheduler's part.
LEMMA QueuesTask ==
  ASSUME TaskInv, NEW t \in ConnTasks, Queues(t), UNCHANGED threadVars
  PROVE  TaskInv'
<1>1. \A u \in ConnTasks : sched'.status[u] = SPE_TASK_RUN <=> sched.status[u] = SPE_TASK_RUN
  BY DEF Queues, Accepts, SPE_TASK_FREE, SPE_TASK_TIMER, SPE_TASK_QUEUE, SPE_TASK_RUN
<1> QED  BY <1>1, CallKeepsTask DEF Queues

\* A queued callback leaves the other tasks alone.
LEMMA QueuesRead ==
  ASSUME NEW c \in Conns, Queues(ReadCallback(c))
  PROVE  /\ RStatus(c)' = RStatus(c) /\ WStatus(c)' = WStatus(c) /\ WCStatus(c)' = WCStatus(c)
         /\ Accepts(sched, ReadCallback(c)) => RCStatus(c)' = SPE_TASK_QUEUE
         /\ ~ Accepts(sched, ReadCallback(c)) => RCStatus(c)' = RCStatus(c)
         /\ \A u \in ConnTasks \ Four(c) : sched'.status[u] = sched.status[u]
BY FourAreTasks, FourDiffer DEF Queues, RStatus, WStatus, RCStatus, WCStatus, Four

\* The same for the write callback.
LEMMA QueuesWrite ==
  ASSUME NEW c \in Conns, Queues(WriteCallback(c))
  PROVE  /\ RStatus(c)' = RStatus(c) /\ WStatus(c)' = WStatus(c) /\ RCStatus(c)' = RCStatus(c)
         /\ Accepts(sched, WriteCallback(c)) => WCStatus(c)' = SPE_TASK_QUEUE
         /\ ~ Accepts(sched, WriteCallback(c)) => WCStatus(c)' = WCStatus(c)
         /\ \A u \in ConnTasks \ Four(c) : sched'.status[u] = sched.status[u]
BY FourAreTasks, FourDiffer DEF Queues, RStatus, WStatus, RCStatus, WCStatus, Four

\* A connect that returns at once queues the read callback.
LEMMA ConnectReturnsStep ==
  ASSUME IInv, NEW c \in Conns, net[c].link = "fresh", ConnectReturns(c),
         UNCHANGED <<loopVars, frame>>
  PROVE  /\ IInv' /\ Open(c) /\ ReadPart(c) = "none" /\ WritePart(c) = "none"
         /\ \E e \in {TRUE, Ended(c)} :
              Turns(c, e, IF Accepts(sched, ReadCallback(c)) THEN "queued" ELSE "none", "none")
<1> DEFINE k == conn[c]
<1>1. /\ k \in ConnState /\ conn \in [Conns -> ConnState]
      /\ net[c] \in NetState /\ net \in [Conns -> NetState]
      /\ TypeInv /\ TaskInv /\ ConnInv(c)
  BY DEF IInv, TypeInv
<1>2. k.readExpireTime \in Nat /\ clock \in Nat
  BY <1>1 DEF ConnState, TaskInv
<1>3. PICK ok \in BOOLEAN :
        /\ net' = [net EXCEPT ![c].link = IF ok THEN "up" ELSE "failed"]
        /\ conn' = [conn EXCEPT ![c].Error = IF ok THEN @ ELSE 1]
  BY DEF ConnectReturns
<1> DEFINE j == [k EXCEPT !.Error = IF ok THEN @ ELSE 1]
           n == [net[c] EXCEPT !.link = IF ok THEN "up" ELSE "failed"]
<1>4. j \in ConnState /\ j.readType = k.readType /\ j.writeType = k.writeType
      /\ j.handler = k.handler /\ j.Closed = k.Closed /\ j.Error \in {1, k.Error}
  BY <1>1 DEF ConnState
<1>5. n \in NetState /\ n.link \in {"up", "failed"}
  BY <1>1 DEF NetState, Links
<1>6. conn' = [conn EXCEPT ![c] = j] /\ net' = [net EXCEPT ![c] = n]
  BY <1>3
<1> HIDE DEF j, n
<1>7. ReadCallback(c) \in ConnTasks
  BY FourAreTasks DEF Four
<1>8. Queues(ReadCallback(c))
  BY <1>1, <1>7, QueuesFacts DEF ConnectReturns
<1> DEFINE a == Accepts(sched, ReadCallback(c))
<1>9. /\ req' \in [Conns -> [read : ReqState, write : ReqState]]
      /\ req'[c].read.owed /\ req'[c].read.lost = ~ a /\ req'[c].write = req[c].write
      /\ \A d \in Conns \ {c} : req'[d] = req[d]
  <2>1. a \in BOOLEAN
    BY DEF Accepts
  <2>2. Issue(c, "read", "connect", a, k.readExpireTime, 0)
    BY DEF ConnectReturns
  <2> HIDE DEF a, k
  <2> QED  BY <1>1, <1>2, <2>1, <2>2, IssueReadFacts
<1> HIDE DEF a
<1>10. TaskInv'
  BY <1>1, <1>7, <1>8, QueuesTask DEF loopVars
<1>11. epoll' = epoll
  BY DEF ConnectReturns
<1>12. TypeInv'
  BY <1>1, <1>4, <1>5, <1>6, <1>9, <1>11 DEF TypeInv, loopVars
<1>13. OnlyMoves(c)
  BY <1>1, <1>6, <1>8, <1>9, <1>11, QueuesRead DEF OnlyMoves, loopVars, threadVars
<1>14. /\ ~ Reads(c) /\ ~ Writes(c) /\ ~ req[c].write.owed
       /\ RStatus(c) \notin {SPE_TASK_TIMER, SPE_TASK_QUEUE}
       /\ WStatus(c) \notin {SPE_TASK_TIMER, SPE_TASK_QUEUE}
       /\ RCStatus(c) \notin {SPE_TASK_TIMER, SPE_TASK_QUEUE}
       /\ WCStatus(c) \notin {SPE_TASK_TIMER, SPE_TASK_QUEUE}
       /\ ~ RWorks(c) /\ ~ WWorks(c)
  BY <1>1 DEF ConnInv, QuietInv, TimerInv, WorkInv, CallbackInv, RWorks, WWorks
<1>15. /\ RStatus(c)' = RStatus(c) /\ WStatus(c)' = WStatus(c) /\ WCStatus(c)' = WCStatus(c)
       /\ a => RCStatus(c)' = SPE_TASK_QUEUE
       /\ ~ a => RCStatus(c)' = RCStatus(c)
  BY <1>8, QueuesRead DEF a
<1>16. ~ RWorks(c)' /\ ~ WWorks(c)'
  BY <1>14, <1>15 DEF RWorks, WWorks, loopVars, threadVars
<1>17. /\ net'[c].link \in {"up", "failed"}
       /\ Open(c) /\ Open(c)' /\ ~ Reads(c)' /\ ~ Writes(c)'
       /\ ~ Connects(c) /\ ~ Connects(c)'
  BY <1>1, <1>4, <1>5, <1>6, <1>14 DEF Open, Reads, Writes, Connects
<1>18. RCStatus(c)' # SPE_TASK_TIMER
  BY <1>14, <1>15 DEF SPE_TASK_QUEUE, SPE_TASK_TIMER
<1>19. ConnInv(c)'
  BY <1>1, <1>9, <1>11, <1>14, <1>15, <1>16, <1>17, <1>18
     DEF ConnInv, QuietInv, TimerInv, WorkInv, OwedInv, CallbackInv, HeldInv, MaskInv, WaitInv
<1>20. ReadPart(c) = "none" /\ WritePart(c) = "none"
  BY <1>14, <1>17, Parts
<1>21. Ended(c)' \in {TRUE, Ended(c)}
  BY <1>1, <1>4, <1>6 DEF Ended
<1>22. ReadPart(c)' = (IF a THEN "queued" ELSE "none") /\ WritePart(c)' = "none"
  BY <1>14, <1>15, <1>17, PartsAfter
<1>23. \E e \in {TRUE, Ended(c)} :
         Turns(c, e, IF Accepts(sched, ReadCallback(c)) THEN "queued" ELSE "none", "none")
  BY <1>13, <1>17, <1>21, <1>22 DEF Turns, a
<1> QED  BY <1>10, <1>12, <1>13, <1>17, <1>19, <1>20, <1>23, OneMoves

\* Both outcomes of SpeConnConnect.
LEMMA ConnectStep ==
  ASSUME IInv, NEW c \in Conns, SpeConnConnect(c)
  PROVE  /\ IInv' /\ Open(c) /\ ReadPart(c) = "none" /\ WritePart(c) = "none"
         /\ \/ Turns(c, Ended(c), "connect", "none")
            \/ \E e \in {TRUE, Ended(c)} :
                 Turns(c, e, IF Accepts(sched, ReadCallback(c)) THEN "queued" ELSE "none", "none")
BY ConnectStartsStep, ConnectReturnsStep DEF SpeConnConnect

\* A started timer leaves the other tasks alone.
LEMMA ArmsTask ==
  ASSUME TaskInv, NEW c \in Conns, NEW t \in Four(c), NEW ms, Arms(c, t, ms), UNCHANGED threadVars
  PROVE  TaskInv'
<1>1. \A u \in ConnTasks : sched'.status[u] = SPE_TASK_RUN <=> sched.status[u] = SPE_TASK_RUN
  BY DEF Arms, Accepts, SPE_TASK_FREE, SPE_TASK_TIMER, SPE_TASK_QUEUE, SPE_TASK_RUN
<1> QED  BY <1>1, CallKeepsTask DEF Arms

\* Arming readTask changes the state of no other task.
LEMMA ArmsRead ==
  ASSUME NEW c \in Conns, NEW ms, Arms(c, readTask(c), ms)
  PROVE  /\ WStatus(c)' = WStatus(c) /\ RCStatus(c)' = RCStatus(c) /\ WCStatus(c)' = WCStatus(c)
         /\ RStatus(c)' = RStatus(c) \/ (ms # 0 /\ RStatus(c)' = SPE_TASK_TIMER)
         /\ \A u \in ConnTasks \ Four(c) : sched'.status[u] = sched.status[u]
BY FourAreTasks, FourDiffer DEF Arms, RStatus, WStatus, RCStatus, WCStatus, Four

\* Arming writeTask changes the state of no other task.
LEMMA ArmsWrite ==
  ASSUME NEW c \in Conns, NEW ms, Arms(c, writeTask(c), ms)
  PROVE  /\ RStatus(c)' = RStatus(c) /\ RCStatus(c)' = RCStatus(c) /\ WCStatus(c)' = WCStatus(c)
         /\ WStatus(c)' = WStatus(c) \/ (ms # 0 /\ WStatus(c)' = SPE_TASK_TIMER)
         /\ \A u \in ConnTasks \ Four(c) : sched'.status[u] = sched.status[u]
BY FourAreTasks, FourDiffer DEF Arms, RStatus, WStatus, RCStatus, WCStatus, Four

\* What a connection on which no read is outstanding looks like.
LEMMA NoRead ==
  ASSUME NEW c \in Conns, ConnInv(c), Established(c),
         conn[c].readType = SPE_CONN_READNONE, ~ req[c].read.owed
  PROVE  /\ ~ Reads(c) /\ ~ Connects(c) /\ ~ RWorks(c)
         /\ RStatus(c) \notin {SPE_TASK_TIMER, SPE_TASK_QUEUE}
         /\ RCStatus(c) \notin {SPE_TASK_TIMER, SPE_TASK_QUEUE}
BY DEF ConnInv, TimerInv, WorkInv, CallbackInv, Reads, Connects, RWorks

\* What a connection on which no flush is outstanding looks like.
LEMMA NoWrite ==
  ASSUME NEW c \in Conns, ConnInv(c), Established(c),
         conn[c].writeType = SPE_CONN_WRITENONE, ~ req[c].write.owed
  PROVE  /\ ~ Writes(c) /\ ~ Connects(c) /\ ~ WWorks(c)
         /\ WStatus(c) \notin {SPE_TASK_TIMER, SPE_TASK_QUEUE}
         /\ WCStatus(c) \notin {SPE_TASK_TIMER, SPE_TASK_QUEUE}
BY DEF ConnInv, TimerInv, WorkInv, OwedInv, CallbackInv, Writes, WWorks, Established, Open

\* The calls made on an established connection leave the socket alone.
LEMMA LinkStays ==
  ASSUME NEW c \in Conns, Established(c), UNCHANGED net
  PROVE  /\ Open(c) /\ Open(c)' /\ net[c].link # "fresh" /\ net'[c].link # "fresh"
BY DEF Established, Open

ReadReady(c) ==
  /\ Established(c) /\ conn[c].readType = SPE_CONN_READNONE /\ ~ req[c].read.owed
  /\ UNCHANGED <<loopVars, frame, net>>

\* A read answered from the buffer queues its callback.
LEMMA ReadAnsweredStep ==
  ASSUME IInv, NEW c \in Conns, NEW type, NEW n, ReadReady(c), ReadAnswered(c, type, n)
  PROVE  /\ IInv' /\ Open(c) /\ ReadPart(c) = "none"
         /\ Turns(c, Ended(c), IF Accepts(sched, ReadCallback(c)) THEN "queued" ELSE "none",
                  WritePart(c))
<1> DEFINE k == conn[c]
<1>1. /\ k \in ConnState /\ conn \in [Conns -> ConnState]
      /\ TypeInv /\ TaskInv /\ ConnInv(c)
  BY DEF IInv, TypeInv
<1>2. k.readExpireTime \in Nat /\ k.taken \in Nat /\ k.got \in Nat /\ clock \in Nat
  BY <1>1 DEF ConnState, TaskInv
<1>3. PICK t \in SyncAnswer(k, type, n) : conn' = [conn EXCEPT ![c].taken = t]
  BY DEF ReadAnswered
<1>4. t \in Nat
  BY <1>2, <1>3 DEF SyncAnswer, Answer
<1> DEFINE j == [k EXCEPT !.taken = t]
<1>5. /\ j \in ConnState /\ j.readType = k.readType /\ j.writeType = k.writeType
      /\ j.handler = k.handler /\ j.writeExpireTime = k.writeExpireTime
      /\ j.Closed = k.Closed /\ j.Error = k.Error
  BY <1>1, <1>4 DEF ConnState
<1>6. conn' = [conn EXCEPT ![c] = j]
  BY <1>3
<1> HIDE DEF j
<1>7. ReadCallback(c) \in ConnTasks
  BY FourAreTasks DEF Four
<1>8. Queues(ReadCallback(c))
  BY <1>1, <1>7, QueuesFacts DEF ReadAnswered
<1> DEFINE a == Accepts(sched, ReadCallback(c))
<1>9. /\ req' \in [Conns -> [read : ReqState, write : ReqState]]
      /\ req'[c].read.owed /\ req'[c].read.lost = ~ a /\ req'[c].write = req[c].write
      /\ \A d \in Conns \ {c} : req'[d] = req[d]
  <2>1. a \in BOOLEAN
    BY DEF Accepts
  <2>2. Issue(c, "read", "read", a, k.readExpireTime, k.taken)
    BY DEF ReadAnswered
  <2> HIDE DEF a, k
  <2> QED  BY <1>1, <1>2, <2>1, <2>2, IssueReadFacts
<1> HIDE DEF a
<1>10. UNCHANGED <<loopVars, frame, epoll, net>>
  BY DEF ReadAnswered, ReadReady
<1>11. TaskInv'
  BY <1>1, <1>7, <1>8, <1>10, QueuesTask DEF loopVars
<1>12. TypeInv'
  BY <1>1, <1>5, <1>6, <1>9, <1>10 DEF TypeInv, loopVars
<1>13. OnlyMoves(c)
  BY <1>1, <1>6, <1>8, <1>9, <1>10, QueuesRead DEF OnlyMoves, loopVars, threadVars
<1>14. /\ ~ Reads(c) /\ ~ Connects(c) /\ ~ RWorks(c)
       /\ RStatus(c) \notin {SPE_TASK_TIMER, SPE_TASK_QUEUE}
       /\ RCStatus(c) \notin {SPE_TASK_TIMER, SPE_TASK_QUEUE}
  BY <1>1, NoRead DEF ReadReady
<1>15. /\ RStatus(c)' = RStatus(c) /\ WStatus(c)' = WStatus(c) /\ WCStatus(c)' = WCStatus(c)
       /\ a => RCStatus(c)' = SPE_TASK_QUEUE
       /\ ~ a => RCStatus(c)' = RCStatus(c)
  BY <1>8, QueuesRead DEF a
<1>16. RWorks(c)' = RWorks(c) /\ WWorks(c)' = WWorks(c)
  BY <1>10, <1>15 DEF RWorks, WWorks, loopVars, threadVars
<1>17. /\ Open(c) /\ Open(c)' /\ net[c].link # "fresh" /\ net'[c].link # "fresh"
  BY <1>10, LinkStays DEF ReadReady
<1>18. /\ ~ Reads(c)' /\ ~ Connects(c)' /\ (Writes(c)' <=> Writes(c))
       /\ conn'[c].writeExpireTime = conn[c].writeExpireTime
  BY <1>1, <1>5, <1>6, <1>14, <1>17 DEF Reads, Writes, Connects
<1>19. RCStatus(c)' # SPE_TASK_TIMER
  BY <1>14, <1>15 DEF SPE_TASK_QUEUE, SPE_TASK_TIMER
<1>20. ConnInv(c)'
  BY <1>1, <1>9, <1>10, <1>14, <1>15, <1>16, <1>17, <1>18, <1>19
     DEF ConnInv, QuietInv, TimerInv, WorkInv, OwedInv, CallbackInv, HeldInv, MaskInv, WaitInv
<1>21. ReadPart(c) = "none"
  BY <1>14, Parts
<1>22. Ended(c)' <=> Ended(c)
  BY <1>1, <1>5, <1>6 DEF Ended
<1>23. ReadPart(c)' = (IF a THEN "queued" ELSE "none") /\ WritePart(c)' = WritePart(c)
  BY <1>14, <1>15, <1>17, <1>18, Parts, PartsAfter
<1>24. Turns(c, Ended(c), IF a THEN "queued" ELSE "none", WritePart(c))
  BY <1>13, <1>17, <1>22, <1>23 DEF Turns
<1> QED  BY <1>11, <1>12, <1>13, <1>17, <1>20, <1>21, <1>24, OneMoves DEF a

\* A read that waits enables its direction and arms its task; the buffer does
\* not hold the answer, or the call would have taken it.
LEMMA ReadWaitsStep ==
  ASSUME IInv, NEW c \in Conns, NEW type \in {SPE_CONN_READ, SPE_CONN_READUNTIL, SPE_CONN_READBYTES},
         NEW n \in Nat, ReadReady(c), ReadWaits(c, type, n)
  PROVE  /\ IInv' /\ Open(c) /\ ReadPart(c) = "none"
         /\ Turns(c, Ended(c), "wait", WritePart(c))
<1> DEFINE k == conn[c]
           m == IF type = SPE_CONN_READBYTES THEN n ELSE k.rbytes
           j == [k EXCEPT !.handler = "readNormal", !.ReadTimeout = 0, !.readType = type, !.rbytes = m]
<1>1. /\ k \in ConnState /\ conn \in [Conns -> ConnState]
      /\ TypeInv /\ TaskInv /\ ConnInv(c)
  BY DEF IInv, TypeInv
<1>2. k.readExpireTime \in Nat /\ k.taken \in Nat /\ k.rbytes \in Nat /\ clock \in Nat
  BY <1>1 DEF ConnState, TaskInv
<1>3. type \in 0 .. 3 /\ type # SPE_CONN_READNONE /\ m \in Nat
  BY <1>2 DEF SPE_CONN_READ, SPE_CONN_READUNTIL, SPE_CONN_READBYTES, SPE_CONN_READNONE
<1>4. conn' = [conn EXCEPT ![c] = j]
  BY DEF ReadWaits
<1> HIDE DEF m
<1>5. j \in ConnState
  BY <1>1, <1>3, RecordUpdates
<1>6. /\ j.readType = type /\ j.writeType = k.writeType /\ j.handler = "readNormal"
      /\ j.rbytes = m /\ j.taken = k.taken /\ j.got = k.got
      /\ j.readExpireTime = k.readExpireTime /\ j.writeExpireTime = k.writeExpireTime
      /\ j.Closed = k.Closed /\ j.Error = k.Error
  BY <1>1 DEF ConnState
<1> HIDE DEF j
<1>7. Arms(c, readTask(c), k.readExpireTime)
  BY <1>1, <1>2, ArmsFacts DEF ReadWaits, Four
<1>8. /\ epoll' \in EpollTable
      /\ SPE_EPOLL_READ \in epoll'[c].mask
      /\ SPE_EPOLL_WRITE \in epoll'[c].mask <=> SPE_EPOLL_WRITE \in epoll[c].mask
      /\ epoll'[c].readTask = readTask(c) /\ epoll'[c].writeTask = epoll[c].writeTask
      /\ \A d \in Conns \ {c} : epoll'[d] = epoll[d]
  <2>1. readTask(c) \in ConnTasks
    BY FourAreTasks DEF Four
  <2>2. Enables(c, {SPE_EPOLL_READ}, readTask(c))
    BY DEF ReadWaits, Enables
  <2> QED  BY <1>1, <2>1, <2>2, EnableRead
<1>9. /\ req' \in [Conns -> [read : ReqState, write : ReqState]]
      /\ req'[c].read.owed /\ req'[c].write = req[c].write
      /\ \A d \in Conns \ {c} : req'[d] = req[d]
  <2>1. Issue(c, "read", "read", TRUE, k.readExpireTime, k.taken)
    BY DEF ReadWaits
  <2> HIDE DEF k
  <2> QED  BY <1>1, <1>2, <2>1, IssueReadFacts
<1>10. UNCHANGED <<loopVars, frame, net>>
  BY DEF ReadReady
<1>11. TaskInv'
  BY <1>1, <1>7, <1>10, ArmsTask DEF Four, loopVars
<1>12. TypeInv'
  BY <1>1, <1>4, <1>5, <1>8, <1>9, <1>10 DEF TypeInv, loopVars
<1>13. OnlyMoves(c)
  BY <1>1, <1>4, <1>7, <1>8, <1>9, <1>10, ArmsRead DEF OnlyMoves, loopVars, threadVars
<1>14. /\ ~ Reads(c) /\ ~ Connects(c) /\ ~ RWorks(c)
       /\ RStatus(c) \notin {SPE_TASK_TIMER, SPE_TASK_QUEUE}
       /\ RCStatus(c) \notin {SPE_TASK_TIMER, SPE_TASK_QUEUE}
  BY <1>1, NoRead DEF ReadReady
<1>15. /\ WStatus(c)' = WStatus(c) /\ RCStatus(c)' = RCStatus(c) /\ WCStatus(c)' = WCStatus(c)
       /\ RStatus(c)' = RStatus(c) \/ (k.readExpireTime # 0 /\ RStatus(c)' = SPE_TASK_TIMER)
  BY <1>7, ArmsRead
<1>16. ~ RWorks(c)' /\ WWorks(c)' = WWorks(c)
  BY <1>10, <1>14, <1>15 DEF RWorks, WWorks, loopVars, threadVars, SPE_TASK_TIMER, SPE_TASK_QUEUE
<1>17. /\ Open(c) /\ Open(c)' /\ net[c].link # "fresh" /\ net'[c].link # "fresh"
  BY <1>10, LinkStays DEF ReadReady
<1>18. /\ Reads(c)' /\ ~ Connects(c)' /\ (Writes(c)' <=> Writes(c))
       /\ conn'[c].writeExpireTime = conn[c].writeExpireTime
       /\ conn'[c].readExpireTime = k.readExpireTime
       /\ conn'[c] = j
  BY <1>1, <1>3, <1>4, <1>6, <1>17 DEF Reads, Writes, Connects
<1>19. WaitInv(c)'
  <2>1. Answer(k, type, n) = {}
    BY DEF ReadWaits, SyncAnswer
  <2>2. Answer(j, j.readType, j.rbytes) = {}
    BY <1>6, <2>1 DEF Answer, m
  <2> QED  BY <1>18, <2>2 DEF WaitInv
<1>20. ConnInv(c)'
  BY <1>1, <1>8, <1>9, <1>10, <1>14, <1>15, <1>16, <1>17, <1>18, <1>19
     DEF ConnInv, QuietInv, TimerInv, WorkInv, OwedInv, CallbackInv, HeldInv, MaskInv
<1>21. ReadPart(c) = "none"
  BY <1>14, Parts
<1>22. Ended(c)' <=> Ended(c)
  BY <1>6, <1>18 DEF Ended
<1>23. ReadPart(c)' = "wait" /\ WritePart(c)' = WritePart(c)
  BY <1>14, <1>15, <1>17, <1>18, Parts, PartsAfter
<1>24. Turns(c, Ended(c), "wait", WritePart(c))
  BY <1>13, <1>17, <1>22, <1>23 DEF Turns
<1> QED  BY <1>11, <1>12, <1>13, <1>17, <1>20, <1>21, <1>24, OneMoves

\* The three read calls.
LEMMA ReadStep ==
  ASSUME IInv, NEW c \in Conns, SpeConnReaduntil(c) \/ SpeConnReadbytes(c) \/ SpeConnRead(c)
  PROVE  /\ IInv' /\ Open(c) /\ ~ Ended(c) /\ ReadPart(c) = "none"
         /\ \/ Turns(c, Ended(c), IF Accepts(sched, ReadCallback(c)) THEN "queued" ELSE "none",
                     WritePart(c))
            \/ Turns(c, Ended(c), "wait", WritePart(c))
<1>1. PICK type \in {SPE_CONN_READ, SPE_CONN_READUNTIL, SPE_CONN_READBYTES}, n \in Nat :
        Request(c, type, n)
  <2>1. 0 \in Nat /\ 1 .. MaxSent \subseteq Nat
    BY BoundsAssumption
  <2> QED  BY <2>1 DEF SpeConnReaduntil, SpeConnReadbytes, SpeConnRead
<1>2. ReadReady(c) /\ ~ Ended(c)
  BY <1>1 DEF Request, ReadReady, Ended
<1>3. ReadAnswered(c, type, n) \/ ReadWaits(c, type, n)
  BY <1>1 DEF Request
<1> QED  BY <1>2, <1>3, ReadAnsweredStep, ReadWaitsStep

WriteReady(c) ==
  /\ Established(c) /\ conn[c].writeType = SPE_CONN_WRITENONE /\ ~ req[c].write.owed
  /\ UNCHANGED <<loopVars, frame, net>>

\* A flush of an empty buffer queues its callback.
LEMMA FlushNothingStep ==
  ASSUME IInv, NEW c \in Conns, WriteReady(c), FlushNothing(c)
  PROVE  /\ IInv' /\ Open(c) /\ ~ Connects(c) /\ WritePart(c) = "none"
         /\ Turns(c, Ended(c), ReadPart(c),
                  IF Accepts(sched, WriteCallback(c)) THEN "queued" ELSE "none")
<1> DEFINE k == conn[c]
<1>1. k \in ConnState /\ TypeInv /\ TaskInv /\ ConnInv(c)
  BY DEF IInv, TypeInv
<1>2. k.writeExpireTime \in Nat /\ clock \in Nat
  BY <1>1 DEF ConnState, TaskInv
<1>3. WriteCallback(c) \in ConnTasks
  BY FourAreTasks DEF Four
<1>4. Queues(WriteCallback(c))
  BY <1>1, <1>3, QueuesFacts DEF FlushNothing
<1> DEFINE a == Accepts(sched, WriteCallback(c))
<1>5. /\ req' \in [Conns -> [read : ReqState, write : ReqState]]
      /\ req'[c].write.owed /\ req'[c].write.lost = ~ a /\ req'[c].read = req[c].read
      /\ \A d \in Conns \ {c} : req'[d] = req[d]
  <2>1. a \in BOOLEAN
    BY DEF Accepts
  <2>2. Issue(c, "write", "write", a, k.writeExpireTime, 0)
    BY DEF FlushNothing
  <2> HIDE DEF a, k
  <2> QED  BY <1>1, <1>2, <2>1, <2>2, IssueWriteFacts
<1> HIDE DEF a
<1>6. UNCHANGED <<loopVars, frame, epoll, net, conn>>
  BY DEF FlushNothing, WriteReady
<1>7. TaskInv'
  BY <1>1, <1>3, <1>4, <1>6, QueuesTask DEF loopVars
<1>8. TypeInv'
  BY <1>1, <1>5, <1>6 DEF TypeInv, loopVars
<1>9. OnlyMoves(c)
  BY <1>4, <1>5, <1>6, QueuesWrite DEF OnlyMoves, loopVars, threadVars
<1>10. /\ ~ Writes(c) /\ ~ Connects(c) /\ ~ WWorks(c)
       /\ WStatus(c) \notin {SPE_TASK_TIMER, SPE_TASK_QUEUE}
       /\ WCStatus(c) \notin {SPE_TASK_TIMER, SPE_TASK_QUEUE}
  BY <1>1, NoWrite DEF WriteReady
<1>11. /\ RStatus(c)' = RStatus(c) /\ WStatus(c)' = WStatus(c) /\ RCStatus(c)' = RCStatus(c)
       /\ a => WCStatus(c)' = SPE_TASK_QUEUE
       /\ ~ a => WCStatus(c)' = WCStatus(c)
  BY <1>4, QueuesWrite DEF a
<1>12. RWorks(c)' = RWorks(c) /\ WWorks(c)' = WWorks(c)
  BY <1>6, <1>11 DEF RWorks, WWorks, loopVars, threadVars
<1>13. /\ Open(c) /\ Open(c)' /\ net[c].link # "fresh" /\ net'[c].link # "fresh"
  BY <1>6, LinkStays DEF WriteReady
<1>14. /\ ~ Writes(c)' /\ ~ Connects(c)' /\ (Reads(c)' <=> Reads(c))
  BY <1>6, <1>10 DEF Reads, Writes, Connects, Open
<1>15. WCStatus(c)' # SPE_TASK_TIMER
  BY <1>10, <1>11 DEF SPE_TASK_QUEUE, SPE_TASK_TIMER
<1>16. ConnInv(c)'
  BY <1>1, <1>5, <1>6, <1>10, <1>11, <1>12, <1>13, <1>14, <1>15
     DEF ConnInv, QuietInv, TimerInv, WorkInv, OwedInv, CallbackInv, HeldInv, MaskInv, WaitInv
<1>17. WritePart(c) = "none"
  BY <1>10, Parts
<1>18. Ended(c)' <=> Ended(c)
  BY <1>6 DEF Ended
<1>19. WritePart(c)' = (IF a THEN "queued" ELSE "none") /\ ReadPart(c)' = ReadPart(c)
  BY <1>10, <1>11, <1>13, <1>14, Parts, PartsAfter
<1>20. Turns(c, Ended(c), ReadPart(c), IF a THEN "queued" ELSE "none")
  BY <1>9, <1>13, <1>18, <1>19 DEF Turns
<1> QED  BY <1>7, <1>8, <1>9, <1>10, <1>13, <1>16, <1>17, <1>20, OneMoves DEF a

\* A flush that waits leaves the read of the same connection alone.
LEMMA FlushWaitsStep ==
  ASSUME IInv, NEW c \in Conns, WriteReady(c), FlushWaits(c)
  PROVE  /\ IInv' /\ Open(c) /\ ~ Connects(c) /\ WritePart(c) = "none"
         /\ Turns(c, Ended(c), ReadPart(c), "wait")
<1> DEFINE k == conn[c]
           j == [k EXCEPT !.writeType = SPE_CONN_WRITE]
<1>1. /\ k \in ConnState /\ conn \in [Conns -> ConnState]
      /\ TypeInv /\ TaskInv /\ ConnInv(c)
  BY DEF IInv, TypeInv
<1>2. k.writeExpireTime \in Nat /\ clock \in Nat
  BY <1>1 DEF ConnState, TaskInv
<1>3. conn' = [conn EXCEPT ![c] = j]
  BY DEF FlushWaits
<1>4. j \in ConnState
  BY <1>1, RecordUpdates, RequestTypes
<1>5. /\ j.writeType # SPE_CONN_WRITENONE /\ j.readType = k.readType /\ j.handler = k.handler
      /\ j.rbytes = k.rbytes /\ j.taken = k.taken /\ j.got = k.got
      /\ j.readExpireTime = k.readExpireTime /\ j.writeExpireTime = k.writeExpireTime
      /\ j.Closed = k.Closed /\ j.Error = k.Error
  BY <1>1 DEF ConnState, SPE_CONN_WRITE, SPE_CONN_WRITENONE
<1> HIDE DEF j
<1>6. Arms(c, writeTask(c), k.writeExpireTime)
  BY <1>1, <1>2, ArmsFacts DEF FlushWaits, Four
<1>7. /\ epoll' \in EpollTable
      /\ SPE_EPOLL_WRITE \in epoll'[c].mask
      /\ SPE_EPOLL_READ \in epoll'[c].mask <=> SPE_EPOLL_READ \in epoll[c].mask
      /\ epoll'[c].writeTask = writeTask(c) /\ epoll'[c].readTask = epoll[c].readTask
      /\ \A d \in Conns \ {c} : epoll'[d] = epoll[d]
  <2>1. writeTask(c) \in ConnTasks
    BY FourAreTasks DEF Four
  <2>2. Enables(c, {SPE_EPOLL_WRITE}, writeTask(c))
    BY DEF FlushWaits, Enables
  <2> QED  BY <1>1, <2>1, <2>2, EnableWrite
<1>8. /\ req' \in [Conns -> [read : ReqState, write : ReqState]]
      /\ req'[c].write.owed /\ req'[c].read = req[c].read
      /\ \A d \in Conns \ {c} : req'[d] = req[d]
  <2>1. Issue(c, "write", "write", TRUE, k.writeExpireTime, 0)
    BY DEF FlushWaits
  <2> HIDE DEF k
  <2> QED  BY <1>1, <1>2, <2>1, IssueWriteFacts
<1>9. UNCHANGED <<loopVars, frame, net>>
  BY DEF WriteReady
<1>10. TaskInv'
  BY <1>1, <1>6, <1>9, ArmsTask DEF Four, loopVars
<1>11. TypeInv'
  BY <1>1, <1>3, <1>4, <1>7, <1>8, <1>9 DEF TypeInv, loopVars
<1>12. OnlyMoves(c)
  BY <1>1, <1>3, <1>6, <1>7, <1>8, <1>9, ArmsWrite DEF OnlyMoves, loopVars, threadVars
<1>13. /\ ~ Writes(c) /\ ~ Connects(c) /\ ~ WWorks(c)
       /\ WStatus(c) \notin {SPE_TASK_TIMER, SPE_TASK_QUEUE}
       /\ WCStatus(c) \notin {SPE_TASK_TIMER, SPE_TASK_QUEUE}
  BY <1>1, NoWrite DEF WriteReady
<1>14. /\ RStatus(c)' = RStatus(c) /\ RCStatus(c)' = RCStatus(c) /\ WCStatus(c)' = WCStatus(c)
       /\ WStatus(c)' = WStatus(c) \/ (k.writeExpireTime # 0 /\ WStatus(c)' = SPE_TASK_TIMER)
  BY <1>6, ArmsWrite
<1>15. ~ WWorks(c)' /\ RWorks(c)' = RWorks(c)
  BY <1>9, <1>13, <1>14 DEF RWorks, WWorks, loopVars, threadVars, SPE_TASK_TIMER, SPE_TASK_QUEUE
<1>16. /\ Open(c) /\ Open(c)' /\ net[c].link # "fresh" /\ net'[c].link # "fresh"
  BY <1>9, LinkStays DEF WriteReady
<1>17. /\ Writes(c)' /\ ~ Connects(c)' /\ (Reads(c)' <=> Reads(c))
       /\ conn'[c].writeExpireTime = k.writeExpireTime
       /\ conn'[c].readExpireTime = k.readExpireTime
       /\ conn'[c] = j
  BY <1>1, <1>3, <1>5, <1>13, <1>16 DEF Reads, Writes, Connects
<1>18. WaitInv(c)'
  <2>1. Answer(j, j.readType, j.rbytes) = Answer(k, k.readType, k.rbytes)
    BY <1>5 DEF Answer
  <2> QED  BY <1>1, <1>5, <1>17, <2>1 DEF WaitInv, ConnInv
<1>19. ConnInv(c)'
  BY <1>1, <1>7, <1>8, <1>9, <1>13, <1>14, <1>15, <1>16, <1>17, <1>18
     DEF ConnInv, QuietInv, TimerInv, WorkInv, OwedInv, CallbackInv, HeldInv, MaskInv
<1>20. WritePart(c) = "none"
  BY <1>13, Parts
<1>21. Ended(c)' <=> Ended(c)
  BY <1>5, <1>17 DEF Ended
<1>22. WritePart(c)' = "wait" /\ ReadPart(c)' = ReadPart(c)
  BY <1>13, <1>14, <1>16, <1>17, Parts, PartsAfter
<1>23. Turns(c, Ended(c), ReadPart(c), "wait")
  BY <1>12, <1>16, <1>21, <1>22 DEF Turns
<1> QED  BY <1>10, <1>11, <1>12, <1>13, <1>16, <1>19, <1>20, <1>23, OneMoves

\* Both outcomes of SpeConnFlush.
LEMMA FlushStep ==
  ASSUME IInv, NEW c \in Conns, SpeConnFlush(c)
  PROVE  /\ IInv' /\ Open(c) /\ ~ Connects(c) /\ ~ Ended(c) /\ WritePart(c) = "none"
         /\ \/ Turns(c, Ended(c), ReadPart(c),
                     IF Accepts(sched, WriteCallback(c)) THEN "queued" ELSE "none")
            \/ Turns(c, Ended(c), ReadPart(c), "wait")
BY FlushNothingStep, FlushWaitsStep DEF SpeConnFlush, WriteReady, Ended

\* SpeTaskDequeueTimer takes a task out of the tree, and no other.
LEMMA StopTimerAt ==
  ASSUME NEW s, SchedInv(s), NEW t \in ConnTasks, NEW ms
  PROVE  /\ SchedInv(StopTimer(s, t, ms))
         /\ \A u \in ConnTasks :
              StopTimer(s, t, ms).status[u] =
                IF u = t /\ ms # 0 /\ s.status[t] = SPE_TASK_TIMER THEN SPE_TASK_FREE ELSE s.status[u]
BY StopTimerFacts, StatusOfSched

\* SpeConnDestroy: nothing of c is queued or armed afterwards.
LEMMA DestroyStep ==
  ASSUME IInv, NEW c \in Conns, SpeConnDestroy(c)
  PROVE  IInv' /\ OnlyMoves(c) /\ ~ Open(c)'
<1> DEFINE k == conn[c]
           q == DequeueAll(sched, c)
           q1 == StopTimer(q, readTask(c), k.readExpireTime)
           q2 == StopTimer(q1, writeTask(c), k.writeExpireTime)
<1>1. /\ TypeInv /\ TaskInv /\ ConnInv(c) /\ SchedInv(sched)
      /\ net \in [Conns -> NetState] /\ req \in [Conns -> [read : ReqState, write : ReqState]]
  BY DEF IInv, TypeInv, TaskInv
<1>2. /\ sched' = q2 /\ UNCHANGED <<loopVars, frame, conn>>
      /\ frame # "body"
  BY DEF SpeConnDestroy, UserRuns
<1>3. net' = [net EXCEPT ![c] = Socket("none")] /\ Socket("none") \in NetState
  BY DEF SpeConnDestroy, Socket, NetState, Links
<1>4. /\ req' = [req EXCEPT ![c] = [read |-> NoRequest, write |-> NoRequest]]
      /\ NoRequest \in ReqState /\ ~ NoRequest.owed
  BY DEF SpeConnDestroy, NoRequest, ReqState
<1>5. /\ epoll' \in EpollTable
      /\ SPE_EPOLL_READ \notin epoll'[c].mask /\ SPE_EPOLL_WRITE \notin epoll'[c].mask
      /\ \A d \in Conns \ {c} : epoll'[d] = epoll[d]
  <2>1. Disables(c, {SPE_EPOLL_READ, SPE_EPOLL_WRITE})
    BY DEF SpeConnDestroy, Disables
  <2> QED  BY <1>1, <2>1, DisableBoth
<1>6. Four(c) \subseteq ConnTasks /\ readTask(c) \in Four(c) /\ writeTask(c) \in Four(c)
      /\ readTask(c) # writeTask(c)
  BY FourAreTasks, FourDiffer DEF Four
<1>7. /\ SchedInv(q)
      /\ \A u \in ConnTasks :
           q.status[u] = IF u \in Four(c) /\ sched.status[u] = SPE_TASK_QUEUE
                         THEN SPE_TASK_FREE ELSE sched.status[u]
  BY <1>1, DequeueAllFacts
<1> HIDE DEF q
<1>8. /\ SchedInv(q1)
      /\ \A u \in ConnTasks :
           q1.status[u] = IF u = readTask(c) /\ k.readExpireTime # 0 /\ q.status[readTask(c)] = SPE_TASK_TIMER
                          THEN SPE_TASK_FREE ELSE q.status[u]
  BY <1>6, <1>7, StopTimerAt
<1> HIDE DEF q1
<1>9. /\ SchedInv(q2)
      /\ \A u \in ConnTasks :
           q2.status[u] = IF u = writeTask(c) /\ k.writeExpireTime # 0 /\ q1.status[writeTask(c)] = SPE_TASK_TIMER
                          THEN SPE_TASK_FREE ELSE q1.status[u]
  BY <1>6, <1>8, StopTimerAt
<1> HIDE DEF q2
<1>10. \A u \in ConnTasks : sched'.status[u] = SPE_TASK_RUN <=> sched.status[u] = SPE_TASK_RUN
  BY <1>2, <1>7, <1>8, <1>9 DEF SPE_TASK_FREE, SPE_TASK_TIMER, SPE_TASK_QUEUE, SPE_TASK_RUN
<1>11. \A u \in ConnTasks \ Four(c) : sched'.status[u] = sched.status[u]
  BY <1>2, <1>6, <1>7, <1>8, <1>9
<1>12. \A u \in Four(c) : sched'.status[u] \notin {SPE_TASK_TIMER, SPE_TASK_QUEUE}
  <2>1. /\ sched.status[readTask(c)] = SPE_TASK_TIMER => k.readExpireTime # 0
        /\ sched.status[writeTask(c)] = SPE_TASK_TIMER => k.writeExpireTime # 0
        /\ sched.status[ReadCallback(c)] # SPE_TASK_TIMER
        /\ sched.status[WriteCallback(c)] # SPE_TASK_TIMER
    BY <1>1 DEF ConnInv, TimerInv, RStatus, WStatus, RCStatus, WCStatus
  <2>2. \A u \in Four(c) : q.status[u] # SPE_TASK_QUEUE /\ (q.status[u] = SPE_TASK_TIMER => q.status[u] = sched.status[u])
    BY <1>6, <1>7 DEF SPE_TASK_FREE, SPE_TASK_TIMER, SPE_TASK_QUEUE
  <2>3. \A u \in Four(c) : /\ q1.status[u] # SPE_TASK_QUEUE
                           /\ q1.status[u] = SPE_TASK_TIMER => q1.status[u] = sched.status[u] /\ u # readTask(c)
    BY <1>6, <1>8, <2>1, <2>2 DEF SPE_TASK_FREE, SPE_TASK_TIMER, SPE_TASK_QUEUE
  <2>4. \A u \in Four(c) : /\ q2.status[u] # SPE_TASK_QUEUE
                           /\ q2.status[u] = SPE_TASK_TIMER =>
                                q2.status[u] = sched.status[u] /\ u \notin {readTask(c), writeTask(c)}
    BY <1>6, <1>9, <2>1, <2>3 DEF SPE_TASK_FREE, SPE_TASK_TIMER, SPE_TASK_QUEUE
  <2> QED  BY <1>2, <2>1, <2>4 DEF Four
<1>13. TaskInv'
  BY <1>1, <1>2, <1>9, <1>10, CallKeepsTask DEF loopVars
<1>14. TypeInv'
  BY <1>1, <1>2, <1>3, <1>4, <1>5 DEF TypeInv, loopVars
<1>15. OnlyMoves(c)
  BY <1>1, <1>2, <1>3, <1>4, <1>5, <1>11 DEF OnlyMoves, loopVars, threadVars
<1>16. /\ RStatus(c)' \notin {SPE_TASK_TIMER, SPE_TASK_QUEUE}
       /\ WStatus(c)' \notin {SPE_TASK_TIMER, SPE_TASK_QUEUE}
       /\ RCStatus(c)' \notin {SPE_TASK_TIMER, SPE_TASK_QUEUE}
       /\ WCStatus(c)' \notin {SPE_TASK_TIMER, SPE_TASK_QUEUE}
  BY <1>12 DEF Four, RStatus, WStatus, RCStatus, WCStatus
<1>17. /\ net'[c].link = "none" /\ ~ Open(c)' /\ ~ Reads(c)' /\ ~ Writes(c)'
       /\ ~ req'[c].read.owed /\ ~ req'[c].write.owed
  BY <1>1, <1>3, <1>4 DEF Open, Reads, Writes, Socket
<1>18. ~ RWorks(c)' /\ ~ WWorks(c)'
  BY <1>2, <1>16 DEF RWorks, WWorks
<1>19. ConnInv(c)'
  BY <1>5, <1>16, <1>17, <1>18
     DEF ConnInv, QuietInv, TimerInv, WorkInv, OwedInv, CallbackInv, HeldInv, MaskInv, WaitInv
<1> QED  BY <1>13, <1>14, <1>15, <1>17, <1>19, OneMoves

-----------------------------------------------------------------------------
(* The handlers                                                             *)

\* The body that runs is out of the queue and out of the tree, so the call
\* that stops its timer finds nothing to stop.
LEMMA BodyRuns ==
  ASSUME IInv, NEW c \in Conns, NEW t \in {readTask(c), writeTask(c)}, Runs(t)
  PROVE  /\ t \in ConnTasks /\ sched.status[t] = SPE_TASK_RUN
         /\ \A ms : /\ SchedInv(StopTimer(sched, t, ms))
                    /\ \A u \in ConnTasks : StopTimer(sched, t, ms).status[u] = sched.status[u]
<1>1. t \in ConnTasks
  BY FourAreTasks DEF Four
<1>2. sched.status[t] = SPE_TASK_RUN /\ SchedInv(sched)
  BY <1>1 DEF IInv, TaskInv, Runs
<1>3. sched.status[t] # SPE_TASK_TIMER
  BY <1>2 DEF SPE_TASK_RUN, SPE_TASK_TIMER
<1> QED  BY <1>1, <1>2, <1>3, StopTimerAt

\* When the body of readTask runs, a read or a connect waits.
LEMMA ReadBody ==
  ASSUME IInv, NEW c \in Conns, Runs(readTask(c))
  PROVE  /\ Reads(c) /\ Open(c) /\ net[c].link # "fresh" /\ req[c].read.owed
         /\ RStatus(c) \notin {SPE_TASK_TIMER, SPE_TASK_QUEUE}
         /\ RCStatus(c) \notin {SPE_TASK_TIMER, SPE_TASK_QUEUE}
         /\ ~ WWorks(c) \/ WStatus(c) = SPE_TASK_QUEUE
<1>1. RWorks(c) /\ ConnInv(c)
  BY DEF RWorks, Runs, IInv
<1>2. Reads(c) /\ Open(c) /\ net[c].link # "fresh" /\ req[c].read.owed
  BY <1>1 DEF ConnInv, WorkInv, QuietInv, OwedInv, Reads
<1>3. RStatus(c) \notin {SPE_TASK_TIMER, SPE_TASK_QUEUE}
  BY BodyRuns DEF RStatus, SPE_TASK_RUN, SPE_TASK_TIMER, SPE_TASK_QUEUE
<1>4. RCStatus(c) \notin {SPE_TASK_TIMER, SPE_TASK_QUEUE}
  BY <1>1, <1>2 DEF ConnInv, TimerInv, CallbackInv
<1>5. ~ WWorks(c) \/ WStatus(c) = SPE_TASK_QUEUE
  BY FourDiffer DEF WWorks, Runs
<1> QED  BY <1>2, <1>3, <1>4, <1>5

\* When the body of writeTask runs, a flush waits and no connect does.
LEMMA WriteBody ==
  ASSUME IInv, NEW c \in Conns, Runs(writeTask(c))
  PROVE  /\ Writes(c) /\ ~ Connects(c) /\ Open(c) /\ net[c].link # "fresh" /\ req[c].write.owed
         /\ WStatus(c) \notin {SPE_TASK_TIMER, SPE_TASK_QUEUE}
         /\ WCStatus(c) \notin {SPE_TASK_TIMER, SPE_TASK_QUEUE}
         /\ ~ RWorks(c) \/ RStatus(c) = SPE_TASK_QUEUE
<1>1. WWorks(c) /\ ConnInv(c)
  BY DEF WWorks, Runs, IInv
<1>2. Writes(c) /\ ~ Connects(c) /\ Open(c) /\ net[c].link # "fresh" /\ req[c].write.owed
  BY <1>1 DEF ConnInv, WorkInv, QuietInv, OwedInv, Writes
<1>3. WStatus(c) \notin {SPE_TASK_TIMER, SPE_TASK_QUEUE}
  BY BodyRuns DEF WStatus, SPE_TASK_RUN, SPE_TASK_TIMER, SPE_TASK_QUEUE
<1>4. WCStatus(c) \notin {SPE_TASK_TIMER, SPE_TASK_QUEUE}
  BY <1>1, <1>2 DEF ConnInv, TimerInv, CallbackInv
<1>5. ~ RWorks(c) \/ RStatus(c) = SPE_TASK_QUEUE
  BY FourDiffer DEF RWorks, Runs
<1> QED  BY <1>2, <1>3, <1>4, <1>5

\* A handler that leaves the status words as they are.
KeepsStatus(c) ==
  /\ SchedInv(sched') /\ \A u \in ConnTasks : sched'.status[u] = sched.status[u]
  /\ UNCHANGED loopVars /\ frame' # "body"

\* What follows for the connection the handler belongs to.
LEMMA KeepsStatusFacts ==
  ASSUME TaskInv, NEW c \in Conns, KeepsStatus(c)
  PROVE  /\ TaskInv'
         /\ RStatus(c)' = RStatus(c) /\ WStatus(c)' = WStatus(c)
         /\ RCStatus(c)' = RCStatus(c) /\ WCStatus(c)' = WCStatus(c)
         /\ RWorks(c)' <=> RStatus(c) = SPE_TASK_QUEUE
         /\ WWorks(c)' <=> WStatus(c) = SPE_TASK_QUEUE
<1>1. TaskInv'
  BY CallKeepsTask DEF KeepsStatus, loopVars
<1>2. /\ RStatus(c)' = RStatus(c) /\ WStatus(c)' = WStatus(c)
      /\ RCStatus(c)' = RCStatus(c) /\ WCStatus(c)' = WCStatus(c)
  BY FourAreTasks DEF Four, KeepsStatus, RStatus, WStatus, RCStatus, WCStatus
<1> QED  BY <1>1, <1>2 DEF KeepsStatus, RWorks, WWorks

\* The handlers that call the program: a request that waited is answered, and
\* the connection may have ended.
ReadReturns(c) ==
  /\ Runs(readTask(c)) /\ running' = running /\ frame' = "user"
  /\ Open(c) /\ ReadPart(c) \in {"connect", "wait"}
  /\ \E e \in {TRUE, Ended(c)} : Turns(c, e, "none", WritePart(c))

WriteReturns(c) ==
  /\ Runs(writeTask(c)) /\ running' = running /\ frame' = "user"
  /\ Open(c) /\ WritePart(c) = "wait"
  /\ \E e \in {TRUE, Ended(c)} : Turns(c, e, ReadPart(c), "none")

\* Or call nobody.
Silent == running' = running /\ frame = "body" /\ frame' = "return" /\ Stays

\* connectNormal ends both directions and calls the one callback it owes.
LEMMA connectNormalStep ==
  ASSUME IInv, NEW c \in Conns, connectNormal(c)
  PROVE  IInv' /\ ReadReturns(c)
<1> DEFINE k == conn[c]
           j == [k EXCEPT !.ConnectTimeout = IF ReadTimedOut(c) THEN 1 ELSE @,
                          !.Error = IF ~ ReadTimedOut(c) /\ SocketError(c) THEN 1 ELSE @,
                          !.readType = SPE_CONN_READNONE, !.writeType = SPE_CONN_WRITENONE]
<1>1. /\ k \in ConnState /\ conn \in [Conns -> ConnState]
      /\ TypeInv /\ TaskInv /\ ConnInv(c)
  BY DEF IInv, TypeInv
<1>2. conn' = [conn EXCEPT ![c] = j] /\ UNCHANGED <<loopVars, net>>
  BY DEF connectNormal
<1>3. k.ConnectTimeout \in {0, 1} /\ k.Error \in {0, 1}
  BY <1>1 DEF ConnState
<1>4. /\ j \in ConnState /\ j.readType = SPE_CONN_READNONE /\ j.writeType = SPE_CONN_WRITENONE
      /\ j.Closed = k.Closed /\ j.Error \in {1, k.Error}
  <2> DEFINE x == IF ReadTimedOut(c) THEN 1 ELSE k.ConnectTimeout
             y == IF ~ ReadTimedOut(c) /\ SocketError(c) THEN 1 ELSE k.Error
  <2>1. x \in {0, 1} /\ y \in {0, 1}
    BY <1>3
  <2>2. j = [k EXCEPT !.ConnectTimeout = x, !.Error = y,
                      !.readType = SPE_CONN_READNONE, !.writeType = SPE_CONN_WRITENONE]
    OBVIOUS
  <2> HIDE DEF x, y, j
  <2>3. j \in ConnState
    BY <1>1, <2>1, <2>2, RecordUpdates, RequestTypes
  <2>4. /\ j.readType = SPE_CONN_READNONE /\ j.writeType = SPE_CONN_WRITENONE
        /\ j.Closed = k.Closed /\ j.Error = y
    BY <1>1, <2>2 DEF ConnState
  <2>5. y \in {1, k.Error}
    BY DEF y
  <2> QED  BY <2>3, <2>4, <2>5
<1> HIDE DEF j
<1>5. /\ epoll' \in EpollTable
      /\ SPE_EPOLL_READ \notin epoll'[c].mask /\ SPE_EPOLL_WRITE \notin epoll'[c].mask
      /\ \A d \in Conns \ {c} : epoll'[d] = epoll[d]
  <2>1. Disables(c, {SPE_EPOLL_READ, SPE_EPOLL_WRITE})
    BY DEF connectNormal, Disables
  <2> QED  BY <1>1, <2>1, DisableBoth
<1>6. /\ req' \in [Conns -> [read : ReqState, write : ReqState]] /\ frame' = "user"
      /\ ~ req'[c].read.owed /\ req'[c].write = req[c].write
      /\ \A d \in Conns \ {c} : req'[d] = req[d]
  <2>1. EnterCallback(c, "read")
    BY DEF connectNormal
  <2> QED  BY <1>1, <2>1, EnterFacts
<1>7. Runs(readTask(c)) /\ k.handler = "connectNormal"
  BY DEF connectNormal
<1>8. KeepsStatus(c)
  BY <1>2, <1>6, <1>7, BodyRuns DEF connectNormal, KeepsStatus
<1>9. /\ Reads(c) /\ Open(c) /\ net[c].link # "fresh"
      /\ RStatus(c) \notin {SPE_TASK_TIMER, SPE_TASK_QUEUE}
      /\ RCStatus(c) \notin {SPE_TASK_TIMER, SPE_TASK_QUEUE}
  BY <1>7, ReadBody
<1>10. Connects(c) /\ Writes(c) /\ ~ req[c].write.owed
  BY <1>1, <1>7, <1>9 DEF Reads, Connects, ConnInv, OwedInv
<1>11. /\ WStatus(c) \notin {SPE_TASK_TIMER, SPE_TASK_QUEUE}
       /\ WCStatus(c) \notin {SPE_TASK_TIMER, SPE_TASK_QUEUE}
  BY <1>1, <1>10 DEF ConnInv, TimerInv, WorkInv, CallbackInv, WWorks
<1>12. TypeInv'
  BY <1>1, <1>2, <1>4, <1>5, <1>6 DEF TypeInv, loopVars
<1>13. OnlyMoves(c)
  BY <1>1, <1>2, <1>5, <1>6, <1>8 DEF OnlyMoves, KeepsStatus
<1>14. /\ ~ Reads(c)' /\ ~ Writes(c)' /\ ~ Connects(c)' /\ Open(c)' /\ net'[c].link # "fresh"
  BY <1>1, <1>2, <1>4, <1>9 DEF Reads, Writes, Connects, Open
<1>15. ConnInv(c)'
  BY <1>1, <1>5, <1>6, <1>8, <1>9, <1>10, <1>11, <1>14, KeepsStatusFacts
     DEF ConnInv, QuietInv, TimerInv, WorkInv, OwedInv, CallbackInv, HeldInv, MaskInv, WaitInv
<1>16. /\ ReadPart(c) = "connect" /\ WritePart(c) = "none"
       /\ ReadPart(c)' = "none" /\ WritePart(c)' = "none"
  BY <1>1, <1>8, <1>9, <1>10, <1>11, <1>14, KeepsStatusFacts, Parts, PartsAfter
<1>17. Ended(c)' \in {TRUE, Ended(c)}
  BY <1>1, <1>2, <1>4 DEF Ended
<1>18. ReadReturns(c)
  BY <1>6, <1>7, <1>8, <1>9, <1>13, <1>14, <1>16, <1>17
     DEF ReadReturns, Turns, KeepsStatus, loopVars, threadVars
<1> QED  BY <1>1, <1>8, <1>12, <1>13, <1>15, <1>18, KeepsStatusFacts, OneMoves

\* A record a body of readTask works with: only what it read is new.
ReadsInto(c, k) ==
  /\ k \in ConnState
  /\ k.readType = conn[c].readType /\ k.writeType = conn[c].writeType
  /\ k.handler = conn[c].handler /\ k.rbytes = conn[c].rbytes
  /\ k.readExpireTime = conn[c].readExpireTime
  /\ k.writeExpireTime = conn[c].writeExpireTime
  /\ Ended(c) => k.Closed = 1 \/ k.Error = 1

\* A read that ends is answered; a flush that waits is not disturbed.
LEMMA ReadEndsStep ==
  ASSUME IInv, NEW c \in Conns, NEW k, ReadsInto(c, k), Runs(readTask(c)),
         conn[c].handler = "readNormal", ReadEnds(c, k), UNCHANGED <<loopVars, net>>
  PROVE  IInv' /\ ReadReturns(c)
<1> DEFINE j == [k EXCEPT !.readType = SPE_CONN_READNONE]
<1>1. /\ conn \in [Conns -> ConnState] /\ TypeInv /\ TaskInv /\ ConnInv(c)
  BY DEF IInv, TypeInv
<1>2. conn' = [conn EXCEPT ![c] = j]
  BY DEF ReadEnds
<1>3. /\ j \in ConnState /\ j.readType = SPE_CONN_READNONE /\ j.writeType = conn[c].writeType
      /\ j.writeExpireTime = conn[c].writeExpireTime
      /\ j.Closed = k.Closed /\ j.Error = k.Error
  <2>1. j \in ConnState
    BY RecordUpdates, RequestTypes DEF ReadsInto
  <2>2. /\ j.readType = SPE_CONN_READNONE /\ j.writeType = k.writeType
        /\ j.writeExpireTime = k.writeExpireTime
        /\ j.Closed = k.Closed /\ j.Error = k.Error
    BY DEF ReadsInto, ConnState
  <2> QED  BY <2>1, <2>2 DEF ReadsInto
<1> HIDE DEF j
<1>4. /\ epoll' \in EpollTable
      /\ SPE_EPOLL_READ \notin epoll'[c].mask
      /\ SPE_EPOLL_WRITE \in epoll'[c].mask <=> SPE_EPOLL_WRITE \in epoll[c].mask
      /\ epoll'[c].writeTask = epoll[c].writeTask
      /\ \A d \in Conns \ {c} : epoll'[d] = epoll[d]
  <2>1. Disables(c, {SPE_EPOLL_READ})
    BY DEF ReadEnds, Disables
  <2> QED  BY <1>1, <2>1, DisableRead
<1>5. /\ req' \in [Conns -> [read : ReqState, write : ReqState]] /\ frame' = "user"
      /\ ~ req'[c].read.owed /\ req'[c].write = req[c].write
      /\ \A d \in Conns \ {c} : req'[d] = req[d]
  <2>1. EnterCallback(c, "read")
    BY DEF ReadEnds
  <2> QED  BY <1>1, <2>1, EnterFacts
<1>6. KeepsStatus(c)
  BY <1>5, BodyRuns DEF ReadEnds, KeepsStatus
<1>7. /\ Reads(c) /\ Open(c) /\ net[c].link # "fresh"
      /\ RStatus(c) \notin {SPE_TASK_TIMER, SPE_TASK_QUEUE}
      /\ RCStatus(c) \notin {SPE_TASK_TIMER, SPE_TASK_QUEUE}
      /\ ~ WWorks(c) \/ WStatus(c) = SPE_TASK_QUEUE
  BY ReadBody
<1>8. TypeInv'
  BY <1>1, <1>2, <1>3, <1>4, <1>5 DEF TypeInv, loopVars
<1>9. OnlyMoves(c)
  BY <1>1, <1>2, <1>4, <1>5, <1>6 DEF OnlyMoves, KeepsStatus
<1>10. /\ ~ Reads(c)' /\ ~ Connects(c)' /\ ~ Connects(c) /\ Open(c)' /\ net'[c].link # "fresh"
       /\ (Writes(c)' <=> Writes(c))
       /\ conn'[c].writeExpireTime = conn[c].writeExpireTime
  BY <1>1, <1>2, <1>3, <1>7 DEF Reads, Writes, Connects, Open
<1>11. WWorks(c)' => WWorks(c)
  BY <1>1, <1>6, KeepsStatusFacts DEF WWorks
<1>12. ConnInv(c)'
  BY <1>1, <1>4, <1>5, <1>6, <1>7, <1>10, <1>11, KeepsStatusFacts
     DEF ConnInv, QuietInv, TimerInv, WorkInv, OwedInv, CallbackInv, HeldInv, MaskInv, WaitInv
<1>13. /\ ReadPart(c) = "wait" /\ ReadPart(c)' = "none" /\ WritePart(c)' = WritePart(c)
  BY <1>1, <1>6, <1>7, <1>10, KeepsStatusFacts, Parts, PartsAfter
<1>14. Ended(c)' \in {TRUE, Ended(c)}
  BY <1>1, <1>2, <1>3 DEF Ended, ReadsInto
<1>15. ReadReturns(c)
  BY <1>5, <1>6, <1>7, <1>9, <1>10, <1>13, <1>14
     DEF ReadReturns, Turns, KeepsStatus, loopVars, threadVars
<1> QED  BY <1>1, <1>6, <1>8, <1>9, <1>12, <1>15, KeepsStatusFacts, OneMoves

\* The read has taken what there was and waits for more.
LEMMA ReadGoesOn ==
  ASSUME IInv, NEW c \in Conns, NEW k, ReadsInto(c, k), Runs(readTask(c)),
         conn[c].handler = "readNormal", Answer(k, k.readType, k.rbytes) = {},
         k.Closed = 0, k.Error = 0,
         conn' = [conn EXCEPT ![c] = k], frame' = "return",
         UNCHANGED <<sched, loopVars, epoll, net, req>>
  PROVE  IInv' /\ Silent
<1>1. /\ conn \in [Conns -> ConnState] /\ TypeInv /\ TaskInv /\ ConnInv(c)
  BY DEF IInv, TypeInv
<1>2. KeepsStatus(c)
  BY <1>1 DEF KeepsStatus, TaskInv
<1>3. TypeInv'
  BY <1>1 DEF TypeInv, loopVars, ReadsInto
<1>4. OnlyMoves(c)
  BY <1>1 DEF OnlyMoves
<1>5. /\ RStatus(c) \notin {SPE_TASK_TIMER, SPE_TASK_QUEUE}
      /\ ~ WWorks(c) \/ WStatus(c) = SPE_TASK_QUEUE
  BY ReadBody
<1>6. /\ (Open(c)' <=> Open(c)) /\ (Reads(c)' <=> Reads(c)) /\ (Writes(c)' <=> Writes(c))
      /\ ~ Connects(c)' /\ ~ Connects(c) /\ conn'[c] = k
  BY <1>1 DEF Reads, Writes, Connects, Open, ReadsInto
<1>7. (RWorks(c)' => RWorks(c)) /\ (WWorks(c)' => WWorks(c))
  BY <1>1, <1>2, KeepsStatusFacts DEF RWorks, WWorks
<1>8. ConnInv(c)'
  BY <1>1, <1>2, <1>5, <1>6, <1>7, KeepsStatusFacts
     DEF ConnInv, QuietInv, TimerInv, WorkInv, OwedInv, CallbackInv, HeldInv, MaskInv, WaitInv,
         ReadsInto
<1>9. Ended(c)' <=> Ended(c)
  BY <1>6 DEF Ended, ReadsInto
<1>10. SameView(c)
  BY <1>1, <1>2, <1>6, <1>9, KeepsStatusFacts, PartsStay
<1>11. Silent
  BY <1>4, <1>10, TurnsBack DEF Silent, Runs, loopVars, threadVars
<1> QED  BY <1>1, <1>2, <1>3, <1>4, <1>8, <1>11, KeepsStatusFacts, OneMoves

\* read() leaves everything of the record alone but bytes and flags.
LEMMA ReadResultsType ==
  ASSUME TypeInv, NEW c \in Conns, NEW k \in ReadResults(c)
  PROVE  ReadsInto(c, k)
<1> DEFINE o == conn[c]
           a == net[c].sent - o.got
           b == IF a < BUF_SIZE THEN a ELSE BUF_SIZE
<1>1. o \in ConnState /\ net[c].sent \in Nat /\ o.got \in Nat
  BY DEF TypeInv, NetState, ConnState
<1>2. \/ k \in {o, [o EXCEPT !.Error = 1], [o EXCEPT !.Closed = 1]}
      \/ k = [o EXCEPT !.got = o.got + b] /\ a > 0
  <2> DEFINE D == {[o EXCEPT !.got = @ + (IF a < BUF_SIZE THEN a ELSE BUF_SIZE)]}
             E == [o EXCEPT !.Error = 1]
             F == [o EXCEPT !.Closed = 1]
             G == [o EXCEPT !.got = o.got + b]
             P == a > 0
  <2>1. D = {G}
    OBVIOUS
  <2>2. k \in CASE net[c].link = "rst" -> {E} \cup (IF P THEN D ELSE {})
                [] P -> D
                [] net[c].link = "fin" -> {F}
                [] OTHER -> {o}
    BY DEF ReadResults
  <2> HIDE DEF D, E, F, G, P
  <2>3. k \in {o, E, F} \/ (k \in D /\ P)
    BY <2>2
  <2>4. k \in {o, E, F} \/ (k = G /\ P)
    BY <2>1, <2>3
  <2> QED  BY <2>4 DEF E, F, G, P
<1>3. a > 0 => o.got + b \in Nat
  BY <1>1, SizeAssumption
<1> HIDE DEF a, b, o
<1>4. k \in ConnState
  BY <1>1, <1>2, <1>3, RecordUpdates
<1>5. /\ k.readType = o.readType /\ k.writeType = o.writeType /\ k.handler = o.handler
      /\ k.rbytes = o.rbytes /\ k.readExpireTime = o.readExpireTime
      /\ k.writeExpireTime = o.writeExpireTime
      /\ (o.Closed = 1 \/ o.Error = 1) => (k.Closed = 1 \/ k.Error = 1)
  BY <1>1, <1>2 DEF ConnState
<1> QED  BY <1>4, <1>5 DEF ReadsInto, Ended, o

\* The timeout, the answer, the end of the stream and EAGAIN of readNormal.
LEMMA readNormalStep ==
  ASSUME IInv, NEW c \in Conns, readNormal(c)
  PROVE  IInv' /\ (ReadReturns(c) \/ Silent)
<1> DEFINE o == conn[c]
<1>1. o \in ConnState /\ TypeInv
  BY DEF IInv, TypeInv
<1>2. /\ Runs(readTask(c)) /\ conn[c].handler = "readNormal" /\ UNCHANGED <<loopVars, net>>
  BY DEF readNormal
<1>3. CASE ReadEnds(c, [o EXCEPT !.ReadTimeout = 1])
  <2> DEFINE k == [o EXCEPT !.ReadTimeout = 1]
  <2>1. k \in ConnState
    BY <1>1, RecordUpdates
  <2>2. /\ k.readType = o.readType /\ k.writeType = o.writeType /\ k.handler = o.handler
        /\ k.rbytes = o.rbytes /\ k.readExpireTime = o.readExpireTime
        /\ k.writeExpireTime = o.writeExpireTime /\ k.Closed = o.Closed /\ k.Error = o.Error
    BY <1>1 DEF ConnState
  <2>3. ReadsInto(c, k) /\ ReadEnds(c, k)
    BY <1>3, <2>1, <2>2 DEF ReadsInto, Ended
  <2> HIDE DEF k
  <2> QED  BY <1>2, <2>3, ReadEndsStep
<1>4. ASSUME NEW k \in ReadResults(c), NEW t \in Answer(k, k.readType, k.rbytes),
             ReadEnds(c, [k EXCEPT !.taken = t])
      PROVE  IInv' /\ ReadReturns(c)
  <2> DEFINE j == [k EXCEPT !.taken = t]
  <2>1. ReadsInto(c, k) /\ k \in ConnState
    BY <1>1, ReadResultsType DEF ReadsInto
  <2>2. t \in Nat
    BY <2>1 DEF Answer, ConnState
  <2>3. j \in ConnState
    BY <2>1, <2>2, RecordUpdates
  <2>4. /\ j.readType = k.readType /\ j.writeType = k.writeType /\ j.handler = k.handler
        /\ j.rbytes = k.rbytes /\ j.readExpireTime = k.readExpireTime
        /\ j.writeExpireTime = k.writeExpireTime /\ j.Closed = k.Closed /\ j.Error = k.Error
    BY <2>1 DEF ConnState
  <2>5. ReadsInto(c, j) /\ ReadEnds(c, j)
    BY <1>4, <2>1, <2>3, <2>4 DEF ReadsInto
  <2> HIDE DEF j
  <2> QED  BY <1>2, <2>5, ReadEndsStep
<1>5. ASSUME NEW k \in ReadResults(c), ReadEnds(c, k)
      PROVE  IInv' /\ ReadReturns(c)
  BY <1>1, <1>2, <1>5, ReadResultsType, ReadEndsStep
<1>6. ASSUME NEW k \in ReadResults(c), Answer(k, k.readType, k.rbytes) = {},
             k.Closed = 0, k.Error = 0,
             conn' = [conn EXCEPT ![c] = k], frame' = "return", UNCHANGED <<sched, epoll, req>>
      PROVE  IInv' /\ Silent
  <2>1. ReadsInto(c, k)
    BY <1>1, ReadResultsType
  <2> QED  BY <1>2, <1>6, <2>1, ReadGoesOn
<1> QED  BY <1>3, <1>4, <1>5, <1>6 DEF readNormal

\* A record the body of writeTask works with, and what it may do to the socket.
WritesFrom(c, k) ==
  /\ k \in ConnState
  /\ k.readType = conn[c].readType /\ k.writeType = conn[c].writeType
  /\ k.handler = conn[c].handler /\ k.rbytes = conn[c].rbytes
  /\ k.readExpireTime = conn[c].readExpireTime
  /\ k.writeExpireTime = conn[c].writeExpireTime
  /\ k.got = conn[c].got /\ k.taken = conn[c].taken
  /\ Ended(c) => k.Closed = 1 \/ k.Error = 1

KeepsLink(c) ==
  /\ net' \in [Conns -> NetState] /\ net'[c].link = net[c].link
  /\ \A d \in Conns \ {c} : net'[d] = net[d]

\* A flush that ends is answered; a read that waits is not disturbed.
LEMMA WriteEndsStep ==
  ASSUME IInv, NEW c \in Conns, NEW k, WritesFrom(c, k), Runs(writeTask(c)),
         WriteEnds(c, k), KeepsLink(c), UNCHANGED loopVars
  PROVE  IInv' /\ WriteReturns(c)
<1> DEFINE j == [k EXCEPT !.writeType = SPE_CONN_WRITENONE]
<1>1. /\ conn \in [Conns -> ConnState] /\ TypeInv /\ TaskInv /\ ConnInv(c)
  BY DEF IInv, TypeInv
<1>2. conn' = [conn EXCEPT ![c] = j]
  BY DEF WriteEnds
<1>3. /\ j \in ConnState /\ j.writeType = SPE_CONN_WRITENONE /\ j.readType = conn[c].readType
      /\ j.handler = conn[c].handler /\ j.rbytes = conn[c].rbytes
      /\ j.readExpireTime = conn[c].readExpireTime
      /\ j.got = conn[c].got /\ j.taken = conn[c].taken
      /\ j.Closed = k.Closed /\ j.Error = k.Error
  <2>1. j \in ConnState
    BY RecordUpdates, RequestTypes DEF WritesFrom
  <2>2. /\ j.writeType = SPE_CONN_WRITENONE /\ j.readType = k.readType
        /\ j.handler = k.handler /\ j.rbytes = k.rbytes /\ j.readExpireTime = k.readExpireTime
        /\ j.got = k.got /\ j.taken = k.taken
        /\ j.Closed = k.Closed /\ j.Error = k.Error
    BY DEF WritesFrom, ConnState
  <2> QED  BY <2>1, <2>2 DEF WritesFrom
<1> HIDE DEF j
<1>4. /\ epoll' \in EpollTable
      /\ SPE_EPOLL_WRITE \notin epoll'[c].mask
      /\ SPE_EPOLL_READ \in epoll'[c].mask <=> SPE_EPOLL_READ \in epoll[c].mask
      /\ epoll'[c].readTask = epoll[c].readTask
      /\ \A d \in Conns \ {c} : epoll'[d] = epoll[d]
  <2>1. Disables(c, {SPE_EPOLL_WRITE})
    BY DEF WriteEnds, Disables
  <2> QED  BY <1>1, <2>1, DisableWrite
<1>5. /\ req' \in [Conns -> [read : ReqState, write : ReqState]] /\ frame' = "user"
      /\ ~ req'[c].write.owed /\ req'[c].read = req[c].read
      /\ \A d \in Conns \ {c} : req'[d] = req[d]
  <2>1. EnterCallback(c, "write")
    BY DEF WriteEnds
  <2> QED  BY <1>1, <2>1, EnterFacts
<1>6. KeepsStatus(c)
  BY <1>5, BodyRuns DEF WriteEnds, KeepsStatus
<1>7. /\ Writes(c) /\ ~ Connects(c) /\ Open(c) /\ net[c].link # "fresh"
      /\ WStatus(c) \notin {SPE_TASK_TIMER, SPE_TASK_QUEUE}
      /\ WCStatus(c) \notin {SPE_TASK_TIMER, SPE_TASK_QUEUE}
      /\ ~ RWorks(c) \/ RStatus(c) = SPE_TASK_QUEUE
  BY WriteBody
<1>8. TypeInv'
  BY <1>1, <1>2, <1>3, <1>4, <1>5 DEF TypeInv, loopVars, KeepsLink
<1>9. OnlyMoves(c)
  BY <1>1, <1>2, <1>4, <1>5, <1>6 DEF OnlyMoves, KeepsStatus, KeepsLink
<1>10. /\ ~ Writes(c)' /\ ~ Connects(c)' /\ Open(c)' /\ net'[c].link # "fresh"
       /\ (Reads(c)' <=> Reads(c)) /\ conn'[c] = j
  BY <1>1, <1>2, <1>3, <1>7 DEF Reads, Writes, Connects, Open, KeepsLink
<1>11. RWorks(c)' => RWorks(c)
  BY <1>1, <1>6, KeepsStatusFacts DEF RWorks
<1>12. WaitInv(c)'
  <2>1. Answer(j, j.readType, j.rbytes) = Answer(conn[c], conn[c].readType, conn[c].rbytes)
    BY <1>3 DEF Answer
  <2> QED  BY <1>1, <1>3, <1>10, <2>1 DEF WaitInv, ConnInv
<1>13. ConnInv(c)'
  BY <1>1, <1>3, <1>4, <1>5, <1>6, <1>7, <1>10, <1>11, <1>12, KeepsStatusFacts
     DEF ConnInv, QuietInv, TimerInv, WorkInv, OwedInv, CallbackInv, HeldInv, MaskInv
<1>14. /\ WritePart(c) = "wait" /\ WritePart(c)' = "none" /\ ReadPart(c)' = ReadPart(c)
  BY <1>1, <1>6, <1>7, <1>10, KeepsStatusFacts, Parts, PartsAfter
<1>15. Ended(c)' \in {TRUE, Ended(c)}
  BY <1>3, <1>10 DEF Ended, WritesFrom
<1>16. WriteReturns(c)
  BY <1>5, <1>6, <1>7, <1>9, <1>10, <1>14, <1>15
     DEF WriteReturns, Turns, KeepsStatus, loopVars, threadVars
<1> QED  BY <1>1, <1>6, <1>8, <1>9, <1>13, <1>16, KeepsStatusFacts, OneMoves

\* A part of the buffer was written; the rest waits for room.
LEMMA WriteGoesOn ==
  ASSUME IInv, NEW c \in Conns, NEW k, WritesFrom(c, k), Runs(writeTask(c)),
         k.Closed = conn[c].Closed, k.Error = conn[c].Error,
         conn' = [conn EXCEPT ![c] = k], frame' = "return", KeepsLink(c),
         UNCHANGED <<sched, loopVars, epoll, req>>
  PROVE  IInv' /\ Silent
<1>1. /\ conn \in [Conns -> ConnState] /\ TypeInv /\ TaskInv /\ ConnInv(c)
  BY DEF IInv, TypeInv
<1>2. KeepsStatus(c)
  BY <1>1 DEF KeepsStatus, TaskInv
<1>3. TypeInv'
  BY <1>1 DEF TypeInv, loopVars, WritesFrom, KeepsLink
<1>4. OnlyMoves(c)
  BY <1>1 DEF OnlyMoves, KeepsLink
<1>5. /\ Open(c) /\ net[c].link # "fresh"
      /\ WStatus(c) \notin {SPE_TASK_TIMER, SPE_TASK_QUEUE}
      /\ ~ RWorks(c) \/ RStatus(c) = SPE_TASK_QUEUE
  BY WriteBody
<1>6. /\ Open(c)' /\ net'[c].link # "fresh" /\ (Reads(c)' <=> Reads(c))
      /\ (Writes(c)' <=> Writes(c)) /\ (Connects(c)' <=> Connects(c)) /\ conn'[c] = k
  BY <1>1, <1>5 DEF Reads, Writes, Connects, Open, WritesFrom, KeepsLink
<1>7. (RWorks(c)' => RWorks(c)) /\ (WWorks(c)' => WWorks(c))
  BY <1>1, <1>2, KeepsStatusFacts DEF RWorks, WWorks
<1>8. WaitInv(c)'
  <2>1. Answer(k, k.readType, k.rbytes) = Answer(conn[c], conn[c].readType, conn[c].rbytes)
    BY DEF Answer, WritesFrom
  <2> QED  BY <1>1, <1>6, <2>1 DEF WaitInv, ConnInv, WritesFrom
<1>9. ConnInv(c)'
  BY <1>1, <1>2, <1>5, <1>6, <1>7, <1>8, KeepsStatusFacts
     DEF ConnInv, QuietInv, TimerInv, WorkInv, OwedInv, CallbackInv, HeldInv, MaskInv, WritesFrom
<1>10. Ended(c)' <=> Ended(c)
  BY <1>6 DEF Ended
<1>11. SameView(c)
  BY <1>1, <1>2, <1>5, <1>6, <1>10, KeepsStatusFacts, PartsStay
<1>12. Silent
  BY <1>4, <1>11, TurnsBack DEF Silent, Runs, loopVars, threadVars
<1> QED  BY <1>1, <1>2, <1>3, <1>4, <1>9, <1>12, KeepsStatusFacts, OneMoves

\* The timeout, the errors, the end and the partial write of writeNormal.
LEMMA writeNormalStep ==
  ASSUME IInv, NEW c \in Conns, writeNormal(c)
  PROVE  IInv' /\ (WriteReturns(c) \/ Silent)
<1> DEFINE o == conn[c]
<1>1. o \in ConnState /\ TypeInv /\ net \in [Conns -> NetState] /\ net[c] \in NetState
  BY DEF IInv, TypeInv
<1>2. Runs(writeTask(c)) /\ UNCHANGED loopVars
  BY DEF writeNormal
<1>3. UNCHANGED net => KeepsLink(c)
  BY <1>1 DEF KeepsLink
<1>4. \A k : (\/ k = [o EXCEPT !.WriteTimeout = 1]
              \/ k = [o EXCEPT !.Closed = 1]
              \/ k = [o EXCEPT !.Error = 1]) => WritesFrom(c, k)
  <2> SUFFICES ASSUME NEW k, \/ k = [o EXCEPT !.WriteTimeout = 1]
                             \/ k = [o EXCEPT !.Closed = 1]
                             \/ k = [o EXCEPT !.Error = 1]
               PROVE  WritesFrom(c, k)
    OBVIOUS
  <2>1. k \in ConnState
    BY <1>1, RecordUpdates
  <2>2. /\ k.readType = o.readType /\ k.writeType = o.writeType /\ k.handler = o.handler
        /\ k.rbytes = o.rbytes /\ k.readExpireTime = o.readExpireTime
        /\ k.writeExpireTime = o.writeExpireTime /\ k.got = o.got /\ k.taken = o.taken
        /\ (o.Closed = 1 \/ o.Error = 1) => (k.Closed = 1 \/ k.Error = 1)
    BY <1>1 DEF ConnState
  <2> QED  BY <2>1, <2>2 DEF WritesFrom, Ended
<1>5. CASE /\ \/ WriteEnds(c, [o EXCEPT !.WriteTimeout = 1])
              \/ WriteEnds(c, [o EXCEPT !.Closed = 1])
              \/ WriteEnds(c, [o EXCEPT !.Error = 1])
           /\ UNCHANGED net
  BY <1>2, <1>3, <1>4, <1>5, WriteEndsStep
<1>6. CASE /\ \E res \in 1 .. o.writeBuffer :
                LET k == [o EXCEPT !.writeBuffer = @ - res]
                IN  IF WriteDone(k)
                    THEN WriteEnds(c, k)
                    ELSE /\ conn' = [conn EXCEPT ![c] = k]
                         /\ frame' = "return"
                         /\ UNCHANGED <<sched, epoll, req>>
           /\ \E room \in {FALSE, conn'[c].writeBuffer = 0} :
                net' = [net EXCEPT ![c].room = room]
  <2>1. PICK res \in 1 .. o.writeBuffer :
          LET k == [o EXCEPT !.writeBuffer = @ - res]
          IN  IF WriteDone(k)
              THEN WriteEnds(c, k)
              ELSE /\ conn' = [conn EXCEPT ![c] = k]
                   /\ frame' = "return"
                   /\ UNCHANGED <<sched, epoll, req>>
    BY <1>6
  <2>2. PICK room \in BOOLEAN : net' = [net EXCEPT ![c].room = room]
    BY <1>6
  <2> DEFINE n == [net[c] EXCEPT !.room = room]
             k == [o EXCEPT !.writeBuffer = @ - res]
  <2>3. n \in NetState /\ n.link = net[c].link
    BY <1>1 DEF NetState
  <2>4. net' = [net EXCEPT ![c] = n]
    BY <2>2
  <2> HIDE DEF n
  <2>5. KeepsLink(c)
    BY <1>1, <2>3, <2>4 DEF KeepsLink
  <2>6. o.writeBuffer - res \in Nat
    BY <1>1 DEF ConnState
  <2>7. k \in ConnState
    BY <1>1, <2>6, RecordUpdates
  <2>8. /\ k.readType = o.readType /\ k.writeType = o.writeType /\ k.handler = o.handler
        /\ k.rbytes = o.rbytes /\ k.readExpireTime = o.readExpireTime
        /\ k.writeExpireTime = o.writeExpireTime /\ k.got = o.got /\ k.taken = o.taken
        /\ k.Closed = o.Closed /\ k.Error = o.Error
    BY <1>1 DEF ConnState
  <2>9. WritesFrom(c, k)
    BY <2>7, <2>8 DEF WritesFrom, Ended
  <2>10. \/ WriteEnds(c, k)
         \/ /\ conn' = [conn EXCEPT ![c] = k] /\ frame' = "return"
            /\ UNCHANGED <<sched, epoll, req>>
    BY <2>1
  <2> HIDE DEF k
  <2> QED  BY <1>2, <2>5, <2>8, <2>9, <2>10, WriteEndsStep, WriteGoesOn
<1> QED  BY <1>5, <1>6 DEF writeNormal

-----------------------------------------------------------------------------
(* The main loop                                                            *)

\* Steps that change nothing the connections are made of.
LEMMA NothingMoves ==
  ASSUME IInv, TaskInv', UNCHANGED <<sched, epoll, conn, net, req>>,
         events' \in [Conns -> SUBSET {SPE_EPOLL_READ, SPE_EPOLL_WRITE}],
         frame' \in {"none", "polled"}
  PROVE  IInv' /\ Stays
<1>1. TypeInv'
  BY DEF IInv, TypeInv
<1>2. \A d \in Conns : ConnInv(d)'
  BY Untouched DEF IInv, SameRequests, SameLink
<1>3. \A d \in Conns : SameView(d)
  BY PartsStay DEF Open, Ended, Reads, Writes, Connects, RCStatus, WCStatus
<1> QED  BY <1>1, <1>2, <1>3, NothingSeen DEF IInv

\* epoll_wait returns, with events or interrupted.
LEMMA PollStep ==
  ASSUME IInv, EpollReports \/ EpollInterrupted
  PROVE  IInv' /\ Stays
<1>1. /\ UNCHANGED <<sched, threadVars, epoll, conn, net, req>> /\ frame' = "polled"
      /\ events' = events \/ events' = [c \in Conns |-> KernelReady(c) \cap epoll[c].mask]
  BY DEF EpollReports, EpollInterrupted, connVars, loopVars
<1>2. TaskInv'
  BY <1>1, TaskStays DEF IInv
<1>3. events' \in [Conns -> SUBSET {SPE_EPOLL_READ, SPE_EPOLL_WRITE}]
  <2>1. \A c \in Conns : KernelReady(c) \subseteq {SPE_EPOLL_READ, SPE_EPOLL_WRITE}
    BY DEF KernelReady
  <2> QED  BY <1>1, <2>1 DEF IInv, TypeInv
<1> QED  BY <1>1, <1>2, <1>3, NothingMoves

\* taskProcess is entered.
LEMMA BeginStep ==
  ASSUME IInv, BeginTaskProcess
  PROVE  IInv' /\ Stays
<1>1. /\ UNCHANGED <<sched, clock, running, events, epoll, conn, net, req>> /\ frame' = "none"
      /\ pc = "poll" /\ pc' \in {"timers", "run"} /\ curr_time' \in {curr_time, clock}
  BY DEF BeginTaskProcess, Task!BeginTaskProcess, connVars
<1>2. TaskInv'
  BY <1>1 DEF IInv, TaskInv
<1> QED  BY <1>1, <1>2, NothingMoves DEF IInv, TypeInv

\* A timer or an event puts bodies of c into the queue whose requests wait.
Kicked(c) ==
  /\ SchedInv(sched')
  /\ \A u \in ConnTasks \ {readTask(c), writeTask(c)} : sched'.status[u] = sched.status[u]
  /\ \/ RStatus(c)' = RStatus(c)
     \/ RStatus(c)' = SPE_TASK_QUEUE /\ RStatus(c) # SPE_TASK_RUN /\ Reads(c)
  /\ \/ WStatus(c)' = WStatus(c)
     \/ /\ WStatus(c)' = SPE_TASK_QUEUE /\ WStatus(c) # SPE_TASK_RUN
        /\ Writes(c) /\ ~ Connects(c)

\* Queueing the bodies of requests that wait keeps IInv.
LEMMA KickedStep ==
  ASSUME IInv, NEW c \in Conns, Kicked(c), UNCHANGED <<threadVars, frame, connVars>>,
         events' \in [Conns -> SUBSET {SPE_EPOLL_READ, SPE_EPOLL_WRITE}]
  PROVE  IInv' /\ Stays
<1>1. UNCHANGED <<running, epoll, conn, net, req>>
  BY DEF threadVars, connVars
<1>2. \A u \in ConnTasks : sched'.status[u] = SPE_TASK_RUN <=> sched.status[u] = SPE_TASK_RUN
  BY DEF Kicked, RStatus, WStatus, SPE_TASK_RUN, SPE_TASK_QUEUE
<1>3. TaskInv'
  BY <1>2, CallKeepsTask DEF Kicked, IInv
<1>4. TypeInv'
  BY <1>1 DEF IInv, TypeInv
<1>5. OnlyMoves(c)
  BY <1>1 DEF OnlyMoves, Kicked, Four
<1>6. RCStatus(c)' = RCStatus(c) /\ WCStatus(c)' = WCStatus(c)
  BY FourAreTasks, FourDiffer DEF Four, Kicked, RCStatus, WCStatus
<1>7. /\ (Open(c)' <=> Open(c)) /\ (Reads(c)' <=> Reads(c)) /\ (Writes(c)' <=> Writes(c))
      /\ (Connects(c)' <=> Connects(c))
  BY <1>1 DEF Open, Reads, Writes, Connects
<1>8. /\ RWorks(c)' => Reads(c)
      /\ WWorks(c)' => Writes(c) /\ ~ Connects(c)
  BY <1>1 DEF RWorks, WWorks, Kicked, IInv, ConnInv, WorkInv
<1>9. /\ RStatus(c)' = SPE_TASK_TIMER => RStatus(c) = SPE_TASK_TIMER
      /\ WStatus(c)' = SPE_TASK_TIMER => WStatus(c) = SPE_TASK_TIMER
  BY DEF Kicked, SPE_TASK_TIMER, SPE_TASK_QUEUE
<1>10. WaitInv(c)'
  BY <1>1, <1>7 DEF IInv, ConnInv, WaitInv, Answer
<1>11. ConnInv(c)'
  BY <1>1, <1>6, <1>7, <1>8, <1>9, <1>10
     DEF IInv, ConnInv, QuietInv, TimerInv, WorkInv, OwedInv, CallbackInv, HeldInv, MaskInv
<1>12. SameView(c)
  BY <1>1, <1>6, <1>7, PartsStay DEF Ended
<1>13. Stays
  BY <1>5, <1>12, TurnsBack
<1> QED  BY <1>3, <1>4, <1>5, <1>11, <1>13, OneMoves

\* SpeTaskEnqueue changes the state of its task only, and only if it is idle
\* or armed.
LEMMA EnqueueAt ==
  ASSUME NEW s, SchedInv(s), NEW t \in ConnTasks
  PROVE  /\ SchedInv(SpeTaskEnqueue(s, t))
         /\ \A u \in ConnTasks \ {t} : SpeTaskEnqueue(s, t).status[u] = s.status[u]
         /\ \/ SpeTaskEnqueue(s, t).status[t] = s.status[t]
            \/ /\ SpeTaskEnqueue(s, t).status[t] = SPE_TASK_QUEUE
               /\ s.status[t] # SPE_TASK_RUN
BY EnqueueFacts, StatusOfSched
   DEF Accepts, SPE_TASK_FREE, SPE_TASK_TIMER, SPE_TASK_QUEUE, SPE_TASK_RUN

\* An event queues the task the table names, which is that of the request.
LEMMA DispatchStep ==
  ASSUME IInv, NEW c \in Conns, EpollDispatches(c)
  PROVE  IInv' /\ Stays
<1> DEFINE e == epoll[c]
           hit == events[c] \cap e.mask
           r == IF SPE_EPOLL_READ \in hit THEN SpeTaskEnqueue(sched, e.readTask) ELSE sched
           w == IF SPE_EPOLL_WRITE \in hit THEN SpeTaskEnqueue(r, e.writeTask) ELSE r
<1>1. /\ sched' = w /\ UNCHANGED <<threadVars, frame, connVars>>
      /\ events' = [events EXCEPT ![c] = {}]
  BY DEF EpollDispatches, DispatchEvent
<1>2. SchedInv(sched) /\ MaskInv(c) /\ readTask(c) \in ConnTasks /\ writeTask(c) \in ConnTasks
      /\ readTask(c) # writeTask(c)
  BY FourAreTasks, FourDiffer DEF IInv, TaskInv, ConnInv, Four
<1>3. /\ SPE_EPOLL_READ \in hit => Reads(c) /\ e.readTask = readTask(c)
      /\ SPE_EPOLL_WRITE \in hit =>
           /\ Writes(c)
           /\ e.writeTask = IF Connects(c) THEN readTask(c) ELSE writeTask(c)
           /\ Connects(c) => Reads(c)
  BY <1>2 DEF MaskInv, Writes, Reads, Connects
<1> HIDE DEF hit, e
<1>4. /\ SchedInv(r)
      /\ \A u \in ConnTasks \ {readTask(c)} : r.status[u] = sched.status[u]
      /\ \/ r.status[readTask(c)] = sched.status[readTask(c)]
         \/ /\ r.status[readTask(c)] = SPE_TASK_QUEUE
            /\ sched.status[readTask(c)] # SPE_TASK_RUN /\ Reads(c)
  BY <1>2, <1>3, EnqueueAt
<1> HIDE DEF r
<1>5. CASE SPE_EPOLL_WRITE \notin hit
  <2>1. Kicked(c)
    BY <1>1, <1>2, <1>4, <1>5 DEF Kicked, RStatus, WStatus
  <2> QED  BY <1>1, <2>1, KickedStep DEF IInv, TypeInv
<1>6. CASE SPE_EPOLL_WRITE \in hit /\ Connects(c)
  <2>1. w = SpeTaskEnqueue(r, readTask(c)) /\ Reads(c)
    BY <1>3, <1>6
  <2>2. /\ SchedInv(w)
        /\ \A u \in ConnTasks \ {readTask(c)} : w.status[u] = r.status[u]
        /\ \/ w.status[readTask(c)] = r.status[readTask(c)]
           \/ w.status[readTask(c)] = SPE_TASK_QUEUE /\ r.status[readTask(c)] # SPE_TASK_RUN
    BY <1>2, <1>4, <2>1, EnqueueAt
  <2>3. Kicked(c)
    BY <1>1, <1>2, <1>4, <2>1, <2>2 DEF Kicked, RStatus, WStatus
  <2> QED  BY <1>1, <2>3, KickedStep DEF IInv, TypeInv
<1>7. CASE SPE_EPOLL_WRITE \in hit /\ ~ Connects(c)
  <2>1. w = SpeTaskEnqueue(r, writeTask(c)) /\ Writes(c)
    BY <1>3, <1>7
  <2>2. /\ SchedInv(w)
        /\ \A u \in ConnTasks \ {writeTask(c)} : w.status[u] = r.status[u]
        /\ \/ w.status[writeTask(c)] = r.status[writeTask(c)]
           \/ w.status[writeTask(c)] = SPE_TASK_QUEUE /\ r.status[writeTask(c)] # SPE_TASK_RUN
    BY <1>2, <1>4, <2>1, EnqueueAt
  <2>3. Kicked(c)
    BY <1>1, <1>2, <1>4, <1>7, <2>1, <2>2 DEF Kicked, RStatus, WStatus
  <2> QED  BY <1>1, <2>3, KickedStep DEF IInv, TypeInv
<1> QED  BY <1>5, <1>6, <1>7

\* An expired timer is that of a request that waits.
LEMMA FireStep ==
  ASSUME IInv, Task!FireTimer, UNCHANGED <<frame, events, connVars>>
  PROVE  IInv' /\ Stays
<1> DEFINE h == Head(sched.timer_head)
<1>1. SchedInv(sched) /\ sched' = Task!FireFirst(sched) /\ UNCHANGED threadVars
  BY DEF IInv, TaskInv, Task!FireTimer, threadVars
<1>2. sched.timer_head # << >>
  BY DEF Task!FireTimer, Task!TimerDue
<1>3. /\ SchedInv(sched') /\ h \in ConnTasks /\ sched.status[h] = SPE_TASK_TIMER
      /\ sched'.status = [sched.status EXCEPT ![h] = SPE_TASK_QUEUE]
  BY <1>1, <1>2, FireFirstFacts
<1>4. /\ \A u \in ConnTasks \ {h} : sched'.status[u] = sched.status[u]
      /\ sched'.status[h] = SPE_TASK_QUEUE
  BY <1>1, <1>3, StatusOfSched
<1> HIDE DEF h
<1>5. PICK c \in Conns : h \in Four(c)
  BY <1>3, FourAreTasks
<1>6. \/ h = readTask(c) /\ Reads(c)
      \/ h = writeTask(c) /\ Writes(c) /\ ~ Connects(c)
  <2>1. TimerInv(c)
    BY DEF IInv, ConnInv
  <2>2. h \notin {ReadCallback(c), WriteCallback(c)}
    BY <1>3, <2>1 DEF TimerInv, RCStatus, WCStatus
  <2>3. h \in {readTask(c), writeTask(c)}
    BY <1>5, <2>2 DEF Four
  <2> QED  BY <1>3, <2>1, <2>3 DEF TimerInv, RStatus, WStatus
<1>7. readTask(c) \in ConnTasks /\ writeTask(c) \in ConnTasks /\ readTask(c) # writeTask(c)
  BY FourAreTasks, FourDiffer DEF Four
<1>8. Kicked(c)
  BY <1>3, <1>4, <1>6, <1>7 DEF Kicked, RStatus, WStatus, SPE_TASK_TIMER, SPE_TASK_RUN
<1> QED  BY <1>1, <1>8, KickedStep DEF IInv, TypeInv

\* The timer loop of taskProcess, and its end.
LEMMA TaskProcessStep ==
  ASSUME IInv, TaskProcess
  PROVE  IInv' /\ Stays
<1>1. UNCHANGED <<frame, events, connVars>>
  BY DEF TaskProcess
<1>2. CASE Task!TimersDone \/ Task!EndTaskProcess
  <2>1. /\ UNCHANGED <<sched, clock, running>> /\ pc \in {"timers", "run"}
        /\ pc' \in {"poll", "run"} /\ curr_time' \in {curr_time, 0}
    BY <1>2 DEF Task!TimersDone, Task!EndTaskProcess
  <2>2. TaskInv'
    BY <2>1 DEF IInv, TaskInv
  <2>3. TypeInv'
    BY <1>1 DEF IInv, TypeInv, connVars
  <2>4. \A d \in Conns : ConnInv(d)'
    BY <1>1, <2>1, Untouched DEF IInv, SameRequests, SameLink, connVars
  <2>5. \A d \in Conns : SameView(d)
    BY <1>1, <2>1, PartsStay DEF Open, Ended, Reads, Writes, Connects, RCStatus, WCStatus, connVars
  <2>6. Stays
    BY <2>5, NothingSeen
  <2> QED  BY <2>2, <2>3, <2>4, <2>6 DEF IInv
<1> QED  BY <1>1, <1>2, FireStep DEF TaskProcess

\* A queued callback is entered, of the program's or of spe_conn.c.
ReadCalls(c) ==
  /\ running' = ReadCallback(c) /\ frame' = "user" /\ Open(c) /\ ReadPart(c) = "queued"
  /\ Turns(c, Ended(c), "none", WritePart(c))

WriteCalls(c) ==
  /\ running' = WriteCallback(c) /\ frame' = "user" /\ Open(c) /\ WritePart(c) = "queued"
  /\ Turns(c, Ended(c), ReadPart(c), "none")

\* The task at the head of the queue starts: a body of a request that waits,
\* or the callback of one that was answered.
LEMMA RunStep ==
  ASSUME IInv, RunTask
  PROVE  /\ IInv' /\ running = NoTask
         /\ \/ frame' = "body" /\ Stays
            \/ \E c \in Conns : ReadCalls(c) \/ WriteCalls(c)
<1> DEFINE h == Head(sched.task_head)
<1>1. /\ TaskInv /\ TypeInv /\ SchedInv(sched)
      /\ pc = "run" /\ sched.gTaskNum # 0 /\ running' = h /\ sched' = Task!RunFirst(sched)
      /\ pc' = "handler" /\ UNCHANGED <<clock, curr_time, events, epoll, conn, net>>
  BY DEF IInv, TaskInv, RunTask, Task!RunTask
<1>2. /\ SchedInv(sched') /\ h \in ConnTasks /\ sched.status[h] = SPE_TASK_QUEUE
      /\ sched'.status = [sched.status EXCEPT ![h] = SPE_TASK_RUN]
  BY <1>1, RunFirstFacts
<1>3. /\ \A u \in ConnTasks \ {h} : sched'.status[u] = sched.status[u]
      /\ sched'.status[h] = SPE_TASK_RUN
  BY <1>1, <1>2, StatusOfSched
<1> HIDE DEF h
<1>4. TaskInv' /\ running = NoTask
  <2>1. running = NoTask /\ \A u \in ConnTasks : sched.status[u] # SPE_TASK_RUN
    BY <1>1, NoTaskAssumption DEF TaskInv
  <2> QED  BY <1>1, <1>2, <1>3, <2>1, NoTaskAssumption DEF TaskInv
<1>5. PICK c \in Conns :
        \/ /\ running' \in {readTask(c), writeTask(c)}
           /\ frame' = "body"
           /\ UNCHANGED req
        \/ /\ running' = ReadCallback(c)
           /\ EnterCallback(c, "read")
        \/ /\ running' = WriteCallback(c)
           /\ EnterCallback(c, "write")
  BY DEF RunTask
<1>6. h \in Four(c) /\ Four(c) \subseteq ConnTasks /\ ConnInv(c)
  BY <1>1, <1>5, FourAreTasks DEF Four, IInv
<1>7. /\ h = readTask(c) <=> RStatus(c)' = SPE_TASK_RUN
      /\ h = writeTask(c) <=> WStatus(c)' = SPE_TASK_RUN
      /\ h = ReadCallback(c) <=> RCStatus(c)' = SPE_TASK_RUN
      /\ h = WriteCallback(c) <=> WCStatus(c)' = SPE_TASK_RUN
  BY <1>1, <1>4, <1>6, FourDiffer DEF TaskInv, Four, RStatus, WStatus, RCStatus, WCStatus
<1>8. /\ h # readTask(c) => RStatus(c)' = RStatus(c)
      /\ h # writeTask(c) => WStatus(c)' = WStatus(c)
      /\ h # ReadCallback(c) => RCStatus(c)' = RCStatus(c)
      /\ h # WriteCallback(c) => WCStatus(c)' = WCStatus(c)
      /\ h = readTask(c) => RStatus(c) = SPE_TASK_QUEUE
      /\ h = writeTask(c) => WStatus(c) = SPE_TASK_QUEUE
      /\ h = ReadCallback(c) => RCStatus(c) = SPE_TASK_QUEUE
      /\ h = WriteCallback(c) => WCStatus(c) = SPE_TASK_QUEUE
  BY <1>2, <1>3, <1>6 DEF Four, RStatus, WStatus, RCStatus, WCStatus
<1>9. /\ (Open(c)' <=> Open(c)) /\ (Reads(c)' <=> Reads(c)) /\ (Writes(c)' <=> Writes(c))
      /\ (Connects(c)' <=> Connects(c)) /\ (WaitInv(c)' <=> WaitInv(c))
  BY <1>1 DEF Open, Reads, Writes, Connects, WaitInv, Answer
<1>10. Ended(c)' <=> Ended(c)
  BY <1>1 DEF Ended
<1>11. CASE running' \in {readTask(c), writeTask(c)} /\ frame' = "body" /\ UNCHANGED req
  <2>1. TypeInv'
    BY <1>1, <1>11 DEF TypeInv
  <2>2. OnlyMoves(c)
    BY <1>1, <1>3, <1>6, <1>11 DEF OnlyMoves
  <2>3. /\ RWorks(c)' => RWorks(c)
        /\ WWorks(c)' => WWorks(c)
    BY <1>1, <1>8 DEF RWorks, WWorks
  <2>4. h \in {readTask(c), writeTask(c)} /\ RCStatus(c)' = RCStatus(c) /\ WCStatus(c)' = WCStatus(c)
    BY <1>1, <1>8, <1>11, FourDiffer
  <2>5. /\ RStatus(c)' = SPE_TASK_TIMER => RStatus(c) = SPE_TASK_TIMER
        /\ WStatus(c)' = SPE_TASK_TIMER => WStatus(c) = SPE_TASK_TIMER
    BY <1>7, <1>8 DEF SPE_TASK_RUN, SPE_TASK_TIMER
  <2>6. ConnInv(c)'
    BY <1>1, <1>6, <1>9, <1>11, <2>3, <2>4, <2>5
       DEF ConnInv, QuietInv, TimerInv, WorkInv, OwedInv, CallbackInv, HeldInv, MaskInv
  <2>7. SameView(c)
    BY <1>9, <1>10, <2>4, PartsStay
  <2>8. Stays
    BY <2>2, <2>7, TurnsBack
  <2> QED  BY <1>4, <1>11, <2>1, <2>2, <2>6, <2>8, OneMoves
<1>12. CASE running' = ReadCallback(c) /\ EnterCallback(c, "read")
  <2>1. /\ req' \in [Conns -> [read : ReqState, write : ReqState]] /\ frame' = "user"
        /\ ~ req'[c].read.owed /\ req'[c].write = req[c].write
        /\ \A d \in Conns \ {c} : req'[d] = req[d]
    BY <1>1, <1>12, EnterFacts
  <2>2. TypeInv'
    BY <1>1, <2>1 DEF TypeInv
  <2>3. OnlyMoves(c)
    BY <1>1, <1>3, <1>6, <2>1 DEF OnlyMoves
  <2>4. h = ReadCallback(c) /\ RStatus(c)' = RStatus(c) /\ WStatus(c)' = WStatus(c)
        /\ WCStatus(c)' = WCStatus(c) /\ RCStatus(c)' = SPE_TASK_RUN /\ RCStatus(c) = SPE_TASK_QUEUE
    BY <1>1, <1>7, <1>8, <1>12, FourDiffer
  <2>5. (RWorks(c)' => RWorks(c)) /\ (WWorks(c)' => WWorks(c))
    BY <2>1, <2>4 DEF RWorks, WWorks
  <2>6. ~ Reads(c) /\ Open(c)
    BY <1>6, <2>4 DEF ConnInv, CallbackInv
  <2>7. RCStatus(c)' \notin {SPE_TASK_TIMER, SPE_TASK_QUEUE}
    BY <2>4 DEF SPE_TASK_RUN, SPE_TASK_TIMER, SPE_TASK_QUEUE
  <2>8. ConnInv(c)'
    BY <1>1, <1>6, <1>9, <2>1, <2>4, <2>5, <2>6, <2>7
       DEF ConnInv, QuietInv, TimerInv, WorkInv, OwedInv, CallbackInv, HeldInv, MaskInv
  <2>9. ~ Connects(c)
    BY <2>6 DEF Reads, Connects
  <2>10. /\ ReadPart(c) = "queued" /\ ReadPart(c)' = "none" /\ WritePart(c)' = WritePart(c)
    BY <1>9, <2>4, <2>6, <2>7, <2>9, Parts, PartsAfter
  <2>11. ReadCalls(c)
    BY <1>9, <1>12, <1>10, <2>1, <2>3, <2>6, <2>10 DEF ReadCalls, Turns
  <2> QED  BY <1>4, <2>2, <2>3, <2>8, <2>11, OneMoves
<1>13. CASE running' = WriteCallback(c) /\ EnterCallback(c, "write")
  <2>1. /\ req' \in [Conns -> [read : ReqState, write : ReqState]] /\ frame' = "user"
        /\ ~ req'[c].write.owed /\ req'[c].read = req[c].read
        /\ \A d \in Conns \ {c} : req'[d] = req[d]
    BY <1>1, <1>13, EnterFacts
  <2>2. TypeInv'
    BY <1>1, <2>1 DEF TypeInv
  <2>3. OnlyMoves(c)
    BY <1>1, <1>3, <1>6, <2>1 DEF OnlyMoves
  <2>4. h = WriteCallback(c) /\ RStatus(c)' = RStatus(c) /\ WStatus(c)' = WStatus(c)
        /\ RCStatus(c)' = RCStatus(c) /\ WCStatus(c)' = SPE_TASK_RUN /\ WCStatus(c) = SPE_TASK_QUEUE
    BY <1>1, <1>7, <1>8, <1>13, FourDiffer
  <2>5. (RWorks(c)' => RWorks(c)) /\ (WWorks(c)' => WWorks(c))
    BY <2>1, <2>4 DEF RWorks, WWorks
  <2>6. ~ Writes(c) /\ Open(c)
    BY <1>6, <2>4 DEF ConnInv, CallbackInv
  <2>7. WCStatus(c)' \notin {SPE_TASK_TIMER, SPE_TASK_QUEUE}
    BY <2>4 DEF SPE_TASK_RUN, SPE_TASK_TIMER, SPE_TASK_QUEUE
  <2>8. ConnInv(c)'
    BY <1>1, <1>6, <1>9, <2>1, <2>4, <2>5, <2>6, <2>7
       DEF ConnInv, QuietInv, TimerInv, WorkInv, OwedInv, CallbackInv, HeldInv, MaskInv
  <2>9. ~ Connects(c)
    BY <1>6, <2>6 DEF ConnInv, OwedInv
  <2>10. /\ WritePart(c) = "queued" /\ WritePart(c)' = "none" /\ ReadPart(c)' = ReadPart(c)
    BY <1>9, <2>4, <2>6, <2>7, <2>9, Parts, PartsAfter
  <2>11. WriteCalls(c)
    BY <1>9, <1>13, <1>10, <2>1, <2>3, <2>6, <2>10 DEF WriteCalls, Turns
  <2> QED  BY <1>4, <2>2, <2>3, <2>8, <2>11, OneMoves
<1> QED  BY <1>5, <1>11, <1>12, <1>13

\* A handler returns, and its task is free.
LEMMA ReturnStep ==
  ASSUME IInv, HandlerReturn
  PROVE  IInv' /\ Stays
<1>1. /\ TaskInv /\ TypeInv /\ SchedInv(sched)
      /\ pc = "handler" /\ sched' = Task!Release(sched, running) /\ running' = NoTask
      /\ pc' = "run" /\ frame' = "none"
      /\ UNCHANGED <<clock, curr_time, events, epoll, conn, net, req>>
  BY DEF IInv, TaskInv, HandlerReturn, Task!HandlerReturn, connVars
<1>2. running \in ConnTasks /\ sched.status[running] = SPE_TASK_RUN
  BY <1>1 DEF TaskInv
<1>3. /\ SchedInv(sched')
      /\ sched'.status = [sched.status EXCEPT ![running] = SPE_TASK_FREE]
  BY <1>1, <1>2, ReleaseFacts
<1>4. /\ \A u \in ConnTasks \ {running} : sched'.status[u] = sched.status[u]
      /\ sched'.status[running] = SPE_TASK_FREE
  BY <1>1, <1>2, <1>3, StatusOfSched
<1>5. TaskInv'
  BY <1>1, <1>2, <1>3, <1>4, NoTaskAssumption DEF TaskInv, SPE_TASK_FREE, SPE_TASK_RUN
<1>6. PICK c \in Conns : running \in Four(c)
  BY <1>2, FourAreTasks
<1>7. TypeInv'
  BY <1>1 DEF TypeInv
<1>8. OnlyMoves(c)
  BY <1>1, <1>4, <1>6 DEF OnlyMoves
<1>9. \A u \in ConnTasks : /\ sched'.status[u] = SPE_TASK_TIMER <=> sched.status[u] = SPE_TASK_TIMER
                           /\ sched'.status[u] = SPE_TASK_QUEUE <=> sched.status[u] = SPE_TASK_QUEUE
  BY <1>2, <1>4 DEF SPE_TASK_FREE, SPE_TASK_TIMER, SPE_TASK_QUEUE, SPE_TASK_RUN
<1>10. /\ RStatus(c)' = SPE_TASK_TIMER <=> RStatus(c) = SPE_TASK_TIMER
       /\ WStatus(c)' = SPE_TASK_TIMER <=> WStatus(c) = SPE_TASK_TIMER
       /\ RCStatus(c)' = SPE_TASK_TIMER <=> RCStatus(c) = SPE_TASK_TIMER
       /\ WCStatus(c)' = SPE_TASK_TIMER <=> WCStatus(c) = SPE_TASK_TIMER
       /\ RStatus(c)' = SPE_TASK_QUEUE <=> RStatus(c) = SPE_TASK_QUEUE
       /\ WStatus(c)' = SPE_TASK_QUEUE <=> WStatus(c) = SPE_TASK_QUEUE
       /\ RCStatus(c)' = SPE_TASK_QUEUE <=> RCStatus(c) = SPE_TASK_QUEUE
       /\ WCStatus(c)' = SPE_TASK_QUEUE <=> WCStatus(c) = SPE_TASK_QUEUE
  BY <1>9, FourAreTasks DEF Four, RStatus, WStatus, RCStatus, WCStatus
<1>11. /\ (Open(c)' <=> Open(c)) /\ (Reads(c)' <=> Reads(c)) /\ (Writes(c)' <=> Writes(c))
       /\ (Connects(c)' <=> Connects(c)) /\ (WaitInv(c)' <=> WaitInv(c))
  BY <1>1 DEF Open, Reads, Writes, Connects, WaitInv, Answer
<1>12. (RWorks(c)' => RWorks(c)) /\ (WWorks(c)' => WWorks(c))
  BY <1>1, <1>10 DEF RWorks, WWorks
<1>13. ConnInv(c)'
  BY <1>1, <1>10, <1>11, <1>12
     DEF IInv, ConnInv, QuietInv, TimerInv, WorkInv, OwedInv, CallbackInv, HeldInv, MaskInv
<1>14. SameView(c)
  BY <1>1, <1>10, <1>11, PartsStay DEF Ended
<1>15. Stays
  BY <1>8, <1>14, TurnsBack
<1> QED  BY <1>5, <1>7, <1>8, <1>13, <1>15, OneMoves

\* Every step keeps IInv.
LEMMA NextStep == IInv /\ [Next]_vars => IInv'
<1> SUFFICES ASSUME IInv, [Next]_vars PROVE IInv'
  OBVIOUS
<1>1. ASSUME NEW c \in Conns, Api(c) PROVE IInv'
  BY <1>1, CreateStep, ConnectStep, ReadStep, WriteStep, FlushStep, SetTimeoutStep, DestroyStep
     DEF Api
<1>2. ASSUME NEW c \in Conns, Peer(c) PROVE IInv'
  BY <1>2, PeerStep
<1>3. ASSUME NEW c \in Conns, Handlers(c) PROVE IInv'
  BY <1>3, connectNormalStep, readNormalStep, writeNormalStep DEF Handlers
<1>4. CASE Loop
  BY <1>3, <1>4, PollStep, DispatchStep, BeginStep, TaskProcessStep, RunStep, ReturnStep DEF Loop
<1>5. CASE Tick
  BY <1>5, TickStep
<1>6. CASE UNCHANGED vars
  <2>1. UNCHANGED <<sched, clock, curr_time, running, pc, frame, events, epoll, conn, net, req>>
    BY <1>6 DEF vars, loopVars, threadVars, connVars
  <2>2. TaskInv'
    BY <2>1 DEF IInv, TaskInv
  <2>3. TypeInv'
    BY <2>1 DEF IInv, TypeInv
  <2>4. \A d \in Conns : ConnInv(d)'
    BY <2>1, Untouched DEF IInv, SameRequests, SameLink
  <2> QED  BY <2>2, <2>3, <2>4 DEF IInv
<1> QED  BY <1>1, <1>2, <1>4, <1>5, <1>6 DEF Next

-----------------------------------------------------------------------------
(* The theorems                                                             *)

\* Every step of the program, the handlers, the loop, the kernel and the
\* peers keeps the connection, its four tasks, its entry in the event table
\* and the program's open requests in agreement.
THEOREM ConnInvariance == Spec => []IInv
<1>1. Init => IInv
  BY InitStep
<1>2. IInv /\ [Next]_vars => IInv'
  BY NextStep
<1> QED  BY <1>1, <1>2, PTL DEF Spec

\* The records of spe_conn.c, the event table and the scheduler keep their
\* types: no field leaves its range, no pointer of the table is wild.
THEOREM ConnTypeCorrect == Spec => []TypeOK
<1>1. IInv => TypeOK
  BY TaskParts DEF IInv, TypeInv, TypeOK, Task!IInv
<1> QED  BY <1>1, ConnInvariance, PTL

\* SchedulerIntact: the queue and the tree of spe_task.c stay exact under
\* all the connection layer does to its tasks.
THEOREM SchedulersIntact == Spec => []SchedulerIntact
<1>1. IInv => SchedulerIntact
  BY TaskParts DEF IInv, SchedulerIntact
<1> QED  BY <1>1, ConnInvariance, PTL

\* RequestIsHeld: no request whose callback was not refused is forgotten.
THEOREM RequestsAreHeld == Spec => []RequestIsHeld
<1>1. IInv => RequestIsHeld
  BY DEF IInv, ConnInv, HeldInv, RequestIsHeld, Reads, Writes, RCStatus, WCStatus
<1> QED  BY <1>1, ConnInvariance, PTL

\* MaskMatchesRequest: the kernel watches exactly the directions somebody
\* waits for, and the table points at the right task.
THEOREM MasksMatchRequests == Spec => []MaskMatchesRequest
<1>1. ASSUME IInv, NEW c \in Conns
      PROVE  /\ Open(c) =>
                  /\ SPE_EPOLL_READ \in epoll[c].mask <=> conn[c].readType # SPE_CONN_READNONE
                  /\ SPE_EPOLL_WRITE \in epoll[c].mask <=> conn[c].writeType # SPE_CONN_WRITENONE
             /\ ~ Open(c) => epoll[c].mask = {}
             /\ SPE_EPOLL_READ \in epoll[c].mask => epoll[c].readTask = readTask(c)
             /\ SPE_EPOLL_WRITE \in epoll[c].mask =>
                  epoll[c].writeTask = IF Connects(c) THEN readTask(c) ELSE writeTask(c)
  <2>1. MaskInv(c) /\ epoll[c].mask \subseteq {SPE_EPOLL_READ, SPE_EPOLL_WRITE}
    BY <1>1 DEF IInv, ConnInv, TypeInv, EpollTable
  <2> QED  BY <2>1 DEF MaskInv, Reads, Writes
<1>2. IInv => MaskMatchesRequest
  BY <1>1 DEF MaskMatchesRequest
<1> QED  BY <1>2, ConnInvariance, PTL

\* DestroyedIsQuiet: no task of a destroyed connection is queued or armed.
THEOREM DestroyedAreQuiet == Spec => []DestroyedIsQuiet
<1>1. ASSUME IInv, NEW c \in Conns, ~ Open(c), NEW t \in Four(c)
      PROVE  sched.status[t] \in {SPE_TASK_FREE, SPE_TASK_RUN}
  <2>1. ConnInv(c) /\ ~ Reads(c) /\ ~ Writes(c)
    BY <1>1 DEF IInv, Reads, Writes
  <2>2. sched.status[t] # SPE_TASK_TIMER /\ sched.status[t] # SPE_TASK_QUEUE
    BY <1>1, <2>1 DEF ConnInv, TimerInv, WorkInv, CallbackInv, RWorks, WWorks,
                      RStatus, WStatus, RCStatus, WCStatus, Four
  <2>3. sched.status[t] \in {SPE_TASK_FREE, SPE_TASK_TIMER, SPE_TASK_QUEUE, SPE_TASK_RUN}
    BY <1>1, FourAreTasks, StatusOfSched DEF IInv, TaskInv
  <2> QED  BY <2>2, <2>3
<1>2. IInv => DestroyedIsQuiet
  BY <1>1 DEF DestroyedIsQuiet, Four
<1> QED  BY <1>2, ConnInvariance, PTL

\* WaitNeedsMore: a read that waits cannot be answered from the buffer.
THEOREM WaitsNeedMore == Spec => []WaitNeedsMore
<1>1. IInv => WaitNeedsMore
  BY DEF IInv, ConnInv, WaitInv, WaitNeedsMore, Reads
<1> QED  BY <1>1, ConnInvariance, PTL

\* Only a body or a callback task enters a callback of the program.
LEMMA WhoCalls ==
  ASSUME IInv, [Next]_vars, frame # "user", frame' = "user"
  PROVE  \/ /\ frame = "body" /\ running' = running
            /\ \E d \in Conns : running \in {readTask(d), writeTask(d)}
         \/ RunTask
<1>1. ASSUME NEW d \in Conns, Api(d) \/ Peer(d) PROVE frame' = frame
  BY <1>1 DEF Api, Peer, SpeConnCreate, SpeConnConnect, SpeConnReaduntil, SpeConnReadbytes,
       SpeConnRead, Request, SpeConnWrite, SpeConnFlush, SpeConnSetTimeout, SpeConnDestroy,
       PeerSend, PeerDrains, PeerClose, PeerReset, ConnectDone, ConnectFails, NetStep
<1>2. ASSUME NEW d \in Conns, Handlers(d)
      PROVE  /\ frame = "body" /\ running' = running
             /\ running \in {readTask(d), writeTask(d)}
  BY <1>2 DEF Handlers, connectNormal, readNormal, writeNormal, Runs, loopVars, threadVars
<1>3. CASE Loop
  BY <1>2, <1>3 DEF Loop, EpollReports, EpollInterrupted, EpollDispatches, BeginTaskProcess,
                    TaskProcess, HandlerReturn
<1>4. CASE Tick \/ UNCHANGED vars
  BY <1>4 DEF Tick, vars
<1> QED  BY <1>1, <1>3, <1>4, SMTT(30) DEF Next

\* NoStrayCallback: a callback is called only for a request that is open, also
\* when the connection was destroyed and its slot is in use again.
THEOREM NoStrayCallbacks == Spec => NoStrayCallback
<1> DEFINE A == \A c \in Conns : \A dir \in {"read", "write"} :
                  Calls(c, dir) => req[c][dir].owed
<1>1. ASSUME IInv, [Next]_vars, NEW c \in Conns, NEW dir \in {"read", "write"}, Calls(c, dir)
      PROVE  req[c][dir].owed
  <2>1. ConnInv(c) /\ frame # "user" /\ frame' = "user"
    BY <1>1 DEF IInv, Calls
  <2>2. CASE frame = "body" /\ running' = running
             /\ \E d \in Conns : running \in {readTask(d), writeTask(d)}
    <3>1. \/ dir = "read" /\ running = readTask(c)
          \/ dir = "write" /\ running = writeTask(c)
      BY <1>1, <2>2, FourDiffer DEF Calls
    <3> QED  BY <1>1, <2>2, <3>1, ReadBody, WriteBody DEF Runs
  <2>3. CASE RunTask
    <3>1. sched.status[running'] = SPE_TASK_QUEUE
      BY <1>1, <2>3, RunFirstFacts DEF IInv, TaskInv, RunTask, Task!RunTask
    <3>2. running' \notin {readTask(c), writeTask(c)}
      <4>1. PICK d \in Conns : \/ running' \in {readTask(d), writeTask(d)} /\ frame' = "body"
                               \/ running' = ReadCallback(d)
                               \/ running' = WriteCallback(d)
        BY <2>3 DEF RunTask
      <4> QED  BY <2>1, <4>1, FourDiffer
    <3>3. \/ dir = "read" /\ running' = ReadCallback(c)
          \/ dir = "write" /\ running' = WriteCallback(c)
      BY <1>1, <3>2 DEF Calls
    <3> QED  BY <2>1, <3>1, <3>3 DEF ConnInv, CallbackInv, RCStatus, WCStatus
  <2> QED  BY <1>1, <2>1, <2>2, <2>3, WhoCalls
<1>2. IInv /\ [Next]_vars => [A]_vars
  BY <1>1
<1> HIDE DEF A
<1>3. Spec => [][A]_vars
  BY <1>2, ConnInvariance, PTL DEF Spec
<1> QED  BY <1>3 DEF A, NoStrayCallback

\* The request records an action leaves behind, as far as lost goes.
Refusals(c) ==
  /\ ~ req[c].read.lost /\ req'[c].read.lost =>
       ~ req[c].read.owed /\ ~ Accepts(sched, ReadCallback(c))
  /\ ~ req[c].write.lost /\ req'[c].write.lost =>
       ~ req[c].write.owed /\ ~ Accepts(sched, WriteCallback(c))

\* A request is marked lost when the enqueue of its callback was refused.
LEMMA IssueLost ==
  ASSUME TypeInv, NEW c \in Conns, NEW dir \in {"read", "write"}, NEW kind, NEW ms, NEW mark,
         NEW a \in BOOLEAN, Issue(c, dir, kind, a, ms, mark),
         ~ a => ~ req[c][dir].owed /\ ~ Accepts(sched, IF dir = "read" THEN ReadCallback(c)
                                                                      ELSE WriteCallback(c)),
         NEW d \in Conns
  PROVE  Refusals(d)
<1> DEFINE r == [kind |-> kind, owed |-> TRUE, lost |-> ~ a, mark |-> mark,
                 due |-> IF ms = 0 THEN Never ELSE clock + ms]
           q == req[c]
           q2 == [q EXCEPT ![dir] = r]
<1>1. req \in [Conns -> [read : ReqState, write : ReqState]] /\ q \in [read : ReqState, write : ReqState]
  BY DEF TypeInv
<1>2. req' = [req EXCEPT ![c] = q2] /\ r.lost = ~ a
  BY DEF Issue
<1> HIDE DEF r
<1>3. /\ dir = "read" => q2.read = r /\ q2.write = q.write
      /\ dir = "write" => q2.write = r /\ q2.read = q.read
      /\ dir = "read" => q[dir] = q.read
      /\ dir = "write" => q[dir] = q.write
  BY <1>1
<1> HIDE DEF q2
<1> QED  BY <1>1, <1>2, <1>3 DEF Refusals

\* The call of a callback marks no request lost.
LEMMA EnterLost ==
  ASSUME TypeInv, NEW c \in Conns, NEW dir \in {"read", "write"}, EnterCallback(c, dir),
         NEW d \in Conns
  PROVE  Refusals(d)
<1> DEFINE q == req[c]
           q2 == [q EXCEPT ![dir] = NoRequest]
<1>1. req \in [Conns -> [read : ReqState, write : ReqState]] /\ q \in [read : ReqState, write : ReqState]
  BY DEF TypeInv
<1>2. req' = [req EXCEPT ![c] = q2] /\ ~ NoRequest.lost
  BY DEF EnterCallback, NoRequest
<1>3. /\ dir = "read" => q2.read = NoRequest /\ q2.write = q.write
      /\ dir = "write" => q2.write = NoRequest /\ q2.read = q.read
  BY <1>1
<1> HIDE DEF q2
<1> QED  BY <1>1, <1>2, <1>3 DEF Refusals

\* In every step, a request becomes lost only by a refused enqueue.
LEMMA WhoIsRefused ==
  ASSUME IInv, [Next]_vars, NEW c \in Conns
  PROVE  Refusals(c)
<1>1. TypeInv /\ \A d \in Conns : ConnInv(d)
  BY DEF IInv
<1>2. ASSUME UNCHANGED req PROVE Refusals(c)
  BY <1>2 DEF Refusals
<1>3. ASSUME NEW d \in Conns, SpeConnConnect(d) PROVE Refusals(c)
  <2>1. net[d].link = "fresh" /\ ~ req[d].read.owed /\ req[d]["read"] = req[d].read
    BY <1>1, <1>3 DEF SpeConnConnect, ConnInv, QuietInv
  <2>2. CASE ConnectStarts(d)
    BY <1>1, <2>2, IssueLost DEF ConnectStarts
  <2>3. CASE ConnectReturns(d)
    BY <1>1, <2>1, <2>3, IssueLost DEF ConnectReturns, Accepts
  <2> QED  BY <1>3, <2>2, <2>3 DEF SpeConnConnect
<1>4. ASSUME NEW d \in Conns, NEW type, NEW n, Request(d, type, n) PROVE Refusals(c)
  <2>1. ~ req[d].read.owed
    BY <1>4 DEF Request
  <2>2. CASE ReadAnswered(d, type, n)
    BY <1>1, <2>1, <2>2, IssueLost DEF ReadAnswered, Accepts
  <2>3. CASE ReadWaits(d, type, n)
    BY <1>1, <2>3, IssueLost DEF ReadWaits
  <2> QED  BY <1>4, <2>2, <2>3 DEF Request
<1>5. ASSUME NEW d \in Conns, SpeConnFlush(d) PROVE Refusals(c)
  <2>1. ~ req[d].write.owed
    BY <1>5 DEF SpeConnFlush
  <2>2. CASE FlushNothing(d)
    BY <1>1, <2>1, <2>2, IssueLost DEF FlushNothing, Accepts
  <2>3. CASE FlushWaits(d)
    BY <1>1, <2>3, IssueLost DEF FlushWaits
  <2> QED  BY <1>5, <2>2, <2>3 DEF SpeConnFlush
<1>6. ASSUME NEW d \in Conns, SpeConnDestroy(d) PROVE Refusals(c)
  <2>1. /\ req' = [req EXCEPT ![d] = [read |-> NoRequest, write |-> NoRequest]]
        /\ ~ NoRequest.lost
    BY <1>6 DEF SpeConnDestroy, NoRequest
  <2> QED  BY <1>1, <2>1 DEF Refusals, TypeInv
<1>7. ASSUME NEW d \in Conns, Api(d) PROVE Refusals(c)
  BY <1>2, <1>3, <1>4, <1>5, <1>6, <1>7
     DEF Api, SpeConnCreate, SpeConnReaduntil, SpeConnReadbytes, SpeConnRead, SpeConnWrite,
         SpeConnSetTimeout
<1>8. ASSUME NEW d \in Conns, Peer(d) PROVE Refusals(c)
  BY <1>2, <1>8 DEF Peer, PeerSend, PeerDrains, PeerClose, PeerReset, ConnectDone, ConnectFails, NetStep
<1>9. ASSUME NEW d \in Conns, NEW dir \in {"read", "write"}, EnterCallback(d, dir) PROVE Refusals(c)
  BY <1>1, <1>9, EnterLost
<1>10. ASSUME NEW d \in Conns, Handlers(d) PROVE Refusals(c)
  <2>1. CASE connectNormal(d)
    BY <1>9, <2>1 DEF connectNormal
  <2>2. CASE readNormal(d)
    BY <1>2, <1>9, <2>2 DEF readNormal, ReadEnds
  <2>3. CASE writeNormal(d)
    BY <1>2, <1>9, <2>3 DEF writeNormal, WriteEnds
  <2> QED  BY <1>10, <2>1, <2>2, <2>3 DEF Handlers
<1>11. CASE RunTask
  BY <1>2, <1>9, <1>11 DEF RunTask
<1>12. CASE Loop
  BY <1>2, <1>10, <1>11, <1>12
     DEF Loop, EpollReports, EpollInterrupted, EpollDispatches, BeginTaskProcess, TaskProcess,
         HandlerReturn, connVars
<1>13. CASE Tick \/ UNCHANGED vars
  BY <1>2, <1>13 DEF Tick, vars, connVars
<1> QED  BY <1>7, <1>8, <1>12, <1>13 DEF Next

\* OnlyOwnCallbackIsRefused: the only callback that can be refused is the one
\* on the stack.
THEOREM OnlyOwnCallbacksAreRefused == Spec => OnlyOwnCallbackIsRefused
<1> DEFINE A == \A c \in Conns :
                  /\ ~ req[c].read.lost /\ req'[c].read.lost => running = ReadCallback(c)
                  /\ ~ req[c].write.lost /\ req'[c].write.lost => running = WriteCallback(c)
<1>1. ASSUME IInv, [Next]_vars, NEW c \in Conns
      PROVE  /\ ~ req[c].read.lost /\ req'[c].read.lost => running = ReadCallback(c)
             /\ ~ req[c].write.lost /\ req'[c].write.lost => running = WriteCallback(c)
  <2>1. Refusals(c) /\ ConnInv(c) /\ TaskInv
    BY <1>1, WhoIsRefused DEF IInv
  <2>2. ReadCallback(c) \in ConnTasks /\ WriteCallback(c) \in ConnTasks
    BY FourAreTasks DEF Four
  <2>3. /\ ~ req[c].read.owed /\ ~ Accepts(sched, ReadCallback(c)) => running = ReadCallback(c)
        /\ ~ req[c].write.owed /\ ~ Accepts(sched, WriteCallback(c)) => running = WriteCallback(c)
    BY <2>1, <2>2 DEF Accepts, ConnInv, CallbackInv, RCStatus, WCStatus, TaskInv
  <2> QED  BY <2>1, <2>3 DEF Refusals
<1>2. IInv /\ [Next]_vars => [A]_vars
  BY <1>1
<1> HIDE DEF A
<1>3. Spec => [][A]_vars
  BY <1>2, ConnInvariance, PTL DEF Spec
<1> QED  BY <1>3 DEF A, OnlyOwnCallbackIsRefused

-----------------------------------------------------------------------------
(* The refinement: a program sees the connection of ConnSpec                *)

\* A step of ConnLifecycle, or one the program does not see.
Seen == [Lifecycle!Next]_(Lifecycle!vars)

\* The view of an open connection, part by part.
LEMMA ViewAt ==
  ASSUME NEW c \in Conns
  PROVE  /\ View[c].open <=> Open(c)
         /\ View[c].read = ReadPart(c) /\ View[c].write = WritePart(c)
         /\ Open(c) => /\ View[c].ended = Ended(c)
                       /\ View[c] = [open |-> TRUE, ended |-> Ended(c),
                                     read |-> ReadPart(c), write |-> WritePart(c)]
<1> DEFINE o == Open(c)
           x == Open(c) /\ Ended(c)
           f == Ended(c)
           r == ReadPart(c)
           w == WritePart(c)
<1>1. View[c] = [open |-> o, ended |-> x, read |-> r, write |-> w]
  BY DEF View, ViewOf
<1>2. Open(c) => o = TRUE /\ x = f
  BY DEF Open, Ended
<1> HIDE DEF o, x, f, r, w
<1>3. View[c].open = o /\ View[c].ended = x /\ View[c].read = r /\ View[c].write = w
  BY <1>1
<1>4. Open(c) => View[c].ended = f /\ View[c] = [open |-> TRUE, ended |-> f, read |-> r, write |-> w]
  BY <1>1, <1>2, <1>3
<1> QED  BY <1>3, <1>4 DEF o, f, r, w

\* Turns is a step of ConnLifecycle's view.
LEMMA TurnsBecomes ==
  ASSUME NEW c \in Conns, Open(c), NEW e \in BOOLEAN, NEW r, NEW w, Turns(c, e, r, w)
  PROVE  /\ w = WritePart(c) => Lifecycle!Becomes(c, [View[c] EXCEPT !.read = r, !.ended = e])
         /\ w = WritePart(c) /\ e = Ended(c) =>
              Lifecycle!Becomes(c, [View[c] EXCEPT !.read = r])
         /\ r = ReadPart(c) => Lifecycle!Becomes(c, [View[c] EXCEPT !.write = w, !.ended = e])
         /\ r = ReadPart(c) /\ e = Ended(c) =>
              Lifecycle!Becomes(c, [View[c] EXCEPT !.write = w])
<1> DEFINE o == TRUE
           f == Ended(c)
           a == ReadPart(c)
           b == WritePart(c)
           v == View[c]
           p == [v EXCEPT !.read = r]
           q == [v EXCEPT !.write = w]
           y == [open |-> o, ended |-> e, read |-> r, write |-> w]
<1>1. Lifecycle!Becomes(c, y)
  BY TurnsView DEF Lifecycle!Becomes
<1>2. v = [open |-> o, ended |-> f, read |-> a, write |-> b]
  BY ViewAt
<1>3. [v EXCEPT !.read = r, !.ended = e] = [p EXCEPT !.ended = e]
  OBVIOUS
<1>4. [v EXCEPT !.write = w, !.ended = e] = [q EXCEPT !.ended = e]
  OBVIOUS
<1> HIDE DEF o, f, a, b, v
<1>5. p = [open |-> o, ended |-> f, read |-> r, write |-> b]
  BY <1>2
<1>6. q = [open |-> o, ended |-> f, read |-> a, write |-> w]
  BY <1>2
<1> HIDE DEF p, q
<1>7. w = b => [p EXCEPT !.ended = e] = y
  BY <1>5
<1>8. r = a => [q EXCEPT !.ended = e] = y
  BY <1>6
<1>9. w = b /\ e = f => p = y
  BY <1>5
<1>10. r = a /\ e = f => q = y
  BY <1>6
<1> HIDE DEF y
<1>11. w = b => Lifecycle!Becomes(c, [v EXCEPT !.read = r, !.ended = e])
  BY <1>1, <1>3, <1>7, Zenon
<1>12. r = a => Lifecycle!Becomes(c, [v EXCEPT !.write = w, !.ended = e])
  BY <1>1, <1>4, <1>8, Zenon
<1>13. w = b /\ e = f => Lifecycle!Becomes(c, [v EXCEPT !.read = r])
  BY <1>1, <1>9, Zenon DEF p
<1>14. r = a /\ e = f => Lifecycle!Becomes(c, [v EXCEPT !.write = w])
  BY <1>1, <1>10, Zenon DEF q
<1> QED  BY <1>11, <1>12, <1>13, <1>14 DEF f, a, b, v

\* Whose callback it is that calls the API.
LEMMA OwnCallback ==
  ASSUME IInv, UserRuns, NEW t \in ConnTasks
  PROVE  Inside = t <=> sched.status[t] = SPE_TASK_RUN
<1>1. /\ sched.status[t] = SPE_TASK_RUN <=> t = running
      /\ running # NoTask <=> pc = "handler"
  BY DEF IInv, TaskInv
<1>2. t # NoTask
  BY NoTaskAssumption
<1> QED  BY <1>1, <1>2 DEF UserRuns, Inside

\* A call of the program leaves the stack alone.
LEMMA CallInside ==
  ASSUME UNCHANGED <<loopVars, frame>>
  PROVE  Inside' = Inside
BY DEF Inside, loopVars, threadVars

\* A step of which the program sees nothing.
LEMMA UnseenStep ==
  ASSUME Stays, Inside' = Inside
  PROVE  Seen
BY DEF Seen, Stays, Lifecycle!vars

\* A call is Lifecycle!Call.
LEMMA CreateSeen ==
  ASSUME IInv, NEW c \in Conns, SpeConnCreate(c)
  PROVE  Seen
<1>1. ~ Open(c) /\ Inside' = Inside
  BY CallInside DEF SpeConnCreate
<1>2. View' = [View EXCEPT ![c] = [open |-> TRUE, ended |-> FALSE, read |-> "none", write |-> "none"]]
  BY CreateStep, TurnsView
<1>3. Lifecycle!Create(c)
  BY <1>1, <1>2, ViewAt
     DEF Lifecycle!Create, Lifecycle!Call, Lifecycle!Becomes, Lifecycle!SpeConnCreate,
         Lifecycle!NoConn
<1> QED  BY <1>3 DEF Seen, Lifecycle!Next

\* What the queueing of a callback turns a part into.
LEMMA QueuedPart ==
  ASSUME IInv, UserRuns, NEW c \in Conns, NEW callback \in {"ReadCallback", "WriteCallback"},
         NEW t, t = <<c, callback>>, sched.status[t] # SPE_TASK_QUEUE
  PROVE  (IF Accepts(sched, t) THEN "queued" ELSE "none")
           = Lifecycle!Queued(Lifecycle!Own(c, callback))
<1>1. t \in ConnTasks
  BY DEF ConnTasks
<1>2. Accepts(sched, t) <=> Inside # <<c, callback>>
  BY <1>1, OwnCallback DEF Accepts
<1> QED  BY <1>2 DEF Lifecycle!Queued, Lifecycle!Own

\* SpeConnConnect, with both outcomes.
LEMMA ConnectSeen ==
  ASSUME IInv, NEW c \in Conns, SpeConnConnect(c)
  PROVE  Seen
<1> DEFINE q == IF Accepts(sched, ReadCallback(c)) THEN "queued" ELSE "none"
           own == Lifecycle!Own(c, "ReadCallback")
<1>1. Inside' = Inside /\ UserRuns
  BY CallInside DEF SpeConnConnect
<1>2. /\ Open(c) /\ ReadPart(c) = "none" /\ WritePart(c) = "none"
      /\ \/ Turns(c, Ended(c), "connect", "none")
         \/ \E e \in {TRUE, Ended(c)} : Turns(c, e, q, "none")
  BY ConnectStep
<1>3. q = Lifecycle!Queued(own)
  BY <1>1, <1>2, QueuedPart, Parts DEF ReadCallback, RCStatus, Reads, Connects
<1> HIDE DEF q, own
<1>4. Ended(c) \in BOOLEAN
  BY DEF Ended
<1>5. PICK v \in Lifecycle!SpeConnConnect(View[c], own) : Lifecycle!Becomes(c, v)
  <2>1. CASE Turns(c, Ended(c), "connect", "none")
    <3>1. Lifecycle!Becomes(c, [View[c] EXCEPT !.read = "connect"])
      BY <1>2, <1>4, <2>1, TurnsBecomes
    <3> QED  BY <3>1, SMTT(30) DEF Lifecycle!SpeConnConnect
  <2>2. CASE Turns(c, Ended(c), q, "none")
    <3>1. Lifecycle!Becomes(c, [View[c] EXCEPT !.read = q])
      BY <1>2, <1>4, <2>2, TurnsBecomes
    <3> QED  BY <1>3, <3>1, SMTT(30) DEF Lifecycle!SpeConnConnect
  <2>3. CASE Turns(c, TRUE, q, "none")
    <3>1. Lifecycle!Becomes(c, [View[c] EXCEPT !.read = q, !.ended = TRUE])
      BY <1>2, <2>3, TurnsBecomes
    <3> QED  BY <1>3, <3>1, SMTT(30) DEF Lifecycle!SpeConnConnect
  <2> QED  BY <1>2, <2>1, <2>2, <2>3
<1>6. Lifecycle!Connect(c)
  BY <1>1, <1>2, <1>5, ViewAt DEF Lifecycle!Connect, Lifecycle!Call, own
<1> QED  BY <1>6 DEF Seen, Lifecycle!Next

\* The three read calls are Lifecycle!Read.
LEMMA ReadSeen ==
  ASSUME IInv, NEW c \in Conns, SpeConnReaduntil(c) \/ SpeConnReadbytes(c) \/ SpeConnRead(c)
  PROVE  Seen
<1> DEFINE q == IF Accepts(sched, ReadCallback(c)) THEN "queued" ELSE "none"
           own == Lifecycle!Own(c, "ReadCallback")
<1>1. Inside' = Inside /\ UserRuns
  BY CallInside DEF SpeConnReaduntil, SpeConnReadbytes, SpeConnRead, Request
<1>2. /\ Open(c) /\ ~ Ended(c) /\ ReadPart(c) = "none"
      /\ Turns(c, Ended(c), q, WritePart(c)) \/ Turns(c, Ended(c), "wait", WritePart(c))
  BY ReadStep
<1>3. q = Lifecycle!Queued(own)
  BY <1>1, <1>2, QueuedPart, Parts DEF ReadCallback, RCStatus, Reads, Connects
<1> HIDE DEF q, own
<1>4. Ended(c) \in BOOLEAN
  BY SMTT(30) DEF Ended
<1>5. \/ Lifecycle!Becomes(c, [View[c] EXCEPT !.read = q])
      \/ Lifecycle!Becomes(c, [View[c] EXCEPT !.read = "wait"])
  BY <1>2, <1>4, TurnsBecomes
<1>6. ~ View[c].ended
  BY <1>2, ViewAt
<1>7. /\ Lifecycle!SpeConnRead(View[c], TRUE, own) = [View[c] EXCEPT !.read = q]
      /\ Lifecycle!SpeConnRead(View[c], FALSE, own) = [View[c] EXCEPT !.read = "wait"]
  BY <1>3, <1>6 DEF Lifecycle!SpeConnRead, Lifecycle!Requested
<1>8. \E now \in BOOLEAN : Lifecycle!Becomes(c, Lifecycle!SpeConnRead(View[c], now, own))
  BY <1>5, <1>7
<1>9. Lifecycle!Read(c)
  BY <1>1, <1>2, <1>8, ViewAt DEF Lifecycle!Read, Lifecycle!Call, own
<1> QED  BY <1>9 DEF Seen, Lifecycle!Next

\* SpeConnFlush is Lifecycle!Flush.
LEMMA FlushSeen ==
  ASSUME IInv, NEW c \in Conns, SpeConnFlush(c)
  PROVE  Seen
<1> DEFINE q == IF Accepts(sched, WriteCallback(c)) THEN "queued" ELSE "none"
           own == Lifecycle!Own(c, "WriteCallback")
<1>1. Inside' = Inside /\ UserRuns
  BY CallInside DEF SpeConnFlush
<1>2. /\ Open(c) /\ ~ Connects(c) /\ ~ Ended(c) /\ WritePart(c) = "none"
      /\ Turns(c, Ended(c), ReadPart(c), q) \/ Turns(c, Ended(c), ReadPart(c), "wait")
  BY FlushStep
<1>3. q = Lifecycle!Queued(own)
  BY <1>1, <1>2, QueuedPart, Parts DEF WriteCallback, WCStatus
<1> HIDE DEF q, own
<1>4. Ended(c) \in BOOLEAN
  BY DEF Ended
<1>5. \/ Lifecycle!Becomes(c, [View[c] EXCEPT !.write = q])
      \/ Lifecycle!Becomes(c, [View[c] EXCEPT !.write = "wait"])
  BY <1>2, <1>4, TurnsBecomes
<1>6. ~ View[c].ended /\ ReadPart(c) # "connect"
  BY <1>2, ViewAt, Parts
<1>7. /\ Lifecycle!SpeConnFlush(View[c], TRUE, own) = [View[c] EXCEPT !.write = q]
      /\ Lifecycle!SpeConnFlush(View[c], FALSE, own) = [View[c] EXCEPT !.write = "wait"]
  BY <1>3, <1>6 DEF Lifecycle!SpeConnFlush, Lifecycle!Requested
<1>8. \E now \in BOOLEAN : Lifecycle!Becomes(c, Lifecycle!SpeConnFlush(View[c], now, own))
  BY <1>5, <1>7
<1>9. Lifecycle!Flush(c)
  BY <1>1, <1>2, <1>6, <1>8, ViewAt DEF Lifecycle!Flush, Lifecycle!Call, own
<1> QED  BY <1>9 DEF Seen, Lifecycle!Next

\* SpeConnDestroy is Lifecycle!Destroy.
LEMMA DestroySeen ==
  ASSUME IInv, NEW c \in Conns, SpeConnDestroy(c)
  PROVE  Seen
<1>1. Inside' = Inside /\ Open(c)
  BY CallInside DEF SpeConnDestroy
<1>2. OnlyMoves(c) /\ ~ Open(c)'
  BY DestroyStep
<1>3. \A d \in Conns \ {c} : ViewOf(d)' = ViewOf(d)
  BY <1>2, OthersStay, SameViews
<1>4. ViewOf(c)' = [open |-> FALSE, ended |-> FALSE, read |-> "none", write |-> "none"]
  <2>1. /\ Open(c)' = FALSE /\ (Open(c)' /\ Ended(c)') = FALSE
        /\ ReadPart(c)' = "none" /\ WritePart(c)' = "none"
    BY <1>2, PartsAfter DEF Open
  <2> QED  BY <2>1 DEF ViewOf
<1>5. View' = [View EXCEPT ![c] = Lifecycle!NoConn]
  BY <1>3, <1>4 DEF View, Lifecycle!NoConn
<1>6. Lifecycle!Destroy(c)
  BY <1>1, <1>5, ViewAt DEF Lifecycle!Destroy, Lifecycle!Call, Lifecycle!Becomes
<1> QED  BY <1>6 DEF Seen, Lifecycle!Next

\* The calls of which the program sees nothing afterwards.
LEMMA QuietCallSeen ==
  ASSUME IInv, NEW c \in Conns, SpeConnWrite(c) \/ SpeConnSetTimeout(c)
  PROVE  Seen
<1>1. Inside' = Inside
  BY CallInside DEF SpeConnWrite, SpeConnSetTimeout
<1> QED  BY <1>1, WriteStep, SetTimeoutStep, UnseenStep

\* A handler that calls ReadCallback.Handler itself.
LEMMA ReadReturnsSeen ==
  ASSUME NEW c \in Conns, ReadReturns(c)
  PROVE  Seen
<1>1. Inside = NoTask /\ Inside' = <<c, "readTask">>
  BY DEF ReadReturns, Runs, Inside, readTask
<1>2. Open(c) /\ ReadPart(c) \in {"connect", "wait"}
  BY DEF ReadReturns
<1>3. PICK e \in {TRUE, Ended(c)} : Turns(c, e, "none", WritePart(c))
  BY DEF ReadReturns
<1>4. e \in BOOLEAN
  BY DEF Ended
<1>5. Lifecycle!Becomes(c, [View[c] EXCEPT !.read = "none", !.ended = e])
  BY <1>2, <1>3, <1>4, TurnsBecomes
<1>6. e \in {TRUE, View[c].ended}
  BY <1>2, ViewAt
<1>7. Lifecycle!ReadAnswered(c)
  BY <1>1, <1>2, <1>5, <1>6, ViewAt DEF Lifecycle!ReadAnswered, Lifecycle!Enter
<1> QED  BY <1>7 DEF Seen, Lifecycle!Next

\* The same for the write direction.
LEMMA WriteReturnsSeen ==
  ASSUME NEW c \in Conns, WriteReturns(c)
  PROVE  Seen
<1>1. Inside = NoTask /\ Inside' = <<c, "writeTask">>
  BY DEF WriteReturns, Runs, Inside, writeTask
<1>2. Open(c) /\ WritePart(c) = "wait"
  BY DEF WriteReturns
<1>3. PICK e \in {TRUE, Ended(c)} : Turns(c, e, ReadPart(c), "none")
  BY DEF WriteReturns
<1>4. e \in BOOLEAN
  BY DEF Ended
<1>5. Lifecycle!Becomes(c, [View[c] EXCEPT !.write = "none", !.ended = e])
  BY <1>2, <1>3, <1>4, TurnsBecomes
<1>6. e \in {TRUE, View[c].ended}
  BY <1>2, ViewAt
<1>7. Lifecycle!WriteAnswered(c)
  BY <1>1, <1>2, <1>5, <1>6, ViewAt DEF Lifecycle!WriteAnswered, Lifecycle!Enter
<1> QED  BY <1>7 DEF Seen, Lifecycle!Next

\* A handler that waits on is not seen.
LEMMA SilentSeen ==
  ASSUME Silent
  PROVE  Seen
<1>1. Inside' = Inside
  BY DEF Silent, Inside
<1> QED  BY <1>1, UnseenStep DEF Silent

\* The loop starts a task: a queued callback is called, or a body is entered.
LEMMA RunSeen ==
  ASSUME IInv, RunTask
  PROVE  Seen
<1>1. Inside = NoTask
  BY RunStep DEF Inside
<1>2. CASE frame' = "body" /\ Stays
  BY <1>1, <1>2, UnseenStep DEF Inside
<1>3. ASSUME NEW c \in Conns, ReadCalls(c) PROVE Seen
  <2>1. Open(c) /\ ReadPart(c) = "queued" /\ Inside' = <<c, "ReadCallback">>
    BY <1>3 DEF ReadCalls, Inside, ReadCallback
  <2>2. Ended(c) \in BOOLEAN /\ Turns(c, Ended(c), "none", WritePart(c))
    BY <1>3, SMTT(30) DEF ReadCalls, Ended
  <2>3. Lifecycle!Becomes(c, [View[c] EXCEPT !.read = "none"])
    BY <2>1, <2>2, TurnsBecomes
  <2>4. Lifecycle!ReadCalled(c)
    BY <1>1, <2>1, <2>3, ViewAt DEF Lifecycle!ReadCalled, Lifecycle!Enter
  <2> QED  BY <2>4 DEF Seen, Lifecycle!Next
<1>4. ASSUME NEW c \in Conns, WriteCalls(c) PROVE Seen
  <2>1. Open(c) /\ WritePart(c) = "queued" /\ Inside' = <<c, "WriteCallback">>
    BY <1>4 DEF WriteCalls, Inside, WriteCallback
  <2>2. Ended(c) \in BOOLEAN /\ Turns(c, Ended(c), ReadPart(c), "none")
    BY <1>4, SMTT(30) DEF WriteCalls, Ended
  <2>3. Lifecycle!Becomes(c, [View[c] EXCEPT !.write = "none"])
    BY <2>1, <2>2, TurnsBecomes
  <2>4. Lifecycle!WriteCalled(c)
    BY <1>1, <2>1, <2>3, ViewAt DEF Lifecycle!WriteCalled, Lifecycle!Enter
  <2> QED  BY <2>4 DEF Seen, Lifecycle!Next
<1> QED  BY <1>2, <1>3, <1>4, RunStep

\* A callback of the program returns, or a handler that called nobody.
LEMMA ReturnSeen ==
  ASSUME IInv, HandlerReturn
  PROVE  Seen
<1>1. /\ frame \in {"user", "return"} /\ frame' = "none" /\ running # NoTask
  BY DEF HandlerReturn, Task!HandlerReturn, IInv, TaskInv
<1>2. Inside' = NoTask /\ View' = View
  BY <1>1, ReturnStep DEF Inside, Stays
<1>3. CASE frame = "user"
  <2>1. Lifecycle!Return
    BY <1>1, <1>2, <1>3 DEF Lifecycle!Return, Inside
  <2> QED  BY <2>1 DEF Seen, Lifecycle!Next
<1>4. CASE frame = "return"
  BY <1>1, <1>2, <1>4, UnseenStep DEF Inside, Stays
<1> QED  BY <1>1, <1>3, <1>4

\* The rest of the loop, and time, are not seen.
LEMMA LoopSeen ==
  ASSUME IInv, \/ EpollReports \/ EpollInterrupted \/ (\E c \in Conns : EpollDispatches(c))
               \/ BeginTaskProcess \/ TaskProcess \/ Tick
  PROVE  Seen
<1>1. Stays
  BY PollStep, DispatchStep, BeginStep, TaskProcessStep, TickStep
<1>2. UNCHANGED running /\ (frame' = frame \/ (frame # "user" /\ frame' # "user"))
  BY DEF EpollReports, EpollInterrupted, EpollDispatches, BeginTaskProcess, Task!BeginTaskProcess,
         TaskProcess, Task!FireTimer, Task!TimersDone, Task!EndTaskProcess, Tick, Task!Tick,
         loopVars, threadVars
<1> QED  BY <1>1, <1>2, UnseenStep DEF Inside

\* Neither is the peer.
LEMMA PeerSeen ==
  ASSUME IInv, NEW c \in Conns, Peer(c)
  PROVE  Seen
<1>1. UNCHANGED <<loopVars, frame>>
  BY DEF Peer, PeerSend, PeerDrains, PeerClose, PeerReset, ConnectDone, ConnectFails, NetStep
<1> QED  BY <1>1, CallInside, PeerStep, UnseenStep

\* Every step is one of ConnLifecycle, or not seen.
LEMMA NextImplements == IInv /\ [Next]_vars => Seen
<1> SUFFICES ASSUME IInv, [Next]_vars PROVE Seen
  OBVIOUS
<1>1. ASSUME NEW c \in Conns, Api(c) PROVE Seen
  BY <1>1, CreateSeen, ConnectSeen, ReadSeen, FlushSeen, DestroySeen, QuietCallSeen DEF Api
<1>2. ASSUME NEW c \in Conns, Handlers(c) PROVE Seen
  BY <1>2, connectNormalStep, readNormalStep, writeNormalStep,
     ReadReturnsSeen, WriteReturnsSeen, SilentSeen DEF Handlers
<1>3. CASE Loop
  BY <1>2, <1>3, LoopSeen, RunSeen, ReturnSeen DEF Loop
<1>4. CASE UNCHANGED vars
  <2>1. UNCHANGED <<sched, loopVars, frame, conn, net>>
    BY <1>4 DEF vars, connVars
  <2>2. \A d \in Conns : SameView(d)
    BY <2>1, PartsStay DEF Open, Ended, Reads, Writes, Connects, RCStatus, WCStatus
  <2> QED  BY <2>1, <2>2, NothingSeen, CallInside, UnseenStep
<1> QED  BY <1>1, <1>3, <1>4, PeerSeen, LoopSeen DEF Next

\* At first no connection is open and no callback runs.
LEMMA InitImplements == Init => Lifecycle!Init
<1> SUFFICES ASSUME Init PROVE Lifecycle!Init
  OBVIOUS
<1>1. Inside = NoTask
  BY DEF Init, Inside
<1>2. ASSUME NEW c \in Conns
      PROVE  ViewOf(c) = [open |-> FALSE, ended |-> FALSE, read |-> "none", write |-> "none"]
  <2>1. ~ Open(c)
    BY DEF Init, Open, Socket
  <2>2. /\ Open(c) = FALSE /\ (Open(c) /\ Ended(c)) = FALSE
        /\ ReadPart(c) = "none" /\ WritePart(c) = "none"
    BY <2>1, Parts DEF Open
  <2> QED  BY <2>2 DEF ViewOf
<1>3. View = [c \in Conns |-> Lifecycle!NoConn]
  BY <1>2 DEF View, Lifecycle!NoConn
<1> QED  BY <1>1, <1>3 DEF Lifecycle!Init

\* spe_conn.c:22-366.  Whatever the calls, events, timeouts and destructions,
\* a program sees the connection of ConnSpec: each request is called back
\* once, by its direction, never after the end and never inside a callback.
THEOREM ImplementsConnSpecs == Spec => ImplementsConnSpec
<1>1. IInv /\ [Next]_vars => [Lifecycle!Next]_(Lifecycle!vars)
  BY NextImplements DEF Seen
<1> QED  BY <1>1, InitImplements, InitStep, NextStep, PTL DEF Spec, ImplementsConnSpec, Lifecycle!Spec
=============================================================================
