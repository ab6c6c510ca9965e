---------------------------- MODULE AnswerProofs ----------------------------
(***************************************************************************)
(* What a program learns from its callbacks: theorems about SpeConn that   *)
(* need to know of every request when it is due, what it asked for and     *)
(* what happened to it since.                                              *)
(***************************************************************************)
EXTENDS SpeConnProofs

-----------------------------------------------------------------------------
(* Timers: what a step does to the expiry and the flag of one task          *)

\* From s to r, t is neither armed nor queued, marked nor unmarked.
Keeps(s, r, t) ==
  /\ r.expire[t] = s.expire[t] /\ r.Timeout[t] = s.Timeout[t]
  /\ r.status[t] = SPE_TASK_TIMER => s.status[t] = SPE_TASK_TIMER
  /\ r.status[t] = SPE_TASK_QUEUE => s.status[t] = SPE_TASK_QUEUE

\* Calls that keep a task can follow each other.
LEMMA KeepsAll ==
  ASSUME NEW s, NEW r, NEW q, NEW t, Keeps(s, r, t), Keeps(r, q, t)
  PROVE  Keeps(s, q, t)
BY DEF Keeps

\* SpeTaskEnqueue leaves the expiries and the flags.
LEMMA EnqueueKeeps ==
  ASSUME NEW s, SchedInv(s), NEW t \in ConnTasks, NEW u \in ConnTasks
  PROVE  LET r == SpeTaskEnqueue(s, t)
         IN  /\ r.expire = s.expire /\ r.Timeout = s.Timeout
             /\ r.status[t] = SPE_TASK_TIMER => s.status[t] = SPE_TASK_TIMER
             /\ u # t => Keeps(s, r, u)
<1> DEFINE r == SpeTaskEnqueue(s, t)
<1>1. r.expire = s.expire /\ r.Timeout = s.Timeout
  BY DEF SchedInv, SchedState, SpeTaskEnqueue, JoinQueue, LeaveTree
<1>2. r.status = IF Accepts(s, t) THEN [s.status EXCEPT ![t] = SPE_TASK_QUEUE] ELSE s.status
  BY EnqueueFacts
<1> HIDE DEF r
<1>3. /\ r.status[t] = SPE_TASK_TIMER => s.status[t] = SPE_TASK_TIMER
      /\ u # t => r.status[u] = s.status[u]
  BY <1>2, StatusOfSched DEF SPE_TASK_TIMER, SPE_TASK_QUEUE
<1> QED  BY <1>1, <1>3 DEF Keeps, r

\* The withdrawals leave them too, and arm and queue nobody.
LEMMA DequeueKeeps ==
  ASSUME NEW s, SchedInv(s), NEW t \in ConnTasks, NEW u \in ConnTasks
  PROVE  Keeps(s, SpeTaskDequeue(s, t), u)
<1> DEFINE r == SpeTaskDequeue(s, t)
<1>1. r.expire = s.expire /\ r.Timeout = s.Timeout
  BY DEF SchedInv, SchedState, SpeTaskDequeue
<1>2. r.status = IF s.status[t] = SPE_TASK_QUEUE
                 THEN [s.status EXCEPT ![t] = SPE_TASK_FREE] ELSE s.status
  BY DequeueFacts
<1> HIDE DEF r
<1> QED  BY <1>1, <1>2, StatusOfSched DEF Keeps, r, SPE_TASK_TIMER, SPE_TASK_QUEUE, SPE_TASK_FREE

\* The same of SpeTaskDequeueTimer, as the code calls it.
LEMMA StopTimerKeeps ==
  ASSUME NEW s, SchedInv(s), NEW t \in ConnTasks, NEW u \in ConnTasks, NEW ms
  PROVE  Keeps(s, StopTimer(s, t, ms), u)
<1> DEFINE r == StopTimer(s, t, ms)
<1>1. r.expire = s.expire /\ r.Timeout = s.Timeout
  BY DEF SchedInv, SchedState, StopTimer, SpeTaskDequeueTimer, LeaveTree
<1>2. r.status = IF ms # 0 /\ s.status[t] = SPE_TASK_TIMER
                 THEN [s.status EXCEPT ![t] = SPE_TASK_FREE] ELSE s.status
  BY StopTimerFacts
<1> HIDE DEF r
<1> QED  BY <1>1, <1>2, StatusOfSched DEF Keeps, r, SPE_TASK_TIMER, SPE_TASK_QUEUE, SPE_TASK_FREE

\* SpeConnDestroy only withdraws.
LEMMA DestroyKeeps ==
  ASSUME NEW s, SchedInv(s), NEW c \in Conns, NEW u \in ConnTasks, NEW m, NEW n
  PROVE  Keeps(s, StopTimer(StopTimer(DequeueAll(s, c), readTask(c), m), writeTask(c), n), u)
<1> DEFINE s1 == SpeTaskDequeue(s, readTask(c))
           s2 == SpeTaskDequeue(s1, writeTask(c))
           s3 == SpeTaskDequeue(s2, ReadCallback(c))
           s4 == SpeTaskDequeue(s3, WriteCallback(c))
           s5 == StopTimer(s4, readTask(c), m)
           s6 == StopTimer(s5, writeTask(c), n)
<1>1. Four(c) \subseteq ConnTasks
  BY FourAreTasks
<1>2. SchedInv(s1) /\ Keeps(s, s1, u)
  BY <1>1, DequeueFacts, DequeueKeeps DEF Four
<1> HIDE DEF s1
<1>3. SchedInv(s2) /\ Keeps(s1, s2, u)
  BY <1>1, <1>2, DequeueFacts, DequeueKeeps DEF Four
<1> HIDE DEF s2
<1>4. SchedInv(s3) /\ Keeps(s2, s3, u)
  BY <1>1, <1>3, DequeueFacts, DequeueKeeps DEF Four
<1> HIDE DEF s3
<1>5. SchedInv(s4) /\ Keeps(s3, s4, u)
  BY <1>1, <1>4, DequeueFacts, DequeueKeeps DEF Four
<1> HIDE DEF s4
<1>6. SchedInv(s5) /\ Keeps(s4, s5, u)
  BY <1>1, <1>5, StopTimerFacts, StopTimerKeeps DEF Four
<1> HIDE DEF s5
<1>7. Keeps(s5, s6, u)
  BY <1>1, <1>6, StopTimerKeeps DEF Four
<1> HIDE DEF s6
<1>8. Keeps(s, s6, u)
  BY <1>2, <1>3, <1>4, <1>5, <1>6, <1>7, KeepsAll
<1> QED  BY <1>8 DEF DequeueAll, s1, s2, s3, s4, s5, s6

\* A request that waits clears the flag of its task and, if it has a timeout,
\* arms it for that time; other tasks are left alone.
LEMMA ArmKeeps ==
  ASSUME NEW s, SchedInv(s), NEW t \in ConnTasks, NEW ms \in Nat, NEW u \in ConnTasks, clock \in Nat
  PROVE  LET r == StartTimer(ClearTimeout(s, t), t, ms)
         IN  /\ r.Timeout[t] = 0
             /\ r.status[t] = SPE_TASK_TIMER /\ s.status[t] # SPE_TASK_TIMER =>
                  r.expire[t] = clock + ms
             /\ u # t => Keeps(s, r, u)
<1> DEFINE q == ClearTimeout(s, t)
           r == StartTimer(q, t, ms)
<1>1. /\ q \in SchedState /\ SchedInv(q) /\ q.status = s.status /\ q.expire = s.expire
      /\ q.Timeout = [s.Timeout EXCEPT ![t] = 0]
  BY ClearTimeoutFacts DEF ClearTimeout, SchedInv, SchedState
<1>2. s \in SchedState
  BY DEF SchedInv
<1> HIDE DEF q
<1>3. r.status = IF ms # 0 /\ Accepts(q, t) THEN [q.status EXCEPT ![t] = SPE_TASK_TIMER] ELSE q.status
  BY <1>1, StartTimerFacts
<1>4. \/ /\ ms # 0 /\ Accepts(q, t)
         /\ r.expire = [q.expire EXCEPT ![t] = clock + ms]
         /\ r.Timeout = [q.Timeout EXCEPT ![t] = 0]
      \/ r = q /\ ~ (ms # 0 /\ Accepts(q, t))
  BY <1>1 DEF StartTimer, SpeTaskEnqueueTimer, JoinTree, LeaveTree, SchedState
<1> HIDE DEF r
<1>5. CASE r = q
  BY <1>1, <1>2, <1>5 DEF Keeps, SchedState, r, q
<1>6. CASE /\ ms # 0 /\ Accepts(q, t)
           /\ r.expire = [q.expire EXCEPT ![t] = clock + ms]
           /\ r.Timeout = [q.Timeout EXCEPT ![t] = 0]
  <2>1. /\ r.Timeout[t] = 0 /\ r.expire[t] = clock + ms
        /\ u # t => /\ r.Timeout[u] = s.Timeout[u] /\ r.expire[u] = s.expire[u]
                    /\ r.status[u] = s.status[u]
    BY <1>1, <1>2, <1>3, <1>6 DEF SchedState
  <2> QED  BY <2>1 DEF Keeps, r, q
<1> QED  BY <1>4, <1>5, <1>6

\* The timer loop marks the task it takes off the tree, and no other.
LEMMA FireKeeps ==
  ASSUME NEW s, SchedInv(s), s.timer_head # << >>, NEW u \in ConnTasks
  PROVE  LET r == Task!FireFirst(s)
             h == Head(s.timer_head)
         IN  /\ r.expire = s.expire /\ r.status[h] = SPE_TASK_QUEUE
             /\ s.status[h] = SPE_TASK_TIMER /\ r.Timeout[h] = 1
             /\ u # h => Keeps(s, r, u)
<1> DEFINE r == Task!FireFirst(s)
           h == Head(s.timer_head)
<1>1. /\ h \in ConnTasks /\ s.status[h] = SPE_TASK_TIMER
      /\ r.status = [s.status EXCEPT ![h] = SPE_TASK_QUEUE]
  BY FireFirstFacts
<1>2. r.expire = s.expire /\ r.Timeout = [s.Timeout EXCEPT ![h] = 1]
  BY DEF SchedInv, SchedState, Task!FireFirst, Task!JoinQueue
<1>3. s \in SchedState
  BY DEF SchedInv
<1> HIDE DEF r, h
<1>4. r.Timeout[h] = 1 /\ r.status[h] = SPE_TASK_QUEUE
  BY <1>1, <1>2, <1>3 DEF SchedState
<1>5. u # h => r.Timeout[u] = s.Timeout[u] /\ r.status[u] = s.status[u]
  BY <1>1, <1>2, <1>3 DEF SchedState
<1> QED  BY <1>1, <1>2, <1>4, <1>5 DEF Keeps, r, h

\* The run loop arms and queues nobody.
LEMMA RunKeeps ==
  ASSUME NEW s, SchedInv(s), NEW u \in ConnTasks
  PROVE  /\ s.gTaskNum # 0 => Keeps(s, Task!RunFirst(s), u)
         /\ \A t \in ConnTasks : s.status[t] = SPE_TASK_RUN => Keeps(s, Task!Release(s, t), u)
<1>1. ASSUME s.gTaskNum # 0 PROVE Keeps(s, Task!RunFirst(s), u)
  <2> DEFINE r == Task!RunFirst(s)
             h == Head(s.task_head)
  <2>1. h \in ConnTasks /\ r.status = [s.status EXCEPT ![h] = SPE_TASK_RUN]
    BY <1>1, RunFirstFacts
  <2>2. r.expire = s.expire /\ r.Timeout = s.Timeout
    BY DEF SchedInv, SchedState, Task!RunFirst
  <2> HIDE DEF r, h
  <2> QED  BY <2>1, <2>2, StatusOfSched DEF Keeps, r, SPE_TASK_TIMER, SPE_TASK_QUEUE, SPE_TASK_RUN
<1>2. ASSUME NEW t \in ConnTasks, s.status[t] = SPE_TASK_RUN PROVE Keeps(s, Task!Release(s, t), u)
  <2> DEFINE r == Task!Release(s, t)
  <2>1. r.status = [s.status EXCEPT ![t] = SPE_TASK_FREE]
    BY <1>2, ReleaseFacts
  <2>2. r.expire = s.expire /\ r.Timeout = s.Timeout
    BY DEF SchedInv, SchedState, Task!Release
  <2> HIDE DEF r
  <2> QED  BY <2>1, <2>2, StatusOfSched DEF Keeps, r, SPE_TASK_TIMER, SPE_TASK_QUEUE, SPE_TASK_FREE
<1> QED  BY <1>1, <1>2

\* The steps by which a direction of c begins to wait.
ReadStarts(c) ==
  \/ SpeConnConnect(c) /\ ConnectStarts(c)
  \/ \E type \in {SPE_CONN_READ, SPE_CONN_READUNTIL, SPE_CONN_READBYTES}, n \in Nat :
       Request(c, type, n) /\ ReadWaits(c, type, n)

WriteStarts(c) == SpeConnFlush(c) /\ FlushWaits(c)

\* Its time has come and the timer loop takes it.
Fires(t) ==
  /\ sched.status[t] = SPE_TASK_TIMER /\ sched.expire[t] <= clock
  /\ sched'.status[t] = SPE_TASK_QUEUE
  /\ sched'.Timeout[t] = 1 /\ sched'.expire[t] = sched.expire[t]

\* It is queued, as a callback or for an event.
Wakes(t) ==
  /\ sched'.expire[t] = sched.expire[t] /\ sched'.Timeout[t] = sched.Timeout[t]
  /\ sched'.status[t] = SPE_TASK_TIMER => sched.status[t] = SPE_TASK_TIMER
  /\ \E c \in Conns : \/ t \in {ReadCallback(c), WriteCallback(c)}
                      \/ t \in {readTask(c), writeTask(c)} /\ EpollDispatches(c)

\* What a step may do to the timer of a task.
TimerSide(t) ==
  \/ Keeps(sched, sched', t)
  \/ Fires(t)
  \/ Wakes(t)
  \/ \E c \in Conns : \/ t = readTask(c) /\ ReadStarts(c)
                      \/ t = writeTask(c) /\ WriteStarts(c)

\* An event queues tasks of its own connection.
LEMMA DispatchTimers ==
  ASSUME IInv, NEW c \in Conns, EpollDispatches(c), NEW t \in ConnTasks
  PROVE  Keeps(sched, sched', t) \/ Wakes(t)
<1> DEFINE e == epoll[c]
           hit == events[c] \cap e.mask
           r == IF SPE_EPOLL_READ \in hit THEN SpeTaskEnqueue(sched, e.readTask) ELSE sched
           w == IF SPE_EPOLL_WRITE \in hit THEN SpeTaskEnqueue(r, e.writeTask) ELSE r
<1>1. sched' = w
  BY DEF EpollDispatches, DispatchEvent
<1>2. SchedInv(sched) /\ MaskInv(c) /\ readTask(c) \in ConnTasks /\ writeTask(c) \in ConnTasks
  BY FourAreTasks DEF IInv, TaskInv, ConnInv, Four
<1>3. /\ SPE_EPOLL_READ \in hit => e.readTask = readTask(c)
      /\ SPE_EPOLL_WRITE \in hit => e.writeTask \in {readTask(c), writeTask(c)}
  BY <1>2 DEF MaskInv
<1> HIDE DEF hit, e
<1> DEFINE Same(s, q) == /\ q.expire = s.expire /\ q.Timeout = s.Timeout
                         /\ q.status[t] = SPE_TASK_TIMER => s.status[t] = SPE_TASK_TIMER
                         /\ t \notin {readTask(c), writeTask(c)} => Keeps(s, q, t)
<1>4. \A s : Same(s, s)
  BY DEF Keeps
<1>5. ASSUME NEW s, SchedInv(s), NEW u \in {readTask(c), writeTask(c)}
      PROVE  SchedInv(SpeTaskEnqueue(s, u)) /\ Same(s, SpeTaskEnqueue(s, u))
  <2>1. u \in ConnTasks
    BY <1>2
  <2>2. SchedInv(SpeTaskEnqueue(s, u))
    BY <1>5, <2>1, EnqueueFacts
  <2> DEFINE q == SpeTaskEnqueue(s, u)
  <2>3. /\ q.expire = s.expire /\ q.Timeout = s.Timeout
        /\ q.status[u] = SPE_TASK_TIMER => s.status[u] = SPE_TASK_TIMER
        /\ t # u => Keeps(s, q, t)
    BY <1>5, <2>1, EnqueueKeeps
  <2> HIDE DEF q
  <2>4. Same(s, q)
    BY <2>3 DEF Keeps
  <2> QED  BY <2>2, <2>4 DEF q
<1>6. SchedInv(r) /\ Same(sched, r)
  BY <1>2, <1>3, <1>4, <1>5
<1> HIDE DEF r
<1>7. Same(r, w)
  BY <1>3, <1>4, <1>5, <1>6
<1> HIDE DEF w
<1>8. Same(sched, w)
  BY <1>6, <1>7, KeepsAll
<1> QED  BY <1>1, <1>8 DEF Wakes

\* Every step, seen from one task.
LEMMA WhoTimes ==
  ASSUME IInv, [Next]_vars, NEW t \in ConnTasks
  PROVE  TimerSide(t)
<1>1. SchedInv(sched) /\ clock \in Nat /\ curr_time <= clock /\ curr_time \in Nat
  BY DEF IInv, TaskInv
<1>2. UNCHANGED sched => Keeps(sched, sched', t)
  BY DEF Keeps
<1>3. ASSUME NEW c \in Conns, NEW u \in {ReadCallback(c), WriteCallback(c)},
             sched' = SpeTaskEnqueue(sched, u)
      PROVE  TimerSide(t)
  <2>1. u \in ConnTasks
    BY FourAreTasks DEF Four
  <2>2. CASE t = u
    BY <1>1, <1>3, <2>1, <2>2, EnqueueKeeps DEF TimerSide, Wakes
  <2>3. CASE t # u
    BY <1>1, <1>3, <2>1, <2>3, EnqueueKeeps DEF TimerSide
  <2> QED  BY <2>2, <2>3
<1>4. ASSUME NEW c \in Conns, NEW u \in {readTask(c), writeTask(c)}, NEW ms \in Nat,
             sched' = StartTimer(ClearTimeout(sched, u), u, ms),
             u = readTask(c) => ReadStarts(c), u = writeTask(c) => WriteStarts(c)
      PROVE  TimerSide(t)
  <2>1. u \in ConnTasks
    BY FourAreTasks DEF Four
  <2>2. CASE t = u
    BY <1>4, <2>2 DEF TimerSide
  <2>3. CASE t # u
    BY <1>1, <1>4, <2>1, <2>3, ArmKeeps DEF TimerSide
  <2> QED  BY <2>2, <2>3
<1>5. ASSUME NEW c \in Conns PROVE conn[c].readExpireTime \in Nat /\ conn[c].writeExpireTime \in Nat
                                   /\ readTask(c) # writeTask(c)
  BY FourDiffer DEF IInv, TypeInv, ConnState
<1>6. ASSUME NEW c \in Conns, SpeConnConnect(c) PROVE TimerSide(t)
  <2>1. CASE ConnectStarts(c)
    <3>1. ReadStarts(c) /\ sched' = StartTimer(ClearTimeout(sched, readTask(c)), readTask(c),
                                               conn[c].readExpireTime)
      BY <1>6, <2>1 DEF ReadStarts, ConnectStarts
    <3> QED  BY <1>4, <1>5, <3>1
  <2>2. CASE ConnectReturns(c)
    BY <1>3, <2>2 DEF ConnectReturns
  <2> QED  BY <1>6, <2>1, <2>2 DEF SpeConnConnect
<1>7. ASSUME NEW c \in Conns, NEW type \in {SPE_CONN_READ, SPE_CONN_READUNTIL, SPE_CONN_READBYTES},
             NEW n \in Nat, Request(c, type, n)
      PROVE  TimerSide(t)
  <2>1. CASE ReadAnswered(c, type, n)
    BY <1>3, <2>1 DEF ReadAnswered
  <2>2. CASE ReadWaits(c, type, n)
    <3>1. ReadStarts(c) /\ sched' = StartTimer(ClearTimeout(sched, readTask(c)), readTask(c),
                                               conn[c].readExpireTime)
      BY <1>7, <2>2 DEF ReadStarts, ReadWaits
    <3> QED  BY <1>4, <1>5, <3>1
  <2> QED  BY <1>7, <2>1, <2>2 DEF Request
<1>8. ASSUME NEW c \in Conns, SpeConnFlush(c) PROVE TimerSide(t)
  <2>1. CASE FlushNothing(c)
    BY <1>3, <2>1 DEF FlushNothing
  <2>2. CASE FlushWaits(c)
    <3>1. WriteStarts(c) /\ sched' = StartTimer(ClearTimeout(sched, writeTask(c)), writeTask(c),
                                               conn[c].writeExpireTime)
      BY <1>8, <2>2 DEF WriteStarts, FlushWaits
    <3> QED  BY <1>4, <1>5, <3>1
  <2> QED  BY <1>8, <2>1, <2>2 DEF SpeConnFlush
<1>9. ASSUME NEW c \in Conns, Api(c) PROVE TimerSide(t)
  <2>1. CASE SpeConnReaduntil(c) \/ SpeConnReadbytes(c) \/ SpeConnRead(c)
    <3>1. 0 \in Nat /\ 1 .. MaxSent \subseteq Nat
      BY BoundsAssumption
    <3> QED  BY <1>7, <2>1, <3>1 DEF SpeConnReaduntil, SpeConnReadbytes, SpeConnRead
  <2>2. CASE SpeConnDestroy(c)
    BY <1>1, <2>2, DestroyKeeps, SMTT(30) DEF SpeConnDestroy, TimerSide
  <2>3. CASE SpeConnCreate(c) \/ SpeConnWrite(c) \/ SpeConnSetTimeout(c)
    BY <1>2, <2>3 DEF SpeConnCreate, SpeConnWrite, SpeConnSetTimeout, TimerSide
  <2> QED  BY <1>6, <1>8, <1>9, <2>1, <2>2, <2>3 DEF Api
<1>10. ASSUME NEW c \in Conns, Peer(c) PROVE TimerSide(t)
  BY <1>2, <1>10 DEF Peer, PeerSend, PeerDrains, PeerClose, PeerReset, ConnectDone, ConnectFails,
       NetStep, TimerSide
<1>11. ASSUME NEW c \in Conns, Handlers(c) PROVE TimerSide(t)
  <2>1. readTask(c) \in ConnTasks /\ writeTask(c) \in ConnTasks
    BY FourAreTasks, SMTT(30) DEF Four
  <2>2. \E u \in {readTask(c), writeTask(c)} : \E ms :
          sched' = sched \/ sched' = StopTimer(sched, u, ms)
    BY <1>11 DEF Handlers, connectNormal, readNormal, ReadEnds, writeNormal, WriteEnds
  <2> QED  BY <1>1, <1>2, <2>1, <2>2, StopTimerKeeps DEF TimerSide
<1>12. CASE Task!FireTimer
  <2> DEFINE h == Head(sched.timer_head)
  <2>1. /\ sched' = Task!FireFirst(sched) /\ sched.timer_head # << >>
        /\ sched.expire[h] <= curr_time
    BY <1>12 DEF Task!FireTimer, Task!TimerDue
  <2>2. /\ sched'.expire = sched.expire /\ sched'.status[h] = SPE_TASK_QUEUE
        /\ sched.status[h] = SPE_TASK_TIMER /\ sched'.Timeout[h] = 1
        /\ t # h => Keeps(sched, sched', t)
    BY <1>1, <2>1, FireKeeps
  <2>3. h \in ConnTasks /\ sched.expire[h] \in Nat
    BY <1>1, <2>1, FireFirstFacts DEF SchedInv, SchedState
  <2> HIDE DEF h
  <2>4. sched.expire[h] <= clock
    BY <1>1, <2>1, <2>3
  <2> QED  BY <2>2, <2>4 DEF TimerSide, Fires
<1>13. CASE TaskProcess
  BY <1>2, <1>12, <1>13 DEF TaskProcess, Task!TimersDone, Task!EndTaskProcess, TimerSide
<1>14. CASE RunTask
  BY <1>1, <1>14, RunKeeps DEF RunTask, Task!RunTask, TimerSide
<1>15. CASE HandlerReturn
  <2>1. pc = "handler" /\ sched' = Task!Release(sched, running)
    BY <1>15 DEF HandlerReturn, Task!HandlerReturn
  <2>2. running \in ConnTasks /\ sched.status[running] = SPE_TASK_RUN
    BY <2>1 DEF IInv, TaskInv
  <2> QED  BY <1>1, <2>1, <2>2, RunKeeps DEF TimerSide
<1>16. CASE EpollReports \/ EpollInterrupted \/ BeginTaskProcess \/ Tick \/ UNCHANGED vars
  BY <1>2, <1>16 DEF EpollReports, EpollInterrupted, BeginTaskProcess, Task!BeginTaskProcess,
       Tick, Task!Tick, vars, TimerSide
<1>17. CASE \E c \in Conns : EpollDispatches(c)
  BY <1>17, DispatchTimers DEF TimerSide
<1> QED  BY <1>9, <1>10, <1>11, <1>13, <1>14, <1>15, <1>16, <1>17 DEF Next, Loop

-----------------------------------------------------------------------------
(* Requests: what a step does to the open request of each direction         *)

\* The read request of c is where it was, if there is one.
ReadKeeps(c) ==
  /\ req'[c].read = req[c].read /\ conn'[c].taken = conn[c].taken
  /\ Reads(c)' => /\ Reads(c) /\ (Connects(c)' <=> Connects(c))
                  /\ conn'[c].readExpireTime = conn[c].readExpireTime
  /\ RCStatus(c)' = SPE_TASK_QUEUE => RCStatus(c) = SPE_TASK_QUEUE
  /\ conn[c].Error = 1 => conn'[c].Error = 1
  /\ Established(c) => Established(c)'

\* There is none any more.
ReadOver(c) == ~ Reads(c)' /\ RCStatus(c)' # SPE_TASK_QUEUE

\* It was answered at once.
ReadQueued(c) ==
  /\ ~ Reads(c)'
  /\ req'[c].read.kind = "read" => conn'[c].taken > req'[c].read.mark
  /\ Established(c)' \/ conn'[c].Error = 1

\* What a step may do to the read side of c.
ReadSide(c) == ReadKeeps(c) \/ ReadOver(c) \/ ReadQueued(c) \/ ReadStarts(c)

\* A flush that waits was there before the step, or begins with it.
WriteSide(c) ==
  Writes(c)' /\ ~ Connects(c)' =>
    \/ WriteStarts(c)
    \/ /\ Writes(c) /\ ~ Connects(c) /\ req'[c].write = req[c].write
       /\ conn'[c].writeExpireTime = conn[c].writeExpireTime

\* A step that leaves the read part of the view and of the request.
LEMMA SameRead ==
  ASSUME IInv', NEW c \in Conns, ReadPart(c)' = ReadPart(c), req'[c].read = req[c].read,
         conn'[c].taken = conn[c].taken, conn'[c].readExpireTime = conn[c].readExpireTime,
         conn[c].Error = 1 => conn'[c].Error = 1, Established(c) => Established(c)'
  PROVE  ReadKeeps(c)
<1>1. RCStatus(c)' = SPE_TASK_QUEUE => Open(c)' /\ ~ Reads(c)'
  BY DEF IInv, ConnInv, CallbackInv
<1>2. /\ Reads(c)' => Open(c)' /\ (Connects(c)' \/ ~ Connects(c)')
      /\ Connects(c)' /\ Open(c)' => Reads(c)'
      /\ Connects(c) /\ Open(c) => Reads(c)
  BY DEF Reads, Connects
<1>3. RCStatus(c)' = SPE_TASK_QUEUE => RCStatus(c) = SPE_TASK_QUEUE
  BY <1>1, <1>2, Parts, PartsAfter
<1>4. Reads(c)' => Reads(c) /\ (Connects(c)' <=> Connects(c))
  BY <1>2, Parts, PartsAfter
<1> QED  BY <1>3, <1>4 DEF ReadKeeps

\* A step that leaves the write part of the view and of the request.
LEMMA SameWrite ==
  ASSUME NEW c \in Conns, WritePart(c)' = WritePart(c), req'[c].write = req[c].write,
         conn'[c].writeExpireTime = conn[c].writeExpireTime
  PROVE  WriteSide(c)
<1>1. Writes(c)' => Open(c)'
  BY DEF Writes
<1>2. Writes(c)' /\ ~ Connects(c)' => Writes(c) /\ ~ Connects(c)
  BY <1>1, Parts, PartsAfter
<1> QED  BY <1>2 DEF WriteSide

\* A step that leaves both.
LEMMA SameSides ==
  ASSUME IInv', NEW c \in Conns, ReadPart(c)' = ReadPart(c), WritePart(c)' = WritePart(c),
         conn'[c] = conn[c], req'[c] = req[c], Established(c) => Established(c)'
  PROVE  ReadSide(c) /\ WriteSide(c)
BY SameRead, SameWrite DEF ReadSide

\* What the parts of the view are after a step nobody sees.
LEMMA StaysParts ==
  ASSUME Stays, NEW c \in Conns
  PROVE  ReadPart(c)' = ReadPart(c) /\ WritePart(c)' = WritePart(c)
BY DEF Stays, View, ViewOf

\* What Turns says of the requests of c.
LEMMA TurnsSides ==
  ASSUME NEW c \in Conns, NEW e, NEW r, NEW w, Turns(c, e, r, w)
  PROVE  /\ r = "none" => ReadOver(c) /\ ~ Connects(c)'
         /\ r = "queued" => ~ Reads(c)' /\ ~ Connects(c)'
         /\ r = "connect" => Connects(c)' /\ WriteSide(c)
         /\ w # "wait" => WriteSide(c)
<1>1. Open(c)' /\ ReadPart(c)' = r /\ WritePart(c)' = w
  BY DEF Turns
<1> QED  BY <1>1, PartsAfter DEF ReadOver, WriteSide

\* A step of another connection.
LEMMA OthersSides ==
  ASSUME IInv', NEW d \in Conns, OnlyMoves(d), NEW c \in Conns \ {d}
  PROVE  ReadSide(c) /\ WriteSide(c)
BY OthersStay, SameSides DEF OnlyMoves, SameView, Established

\* The record a new read request gets.
LEMMA IssueRead ==
  ASSUME TypeInv, NEW c \in Conns, NEW kind, NEW a, NEW ms, NEW mark,
         Issue(c, "read", kind, a, ms, mark)
  PROVE  /\ req'[c].read.kind = kind /\ req'[c].read.mark = mark
         /\ req'[c].read.due = IF ms = 0 THEN Never ELSE clock + ms
         /\ req'[c].write = req[c].write
<1> DEFINE r == [kind |-> kind, owed |-> TRUE, lost |-> ~ a, mark |-> mark,
                 due |-> IF ms = 0 THEN Never ELSE clock + ms]
           q == req[c]
           q2 == [q EXCEPT !["read"] = r]
<1>1. req \in [Conns -> [read : ReqState, write : ReqState]] /\ q \in [read : ReqState, write : ReqState]
  BY DEF TypeInv
<1>2. /\ req' = [req EXCEPT ![c] = q2] /\ r.kind = kind /\ r.mark = mark
      /\ r.due = IF ms = 0 THEN Never ELSE clock + ms
  BY DEF Issue
<1> HIDE DEF r
<1>3. q2.read = r /\ q2.write = q.write
  BY <1>1
<1> HIDE DEF q2
<1> QED  BY <1>1, <1>2, <1>3

\* The record a new flush gets.
LEMMA IssueWrite ==
  ASSUME TypeInv, NEW c \in Conns, NEW kind, NEW a, NEW ms, NEW mark,
         Issue(c, "write", kind, a, ms, mark)
  PROVE  /\ req'[c].write.due = IF ms = 0 THEN Never ELSE clock + ms
         /\ req'[c].read = req[c].read
<1> DEFINE r == [kind |-> kind, owed |-> TRUE, lost |-> ~ a, mark |-> mark,
                 due |-> IF ms = 0 THEN Never ELSE clock + ms]
           q == req[c]
           q2 == [q EXCEPT !["write"] = r]
<1>1. req \in [Conns -> [read : ReqState, write : ReqState]] /\ q \in [read : ReqState, write : ReqState]
  BY DEF TypeInv
<1>2. req' = [req EXCEPT ![c] = q2] /\ r.due = IF ms = 0 THEN Never ELSE clock + ms
  BY DEF Issue
<1> HIDE DEF r
<1>3. q2.write = r /\ q2.read = q.read
  BY <1>1
<1> HIDE DEF q2
<1> QED  BY <1>1, <1>2, <1>3

Sides(c) == ReadSide(c) /\ WriteSide(c)

\* A new connection has no request.
LEMMA CreateSides ==
  ASSUME IInv, NEW d \in Conns, SpeConnCreate(d), NEW c \in Conns
  PROVE  Sides(c)
<1>1. IInv' /\ Turns(d, FALSE, "none", "none")
  BY CreateStep
<1>2. ReadOver(d) /\ WriteSide(d)
  BY <1>1, PartsAfter DEF Turns, ReadOver, WriteSide
<1>3. CASE c # d
  BY <1>1, <1>3, OthersSides DEF Sides, Turns
<1> QED  BY <1>2, <1>3 DEF Sides, ReadSide

\* A connect starts, or is answered at once: it succeeded or left an error.
LEMMA ConnectSides ==
  ASSUME IInv, NEW d \in Conns, SpeConnConnect(d), NEW c \in Conns
  PROVE  Sides(c)
<1>1. /\ net[d].link = "fresh" /\ UNCHANGED <<loopVars, frame>>
      /\ TypeInv /\ conn[d] \in ConnState /\ conn \in [Conns -> ConnState]
      /\ net \in [Conns -> NetState] /\ net[d] \in NetState
  BY DEF SpeConnConnect, IInv, TypeInv
<1>2. CASE ConnectStarts(d)
  <2>1. IInv' /\ Turns(d, Ended(d), "connect", "none")
    BY <1>1, <1>2, ConnectStartsStep
  <2>2. CASE c = d
    BY <1>2, <2>1, <2>2, TurnsSides DEF Sides, ReadSide, ReadStarts
  <2>3. CASE c # d
    BY <2>1, <2>3, OthersSides DEF Sides, Turns
  <2> QED  BY <2>2, <2>3
<1>3. CASE ConnectReturns(d)
  <2>1. IInv'
    BY <1>1, <1>3, ConnectReturnsStep
  <2>2. PICK e : Turns(d, e, IF Accepts(sched, ReadCallback(d)) THEN "queued" ELSE "none", "none")
    BY <1>1, <1>3, ConnectReturnsStep
  <2>3. CASE c = d
    <3>1. ~ Reads(c)' /\ WriteSide(c)
      BY <2>2, <2>3, TurnsSides DEF ReadOver
    <3>2. PICK ok \in BOOLEAN :
            /\ net' = [net EXCEPT ![d].link = IF ok THEN "up" ELSE "failed"]
            /\ conn' = [conn EXCEPT ![d].Error = IF ok THEN @ ELSE 1]
      BY <1>3 DEF ConnectReturns
    <3>3. Established(d)' \/ conn'[d].Error = 1
      <4>1. CASE ok
        <5>1. net'[d].link = "up"
          BY <1>1, <3>2, <4>1 DEF NetState
        <5> QED  BY <5>1 DEF Established
      <4>2. CASE ~ ok
        BY <1>1, <3>2, <4>2 DEF ConnState
      <4> QED  BY <4>1, <4>2
    <3>4. req'[d].read.kind = "connect"
      BY <1>1, <1>3, IssueRead DEF ConnectReturns
    <3> QED  BY <2>3, <3>1, <3>3, <3>4 DEF Sides, ReadSide, ReadQueued
  <2>4. CASE c # d
    BY <2>1, <2>2, <2>4, OthersSides DEF Sides, Turns
  <2> QED  BY <2>3, <2>4
<1> QED  BY <1>2, <1>3 DEF SpeConnConnect

\* A read starts, or takes its answer out of the buffer.
LEMMA RequestSides ==
  ASSUME IInv, NEW d \in Conns, NEW c \in Conns, NEW n \in Nat,
         NEW type \in {SPE_CONN_READ, SPE_CONN_READUNTIL, SPE_CONN_READBYTES}, Request(d, type, n)
  PROVE  Sides(c)
<1>1. /\ ReadReady(d) /\ Established(d) /\ UNCHANGED net
      /\ TypeInv /\ conn[d] \in ConnState /\ conn \in [Conns -> ConnState]
  BY DEF Request, ReadReady, IInv, TypeInv
<1>2. CASE ReadAnswered(d, type, n)
  <2> DEFINE q == IF Accepts(sched, ReadCallback(d)) THEN "queued" ELSE "none"
  <2>1. IInv' /\ Turns(d, Ended(d), q, WritePart(d))
    BY <1>1, <1>2, ReadAnsweredStep
  <2>2. CASE c = d
    <3>1. ~ Reads(d)'
      BY <2>1, TurnsSides DEF ReadOver
    <3>2. PICK t \in SyncAnswer(conn[d], type, n) : conn' = [conn EXCEPT ![d].taken = t]
      BY <1>2 DEF ReadAnswered
    <3>3. t > conn[d].taken
      BY <1>1, <3>2 DEF SyncAnswer, Answer, ConnState
    <3>4. conn'[d].taken = t /\ conn'[d].writeExpireTime = conn[d].writeExpireTime
      BY <1>1, <3>2 DEF ConnState
    <3>5. /\ req'[d].read.mark = conn[d].taken
          /\ req'[d].write = req[d].write
      BY <1>1, <1>2, IssueRead DEF ReadAnswered
    <3>6. Established(d)'
      BY <1>1 DEF Established
    <3>7. ReadQueued(d)
      BY <3>1, <3>3, <3>4, <3>5, <3>6 DEF ReadQueued
    <3>8. WriteSide(d)
      BY <2>1, <3>4, <3>5, SameWrite DEF Turns
    <3> QED  BY <2>2, <3>7, <3>8 DEF Sides, ReadSide
  <2>3. CASE c # d
    BY <2>1, <2>3, OthersSides DEF Sides, Turns
  <2> QED  BY <2>2, <2>3
<1>3. CASE ReadWaits(d, type, n)
  <2>1. IInv' /\ Turns(d, Ended(d), "wait", WritePart(d))
    BY <1>1, <1>3, ReadWaitsStep
  <2>2. CASE c = d
    <3>1. conn'[d].writeExpireTime = conn[d].writeExpireTime
      BY <1>1, <1>3 DEF ReadWaits, ConnState
    <3>2. req'[d].write = req[d].write
      BY <1>1, <1>3, IssueRead DEF ReadWaits
    <3>3. WriteSide(d)
      BY <2>1, <3>1, <3>2, SameWrite DEF Turns
    <3> QED  BY <1>3, <2>2, <3>3 DEF Sides, ReadSide, ReadStarts
  <2>3. CASE c # d
    BY <2>1, <2>3, OthersSides DEF Sides, Turns
  <2> QED  BY <2>2, <2>3
<1> QED  BY <1>2, <1>3 DEF Request

\* A flush leaves the read side alone.
LEMMA FlushSides ==
  ASSUME IInv, NEW d \in Conns, SpeConnFlush(d), NEW c \in Conns
  PROVE  Sides(c)
<1>1. /\ WriteReady(d) /\ UNCHANGED net
      /\ TypeInv /\ conn[d] \in ConnState /\ conn \in [Conns -> ConnState]
  BY DEF SpeConnFlush, WriteReady, IInv, TypeInv
<1>2. PICK w : IInv' /\ Turns(d, Ended(d), ReadPart(d), w) /\ (FlushNothing(d) => w # "wait")
  BY <1>1, FlushNothingStep, FlushWaitsStep DEF SpeConnFlush
<1>3. CASE c = d
  <2>1. /\ conn'[d].taken = conn[d].taken /\ conn'[d].readExpireTime = conn[d].readExpireTime
        /\ conn'[d].Error = conn[d].Error
    BY <1>1 DEF SpeConnFlush, FlushNothing, FlushWaits, ConnState
  <2>2. req'[d].read = req[d].read
    BY <1>1, IssueWrite DEF SpeConnFlush, FlushNothing, FlushWaits
  <2>3. ReadKeeps(d)
    BY <1>1, <1>2, <2>1, <2>2, SameRead DEF Turns, Established
  <2>4. WriteSide(d)
    BY <1>2, TurnsSides DEF SpeConnFlush, WriteSide, WriteStarts
  <2> QED  BY <1>3, <2>3, <2>4 DEF Sides, ReadSide
<1>4. CASE c # d
  BY <1>2, <1>4, OthersSides DEF Sides, Turns
<1> QED  BY <1>3, <1>4

\* The calls without an answer.
LEMMA QuietSides ==
  ASSUME IInv, NEW d \in Conns, SpeConnWrite(d) \/ SpeConnSetTimeout(d), NEW c \in Conns
  PROVE  Sides(c)
<1>1. /\ UNCHANGED <<sched, req, net>> /\ conn \in [Conns -> ConnState] /\ conn[d] \in ConnState
  BY DEF SpeConnWrite, SpeConnSetTimeout, IInv, TypeInv
<1>2. /\ IInv' /\ ReadPart(c)' = ReadPart(c) /\ WritePart(c)' = WritePart(c)
  BY WriteStep, SetTimeoutStep, StaysParts
<1>3. Established(c) => Established(c)'
  BY <1>1 DEF Established
<1>4. CASE c # d
  <2>1. conn'[c] = conn[c]
    BY <1>1, <1>4 DEF SpeConnWrite, SpeConnSetTimeout
  <2> QED  BY <1>1, <1>2, <1>3, <2>1, SameSides DEF Sides
<1>5. CASE c = d /\ SpeConnWrite(d)
  <2>1. /\ conn'[d].taken = conn[d].taken /\ conn'[d].readExpireTime = conn[d].readExpireTime
        /\ conn'[d].Error = conn[d].Error /\ conn'[d].writeExpireTime = conn[d].writeExpireTime
    BY <1>1, <1>5 DEF SpeConnWrite, ConnState
  <2> QED  BY <1>1, <1>2, <1>3, <1>5, <2>1, SameRead, SameWrite DEF Sides, ReadSide
<1>6. CASE c = d /\ SpeConnSetTimeout(d)
  <2>1. /\ conn'[d].taken = conn[d].taken /\ conn'[d].Error = conn[d].Error
        /\ conn'[d].readType = SPE_CONN_READNONE /\ conn'[d].writeType = SPE_CONN_WRITENONE
    BY <1>1, <1>6 DEF SpeConnSetTimeout, ConnState
  <2>2. ~ Reads(d)' /\ ~ Writes(d)' /\ RCStatus(d)' = RCStatus(d)
    BY <1>1, <2>1 DEF Reads, Writes, RCStatus
  <2> QED  BY <1>1, <1>3, <1>6, <2>1, <2>2 DEF Sides, ReadSide, ReadKeeps, WriteSide
<1> QED  BY <1>4, <1>5, <1>6

\* SpeConnDestroy ends both.
LEMMA DestroySides ==
  ASSUME IInv, NEW d \in Conns, SpeConnDestroy(d), NEW c \in Conns
  PROVE  Sides(c)
<1>1. IInv' /\ OnlyMoves(d) /\ ~ Open(d)'
  BY DestroyStep
<1>2. CASE c = d
  BY <1>1, <1>2 DEF Sides, ReadSide, ReadOver, WriteSide, Reads, Writes, IInv, ConnInv, CallbackInv
<1>3. CASE c # d
  BY <1>1, <1>3, OthersSides DEF Sides
<1> QED  BY <1>2, <1>3

\* read() takes nothing out of the buffer.
LEMMA ReadResultsTaken ==
  ASSUME TypeInv, NEW c \in Conns, NEW k \in ReadResults(c)
  PROVE  k.taken = conn[c].taken
<1> DEFINE o == conn[c]
           a == net[c].sent - o.got
           D == [o EXCEPT !.got = @ + (IF a < BUF_SIZE THEN a ELSE BUF_SIZE)]
           E == [o EXCEPT !.Error = 1]
           F == [o EXCEPT !.Closed = 1]
           P == a > 0
<1>1. o \in ConnState
  BY DEF TypeInv
<1>2. D.taken = o.taken /\ E.taken = o.taken /\ F.taken = o.taken
  BY <1>1 DEF ConnState
<1>3. k \in CASE net[c].link = "rst" -> {E} \cup (IF P THEN {D} ELSE {})
              [] P -> {D}
              [] net[c].link = "fin" -> {F}
              [] OTHER -> {o}
  BY DEF ReadResults
<1> HIDE DEF D, E, F, P
<1>4. k \in {o, D, E, F}
  BY <1>3
<1> QED  BY <1>2, <1>4

\* connectNormal ends the connect of its connection.
LEMMA connectNormalSides ==
  ASSUME IInv, NEW d \in Conns, connectNormal(d), NEW c \in Conns
  PROVE  Sides(c)
<1>1. IInv' /\ TypeInv /\ conn \in [Conns -> ConnState] /\ conn[d] \in ConnState
  BY connectNormalStep DEF IInv, TypeInv
<1>2. PICK e : Turns(d, e, "none", WritePart(d))
  BY connectNormalStep DEF ReadReturns
<1>3. ReadOver(d)
  BY <1>2, TurnsSides
<1>4. conn'[d].writeType = SPE_CONN_WRITENONE
  BY <1>1 DEF connectNormal, ConnState
<1>5. CASE c # d
  BY <1>1, <1>2, <1>5, OthersSides DEF Sides, Turns
<1> QED  BY <1>3, <1>4, <1>5 DEF Sides, ReadSide, WriteSide, Writes

\* readNormal ends the read, or leaves the request as it is.
LEMMA readNormalSides ==
  ASSUME IInv, NEW d \in Conns, readNormal(d), NEW c \in Conns
  PROVE  Sides(c)
<1> DEFINE o == conn[d]
<1>1. IInv' /\ TypeInv /\ conn \in [Conns -> ConnState] /\ o \in ConnState
  BY readNormalStep DEF IInv, TypeInv
<1>2. /\ Runs(readTask(d)) /\ o.handler = "readNormal" /\ UNCHANGED <<loopVars, net>>
  BY DEF readNormal
<1>3. ASSUME NEW k, ReadsInto(d, k), ReadEnds(d, k) PROVE Sides(c)
  <2>1. PICK e : Turns(d, e, "none", WritePart(d))
    BY <1>2, <1>3, ReadEndsStep DEF ReadReturns
  <2>2. ReadOver(d)
    BY <2>1, TurnsSides
  <2>3. conn'[d].writeExpireTime = o.writeExpireTime
    BY <1>1, <1>3 DEF ReadsInto, ReadEnds, ConnState
  <2>4. req'[d].write = req[d].write
    <3>1. EnterCallback(d, "read")
      BY <1>3 DEF ReadEnds
    <3> QED  BY <1>1, <3>1, EnterFacts
  <2>5. WriteSide(d)
    BY <2>1, <2>3, <2>4, SameWrite DEF Turns
  <2>6. CASE c # d
    BY <1>1, <2>1, <2>6, OthersSides DEF Sides, Turns
  <2> QED  BY <2>2, <2>5, <2>6 DEF Sides, ReadSide
<1>4. CASE ReadEnds(d, [o EXCEPT !.ReadTimeout = 1])
  <2> DEFINE k == [o EXCEPT !.ReadTimeout = 1]
  <2>1. k \in ConnState
    BY <1>1, RecordUpdates
  <2>2. /\ k.readType = o.readType /\ k.writeType = o.writeType /\ k.handler = o.handler
        /\ k.rbytes = o.rbytes /\ k.readExpireTime = o.readExpireTime
        /\ k.writeExpireTime = o.writeExpireTime /\ k.Closed = o.Closed /\ k.Error = o.Error
    BY <1>1 DEF ConnState
  <2>3. ReadsInto(d, k) /\ ReadEnds(d, k)
    BY <1>4, <2>1, <2>2 DEF ReadsInto, Ended
  <2> HIDE DEF k
  <2> QED  BY <1>3, <2>3
<1>5. ASSUME NEW k \in ReadResults(d), NEW t \in Answer(k, k.readType, k.rbytes),
             ReadEnds(d, [k EXCEPT !.taken = t])
      PROVE  Sides(c)
  <2> DEFINE j == [k EXCEPT !.taken = t]
  <2>1. ReadsInto(d, k) /\ k \in ConnState
    BY <1>1, ReadResultsType DEF ReadsInto
  <2>2. t \in Nat
    BY <2>1 DEF Answer, ConnState
  <2>3. j \in ConnState
    BY <2>1, <2>2, RecordUpdates
  <2>4. /\ j.readType = k.readType /\ j.writeType = k.writeType /\ j.handler = k.handler
        /\ j.rbytes = k.rbytes /\ j.readExpireTime = k.readExpireTime
        /\ j.writeExpireTime = k.writeExpireTime /\ j.Closed = k.Closed /\ j.Error = k.Error
    BY <2>1 DEF ConnState
  <2>5. ReadsInto(d, j) /\ ReadEnds(d, j)
    BY <1>5, <2>1, <2>3, <2>4 DEF ReadsInto
  <2> HIDE DEF j
  <2> QED  BY <1>3, <2>5
<1>6. ASSUME NEW k \in ReadResults(d), ReadEnds(d, k)
      PROVE  Sides(c)
  BY <1>1, <1>3, <1>6, ReadResultsType
<1>7. ASSUME NEW k \in ReadResults(d), Answer(k, k.readType, k.rbytes) = {},
             k.Closed = 0, k.Error = 0,
             conn' = [conn EXCEPT ![d] = k], frame' = "return", UNCHANGED <<sched, epoll, req>>
      PROVE  Sides(c)
  <2>1. ReadsInto(d, k) /\ k.taken = o.taken
    BY <1>1, ReadResultsType, ReadResultsTaken
  <2>2. Stays
    BY <1>2, <1>7, <2>1, ReadGoesOn DEF Silent
  <2>3. ReadPart(c)' = ReadPart(c) /\ WritePart(c)' = WritePart(c)
    BY <2>2, StaysParts
  <2>4. /\ conn'[c].taken = conn[c].taken /\ conn'[c].readExpireTime = conn[c].readExpireTime
        /\ conn'[c].writeExpireTime = conn[c].writeExpireTime
        /\ conn[c].Error = 1 => conn'[c].Error = 1
    BY <1>1, <1>7, <2>1 DEF ReadsInto, Ended
  <2>5. Established(c) => Established(c)'
    BY <1>2 DEF Established
  <2> QED  BY <1>1, <1>7, <2>3, <2>4, <2>5, SameRead, SameWrite DEF Sides, ReadSide
<1> QED  BY <1>4, <1>5, <1>6, <1>7 DEF readNormal

\* writeNormal ends the flush or goes on; a read that waits keeps its request.
LEMMA writeNormalSides ==
  ASSUME IInv, NEW d \in Conns, writeNormal(d), NEW c \in Conns
  PROVE  Sides(c)
<1> DEFINE o == conn[d]
<1>1. IInv' /\ TypeInv /\ conn \in [Conns -> ConnState] /\ o \in ConnState
      /\ net \in [Conns -> NetState]
  BY writeNormalStep DEF IInv, TypeInv
<1>2. Established(c) => Established(c)'
  <2>1. net'[c].link = net[c].link
    BY <1>1 DEF writeNormal, NetState
  <2> QED  BY <2>1 DEF Established
<1>3. ASSUME NEW k, \/ k = [o EXCEPT !.WriteTimeout = 1] \/ k = [o EXCEPT !.Closed = 1]
                    \/ k = [o EXCEPT !.Error = 1]
                    \/ \E x : k = [o EXCEPT !.writeBuffer = x]
      PROVE  /\ k.taken = o.taken /\ k.readExpireTime = o.readExpireTime
             /\ k.writeExpireTime = o.writeExpireTime /\ k.Error \in {1, o.Error}
             /\ [k EXCEPT !.writeType = SPE_CONN_WRITENONE].taken = o.taken
             /\ [k EXCEPT !.writeType = SPE_CONN_WRITENONE].readExpireTime = o.readExpireTime
             /\ [k EXCEPT !.writeType = SPE_CONN_WRITENONE].writeExpireTime = o.writeExpireTime
             /\ [k EXCEPT !.writeType = SPE_CONN_WRITENONE].Error \in {1, o.Error}
  BY <1>1, <1>3 DEF ConnState
<1>4. \E k : /\ \/ k = [o EXCEPT !.WriteTimeout = 1] \/ k = [o EXCEPT !.Closed = 1]
                \/ k = [o EXCEPT !.Error = 1]
                \/ \E x : k = [o EXCEPT !.writeBuffer = x]
             /\ \/ WriteEnds(d, k)
                \/ conn' = [conn EXCEPT ![d] = k] /\ UNCHANGED req
  BY DEF writeNormal
<1>5. /\ conn'[c].taken = conn[c].taken /\ conn'[c].readExpireTime = conn[c].readExpireTime
      /\ conn'[c].writeExpireTime = conn[c].writeExpireTime
      /\ conn[c].Error = 1 => conn'[c].Error = 1
  <2>1. PICK k : /\ \/ k = [o EXCEPT !.WriteTimeout = 1] \/ k = [o EXCEPT !.Closed = 1]
                    \/ k = [o EXCEPT !.Error = 1]
                    \/ \E x : k = [o EXCEPT !.writeBuffer = x]
                 /\ \/ WriteEnds(d, k)
                    \/ conn' = [conn EXCEPT ![d] = k] /\ UNCHANGED req
    BY <1>4
  <2> DEFINE j == [k EXCEPT !.writeType = SPE_CONN_WRITENONE]
  <2>2. conn' = [conn EXCEPT ![d] = k] \/ conn' = [conn EXCEPT ![d] = j]
    BY <2>1 DEF WriteEnds
  <2>3. /\ k.taken = o.taken /\ k.readExpireTime = o.readExpireTime
        /\ k.writeExpireTime = o.writeExpireTime /\ k.Error \in {1, o.Error}
        /\ j.taken = o.taken /\ j.readExpireTime = o.readExpireTime
        /\ j.writeExpireTime = o.writeExpireTime /\ j.Error \in {1, o.Error}
    BY <1>3, <2>1
  <2> HIDE DEF j
  <2> QED  BY <1>1, <2>2, <2>3
<1>6. req'[d].read = req[d].read /\ \A b \in Conns \ {d} : req'[b] = req[b]
  BY <1>1, <1>4, EnterFacts DEF WriteEnds
<1>7. CASE WriteReturns(d)
  <2>1. PICK e : Turns(d, e, ReadPart(d), "none")
    BY <1>7 DEF WriteReturns
  <2>2. WriteSide(d)
    BY <2>1, TurnsSides
  <2>3. CASE c = d
    BY <1>1, <1>2, <1>5, <1>6, <2>1, <2>2, <2>3, SameRead DEF Sides, ReadSide, Turns
  <2>4. CASE c # d
    BY <1>1, <2>1, <2>4, OthersSides DEF Sides, Turns
  <2> QED  BY <2>3, <2>4
<1>8. CASE Silent
  <2>1. ReadPart(c)' = ReadPart(c) /\ WritePart(c)' = WritePart(c)
    BY <1>8, StaysParts DEF Silent
  <2>2. req'[c] = req[c]
    BY <1>8 DEF writeNormal, WriteEnds, EnterCallback, Silent
  <2> QED  BY <1>1, <1>2, <1>5, <2>1, <2>2, SameRead, SameWrite DEF Sides, ReadSide
<1> QED  BY <1>7, <1>8, writeNormalStep

\* A task starts: if it is a callback of c, its request is over.
LEMMA RunSides ==
  ASSUME IInv, RunTask, NEW c \in Conns
  PROVE  Sides(c)
<1>1. IInv' /\ TypeInv /\ UNCHANGED <<conn, net>>
  BY RunStep DEF IInv, RunTask
<1>2. Established(c) => Established(c)'
  BY <1>1 DEF Established
<1>3. CASE frame' = "body" /\ Stays
  <2>1. UNCHANGED req
    BY <1>3 DEF RunTask, EnterCallback
  <2> QED  BY <1>1, <1>2, <1>3, <2>1, StaysParts, SameSides DEF Sides
<1>4. ASSUME NEW d \in Conns, ReadCalls(d) PROVE Sides(c)
  <2>1. Turns(d, Ended(d), "none", WritePart(d))
    BY <1>4 DEF ReadCalls
  <2>2. EnterCallback(d, "read")
    <3>1. running' = ReadCallback(d) /\ frame' = "user"
      BY <1>4 DEF ReadCalls
    <3>2. PICK b \in Conns : \/ running' = ReadCallback(b) /\ EnterCallback(b, "read")
                             \/ running' = WriteCallback(b)
      BY <3>1 DEF RunTask
    <3>3. b = d
      BY <3>1, <3>2, FourDiffer DEF ReadCallback
    <3> QED  BY <3>1, <3>2, <3>3, FourDiffer
  <2>3. req'[d].write = req[d].write
    BY <1>1, <2>2, EnterFacts
  <2>4. ReadOver(d) /\ WriteSide(d)
    BY <1>1, <2>1, <2>3, TurnsSides, SameWrite DEF Turns
  <2>5. CASE c # d
    BY <1>1, <2>1, <2>5, OthersSides DEF Sides, Turns
  <2> QED  BY <2>4, <2>5 DEF Sides, ReadSide
<1>5. ASSUME NEW d \in Conns, WriteCalls(d) PROVE Sides(c)
  <2>1. Turns(d, Ended(d), ReadPart(d), "none")
    BY <1>5 DEF WriteCalls
  <2>2. EnterCallback(d, "write")
    <3>1. running' = WriteCallback(d) /\ frame' = "user"
      BY <1>5 DEF WriteCalls
    <3>2. PICK b \in Conns : \/ running' = ReadCallback(b)
                             \/ running' = WriteCallback(b) /\ EnterCallback(b, "write")
      BY <3>1 DEF RunTask
    <3>3. b = d
      BY <3>1, <3>2, FourDiffer DEF WriteCallback
    <3> QED  BY <3>1, <3>2, <3>3, FourDiffer
  <2>3. req'[d].read = req[d].read
    BY <1>1, <2>2, EnterFacts
  <2>4. ReadKeeps(d) /\ WriteSide(d)
    BY <1>1, <2>1, <2>3, TurnsSides, SameRead DEF Turns, Established
  <2>5. CASE c # d
    BY <1>1, <2>1, <2>5, OthersSides DEF Sides, Turns
  <2> QED  BY <2>4, <2>5 DEF Sides, ReadSide
<1> QED  BY <1>3, <1>4, <1>5, RunStep

\* Every step, seen from the requests of one connection.
LEMMA StepSides ==
  ASSUME IInv, [Next]_vars, NEW c \in Conns
  PROVE  Sides(c)
<1>1. ASSUME NEW d \in Conns, Api(d) PROVE Sides(c)
  <2>1. CASE SpeConnReaduntil(d) \/ SpeConnReadbytes(d) \/ SpeConnRead(d)
    <3>1. 0 \in Nat /\ 1 .. MaxSent \subseteq Nat
      BY BoundsAssumption
    <3> QED  BY <2>1, <3>1, RequestSides DEF SpeConnReaduntil, SpeConnReadbytes, SpeConnRead
  <2> QED  BY <1>1, <2>1, CreateSides, ConnectSides, FlushSides, QuietSides, DestroySides DEF Api
<1>2. ASSUME NEW d \in Conns, Handlers(d) PROVE Sides(c)
  BY <1>2, connectNormalSides, readNormalSides, writeNormalSides DEF Handlers
<1>3. ASSUME UNCHANGED <<conn, req>>, Established(c) => Established(c)', Stays PROVE Sides(c)
  BY <1>3, NextStep, StaysParts, SameSides DEF Sides
<1>4. ASSUME NEW d \in Conns, Peer(d) PROVE Sides(c)
  <2>1. UNCHANGED <<conn, req>> /\ Stays /\ net \in [Conns -> NetState]
    BY <1>4, PeerStep DEF Peer, PeerSend, PeerDrains, PeerClose, PeerReset, ConnectDone, ConnectFails,
         NetStep, IInv, TypeInv
  <2>2. PICK n : net' = [net EXCEPT ![d] = n] /\ (Established(d) => n.link \in {"up", "fin", "rst"})
    BY <1>4, <2>1 DEF Peer, PeerSend, PeerDrains, PeerClose, PeerReset, ConnectDone, ConnectFails,
         NetStep, Established, NetState
  <2>3. Established(c) => Established(c)'
    BY <2>1, <2>2 DEF Established
  <2> QED  BY <1>3, <2>1, <2>3
<1>5. CASE \/ EpollReports \/ EpollInterrupted \/ (\E d \in Conns : EpollDispatches(d))
           \/ BeginTaskProcess \/ TaskProcess \/ HandlerReturn \/ Tick
  <2>1. UNCHANGED <<conn, req, net>>
    BY <1>5 DEF EpollReports, EpollInterrupted, EpollDispatches, BeginTaskProcess, TaskProcess,
         HandlerReturn, Tick, connVars
  <2>2. Stays
    BY <1>5, PollStep, DispatchStep, BeginStep, TaskProcessStep, ReturnStep, TickStep
  <2> QED  BY <1>3, <2>1, <2>2 DEF Established
<1>6. CASE UNCHANGED vars
  <2>1. UNCHANGED <<sched, conn, req, net>>
    BY <1>6 DEF vars, connVars
  <2>2. ReadPart(c)' = ReadPart(c) /\ WritePart(c)' = WritePart(c)
    BY <2>1 DEF ReadPart, WritePart, Open, Connects, Pending
  <2> QED  BY <2>1, <2>2, NextStep, SameSides DEF Sides, Established
<1> QED  BY <1>1, <1>2, <1>4, <1>5, <1>6, RunSides DEF Next, Loop

-----------------------------------------------------------------------------
(* The invariant behind the answers: what is known of a request that waits  *)
(* or whose callback is queued.                                             *)

\* A timer armed for t is armed for the time due, and a flag says it has come.
OnTime(s, now, t, due) ==
  /\ due \in Nat
  /\ s.status[t] = SPE_TASK_TIMER => s.expire[t] = due
  /\ s.Timeout[t] = 1 => due <= now

\* The timer of a request is that of this request, and so is its flag.
DueInv(c) ==
  /\ Reads(c) /\ conn[c].readExpireTime # 0 =>
       OnTime(sched, clock, readTask(c), req[c].read.due)
  /\ Writes(c) /\ ~ Connects(c) /\ conn[c].writeExpireTime # 0 =>
       OnTime(sched, clock, writeTask(c), req[c].write.due)

\* The handler installed is that of the request, and nothing was taken yet.
KindInv(c) ==
  Reads(c) => /\ req[c].read.kind = IF Connects(c) THEN "connect" ELSE "read"
              /\ ~ Connects(c) => req[c].read.mark = conn[c].taken

\* A callback that is queued has something to say.
AnswerInv(c) ==
  RCStatus(c) = SPE_TASK_QUEUE =>
    /\ req[c].read.kind = "read" => conn[c].taken > req[c].read.mark
    /\ Established(c) \/ conn[c].Error = 1

\* A connect that has not been decided is woken by its timer only: the kernel
\* has nothing to report of it.
LinkInv(c) ==
  /\ net[c].link \in {"fresh", "connecting"} => net[c].sent = 0
  /\ events[c] # {} => frame = "polled" /\ pc = "poll" /\ net[c].link # "connecting"
  /\ RWorks(c) /\ net[c].link = "connecting" => ReadTimedOut(c)

CallInv == IInv /\ \A c \in Conns : DueInv(c) /\ KindInv(c) /\ AnswerInv(c) /\ LinkInv(c)

\* Time does not run backwards.
LEMMA ClockAdvances ==
  ASSUME IInv, [Next]_vars
  PROVE  clock \in Nat /\ clock' \in Nat /\ clock <= clock'
<1>1. clock \in Nat /\ clock' \in Nat
  BY NextStep DEF IInv, TaskInv
<1>2. ASSUME NEW c \in Conns, Api(c) \/ Peer(c) PROVE clock' = clock
  <2>1. ASSUME SpeConnReaduntil(c) \/ SpeConnReadbytes(c) \/ SpeConnRead(c) PROVE clock' = clock
    BY <2>1, SMTT(30) DEF SpeConnReaduntil, SpeConnReadbytes, SpeConnRead, Request, loopVars, threadVars
  <2>2. ASSUME \/ SpeConnCreate(c) \/ SpeConnConnect(c) \/ SpeConnWrite(c) \/ SpeConnFlush(c)
               \/ SpeConnSetTimeout(c) \/ SpeConnDestroy(c)
        PROVE  clock' = clock
    BY <2>2 DEF SpeConnCreate, SpeConnConnect, SpeConnWrite, SpeConnFlush, SpeConnSetTimeout,
         SpeConnDestroy, loopVars, threadVars
  <2>3. ASSUME Peer(c) PROVE clock' = clock
    BY <2>3 DEF Peer, PeerSend, PeerDrains, PeerClose, PeerReset, ConnectDone, ConnectFails, NetStep,
         loopVars, threadVars
  <2> QED  BY <1>2, <2>1, <2>2, <2>3 DEF Api
<1>3. ASSUME NEW c \in Conns, Handlers(c) \/ EpollDispatches(c) PROVE clock' = clock
  <2>1. ASSUME connectNormal(c) PROVE clock' = clock
    BY <2>1 DEF connectNormal, loopVars, threadVars
  <2>2. ASSUME readNormal(c) PROVE clock' = clock
    BY <2>2 DEF readNormal, loopVars, threadVars
  <2>3. ASSUME writeNormal(c) PROVE clock' = clock
    BY <2>3 DEF writeNormal, loopVars, threadVars
  <2>4. ASSUME EpollDispatches(c) PROVE clock' = clock
    BY <2>4 DEF EpollDispatches, threadVars
  <2> QED  BY <1>3, <2>1, <2>2, <2>3, <2>4 DEF Handlers
<1>4. CASE EpollReports \/ EpollInterrupted \/ UNCHANGED vars
  BY <1>1, <1>4 DEF EpollReports, EpollInterrupted, vars, loopVars, threadVars
<1>5. CASE BeginTaskProcess \/ RunTask \/ HandlerReturn
  BY <1>1, <1>5 DEF BeginTaskProcess, RunTask, HandlerReturn, Task!BeginTaskProcess, Task!RunTask,
       Task!HandlerReturn
<1>6. CASE TaskProcess
  BY <1>1, <1>6 DEF TaskProcess, Task!FireTimer, Task!TimersDone, Task!EndTaskProcess
<1>7. CASE Tick
  <2>1. clock' = clock + 1
    BY <1>7 DEF Tick, Task!Tick
  <2> QED  BY <1>1, <2>1
<1> QED  BY <1>1, <1>2, <1>3, <1>4, <1>5, <1>6, <1>7 DEF Next, Loop

\* What the first step of a read or a connect leaves.
ReadStarted(c) ==
  /\ UserRuns /\ UNCHANGED <<running, frame>>
  /\ RStatus(c) \notin {SPE_TASK_TIMER, SPE_TASK_QUEUE}
  /\ sched' = StartTimer(ClearTimeout(sched, readTask(c)), readTask(c), conn[c].readExpireTime)
  /\ conn'[c].readExpireTime = conn[c].readExpireTime
  /\ Reads(c)'
  /\ req'[c].read.due = IF conn[c].readExpireTime = 0 THEN Never ELSE clock + conn[c].readExpireTime
  /\ req'[c].read.kind = IF Connects(c)' THEN "connect" ELSE "read"
  /\ ~ Connects(c)' => req'[c].read.mark = conn'[c].taken
  /\ Established(c) \/ net[c].link = "fresh"
  /\ Established(c) => net' = net

\* Both kinds of request leave it.
LEMMA ReadStartsFacts ==
  ASSUME IInv, NEW c \in Conns, ReadStarts(c)
  PROVE  ReadStarted(c)
<1>1. /\ TypeInv /\ conn \in [Conns -> ConnState] /\ conn[c] \in ConnState
      /\ net \in [Conns -> NetState] /\ ConnInv(c)
  BY DEF IInv, TypeInv
<1>2. CASE SpeConnConnect(c) /\ ConnectStarts(c)
  <2>1. /\ UserRuns /\ UNCHANGED <<running, frame>> /\ net[c].link = "fresh"
        /\ sched' = StartTimer(ClearTimeout(sched, readTask(c)), readTask(c), conn[c].readExpireTime)
        /\ \E a : Issue(c, "read", "connect", a, conn[c].readExpireTime, 0)
    BY <1>2 DEF SpeConnConnect, ConnectStarts, loopVars, threadVars
  <2>2. /\ conn'[c].readExpireTime = conn[c].readExpireTime
        /\ conn'[c].readType = SPE_CONN_CONNECT /\ conn'[c].handler = "connectNormal"
    BY <1>1, <1>2 DEF ConnectStarts, ConnState
  <2>3. Connects(c)'
    BY <2>2 DEF Connects, SPE_CONN_CONNECT, SPE_CONN_READNONE
  <2>4. RStatus(c) \notin {SPE_TASK_TIMER, SPE_TASK_QUEUE}
    BY <1>1, <2>1 DEF ConnInv, QuietInv, TimerInv, WorkInv, RWorks
  <2>5. net'[c].link = "connecting"
    BY <1>1, <1>2 DEF ConnectStarts, NetState
  <2>6. Open(c)' /\ ~ Established(c)
    BY <2>1, <2>5 DEF Open, Established
  <2>7. /\ req'[c].read.kind = "connect" /\ req'[c].read.due =
              IF conn[c].readExpireTime = 0 THEN Never ELSE clock + conn[c].readExpireTime
    BY <1>1, <2>1, IssueRead
  <2> QED  BY <2>1, <2>2, <2>3, <2>4, <2>6, <2>7
           DEF ReadStarted, Reads, SPE_CONN_CONNECT, SPE_CONN_READNONE
<1>3. ASSUME NEW type \in {SPE_CONN_READ, SPE_CONN_READUNTIL, SPE_CONN_READBYTES}, NEW n \in Nat,
             Request(c, type, n), ReadWaits(c, type, n)
      PROVE  ReadStarted(c)
  <2>1. /\ UserRuns /\ UNCHANGED <<running, frame, net>> /\ Established(c)
        /\ conn[c].readType = SPE_CONN_READNONE /\ ~ req[c].read.owed
        /\ sched' = StartTimer(ClearTimeout(sched, readTask(c)), readTask(c), conn[c].readExpireTime)
        /\ \E a : Issue(c, "read", "read", a, conn[c].readExpireTime, conn[c].taken)
    BY <1>3 DEF Request, ReadWaits, loopVars, threadVars
  <2>2. /\ conn'[c].readExpireTime = conn[c].readExpireTime /\ conn'[c].taken = conn[c].taken
        /\ conn'[c].readType = type /\ conn'[c].handler = "readNormal"
    BY <1>1, <1>3 DEF ReadWaits, ConnState
  <2>3. ~ Connects(c)' /\ type # SPE_CONN_READNONE
    BY <2>2 DEF Connects, SPE_CONN_READNONE, SPE_CONN_READ, SPE_CONN_READUNTIL, SPE_CONN_READBYTES
  <2>4. RStatus(c) \notin {SPE_TASK_TIMER, SPE_TASK_QUEUE}
    BY <1>1, <2>1, NoRead
  <2>5. Open(c)'
    BY <2>1, LinkStays
  <2>6. /\ req'[c].read.kind = "read" /\ req'[c].read.mark = conn[c].taken /\ req'[c].read.due =
              IF conn[c].readExpireTime = 0 THEN Never ELSE clock + conn[c].readExpireTime
    BY <1>1, <2>1, IssueRead
  <2> QED  BY <2>1, <2>2, <2>3, <2>4, <2>5, <2>6 DEF ReadStarted, Reads
<1> QED  BY <1>2, <1>3 DEF ReadStarts

\* A task names its connection.
LEMMA OwnTasks ==
  ASSUME NEW c, NEW d
  PROVE  /\ readTask(c) = readTask(d) => c = d
         /\ writeTask(c) = writeTask(d) => c = d
         /\ ReadCallback(c) = ReadCallback(d) => c = d
         /\ WriteCallback(c) = WriteCallback(d) => c = d
BY DEF readTask, writeTask, ReadCallback, WriteCallback

\* Keeping a task, firing or waking it keeps it on time.
LEMMA OnTimeStays ==
  ASSUME IInv, [Next]_vars, NEW t \in ConnTasks, NEW due, OnTime(sched, clock, t, due),
         Keeps(sched, sched', t) \/ Fires(t) \/ Wakes(t)
  PROVE  OnTime(sched', clock', t, due)
<1>1. clock \in Nat /\ clock' \in Nat /\ clock <= clock'
  BY ClockAdvances
<1>2. CASE Keeps(sched, sched', t)
  BY <1>1, <1>2 DEF Keeps, OnTime
<1>3. CASE Fires(t)
  BY <1>1, <1>3 DEF Fires, OnTime, SPE_TASK_TIMER, SPE_TASK_QUEUE
<1>4. CASE Wakes(t)
  BY <1>1, <1>4 DEF Wakes, OnTime
<1> QED  BY <1>2, <1>3, <1>4

\* A request that begins to wait is on time.
LEMMA OnTimeStarts ==
  ASSUME IInv, [Next]_vars, NEW t \in ConnTasks, NEW ms \in Nat \ {0},
         sched.status[t] # SPE_TASK_TIMER,
         sched' = StartTimer(ClearTimeout(sched, t), t, ms)
  PROVE  OnTime(sched', clock', t, clock + ms)
<1>1. clock \in Nat /\ SchedInv(sched)
  BY DEF IInv, TaskInv
<1>2. /\ sched'.Timeout[t] = 0
      /\ sched'.status[t] = SPE_TASK_TIMER => sched'.expire[t] = clock + ms
  BY <1>1, ArmKeeps
<1> QED  BY <1>1, <1>2 DEF OnTime

\* DueInv, of the read side.
LEMMA ReadDueStep ==
  ASSUME CallInv, [Next]_vars, NEW c \in Conns, Reads(c)', conn'[c].readExpireTime # 0
  PROVE  OnTime(sched', clock', readTask(c), req'[c].read.due)
<1> DEFINE t == readTask(c)
<1>1. /\ IInv /\ DueInv(c) /\ t \in ConnTasks /\ ReadSide(c) /\ TimerSide(t)
      /\ conn[c].readExpireTime \in Nat
  BY StepSides, WhoTimes, FourAreTasks DEF CallInv, Four, Sides, IInv, TypeInv, ConnState
<1>2. CASE ReadStarts(c)
  <2>1. ReadStarted(c)
    BY <1>1, <1>2, ReadStartsFacts
  <2>2. OnTime(sched', clock', t, clock + conn[c].readExpireTime)
    BY <1>1, <2>1, OnTimeStarts DEF ReadStarted, RStatus
  <2> QED  BY <2>1, <2>2 DEF ReadStarted
<1>3. CASE ~ ReadStarts(c)
  <2>1. ReadKeeps(c)
    BY <1>1, <1>3 DEF ReadSide, ReadOver, ReadQueued
  <2>2. OnTime(sched, clock, t, req[c].read.due) /\ req'[c].read = req[c].read
    BY <1>1, <2>1 DEF ReadKeeps, DueInv
  <2>3. Keeps(sched, sched', t) \/ Fires(t) \/ Wakes(t)
    <3>1. ASSUME NEW d \in Conns, \/ t = readTask(d) /\ ReadStarts(d)
                                  \/ t = writeTask(d) /\ WriteStarts(d)
          PROVE  FALSE
      <4>1. d = c /\ t # writeTask(d)
        BY <3>1, FourDiffer, OwnTasks
      <4> QED  BY <1>3, <3>1, <4>1
    <3> QED  BY <1>1, <3>1 DEF TimerSide
  <2> QED  BY <1>1, <2>2, <2>3, OnTimeStays
<1> QED  BY <1>2, <1>3

\* DueInv, of the write side.
LEMMA WriteDueStep ==
  ASSUME CallInv, [Next]_vars, NEW c \in Conns, Writes(c)', ~ Connects(c)',
         conn'[c].writeExpireTime # 0
  PROVE  OnTime(sched', clock', writeTask(c), req'[c].write.due)
<1> DEFINE t == writeTask(c)
<1>1. /\ IInv /\ DueInv(c) /\ t \in ConnTasks /\ WriteSide(c) /\ TimerSide(t)
      /\ conn[c].writeExpireTime \in Nat /\ conn[c] \in ConnState /\ TypeInv /\ ConnInv(c)
      /\ conn \in [Conns -> ConnState]
  BY StepSides, WhoTimes, FourAreTasks DEF CallInv, Four, Sides, IInv, TypeInv, ConnState
<1>2. CASE WriteStarts(c)
  <2>1. /\ Established(c) /\ conn[c].writeType = SPE_CONN_WRITENONE /\ ~ req[c].write.owed
        /\ sched' = StartTimer(ClearTimeout(sched, t), t, conn[c].writeExpireTime)
        /\ \E a : Issue(c, "write", "write", a, conn[c].writeExpireTime, 0)
    BY <1>2 DEF WriteStarts, SpeConnFlush, FlushWaits
  <2>2. conn'[c].writeExpireTime = conn[c].writeExpireTime
    BY <1>1, <1>2 DEF WriteStarts, FlushWaits, ConnState
  <2>3. req'[c].write.due = clock + conn[c].writeExpireTime
    BY <1>1, <2>1, <2>2, IssueWrite
  <2>4. sched.status[t] # SPE_TASK_TIMER
    BY <1>1, <2>1, NoWrite DEF WStatus
  <2>5. OnTime(sched', clock', t, clock + conn[c].writeExpireTime)
    BY <1>1, <2>1, <2>2, <2>4, OnTimeStarts
  <2> QED  BY <2>3, <2>5
<1>3. CASE ~ WriteStarts(c)
  <2>1. /\ Writes(c) /\ ~ Connects(c) /\ req'[c].write = req[c].write
        /\ conn'[c].writeExpireTime = conn[c].writeExpireTime
    BY <1>1, <1>3 DEF WriteSide
  <2>2. OnTime(sched, clock, t, req[c].write.due)
    BY <1>1, <2>1 DEF DueInv
  <2>3. Keeps(sched, sched', t) \/ Fires(t) \/ Wakes(t)
    <3>1. ASSUME NEW d \in Conns, \/ t = readTask(d) /\ ReadStarts(d)
                                  \/ t = writeTask(d) /\ WriteStarts(d)
          PROVE  FALSE
      <4>1. d = c /\ t # readTask(d)
        BY <3>1, FourDiffer, OwnTasks
      <4> QED  BY <1>3, <3>1, <4>1
    <3> QED  BY <1>1, <3>1 DEF TimerSide
  <2> QED  BY <1>1, <2>1, <2>2, <2>3, OnTimeStays
<1> QED  BY <1>2, <1>3

\* KindInv and AnswerInv.
LEMMA AnswerStep ==
  ASSUME CallInv, [Next]_vars, NEW c \in Conns
  PROVE  KindInv(c)' /\ AnswerInv(c)'
<1>1. IInv /\ IInv' /\ KindInv(c) /\ AnswerInv(c) /\ ReadSide(c)
  BY StepSides, NextStep DEF CallInv, Sides
<1>2. CASE ReadStarts(c)
  <2>1. ReadStarted(c)
    BY <1>1, <1>2, ReadStartsFacts
  <2>2. KindInv(c)'
    BY <2>1 DEF ReadStarted, KindInv
  <2>3. RCStatus(c)' # SPE_TASK_QUEUE
    BY <1>1, <2>1 DEF ReadStarted, IInv, ConnInv, CallbackInv
  <2> QED  BY <2>2, <2>3 DEF AnswerInv
<1>3. CASE ReadKeeps(c)
  BY <1>1, <1>3 DEF ReadKeeps, KindInv, AnswerInv
<1>4. CASE ReadOver(c)
  BY <1>4 DEF ReadOver, KindInv, AnswerInv
<1>5. CASE ReadQueued(c)
  BY <1>5 DEF ReadQueued, KindInv, AnswerInv
<1> QED  BY <1>1, <1>2, <1>3, <1>4, <1>5 DEF ReadSide

\* The program and the peers leave the main loop where it is; the handlers
\* leave the events.
LEMMA CallsAndLoop ==
  ASSUME NEW c \in Conns
  PROVE  /\ Api(c) \/ Peer(c) => frame' = frame /\ running' = running /\ pc' = pc /\ events' = events
         /\ Handlers(c) => frame = "body" /\ frame' \in {"user", "return"} /\ events' = events
<1>1. ASSUME SpeConnReaduntil(c) \/ SpeConnReadbytes(c) \/ SpeConnRead(c)
      PROVE  frame' = frame /\ running' = running /\ pc' = pc /\ events' = events
  BY <1>1, SMTT(30) DEF SpeConnReaduntil, SpeConnReadbytes, SpeConnRead, Request, loopVars, threadVars
<1>2. ASSUME \/ SpeConnCreate(c) \/ SpeConnConnect(c) \/ SpeConnWrite(c) \/ SpeConnFlush(c)
             \/ SpeConnSetTimeout(c) \/ SpeConnDestroy(c)
      PROVE  frame' = frame /\ running' = running /\ pc' = pc /\ events' = events
  BY <1>2 DEF SpeConnCreate, SpeConnConnect, SpeConnWrite, SpeConnFlush, SpeConnSetTimeout,
       SpeConnDestroy, loopVars, threadVars
<1>3. ASSUME Peer(c) PROVE frame' = frame /\ running' = running /\ pc' = pc /\ events' = events
  BY <1>3 DEF Peer, PeerSend, PeerDrains, PeerClose, PeerReset, ConnectDone, ConnectFails, NetStep,
       loopVars, threadVars
<1>4. ASSUME connectNormal(c) PROVE frame = "body" /\ frame' \in {"user", "return"} /\ events' = events
  BY <1>4 DEF connectNormal, Runs, EnterCallback, loopVars
<1>5. ASSUME readNormal(c) PROVE frame = "body" /\ frame' \in {"user", "return"} /\ events' = events
  BY <1>5 DEF readNormal, ReadEnds, Runs, EnterCallback, loopVars
<1>6. ASSUME writeNormal(c) PROVE frame = "body" /\ frame' \in {"user", "return"} /\ events' = events
  BY <1>6 DEF writeNormal, WriteEnds, Runs, EnterCallback, loopVars
<1> QED  BY <1>1, <1>2, <1>3, <1>4, <1>5, <1>6 DEF Api, Handlers

Polled == frame = "polled" /\ pc = "poll"

\* What a step does to the events of c, and when a body is entered.
EventSide(c) ==
  /\ frame' = "body" => (frame = "body" /\ running' = running) \/ RunTask
  /\ \/ events'[c] = events[c] /\ (Polled => Polled')
     \/ events'[c] = {}
     \/ EpollReports

\* Bodies are entered by the run loop only; events come from epoll_wait only
\* and stay until they are handled.
LEMMA StepEvents ==
  ASSUME IInv, [Next]_vars, NEW c \in Conns
  PROVE  EventSide(c)
<1>1. ASSUME NEW d \in Conns, Api(d) \/ Peer(d) PROVE EventSide(c)
  BY <1>1, CallsAndLoop DEF EventSide, Polled
<1>2. ASSUME NEW d \in Conns, Handlers(d) PROVE EventSide(c)
  BY <1>2, CallsAndLoop DEF EventSide, Polled
<1>3. ASSUME NEW d \in Conns, EpollDispatches(d) PROVE EventSide(c)
  BY <1>3 DEF EventSide, Polled, EpollDispatches, threadVars, IInv, TypeInv
<1>4. CASE EpollReports
  BY <1>4 DEF EventSide, EpollReports
<1>5. CASE EpollInterrupted \/ BeginTaskProcess
  BY <1>5 DEF EventSide, EpollInterrupted, BeginTaskProcess, loopVars, Polled
<1>6. CASE TaskProcess
  <2>1. frame' = frame /\ running' = running /\ events' = events /\ pc \in {"timers", "run"}
    BY <1>6 DEF TaskProcess, Task!FireTimer, Task!TimersDone, Task!EndTaskProcess
  <2> QED  BY <2>1 DEF EventSide, Polled
<1>7. CASE RunTask
  BY <1>7 DEF EventSide, Polled, RunTask, Task!RunTask
<1>8. CASE HandlerReturn
  BY <1>8 DEF EventSide, Polled, HandlerReturn, Task!HandlerReturn
<1>9. CASE Tick \/ UNCHANGED vars
  BY <1>9 DEF EventSide, Polled, Tick, Task!Tick, vars, loopVars, threadVars
<1> QED  BY <1>1, <1>2, <1>3, <1>4, <1>5, <1>6, <1>7, <1>8, <1>9 DEF Next, Loop

\* What a step does to the socket of c, as long as it is not connected.
NetSide(c) ==
  \/ net'[c].link = net[c].link /\ net'[c].sent = net[c].sent
  \/ net'[c].link \notin {"fresh", "connecting"}
  \/ net'[c].link = "fresh" /\ net'[c].sent = 0
  \/ ReadStarts(c) /\ net[c].link = "fresh" /\ net'[c].sent = net[c].sent

\* A socket is new, or begins to connect, or is decided.
LEMMA StepNet ==
  ASSUME IInv, [Next]_vars, NEW c \in Conns
  PROVE  NetSide(c)
<1>1. net \in [Conns -> NetState] /\ net[c] \in NetState
  BY DEF IInv, TypeInv
<1>2. net'[c] = net[c] => NetSide(c)
  BY DEF NetSide
<1>3. ASSUME NEW d \in Conns, SpeConnCreate(d) PROVE NetSide(c)
  <2>1. PICK link \in {"up", "fresh"} : net' = [net EXCEPT ![d] = Socket(link)]
    BY <1>3 DEF SpeConnCreate
  <2>2. Socket(link).link = link /\ Socket(link).sent = 0
    BY DEF Socket
  <2> QED  BY <1>1, <1>2, <2>1, <2>2 DEF NetSide
<1>4. ASSUME NEW d \in Conns, SpeConnConnect(d) PROVE NetSide(c)
  <2>1. CASE c # d
    BY <1>1, <1>2, <1>4, <2>1 DEF SpeConnConnect, ConnectStarts, ConnectReturns
  <2>2. CASE c = d /\ ConnectStarts(d)
    BY <1>1, <1>4, <2>2 DEF NetSide, ReadStarts, SpeConnConnect, ConnectStarts, NetState
  <2>3. CASE c = d /\ ConnectReturns(d)
    <3>1. PICK ok \in BOOLEAN : net' = [net EXCEPT ![d].link = IF ok THEN "up" ELSE "failed"]
      BY <2>3 DEF ConnectReturns
    <3>2. net'[c].link \in {"up", "failed"}
      BY <1>1, <2>3, <3>1 DEF NetState
    <3> QED  BY <3>2 DEF NetSide
  <2> QED  BY <1>4, <2>1, <2>2, <2>3 DEF SpeConnConnect
<1>5. ASSUME NEW d \in Conns, SpeConnDestroy(d) PROVE NetSide(c)
  <2>1. net' = [net EXCEPT ![d] = Socket("none")] /\ Socket("none").link = "none"
    BY <1>5 DEF SpeConnDestroy, Socket
  <2> QED  BY <1>1, <1>2, <2>1 DEF NetSide
<1>6. ASSUME NEW d \in Conns, Api(d) PROVE NetSide(c)
  BY <1>2, <1>3, <1>4, <1>5, <1>6
     DEF Api, SpeConnReaduntil, SpeConnReadbytes, SpeConnRead, Request, SpeConnWrite, SpeConnFlush,
         SpeConnSetTimeout
<1>7. ASSUME NEW d \in Conns, Peer(d) PROVE NetSide(c)
  <2>1. CASE c = d
    BY <1>1, <1>7, <2>1 DEF NetSide, Peer, PeerSend, PeerDrains, PeerClose, PeerReset, ConnectDone,
         ConnectFails, NetStep, NetState
  <2>2. CASE c # d
    BY <1>1, <1>2, <1>7, <2>2 DEF Peer, PeerSend, PeerDrains, PeerClose, PeerReset, ConnectDone,
         ConnectFails, NetStep
  <2> QED  BY <2>1, <2>2
<1>8. ASSUME NEW d \in Conns, Handlers(d) PROVE NetSide(c)
  <2>1. CASE connectNormal(d) \/ readNormal(d)
    BY <1>2, <2>1 DEF connectNormal, readNormal
  <2>2. CASE writeNormal(d)
    <3>1. \/ net' = net
          \/ \E room : net' = [net EXCEPT ![d].room = room]
      BY <2>2 DEF writeNormal
    <3> QED  BY <1>1, <1>2, <3>1 DEF NetSide, NetState
  <2> QED  BY <1>8, <2>1, <2>2 DEF Handlers
<1>9. CASE \/ EpollReports \/ EpollInterrupted \/ (\E d \in Conns : EpollDispatches(d))
           \/ BeginTaskProcess \/ TaskProcess \/ RunTask \/ HandlerReturn \/ Tick \/ UNCHANGED vars
  BY <1>2, <1>9 DEF EpollReports, EpollInterrupted, EpollDispatches, BeginTaskProcess, TaskProcess,
       RunTask, HandlerReturn, Tick, vars, connVars
<1> QED  BY <1>6, <1>7, <1>8, <1>9 DEF Next, Loop

\* The kernel has nothing to report of a connect that is not decided.
LEMMA ConnectingIsSilent ==
  ASSUME IInv, NEW c \in Conns, net[c].link = "connecting", net[c].sent = 0
  PROVE  KernelReady(c) = {}
<1>1. conn[c].got \in Nat
  BY DEF IInv, TypeInv, ConnState
<1> QED  BY <1>1 DEF KernelReady

\* LinkInv.
LEMMA LinkStep ==
  ASSUME CallInv, [Next]_vars, NEW c \in Conns
  PROVE  LinkInv(c)'
<1>1. /\ IInv /\ IInv' /\ LinkInv(c) /\ EventSide(c) /\ NetSide(c) /\ ReadSide(c)
      /\ ConnInv(c) /\ ConnInv(c)' /\ readTask(c) \in ConnTasks /\ TimerSide(readTask(c))
  BY StepEvents, StepNet, StepSides, NextStep, WhoTimes, FourAreTasks DEF CallInv, Sides, Four, IInv
<1>2. net'[c].link \in {"fresh", "connecting"} => net'[c].sent = 0
  BY <1>1 DEF LinkInv, NetSide
<1>3. net'[c].link = "connecting" => net[c].link = "connecting" \/ ReadStarts(c)
  BY <1>1 DEF NetSide
<1>4. ASSUME ReadStarts(c)
      PROVE  UserRuns /\ UNCHANGED <<running, frame>> /\ ~ RWorks(c)'
  <2>1. ReadStarted(c)
    BY <1>1, <1>4, ReadStartsFacts
  <2>2. RStatus(c)' # SPE_TASK_QUEUE
    <3>1. SchedInv(sched) /\ clock \in Nat /\ conn[c].readExpireTime \in Nat
      BY <1>1 DEF IInv, TaskInv, TypeInv, ConnState
    <3>2. sched'.status[readTask(c)] \in {sched.status[readTask(c)], SPE_TASK_TIMER}
      <4> DEFINE t == readTask(c)
      <4>1. sched'.status = IF conn[c].readExpireTime # 0 /\ Accepts(sched, t)
                            THEN [sched.status EXCEPT ![t] = SPE_TASK_TIMER] ELSE sched.status
        BY <1>1, <2>1, <3>1, ArmFacts DEF ReadStarted
      <4> QED  BY <1>1, <3>1, <4>1, StatusOfSched
    <3> QED  BY <2>1, <3>2 DEF ReadStarted, RStatus, SPE_TASK_TIMER, SPE_TASK_QUEUE
  <2> QED  BY <2>1, <2>2 DEF ReadStarted, UserRuns, RWorks
<1>5. ASSUME events'[c] # {} PROVE Polled' /\ net'[c].link # "connecting"
  <2>1. CASE events'[c] = events[c] /\ (Polled => Polled')
    <3>1. Polled /\ net[c].link # "connecting"
      BY <1>1, <1>5, <2>1 DEF LinkInv, Polled
    <3>2. ~ UserRuns
      BY <3>1 DEF Polled, UserRuns
    <3> QED  BY <1>3, <1>4, <2>1, <3>1, <3>2
  <2>2. CASE EpollReports
    <3>1. /\ events'[c] = KernelReady(c) \cap epoll[c].mask /\ net' = net
          /\ frame' = "polled" /\ pc' = "poll"
      BY <2>2 DEF EpollReports, threadVars, connVars
    <3>2. net[c].link # "connecting"
      BY <1>1, <1>5, <3>1, ConnectingIsSilent DEF LinkInv
    <3> QED  BY <3>1, <3>2 DEF Polled
  <2> QED  BY <1>1, <1>5, <2>1, <2>2 DEF EventSide
<1>6. ASSUME RWorks(c)', net'[c].link = "connecting" PROVE ReadTimedOut(c)'
  <2>1. net[c].link = "connecting" /\ ~ ReadStarts(c)
    BY <1>3, <1>4, <1>6
  <2>2. Reads(c)'
    BY <1>1, <1>6 DEF ConnInv, WorkInv
  <2>3. ReadKeeps(c)
    BY <1>1, <2>1, <2>2 DEF ReadSide, ReadOver, ReadQueued
  <2>4. conn'[c].readExpireTime = conn[c].readExpireTime
    BY <2>2, <2>3 DEF ReadKeeps
  <2>5. Keeps(sched, sched', readTask(c)) \/ Fires(readTask(c)) \/ Wakes(readTask(c))
    <3>1. ASSUME NEW d \in Conns, \/ readTask(c) = readTask(d) /\ ReadStarts(d)
                                  \/ readTask(c) = writeTask(d) /\ WriteStarts(d)
          PROVE  FALSE
      <4>1. d = c /\ readTask(c) # writeTask(d)
        BY <3>1, FourDiffer, OwnTasks
      <4> QED  BY <2>1, <3>1, <4>1
    <3> QED  BY <1>1, <3>1 DEF TimerSide
  <2>6. CASE Fires(readTask(c))
    <3>1. conn[c].readExpireTime # 0
      BY <1>1, <2>6 DEF Fires, ConnInv, TimerInv, RStatus
    <3> QED  BY <2>4, <2>6, <3>1 DEF Fires, ReadTimedOut
  <2>7. CASE /\ sched'.Timeout[readTask(c)] = sched.Timeout[readTask(c)] /\ RWorks(c)
    <3>1. ReadTimedOut(c)
      BY <1>1, <2>1, <2>7 DEF LinkInv
    <3> QED  BY <2>4, <2>7, <3>1 DEF ReadTimedOut
  <2>8. CASE Keeps(sched, sched', readTask(c))
    <3>1. RWorks(c)
      <4>1. CASE RStatus(c)' = SPE_TASK_QUEUE
        BY <2>8, <4>1 DEF Keeps, RStatus, RWorks
      <4>2. CASE frame' = "body" /\ running' = readTask(c)
        <5>1. CASE RunTask
          <6>1. sched.status[running'] = SPE_TASK_QUEUE
            BY <1>1, <5>1, RunFirstFacts DEF IInv, TaskInv, RunTask, Task!RunTask
          <6> QED  BY <4>2, <6>1 DEF RWorks, RStatus
        <5> QED  BY <1>1, <4>2, <5>1 DEF EventSide, RWorks
      <4> QED  BY <1>6, <4>1, <4>2 DEF RWorks
    <3> QED  BY <2>7, <2>8, <3>1 DEF Keeps
  <2>9. CASE Wakes(readTask(c))
    <3>1. EpollDispatches(c)
      <4>1. PICK d \in Conns : \/ readTask(c) \in {ReadCallback(d), WriteCallback(d)}
                               \/ readTask(c) \in {readTask(d), writeTask(d)} /\ EpollDispatches(d)
        BY <2>9 DEF Wakes
      <4> QED  BY <4>1, FourDiffer, OwnTasks
    <3> QED  BY <1>1, <2>1, <3>1 DEF EpollDispatches, LinkInv
  <2> QED  BY <2>5, <2>6, <2>8, <2>9
<1> QED  BY <1>2, <1>5, <1>6 DEF LinkInv, Polled

\* Every step keeps the invariant behind the answers.
LEMMA CallStep == CallInv /\ [Next]_vars => CallInv'
<1> SUFFICES ASSUME CallInv, [Next]_vars, NEW c \in Conns
             PROVE  IInv' /\ DueInv(c)' /\ KindInv(c)' /\ AnswerInv(c)' /\ LinkInv(c)'
  <2>1. CallInv /\ [Next]_vars => IInv'
    BY NextStep DEF CallInv
  <2> QED  BY <2>1 DEF CallInv
<1>1. IInv'
  BY NextStep DEF CallInv
<1>2. DueInv(c)'
  BY ReadDueStep, WriteDueStep DEF DueInv
<1> QED  BY <1>1, <1>2, AnswerStep, LinkStep

\* It holds of the program before its first call.
LEMMA CallInit == Init => CallInv
<1> SUFFICES ASSUME Init, NEW c \in Conns
             PROVE  DueInv(c) /\ KindInv(c) /\ AnswerInv(c) /\ LinkInv(c)
  BY InitStep DEF CallInv
<1>1. net[c].link = "none" /\ net[c].sent = 0 /\ events[c] = {} /\ frame = "none"
  BY DEF Init, Socket
<1>2. ~ Reads(c) /\ ~ Writes(c)
  BY <1>1 DEF Reads, Writes, Open
<1>3. ~ RWorks(c) /\ RCStatus(c) # SPE_TASK_QUEUE
  <2>1. IInv
    BY InitStep
  <2> QED  BY <1>1, <1>2, <2>1 DEF IInv, ConnInv, WorkInv, CallbackInv, Reads, Open
<1> QED  BY <1>1, <1>2, <1>3 DEF DueInv, KindInv, AnswerInv, LinkInv

-----------------------------------------------------------------------------
(* The theorems                                                             *)

\* Every timer and every flag is that of the request that waits; a callback
\* that is queued has an answer; a connect under way is woken by its timer only.
THEOREM CallInvariance == Spec => []CallInv
<1> QED  BY CallInit, CallStep, PTL DEF Spec

\* A program's callback is entered by the handler of the connection, or by the
\* run loop from its own task.
LEMMA WhoEnters ==
  ASSUME IInv, [Next]_vars, NEW c \in Conns, NEW dir \in {"read", "write"}, Calls(c, dir)
  PROVE  \/ /\ dir = "read" /\ running = readTask(c) /\ Runs(readTask(c))
            /\ connectNormal(c) \/ readNormal(c)
         \/ dir = "write" /\ running = writeTask(c) /\ Runs(writeTask(c)) /\ writeNormal(c)
         \/ /\ RunTask /\ running = NoTask
            /\ dir = "read" => RCStatus(c) = SPE_TASK_QUEUE
<1>1. frame # "user" /\ frame' = "user"
  BY DEF Calls
<1>2. CASE RunTask
  <2>1. sched.status[running'] = SPE_TASK_QUEUE /\ running = NoTask
    BY <1>2, RunFirstFacts, RunStep DEF IInv, TaskInv, RunTask, Task!RunTask
  <2>2. dir = "read" => running' = ReadCallback(c)
    <3>1. PICK d \in Conns : \/ running' \in {readTask(d), writeTask(d)} /\ frame' = "body"
                             \/ running' = ReadCallback(d)
                             \/ running' = WriteCallback(d)
      BY <1>2 DEF RunTask
    <3> QED  BY <1>1, <3>1, FourDiffer DEF Calls
  <2> QED  BY <1>2, <2>1, <2>2 DEF RCStatus
<1>3. CASE /\ ~ RunTask /\ frame = "body" /\ running' = running
  <2>1. ~ EpollReports /\ ~ EpollInterrupted /\ ~ BeginTaskProcess /\ ~ HandlerReturn
        /\ ~ TaskProcess /\ ~ Tick /\ ~ UNCHANGED vars /\ \A d \in Conns : ~ EpollDispatches(d)
    BY <1>1, <1>3 DEF EpollReports, EpollInterrupted, BeginTaskProcess, HandlerReturn, TaskProcess,
         Tick, vars, EpollDispatches
  <2>2. PICK d \in Conns : Handlers(d)
    BY <1>1, <1>3, <2>1, CallsAndLoop DEF Next, Loop
  <2>3. CASE connectNormal(d) \/ readNormal(d)
    <3>1. Runs(readTask(d)) /\ running = readTask(d)
      BY <2>3 DEF connectNormal, readNormal, Runs
    <3>2. d = c /\ dir = "read"
      BY <1>3, <3>1, FourDiffer, OwnTasks DEF Calls
    <3> QED  BY <2>3, <3>1, <3>2
  <2>4. CASE writeNormal(d)
    <3>1. Runs(writeTask(d)) /\ running = writeTask(d)
      BY <2>4 DEF writeNormal, Runs
    <3>2. d = c /\ dir = "write"
      BY <1>3, <3>1, FourDiffer, OwnTasks DEF Calls
    <3> QED  BY <2>4, <3>1, <3>2
  <2> QED  BY <2>2, <2>3, <2>4 DEF Handlers
<1> QED  BY <1>1, <1>2, <1>3, WhoCalls

\* TimeoutIsEarned: a handler takes its timeout branch only when the time of
\* this very request has come, not that of an earlier one.
THEOREM TimeoutsAreEarned == Spec => TimeoutIsEarned
<1> DEFINE A == \A c \in Conns :
                  /\ running = readTask(c) /\ Calls(c, "read") /\ ReadTimedOut(c) =>
                       req[c].read.due # Never /\ req[c].read.due <= clock
                  /\ running = writeTask(c) /\ Calls(c, "write")
                       /\ conn[c].writeExpireTime # 0 /\ sched.Timeout[writeTask(c)] = 1 =>
                       req[c].write.due # Never /\ req[c].write.due <= clock
<1>1. ASSUME CallInv, [Next]_vars, NEW c \in Conns,
             running = readTask(c), Calls(c, "read"), ReadTimedOut(c)
      PROVE  req[c].read.due # Never /\ req[c].read.due <= clock
  <2>1. IInv /\ DueInv(c) /\ running # NoTask /\ running # writeTask(c)
    BY <1>1, FourAreTasks, FourDiffer, NoTaskAssumption DEF CallInv, Four, NoTaskAssumption
  <2>2. Runs(readTask(c))
    BY <1>1, <2>1, WhoEnters
  <2>3. Reads(c)
    BY <2>1, <2>2, ReadBody
  <2> QED  BY <1>1, <2>1, <2>3, NeverAssumption DEF DueInv, OnTime, ReadTimedOut, NeverAssumption
<1>2. ASSUME CallInv, [Next]_vars, NEW c \in Conns,
             running = writeTask(c), Calls(c, "write"),
             conn[c].writeExpireTime # 0, sched.Timeout[writeTask(c)] = 1
      PROVE  req[c].write.due # Never /\ req[c].write.due <= clock
  <2>1. IInv /\ DueInv(c) /\ running # NoTask /\ running # readTask(c)
    BY <1>2, FourAreTasks, FourDiffer, NoTaskAssumption DEF CallInv, Four, NoTaskAssumption
  <2>2. Runs(writeTask(c))
    BY <1>2, <2>1, WhoEnters
  <2>3. Writes(c) /\ ~ Connects(c)
    BY <2>1, <2>2, WriteBody
  <2> QED  BY <1>2, <2>1, <2>3, NeverAssumption DEF DueInv, OnTime, NeverAssumption
<1>3. CallInv /\ [Next]_vars => A
  BY <1>1, <1>2
<1> HIDE DEF A
<1>4. Spec => [][A]_vars
  BY <1>3, CallInvariance, PTL DEF Spec
<1> QED  BY <1>4 DEF A, TimeoutIsEarned

\* A connect that ends without a flag has connected.
LEMMA PlainConnect ==
  ASSUME CallInv, [Next]_vars, NEW c \in Conns, Calls(c, "read"),
         conn'[c].Closed = 0, conn'[c].Error = 0,
         req[c].read.kind = "connect", conn'[c].ConnectTimeout = 0
  PROVE  Established(c)
<1>1. /\ IInv /\ KindInv(c) /\ AnswerInv(c) /\ LinkInv(c) /\ net[c] \in NetState
      /\ conn \in [Conns -> ConnState] /\ conn[c] \in ConnState
  BY DEF CallInv, IInv, TypeInv
<1>2. CASE RunTask /\ RCStatus(c) = SPE_TASK_QUEUE
  BY <1>1, <1>2 DEF RunTask, AnswerInv
<1>3. CASE Runs(readTask(c)) /\ (connectNormal(c) \/ readNormal(c))
  <2>1. Reads(c) /\ Open(c) /\ net[c].link # "fresh"
    BY <1>1, <1>3, ReadBody
  <2>2. connectNormal(c)
    <3>1. Connects(c)
      BY <1>1, <2>1 DEF KindInv
    <3> QED  BY <1>3, <3>1 DEF Connects, readNormal
  <2>3. ~ ReadTimedOut(c) /\ ~ SocketError(c)
    BY <1>1, <2>2 DEF connectNormal, ConnState
  <2>4. net[c].link # "connecting"
    BY <1>1, <1>3, <2>3 DEF LinkInv, RWorks, Runs
  <2> QED  BY <1>1, <2>1, <2>3, <2>4 DEF Established, SocketError, Open, NetState, Links
<1> QED  BY <1>1, <1>2, <1>3, WhoEnters

\* A read that ends without a flag hands over bytes.
LEMMA PlainRead ==
  ASSUME CallInv, [Next]_vars, NEW c \in Conns, Calls(c, "read"),
         conn'[c].Closed = 0, conn'[c].Error = 0,
         req[c].read.kind = "read", conn'[c].ReadTimeout = 0
  PROVE  conn'[c].taken > req[c].read.mark
<1> DEFINE o == conn[c]
<1>1. /\ IInv /\ TypeInv /\ KindInv(c) /\ AnswerInv(c) /\ conn \in [Conns -> ConnState]
      /\ o \in ConnState
  BY DEF CallInv, IInv, TypeInv
<1>2. CASE RunTask /\ RCStatus(c) = SPE_TASK_QUEUE
  BY <1>1, <1>2 DEF RunTask, AnswerInv
<1>3. CASE Runs(readTask(c)) /\ (connectNormal(c) \/ readNormal(c))
  <2>1. Reads(c)
    BY <1>1, <1>3, ReadBody
  <2>2. readNormal(c) /\ req[c].read.mark = o.taken
    BY <1>1, <1>3, <2>1 DEF KindInv, Connects, Reads, connectNormal
  <2>3. ASSUME NEW k \in ConnState, ReadEnds(c, k)
        PROVE  /\ conn'[c].Closed = k.Closed /\ conn'[c].Error = k.Error
               /\ conn'[c].ReadTimeout = k.ReadTimeout /\ conn'[c].taken = k.taken
    BY <1>1, <2>3 DEF ReadEnds, ConnState
  <2>4. ASSUME ReadEnds(c, [o EXCEPT !.ReadTimeout = 1]) PROVE FALSE
    <3> DEFINE k == [o EXCEPT !.ReadTimeout = 1]
    <3>1. k \in ConnState
      BY <1>1, RecordUpdates
    <3>2. k.ReadTimeout = 1
      BY <1>1 DEF ConnState
    <3> HIDE DEF k
    <3>3. conn'[c].ReadTimeout = 1
      BY <2>3, <2>4, <3>1, <3>2 DEF k
    <3> QED  BY <3>3
  <2>5. ASSUME NEW k \in ReadResults(c), NEW t \in Answer(k, k.readType, k.rbytes),
               ReadEnds(c, [k EXCEPT !.taken = t])
        PROVE  conn'[c].taken > o.taken
    <3> DEFINE j == [k EXCEPT !.taken = t]
    <3>1. k \in ConnState /\ k.taken = o.taken
      BY <1>1, ReadResultsType, ReadResultsTaken DEF ReadsInto
    <3>2. t \in Nat /\ t > k.taken
      BY <3>1 DEF Answer, ConnState
    <3>3. j \in ConnState
      BY <3>1, <3>2, RecordUpdates
    <3>4. j.taken = t
      BY <3>1 DEF ConnState
    <3>5. ReadEnds(c, j)
      BY <2>5
    <3> HIDE DEF j
    <3>6. conn'[c].taken = t
      BY <2>3, <3>3, <3>4, <3>5
    <3> QED  BY <3>1, <3>2, <3>6
  <2>6. ASSUME NEW k \in ReadResults(c), k.Closed = 1 \/ k.Error = 1, ReadEnds(c, k) PROVE FALSE
    <3>1. k \in ConnState
      BY <1>1, ReadResultsType DEF ReadsInto
    <3>2. conn'[c].Closed = 1 \/ conn'[c].Error = 1
      BY <2>3, <2>6, <3>1
    <3> QED  BY <3>2
  <2>7. frame' # "return"
    BY DEF Calls
  <2> QED  BY <2>2, <2>4, <2>5, <2>6, <2>7 DEF readNormal
<1> QED  BY <1>1, <1>2, <1>3, WhoEnters

\* A flush that waited and ends without a flag has written its buffer.
LEMMA PlainFlush ==
  ASSUME CallInv, [Next]_vars, NEW c \in Conns, Calls(c, "write"), running = writeTask(c),
         conn'[c].Closed = 0, conn'[c].Error = 0, conn'[c].WriteTimeout = 0
  PROVE  conn'[c].writeBuffer = 0
<1> DEFINE o == conn[c]
<1>1. /\ IInv /\ conn \in [Conns -> ConnState] /\ o \in ConnState /\ running # NoTask
  BY FourAreTasks, NoTaskAssumption DEF CallInv, IInv, TypeInv, Four, NoTaskAssumption
<1>2. writeNormal(c) /\ frame' # "return"
  BY <1>1, WhoEnters DEF Calls
<1>3. ASSUME WriteEnds(c, [o EXCEPT !.WriteTimeout = 1]) PROVE FALSE
  <2>1. conn'[c].WriteTimeout = 1
    BY <1>1, <1>3 DEF WriteEnds, ConnState
  <2> QED  BY <2>1
<1>4. ASSUME WriteEnds(c, [o EXCEPT !.Closed = 1]) PROVE FALSE
  <2>1. conn'[c].Closed = 1
    BY <1>1, <1>4 DEF WriteEnds, ConnState
  <2> QED  BY <2>1
<1>5. ASSUME WriteEnds(c, [o EXCEPT !.Error = 1]) PROVE FALSE
  <2>1. conn'[c].Error = 1
    BY <1>1, <1>5 DEF WriteEnds, ConnState
  <2> QED  BY <2>1
<1>6. ASSUME NEW k, k.writeBuffer = 0, \E x : k = [o EXCEPT !.writeBuffer = x], WriteEnds(c, k)
      PROVE  conn'[c].writeBuffer = 0
  BY <1>1, <1>6 DEF WriteEnds, ConnState
<1>7. \/ WriteEnds(c, [o EXCEPT !.WriteTimeout = 1])
      \/ WriteEnds(c, [o EXCEPT !.Closed = 1])
      \/ WriteEnds(c, [o EXCEPT !.Error = 1])
      \/ \E res \in 1 .. o.writeBuffer :
           LET k == [o EXCEPT !.writeBuffer = @ - res]
           IN  WriteDone(k) /\ WriteEnds(c, k)
  BY <1>2 DEF writeNormal
<1>8. ASSUME NEW res \in 1 .. o.writeBuffer,
             LET k == [o EXCEPT !.writeBuffer = @ - res] IN WriteDone(k) /\ WriteEnds(c, k)
      PROVE  conn'[c].writeBuffer = 0
  <2> DEFINE k == [o EXCEPT !.writeBuffer = @ - res]
  <2>1. k.writeBuffer = 0 /\ WriteEnds(c, k)
    BY <1>8 DEF WriteDone
  <2>2. \E x : k = [o EXCEPT !.writeBuffer = x]
    OBVIOUS
  <2> HIDE DEF k
  <2> QED  BY <1>6, <2>1, <2>2
<1> QED  BY <1>3, <1>4, <1>5, <1>7, <1>8

\* PlainCallbackMeansDone: a callback without any flag means the request was
\* carried out: connected, bytes handed over, buffer written.
THEOREM PlainCallbacksMeanDone == Spec => PlainCallbackMeansDone
<1> DEFINE A == \A c \in Conns :
                  conn'[c].Closed = 0 /\ conn'[c].Error = 0 =>
                    /\ Calls(c, "read") /\ req[c].read.kind = "connect"
                         /\ conn'[c].ConnectTimeout = 0 =>
                         net[c].link \in {"up", "fin", "rst"}
                    /\ Calls(c, "read") /\ req[c].read.kind = "read"
                         /\ conn'[c].ReadTimeout = 0 =>
                         conn'[c].taken > req[c].read.mark
                    /\ Calls(c, "write") /\ running = writeTask(c)
                         /\ conn'[c].WriteTimeout = 0 =>
                         conn'[c].writeBuffer = 0
<1>1. CallInv /\ [Next]_vars => [A]_vars
  BY PlainConnect, PlainRead, PlainFlush DEF Established
<1> HIDE DEF A
<1>2. Spec => [][A]_vars
  BY <1>1, CallInvariance, PTL DEF Spec
<1> QED  BY <1>2 DEF A, PlainCallbackMeansDone
=============================================================================
