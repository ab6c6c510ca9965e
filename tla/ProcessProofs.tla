---------------------------- MODULE ProcessProofs ---------------------------
(***************************************************************************)
(* The parts with several processes or threads: who watches the listening  *)
(* socket holds the accept mutex, for any processes and any numbers of     *)
(* connections and deaths; and an object runs alone, for any workers,      *)
(* senders and objects.                                                    *)
(***************************************************************************)
EXTENDS SpeServer, SpeWorker, Functions, SequenceTheorems, TLAPS

-----------------------------------------------------------------------------
(* The accept mutex *)

\* Before the mutex is made there is one process.
StartInv ==
  acceptMutex = "none" =>
    /\ owner = Nobody
    /\ \A p \in Procs : ~ acceptMutexHold[p]
    /\ \A p \in Procs : p # First => pc[p] = "unborn"

\* What the flag of a process means at each place of its loop.  It survives the
\* unlock, and with it the mask of the socket: both say what the last trylock
\* found.
FlagOf(p) ==
  /\ pc[p] \in {"unborn", "main", "init"} => ~ watched[p] /\ ~ acceptMutexHold[p]
  /\ owner = p => acceptMutexHold[p] /\ pc[p] \in {"poll", "after", "gone"}
  /\ acceptMutex # "none" /\ pc[p] \in {"before", "poll", "after", "tasks"} =>
       watched[p] = acceptMutexHold[p]
  /\ acceptMutex # "none" /\ pc[p] \in {"poll", "after"} /\ acceptMutexHold[p] => owner = p

FlagInv == \A p \in Procs : FlagOf(p)

IInv == TypeOK /\ StartInv /\ FlagInv

-----------------------------------------------------------------------------
\* Before main starts, no process runs but the first.
LEMMA InitInv == Init => IInv
BY FirstAssumption, NobodyAssumption DEF Init, IInv, TypeOK, StartInv, FlagInv, FlagOf

-----------------------------------------------------------------------------
\* Every step keeps the types of the places, flags and masks.
LEMMA TypeStep == TypeOK /\ [Next]_vars => TypeOK'
<1> SUFFICES ASSUME TypeOK, [Next]_vars PROVE TypeOK'
  OBVIOUS
<1> USE DEF TypeOK, loopVars
<1>1. CASE UNCHANGED vars
  BY <1>1 DEF vars
<1>2. CASE Arrive
  BY <1>2 DEF Arrive
<1>3. ASSUME NEW p \in Procs, CheckMode(p) PROVE TypeOK'
  BY <1>3 DEF CheckMode, Moves
<1>4. ASSUME NEW p \in Procs, SpeServerInit(p) PROVE TypeOK'
  BY <1>4 DEF SpeServerInit
<1>5. ASSUME NEW p \in Procs, EnterLoop(p) PROVE TypeOK'
  BY <1>5 DEF EnterLoop, Moves
<1>6. ASSUME NEW p \in Procs, ModInitFails(p) PROVE TypeOK'
  BY <1>6 DEF ModInitFails, Moves
<1>7. ASSUME NEW p \in Procs, serverBeforeLoop(p) PROVE TypeOK'
  BY <1>7 DEF serverBeforeLoop, Moves, TrylockSucceeds
<1>8. ASSUME NEW p \in Procs, PollReports(p) PROVE TypeOK'
  BY <1>8 DEF PollReports, Moves
<1>9. ASSUME NEW p \in Procs, PollReturns(p) PROVE TypeOK'
  BY <1>9 DEF PollReturns, Moves
<1>10. ASSUME NEW p \in Procs, serverAfterLoop(p) PROVE TypeOK'
  BY <1>10 DEF serverAfterLoop, Moves
<1>11. ASSUME NEW p \in Procs, Tasks(p) PROVE TypeOK'
  BY <1>11 DEF Tasks, Moves
<1>12. ASSUME NEW p \in Procs, SpeServerDeinit(p) PROVE TypeOK'
  BY <1>12 DEF SpeServerDeinit, Moves, TrylockSucceeds
<1>13. ASSUME NEW p \in Procs, Die(p) PROVE TypeOK'
  BY <1>13 DEF Die
<1>14. ASSUME NEW p \in Procs, NEW children \in SUBSET Procs, SpeProcs(p, children) PROVE TypeOK'
  BY <1>14 DEF SpeProcs
<1> HIDE DEF TypeOK, loopVars
<1> QED
  BY <1>1, <1>2, <1>3, <1>4, <1>5, <1>6, <1>7, <1>8, <1>9, <1>10, <1>11, <1>12, <1>13, <1>14 DEF Next, StartUp, Loop

\* No second process while there is no mutex.
LEMMA StartStep == IInv /\ [Next]_vars => StartInv'
<1> SUFFICES ASSUME IInv, [Next]_vars PROVE StartInv'
  OBVIOUS
<1> USE DEF IInv, TypeOK, StartInv, loopVars
<1>1. CASE UNCHANGED vars \/ Arrive
  BY <1>1 DEF vars, Arrive
<1>2. ASSUME NEW p \in Procs, CheckMode(p) PROVE StartInv'
  BY <1>2 DEF CheckMode, Moves
<1>3. ASSUME NEW p \in Procs, SpeServerInit(p) PROVE StartInv'
  BY <1>3 DEF SpeServerInit
<1>4. ASSUME NEW p \in Procs, EnterLoop(p) PROVE StartInv'
  BY <1>4 DEF EnterLoop, Moves
<1>5. ASSUME NEW p \in Procs, ModInitFails(p) PROVE StartInv'
  BY <1>5 DEF ModInitFails, Moves
<1>6. ASSUME NEW p \in Procs, serverBeforeLoop(p) PROVE StartInv'
  BY <1>6 DEF serverBeforeLoop, Moves, TrylockSucceeds
<1>7. ASSUME NEW p \in Procs, PollReports(p) PROVE StartInv'
  BY <1>7 DEF PollReports, Moves
<1>8. ASSUME NEW p \in Procs, PollReturns(p) PROVE StartInv'
  BY <1>8 DEF PollReturns, Moves
<1>9. ASSUME NEW p \in Procs, serverAfterLoop(p) PROVE StartInv'
  BY <1>9 DEF serverAfterLoop, Moves
<1>10. ASSUME NEW p \in Procs, Tasks(p) PROVE StartInv'
  BY <1>10 DEF Tasks, Moves
<1>11. ASSUME NEW p \in Procs, SpeServerDeinit(p) PROVE StartInv'
  BY <1>11 DEF SpeServerDeinit, Moves, TrylockSucceeds
<1>12. ASSUME NEW p \in Procs, Die(p) PROVE StartInv'
  BY <1>12 DEF Die
<1>13. ASSUME NEW p \in Procs, NEW children \in SUBSET Procs, SpeProcs(p, children) PROVE StartInv'
  BY <1>13 DEF SpeProcs
<1> HIDE DEF IInv, TypeOK, StartInv, loopVars
<1> QED
  BY <1>1, <1>2, <1>3, <1>4, <1>5, <1>6, <1>7, <1>8, <1>9, <1>10, <1>11, <1>12, <1>13 DEF Next, StartUp, Loop

\* Every step keeps what the flag and the mask mean at each place of the loop.
LEMMA FlagStep == IInv /\ [Next]_vars => FlagInv'
<1> SUFFICES ASSUME IInv, [Next]_vars, NEW q \in Procs PROVE FlagOf(q)'
  BY DEF FlagInv
<1> USE NobodyAssumption DEF IInv, TypeOK, FlagInv, FlagOf, loopVars
<1>1. CASE UNCHANGED vars \/ Arrive
  BY <1>1 DEF vars, Arrive
<1>2. ASSUME NEW p \in Procs, CheckMode(p) PROVE FlagOf(q)'
  BY <1>2 DEF CheckMode, Moves
<1>3. ASSUME NEW p \in Procs, SpeServerInit(p) PROVE FlagOf(q)'
  BY <1>3 DEF SpeServerInit
<1>4. ASSUME NEW p \in Procs, EnterLoop(p) PROVE FlagOf(q)'
  BY <1>4 DEF EnterLoop, Moves
<1>5. ASSUME NEW p \in Procs, ModInitFails(p) PROVE FlagOf(q)'
  BY <1>5 DEF ModInitFails, Moves
<1>6. ASSUME NEW p \in Procs, serverBeforeLoop(p) PROVE FlagOf(q)'
  <2>1. pc[p] = "before" /\ pc' = [pc EXCEPT ![p] = "poll"] /\ UNCHANGED acceptMutex
    BY <1>6 DEF serverBeforeLoop, Moves
  <2>2. CASE acceptMutex = "none"
    BY <1>6, <2>1, <2>2 DEF serverBeforeLoop, StartInv
  <2>3. CASE acceptMutex # "none" /\ TrylockSucceeds
    <3>1. owner' = p /\ acceptMutexHold' = [acceptMutexHold EXCEPT ![p] = TRUE]
      BY <1>6, <2>3 DEF serverBeforeLoop
    <3>2. watched' = [watched EXCEPT ![p] = TRUE]
      BY <1>6, <2>1, <2>3 DEF serverBeforeLoop
    <3>3. owner = Nobody
      BY <2>3 DEF TrylockSucceeds
    <3> QED  BY <2>1, <3>1, <3>2, <3>3
  <2>4. CASE acceptMutex # "none" /\ ~ TrylockSucceeds
    <3>1. owner' = owner /\ acceptMutexHold' = [acceptMutexHold EXCEPT ![p] = FALSE]
      BY <1>6, <2>4 DEF serverBeforeLoop
    <3>2. watched' = [watched EXCEPT ![p] = FALSE]
      BY <1>6, <2>1, <2>4 DEF serverBeforeLoop
    <3>3. owner # p
      BY <2>1
    <3> QED  BY <2>1, <3>1, <3>2, <3>3
  <2> QED  BY <2>2, <2>3, <2>4
<1>7. ASSUME NEW p \in Procs, PollReports(p) PROVE FlagOf(q)'
  BY <1>7 DEF PollReports, Moves
<1>8. ASSUME NEW p \in Procs, PollReturns(p) PROVE FlagOf(q)'
  BY <1>8 DEF PollReturns, Moves
<1>9. ASSUME NEW p \in Procs, serverAfterLoop(p) PROVE FlagOf(q)'
  BY <1>9 DEF serverAfterLoop, Moves, StartInv
<1>10. ASSUME NEW p \in Procs, Tasks(p) PROVE FlagOf(q)'
  BY <1>10 DEF Tasks, Moves
<1>11. ASSUME NEW p \in Procs, SpeServerDeinit(p) PROVE FlagOf(q)'
  BY <1>11 DEF SpeServerDeinit, Moves, TrylockSucceeds
<1>12. ASSUME NEW p \in Procs, Die(p) PROVE FlagOf(q)'
  BY <1>12 DEF Die
<1>13. ASSUME NEW p \in Procs, NEW children \in SUBSET Procs, SpeProcs(p, children) PROVE FlagOf(q)'
  BY <1>13 DEF SpeProcs, StartInv
<1> HIDE DEF IInv, TypeOK, FlagInv, FlagOf, loopVars
<1> QED
  BY <1>1, <1>2, <1>3, <1>4, <1>5, <1>6, <1>7, <1>8, <1>9, <1>10, <1>11, <1>12, <1>13 DEF Next, StartUp, Loop

-----------------------------------------------------------------------------
\* TypeOK, StartInv and FlagInv are inductive.
THEOREM Invariance == Spec => []IInv
<1>1. Init => IInv
  BY InitInv
<1>2. IInv /\ [Next]_vars => IInv'
  BY TypeStep, StartStep, FlagStep DEF IInv
<1> QED  BY <1>1, <1>2, PTL DEF Spec

\* spe_server.c:77-99.  For any number of processes, who polls watches the
\* listening socket just when it owns the mutex, and nobody owns it elsewhere.
THEOREM WatchersHoldMutex == Spec => []WatcherHoldsMutex
<1>1. IInv => WatcherHoldsMutex
  BY DEF IInv, FlagInv, FlagOf, WatcherHoldsMutex
<1> QED  BY <1>1, Invariance, PTL

-----------------------------------------------------------------------------
(* Object workers *)

\* The types ObjectRunsAlone rests on: who has left its start has an object.
PlaceType ==
  /\ worker_queue \in Seq(Objects)
  /\ status \in [Objects -> {"free", "queue", "run"}]
  /\ at \in [Workers -> {"get", "splice", "run", "settle"}]
  /\ obj \in [Workers -> Objects \cup {NoObject}]
  /\ sender \in [Senders -> [at : {"out", "do", "signal"}, obj : Objects \cup {NoObject}]]
  /\ \A w \in Workers : Running(w) => obj[w] \in Objects
  /\ \A s \in Senders : sender[s].at = "do" => sender[s].obj \in Objects

WorkerInv == PlaceType /\ ObjectRunsAlone

placeVars == <<worker_queue, status, at, obj, sender>>

-----------------------------------------------------------------------------
\* An object goes to the end of the queue.
LEMMA QueuePut ==
  ASSUME NEW S, NEW list \in Seq(S), IsInjective(list), NEW o \in S, o \notin Range(list)
  PROVE  /\ Append(list, o) \in Seq(S) /\ IsInjective(Append(list, o))
         /\ Range(Append(list, o)) = Range(list) \cup {o}
<1> DEFINE n == Len(list)
           longer == Append(list, o)
<1>1. n \in Nat /\ DOMAIN list = 1..n
  BY LenProperties
<1>2. longer \in Seq(S) /\ longer[n + 1] = o /\ \A i \in 1..n : longer[i] = list[i]
  BY AppendProperties
<1>3. DOMAIN longer = 1..(n + 1)
  BY <1>1, AppendProperties, LenProperties
<1> HIDE DEF longer
<1>4. Range(list) = {list[i] : i \in 1..n} /\ Range(longer) = {longer[i] : i \in 1..(n + 1)}
  BY <1>1, <1>3 DEF Range
<1>5. 1..(n + 1) = 1..n \cup {n + 1}
  BY <1>1
<1>6. Range(longer) = Range(list) \cup {o}
  BY <1>2, <1>4, <1>5
<1>7. \A i \in 1..n : list[i] # o
  BY <1>4
<1>8. \A i, j \in 1..n : list[i] = list[j] => i = j
  BY <1>1 DEF IsInjective
<1>9. IsInjective(longer)
  BY <1>2, <1>3, <1>5, <1>7, <1>8 DEF IsInjective
<1> QED  BY <1>2, <1>6, <1>9 DEF longer

\* The first object leaves the queue.
LEMMA QueueGet ==
  ASSUME NEW S, NEW list \in Seq(S), IsInjective(list), list # << >>
  PROVE  /\ Head(list) \in S /\ Head(list) \in Range(list)
         /\ Tail(list) \in Seq(S) /\ IsInjective(Tail(list))
         /\ Range(Tail(list)) = Range(list) \ {Head(list)}
<1> DEFINE n == Len(list)
           rest == Tail(list)
<1>1. n \in Nat /\ n > 0 /\ DOMAIN list = 1..n /\ Head(list) = list[1]
  BY LenProperties, EmptySeq
<1>2. rest \in Seq(S) /\ Len(rest) = n - 1 /\ \A i \in 1..(n - 1) : rest[i] = list[i + 1]
  BY <1>1, HeadTailProperties
<1> HIDE DEF rest
<1>3. DOMAIN rest = 1..(n - 1)
  BY <1>2, LenProperties
<1>4. Range(list) = {list[i] : i \in 1..n} /\ Range(rest) = {rest[i] : i \in 1..(n - 1)}
  BY <1>1, <1>3 DEF Range
<1>5. \A i, j \in 1..n : list[i] = list[j] => i = j
  BY <1>1 DEF IsInjective
<1>6. IsInjective(rest)
  BY <1>1, <1>2, <1>3, <1>5 DEF IsInjective
<1>7. ASSUME NEW x \in Range(rest)  PROVE x \in Range(list) /\ x # list[1]
  BY <1>1, <1>2, <1>4, <1>5
<1>8. ASSUME NEW x \in Range(list), x # list[1]  PROVE x \in Range(rest)
  <2>1. PICK i \in 1..n : x = list[i]
    BY <1>4
  <2>2. i - 1 \in 1..(n - 1) /\ (i - 1) + 1 = i
    BY <1>1, <1>8, <2>1
  <2> QED  BY <1>2, <1>4, <2>1, <2>2
<1>9. list[1] \in S /\ list[1] \in Range(list)
  BY <1>1, <1>4, ElementOfSeq
<1> QED  BY <1>1, <1>2, <1>6, <1>7, <1>8, <1>9 DEF rest

\* At the start every worker and every sender is outside the calls.
LEMMA WorkerInitInv == WorkerInit => WorkerInv
<1> SUFFICES ASSUME WorkerInit PROVE WorkerInv
  OBVIOUS
<1>1. worker_queue = << >> /\ DOMAIN worker_queue = {}
  BY EmptySeq, LenProperties DEF WorkerInit
<1>2. PlaceType
  BY <1>1, EmptySeq DEF WorkerInit, PlaceType, Running, Outside
<1>3. ObjectRunsAlone
  BY <1>1 DEF WorkerInit, ObjectRunsAlone, Running, IsInjective, Range
<1> QED  BY <1>2, <1>3 DEF WorkerInv

\* A step that changes neither the queue nor a status nor who runs what.
LEMMA Kept ==
  ASSUME WorkerInv, UNCHANGED <<worker_queue, status, obj, sender>>,
         at' \in [Workers -> {"get", "splice", "run", "settle"}],
         \A w \in Workers : Running(w)' <=> Running(w)
  PROVE  WorkerInv'
BY DEF WorkerInv, PlaceType, ObjectRunsAlone, Running

\* A sender that only moves on.
LEMMA SenderMoves ==
  ASSUME WorkerInv, NEW s \in Senders, NEW to \in [at : {"out", "do", "signal"}, obj : Objects \cup {NoObject}],
         to.at = "do" => to.obj \in Objects,
         sender' = [sender EXCEPT ![s] = to],
         UNCHANGED <<worker_queue, status, at, obj>>
  PROVE  WorkerInv'
<1>1. PlaceType'
  BY DEF WorkerInv, PlaceType, Running
<1>2. ObjectRunsAlone'
  BY DEF WorkerInv, ObjectRunsAlone, Running
<1> QED  BY <1>1, <1>2 DEF WorkerInv

\* A sender queues an object only if it is free, so no worker has it.
LEMMA SendStep ==
  ASSUME WorkerInv, NEW s \in Senders, spe_worker_do(s)
  PROVE  WorkerInv'
<1> DEFINE o == sender[s].obj
<1>1. o \in Objects /\ UNCHANGED <<at, obj>>
  BY DEF spe_worker_do, WorkerInv, PlaceType, workerVars
<1>2. CASE status[o] # "free"
  <2>1. /\ sender' = [sender EXCEPT ![s] = Outside]
        /\ UNCHANGED <<worker_queue, status>>
    BY <1>2 DEF spe_worker_do
  <2>2. Outside \in [at : {"out", "do", "signal"}, obj : Objects \cup {NoObject}]
        /\ Outside.at # "do"
    BY DEF Outside
  <2> QED  BY <1>1, <2>1, <2>2, SenderMoves
<1>3. CASE status[o] = "free"
  <2>1. /\ worker_queue' = Append(worker_queue, o)
        /\ status' = [status EXCEPT ![o] = "queue"]
        /\ sender' = [sender EXCEPT ![s].at = "signal"]
    BY <1>3 DEF spe_worker_do
  <2>2. o \notin Range(worker_queue)
    BY <1>1, <1>3 DEF WorkerInv, ObjectRunsAlone
  <2>3. /\ worker_queue' \in Seq(Objects)
        /\ IsInjective(worker_queue')
        /\ Range(worker_queue') = Range(worker_queue) \cup {o}
    BY <1>1, <2>1, <2>2, QueuePut DEF WorkerInv, PlaceType, ObjectRunsAlone
  <2>4. PlaceType'
    BY <1>1, <2>1, <2>3, SMTT(30) DEF WorkerInv, PlaceType, Running
  <2>5. \A x \in Objects : x \in Range(worker_queue)' <=> status'[x] = "queue"
    BY <1>1, <2>1, <2>3 DEF WorkerInv, PlaceType, ObjectRunsAlone
  <2>6. \A w \in Workers : Running(w) => obj[w] # o
    BY <1>3 DEF WorkerInv, ObjectRunsAlone
  <2>7. ObjectRunsAlone'
    BY <1>1, <2>1, <2>3, <2>5, <2>6 DEF WorkerInv, PlaceType, ObjectRunsAlone, Running
  <2> QED  BY <2>4, <2>7 DEF WorkerInv
<1> QED  BY <1>2, <1>3

\* A worker takes the first object of the queue, which holds it once.
LEMMA GetStep ==
  ASSUME WorkerInv, NEW w \in Workers, Get(w)
  PROVE  WorkerInv'
<1> DEFINE o == Head(worker_queue)
<1>1. /\ obj' = [obj EXCEPT ![w] = o]
      /\ worker_queue' = Tail(worker_queue)
      /\ status' = [status EXCEPT ![o] = "run"]
      /\ at' = [at EXCEPT ![w] = "splice"]
      /\ UNCHANGED sender
      /\ worker_queue # << >> /\ worker_queue \in Seq(Objects) /\ IsInjective(worker_queue)
  BY DEF Get, WorkerInv, PlaceType, ObjectRunsAlone
<1>2. /\ o \in Objects /\ o \in Range(worker_queue)
      /\ worker_queue' \in Seq(Objects) /\ IsInjective(worker_queue')
      /\ Range(worker_queue') = Range(worker_queue) \ {o}
  BY <1>1, QueueGet
<1> HIDE DEF o
<1>3. PlaceType'
  BY <1>1, <1>2 DEF WorkerInv, PlaceType, Running
<1>4. status[o] = "queue"
  BY <1>2 DEF WorkerInv, ObjectRunsAlone
<1>5. \A v \in Workers : Running(v) => obj[v] # o
  BY <1>4 DEF WorkerInv, ObjectRunsAlone
<1>6. \A x \in Objects : x \in Range(worker_queue)' <=> status'[x] = "queue"
  BY <1>1, <1>2 DEF WorkerInv, PlaceType, ObjectRunsAlone
<1>7. \A v \in Workers : v # w => (Running(v)' <=> Running(v)) /\ obj'[v] = obj[v]
  BY <1>1 DEF WorkerInv, PlaceType, Running
<1>8. obj'[w] = o
  BY <1>1 DEF WorkerInv, PlaceType
<1>9. \A v \in Workers : Running(v)' => status'[obj'[v]] = "run"
  BY <1>1, <1>2, <1>5, <1>7, <1>8 DEF WorkerInv, PlaceType, ObjectRunsAlone
<1>10. \A u, v \in Workers : Running(u)' /\ Running(v)' /\ obj'[u] = obj'[v] => u = v
  BY <1>5, <1>7, <1>8 DEF WorkerInv, ObjectRunsAlone
<1>11. ObjectRunsAlone'
  BY <1>2, <1>6, <1>9, <1>10 DEF ObjectRunsAlone, Running
<1> QED  BY <1>3, <1>11 DEF WorkerInv

\* A worker frees its object, or queues it again, and has it no more.
LEMMA SettleStep ==
  ASSUME WorkerInv, NEW w \in Workers, Settle(w)
  PROVE  WorkerInv'
<1> DEFINE o == obj[w]
<1>1. Running(w) /\ o \in Objects /\ status[o] = "run" /\ o \notin Range(worker_queue)
  BY DEF Settle, Running, WorkerInv, PlaceType, ObjectRunsAlone
<1>2. /\ at' = [at EXCEPT ![w] = "get"] /\ obj' = [obj EXCEPT ![w] = NoObject]
      /\ UNCHANGED sender
  BY DEF Settle
<1>3. /\ worker_queue' \in Seq(Objects) /\ IsInjective(worker_queue')
      /\ status' \in [Objects -> {"free", "queue", "run"}]
      /\ \A x \in Objects : x # o => status'[x] = status[x]
      /\ \A x \in Objects : x \in Range(worker_queue)' <=> status'[x] = "queue"
  <2>1. CASE msg_head[o] = << >>
    <3>1. status' = [status EXCEPT ![o] = "free"] /\ UNCHANGED worker_queue
      BY <2>1 DEF Settle
    <3> QED  BY <1>1, <3>1 DEF WorkerInv, PlaceType, ObjectRunsAlone
  <2>2. CASE msg_head[o] # << >>
    <3>1. /\ worker_queue' = Append(worker_queue, o)
          /\ status' = [status EXCEPT ![o] = "queue"]
      BY <2>2 DEF Settle
    <3>2. /\ worker_queue' \in Seq(Objects) /\ IsInjective(worker_queue')
          /\ Range(worker_queue') = Range(worker_queue) \cup {o}
      BY <1>1, <3>1, QueuePut DEF WorkerInv, PlaceType, ObjectRunsAlone
    <3> QED  BY <1>1, <3>1, <3>2 DEF WorkerInv, PlaceType, ObjectRunsAlone
  <2> QED  BY <2>1, <2>2
<1>4. ~ Running(w)' /\ \A v \in Workers : v # w => (Running(v)' <=> Running(v)) /\ obj'[v] = obj[v]
  BY <1>2 DEF WorkerInv, PlaceType, Running
<1>5. PlaceType'
  BY <1>2, <1>3, <1>4 DEF WorkerInv, PlaceType
<1>6. \A v \in Workers : Running(v) /\ v # w => obj[v] # o
  BY <1>1 DEF WorkerInv, ObjectRunsAlone
<1>7. \A v \in Workers : Running(v)' => status'[obj'[v]] = "run"
  BY <1>3, <1>4, <1>6 DEF WorkerInv, PlaceType, ObjectRunsAlone
<1>8. \A u, v \in Workers : Running(u)' /\ Running(v)' /\ obj'[u] = obj'[v] => u = v
  BY <1>4 DEF WorkerInv, ObjectRunsAlone
<1>9. ObjectRunsAlone'
  BY <1>3, <1>7, <1>8 DEF ObjectRunsAlone, Running
<1> QED  BY <1>5, <1>9 DEF WorkerInv

\* Every step of the senders and the workers keeps WorkerInv.
LEMMA WorkerStep == WorkerInv /\ [WorkerNext]_allVars => WorkerInv'
<1> SUFFICES ASSUME WorkerInv, [WorkerNext]_allVars PROVE WorkerInv'
  OBVIOUS
<1>1. CASE UNCHANGED allVars
  BY <1>1 DEF allVars, objectVars, workerVars, WorkerInv, PlaceType, ObjectRunsAlone, Running
<1>2. ASSUME NEW s \in Senders, NEW o \in Objects, SendMsg(s, o) PROVE WorkerInv'
  <2>1. /\ sender' = [sender EXCEPT ![s] = [at |-> "do", obj |-> o]]
        /\ UNCHANGED <<worker_queue, status, at, obj>>
    BY <1>2 DEF SendMsg, workerVars
  <2> QED  BY <2>1, SenderMoves
<1>3. ASSUME NEW s \in Senders, spe_worker_do(s) PROVE WorkerInv'
  BY <1>3, SendStep
<1>4. ASSUME NEW s \in Senders, Signal(s) PROVE WorkerInv'
  <2>1. sender' = [sender EXCEPT ![s] = Outside] /\ UNCHANGED <<worker_queue, status, at, obj>>
    BY <1>4 DEF Signal, objectVars
  <2>2. Outside \in [at : {"out", "do", "signal"}, obj : Objects \cup {NoObject}]
        /\ Outside.at # "do"
    BY DEF Outside
  <2> QED  BY <2>1, <2>2, SenderMoves
<1>5. ASSUME NEW w \in Workers, Wait(w) \/ Wake(w) \/ WakeSpuriously(w) \/ Handle(w) PROVE WorkerInv'
  <2>1. UNCHANGED placeVars
    BY <1>5 DEF Wait, Wake, WakeSpuriously, Handle, placeVars, objectVars
  <2> QED  BY <2>1, Kept DEF placeVars, Running, WorkerInv, PlaceType
<1>6. ASSUME NEW w \in Workers, Get(w) PROVE WorkerInv'
  BY <1>6, GetStep
<1>7. ASSUME NEW w \in Workers, Splice(w) PROVE WorkerInv'
  <2>1. at[w] = "splice" /\ at' = [at EXCEPT ![w] = "run"] /\ UNCHANGED <<worker_queue, status, obj, sender>>
    BY <1>7 DEF Splice
  <2>2. at' \in [Workers -> {"get", "splice", "run", "settle"}]
    BY <2>1 DEF WorkerInv, PlaceType
  <2>3. \A v \in Workers : Running(v)' <=> Running(v)
    BY <2>1 DEF WorkerInv, PlaceType, Running
  <2> QED  BY <2>1, <2>2, <2>3, Kept
<1>8. ASSUME NEW w \in Workers, EndOfMessages(w) PROVE WorkerInv'
  <2>1. at[w] = "run" /\ at' = [at EXCEPT ![w] = "settle"] /\ UNCHANGED <<worker_queue, status, obj, sender>>
    BY <1>8 DEF EndOfMessages, objectVars
  <2>2. at' \in [Workers -> {"get", "splice", "run", "settle"}]
    BY <2>1 DEF WorkerInv, PlaceType
  <2>3. \A v \in Workers : Running(v)' <=> Running(v)
    BY <2>1 DEF WorkerInv, PlaceType, Running
  <2> QED  BY <2>1, <2>2, <2>3, Kept
<1>9. ASSUME NEW w \in Workers, Settle(w) PROVE WorkerInv'
  BY <1>9, SettleStep
<1> QED  BY <1>1, <1>2, <1>3, <1>4, <1>5, <1>6, <1>7, <1>8, <1>9 DEF WorkerNext, Send, worker_routine

-----------------------------------------------------------------------------
\* spe_worker.c:20-30, 47-74.  Whatever the number of workers, senders, objects
\* and messages, an object is queued once or with one worker.
THEOREM ObjectsRunAlone == WorkerSpec => []ObjectRunsAlone
<1>1. WorkerInit => WorkerInv
  BY WorkerInitInv
<1>2. WorkerInv /\ [WorkerNext]_allVars => WorkerInv'
  BY WorkerStep
<1>3. WorkerInv => ObjectRunsAlone
  BY DEF WorkerInv
<1> QED  BY <1>1, <1>2, <1>3, PTL DEF WorkerSpec
=============================================================================
