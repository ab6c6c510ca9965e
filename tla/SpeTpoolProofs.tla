--------------------------- MODULE SpeTpoolProofs ----------------------------
(***************************************************************************)
(* Proofs about the thread pool, for any finite set of threads and any     *)
(* sets of callers and jobs.                                               *)
(***************************************************************************)
EXTENDS SpeTpool, FiniteSetTheorems, SequenceTheorems, TLAPS

-----------------------------------------------------------------------------
(* The inductive invariant *)

\* Calls are well-formed: a caller past its test has a job, and past the free
\* list a thread.
CallsInv ==
  \A c \in Callers :
    /\ caller[c].at \in {"pop", "give", "start"} => caller[c].job \in Jobs
    /\ caller[c].at \in {"give", "signal"} => caller[c].thread \in Threads

\* Nothing has happened before SpeTpoolInit.
StartInv ==
  gTpool = "none" => /\ freeList = << >>
                     /\ \A t \in Threads : place[t] = "none" /\ handler[t] = NoJob
                     /\ \A c \in Callers : caller[c] = NoCall
                     /\ \A j \in Jobs : once[j] = "no"

\* A thread that may be given a handler: it has none, and it is not about to
\* clear one.
Idle(t) == handler[t] = NoJob /\ place[t] \in {"none", "test", "wait", "woken", "quit", "gone"}

Gives(c) == caller[c].at = "give"

\* The free list and the threads callers took from it are idle and distinct.
ListInv ==
  /\ \A m, n \in DOMAIN freeList : freeList[m] = freeList[n] => m = n
  /\ \A n \in DOMAIN freeList : Idle(freeList[n])
  /\ \A c \in Callers : Gives(c) =>
       /\ Idle(caller[c].thread)
       /\ \A n \in DOMAIN freeList : freeList[n] # caller[c].thread
  /\ \A c, d \in Callers :
       Gives(c) /\ Gives(d) /\ caller[c].thread = caller[d].thread => c = d

\* What a thread knows at each point of its loop.
LoopInv ==
  \A t \in Threads :
    /\ place[t] = "join" => handler[t] = NoJob
    /\ place[t] = "run" => handler[t] # NoJob
    /\ place[t] = "woken" => handler[t] # NoJob \/ stop[t]

\* The three kinds of places a job can be in before it has run.
Brings(c, j) == caller[c].job = j /\ caller[c].at \in {"pop", "give", "start"}
Keeps(t, j)  == handler[t] = j /\ place[t] \notin {"clear", "join"}
Owns(j)      == once[j] = "started"

Placed(j) == Owns(j) \/ (\E c \in Callers : Brings(c, j)) \/ (\E t \in Threads : Keeps(t, j))

\* A job has a place exactly between its acceptance and its run, and only one.
PlaceOf(j) ==
  /\ ran[j] \in {0, 1}
  /\ Placed(j) <=> j \in given /\ ran[j] = 0
  /\ j \notin given => ran[j] = 0
  /\ \A c, d \in Callers : Brings(c, j) /\ Brings(d, j) => c = d
  /\ \A t, u \in Threads : Keeps(t, j) /\ Keeps(u, j) => t = u
  /\ \A c \in Callers, t \in Threads : ~ (Brings(c, j) /\ Keeps(t, j))
  /\ \A c \in Callers : ~ (Brings(c, j) /\ Owns(j))
  /\ \A t \in Threads : ~ (Keeps(t, j) /\ Owns(j))
  /\ ran[j] = 0 => once[j] \in {"no", "started"}

PlaceInv == \A j \in Jobs : PlaceOf(j)

\* threadRun counts the threads that have not passed its decrement.
Pooled == {t \in Threads : place[t] \notin {"none", "gone"}}
Single == {j \in Jobs : once[j] \in {"started", "done"}}

CountInv ==
  /\ IsFiniteSet(Single)
  /\ threadRun = Cardinality(Pooled) + Cardinality(Single)

IInv == PoolTypeOK /\ CallsInv /\ StartInv /\ ListInv /\ LoopInv /\ PlaceInv /\ CountInv

-----------------------------------------------------------------------------
(* One lemma per part: a step keeps it. *)

\* A caller keeps its job and its thread until it has handed them over.
LEMMA CallsStep ==
  PoolTypeOK /\ CallsInv /\ StartInv /\ [PoolNext]_tpoolVars => CallsInv'
<1> SUFFICES ASSUME PoolTypeOK, CallsInv, [PoolNext]_tpoolVars PROVE CallsInv'
  OBVIOUS
<1> USE DEF PoolTypeOK, CallState, CallsInv, NoCall
<1>1. CASE UNCHANGED caller
  BY <1>1
<1>2. ASSUME NEW c \in Callers, NEW j \in Jobs, DoTest(c, j) PROVE CallsInv'
  BY <1>2 DEF DoTest
<1>3. ASSUME NEW c \in Callers, DoPop(c) PROVE CallsInv'
  <2>1. Head(freeList) \in Threads
    BY <1>3 DEF DoPop
  <2> QED
    BY <1>3, <2>1 DEF DoPop
<1>4. ASSUME NEW c \in Callers, DoGive(c) PROVE CallsInv'
  BY <1>4 DEF DoGive
<1>5. ASSUME NEW c \in Callers, DoSignal(c) PROVE CallsInv'
  BY <1>5 DEF DoSignal
<1>6. ASSUME NEW c \in Callers, DoStart(c) PROVE CallsInv'
  BY <1>6 DEF DoStart
<1> HIDE DEF CallsInv, PoolTypeOK, CallState, NoCall
<1> QED
  BY <1>1, <1>2, <1>3, <1>4, <1>5, <1>6 DEF tpoolVars, PoolNext, SpeTpoolInit, Do, Routine, Test,
     WakeUp, Proceed, RunHandler, Clear, Join, Quit, WakeUpSpuriously, DeinitStops,
     DeinitFrees, RoutineOnce, OnceRuns, OnceQuits

\* Nothing runs before SpeTpoolInit.
LEMMA StartStep ==
  PoolTypeOK /\ StartInv /\ [PoolNext]_tpoolVars => StartInv'
<1> SUFFICES ASSUME PoolTypeOK, StartInv, [PoolNext]_tpoolVars PROVE StartInv'
  OBVIOUS
<1> USE DEF PoolTypeOK, StartInv, NoCall
<1>1. CASE UNCHANGED tpoolVars
  BY <1>1 DEF tpoolVars, poolVars, threadVars
<1>2. CASE SpeTpoolInit \/ DeinitFrees
  <2>1. gTpool' = "live" \/ gTpool' = "freed"
    BY <1>2 DEF SpeTpoolInit, DeinitFrees
  <2> QED
    BY <2>1
<1>3. ASSUME NEW c \in Callers, Do(c) PROVE StartInv'
  <2>1. gTpool' = gTpool
    BY <1>3 DEF Do, DoTest, DoPop, DoGive, DoSignal, DoStart, poolVars
  <2>2. gTpool = "live" \/ caller[c].at # "out"
    BY <1>3 DEF Do, DoTest, DoPop, DoGive, DoSignal, DoStart
  <2> QED
    BY <2>1, <2>2
<1>4. ASSUME NEW t \in Threads, Routine(t) \/ WakeUpSpuriously(t) \/ DeinitStops(t)
      PROVE StartInv'
  BY <1>4 DEF Routine, Test, WakeUp, Proceed, RunHandler, Clear, Join, Quit,
     WakeUpSpuriously, DeinitStops, Goes, Usable, poolVars
<1>5. ASSUME NEW j \in Jobs, RoutineOnce(j) PROVE StartInv'
  BY <1>5 DEF RoutineOnce, OnceRuns, OnceQuits, poolVars, threadVars
<1> HIDE DEF StartInv
<1> QED
  BY <1>1, <1>2, <1>3, <1>4, <1>5 DEF PoolNext

\* A thread leaves its wait with a handler or to stop, and joins the free list
\* without one.
LEMMA LoopStep ==
  PoolTypeOK /\ StartInv /\ CallsInv /\ ListInv /\ LoopInv /\ [PoolNext]_tpoolVars => LoopInv'
<1> SUFFICES ASSUME PoolTypeOK, StartInv, CallsInv, ListInv, LoopInv, [PoolNext]_tpoolVars
             PROVE LoopInv'
  OBVIOUS
<1> USE DEF PoolTypeOK, LoopInv
<1>1. CASE UNCHANGED <<place, handler, stop>>
  BY <1>1
<1>2. CASE SpeTpoolInit
  BY <1>2 DEF SpeTpoolInit
<1>3. ASSUME NEW c \in Callers, DoGive(c) PROVE LoopInv'
  BY <1>3, NoJobAssumption DEF DoGive, CallsInv, ListInv, Idle, Gives
<1>4. ASSUME NEW t \in Threads, Test(t) \/ WakeUp(t) \/ WakeUpSpuriously(t) \/ Proceed(t)
      PROVE LoopInv'
  <2>1. CASE Test(t)
    BY <2>1 DEF Test, Goes
  <2>2. CASE WakeUp(t) \/ WakeUpSpuriously(t)
    <3>1. place' = [place EXCEPT ![t] = "test"] /\ handler' = handler /\ stop' = stop
      BY <2>2 DEF WakeUp, WakeUpSpuriously, Goes
    <3>2. \A u \in Threads : place'[u] = "test" \/ place'[u] = place[u]
      BY <3>1
    <3> QED
      BY <3>1, <3>2
  <2>3. CASE Proceed(t)
    <3>1. /\ handler' = handler /\ stop' = stop /\ place[t] = "woken"
          /\ place' = [place EXCEPT ![t] = IF stop[t] THEN "quit" ELSE "run"]
      BY <2>3 DEF Proceed, Goes
    <3>2. \A u \in Threads \ {t} : place'[u] = place[u]
      BY <3>1
    <3>3. place'[t] = "quit" \/ (place'[t] = "run" /\ ~ stop[t])
      BY <3>1
    <3> QED
      BY <3>1, <3>2, <3>3
  <2> QED
    BY <1>4, <2>1, <2>2, <2>3
<1>5. ASSUME NEW t \in Threads, RunHandler(t) \/ Clear(t) \/ Join(t) \/ Quit(t)
      PROVE LoopInv'
  BY <1>5 DEF RunHandler, Clear, Join, Quit, Goes
<1>6. ASSUME NEW t \in Threads, DeinitStops(t) PROVE LoopInv'
  BY <1>6 DEF DeinitStops
<1> HIDE DEF LoopInv
<1> QED
  BY <1>1, <1>2, <1>3, <1>4, <1>5, <1>6 DEF tpoolVars, threadVars, PoolNext, Do, DoTest, DoPop,
     DoSignal, DoStart, Routine, RoutineOnce, OnceRuns, OnceQuits, DeinitFrees

\* What keeps the list invariant: no new entry, no new taker, and no idle
\* thread that is one no more.
LEMMA ListKept ==
  ASSUME PoolTypeOK, CallsInv, ListInv,
         freeList' = freeList,
         \A t \in Threads : Idle(t) => Idle(t)',
         \A c \in Callers : Gives(c)' => Gives(c) /\ caller'[c].thread = caller[c].thread
  PROVE  ListInv'
<1>1. \A n \in DOMAIN freeList : freeList[n] \in Threads
  BY DEF PoolTypeOK
<1>2. \A c \in Callers : Gives(c) => caller[c].thread \in Threads
  BY DEF CallsInv, Gives
<1> QED
  BY <1>1, <1>2 DEF ListInv

\* Listed and taken threads stay idle and distinct.
LEMMA ListStep ==
  PoolTypeOK /\ StartInv /\ CallsInv /\ LoopInv /\ ListInv /\ [PoolNext]_tpoolVars => ListInv'
<1> SUFFICES ASSUME PoolTypeOK, StartInv, CallsInv, LoopInv, ListInv, [PoolNext]_tpoolVars
             PROVE ListInv'
  OBVIOUS
<1> USE DEF PoolTypeOK, ListInv, Idle, Gives
<1>1. CASE UNCHANGED <<freeList, place, handler, caller>>
  BY <1>1, ListKept
<1>2. CASE SpeTpoolInit
  <2>1. /\ DOMAIN freeList' = 1 .. Cardinality(Threads)
        /\ \A m, n \in DOMAIN freeList' : freeList'[m] = freeList'[n] => m = n
        /\ \A n \in DOMAIN freeList' : freeList'[n] \in Threads
    BY <1>2 DEF SpeTpoolInit, SetToSeqs
  <2> QED
    BY <1>2, <2>1 DEF SpeTpoolInit, StartInv, NoCall
<1>3. ASSUME NEW c \in Callers, NEW j \in Jobs, DoTest(c, j) PROVE ListInv'
  <2>1. UNCHANGED <<freeList, place, handler>> /\ \A d \in Callers \ {c} : caller'[d] = caller[d]
    BY <1>3 DEF DoTest, poolVars, threadVars
  <2>2. ~ Gives(c)'
    BY <1>3 DEF DoTest
  <2> QED
    BY <2>1, <2>2, ListKept
<1>4. ASSUME NEW c \in Callers, DoPop(c) PROVE ListInv'
  <2> DEFINE h == Head(freeList)
  <2>1. /\ h = freeList[1] /\ 1 \in DOMAIN freeList /\ h \in Threads
        /\ \A n \in DOMAIN freeList' :
             n + 1 \in DOMAIN freeList /\ freeList'[n] = freeList[n + 1] /\ n \in Nat \ {0}
    BY <1>4 DEF DoPop
  <2>2. /\ UNCHANGED <<handler, place>>
        /\ \A d \in Callers \ {c} : caller'[d] = caller[d]
        /\ caller'[c].at = "give" /\ caller'[c].thread = h
    BY <1>4 DEF DoPop, threadVars
  <2> HIDE DEF h
  <2>3. /\ \A m, n \in DOMAIN freeList' : freeList'[m] = freeList'[n] => m = n
        /\ \A n \in DOMAIN freeList' : freeList'[n] # h /\ Idle(freeList'[n])
    BY <2>1
  <2>4. ASSUME NEW d \in Callers, Gives(d)'
        PROVE  /\ Idle(caller[d].thread)' /\ \A n \in DOMAIN freeList' : freeList'[n] # caller'[d].thread
               /\ d # c => caller'[d].thread # h
    BY <2>1, <2>2, <2>3, <2>4
  <2> QED
    BY <2>2, <2>3, <2>4
<1>5. ASSUME NEW c \in Callers, DoGive(c) PROVE ListInv'
  BY <1>5 DEF DoGive, poolVars, CallsInv
<1>6. ASSUME NEW c \in Callers, DoSignal(c) \/ DoStart(c) PROVE ListInv'
  <2>1. UNCHANGED <<freeList, place, handler>> /\ caller' = [caller EXCEPT ![c] = NoCall]
    BY <1>6 DEF DoSignal, DoStart, poolVars, threadVars
  <2>2. ~ Gives(c)' /\ \A d \in Callers \ {c} : caller'[d] = caller[d]
    BY <2>1 DEF NoCall
  <2> QED
    BY <2>1, <2>2, ListKept
<1>7. ASSUME NEW t \in Threads, Test(t) \/ WakeUp(t) \/ WakeUpSpuriously(t) \/ Proceed(t) \/ Quit(t)
      PROVE ListInv'
  <2>1. UNCHANGED <<freeList, handler, caller>> /\ \A u \in Threads \ {t} : place'[u] = place[u]
    BY <1>7 DEF Test, WakeUp, WakeUpSpuriously, Proceed, Quit, Goes, poolVars
  <2>2. Idle(t) => Idle(t)'
    BY <1>7 DEF Test, WakeUp, WakeUpSpuriously, Proceed, Quit, Goes, LoopInv
  <2> QED
    BY <2>1, <2>2, ListKept
<1>8. ASSUME NEW t \in Threads, RunHandler(t) \/ Clear(t) PROVE ListInv'
  <2>1. /\ UNCHANGED <<freeList, caller>> /\ ~ Idle(t)
        /\ \A u \in Threads \ {t} : place'[u] = place[u] /\ handler'[u] = handler[u]
    BY <1>8 DEF RunHandler, Clear, Goes, poolVars
  <2> QED
    BY <2>1, ListKept
<1>9. ASSUME NEW t \in Threads, Join(t) PROVE ListInv'
  <2>1. /\ freeList' = Append(freeList, t) /\ UNCHANGED <<handler, caller>>
        /\ place' = [place EXCEPT ![t] = "test"] /\ place[t] = "join" /\ handler[t] = NoJob
    BY <1>9 DEF Join, Goes, LoopInv
  <2>2. /\ DOMAIN freeList' = 1 .. Len(freeList) + 1
        /\ freeList'[Len(freeList) + 1] = t
        /\ \A n \in DOMAIN freeList : freeList'[n] = freeList[n] /\ freeList[n] \in Threads
        /\ DOMAIN freeList = 1 .. Len(freeList) /\ Len(freeList) \in Nat
    BY <2>1
  <2>3. \A n \in DOMAIN freeList : freeList[n] # t
    BY <2>1
  <2>4. \A m, n \in DOMAIN freeList' : freeList'[m] = freeList'[n] => m = n
    BY <2>2, <2>3
  <2>5. \A n \in DOMAIN freeList' : Idle(freeList[n])'
    BY <2>1, <2>2
  <2>6. \A c \in Callers : Gives(c) => caller[c].thread # t /\ caller[c].thread \in Threads
    BY <2>1 DEF CallsInv
  <2> QED
    BY <2>1, <2>2, <2>4, <2>5, <2>6
<1> HIDE DEF ListInv, Idle, Gives
<1> QED
  BY <1>1, <1>2, <1>3, <1>4, <1>5, <1>6, <1>7, <1>8, <1>9 DEF tpoolVars, poolVars, threadVars,
     PoolNext, Do, Routine, RoutineOnce, OnceRuns, OnceQuits, DeinitStops, DeinitFrees

\* What keeps the place of a job: its places and its history are the same.
LEMMA PlaceKept ==
  ASSUME NEW j \in Jobs, PlaceOf(j),
         ran'[j] = ran[j], j \in given' <=> j \in given,
         \A c \in Callers : Brings(c, j)' <=> Brings(c, j),
         \A t \in Threads : Keeps(t, j)' <=> Keeps(t, j),
         Owns(j)' <=> Owns(j),
         ran[j] = 0 => once'[j] = once[j]
  PROVE  PlaceOf(j)'
BY DEF PlaceOf, Placed

\* A job moves from place to place and leaves the last one by running.
LEMMA PlaceStep ==
  PoolTypeOK /\ StartInv /\ CallsInv /\ LoopInv /\ ListInv /\ PlaceInv /\ [PoolNext]_tpoolVars
    => PlaceInv'
<1> SUFFICES ASSUME PoolTypeOK, StartInv, CallsInv, LoopInv, ListInv, PlaceInv, [PoolNext]_tpoolVars,
                    NEW i \in Jobs
             PROVE  PlaceOf(i)'
  BY DEF PlaceInv
<1> USE NoJobAssumption
<1>0. PlaceOf(i)
  BY DEF PlaceInv
<1>1. CASE UNCHANGED <<caller, handler, place, once, given, ran>>
  BY <1>0, <1>1, PlaceKept DEF Brings, Keeps, Owns
<1>2. CASE SpeTpoolInit
  BY <1>0, <1>2, PlaceKept DEF SpeTpoolInit, StartInv, PoolTypeOK, Brings, Keeps, Owns
<1>3. ASSUME NEW c \in Callers, NEW j \in Jobs, DoTest(c, j) PROVE PlaceOf(i)'
  <2>1. /\ UNCHANGED <<handler, place, once, ran>> /\ given' = given \cup {j} /\ j \notin given
        /\ \A d \in Callers \ {c} : caller'[d] = caller[d]
        /\ caller'[c].job = j /\ caller'[c].at \in {"pop", "start"} /\ caller[c].at = "out"
    BY <1>3 DEF DoTest, PoolTypeOK, threadVars, NoCall
  <2>2. (Owns(i)' <=> Owns(i)) /\ \A t \in Threads : Keeps(t, i)' <=> Keeps(t, i)
    BY <2>1 DEF Owns, Keeps
  <2>3. CASE i # j
    BY <1>0, <2>1, <2>2, <2>3, PlaceKept DEF Brings
  <2>4. CASE i = j
    <3>1. \A d \in Callers : Brings(d, i)' <=> d = c
      BY <1>0, <2>1, <2>4 DEF Brings, PlaceOf, Placed
    <3> QED
      BY <1>0, <2>1, <2>2, <2>4, <3>1 DEF PlaceOf, Placed
  <2> QED
    BY <2>3, <2>4
<1>4. ASSUME NEW c \in Callers, DoPop(c) \/ DoSignal(c) PROVE PlaceOf(i)'
  <2>1. /\ UNCHANGED <<handler, place, once, ran, given>>
        /\ \A d \in Callers \ {c} : caller'[d] = caller[d]
        /\ \/ caller[c].at = "pop" /\ caller'[c].at = "give" /\ caller'[c].job = caller[c].job
           \/ caller[c].at = "signal" /\ caller'[c].at = "out"
    BY <1>4 DEF DoPop, DoSignal, PoolTypeOK, CallState, threadVars, NoCall
  <2> QED
    BY <1>0, <2>1, PlaceKept DEF Brings, Keeps, Owns
<1>5. ASSUME NEW c \in Callers, DoGive(c) PROVE PlaceOf(i)'
  <2> DEFINE h == caller[c].thread
  <2>1. h \in Threads /\ handler[h] = NoJob /\ place[h] \notin {"clear", "join"}
        /\ caller[c].at = "give"
    BY <1>5 DEF DoGive, CallsInv, ListInv, Gives, Idle
  <2>2. /\ UNCHANGED <<place, once, ran, given>>
        /\ \A t \in Threads \ {h} : handler'[t] = handler[t]
        /\ \A d \in Callers \ {c} : caller'[d] = caller[d]
        /\ handler'[h] = caller[c].job /\ caller'[c].at = "signal"
    BY <1>5, <2>1 DEF DoGive, PoolTypeOK
  <2> HIDE DEF h
  <2>3. CASE i # caller[c].job
    BY <1>0, <2>1, <2>2, <2>3, PlaceKept DEF Brings, Keeps, Owns
  <2>4. CASE i = caller[c].job
    <3>1. /\ \A d \in Callers : ~ Brings(d, i)'
          /\ \A t \in Threads : Keeps(t, i)' <=> t = h
          /\ Brings(c, i) /\ (Owns(i)' <=> Owns(i))
      BY <1>0, <2>1, <2>2, <2>4 DEF Brings, Keeps, Owns, PlaceOf
    <3> QED
      BY <1>0, <2>1, <2>2, <3>1 DEF PlaceOf, Placed
  <2> QED
    BY <2>3, <2>4
<1>6. ASSUME NEW c \in Callers, DoStart(c) PROVE PlaceOf(i)'
  <2>1. /\ UNCHANGED <<handler, place, ran, given>>
        /\ \A d \in Callers \ {c} : caller'[d] = caller[d]
        /\ caller[c].at = "start" /\ caller'[c].at = "out" /\ caller[c].job \in Jobs
        /\ once' = [once EXCEPT ![caller[c].job] = "started"]
    BY <1>6 DEF DoStart, CallsInv, PoolTypeOK, threadVars, NoCall
  <2>2. CASE i # caller[c].job
    BY <1>0, <2>1, <2>2, PlaceKept DEF Brings, Keeps, Owns, PoolTypeOK
  <2>3. CASE i = caller[c].job
    <3>1. Brings(c, i) /\ once'[i] = "started" /\ Owns(i)'
      BY <2>1, <2>3 DEF Brings, Owns, PoolTypeOK
    <3>2. \A d \in Callers : ~ Brings(d, i)'
      BY <1>0, <2>1, <3>1 DEF Brings, PlaceOf
    <3>3. \A t \in Threads : ~ Keeps(t, i)'
      BY <1>0, <2>1, <3>1 DEF Keeps, PlaceOf
    <3>4. i \in given /\ ran[i] = 0
      BY <1>0, <3>1 DEF PlaceOf, Placed
    <3> QED
      BY <2>1, <3>1, <3>2, <3>3, <3>4 DEF PlaceOf, Placed
  <2> QED
    BY <2>2, <2>3
<1>7. ASSUME NEW t \in Threads,
             Test(t) \/ WakeUp(t) \/ WakeUpSpuriously(t) \/ Proceed(t) \/ Join(t) \/ Quit(t)
      PROVE PlaceOf(i)'
  <2>1. /\ UNCHANGED <<caller, handler, once, ran, given>>
        /\ \A u \in Threads \ {t} : place'[u] = place[u]
        /\ place'[t] \notin {"clear", "join"}
        /\ place[t] \notin {"clear", "join"} \/ handler[t] = NoJob
    BY <1>7 DEF Test, WakeUp, WakeUpSpuriously, Proceed, Join, Quit, Goes, LoopInv, PoolTypeOK
  <2> QED
    BY <1>0, <2>1, PlaceKept DEF Brings, Keeps, Owns
<1>8. ASSUME NEW t \in Threads, RunHandler(t) PROVE PlaceOf(i)'
  <2>1. /\ UNCHANGED <<caller, handler, once, given>>
        /\ \A u \in Threads \ {t} : place'[u] = place[u]
        /\ place[t] = "run" /\ place'[t] = "clear" /\ handler[t] \in Jobs
        /\ ran' = [ran EXCEPT ![handler[t]] = @ + 1]
    BY <1>8 DEF RunHandler, Goes, LoopInv, PoolTypeOK
  <2>2. CASE i # handler[t]
    BY <1>0, <2>1, <2>2, PlaceKept DEF Brings, Keeps, Owns, PoolTypeOK
  <2>3. CASE i = handler[t]
    <3>1. /\ \A u \in Threads : ~ Keeps(u, i)'
          /\ \A d \in Callers : Brings(d, i)' <=> Brings(d, i)
          /\ Keeps(t, i) /\ (Owns(i)' <=> Owns(i)) /\ ran'[i] = ran[i] + 1
      BY <1>0, <2>1, <2>3 DEF Brings, Keeps, Owns, PlaceOf, PoolTypeOK
    <3>2. ran[i] = 0 /\ i \in given
      BY <1>0, <3>1 DEF PlaceOf, Placed
    <3> QED
      BY <1>0, <2>1, <3>1, <3>2 DEF PlaceOf, Placed
  <2> QED
    BY <2>2, <2>3
<1>9. ASSUME NEW t \in Threads, Clear(t) PROVE PlaceOf(i)'
  <2>1. /\ UNCHANGED <<caller, once, ran, given>>
        /\ \A u \in Threads \ {t} : place'[u] = place[u] /\ handler'[u] = handler[u]
        /\ place[t] = "clear" /\ place'[t] = "join"
    BY <1>9 DEF Clear, Goes, PoolTypeOK
  <2> QED
    BY <1>0, <2>1, PlaceKept DEF Brings, Keeps, Owns
<1>10. ASSUME NEW j \in Jobs, OnceRuns(j) PROVE PlaceOf(i)'
  <2>1. /\ UNCHANGED <<caller, handler, place, given>>
        /\ once[j] = "started" /\ once' = [once EXCEPT ![j] = "done"]
        /\ ran' = [ran EXCEPT ![j] = @ + 1]
    BY <1>10 DEF OnceRuns, threadVars
  <2>2. CASE i # j
    BY <1>0, <2>1, <2>2, PlaceKept DEF Brings, Keeps, Owns, PoolTypeOK
  <2>3. CASE i = j
    <3>1. /\ \A u \in Threads : Keeps(u, i)' <=> Keeps(u, i)
          /\ \A d \in Callers : Brings(d, i)' <=> Brings(d, i)
          /\ Owns(i) /\ ~ Owns(i)' /\ ran'[i] = ran[i] + 1
      BY <2>1, <2>3 DEF Brings, Keeps, Owns, PoolTypeOK
    <3>2. ran[i] = 0 /\ i \in given
      BY <1>0, <3>1 DEF PlaceOf, Placed
    <3> QED
      BY <1>0, <2>1, <3>1, <3>2 DEF PlaceOf, Placed
  <2> QED
    BY <2>2, <2>3
<1>11. ASSUME NEW j \in Jobs, OnceQuits(j) PROVE PlaceOf(i)'
  <2>1. /\ UNCHANGED <<caller, handler, place, given, ran>>
        /\ once[j] = "done" /\ once' = [once EXCEPT ![j] = "gone"]
    BY <1>11 DEF OnceQuits, threadVars
  <2>2. (Owns(i)' <=> Owns(i)) /\ (ran[i] = 0 => once'[i] = once[i])
    BY <1>0, <2>1 DEF Owns, PlaceOf, PoolTypeOK
  <2> QED
    BY <1>0, <2>1, <2>2, PlaceKept DEF Brings, Keeps
<1> QED
  BY <1>1, <1>2, <1>3, <1>4, <1>5, <1>6, <1>7, <1>8, <1>9, <1>10, <1>11
     DEF tpoolVars, threadVars, PoolNext, Do, Routine, RoutineOnce, DeinitStops, DeinitFrees

\* What keeps the count: no thread starts or ends.
LEMMA CountKept ==
  ASSUME CountInv, threadRun' = threadRun,
         \A t \in Threads : place'[t] \in {"none", "gone"} <=> place[t] \in {"none", "gone"},
         \A j \in Jobs : once'[j] \in {"started", "done"} <=> once[j] \in {"started", "done"}
  PROVE  CountInv'
<1>1. Pooled' = Pooled /\ Single' = Single
  BY DEF Pooled, Single
<1> QED
  BY <1>1 DEF CountInv

\* threadRun follows the threads.
LEMMA CountStep ==
  PoolTypeOK /\ StartInv /\ CallsInv /\ PlaceInv /\ CountInv /\ [PoolNext]_tpoolVars => CountInv'
<1> SUFFICES ASSUME PoolTypeOK, StartInv, CallsInv, PlaceInv, CountInv, [PoolNext]_tpoolVars
             PROVE  CountInv'
  OBVIOUS
<1>0. /\ IsFiniteSet(Pooled) /\ Cardinality(Pooled) \in Nat
      /\ IsFiniteSet(Single) /\ Cardinality(Single) \in Nat
  BY ThreadsAssumption, FS_Subset, FS_CardinalityType DEF CountInv, Pooled
<1>1. CASE UNCHANGED <<threadRun, place, once>>
  BY <1>1, CountKept
<1>2. CASE SpeTpoolInit
  <2>1. Pooled' = Threads /\ Single' = {}
    BY <1>2 DEF SpeTpoolInit, StartInv, Pooled, Single
  <2>2. threadRun' = Cardinality(Threads) /\ Cardinality(Threads) \in Nat
    BY <1>2, ThreadsAssumption, FS_CardinalityType DEF SpeTpoolInit
  <2> QED
    BY <2>1, <2>2, FS_EmptySet DEF CountInv
<1>3. ASSUME NEW c \in Callers, DoStart(c) PROVE CountInv'
  <2> DEFINE j == caller[c].job
  <2>1. /\ j \in Jobs /\ Brings(c, j) /\ threadRun' = threadRun + 1
        /\ once' = [once EXCEPT ![j] = "started"] /\ place' = place
    BY <1>3 DEF DoStart, CallsInv, Brings, threadVars
  <2> HIDE DEF j
  <2>2. once[j] = "no"
    BY <2>1 DEF PlaceInv, PlaceOf, Placed, Owns
  <2>3. Pooled' = Pooled /\ Single' = Single \cup {j} /\ j \notin Single
    BY <2>1, <2>2 DEF Pooled, Single, PoolTypeOK
  <2>4. IsFiniteSet(Single') /\ Cardinality(Single') = Cardinality(Single) + 1
    BY <1>0, <2>3, FS_AddElement
  <2> QED
    BY <1>0, <2>1, <2>3, <2>4 DEF CountInv
<1>4. ASSUME NEW t \in Threads,
             Test(t) \/ WakeUp(t) \/ WakeUpSpuriously(t) \/ Proceed(t) \/ RunHandler(t)
               \/ Clear(t) \/ Join(t)
      PROVE CountInv'
  <2>1. /\ UNCHANGED <<threadRun, once>> /\ \A u \in Threads \ {t} : place'[u] = place[u]
        /\ place[t] \notin {"none", "gone"} /\ place'[t] \notin {"none", "gone"}
    BY <1>4 DEF Test, WakeUp, WakeUpSpuriously, Proceed, RunHandler, Clear, Join, Goes,
       PoolTypeOK, poolVars
  <2> QED
    BY <2>1, CountKept
<1>5. ASSUME NEW t \in Threads, Quit(t) PROVE CountInv'
  <2>1. /\ threadRun' = threadRun - 1 /\ once' = once
        /\ place[t] = "quit" /\ place' = [place EXCEPT ![t] = "gone"]
    BY <1>5 DEF Quit, Goes
  <2>2. Pooled' = Pooled \ {t} /\ t \in Pooled /\ Single' = Single
    BY <2>1 DEF Pooled, Single, PoolTypeOK
  <2>3. Cardinality(Pooled') = Cardinality(Pooled) - 1
    BY <1>0, <2>2, FS_RemoveElement
  <2> QED
    BY <1>0, <2>1, <2>2, <2>3 DEF CountInv
<1>6. ASSUME NEW j \in Jobs, OnceRuns(j) PROVE CountInv'
  <2>1. /\ UNCHANGED <<threadRun, place>> /\ once[j] = "started"
        /\ once' = [once EXCEPT ![j] = "done"]
    BY <1>6 DEF OnceRuns, poolVars, threadVars
  <2> QED
    BY <2>1, CountKept DEF PoolTypeOK
<1>7. ASSUME NEW j \in Jobs, OnceQuits(j) PROVE CountInv'
  <2>1. /\ threadRun' = threadRun - 1 /\ place' = place /\ once[j] = "done"
        /\ once' = [once EXCEPT ![j] = "gone"]
    BY <1>7 DEF OnceQuits, threadVars
  <2>2. Pooled' = Pooled /\ Single' = Single \ {j} /\ j \in Single
    BY <2>1 DEF Pooled, Single, PoolTypeOK
  <2>3. IsFiniteSet(Single') /\ Cardinality(Single') = Cardinality(Single) - 1
    BY <1>0, <2>2, FS_RemoveElement
  <2> QED
    BY <1>0, <2>1, <2>2, <2>3 DEF CountInv
<1> QED
  BY <1>1, <1>2, <1>3, <1>4, <1>5, <1>6, <1>7
     DEF tpoolVars, poolVars, threadVars, PoolNext, Do, DoTest, DoPop, DoGive, DoSignal, Routine,
         RoutineOnce, DeinitStops, DeinitFrees

\* A function on an interval from 1 is a sequence.
LEMMA TupleIsSeq ==
  ASSUME NEW S, NEW n \in Nat, NEW f \in [1 .. n -> S]
  PROVE  f \in Seq(S)
BY SeqDef

\* Every variable keeps its type.
LEMMA TypeStep ==
  PoolTypeOK /\ CallsInv /\ CountInv' /\ [PoolNext]_tpoolVars => PoolTypeOK'
<1> SUFFICES ASSUME PoolTypeOK, CallsInv, CountInv', [PoolNext]_tpoolVars PROVE PoolTypeOK'
  OBVIOUS
<1>0. threadRun' \in Nat
  <2>1. IsFiniteSet(Pooled') /\ IsFiniteSet(Single')
    BY ThreadsAssumption, FS_Subset DEF CountInv, Pooled
  <2>2. Cardinality(Pooled') \in Nat /\ Cardinality(Single') \in Nat
    BY <2>1, FS_CardinalityType
  <2> QED
    BY <2>2 DEF CountInv
<1> USE DEF PoolTypeOK
<1>1. CASE UNCHANGED tpoolVars
  BY <1>1 DEF tpoolVars, poolVars, threadVars
<1>2. CASE SpeTpoolInit
  <2>1. Cardinality(Threads) \in Nat
    BY ThreadsAssumption, FS_CardinalityType
  <2>2. freeList' \in [1 .. Cardinality(Threads) -> Threads]
    BY <1>2 DEF SpeTpoolInit, SetToSeqs
  <2>3. freeList' \in Seq(Threads)
    BY <2>1, <2>2, TupleIsSeq
  <2> QED
    BY <1>0, <1>2, <2>3 DEF SpeTpoolInit
<1>3. CASE DeinitFrees
  BY <1>3 DEF DeinitFrees, threadVars
<1>4. ASSUME NEW c \in Callers, NEW j \in Jobs, DoTest(c, j) PROVE PoolTypeOK'
  <2> DEFINE to == IF freeList = << >> THEN "start" ELSE "pop"
  <2>1. caller' \in [Callers -> CallState]
    <3>1. /\ caller[c] \in CallState
          /\ caller' = [caller EXCEPT ![c] = [caller[c] EXCEPT !.job = j, !.at = to]]
      BY <1>4 DEF DoTest
    <3>2. to \in {"start", "pop"}
      OBVIOUS
    <3> HIDE DEF to
    <3>3. [caller[c] EXCEPT !.job = j, !.at = to] \in CallState
      BY <3>1, <3>2 DEF CallState
    <3> QED
      BY <3>1, <3>3
  <2>2. UNCHANGED <<poolVars, threadVars, once, ran>> /\ given' \subseteq Jobs
    BY <1>4 DEF DoTest
  <2> QED
    BY <2>1, <2>2 DEF poolVars, threadVars
<1>5. ASSUME NEW c \in Callers, DoPop(c) PROVE PoolTypeOK'
  <2>1. Head(freeList) \in Threads /\ Tail(freeList) \in Seq(Threads)
    BY <1>5 DEF DoPop
  <2>2. caller' \in [Callers -> CallState]
    <3>1. /\ caller[c] \in CallState
          /\ caller' = [caller EXCEPT
               ![c] = [caller[c] EXCEPT !.at = "give", !.thread = Head(freeList)]]
      BY <1>5 DEF DoPop
    <3>2. [caller[c] EXCEPT !.at = "give", !.thread = Head(freeList)] \in CallState
      BY <2>1, <3>1 DEF CallState
    <3> QED
      BY <3>1, <3>2
  <2> QED
    BY <1>5, <2>1, <2>2 DEF DoPop, threadVars
<1>6. ASSUME NEW c \in Callers, DoGive(c) PROVE PoolTypeOK'
  <2>1. caller' \in [Callers -> CallState]
    BY <1>6 DEF DoGive, CallState
  <2>2. handler' \in [Threads -> Jobs \cup {NoJob}]
    BY <1>6 DEF DoGive, CallState
  <2> QED
    BY <1>6, <2>1, <2>2 DEF DoGive, poolVars
<1>7. ASSUME NEW c \in Callers, DoSignal(c) PROVE PoolTypeOK'
  <2>1. caller' \in [Callers -> CallState]
    BY <1>7 DEF DoSignal, CallState, NoCall
  <2>2. signalled' \subseteq Threads
    BY <1>7 DEF DoSignal, WakeThread, CallsInv
  <2> QED
    BY <1>7, <2>1, <2>2 DEF DoSignal, poolVars
<1>8. ASSUME NEW c \in Callers, DoStart(c) PROVE PoolTypeOK'
  <2>1. caller' \in [Callers -> CallState]
    BY <1>8 DEF DoStart, CallState, NoCall
  <2>2. once' \in [Jobs -> {"no", "started", "done", "gone"}]
    BY <1>8 DEF DoStart
  <2> QED
    BY <1>0, <1>8, <2>1, <2>2 DEF DoStart, threadVars
<1>9. ASSUME NEW t \in Threads, Test(t) \/ WakeUp(t) \/ WakeUpSpuriously(t) \/ Proceed(t)
      PROVE PoolTypeOK'
  <2>1. place' \in [Threads -> {"none", "test", "wait", "woken", "run", "clear",
                             "join", "quit", "gone"}]
    BY <1>9 DEF Test, WakeUp, WakeUpSpuriously, Proceed, Goes
  <2>2. signalled' \subseteq Threads /\ UNCHANGED <<poolVars, handler, stop, caller, once, given, ran>>
    BY <1>9 DEF Test, WakeUp, WakeUpSpuriously, Proceed
  <2> QED
    BY <2>1, <2>2 DEF poolVars
<1>10. ASSUME NEW t \in Threads, RunHandler(t) \/ Clear(t) \/ Join(t) \/ Quit(t) PROVE PoolTypeOK'
  <2>1. place' \in [Threads -> {"none", "test", "wait", "woken", "run", "clear",
                             "join", "quit", "gone"}]
    BY <1>10 DEF RunHandler, Clear, Join, Quit, Goes
  <2>2. handler' \in [Threads -> Jobs \cup {NoJob}]
    BY <1>10 DEF RunHandler, Clear, Join, Quit
  <2>3. ran' \in [Jobs -> Nat]
    BY <1>10 DEF RunHandler, Clear, Join, Quit
  <2>4. freeList' \in Seq(Threads)
    <3>1. freeList' = freeList \/ freeList' = Append(freeList, t)
      BY <1>10 DEF RunHandler, Clear, Join, Quit, poolVars
    <3>2. freeList \in Seq(Threads) /\ Append(freeList, t) \in Seq(Threads)
      BY AppendProperties
    <3> QED
      BY <3>1, <3>2, Zenon
  <2>5. UNCHANGED <<gTpool, stop, signalled, caller, once, given>>
    BY <1>10 DEF RunHandler, Clear, Join, Quit, poolVars
  <2> QED
    BY <1>0, <2>1, <2>2, <2>3, <2>4, <2>5
<1>11. ASSUME NEW t \in Threads, DeinitStops(t) PROVE PoolTypeOK'
  <2>1. signalled' \subseteq Threads
    BY <1>11 DEF DeinitStops, WakeThread
  <2>2. stop' \in [Threads -> BOOLEAN]
    BY <1>11 DEF DeinitStops
  <2>3. gTpool' = "stopping"
        /\ UNCHANGED <<freeList, handler, place, caller, once, given, ran>>
    BY <1>11 DEF DeinitStops
  <2> QED
    BY <1>0, <2>1, <2>2, <2>3
<1>12. ASSUME NEW j \in Jobs, RoutineOnce(j) PROVE PoolTypeOK'
  <2>1. once' \in [Jobs -> {"no", "started", "done", "gone"}]
    BY <1>12 DEF RoutineOnce, OnceRuns, OnceQuits
  <2>2. ran' \in [Jobs -> Nat]
    <3>1. ran' = [ran EXCEPT ![j] = ran[j] + 1] \/ ran' = ran
      BY <1>12 DEF RoutineOnce, OnceRuns, OnceQuits
    <3> QED
      BY <3>1
  <2>3. UNCHANGED <<gTpool, freeList, threadVars, caller, given>>
    BY <1>12 DEF RoutineOnce, OnceRuns, OnceQuits, poolVars
  <2> QED
    BY <1>0, <2>1, <2>2, <2>3 DEF threadVars
<1> HIDE DEF PoolTypeOK
<1> QED
  BY <1>1, <1>2, <1>3, <1>4, <1>5, <1>6, <1>7, <1>8, <1>9, <1>10, <1>11, <1>12
     DEF PoolNext, Do, Routine

-----------------------------------------------------------------------------
(* The theorems *)

\* The inductive invariant holds in every state, for any number of threads,
\* callers and jobs.
THEOREM PoolInvariance == PoolSpec => []IInv
<1>1. PoolInit => IInv
  <2> SUFFICES ASSUME PoolInit PROVE IInv
    OBVIOUS
  <2>1. PoolTypeOK /\ CallsInv /\ StartInv /\ ListInv /\ LoopInv
    BY DEF PoolInit, PoolTypeOK, CallState, NoCall, CallsInv, StartInv, ListInv, LoopInv, Gives, Idle
  <2>2. PlaceInv
    BY NoJobAssumption DEF PoolInit, PlaceInv, PlaceOf, Placed, Brings, Keeps, Owns, NoCall
  <2>3. Pooled = {} /\ Single = {} /\ threadRun = 0
    BY DEF PoolInit, Pooled, Single
  <2>4. CountInv
    BY <2>3, FS_EmptySet DEF CountInv
  <2> QED
    BY <2>1, <2>2, <2>4 DEF IInv
<1>2. IInv /\ [PoolNext]_tpoolVars => IInv'
  BY CallsStep, StartStep, LoopStep, ListStep, PlaceStep, CountStep, TypeStep DEF IInv
<1> QED
  BY <1>1, <1>2, PTL DEF PoolSpec

\* spe_tpool.c.  Every variable keeps its type; that threadRun never becomes
\* negative rests on the count of the threads that have not quit.
THEOREM PoolTypeCorrect == PoolSpec => []PoolTypeOK
<1>1. IInv => PoolTypeOK
  BY DEF IInv
<1> QED
  BY <1>1, PoolInvariance, PTL

\* spe_tpool.c:67-73, 114-123.  A thread on the free list, or taken from it
\* by a caller, has no handler and is not about to clear one.
THEOREM ListedThreadsAreIdle == PoolSpec => []FreeIsIdle
<1>1. IInv => FreeIsIdle
  BY DEF IInv, PoolTypeOK, CallsInv, ListInv, Idle, Gives, FreeIsIdle, IsInjective, Range
<1> QED
  BY <1>1, PoolInvariance, PTL

\* spe_tpool.c:57-75, 110-135.  An accepted job is in exactly one place until
\* it has run, and it runs at most once.
THEOREM JobsAreHeld == PoolSpec => []JobIsHeld
<1>1. ASSUME IInv, NEW j \in given
      PROVE  /\ ran[j] = 0 => \E h \in Holders(j) : Holders(j) = {h}
             /\ ran[j] = 1 => Holders(j) = {}
             /\ ran[j] <= 1
  <2>1. j \in Jobs /\ PlaceOf(j)
    BY <1>1 DEF IInv, PoolTypeOK, PlaceInv
  <2>2. Holders(j) = {c \in Callers : Brings(c, j)} \cup {t \in Threads : Keeps(t, j)}
                       \cup {x \in {j} : Owns(j)}
    BY DEF Holders, Brings, Keeps, Owns
  <2>3. CASE ran[j] = 0
    <3>1. Placed(j)
      BY <2>1, <2>3 DEF PlaceOf
    <3>2. CASE Owns(j)
      BY <2>1, <2>2, <2>3, <3>2 DEF PlaceOf
    <3>3. CASE \E c \in Callers : Brings(c, j)
      BY <2>1, <2>2, <2>3, <3>3 DEF PlaceOf
    <3>4. CASE \E t \in Threads : Keeps(t, j)
      BY <2>1, <2>2, <2>3, <3>4 DEF PlaceOf
    <3> QED
      BY <3>1, <3>2, <3>3, <3>4 DEF Placed
  <2>4. CASE ran[j] = 1
    BY <2>1, <2>2, <2>4 DEF PlaceOf, Placed
  <2> QED
    BY <2>1, <2>3, <2>4 DEF PlaceOf
<1>2. IInv => JobIsHeld
  BY <1>1 DEF JobIsHeld
<1> QED
  BY <1>2, PoolInvariance, PTL

\* spe_tpool.c:113-116.  With one caller the list that was not empty without
\* its lock is not empty under it.  (A second caller may empty it in between;
\* the model, and so the theorems above, stop such a caller at DoPop.)
THEOREM PopFindsThreadAlone ==
  ASSUME NEW m, Callers = {m}
  PROVE  PoolSpec => []PopFindsThread
<1>1. PoolInit => PopFindsThread
  BY DEF PoolInit, PopFindsThread, NoCall
<1>2. IInv /\ PopFindsThread /\ [PoolNext]_tpoolVars => PopFindsThread'
  <2> SUFFICES ASSUME PoolTypeOK, StartInv, PopFindsThread, [PoolNext]_tpoolVars PROVE PopFindsThread'
    BY DEF IInv
  <2>1. CASE UNCHANGED <<freeList, caller>>
    BY <2>1 DEF PopFindsThread
  <2>2. CASE SpeTpoolInit
    BY <2>2 DEF SpeTpoolInit, StartInv, NoCall, PopFindsThread
  <2>3. ASSUME NEW j \in Jobs, DoTest(m, j) PROVE PopFindsThread'
    BY <2>3 DEF DoTest, poolVars, PoolTypeOK, PopFindsThread
  <2>4. CASE DoPop(m) \/ DoGive(m) \/ DoSignal(m) \/ DoStart(m)
    <3>1. caller'[m].at # "pop"
      BY <2>4 DEF DoPop, DoGive, DoSignal, DoStart, NoCall, PoolTypeOK, CallState
    <3> QED
      BY <3>1 DEF PopFindsThread
  <2>5. ASSUME NEW t \in Threads, Join(t) PROVE PopFindsThread'
    <3>1. freeList' # << >> /\ caller' = caller
      BY <2>5, AppendProperties DEF Join, PoolTypeOK
    <3> QED
      BY <3>1 DEF PopFindsThread
  <2> QED
    BY <2>1, <2>2, <2>3, <2>4, <2>5
       DEF tpoolVars, poolVars, threadVars, PoolNext, Do, Routine, Test, WakeUp, WakeUpSpuriously, Proceed,
           RunHandler, Clear, Quit, RoutineOnce, OnceRuns, OnceQuits, DeinitStops, DeinitFrees
<1> QED
  BY <1>1, <1>2, PoolInvariance, PTL DEF PoolSpec

\* spe_tpool.c:44, 76, 95.  threadRun is the number of threads that have been
\* started and have not reached its decrement, whatever the order of steps.
THEOREM ThreadRunCounts ==
  PoolSpec => [](threadRun = Cardinality(Pooled) + Cardinality(Single))
<1>1. IInv => threadRun = Cardinality(Pooled) + Cardinality(Single)
  BY DEF IInv, CountInv
<1> QED
  BY <1>1, PoolInvariance, PTL
=============================================================================
