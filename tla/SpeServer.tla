------------------------------ MODULE SpeServer ------------------------------
(***************************************************************************)
(* Start-up and main loop of a program that runs as several processes,     *)
(* src/spe/spe_main.c, spe_server.c, spe_shm.c and spe_spawn: a shared     *)
(* mutex, tried once per loop, decides which process watches the listening *)
(* socket.  The kernel's queue of connections is external.  A mutex call   *)
(* is one step; processes interleave between any two calls.                *)
(***************************************************************************)
EXTENDS Integers, FiniteSets

CONSTANTS Procs,        \* the processes there may be
          First,        \* the one that is started
          Nobody,       \* no process
          MaxArrivals,  \* bound: connections that arrive
          MaxDeaths     \* bound: processes that die in their loop

ASSUME FirstAssumption == First \in Procs
ASSUME NobodyAssumption == Nobody \notin Procs
ASSUME ArrivalsAssumption == MaxArrivals \in Nat
ASSUME DeathsAssumption == MaxDeaths \in Nat

VARIABLES pc,           \* where each process is in main
          gServer,      \* "none", "mute" (no handler) or "live", the same in all
          acceptMutex,  \* "none", "made" or "destroyed"
          owner,        \* who has locked it
          acceptMutexHold, watched, ready,  \* per process: the flag, the mask of
                        \* the socket, listenTask queued
          arrived, taken, deaths            \* counts

loopVars == <<gServer, acceptMutex, owner, acceptMutexHold, watched, ready>>
vars == <<pc, loopVars, arrived, taken, deaths>>

TypeOK ==
  /\ pc \in [Procs -> {"unborn", "main", "init", "before", "poll", "after",
                       "tasks", "exit", "gone"}]
  /\ gServer \in {"none", "mute", "live"}
  /\ acceptMutex \in {"none", "made", "destroyed"}
  /\ owner \in Procs \cup {Nobody}
  /\ acceptMutexHold \in [Procs -> BOOLEAN]
  /\ watched \in [Procs -> BOOLEAN]
  /\ ready \in [Procs -> BOOLEAN]
  /\ arrived \in Nat /\ taken \in Nat /\ taken <= arrived
  /\ deaths \in Nat

Init ==
  /\ pc = [p \in Procs |-> IF p = First THEN "main" ELSE "unborn"]
  /\ gServer = "none" /\ acceptMutex = "none" /\ owner = Nobody
  /\ acceptMutexHold = [p \in Procs |-> FALSE]
  /\ watched = [p \in Procs |-> FALSE]
  /\ ready = [p \in Procs |-> FALSE]
  /\ arrived = 0 /\ taken = 0 /\ deaths = 0

Moves(p, from, to) == pc[p] = from /\ pc' = [pc EXCEPT ![p] = to]

-----------------------------------------------------------------------------
(* Start-up *)

\* The option Mode is "Server" unless the configuration says otherwise; then a
\* server without handler is made, and main gives up if that fails.
CheckMode(p) ==
  /\ \/ Moves(p, "main", "init") /\ gServer' \in {"none", "mute"}
     \/ Moves(p, "main", "gone") /\ UNCHANGED gServer
  /\ UNCHANGED <<acceptMutex, owner, acceptMutexHold, watched, ready, arrived, taken, deaths>>

\* Called by mod_init.  With a server the call returns false.
SpeServerInit(p) ==
  /\ pc[p] = "init" /\ gServer = "none"
  /\ gServer' = "live"
  /\ UNCHANGED <<pc, acceptMutex, owner, acceptMutexHold, watched, ready, arrived, taken, deaths>>

\* Called by mod_init, again or in a child too: the mutex if there is none, then
\* a child per fork, each of which goes on in mod_init; whether a fork failed is
\* not looked at.
SpeProcs(p, children) ==
  /\ pc[p] = "init" /\ gServer # "none"
  /\ children \subseteq {q \in Procs : pc[q] = "unborn"}
  /\ acceptMutex' = IF acceptMutex = "none" THEN "made" ELSE acceptMutex
  /\ pc' = [q \in Procs |-> IF q \in children THEN "init" ELSE pc[q]]
  /\ UNCHANGED <<gServer, owner, acceptMutexHold, watched, ready, arrived, taken, deaths>>

\* The end of mod_init and serverEnable, which watches the socket for good if
\* there is no mutex; or mod_init fails.
EnterLoop(p) ==
  /\ Moves(p, "init", "before")
  /\ watched' = [watched EXCEPT ![p] = gServer # "none" /\ acceptMutex = "none"]
  /\ UNCHANGED <<gServer, acceptMutex, owner, acceptMutexHold, ready, arrived, taken, deaths>>

ModInitFails(p) ==
  /\ Moves(p, "init", "gone")
  /\ UNCHANGED <<loopVars, arrived, taken, deaths>>

-----------------------------------------------------------------------------
(* The loop *)

\* pthread_mutex_trylock takes a mutex that is made and not locked.
TrylockSucceeds == acceptMutex = "made" /\ owner = Nobody

\* Faulty variant: a process that fails keeps watching the socket.
serverBeforeLoopKeepsWatch(p) ==
  /\ Moves(p, "before", "poll")
  /\ IF acceptMutex = "none"
     THEN UNCHANGED <<owner, acceptMutexHold, watched>>
     ELSE /\ owner' = IF TrylockSucceeds THEN p ELSE owner
          /\ acceptMutexHold' = [acceptMutexHold EXCEPT ![p] = TrylockSucceeds]
          /\ watched' = [watched EXCEPT ![p] = TrylockSucceeds \/ watched[p]]
  /\ UNCHANGED <<gServer, acceptMutex, ready, arrived, taken, deaths>>

\* acceptMutexHold still says what the last loop found: the socket is watched
\* anew or no more only if that changes.
serverBeforeLoop(p) ==
  /\ Moves(p, "before", "poll")
  /\ IF acceptMutex = "none"
     THEN UNCHANGED <<owner, acceptMutexHold, watched>>
     ELSE /\ owner' = IF TrylockSucceeds THEN p ELSE owner
          /\ acceptMutexHold' = [acceptMutexHold EXCEPT ![p] = TrylockSucceeds]
          /\ watched' = IF TrylockSucceeds = acceptMutexHold[p] THEN watched
                        ELSE [watched EXCEPT ![p] = TrylockSucceeds]
  /\ UNCHANGED <<gServer, acceptMutex, ready, arrived, taken, deaths>>

\* epoll_wait reports the socket, and listenTask is queued.
PollReports(p) ==
  /\ watched[p] /\ taken < arrived
  /\ Moves(p, "poll", "after")
  /\ ready' = [ready EXCEPT ![p] = TRUE]
  /\ UNCHANGED <<gServer, acceptMutex, owner, acceptMutexHold, watched, arrived, taken, deaths>>

\* It reports something else, times out or is interrupted.
PollReturns(p) ==
  /\ Moves(p, "poll", "after")
  /\ UNCHANGED <<loopVars, arrived, taken, deaths>>

\* Faulty variant: the flag is cleared but the mutex stays locked.
serverAfterLoopKeepsLock(p) ==
  /\ Moves(p, "after", "tasks")
  /\ acceptMutexHold' = [acceptMutexHold EXCEPT ![p] = FALSE]
  /\ UNCHANGED <<gServer, acceptMutex, owner, watched, ready, arrived, taken, deaths>>

\* The flag stays.
serverAfterLoop(p) ==
  /\ Moves(p, "after", "tasks")
  /\ owner' = IF acceptMutex # "none" /\ acceptMutexHold[p] THEN Nobody ELSE owner
  /\ UNCHANGED <<gServer, acceptMutex, acceptMutexHold, watched, ready, arrived, taken, deaths>>

\* taskProcess with serverAccept if it is queued, which finds the connection or
\* that another process was faster; then the test of GStop.  A connection
\* without a handler, or for which SpeConnCreate fails, is closed.
Tasks(p) ==
  /\ Moves(p, "tasks", "before") \/ Moves(p, "tasks", "exit")
  /\ taken' = IF ready[p] /\ taken < arrived THEN taken + 1 ELSE taken
  /\ ready' = [ready EXCEPT ![p] = FALSE]
  /\ UNCHANGED <<gServer, acceptMutex, owner, acceptMutexHold, watched, arrived, deaths>>

\* mod_exit, which may call SpeServerDeinit.  pthread_mutex_destroy refuses a
\* locked mutex and makes any other useless to every process; the munmap
\* behind it is given the length 0 and fails.
SpeServerDeinit(p) ==
  /\ Moves(p, "exit", "gone")
  /\ acceptMutex' \in IF TrylockSucceeds THEN {"made", "destroyed"} ELSE {acceptMutex}
  /\ watched' = [watched EXCEPT ![p] = FALSE]
  /\ UNCHANGED <<gServer, owner, acceptMutexHold, ready, arrived, taken, deaths>>

\* A process is killed; the mutex is not robust.
Die(p) ==
  /\ deaths < MaxDeaths
  /\ pc[p] \in {"before", "poll", "after", "tasks"}
  /\ pc' = [pc EXCEPT ![p] = "gone"]
  /\ watched' = [watched EXCEPT ![p] = FALSE]
  /\ ready' = [ready EXCEPT ![p] = FALSE]
  /\ deaths' = deaths + 1
  /\ UNCHANGED <<gServer, acceptMutex, owner, acceptMutexHold, arrived, taken>>

\* A peer connects to the listening socket.
Arrive ==
  /\ gServer # "none" /\ arrived < MaxArrivals
  /\ arrived' = arrived + 1
  /\ UNCHANGED <<pc, loopVars, taken, deaths>>

-----------------------------------------------------------------------------
StartUp(p) ==
  \/ CheckMode(p) \/ SpeServerInit(p) \/ EnterLoop(p) \/ ModInitFails(p)
  \/ \E children \in SUBSET Procs : SpeProcs(p, children)

Loop(p) ==
  serverBeforeLoop(p) \/ PollReports(p) \/ PollReturns(p) \/ serverAfterLoop(p) \/ Tasks(p)

Next ==
  \/ \E p \in Procs : StartUp(p) \/ Loop(p) \/ SpeServerDeinit(p) \/ Die(p)
  \/ Arrive

Spec == Init /\ [][Next]_vars

\* Every process in its loop is scheduled, epoll_wait having a timeout, and a
\* poll that can report the socket again and again is not always interrupted.
Fairness ==
  \A p \in Procs : WF_vars(Loop(p)) /\ SF_vars(PollReports(p))

FairSpec == Spec /\ Fairness

-----------------------------------------------------------------------------
\* spe_server.c:77-99.  With a mutex, a process that waits for events watches
\* the listening socket only while it owns the mutex, although the flag that
\* decides about both survives the unlock; and nobody else owns it.
WatcherHoldsMutex ==
  acceptMutex # "none" =>
    \A p \in Procs :
      /\ pc[p] \in {"poll", "after"} => (watched[p] <=> owner = p)
      /\ owner = p => pc[p] \in {"poll", "after", "gone"}

\* What stops the server for good: every process has left the loop, the mutex
\* died with its owner (it is not robust), or a process destroyed it.
Blocked ==
  \/ \A p \in Procs : pc[p] \in {"unborn", "main", "init", "exit", "gone"}
  \/ owner # Nobody /\ pc[owner] = "gone"
  \/ acceptMutex = "destroyed"

\* spe_server.c:80-98.  A connection is taken out of the queue of the socket
\* although the processes compete for each poll, unless the server stops.
PendingIsAccepted ==
  \A n \in 1..MaxArrivals : arrived >= n ~> (taken >= n \/ Blocked)
=============================================================================
