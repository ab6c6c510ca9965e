------------------------------- MODULE Drivers ------------------------------
(***************************************************************************)
(* The parts of the library that serve somebody and keep objects for it:   *)
(* signals, redis clients, HTTP requests, monitor connections, coroutines. *)
(* They do not interact.                                                   *)
(***************************************************************************)
EXTENDS Integers, Sequences

CONSTANTS Signals, NoSignal, MAX_SIGNAL, MaxDeliveries,
          Clients, PoolSize, MaxCommands, Replies,
          Requests, NoRequest, MaxHandlers,
          Monitors,
          Routines, Main

VARIABLES queue, queueLen, count, registered, caught, pending, stack, registering, lost,
          client, poolData, commands,
          httpHandlerList, live, conn, status, callback, inProgram, refused,
          gMonitor, entered, monitors, monitorConn, monitorStatus,
          allocated, curr_routine, prev, finished, context

signalVars  == <<queue, queueLen, count, registered, caught, pending, stack, registering, lost>>
redisVars   == <<client, poolData, commands>>
httpVars    == <<httpHandlerList, live, conn, status, callback, inProgram, refused>>
monitorVars == <<gMonitor, entered, monitors, monitorConn, monitorStatus>>
routineVars == <<allocated, curr_routine, prev, finished, context>>
driverVars  == <<signalVars, redisVars, httpVars, monitorVars, routineVars>>

\* spe_signal_queue has room for a signal, and bounds are numbers.
SignalAssumption == NoSignal \notin Signals /\ MAX_SIGNAL \in Nat \ {0} /\ MaxDeliveries \in Nat
ASSUME SignalAssumption

\* The driver of spe_redis.c keeps its place only in these replies (run
\* redis_reply): a line, no value, a value, or an array of values.
IsArray(kinds) ==
  \E n \in 0..Len(kinds) :
    /\ Len(kinds) = 2 * n + 1 /\ kinds[1] = "array"
    /\ \A i \in 1..n : kinds[2 * i] = "bulk" /\ kinds[2 * i + 1] = "data"

RedisAssumption ==
  /\ \A kinds \in Replies :
       \/ kinds \in {<<"status">>, <<"nil">>, <<"bulk", "data">>}
       \/ kinds \in Seq({"array", "bulk", "data"}) /\ IsArray(kinds)
  /\ PoolSize \in Nat /\ MaxCommands \in Nat
ASSUME RedisAssumption

HttpAssumption == NoRequest \notin Requests /\ MaxHandlers \in Nat
ASSUME HttpAssumption

\* The thread itself is no routine, and no routine is a place in the code.
RoutineAssumption == Main \notin Routines /\ Routines \cap {"start", "yield", "runs"} = {}
ASSUME RoutineAssumption

-----------------------------------------------------------------------------
Signal == INSTANCE SpeSignal WITH MaxCount <- MaxDeliveries
Redis == INSTANCE SpeRedis
Http == INSTANCE SpeHttp
Monitor == INSTANCE SpeMonitor WITH
  live <- monitors, conn <- monitorConn, status <- monitorStatus
Routine == INSTANCE SpeRoutine WITH live <- allocated

-----------------------------------------------------------------------------
(* What each part promises; the modules say more. *)

\* spe_signal.c:43-48, 83-91.  A signal with a count has an entry in the queue,
\* whatever handler interrupts which, but for the overwritten entries and the
\* full queue.
SignalIsHeld == Signal!SignalIsHeld

\* spe_redis.c:139-193, 202-218.  A command that succeeds has its own reply, all
\* of it, and nothing of an earlier one.
ReplyIsOfCommand == Redis!ReplyIsOfCommand

\* spe_redis.c:61-82.  A client in the pool waits for nothing and has nothing
\* unread; a client nobody holds has no connection.
PooledIsQuiet == Redis!PooledIsQuiet

\* spe_http_server.c:105-193, spe_monitor.c:38-144, spe_routine.c:9-84.  What is
\* made for one request, connection or coroutine is freed once and not before
\* the last one that would come back to it.
RequestsAreOwned == Http!RequestIsOwned /\ Monitor!MonitorIsOwned /\ Routine!RoutinesNest
=============================================================================
