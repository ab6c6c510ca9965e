------------------------------ MODULE SpeMonitor -----------------------------
(***************************************************************************)
(* The monitor, src/spe/spe_monitor.c: a listening socket, and for every   *)
(* connection a driver that alternates between a command and its answer,   *)
(* over the connections of ConnSpec.                                       *)
(***************************************************************************)
EXTENDS ConnSpec

CONSTANT Monitors       \* the addresses of monitorConn_t

VARIABLES gMonitor,     \* "none", "made" or "enabled" (watched)
          entered,      \* main has entered its loop
          live,         \* the monitorConn_t that are allocated
          conn, status  \* of each

vars == <<gMonitor, entered, live, conn, status>>

TypeOK ==
  /\ gMonitor \in {"none", "made", "enabled"}
  /\ entered \in BOOLEAN
  /\ live \subseteq Monitors
  /\ conn \in [Monitors -> Conn]
  /\ status \in [Monitors -> {"waitcmd", "result"}]

Init ==
  /\ gMonitor = "none" /\ entered = FALSE /\ live = {}
  /\ conn = [m \in Monitors |-> NoConn] /\ status = [m \in Monitors |-> "waitcmd"]

SpeMonitorInit ==
  /\ gMonitor = "none" /\ gMonitor' = "made"
  /\ UNCHANGED <<entered, live, conn, status>>

\* Called once, before the loop: a monitor made later is never watched.
monitorEnable ==
  /\ ~ entered /\ entered' = TRUE
  /\ gMonitor' = IF gMonitor = "made" THEN "enabled" ELSE gMonitor
  /\ UNCHANGED <<live, conn, status>>

\* Connections that were accepted stay.
SpeMonitorDeinit ==
  /\ gMonitor # "none" /\ gMonitor' = "none"
  /\ UNCHANGED <<entered, live, conn, status>>

\* accept, calloc and SpeConnCreate succeed; else nothing is left of it.
monitorAccept(m) ==
  /\ gMonitor = "enabled" /\ m \notin live
  /\ live' = live \cup {m}
  /\ conn' = [conn EXCEPT ![m] = SpeConnRead(SpeConnCreate, FALSE, FALSE)]
  /\ status' = [status EXCEPT ![m] = "waitcmd"]
  /\ UNCHANGED <<gMonitor, entered>>

Destroy(m) ==
  /\ live' = live \ {m}
  /\ conn' = [conn EXCEPT ![m] = NoConn]
  /\ UNCHANGED status

\* MONITOR_WAITCMD with processCmd: "quit" or an answer that is never empty.
WaitCmd(m, c) ==
  \/ Destroy(m)
  \/ /\ status' = [status EXCEPT ![m] = "result"]
     /\ conn' = [conn EXCEPT ![m] = SpeConnFlush(c, FALSE, FALSE)]
     /\ UNCHANGED live

\* MONITOR_RESULT: the next command may be in the buffer.
Result(m, c) ==
  /\ status' = [status EXCEPT ![m] = "waitcmd"]
  /\ \E now \in BOOLEAN : conn' = [conn EXCEPT ![m] = SpeConnRead(c, now, FALSE)]
  /\ UNCHANGED live

\* A callback of the connection, c what the request behind it has left.
driver_machine(m, c) ==
  /\ \/ c.ended /\ Destroy(m)
     \/ ~ c.ended /\ status[m] = "waitcmd" /\ WaitCmd(m, c)
     \/ ~ c.ended /\ status[m] = "result" /\ Result(m, c)
  /\ UNCHANGED <<gMonitor, entered>>

ReadEnds(m) ==
  /\ conn[m].read # "none"
  /\ \E ended \in {FALSE, conn[m].read = "wait"} :
       driver_machine(m, [conn[m] EXCEPT !.read = "none", !.ended = ended])

WriteEnds(m) ==
  /\ conn[m].write # "none"
  /\ \E ended \in BOOLEAN :
       driver_machine(m, [conn[m] EXCEPT !.write = "none", !.ended = ended])

Next ==
  \/ SpeMonitorInit \/ monitorEnable \/ SpeMonitorDeinit
  \/ \E m \in Monitors : monitorAccept(m) \/ ReadEnds(m) \/ WriteEnds(m)

Spec == Init /\ [][Next]_vars

-----------------------------------------------------------------------------
\* spe_monitor.c:26-84.  Connection and driver live and die together, and a
\* driver always has exactly one callback to come, the one its status expects.
MonitorIsOwned ==
  \A m \in Monitors :
    /\ conn[m].open <=> m \in live
    /\ m \in live =>
         /\ conn[m].read  # "none" <=> status[m] = "waitcmd"
         /\ conn[m].write # "none" <=> status[m] = "result"
=============================================================================
