---------------------------- MODULE ConnLifecycle ----------------------------
(***************************************************************************)
(* What spe_conn.c promises a program: each request is called back once,   *)
(* by the direction it was made in, never after the connection is gone and *)
(* never from inside another callback.                                     *)
(***************************************************************************)
EXTENDS ConnSpec

CONSTANTS Conns, Nobody

VARIABLES view,         \* the connections
          inside        \* whose callback is on the stack, or Nobody

vars == <<view, inside>>

Init == view = [c \in Conns |-> NoConn] /\ inside = Nobody

Becomes(c, v) == view' = [view EXCEPT ![c] = v]

\* The calls of the program.
Call(c, v) == UNCHANGED inside /\ Becomes(c, v)

Own(c, callback) == inside = <<c, callback>>

Create(c) == ~ view[c].open /\ Call(c, SpeConnCreate)

Connect(c) ==
  /\ view[c].open /\ view[c].read = "none" /\ view[c].write = "none"
  /\ \E v \in SpeConnConnect(view[c], Own(c, "ReadCallback")) : Call(c, v)

Read(c) ==
  /\ view[c].open /\ view[c].read = "none"
  /\ \E now \in BOOLEAN : Call(c, SpeConnRead(view[c], now, Own(c, "ReadCallback")))

Flush(c) ==
  /\ view[c].open /\ view[c].read # "connect" /\ view[c].write = "none"
  /\ \E now \in BOOLEAN : Call(c, SpeConnFlush(view[c], now, Own(c, "WriteCallback")))

Destroy(c) == view[c].open /\ Call(c, NoConn)

\* The callbacks.  readTask and writeTask call for a request the kernel has
\* answered, which may be the end of the connection; ReadCallback and
\* WriteCallback are queued for a request that was answered in the call.
Enter(c, task, v) ==
  inside = Nobody /\ inside' = <<c, task>> /\ Becomes(c, v)

ReadAnswered(c) ==
  /\ view[c].read \in {"connect", "wait"}
  /\ \E ended \in {TRUE, view[c].ended} :
       Enter(c, "readTask", [view[c] EXCEPT !.read = "none", !.ended = ended])

WriteAnswered(c) ==
  /\ view[c].write = "wait"
  /\ \E ended \in {TRUE, view[c].ended} :
       Enter(c, "writeTask", [view[c] EXCEPT !.write = "none", !.ended = ended])

ReadCalled(c) ==
  view[c].read = "queued" /\ Enter(c, "ReadCallback", [view[c] EXCEPT !.read = "none"])

WriteCalled(c) ==
  view[c].write = "queued" /\ Enter(c, "WriteCallback", [view[c] EXCEPT !.write = "none"])

Return == inside # Nobody /\ inside' = Nobody /\ UNCHANGED view

Next ==
  \/ \E c \in Conns :
       \/ Create(c) \/ Connect(c) \/ Read(c) \/ Flush(c) \/ Destroy(c)
       \/ ReadAnswered(c) \/ WriteAnswered(c) \/ ReadCalled(c) \/ WriteCalled(c)
  \/ Return

Spec == Init /\ [][Next]_vars
=============================================================================
