------------------------------- MODULE SpeHttp -------------------------------
(***************************************************************************)
(* The life of an HTTP request, src/spe/spe_http_server.c: made for an     *)
(* accepted connection, read and parsed by the driver, handed to the       *)
(* program's handler, which gets the callbacks of the connection until it  *)
(* finishes or destroys the request.  Regular expressions, http_parser and *)
(* the program are external; the connection is that of ConnSpec.           *)
(***************************************************************************)
EXTENDS Integers, ConnSpec

CONSTANTS Requests,     \* the addresses of requests
          NoRequest,    \* none
          MaxHandlers   \* bound: registered handlers

VARIABLES httpHandlerList,  \* its length
          live,             \* the requests that are allocated
          conn, status,     \* of each request
          callback,         \* who gets the callbacks: "driver" or "program"
          inProgram,        \* the request whose handler runs, and whether in
                            \* the task of one of its own callbacks
          refused           \* requests whose last flush was refused (in no code)

vars == <<httpHandlerList, live, conn, status, callback, inProgram, refused>>

Nowhere == [request |-> NoRequest, own |-> "none"]

TypeOK ==
  /\ httpHandlerList \in 0..MaxHandlers
  /\ live \subseteq Requests
  /\ conn \in [Requests -> Conn]
  /\ status \in [Requests -> {"header", "close"}]
  /\ callback \in [Requests -> {"driver", "program"}]
  /\ inProgram \in [request : Requests \cup {NoRequest}, own : {"none", "read", "write"}]
  /\ refused \subseteq Requests

Init ==
  /\ httpHandlerList = 0 /\ live = {}
  /\ conn = [r \in Requests |-> NoConn]
  /\ status = [r \in Requests |-> "header"]
  /\ callback = [r \in Requests |-> "driver"]
  /\ inProgram = Nowhere /\ refused = {}

SpeHttpRegisterHandler ==
  /\ httpHandlerList < MaxHandlers
  /\ httpHandlerList' = httpHandlerList + 1
  /\ UNCHANGED <<live, conn, status, callback, inProgram, refused>>

\* Also from a handler, of which dispatchHandler needs no more then.  A request
\* whose handler has been called keeps the pointer to the function.
SpeHttpUnregisterHandler ==
  /\ httpHandlerList' = 0
  /\ UNCHANGED <<live, conn, status, callback, inProgram, refused>>

-----------------------------------------------------------------------------
\* Faulty variant: the connection stays open.
DestroyKeepsConn(r) ==
  /\ live' = live \ {r}
  /\ refused' = refused \ {r}
  /\ UNCHANGED conn

\* SpeConnDestroy and free, of SpeHttpRequestDestroy and of the driver when the
\* connection has ended; the latter leaves the strings and the map behind.
Destroy(r) ==
  /\ live' = live \ {r}
  /\ conn' = [conn EXCEPT ![r] = NoConn]
  /\ refused' = refused \ {r}

\* httpHandler for an accepted connection; without memory it is destroyed.
httpHandler(r) ==
  /\ inProgram = Nowhere /\ r \notin live
  /\ live' = live \cup {r}
  /\ conn' = [conn EXCEPT ![r] = SpeConnRead(SpeConnCreate, FALSE, FALSE)]
  /\ status' = [status EXCEPT ![r] = "header"]
  /\ callback' = [callback EXCEPT ![r] = "driver"]
  /\ UNCHANGED <<httpHandlerList, inProgram, refused>>

\* dispatchHandler with a handler for the URL: it is called here and now.
Dispatch(r, own) ==
  /\ httpHandlerList > 0
  /\ callback' = [callback EXCEPT ![r] = "program"]
  /\ inProgram' = [request |-> r, own |-> own]
  /\ UNCHANGED <<live, status, refused>>

\* driver_machine.  It destroys the request if the connection has ended, the
\* parser refuses the header, no handler matches, or the request is finished.
driver_machine(r, own, c) ==
  \/ Destroy(r) /\ UNCHANGED <<status, callback, inProgram>>
  \/ /\ ~ c.ended /\ status[r] = "header"
     /\ Dispatch(r, own)
     /\ conn' = [conn EXCEPT ![r] = c]

\* The callback of a connection, c what the request behind it has left.
Callback(r, own, c) ==
  /\ \/ /\ callback[r] = "driver"
        /\ driver_machine(r, own, c)
     \/ /\ callback[r] = "program"
        /\ inProgram' = [request |-> r, own |-> own]
        /\ conn' = [conn EXCEPT ![r] = c]
        /\ UNCHANGED <<live, status, callback, refused>>
  /\ UNCHANGED httpHandlerList

ReadEnds(r) ==
  /\ inProgram = Nowhere /\ conn[r].read # "none"
  /\ \E ended \in {conn[r].ended, conn[r].ended \/ conn[r].read = "wait"} :
       Callback(r, IF conn[r].read = "queued" THEN "read" ELSE "none",
                [conn[r] EXCEPT !.read = "none", !.ended = ended])

WriteEnds(r) ==
  /\ inProgram = Nowhere /\ conn[r].write # "none"
  /\ \E ended \in {conn[r].ended, conn[r].ended \/ conn[r].write = "wait"} :
       Callback(r, IF conn[r].write = "queued" THEN "write" ELSE "none",
                [conn[r] EXCEPT !.write = "none", !.ended = ended])

-----------------------------------------------------------------------------
(* The program: from the handler of a request *)

\* A body is read, or a part of the answer flushed; the answer may be there,
\* the buffer empty, at once.
Reads(r, now) ==
  /\ inProgram.request = r /\ r \in live /\ callback[r] = "program" /\ conn[r].read = "none"
  /\ conn' = [conn EXCEPT ![r] = SpeConnRead(@, now, inProgram.own = "read")]
  /\ UNCHANGED <<httpHandlerList, live, status, callback, inProgram, refused>>

Flushes(r, now) ==
  /\ inProgram.request = r /\ r \in live /\ callback[r] = "program" /\ conn[r].write = "none"
  /\ conn' = [conn EXCEPT ![r] = SpeConnFlush(@, now, inProgram.own = "write")]
  /\ UNCHANGED <<httpHandlerList, live, status, callback, inProgram, refused>>

\* The result of the flush is not looked at.
SpeHttpRequestFinish(r, now) ==
  /\ inProgram.request = r /\ r \in live /\ callback[r] = "program" /\ conn[r].write = "none"
  /\ callback' = [callback EXCEPT ![r] = "driver"]
  /\ status' = [status EXCEPT ![r] = "close"]
  /\ LET c == SpeConnFlush(conn[r], now, inProgram.own = "write")
     IN  /\ conn' = [conn EXCEPT ![r] = c]
         /\ refused' = IF c.write = "none" THEN refused \cup {r} ELSE refused
  /\ UNCHANGED <<httpHandlerList, live, inProgram>>

\* Also from elsewhere, of a request the program was given and not finished.
SpeHttpRequestDestroy(r) ==
  /\ r \in live /\ callback[r] = "program"
  /\ Destroy(r)
  /\ UNCHANGED <<httpHandlerList, status, callback, inProgram>>

Return ==
  /\ inProgram # Nowhere
  /\ inProgram' = Nowhere
  /\ UNCHANGED <<httpHandlerList, live, conn, status, callback, refused>>

-----------------------------------------------------------------------------
Next ==
  \/ SpeHttpRegisterHandler \/ SpeHttpUnregisterHandler \/ Return
  \/ \E r \in Requests :
       \/ httpHandler(r) \/ ReadEnds(r) \/ WriteEnds(r) \/ SpeHttpRequestDestroy(r)
       \/ \E now \in BOOLEAN : Reads(r, now) \/ Flushes(r, now) \/ SpeHttpRequestFinish(r, now)

Spec == Init /\ [][Next]_vars

-----------------------------------------------------------------------------
\* spe_http_server.c:105-193.  Request and connection live and die together,
\* so that no callback gets a request that was freed; and a request the driver
\* is to free has a callback to come, unless the flush of Finish was refused,
\* because the connection had ended or because there was nothing to write in
\* the write callback itself.
RequestIsOwned ==
  \A r \in Requests :
    /\ conn[r].open <=> r \in live
    /\ r \in live /\ callback[r] = "driver" =>
         conn[r].read # "none" \/ conn[r].write # "none" \/ r \in refused
=============================================================================
