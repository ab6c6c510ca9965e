------------------------------ MODULE ConnSpec -------------------------------
(***************************************************************************)
(* A connection as its users see it, src/spe/spe_conn.c without scheduler, *)
(* event table and bytes: per direction at most one request, which waits   *)
(* for the kernel or whose callback is queued.  Each call is an operator   *)
(* from one connection to the next; ConnLifecycle has the steps.           *)
(***************************************************************************)

Conn ==
  [open  : BOOLEAN,
   ended : BOOLEAN,                         \* Error or Closed is set
   read  : {"none", "connect", "wait", "queued"},
   write : {"none", "wait", "queued"}]

NoConn == [open |-> FALSE, ended |-> FALSE, read |-> "none", write |-> "none"]

SpeConnCreate == [NoConn EXCEPT !.open = TRUE]

\* An answer that is there at once queues the callback, which SpeTaskEnqueue
\* refuses to the callback itself (own).
Queued(own) == IF own THEN "none" ELSE "queued"

\* The calls of a connection that has ended return false.
Requested(ended, old, now, own) ==
  IF ended THEN old ELSE IF now THEN Queued(own) ELSE "wait"

SpeConnRead(c, now, own) == [c EXCEPT !.read = Requested(c.ended, @, now, own)]

SpeConnFlush(c, now, own) == [c EXCEPT !.write = Requested(c.ended, @, now, own)]

\* The address may be unknown (nothing happens), the connection may be made or
\* refused at once, or later.
SpeConnConnect(c, own) ==
  {c, [c EXCEPT !.read = "connect"],
   [c EXCEPT !.read = Queued(own)], [c EXCEPT !.read = Queued(own), !.ended = TRUE]}
=============================================================================
