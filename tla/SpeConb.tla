------------------------------- MODULE SpeConb -------------------------------
(***************************************************************************)
(* The blocking connection of src/spe/leagcy/spe_conb.c.  One thread; the  *)
(* kernel decides what a system call returns.  The program uses one slot   *)
(* of the table of connections, again and again.                           *)
(***************************************************************************)
EXTENDS BlockingRead

CONSTANTS Streams,    \* what a peer may send
          Addresses,  \* number of addresses of the name
          BUF_SIZE,   \* bytes of one read(2)
          MaxCount,   \* bound: bytes asked for or written
          MaxFailures \* bound: calls that fail in the middle of a connect

VARIABLES address,      \* the address that is tried, 0 outside of a connect
          open,         \* sockets that are open
          failures,     \* sockets or buffers that could not be set up
          used,         \* the program has the connection
          stream, rest, \* what the peer sends, and what is not read yet
          readBuffer, data, given,  \* given: all that was read, delimiters too
                                    \* (in no code)
          rtype, closed, error, timeout, res

connectVars == <<address, open, failures, used, stream>>
readVars == <<rest, readBuffer, data, given, rtype>>
endVars == <<closed, error>>
vars == <<connectVars, readVars, endVars, timeout, res>>

SPE_CONB_CLOSED  == 0
SPE_CONB_ERROR   == -1
SPE_CONB_TIMEOUT == -2

TypeOK ==
  /\ address \in 0..Addresses /\ open \in Nat /\ failures \in 0..MaxFailures
  /\ stream \in Streams /\ IsSuffix(rest, stream)
  /\ rtype \in {READNONE, READ, READUNTIL} \cup 1..MaxCount
  /\ {used, closed, error, timeout} \subseteq BOOLEAN

Init ==
  /\ address = 0 /\ open = 0 /\ failures = 0 /\ used = FALSE
  /\ stream = <<>> /\ rest = <<>> /\ readBuffer = <<>> /\ data = <<>> /\ given = <<>>
  /\ rtype = READNONE /\ closed = FALSE /\ error = FALSE /\ timeout = FALSE /\ res = 0

-----------------------------------------------------------------------------
(* spe_conb_connect *)

spe_conb_connect ==
  /\ ~ used /\ address = 0
  /\ address' = 1
  /\ UNCHANGED <<open, failures, used, stream, readVars, endVars, timeout, res>>

\* The loop gives up an address: there is no socket, or it is closed since
\* connect or poll failed.
NextAddress ==
  /\ address # 0
  /\ address' = IF address = Addresses THEN 0 ELSE address + 1
  /\ UNCHANGED <<open, failures, used, stream, readVars, endVars, timeout, res>>

\* A socket that cannot be set non-blocking is left behind, open.
SocketIsLeft ==
  /\ address # 0 /\ failures < MaxFailures
  /\ address' = IF address = Addresses THEN 0 ELSE address + 1
  /\ open' = open + 1 /\ failures' = failures + 1
  /\ UNCHANGED <<used, stream, readVars, endVars, timeout, res>>

\* connect succeeds or poll reports the socket: the peer is there, or it has
\* refused, which nothing asks for; then the first read fails.
spe_conb_create ==
  /\ address # 0
  /\ address' = 0 /\ open' = open + 1 /\ used' = TRUE
  /\ stream' \in Streams /\ rest' = stream'
  /\ readBuffer' = <<>> /\ given' = <<>> /\ rtype' = READNONE
  /\ closed' = FALSE /\ error' = FALSE /\ timeout' = FALSE
  /\ UNCHANGED <<failures, data, res>>

\* NULL, and the socket stays open.
CreateFails ==
  /\ address # 0 /\ failures < MaxFailures
  /\ address' = 0 /\ open' = open + 1 /\ failures' = failures + 1
  /\ UNCHANGED <<used, stream, readVars, endVars, timeout, res>>

\* The slot keeps what was in it.
spe_conb_destroy ==
  /\ used /\ rtype = READNONE
  /\ used' = FALSE /\ open' = open - 1
  /\ UNCHANGED <<address, failures, stream, readVars, endVars, timeout, res>>

\* With a timeout of 0 nothing changes; one that is set cannot be taken back.
spe_conb_set_timeout ==
  /\ used /\ rtype = READNONE
  /\ timeout' = TRUE
  /\ UNCHANGED <<connectVars, readVars, endVars, res>>

-----------------------------------------------------------------------------
(* Reads and writes *)

\* spe_conb_read, spe_conb_readbytes, spe_conb_readuntil
Call(kind) ==
  /\ used /\ rtype = READNONE /\ ~ closed /\ ~ error
  /\ rtype' = kind
  /\ UNCHANGED <<connectVars, rest, readBuffer, data, given, endVars, timeout, res>>

Answer ==
  /\ rtype # READNONE /\ Enough(rtype, readBuffer)
  /\ data' = SubSeq(readBuffer, 1, Gives(rtype, readBuffer))
  /\ readBuffer' = SubSeq(readBuffer, Takes(rtype, readBuffer) + 1, Len(readBuffer))
  /\ given' = given \o data' \o (IF rtype = READUNTIL THEN <<"n">> ELSE <<>>)
  /\ res' = Len(data') /\ rtype' = READNONE
  /\ UNCHANGED <<connectVars, rest, endVars, timeout>>

\* A read that is interrupted is tried again.
ReadMore(n) ==
  /\ rtype # READNONE /\ ~ Enough(rtype, readBuffer)
  /\ n <= Len(rest)
  /\ readBuffer' = readBuffer \o SubSeq(rest, 1, n)
  /\ rest' = SubSeq(rest, n + 1, Len(rest))
  /\ UNCHANGED <<connectVars, data, given, rtype, endVars, timeout, res>>

\* The caller gets what there is; the connection stays usable after a timeout.
ReadEnds(ret) ==
  /\ rtype # READNONE /\ ~ Enough(rtype, readBuffer)
  /\ ret = SPE_CONB_CLOSED => rest = <<>>
  /\ ret = SPE_CONB_TIMEOUT => timeout
  /\ data' = readBuffer /\ readBuffer' = <<>> /\ given' = given \o data'
  /\ res' = ret /\ rtype' = READNONE /\ closed' = (ret # SPE_CONB_TIMEOUT)
  /\ UNCHANGED <<connectVars, rest, error, timeout>>

\* Every write(2) is given the whole length: after a short one, bytes from
\* behind the buffer go out too, and the result is more than was asked for.
spe_conb_writeb(len) ==
  /\ used /\ rtype = READNONE /\ ~ closed /\ ~ error
  /\ \/ res' \in len..(2 * len - 1) /\ UNCHANGED error
     \/ res' = SPE_CONB_TIMEOUT /\ timeout /\ UNCHANGED error
     \/ res' = SPE_CONB_ERROR /\ error' = TRUE
  /\ UNCHANGED <<connectVars, readVars, closed, timeout>>

Next ==
  \/ spe_conb_connect \/ NextAddress \/ SocketIsLeft \/ spe_conb_create \/ CreateFails
  \/ spe_conb_destroy \/ spe_conb_set_timeout
  \/ Answer
  \/ \E kind \in {READ, READUNTIL} \cup 1..MaxCount : Call(kind)
  \/ \E n \in 1..BUF_SIZE : ReadMore(n)
  \/ \E ret \in {SPE_CONB_CLOSED, SPE_CONB_ERROR, SPE_CONB_TIMEOUT} : ReadEnds(ret)
  \/ \E len \in 1..MaxCount : spe_conb_writeb(len)

Spec == Init /\ [][Next]_vars

-----------------------------------------------------------------------------
\* spe_conb.c:28-79, 185-209.  The reads of a connection give the bytes of its
\* own peer, in order and each once, over timeouts and over every use of the
\* slot before; and a socket is open only for the connection or after a call
\* failed in the middle of a connect.
StreamIsReadInOrder ==
  /\ used => given \o readBuffer \o rest = stream
  /\ open <= failures + (IF used THEN 1 ELSE 0)
=============================================================================
