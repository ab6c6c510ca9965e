------------------------------- MODULE SpeConn -------------------------------
(***************************************************************************)
(* The connection layer, src/spe/spe_conn.c and spe_conn.h, on top of the  *)
(* scheduler (SpeTask) and the event table (SpeEpoll), inside the main     *)
(* loop.  A connection owns four tasks: readTask and writeTask run the     *)
(* static handlers of spe_conn.c, ReadCallback and WriteCallback hold the  *)
(* handlers of the program.  The program may call the API from a callback  *)
(* and from any other task; the peer and the kernel act at any time.       *)
(*                                                                         *)
(* Data is counted, not stored: byte i of the stream is the number i, and  *)
(* the delimiter is one byte that stands at the positions Delims.          *)
(***************************************************************************)
EXTENDS Integers, Sequences, SequencesExt

CONSTANTS Conns,        \* the slots of all_conn in use
          AppOps,       \* the calls the program makes
          ExpireTimes,  \* the timeouts it asks for, 0 for none
          Delims,       \* where the delimiter stands in the peer's stream
          MaxSent,      \* bound: bytes the peer sends
          BUF_SIZE,     \* what one read() takes at most
          MaxWrite,     \* bound: bytes in a writeBuffer
          MaxTime, NoTask, Never

ASSUME TimesAssumption == ExpireTimes \subseteq Nat /\ MaxTime \in Nat
ASSUME SizeAssumption == BUF_SIZE \in Nat \ {0}
ASSUME BoundsAssumption == MaxSent \in Nat /\ MaxWrite \in Nat
ASSUME NeverAssumption == Never \notin Nat

SPE_CONN_READNONE  == 0
SPE_CONN_READ      == 1
SPE_CONN_READUNTIL == 2
SPE_CONN_READBYTES == 3
SPE_CONN_WRITENONE == 0
SPE_CONN_WRITE     == 1
SPE_CONN_CONNECT   == 1

ConnTasks ==
  Conns \X {"readTask", "writeTask", "ReadCallback", "WriteCallback"}

readTask(c)      == <<c, "readTask">>
writeTask(c)     == <<c, "writeTask">>
ReadCallback(c)  == <<c, "ReadCallback">>
WriteCallback(c) == <<c, "WriteCallback">>

ASSUME NoTaskAssumption == NoTask \notin ConnTasks

VARIABLES sched, clock, curr_time, running, pc,   \* see SpeTask
          frame,        \* whose code runs, see TypeOK
          events,       \* what epoll_wait reported and is not handled yet
          epoll,        \* all_epoll, see SpeEpoll
          conn,         \* all_conn
          net,          \* the sockets: what the kernel and the peer know
          req           \* the requests of the program (in no code)

threadVars == <<clock, curr_time, running, pc>>
loopVars == <<threadVars, events>>
connVars == <<epoll, conn, net, req>>
vars == <<sched, loopVars, frame, connVars>>

Task == INSTANCE SpeTask  WITH Tasks <- ConnTasks, Delays <- ExpireTimes
INSTANCE SpeEpoll WITH Tasks <- ConnTasks, Fds <- Conns

-----------------------------------------------------------------------------
(* State *)

\* got and taken count what went into and out of readBuffer, so its length is
\* got - taken; writeBuffer is a length.  handler is readTask.Handler.
ConnState ==
  [handler : {"none", "connectNormal", "readNormal"},
   readType : 0 .. 3, writeType : 0 .. 1, rbytes : Nat,
   readExpireTime : Nat, writeExpireTime : Nat,
   got : Nat, taken : Nat, writeBuffer : Nat,
   ConnectTimeout : {0, 1}, ReadTimeout : {0, 1}, WriteTimeout : {0, 1},
   Closed : {0, 1}, Error : {0, 1}]

ConnZero ==
  [handler |-> "none",
   readType |-> SPE_CONN_READNONE, writeType |-> SPE_CONN_WRITENONE,
   rbytes |-> 0, readExpireTime |-> 0, writeExpireTime |-> 0,
   got |-> 0, taken |-> 0, writeBuffer |-> 0,
   ConnectTimeout |-> 0, ReadTimeout |-> 0, WriteTimeout |-> 0,
   Closed |-> 0, Error |-> 0]

\* "none": no such descriptor; "fresh": a socket not connected yet; "fin",
\* "rst": the peer closed or reset an established connection.
Links == {"none", "fresh", "connecting", "up", "fin", "rst", "failed"}

NetState == [link : Links, sent : Nat, room : BOOLEAN]

Socket(link) == [link |-> link, sent |-> 0, room |-> TRUE]

\* owed: a request was accepted and its callback has not been called; lost:
\* the enqueue of that callback was refused; due: when the request may time
\* out, Never if it has no timeout; mark: where a read started.
ReqState ==
  [kind : {"none", "connect", "read", "write"}, owed : BOOLEAN,
   lost : BOOLEAN, due : Nat \cup {Never}, mark : Nat]

NoRequest ==
  [kind |-> "none", owed |-> FALSE, lost |-> FALSE, due |-> Never, mark |-> 0]

\* frame.  "none": the main loop, or a task of another part of the program;
\* "polled": epoll_wait has returned; "body": a handler of spe_conn.c is
\* about to run; "user": a callback of the program; "return": a handler of
\* spe_conn.c that calls nobody.
TypeOK ==
  /\ Task!TypeOK
  /\ frame \in {"none", "polled", "body", "user", "return"}
  /\ events \in [Conns -> SUBSET {SPE_EPOLL_READ, SPE_EPOLL_WRITE}]
  /\ epoll \in EpollTable
  /\ conn \in [Conns -> ConnState]
  /\ net \in [Conns -> NetState]
  /\ req \in [Conns -> [read : ReqState, write : ReqState]]

Init ==
  /\ Task!Init
  /\ frame = "none"
  /\ events = [c \in Conns |-> {}]
  /\ epoll = EpollEmpty
  /\ conn = [c \in Conns |-> ConnZero]
  /\ net = [c \in Conns |-> Socket("none")]
  /\ req = [c \in Conns |-> [read |-> NoRequest, write |-> NoRequest]]

-----------------------------------------------------------------------------
(* Pieces the handlers and the API share *)

\* Code of the program is on the stack: a callback, or any other task.
UserRuns == frame = "user" \/ (frame = "none" /\ pc \in {"poll", "run"})

Open(c) == net[c].link # "none"
Established(c) == net[c].link \in {"up", "fin", "rst"}

Issue(c, dir, kind, accepted, expireTime, mark) ==
  req' = [req EXCEPT ![c][dir] =
            [kind |-> kind, owed |-> TRUE, lost |-> ~ accepted, mark |-> mark,
             due |-> IF expireTime = 0 THEN Never ELSE clock + expireTime]]

\* A callback of the program is entered; its request is over.
EnterCallback(c, dir) ==
  /\ frame' = "user"
  /\ req' = [req EXCEPT ![c][dir] = NoRequest]

\* Faulty variant: the flag of an earlier timeout survives.
ClearTimeoutSkipped(s, t) == s

\* The assignment task.Timeout = 0 of every asynchronous request.
ClearTimeout(s, t) == [s EXCEPT !.Timeout[t] = 0]

StartTimer(s, t, ms) ==
  IF ms # 0 THEN SpeTaskEnqueueTimer(s, t, clock, ms) ELSE s

StopTimer(s, t, ms) ==
  IF ms # 0 THEN SpeTaskDequeueTimer(s, t) ELSE s

\* Faulty variant: a plain read is content with an empty buffer.
AnswerEmpty(k, type, n) ==
  {t \in k.taken .. k.got :
     \/ type = SPE_CONN_READ /\ t = k.got
     \/ type = SPE_CONN_READBYTES /\ t = k.taken + n
     \/ type = SPE_CONN_READUNTIL /\ t > k.taken /\ t \in Delims}

\* Where a request of the given type would leave `taken`, given what is in
\* readBuffer: one position, or none if more bytes are needed.
Answer(k, type, n) ==
  {t \in k.taken + 1 .. k.got :
     \/ type = SPE_CONN_READ /\ t = k.got
     \/ type = SPE_CONN_READBYTES /\ t = k.taken + n
     \/ /\ type = SPE_CONN_READUNTIL
        /\ t \in Delims
        /\ \A d \in Delims : d > k.taken => t <= d}

\* Faulty variant: the last byte in the buffer is overlooked.
SyncAnswerShort(k, type, n) == Answer([k EXCEPT !.got = @ - 1], type, n)

\* What the synchronous path of the read calls finds.
SyncAnswer(k, type, n) == Answer(k, type, n)

-----------------------------------------------------------------------------
(* The API *)

\* SpeConnCreate on a descriptor the program just got, connected or not; the
\* allocations of connInit succeed.  Of the flags only Closed and Error are
\* reset.
SpeConnCreate(c) ==
  /\ UserRuns /\ ~ Open(c)
  /\ \E link \in {"up", "fresh"} \cap AppOps : net' = [net EXCEPT ![c] = Socket(link)]
  /\ conn' = [conn EXCEPT
       ![c].got = 0, ![c].taken = 0, ![c].writeBuffer = 0,
       ![c].readExpireTime = 0, ![c].writeExpireTime = 0,
       ![c].readType = SPE_CONN_READNONE, ![c].writeType = SPE_CONN_WRITENONE,
       ![c].Closed = 0, ![c].Error = 0]
  /\ UNCHANGED <<sched, loopVars, frame, epoll, req>>

\* connect() returns EINPROGRESS: both directions wait for readTask.
ConnectStarts(c) ==
  /\ net' = [net EXCEPT ![c].link = "connecting"]
  /\ conn' = [conn EXCEPT
       ![c].handler = "connectNormal", ![c].ConnectTimeout = 0,
       ![c].readType = SPE_CONN_CONNECT, ![c].writeType = SPE_CONN_CONNECT]
  /\ epoll' = epollEnable(epoll, c, {SPE_EPOLL_READ, SPE_EPOLL_WRITE}, readTask(c))
  /\ sched' = StartTimer(ClearTimeout(sched, readTask(c)),
                         readTask(c), conn[c].readExpireTime)
  /\ Issue(c, "read", "connect", TRUE, conn[c].readExpireTime, 0)

\* It succeeds or fails at once.
ConnectReturns(c) ==
  /\ \E ok \in BOOLEAN :
       /\ net' = [net EXCEPT ![c].link = IF ok THEN "up" ELSE "failed"]
       /\ conn' = [conn EXCEPT ![c].Error = IF ok THEN @ ELSE 1]
  /\ sched' = SpeTaskEnqueue(sched, ReadCallback(c))
  /\ Issue(c, "read", "connect", Accepts(sched, ReadCallback(c)),
           conn[c].readExpireTime, 0)
  /\ UNCHANGED epoll

\* SpeConnConnect after a successful getaddrinfo.
SpeConnConnect(c) ==
  /\ UserRuns /\ net[c].link = "fresh"
  /\ ConnectStarts(c) \/ ConnectReturns(c)
  /\ UNCHANGED <<loopVars, frame>>

\* The answer is in the buffer: it is taken, and the callback is queued.
ReadAnswered(c, type, n) ==
  /\ \E t \in SyncAnswer(conn[c], type, n) : conn' = [conn EXCEPT ![c].taken = t]
  /\ sched' = SpeTaskEnqueue(sched, ReadCallback(c))
  /\ Issue(c, "read", "read", Accepts(sched, ReadCallback(c)),
           conn[c].readExpireTime, conn[c].taken)
  /\ UNCHANGED epoll

\* It is not: readNormal waits for data.
ReadWaits(c, type, n) ==
  /\ SyncAnswer(conn[c], type, n) = {}
  /\ conn' = [conn EXCEPT
       ![c].handler = "readNormal", ![c].ReadTimeout = 0, ![c].readType = type,
       ![c].rbytes = IF type = SPE_CONN_READBYTES THEN n ELSE @]
  /\ epoll' = epollEnable(epoll, c, {SPE_EPOLL_READ}, readTask(c))
  /\ sched' = StartTimer(ClearTimeout(sched, readTask(c)),
                         readTask(c), conn[c].readExpireTime)
  /\ Issue(c, "read", "read", TRUE, conn[c].readExpireTime, conn[c].taken)

\* The three read calls.  A program has one read outstanding (the ASSERT on
\* readType); on a closed or failed connection the calls return false.
Request(c, type, n) ==
  /\ UserRuns /\ Established(c)
  /\ conn[c].readType = SPE_CONN_READNONE /\ ~ req[c].read.owed
  /\ conn[c].Closed = 0 /\ conn[c].Error = 0
  /\ ReadAnswered(c, type, n) \/ ReadWaits(c, type, n)
  /\ UNCHANGED <<loopVars, frame, net>>

SpeConnReaduntil(c) == "Readuntil" \in AppOps /\ Request(c, SPE_CONN_READUNTIL, 0)
SpeConnReadbytes(c) ==
  "Readbytes" \in AppOps /\ \E n \in 1 .. MaxSent : Request(c, SPE_CONN_READBYTES, n)
SpeConnRead(c) == "Read" \in AppOps /\ Request(c, SPE_CONN_READ, 0)

\* SpeConnWrite, SpeConnWriteb and SpeConnWrites.
SpeConnWrite(c) ==
  /\ "Write" \in AppOps
  /\ UserRuns /\ Established(c)
  /\ conn[c].Closed = 0 /\ conn[c].Error = 0
  /\ conn[c].writeBuffer < MaxWrite
  /\ conn' = [conn EXCEPT ![c].writeBuffer = @ + 1]
  /\ UNCHANGED <<sched, loopVars, frame, epoll, net, req>>

\* An empty buffer is written at once.
FlushNothing(c) ==
  /\ conn[c].writeBuffer = 0
  /\ sched' = SpeTaskEnqueue(sched, WriteCallback(c))
  /\ Issue(c, "write", "write", Accepts(sched, WriteCallback(c)),
           conn[c].writeExpireTime, 0)
  /\ UNCHANGED <<conn, epoll>>

FlushWaits(c) ==
  /\ conn[c].writeBuffer # 0
  /\ conn' = [conn EXCEPT ![c].writeType = SPE_CONN_WRITE]
  /\ epoll' = epollEnable(epoll, c, {SPE_EPOLL_WRITE}, writeTask(c))
  /\ sched' = StartTimer(ClearTimeout(sched, writeTask(c)),
                         writeTask(c), conn[c].writeExpireTime)
  /\ Issue(c, "write", "write", TRUE, conn[c].writeExpireTime, 0)

SpeConnFlush(c) ==
  /\ "Flush" \in AppOps
  /\ UserRuns /\ Established(c)
  /\ conn[c].writeType = SPE_CONN_WRITENONE /\ ~ req[c].write.owed
  /\ conn[c].Closed = 0 /\ conn[c].Error = 0
  /\ FlushNothing(c) \/ FlushWaits(c)
  /\ UNCHANGED <<loopVars, frame, net>>

\* Called between requests, never while one waits.
SpeConnSetTimeout(c) ==
  /\ UserRuns /\ Open(c)
  /\ conn[c].readType = SPE_CONN_READNONE
  /\ conn[c].writeType = SPE_CONN_WRITENONE
  /\ \E r, w \in ExpireTimes :
       conn' = [conn EXCEPT ![c].readExpireTime = r, ![c].writeExpireTime = w]
  /\ UNCHANGED <<sched, loopVars, frame, epoll, net, req>>

\* Faulty variant: only the tasks of spe_conn.c are withdrawn.
DequeueAllInternal(s, c) ==
  SpeTaskDequeue(SpeTaskDequeue(s, readTask(c)), writeTask(c))

\* The four SpeTaskDequeue calls of SpeConnDestroy.
DequeueAll(s, c) ==
  SpeTaskDequeue(SpeTaskDequeue(SpeTaskDequeue(SpeTaskDequeue(s,
    readTask(c)), writeTask(c)), ReadCallback(c)), WriteCallback(c))

SpeConnDestroy(c) ==
  /\ "Destroy" \in AppOps
  /\ UserRuns /\ Open(c)
  /\ sched' = StopTimer(StopTimer(DequeueAll(sched, c),
                readTask(c), conn[c].readExpireTime),
                writeTask(c), conn[c].writeExpireTime)
  /\ epoll' = epollDisable(epoll, c, {SPE_EPOLL_READ, SPE_EPOLL_WRITE})
  /\ net' = [net EXCEPT ![c] = Socket("none")]
  /\ req' = [req EXCEPT ![c] = [read |-> NoRequest, write |-> NoRequest]]
  /\ UNCHANGED <<loopVars, frame, conn>>

-----------------------------------------------------------------------------
(* The handlers of readTask and writeTask *)

Runs(t) == frame = "body" /\ running = t

ReadTimedOut(c) ==
  conn[c].readExpireTime # 0 /\ sched.Timeout[readTask(c)] = 1

\* getsockopt(SO_ERROR).
SocketError(c) == net[c].link \in {"failed", "rst"}

connectNormal(c) ==
  /\ Runs(readTask(c)) /\ conn[c].handler = "connectNormal"
  /\ conn' = [conn EXCEPT
       ![c].ConnectTimeout = IF ReadTimedOut(c) THEN 1 ELSE @,
       ![c].Error = IF ~ ReadTimedOut(c) /\ SocketError(c) THEN 1 ELSE @,
       ![c].readType = SPE_CONN_READNONE,
       ![c].writeType = SPE_CONN_WRITENONE]
  /\ epoll' = epollDisable(epoll, c, {SPE_EPOLL_READ, SPE_EPOLL_WRITE})
  /\ sched' = StopTimer(sched, readTask(c), conn[c].readExpireTime)
  /\ EnterCallback(c, "read")
  /\ UNCHANGED <<loopVars, net>>

\* Faulty variant: the request is closed but nobody is told.
ReadEndsSilently(c, k) ==
  /\ conn' = [conn EXCEPT ![c] = [k EXCEPT !.readType = SPE_CONN_READNONE]]
  /\ epoll' = epollDisable(epoll, c, {SPE_EPOLL_READ})
  /\ sched' = StopTimer(sched, readTask(c), k.readExpireTime)
  /\ frame' = "return"
  /\ UNCHANGED req

\* The label end_out of readNormal, reached with the connection record k.
ReadEnds(c, k) ==
  /\ conn' = [conn EXCEPT ![c] = [k EXCEPT !.readType = SPE_CONN_READNONE]]
  /\ epoll' = epollDisable(epoll, c, {SPE_EPOLL_READ})
  /\ sched' = StopTimer(sched, readTask(c), k.readExpireTime)
  /\ EnterCallback(c, "read")

\* Faulty variant: end of file is treated like EAGAIN.
ReadResultsNoEof(c) ==
  LET k == conn[c]
      avail == net[c].sent - k.got
  IN  IF avail > 0
      THEN {[k EXCEPT !.got = @ + (IF avail < BUF_SIZE THEN avail ELSE BUF_SIZE)]}
      ELSE IF net[c].link = "rst" THEN {[k EXCEPT !.Error = 1]} ELSE {k}

\* read() on a connection: up to BUF_SIZE of the bytes that are there; an
\* error may be reported before them.  EAGAIN leaves the record as it is.
ReadResults(c) ==
  LET k == conn[c]
      avail == net[c].sent - k.got
      Data == {[k EXCEPT !.got = @ + (IF avail < BUF_SIZE THEN avail ELSE BUF_SIZE)]}
  IN  CASE net[c].link = "rst" ->
             {[k EXCEPT !.Error = 1]} \cup (IF avail > 0 THEN Data ELSE {})
        [] avail > 0 -> Data
        [] net[c].link = "fin" -> {[k EXCEPT !.Closed = 1]}
        [] OTHER -> {k}

readNormal(c) ==
  /\ Runs(readTask(c)) /\ conn[c].handler = "readNormal"
  /\ \/ /\ ReadTimedOut(c)
        /\ ReadEnds(c, [conn[c] EXCEPT !.ReadTimeout = 1])
     \/ /\ ~ ReadTimedOut(c)
        /\ \E k \in ReadResults(c) :
             \/ \E t \in Answer(k, k.readType, k.rbytes) :
                  ReadEnds(c, [k EXCEPT !.taken = t])
             \/ /\ Answer(k, k.readType, k.rbytes) = {}
                /\ k.Closed = 1 \/ k.Error = 1
                /\ ReadEnds(c, k)
             \/ /\ Answer(k, k.readType, k.rbytes) = {}
                /\ k.Closed = 0 /\ k.Error = 0
                /\ conn' = [conn EXCEPT ![c] = k]
                /\ frame' = "return"
                /\ UNCHANGED <<sched, epoll, req>>
  /\ UNCHANGED <<loopVars, net>>

\* Faulty variant: the lines of connectNormal, which ends both directions.
WriteEndsBoth(c, k) ==
  /\ conn' = [conn EXCEPT ![c] = [k EXCEPT !.readType = SPE_CONN_READNONE,
                                          !.writeType = SPE_CONN_WRITENONE]]
  /\ epoll' = epollDisable(epoll, c, {SPE_EPOLL_READ, SPE_EPOLL_WRITE})
  /\ sched' = StopTimer(sched, writeTask(c), k.writeExpireTime)
  /\ EnterCallback(c, "write")

\* The label end_out of writeNormal.
WriteEnds(c, k) ==
  /\ conn' = [conn EXCEPT ![c] = [k EXCEPT !.writeType = SPE_CONN_WRITENONE]]
  /\ epoll' = epollDisable(epoll, c, {SPE_EPOLL_WRITE})
  /\ sched' = StopTimer(sched, writeTask(c), k.writeExpireTime)
  /\ EnterCallback(c, "write")

\* Faulty variant: one write() is taken to be enough.
WriteDoneAtOnce(k) == TRUE

\* The test that follows a write() that took something.
WriteDone(k) == k.writeBuffer = 0

\* write() takes some or all of the buffer and may fill the socket, or fails:
\* EPIPE after a reset, else ECONNRESET, or EAGAIN if the kernel is short of
\* memory, which the code treats like any other error.
writeNormal(c) ==
  /\ Runs(writeTask(c))
  /\ \/ /\ conn[c].writeExpireTime # 0 /\ sched.Timeout[writeTask(c)] = 1
        /\ WriteEnds(c, [conn[c] EXCEPT !.WriteTimeout = 1])
        /\ UNCHANGED net
     \/ /\ conn[c].writeExpireTime = 0 \/ sched.Timeout[writeTask(c)] = 0
        /\ \/ /\ net[c].link = "rst"                                  \* EPIPE
              /\ WriteEnds(c, [conn[c] EXCEPT !.Closed = 1])
              /\ UNCHANGED net
           \/ /\ WriteEnds(c, [conn[c] EXCEPT !.Error = 1])           \* other errno
              /\ UNCHANGED net
           \/ /\ net[c].link # "rst" /\ net[c].room
              /\ \E res \in 1 .. conn[c].writeBuffer :
                   LET k == [conn[c] EXCEPT !.writeBuffer = @ - res]
                   IN  IF WriteDone(k)
                       THEN WriteEnds(c, k)
                       ELSE /\ conn' = [conn EXCEPT ![c] = k]
                            /\ frame' = "return"
                            /\ UNCHANGED <<sched, epoll, req>>
              /\ \E room \in {FALSE, conn'[c].writeBuffer = 0} :
                   net' = [net EXCEPT ![c].room = room]
  /\ UNCHANGED loopVars

-----------------------------------------------------------------------------
(* The main loop *)

\* What epoll_wait reports of a descriptor, level-triggered.
KernelReady(c) ==
  (IF net[c].sent > conn[c].got \/ net[c].link \in {"fin", "rst", "failed"}
   THEN {SPE_EPOLL_READ} ELSE {})
  \cup
  (IF net[c].link \in {"rst", "failed"} \/ (net[c].link \in {"up", "fin"} /\ net[c].room)
   THEN {SPE_EPOLL_WRITE} ELSE {})

EpollReports ==
  /\ pc = "poll" /\ frame = "none"
  /\ events' = [c \in Conns |-> KernelReady(c) \cap epoll[c].mask]
  /\ frame' = "polled"
  /\ UNCHANGED <<sched, threadVars, connVars>>

\* epoll_wait returns -1: a signal arrived.
EpollInterrupted ==
  /\ pc = "poll" /\ frame = "none"
  /\ frame' = "polled"
  /\ UNCHANGED <<sched, loopVars, connVars>>

\* One round of the loop over the events, which come in any order.
EpollDispatches(c) ==
  /\ frame = "polled" /\ events[c] # {}
  /\ sched' = DispatchEvent(sched, epoll, c, events[c])
  /\ events' = [events EXCEPT ![c] = {}]
  /\ UNCHANGED <<threadVars, frame, connVars>>

BeginTaskProcess ==
  /\ frame = "polled" /\ \A c \in Conns : events[c] = {}
  /\ Task!BeginTaskProcess
  /\ frame' = "none"
  /\ UNCHANGED <<events, connVars>>

TaskProcess ==
  /\ Task!FireTimer \/ Task!TimersDone \/ Task!EndTaskProcess
  /\ UNCHANGED <<frame, events, connVars>>

RunTask ==
  /\ Task!RunTask
  /\ UNCHANGED <<events, epoll, conn, net>>
  /\ \E c \in Conns :
       \/ /\ running' \in {readTask(c), writeTask(c)}
          /\ frame' = "body"
          /\ UNCHANGED req
       \/ /\ running' = ReadCallback(c)
          /\ EnterCallback(c, "read")
       \/ /\ running' = WriteCallback(c)
          /\ EnterCallback(c, "write")

HandlerReturn ==
  /\ frame \in {"user", "return"}
  /\ Task!HandlerReturn
  /\ frame' = "none"
  /\ UNCHANGED <<events, connVars>>

Tick == Task!Tick /\ UNCHANGED <<frame, events, connVars>>

-----------------------------------------------------------------------------
(* The kernel and the peer *)

NetStep(c, from, state) ==
  /\ net[c].link \in from
  /\ net' = [net EXCEPT ![c] = state]
  /\ UNCHANGED <<sched, loopVars, frame, epoll, conn, req>>

PeerSend(c) ==
  net[c].sent < MaxSent /\ NetStep(c, {"up"}, [net[c] EXCEPT !.sent = @ + 1])
PeerDrains(c) ==
  ~ net[c].room /\ NetStep(c, {"up", "fin"}, [net[c] EXCEPT !.room = TRUE])
PeerClose(c) == NetStep(c, {"up"}, [net[c] EXCEPT !.link = "fin"])
PeerReset(c) == NetStep(c, {"up", "fin"}, [net[c] EXCEPT !.link = "rst"])
ConnectDone(c) == NetStep(c, {"connecting"}, [net[c] EXCEPT !.link = "up"])
ConnectFails(c) == NetStep(c, {"connecting"}, [net[c] EXCEPT !.link = "failed"])

-----------------------------------------------------------------------------
Api(c) ==
  \/ SpeConnCreate(c) \/ SpeConnConnect(c)
  \/ SpeConnReaduntil(c) \/ SpeConnReadbytes(c) \/ SpeConnRead(c)
  \/ SpeConnWrite(c) \/ SpeConnFlush(c)
  \/ SpeConnSetTimeout(c) \/ SpeConnDestroy(c)

Handlers(c) == connectNormal(c) \/ readNormal(c) \/ writeNormal(c)

Peer(c) ==
  \/ PeerSend(c) \/ PeerDrains(c) \/ PeerClose(c) \/ PeerReset(c)
  \/ ConnectDone(c) \/ ConnectFails(c)

Loop ==
  \/ EpollReports \/ EpollInterrupted \/ (\E c \in Conns : EpollDispatches(c))
  \/ BeginTaskProcess \/ TaskProcess \/ RunTask \/ HandlerReturn
  \/ \E c \in Conns : Handlers(c)

Next == (\E c \in Conns : Api(c) \/ Peer(c)) \/ Loop \/ Tick

Spec == Init /\ [][Next]_vars

\* epoll_wait has a timeout, callbacks return, and not every epoll_wait is
\* interrupted by a signal.
FairSpec == Spec /\ WF_vars(Loop) /\ SF_vars(EpollReports)

-----------------------------------------------------------------------------
(* Safety *)

\* A program callback for the given direction is entered in this step.
Calls(c, dir) ==
  /\ frame # "user" /\ frame' = "user"
  /\ running' \in (IF dir = "read" THEN {readTask(c), ReadCallback(c)}
                                   ELSE {writeTask(c), WriteCallback(c)})

\* spe_conn.c:354-366, 142-146, 258-262.  A callback is called only for a
\* request the program has made on this connection and that is still open:
\* never twice for one request, never for one of a destroyed connection, also
\* when the slot is in use again.
NoStrayCallback ==
  [][\A c \in Conns : \A dir \in {"read", "write"} :
       Calls(c, dir) => req[c][dir].owed]_vars

\* spe_conn.c:47-284.  An open request whose callback was not refused is
\* still known to some part of the code: the event mask waits for it or its
\* callback is queued.  Nothing a handler or another callback does forgets it.
RequestIsHeld ==
  \A c \in Conns :
    /\ req[c].read.owed /\ ~ req[c].read.lost =>
         \/ conn[c].readType # SPE_CONN_READNONE
         \/ sched.status[ReadCallback(c)] = SPE_TASK_QUEUE
    /\ req[c].write.owed /\ ~ req[c].write.lost =>
         \/ conn[c].writeType # SPE_CONN_WRITENONE
         \/ sched.status[WriteCallback(c)] = SPE_TASK_QUEUE

\* An asynchronous connect waits: readTask serves both directions.
Connects(c) ==
  conn[c].readType # SPE_CONN_READNONE /\ conn[c].handler = "connectNormal"

\* spe_conn.c:22-263 with spe_epoll.c:28-80.  The kernel watches exactly the
\* directions somebody waits for, and the table points at the right task; a
\* descriptor that is closed is watched for nothing.
MaskMatchesRequest ==
  \A c \in Conns :
    /\ Open(c) =>
         /\ SPE_EPOLL_READ \in epoll[c].mask <=> conn[c].readType # SPE_CONN_READNONE
         /\ SPE_EPOLL_WRITE \in epoll[c].mask <=> conn[c].writeType # SPE_CONN_WRITENONE
    /\ ~ Open(c) => epoll[c].mask = {}
    /\ SPE_EPOLL_READ \in epoll[c].mask => epoll[c].readTask = readTask(c)
    /\ SPE_EPOLL_WRITE \in epoll[c].mask =>
         epoll[c].writeTask = IF Connects(c) THEN readTask(c) ELSE writeTask(c)

\* spe_conn.c:355-366.  No task of a destroyed connection is queued or armed:
\* the next connection in the slot does not inherit work.
DestroyedIsQuiet ==
  \A c \in Conns : ~ Open(c) =>
    \A t \in {readTask(c), writeTask(c), ReadCallback(c), WriteCallback(c)} :
      sched.status[t] \in {SPE_TASK_FREE, SPE_TASK_RUN}

\* spe_conn.c:159, 187, 214 with 117-137.  A read that waits for the peer
\* cannot be answered from what is in the buffer already.
WaitNeedsMore ==
  \A c \in Conns :
    Open(c) /\ conn[c].readType # SPE_CONN_READNONE /\ conn[c].handler = "readNormal" =>
      Answer(conn[c], conn[c].readType, conn[c].rbytes) = {}

\* spe_conn.c:26, 91, 239.  A handler takes its timeout branch only when the
\* time of this very request has come, not that of an earlier one.
TimeoutIsEarned ==
  [][\A c \in Conns :
       /\ running = readTask(c) /\ Calls(c, "read") /\ ReadTimedOut(c) =>
            req[c].read.due # Never /\ req[c].read.due <= clock
       /\ running = writeTask(c) /\ Calls(c, "write")
            /\ conn[c].writeExpireTime # 0 /\ sched.Timeout[writeTask(c)] = 1 =>
            req[c].write.due # Never /\ req[c].write.due <= clock]_vars

\* spe_conn.c:22-40, 116-146, 254-262.  A callback without any flag means the
\* request was carried out: connected, bytes handed over, buffer written.
PlainCallbackMeansDone ==
  [][\A c \in Conns :
       conn'[c].Closed = 0 /\ conn'[c].Error = 0 =>
         /\ Calls(c, "read") /\ req[c].read.kind = "connect"
              /\ conn'[c].ConnectTimeout = 0 =>
              net[c].link \in {"up", "fin", "rst"}
         /\ Calls(c, "read") /\ req[c].read.kind = "read"
              /\ conn'[c].ReadTimeout = 0 =>
              conn'[c].taken > req[c].read.mark
         /\ Calls(c, "write") /\ running = writeTask(c)
              /\ conn'[c].WriteTimeout = 0 =>
              conn'[c].writeBuffer = 0]_vars

\* spe_conn.c:77, 163, 190, 217, 275 with spe_task.c:45.  The only callback
\* that can be refused is the one on the stack: a request answered at once
\* inside the callback task it would queue.
OnlyOwnCallbackIsRefused ==
  [][\A c \in Conns :
       /\ ~ req[c].read.lost /\ req'[c].read.lost => running = ReadCallback(c)
       /\ ~ req[c].write.lost /\ req'[c].write.lost => running = WriteCallback(c)]_vars

\* spe_task.c:187-199.  The scheduler's invariant survives everything the
\* connection layer does to its tasks.
SchedulerIntact == Task!IInv

-----------------------------------------------------------------------------
(* What the drivers rely on *)

\* The task whose callback is on the stack.
Inside == IF frame = "user" THEN running ELSE NoTask

\* One direction: what waits, or what is queued.
Pending(type, callback) ==
  IF type # 0 THEN "wait"
  ELSE IF sched.status[callback] = SPE_TASK_QUEUE THEN "queued" ELSE "none"

\* A connect is one request, in the read direction.
ReadPart(c) ==
  IF ~ Open(c) THEN "none"
  ELSE IF Connects(c) THEN "connect"
  ELSE Pending(conn[c].readType, ReadCallback(c))

WritePart(c) ==
  IF ~ Open(c) \/ Connects(c) THEN "none"
  ELSE Pending(conn[c].writeType, WriteCallback(c))

Ended(c) == conn[c].Closed = 1 \/ conn[c].Error = 1

\* The connection of ConnSpec that c is.
ViewOf(c) ==
  [open |-> Open(c), ended |-> Open(c) /\ Ended(c),
   read |-> ReadPart(c), write |-> WritePart(c)]

View == [c \in Conns |-> ViewOf(c)]

Lifecycle ==
  INSTANCE ConnLifecycle WITH Nobody <- NoTask, view <- View, inside <- Inside

\* spe_conn.c:22-366.  Whatever the order of calls, events, timeouts and
\* destructions, a program sees the connection of ConnSpec: one callback per
\* request, the right one, none that is nested and none after the end.
ImplementsConnSpec == Lifecycle!Spec

-----------------------------------------------------------------------------
(* Claims the code does not keep; see the findings in the README. *)

\* spe_conn.c:76 "(sync): connect success or failed, call handler", and the
\* same for the other synchronous answers: the callback of a request that was
\* answered at once is on its way.
SyncAnswerIsCalled == \A c \in Conns : ~ req[c].read.lost /\ ~ req[c].write.lost

\* example/pf.c:22-23 and 53-63: a program that sets a timeout and reads is
\* told when the peer stays silent.  So a read with a timeout that waits has
\* its timer armed, or its task is about to run.
TimedReadIsArmed ==
  \A c \in Conns :
    Open(c) /\ conn[c].readType # SPE_CONN_READNONE /\ req[c].read.due # Never =>
      sched.status[readTask(c)] # SPE_TASK_FREE

-----------------------------------------------------------------------------
(* Liveness *)

\* spe_conn.c:98-111, 139.  A read whose peer has closed or reset the
\* connection is answered (or the connection is destroyed), whatever else the
\* program and the signals do.
PeerEndAnswersRead ==
  \A c \in Conns :
    (net[c].link \in {"fin", "rst"} /\ req[c].read.owed /\ ~ req[c].read.lost)
      ~> ~ req[c].read.owed
=============================================================================
