------------------------------ MODULE SpeRedis -------------------------------
(***************************************************************************)
(* The Redis client and its pool, src/spe/spe_redis.c: a driver that sends *)
(* a command over a connection and collects the reply line by line, called *)
(* back by the connection after each request.  A reply is a sequence of    *)
(* tokens, each a line or the bytes of a bulk with its line end; which of  *)
(* them have arrived together is up to the network.  The redis server is   *)
(* external, and so is the program, which calls SpeRedisDo for a client    *)
(* again only when its handler has been called.                            *)
(***************************************************************************)
EXTENDS Integers, SequencesExt, FiniteSets, ConnSpec

CONSTANTS Clients,      \* the addresses of clients
          Replies,      \* the replies the server may give: sequences of kinds
          PoolSize,     \* srp->size
          MaxCommands   \* bound: commands given

VARIABLES client,       \* the clients
          poolData,     \* srp->poolData[0..len-1]
          commands      \* the number of commands given

vars == <<client, poolData, commands>>

\* "status": a line with +, - or :   "bulk": $n, data of length n follows
\* "nil": $-1   "zero": $0, an empty line follows   "array": *n, n = blocks
Kind == {"status", "bulk", "nil", "zero", "array", "data", "empty"}
Token == [kind : Kind, of : 0..MaxCommands, first : BOOLEAN, blocks : Nat]
NoToken == [kind |-> "empty", of |-> 0, first |-> FALSE, blocks |-> 0]

TypeOK ==
  /\ client \in [Clients ->
       [place     : {"none", "program", "pool"},  \* who holds the pointer
        conn      : Conn,
        status    : {"init", "conn", "send", "head", "size", "data"},
        blockLeft : Nat,
        Buffer    : Seq(Token),                   \* what the program gets
        line      : Token,                        \* conn->Buffer
        Error     : BOOLEAN,
        busy      : BOOLEAN,                      \* a command is not answered yet
        cmd       : 0..MaxCommands,               \* the command
        asked     : BOOLEAN,                      \* the server has it
        reply     : Seq(Token),                   \* what it answered
        stream    : Seq(Token),                   \* what is unread of that
        arrived   : Nat]]                         \* how much of it is in readBuffer
  /\ poolData \in Seq(Clients)
  /\ commands \in 0..MaxCommands

\* speRedisCreate, without the pointer.
Fresh ==
  [place |-> "none", conn |-> NoConn, status |-> "init", blockLeft |-> 0,
   Buffer |-> << >>, line |-> NoToken, Error |-> FALSE, busy |-> FALSE, cmd |-> 0,
   asked |-> FALSE, reply |-> << >>, stream |-> << >>, arrived |-> 0]

Init ==
  /\ client = [k \in Clients |-> Fresh] /\ poolData = << >> /\ commands = 0

-----------------------------------------------------------------------------
(* The driver, as operators on one client *)

\* SPE_HANDLER_CALL(sr->handler): the program has its answer.
Called(r) == [r EXCEPT !.busy = FALSE]

\* Taking the next token out of readBuffer.
Taken(r) ==
  [r EXCEPT !.line = Head(r.stream), !.stream = Tail(@), !.arrived = @ - 1]

\* SpeConnReaduntil or SpeConnReadbytes: what comes next is what is asked for.
\* own: the driver runs in ReadCallback, of this connection or of one that was
\* destroyed there and whose slot this one has.
Reads(r, own) ==
  LET now == r.arrived > 0 /\ ~ r.conn.ended
      s   == IF now THEN Taken(r) ELSE r
  IN  [s EXCEPT !.conn = SpeConnRead(@, now, own)]

\* Faulty variant: the connection is kept for the next command.
LostKeeps(r) ==
  Called([r EXCEPT !.conn = [NoConn EXCEPT !.open = TRUE], !.status = "conn", !.Error = TRUE])

\* The connection is destroyed, and with it what was still to come.
Lost(r) ==
  Called([r EXCEPT !.conn = NoConn, !.status = "init", !.Error = TRUE,
                   !.asked = FALSE, !.stream = << >>, !.arrived = 0])

\* SPE_REDIS_INIT: no socket or no connection, or a connection attempt.
Connects(r, own) ==
  {Called([r EXCEPT !.Error = TRUE])}
  \cup {[r EXCEPT !.Error = FALSE, !.status = "conn", !.conn = c] :
          c \in SpeConnConnect(SpeConnCreate, own)}

Sends(r, own) ==
  [r EXCEPT !.status = "send", !.conn = SpeConnFlush(@, FALSE, own)]

Completes(r) == Called([r EXCEPT !.status = "conn"])

\* SPE_REDIS_RECV_HEAD; any other first line is left unanswered.
ReceivesHead(r, own) ==
  CASE r.line.kind = "status" -> Completes([r EXCEPT !.Buffer = Append(@, r.line)])
    [] r.line.kind \in {"nil", "zero"} -> Completes(r)
    [] r.line.kind = "bulk" ->
         Reads([r EXCEPT !.blockLeft = 1, !.status = "data"], own)
    [] r.line.kind = "array" /\ r.line.blocks = 0 -> Completes(r)
    [] r.line.kind = "array" /\ r.line.blocks > 0 ->
         Reads([r EXCEPT !.blockLeft = r.line.blocks, !.status = "size"], own)
    [] OTHER -> r

\* SPE_REDIS_RECV_SIZE: a size of 0 or less ends the reply.
ReceivesSize(r, own) ==
  IF r.line.kind = "bulk" THEN Reads([r EXCEPT !.status = "data"], own) ELSE Completes(r)

\* Faulty variant: the reply ends one block early.
ReceivesDataEarly(r, own) ==
  LET s == [r EXCEPT !.Buffer = Append(@, r.line), !.blockLeft = @ - 1]
  IN  IF s.blockLeft <= 1 THEN Completes(s) ELSE Reads([s EXCEPT !.status = "size"], own)

\* SPE_REDIS_RECV_DATA
ReceivesData(r, own) ==
  LET s == [r EXCEPT !.Buffer = Append(@, r.line), !.blockLeft = @ - 1]
  IN  IF s.blockLeft = 0 THEN Completes(s) ELSE Reads([s EXCEPT !.status = "size"], own)

driver_machine(r, own) ==
  IF r.status # "init" /\ r.conn.ended THEN {Lost(r)}
  ELSE CASE r.status = "init" -> Connects(r, own)
         [] r.status = "conn" -> {Sends(r, own)}
         [] r.status = "send" -> {Reads([r EXCEPT !.status = "head"], own)}
         [] r.status = "head" -> {ReceivesHead(r, own)}
         [] r.status = "size" -> {ReceivesSize(r, own)}
         [] r.status = "data" -> {ReceivesData(r, own)}

Drives(k, r, own) == \E s \in driver_machine(r, own) : client' = [client EXCEPT ![k] = s]

-----------------------------------------------------------------------------
(* The program *)

\* SpeRedisPoolGet: the last one of the pool, or a new one.
SpeRedisPoolGet(k) ==
  /\ IF poolData = << >> THEN client[k].place = "none" ELSE k = Last(poolData)
  /\ poolData' = IF poolData = << >> THEN poolData ELSE Front(poolData)
  /\ client' = [client EXCEPT ![k].place = "program"]
  /\ UNCHANGED commands

\* SpeRedisPoolPut; speRedisDestroy if the pool is full.
SpeRedisPoolPut(k) ==
  /\ client[k].place = "program" /\ ~ client[k].busy
  /\ IF Len(poolData) = PoolSize
     THEN client' = [client EXCEPT ![k] = Fresh] /\ UNCHANGED poolData
     ELSE /\ client' = [client EXCEPT ![k].place = "pool"]
          /\ poolData' = Append(poolData, k)
  /\ UNCHANGED commands

\* SpeRedisPoolDestroy, called by a program that makes a new pool at once.
SpeRedisPoolDestroy ==
  /\ poolData # << >>
  /\ client' = [k \in Clients |-> IF k \in Range(poolData) THEN Fresh ELSE client[k]]
  /\ poolData' = << >>
  /\ UNCHANGED commands

\* SpeRedisDo, under SpeRedisGet and SpeRedisSet too.
SpeRedisDo(k) ==
  /\ client[k].place = "program" /\ ~ client[k].busy /\ commands < MaxCommands
  /\ commands' = commands + 1
  /\ \E own \in BOOLEAN :
       Drives(k, [client[k] EXCEPT !.busy = TRUE, !.cmd = commands + 1, !.Buffer = << >>,
                                   !.reply = << >>], own)
  /\ UNCHANGED poolData

-----------------------------------------------------------------------------
(* The connection and the server *)

\* connectNormal calls the driver from readTask.
Connected(k) ==
  /\ client[k].conn.read = "connect"
  /\ \E ended \in BOOLEAN :
       Drives(k, [client[k] EXCEPT !.conn = [SpeConnCreate EXCEPT !.ended = ended]], FALSE)
  /\ UNCHANGED <<poolData, commands>>

\* ReadCallback was queued.
CallbackRuns(k) ==
  /\ client[k].conn.read = "queued"
  /\ Drives(k, [client[k] EXCEPT !.conn.read = "none"], TRUE)
  /\ UNCHANGED <<poolData, commands>>

\* writeNormal wrote everything, or failed.
Written(k) ==
  /\ client[k].status = "send" /\ client[k].conn.write = "wait"
  /\ \E ended \in BOOLEAN :
       Drives(k, [client[k] EXCEPT !.conn.write = "none", !.conn.ended = ended,
                                   !.asked = ~ ended], FALSE)
  /\ UNCHANGED <<poolData, commands>>

\* readNormal: the next n tokens are in, or the connection has ended.
Readable(k) ==
  /\ client[k].conn.read = "wait"
  /\ \/ \E n \in 1..Len(client[k].stream) :
          Drives(k, Taken([client[k] EXCEPT !.arrived = n, !.conn.read = "none"]), FALSE)
     \/ Drives(k, [client[k] EXCEPT !.conn.read = "none", !.conn.ended = TRUE], FALSE)
  /\ UNCHANGED <<poolData, commands>>

\* What the server sends for command n: its kinds as tokens; the first token
\* of an array says how many blocks follow.
Tokens(kinds, n) ==
  [i \in DOMAIN kinds |->
     [kind |-> kinds[i], of |-> n, first |-> i = 1,
      blocks |-> IF kinds[i] = "array"
                 THEN Cardinality({j \in DOMAIN kinds : kinds[j] \in {"bulk", "nil", "zero"}})
                 ELSE 0]]

ServerAnswers(k) ==
  /\ client[k].asked
  /\ \E kinds \in Replies :
       LET answer == Tokens(kinds, client[k].cmd)
       IN  client' = [client EXCEPT ![k].asked = FALSE, ![k].reply = answer,
                                    ![k].stream = @ \o answer]
  /\ UNCHANGED <<poolData, commands>>

-----------------------------------------------------------------------------
Next ==
  \/ \E k \in Clients :
       \/ SpeRedisPoolGet(k) \/ SpeRedisPoolPut(k) \/ SpeRedisDo(k)
       \/ Connected(k) \/ CallbackRuns(k) \/ Written(k) \/ Readable(k) \/ ServerAnswers(k)
  \/ SpeRedisPoolDestroy

Spec == Init /\ [][Next]_vars

-----------------------------------------------------------------------------
\* The places of a reply whose tokens are for the program.
Payload(reply) == {i \in DOMAIN reply : reply[i].kind \in {"status", "data", "empty"}}

\* s has the elements of t at the given places, each once, in their order.
IsSelection(s, t, places) ==
  \E at \in [DOMAIN s -> places] :
    /\ \A i, j \in DOMAIN s : i < j => at[i] < at[j]
    /\ \A n \in places : \E i \in DOMAIN s : at[i] = n
    /\ \A i \in DOMAIN s : s[i] = t[at[i]]

\* spe_redis.c:139-193, 202-218.  When the handler is called without Error, the
\* Buffer holds the reply of the last command, all of it, and nothing of an
\* earlier one, however the reply was cut and whatever broke before.
ReplyIsOfCommand ==
  \A k \in Clients :
    LET r == client[k]
    IN  r.cmd > 0 /\ ~ r.busy /\ ~ r.Error =>
          r.reply # << >> /\ IsSelection(r.Buffer, r.reply, Payload(r.reply))

\* spe_redis.c:61-82.  The clients in the pool are there once, wait for nothing
\* and have nothing unread on their connection, which would be the answer to
\* the next user's command; a client nobody holds has no connection.
PooledIsQuiet ==
  /\ IsInjective(poolData)
  /\ \A k \in Clients :
       LET r == client[k]
       IN  /\ r.place = "pool" <=> k \in Range(poolData)
           /\ r.place = "pool" =>
                /\ ~ r.busy /\ r.stream = << >> /\ ~ r.asked
                /\ r.conn.read = "none" /\ r.conn.write = "none"
                /\ r.status = IF r.conn.open THEN "conn" ELSE "init"
           /\ r.place = "none" => ~ r.conn.open

\* spe_redis.c:139, "recv the first response line": what is taken for the
\* first line of the reply is the first line of the reply.
HeadIsFirstLine ==
  \A k \in Clients :
    LET r == client[k]
        head == IF r.conn.read = "queued" THEN r.line ELSE Head(r.stream)
    IN  r.status = "head" /\ (r.conn.read = "queued" \/ r.stream # << >>) =>
          head.first /\ head.of = r.cmd
=============================================================================
