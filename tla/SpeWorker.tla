------------------------------ MODULE SpeWorker ------------------------------
(***************************************************************************)
(* Objects that handle messages on worker threads, spe_worker.c and        *)
(* spe_object.c of src/spe/leagcy/.  A sender appends a message under the  *)
(* object's lock and then puts the object into the queue of the workers    *)
(* under the queue's lock; a worker looks at the messages left under the   *)
(* queue's lock only.  A critical section whose holder cannot block is one *)
(* step.  Objects are registered before anything is sent to them.          *)
(***************************************************************************)
EXTENDS Integers, Sequences, SequencesExt

CONSTANTS Workers,      \* the threads of spe_worker_run
          Senders,      \* threads that send messages
          Objects,      \* the initialised objects
          NoObject,     \* a NULL object
          MaxSent       \* bound: messages per object

ASSUME NoObjectAssumption == NoObject \notin Objects
ASSUME MaxSentAssumption == MaxSent \in Nat

VARIABLES worker_queue,
          status, msg_head,     \* of each object
          waiting, woken,       \* workers in pthread_cond_wait, those signalled
          at, obj, msg_run,     \* of each worker: place, and its local variables
          sender,               \* where each sender is, and with which object
          sent, handled         \* messages sent to each object, and handled, in
                                \* order (in no code)

objectVars == <<worker_queue, status, msg_head>>
workerVars == <<waiting, woken, at, obj, msg_run>>
allVars == <<objectVars, workerVars, sender, sent, handled>>

\* Message i of an object is the number i.
WorkerTypeOK ==
  /\ worker_queue \in Seq(Objects)
  /\ status \in [Objects -> {"free", "queue", "run"}]
  /\ msg_head \in [Objects -> Seq(1..MaxSent)]
  /\ waiting \subseteq Workers /\ woken \subseteq Workers
  /\ at \in [Workers -> {"get", "splice", "run", "settle"}]
  /\ obj \in [Workers -> Objects \cup {NoObject}]
  /\ msg_run \in [Workers -> Seq(1..MaxSent)]
  /\ sender \in [Senders -> [at : {"out", "do", "signal"}, obj : Objects \cup {NoObject}]]
  /\ sent \in [Objects -> 0..MaxSent]
  /\ handled \in [Objects -> Seq(1..MaxSent)]

Outside == [at |-> "out", obj |-> NoObject]

\* spe_object_init of every object, and spe_worker_run.
WorkerInit ==
  /\ worker_queue = << >>
  /\ status = [o \in Objects |-> "free"] /\ msg_head = [o \in Objects |-> << >>]
  /\ waiting = {} /\ woken = {}
  /\ at = [w \in Workers |-> "get"] /\ obj = [w \in Workers |-> NoObject]
  /\ msg_run = [w \in Workers |-> << >>]
  /\ sender = [s \in Senders |-> Outside]
  /\ sent = [o \in Objects |-> 0] /\ handled = [o \in Objects |-> << >>]

-----------------------------------------------------------------------------
(* spe_object_send_msg *)

SendMsg(s, o) ==
  /\ sender[s] = Outside /\ sent[o] < MaxSent
  /\ sent' = [sent EXCEPT ![o] = @ + 1]
  /\ msg_head' = [msg_head EXCEPT ![o] = Append(@, sent[o] + 1)]
  /\ sender' = [sender EXCEPT ![s] = [at |-> "do", obj |-> o]]
  /\ UNCHANGED <<worker_queue, status, workerVars, handled>>

\* Faulty variant: the object is queued whatever its status.
spe_worker_doBlind(s) ==
  /\ sender[s].at = "do"
  /\ worker_queue' = Append(worker_queue, sender[s].obj)
  /\ status' = [status EXCEPT ![sender[s].obj] = "queue"]
  /\ sender' = [sender EXCEPT ![s].at = "signal"]
  /\ UNCHANGED <<msg_head, workerVars, sent, handled>>

\* spe_worker_do up to its unlock; it returns if the object is not free.
spe_worker_do(s) ==
  /\ sender[s].at = "do"
  /\ LET o == sender[s].obj
     IN  IF status[o] = "free"
         THEN /\ worker_queue' = Append(worker_queue, o)
              /\ status' = [status EXCEPT ![o] = "queue"]
              /\ sender' = [sender EXCEPT ![s].at = "signal"]
         ELSE /\ sender' = [sender EXCEPT ![s] = Outside]
              /\ UNCHANGED <<worker_queue, status>>
  /\ UNCHANGED <<msg_head, workerVars, sent, handled>>

\* pthread_cond_signal wakes one of the workers that wait, if any.
Signal(s) ==
  /\ sender[s].at = "signal"
  /\ IF waiting \subseteq woken THEN UNCHANGED woken
     ELSE \E w \in waiting \ woken : woken' = woken \cup {w}
  /\ sender' = [sender EXCEPT ![s] = Outside]
  /\ UNCHANGED <<objectVars, waiting, at, obj, msg_run, sent, handled>>

-----------------------------------------------------------------------------
(* worker_routine *)

\* The queue is empty under its lock.
Wait(w) ==
  /\ at[w] = "get" /\ w \notin waiting /\ worker_queue = << >>
  /\ waiting' = waiting \cup {w}
  /\ UNCHANGED <<objectVars, woken, at, obj, msg_run, sender, sent, handled>>

Wake(w) ==
  /\ w \in waiting /\ w \in woken
  /\ waiting' = waiting \ {w} /\ woken' = woken \ {w}
  /\ UNCHANGED <<objectVars, at, obj, msg_run, sender, sent, handled>>

\* pthread_cond_wait may return without a signal.
WakeSpuriously(w) ==
  /\ w \in waiting \ woken
  /\ waiting' = waiting \ {w}
  /\ UNCHANGED <<objectVars, woken, at, obj, msg_run, sender, sent, handled>>

Get(w) ==
  /\ at[w] = "get" /\ w \notin waiting /\ worker_queue # << >>
  /\ obj' = [obj EXCEPT ![w] = Head(worker_queue)]
  /\ worker_queue' = Tail(worker_queue)
  /\ status' = [status EXCEPT ![Head(worker_queue)] = "run"]
  /\ at' = [at EXCEPT ![w] = "splice"]
  /\ UNCHANGED <<msg_head, waiting, woken, msg_run, sender, sent, handled>>

Splice(w) ==
  /\ at[w] = "splice"
  /\ msg_run' = [msg_run EXCEPT ![w] = msg_head[obj[w]]]
  /\ msg_head' = [msg_head EXCEPT ![obj[w]] = << >>]
  /\ at' = [at EXCEPT ![w] = "run"]
  /\ UNCHANGED <<worker_queue, status, waiting, woken, obj, sender, sent, handled>>

\* One round of the loop over msg_run.
Handle(w) ==
  /\ at[w] = "run" /\ msg_run[w] # << >>
  /\ handled' = [handled EXCEPT ![obj[w]] = Append(@, Head(msg_run[w]))]
  /\ msg_run' = [msg_run EXCEPT ![w] = Tail(@)]
  /\ UNCHANGED <<objectVars, waiting, woken, at, obj, sender, sent>>

EndOfMessages(w) ==
  /\ at[w] = "run" /\ msg_run[w] = << >>
  /\ at' = [at EXCEPT ![w] = "settle"]
  /\ UNCHANGED <<objectVars, waiting, woken, obj, msg_run, sender, sent, handled>>

\* Faulty variant: the object is free whatever came in while it ran.
SettleFrees(w) ==
  /\ at[w] = "settle"
  /\ status' = [status EXCEPT ![obj[w]] = "free"]
  /\ at' = [at EXCEPT ![w] = "get"] /\ obj' = [obj EXCEPT ![w] = NoObject]
  /\ UNCHANGED <<worker_queue, msg_head, waiting, woken, msg_run, sender, sent, handled>>

\* Under the lock of the queue, but not under that of the messages: the object
\* is queued again, without a signal, if messages came in.
Settle(w) ==
  /\ at[w] = "settle"
  /\ LET o == obj[w]
     IN  IF msg_head[o] = << >>
         THEN status' = [status EXCEPT ![o] = "free"] /\ UNCHANGED worker_queue
         ELSE /\ worker_queue' = Append(worker_queue, o)
              /\ status' = [status EXCEPT ![o] = "queue"]
  /\ at' = [at EXCEPT ![w] = "get"] /\ obj' = [obj EXCEPT ![w] = NoObject]
  /\ UNCHANGED <<msg_head, waiting, woken, msg_run, sender, sent, handled>>

-----------------------------------------------------------------------------
Send(s) == spe_worker_do(s) \/ Signal(s)

worker_routine(w) ==
  \/ Wait(w) \/ Wake(w) \/ Get(w) \/ Splice(w) \/ Handle(w) \/ EndOfMessages(w) \/ Settle(w)

WorkerNext ==
  \/ \E s \in Senders : Send(s) \/ \E o \in Objects : SendMsg(s, o)
  \/ \E w \in Workers : worker_routine(w) \/ WakeSpuriously(w)

WorkerSpec == WorkerInit /\ [][WorkerNext]_allVars

\* Workers and senders inside a call are scheduled, and handlers return.
WorkerFairness ==
  /\ \A s \in Senders : WF_allVars(Send(s))
  /\ \A w \in Workers : WF_allVars(worker_routine(w))

WorkerFairSpec == WorkerSpec /\ WorkerFairness

-----------------------------------------------------------------------------
Running(w) == at[w] # "get"

\* spe_worker.c:20-30, 47-74.  An object is in the queue once or with one
\* worker, as its status says, and never with two: its handler needs no lock.
ObjectRunsAlone ==
  /\ IsInjective(worker_queue)
  /\ \A o \in Objects : o \in Range(worker_queue) <=> status[o] = "queue"
  /\ \A w \in Workers : Running(w) => status[obj[w]] = "run"
  /\ \A v, w \in Workers : Running(v) /\ Running(w) /\ obj[v] = obj[w] => v = w

\* spe_worker.c:25-30, 66-74.  Every message sent is handled, although the
\* sender gives up if the object is running and the worker tests the list of
\* messages without its lock; and those handled are the first ones sent, in
\* that order.
MessageIsHandled ==
  \A o \in Objects : \A n \in 1..MaxSent :
    sent[o] >= n ~> (Len(handled[o]) >= n /\ handled[o][n] = n)
=============================================================================
