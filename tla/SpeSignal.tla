------------------------------ MODULE SpeSignal ------------------------------
(***************************************************************************)
(* Deferred signals, src/spe/spe_signal.c.  signal_handler notes a signal  *)
(* in a queue and speSignalProcess calls the registered handlers from the  *)
(* main loop.  signal_handler runs on top of the main thread and on top of *)
(* itself for other signals (a signal is blocked only during its own       *)
(* handler), so its accesses to the length of the queue are steps.  The    *)
(* kernel's set of pending signals is external.                            *)
(***************************************************************************)
EXTENDS Integers, Sequences, SequencesExt

CONSTANTS Signals,      \* the signals in use
          NoSignal,     \* an entry of the queue that was never written
          MAX_SIGNAL,   \* the length of spe_signal_queue
          MaxCount      \* bound: deliveries of a signal between two resets

VARIABLES queue, queueLen,      \* spe_signal_queue and its length
          count, registered,    \* spe_signal_state: count, handler # NULL
          caught,               \* signals whose disposition is signal_handler
          pending,              \* signals the kernel will deliver
          stack,                \* the activations of signal_handler
          registering,          \* what SpeSignalRegister is about to set
          lost                  \* signals whose entry was overwritten or that
                                \* found the queue full (in no code)

main == <<registered, caught, registering>>
vars == <<queue, queueLen, count, main, pending, stack, lost>>

Slots == 0..(MAX_SIGNAL - 1)

\* registering: nothing, or the signal, whether it gets a handler, and the step.
TypeOK ==
  /\ queue \in [Slots -> Signals \cup {NoSignal}]
  /\ queueLen \in 0..MAX_SIGNAL
  /\ count \in [Signals -> 0..MaxCount]
  /\ registered \subseteq Signals /\ caught \subseteq Signals /\ pending \subseteq Signals
  /\ stack \in Seq([sig : Signals, at : {"test", "load", "store", "count"}, len : 0..MAX_SIGNAL])
  /\ registering \in Seq([sig : Signals, handled : BOOLEAN, next : {"handler", "signal"}]) /\ Len(registering) <= 1
  /\ lost \subseteq Signals

\* speSignalInit.
Init ==
  /\ queue = [i \in Slots |-> NoSignal] /\ queueLen = 0
  /\ count = [s \in Signals |-> 0] /\ registered = {}
  /\ caught = {} /\ pending = {} /\ stack = << >> /\ registering = << >> /\ lost = {}

-----------------------------------------------------------------------------
(* The kernel *)

\* Signals that are not caught end the program or vanish.
Raise(s) ==
  /\ s \in caught
  /\ pending' = pending \cup {s}
  /\ UNCHANGED <<queue, queueLen, count, main, stack, lost>>

Deliver(s) ==
  /\ s \in pending /\ count[s] < MaxCount
  /\ \A i \in DOMAIN stack : stack[i].sig # s
  /\ pending' = pending \ {s}
  /\ stack' = Append(stack, [sig |-> s, at |-> "test", len |-> 0])
  /\ UNCHANGED <<queue, queueLen, count, main, lost>>

-----------------------------------------------------------------------------
(* signal_handler, the activation on top of the stack *)

At(place) == stack # << >> /\ Last(stack).at = place
Sig == Last(stack).sig
Goes(place, len) ==
  stack' = Append(Front(stack), [sig |-> Sig, at |-> place, len |-> len])

\* Without a handler the signal is ignored from now on.
TestUnregistered ==
  /\ At("test") /\ Sig \notin registered
  /\ caught' = caught \ {Sig}
  /\ stack' = Front(stack)
  /\ UNCHANGED <<queue, queueLen, count, registered, registering, pending, lost>>

Test ==
  /\ At("test") /\ Sig \in registered
  /\ Goes(IF count[Sig] = 0 /\ queueLen < MAX_SIGNAL THEN "load" ELSE "count", 0)
  /\ lost' = IF count[Sig] = 0 /\ queueLen = MAX_SIGNAL THEN lost \cup {Sig} ELSE lost
  /\ UNCHANGED <<queue, queueLen, count, main, pending>>

\* spe_signal_queue_len++ reads the length here and writes it in Store; with a
\* full queue in between, the entry would be outside of the array.
Load ==
  /\ At("load") /\ queueLen < MAX_SIGNAL
  /\ Goes("store", queueLen)
  /\ UNCHANGED <<queue, queueLen, count, main, pending, lost>>

Store ==
  /\ At("store")
  /\ LET n == Last(stack).len
         overwritten == {queue[i] : i \in n..(queueLen - 1)}
     IN  /\ queue' = [queue EXCEPT ![n] = Sig]
         /\ queueLen' = n + 1
         /\ lost' = lost \cup overwritten
         /\ Goes("count", 0)
  /\ UNCHANGED <<count, main, pending>>

\* The count, signal() and the return.
Count ==
  /\ At("count")
  /\ count' = [count EXCEPT ![Sig] = @ + 1]
  /\ caught' = caught \cup {Sig}
  /\ stack' = Front(stack)
  /\ UNCHANGED <<queue, queueLen, registered, registering, pending, lost>>

-----------------------------------------------------------------------------
(* The main thread, which runs while no handler is active *)

\* SpeSignalRegister, in three steps: the count, the handler, the disposition.
RegisterResets(s, handled) ==
  /\ stack = << >> /\ registering = << >>
  /\ count' = [count EXCEPT ![s] = 0]
  /\ lost' = lost \ {s}
  /\ registering' = <<[sig |-> s, handled |-> handled, next |-> "handler"]>>
  /\ UNCHANGED <<queue, queueLen, registered, caught, pending, stack>>

Registering(step) == stack = << >> /\ registering # << >> /\ Head(registering).next = step
Updated(set) ==
  LET r == Head(registering) IN IF r.handled THEN set \cup {r.sig} ELSE set \ {r.sig}

RegisterSets ==
  /\ Registering("handler")
  /\ registered' = Updated(registered)
  /\ registering' = <<[Head(registering) EXCEPT !.next = "signal"]>>
  /\ UNCHANGED <<queue, queueLen, count, caught, pending, stack, lost>>

\* Ignoring a signal also drops it if it is pending.
RegisterCatches ==
  /\ Registering("signal")
  /\ caught' = Updated(caught)
  /\ pending' = pending \cap Updated(pending)
  /\ registering' = << >>
  /\ UNCHANGED <<queue, queueLen, count, registered, stack, lost>>

Queued == {queue[i] : i \in 0..(queueLen - 1)}

\* Faulty variant: the counts stay.
speSignalProcessKeepsCounts ==
  /\ stack = << >> /\ registering = << >> /\ queueLen # 0
  /\ queueLen' = 0
  /\ UNCHANGED <<queue, count, main, pending, stack, lost>>

\* With all signals blocked: every entry with a count has its handler called,
\* if it still has one, and loses its count.
speSignalProcess ==
  /\ stack = << >> /\ registering = << >> /\ queueLen # 0
  /\ count' = [s \in Signals |-> IF s \in Queued THEN 0 ELSE count[s]]
  /\ queueLen' = 0
  /\ lost' = lost \ Queued
  /\ UNCHANGED <<queue, main, pending, stack>>

-----------------------------------------------------------------------------
signal_handler == TestUnregistered \/ Test \/ Load \/ Store \/ Count

Next ==
  \/ \E s \in Signals : Raise(s) \/ Deliver(s)
  \/ signal_handler
  \/ \E s \in Signals, handled \in BOOLEAN : RegisterResets(s, handled)
  \/ RegisterSets \/ RegisterCatches
  \/ speSignalProcess

Spec == Init /\ [][Next]_vars

-----------------------------------------------------------------------------
\* spe_signal.c:43-48, 83-91.  A signal with a count, which will not be queued
\* again before somebody resets the count, has an entry in the queue, unless
\* another signal's handler ran between the two halves of the increment or
\* the queue was full.
SignalIsHeld ==
  \A s \in Signals :
    count[s] > 0 /\ s \notin lost =>
      \/ s \in Queued
      \/ \E i \in DOMAIN stack : stack[i].sig = s /\ stack[i].at # "test"
=============================================================================
