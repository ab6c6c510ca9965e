---------------------------- MODULE DriverProofs -----------------------------
(***************************************************************************)
(* Theorems about the parts of Drivers, for any signals, redis clients,    *)
(* requests, monitor connections and routines, and any bounds.             *)
(***************************************************************************)
EXTENDS Drivers, Functions, FiniteSetTheorems, SequenceTheorems, TLAPS

-----------------------------------------------------------------------------
(* Signals *)

\* One activation of signal_handler per signal; a count in a bound; an entry in
\* the array for who is about to store one; and an entry or a loss for who
\* is about to count.
ActivationsAreSound ==
  /\ \A i, j \in DOMAIN stack : stack[i].sig = stack[j].sig => i = j
  /\ \A i \in DOMAIN stack :
       /\ count[stack[i].sig] < MaxDeliveries
       /\ stack[i].at = "store" => stack[i].len < MAX_SIGNAL
       /\ stack[i].at = "count" => stack[i].sig \in Signal!Queued \cup lost

\* Every entry that will be processed was written, and nested activations
\* write at rising places.
QueueIsWritten ==
  /\ \A i \in 0..(queueLen - 1) : queue[i] \in Signals
  /\ \A i, j \in DOMAIN stack :
       i <= j /\ stack[i].at = "store" /\ stack[j].at = "store" =>
         stack[i].len <= stack[j].len /\ stack[j].len <= queueLen

SignalInv == Signal!TypeOK /\ ActivationsAreSound /\ QueueIsWritten /\ Signal!SignalIsHeld

Activation == [sig : Signals, at : {"test", "load", "store", "count"}, len : 0..MAX_SIGNAL]

\* The activation on top returns, goes on, or is interrupted by another.
LEMMA Activations ==
  ASSUME NEW S, NEW s \in Seq(S), NEW x \in S
  PROVE  /\ Len(s) \in Nat /\ DOMAIN s = 1..Len(s)
         /\ Append(s, x) \in Seq(S) /\ DOMAIN Append(s, x) = 1..(Len(s) + 1)
         /\ \A i \in 1..Len(s) : s[i] \in S /\ Append(s, x)[i] = s[i]
         /\ Append(s, x)[Len(s) + 1] = x
         /\ s # << >> =>
              /\ Len(s) \in 1..Len(s) /\ Signal!Last(s) = s[Len(s)]
              /\ Signal!Front(s) \in Seq(S) /\ DOMAIN Signal!Front(s) = 1..(Len(s) - 1)
              /\ \A i \in 1..(Len(s) - 1) : Signal!Front(s)[i] = s[i]
              /\ Append(Signal!Front(s), x) \in Seq(S)
              /\ DOMAIN Append(Signal!Front(s), x) = 1..Len(s)
              /\ \A i \in 1..(Len(s) - 1) : Append(Signal!Front(s), x)[i] = s[i]
              /\ Append(Signal!Front(s), x)[Len(s)] = x
<1>1. /\ Len(s) \in Nat /\ DOMAIN s = 1..Len(s)
      /\ Append(s, x) \in Seq(S) /\ DOMAIN Append(s, x) = 1..(Len(s) + 1)
      /\ \A i \in 1..Len(s) : s[i] \in S /\ Append(s, x)[i] = s[i]
      /\ Append(s, x)[Len(s) + 1] = x
  OBVIOUS
<1>2. ASSUME s # << >>
      PROVE  /\ Len(s) \in 1..Len(s) /\ Signal!Last(s) = s[Len(s)]
             /\ Signal!Front(s) \in Seq(S) /\ Len(Signal!Front(s)) = Len(s) - 1
             /\ \A i \in 1..(Len(s) - 1) : Signal!Front(s)[i] = s[i]
  <2>1. Len(s) \in 1..Len(s) /\ Signal!Last(s) = s[Len(s)]
    BY <1>1, <1>2, EmptySeq DEF Signal!Last
  <2>2. \A i \in 1..(Len(s) - 1) : s[i] \in S
    BY <1>1
  <2> QED  BY <1>1, <2>1, <2>2, SubSeqProperties DEF Signal!Front
<1>3. ASSUME NEW f \in Seq(S), NEW n \in Nat, n >= 1, Len(f) = n - 1
      PROVE  /\ DOMAIN f = 1..(n - 1)
             /\ Append(f, x) \in Seq(S)
             /\ DOMAIN Append(f, x) = 1..n
             /\ \A i \in 1..(n - 1) : Append(f, x)[i] = f[i]
             /\ Append(f, x)[n] = x
  BY <1>3, AppendProperties, LenProperties
<1>4. CASE s = << >>
  BY <1>1, <1>4
<1>5. CASE s # << >>
  <2> HIDE DEF Signal!Front
  <2>1. Len(Signal!Front(s)) = Len(s) - 1 /\ Len(s) \in Nat /\ Len(s) >= 1 /\ Signal!Front(s) \in Seq(S)
    <3>1. Len(Signal!Front(s)) = Len(s) - 1 /\ Len(s) \in 1..Len(s) /\ Signal!Front(s) \in Seq(S)
      BY <1>2, <1>5, Zenon
    <3> QED  BY <1>1, <3>1
  <2>2. /\ DOMAIN Signal!Front(s) = 1..(Len(s) - 1)
        /\ Append(Signal!Front(s), x) \in Seq(S)
        /\ DOMAIN Append(Signal!Front(s), x) = 1..Len(s)
        /\ \A i \in 1..(Len(s) - 1) : Append(Signal!Front(s), x)[i] = Signal!Front(s)[i]
        /\ Append(Signal!Front(s), x)[Len(s)] = x
    BY <1>3, <2>1
  <2> QED  BY <1>1, <1>2, <1>5, <2>2
<1> QED  BY <1>4, <1>5

\* The types, piece by piece.
LEMMA SignalTypes ==
  ASSUME SignalInv
  PROVE  /\ stack \in Seq(Activation) /\ DOMAIN stack = 1..Len(stack) /\ Len(stack) \in Nat
         /\ \A i \in DOMAIN stack : stack[i] \in Activation /\ stack[i].sig \in Signals
         /\ count \in [Signals -> 0..MaxDeliveries] /\ queueLen \in 0..MAX_SIGNAL
         /\ queue \in [Signal!Slots -> Signals \cup {NoSignal}]
         /\ MAX_SIGNAL \in Nat /\ MaxDeliveries \in Nat /\ lost \subseteq Signals
<1>1. stack \in Seq(Activation)
  BY DEF SignalInv, Signal!TypeOK, Activation
<1>2. /\ DOMAIN stack = 1..Len(stack) /\ Len(stack) \in Nat
      /\ \A i \in DOMAIN stack : stack[i] \in Activation
  BY <1>1
<1>3. \A i \in DOMAIN stack : stack[i].sig \in Signals
  BY <1>2 DEF Activation
<1> QED  BY <1>1, <1>2, <1>3, SignalAssumption DEF SignalAssumption, SignalInv, Signal!TypeOK

\* Nothing is queued, and no handler runs, at first.
LEMMA SignalStart == Signal!Init => SignalInv
BY SignalAssumption
   DEF SignalAssumption, SignalInv, Signal!Init, Signal!TypeOK, Signal!Slots, ActivationsAreSound,
       QueueIsWritten, Signal!SignalIsHeld

\* The main thread runs while no handler does.
LEMMA SignalMain ==
  ASSUME SignalInv, stack = << >>, stack' = << >>, Signal!TypeOK',
         UNCHANGED queue, queueLen' \in {0, queueLen},
         \A s \in Signals : count'[s] > 0 /\ s \notin lost' =>
           count[s] > 0 /\ s \notin lost /\ (s \in Signal!Queued => s \in Signal!Queued')
  PROVE  SignalInv'
<1>1. DOMAIN stack = {} /\ DOMAIN stack' = {}
  OBVIOUS
<1>2. ActivationsAreSound' /\ QueueIsWritten'
  <2>1. ActivationsAreSound'
    BY <1>1, Zenon DEF ActivationsAreSound
  <2>2. \A i \in 0..(queueLen' - 1) : queue'[i] \in Signals
    <3>1. CASE queueLen' = 0
      BY <3>1
    <3>2. CASE queueLen' = queueLen
      BY <3>2 DEF SignalInv, QueueIsWritten
    <3> QED  BY <3>1, <3>2
  <2>3. QueueIsWritten'
    BY <1>1, <2>2, Zenon DEF QueueIsWritten
  <2> QED  BY <2>1, <2>3
<1>3. Signal!SignalIsHeld'
  BY <1>1 DEF SignalInv, Signal!SignalIsHeld
<1> QED  BY <1>2, <1>3 DEF SignalInv

\* The steps of SpeSignalRegister, which no handler is on top of.
LEMMA SignalRegisterStep ==
  ASSUME SignalInv,
         \/ \E s \in Signals, served \in BOOLEAN : Signal!RegisterResets(s, served)
         \/ Signal!RegisterSets \/ Signal!RegisterCatches
  PROVE  SignalInv'
<1>1. ASSUME NEW s \in Signals, NEW served \in BOOLEAN, Signal!RegisterResets(s, served)
      PROVE  SignalInv'
  <2>1. count' \in [Signals -> 0..MaxDeliveries]
    BY <1>1, SignalAssumption DEF SignalAssumption, Signal!RegisterResets, SignalInv, Signal!TypeOK
  <2>2. Signal!TypeOK'
    BY <1>1, <2>1 DEF Signal!RegisterResets, SignalInv, Signal!TypeOK
  <2> QED  BY <1>1, <2>1, <2>2, SignalMain
           DEF Signal!RegisterResets, SignalInv, Signal!TypeOK, Signal!Queued
<1>2. ASSUME Signal!RegisterSets \/ Signal!RegisterCatches
      PROVE  SignalInv'
  <2> DEFINE r == Head(registering)
  <2>1. r \in [sig : Signals, handled : BOOLEAN, next : {"handler", "signal"}]
    <3>1. /\ registering \in Seq([sig : Signals, handled : BOOLEAN, next : {"handler", "signal"}])
          /\ registering # << >>
      BY <1>2 DEF Signal!RegisterSets, Signal!RegisterCatches, Signal!Registering, SignalInv, Signal!TypeOK
    <3> HIDE DEF r
    <3>2. \A seq \in Seq([sig : Signals, handled : BOOLEAN, next : {"handler", "signal"}]) :
            seq # << >> => Head(seq) \in [sig : Signals, handled : BOOLEAN, next : {"handler", "signal"}]
      BY HeadTailProperties
    <3> QED  BY <3>1, <3>2 DEF r
  <2>2. \A set \in SUBSET Signals : Signal!Updated(set) \subseteq Signals
    BY <2>1 DEF Signal!Updated
  <2>3. <<[r EXCEPT !.next = "signal"]>> \in
          Seq([sig : Signals, handled : BOOLEAN, next : {"handler", "signal"}])
    BY <2>1
  <2> HIDE DEF r
  <2>4. Signal!TypeOK'
    <3>1. CASE Signal!RegisterSets
      <4>1. /\ registered' \subseteq Signals
            /\ registering' = <<[r EXCEPT !.next = "signal"]>> /\ Len(registering') = 1
        BY <2>2, <3>1 DEF Signal!RegisterSets, SignalInv, Signal!TypeOK, r
      <4> QED  BY <2>3, <3>1, <4>1 DEF Signal!RegisterSets, SignalInv, Signal!TypeOK
    <3>2. CASE Signal!RegisterCatches
      <4>1. caught' \subseteq Signals /\ pending' \subseteq Signals /\ registering' = << >>
        BY <2>2, <3>2 DEF Signal!RegisterCatches, SignalInv, Signal!TypeOK
      <4> QED  BY <3>2, <4>1 DEF Signal!RegisterCatches, SignalInv, Signal!TypeOK
    <3> QED  BY <1>2, <3>1, <3>2
  <2> QED  BY <1>2, <2>4, SignalMain
           DEF Signal!RegisterSets, Signal!RegisterCatches, Signal!Registering, Signal!Queued
<1> QED  BY <1>1, <1>2

\* speSignalProcess takes all of the queue, and no handler runs meanwhile.
LEMMA SignalProcessStep ==
  ASSUME SignalInv, Signal!speSignalProcess PROVE SignalInv'
<1>1. count' \in [Signals -> 0..MaxDeliveries]
  BY SignalAssumption DEF SignalAssumption, Signal!speSignalProcess, SignalInv, Signal!TypeOK
<1>2. Signal!TypeOK'
  BY <1>1, SignalAssumption
  DEF SignalAssumption, Signal!speSignalProcess, SignalInv, Signal!TypeOK, Signal!main
<1>3. \A s \in Signals : count'[s] > 0 /\ s \notin lost' => count[s] > 0 /\ s \notin lost /\ s \notin Signal!Queued
  BY DEF Signal!speSignalProcess
<1>4. stack = << >> /\ stack' = << >> /\ UNCHANGED queue /\ queueLen' = 0
  BY DEF Signal!speSignalProcess
<1> QED  BY <1>2, <1>3, <1>4, SignalMain

\* A signal starts its handler on top of those of other signals.
LEMMA SignalDeliverStep ==
  ASSUME SignalInv, NEW s \in Signals, Signal!Deliver(s) PROVE SignalInv'
<1> DEFINE x == [sig |-> s, at |-> "test", len |-> 0]
<1>1. x \in Activation /\ x.sig = s /\ x.at = "test"
  BY SignalAssumption DEF SignalAssumption, Activation
<1>2. stack \in Seq(Activation)
  BY DEF SignalInv, Signal!TypeOK, Activation
<1>3. stack' = Append(stack, x)
  BY DEF Signal!Deliver
<1> HIDE DEF x
<1>4. /\ Len(stack) \in Nat /\ DOMAIN stack = 1..Len(stack)
      /\ stack' \in Seq(Activation) /\ DOMAIN stack' = 1..(Len(stack) + 1)
      /\ \A i \in 1..Len(stack) : stack'[i] = stack[i]
      /\ stack'[Len(stack) + 1] = x
  BY <1>1, <1>2, <1>3, Activations
<1>5. Signal!TypeOK'
  BY <1>4 DEF SignalInv, Signal!TypeOK, Signal!Deliver, Activation, Signal!main
<1>6. UNCHANGED <<queue, queueLen, count, lost>> /\ Signal!Queued' = Signal!Queued
  BY DEF Signal!Deliver, Signal!Queued
<1>7. \A i \in DOMAIN stack : i \in DOMAIN stack' /\ stack'[i] = stack[i]
  BY <1>4
<1>8. Signal!SignalIsHeld'
  BY <1>6, <1>7 DEF SignalInv, Signal!SignalIsHeld
<1>9. ActivationsAreSound'
  <2>1. count[s] < MaxDeliveries /\ \A i \in DOMAIN stack : stack[i].sig # s
    BY DEF Signal!Deliver
  <2> QED  BY <1>1, <1>4, <1>6, <2>1 DEF SignalInv, ActivationsAreSound
<1>10. QueueIsWritten'
  BY <1>1, <1>4, <1>6 DEF SignalInv, QueueIsWritten
<1> QED  BY <1>5, <1>8, <1>9, <1>10 DEF SignalInv

\* What is on top, and what is below.
LEMMA SignalTop ==
  ASSUME SignalInv, stack # << >>
  PROVE  /\ Len(stack) \in Nat /\ Len(stack) >= 1 /\ DOMAIN stack = 1..Len(stack)
         /\ stack[Len(stack)] \in Activation /\ Signal!Last(stack) = stack[Len(stack)]
         /\ Signal!Sig = stack[Len(stack)].sig /\ Signal!Sig \in Signals
         /\ count[Signal!Sig] \in Nat /\ count[Signal!Sig] < MaxDeliveries
         /\ \A i \in 1..(Len(stack) - 1) : stack[i].sig # Signal!Sig
<1>1. stack \in Seq(Activation)
  BY DEF SignalInv, Signal!TypeOK, Activation
<1>2. /\ Len(stack) \in Nat /\ DOMAIN stack = 1..Len(stack)
      /\ Len(stack) \in 1..Len(stack) /\ stack[Len(stack)] \in Activation
      /\ Signal!Last(stack) = stack[Len(stack)]
  BY <1>1 DEF Signal!Last
<1>3. Signal!Sig = stack[Len(stack)].sig /\ Signal!Sig \in Signals
  BY <1>2 DEF Signal!Sig, Activation
<1>4. \A i \in 1..(Len(stack) - 1) : stack[i].sig # Signal!Sig
  BY <1>2, <1>3 DEF SignalInv, ActivationsAreSound
<1>5. count[Signal!Sig] \in Nat /\ count[Signal!Sig] < MaxDeliveries
  <2>1. count[Signal!Sig] \in 0..MaxDeliveries
    BY <1>3, SignalTypes
  <2> QED  BY <1>2, <1>3, <2>1, SignalTypes DEF SignalInv, ActivationsAreSound
<1> QED  BY <1>2, <1>3, <1>4, <1>5

\* The activation on top goes to another place.
LEMMA SignalGoes ==
  ASSUME SignalInv, stack # << >>, NEW place \in {"load", "store", "count"}, NEW len \in 0..MAX_SIGNAL,
         Signal!Goes(place, len),
         Signal!TypeOK' \/ stack' \in Seq(Activation) => Signal!TypeOK',
         UNCHANGED count,
         place = "store" => len < MAX_SIGNAL /\ len = queueLen',
         \A i \in 1..(Len(stack) - 1) : stack[i].at = "store" => stack[i].len <= queueLen',
         \A i \in 0..(queueLen' - 1) : queue'[i] \in Signals,
         place = "count" => Signal!Sig \in Signal!Queued' \cup lost',
         \A s \in Signals : s \in Signal!Queued \cup lost => s \in Signal!Queued' \cup lost'
  PROVE  SignalInv'
<1> DEFINE x == [sig |-> Signal!Sig, at |-> place, len |-> len]
<1>1. x \in Activation /\ x.sig = Signal!Sig /\ x.at = place /\ x.len = len
  BY SignalTop DEF Activation
<1>2. stack \in Seq(Activation)
  BY DEF SignalInv, Signal!TypeOK, Activation
<1>3. stack' = Append(Signal!Front(stack), x)
  BY DEF Signal!Goes
<1> HIDE DEF x
<1>4. /\ Len(stack) \in Nat /\ DOMAIN stack = 1..Len(stack) /\ Len(stack) >= 1
      /\ stack' \in Seq(Activation) /\ DOMAIN stack' = 1..Len(stack)
      /\ \A i \in 1..(Len(stack) - 1) : stack'[i] = stack[i] /\ stack[i].sig # Signal!Sig
      /\ stack'[Len(stack)] = x
  <2>1. Len(stack) >= 1 /\ \A i \in 1..(Len(stack) - 1) : stack[i].sig # Signal!Sig
    BY SignalTop
  <2> QED  BY <1>1, <1>2, <1>3, <2>1, Activations
<1>5. Signal!TypeOK'
  BY <1>4
<1>6. stack[Len(stack)].sig = Signal!Sig /\ count'[Signal!Sig] < MaxDeliveries
  BY SignalTop
<1>7. ActivationsAreSound'
  <2>1. \A i, j \in DOMAIN stack' : stack'[i].sig = stack'[j].sig => i = j
    BY <1>1, <1>4 DEF SignalInv, ActivationsAreSound
  <2>2. ASSUME NEW i \in DOMAIN stack'
        PROVE  /\ count'[stack'[i].sig] < MaxDeliveries
               /\ stack'[i].at = "store" => stack'[i].len < MAX_SIGNAL
               /\ stack'[i].at = "count" => stack'[i].sig \in Signal!Queued' \cup lost'
    <3>1. CASE i = Len(stack)
      BY <1>1, <1>4, <1>6, <3>1
    <3>2. CASE i \in 1..(Len(stack) - 1)
      <4>1. stack'[i] = stack[i] /\ i \in DOMAIN stack
        BY <1>4, <3>2
      <4>2. stack[i].sig \in Signals
        BY <4>1, SignalTypes
      <4> QED  BY <4>1, <4>2 DEF SignalInv, ActivationsAreSound
    <3> QED  BY <1>4, <2>2, <3>1, <3>2
  <2> QED  BY <2>1, <2>2 DEF ActivationsAreSound
<1>8. Signal!SignalIsHeld'
  <2> SUFFICES ASSUME NEW s \in Signals, count'[s] > 0, s \notin lost', s \notin Signal!Queued'
               PROVE  \E i \in DOMAIN stack' : stack'[i].sig = s /\ stack'[i].at # "test"
    BY DEF Signal!SignalIsHeld
  <2>1. PICK i \in DOMAIN stack : stack[i].sig = s /\ stack[i].at # "test"
    BY DEF SignalInv, Signal!SignalIsHeld
  <2>2. CASE i = Len(stack)
    BY <1>1, <1>4, <1>6, <2>1, <2>2
  <2>3. CASE i \in 1..(Len(stack) - 1)
    BY <1>4, <2>1, <2>3
  <2> QED  BY <1>4, <2>2, <2>3
<1>9. QueueIsWritten'
  <2> SUFFICES ASSUME NEW i \in DOMAIN stack', NEW j \in DOMAIN stack',
                      i <= j, stack'[i].at = "store", stack'[j].at = "store"
               PROVE  stack'[i].len <= stack'[j].len /\ stack'[j].len <= queueLen'
    BY DEF QueueIsWritten
  <2>0. queueLen' \in Nat
    BY <1>5, SignalTypes DEF Signal!TypeOK
  <2>1. CASE j = Len(stack)
    BY <1>1, <1>4, <2>0, <2>1
  <2>2. CASE j \in 1..(Len(stack) - 1)
    BY <1>4, <2>2 DEF SignalInv, QueueIsWritten
  <2> QED  BY <1>4, <2>1, <2>2
<1> QED  BY <1>5, <1>7, <1>8, <1>9 DEF SignalInv

\* The handler counts a signal that has a count, and goes on to the queue with others.
LEMMA SignalTestStep ==
  ASSUME SignalInv, Signal!Test PROVE SignalInv'
<1>1. stack # << >> /\ Signal!Last(stack).at = "test"
  BY DEF Signal!Test, Signal!At
<1> DEFINE s == Signal!Sig
           place == IF count[s] = 0 /\ queueLen < MAX_SIGNAL THEN "load" ELSE "count"
<1>2. /\ Signal!Goes(place, 0)
      /\ lost' = IF count[s] = 0 /\ queueLen = MAX_SIGNAL THEN lost \cup {s} ELSE lost
      /\ UNCHANGED <<queue, queueLen, count, registered, caught, registering, pending>>
  BY DEF Signal!Test, Signal!main
<1>3. s \in Signals /\ count[s] \in Nat /\ queueLen \in 0..MAX_SIGNAL
  BY <1>1, SignalTop DEF SignalInv, Signal!TypeOK
<1>4. Signal!Queued' = Signal!Queued
  BY <1>2 DEF Signal!Queued
<1>5. place = "count" => s \in Signal!Queued' \cup lost'
  <2>1. CASE count[s] = 0
    BY <1>2, <1>3, <2>1, SignalAssumption DEF SignalAssumption
  <2>2. CASE count[s] > 0
    <3>1. ASSUME NEW i \in DOMAIN stack, stack[i].sig = s PROVE stack[i].at = "test"
      BY <1>1, <3>1, SignalTop
    <3> QED  BY <1>2, <1>3, <1>4, <2>2, <3>1 DEF SignalInv, Signal!SignalIsHeld
  <2> QED  BY <1>3, <2>1, <2>2
<1>6. stack' \in Seq(Activation) => Signal!TypeOK'
  BY <1>2, <1>3 DEF SignalInv, Signal!TypeOK, Activation
<1>7. 0 \in 0..MAX_SIGNAL /\ place \in {"load", "count"}
  BY SignalAssumption DEF SignalAssumption
<1>8. lost \subseteq lost'
  BY <1>2
<1>9. /\ \A i \in 1..(Len(stack) - 1) : stack[i].at = "store" => stack[i].len <= queueLen'
      /\ \A i \in 0..(queueLen' - 1) : queue'[i] \in Signals
  BY <1>2, SignalTypes DEF SignalInv, QueueIsWritten
<1>10. UNCHANGED count
  BY <1>2
<1>11. place # "store"
  OBVIOUS
<1> HIDE DEF place, s
<1> QED  BY <1>1, <1>2, <1>4, <1>5, <1>6, <1>7, <1>8, <1>9, <1>10, <1>11, SignalGoes DEF s

\* The handler reads a length that those below it have read already or may still write.
LEMMA SignalLoadStep ==
  ASSUME SignalInv, Signal!Load PROVE SignalInv'
<1>1. /\ stack # << >> /\ queueLen < MAX_SIGNAL /\ Signal!Goes("store", queueLen)
      /\ UNCHANGED <<queue, queueLen, count, registered, caught, registering, pending, lost>>
  BY DEF Signal!Load, Signal!At, Signal!main
<1>2. Signal!Queued' = Signal!Queued
  BY <1>1 DEF Signal!Queued
<1>3. queueLen \in 0..MAX_SIGNAL
  BY DEF SignalInv, Signal!TypeOK
<1>4. stack' \in Seq(Activation) => Signal!TypeOK'
  BY <1>1 DEF SignalInv, Signal!TypeOK, Activation
<1>5. /\ \A i \in 1..(Len(stack) - 1) : stack[i].at = "store" => stack[i].len <= queueLen'
      /\ \A i \in 0..(queueLen' - 1) : queue'[i] \in Signals
  BY <1>1, SignalTypes DEF SignalInv, QueueIsWritten
<1> QED  BY <1>1, <1>2, <1>3, <1>4, <1>5, SignalGoes

\* The entries from the one that is written on are lost, and no other is.
LEMMA SignalStoreStep ==
  ASSUME SignalInv, Signal!Store PROVE SignalInv'
<1> DEFINE n == Signal!Last(stack).len
           s == Signal!Sig
<1>1. /\ stack # << >> /\ Signal!Last(stack).at = "store"
      /\ queue' = [queue EXCEPT ![n] = s] /\ queueLen' = n + 1
      /\ lost' = lost \cup {queue[i] : i \in n..(queueLen - 1)}
      /\ Signal!Goes("count", 0)
      /\ UNCHANGED <<count, registered, caught, registering, pending>>
  BY DEF Signal!Store, Signal!At, Signal!main
<1>2. /\ n \in 0..(MAX_SIGNAL - 1) /\ s \in Signals /\ n <= queueLen
      /\ \A i \in 1..(Len(stack) - 1) : stack[i].at = "store" => stack[i].len <= n
  <2>1. stack[Len(stack)] \in Activation /\ Len(stack) \in DOMAIN stack /\ n = stack[Len(stack)].len
        /\ stack[Len(stack)].at = "store" /\ s \in Signals
    BY <1>1, SignalTop
  <2>2. n \in 0..MAX_SIGNAL /\ n < MAX_SIGNAL
    BY <2>1, SignalTypes DEF Activation, SignalInv, ActivationsAreSound
  <2> QED  BY <2>1, <2>2, SignalTypes DEF SignalInv, QueueIsWritten
<1> HIDE DEF n, s
<1>3. queueLen \in 0..MAX_SIGNAL /\ queue \in [Signal!Slots -> Signals \cup {NoSignal}]
      /\ n \in Signal!Slots /\ MAX_SIGNAL \in Nat
  BY <1>2, SignalAssumption DEF SignalAssumption, SignalInv, Signal!TypeOK, Signal!Slots
<1>4. s \in Signal!Queued'
  BY <1>1, <1>2, <1>3 DEF Signal!Queued
<1>5. ASSUME NEW q \in Signals, q \in Signal!Queued PROVE q \in Signal!Queued' \cup lost'
  <2>1. PICK i \in 0..(queueLen - 1) : queue[i] = q
    BY <1>5 DEF Signal!Queued
  <2>2. CASE i < n
    <3>1. i \in 0..(queueLen' - 1) /\ queue'[i] = q
      BY <1>1, <1>2, <1>3, <2>1, <2>2 DEF Signal!Slots
    <3> QED  BY <3>1 DEF Signal!Queued
  <2>3. CASE i >= n
    <3>1. i \in n..(queueLen - 1)
      BY <1>2, <1>3, <2>3
    <3> QED  BY <1>1, <2>1, <3>1
  <2> QED  BY <1>2, <1>3, <2>2, <2>3
<1>6. lost \subseteq lost'
  BY <1>1
<1>7. stack' \in Seq(Activation) => Signal!TypeOK'
  <2>1. queue' \in [Signal!Slots -> Signals \cup {NoSignal}] /\ queueLen' \in 0..MAX_SIGNAL
    BY <1>1, <1>2, <1>3
  <2>2. lost' \subseteq Signals
    <3>1. \A i \in n..(queueLen - 1) : queue[i] \in Signals
      BY <1>2, <1>3 DEF SignalInv, QueueIsWritten
    <3> QED  BY <1>1, <3>1, SignalTypes
  <2>3. /\ count \in [Signals -> 0..MaxDeliveries] /\ registered \subseteq Signals
        /\ caught \subseteq Signals /\ pending \subseteq Signals
        /\ registering \in Seq([sig : Signals, handled : BOOLEAN, next : {"handler", "signal"}])
        /\ Len(registering) <= 1
    BY DEF SignalInv, Signal!TypeOK
  <2> QED  BY <1>1, <2>1, <2>2, <2>3 DEF Signal!TypeOK, Activation
<1>8. 0 \in 0..MAX_SIGNAL
  BY <1>3
<1>9. /\ \A i \in 1..(Len(stack) - 1) : stack[i].at = "store" => stack[i].len <= queueLen'
      /\ \A i \in 0..(queueLen' - 1) : queue'[i] \in Signals
  <2>1. \A i \in 1..(Len(stack) - 1) : stack[i].at = "store" => stack[i].len <= queueLen'
    <3>1. \A i \in 1..(Len(stack) - 1) : stack[i].len \in Nat
      <4>1. \A a \in Activation : a.len \in 0..MAX_SIGNAL
        BY DEF Activation
      <4> QED  BY <4>1, SignalTypes
    <3> QED  BY <1>1, <1>2, <3>1
  <2>2. \A i \in 0..(queueLen' - 1) : queue'[i] \in Signals
    <3>1. \A i \in 0..(n - 1) : queue[i] \in Signals
      BY <1>2, <1>3 DEF SignalInv, QueueIsWritten
    <3> QED  BY <1>1, <1>2, <1>3, <3>1 DEF Signal!Slots
  <2> QED  BY <2>1, <2>2
<1>10. UNCHANGED count
  BY <1>1
<1> QED  BY <1>1, <1>4, <1>5, <1>6, <1>7, <1>8, <1>9, <1>10, SignalGoes DEF s

\* The activation on top returns.
LEMMA SignalReturns ==
  ASSUME SignalInv, stack # << >>, stack' = Signal!Front(stack),
         UNCHANGED <<queue, queueLen, lost>>,
         \/ UNCHANGED count /\ stack[Len(stack)].at = "test"
         \/ /\ count' = [count EXCEPT ![Signal!Sig] = @ + 1]
            /\ stack[Len(stack)].at = "count",
         registered' \subseteq Signals, caught' \subseteq Signals,
         UNCHANGED <<registering, pending>>
  PROVE  SignalInv'
<1>1. stack \in Seq(Activation)
  BY DEF SignalInv, Signal!TypeOK, Activation
<1>2. /\ Len(stack) \in Nat /\ DOMAIN stack = 1..Len(stack) /\ Len(stack) >= 1
      /\ stack' \in Seq(Activation) /\ DOMAIN stack' = 1..(Len(stack) - 1)
      /\ \A i \in 1..(Len(stack) - 1) : stack'[i] = stack[i] /\ stack[i].sig # Signal!Sig
      /\ stack[Len(stack)].sig = Signal!Sig /\ Signal!Sig \in Signals
  BY <1>1, Activations, SignalTop
<1>3. /\ count' \in [Signals -> 0..MaxDeliveries]
      /\ \A s \in Signals \ {Signal!Sig} : count'[s] = count[s]
  <2>1. count \in [Signals -> 0..MaxDeliveries] /\ MaxDeliveries \in Nat
    BY SignalTypes
  <2>2. count[Signal!Sig] + 1 \in 0..MaxDeliveries
    BY <2>1, SignalTop
  <2> HIDE DEF Signal!Sig
  <2> QED  BY <1>2, <2>1, <2>2
<1>4. Signal!TypeOK'
  BY <1>2, <1>3 DEF SignalInv, Signal!TypeOK, Activation
<1>5. Signal!Queued' = Signal!Queued /\ lost' = lost
  BY DEF Signal!Queued
<1>6. \A i \in DOMAIN stack' : i \in DOMAIN stack /\ stack'[i] = stack[i] /\ stack[i].sig \in Signals \ {Signal!Sig}
  <2>1. \A i \in DOMAIN stack : stack[i].sig \in Signals
    BY SignalTypes
  <2> QED  BY <1>2, <2>1
<1>7. ActivationsAreSound'
  BY <1>3, <1>5, <1>6 DEF SignalInv, ActivationsAreSound
<1>8. Signal!SignalIsHeld'
  <2> SUFFICES ASSUME NEW s \in Signals, count'[s] > 0, s \notin lost, s \notin Signal!Queued
               PROVE  \E i \in DOMAIN stack' : stack'[i].sig = s /\ stack'[i].at # "test"
    BY <1>5 DEF Signal!SignalIsHeld
  <2>1. stack[Len(stack)].at # "count" \/ s # Signal!Sig
    BY <1>2 DEF SignalInv, ActivationsAreSound
  <2>2. count[s] > 0
    BY <1>3, <2>1
  <2>3. PICK i \in DOMAIN stack : stack[i].sig = s /\ stack[i].at # "test"
    BY <2>2 DEF SignalInv, Signal!SignalIsHeld
  <2>4. i # Len(stack)
    BY <1>2, <2>1, <2>3
  <2> QED  BY <1>2, <2>3, <2>4
<1>9. QueueIsWritten'
  BY <1>6 DEF SignalInv, QueueIsWritten
<1> QED  BY <1>4, <1>7, <1>8, <1>9 DEF SignalInv

\* Every step of the main thread and of the handlers.
LEMMA SignalStep == SignalInv /\ [Signal!Next]_(Signal!vars) => SignalInv'
<1> SUFFICES ASSUME SignalInv, [Signal!Next]_(Signal!vars) PROVE SignalInv'
  OBVIOUS
<1>1. ASSUME NEW s \in Signals, Signal!Raise(s) PROVE SignalInv'
  BY <1>1 DEF Signal!Raise, Signal!main, SignalInv, Signal!TypeOK, ActivationsAreSound, QueueIsWritten,
         Signal!SignalIsHeld, Signal!Queued
<1>2. CASE Signal!TestUnregistered
  <2>1. stack # << >> /\ stack[Len(stack)].at = "test"
    BY <1>2, SignalTop DEF Signal!TestUnregistered, Signal!At
  <2> QED  BY <1>2, <2>1, SignalReturns DEF Signal!TestUnregistered, SignalInv, Signal!TypeOK
<1>3. CASE Signal!Count
  <2>1. stack # << >> /\ stack[Len(stack)].at = "count" /\ Signal!Sig \in Signals
    BY <1>3, SignalTop DEF Signal!Count, Signal!At
  <2>2. caught' \subseteq Signals /\ registered' \subseteq Signals
    BY <1>3, <2>1 DEF Signal!Count, SignalInv, Signal!TypeOK
  <2> QED  BY <1>3, <2>1, <2>2, SignalReturns DEF Signal!Count
<1>4. CASE UNCHANGED Signal!vars
  BY <1>4 DEF Signal!vars, Signal!main, SignalInv, Signal!TypeOK, ActivationsAreSound, QueueIsWritten,
         Signal!SignalIsHeld, Signal!Queued
<1> QED
  BY <1>1, <1>2, <1>3, <1>4, SignalDeliverStep, SignalTestStep, SignalLoadStep, SignalStoreStep,
     SignalRegisterStep, SignalProcessStep DEF Signal!Next, Signal!signal_handler

\* spe_signal.c:36-119.  The invariant above holds, whoever interrupts whom.
THEOREM SignalInvariance == Signal!Spec => []SignalInv
BY SignalStart, SignalStep, PTL DEF Signal!Spec

\* spe_signal.c:43-48, 83-91.  With any number of signals nested in any order,
\* a signal that counts as delivered has its entry, or somebody will make it.
THEOREM SignalIsAlwaysHeld == Signal!Spec => []SignalIsHeld
<1>1. SignalInv => SignalIsHeld
  BY DEF SignalInv, SignalIsHeld
<1> QED  BY <1>1, SignalInvariance, PTL

-----------------------------------------------------------------------------
(* HTTP requests *)

\* A request without a connection has nothing to wait for.
HttpQuiet == \A r \in Requests : ~ conn[r].open => conn[r] = Http!NoConn

HttpInv == Http!TypeOK /\ Http!RequestIsOwned /\ HttpQuiet

\* The calls of a connection keep its type and leave the other direction alone.
LEMMA ConnCalls ==
  ASSUME NEW k \in Http!Conn, NEW now \in BOOLEAN, NEW own \in BOOLEAN
  PROVE  /\ Http!SpeConnRead(k, now, own) \in Http!Conn
         /\ Http!SpeConnRead(k, now, own).open = k.open
         /\ Http!SpeConnFlush(k, now, own) \in Http!Conn
         /\ Http!SpeConnFlush(k, now, own).open = k.open
BY DEF Http!Conn, Http!SpeConnRead, Http!SpeConnFlush, Http!Requested, Http!Queued

\* A new connection whose first read waits.
LEMMA NewConn ==
  LET k == Http!SpeConnRead(Http!SpeConnCreate, FALSE, FALSE)
  IN  k \in Http!Conn /\ k.open = TRUE /\ k.read = "wait" /\ Http!NoConn \in Http!Conn
      /\ Http!NoConn.open = FALSE
BY DEF Http!Conn, Http!SpeConnRead, Http!SpeConnCreate, Http!Requested, Http!Queued, Http!NoConn

\* Who waits is allocated.
LEMMA HttpWaits ==
  ASSUME HttpInv, NEW r \in Requests, conn[r].read # "none" \/ conn[r].write # "none"
  PROVE  r \in live /\ conn[r] \in Http!Conn /\ conn[r].open = TRUE
<1>1. conn[r] \in Http!Conn
  BY DEF HttpInv, Http!TypeOK
<1>2. conn[r] # Http!NoConn
  BY DEF Http!NoConn
<1>3. conn[r].open
  BY <1>2 DEF HttpInv, HttpQuiet
<1> QED  BY <1>1, <1>3 DEF Http!Conn, HttpInv, Http!RequestIsOwned

\* No request is in the program.
LEMMA NowhereType ==
  Http!Nowhere \in [request : Requests \cup {NoRequest}, own : {"none", "read", "write"}]
BY DEF Http!Nowhere

\* No request is there at first.
LEMMA HttpStart == Http!Init => HttpInv
<1> SUFFICES ASSUME Http!Init PROVE HttpInv
  OBVIOUS
<1>1. \A r \in Requests : conn[r] = Http!NoConn
  BY DEF Http!Init
<1>2. conn \in [Requests -> Http!Conn]
  BY NewConn DEF Http!Init
<1>3. Http!TypeOK
  <2>1. inProgram \in [request : Requests \cup {NoRequest}, own : {"none", "read", "write"}]
    BY NowhereType DEF Http!Init
  <2>2. status \in [Requests -> {"header", "close"}] /\ callback \in [Requests -> {"driver", "program"}]
    BY DEF Http!Init
  <2>3. httpHandlerList \in 0..MaxHandlers
    BY HttpAssumption DEF HttpAssumption, Http!Init
  <2> QED  BY <1>2, <2>1, <2>2, <2>3 DEF Http!Init, Http!TypeOK
<1> QED  BY <1>1, <1>3, NewConn DEF HttpInv, HttpQuiet, Http!RequestIsOwned, Http!Init

\* A step that changes the record of one request only.
LEMMA HttpOne ==
  ASSUME HttpInv, Http!TypeOK', NEW r \in Requests,
         \A q \in Requests \ {r} :
           /\ conn'[q] = conn[q] /\ (q \in live' <=> q \in live)
           /\ callback'[q] = callback[q] /\ (q \in refused' <=> q \in refused),
         conn'[r].open <=> r \in live',
         ~ conn'[r].open => conn'[r] = Http!NoConn,
         r \in live' /\ callback'[r] = "driver" =>
           conn'[r].read # "none" \/ conn'[r].write # "none" \/ r \in refused'
  PROVE  HttpInv'
<1> SUFFICES ASSUME NEW q \in Requests
             PROVE  /\ conn'[q].open <=> q \in live'
                    /\ q \in live' /\ callback'[q] = "driver" =>
                         conn'[q].read # "none" \/ conn'[q].write # "none" \/ q \in refused'
                    /\ ~ conn'[q].open => conn'[q] = Http!NoConn
  BY DEF HttpInv, HttpQuiet, Http!RequestIsOwned
<1>1. CASE q = r
  BY <1>1
<1>2. CASE q # r
  BY <1>2 DEF HttpInv, HttpQuiet, Http!RequestIsOwned
<1> QED  BY <1>1, <1>2

\* Freed with its connection.
LEMMA HttpDestroyStep ==
  ASSUME HttpInv, NEW r \in Requests, Http!Destroy(r),
         UNCHANGED <<httpHandlerList, status, callback, inProgram>>
  PROVE  HttpInv'
<1>1. conn'[r] = Http!NoConn /\ \A q \in Requests \ {r} : conn'[q] = conn[q]
  BY DEF HttpInv, Http!TypeOK, Http!Destroy
<1>2. Http!TypeOK'
  BY NewConn DEF HttpInv, Http!TypeOK, Http!Destroy
<1> QED  BY <1>1, <1>2, NewConn, HttpOne DEF Http!Destroy

\* A callback of the connection: the driver frees the request or gives it to
\* the program, the program gets it back.
LEMMA HttpCallbackStep ==
  ASSUME HttpInv, NEW r \in Requests, r \in live, NEW own \in {"none", "read", "write"},
         NEW k \in Http!Conn, k.open = TRUE, Http!Callback(r, own, k)
  PROVE  HttpInv'
<1>1. CASE Http!Destroy(r) /\ UNCHANGED <<httpHandlerList, status, callback, inProgram>>
  BY <1>1, HttpDestroyStep
<1>2. CASE /\ conn' = [conn EXCEPT ![r] = k] /\ callback'[r] = "program"
           /\ callback' \in {callback, [callback EXCEPT ![r] = "program"]}
           /\ inProgram' = [request |-> r, own |-> own]
           /\ UNCHANGED <<httpHandlerList, live, status, refused>>
  <2>1. conn'[r] = k /\ \A q \in Requests \ {r} : conn'[q] = conn[q] /\ callback'[q] = callback[q]
    BY <1>2 DEF HttpInv, Http!TypeOK
  <2>2. Http!TypeOK'
    BY <1>2 DEF HttpInv, Http!TypeOK
  <2> QED  BY <1>2, <2>1, <2>2, HttpOne
<1>3. callback[r] \in {"driver", "program"}
  BY DEF HttpInv, Http!TypeOK
<1> QED
  BY <1>1, <1>2, <1>3 DEF HttpInv, Http!TypeOK, Http!Callback, Http!driver_machine, Http!Dispatch

\* Every call and callback of a request.
LEMMA HttpStep == HttpInv /\ [Http!Next]_(Http!vars) => HttpInv'
<1> SUFFICES ASSUME HttpInv, [Http!Next]_(Http!vars) PROVE HttpInv'
  OBVIOUS
<1> USE DEF HttpInv
<1>1. ASSUME Http!SpeHttpRegisterHandler \/ Http!SpeHttpUnregisterHandler \/ Http!Return
             \/ UNCHANGED Http!vars
      PROVE  HttpInv'
  <2>1. UNCHANGED <<live, conn, status, callback, refused>>
    BY <1>1 DEF Http!SpeHttpRegisterHandler, Http!SpeHttpUnregisterHandler, Http!Return, Http!vars
  <2>2. httpHandlerList' \in 0..MaxHandlers
    BY <1>1, HttpAssumption
       DEF HttpAssumption, Http!TypeOK, Http!SpeHttpRegisterHandler, Http!SpeHttpUnregisterHandler,
           Http!Return, Http!vars
  <2>3. inProgram' \in {inProgram, Http!Nowhere}
    BY <1>1 DEF Http!SpeHttpRegisterHandler, Http!SpeHttpUnregisterHandler, Http!Return, Http!vars
  <2>4. Http!TypeOK'
    BY <2>1, <2>2, <2>3, NowhereType DEF Http!TypeOK
  <2> QED  BY <2>1, <2>4 DEF Http!RequestIsOwned, HttpQuiet
<1>2. ASSUME NEW r \in Requests, Http!httpHandler(r) PROVE HttpInv'
  <2> DEFINE k == Http!SpeConnRead(Http!SpeConnCreate, FALSE, FALSE)
  <2>1. conn' = [conn EXCEPT ![r] = k] /\ k \in Http!Conn /\ k.open = TRUE /\ k.read = "wait"
    <3>1. conn' = [conn EXCEPT ![r] = k]
      BY <1>2 DEF Http!httpHandler
    <3>2. k \in Http!Conn /\ k.open = TRUE /\ k.read = "wait"
      BY NewConn
    <3> QED  BY <3>1, <3>2
  <2> HIDE DEF k
  <2>2. conn'[r] = k /\ \A q \in Requests \ {r} : conn'[q] = conn[q] /\ callback'[q] = callback[q]
    BY <1>2, <2>1 DEF Http!TypeOK, Http!httpHandler
  <2>3. conn' \in [Requests -> Http!Conn]
    BY <2>1 DEF Http!TypeOK
  <2>4. Http!TypeOK'
    BY <1>2, <2>3 DEF Http!TypeOK, Http!httpHandler
  <2> QED  BY <1>2, <2>1, <2>2, <2>4, HttpOne DEF Http!httpHandler
<1>3. ASSUME NEW r \in Requests, Http!ReadEnds(r) PROVE HttpInv'
  <2>1. r \in live /\ conn[r] \in Http!Conn /\ conn[r].open = TRUE
    BY <1>3, HttpWaits DEF Http!ReadEnds
  <2>2. PICK e \in BOOLEAN, own \in {"none", "read"} :
          Http!Callback(r, own, [conn[r] EXCEPT !.read = "none", !.ended = e])
    BY <1>3, <2>1 DEF Http!ReadEnds, Http!Conn
  <2>3. /\ [conn[r] EXCEPT !.read = "none", !.ended = e] \in Http!Conn
        /\ [conn[r] EXCEPT !.read = "none", !.ended = e].open = TRUE
    BY <2>1 DEF Http!Conn
  <2> QED  BY <2>1, <2>2, <2>3, HttpCallbackStep
<1>4. ASSUME NEW r \in Requests, Http!WriteEnds(r) PROVE HttpInv'
  <2>1. r \in live /\ conn[r] \in Http!Conn /\ conn[r].open = TRUE
    BY <1>4, HttpWaits DEF Http!WriteEnds
  <2>2. PICK e \in BOOLEAN, own \in {"none", "write"} :
          Http!Callback(r, own, [conn[r] EXCEPT !.write = "none", !.ended = e])
    BY <1>4, <2>1 DEF Http!WriteEnds, Http!Conn
  <2>3. /\ [conn[r] EXCEPT !.write = "none", !.ended = e] \in Http!Conn
        /\ [conn[r] EXCEPT !.write = "none", !.ended = e].open = TRUE
    BY <2>1 DEF Http!Conn
  <2> QED  BY <2>1, <2>2, <2>3, HttpCallbackStep
<1>5. ASSUME NEW r \in Requests, Http!SpeHttpRequestDestroy(r) PROVE HttpInv'
  BY <1>5, HttpDestroyStep DEF Http!SpeHttpRequestDestroy
<1>6. ASSUME NEW r \in Requests, NEW now \in BOOLEAN, Http!Reads(r, now) \/ Http!Flushes(r, now)
      PROVE  HttpInv'
  <2>1. PICK k \in Http!Conn : k.open = conn[r].open /\ conn' = [conn EXCEPT ![r] = k]
    <3>1. conn[r] \in Http!Conn /\ (inProgram.own = "read") \in BOOLEAN
          /\ (inProgram.own = "write") \in BOOLEAN
      BY DEF Http!TypeOK
    <3>2. CASE Http!Reads(r, now)
      BY <3>1, <3>2, ConnCalls DEF Http!Reads
    <3>3. CASE Http!Flushes(r, now)
      BY <3>1, <3>3, ConnCalls DEF Http!Flushes
    <3> QED  BY <1>6, <3>2, <3>3
  <2>2. r \in live /\ callback[r] = "program"
        /\ UNCHANGED <<httpHandlerList, live, status, callback, inProgram, refused>>
    BY <1>6 DEF Http!Reads, Http!Flushes
  <2>3. conn'[r] = k /\ \A q \in Requests \ {r} : conn'[q] = conn[q]
    BY <2>1 DEF Http!TypeOK
  <2>4. Http!TypeOK'
    BY <2>1, <2>2 DEF Http!TypeOK
  <2> QED  BY <2>1, <2>2, <2>3, <2>4, HttpOne DEF Http!RequestIsOwned
<1>7. ASSUME NEW r \in Requests, NEW now \in BOOLEAN, Http!SpeHttpRequestFinish(r, now)
      PROVE  HttpInv'
  <2> DEFINE k == Http!SpeConnFlush(conn[r], now, inProgram.own = "write")
  <2>1. k \in Http!Conn /\ k.open = conn[r].open
    BY ConnCalls DEF Http!TypeOK
  <2>2. /\ r \in live /\ conn' = [conn EXCEPT ![r] = k]
        /\ refused' = IF k.write = "none" THEN refused \cup {r} ELSE refused
        /\ callback' = [callback EXCEPT ![r] = "driver"] /\ status' = [status EXCEPT ![r] = "close"]
        /\ UNCHANGED <<httpHandlerList, live, inProgram>>
    BY <1>7 DEF Http!SpeHttpRequestFinish
  <2> HIDE DEF k
  <2>3. conn'[r] = k /\ \A q \in Requests \ {r} : conn'[q] = conn[q] /\ callback'[q] = callback[q]
    BY <2>2 DEF Http!TypeOK
  <2>4. conn' \in [Requests -> Http!Conn] /\ refused' \subseteq Requests
    BY <2>1, <2>2 DEF Http!TypeOK
  <2>5. Http!TypeOK'
    BY <2>2, <2>4 DEF Http!TypeOK
  <2> QED  BY <2>1, <2>2, <2>3, <2>5, HttpOne DEF Http!RequestIsOwned
<1> QED  BY <1>1, <1>2, <1>3, <1>4, <1>5, <1>6, <1>7 DEF Http!Next

\* spe_http_server.c:105-193.  A request lives as long as its connection, in any
\* order of finishes, flushes, unregistered handlers and ends.
THEOREM HttpInvariance == Http!Spec => []HttpInv
BY HttpStart, HttpStep, PTL DEF Http!Spec

-----------------------------------------------------------------------------
(* Monitor connections *)

MonitorQuiet == \A k \in Monitors : ~ monitorConn[k].open => monitorConn[k] = Monitor!NoConn

MonitorInv == Monitor!TypeOK /\ Monitor!MonitorIsOwned /\ MonitorQuiet

\* What the status says of the requests of a connection in use.
Awaits(k, state) ==
  /\ k.read  # "none" <=> state = "waitcmd"
  /\ k.write # "none" <=> state = "result"

\* The connection of a new monitor has its read outstanding.
LEMMA MonitorConns ==
  /\ Monitor!NoConn \in Monitor!Conn /\ Monitor!NoConn.open = FALSE
  /\ Monitor!NoConn.read = "none" /\ Monitor!NoConn.write = "none"
  /\ LET k == Monitor!SpeConnRead(Monitor!SpeConnCreate, FALSE, FALSE)
     IN  k \in Monitor!Conn /\ k.open = TRUE /\ Awaits(k, "waitcmd")
BY DEF Monitor!Conn, Monitor!NoConn, Monitor!SpeConnRead, Monitor!SpeConnCreate,
       Monitor!Requested, Monitor!Queued, Awaits

\* No monitor is connected at first.
LEMMA MonitorStart == Monitor!Init => MonitorInv
<1> SUFFICES ASSUME Monitor!Init PROVE MonitorInv
  OBVIOUS
<1>1. \A k \in Monitors : monitorConn[k] = Monitor!NoConn
  BY DEF Monitor!Init
<1>2. monitorConn \in [Monitors -> Monitor!Conn]
  BY MonitorConns DEF Monitor!Init
<1>3. Monitor!TypeOK
  BY <1>2 DEF Monitor!Init, Monitor!TypeOK
<1> QED  BY <1>1, <1>3, MonitorConns DEF MonitorInv, MonitorQuiet, Monitor!MonitorIsOwned, Monitor!Init

\* A step that gives one monitor connection a new connection record and status.
LEMMA MonitorOne ==
  ASSUME MonitorInv, NEW r \in Monitors, NEW k \in Monitor!Conn,
         NEW state \in {"waitcmd", "result"},
         monitorConn' = [monitorConn EXCEPT ![r] = k],
         monitorStatus' = [monitorStatus EXCEPT ![r] = state],
         \/ monitors' = monitors \cup {r} /\ k.open = TRUE /\ Awaits(k, state)
         \/ monitors' = monitors \ {r} /\ k = Monitor!NoConn,
         UNCHANGED <<gMonitor, entered>>
  PROVE  MonitorInv'
<1>1. /\ monitorConn'[r] = k /\ monitorStatus'[r] = state
      /\ \A q \in Monitors \ {r} :
           monitorConn'[q] = monitorConn[q] /\ monitorStatus'[q] = monitorStatus[q]
  BY DEF MonitorInv, Monitor!TypeOK
<1>2. Monitor!TypeOK'
  BY DEF MonitorInv, Monitor!TypeOK
<1>3. ASSUME NEW q \in Monitors
      PROVE  /\ monitorConn'[q].open <=> q \in monitors'
             /\ q \in monitors' => Awaits(monitorConn'[q], monitorStatus'[q])
             /\ ~ monitorConn'[q].open => monitorConn'[q] = Monitor!NoConn
  <2>1. CASE q = r
    BY <1>1, <2>1, MonitorConns
  <2>2. CASE q # r
    BY <1>1, <2>2 DEF MonitorInv, MonitorQuiet, Monitor!MonitorIsOwned, Awaits
  <2> QED  BY <2>1, <2>2
<1> QED  BY <1>2, <1>3 DEF MonitorInv, MonitorQuiet, Monitor!MonitorIsOwned, Awaits

\* Freed with its connection.
LEMMA MonitorDestroyStep ==
  ASSUME MonitorInv, NEW r \in Monitors, Monitor!Destroy(r), UNCHANGED <<gMonitor, entered>>
  PROVE  MonitorInv'
<1>1. monitorStatus' = [monitorStatus EXCEPT ![r] = monitorStatus[r]]
      /\ monitorStatus[r] \in {"waitcmd", "result"}
  BY DEF MonitorInv, Monitor!TypeOK, Monitor!Destroy
<1> QED  BY <1>1, MonitorConns, MonitorOne DEF Monitor!Destroy

\* The driver, called back for the only request of the connection.
LEMMA MonitorDriverStep ==
  ASSUME MonitorInv, NEW r \in Monitors, r \in monitors, NEW k \in Monitor!Conn, k.open = TRUE,
         k.read = "none", k.write = "none", Monitor!driver_machine(r, k)
  PROVE  MonitorInv'
<1>1. CASE Monitor!Destroy(r)
  BY <1>1, MonitorDestroyStep DEF Monitor!driver_machine
<1>2. monitors = monitors \cup {r}
  OBVIOUS
<1>3. CASE ~ k.ended /\ Monitor!WaitCmd(r, k)
  <2> DEFINE s == Monitor!SpeConnFlush(k, FALSE, FALSE)
  <2>1. CASE monitorConn' = [monitorConn EXCEPT ![r] = s]
             /\ monitorStatus' = [monitorStatus EXCEPT ![r] = "result"] /\ UNCHANGED monitors
    <3>1. s \in Monitor!Conn /\ s.open = TRUE /\ Awaits(s, "result")
      BY <1>3 DEF Monitor!Conn, Monitor!SpeConnFlush, Monitor!Requested, Awaits
    <3> HIDE DEF s
    <3> QED  BY <1>2, <2>1, <3>1, MonitorOne DEF Monitor!driver_machine
  <2> QED  BY <1>1, <1>3, <2>1 DEF Monitor!WaitCmd
<1>4. CASE ~ k.ended /\ Monitor!Result(r, k)
  <2>1. PICK now \in BOOLEAN :
          monitorConn' = [monitorConn EXCEPT ![r] = Monitor!SpeConnRead(k, now, FALSE)]
    BY <1>4 DEF Monitor!Result
  <2> DEFINE s == Monitor!SpeConnRead(k, now, FALSE)
  <2>2. s \in Monitor!Conn /\ s.open = TRUE /\ Awaits(s, "waitcmd")
    BY <1>4 DEF Monitor!Conn, Monitor!SpeConnRead, Monitor!Requested, Monitor!Queued, Awaits
  <2>3. monitorConn' = [monitorConn EXCEPT ![r] = s]
    BY <2>1
  <2> HIDE DEF s
  <2> QED  BY <1>2, <1>4, <2>2, <2>3, MonitorOne DEF Monitor!driver_machine, Monitor!Result
<1> QED  BY <1>1, <1>3, <1>4 DEF Monitor!driver_machine

\* Every connection that comes in, and every callback of one.
LEMMA MonitorStep == MonitorInv /\ [Monitor!Next]_(Monitor!vars) => MonitorInv'
<1> SUFFICES ASSUME MonitorInv, [Monitor!Next]_(Monitor!vars) PROVE MonitorInv'
  OBVIOUS
<1>1. ASSUME Monitor!SpeMonitorInit \/ Monitor!monitorEnable \/ Monitor!SpeMonitorDeinit
             \/ UNCHANGED Monitor!vars
      PROVE  MonitorInv'
  <2>1. UNCHANGED <<monitors, monitorConn, monitorStatus>>
    BY <1>1 DEF Monitor!SpeMonitorInit, Monitor!monitorEnable, Monitor!SpeMonitorDeinit, Monitor!vars
  <2>2. Monitor!TypeOK'
    BY <1>1 DEF MonitorInv, Monitor!TypeOK, Monitor!SpeMonitorInit, Monitor!monitorEnable,
                Monitor!SpeMonitorDeinit, Monitor!vars
  <2> QED  BY <2>1, <2>2 DEF MonitorInv, MonitorQuiet, Monitor!MonitorIsOwned
<1>2. ASSUME NEW r \in Monitors, Monitor!monitorAccept(r) PROVE MonitorInv'
  <2> DEFINE k == Monitor!SpeConnRead(Monitor!SpeConnCreate, FALSE, FALSE)
  <2>1. k \in Monitor!Conn /\ k.open = TRUE /\ Awaits(k, "waitcmd")
    BY MonitorConns
  <2>2. monitorConn' = [monitorConn EXCEPT ![r] = k]
    BY <1>2 DEF Monitor!monitorAccept
  <2> HIDE DEF k
  <2> QED  BY <1>2, <2>1, <2>2, MonitorOne DEF Monitor!monitorAccept
<1>3. ASSUME NEW r \in Monitors, Monitor!ReadEnds(r) \/ Monitor!WriteEnds(r) PROVE MonitorInv'
  <2>1. monitorConn[r] \in Monitor!Conn
        /\ (monitorConn[r].read # "none" \/ monitorConn[r].write # "none")
    BY <1>3 DEF MonitorInv, Monitor!TypeOK, Monitor!ReadEnds, Monitor!WriteEnds
  <2>2. monitorConn[r].open /\ r \in monitors
    BY <2>1, MonitorConns DEF MonitorInv, MonitorQuiet, Monitor!MonitorIsOwned
  <2>3. monitorConn[r].read = "none" \/ monitorConn[r].write = "none"
    BY <2>2 DEF MonitorInv, Monitor!MonitorIsOwned
  <2>4. monitorConn[r].open = TRUE
    BY <2>1, <2>2 DEF Monitor!Conn
  <2>5. CASE Monitor!ReadEnds(r)
    <3>1. PICK e \in BOOLEAN :
            Monitor!driver_machine(r, [monitorConn[r] EXCEPT !.read = "none", !.ended = e])
      BY <2>1, <2>5 DEF Monitor!ReadEnds
    <3> DEFINE k == [monitorConn[r] EXCEPT !.read = "none", !.ended = e]
    <3>2. k \in Monitor!Conn /\ k.open = TRUE /\ k.read = "none" /\ k.write = "none"
      BY <2>1, <2>3, <2>4, <2>5 DEF Monitor!Conn, Monitor!ReadEnds
    <3> HIDE DEF k
    <3> QED  BY <2>2, <3>1, <3>2, MonitorDriverStep DEF k
  <2>6. CASE Monitor!WriteEnds(r)
    <3>1. PICK e \in BOOLEAN :
            Monitor!driver_machine(r, [monitorConn[r] EXCEPT !.write = "none", !.ended = e])
      BY <2>1, <2>6 DEF Monitor!WriteEnds
    <3> DEFINE k == [monitorConn[r] EXCEPT !.write = "none", !.ended = e]
    <3>2. k \in Monitor!Conn /\ k.open = TRUE /\ k.read = "none" /\ k.write = "none"
      BY <2>1, <2>3, <2>4, <2>6 DEF Monitor!Conn, Monitor!WriteEnds
    <3> HIDE DEF k
    <3> QED  BY <2>2, <3>1, <3>2, MonitorDriverStep DEF k
  <2> QED  BY <1>3, <2>5, <2>6
<1> QED  BY <1>1, <1>2, <1>3 DEF Monitor!Next

\* spe_monitor.c:38-144.  A monitor connection waits for the callback its status
\* names, and is freed by it.
THEOREM MonitorInvariance == Monitor!Spec => []MonitorInv
BY MonitorStart, MonitorStep, PTL DEF Monitor!Spec

-----------------------------------------------------------------------------
(* Coroutines *)

\* The routine that runs is at its place, whoever is inside a resume is
\* allocated, and so is the routine it has resumed, which does not wait.
RoutineChain ==
  /\ context[curr_routine] = "runs"
  /\ \A r \in allocated : ~ Routine!Suspended(r) => prev[r] \in allocated \cup {Main}
  /\ \A r \in allocated \cup {Main} :
       context[r] \in Routines => ~ Routine!Suspended(context[r])

RoutineInv == Routine!TypeOK /\ Routine!RoutinesNest /\ RoutineChain

\* The thread runs and there are no routines at first.
LEMMA RoutineStart == Routine!Init => RoutineInv
BY RoutineAssumption DEF RoutineAssumption, Routine!Init, RoutineInv, Routine!TypeOK,
   Routine!RoutinesNest, Routine!Suspended, RoutineChain

\* The routine that runs leaves its place, suspended or for ever.
LEMMA RoutineBackStep ==
  ASSUME RoutineInv, curr_routine # Main, UNCHANGED prev, NEW leaves, Routine!BackToPrev(leaves),
         \/ leaves = "yield" /\ UNCHANGED finished
         \/ leaves = "runs" /\ finished' = [finished EXCEPT ![curr_routine] = TRUE]
  PROVE  RoutineInv'
<1> DEFINE r == curr_routine
           p == prev[curr_routine]
<1>1. r \in allocated /\ r \in Routines /\ ~ Routine!Suspended(r) /\ context[r] = "runs"
  BY RoutineAssumption
     DEF RoutineAssumption, RoutineInv, RoutineChain, Routine!RoutinesNest, Routine!TypeOK, Routine!Suspended
<1>2. p \in allocated \cup {Main} /\ context[p] = r /\ p # r
  BY <1>1, RoutineAssumption DEF RoutineAssumption, RoutineInv, RoutineChain, Routine!RoutinesNest
<1>3. /\ curr_routine' = p
      /\ context' = [context EXCEPT ![r] = leaves, ![p] = "runs"]
      /\ allocated' = IF leaves = "yield" THEN allocated ELSE allocated \ {r}
  BY <1>1, <1>2 DEF Routine!BackToPrev, RoutineInv, Routine!TypeOK, Routine!RoutinesNest
<1>4. p \in Routines \cup {Main}
  BY <1>2 DEF RoutineInv, Routine!TypeOK
<1>5. /\ context'[r] = leaves /\ context'[p] = "runs"
      /\ \A q \in (Routines \cup {Main}) \ {r, p} : context'[q] = context[q]
  BY <1>1, <1>2, <1>3, <1>4 DEF RoutineInv, Routine!TypeOK
<1> HIDE DEF r, p
<1>6. Routine!TypeOK'
  BY <1>1, <1>3, <1>4 DEF RoutineInv, Routine!TypeOK, r
<1>7. \A q \in allocated' : q \in allocated /\ q \in Routines
  BY <1>3 DEF RoutineInv, Routine!TypeOK
<1>8. Routine!RoutinesNest'
  BY <1>1, <1>2, <1>3, <1>4, <1>5, <1>6, <1>7, RoutineAssumption
     DEF RoutineAssumption, RoutineInv, RoutineChain, Routine!RoutinesNest, Routine!Suspended, Routine!TypeOK, r
<1>9. RoutineChain'
  BY <1>1, <1>2, <1>3, <1>4, <1>5, <1>6, <1>7, RoutineAssumption
     DEF RoutineAssumption, RoutineInv, RoutineChain, Routine!RoutinesNest, Routine!Suspended, Routine!TypeOK
<1> QED  BY <1>6, <1>8, <1>9 DEF RoutineInv

\* Every create, resume, yield, return and destroy.
LEMMA RoutineStep == RoutineInv /\ [Routine!Next]_(Routine!vars) => RoutineInv'
<1> SUFFICES ASSUME RoutineInv, [Routine!Next]_(Routine!vars) PROVE RoutineInv'
  OBVIOUS
<1> USE RoutineAssumption DEF RoutineAssumption, RoutineInv, RoutineChain, Routine!TypeOK,
   Routine!RoutinesNest, Routine!Suspended
<1>1. ASSUME NEW r \in Routines, Routine!spe_routine_create(r) PROVE RoutineInv'
  BY <1>1 DEF Routine!spe_routine_create
<1>2. ASSUME NEW r \in Routines, Routine!spe_routine_destroy(r) PROVE RoutineInv'
  BY <1>2 DEF Routine!spe_routine_destroy
<1>3. ASSUME NEW r \in Routines, Routine!spe_routine_resume(r) PROVE RoutineInv'
  BY <1>3 DEF Routine!spe_routine_resume
<1>4. CASE Routine!spe_routine_yield
  BY <1>4, RoutineBackStep DEF Routine!spe_routine_yield
<1>5. CASE Routine!routine_main
  BY <1>5, RoutineBackStep DEF Routine!routine_main
<1>6. CASE UNCHANGED Routine!vars
  BY <1>6 DEF Routine!vars
<1> QED  BY <1>1, <1>2, <1>3, <1>4, <1>5, <1>6 DEF Routine!Next

\* spe_routine.c:9-84.  Whoever resumes whom, a routine inside a resume, and the one
\* it returns to, are allocated.
THEOREM RoutineInvariance == Routine!Spec => []RoutineInv
BY RoutineStart, RoutineStep, PTL DEF Routine!Spec

-----------------------------------------------------------------------------
\* spe_http_server.c:105-193, spe_monitor.c:38-144, spe_routine.c:9-84.  A
\* request, a monitor connection and a coroutine live as long as somebody will
\* come back to them, and are freed by that one, in any order of callbacks.
THEOREM RequestsAreAlwaysOwned ==
  Http!Spec /\ Monitor!Spec /\ Routine!Spec => []RequestsAreOwned
<1>1. HttpInv /\ MonitorInv /\ RoutineInv => RequestsAreOwned
  BY DEF HttpInv, MonitorInv, RoutineInv, RequestsAreOwned
<1> QED  BY <1>1, HttpInvariance, MonitorInvariance, RoutineInvariance, PTL

-----------------------------------------------------------------------------
(* Redis clients *)

\* A reply of RedisAssumption, as the client sees it.
IsReply(a) ==
  \/ Len(a) = 1 /\ a[1].kind \in {"status", "nil"}
  \/ Len(a) = 2 /\ a[1].kind = "bulk" /\ a[2].kind = "data"
  \/ /\ a[1].kind = "array" /\ Len(a) = 2 * a[1].blocks + 1
     /\ \A i \in 1..a[1].blocks : a[2 * i].kind = "bulk" /\ a[2 * i + 1].kind = "data"

\* How many blocks it has, and where.
BlocksOf(a) == IF a[1].kind = "array" THEN a[1].blocks ELSE 1
BlockAt(a, i) == IF a[1].kind = "array" THEN 2 * i + 1 ELSE 2

\* The place of the token the client asks for next.
NextAt(r) ==
  CASE r.status = "head" -> 1
    [] r.status = "size" -> 2 * Len(r.Buffer) + 2
    [] r.status = "data" -> BlockAt(r.reply, Len(r.Buffer) + 1)

\* The program has the first blocks, and blockLeft are left to give.
Blocks(r) ==
  /\ r.reply[1].kind \in {"bulk", "array"}
  /\ r.blockLeft > 0 /\ r.blockLeft + Len(r.Buffer) = BlocksOf(r.reply)
  /\ \A i \in 1..Len(r.Buffer) : r.Buffer[i] = r.reply[BlockAt(r.reply, i)]

Progress(r) ==
  /\ IsReply(r.reply) /\ ~ r.asked
  /\ r.status = "head" => r.Buffer = << >>
  /\ r.status = "size" => r.reply[1].kind = "array"
  /\ r.status \in {"size", "data"} => Blocks(r)
  /\ NextAt(r) \in 1..Len(r.reply) /\ r.arrived <= Len(r.stream)

\* The token the client asks for is unread, or was taken.
Rest(a, i) == SubSeq(a, i, Len(a))
Unread(r) == Progress(r) /\ r.stream = Rest(r.reply, NextAt(r))
TakenOut(r) ==
  Progress(r) /\ r.line = r.reply[NextAt(r)] /\ r.stream = Rest(r.reply, NextAt(r) + 1)

Silent(r) == ~ r.asked /\ r.stream = << >> /\ r.arrived = 0
Unanswered(r) == r.reply = << >> /\ r.Buffer = << >>

\* A client that waits for nothing: its last command has failed, or has its
\* whole reply.
Idle(r) ==
  /\ Silent(r) /\ r.conn.read = "none" /\ r.conn.write = "none"
  /\ r.status = IF r.conn.open THEN "conn" ELSE "init"
  /\ r.status = "init" => r.conn = Redis!NoConn
  /\ r.cmd > 0 /\ ~ r.Error =>
       r.reply # << >> /\ Redis!IsSelection(r.Buffer, r.reply, Redis!Payload(r.reply))

\* A client in the middle of a command, between two steps of the driver; those
\* with no request were refused one, and wait for ever.
Waits(r) ==
  /\ r.conn.open /\ r.place = "program" /\ r.cmd > 0
  /\ \/ /\ r.status = "conn" /\ Silent(r) /\ Unanswered(r)
        /\ r.conn.read \in {"none", "connect", "queued"} /\ r.conn.write = "none"
     \/ /\ r.status = "send" /\ Silent(r) /\ Unanswered(r)
        /\ r.conn.read = "none" /\ r.conn.write = "wait"
     \/ /\ r.status = "head" /\ r.asked /\ r.stream = << >> /\ r.arrived = 0 /\ Unanswered(r)
        /\ r.conn.read = "wait" /\ r.conn.write = "none"
     \/ /\ r.status \in {"head", "size", "data"} /\ Unread(r) /\ r.arrived = 0
        /\ r.conn.read = "wait" /\ r.conn.write = "none"
     \/ /\ r.status \in {"size", "data"} /\ TakenOut(r)
        /\ r.conn.read \in {"none", "queued"} /\ r.conn.write = "none"

Token == Redis!Token

ClientType ==
  [place     : {"none", "program", "pool"},
   conn      : Redis!Conn,
   status    : {"init", "conn", "send", "head", "size", "data"},
   blockLeft : Nat,
   Buffer    : Seq(Token),
   line      : Token,
   Error     : BOOLEAN,
   busy      : BOOLEAN,
   cmd       : 0..MaxCommands,
   asked     : BOOLEAN,
   reply     : Seq(Token),
   stream    : Seq(Token),
   arrived   : Nat]

ClientInv(r) == r \in ClientType /\ IF r.busy THEN Waits(r) ELSE Idle(r)

\* The driver is called for its next step.
Driven(r) ==
  /\ r \in ClientType /\ r.busy /\ r.place = "program" /\ r.cmd > 0
  /\ \/ r.status = "init" /\ r.conn = Redis!NoConn /\ Silent(r) /\ Unanswered(r)
     \/ r.status # "init" /\ r.conn.ended
     \/ /\ r.status # "init" /\ r.conn.open /\ ~ r.conn.ended
        /\ r.conn.read = "none" /\ r.conn.write = "none"
        /\ \/ r.status = "conn" /\ Silent(r) /\ Unanswered(r)
           \/ r.status = "send" /\ r.asked /\ r.stream = << >> /\ r.arrived = 0 /\ Unanswered(r)
           \/ r.status \in {"head", "size", "data"} /\ TakenOut(r)

-----------------------------------------------------------------------------
\* The end of a sequence.
LEMMA RestProperties ==
  ASSUME NEW S, NEW a \in Seq(S), NEW i \in 1..(Len(a) + 1)
  PROVE  /\ Rest(a, i) \in Seq(S) /\ Len(Rest(a, i)) = Len(a) - i + 1
         /\ i <= Len(a) => /\ Rest(a, i) # << >> /\ Head(Rest(a, i)) = a[i]
                           /\ Tail(Rest(a, i)) = Rest(a, i + 1)
         /\ i = Len(a) + 1 => Rest(a, i) = << >>
         /\ Rest(a, 1) = a
<1>1. Rest(a, i) \in Seq(S) /\ Len(Rest(a, i)) = Len(a) - i + 1
  BY SubSeqProperties, LenProperties, SMTT(30) DEF Rest
<1>2. i <= Len(a) => /\ Rest(a, i) # << >> /\ Head(Rest(a, i)) = a[i]
                     /\ Tail(Rest(a, i)) = Rest(a, i + 1)
  BY <1>1, HeadTailOfSubSeq, LenProperties DEF Rest
<1>3. i = Len(a) + 1 => Rest(a, i) = << >>
  BY <1>1, EmptySeq
<1>4. Rest(a, 1) = a
  BY SubSeqFull DEF Rest
<1> QED  BY <1>1, <1>2, <1>3, <1>4

\* The token that is asked for is there, and is what the place says.
LEMMA NextToken ==
  ASSUME NEW r \in ClientType, Progress(r)
  PROVE  /\ Len(r.reply) \in Nat /\ Len(r.Buffer) \in Nat /\ Len(r.stream) \in Nat
         /\ r.reply[1] \in Token /\ r.reply[1].blocks \in Nat
         /\ NextAt(r) \in 1..Len(r.reply) /\ NextAt(r) + 1 \in 1..(Len(r.reply) + 1)
         /\ r.reply[NextAt(r)] \in Token
         /\ r.status = "size" => r.reply[NextAt(r)].kind = "bulk"
         /\ r.status = "data" => r.reply[NextAt(r)].kind = "data"
<1>1. /\ r.reply \in Seq(Token) /\ r.Buffer \in Seq(Token) /\ r.stream \in Seq(Token)
      /\ r.blockLeft \in Nat
  BY DEF ClientType
<1>2. /\ Len(r.reply) \in Nat /\ Len(r.Buffer) \in Nat /\ Len(r.stream) \in Nat
      /\ NextAt(r) \in 1..Len(r.reply)
  BY <1>1, LenProperties DEF Progress
<1>3. r.reply[1] \in Token /\ r.reply[NextAt(r)] \in Token
  BY <1>1, <1>2, ElementOfSeq
<1>4. r.reply[1].blocks \in Nat
  BY <1>3 DEF Token, Redis!Token
<1>5. r.status = "size" => r.reply[NextAt(r)].kind = "bulk"
  <2>1. SUFFICES ASSUME r.status = "size"  PROVE r.reply[NextAt(r)].kind = "bulk"
    OBVIOUS
  <2>2. /\ r.reply[1].kind = "array" /\ Len(r.Buffer) + 1 \in 1..r.reply[1].blocks
        /\ NextAt(r) = 2 * (Len(r.Buffer) + 1)
    BY <1>1, <1>2, <1>4, <2>1 DEF Progress, Blocks, BlocksOf, NextAt
  <2> QED  BY <2>2 DEF Progress, IsReply
<1>6. r.status = "data" => r.reply[NextAt(r)].kind = "data"
  <2>1. SUFFICES ASSUME r.status = "data"  PROVE r.reply[NextAt(r)].kind = "data"
    OBVIOUS
  <2>2. CASE r.reply[1].kind = "array"
    <3>1. /\ Len(r.Buffer) + 1 \in 1..r.reply[1].blocks
          /\ NextAt(r) = 2 * (Len(r.Buffer) + 1) + 1
      BY <1>1, <1>2, <1>4, <2>1, <2>2 DEF Progress, Blocks, BlocksOf, NextAt, BlockAt
    <3> QED  BY <2>2, <3>1 DEF Progress, IsReply
  <2>3. CASE r.reply[1].kind = "bulk"
    <3>1. NextAt(r) = 2
      BY <2>1, <2>3 DEF NextAt, BlockAt
    <3> QED  BY <2>3, <3>1 DEF Progress, IsReply
  <2> QED  BY <2>1, <2>2, <2>3 DEF Progress, Blocks
<1> QED  BY <1>2, <1>3, <1>4, <1>5, <1>6

-----------------------------------------------------------------------------
(* The driver *)

\* A client that asks for its next token.
Asking(r) ==
  /\ r \in ClientType /\ r.busy /\ r.place = "program" /\ r.cmd > 0
  /\ r.conn.open /\ ~ r.conn.ended /\ r.conn.read = "none" /\ r.conn.write = "none"
  /\ r.status \in {"size", "data"} /\ Unread(r)

\* The token is asked for, or taken at once if it has arrived.
LEMMA RedisReads ==
  ASSUME NEW r, Asking(r), NEW own \in BOOLEAN
  PROVE  ClientInv(Redis!Reads(r, own)) /\ Redis!Reads(r, own).place = "program"
<1> DEFINE s == Redis!Reads(r, own)
<1>1. r \in ClientType /\ r.conn \in Redis!Conn
  BY DEF Asking, ClientType
<1>2. CASE ~ (r.arrived > 0)
  <2>1. s = [r EXCEPT !.conn = [r.conn EXCEPT !.read = "wait"]]
    BY <1>1, <1>2 DEF Redis!Reads, Redis!SpeConnRead, Redis!Requested, Asking, ClientType
  <2> HIDE DEF s
  <2>2. /\ s \in ClientType /\ s.busy /\ s.place = "program" /\ s.cmd > 0 /\ s.arrived = 0
        /\ s.status = r.status /\ s.blockLeft = r.blockLeft /\ s.Buffer = r.Buffer
        /\ s.asked = r.asked /\ s.reply = r.reply /\ s.stream = r.stream /\ s.arrived = r.arrived
        /\ s.conn.open /\ s.conn.read = "wait" /\ s.conn.write = "none"
    <3>1. r.arrived = 0
      BY <1>1, <1>2 DEF ClientType
    <3>2. [r.conn EXCEPT !.read = "wait"] \in Redis!Conn
      BY <1>1 DEF Redis!Conn
    <3> QED  BY <1>1, <2>1, <3>1, <3>2 DEF ClientType, Redis!Conn, Asking
  <2>3. Unread(s)
    BY <2>2 DEF Unread, Progress, Blocks, NextAt, Asking
  <2> QED  BY <2>2, <2>3 DEF ClientInv, Waits, Asking, s
<1>3. CASE r.arrived > 0
  <2>1. /\ r.stream = Rest(r.reply, NextAt(r)) /\ r.reply \in Seq(Token)
        /\ NextAt(r) \in 1..Len(r.reply) /\ NextAt(r) + 1 \in 1..(Len(r.reply) + 1)
        /\ r.reply[NextAt(r)] \in Token /\ r.arrived <= Len(r.stream)
        /\ NextAt(r) \in 1..(Len(r.reply) + 1) /\ Len(r.reply) \in Nat
    BY <1>1, NextToken DEF Asking, Unread, Progress, ClientType
  <2>2. /\ Head(r.stream) = r.reply[NextAt(r)] /\ Tail(r.stream) = Rest(r.reply, NextAt(r) + 1)
        /\ Tail(r.stream) \in Seq(Token) /\ Len(Tail(r.stream)) = Len(r.stream) - 1
        /\ Len(r.stream) \in Nat
    <3> DEFINE a == r.reply
               i == NextAt(r)
    <3>1. /\ a \in Seq(Token) /\ i \in 1..(Len(a) + 1) /\ i + 1 \in 1..(Len(a) + 1)
          /\ i \in 1..Len(a) /\ Len(a) \in Nat /\ r.stream = Rest(a, i)
      BY <2>1, Zenon
    <3> HIDE DEF a, i
    <3>2. /\ Rest(a, i) \in Seq(Token) /\ Len(Rest(a, i)) = Len(a) - i + 1
          /\ Head(Rest(a, i)) = a[i] /\ Tail(Rest(a, i)) = Rest(a, i + 1)
      BY <3>1, RestProperties
    <3>3. Rest(a, i + 1) \in Seq(Token) /\ Len(Rest(a, i + 1)) = Len(a) - (i + 1) + 1
      BY <3>1, RestProperties
    <3>4. /\ Head(r.stream) = a[i] /\ Tail(r.stream) = Rest(a, i + 1)
          /\ Tail(r.stream) \in Seq(Token)
      BY <3>1, <3>2, <3>3, Zenon
    <3>5. Len(Tail(r.stream)) = Len(r.stream) - 1 /\ Len(r.stream) \in Nat
      BY <3>1, <3>2, <3>3
    <3> QED  BY <3>4, <3>5, Zenon DEF a, i
  <2>3. s = [r EXCEPT !.line = Head(r.stream), !.stream = Tail(r.stream), !.arrived = r.arrived - 1,
                      !.conn = [r.conn EXCEPT !.read = IF own THEN "none" ELSE "queued"]]
    BY <1>1, <1>3 DEF Redis!Reads, Redis!Taken, Redis!SpeConnRead, Redis!Requested, Redis!Queued,
                      Asking, ClientType
  <2> HIDE DEF s
  <2>4. /\ s \in ClientType /\ s.busy /\ s.place = "program" /\ s.cmd > 0
        /\ s.status = r.status /\ s.blockLeft = r.blockLeft /\ s.Buffer = r.Buffer
        /\ s.asked = r.asked /\ s.reply = r.reply
        /\ s.line = r.reply[NextAt(r)] /\ s.stream = Rest(r.reply, NextAt(r) + 1)
        /\ s.arrived <= Len(s.stream)
        /\ s.conn.open /\ s.conn.read \in {"none", "queued"} /\ s.conn.write = "none"
    <3>1. r.arrived - 1 \in Nat /\ r.arrived - 1 <= Len(Tail(r.stream)) /\ Head(r.stream) \in Token
      BY <1>1, <1>3, <2>1, <2>2, SMTT(30) DEF ClientType
    <3> QED  BY <1>1, <2>2, <2>3, <3>1 DEF ClientType, Redis!Conn, Asking
  <2>5. TakenOut(s)
    BY <2>4, <2>1 DEF TakenOut, Unread, Progress, Blocks, NextAt, Asking
  <2> QED  BY <2>4, <2>5 DEF ClientInv, Waits, Asking, s
<1> QED  BY <1>2, <1>3

-----------------------------------------------------------------------------
(* The end of a reply *)

\* The program has all of the reply.
Answered(r) ==
  r.reply # << >> /\ Redis!IsSelection(r.Buffer, r.reply, Redis!Payload(r.reply))

\* A reply of one line.
LEMMA LineAnswers ==
  ASSUME NEW a \in Seq(Token), NEW s, Len(a) = 1, a[1].kind # "data", a[1].kind # "empty",
         s = IF a[1].kind = "status" THEN <<a[1]>> ELSE << >>
  PROVE  a # << >> /\ Redis!IsSelection(s, a, Redis!Payload(a))
<1>1. DOMAIN a = 1..1 /\ a # << >>
  <2>1. DOMAIN a = 1..Len(a)
    BY LenProperties
  <2>2. Len(<< >>) = 0
    BY EmptySeq
  <2> QED  BY <2>1, <2>2
<1>2. CASE a[1].kind = "status"
  <2>1. Redis!Payload(a) = {1}
    BY <1>1, <1>2 DEF Redis!Payload
  <2>2. DOMAIN s = {1} /\ s[1] = a[1]
    BY <1>2
  <2> DEFINE at == [i \in {1} |-> 1]
  <2>3. at \in [DOMAIN s -> Redis!Payload(a)]
    BY <2>1, <2>2
  <2> QED  BY <1>1, <2>1, <2>2, <2>3 DEF Redis!IsSelection
<1>3. CASE a[1].kind # "status"
  <2>1. Redis!Payload(a) = {}
    BY <1>1, <1>3 DEF Redis!Payload
  <2>2. DOMAIN s = {}
    BY <1>3
  <2> DEFINE at == [i \in {} |-> 1]
  <2>3. at \in [DOMAIN s -> Redis!Payload(a)]
    BY <2>1, <2>2
  <2> QED  BY <1>1, <2>1, <2>2, <2>3 DEF Redis!IsSelection
<1> QED  BY <1>2, <1>3

\* A reply of blocks, when all of them were given.
LEMMA BlocksAnswer ==
  ASSUME NEW a \in Seq(Token), NEW s \in Seq(Token), IsReply(a), a[1].kind \in {"bulk", "array"},
         Len(s) = BlocksOf(a), \A i \in 1..Len(s) : s[i] = a[BlockAt(a, i)]
  PROVE  a # << >> /\ Redis!IsSelection(s, a, Redis!Payload(a))
<1> DEFINE n == Len(s)
<1>1. /\ Len(a) \in Nat /\ DOMAIN a = 1..Len(a) /\ n \in Nat /\ DOMAIN s = 1..n
  BY LenProperties
<1> DEFINE at == [i \in 1..n |-> BlockAt(a, i)]
<1>2. CASE a[1].kind = "bulk"
  <2>1. n = 1 /\ Len(a) = 2 /\ a[2].kind = "data"
    BY <1>2 DEF BlocksOf, IsReply
  <2>2. Redis!Payload(a) = {2}
    BY <1>1, <1>2, <2>1 DEF Redis!Payload
  <2>3. \A i \in 1..n : BlockAt(a, i) = 2
    BY <1>2 DEF BlockAt
  <2>4. at \in [DOMAIN s -> Redis!Payload(a)] /\ \A i \in DOMAIN s : at[i] = 2 /\ s[i] = a[at[i]]
    BY <1>1, <2>2, <2>3
  <2>5. a # << >> /\ \A i, j \in DOMAIN s : ~ (i < j)
    BY <1>1, <2>1, EmptySeq
  <2>6. \E i \in DOMAIN s : at[i] = 2
    BY <1>1, <2>1, <2>4
  <2> HIDE DEF at
  <2> QED  BY <2>2, <2>4, <2>5, <2>6 DEF Redis!IsSelection
<1>3. CASE a[1].kind = "array"
  <2>1. Len(a) = 2 * n + 1 /\ \A i \in 1..n : a[2 * i].kind = "bulk" /\ a[2 * i + 1].kind = "data"
    BY <1>3 DEF BlocksOf, IsReply
  <2>2. \A i \in 1..n : BlockAt(a, i) = 2 * i + 1 /\ at[i] = 2 * i + 1
    BY <1>3 DEF BlockAt
  <2>3. \A j \in DOMAIN a : j = 1 \/ \E i \in 1..n : j = 2 * i \/ j = 2 * i + 1
    <3>1. ASSUME NEW j \in 1..(2 * n + 1), j # 1
          PROVE  \E i \in 1..n : j = 2 * i \/ j = 2 * i + 1
      <4> DEFINE i == j \div 2
      <4>1. i \in 1..n /\ (j = 2 * i \/ j = 2 * i + 1)
        BY <1>1, <3>1
      <4> QED  BY <4>1
    <3> QED  BY <1>1, <2>1, <3>1
  <2>4. Redis!Payload(a) = {2 * i + 1 : i \in 1..n}
    <3>1. ASSUME NEW i \in 1..n
          PROVE  2 * i \notin Redis!Payload(a) /\ 2 * i + 1 \in Redis!Payload(a)
      <4>1. 2 * i + 1 \in DOMAIN a
        BY <1>1, <2>1, <3>1
      <4> QED  BY <2>1, <3>1, <4>1 DEF Redis!Payload
    <3>2. 1 \notin Redis!Payload(a)
      BY <1>3 DEF Redis!Payload
    <3>3. Redis!Payload(a) \subseteq DOMAIN a
      BY DEF Redis!Payload
    <3> QED  BY <2>3, <3>1, <3>2, <3>3
  <2> DEFINE P == {2 * i + 1 : i \in 1..n}
  <2>5. at \in [DOMAIN s -> P]
    BY <1>1, <2>2
  <2>6. \A i, j \in DOMAIN s : i < j => at[i] < at[j]
    BY <1>1, <2>2
  <2>7. \A p \in P : \E i \in DOMAIN s : at[i] = p
    BY <1>1, <2>2
  <2>8. \A i \in DOMAIN s : s[i] = a[at[i]]
    BY <1>1
  <2>9. a # << >>
    BY <1>1, <2>1, EmptySeq
  <2> HIDE DEF at, P
  <2>10. Redis!Payload(a) = P
    BY <2>4 DEF P
  <2> QED  BY <2>5, <2>6, <2>7, <2>8, <2>9, <2>10 DEF Redis!IsSelection
<1> QED  BY <1>2, <1>3

\* The handler is called with the reply.
LEMMA RedisCompletes ==
  ASSUME NEW r \in ClientType, r.place = "program", Silent(r), Answered(r),
         r.conn.open, r.conn.read = "none", r.conn.write = "none"
  PROVE  ClientInv(Redis!Completes(r)) /\ Redis!Completes(r).place = "program"
<1> DEFINE s == Redis!Completes(r)
<1>1. s = [r EXCEPT !.status = "conn", !.busy = FALSE]
  BY DEF Redis!Completes, Redis!Called, ClientType
<1> HIDE DEF s
<1>2. /\ s \in ClientType /\ ~ s.busy /\ s.place = "program" /\ s.status = "conn"
      /\ s.asked = r.asked /\ s.stream = r.stream /\ s.arrived = r.arrived
      /\ s.reply = r.reply /\ s.Buffer = r.Buffer /\ s.conn = r.conn
  BY <1>1 DEF ClientType
<1>3. Idle(s)
  BY <1>2 DEF Idle, Silent, Answered
<1> QED  BY <1>2, <1>3 DEF ClientInv, s

-----------------------------------------------------------------------------
(* The driver's steps *)

DriverKeeps(r, own) ==
  \A s \in Redis!driver_machine(r, own) : ClientInv(s) /\ s.place = "program"

\* The connection has ended.
LEMMA DriverLost ==
  ASSUME NEW r, Driven(r), r.status # "init", r.conn.ended, NEW own
  PROVE  DriverKeeps(r, own)
<1> DEFINE s == Redis!Lost(r)
<1>1. Redis!driver_machine(r, own) = {s}
  BY DEF Redis!driver_machine
<1>2. s = [r EXCEPT !.conn = Redis!NoConn, !.status = "init", !.Error = TRUE,
                    !.asked = FALSE, !.stream = << >>, !.arrived = 0, !.busy = FALSE]
  BY DEF Redis!Lost, Redis!Called, Driven, ClientType
<1> HIDE DEF s
<1>3. Redis!NoConn \in Redis!Conn /\ ~ Redis!NoConn.open /\ Redis!NoConn.read = "none"
      /\ Redis!NoConn.write = "none"
  BY DEF Redis!NoConn, Redis!Conn
<1>4. /\ s \in ClientType /\ ~ s.busy /\ s.place = "program" /\ s.status = "init" /\ s.Error
      /\ ~ s.asked /\ s.stream = << >> /\ s.arrived = 0 /\ s.conn = Redis!NoConn
  <2>1. << >> \in Seq(Token)
    BY EmptySeq
  <2> QED  BY <1>2, <1>3, <2>1 DEF Driven, ClientType
<1>5. Idle(s)
  BY <1>3, <1>4 DEF Idle, Silent
<1> QED  BY <1>1, <1>4, <1>5 DEF DriverKeeps, ClientInv

\* No connection, or one that begins.
LEMMA DriverConnects ==
  ASSUME NEW r, Driven(r), r.status = "init", NEW own \in BOOLEAN
  PROVE  DriverKeeps(r, own)
<1>1. /\ r \in ClientType /\ r.conn = Redis!NoConn /\ Silent(r) /\ Unanswered(r)
      /\ r.busy /\ r.place = "program" /\ r.cmd > 0
  BY DEF Driven
<1>2. Redis!driver_machine(r, own) = Redis!Connects(r, own)
  BY DEF Redis!driver_machine
<1>3. ASSUME NEW s, s = Redis!Called([r EXCEPT !.Error = TRUE])
      PROVE  ClientInv(s) /\ s.place = "program"
  <2>1. s = [r EXCEPT !.Error = TRUE, !.busy = FALSE]
    BY <1>1, <1>3 DEF Redis!Called, ClientType
  <2>2. /\ s \in ClientType /\ ~ s.busy /\ s.place = "program" /\ s.status = "init" /\ s.Error
        /\ s.asked = r.asked /\ s.stream = r.stream /\ s.arrived = r.arrived /\ s.conn = Redis!NoConn
    BY <1>1, <2>1 DEF ClientType
  <2>3. ~ s.conn.open /\ s.conn.read = "none" /\ s.conn.write = "none"
    BY <2>2 DEF Redis!NoConn
  <2> QED  BY <1>1, <2>2, <2>3 DEF ClientInv, Idle, Silent
<1>4. ASSUME NEW link \in Redis!SpeConnConnect(Redis!SpeConnCreate, own), NEW s,
             s = [r EXCEPT !.Error = FALSE, !.status = "conn", !.conn = link]
      PROVE  ClientInv(s) /\ s.place = "program"
  <2>1. /\ link \in Redis!Conn /\ link.open /\ link.read \in {"none", "connect", "queued"} /\ link.write = "none"
    BY <1>4 DEF Redis!SpeConnConnect, Redis!SpeConnCreate, Redis!NoConn, Redis!Conn, Redis!Queued
  <2>2. /\ s \in ClientType /\ s.busy /\ s.place = "program" /\ s.status = "conn" /\ s.cmd > 0
        /\ s.asked = r.asked /\ s.stream = r.stream /\ s.arrived = r.arrived /\ s.conn = link
        /\ s.reply = r.reply /\ s.Buffer = r.Buffer
    BY <1>1, <1>4, <2>1 DEF ClientType
  <2> QED  BY <1>1, <2>1, <2>2 DEF ClientInv, Waits, Silent, Unanswered
<1> QED  BY <1>2, <1>3, <1>4 DEF DriverKeeps, Redis!Connects

\* The command is flushed.
LEMMA DriverSends ==
  ASSUME NEW r, Driven(r), r.status = "conn", ~ r.conn.ended, NEW own \in BOOLEAN
  PROVE  DriverKeeps(r, own)
<1>1. /\ r \in ClientType /\ Silent(r) /\ Unanswered(r) /\ r.busy /\ r.place = "program"
      /\ r.cmd > 0 /\ r.conn \in Redis!Conn /\ r.conn.open
      /\ r.conn.read = "none" /\ r.conn.write = "none"
  BY DEF Driven, ClientType
<1> DEFINE s == Redis!Sends(r, own)
<1>2. Redis!driver_machine(r, own) = {s}
  BY DEF Redis!driver_machine
<1>3. s = [r EXCEPT !.status = "send", !.conn = [r.conn EXCEPT !.write = "wait"]]
  BY <1>1 DEF Redis!Sends, Redis!SpeConnFlush, Redis!Requested, ClientType
<1> HIDE DEF s
<1>4. [r.conn EXCEPT !.write = "wait"] \in Redis!Conn
  BY <1>1 DEF Redis!Conn
<1>5. /\ s \in ClientType /\ s.busy /\ s.place = "program" /\ s.status = "send" /\ s.cmd > 0
      /\ s.asked = r.asked /\ s.stream = r.stream /\ s.arrived = r.arrived
      /\ s.reply = r.reply /\ s.Buffer = r.Buffer
      /\ s.conn.open /\ s.conn.read = "none" /\ s.conn.write = "wait"
  BY <1>1, <1>3, <1>4 DEF ClientType, Redis!Conn
<1> QED  BY <1>1, <1>2, <1>5 DEF DriverKeeps, ClientInv, Waits, Silent, Unanswered

\* The first line is asked for, which cannot have arrived.
LEMMA DriverSent ==
  ASSUME NEW r, Driven(r), r.status = "send", ~ r.conn.ended, NEW own \in BOOLEAN
  PROVE  DriverKeeps(r, own)
<1>1. /\ r \in ClientType /\ r.asked /\ r.stream = << >> /\ r.arrived = 0 /\ Unanswered(r)
      /\ r.busy /\ r.place = "program" /\ r.cmd > 0 /\ r.conn \in Redis!Conn /\ r.conn.open
      /\ r.conn.read = "none" /\ r.conn.write = "none"
  BY DEF Driven, ClientType
<1> DEFINE s == Redis!Reads([r EXCEPT !.status = "head"], own)
<1>2. Redis!driver_machine(r, own) = {s}
  BY DEF Redis!driver_machine
<1>3. s = [r EXCEPT !.status = "head", !.conn = [r.conn EXCEPT !.read = "wait"]]
  <2> DEFINE t == [r EXCEPT !.status = "head"]
  <2>1. t.arrived = 0 /\ t.conn = r.conn /\ [t EXCEPT !.conn = [r.conn EXCEPT !.read = "wait"]]
          = [r EXCEPT !.status = "head", !.conn = [r.conn EXCEPT !.read = "wait"]]
    BY <1>1 DEF ClientType
  <2>2. ~ (t.arrived > 0)
    BY <2>1
  <2> HIDE DEF t
  <2>3. Redis!Reads(t, own) = [t EXCEPT !.conn = [t.conn EXCEPT !.read = "wait"]]
    BY <1>1, <2>1, <2>2 DEF Redis!Reads, Redis!SpeConnRead, Redis!Requested
  <2> QED  BY <2>1, <2>3 DEF t
<1> HIDE DEF s
<1>4. [r.conn EXCEPT !.read = "wait"] \in Redis!Conn
  BY <1>1 DEF Redis!Conn
<1>5. /\ s \in ClientType /\ s.busy /\ s.place = "program" /\ s.status = "head" /\ s.cmd > 0
      /\ s.asked = r.asked /\ s.stream = r.stream /\ s.arrived = r.arrived
      /\ s.reply = r.reply /\ s.Buffer = r.Buffer
      /\ s.conn.open /\ s.conn.read = "wait" /\ s.conn.write = "none"
  BY <1>1, <1>3, <1>4 DEF ClientType, Redis!Conn
<1> QED  BY <1>1, <1>2, <1>5 DEF DriverKeeps, ClientInv, Waits, Unanswered

\* What the steps over a reply share.
LEMMA Taking ==
  ASSUME NEW r, Driven(r), r.status \in {"head", "size", "data"}, ~ r.conn.ended
  PROVE  /\ r \in ClientType /\ r.busy /\ r.place = "program" /\ r.cmd > 0
         /\ r.conn.open /\ r.conn.read = "none" /\ r.conn.write = "none"
         /\ TakenOut(r) /\ Progress(r) /\ IsReply(r.reply)
         /\ r.reply \in Seq(Token) /\ r.Buffer \in Seq(Token) /\ r.blockLeft \in Nat
         /\ r.stream = Rest(r.reply, NextAt(r) + 1) /\ r.line = r.reply[NextAt(r)]
         /\ r.arrived \in Nat /\ r.arrived <= Len(r.stream) /\ ~ r.asked
BY DEF Driven, ClientType, TakenOut, Progress

\* The first line: the whole reply, or what it announces is asked for.
LEMMA DriverReceivesHead ==
  ASSUME NEW r, Driven(r), r.status = "head", ~ r.conn.ended, NEW own \in BOOLEAN
  PROVE  DriverKeeps(r, own)
<1>0. /\ r \in ClientType /\ r.busy /\ r.place = "program" /\ r.cmd > 0
      /\ r.conn.open /\ r.conn.read = "none" /\ r.conn.write = "none"
      /\ TakenOut(r) /\ Progress(r) /\ IsReply(r.reply)
      /\ r.reply \in Seq(Token) /\ r.Buffer \in Seq(Token) /\ r.blockLeft \in Nat
      /\ r.stream = Rest(r.reply, NextAt(r) + 1) /\ r.line = r.reply[NextAt(r)]
      /\ r.arrived \in Nat /\ r.arrived <= Len(r.stream) /\ ~ r.asked
  BY Taking
<1>1. Redis!driver_machine(r, own) = {Redis!ReceivesHead(r, own)}
  BY DEF Redis!driver_machine
<1>2. /\ NextAt(r) = 1 /\ r.Buffer = << >> /\ r.line = r.reply[1] /\ r.stream = Rest(r.reply, 2)
      /\ r.reply[1] \in Token /\ r.reply[1].blocks \in Nat /\ Len(r.reply) \in Nat /\ Len(r.reply) >= 1
      /\ Len(r.stream) \in Nat
  <2>1. NextAt(r) = 1
    BY DEF NextAt
  <2> QED  BY <2>1, <1>0, NextToken DEF Progress
<1>3. ASSUME Len(r.reply) = 1  PROVE Silent(r)
  <2>1. Rest(r.reply, 2) = << >> /\ Len(Rest(r.reply, 2)) = 0
    <3>1. 2 \in 1..(Len(r.reply) + 1) /\ 2 = Len(r.reply) + 1
      BY <1>3
    <3> QED  BY <1>0, <3>1, RestProperties, EmptySeq
  <2> QED  BY <1>2, <2>1, <1>0 DEF Silent
<1>4. CASE r.line.kind = "status"
  <2> DEFINE t == [r EXCEPT !.Buffer = Append(r.Buffer, r.line)]
  <2>1. Redis!ReceivesHead(r, own) = Redis!Completes(t)
    BY <1>4 DEF Redis!ReceivesHead
  <2>2. Append(r.Buffer, r.line) = <<r.line>> /\ <<r.line>> \in Seq(Token)
    BY <1>2
  <2>3. /\ t \in ClientType /\ t.place = "program" /\ t.asked = r.asked /\ t.stream = r.stream
        /\ t.arrived = r.arrived /\ t.reply = r.reply /\ t.Buffer = <<r.line>> /\ t.conn = r.conn
    BY <2>2, <1>0 DEF ClientType
  <2> HIDE DEF t
  <2>4. Len(r.reply) = 1 /\ r.reply[1].kind = "status"
    BY <1>2, <1>4, <1>0 DEF IsReply
  <2>5. Answered(t)
    BY <1>2, <2>3, <2>4, LineAnswers, <1>0 DEF Answered
  <2>6. Silent(t)
    BY <1>3, <2>3, <2>4 DEF Silent
  <2> QED  BY <1>1, <2>1, <2>3, <2>5, <2>6, <1>0, RedisCompletes DEF DriverKeeps
<1>5. CASE r.line.kind \in {"nil", "zero"}
  <2>1. Redis!ReceivesHead(r, own) = Redis!Completes(r)
    BY <1>5 DEF Redis!ReceivesHead
  <2>2. Len(r.reply) = 1 /\ r.reply[1].kind = "nil"
    BY <1>2, <1>5, <1>0 DEF IsReply
  <2>3. Answered(r)
    BY <1>2, <2>2, LineAnswers, <1>0 DEF Answered
  <2> QED  BY <1>1, <1>3, <2>1, <2>2, <2>3, <1>0, RedisCompletes DEF DriverKeeps
<1>6. CASE r.line.kind = "array" /\ r.line.blocks = 0
  <2>1. Redis!ReceivesHead(r, own) = Redis!Completes(r)
    BY <1>6 DEF Redis!ReceivesHead
  <2>2. Len(r.reply) = 1 /\ r.reply[1].kind = "array"
    BY <1>2, <1>6, <1>0 DEF IsReply
  <2>3. Answered(r)
    BY <1>2, <2>2, LineAnswers, <1>0 DEF Answered
  <2> QED  BY <1>1, <1>3, <2>1, <2>2, <2>3, <1>0, RedisCompletes DEF DriverKeeps
<1>7. CASE r.line.kind = "bulk" \/ (r.line.kind = "array" /\ r.line.blocks > 0)
  <2> DEFINE next == IF r.line.kind = "bulk" THEN "data" ELSE "size"
             left == IF r.line.kind = "bulk" THEN 1 ELSE r.line.blocks
             t == [r EXCEPT !.blockLeft = left, !.status = next]
  <2>1. Redis!ReceivesHead(r, own) = Redis!Reads(t, own)
    <3>1. CASE r.line.kind = "bulk"
      BY <3>1 DEF Redis!ReceivesHead
    <3>2. CASE r.line.kind = "array" /\ r.line.blocks > 0
      BY <1>2, <3>2 DEF Redis!ReceivesHead
    <3> QED  BY <1>7, <3>1, <3>2
  <2>2. /\ t \in ClientType /\ t.place = "program" /\ t.busy /\ t.cmd > 0 /\ t.asked = r.asked
        /\ t.stream = r.stream /\ t.arrived = r.arrived /\ t.reply = r.reply
        /\ t.Buffer = r.Buffer /\ t.conn = r.conn /\ t.blockLeft = left /\ t.status = next
    <3>1. left \in Nat
      BY <1>2
    <3> QED  BY <3>1, <1>0 DEF ClientType
  <2> HIDE DEF t
  <2>3. /\ Len(r.Buffer) = 0 /\ left > 0 /\ left = BlocksOf(r.reply)
        /\ r.reply[1].kind \in {"bulk", "array"}
        /\ next = "size" => r.reply[1].kind = "array"
    BY <1>2, <1>7, EmptySeq DEF BlocksOf
  <2>4. NextAt(t) = 2 /\ Len(r.reply) >= 2
    <3>1. CASE r.line.kind = "bulk"
      BY <1>2, <2>2, <3>1, <1>0 DEF NextAt, BlockAt, IsReply
    <3>2. CASE r.line.kind = "array" /\ r.line.blocks > 0
      BY <1>2, <2>2, <2>3, <3>2, <1>0 DEF NextAt, IsReply
    <3> QED  BY <1>7, <3>1, <3>2
  <2>5. Blocks(t)
    BY <1>2, <2>2, <2>3 DEF Blocks
  <2>6. Unread(t)
    BY <1>2, <2>2, <2>3, <2>4, <2>5, <1>0 DEF Unread, Progress
  <2>7. Asking(t)
    BY <2>2, <2>6, <1>0 DEF Asking
  <2> QED  BY <1>1, <2>1, <2>7, RedisReads DEF DriverKeeps
<1>8. \/ r.line.kind = "status" \/ r.line.kind \in {"nil", "zero"}
      \/ r.line.kind = "array" /\ r.line.blocks = 0
      \/ r.line.kind = "bulk" \/ (r.line.kind = "array" /\ r.line.blocks > 0)
  <2>1. r.line.kind \in {"status", "nil", "bulk", "array"}
    BY <1>2, <1>0 DEF IsReply
  <2>2. r.line.blocks = 0 \/ r.line.blocks > 0
    BY <1>2
  <2> QED  BY <2>1, <2>2
<1> QED  BY <1>4, <1>5, <1>6, <1>7, <1>8

\* A size in an array is that of a block, which is asked for.
LEMMA DriverReceivesSize ==
  ASSUME NEW r, Driven(r), r.status = "size", ~ r.conn.ended, NEW own \in BOOLEAN
  PROVE  DriverKeeps(r, own)
<1> DEFINE t == [r EXCEPT !.status = "data"]
<1>0. /\ r \in ClientType /\ r.busy /\ r.place = "program" /\ r.cmd > 0
      /\ r.conn.open /\ r.conn.read = "none" /\ r.conn.write = "none"
      /\ TakenOut(r) /\ Progress(r) /\ IsReply(r.reply)
      /\ r.reply \in Seq(Token) /\ r.Buffer \in Seq(Token) /\ r.blockLeft \in Nat
      /\ r.stream = Rest(r.reply, NextAt(r) + 1) /\ r.line = r.reply[NextAt(r)]
      /\ r.arrived \in Nat /\ r.arrived <= Len(r.stream) /\ ~ r.asked
  BY Taking
<1>1. r.line.kind = "bulk"
  BY <1>0, NextToken
<1>2. Redis!driver_machine(r, own) = {Redis!Reads(t, own)}
  BY <1>1 DEF Redis!driver_machine, Redis!ReceivesSize
<1>3. /\ t \in ClientType /\ t.place = "program" /\ t.busy /\ t.cmd > 0 /\ t.asked = r.asked
      /\ t.stream = r.stream /\ t.arrived = r.arrived /\ t.reply = r.reply
      /\ t.Buffer = r.Buffer /\ t.conn = r.conn /\ t.blockLeft = r.blockLeft /\ t.status = "data"
  BY <1>0 DEF ClientType
<1> HIDE DEF t
<1>4. /\ Blocks(r) /\ r.reply[1].kind = "array" /\ NextAt(r) = 2 * Len(r.Buffer) + 2
      /\ Len(r.Buffer) \in Nat /\ Len(r.reply) \in Nat /\ r.reply[1].blocks \in Nat
  BY <1>0, NextToken DEF Progress, NextAt
<1>5. NextAt(t) = NextAt(r) + 1 /\ NextAt(t) \in 1..Len(t.reply)
  <2>1. NextAt(t) = NextAt(r) + 1
    BY <1>3, <1>4 DEF NextAt, BlockAt
  <2>2. Len(r.reply) = 2 * r.reply[1].blocks + 1 /\ Len(r.Buffer) + 1 <= r.reply[1].blocks
    BY <1>4, <1>0 DEF Blocks, BlocksOf, IsReply
  <2>3. NextAt(r) + 1 \in 1..Len(r.reply)
    BY <1>4, <2>2, SMTT(30)
  <2> QED  BY <1>3, <2>1, <2>3
<1>6. Unread(t)
  BY <1>3, <1>4, <1>5, <1>0 DEF Unread, Progress, Blocks
<1>7. Asking(t)
  BY <1>3, <1>6, <1>0 DEF Asking
<1> QED  BY <1>2, <1>7, RedisReads DEF DriverKeeps

\* A block is given to the program: the last one, or the next size is asked for.
LEMMA DriverReceivesData ==
  ASSUME NEW r, Driven(r), r.status = "data", ~ r.conn.ended, NEW own \in BOOLEAN
  PROVE  DriverKeeps(r, own)
<1>0. /\ r \in ClientType /\ r.busy /\ r.place = "program" /\ r.cmd > 0
      /\ r.conn.open /\ r.conn.read = "none" /\ r.conn.write = "none"
      /\ TakenOut(r) /\ Progress(r) /\ IsReply(r.reply)
      /\ r.reply \in Seq(Token) /\ r.Buffer \in Seq(Token) /\ r.blockLeft \in Nat
      /\ r.stream = Rest(r.reply, NextAt(r) + 1) /\ r.line = r.reply[NextAt(r)]
      /\ r.arrived \in Nat /\ r.arrived <= Len(r.stream) /\ ~ r.asked
  BY Taking
<1>1. /\ Blocks(r) /\ NextAt(r) = BlockAt(r.reply, Len(r.Buffer) + 1)
      /\ Len(r.Buffer) \in Nat /\ Len(r.reply) \in Nat /\ r.reply[1].blocks \in Nat
      /\ r.line \in Token /\ r.reply[1].kind \in {"bulk", "array"} /\ Len(r.stream) \in Nat
      /\ NextAt(r) + 1 \in 1..(Len(r.reply) + 1)
  BY <1>0, NextToken DEF Progress, NextAt, Blocks
<1> DEFINE B == Append(r.Buffer, r.line)
           left == r.blockLeft - 1
           u == [r EXCEPT !.Buffer = B, !.blockLeft = left]
<1>2. /\ left \in Nat /\ left + Len(B) = BlocksOf(r.reply) /\ B \in Seq(Token)
      /\ Len(B) = Len(r.Buffer) + 1
      /\ \A i \in 1..Len(B) : B[i] = r.reply[BlockAt(r.reply, i)]
  <2>1. /\ B \in Seq(Token) /\ Len(B) = Len(r.Buffer) + 1
        /\ \A i \in 1..Len(r.Buffer) : B[i] = r.Buffer[i]
        /\ B[Len(r.Buffer) + 1] = r.reply[BlockAt(r.reply, Len(r.Buffer) + 1)]
    BY <1>0, <1>1, AppendProperties
  <2>2. left \in Nat /\ left + (Len(r.Buffer) + 1) = BlocksOf(r.reply)
    <3>1. BlocksOf(r.reply) = r.blockLeft + Len(r.Buffer) /\ r.blockLeft > 0
      BY <1>1 DEF Blocks
    <3>2. r.blockLeft \in Nat /\ Len(r.Buffer) \in Nat
      BY <1>0, <1>1
    <3> QED  BY <3>1, <3>2
  <2>3. \A i \in 1..(Len(r.Buffer) + 1) : B[i] = r.reply[BlockAt(r.reply, i)]
    BY <1>1, <2>1 DEF Blocks
  <2> QED  BY <2>1, <2>2, <2>3
<1> HIDE DEF B, left
<1>3. CASE left = 0
  <2>1. Redis!driver_machine(r, own) = {Redis!Completes(u)}
    BY <1>3 DEF Redis!driver_machine, Redis!ReceivesData, B, left
  <2>2. /\ u \in ClientType /\ u.place = "program" /\ u.asked = r.asked /\ u.stream = r.stream
        /\ u.arrived = r.arrived /\ u.reply = r.reply /\ u.Buffer = B /\ u.conn = r.conn
    BY <1>0, <1>2 DEF ClientType
  <2> HIDE DEF u
  <2>3. Len(B) = BlocksOf(r.reply)
    BY <1>1, <1>2, <1>3
  <2>4. Answered(u)
    BY <1>0, <1>1, <1>2, <2>2, <2>3, BlocksAnswer DEF Answered
  <2>5. NextAt(r) = Len(r.reply)
    <3>1. CASE r.reply[1].kind = "bulk"
      BY <1>0, <1>1, <3>1 DEF BlockAt, IsReply
    <3>2. CASE r.reply[1].kind = "array"
      <4>1. NextAt(r) = 2 * Len(B) + 1 /\ Len(B) = r.reply[1].blocks
        BY <1>1, <1>2, <2>3, <3>2 DEF BlockAt, BlocksOf
      <4> QED  BY <1>0, <3>2, <4>1 DEF IsReply
    <3> QED  BY <1>1, <3>1, <3>2
  <2>6. r.stream = << >> /\ Len(r.stream) = 0
    <3>1. Len(r.reply) + 1 \in 1..(Len(r.reply) + 1)
      BY <1>1
    <3> QED  BY <1>0, <2>5, <3>1, RestProperties, EmptySeq
  <2>7. Silent(u)
    BY <1>0, <2>2, <2>6 DEF Silent
  <2> QED  BY <1>0, <2>1, <2>2, <2>4, <2>7, RedisCompletes DEF DriverKeeps
<1>4. CASE left # 0
  <2> DEFINE t == [r EXCEPT !.Buffer = B, !.blockLeft = left, !.status = "size"]
  <2>1. Redis!driver_machine(r, own) = {Redis!Reads(t, own)}
    <3>1. [u EXCEPT !.status = "size"] = t /\ u.blockLeft = left
      BY <1>0 DEF ClientType
    <3> QED  BY <1>4, <3>1 DEF Redis!driver_machine, Redis!ReceivesData, B, left
  <2>2. /\ t \in ClientType /\ t.place = "program" /\ t.busy /\ t.cmd > 0 /\ t.asked = r.asked
        /\ t.stream = r.stream /\ t.arrived = r.arrived /\ t.reply = r.reply
        /\ t.Buffer = B /\ t.conn = r.conn /\ t.blockLeft = left /\ t.status = "size"
    BY <1>0, <1>2 DEF ClientType
  <2> HIDE DEF t
  <2>3. /\ left > 0 /\ left + Len(B) = r.reply[1].blocks /\ r.reply[1].kind = "array"
        /\ Len(B) \in Nat
    <3>1. left > 0 /\ Len(B) \in Nat /\ Len(B) >= 1
      BY <1>1, <1>2, <1>4
    <3>2. BlocksOf(r.reply) # 1
      BY <1>2, <3>1
    <3> QED  BY <1>1, <1>2, <3>1, <3>2 DEF BlocksOf
  <2>4. NextAt(t) = NextAt(r) + 1 /\ NextAt(t) \in 1..Len(t.reply)
    <3>1. NextAt(t) = 2 * Len(B) + 2 /\ NextAt(r) = 2 * Len(B) + 1
      BY <1>1, <1>2, <2>2, <2>3 DEF NextAt, BlockAt
    <3>2. Len(r.reply) = 2 * r.reply[1].blocks + 1
      BY <1>0, <2>3 DEF IsReply
    <3>3. 2 * Len(B) + 2 \in 1..Len(r.reply)
      <4>1. left \in Nat /\ r.reply[1].blocks \in Nat
        BY <1>1, <1>2
      <4>2. \A l, n, k \in Nat : l > 0 /\ l + n = k => 2 * n + 2 \in 1..(2 * k + 1)
        OBVIOUS
      <4>3. 2 * Len(B) + 2 \in 1..(2 * r.reply[1].blocks + 1)
        BY ONLY <2>3, <4>1, <4>2
      <4> QED  BY <3>2, <4>3
    <3> QED  BY <1>1, <2>2, <2>3, <3>1, <3>3
  <2>5. Blocks(t)
    BY <1>1, <1>2, <2>2, <2>3 DEF Blocks
  <2>6. Unread(t)
    BY <1>0, <2>2, <2>3, <2>4, <2>5 DEF Unread, Progress
  <2>7. Asking(t)
    BY <1>0, <2>2, <2>6 DEF Asking
  <2> QED  BY <2>1, <2>7, RedisReads DEF DriverKeeps
<1> QED  BY <1>3, <1>4

\* Every step of the driver.
LEMMA RedisDriver ==
  ASSUME NEW r, Driven(r), NEW own \in BOOLEAN
  PROVE  DriverKeeps(r, own)
<1>1. r.status \in {"init", "conn", "send", "head", "size", "data"}
  BY DEF Driven, ClientType
<1>2. r.status = "init" \/ r.conn.ended \/ ~ r.conn.ended
  OBVIOUS
<1> QED  BY <1>1, <1>2, DriverLost, DriverConnects, DriverSends, DriverSent, DriverReceivesHead,
            DriverReceivesSize, DriverReceivesData

-----------------------------------------------------------------------------
(* The program, the server and the pool *)

\* The clients in the pool are there once, and who is nowhere has no connection.
PoolInv ==
  /\ IsInjective(poolData)
  /\ \A k \in Clients : client[k].place = "pool" <=> k \in Range(poolData)
  /\ \A k \in Clients : client[k].place = "none" => ~ client[k].conn.open

RedisInv ==
  /\ client \in [Clients -> ClientType] /\ poolData \in Seq(Clients)
  /\ commands \in 0..MaxCommands
  /\ PoolInv
  /\ \A k \in Clients : ClientInv(client[k])

\* Both instances of FiniteSets count alike.
LEMMA SameCount == \A S : Redis!Cardinality(S) = Cardinality(S)
BY DEF Redis!Cardinality, Cardinality

\* What the server sends is one of the replies the client understands.
LEMMA ServerReplies ==
  ASSUME NEW kinds \in Replies, NEW n \in 0..MaxCommands
  PROVE  /\ Redis!Tokens(kinds, n) \in Seq(Token) /\ IsReply(Redis!Tokens(kinds, n))
         /\ Len(Redis!Tokens(kinds, n)) >= 1
<1> DEFINE a == Redis!Tokens(kinds, n)
           Sizes == {j \in DOMAIN kinds : kinds[j] \in {"bulk", "nil", "zero"}}
<1>1. kinds \in Seq(Redis!Kind) /\ Len(kinds) \in Nat /\ DOMAIN kinds = 1..Len(kinds)
  <2>1. kinds \in Seq(Redis!Kind)
    <3>1. CASE kinds \in {<<"status">>, <<"nil">>, <<"bulk", "data">>}
      <4>1. \A x, y \in Redis!Kind : <<x>> \in Seq(Redis!Kind) /\ <<x, y>> \in Seq(Redis!Kind)
        OBVIOUS
      <4>2. {"status", "nil", "bulk", "data"} \subseteq Redis!Kind
        BY DEF Redis!Kind
      <4>3. kinds = <<"status">> \/ kinds = <<"nil">> \/ kinds = <<"bulk", "data">>
        BY <3>1
      <4> QED  BY <4>1, <4>2, <4>3, Zenon
    <3>2. CASE kinds \in Seq({"array", "bulk", "data"})
      <4>1. {"array", "bulk", "data"} \subseteq Redis!Kind
        BY DEF Redis!Kind
      <4> QED  BY <3>2, <4>1, SeqMonotonic
    <3> QED  BY <3>1, <3>2, RedisAssumption DEF RedisAssumption
  <2> QED  BY <2>1, LenProperties
<1>2. ASSUME IsArray(kinds)
      PROVE  Cardinality(Sizes) \in Nat /\ Len(kinds) = 2 * Cardinality(Sizes) + 1
  <2>1. PICK w \in 0..Len(kinds) :
          /\ Len(kinds) = 2 * w + 1 /\ kinds[1] = "array"
          /\ \A i \in 1..w : kinds[2 * i] = "bulk" /\ kinds[2 * i + 1] = "data"
    BY <1>2 DEF IsArray
  <2> DEFINE f == [i \in 1..w |-> 2 * i]
  <2>2. w \in Nat
    BY <1>1
  <2>3. \A j \in 1..Len(kinds) : j = 1 \/ \E i \in 1..w : j = 2 * i \/ j = 2 * i + 1
    <3>1. ASSUME NEW j \in 1..(2 * w + 1), j # 1
          PROVE  \E i \in 1..w : j = 2 * i \/ j = 2 * i + 1
      <4> DEFINE i == j \div 2
      <4>1. i \in 1..w /\ (j = 2 * i \/ j = 2 * i + 1)
        BY <2>2, <3>1
      <4> QED  BY <4>1
    <3> QED  BY <2>1, <3>1
  <2>4. Sizes = {2 * i : i \in 1..w}
    <3>1. ASSUME NEW j \in Sizes  PROVE \E i \in 1..w : j = 2 * i
      BY <1>1, <2>1, <2>3, <3>1
    <3>2. ASSUME NEW i \in 1..w  PROVE 2 * i \in Sizes
      <4>1. 2 * i \in 1..Len(kinds)
        BY <2>1, <2>2
      <4> QED  BY <1>1, <2>1, <4>1
    <3> HIDE DEF Sizes
    <3> QED  BY <3>1, <3>2
  <2>5. f \in Bijection(1..w, Sizes)
    <3>1. f \in [1..w -> Sizes] /\ \A j \in Sizes : \E i \in 1..w : f[i] = j
      BY <2>4
    <3>2. \A i, j \in 1..w : f[i] = f[j] => i = j
      BY <2>2
    <3> HIDE DEF f, Sizes
    <3>3. IsInjective(f) /\ f \in [1..w -> Sizes]
      BY <3>1, <3>2 DEF IsInjective
    <3> QED  BY <3>1, <3>3 DEF Bijection, Injection, Surjection
  <2>6. Cardinality(Sizes) = w
    BY <2>2, <2>5, FS_CountingElements DEF ExistsBijection
  <2> QED  BY <2>1, <2>2, <2>6
<1>3. \A i \in DOMAIN kinds : a[i].kind = kinds[i] /\ a[i].blocks = IF kinds[i] = "array" THEN Cardinality(Sizes) ELSE 0
  BY SameCount DEF Redis!Tokens
<1>4. a \in Seq(Token) /\ Len(a) = Len(kinds)
  <2>1. \A i \in 1..Len(kinds) :
          /\ kinds[i] \in Redis!Kind
          /\ kinds[i] = "array" => Cardinality(Sizes) \in Nat
    <3>1. kinds \notin {<<"status">>, <<"nil">>, <<"bulk", "data">>} => IsArray(kinds)
      BY RedisAssumption DEF RedisAssumption
    <3>2. CASE kinds \in {<<"status">>, <<"nil">>, <<"bulk", "data">>}
      BY <1>1, <3>2, ElementOfSeq
    <3> QED  BY <1>1, <1>2, <3>1, <3>2, ElementOfSeq
  <2> HIDE DEF Sizes
  <2>2. \A i \in 1..Len(kinds) :
          [kind |-> kinds[i], of |-> n, first |-> i = 1,
           blocks |-> IF kinds[i] = "array" THEN Cardinality(Sizes) ELSE 0] \in Token
    BY <2>1 DEF Token, Redis!Token
  <2>3. a = [i \in 1..Len(kinds) |->
               [kind |-> kinds[i], of |-> n, first |-> i = 1,
                blocks |-> IF kinds[i] = "array" THEN Cardinality(Sizes) ELSE 0]]
    BY <1>1, SameCount DEF Redis!Tokens, Sizes
  <2>4. a \in [1..Len(kinds) -> Token]
    BY <2>2, <2>3
  <2>5. a \in Seq(Token)
    BY <1>1, <2>4, SeqDef
  <2>6. DOMAIN a = 1..Len(kinds)
    BY <2>4
  <2> QED  BY <1>1, <2>5, <2>6, LenProperties
<1> HIDE DEF a, Sizes
<1>5. CASE kinds \in {<<"status">>, <<"nil">>, <<"bulk", "data">>}
  <2>1. \/ Len(kinds) = 1 /\ kinds[1] \in {"status", "nil"}
        \/ Len(kinds) = 2 /\ kinds[1] = "bulk" /\ kinds[2] = "data"
    BY <1>5
  <2> QED  BY <1>1, <1>3, <1>4, <2>1 DEF IsReply, a
<1>6. CASE IsArray(kinds)
  <2>1. PICK w \in 0..Len(kinds) :
          /\ Len(kinds) = 2 * w + 1 /\ kinds[1] = "array"
          /\ \A i \in 1..w : kinds[2 * i] = "bulk" /\ kinds[2 * i + 1] = "data"
    BY <1>6 DEF IsArray
  <2>2. w \in Nat /\ Cardinality(Sizes) = w /\ 1 \in DOMAIN kinds
    BY <1>1, <1>2, <1>6, <2>1
  <2>3. a[1].kind = "array" /\ a[1].blocks = w
    BY <1>3, <2>1, <2>2
  <2>4. \A i \in 1..w : 2 * i \in DOMAIN kinds /\ 2 * i + 1 \in DOMAIN kinds
    BY <1>1, <2>1, <2>2
  <2>5. \A i \in 1..w : a[2 * i].kind = "bulk" /\ a[2 * i + 1].kind = "data"
    BY <1>3, <2>1, <2>4
  <2> QED  BY <1>4, <2>1, <2>2, <2>3, <2>5 DEF IsReply, a
<1> QED  BY <1>5, <1>6, RedisAssumption DEF RedisAssumption, a

\* A step of the driver for one client leaves the others and the pool alone.
LEMMA RedisDrives ==
  ASSUME RedisInv, NEW k \in Clients, client[k].busy \/ client[k].place = "program",
         NEW r, Driven(r), NEW own \in BOOLEAN, Redis!Drives(k, r, own),
         UNCHANGED poolData, commands' \in 0..MaxCommands
  PROVE  RedisInv'
<1>1. PICK s \in Redis!driver_machine(r, own) : client' = [client EXCEPT ![k] = s]
  BY DEF Redis!Drives
<1>2. ClientInv(s) /\ s.place = "program" /\ s \in ClientType
  BY RedisDriver DEF DriverKeeps, ClientInv
<1>3. client[k].place = "program"
  BY DEF RedisInv, ClientInv, Waits
<1>4. client' \in [Clients -> ClientType] /\ client'[k] = s
      /\ \A j \in Clients : j # k => client'[j] = client[j]
  BY <1>1, <1>2 DEF RedisInv
<1>5. PoolInv'
  BY <1>2, <1>3, <1>4 DEF RedisInv, PoolInv
<1>6. \A j \in Clients : ClientInv(client'[j])
  BY <1>2, <1>4 DEF RedisInv
<1> QED  BY <1>4, <1>5, <1>6 DEF RedisInv

\* SpeRedisDo begins a command for a client that waits for nothing.
LEMMA RedisDoStep ==
  ASSUME RedisInv, NEW k \in Clients, Redis!SpeRedisDo(k)  PROVE RedisInv'
<1>1. /\ client[k] \in ClientType /\ ClientInv(client[k]) /\ client[k].place = "program"
      /\ ~ client[k].busy /\ Idle(client[k])
  BY DEF Redis!SpeRedisDo, RedisInv, ClientInv
<1> DEFINE r == [client[k] EXCEPT !.busy = TRUE, !.cmd = commands + 1, !.Buffer = << >>,
                                  !.reply = << >>]
<1>2. commands + 1 \in 0..MaxCommands /\ commands + 1 > 0 /\ << >> \in Seq(Token)
      /\ commands' \in 0..MaxCommands
  BY RedisAssumption, EmptySeq DEF RedisAssumption, Redis!SpeRedisDo, RedisInv
<1>3. /\ r \in ClientType /\ r.busy /\ r.place = "program" /\ r.cmd > 0 /\ r.Buffer = << >>
      /\ r.reply = << >> /\ r.asked = client[k].asked /\ r.stream = client[k].stream
      /\ r.arrived = client[k].arrived /\ r.conn = client[k].conn /\ r.status = client[k].status
  BY <1>1, <1>2 DEF ClientType
<1> HIDE DEF r
<1>4. Driven(r)
  BY <1>1, <1>3 DEF Driven, Idle, Silent, Unanswered
<1>5. PICK own \in BOOLEAN : Redis!Drives(k, r, own)
  BY DEF Redis!SpeRedisDo, r
<1>6. UNCHANGED poolData
  BY DEF Redis!SpeRedisDo
<1> QED  BY <1>1, <1>2, <1>4, <1>5, <1>6, RedisDrives

\* The connect is decided.
LEMMA RedisConnectedStep ==
  ASSUME RedisInv, NEW k \in Clients, Redis!Connected(k)  PROVE RedisInv'
<1>1. /\ client[k] \in ClientType /\ client[k].busy /\ client[k].place = "program"
      /\ client[k].cmd > 0 /\ client[k].status = "conn" /\ Silent(client[k])
      /\ Unanswered(client[k])
  BY DEF Redis!Connected, RedisInv, ClientInv, Waits, Idle
<1>2. PICK fails \in BOOLEAN :
        Redis!Drives(k, [client[k] EXCEPT !.conn = [Redis!SpeConnCreate EXCEPT !.ended = fails]], FALSE)
  BY DEF Redis!Connected
<1> DEFINE link == [Redis!SpeConnCreate EXCEPT !.ended = fails]
           r == [client[k] EXCEPT !.conn = link]
<1>3. /\ link \in Redis!Conn /\ link.open /\ link.read = "none" /\ link.write = "none"
  BY DEF Redis!SpeConnCreate, Redis!NoConn, Redis!Conn
<1> HIDE DEF link
<1>4. /\ r \in ClientType /\ r.busy /\ r.place = "program" /\ r.cmd > 0 /\ r.conn = link
      /\ r.Buffer = client[k].Buffer /\ r.reply = client[k].reply /\ r.asked = client[k].asked
      /\ r.stream = client[k].stream /\ r.arrived = client[k].arrived /\ r.status = "conn"
  BY <1>1, <1>3 DEF ClientType
<1>5. Redis!Drives(k, r, FALSE)
  BY <1>2 DEF link
<1> HIDE DEF r
<1>6. Driven(r)
  BY <1>1, <1>3, <1>4 DEF Driven, Silent, Unanswered
<1>7. UNCHANGED poolData /\ commands' \in 0..MaxCommands
  BY DEF Redis!Connected, RedisInv
<1> QED  BY <1>1, <1>5, <1>6, <1>7, RedisDrives

\* A connect, or a token that was taken, calls the driver from ReadCallback.
LEMMA RedisCallbackStep ==
  ASSUME RedisInv, NEW k \in Clients, Redis!CallbackRuns(k)  PROVE RedisInv'
<1>1. /\ client[k] \in ClientType /\ client[k].busy /\ client[k].place = "program"
      /\ client[k].cmd > 0 /\ client[k].conn \in Redis!Conn
      /\ client[k].conn.open /\ client[k].conn.write = "none"
      /\ \/ client[k].status = "conn" /\ Silent(client[k]) /\ Unanswered(client[k])
         \/ client[k].status \in {"size", "data"} /\ TakenOut(client[k])
  BY DEF Redis!CallbackRuns, RedisInv, ClientInv, Waits, Idle, ClientType
<1> DEFINE link == [client[k].conn EXCEPT !.read = "none"]
           r == [client[k] EXCEPT !.conn = link]
<1>2. link \in Redis!Conn /\ link.open /\ link.read = "none" /\ link.write = "none"
  BY <1>1 DEF Redis!Conn
<1>3. Redis!Drives(k, r, TRUE)
  BY <1>1 DEF Redis!CallbackRuns, ClientType
<1> HIDE DEF link
<1>4. /\ r \in ClientType /\ r.busy /\ r.place = "program" /\ r.cmd > 0 /\ r.conn = link
      /\ r.Buffer = client[k].Buffer /\ r.reply = client[k].reply /\ r.asked = client[k].asked
      /\ r.stream = client[k].stream /\ r.arrived = client[k].arrived
      /\ r.status = client[k].status /\ r.line = client[k].line
      /\ r.blockLeft = client[k].blockLeft
  BY <1>1, <1>2 DEF ClientType
<1> HIDE DEF r
<1>5. TakenOut(client[k]) => TakenOut(r)
  BY <1>4 DEF TakenOut, Progress, Blocks, NextAt
<1>6. Driven(r)
  BY <1>1, <1>2, <1>4, <1>5 DEF Driven, Silent, Unanswered
<1>7. UNCHANGED poolData /\ commands' \in 0..MaxCommands
  BY DEF Redis!CallbackRuns, RedisInv
<1> QED  BY <1>1, <1>3, <1>6, <1>7, RedisDrives

\* The command is written, or the connection has failed.
LEMMA RedisWrittenStep ==
  ASSUME RedisInv, NEW k \in Clients, Redis!Written(k)  PROVE RedisInv'
<1>1. /\ client[k] \in ClientType /\ client[k].busy /\ client[k].place = "program"
      /\ client[k].cmd > 0 /\ client[k].conn \in Redis!Conn /\ client[k].status = "send"
      /\ client[k].conn.open /\ client[k].conn.read = "none"
      /\ Silent(client[k]) /\ Unanswered(client[k])
  BY DEF Redis!Written, RedisInv, ClientInv, Waits, Idle, ClientType
<1>2. PICK fails \in BOOLEAN :
        Redis!Drives(k, [client[k] EXCEPT !.conn.write = "none", !.conn.ended = fails,
                                          !.asked = ~ fails], FALSE)
  BY DEF Redis!Written
<1> DEFINE link == [client[k].conn EXCEPT !.write = "none", !.ended = fails]
           r == [client[k] EXCEPT !.conn = link, !.asked = ~ fails]
<1>3. link \in Redis!Conn /\ link.open /\ link.read = "none" /\ link.write = "none" /\ link.ended = fails
  BY <1>1 DEF Redis!Conn
<1>4. Redis!Drives(k, r, FALSE)
  <2>1. [client[k] EXCEPT !.conn.write = "none", !.conn.ended = fails, !.asked = ~ fails] = r
    BY <1>1 DEF ClientType, Redis!Conn
  <2> QED  BY <1>2, <2>1
<1> HIDE DEF link
<1>5. /\ r \in ClientType /\ r.busy /\ r.place = "program" /\ r.cmd > 0 /\ r.conn = link
      /\ r.Buffer = client[k].Buffer /\ r.reply = client[k].reply /\ r.asked = ~ fails
      /\ r.stream = client[k].stream /\ r.arrived = client[k].arrived /\ r.status = "send"
  BY <1>1, <1>3 DEF ClientType
<1> HIDE DEF r
<1>6. Driven(r)
  BY <1>1, <1>3, <1>5 DEF Driven, Silent, Unanswered
<1>7. UNCHANGED poolData /\ commands' \in 0..MaxCommands
  BY DEF Redis!Written, RedisInv
<1> QED  BY <1>1, <1>4, <1>6, <1>7, RedisDrives

\* Some tokens have come, or the connection has ended.
LEMMA RedisReadableStep ==
  ASSUME RedisInv, NEW k \in Clients, Redis!Readable(k)  PROVE RedisInv'
<1> DEFINE o == client[k]
           link == [o.conn EXCEPT !.read = "none"]
<1>1. /\ o \in ClientType /\ o.busy /\ o.place = "program"
      /\ o.cmd > 0 /\ o.conn \in Redis!Conn /\ o.conn.open /\ o.conn.write = "none"
      /\ o.arrived = 0 /\ o.status \in {"head", "size", "data"}
      /\ o.stream = << >> \/ Unread(o)
  BY DEF Redis!Readable, RedisInv, ClientInv, Waits, Idle, ClientType
<1>2. UNCHANGED poolData /\ commands' \in 0..MaxCommands
  BY DEF Redis!Readable, RedisInv
<1>3. /\ link \in Redis!Conn /\ link.open /\ link.read = "none" /\ link.write = "none"
      /\ link.ended = o.conn.ended
  BY <1>1 DEF Redis!Conn
<1>4. ASSUME NEW n \in 1..Len(o.stream),
             Redis!Drives(k, Redis!Taken([o EXCEPT !.arrived = n, !.conn.read = "none"]), FALSE)
      PROVE  RedisInv'
  <2> DEFINE r == [o EXCEPT !.line = Head(o.stream), !.stream = Tail(o.stream),
                            !.arrived = n - 1, !.conn = link]
  <2>1. Redis!Drives(k, r, FALSE)
    <3>1. Redis!Taken([o EXCEPT !.arrived = n, !.conn.read = "none"]) = r
      BY <1>1 DEF Redis!Taken, ClientType
    <3> QED  BY <1>4, <3>1
  <2> HIDE DEF o, link
  <2>2. Unread(o)
    <3>1. o.stream # << >>
      BY <1>4, EmptySeq
    <3> QED  BY <1>1, <3>1
  <2>3. /\ o.stream = Rest(o.reply, NextAt(o)) /\ o.reply \in Seq(Token) /\ Len(o.reply) \in Nat
        /\ NextAt(o) \in 1..Len(o.reply) /\ NextAt(o) \in 1..(Len(o.reply) + 1)
        /\ o.reply[NextAt(o)] \in Token /\ Len(o.stream) \in Nat
    BY <1>1, <2>2, NextToken DEF Unread, Progress, ClientType
  <2>4. /\ Head(o.stream) = o.reply[NextAt(o)] /\ Tail(o.stream) = Rest(o.reply, NextAt(o) + 1)
        /\ Tail(o.stream) \in Seq(Token) /\ Len(Tail(o.stream)) = Len(o.stream) - 1
    <3> DEFINE i == NextAt(o)
               a == o.reply
    <3>1. /\ a \in Seq(Token) /\ i \in 1..(Len(a) + 1) /\ i + 1 \in 1..(Len(a) + 1)
          /\ i <= Len(a) /\ Len(a) \in Nat /\ i \in Nat /\ o.stream = Rest(a, i)
      BY <2>3
    <3> HIDE DEF i, a
    <3>2. /\ Head(Rest(a, i)) = a[i] /\ Tail(Rest(a, i)) = Rest(a, i + 1)
          /\ Len(Rest(a, i)) = Len(a) - i + 1
      BY <3>1, RestProperties
    <3>3. Rest(a, i + 1) \in Seq(Token) /\ Len(Rest(a, i + 1)) = Len(a) - (i + 1) + 1
      BY <3>1, RestProperties
    <3>4. Len(Rest(a, i + 1)) = Len(Rest(a, i)) - 1
      <4> DEFINE l == Len(a)
                 x == Len(Rest(a, i))
                 y == Len(Rest(a, i + 1))
      <4>1. l \in Nat /\ i \in Nat /\ x = l - i + 1 /\ y = l - (i + 1) + 1
        BY <3>1, <3>2, <3>3
      <4> HIDE DEF l, x, y
      <4>2. y = x - 1
        BY ONLY <4>1
      <4> QED  BY <4>2 DEF x, y
    <3> QED  BY <3>1, <3>2, <3>3, <3>4 DEF i, a
  <2>5. n - 1 \in Nat /\ n - 1 <= Len(Tail(o.stream))
    BY <1>4, <2>3, <2>4
  <2>6. /\ r \in ClientType /\ r.busy /\ r.place = "program" /\ r.cmd > 0 /\ r.conn = link
        /\ r.Buffer = o.Buffer /\ r.reply = o.reply /\ r.asked = o.asked
        /\ r.stream = Tail(o.stream) /\ r.arrived = n - 1
        /\ r.status = o.status /\ r.line = Head(o.stream) /\ r.blockLeft = o.blockLeft
    BY <1>1, <1>3, <2>3, <2>4, <2>5 DEF ClientType
  <2> HIDE DEF r
  <2>7. TakenOut(r)
    BY <2>2, <2>4, <2>5, <2>6 DEF Unread, TakenOut, Progress, Blocks, NextAt
  <2>8. Driven(r)
    BY <1>1, <1>3, <2>6, <2>7 DEF Driven
  <2> QED  BY <1>1, <1>2, <2>1, <2>8, RedisDrives DEF o
<1>5. ASSUME Redis!Drives(k, [o EXCEPT !.conn.read = "none", !.conn.ended = TRUE], FALSE)
      PROVE  RedisInv'
  <2> DEFINE d == [link EXCEPT !.ended = TRUE]
             r == [o EXCEPT !.conn = d]
  <2>1. Redis!Drives(k, r, FALSE)
    <3>1. [o EXCEPT !.conn.read = "none", !.conn.ended = TRUE] = r
      BY <1>1 DEF ClientType
    <3> QED  BY <1>5, <3>1
  <2>2. d \in Redis!Conn /\ d.ended
    BY <1>3 DEF Redis!Conn
  <2> HIDE DEF o, d
  <2>3. /\ r \in ClientType /\ r.busy /\ r.place = "program" /\ r.cmd > 0 /\ r.conn = d
        /\ r.status = o.status
    BY <1>1, <2>2 DEF ClientType
  <2> HIDE DEF r
  <2>4. Driven(r)
    BY <1>1, <2>2, <2>3 DEF Driven
  <2> QED  BY <1>1, <1>2, <2>1, <2>4, RedisDrives DEF o
<1> QED  BY <1>4, <1>5 DEF Redis!Readable

\* The server answers.
LEMMA RedisAnswerStep ==
  ASSUME RedisInv, NEW k \in Clients, Redis!ServerAnswers(k)  PROVE RedisInv'
<1> DEFINE o == client[k]
<1>1. /\ o \in ClientType /\ o.busy /\ o.place = "program" /\ o.cmd > 0 /\ o.asked
      /\ o.conn \in Redis!Conn /\ o.conn.open /\ o.conn.read = "wait" /\ o.conn.write = "none"
      /\ o.status = "head" /\ o.stream = << >> /\ o.arrived = 0 /\ o.Buffer = << >>
      /\ o.cmd \in 0..MaxCommands
  <2>1. o \in ClientType /\ o.asked /\ (IF o.busy THEN Waits(o) ELSE Idle(o))
    BY DEF Redis!ServerAnswers, RedisInv, ClientInv
  <2>2. ~ Idle(o)
    BY <2>1 DEF Idle, Silent
  <2>3. Waits(o) /\ o.busy
    BY <2>1, <2>2
  <2> QED  BY <2>1, <2>3 DEF Waits, Silent, Unread, TakenOut, Progress, Unanswered, ClientType
<1>2. PICK kinds \in Replies :
        client' = [client EXCEPT ![k].asked = FALSE, ![k].reply = Redis!Tokens(kinds, o.cmd),
                                 ![k].stream = @ \o Redis!Tokens(kinds, o.cmd)]
  BY DEF Redis!ServerAnswers
<1> DEFINE a == Redis!Tokens(kinds, o.cmd)
           s == [o EXCEPT !.asked = FALSE, !.reply = a, !.stream = a]
<1>3. a \in Seq(Token) /\ IsReply(a) /\ Len(a) >= 1 /\ Len(a) \in Nat
  BY <1>1, ServerReplies, LenProperties
<1> HIDE DEF a
<1>4. client' = [client EXCEPT ![k] = s]
  <2>1. o.stream \o a = a
    <3>1. << >> \o a = a
      BY <1>3, ConcatEmptySeq
    <3> QED  BY <1>1, <3>1
  <2>2. client' = [client EXCEPT ![k] = [o EXCEPT !.asked = FALSE, !.reply = a,
                                                  !.stream = o.stream \o a]]
    BY <1>1, <1>2 DEF RedisInv, ClientType, a
  <2> QED  BY <2>1, <2>2
<1>5. /\ s \in ClientType /\ s.busy /\ s.place = "program" /\ s.cmd > 0 /\ ~ s.asked
      /\ s.conn = o.conn /\ s.status = "head" /\ s.stream = a /\ s.reply = a /\ s.arrived = 0
      /\ s.Buffer = << >>
  BY <1>1, <1>3 DEF ClientType
<1> HIDE DEF s
<1>6. Unread(s)
  <2>1. NextAt(s) = 1 /\ Rest(a, 1) = a
    <3>1. 1 \in 1..(Len(a) + 1)
      BY <1>3
    <3> QED  BY <1>3, <1>5, <3>1, RestProperties DEF NextAt
  <2> QED  BY <1>3, <1>5, <2>1 DEF Unread, Progress
<1>7. ClientInv(s)
  BY <1>1, <1>5, <1>6 DEF ClientInv, Waits
<1> HIDE DEF o
<1>8. client' \in [Clients -> ClientType] /\ client'[k] = s
      /\ \A j \in Clients : j # k => client'[j] = client[j]
  BY <1>4, <1>5 DEF RedisInv
<1>9. PoolInv'
  <2>1. UNCHANGED poolData
    BY DEF Redis!ServerAnswers
  <2> QED  BY <1>1, <1>5, <1>8, <2>1 DEF RedisInv, PoolInv, o
<1>10. UNCHANGED poolData /\ UNCHANGED commands
  BY DEF Redis!ServerAnswers
<1> QED  BY <1>7, <1>8, <1>9, <1>10 DEF RedisInv

\* Taking the last element of a list without repetition.
LEMMA FrontProperties ==
  ASSUME NEW S, NEW list \in Seq(S), IsInjective(list), list # << >>
  PROVE  /\ Redis!Last(list) \in S /\ Redis!Last(list) \in Range(list)
         /\ Redis!Front(list) \in Seq(S) /\ IsInjective(Redis!Front(list))
         /\ Range(Redis!Front(list)) = Range(list) \ {Redis!Last(list)}
<1> DEFINE n == Len(list)
           front == Redis!Front(list)
<1>1. n \in Nat /\ n > 0 /\ DOMAIN list = 1..n
  BY LenProperties, EmptySeq
<1>2. front = SubSeq(list, 1, n - 1) /\ Redis!Last(list) = list[n]
  BY DEF Redis!Front, Redis!Last
<1>3. /\ front \in Seq(S) /\ DOMAIN front = 1..(n - 1)
      /\ \A i \in 1..(n - 1) : front[i] = list[i]
  <2>1. front \in Seq(S) /\ Len(front) = n - 1 /\ \A i \in 1..(n - 1) : front[i] = list[i]
    BY <1>1, <1>2, SubSeqProperties, SMTT(30)
  <2> QED  BY <2>1, LenProperties
<1> HIDE DEF front
<1>4. \A i, j \in 1..n : list[i] = list[j] => i = j
  BY <1>1 DEF IsInjective
<1>5. Range(list) = {list[i] : i \in 1..n} /\ Range(front) = {front[i] : i \in 1..(n - 1)}
  BY <1>1, <1>3 DEF Range
<1>6. list[n] \in S /\ list[n] \in Range(list)
  BY <1>1, <1>5, ElementOfSeq
<1>7. IsInjective(front)
  BY <1>1, <1>3, <1>4 DEF IsInjective
<1>8. Range(front) = Range(list) \ {list[n]}
  <2>1. ASSUME NEW x \in Range(front)  PROVE x \in Range(list) /\ x # list[n]
    BY <1>1, <1>3, <1>4, <1>5
  <2>2. ASSUME NEW x \in Range(list), x # list[n]  PROVE x \in Range(front)
    <3>1. PICK i \in 1..n : x = list[i]
      BY <1>5
    <3>2. i \in 1..(n - 1)
      BY <1>1, <2>2, <3>1
    <3> QED  BY <1>3, <1>5, <3>1, <3>2
  <2> QED  BY <2>1, <2>2
<1> QED  BY <1>2, <1>3, <1>6, <1>7, <1>8 DEF front

\* Putting a new element at the end.
LEMMA PutProperties ==
  ASSUME NEW S, NEW list \in Seq(S), IsInjective(list), NEW k \in S, k \notin Range(list)
  PROVE  /\ Append(list, k) \in Seq(S) /\ IsInjective(Append(list, k))
         /\ Range(Append(list, k)) = Range(list) \cup {k}
<1> DEFINE n == Len(list)
           longer == Append(list, k)
<1>1. n \in Nat /\ DOMAIN list = 1..n
  BY LenProperties
<1>2. longer \in Seq(S) /\ longer[n + 1] = k /\ \A i \in 1..n : longer[i] = list[i]
  BY AppendProperties
<1>3. DOMAIN longer = 1..(n + 1)
  BY <1>1, AppendProperties, LenProperties
<1> HIDE DEF longer
<1>4. Range(list) = {list[i] : i \in 1..n} /\ Range(longer) = {longer[i] : i \in 1..(n + 1)}
  BY <1>1, <1>3 DEF Range
<1>5. 1..(n + 1) = 1..n \cup {n + 1}
  BY <1>1
<1>6. Range(longer) = Range(list) \cup {k}
  BY <1>2, <1>4, <1>5
<1>7. \A i \in 1..n : list[i] # k
  BY <1>4
<1>8. \A i, j \in 1..n : list[i] = list[j] => i = j
  BY <1>1 DEF IsInjective
<1>9. IsInjective(longer)
  BY <1>2, <1>3, <1>5, <1>7, <1>8 DEF IsInjective
<1> QED  BY <1>2, <1>6, <1>9 DEF longer

\* A client goes to another place.
LEMMA MovedClient ==
  ASSUME NEW o \in ClientType, ~ o.busy, ClientInv(o),
         NEW p \in {"none", "program", "pool"}
  PROVE  /\ [o EXCEPT !.place = p] \in ClientType /\ ClientInv([o EXCEPT !.place = p])
         /\ [o EXCEPT !.place = p].place = p /\ [o EXCEPT !.place = p].conn = o.conn
         /\ [o EXCEPT !.place = p].busy = o.busy
<1> DEFINE s == [o EXCEPT !.place = p]
<1>1. /\ s \in ClientType /\ s.place = p /\ s.conn = o.conn /\ s.busy = o.busy
      /\ s.status = o.status /\ s.asked = o.asked /\ s.stream = o.stream
      /\ s.arrived = o.arrived /\ s.cmd = o.cmd /\ s.Error = o.Error /\ s.reply = o.reply
      /\ s.Buffer = o.Buffer
  BY DEF ClientType
<1> HIDE DEF s
<1>2. ClientInv(s)
  BY <1>1 DEF ClientInv, Idle, Silent
<1> QED  BY <1>1, <1>2 DEF s

\* A new client waits for nothing.
LEMMA FreshClient ==
  /\ Redis!Fresh \in ClientType /\ ClientInv(Redis!Fresh) /\ ~ Redis!Fresh.busy
  /\ Redis!Fresh.place = "none" /\ ~ Redis!Fresh.conn.open
<1>1. Redis!NoConn \in Redis!Conn
  BY DEF Redis!NoConn, Redis!Conn
<1>2. << >> \in Seq(Token)
  BY EmptySeq
<1>3. Redis!NoToken \in Token /\ 0 \in 0..MaxCommands
  BY RedisAssumption DEF RedisAssumption, Redis!NoToken, Token, Redis!Token, Redis!Kind
<1>4. Redis!Fresh \in ClientType
  BY <1>1, <1>2, <1>3 DEF Redis!Fresh, ClientType
<1>5. ~ Redis!NoConn.open /\ Redis!NoConn.read = "none" /\ Redis!NoConn.write = "none"
  BY DEF Redis!NoConn
<1>6. Idle(Redis!Fresh)
  BY <1>5 DEF Idle, Silent, Redis!Fresh
<1> QED  BY <1>4, <1>5, <1>6 DEF ClientInv, Redis!Fresh

\* A client that the program does not hold has no command.
LEMMA PooledIsIdle ==
  ASSUME RedisInv, NEW k \in Clients, client[k].place # "program"
  PROVE  ~ client[k].busy
BY DEF RedisInv, ClientInv, Waits

\* A client is given to the program.
LEMMA RedisGetStep ==
  ASSUME RedisInv, NEW k \in Clients, Redis!SpeRedisPoolGet(k)  PROVE RedisInv'
<1> DEFINE s == [client[k] EXCEPT !.place = "program"]
<1>1. client' = [client EXCEPT ![k] = s] /\ UNCHANGED commands
  BY DEF Redis!SpeRedisPoolGet
<1>2. client[k].place # "program" /\ client[k] \in ClientType
  <2>1. CASE poolData = << >>
    BY <2>1 DEF Redis!SpeRedisPoolGet, RedisInv
  <2>2. CASE poolData # << >>
    <3>1. k \in Range(poolData)
      BY <2>2, FrontProperties DEF RedisInv, PoolInv, Redis!SpeRedisPoolGet
    <3> QED  BY <3>1 DEF RedisInv, PoolInv
  <2> QED  BY <2>1, <2>2
<1>3. s \in ClientType /\ ClientInv(s) /\ s.place = "program"
  BY <1>2, PooledIsIdle, MovedClient DEF RedisInv
<1> HIDE DEF s
<1>4. client' \in [Clients -> ClientType] /\ client'[k] = s
      /\ \A j \in Clients : j # k => client'[j] = client[j]
  BY <1>1, <1>3 DEF RedisInv
<1>5. poolData' \in Seq(Clients) /\ PoolInv'
  <2>1. CASE poolData = << >>
    <3>1. poolData' = poolData /\ client[k].place = "none"
      BY <2>1 DEF Redis!SpeRedisPoolGet
    <3> QED  BY <1>3, <1>4, <3>1 DEF RedisInv, PoolInv
  <2>2. CASE poolData # << >>
    <3>1. poolData' = Redis!Front(poolData) /\ k = Redis!Last(poolData)
      BY <2>2 DEF Redis!SpeRedisPoolGet
    <3>2. /\ poolData' \in Seq(Clients) /\ IsInjective(poolData')
          /\ Range(poolData') = Range(poolData) \ {k}
      BY <2>2, <3>1, FrontProperties DEF RedisInv, PoolInv
    <3>3. \A j \in Clients : client'[j].place = "pool" <=> j \in Range(poolData')
      BY <1>3, <1>4, <3>2 DEF RedisInv, PoolInv
    <3> QED  BY <1>3, <1>4, <3>2, <3>3 DEF RedisInv, PoolInv
  <2> QED  BY <2>1, <2>2
<1> QED  BY <1>1, <1>3, <1>4, <1>5 DEF RedisInv

\* A client comes back, or is destroyed if there is no room.
LEMMA RedisPutStep ==
  ASSUME RedisInv, NEW k \in Clients, Redis!SpeRedisPoolPut(k)  PROVE RedisInv'
<1>1. /\ client[k].place = "program" /\ ~ client[k].busy /\ UNCHANGED commands
      /\ client[k] \in ClientType /\ ClientInv(client[k])
  BY DEF Redis!SpeRedisPoolPut, RedisInv
<1>2. k \notin Range(poolData)
  BY <1>1 DEF RedisInv, PoolInv
<1>3. CASE Len(poolData) = PoolSize
  <2>1. client' = [client EXCEPT ![k] = Redis!Fresh] /\ UNCHANGED poolData
    BY <1>3 DEF Redis!SpeRedisPoolPut
  <2>2. client' \in [Clients -> ClientType] /\ client'[k] = Redis!Fresh
        /\ \A j \in Clients : j # k => client'[j] = client[j]
    BY <2>1, FreshClient DEF RedisInv
  <2>3. PoolInv'
    BY <1>2, <2>1, <2>2, FreshClient DEF RedisInv, PoolInv
  <2> QED  BY <1>1, <2>1, <2>2, <2>3, FreshClient DEF RedisInv
<1>4. CASE Len(poolData) # PoolSize
  <2> DEFINE s == [client[k] EXCEPT !.place = "pool"]
  <2>1. client' = [client EXCEPT ![k] = s] /\ poolData' = Append(poolData, k)
    BY <1>4 DEF Redis!SpeRedisPoolPut
  <2>2. s \in ClientType /\ ClientInv(s) /\ s.place = "pool"
    BY <1>1, MovedClient
  <2> HIDE DEF s
  <2>3. client' \in [Clients -> ClientType] /\ client'[k] = s
        /\ \A j \in Clients : j # k => client'[j] = client[j]
    BY <2>1, <2>2 DEF RedisInv
  <2>4. /\ poolData' \in Seq(Clients) /\ IsInjective(poolData')
        /\ Range(poolData') = Range(poolData) \cup {k}
    BY <1>2, <2>1, PutProperties DEF RedisInv, PoolInv
  <2>5. \A j \in Clients : client'[j].place = "pool" <=> j \in Range(poolData')
    BY <2>2, <2>3, <2>4 DEF RedisInv, PoolInv
  <2>6. PoolInv'
    BY <2>2, <2>3, <2>4, <2>5 DEF RedisInv, PoolInv
  <2> QED  BY <1>1, <2>2, <2>3, <2>4, <2>6 DEF RedisInv
<1> QED  BY <1>3, <1>4

\* The pool is destroyed with the clients in it.
LEMMA RedisDestroyStep ==
  ASSUME RedisInv, Redis!SpeRedisPoolDestroy  PROVE RedisInv'
<1>1. /\ client' = [k \in Clients |-> IF k \in Redis!Range(poolData) THEN Redis!Fresh ELSE client[k]]
      /\ poolData' = << >> /\ UNCHANGED commands
  BY DEF Redis!SpeRedisPoolDestroy
<1>2. Redis!Range(poolData) = Range(poolData)
  BY DEF Redis!Range, Range
<1>3. client' \in [Clients -> ClientType]
      /\ \A k \in Clients : client'[k] = IF k \in Range(poolData) THEN Redis!Fresh ELSE client[k]
  BY <1>1, <1>2, FreshClient DEF RedisInv
<1>4. \A k \in Clients : ClientInv(client'[k])
  BY <1>3, FreshClient DEF RedisInv
<1>5. poolData' \in Seq(Clients) /\ IsInjective(poolData') /\ Range(poolData') = {}
  <2>1. << >> \in Seq(Clients) /\ DOMAIN << >> = {}
    BY EmptySeq
  <2> QED  BY <1>1, <2>1 DEF IsInjective, Range
<1>6. \A k \in Clients : client'[k].place # "pool"
  BY <1>3, FreshClient DEF RedisInv, PoolInv
<1>7. \A k \in Clients : client'[k].place = "none" => ~ client'[k].conn.open
  BY <1>3, FreshClient DEF RedisInv, PoolInv
<1> QED  BY <1>1, <1>3, <1>4, <1>5, <1>6, <1>7 DEF RedisInv, PoolInv

\* Every step of the program, the connection, the server and the pool.
LEMMA RedisStep ==
  ASSUME RedisInv, [Redis!Next]_(Redis!vars)  PROVE RedisInv'
<1>1. CASE UNCHANGED Redis!vars
  BY <1>1 DEF RedisInv, PoolInv, Redis!vars
<1>2. ASSUME NEW k \in Clients,
             \/ Redis!SpeRedisPoolGet(k) \/ Redis!SpeRedisPoolPut(k) \/ Redis!SpeRedisDo(k)
             \/ Redis!Connected(k) \/ Redis!CallbackRuns(k) \/ Redis!Written(k)
             \/ Redis!Readable(k) \/ Redis!ServerAnswers(k)
      PROVE  RedisInv'
  BY <1>2, RedisGetStep, RedisPutStep, RedisDoStep, RedisConnectedStep, RedisCallbackStep,
     RedisWrittenStep, RedisReadableStep, RedisAnswerStep, Zenon
<1> QED  BY <1>1, <1>2, RedisDestroyStep DEF Redis!Next

\* At the start there is no client.
LEMMA RedisStart == Redis!Init => RedisInv
<1> SUFFICES ASSUME Redis!Init  PROVE RedisInv
  OBVIOUS
<1>1. client = [k \in Clients |-> Redis!Fresh] /\ poolData = << >> /\ commands = 0
  BY DEF Redis!Init
<1>2. poolData \in Seq(Clients) /\ IsInjective(poolData) /\ Range(poolData) = {}
  <2>1. << >> \in Seq(Clients) /\ DOMAIN << >> = {}
    BY EmptySeq
  <2> QED  BY <1>1, <2>1 DEF IsInjective, Range
<1>3. commands \in 0..MaxCommands
  BY <1>1, RedisAssumption DEF RedisAssumption
<1>4. PoolInv
  BY <1>1, <1>2, FreshClient DEF PoolInv
<1> QED  BY <1>1, <1>2, <1>3, <1>4, FreshClient DEF RedisInv

\* Every client is idle or at a place of its reply that the driver knows: the
\* Buffer has the blocks so far, and the stream is what follows that place.
THEOREM RedisInvariance == Redis!Spec => []RedisInv
BY RedisStart, RedisStep, PTL DEF Redis!Spec

\* spe_redis.c:139-193, 202-218.  A command that succeeds has its own reply,
\* all of it, and nothing of an earlier one.
THEOREM RepliesAreOfCommands == Redis!Spec => []ReplyIsOfCommand
<1>1. RedisInv => ReplyIsOfCommand
  BY DEF RedisInv, ClientInv, Idle, ReplyIsOfCommand, Redis!ReplyIsOfCommand
<1> QED  BY <1>1, RedisInvariance, PTL

\* spe_redis.c:61-82.  A client in the pool is there once, waits for nothing and
\* has nothing unread; a client nobody holds has no connection.
THEOREM PooledAreQuiet == Redis!Spec => []PooledIsQuiet
<1>1. ASSUME RedisInv  PROVE PooledIsQuiet
  <2>1. Redis!IsInjective(poolData) /\ Redis!Range(poolData) = Range(poolData)
    BY <1>1 DEF RedisInv, PoolInv, IsInjective, Redis!IsInjective, Range, Redis!Range
  <2>2. ASSUME NEW k \in Clients, client[k].place = "pool"
        PROVE  /\ ~ client[k].busy /\ client[k].stream = << >> /\ ~ client[k].asked
               /\ client[k].conn.read = "none" /\ client[k].conn.write = "none"
               /\ client[k].status = IF client[k].conn.open THEN "conn" ELSE "init"
    <3>1. Idle(client[k]) /\ ~ client[k].busy
      BY <1>1, <2>2, PooledIsIdle DEF RedisInv, ClientInv
    <3> QED  BY <3>1 DEF Idle, Silent
  <2> QED  BY <1>1, <2>1, <2>2 DEF PooledIsQuiet, Redis!PooledIsQuiet, RedisInv, PoolInv
<1> QED  BY <1>1, RedisInvariance, PTL
=============================================================================
