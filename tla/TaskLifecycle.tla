---------------------------- MODULE TaskLifecycle ----------------------------
(***************************************************************************)
(* What the scheduler of src/spe/spe_task.c promises its callers, without  *)
(* the lists, the tree, the counter and the status words it uses: work     *)
(* runs one task at a time in the order it was submitted, and an alarm     *)
(* turns into work no earlier than its time and no later than any alarm    *)
(* set for a later time.                                                   *)
(***************************************************************************)
EXTENDS Integers, Sequences, SequencesExt

CONSTANTS Tasks,
          Nobody,      \* not a task
          Never        \* not a time

VARIABLES line,      \* submitted work, oldest first
          alarm,     \* when each task wants to be woken, or Never
          active,    \* the task that is running, or Nobody
          now        \* the time

vars == <<line, alarm, active, now>>

Idle(t) == t # active /\ t \notin ToSet(line)

Init ==
  /\ line = << >>
  /\ alarm = [t \in Tasks |-> Never]
  /\ active = Nobody
  /\ now \in Nat

\* Submitting a task that waits for its alarm replaces the alarm.
Submit(t) ==
  /\ Idle(t)
  /\ line' = Append(line, t)
  /\ alarm' = [alarm EXCEPT ![t] = Never]
  /\ UNCHANGED <<active, now>>

Withdraw(t) ==
  /\ \E i \in DOMAIN line : line[i] = t /\ line' = RemoveAt(line, i)
  /\ UNCHANGED <<alarm, active, now>>

SetAlarm(t) ==
  /\ Idle(t)
  /\ alarm'[t] \in Nat
  /\ alarm'[t] >= now
  /\ alarm' = [alarm EXCEPT ![t] = alarm'[t]]
  /\ UNCHANGED <<line, active, now>>

ClearAlarm(t) ==
  /\ alarm' = [alarm EXCEPT ![t] = Never]
  /\ UNCHANGED <<line, active, now>>

\* The earliest alarm, once its time has come, becomes work.
Ring(t) ==
  /\ alarm[t] # Never
  /\ alarm[t] <= now
  /\ \A u \in Tasks : alarm[u] # Never => alarm[t] <= alarm[u]
  /\ line' = Append(line, t)
  /\ alarm' = [alarm EXCEPT ![t] = Never]
  /\ UNCHANGED <<active, now>>

Start ==
  /\ active = Nobody
  /\ line # << >>
  /\ active' = Head(line)
  /\ line' = Tail(line)
  /\ UNCHANGED <<alarm, now>>

Finish ==
  /\ active # Nobody
  /\ active' = Nobody
  /\ UNCHANGED <<line, alarm, now>>

Later ==
  /\ now' \in Nat
  /\ now' > now
  /\ UNCHANGED <<line, alarm, active>>

Next ==
  \/ Start \/ Finish \/ Later
  \/ \E t \in Tasks :
       Submit(t) \/ Withdraw(t) \/ SetAlarm(t) \/ ClearAlarm(t) \/ Ring(t)

Spec == Init /\ [][Next]_vars
=============================================================================
