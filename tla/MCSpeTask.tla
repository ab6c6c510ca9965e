------------------------------ MODULE MCSpeTask ------------------------------
(* Constants for checking SpeTask. *)
EXTENDS SpeTask

CONSTANTS a, b, c

TwoTasks   == {a, b}
ThreeTasks == {a, b, c}
TwoDelays  == {0, 1}
=============================================================================
