----------------------------- MODULE MCSpeTpool ------------------------------
(* Constants for checking SpeTpool. *)
EXTENDS SpeTpool

CONSTANTS main, p, q, i, j, k

OneCaller  == {main}
TwoThreads == {p, q}
ThreeJobs  == {i, j, k}
=============================================================================
