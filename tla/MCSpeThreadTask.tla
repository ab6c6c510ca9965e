--------------------------- MODULE MCSpeThreadTask ---------------------------
(* Two threads that queue and withdraw two tasks. *)
EXTENDS SpeThreadTask

CONSTANTS p, q, a, b

MCThreads == {p, q}
MCTasks == {a, b}
=============================================================================
