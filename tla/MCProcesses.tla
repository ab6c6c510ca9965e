----------------------------- MODULE MCProcesses -----------------------------
(* The parts with several processes or threads, one at a time: the first    *)
(* state chooses the part that moves.                                       *)
EXTENDS SpeServer, SpeWorker, SpeTpool

VARIABLE part

serverVars == <<pc, loopVars, arrived, taken, deaths>>
mcVars == <<part, serverVars, allVars, tpoolVars>>

MCInit == part \in {"server", "worker", "pool"} /\ Init /\ WorkerInit /\ PoolInit

\* A step of one part.
ServerStep(A) == part = "server" /\ A /\ UNCHANGED <<part, allVars, tpoolVars>>
WorkerStep(A) == part = "worker" /\ A /\ UNCHANGED <<part, serverVars, tpoolVars>>
PoolStep(A)   == part = "pool" /\ A /\ UNCHANGED <<part, serverVars, allVars>>

ServerMoves == ServerStep(Next)
WorkersMove == WorkerStep(WorkerNext)
PoolMoves   == PoolStep(PoolNext)

\* The fairness of the part that moves.
MCFairness ==
  /\ \A p \in Procs : WF_mcVars(ServerStep(Loop(p))) /\ SF_mcVars(ServerStep(PollReports(p)))
  /\ \A s \in Senders : WF_mcVars(WorkerStep(Send(s)))
  /\ \A w \in Workers : WF_mcVars(WorkerStep(worker_routine(w)))
  /\ \A t \in Threads : WF_mcVars(PoolStep(Routine(t)))
  /\ \A j \in Jobs : WF_mcVars(PoolStep(RoutineOnce(j)))
  /\ \A c \in Callers : WF_mcVars(PoolStep(GoesOn(c)))

MCSpec == MCInit /\ [][ServerMoves \/ WorkersMove \/ PoolMoves]_mcVars /\ MCFairness
=============================================================================
