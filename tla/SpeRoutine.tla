------------------------------ MODULE SpeRoutine ------------------------------
(***************************************************************************)
(* The coroutines of src/spe/leagcy/spe_routine.c.  One thread: the        *)
(* routine that runs creates, resumes and destroys routines, yields or     *)
(* returns from its handler.  The program resumes and destroys only        *)
(* routines that are suspended, and main, which has nobody to return to,   *)
(* does not yield.                                                         *)
(***************************************************************************)
EXTENDS FiniteSets

CONSTANTS Routines,
          Main          \* the thread itself, no routine

VARIABLES live,           \* the routines that are allocated
          curr_routine,
          prev, finished, \* fields of each routine
          context         \* where each is: "start", "yield", "runs", or the
                          \* routine it is resuming

vars == <<live, curr_routine, prev, finished, context>>

TypeOK ==
  /\ live \subseteq Routines /\ curr_routine \in Routines \cup {Main}
  /\ prev \in [Routines -> Routines \cup {Main}]
  /\ finished \in [Routines -> BOOLEAN]
  /\ context \in [Routines \cup {Main} -> {"start", "yield", "runs"} \cup Routines]

Init ==
  /\ live = {} /\ curr_routine = Main
  /\ prev = [r \in Routines |-> Main]
  /\ finished = [r \in Routines |-> FALSE]
  /\ context = [r \in Routines \cup {Main} |-> IF r = Main THEN "runs" ELSE "start"]

Suspended(r) == r \in live /\ context[r] \in {"start", "yield"}

spe_routine_create(r) ==
  /\ r \notin live
  /\ live' = live \cup {r}
  /\ finished' = [finished EXCEPT ![r] = FALSE]
  /\ context' = [context EXCEPT ![r] = "start"]
  /\ prev' = [prev EXCEPT ![r] = Main]
  /\ UNCHANGED curr_routine

spe_routine_destroy(r) ==
  /\ Suspended(r)
  /\ live' = live \ {r}
  /\ UNCHANGED <<curr_routine, prev, finished, context>>

\* Up to swapcontext; the other routine goes on where it was.
spe_routine_resume(r) ==
  /\ Suspended(r)
  /\ prev' = [prev EXCEPT ![r] = curr_routine]
  /\ curr_routine' = r
  /\ context' = [context EXCEPT ![curr_routine] = r, ![r] = "runs"]
  /\ UNCHANGED <<live, finished>>

\* The routine that runs leaves, and the one before it goes on behind its
\* swapcontext, with the routine it resumed.
BackToPrev(leaves) ==
  LET p == prev[curr_routine]
  IN  /\ curr_routine' = p
      /\ live' = IF finished'[context[p]] THEN live \ {context[p]} ELSE live
      /\ context' = [context EXCEPT ![curr_routine] = leaves, ![p] = "runs"]

spe_routine_yield ==
  /\ curr_routine # Main
  /\ UNCHANGED <<prev, finished>>
  /\ BackToPrev("yield")

\* The handler returned.
routine_main ==
  /\ curr_routine # Main
  /\ finished' = [finished EXCEPT ![curr_routine] = TRUE]
  /\ UNCHANGED prev
  /\ BackToPrev("runs")

Next ==
  \/ \E r \in Routines :
       spe_routine_create(r) \/ spe_routine_destroy(r) \/ spe_routine_resume(r)
  \/ spe_routine_yield \/ routine_main

Spec == Init /\ [][Next]_vars

-----------------------------------------------------------------------------
\* spe_routine.c:9-84.  Whoever resumed a routine is the one it returns to, no
\* matter how often it was suspended and who resumed it before: the routines
\* inside a resume form one chain from main to the routine that runs, all of
\* them allocated; and a routine that has finished is freed.
RoutinesNest ==
  /\ \A r \in Routines \cup {Main} :
       context[r] \in Routines /\ r \in live \cup {Main} =>
         context[r] \in live /\ prev[context[r]] = r
  /\ \A r \in live : ~ Suspended(r) => context[prev[r]] = r
  /\ \A r \in live : ~ Suspended(r) /\ r # curr_routine => context[r] \in Routines
  /\ curr_routine \in live \cup {Main}
  /\ \A r \in live : ~ finished[r]
=============================================================================
