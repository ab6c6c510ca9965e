------------------------------ MODULE MCLibrary ------------------------------
(* The parts of the library that one process runs by itself, one at a time: *)
(* the first state chooses the part that moves.                             *)
EXTENDS Drivers, Structures

CONSTANTS bucket1, bucket2

VARIABLES part, tree, order

treeVars   == <<tree, order>>
mcVars     == <<part, driverVars, structureVars, treeVars>>

-----------------------------------------------------------------------------
\* The replies of MCSpeRedis without those that make the client lose its place:
\* an array with a nil in it, and an empty bulk.
MCReplies ==
  {<<"status">>, <<"nil">>, <<"bulk", "data">>,
   <<"array", "bulk", "data", "bulk", "data">>}

\* Two keys are kept as "cache"; one of them falls into its bucket.
MCNames == {"host", "range", "cache", "cache-1", "cache-2"}
MCStored == [k \in MCNames |-> IF k \in {"cache-1", "cache-2"} THEN "cache" ELSE k]
MCHash == [k \in MCNames |-> IF k \in {"cache", "cache-2"} THEN bucket1 ELSE bucket2]

MCFiles == UNION {[1..n -> {"x", "n"}] : n \in 0..4}
\* One text is a NUL.
MCPhrases == {<<" ">>, <<"a", "b">>, <<"0">>}
MCPatterns == {<<"b">>, <<"a", "b">>}

MCStreams == UNION {[1..n -> {"x", "n"}] : n \in 0..3}

\* Eight timers, of which two pairs expire together.
Tree == INSTANCE SpeRbtree WITH
  Nodes <- 1..8, Key <- <<1, 2, 2, 3, 4, 4, 5, 6>>, t <- tree

-----------------------------------------------------------------------------
\* A part that stays has its smallest first state.
MCInit ==
  /\ part \in {"signal", "redis", "http", "monitor", "list", "hlist", "tree",
               "string", "slist", "map", "io", "options", "routine", "conb"}
  /\ Signal!Init /\ Redis!Init /\ Http!Init /\ Monitor!Init
  /\ List!Init /\ Hlist!Init /\ Tree!Init /\ String!Init /\ Map!Init
  /\ Io!Init /\ (part # "io" => rest = <<>>)
  /\ Options!Init /\ (part # "options" => file = <<>>)
  /\ Routine!Init /\ Conb!Init

Unmoved(others) == UNCHANGED <<part, others>>

SignalMoves ==
  /\ part = "signal" /\ Signal!Next
  /\ Unmoved(<<redisVars, httpVars, monitorVars, routineVars, structureVars, treeVars>>)
RedisMoves ==
  /\ part = "redis" /\ Redis!Next
  /\ Unmoved(<<signalVars, httpVars, monitorVars, routineVars, structureVars, treeVars>>)
HttpMoves ==
  /\ part = "http" /\ Http!Next
  /\ Unmoved(<<signalVars, redisVars, monitorVars, routineVars, structureVars, treeVars>>)
MonitorMoves ==
  /\ part = "monitor" /\ Monitor!Next
  /\ Unmoved(<<signalVars, redisVars, httpVars, routineVars, structureVars, treeVars>>)
RoutineMoves ==
  /\ part = "routine" /\ Routine!Next
  /\ Unmoved(<<signalVars, redisVars, httpVars, monitorVars, structureVars, treeVars>>)

ListMoves ==
  /\ part = "list" /\ List!Next
  /\ Unmoved(<<driverVars, chainVars, mapVars, stringVars, ioVars, optVars, conbVars, treeVars>>)
HlistMoves ==
  /\ part = "hlist" /\ Hlist!Next
  /\ Unmoved(<<driverVars, listVars, mapVars, stringVars, ioVars, optVars, conbVars, treeVars>>)
MapMoves ==
  /\ part = "map" /\ Map!Next
  /\ Unmoved(<<driverVars, listVars, chainVars, stringVars, ioVars, optVars, conbVars, treeVars>>)
IoMoves ==
  /\ part = "io" /\ Io!Next
  /\ Unmoved(<<driverVars, listVars, chainVars, mapVars, stringVars, optVars, conbVars, treeVars>>)
OptionsMove ==
  /\ part = "options" /\ Options!Next
  /\ Unmoved(<<driverVars, listVars, chainVars, mapVars, stringVars, ioVars, conbVars, treeVars>>)
ConbMoves ==
  /\ part = "conb" /\ Conb!Next
  /\ Unmoved(<<driverVars, listVars, chainVars, mapVars, stringVars, ioVars, optVars, treeVars>>)

TreeMoves ==
  part = "tree" /\ Tree!Next /\ Unmoved(<<driverVars, structureVars>>)
StringMoves ==
  /\ \/ part = "string" /\ String!StringNext
     \/ part = "slist" /\ String!SlistNext
  /\ Unmoved(<<driverVars, listVars, chainVars, mapVars, ioVars, optVars, conbVars, treeVars>>)

MCNext ==
  \/ SignalMoves \/ RedisMoves \/ HttpMoves \/ MonitorMoves
  \/ ListMoves \/ HlistMoves \/ TreeMoves
  \/ StringMoves \/ MapMoves \/ IoMoves \/ OptionsMove
  \/ RoutineMoves \/ ConbMoves

MCSpec == MCInit /\ [][MCNext]_mcVars

-----------------------------------------------------------------------------
\* spe_rbtree.c:25-451.  The tree stays balanced and in order.
TreeIsRedBlack == Tree!TreeIsRedBlack
=============================================================================
