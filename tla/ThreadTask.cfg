SPECIFICATION Spec
CONSTANTS
  p = p
  q = q
  a = a
  b = b
  NoTask = NoTask
  Threads <- MCThreads
  Tasks <- MCTasks
CHECK_DEADLOCK FALSE
INVARIANT ThreadLoopFindsTask
