SPECIFICATION PoolSpec
CONSTANTS
  main = main
  p = p
  q = q
  i = i
  j = j
  k = k
  NoJob = NoJob
  NoThread = NoThread
  Threads <- TwoThreads
  Callers <- OneCaller
  Jobs <- ThreeJobs
CHECK_DEADLOCK FALSE
INVARIANT DeinitWaits
