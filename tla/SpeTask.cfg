SPECIFICATION FairSpec
CONSTANTS
  a = a
  b = b
  c = c
  NoTask = NoTask
  Never = Never
  Tasks <- ThreeTasks
  Delays <- TwoDelays
  MaxTime = 2
INVARIANTS TypeOK QueueConsistent TimersConsistent OneRuns
PROPERTIES TimeoutIsDue NoDueTimerLeft ImplementsLifecycle QueuedTaskRuns DueTimerFires
