SPECIFICATION Spec
CONSTANTS
  x = x
  y = y
  NoTask = NoTask
  Never = Never
  Conns <- TwoConns
  AppOps <- Pair
  ExpireTimes <- NoTimeout
  Delims <- NoDelim
  MaxSent = 1
  BUF_SIZE = 1
  MaxWrite = 0
  MaxTime = 0
INVARIANTS SchedulerIntact DestroyedIsQuiet
PROPERTY OnlyOwnCallbackIsRefused
