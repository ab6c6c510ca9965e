SPECIFICATION Spec
CONSTANTS
  x = x
  y = y
  NoTask = NoTask
  Never = Never
  Conns <- OneConn
  AppOps <- ReadBytes
  ExpireTimes <- NoTimeout
  Delims <- NoDelim
  MaxSent = 3
  BUF_SIZE = 3
  MaxWrite = 0
  MaxTime = 0
INVARIANT SyncAnswerIsCalled
