SPECIFICATION Spec
CONSTANTS
  x = x
  y = y
  NoTask = NoTask
  Never = Never
  Conns <- OneConn
  AppOps <- ReadUntil
  ExpireTimes <- ZeroOrOne
  Delims <- DelimAtTwo
  MaxSent = 2
  BUF_SIZE = 1
  MaxWrite = 0
  MaxTime = 1
INVARIANT TimedReadIsArmed
