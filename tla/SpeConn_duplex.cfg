SPECIFICATION Spec
CONSTANTS
  x = x
  y = y
  NoTask = NoTask
  Never = Never
  Conns <- OneConn
  AppOps <- Duplex
  ExpireTimes <- One
  Delims <- NoDelim
  MaxSent = 0
  BUF_SIZE = 1
  MaxWrite = 2
  MaxTime = 1
INVARIANT MaskMatchesRequest
PROPERTIES ImplementsConnSpec NoStrayCallback PlainCallbackMeansDone
