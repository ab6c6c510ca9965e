SPECIFICATION FairSpec
CONSTANTS
  x = x
  y = y
  NoTask = NoTask
  Never = Never
  Conns <- OneConn
  AppOps <- Reading
  ExpireTimes <- ZeroOrOne
  Delims <- DelimAtTwo
  MaxSent = 3
  BUF_SIZE = 2
  MaxWrite = 0
  MaxTime = 2
INVARIANTS TypeOK RequestIsHeld WaitNeedsMore
PROPERTIES TimeoutIsEarned PlainCallbackMeansDone PeerEndAnswersRead
