SPECIFICATION Spec
CONSTANTS
  p = p
  q = q
  Clients <- MCClients
  Replies <- MCReplies
  PoolSize = 1
  MaxCommands = 2
CHECK_DEADLOCK FALSE
INVARIANT HeadIsFirstLine
