SPECIFICATION MCSpec
CONSTANTS
  Signals = {user1, user2}
  NoSignal = nil
  MAX_SIGNAL = 2
  MaxDeliveries = 2
  Clients = {user1, user2}
  PoolSize = 1
  MaxCommands = 2
  Replies <- MCReplies
  Requests = {user1, user2}
  NoRequest = nil
  MaxHandlers = 1
  Monitors = {user1, user2}
  Routines = {item1, item2, item3}
  Main = nil
  Heads = {bucket1, bucket2}
  Entries = {item1, item2, item3}
  NULL = nil
  Buckets = {bucket1, bucket2}
  Nodes = {item1, item2, item3}
  Names <- MCNames
  Stored <- MCStored
  Hash <- MCHash
  Objects = {item1, item2, item3}
  MaxItems = 3
  Slack = 1
  FirstSize = 2
  Phrases <- MCPhrases
  Patterns <- MCPatterns
  MaxLen = 4
  MaxPieces = 2
  Files <- MCFiles
  BUF_LEN = 2
  MaxBytes = 2
  MaxWrites = 1
  Sections = {"global", "main"}
  Keys = {"k"}
  Values = {"1", "2"}
  MaxLines = 3
  Streams <- MCStreams
  Addresses = 2
  BUF_SIZE = 2
  MaxFailures = 1
  bucket1 = bucket1
  bucket2 = bucket2
CHECK_DEADLOCK FALSE
INVARIANTS
  SignalIsHeld ReplyIsOfCommand PooledIsQuiet RequestsAreOwned
  ListsAreSequences TreeIsRedBlack StringsAreSound MapIsDictionary 
