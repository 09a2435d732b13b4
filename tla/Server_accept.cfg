\* Two connections that arrive together.
SPECIFICATION FairSpec
CONSTANTS
  c1 = c1
  c2 = c2
  c3 = c3
  Client <- MCTwoClients
  Listener = 0
  MaxFd = 2
  MaxEvents = 2
  CountModulus = 4
  UninitializedCounts = {0}
  PendingConnections = 10
  MaxOutstanding <- MCSilent
  Pieces <- MCFirstInPieces
  CheckEvery = 2
  IdleLimit = 1
  TickLength = 1
  NULL = NULL
PROPERTY EveryConnectionAccepted
CHECK_DEADLOCK FALSE
