\* Two clients, the requests of one of which may come in two pieces; batches of one event.
SPECIFICATION FairSpec
CONSTANTS
  c1 = c1
  c2 = c2
  c3 = c3
  Client <- MCTwoClients
  Listener = 0
  MaxFd = 2
  MaxEvents = 1
  CountModulus = 4
  UninitializedCounts = {0}
  PendingConnections = 10
  MaxOutstanding <- MCOneEach
  Pieces <- MCFirstInPieces
  CheckEvery = 2
  IdleLimit = 1
  TickLength = 1
  NULL = NULL
INVARIANT NothingForgotten
PROPERTIES RequestsAnswered IdleConnectionsClosed StopsWhenAsked
CHECK_DEADLOCK FALSE
