\* Three clients: one sends ahead, the requests of one may come in two pieces, one is
\* silent; two descriptors, batches of two events.
SPECIFICATION Spec
CONSTANTS
  c1 = c1
  c2 = c2
  c3 = c3
  Client <- MCThreeClients
  Listener = 0
  MaxFd = 2
  MaxEvents = 2
  CountModulus = 4
  UninitializedCounts = {0}
  PendingConnections = 10
  MaxOutstanding <- MCImpatient
  Pieces <- MCSecondInPieces
  CheckEvery = 1
  IdleLimit = 1
  TickLength = 1
  NULL = NULL
INVARIANTS TypeOK RequestsAccountedFor ConnectionsMirrorDescriptors PendingEventsAreLive DiesOnlyAtDescriptorLimit NotifierCallsSucceed
PROPERTY ClosedForAReason
CHECK_DEADLOCK FALSE
