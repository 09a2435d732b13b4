\* Buffers smaller than an answer, and a record longer than one sendfile transfers.
SPECIFICATION FairSpec
CONSTANTS
  p1 = p1
  p2 = p2
  NULL = NULL
  Process <- MCTwo
  CommandLines <- MCCommandLines
  Text <- MCText
  SendBuffer = 7
  ReceiveBuffer = 12
  MaxTransfer = 13
  Segments <- MCSegments
INVARIANTS TypeOK AnswersComplete ShownFromRecord DiesOnlySendingValues
PROPERTIES ImplementsService ProcessesEnd ServerReturns
CHECK_DEADLOCK FALSE
