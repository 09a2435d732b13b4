\* A reader that takes what its two reads return; the server is never held up.
SPECIFICATION Spec
CONSTANTS
  p1 = p1
  p2 = p2
  NULL = NULL
  Process <- MCTwo
  CommandLines <- MCCommandLines
  Text <- MCText
  SendBuffer = 20
  ReceiveBuffer = 20
  MaxTransfer = 30
  Segments <- MCSegments
INVARIANT ShownIsValue
CHECK_DEADLOCK FALSE
