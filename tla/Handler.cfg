\* Requests two at a time, cut into any segments, on both kinds of network;
\* some of them are refused in their middle.
SPECIFICATION FairSpec
CONSTANTS
  Request <- MCRequest
  MaxRequests = 2
  MaxOutstanding = 2
  ReceiveBuffer = 4
  BufferSize = 3
INVARIANTS TypeOK StreamAligned PlaceKept
PROPERTIES ImplementsRequestReply EveryRequestAnswered HandlerResponds
CHECK_DEADLOCK FALSE
