SPECIFICATION FairSpec
CONSTANTS
  Streaming = TRUE
  MaxOps = 3
  MaxResponses = 2
  MayCancel = TRUE
INVARIANTS MessagesInOrder NoReadPastEnd ClientItemsRefused
PROPERTIES   CancelReachesStreamingOnly
\* A call ends.
CHECK_DEADLOCK FALSE
