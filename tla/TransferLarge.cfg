SPECIFICATION Spec
CONSTANTS
  Base = 4
  Radix = 4
  Wide = 6
  Registry <- MCRegistry
  Methods = {"none"}
  Buffers <- MCLargeBuffers
  Messages <- MCResponses
  Controls <- MCNoControls
  MaxControls = 0
  Orders <- MCOrders
INVARIANT LargeResponseSurvives
CHECK_DEADLOCK FALSE
