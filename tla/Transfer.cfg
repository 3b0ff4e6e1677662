SPECIFICATION Spec
CONSTANTS
  Base = 4
  Radix = 4
  Wide = 6
  Registry <- MCRegistry
  Methods = {"none", "gzip"}
  Buffers <- MCBuffers
  Messages <- MCMessages
  Controls <- MCControls
  MaxControls = 1
  Orders <- MCOrders
INVARIANTS MessagesIntact SelfDelimiting Delivered FieldsKeptOrZero
PROPERTIES FramesArriveInOrder
\* The stream ends, or its connection does.
CHECK_DEADLOCK FALSE
