SPECIFICATION Spec
SYMMETRY OutSymmetry
CONSTANTS
  Handlers = {h1}
  Outs = {o1, o2, o3}
  Cap = 1
  StreamIDs = {s1}
  Inbound = {"hello", "ping", "pingAck", "goaway", "makeStream", "stream", "malformed", "unknown"}
  MaxReads = 3
  MaxWrites = 1
  Shutdowns = TRUE
INVARIANTS HandshakeFirst PanicOnlyWhenStopping OneWriterPerOut
PROPERTIES ShutdownStuckIsPermanent
CHECK_DEADLOCK FALSE
