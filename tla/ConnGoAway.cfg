SPECIFICATION FairSpec
CONSTANTS
  Handlers = {h1}
  Outs = {o1, o2, o3}
  Cap = 1
  StreamIDs = {s1}
  Inbound = {"hello", "makeStream", "malformed"}
  MaxReads = 3
  MaxWrites = 1
  Shutdowns = FALSE
PROPERTIES GoAwayEndsConnection
CHECK_DEADLOCK FALSE
