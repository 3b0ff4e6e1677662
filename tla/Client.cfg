SPECIFICATION FairSpec
CONSTANTS
  Apps = {a1, a2}
  Calls = {"Configure", "NewStream", "Write", "Terminate", "Close"}
  Cap = 1
  Inbound = {"hello", "helloNoAck", "ping", "pingAck", "goaway", "stream", "makeStream", "malformed"}
  MaxCalls = 1
  MaxReads = 2
INVARIANTS StreamsAreAnnounced
PROPERTIES LeakIsPermanent LossIsSilent  CloseReleasesConfigure 
\* The client may end for good.
CHECK_DEADLOCK FALSE
