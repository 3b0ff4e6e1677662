SPECIFICATION FairSpec
CONSTANTS
  ClientApps = {c1}
  ServerApps = {s1, s2}
  Readers = {s1}
  MaxPayload = 1
  Lengths = {2}
  EndLengths = {}
  Calls = {"Write", "Reset", "Read"}
  MaxCalls = 1
  MayFail = TRUE
PROPERTIES MessagesNotInterleaved  ResetWakesReader
CHECK_DEADLOCK FALSE
