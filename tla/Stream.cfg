SPECIFICATION Spec
CONSTANTS
  ClientApps = {c1}
  ServerApps = {s1}
  Readers = {s1}
  MaxPayload = 1
  Lengths = {2}
  EndLengths = {1}
  Calls = {"Write", "WriteEnd", "CloseLocal", "Reset", "Read"}
  MaxCalls = 2
  MayFail = FALSE
INVARIANTS BothEndedIsClosed
PROPERTIES NoGapWithoutRace StormIsPermanent StrandedUntilReset
CHECK_DEADLOCK FALSE
