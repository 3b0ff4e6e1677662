SPECIFICATION FairSpec
CONSTANTS
  Cap = 2
  Lens = {1, 2, 3}
  Intos = {0, 1, 2}
  MaxBytes = 7
INVARIANTS NoSendOnClosed
PROPERTIES WedgeIsPermanent ReadUnlessWedged ImplementsByteStream
\* The queue may stop for good: see WedgeIsPermanent.
CHECK_DEADLOCK FALSE
