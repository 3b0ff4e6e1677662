SPECIFICATION FairSpec
CONSTANTS
  Cap = 2
  Lens = {1}
  Intos = {1}
  MaxBytes = 3
PROPERTIES EnqueuedIsRead
CHECK_DEADLOCK FALSE
