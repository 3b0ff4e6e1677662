SPECIFICATION FairSpec
CONSTANTS
  MaxConns = 2
  Streamers = {0, 1}
  Services = {s1}
INVARIANTS ShiftedTable  
PROPERTIES  OrphanedForever 
\* A server may be idle, stuck or stopped.
CHECK_DEADLOCK FALSE
