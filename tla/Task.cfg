SPECIFICATION FairSpec
CONSTANTS
  BufSiz = 2
  MaxTargets = 3
  MaxLogs = 1
INVARIANTS
  EventsWellFormed
PROPERTIES
  TaskTerminates
