SPECIFICATION FairSpec
CONSTANTS
  Services <- MCServices
  Callers = {m1, m2}
  Closers = {k1, k2}
  MaxDuration = 2
  None = None
CHECK_DEADLOCK FALSE
INVARIANTS
  RightServiceSelected
  StepsInOrder
  CloseIsComplete
PROPERTIES
  BackendNeverChanges
  MethodsReturn
