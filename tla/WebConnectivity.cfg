SPECIFICATION Spec
CONSTANTS
  a1 = a1
  a2 = a2
  a3 = a3
  Addrs = {a1, a2, a3}
  Urls <- MCUrls
  Starts <- MCStarts
  Worlds <- MCWorlds
  MaxRedirects = 1
INVARIANTS
  JoinIsComplete
  RequestsInOrder
  
  MeasurementIsComplete
PROPERTY RunReturns
CHECK_DEADLOCK FALSE
