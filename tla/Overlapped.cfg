SPECIFICATION FairSpec
CONSTANT MaxEndpoints = 4
INVARIANTS
  ResultPerEndpoint
  FailureIsGenuine
PROPERTIES
  RunTerminates
