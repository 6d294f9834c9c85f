SPECIFICATION Spec
CONSTANTS
  p1 = p1
  p2 = p2
  Procs = {p1, p2}
  Inputs <- MCInputs
  AuthChoices = {TRUE, FALSE}
  OnlyBackground = {2}
  Configs <- MCConfigs
  MaxVersion = 2
  MaxFaults = 1
  u1 = u1
  u2 = u2
  Urls = {u1, u2}
  Links <- MCLinks
  MaxRevision = 2
INVARIANTS
  StoredCredentialFresh
  DuplicatesExplained
  MeasurementsAccounted
  FinishedIsComplete
  NoUnreviewedRun
