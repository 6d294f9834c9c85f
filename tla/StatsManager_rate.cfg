SPECIFICATION StatsSpec
CONSTANTS
  alone = none
  Tactics = {t1, t2}
  domainEndpointKey <- OneEndpoint
  MaxEntries = 1
  SortBlock = 20
  OneWeek = 7
  Attempts = {a1}
  MaxStarts = 2
  MaxTime = 1
SYMMETRY Symmetry
PROPERTIES
  TrimKeepsBestRate
