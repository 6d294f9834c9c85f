SPECIFICATION StatsSpec
CONSTANTS
  alone = t4
  Tactics = {t1, t2, t3, t4}
  domainEndpointKey <- TwoEndpoints
  MaxEntries = 2
  SortBlock = 3
  OneWeek = 2
  Attempts = {a1, a2}
  MaxStarts = 3
  MaxTime = 2
SYMMETRY Symmetry
INVARIANTS
  OutcomesWithinStarted
PROPERTIES
  ReloadKeepsFresh
  TrimKeepsDominant
