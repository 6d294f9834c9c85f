SPECIFICATION FairSpec
CONSTANTS
  Makers <- MCMakers
  InitialScore <- MCInitialScore
  CannotProxy <- MCCannotProxy
  Obsolete = "obsolete"
  Calls = {c1, c2}
  Scale = 10
  MaxLookups = 2
INVARIANTS
  NoResolverForgotten
  ScoresAreFair
PROPERTIES
  LookupReturns
