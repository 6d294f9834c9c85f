SPECIFICATION Spec
CONSTANTS
  good = good
  wrong = wrong
  loop = loop
  Addrs = {good, wrong, loop}
  Loopback = {loop}
  IPv6 = {wrong}
  Asn <- MCAsn
  Lookups <- MCLookups
  Answers <- MCAnswers
  Reactions <- MCReactions
  Helpers <- MCHelpers
  Targets <- MCTargets
  FailureOrder <- MCFailureOrder
INVARIANTS
  NoAccusationWithoutControl
  AccessibleIsWitnessed
  VerdictOrderFree
CHECK_DEADLOCK FALSE
