SPECIFICATION FairSpec
CONSTANTS
  Workers = {w1, w2}
  MaxTactics = 3
  MaxLookupTime = 1
INVARIANTS
  NoConnLeak
  EveryTacticAccounted
  BlameIsDeserved
PROPERTIES
  HappyEyeballs
  ImplementsTLSDialer
  DialReturns
