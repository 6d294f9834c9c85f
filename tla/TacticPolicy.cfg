SPECIFICATION FairPolicySpec
CONSTANTS
  Factor = 2
  DNSAddrs <- MCDNSAddrs
  BridgeAddrs <- MCBridgeAddrs
  BridgeSNIs = {"sni1", "sni2"}
  DialNames = {"api", "th", "other"}
INVARIANTS
  TacticsWellMixed
PROPERTIES
  PipelineDrains
