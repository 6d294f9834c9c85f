--------------------------- MODULE MCTacticPolicy ---------------------------
(* Instances of TacticPolicy for TLC. *)
EXTENDS TacticPolicy

MCDNSAddrs == <<"dns1", "dns2", "dns3">>
MCBridgeAddrs == <<"bridge1">>
=============================================================================
