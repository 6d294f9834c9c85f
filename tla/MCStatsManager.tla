--------------------------- MODULE MCStatsManager ---------------------------
(* Instances of StatsManager for TLC. *)
EXTENDS StatsManager

\* Every tactic is for the same endpoint
OneEndpoint == [t \in Tactics |-> "api.ooni.io:443"]

CONSTANT alone   \* the only tactic of its endpoint

\* All the tactics but one are for the same endpoint
TwoEndpoints == [t \in Tactics |-> IF t = alone THEN "th.ooni.org:443" ELSE "api.ooni.io:443"]

\* Attempts are interchangeable, and so are the tactics of one endpoint: no
\* action or property names one of them
Symmetry == Permutations(Attempts) \cup Permutations(Tactics \ {alone})
=============================================================================
