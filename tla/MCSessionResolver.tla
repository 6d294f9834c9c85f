------------------------- MODULE MCSessionResolver -------------------------
(* Instances of SessionResolver for TLC. *)
EXTENDS SessionResolver

MCMakers == {"https", "http3", "system"}
MCCannotProxy == {"http3", "system"}
\* The initial score of system is one half, the others are random
MCInitialScore == [u \in Makers |-> CASE u = "https"  -> 3
                                      [] u = "http3"  -> 7
                                      [] u = "system" -> 5]
=============================================================================
