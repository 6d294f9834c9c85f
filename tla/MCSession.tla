------------------------------ MODULE MCSession ------------------------------
(* Instances of Session for TLC. *)
EXTENDS Session

\* Two https services and two fallbacks, listed in an order of no help
MCServices == <<[Address |-> "o", Type |-> "onion"],
                [Address |-> "h1", Type |-> "https"],
                [Address |-> "c", Type |-> "cloudfront"],
                [Address |-> "h2", Type |-> "https"]>>
=============================================================================
