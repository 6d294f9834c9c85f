--------------------------- MODULE MCWebAnalysis ---------------------------
(* Instance of WebAnalysis for TLC: an address in the network of the site, *)
(* one elsewhere, and a loopback address.                                  *)
EXTENDS WebAnalysis, TLC

CONSTANTS good, wrong, loop

MCAsn == [a \in Addrs |-> IF a = good THEN 1 ELSE IF a = wrong THEN 2 ELSE 0]

MCFailureOrder == <<"ok", "connection_reset", "dns_no_answer", "dns_nxdomain_error",
                    "generic_timeout_error", "host_unreachable", "network_unreachable">>

MCLookups == {<<"getaddrinfo", "ANY">>, <<"udp", "A">>}

Answer(failure, addrs) == [failure |-> failure, addrs |-> addrs]

MCAnswers ==
    [x |-> [l \in MCLookups |->
               IF l[1] = "getaddrinfo"
               THEN {Answer("dns_no_answer", {}), Answer("ok", {wrong}), Answer("ok", {loop}),
                     Answer("ok", {good, wrong})}
               ELSE {Answer("dns_nxdomain_error", {}), Answer("ok", {good})}],
     y |-> [l \in MCLookups |->
               IF l[1] = "getaddrinfo" THEN {Answer("dns_nxdomain_error", {}), Answer("ok", {good})}
               ELSE {Answer("ok", {good})}]]

Diff(x) == [status |-> x, body |-> "none", headers |-> "none", title |-> x]

Reaction(tcp, tls, http, final, diff) ==
    [tcp |-> tcp, tls |-> tls, http |-> http, final |-> final, diff |-> Diff(diff)]

Stopped(tcp, tls) == Reaction(tcp, tls, "none", FALSE, "none")

MCReactions ==
    [fetch \in BOOLEAN |->
        IF fetch
        THEN {Stopped(tcp, "none") : tcp \in {"generic_timeout_error", "network_unreachable", "ok"}} \cup
             {Stopped("ok", tls) : tls \in {"ok", "connection_reset"}} \cup
             {Reaction("ok", tls, http, FALSE, "none") : tls \in {"none", "ok"}, http \in {"connection_reset", "ok"}} \cup
             {Reaction("ok", "none", "ok", TRUE, diff) : diff \in {"match", "no"}} \cup
             {Reaction("ok", "ok", "ok", TRUE, "no")}
        ELSE {Stopped("ok", tls) : tls \in {"ok", "connection_reset"}}]

Helper(dns, addrs, unreachable, tls, http) ==
    [dns |-> dns, addrs |-> addrs, unreachable |-> unreachable, tls |-> tls, http |-> http]

MCHelpers ==
    {Helper("none", {}, {}, "none", "none"),
     Helper("ok", {good}, {wrong}, "ok", "ok"),
     Helper("ok", {good}, {good, wrong}, "ok", "generic_timeout_error"),
     Helper("ok", {good}, {}, "connection_reset", "connection_reset"),
     Helper("dns_nxdomain_error", {}, {}, "ok", "dns_nxdomain_error"),
     Helper("dns_no_answer", {}, {}, "ok", "dns_no_answer")}

MCTargets == {[domain |-> "x", https |-> TRUE], [domain |-> "y", https |-> TRUE]}

\* The same events, the ones of the system resolver first.
SystemFirst == INSTANCE WebAnalysis WITH queries <-
    SortSeq(queries, LAMBDA p, q : p.depth < q.depth \/ (p.depth = q.depth /\ p.engine = "getaddrinfo" /\ q.engine # "getaddrinfo"))

\* The resolvers race: which one appends its answer first decides which lookup
\* an address is known from, and must not decide the classic verdict, which
\* stands for what the system resolver alone would have led to.
VerdictOrderFree == finalized => Classic = SystemFirst!Classic
=============================================================================
