------------------------- MODULE MCWebConnectivity -------------------------
(* Instance of WebConnectivity for TLC: an http site that redirects to     *)
(* https or to another domain, resolvers that agree, disagree or are       *)
(* censored, with and without a test helper.                               *)
EXTENDS WebConnectivity

CONSTANTS a1, a2, a3

Url(domain, https, port) == [domain |-> domain, https |-> https, port |-> port]

MCUrls == {Url("x", TRUE, FALSE), Url("y", FALSE, TRUE)}

MCStarts == {Url("x", TRUE, FALSE), Url("y", FALSE, FALSE)}

Answers(system, udps, https) == [system |-> system, udp |-> udps, https |-> https]

World(x, y, th, helpers) ==
    [dns |-> [x |-> x, y |-> y, none |-> Answers({}, {}, {})], th |-> th, helpers |-> helpers]

MCWorlds ==
    {World(Answers({a1}, {a2}, {}), Answers({a1}, {}, {}), {}, FALSE),
     World(Answers({}, {a1}, {a2}), Answers({}, {}, {}), {a1, a3}, TRUE),
     World(Answers({}, {}, {}), Answers({}, {}, {a1}), {a2}, TRUE)}
=============================================================================
