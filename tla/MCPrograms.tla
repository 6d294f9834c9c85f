---------------------------- MODULE MCPrograms ----------------------------
(* Instance of Programs for TLC: an invocation with two nettests and one   *)
(* with a single one, in the combinations of settings that differ.         *)
EXTENDS Programs

CONSTANTS p1, p2, u1, u2

MCInputs == (p1 :> <<1, 1>>) @@ (p2 :> <<1>>)

Both(a, b) == (p1 :> a) @@ (p2 :> b)

Config(upload, manual, limited) == [upload |-> upload, manual |-> manual, limited |-> limited]

MCConfigs == {Both(Config(TRUE, FALSE, FALSE), Config(TRUE, TRUE, TRUE)),
              Both(Config(FALSE, TRUE, FALSE), Config(TRUE, FALSE, FALSE))}

Link(u, accept, collect, limited) ==
    [url |-> u, accept |-> accept, collect |-> collect, limited |-> limited]

MCLinks == {Both(Link(u1, TRUE, TRUE, FALSE), Link(u1, FALSE, TRUE, TRUE)),
            Both(Link(u1, TRUE, FALSE, FALSE), Link(u2, TRUE, TRUE, FALSE))}
=============================================================================
