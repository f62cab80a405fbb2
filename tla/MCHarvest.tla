----------------------------- MODULE MCHarvest -----------------------------
(***************************************************************************)
(* Harvest on a small instance: one document, and a history of two commits. *)
(* "c1" touches a file that holds r1 alone; "c2" touches a decision record  *)
(* and a file whose name ends the paths of both r1 and r2.                  *)
(***************************************************************************)
EXTENDS Harvest, TLC

OneDoc     == <<"a.md">>
NoMatches  == {}
NamesFirst == {<<"names", "r1">>}

Line(message, body, files) ==
    [message |-> message, parents |-> 1, reverts |-> FALSE, body |-> body, files |-> files]

TwoCommits == ("c1" :> Line("plain", TRUE, {<<"src", "a">>}))
           @@ ("c2" :> Line("plain", FALSE, {<<"adr", "1">>, <<"b">>}))
TwoHistory == <<"c1", "c2">>
LogPaths   == {<<"adr", "1">>}
Places     == [d \in Ref |-> IF d = "r1" THEN {<<"src", "a">>, <<"x", "b">>} ELSE {<<"y", "b">>}]
=============================================================================
