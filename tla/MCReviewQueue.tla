--------------------------- MODULE MCReviewQueue ---------------------------
(***************************************************************************)
(* ReviewQueue on small instances.  Bodies are named after what they say    *)
(* about the identities: "cites" refers to r1 outright, "names" names r1    *)
(* and no more, "plain" does neither.                                       *)
(***************************************************************************)
EXTENDS ReviewQueue, TLC

OneDoc  == <<"a.md">>
TwoDocs == <<"a.md", "b.md">>

MatchesOf(text, d) == {text} \X {d}

NoMatches    == {}
CitesFirst   == MatchesOf("cites", "r1")
CitesBoth    == MatchesOf("cites", "r1") \cup MatchesOf("cites", "r2")
NamesFirst   == MatchesOf("names", "r1")

ProcSymmetry == Permutations(Proc)
=============================================================================
