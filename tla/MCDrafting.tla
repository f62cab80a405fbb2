----------------------------- MODULE MCDrafting -----------------------------
(* Values of the constants of Drafting: a draft, one that cites a fact it   *)
(* was not given, one that breaks its schema, and a call of a tool.         *)
EXTENDS Drafting

MCAnswer(text, calls, tokens) == [text |-> text, calls |-> calls, tokens |-> tokens]

MCAnswers ==
    {MCAnswer("draft", 0, 1), MCAnswer("foreign", 0, 0), MCAnswer("malformed", 0, 1),
     MCAnswer("none", 1, 1)}
=============================================================================
