------------------------------ MODULE MCProbes ------------------------------
(* Values of the constants of Probes.  One probe file and an edit of it that *)
(* adds a prompt step; a system that answers, answers much the same, answers *)
(* otherwise, and is slow or unreachable.                                    *)
EXTENDS Probes

Http   == [kind |-> "http", host |-> "app", uses |-> {"token"}, status |-> 200,
           fields |-> {"id"}, timed |-> FALSE, tolerance |-> 1]
Prompt == [kind |-> "prompt", host |-> "", uses |-> {}, status |-> 0,
           fields |-> {}, timed |-> TRUE, tolerance |-> 0]

Login == [name |-> "login", steps |-> <<Http>>, exercises |-> {"api", "gone"},
          refs |-> {"token"}, hosts |-> {"app"}, method |-> "exact", seconds |-> 2,
          requests |-> 1, calls |-> 0]

\* The last three are refused: an undeclared host, an undeclared secret, and
\* more seconds than the ceiling.
MCFiles ==
    {Login, [Login EXCEPT !.steps = <<Http, Prompt>>, !.calls = 1],
     [Login EXCEPT !.hosts = {}], [Login EXCEPT !.refs = {}], [Login EXCEPT !.seconds = 3]}

Answers(text) == [status |-> 200, fields |-> {"id"}, text |-> text, slow |-> FALSE,
                  up |-> TRUE, agent |-> TRUE, secrets |-> {"token"}]

MCWorlds ==
    {Answers(0), Answers(2), [Answers(1) EXCEPT !.agent = FALSE],
     [Answers(0) EXCEPT !.slow = TRUE], [Answers(0) EXCEPT !.up = FALSE, !.secrets = {}]}

MCUsual == Answers(0)

MCIdentity == {"api"}
MCOn == [k \in Item |-> "api"]

\* The items are all bound to one referent, so they are interchangeable.
MCSymmetry == Permutations(Item)
=============================================================================
