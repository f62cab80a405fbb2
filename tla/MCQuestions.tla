----------------------------- MODULE MCQuestions -----------------------------
(* Values of the constants of Questions: one question of three words, two   *)
(* of which an answer must hold, and a text that holds one of them.         *)
EXTENDS Questions

MCIdentity == {"orders", "billing"}
MCQuestion == <<[terms |-> {"retry", "limit", "orders"}, uris |-> {"billing"}]>>
MCTexts    == {[terms |-> {"retry"}, names |-> {"orders"}]}
MCUriTerms == [i \in MCIdentity |-> {i}]
MCUnwrapped == {"moved"}
MCFirst == [verification : {"verified"}, text : {[terms |-> {"retry", "limit"}, names |-> {}]},
            fresh : {"fresh"}, identity : {"orders"}]

MCStale == {[first EXCEPT !.fresh = "stale"] : first \in MCFirst}
=============================================================================
