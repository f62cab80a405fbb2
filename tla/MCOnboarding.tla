---------------------------- MODULE MCOnboarding ----------------------------
(* Values of the constants of Onboarding and Detection: two systems of one  *)
(* engagement with an environment of one name, a path whose system has a    *)
(* malformed slug, and trees that fire rules of two archetypes.             *)
EXTENDS Onboarding, TLC

MCRanking == <<"web", "ai">>

WebOne == [archetype |-> "web", id |-> "deps", weight |-> 3, contains |-> FALSE]
WebTwo == [archetype |-> "web", id |-> "routes", weight |-> 4, contains |-> TRUE]
AiOne  == [archetype |-> "ai", id |-> "deps", weight |-> 3, contains |-> FALSE]

MCRule == {WebOne, WebTwo, AiOne}

File(depth, paths, texts) ==
    [depth |-> depth, pruned |-> FALSE, ignored |-> <<>>, paths |-> paths, texts |-> texts]

Both  == File(1, {WebTwo}, {WebTwo})
Dep   == File(1, {WebOne}, {})
Model == File(2, {AiOne}, {})
Deep  == File(4, {AiOne}, {})

MCTrees ==
    {<<Both, Dep>>,                               \* web
     <<Dep, Model>>,                              \* ambiguous
     <<Dep, Both, Model>>,                        \* web has 70 hundredths
     <<[Dep EXCEPT !.ignored = <<FALSE>>], Model>>,        \* ai
     <<[Dep EXCEPT !.ignored = <<FALSE, TRUE>>], [Both EXCEPT !.texts = {}], Model>>,
     <<[Dep EXCEPT !.pruned = TRUE], Model, Deep>>,
     <<Dep, Dep, Dep, Model>>}                    \* one file too many

MCClients == {<<Both, Dep>>, <<Dep, Model>>}

MCPaths ==
    {<<"firm", "work", "shop", "prod">>, <<"firm", "work", "bot", "prod">>,
     <<"firm", "work", "Bad", "prod">>}

MCAnswerSets ==
    {[artifact |-> FALSE, deploy |-> TRUE, safe |-> TRUE],
     [artifact |-> TRUE, deploy |-> FALSE, safe |-> TRUE]}

MCEnvelopes == {[policy |-> "metadata_only", content |-> FALSE]}

MCSymmetry == Permutations(Process)
=============================================================================
