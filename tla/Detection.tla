----------------------------- MODULE Detection ------------------------------
(***************************************************************************)
(* Archetype detection (adopt_detect.detect): a bounded walk over a tree of *)
(* files, the rules the files fire, and the archetype most of the fired     *)
(* weight points to.                                                        *)
(*                                                                         *)
(* A tree is the sequence of its files in the order the walk would reach    *)
(* them: directories breadth first, the entries of one in name order.       *)
(***************************************************************************)
EXTENDS Integers, Sequences, FiniteSets, SequencesExt, FiniteSetsExt

CONSTANTS
    Ranking,   \* the archetypes, in their declared order
    Rule,      \* [archetype, id, weight, contains]
    NoArchetype,
    MaxFiles, MaxDepth,
    ConfidenceMin \* in hundredths

Archetypes == Range(Ranking)

ASSUME DetectionAssumption ==
    /\ Ranking \in Seq(Archetypes) /\ IsInjective(Ranking) /\ Ranking # <<>>
    /\ NoArchetype \notin Archetypes
    /\ IsFiniteSet(Rule)
    /\ \A r \in Rule : r.archetype \in Archetypes /\ r.weight \in Nat \ {0}
    /\ \A r, s \in Rule : r.archetype = s.archetype /\ r.id = s.id => r = s
    /\ MaxFiles \in Nat /\ MaxDepth \in Nat /\ ConfidenceMin \in 1..100

-----------------------------------------------------------------------------
(* The walk.  Of a file: depth, the directories above it; pruned, one of    *)
(* them is skipped by name, ignored, or a link out of the tree; ignored,    *)
(* the negations of the ignore patterns that match it, in file order; paths *)
(* and texts, the rules whose glob matches its path and whose literal is in *)
(* the part of it that could be read.                                       *)

\* The last pattern that matches decides.
Ignored(file) == file.ignored # <<>> /\ ~Last(file.ignored)

InScope(file) == ~file.pruned /\ ~Ignored(file)

\* A directory too deep is never entered.
Reached(file) == InScope(file) /\ file.depth <= MaxDepth

-----------------------------------------------------------------------------
(* The evidence.                                                            *)

Fires(rule, file) == rule \in file.paths /\ (rule.contains => rule \in file.texts)

HitKeyById(rule) == rule.id

\* A rule counts once, whatever the number of files that fire it; two
\* archetypes may use one identifier.
HitKey(rule) == <<rule.archetype, rule.id>>

NewHits(hits, file) ==
    {r \in Rule : Fires(r, file) /\ \A h \in hits : HitKey(h) # HitKey(r)}

Unread == [considered |-> 0, truncated |-> FALSE, hits |-> {}]

\* One file the walk comes to, after what was read before it; the file past the
\* last one considered ends it.
Consider(was, file) ==
    IF was.truncated \/ ~Reached(file) THEN was
    ELSE IF was.considered >= MaxFiles THEN [was EXCEPT !.truncated = TRUE]
    ELSE [considered |-> was.considered + 1, truncated |-> FALSE,
          hits |-> was.hits \cup NewHits(was.hits, file)]

\* What has been read after each of the first files of a tree.
Reading(tree) ==
    LET after[n \in 0..Len(tree)] ==
            IF n = 0 THEN Unread ELSE Consider(after[n - 1], tree[n])
    IN  after

Weight(hits) == MapThenSumSet(LAMBDA r : r.weight, hits)

Matched(hits, archetype) == Weight({r \in hits : r.archetype = archetype})

Confident(hits, archetype) ==
    /\ hits # {}
    /\ 100 * Matched(hits, archetype) >= ConfidenceMin * Weight(hits)

\* The best score, the earlier archetype on a tie.
Winner(hits) ==
    LET best == Max({Matched(hits, a) : a \in Archetypes})
    IN  SelectInSeq(Ranking, LAMBDA a : Matched(hits, a) = best)

\* What detect reports: no archetype when it is ambiguous, never a best guess.
Detect(tree) ==
    LET read   == Reading(tree)[Len(tree)]
        winner == Ranking[Winner(read.hits)]
    IN  [tree |-> tree,
         fired |-> read.hits,
         archetype |-> IF Confident(read.hits, winner) THEN winner ELSE NoArchetype,
         considered |-> read.considered,
         truncated |-> read.truncated]

=============================================================================
