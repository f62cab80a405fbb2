\* One process runs the probes, one edits them; reviewers, the client's
\* system and a kill come in between.
SPECIFICATION Spec
CONSTANTS
    Runner = {r1}
    Editor = {e1}
    ProbeFiles <- MCFiles
    Ceiling = 2
    Identity <- MCIdentity
    Item = {k1, k2}
    On <- MCOn
    World <- MCWorlds
    Usual <- MCUsual
    MaxRuns = 3
    MaxBaselines = 1
    MaxRevisions = 2
    MaxTurns = 2
    MaxKills = 1
INVARIANT
    FailureIsNotAFinding
SYMMETRY MCSymmetry
CHECK_DEADLOCK FALSE
