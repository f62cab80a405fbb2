\* One operator maps and refreshes a repository of three referents, two extractors
\* and two files, while it is edited, the tool upgraded and runs are killed.
SPECIFICATION Spec
CONSTANTS
    Operator = {o1}
    Uri = {"u1", "u2", "u3"}
    LoadBearing = {"u1"}
    Exercises = {"u1"}
    Place <- MCPlace
    Found <- MCFound
    Attr = {1, 2}
    Faults = {"failed", "oversized", "unselected", "killed"}
    MaxEdits = 2
    MaxRuns = 3
    MaxFaults = 1
    MaxVersion = 2
INVARIANTS
    DeadWasGone
    OnlyEditsAreChanges
    SecondRefreshIsClean
    AliasesLead
    StaleIsExplained
CHECK_DEADLOCK FALSE
