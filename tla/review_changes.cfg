\* Two processes refresh the map and answer the changes it queues; one note.
SPECIFICATION Spec
CONSTANTS
    MaxItems = 1
    MaxRevisions = 3
    MaxBatches = 2
    MaxCommands = 5
    Doc = {"a.md"}
    Text = {"cites"}
    Reason = "withdrawn"
    Ref = {"r1", "r2", "r3"}
    None = None
    Proc = {p1, p2}
    Docs <- OneDoc
    Structural <- CitesBoth
    Named <- NoMatches
    Mapped = {"r1", "r2"}
    Verbs = {"ingest", "bind", "refresh", "reject", "retire", "rebind", "confirm-current"}
    ChangeClasses = {"moved", "semantics"}
SYMMETRY ProcSymmetry
INVARIANTS
    MovedMeansReplaced
    StaleLinkHasAQuestion
    OneWritePerDecision
    HeadGovernsFreshness
CHECK_DEADLOCK FALSE
