\* Two processes ingest two documents unverified and answer the queue they fill.
SPECIFICATION Spec
CONSTANTS
    MaxItems = 2
    MaxRevisions = 3
    MaxBatches = 2
    MaxCommands = 4
    Doc = {"a.md", "b.md"}
    Text = {"plain", "names"}
    Reason = "withdrawn"
    Ref = {"r1"}
    None = None
    Proc = {p1, p2}
    Docs <- TwoDocs
    Structural <- NoMatches
    Named <- NamesFirst
    Mapped = {"r1"}
    Verbs = {"ingest-unverified", "confirm", "confirm-batch", "edit", "reject"}
    ChangeClasses = {}
SYMMETRY ProcSymmetry
INVARIANTS
    ConfirmedIsWhatWasProposed
    BatchClosesWithLastEntry
PROPERTY KeepsLedger
\* The commands stop when the bounds are reached.
CHECK_DEADLOCK FALSE
