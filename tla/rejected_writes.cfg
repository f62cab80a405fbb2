\* One process confirms the entry another is rejecting.
SPECIFICATION Spec
CONSTANTS
    MaxItems = 1
    MaxRevisions = 2
    MaxBatches = 1
    MaxCommands = 3
    Doc = {"a.md"}
    Text = {"plain"}
    Reason = "withdrawn"
    Ref = {"r1"}
    None = None
    Proc = {p1, p2}
    Docs <- OneDoc
    Structural <- NoMatches
    Named <- NoMatches
    Mapped = {"r1"}
    Verbs = {"ingest-unverified", "confirm", "reject"}
    ChangeClasses = {}
SYMMETRY ProcSymmetry
INVARIANT RejectedWritesNothing
CHECK_DEADLOCK FALSE
