\* A change entry is answered with --confirm, the suggestions' verb.
SPECIFICATION Spec
CONSTANTS
    MaxItems = 1
    MaxRevisions = 2
    MaxBatches = 1
    MaxCommands = 3
    Doc = {"a.md"}
    Text = {"cites"}
    Reason = "withdrawn"
    Ref = {"r1"}
    None = None
    Proc = {p1}
    Docs <- OneDoc
    Structural <- CitesFirst
    Named <- NoMatches
    Mapped = {"r1"}
    Verbs = {"ingest", "refresh", "confirm"}
    ChangeClasses = {"semantics"}
INVARIANT StaleLinkHasAQuestion
CHECK_DEADLOCK FALSE
