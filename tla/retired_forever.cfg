\* A retired note comes back with the next ingest of its unchanged document.
SPECIFICATION Spec
CONSTANTS
    MaxItems = 1
    MaxRevisions = 3
    MaxBatches = 1
    MaxCommands = 4
    Doc = {"a.md"}
    Text = {"cites"}
    Reason = "withdrawn"
    Ref = {"r1"}
    None = None
    Proc = {p1}
    Docs <- OneDoc
    Structural <- CitesFirst
    Named <- NoMatches
    Mapped = {"r1"}
    Verbs = {"ingest", "refresh", "retire"}
    ChangeClasses = {"dead"}
PROPERTY RetiredForever
CHECK_DEADLOCK FALSE
