\* A note cites two referents; one changed meaning, the other's file was reformatted.
SPECIFICATION Spec
CONSTANTS
    MaxItems = 1
    MaxRevisions = 2
    MaxBatches = 1
    MaxCommands = 3
    Doc = {"a.md"}
    Text = {"cites"}
    Reason = "withdrawn"
    Ref = {"r1", "r2", "r3"}
    None = None
    Proc = {p1}
    Docs <- OneDoc
    Structural <- CitesBoth
    Named <- NoMatches
    Mapped = {"r1", "r2", "r3"}
    Verbs = {"ingest", "refresh", "rebind"}
    ChangeClasses = {"semantics", "render"}
PROPERTY OnlyChangedLinksReplaced
CHECK_DEADLOCK FALSE
