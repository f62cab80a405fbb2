\* One user confirms the older of two unverified revisions.
SPECIFICATION Spec
CONSTANTS
    MaxItems = 1
    MaxRevisions = 3
    MaxBatches = 2
    MaxCommands = 3
    Doc = {"a.md"}
    Text = {"first", "second"}
    Reason = "withdrawn"
    Ref = {"r1"}
    None = None
    Proc = {p1}
    Docs <- OneDoc
    Structural <- NoMatches
    Named <- NoMatches
    Mapped = {"r1"}
    Verbs = {"ingest-unverified", "confirm"}
    ChangeClasses = {}
INVARIANT ConfirmedTextKeepsItsDigest
CHECK_DEADLOCK FALSE
