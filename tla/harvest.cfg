\* One user reviews while another mines; runs are interrupted anywhere and
\* started again, ranges overlap, texts repeat.
SPECIFICATION HarvestSpec
CONSTANTS
    MaxItems = 3
    MaxRevisions = 3
    MaxBatches = 3
    MaxCommands = 3
    Doc = {"a.md", "c1", "c2"}
    Text = {"plain", "names"}
    Reason = "withdrawn"
    Ref = {"r1", "r2"}
    None = None
    Proc = {p1}
    Docs <- OneDoc
    Structural <- NoMatches
    Named <- NamesFirst
    Mapped = {"r1", "r2"}
    Verbs = {"ingest", "ingest-unverified", "confirm", "edit", "reject"}
    ChangeClasses = {}
    Miner = {m1}
    History <- TwoHistory
    Commit <- TwoCommits
    Manifests = {}
    Configs = {}
    DecisionLogs <- LogPaths
    SourcePaths <- Places
    MaxHarvests = 2
INVARIANTS
    OneItemPerDocument
    SuggestionsAskedOnce
    CandidatesReachReview
CHECK_DEADLOCK FALSE
