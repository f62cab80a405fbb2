\* One drafter of two gaps, one call a run, beside reviewers, authors and packs.
SPECIFICATION DraftingSpec
CONSTANTS
    Drafter = {d1}
    Referents = 2
    Answers <- MCAnswers
    UsdPerToken = 1
    MaxUsd = 2
    MaxToolCalls = 1
    SchemaRetries = 1
    MaxPerRun = 2
    MaxPosts = 2
    MaxAdjustments = 1
    MaxItems = 2
    MaxHappenings = 1
INVARIANTS
    OneDraftPerReferent
    PaidForOnce
    OverByOneAnswer
    NoItemTwice
CHECK_DEADLOCK FALSE
