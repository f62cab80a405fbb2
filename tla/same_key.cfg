\* Two drafters draft one identity at once.
SPECIFICATION DraftingSpec
CONSTANTS
    Drafter = {d1, d2}
    Referents = 2
    Answers <- MCAnswers
    UsdPerToken = 1
    MaxUsd = 2
    MaxToolCalls = 1
    SchemaRetries = 1
    MaxPerRun = 2
    MaxPosts = 2
    MaxAdjustments = 1
    MaxItems = 2
    MaxHappenings = 0
INVARIANT SameKeySameResult
CHECK_DEADLOCK FALSE
