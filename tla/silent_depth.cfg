SPECIFICATION OnboardingSpec
CONSTANTS
    Process = {p1, p2}
    Ranking <- MCRanking
    Rule <- MCRule
    NoArchetype = none
    MaxFiles = 3
    MaxDepth = 3
    ConfidenceMin = 70
    Trees <- MCTrees
    Clients <- MCClients
    Paths <- MCPaths
    AnswerSets <- MCAnswerSets
    Named = {none}
    Envelopes <- MCEnvelopes
    Slugs = {"firm", "work", "shop", "bot", "prod"}
    LifecycleStates = {"DISCOVERED", "ARCHIVED"}
    Discovered = "DISCOVERED"
    MaxStarts = 2
    MaxEvents = 2
    MaxChecks = 1
SYMMETRY MCSymmetry
INVARIANT
    BoundsAreReported
CHECK_DEADLOCK FALSE
