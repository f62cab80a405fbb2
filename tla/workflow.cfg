\* One process drives two keys' runs, is killed twice, and another cancels them.
SPECIFICATION Spec
CONSTANTS
    Driver = {d1}
    Canceller = {c1}
    Key = {"k1", "k2"}
    NSteps = 2
    MaxAttempts = 2
    TornWrites = FALSE
    MaxRuns = 2
    MaxCrashes = 2
INVARIANTS
    EffectOnce
    FinishedStepsAreReplayed
PROPERTIES
    RunsAreDurable
    EveryRunEnds
\* The driver is done when every run has ended.
CHECK_DEADLOCK FALSE
