\* A kill in the middle of a line.
SPECIFICATION Spec
CONSTANTS
    Driver = {d1}
    Canceller = {c1}
    Key = {"k1"}
    NSteps = 2
    MaxAttempts = 2
    TornWrites = TRUE
    MaxRuns = 1
    MaxCrashes = 2
INVARIANT EffectOnce
\* The driver is done when every run has ended.
CHECK_DEADLOCK FALSE
