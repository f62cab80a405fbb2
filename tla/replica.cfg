\* One operator works a store path, pulls, exports and imports; every command may be
\* killed between any two of its effects, and its log is closed before the next pull.
SPECIFICATION Spec
CONSTANTS
    System = {"s1", "s2"}
    Local = {f1, f2}
    Altered = Altered
    PullsOverLog = FALSE
    MaxPlane = 2
    MaxCommands = 7
INVARIANTS
    MarkedStoreHoldsNoFieldWork
    CopiesAreWhole
PROPERTY
    FieldWorkIsKept
\* The commands stop when the bound is reached.
CHECK_DEADLOCK FALSE
