\* A writer is killed with its log in use, and a pull replaces the file under it.
SPECIFICATION Spec
CONSTANTS
    System = {"s1", "s2"}
    Local = {f1}
    Altered = Altered
    PullsOverLog = TRUE
    MaxPlane = 2
    MaxCommands = 5
PROPERTY ReplicaAnswersFromThePull
\* The commands stop when the bound is reached.
CHECK_DEADLOCK FALSE
