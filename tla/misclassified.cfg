\* One declaration is edited in a file the kept sighting is not in; a file goes over
\* the read cap while a new referent has the digest of one in it.
SPECIFICATION Spec
CONSTANTS
    Operator = {o1}
    Uri = {"u1", "u2", "u3"}
    LoadBearing = {"u1"}
    Exercises = {"u1"}
    Place <- MCPlace
    Found <- MCFound
    Attr = {1, 2}
    Faults = {"oversized"}
    MaxEdits = 2
    MaxRuns = 3
    MaxFaults = 1
    MaxVersion = 1
INVARIANTS
    EachReferentOnce
    GoneWasGone
CHECK_DEADLOCK FALSE
