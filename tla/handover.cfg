\* One handover of six steps and one step repeated, by two operators.
SPECIFICATION Spec
CONSTANTS
    Operator = {o1, o2}
    Owner = {team}
    Gap = {g1}
    Task <- MCTask
    Checklists <- MCChecklists
    Dispositions = {"waived"}
    NoOne = NoOne
    MaxEvents = 6
    MaxClock = 8
    MaxHappenings = 1
INVARIANTS
    StepsInOrder
    OwnedThroughout
    ValidMeansUnchanged
PROPERTIES
    NothingTransfersUnowned
SYMMETRY MCSymmetry
CHECK_DEADLOCK FALSE
