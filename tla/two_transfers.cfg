\* Two operators start a handover of one system at the same time.
SPECIFICATION Spec
CONSTANTS
    Operator = {o1, o2}
    Owner = {team}
    Gap = {g1}
    Task <- MCTask
    Checklists <- MCChecklists
    Dispositions = {"waived"}
    NoOne = NoOne
    MaxEvents = 2
    MaxClock = 3
    MaxHappenings = 0
INVARIANTS
    OneOpenHandover
CHECK_DEADLOCK FALSE
