CONSTANTS
    Overlap = 1
    FullReconcile = 2
    Limit = 2
    MaxTime = 4
    Days = 2
    MaxFills = 3
    MaxFaults = 1
SPECIFICATION Spec
INVARIANTS TypeOK NothingUnseen CycleInTime FollowsToday
PROPERTIES NewsIsNew
CHECK_DEADLOCK FALSE
