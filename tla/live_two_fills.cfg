SPECIFICATION Spec
CHECK_DEADLOCK FALSE
CONSTANTS
    MaxAttempts = 1
    Fills = 2
    Days = 1
    FaultKinds <- NoFaults
    MaxFaults = 0
INVARIANTS
    RecordedFailureArms
