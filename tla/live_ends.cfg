SPECIFICATION FairSpec
CHECK_DEADLOCK FALSE
CONSTANTS
    MaxAttempts = 1
    Fills = 1
    Days = 2
    FaultKinds <- Recoverable
    MaxFaults = 2
PROPERTIES
    OpenAttemptEnds
