SPECIFICATION FairSpec
CHECK_DEADLOCK FALSE
CONSTANTS
    MaxAttempts = 1
    Fills = 1
    Days = 1
    FaultKinds <- CrashAndHttp
    MaxFaults = 2
PROPERTIES
    OpenAttemptEnds
