SPECIFICATION Spec
CHECK_DEADLOCK FALSE
CONSTANTS
    MaxAttempts = 2
    Fills = 1
    Days = 1
    FaultKinds <- Kinds
    MaxFaults = 2
INVARIANTS
    TypeOK
    VerdictsMatchExchange
    AtMostOneLateOrder
    RecordedFailureArms
    AmbiguousOrderArms
PROPERTIES
    ImplementsLedger
    ImplementsOneOrder
