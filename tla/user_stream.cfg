CONSTANTS
    Events = {e1, e2}
    Unhealthy = 6
    MaxDelay = 4
    MaxHandshake = 2
SPECIFICATION FairSpec
INVARIANTS HealthyIsSubscribed OutageIsStopped NoEarlyStop
PROPERTIES HealthyOrStopped
