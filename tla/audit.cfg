CONSTANTS
    t1 = t1  t2 = t2  buy = buy  hold = hold  h1 = h1  h2 = h2
    Handlers <- MCHandlers
    Order <- MCOrder
    Actions <- MCActions
    Holds <- MCHolds
    Nothing = Nothing
    MaxChanges = 2
    MaxReports = 2
    MaxFaults = 3
SPECIFICATION FairSpec
INVARIANTS TradedPlanWasHeard
PROPERTIES NoWordTwice SuccessWasTold RepeatsAreExplained AuditCatchesUp
CHECK_DEADLOCK FALSE
