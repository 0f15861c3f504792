SPECIFICATION Spec
CHECK_DEADLOCK FALSE
CONSTANTS
    Iterations = 4
    Available = 2
    Gap <- MCGap
    Curves <- MCCurves
INVARIANTS
    RiskWithinCap
    LargestAffordable
