SPECIFICATION Spec
CONSTANTS
    Count = 2
    MaxRuns = 1
    None = None
INVARIANT UnreachableIsTotalLoss
CHECK_DEADLOCK FALSE
