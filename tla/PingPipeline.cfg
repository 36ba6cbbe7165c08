\* Two packets per test; the gauge of one test is still there in the next two.
SPECIFICATION FairSpec
CONSTANTS
    Count = 2
    MaxRuns = 3
    None = None
INVARIANTS
    NoFalseTotalLoss
PROPERTIES
    TestEnds
    NoGoroutineLeft
CHECK_DEADLOCK FALSE
