SPECIFICATION Spec
CONSTANTS
    Prefixes = {p1, p2}
    Paths = {a, b}
    None = None
    MaxMsgs = 3
INVARIANT EngineFollowsAnalyzer
CHECK_DEADLOCK FALSE
