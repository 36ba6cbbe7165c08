SPECIFICATION Spec
CONSTANTS
    Topics = {"dns"}
    Targets = {a}
    Agents = {g}
    Paths <- MCPaths
    CertDays <- MCCertDays
    Reported <- MCAllReported
    None = None
    MaxMsgs = 2
    LastAt <- MCLastAtAny
    MayFail = {}
    MaxFaults = 0
INVARIANT FailureClears
CHECK_DEADLOCK FALSE
