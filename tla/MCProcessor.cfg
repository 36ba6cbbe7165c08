SPECIFICATION FairSpec
CONSTANTS
    Topics = {"ping", "dns", "http", "traceroute"}
    Targets = {a}
    Agents = {g}
    Paths <- MCPaths
    CertDays <- MCCertDays
    Reported <- MCReported
    None = None
    MaxMsgs = 3
    LastAt <- MCLastAt
    MayFail = {"http"}
    MaxFaults = 1
INVARIANTS
    StaleOnlyAfterRedelivery
    CountersAddUp
    PathChangesExact
PROPERTIES
    EveryMessageProcessed
CHECK_DEADLOCK FALSE
