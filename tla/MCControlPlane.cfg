SPECIFICATION FairSpec
CONSTANTS
    t1 = t1
    t2 = t2
    p1 = p1
    p2 = p2
    a1 = a1
    c1 = c1
    c2 = c2
    c3 = c3
    Clients = {c1, c2, c3}
    Tests = {t1, t2}
    POPs = {p1, p2}
    Agents = {a1}
    Targets = {1, 2}
    Global = Global
    NoRow = NoRow
    InitialDB <- MCInitialDB
    Workloads <- MCWorkloads
    MaxFaults = 1
    MaxRestarts = 1
INVARIANTS
    ReferencesExist
    LostUpdateNeedsOverlap
    ServedOnlyAsAssigned
    OneFailureStopsNoOther
    AuditedOnlyAcknowledged
PROPERTIES
    EveryRequestSettles
CHECK_DEADLOCK FALSE
