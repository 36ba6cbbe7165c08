\* One publisher, two partitions of three messages, one handler error, and time for a rebalance, a
\* crash and a session after them.
SPECIFICATION TransportSpec
CONSTANTS
    Partitions = {p1, p2}
    MaxOffset = 3
    MaxFailures = 1
    MaxSessions = 3
    Publishers = {k}
    None = None
INVARIANTS
    LateSendOverlapsClose
    CommittedWereAttempted
    FailuresPassedOver
CHECK_DEADLOCK FALSE
