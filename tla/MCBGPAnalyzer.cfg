SPECIFICATION FairSpec
CONSTANTS
    Width <- MCWidth
    Monitored <- MCMonitored
    Announced <- MCAnnounced
    expected_origins <- MCExpected
    Peers = {q1, q2}
    RawPaths <- MCRawPaths
    Junk = Junk
    None = None
    MaxElems = 3
    MaxSignals = 2
INVARIANTS
    MoasDetected
    StreamMirrorsState
PROPERTIES
    SignalEndsProcess
CHECK_DEADLOCK FALSE
