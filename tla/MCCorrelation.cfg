\* Two monitored prefixes and two traceroute sources for one target, so that both
\* correlation loops go round twice; each handler takes two messages.
SPECIFICATION FairSpec
CONSTANTS
    Prefixes = {p1, p2}
    Targets = {a}
    Pops = {x, y}
    BgpPaths <- MCOneBgpPath
    TrPaths <- MCTrPaths
    BgpHandlers = {bgp}
    TrHandlers = {tr}
    None = None
    MaxUpdates = 2
INVARIANTS
    NoMissedCorrelation
PROPERTIES
    HandlersFinish
CHECK_DEADLOCK FALSE
