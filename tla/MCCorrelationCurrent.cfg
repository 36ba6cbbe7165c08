SPECIFICATION Spec
CONSTANTS
    Prefixes = {p1}
    Targets = {a}
    Pops = {x}
    BgpPaths <- MCBgpPaths
    TrPaths <- MCTrPaths
    BgpHandlers = {bgp}
    TrHandlers = {tr}
    None = None
    MaxUpdates = 2
INVARIANT StatusIsCurrent
CHECK_DEADLOCK FALSE
