--------------------------- MODULE MCBGPAnalyzer ---------------------------
EXTENDS BGPAnalyzer

\* One address family of 2 bits, one monitored half of it, and announcements of
\* a more specific prefix of that half and of the other half.
MCWidth == 4 :> 2
IP(addr, len) == [version |-> 4, addr |-> addr, prefixlen |-> len]

Half == IP(0, 1)
Quarter == IP(1, 2)
OtherHalf == IP(2, 1)

MCMonitored == {Half}
MCAnnounced == {Quarter, OtherHalf}

\* The expected origin is 7.
MCExpected == Half :> 7

\* The expected origin with a prepend and junk, and another origin.
MCRawPaths == {<<1, 1, Junk, 7>>, <<1, 9>>}
=============================================================================
