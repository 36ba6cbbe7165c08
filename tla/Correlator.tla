----------------------------- MODULE Correlator -----------------------------
(***************************************************************************)
(* What the correlation engine promises about the statuses it shows, with   *)
(* no mention of handlers' loops or of its RWMutex: each is the comparison  *)
(* of a BGP path and a traceroute that it held at the same moment, for a    *)
(* prefix that the target was registered with at that moment.  A comparison *)
(* may be shown late, when what was compared is no longer the latest.       *)
(***************************************************************************)
EXTENDS ASPath

CONSTANTS
    Prefixes, Targets,
    Keys,       \* pairs of a target and where it was traced from
    BgpPaths, TrInfo,
    Comparers,  \* who compares
    None        \* an absent entry

VARIABLES
    bgpPaths, traceroutePaths, prefixTargetMap,
    compared,    \* the comparison in the hands of each comparer
    matchStatus

known == <<bgpPaths, traceroutePaths, prefixTargetMap>>
vars == <<known, compared, matchStatus>>

Init ==
    /\ bgpPaths = [p \in Prefixes |-> None]
    /\ traceroutePaths = [k \in Keys |-> None]
    /\ prefixTargetMap = [t \in Targets |-> None]
    /\ compared = [c \in Comparers |-> None]
    /\ matchStatus = [cell \in Prefixes \X Keys |-> None]

\* One entry of one map changes; a traceroute is never forgotten.
LearnBGP ==
    /\ \E p \in Prefixes, path \in BgpPaths \cup {None} :
        bgpPaths' = [bgpPaths EXCEPT ![p] = path]
    /\ UNCHANGED <<traceroutePaths, prefixTargetMap, compared, matchStatus>>

LearnTraceroute ==
    /\ \E k \in Keys, info \in TrInfo :
        traceroutePaths' = [traceroutePaths EXCEPT ![k] = info]
    /\ UNCHANGED <<bgpPaths, prefixTargetMap, compared, matchStatus>>

Register ==
    /\ \E t \in Targets, p \in Prefixes :
        prefixTargetMap' = [prefixTargetMap EXCEPT ![t] = p]
    /\ UNCHANGED <<bgpPaths, traceroutePaths, compared, matchStatus>>

\* Both sides of a registered target are read at once.
Compare(c) ==
    /\ compared[c] = None
    /\ \E k \in Keys :
        LET p == prefixTargetMap[k[1]] IN
        /\ p # None /\ bgpPaths[p] # None /\ traceroutePaths[k] # None
        /\ compared' = [compared EXCEPT ![c] =
                [prefix |-> p, key |-> k, bgp |-> bgpPaths[p], tr |-> traceroutePaths[k]]]
    /\ UNCHANGED <<known, matchStatus>>

\* Whatever has become known since, the comparison is shown.
Show(c) ==
    LET s == compared[c] IN
    /\ s # None
    /\ matchStatus' = [matchStatus EXCEPT ![<<s.prefix, s.key>>] =
                            evaluate(s.bgp, s.tr.path, s.tr.reached)]
    /\ compared' = [compared EXCEPT ![c] = None]
    /\ UNCHANGED known

Next ==
    \/ LearnBGP \/ LearnTraceroute \/ Register
    \/ \E c \in Comparers : Compare(c) \/ Show(c)

Spec == Init /\ [][Next]_vars
=============================================================================
