------------------------------- MODULE ASPath -------------------------------
(***************************************************************************)
(* The comparison of a BGP path with a traceroute path, as the correlation *)
(* engine makes it (internal/processor/correlation/correlation.go).  An AS *)
(* path is a sequence of AS numbers whose last element is the origin.      *)
(***************************************************************************)
EXTENDS Naturals, Sequences, FiniteSets

MatchType == {"exact", "partial", "mismatch", "insufficient"}

Origin(path) == path[Len(path)]

\* isSubsequence: sub appears in full as a contiguous segment.
isSubsequence(sub, full) ==
    /\ Len(sub) <= Len(full)
    /\ \E i \in 0..(Len(full) - Len(sub)) :
        \A j \in 1..Len(sub) : full[i + j] = sub[j]

OverlapOutsideOrigin(a, b) ==
    Cardinality({j \in 1..(Len(b) - 1) : \E i \in 1..(Len(a) - 1) : a[i] = b[j]})

\* pathOverlap: the number of positions of b whose ASN occurs in a.
pathOverlap(a, b) ==
    Cardinality({j \in 1..Len(b) : \E i \in 1..Len(a) : a[i] = b[j]})

evaluateOriginLast(bgp, tr, reached) ==
    IF ~reached \/ Len(tr) < 2 THEN "insufficient"
    ELSE IF bgp = <<>> THEN "insufficient"
    ELSE IF isSubsequence(tr, bgp) THEN "exact"
    ELSE IF pathOverlap(bgp, tr) > 0 THEN "partial"
    ELSE "mismatch"

\* evaluate: the checks in the order the code makes them.
evaluate(bgp, tr, reached) ==
    IF ~reached \/ Len(tr) < 2 THEN "insufficient"
    ELSE IF bgp = <<>> THEN "insufficient"
    ELSE IF Origin(bgp) # Origin(tr) THEN "mismatch"
    ELSE IF isSubsequence(tr, bgp) THEN "exact"
    ELSE IF pathOverlap(bgp, tr) > 0 THEN "partial"
    ELSE "mismatch"
=============================================================================
