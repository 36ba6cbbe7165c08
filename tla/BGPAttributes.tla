--------------------------- MODULE BGPAttributes ---------------------------
(***************************************************************************)
(* The as-path attribute of a BGP element as the analyzer reads it          *)
(* (_parse_as_path and _process_element in analyzer.py).  An attribute       *)
(* is the sequence of its blank-separated parts: AS numbers and Junk.       *)
(***************************************************************************)
EXTENDS Naturals, SequencesExt

CONSTANT Junk \* a part of an as-path that is not a number

isdigit(part) == part # Junk

ParseKeepingPrepends(raw) == SelectSeq(raw, isdigit)

\* AS_SETs are flattened (the braces carry no information here), what is not a
\* number is skipped and consecutive repetitions are dropped.
parse_as_path(raw) ==
    FoldLeft(LAMBDA asns, part :
                IF isdigit(part) /\ (asns = <<>> \/ asns[Len(asns)] # part)
                THEN Append(asns, part)
                ELSE asns,
             <<>>, raw)

\* as_path[-1] if as_path else 0
origin_asn(path) == IF path = <<>> THEN 0 ELSE path[Len(path)]
=============================================================================
