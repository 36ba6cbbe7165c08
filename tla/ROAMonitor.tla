----------------------------- MODULE ROAMonitor -----------------------------
(***************************************************************************)
(* One pass of the ROA monitor of the BGP analyzer (_check_roa_expiry in    *)
(* analyzer.py).  For each monitored prefix Routinator lists ROAs, fails    *)
(* or sends something that raises another exception.  A ROA expires in so   *)
(* many days, or its date is missing or cannot be read.                     *)
(*                                                                         *)
(* UnreadableEndsPrefix is a regression of CheckROA, which nothing uses.    *)
(***************************************************************************)
EXTENDS Integers, Sequences, SequencesExt

CONSTANTS
    NoDate,     \* not_after of a ROA without a date
    BadDate     \* not_after of one whose date cannot be read, or has no time zone

\* get_roas_for_prefix: a request that fails is an empty list, and so is a list of
\* which no entry is written like the prefix.
get_roas_for_prefix(answer, prefix) ==
    IF answer.kind = "failed" THEN <<>>
    ELSE FoldLeft(LAMBDA roas, roa : IF roa.prefix = prefix THEN Append(roas, roa) ELSE roas,
                  <<>>, answer.roas)

\* The first threshold in the configuration's order that is reached, 0 for none.
Threshold(days, thresholds) ==
    LET reached == {i \in DOMAIN thresholds : days <= thresholds[i]}
    IN  IF reached = {} THEN 0 ELSE thresholds[Min(reached)]

\* The gauge of the ROA's prefix and AS, and the warning.
ShowROA(pass, roa, thresholds) ==
    LET key == <<roa.prefix, roa.asn>>
        threshold == Threshold(roa.not_after, thresholds)
    IN  [pass EXCEPT
            !.gauge[key] = roa.not_after,
            !.warned = IF threshold = 0 THEN @ ELSE @ \cup {<<key, threshold>>}]

UnreadableEndsPrefix(pass, roa, thresholds) ==
    IF roa.not_after = BadDate \/ pass.aborted THEN [pass EXCEPT !.aborted = TRUE]
    ELSE IF roa.not_after = NoDate THEN pass
    ELSE ShowROA(pass, roa, thresholds)

CheckROA(pass, roa, thresholds) ==
    IF roa.not_after \in {NoDate, BadDate} THEN pass ELSE ShowROA(pass, roa, thresholds)

\* The prefixes come in any order; any other exception ends the pass.
CheckPrefix(pass, prefix, answer, thresholds) ==
    CASE pass.aborted -> pass
      [] ~pass.aborted /\ answer.kind = "raises" -> [pass EXCEPT !.aborted = TRUE]
      [] OTHER -> FoldLeft(LAMBDA before, roa : CheckROA(before, roa, thresholds),
                           pass, get_roas_for_prefix(answer, prefix))

\* One pass over the prefixes, in this order.
check_roa_expiry(gauge, prefixes, answers, thresholds) ==
    FoldLeft(LAMBDA pass, i : CheckPrefix(pass, prefixes[i], answers[i], thresholds),
             [gauge |-> gauge, warned |-> {}, aborted |-> FALSE],
             [i \in DOMAIN prefixes |-> i])
=============================================================================
