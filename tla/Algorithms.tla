----------------------------- MODULE Algorithms -----------------------------
(***************************************************************************)
(* The pure functions of the correlation engine and of the BGP analyzer,    *)
(* called on any small input and compared with what they should answer: the *)
(* verdict on two AS paths, the comparisons of two prefixes, the reading of *)
(* an as-path attribute and a pass of the ROA monitor.                      *)
(***************************************************************************)
EXTENDS ASPath, Prefix, BGPAttributes, ROAMonitor

CONSTANTS
    ASNs,   \* AS numbers
    MaxLen, \* bound: length of a path
    Holders,    \* AS numbers that ROAs are for
    Expiries,   \* days that ROAs may have left
    Thresholds, \* roa_expiry_warning_days
    MaxROAs     \* bound: ROAs listed for one prefix

ASSUME PathAssumption ==
    /\ MaxLen \in Nat /\ MaxROAs \in Nat
    /\ Expiries \subseteq Int /\ Expiries \cap {NoDate, BadDate} = {}
    /\ Thresholds \in Seq(Nat \ {0})

Paths == UNION {[1..n -> ASNs] : n \in 0..MaxLen}
RawPaths == UNION {[1..n -> ASNs \cup {Junk}] : n \in 0..MaxLen}

\* Every prefix of every family, with any host bits.
PrefixInputs == UNION {Written(v) : v \in Versions}

\* What Routinator lists for one of two monitored prefixes, a ROA of a covering prefix
\* included.
MonitoredByROA == <<"p", "q">>
ListedFor(prefix) ==
    [prefix : {prefix}, asn : Holders, not_after : Expiries \cup {NoDate, BadDate}]
    \cup [prefix : {"covering"}, asn : Holders, not_after : Expiries]

RoutinatorAnswers(prefix) ==
    [kind : {"failed", "raises"}, roas : {<<>>}]
    \cup [kind : {"listed"}, roas : UNION {[1..n -> ListedFor(prefix)] : n \in 0..MaxROAs}]

NoneShown == [key \in Range(MonitoredByROA) \X Holders |-> NoDate]

VARIABLE call \* the last call and its answer

Init == call = [op |-> "none"]

Evaluate(bgp, tr, reached) ==
    call' = [op |-> "evaluate", bgp |-> bgp, tr |-> tr, reached |-> reached,
             match |-> evaluate(bgp, tr, reached)]

Compare(a, b) ==
    call' = [op |-> "compare", a |-> a, b |-> b,
             contains |-> prefix_contains(a, b),
             sub |-> is_sub_prefix(a, b),
             overlap |-> prefixes_overlap(a, b)]

Parse(raw) == call' = [op |-> "parse", raw |-> raw, path |-> parse_as_path(raw)]

CheckExpiry(answers) ==
    call' = [op |-> "roas", answers |-> answers,
             pass |-> check_roa_expiry(NoneShown, MonitoredByROA, answers, Thresholds)]

\* The calls are independent: each starts from a fresh caller.
Next ==
    /\ call.op = "none"
    /\ \/ \E bgp \in Paths, tr \in Paths, reached \in BOOLEAN : Evaluate(bgp, tr, reached)
       \/ \E a \in PrefixInputs, b \in PrefixInputs : Compare(a, b)
       \/ \E raw \in RawPaths : Parse(raw)
       \/ \E first \in RoutinatorAnswers("p"), second \in RoutinatorAnswers("q") :
            CheckExpiry(<<first, second>>)

Spec == Init /\ [][Next]_call

-----------------------------------------------------------------------------
(* evaluate.                                                               *)

\* "mismatch" is raised only when the two origins differ: it is the hijack
\* signal, and paths that only disagree in transit never raise it.
MismatchIsOrigin ==
    call.op = "evaluate" /\ call.match = "mismatch" => Origin(call.bgp) # Origin(call.tr)

IsTail(sub, full) ==
    /\ Len(sub) <= Len(full)
    /\ \A j \in 1..Len(sub) : full[Len(full) - Len(sub) + j] = sub[j]

LoopFree(path) == \A i, j \in 1..Len(path) : path[i] = path[j] => i = j

\* On a BGP path without loops, "exact" means that the traceroute saw the tail of
\* the path, up to its origin: isSubsequence alone would accept any segment.
ExactIsTail ==
    call.op = "evaluate" /\ call.match = "exact" /\ LoopFree(call.bgp)
        => IsTail(call.tr, call.bgp)

-----------------------------------------------------------------------------
(* The prefix comparisons.                                                 *)

\* The addresses a prefix covers.
Addresses(w) ==
    LET size == Block(w.version, w.prefixlen)
    IN  {<<w.version, x>> : x \in {y \in 0 .. Block(w.version, 0) - 1 :
                                        y \div size = w.addr \div size}}

\* The comparisons are those of sets of addresses, whatever the host bits and the
\* families: containment is inclusion, a sub-prefix is a proper subset (the
\* same network with other host bits would be counted as a hijack), and two
\* prefixes overlap when they share an address.  An IPv4 and an IPv6 prefix
\* with the same numbers are not confused.
PrefixesAreSets ==
    call.op = "compare" =>
        LET A == Addresses(call.a)
            B == Addresses(call.b)
        IN  /\ call.contains <=> B \subseteq A
            /\ call.sub <=> B \subseteq A /\ A # B
            /\ call.overlap <=> A \cap B # {}

-----------------------------------------------------------------------------
(* _parse_as_path.                                                         *)

\* Prepending is not a path change and junk is not a hop: writing a number of the
\* attribute once more beside itself gives the same path, and the path names
\* exactly the numbers of the attribute, the last of them being the origin.
PrependingIgnored ==
    call.op = "parse" =>
        /\ \A i \in {j \in DOMAIN call.raw : isdigit(call.raw[j])} :
            parse_as_path(InsertAt(call.raw, i, call.raw[i])) = call.path
        /\ Range(call.path) = Range(call.raw) \ {Junk}
        /\ Len(call.raw) > 0 /\ isdigit(Last(call.raw))
            => origin_asn(call.path) = Last(call.raw)

-----------------------------------------------------------------------------
(* _check_roa_expiry.                                                      *)

\* The days left of the ROAs of a prefix and AS, of those lists that came before an
\* exception.
DaysListed(key) ==
    {days \in Expiries :
        \E i \in DOMAIN call.answers :
            /\ \A j \in 1..i : call.answers[j].kind # "raises"
            /\ \E roa \in Range(call.answers[i].roas) :
                /\ <<roa.prefix, roa.asn>> = key
                /\ roa.not_after = days}

\* A request that fails for one prefix, and a ROA without a readable date, hide
\* no other: every prefix and AS with a dated ROA shows the days of one of them,
\* and a warning is logged for exactly those with a ROA that reached some
\* threshold.  An exception of another kind hides the prefixes after it only.
ExpiriesShown ==
    call.op = "roas" =>
        \A key \in DOMAIN call.pass.gauge :
            LET days == DaysListed(key)
            IN  /\ IF days = {} THEN call.pass.gauge[key] = NoDate
                   ELSE call.pass.gauge[key] \in days
                /\ (\E w \in call.pass.warned : w[1] = key)
                    <=> \E d \in days : \E t \in Range(Thresholds) : d <= t
=============================================================================
