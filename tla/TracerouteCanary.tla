-------------------------- MODULE TracerouteCanary --------------------------
(***************************************************************************)
(* The traceroute canary (internal/agent/canary/traceroute/traceroute.go). *)
(*                                                                         *)
(* A tool's report is the sequence of its hops.  The host of a hop is      *)
(* silent ("???" in mtr's report) or has an address, written or found by    *)
(* its name, which may be none.                                             *)
(*                                                                         *)
(* trValidateAnyBackend, receivedTruncated, RTTMinOfAll and                 *)
(* buildASPathByHop are regressions of the definitions after them, which    *)
(* nothing uses.                                                            *)
(***************************************************************************)
EXTENDS Integers, Sequences, SequencesExt, FiniteSetsExt

NoIP == ""      \* in the place of an address

Backends == {"mtr", "scamper"}

\* A configuration's protocol: which one, and whether it is written in lower case.
Protocols == {"icmp", "udp", "tcp"}

trValidateAnyBackend(cfg) ==
    /\ cfg.protocol.name # "" => cfg.protocol.name \in Protocols
    /\ cfg.cycles >= 0 /\ cfg.maxHops \in 0 .. 255

trValidate(cfg) ==
    /\ cfg.backend # "" => cfg.backend \in Backends
    /\ cfg.cycles >= 0
    /\ cfg.maxHops \in 0 .. 255
    /\ cfg.protocol.name # "" => cfg.protocol.name \in Protocols

mergeDefaults(cfg) ==
    [cfg EXCEPT !.backend = IF @ = "" THEN "mtr" ELSE @,
                !.cycles = IF @ = 0 THEN 10 ELSE @,
                !.maxHops = IF @ = 0 THEN 30 ELSE @,
                !.protocol = IF @.name = "" THEN [name |-> "icmp", lower |-> TRUE] ELSE @]

\* buildMTRArgs: the probe that mtr is asked for.
buildMTRArgs(cfg) ==
    [protocol |-> cfg.protocol.name, cycles |-> cfg.cycles, maxHops |-> cfg.maxHops,
     port |-> IF cfg.protocol.name \in {"tcp", "udp"} THEN cfg.port ELSE 0]

\* buildScamperArgs: the port is passed only for a protocol in lower case.
buildScamperArgs(cfg) ==
    [protocol |-> cfg.protocol.name, cycles |-> cfg.cycles, maxHops |-> cfg.maxHops,
     port |-> IF cfg.protocol.name \in {"tcp", "udp"} /\ cfg.protocol.lower THEN cfg.port ELSE 0]

-----------------------------------------------------------------------------
(* Reading the reports.                                                    *)

\* mtr's percentage of lost probes, to a tenth: here in thousandths, rounded.
LossReported(sent, lost) == (2000 * lost + sent) \div (2 * sent)

receivedTruncated(sent, loss) == sent - (sent * loss) \div 1000

\* int(float64(h.Sent)*hop.PacketLoss + 0.5) probes are lost.
received(sent, loss) == IF sent > 0 THEN sent - (2 * sent * loss + 1000) \div 2000 ELSE 0

\* A silent hop, and a name that does not resolve, have no address.
hopIP(host) == IF host.kind = "silent" THEN NoIP ELSE host.ip

\* parseMTRJSON; no field of the report is an AS number.
parseMTRJSON(report) ==
    [i \in DOMAIN report |->
        [ip |-> hopIP(report[i].host), asn |-> 0, sent |-> report[i].sent,
         received |-> received(report[i].sent, report[i].loss)]]

Replies(probes) == {i \in DOMAIN probes : probes[i].reply}

RTTMinOfAll(probes) == Min({probes[i].rtt : i \in DOMAIN probes})

\* The minimum starts from the first probe, answered or not.
RTTMin(probes) == Min({probes[i].rtt : i \in Replies(probes) \cup {1}})

RTTMax(probes) == Max({probes[i].rtt : i \in Replies(probes)} \cup {0})

\* parseScamperJSON of the first trace object; without one it is an error.
parseScamperJSON(report) ==
    [i \in DOMAIN report |->
        LET probes == report[i].probes IN
        [ip |-> report[i].host.ip, asn |-> 0, sent |-> Len(probes),
         received |-> Cardinality(Replies(probes)),
         rttMin |-> IF Replies(probes) = {} THEN 0 ELSE RTTMin(probes),
         rttMax |-> IF Replies(probes) = {} THEN 0 ELSE RTTMax(probes)]]

buildASPathByHop(hops) ==
    FoldLeft(LAMBDA path, i :
                IF hops[i].asn # 0 /\ (i = 1 \/ hops[i - 1].asn # hops[i].asn)
                THEN Append(path, hops[i].asn) ELSE path,
             <<>>, [i \in DOMAIN hops |-> i])

\* buildASPath: the known AS numbers, each written once while it repeats.
buildASPath(hops) ==
    FoldLeft(LAMBDA path, h :
                IF h.asn # 0 /\ (path = <<>> \/ Last(path) # h.asn)
                THEN Append(path, h.asn) ELSE path,
             <<>>, hops)

\* didReachTarget: the last hop with an address has one of the target's.
didReachTarget(hops, targetIPs) ==
    LET known == {i \in DOMAIN hops : hops[i].ip # NoIP}
    IN  known # {} /\ hops[Max(known)].ip \in targetIPs

Refused == [refused |-> TRUE, hops |-> <<>>, reached |-> FALSE, asPath |-> <<>>]

\* Execute: a tool that fails, by its own deadline or the test's, and a report
\* that cannot be read lose the hops seen so far.  Success is reached.
trExecute(config, failed, report, targetIPs) ==
    LET cfg == mergeDefaults(config)
        hops == CASE failed -> <<>>
                  [] cfg.backend = "mtr" -> parseMTRJSON(report)
                  [] cfg.backend = "scamper" -> parseScamperJSON(report)
                  [] OTHER -> <<>>
    IN  IF cfg.backend \notin Backends THEN Refused
        ELSE [refused |-> FALSE, hops |-> hops, reached |-> didReachTarget(hops, targetIPs),
              asPath |-> buildASPath(hops)]
=============================================================================
