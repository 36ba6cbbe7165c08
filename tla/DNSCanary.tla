----------------------------- MODULE DNSCanary -----------------------------
(***************************************************************************)
(* The DNS canary (internal/agent/canary/dns/dns.go).                      *)
(*                                                                         *)
(* Execute asks the configured resolvers one after the other, all under    *)
(* the context of the test.  A resolver is what it will answer and when:   *)
(* delay, the text of its error or "" and the values it holds.  A value is *)
(* an address of one of the two families.                                  *)
(*                                                                         *)
(* dnsValidateAnyType and queryWithOwnDeadline are regressions of the       *)
(* definitions after them, which nothing uses.                              *)
(***************************************************************************)
EXTENDS Naturals, Sequences, SequencesExt

Families == {"v4", "v6"}

\* An answer that comes at the deadline is too late, and so is every question
\* asked after it.
TooLate(now, resolver, deadline) == now + resolver.delay >= deadline

RecordTypes == {"A", "AAAA", "CNAME", "MX", "NS", "TXT", "SOA", "SRV"}

\* A and AAAA ask for all addresses and keep those of one family.
Kept(type, values) ==
    CASE type = "A" -> {v \in values : v.family = "v4"}
      [] type = "AAAA" -> {v \in values : v.family = "v6"}
      [] OTHER -> values

\* An empty record type is A, here and in DefaultConfig.
RecordType(cfg) == IF cfg.recordType = "" THEN "A" ELSE cfg.recordType

dnsValidateAnyType(cfg) == TRUE

dnsValidate(cfg) == cfg.recordType # "" => cfg.recordType \in RecordTypes

classifyDNSError(err) ==
    CASE err = "" -> "NOERROR"
      [] err = "no such host" -> "NXDOMAIN"
      [] err = "server misbehaving" -> "SERVFAIL"
      [] err = "i/o timeout" -> "TIMEOUT"
      [] err = "connection refused" -> "REFUSED"
      [] OTHER -> "ERROR"

\* The lookup: its error, what it resolved and when it is over.  No case of the
\* switch asks for SOA.
lookup(now, resolver, type, deadline) ==
    IF type \notin RecordTypes \ {"SOA"}
    THEN [err |-> "unsupported record type", resolved |-> {}, at |-> now]
    ELSE IF TooLate(now, resolver, deadline)
    THEN [err |-> "i/o timeout", resolved |-> {}, at |-> deadline]
    ELSE [err |-> resolver.err, at |-> now + resolver.delay,
          resolved |-> IF resolver.err = "" THEN Kept(type, resolver.values) ELSE {}]

\* validateContent: every expected value was resolved.
validateContent(resolved, expected) == expected \subseteq resolved

queryResolver(now, resolver, cfg, deadline) ==
    LET answer == lookup(now, resolver, RecordType(cfg), deadline)
    IN  [responseCode |-> classifyDNSError(answer.err),
         resolved |-> answer.resolved,
         success |-> answer.err = "" /\ validateContent(answer.resolved, cfg.expected),
         at |-> answer.at]

\* The resolvers asked one after the other, each when the one before is done.
queryWithOwnDeadline(resolvers, cfg, deadline) ==
    FoldLeft(LAMBDA results, r : Append(results, queryResolver(0, r, cfg, deadline)),
             <<>>, resolvers)

queryInTurn(resolvers, cfg, deadline) ==
    FoldLeft(LAMBDA results, r :
                LET now == IF results = <<>> THEN 0 ELSE Last(results).at
                IN  Append(results, queryResolver(now, r, cfg, deadline)),
             <<>>, resolvers)

\* Execute: without resolvers the system's is asked; one failure fails the test.
dnsExecute(resolvers, system, cfg, deadline) ==
    LET asked == IF resolvers = <<>> THEN <<system>> ELSE resolvers
        results == queryInTurn(asked, cfg, deadline)
    IN  [asked |-> asked, resolvers |-> results,
         success |-> \A i \in DOMAIN results : results[i].success]
=============================================================================
