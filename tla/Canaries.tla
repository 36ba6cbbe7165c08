------------------------------ MODULE Canaries ------------------------------
(***************************************************************************)
(* One execution, or one validation, of a DNS, HTTP or traceroute test over *)
(* any small configuration and network, and what its verdict must mean.     *)
(***************************************************************************)
EXTENDS DNSCanary, HTTPCanary, TracerouteCanary, BGPAttributes

CONSTANTS
    Values,         \* DNS values
    Deadline,       \* bound: the time a DNS test has; its answers come up to one later
    MaxResolvers,   \* bound: resolvers of a test
    Redirects,      \* bound: redirects of a site
    RedirectLimits, \* bound: max_redirects, with 0 for none
    MaxSent,        \* bound: probes that mtr sends to a hop
    MaxProbes,      \* bound: probes that scamper sends to a hop
    Numbers,        \* AS numbers
    MaxHops         \* bound: hops

\* mtr reports losses in tenths of a percent, which tell fewer than a thousand
\* probes apart; the time a test has is positive (executeTest's context), and some
\* sites answer without a redirect.  Junk is a hop that is not an AS number.
ASSUME CanariesAssumption ==
    /\ \A v \in Values : v.family \in Families
    /\ Redirects \subseteq Nat /\ RedirectLimits \subseteq Nat
    /\ {MaxResolvers, Deadline, MaxSent, MaxProbes, MaxHops} \subseteq Nat
    /\ Junk \notin Numbers
    /\ MaxSent < 1000 /\ Deadline > 0 /\ 0 \in Redirects

VARIABLE test \* the last test and its outcome

CanaryInit == test = [canary |-> "none"]

DNSConfigs == [recordType : {"", "A", "AAAA", "CNAME", "SOA", "PTR"}, expected : SUBSET Values]

\* Resolvers that answer, and one of each family of errors.
Resolvers ==
    [delay : 0 .. Deadline, err : {""}, values : SUBSET Values]
    \cup [delay : {1}, err : {"no such host", "connection refused", "i/o timeout"}, values : {{}}]

HTTPConfigs ==
    [method : {"", "HEAD", "TRACE"}, expectedStatus : {0, 200, 301},
     regex : {"none", "valid", "invalid"}, contentMatch : BOOLEAN,
     followRedirects : {"unset", "yes", "no"}, maxRedirects : RedirectLimits]

Answers == [status : {200, 301, 500}, contains : BOOLEAN, matches : BOOLEAN]

\* The answers before the last are redirects; the last may be one that goes nowhere.
Sites ==
    [redirects : Redirects, redirect : {a \in Answers : a.status = 301 /\ (a.contains <=> a.matches)},
     answer : Answers, fails : BOOLEAN]

TracerouteConfigs ==
    [backend : {"", "mtr", "scamper", "tracert"}, cycles : {0, 3}, maxHops : {0, 30}, port : {0, 80},
     protocol : [name : {"", "icmp", "udp", "tcp", "sctp"}, lower : BOOLEAN]]

Probes == [reply : BOOLEAN, rtt : 0 .. MaxProbes]

DNSTest(resolvers, system, cfg) ==
    test' = [canary |-> "dns", cfg |-> cfg, outcome |-> dnsExecute(resolvers, system, cfg, Deadline)]

HTTPTest(site, cfg) ==
    test' = [canary |-> "http", cfg |-> cfg, site |-> site, outcome |-> httpExecute(site, cfg)]

\* One hop of mtr's report, whose percentage hides how many probes were lost.
MTRHop(sent, lost) ==
    test' = [canary |-> "mtr", sent |-> sent, lost |-> lost,
             hop |-> parseMTRJSON(<<[host |-> [kind |-> "silent"], sent |-> sent,
                                     loss |-> LossReported(sent, lost)]>>)[1]]

\* One hop of scamper's report.
ScamperHop(probes) ==
    test' = [canary |-> "scamper", probes |-> probes,
             hop |-> parseScamperJSON(<<[host |-> [ip |-> NoIP], probes |-> probes]>>)[1]]

\* The path over hops of these AS numbers, 0 where it is not known.
PathTest(asns) ==
    test' = [canary |-> "path", asns |-> asns,
             path |-> buildASPath([i \in DOMAIN asns |-> [asn |-> asns[i]]])]

Validation(canary, cfg, accepted) ==
    test' = [canary |-> "validate", by |-> canary, cfg |-> cfg, accepted |-> accepted]

CanaryNext ==
    /\ test.canary = "none"
    /\ \/ \E n \in 0 .. MaxResolvers : \E resolvers \in [1 .. n -> Resolvers], cfg \in DNSConfigs :
            \E system \in IF n = 0 THEN Resolvers ELSE {[delay |-> 0, err |-> "", values |-> Values]} :
                DNSTest(resolvers, system, cfg)
       \/ \E site \in Sites, cfg \in HTTPConfigs : httpValidate(cfg) /\ HTTPTest(site, cfg)
       \/ \E sent \in 1 .. MaxSent : \E lost \in 0 .. sent : MTRHop(sent, lost)
       \/ \E n \in 1 .. MaxProbes : \E probes \in [1 .. n -> Probes] : ScamperHop(probes)
       \/ \E n \in 0 .. MaxHops : \E asns \in [1 .. n -> Numbers \cup {0}] : PathTest(asns)
       \/ \E cfg \in DNSConfigs : Validation("dns", cfg, dnsValidate(cfg))
       \/ \E cfg \in HTTPConfigs : Validation("http", cfg, httpValidate(cfg))
       \/ \E cfg \in TracerouteConfigs : Validation("traceroute", cfg, trValidate(cfg))

CanarySpec == CanaryInit /\ [][CanaryNext]_test

-----------------------------------------------------------------------------
(* What the verdicts mean.                                                 *)

\* The times at which resolvers asked in turn answer if nothing cuts them short.
AnsweredAt(resolvers) ==
    LET at[i \in 0 .. Len(resolvers)] == IF i = 0 THEN 0 ELSE at[i - 1] + resolvers[i].delay
    IN  at

\* Execute's resolvers share one deadline: a test succeeds exactly when every one
\* of them, asked after the ones before it, answers in time and without error and
\* holds each expected value in the family asked for.  The test never outlives
\* the deadline, and a resolver that is not reached in time is not called good.
DNSVerdict ==
    test.canary = "dns" =>
        LET asked == test.outcome.asked
            type == RecordType(test.cfg)
            Good(i) ==
                /\ AnsweredAt(asked)[i] < Deadline
                /\ asked[i].err = ""
                /\ \A v \in test.cfg.expected :
                    /\ v \in asked[i].values
                    /\ type \in {"A", "AAAA"} => (v.family = "v4" <=> type = "A")
        IN  /\ test.outcome.success <=>
                type \in RecordTypes \ {"SOA"} /\ \A i \in DOMAIN asked : Good(i)
            /\ \A i \in DOMAIN asked : test.outcome.resolvers[i].at <= Deadline

\* A test succeeds exactly when the answer that the limit of redirects lets it
\* reach has the expected status and content; a limit of n lets n redirects pass,
\* one of 0 ten, and without following, the redirect itself is the answer.
HTTPVerdict ==
    test.canary = "http" =>
        LET cfg == test.cfg
            follows == cfg.followRedirects # "no"
            reached == IF follows \/ test.site.redirects = 0 THEN test.site.answer ELSE test.site.redirect
        IN  test.outcome.success <=>
                /\ ~test.site.fails
                /\ follows =>
                    test.site.redirects <= IF cfg.maxRedirects = 0 THEN 10 ELSE cfg.maxRedirects
                /\ reached.status = IF cfg.expectedStatus = 0 THEN 200 ELSE cfg.expectedStatus
                /\ cfg.contentMatch => cfg.method # "HEAD" /\ reached.contains
                /\ cfg.regex = "valid" => reached.matches

\* Of what Validate accepts, Execute can make a success of everything but a SOA
\* query, an expected address of the other family and a text in the body of a
\* HEAD; and it makes both traceroute tools probe alike, unless the protocol
\* is written in upper case.
AcceptedCanSucceed ==
    test.canary = "validate" /\ test.accepted =>
        CASE test.by = "dns" ->
                \/ RecordType(test.cfg) = "SOA"
                \/ Kept(RecordType(test.cfg), test.cfg.expected) # test.cfg.expected
                \/ \E r \in Resolvers : dnsExecute(<<r>>, r, test.cfg, Deadline).success
          [] test.by = "http" ->
                \/ test.cfg.method = "HEAD" /\ test.cfg.contentMatch
                \/ \E site \in Sites : httpExecute(site, test.cfg).success
          [] test.by = "traceroute" ->
                LET cfg == mergeDefaults(test.cfg)
                    hop == [host |-> [kind |-> "address", ip |-> "target"], sent |-> 1, loss |-> 0,
                            probes |-> <<[reply |-> TRUE, rtt |-> 1]>>]
                IN  /\ trExecute(test.cfg, FALSE, <<hop>>, {"target"}).reached
                    /\ cfg.protocol.name \in Protocols
                    /\ cfg.protocol.lower => buildMTRArgs(cfg) = buildScamperArgs(cfg)

\* A hop's numbers fit together.  mtr tells the loss as a percentage only, and the
\* probes counted back from it are the ones received; the least RTT that is made of
\* scamper's probes is that of a reply, if the first probe had one.
HopStatistics ==
    /\ test.canary = "mtr" => test.hop.received = test.sent - test.lost
    /\ test.canary = "scamper" /\ test.hop.received > 0 =>
        LET RTTs == {test.probes[i].rtt : i \in {j \in DOMAIN test.probes : test.probes[j].reply}}
        IN  /\ test.hop.rttMin <= test.hop.rttMax
            /\ test.hop.rttMax = Max(RTTs)
            /\ test.probes[1].reply => test.hop.rttMin = Min(RTTs)

\* The correlation engine compares traceroute paths with BGP paths, which another
\* program in another language made: both normalise one walk to one path, a hop of
\* no known AS counting as little as a part that is not a number.
PathsNormalisedAlike ==
    test.canary = "path" =>
        test.path = parse_as_path([i \in DOMAIN test.asns |->
                                        IF test.asns[i] = 0 THEN Junk ELSE test.asns[i]])
=============================================================================
