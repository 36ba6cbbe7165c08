----------------------------- MODULE Processor -----------------------------
(***************************************************************************)
(* The metrics processor (internal/processor) behind JetStream.            *)
(*                                                                         *)
(* One goroutine per topic takes a message, runs the topic's handler and   *)
(* acknowledges.  Handlers always return nil, malformed messages included. *)
(* JetStream delivers a topic's messages in order the first time; one      *)
(* whose acknowledgement is missing, or too late, comes back later.  All   *)
(* the processor knows is in memory and is gone after a restart.           *)
(*                                                                         *)
(* A handler runs in one step: what it writes is shared with no other      *)
(* topic's goroutine.  The feed into the correlation engine is modelled in *)
(* CorrelationEngine.                                                      *)
(***************************************************************************)
EXTENDS Integers, Sequences, FiniteSets

CONSTANTS
    Topics,         \* result topics published to
    Targets,        \* tested targets; one POP
    Agents,
    Paths,          \* AS paths a traceroute may report, the empty one included
    CertDays,       \* days a certificate may have left
    Reported,       \* bound: metrics the canaries report, per topic
    None,
    MaxMsgs,        \* bound: messages published
    LastAt,         \* bound: latest position in the stream of a topic's messages
    MayFail,        \* bound: topics whose subscription may fail
    MaxFaults       \* bound: lost acknowledgements and restarts together

ResponseCodes == {"NOERROR", "SERVFAIL"}

\* The metrics object of a result of each type: what a handler reads of it.
Metrics(topic) ==
    CASE topic = "ping" -> [loss : {0, 1}]
      [] topic = "dns" -> [codes : SUBSET ResponseCodes \ {ResponseCodes}]
      [] topic = "http" -> [status : {200, 500}, cert : CertDays]
      [] topic = "traceroute" -> [path : Paths, reached : BOOLEAN]

\* What decoding the null of a failed execution leaves in the Go struct.
ZeroMetrics(topic) ==
    CASE topic = "ping" -> [loss |-> 0]
      [] topic = "dns" -> [codes |-> {}]
      [] topic = "http" -> [status |-> 0, cert |-> 0]
      [] topic = "traceroute" -> [path |-> <<>>, reached |-> FALSE]

\* A message: not JSON at all, with a metrics value of another type, with no
\* metrics, or with metrics.
Message(topic) ==
    [topic : {topic}, form : {"malformed"}]
    \cup [topic : {topic}, form : {"badMetrics", "noMetrics"}, target : Targets, agent : Agents]
    \cup [topic : {topic}, form : {"ok"}, target : Targets, agent : Agents,
          metrics : Reported[topic]]

Messages == UNION {Message(topic) : topic \in Topics}

Keys == Targets \X Agents

ASSUME ProcessorAssumption ==
    /\ Topics \subseteq {"ping", "dns", "http", "traceroute"}
    /\ <<>> \in Paths /\ Paths \subseteq Seq(Int)
    /\ CertDays \subseteq Int
    /\ \A t \in Topics : Reported[t] \subseteq Metrics(t) /\ LastAt[t] \in Nat
    /\ MayFail \subseteq Topics \ {"ping"} /\ MaxMsgs \in Nat /\ MaxFaults \in Nat

VARIABLES
    \* the stream and its durable consumers
    log,              \* messages published
    delivered,        \* delivered at least once
    acked,            \* acknowledged
    lostAcks,
    \* the processor's goroutines
    sub,              \* topics whose subscription was made
    cur,              \* message a goroutine has in hand, 0 for none
    pc,
    restarts,
    \* its memory: the metrics and the last AS paths
    mem,
    \* history
    handled,          \* messages handled since the last start, in order
    redelivered,      \* messages that had been delivered before, since then
    everHandled       \* messages handled in any incarnation

streamVars == <<log, delivered, acked, lostAcks>>
history == <<handled, redelivered, everHandled>>
vars == <<streamVars, sub, cur, pc, restarts, mem, history>>

ErrorTypes == {"unmarshal", "metrics_unmarshal"}

\* The numbers of the path with a space between them.
asPathString(path) ==
    [i \in 1 .. 2 * Len(path) - 1 |-> IF i % 2 = 1 THEN path[(i + 1) \div 2] ELSE " "]

PathStrings == {<<>>} \cup {asPathString(path) : path \in Paths}

\* A gauge with the labels of a key: not set before its first result.
Gauge(values) == [Keys -> values \cup {None}]

\* The fields of Processor.
Memory ==
    [pingPacketLoss : Gauge({0, 1}),
     dnsResponseCode : SUBSET (Keys \X ResponseCodes),
     httpStatusCode : Gauge({0, 200, 500}),
     httpCertExpiry : Gauge({days \in CertDays : days > 0}),
     tracerouteReachable : Gauge({0, 1}),
     traceroutePathChange : [Targets -> Nat],
     lastASPaths : [Targets -> PathStrings],
     resultsProcessed : [Topics -> Nat],
     processingErrors : [Topics \X ErrorTypes -> Nat]]

TypeOK ==
    /\ log \in Seq(Messages) /\ Len(log) <= MaxMsgs
    /\ acked \subseteq delivered /\ delivered \subseteq 1 .. Len(log)
    /\ redelivered \subseteq delivered /\ everHandled \subseteq 1 .. Len(log)
    /\ lostAcks \in Nat
    /\ sub \subseteq Topics
    /\ pc \in [Topics -> {"idle", "handle", "ack"}]
    /\ cur \in [Topics -> 0 .. MaxMsgs]
    /\ \A t \in Topics :
        IF pc[t] = "idle" THEN cur[t] = 0 ELSE cur[t] \in delivered /\ log[cur[t]].topic = t
    /\ restarts \in Nat /\ lostAcks + restarts <= MaxFaults
    /\ mem \in Memory

\* New: nothing known, every metric unset.
New ==
    [pingPacketLoss |-> [k \in Keys |-> None],
     dnsResponseCode |-> {},
     httpStatusCode |-> [k \in Keys |-> None],
     httpCertExpiry |-> [k \in Keys |-> None],
     tracerouteReachable |-> [k \in Keys |-> None],
     traceroutePathChange |-> [t \in Targets |-> 0],
     lastASPaths |-> [t \in Targets |-> <<>>],
     resultsProcessed |-> [t \in Topics |-> 0],
     processingErrors |-> [x \in Topics \X ErrorTypes |-> 0]]

\* Run: a subscription that fails is logged and the others go on, except that of
\* the ping results, whose failure ends Run: that start had no effect.
Subscriptions == {topics \in SUBSET Topics : Topics \ MayFail \subseteq topics}

Init ==
    /\ mem = New
    /\ sub \in Subscriptions
    /\ cur = [t \in Topics |-> 0]
    /\ pc = [t \in Topics |-> "idle"]
    /\ log = <<>>
    /\ delivered = {}
    /\ acked = {}
    /\ lostAcks = 0
    /\ restarts = 0
    /\ handled = <<>>
    /\ redelivered = {}
    /\ everHandled = {}

-----------------------------------------------------------------------------
(* JetStream and the Subscribe callback of the NATS transport.             *)

OfTopic(t) == {i \in 1 .. Len(log) : log[i].topic = t}

Publish ==
    /\ Len(log) < MaxMsgs
    /\ \E m \in Messages :
        /\ Len(log) < LastAt[m.topic]
        /\ log' = Append(log, m)
    /\ UNCHANGED <<delivered, acked, lostAcks, sub, cur, pc, restarts, mem, history>>

\* The next new message, or one whose acknowledgement has not come in time.
Deliver(t) ==
    /\ t \in sub
    /\ pc[t] = "idle"
    /\ \E i \in OfTopic(t) \ acked :
        /\ i \in delivered \/ \A j \in OfTopic(t) : j < i => j \in delivered
        /\ cur' = [cur EXCEPT ![t] = i]
        /\ delivered' = delivered \cup {i}
        /\ redelivered' = redelivered \cup (delivered \cap {i})
    /\ pc' = [pc EXCEPT ![t] = "handle"]
    /\ UNCHANGED <<log, acked, lostAcks, sub, restarts, mem, handled, everHandled>>

AckBeforeHandling(t) ==
    /\ pc[t] = "handle"
    /\ acked' = acked \cup {cur[t]}
    /\ cur' = [cur EXCEPT ![t] = 0]
    /\ pc' = [pc EXCEPT ![t] = "idle"]
    /\ UNCHANGED <<log, delivered, lostAcks, sub, restarts, mem, history>>

\* The handler returned nil: acknowledge.
Ack(t) ==
    /\ pc[t] = "ack"
    /\ acked' = acked \cup {cur[t]}
    /\ cur' = [cur EXCEPT ![t] = 0]
    /\ pc' = [pc EXCEPT ![t] = "idle"]
    /\ UNCHANGED <<log, delivered, lostAcks, sub, restarts, mem, history>>

\* The error of m.Ack() is ignored.
AckLost(t) ==
    /\ pc[t] = "ack"
    /\ lostAcks + restarts < MaxFaults
    /\ lostAcks' = lostAcks + 1
    /\ cur' = [cur EXCEPT ![t] = 0]
    /\ pc' = [pc EXCEPT ![t] = "idle"]
    /\ UNCHANGED <<log, delivered, acked, sub, restarts, mem, history>>

-----------------------------------------------------------------------------
(* The handlers.                                                           *)

Handled(t) ==
    /\ pc[t] = "handle"
    /\ pc' = [pc EXCEPT ![t] = "ack"]
    /\ handled' = Append(handled, cur[t])
    /\ everHandled' = everHandled \cup {cur[t]}
    /\ UNCHANGED <<streamVars, sub, cur, restarts, redelivered>>

RejectForRedelivery(t) ==
    /\ pc[t] = "handle"
    /\ log[cur[t]].form = "malformed"
    /\ pc' = [pc EXCEPT ![t] = "idle"]
    /\ cur' = [cur EXCEPT ![t] = 0]
    /\ UNCHANGED <<streamVars, sub, restarts, mem, history>>

\* Not a result: counted as an error, and acknowledged like any other.
HandleMalformed(t) ==
    /\ Handled(t)
    /\ log[cur[t]].form = "malformed"
    /\ mem' = [mem EXCEPT !.processingErrors[<<t, "unmarshal">>] = @ + 1]

BadMetricsNotAResult(t) ==
    /\ Handled(t)
    /\ log[cur[t]].form = "badMetrics"
    /\ mem' = [mem EXCEPT !.processingErrors[<<t, "metrics_unmarshal">>] = @ + 1]

\* A result whose metrics do not decode is counted both ways.
HandleBadMetrics(t) ==
    /\ Handled(t)
    /\ log[cur[t]].form = "badMetrics"
    /\ mem' = [mem EXCEPT !.resultsProcessed[t] = @ + 1,
                          !.processingErrors[<<t, "metrics_unmarshal">>] = @ + 1]

\* A result that decodes; null metrics decode to zeros.
Decodes(t) ==
    /\ Handled(t)
    /\ log[cur[t]].form \in {"ok", "noMetrics"}

Decoded(m) == IF m.form = "ok" THEN m.metrics ELSE ZeroMetrics(m.topic)

Key(m) == <<m.target, m.agent>>

\* The latency gauges are set together with the loss and are left out.
handlePingResult ==
    LET m == log[cur["ping"]] IN
    /\ Decodes("ping")
    /\ mem' = [mem EXCEPT !.resultsProcessed["ping"] = @ + 1,
                          !.pingPacketLoss[Key(m)] = Decoded(m).loss]

\* The gauge of each resolver's code becomes 1 and no other is changed.
handleDNSResult ==
    LET m == log[cur["dns"]] IN
    /\ Decodes("dns")
    /\ mem' = [mem EXCEPT !.resultsProcessed["dns"] = @ + 1,
                          !.dnsResponseCode = @ \cup ({Key(m)} \X Decoded(m).codes)]

CertExpiryAlwaysSet(old, days) == days

\* The certificate's gauge keeps its value unless there are days left.
CertExpiry(old, days) == IF days > 0 THEN days ELSE old

handleHTTPResult ==
    LET m == log[cur["http"]] IN
    /\ Decodes("http")
    /\ mem' = [mem EXCEPT !.resultsProcessed["http"] = @ + 1,
                          !.httpStatusCode[Key(m)] = Decoded(m).status,
                          !.httpCertExpiry[Key(m)] = CertExpiry(@, Decoded(m).cert)]

\* A change is counted between two known paths that differ.
PathChanged(last, current) == last # <<>> /\ last # current /\ current # <<>>

RememberAlways(last, current) == current

\* An empty path, of a target that was not reached, is not remembered.
Remembered(last, current) == IF current # <<>> THEN current ELSE last

handleTracerouteResult ==
    LET m == log[cur["traceroute"]]
        current == asPathString(Decoded(m).path)
        last == mem.lastASPaths[m.target]
    IN
    /\ Decodes("traceroute")
    /\ mem' = [mem EXCEPT
            !.resultsProcessed["traceroute"] = @ + 1,
            !.tracerouteReachable[Key(m)] = IF Decoded(m).reached THEN 1 ELSE 0,
            !.traceroutePathChange[m.target] = IF PathChanged(last, current) THEN @ + 1 ELSE @,
            !.lastASPaths[m.target] = Remembered(last, current)]

Handle(t) ==
    \/ HandleMalformed(t)
    \/ HandleBadMetrics(t)
    \/ t = "ping" /\ handlePingResult
    \/ t = "dns" /\ handleDNSResult
    \/ t = "http" /\ handleHTTPResult
    \/ t = "traceroute" /\ handleTracerouteResult

-----------------------------------------------------------------------------
\* The process ends at any point, messages in hand included, and starts again.  A
\* shutdown unsubscribes, and may take the durable consumers of some topics with it:
\* the next start makes new ones, which deliver those streams from the beginning.
Restart ==
    /\ lostAcks + restarts < MaxFaults
    /\ \E gone \in SUBSET sub :
        /\ delivered' = {i \in delivered : log[i].topic \notin gone}
        /\ acked' = {i \in acked : log[i].topic \notin gone}
    /\ restarts' = restarts + 1
    /\ sub' \in Subscriptions
    /\ mem' = New
    /\ handled' = <<>>
    /\ redelivered' = {}
    /\ cur' = [t \in Topics |-> 0]
    /\ pc' = [t \in Topics |-> "idle"]
    /\ UNCHANGED <<log, lostAcks, everHandled>>

Next ==
    \/ Publish
    \/ \E t \in Topics : Deliver(t) \/ Handle(t) \/ Ack(t) \/ AckLost(t)
    \/ Restart

Spec == Init /\ [][Next]_vars

\* JetStream delivers, the goroutines run; nothing has to be published and
\* nothing has to fail.
FairSpec ==
    /\ Spec
    /\ \A t \in Topics : WF_vars(Deliver(t)) /\ WF_vars(Handle(t)) /\ WF_vars(Ack(t))

-----------------------------------------------------------------------------
(* Correctness.  AckBeforeHandling, RejectForRedelivery,                     *)
(* BadMetricsNotAResult, CertExpiryAlwaysSet and RememberAlways are           *)
(* regressions of the definitions after them; no specification uses them.    *)

\* No message is acknowledged before some incarnation has handled it.
AckedWasHandled == acked \subseteq everHandled

\* Where in handled the known paths of a target are, and what they are.
KnownAt(target) ==
    {n \in 1 .. Len(handled) :
        LET m == log[handled[n]] IN
        m.topic = "traceroute" /\ m.form = "ok" /\ m.target = target /\ m.metrics.path # <<>>}

PathAt(n) == log[handled[n]].metrics.path

\* n is the last of these positions.
IsLastOf(n, positions) == n \in positions /\ \A p \in positions : p <= n

\* The known paths that differ from the known path before them.
ChangesAt(target) ==
    {n \in KnownAt(target) :
        \E p \in KnownAt(target) :
            IsLastOf(p, {q \in KnownAt(target) : q < n}) /\ PathAt(p) # PathAt(n)}

\* The change counter is the number of times two consecutive known paths differ:
\* failed, unreached and malformed results in between neither hide a change nor
\* make one up.
PathChangesExact ==
    \A target \in Targets :
        mem.traceroutePathChange[target] = Cardinality(ChangesAt(target))

HandledAt(t) == {n \in 1 .. Len(handled) : log[handled[n]].topic = t}

\* Each handled message is in exactly one of the two counters that partition
\* them, redeliveries included: results, and messages that are no result.
CountersAddUp ==
    \A t \in Topics :
        mem.resultsProcessed[t] + mem.processingErrors[<<t, "unmarshal">>] =
            Cardinality(HandledAt(t))

\* Time and again every message published to a topic with a subscription has been
\* handled and acknowledged: a crash between the two repeats a message and loses
\* none, and one that cannot be decoded does not come back for ever.
EveryMessageProcessed ==
    []<>(\A i \in 1 .. Len(log) : log[i].topic \in sub => i \in acked \cap everHandled)

\* Where in handled the results for a key are that reached its gauges.
ResultsAt(topic, k) ==
    {n \in 1 .. Len(handled) :
        LET m == log[handled[n]] IN
        m.topic = topic /\ m.form \in {"ok", "noMetrics"} /\ Key(m) = k}

\* What the result at a position says.
DecodedAt(n) == Decoded(log[handled[n]])

\* A gauge shows what is said at the last of some positions.
ShowsLast(shown, said) ==
    IF DOMAIN said = {} THEN shown = None
    ELSE \E n \in DOMAIN said : IsLastOf(n, DOMAIN said) /\ shown = said[n]

\* No handler looks at the time of a result.  The packet loss, the status and the
\* reachability of a key are those of the last result handled for it, and its
\* certificate's days those of the last one that had days left; its DNS codes are
\* those of all results handled, since no code is ever reset.  A result handled after
\* a newer one of its topic was delivered again: nothing else makes these four gauges
\* older than the newest result handled.  (Latency and hop gauges are not modelled.)
StaleOnlyAfterRedelivery ==
    /\ \A k \in Keys :
        /\ ShowsLast(mem.pingPacketLoss[k],
                [n \in ResultsAt("ping", k) |-> DecodedAt(n).loss])
        /\ ShowsLast(mem.httpStatusCode[k],
                [n \in ResultsAt("http", k) |-> DecodedAt(n).status])
        /\ ShowsLast(mem.tracerouteReachable[k],
                [n \in ResultsAt("traceroute", k) |-> IF DecodedAt(n).reached THEN 1 ELSE 0])
        /\ ShowsLast(mem.httpCertExpiry[k],
                [n \in {r \in ResultsAt("http", k) : DecodedAt(r).cert > 0} |-> DecodedAt(n).cert])
        /\ {code \in ResponseCodes : <<k, code>> \in mem.dnsResponseCode} =
                UNION {DecodedAt(n).codes : n \in ResultsAt("dns", k)}
    /\ \A t \in Topics : \A p, q \in HandledAt(t) :
        p < q /\ handled[p] > handled[q] => handled[q] \in redelivered

\* The last result handled for a key, 0 if there is none.
LastFor(topic, k) ==
    LET mine == {n \in 1 .. Len(handled) :
                    /\ log[handled[n]].topic = topic
                    /\ log[handled[n]].form = "ok"
                    /\ Key(log[handled[n]]) = k}
    IN  IF mine = {} THEN 0 ELSE handled[CHOOSE n \in mine : \A x \in mine : x <= n]

\* dns_alerts.yml: "Fires when DNS response code is not NOERROR".  The gauge it
\* reads shows a failure only if the last answer was that failure.
FailureClears ==
    \A k \in Keys : <<k, "SERVFAIL">> \in mem.dnsResponseCode =>
        "SERVFAIL" \in log[LastFor("dns", k)].metrics.codes
=============================================================================
