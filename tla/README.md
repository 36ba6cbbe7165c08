# NetVantage in TLA+

A verification project for NetVantage, a distributed network monitoring system:
agents at points of presence (POPs) run canary tests, a message transport carries
the results to a processor that turns them into Prometheus metrics, a Python
analyzer watches the global BGP stream, and a correlation engine compares what BGP
announces with what traceroutes see.  A REST control plane stores agents, POPs and
test definitions.

Paths below are relative to the repository.  `PROJECT.json` maps every definition
to the lines it models and lists runs, mutants, findings, hazards and theorems.

## The system

| Component | State | Operations | Interacts with |
|---|---|---|---|
| Agent (`internal/agent/agent.go`) | one goroutine per test, heartbeat and drain goroutines, a context, a wait group | tick, execute, publish, push, drain, cancel | transport, buffer, canaries |
| Result buffer (`internal/agent/buffer`) | list of messages, its size in bytes, a mutex | Push, Drain, Len | agent's goroutines |
| Canaries: ping, DNS, HTTP, traceroute (`internal/agent/canary`) | per execution only | Validate; Execute under a context with a timeout | network, external tools, agent |
| NATS transport (`internal/transport/nats`) | connection, durable consumers | Publish, Subscribe, Close | JetStream, agent, processor |
| Kafka transport (`internal/transport/kafka`) | producer, client, closed flag under a mutex, offsets | Publish, Subscribe, Close | brokers |
| Processor (`internal/processor/processor.go`) | gauges and counters, last AS path per target | one handler per topic | transport, Prometheus, engine |
| Correlation engine (`internal/processor/correlation`) | BGP paths, traceroute paths, prefix of each target, status gauge, an RWMutex | two update handlers, RegisterPrefix | processor, analyzer's topic |
| BGP analyzer (`bgp-analyzer`) | last path per prefix and peer, origins per prefix, NATS connection and event loop, stop event | element loop, detectors, RPKI validation, publish, signal handler | stream, Routinator, NATS |
| ROA monitor thread (same process) | expiry gauge | a pass over the monitored prefixes every hour | Routinator |
| Control plane (`internal/server`) | PostgreSQL tables | REST handlers, audit, authentication | agents, operators |
| Rate limiter (`internal/server/api/middleware/ratelimit.go`) | a token bucket per client, a mutex | allow, cleanup | every request |

What is hard here, and hence what the properties are about: goroutines that share
the buffer and the engine's maps; a transport that fails between any two steps and
may have stored what it reports as failed; redelivery after a lost acknowledgement
or a restart; a snapshot that is used after the lock is gone; the timeouts of a test
and of its pinger; a Python signal handler that runs inside the interrupted event
loop; a message format declared twice, in two languages; REST handlers that run several
SQL statements without a transaction, and an audit record nobody waits for; a `closed` flag
that is read before an unlock and relied on after it; integer rounding in a rate and in a
count of probes; resolvers that share one deadline.

What makes each part correct, as the properties say it: a result is delivered or
visibly dropped (agent); a verdict means what its words say (canaries); a message is
handled before it is acknowledged or committed, and every metric is a function of what
was handled (transports, processor); two sides that are known have been compared
(engine); a conflict on the wire is detected and told (analyzer); rows that refer to
each other exist, and what a client was promised is recorded (control plane); a client
gets its rate, no more and no less (limiter).  The full list of hazards, at their
lines, is under `hazards` in `PROJECT.json`.

## Modules

| Module | Models | Checked by |
|---|---|---|
| `ResultDelivery` | abstract: a result is pending, then delivered or dropped, and lost only with the process | refined by `Agent` (run and proof) |
| `Agent`, `MCAgent`, `AgentProofs` | agent and buffer | run `agent`, proofs |
| `PingPipeline`, `PingProofs` | ping canary, its goroutine, up to the loss gauge | runs `ping_pipeline`, `ping_pipeline_unreachable`, proofs |
| `DNSCanary`, `HTTPCanary`, `TracerouteCanary` | Validate and Execute of these tests, as functions of configuration and network | through `Canaries`, run `algorithms`, proofs in `AlgorithmsProofs` |
| `Canaries` | one test over any small configuration and network, and what its verdict means | run `algorithms`, proofs in `AlgorithmsProofs` |
| `Processor`, `MCProcessor`, `ProcessorProofs` | subscriptions, handlers, acknowledgements, restart | runs `processor`, `processor_dns`, proofs |
| `KafkaConsumer` | sessions, claims, marks and commits | extended by `KafkaTransport` |
| `KafkaTransport`, `KafkaProofs` | publishers, Close and its mutex, retries; feeds the consumer | run `kafka`, proofs |
| `CorrelationEngine`, `MCCorrelation`, `CorrelationProofs` | the engine's handlers and its RWMutex; uses `ASPath` | runs `correlation`, `correlation_current`, proofs |
| `Correlator` | abstract: paths are learnt, two held together are compared, the comparison is shown, perhaps late | refined by `CorrelationEngine` (proof) |
| `BGPAnalyzer`, `MCBGPAnalyzer`, `BGPAnalyzerProofs` | the stream thread and the signal handler; uses `Prefix`, `BGPAttributes` | run `bgp_analyzer`, proofs |
| `ROAMonitor` | one pass of the ROA monitor | run `algorithms`, proofs in `AlgorithmsProofs` |
| `PathFeed` | the JSON bridge from the analyzer's publisher to the engine | run `path_feed` |
| `ControlPlane`, `MCControlPlane`, `ControlPlaneProofs` | REST handlers statement by statement, the tables and their constraints, the audit goroutine, shutdown | run `control_plane`, proofs |
| `RateLimiter` | the token bucket of one client, with its cleanup | run `algorithms`, proofs in `AlgorithmsProofs` |
| `ASPath`, `Prefix`, `BGPAttributes` | pure functions: the comparison of two AS paths, `prefix.py`, the reading of an as-path | run `algorithms`, proofs in `AlgorithmsProofs` |
| `Algorithms`, `MCAlgorithms`, `AlgorithmsProofs` | calls of these functions on any input; `MCAlgorithms` puts them beside `Canaries` and `RateLimiter`, which share no state with them | run `algorithms`, proofs |

How state and actions correspond to the code:

* **Agent.**  `tpc`, `hpc` and `dpc` are where the goroutines are.  A select whose
  ticker and `ctx.Done` are both ready may take either.  A publish ends as `acked`,
  `failed` or `unacked` (an error although the broker has stored the message).  A
  drain is one step per message of the slice it found (`todo`) and holds the mutex from
  `DrainTick` to `DrainFinish`.  `Crash` can happen anywhere.  A result is a pair of a test and a
  number, with a length.
* **PingPipeline.**  The context's timer, the pinger's goroutine, the channel of
  capacity one and the select are separate steps; the pinger's own timeout is up
  only after the context's, whose clock starts first.  Packets are sent one at a time and
  the loss is that of the packets sent so far.  A test loop whose ticker and `ctx.Done` are
  both ready may start one more execution after the agent was stopped.  Delivery is
  immediate here.
* **DNS, HTTP and traceroute canaries.**  These tests run alone, so an execution is an
  operator from a configuration and a network to the outcome.  A DNS resolver has a
  delay, an error or values, and the resolvers share the deadline of the test one after
  the other.  An HTTP site is a number of redirects and the answer after them.  A
  traceroute tool's report is a sequence of hops with the probes of each: mtr's losses
  are the percentage it prints, from which the code counts back.
* **Processor.**  One goroutine per topic: deliver, handle, acknowledge.  A handler is
  one step because it shares nothing with another topic's handler.  `mem` is all the
  processor remembers; `Restart` resets it.  A shutdown ends in `sub.Unsubscribe`
  (`nats.go:140`), with which the client library may delete the durable consumer, so a
  restart may find any of its topics without acknowledgements: their streams are delivered
  from the beginning.  An acknowledgement that comes too late is one that is lost.
  Messages are malformed, carry metrics of a wrong type, no metrics (a failed
  execution), or metrics.  The gauges are the packet loss, the DNS response codes, the HTTP
  status and certificate days, and the reachability of a traceroute; those of latency,
  resolution time and single hops are left out.
* **KafkaTransport, KafkaConsumer.**  A publish is the check of `closed`, then the send
  outside the mutex; `Close` keeps the mutex from its first step to its last.  A send to
  a closed producer is a panic.  The producer is not idempotent, so an answer that is lost
  stores the message again.  sarama's part (marked offset, periodic commit, end of a
  session) is modelled from how `kafka.go` uses it and marked external.
* **CorrelationEngine.**  Critical sections without a blocking call are one step.
  `correlatePrefix` iterates over a map and lets go of its read lock around every
  `correlateTarget`; the iteration yields every entry that was there when it began and
  may yield one added meanwhile.  A waiting writer blocks new readers, as in Go.
* **BGPAnalyzer.**  One step per call that can block or be interrupted.  A signal runs
  `stop` between any two steps; what it raises is handled where the thread was:
  swallowed in a publish, counted in the element loop, fatal between elements.  The
  monitored prefix found for an announced one is arbitrary but fixed, like the order
  of a Python set.  The stream may fail, which ends the process with 1, or end, which ends it
  with 0.  `StopCloses` is one step: a second signal inside `close()` is not a state of its
  own, but what it raises there is among the outcomes of `StopRaises`.  `unsent` is history,
  the prefixes and peers whose last update was dropped or not confirmed.
* **ControlPlane.**  One request per client; `pc` is the statement it is at.  A repository
  method is an operator from the database to the error it returns and the database it
  leaves, with the schema's keys, foreign keys and cascades; `Outcomes` adds that any
  statement may fail before or after its effect.  `Answer` is the response together with
  the start of the audit goroutine, `Record` that goroutine.  `target` and `enabled` stand
  for the columns of a test.  Whether the limiter and the key check let a request pass is
  a free choice; the asynchronous `last_used` of a key, which nothing reads, is left out.
  An empty name in a list of POPs is stored as NULL, an assignment to all of them.
  `skipped`, `raced`, `lost`, `granted` and `overtaken` are history.  `granted` holds the
  assignments that were asked for since their test, and their POP if they name one, was
  created; a deletion takes them out, and puts those that a request has still to make into
  `overtaken`.
* **RateLimiter.**  `allow` and `cleanup` hold the mutex all along and two clients share
  nothing, so one client is enough.  A window that opens at any time counts what is
  admitted from then on; only the properties read it.
* **ROAMonitor.**  A pass folds over the prefixes in one order; a failed request is an
  empty list, an unreadable date skips its ROA, any other exception ends the pass.
* **PathFeed.**  A message is its contents and the JSON kind of each field.

Operators named after a fault (for instance `KeepUnlessFailed`) are regressions of the
definition that follows them.  No specification uses them; they are substituted for
that definition to show that a property can fail.

## Runs

All with TLC, the largest in two to three minutes.  `CHECK_DEADLOCK FALSE` wherever the bounds,
or the end of the process, let the system stop.  No run uses symmetry: most check
liveness, for which it would be unsound.

| Run | Shows | Instance |
|---|---|---|
| `agent` | No result vanishes from a running agent; an acknowledged one is not sent again; a test's results wait in the buffer in their order; the size field equals the bytes held; `Agent` implements `ResultDelivery`; `Run` returns after cancellation; the buffer empties when the transport stays up. | Two tests, two results and one, of one and two bytes, and a three-byte buffer: pushes are refused and wait for drains.  49 thousand states. |
| `algorithms` | A mismatch is always one of origins and an exact match the tail of the BGP path; the prefix comparisons agree with sets of addresses; prepending and junk do not change a path, and both languages normalise a path alike; a failed request or an unreadable date hides no other ROA.  The verdict of a DNS or HTTP test is what the resolvers and the site did; what Validate accepts can succeed, with the exceptions the property names; the numbers of a hop fit together.  The limiter admits its rate and refuses only at its rate. | All pairs of paths of up to four hops over three ASNs, all pairs of prefixes of two families of 3 and 4 bits with any host bits, all attributes of four parts, all answers for two monitored prefixes; all tests of two resolvers, redirects on both sides of every limit, up to a hundred of mtr's probes and three of scamper's; a limiter of two per two units of time, burst three.  202 thousand states. |
| `correlation` | No correlation is missed; nobody waits for ever for the RWMutex. | Two prefixes and two POPs for one target, two messages per handler: both correlation loops go round twice and a writer waits between two readers.  310 thousand states. |
| `bgp_analyzer` | No MOAS conflict missed; the engine was told what the analyzer holds, of every prefix and peer whose last update was not dropped; a signal ends the process. | Two peers, three elements (announce, announce otherwise, withdraw), two signals, a more specific and an unmonitored prefix.  617 thousand states. |
| `processor` | The gauges named above show the last result handled (the DNS codes: all of them), and only a redelivery brings an older result after a newer one; counters partition what was handled; the path-change counter is exact; nothing comes back for ever. | All four topics, up to three messages (a traceroute with a path, none and another path, a web result before it), one lost acknowledgement or restart, with or without its consumers, and a topic whose subscription may fail.  1.6 million states. |
| `ping_pipeline` | No false total loss; a test ends although its pinger hangs; no goroutine is left behind. | Three tests of two packets.  411 thousand states. |
| `kafka` | Only a Publish that overlaps Close meets a closed producer; no commit past a message the handler was not given; a failed message is passed over only behind a later success, or by a session that has no committed offset to start from. | One publisher, two partitions of three messages, duplicates, one failure, three sessions.  4.4 million states. |
| `control_plane` | References stay intact; only overlapping updates undo each other; no POP is sent a test nobody gave it since both were created; one failed assignment does not stop the others; every acknowledged mutation is audited unless its entry is lost with the process or refused by the database. | Fifteen triples of requests that meet on the same rows, in all interleavings, with one failing statement and one crash or shutdown; tests and POPs are deleted and created again.  67 thousand states. |

Four runs are expected to find a violation, each of a statement of the repository that
the code does not keep, quoted in `findings`:

* `path_feed`: no update of the analyzer decodes in the engine, so that in the
  repository's present state it stores no BGP path of the analyzer's.
  `CorrelationEngine` is about messages that do decode.
* `ping_pipeline_unreachable`: an unreachable target shows no loss.
* `correlation_current`: an outdated status can stay in the gauge.
* `processor_dns`: the gauge of a DNS failure is never cleared.

Further disagreements between the code and its comments or documents, seen while
modelling.  The models behave as the code does; no run is about them:

* `internal/agent/agent.go:9` "Graceful shutdown: drain in-flight tests, flush buffer,
  deregister" and `docs/quickstart.md:122` "The agent never loses data": `Run` returns
  once its goroutines have, and nothing drains the buffer (`Stopped`).
* `internal/agent/buffer/buffer.go:6` "buffered results are replayed in order" and `:30`
  "If handler returns an error, draining stops": the loop goes on (`DrainStep`), so a
  result whose publish fails is overtaken by the ones after it.  `BufferInOrder` says
  what does hold: what waits, and what a drain has still to replay, keeps its order.
* `internal/agent/canary/canary.go:25` "Called once at config load time": nothing calls
  `Validate`.  What it would refuse is found out at execution or never (`AcceptedCanSucceed` is
  about what it accepts).
* `internal/agent/canary/ping/ping.go:42` validates a configuration without the defaults
  that `Execute` applies, so one that omits `count` is refused (not modelled).
* `internal/agent/canary/dns/config.go:10` "Supported: A, AAAA, CNAME, MX, NS, TXT, SOA,
  SRV": no case of `queryResolver` asks for SOA (`lookup`).
* `internal/agent/canary/http/config.go:28` "the maximum number of redirects to follow":
  0 means 10 (`withDefaults`).
* `internal/agent/canary/traceroute/config.go:38` "ResolveASN controls whether to resolve
  IP to ASN" with default true: no hop of either tool ever has an AS number, so the AS path
  of a traceroute is empty (`parseMTRJSON`, `parseScamperJSON`) and the engine, whose model
  takes any path, gets none in the repository's present state.
* `internal/agent/canary/traceroute/traceroute.go:341` compares the protocol as written
  where all else reads it in lower case, so scamper is given no port for "TCP" and mtr is
  (`buildScamperArgs`); and the minimum RTT of a scamper hop starts from the first probe
  even if that had no answer (`RTTMin`).
* `internal/processor/correlation/correlation.go:352` "No overlap at all besides
  origin.": the branch cannot be reached (`OriginOverlaps` in `AlgorithmsProofs`).
* `analyzer.py:79` "set of origin ASNs currently announcing it": an origin that is
  replaced stays until a withdrawal (`RecordAnnouncement`).
* `analyzer.py:447` "1 for the current status, implicitly 0 for others": the other
  gauges keep their 1 (`ValidateRPKI`).
* `analyzer.py:519` "Only log the most urgent threshold": with the default order it is the
  least urgent that is logged, and of two ROAs of one prefix and AS the gauge shows the one
  listed last (`Threshold`, `ShowROA`).  ROAs are matched by the text of their prefix, which
  a TODO at `rpki.py:99` says.
* `publisher.py:47` "BGP correlation will be unavailable until NATS is reachable": there
  is one attempt to connect (`Connect`).
* `__main__.py:95` "graceful shutdown": a second signal between elements makes `main`
  return 1 (`StopRaises`).
* `internal/processor/processor.go:13` "The processor is stateless": a path change
  across a restart is not counted (`Restart`).
* `internal/transport/kafka/kafka.go:261` "Don't mark — will be redelivered on
  rebalance.": not if a later message of the partition succeeds and is committed, nor if the
  partition has no committed offset, because nothing succeeded there or a crash came first:
  `OffsetNewest` (`kafka.go:76`, `:169`) then makes the next session start behind the failed
  message (`FailuresPassedOver` says how far the comment holds).
* `internal/transport/transport.go:34` "Close stops all subscriptions": the Kafka
  transport's `Close` leaves `Subscribe` running, as its `cancelFn` is never set (in
  `KafkaTransport` the consumer goes on after `Close`).
* `internal/transport/kafka/kafka.go:226` "using the configured prefix": `fullTopic` uses
  none; `:351` "the actual SCRAM negotiation is handled by sarama": it is left to a client
  whose methods are empty.  No command constructs this transport (none of it is modelled).
* `internal/transport/nats/nats.go:121` makes a durable name with dots in it out of the
  topic.  JetStream documents that such names are invalid; whether the client library
  refuses the subscription is outside this repository, and `Processor` takes it as accepted.
* `internal/server/api/middleware/ratelimit.go:9` "per-IP": the key is `RemoteAddr`, which
  holds the port too, so each connection has a bucket (`RateLimiter` is about one key).
* `README.md:124` "All mutations (POST, PUT, DELETE, PATCH) are recorded in an append-only
  audit log": an entry whose goroutine has not run when the process ends, or whose
  insert fails, is gone (`Record`, `Exit`; `EveryRequestSettles` says how far it holds).

**Fairness.**  Go's scheduler runs what can run (weak fairness of goroutine steps), its
select chooses at random among ready cases and its mutexes do not starve a waiter (strong
fairness of taking `ctx.Done` and of getting a lock).  A publish of the agent is assumed
to return only while the transport is up or once the context is done.  For the analyzer
Routinator answers and the stream yields a next element; for the processor JetStream
delivers and redelivers; for the control plane every SQL statement returns.  No failure, signal, cancellation or message has to happen.

**Bounds.**  Every `Max...` constant caps a counter in a guard; `Ticks`, `Reported` and
`LastAt` choose, per test or topic, which of the bounded inputs occur, `MayFail` the topics
whose subscription may fail, `Workloads` which requests run together.  Each bound leaves
room for the shortest behaviour that breaks the property in a mutated model: for every
property of a passing run, `mutants` names a plausible fault in the code that TLC finds
within the same bounds.

## Proofs

Checked by TLAPS for all values of the constants, from the `ASSUME` of each module
(bounds are natural numbers, `None` is no other value).

* `AgentProofs`: `TypeCorrect`, and `ResultsConserved`: no result of a running agent is
  lost silently.  The invariant alone is not inductive: when a drain ends, `messages`
  becomes `remaining`, so one has to know that every buffered message is still to be
  replayed, in `remaining` or stored (`DrainKeeps`), and that a goroutine that publishes has
  produced a result (`Counters`).  `OrderKept`: the buffer's order.  `AckedNotRepeated`:
  what was acknowledged is nowhere any more from where it could be sent (`AckedGone`).
  `SizeAccounted`: `curSize` is the sum of what the buffer holds, and within its limit.  While
  a drain runs, what it has kept and what it has still to try are together no longer than
  the buffer (`DrainWithin`), so what it stores at its end fits.
  `AgentImplementsDelivery`: every step of `Agent` is a step of `ResultDelivery` or a
  stutter, from `DeliveryInv` (only produced results are anywhere, a dropped one is gone,
  what a drain replays is buffered).
* `AlgorithmsProofs`, on the pure functions.  A loop over a list is a fold in the model, which
  recurses over sets of positions; `FoldUnfolds` turns it into a sequence of steps from the
  base, one per element, and `InductiveSet` (a set of naturals with 0 and all successors is
  `Nat`, from the well-foundedness of `<`) does the induction along them.  Each function has
  a lemma of that form (`ParseSteps`, `QuerySteps`, `ListSteps`, `CheckSteps`, `PassSteps`,
  `AnsweredAtSteps`, `BlocksDouble`).
  `MismatchMeansOrigin`: if the origins agree, the origin is in the
  overlap, so the last branch is not taken; `ExactMeansTail`: the segment ends in the
  origin, which a path without loops has only at its end.  For paths of any length.
  `PathIgnoresPrepending`: `parse_as_path` yields numbers of the attribute only, keeps its
  last and does not see one written twice; `PathsAlike`: `buildASPath` recurses alike.
  `ComparisonsAreOfSets`: for any address width.  A block's size doubles with each host bit
  (`BlocksDouble`), so of two blocks of a family that share an address the smaller lies in
  the larger (`BlocksNest`), and to compare their ends is to compare them as sets.
  `ExpiriesAreShown`: for lists of any length, dates and thresholds (of the two monitored
  prefixes of the run); the invariant of the loop is `Shows`, that the gauges and warnings
  of a pass are those of the ROAs it has gone through.
  `DNSVerdictRight`: a query starts when the one before it ends (`InTurn`), so it ends at the
  sum of the delays so far or at the deadline (`VerdictInTurn`).  `HTTPVerdictRight`,
  `HopsAddUp` and `AcceptedSucceeds`: by cases, the last with a network for each accepted
  configuration.
  `ReceivedIsExact`: the probes counted back from mtr's rounded percentage are those
  received, for fewer than a thousand probes.  The assumptions of `Canaries` say that
  (`MaxSent < 1000`; tenths of a percent do not tell more probes apart), that a test has some
  time (`Deadline > 0`), and that some site does not redirect.
  `LimiterAdmitsWithinRate`, `LimiterRefusesOnlyAtRate`: for any rate, burst, interval and
  cutoff that `LimiterAssumption` allows.  The first needs `WindowBound`, what was admitted
  in the window and what still can be without a refill, and `ForgottenBound`, that a client
  which cleanup forgets would have had a full bucket; the second needs `RefillSpent`.
* `PingProofs`: `PingTypeCorrect`, and `NoFalseAlarm`: the gauge shows a total loss only
  after a test none of whose packets came back.  `PingerNeverBlocks`: a pinger's send finds
  room in the channel, as nothing was sent there before and later executions have channels
  of their own (`ChannelInv`); the run shows the liveness that follows, `NoGoroutineLeft`.
* `KafkaProofs`: `TransportFeedsConsumer`: what the transport does to the log is what the
  consumer's specification allows, so its theorems hold under both; then
  `ConsumerTypeCorrect`, `CommitsWhatWasAttempted` and `FailuresComeBack`, for any number
  of partitions, failures, rebalances and crashes; `LateSendsOverlap` for any number of
  publishers.  `FailuresComeBack` needs `MarkInv`: while a
  partition has no committed offset, nothing of it has succeeded, or the session has marked
  a success or is about to, or a crash lost it.
* `ProcessorProofs`: `ProcessorTypeCorrect`; `HandledBeforeAcked`: what is acknowledged has
  been handled by some incarnation (no run is needed for it).  `StaleOnlyIfAgain` is about
  the gauges that its property names; from `ShowsHandled`, what each of them shows, and from
  `InStreamOrder` and `OlderCameBack`: a message in hand that had not been delivered before
  is later than all handled of its topic, so one that is handled after a newer one had been.
  `CountersPartition` and `ChangesExact`, with any redeliveries and restarts; the
  second also from the fact that writing a path as a string loses nothing
  (`PathStringInjective`).
* `CorrelationProofs`: `EngineTypeCorrect`, and `NoCorrelationMissed` for any number of
  handlers.  Inductive through `SomeoneOwes`: for every target with both sides known and
  no status yet, some handler is at a step from which it will evaluate it (storing is
  done and the snapshot is to come, or its scan has still to visit that POP).
  `EngineNeverStuck`: while a handler is at work some handler can take a step.  `CanMove`
  spells out the guards, as ENABLED cannot be proved about.  A handler at its iteration can
  go on, since what it has still to yield is in the map and not yielded yet (`Visitable`); if
  nobody iterates a writer gets the lock, and if no writer waits every reader gets it.
  `EngineImplementsCorrelator`: every step is one of `Correlator` or a stutter, where what
  a handler has read in `correlateTarget` and not yet recorded is the comparison in its hands.
  So a status may be late (`correlation_current`), but is never made of two paths that were
  not stored together.  No run has these two properties; both are about any instance.
* `BGPAnalyzerProofs`: `AnalyzerTypeCorrect`; `MoasComplete`, from `OriginsCovered` (all
  current origins are recorded, though not only those) and `MoasOwed` (an uncounted
  conflict is that of the element to be checked); `EngineToldAll`, from `SendOwed` (while
  an element is processed the engine is behind by that element at most, for all prefixes and
  peers whose last update was not dropped).
* `ControlPlaneProofs`: `ControlPlaneTypeCorrect`, `ReferencesKept` and
  `AuditIsAcknowledged`, for any tables, workload and number of clients, if the database
  the server starts on keeps the schema.  Every repository method keeps the schema, hence
  every outcome of a statement does; what has to be known of a request between two of its
  statements is `Where` (the loop belongs to Create or Assign, an Update about to write
  has read a row) and, for the audit log, that entries still with their goroutine are of
  answered requests too (`EntriesOK`).  `ServedAsAssigned`, from `GivenOK`: every
  assignment in the database, and every one that a loop has still to make, is in `granted`
  or `overtaken`.  `FailureStopsNoOther`, from `AssignInv` (the loop has tried each POP that
  is not still to do); `OnlyOverlapLosesUpdates`, from `UpdatesOK` (what a successful Update
  wrote is in the row and in every copy that another Update read and will write back, or
  that one overlaps it).

The type invariants are proved and need no run of their own.

Only model-checked: the liveness properties (`ShutdownTerminates`, `BufferDrains`,
`HandlersFinish`, `SignalEndsProcess`, `EveryMessageProcessed`, `TestEnds`,
`NoGoroutineLeft`, `EveryRequestSettles`), since the prover reasons neither about `ENABLED`
nor about fairness.  Every other property of a passing run is a theorem.

## Not modelled, and the plan

Not modelled: dashboards, alert rules, Helm chart and protobuf definitions, which have no
behaviour of their own; the loading of the agent's, the server's and the analyzer's
configuration; the domain types; latency figures and the timing breakdown of an HTTP
request; the text of mtr's and scamper's output, which is taken as the hops it lists; SASL
and TLS settings; key management, health and list handlers, and how a key is hashed and
looked up; the in-memory transport of the tests.

Two hazards have no property: `analyzer.py:448`, the gauges of earlier RPKI statuses, which
the code never clears although its comment says so (see the list above), and
`correlation.go:170`, the status gauge of a prefix after its path was withdrawn, of which
nothing says what it should show.

Open, in this order:

1. A composition of analyzer, feed and engine with several peers per prefix, which says
   something once the feed decodes.
2. The agent's publishes composed with JetStream's redelivery, so that order is followed
   from the buffer to the gauge.
3. Key management and the audit list in `ControlPlane`.
