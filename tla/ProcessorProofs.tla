-------------------------- MODULE ProcessorProofs --------------------------
(***************************************************************************)
(* Proofs about the processor for any topics, targets, agents and messages, *)
(* any number of lost acknowledgements and any number of restarts.          *)
(*                                                                         *)
(* AckInv is what an acknowledgement rests on.  InStreamOrder says that a   *)
(* message in hand is the latest delivered of its topic unless it has come  *)
(* back, so that what is handled out of order has come back too.  GaugeInv, *)
(* CountInv and PathInv speak of what was handled, in whatever order and    *)
(* however often.                                                           *)
(***************************************************************************)
EXTENDS Processor, FiniteSetTheorems, TLAPS

USE DEF streamVars, history

\* A message is handled before it is acknowledged, whatever happens in between.
AckInv ==
    /\ acked \subseteq everHandled
    /\ \A t \in Topics : pc[t] = "ack" => cur[t] \in everHandled

ProcessorInv == TypeOK /\ AckInv

-----------------------------------------------------------------------------
(* What the handlers read of a message and store.                          *)

\* A decodable message is about one of the keys, and its metrics are of its topic.
LEMMA MessageFields ==
    ASSUME NEW m \in Messages, m.form \in {"ok", "noMetrics"}
    PROVE  /\ m.topic \in Topics
           /\ Key(m) \in Keys /\ m.target \in Targets
           /\ m.form = "ok" => m.metrics \in Metrics(m.topic)
<1>1. PICK t \in Topics : m \in Message(t)
  BY DEF Messages
<1>2. Reported[t] \subseteq Metrics(t)
  BY ProcessorAssumption
<1> QED BY <1>1, <1>2 DEF Message, Key, Keys

LEMMA DecodedPing ==
    ASSUME NEW m \in Messages, m.form \in {"ok", "noMetrics"}, m.topic = "ping"
    PROVE  Decoded(m).loss \in {0, 1}
  BY MessageFields DEF Decoded, Metrics, ZeroMetrics

LEMMA DecodedDNS ==
    ASSUME NEW m \in Messages, m.form \in {"ok", "noMetrics"}, m.topic = "dns"
    PROVE  Decoded(m).codes \subseteq ResponseCodes
  BY MessageFields DEF Decoded, Metrics, ZeroMetrics

LEMMA DecodedHTTP ==
    ASSUME NEW m \in Messages, m.form \in {"ok", "noMetrics"}, m.topic = "http"
    PROVE  Decoded(m).status \in {0, 200, 500} /\ Decoded(m).cert \in CertDays \cup {0}
  BY MessageFields DEF Decoded, Metrics, ZeroMetrics

LEMMA DecodedTraceroute ==
    ASSUME NEW m \in Messages, m.form \in {"ok", "noMetrics"}, m.topic = "traceroute"
    PROVE  Decoded(m).path \in Paths
  BY MessageFields, ProcessorAssumption DEF Decoded, Metrics, ZeroMetrics

\* A field of the memory may be replaced by any value of its type.
LEMMA FieldStored ==
    ASSUME NEW old \in Memory
    PROVE  /\ \A v \in [Topics -> Nat] : [old EXCEPT !.resultsProcessed = v] \in Memory
           /\ \A v \in [Topics \X ErrorTypes -> Nat] : [old EXCEPT !.processingErrors = v] \in Memory
           /\ \A v \in Gauge({0, 1}) : [old EXCEPT !.pingPacketLoss = v] \in Memory
           /\ \A v \in SUBSET (Keys \X ResponseCodes) : [old EXCEPT !.dnsResponseCode = v] \in Memory
           /\ \A v \in Gauge({0, 200, 500}) : [old EXCEPT !.httpStatusCode = v] \in Memory
           /\ \A v \in Gauge({days \in CertDays : days > 0}) : [old EXCEPT !.httpCertExpiry = v] \in Memory
           /\ \A v \in Gauge({0, 1}) : [old EXCEPT !.tracerouteReachable = v] \in Memory
           /\ \A v \in [Targets -> Nat] : [old EXCEPT !.traceroutePathChange = v] \in Memory
           /\ \A v \in [Targets -> PathStrings] : [old EXCEPT !.lastASPaths = v] \in Memory
<1>1. \A v \in [Topics -> Nat] : [old EXCEPT !.resultsProcessed = v] \in Memory
  BY DEF Memory
<1>2. \A v \in [Topics \X ErrorTypes -> Nat] : [old EXCEPT !.processingErrors = v] \in Memory
  BY DEF Memory
<1>3. \A v \in Gauge({0, 1}) : [old EXCEPT !.pingPacketLoss = v] \in Memory
  BY DEF Memory
<1>4. \A v \in SUBSET (Keys \X ResponseCodes) : [old EXCEPT !.dnsResponseCode = v] \in Memory
  BY DEF Memory
<1>5. \A v \in Gauge({0, 200, 500}) : [old EXCEPT !.httpStatusCode = v] \in Memory
  BY DEF Memory
<1>6. \A v \in Gauge({days \in CertDays : days > 0}) : [old EXCEPT !.httpCertExpiry = v] \in Memory
  BY DEF Memory
<1>7. \A v \in Gauge({0, 1}) : [old EXCEPT !.tracerouteReachable = v] \in Memory
  BY DEF Memory
<1>8. \A v \in [Targets -> Nat] : [old EXCEPT !.traceroutePathChange = v] \in Memory
  BY DEF Memory
<1>9. \A v \in [Targets -> PathStrings] : [old EXCEPT !.lastASPaths = v] \in Memory
  BY DEF Memory
<1> QED BY <1>1, <1>2, <1>3, <1>4, <1>5, <1>6, <1>7, <1>8, <1>9

\* The memory of a new process.
LEMMA NewMemory == New \in Memory
  BY DEF New, Memory, Gauge, PathStrings

-----------------------------------------------------------------------------
(* The steps.                                                              *)

LEMMA InitProcessor == Init => ProcessorInv
<1> SUFFICES ASSUME Init PROVE ProcessorInv
  OBVIOUS
<1>1. mem \in Memory
  BY NewMemory DEF Init
<1>2. log \in Seq(Messages) /\ Len(log) = 0
  BY DEF Init
<1>3. /\ acked = {} /\ delivered = {} /\ everHandled = {} /\ lostAcks = 0 /\ restarts = 0
      /\ redelivered = {}
      /\ sub \subseteq Topics
  BY DEF Init, Subscriptions
<1>4. /\ pc \in [Topics -> {"idle", "handle", "ack"}] /\ cur \in [Topics -> 0 .. MaxMsgs]
      /\ \A t \in Topics : pc[t] = "idle" /\ cur[t] = 0
  BY ProcessorAssumption DEF Init
<1>5. Len(log) <= MaxMsgs /\ lostAcks + restarts <= MaxFaults /\ lostAcks \in Nat /\ restarts \in Nat
  BY <1>2, <1>3, ProcessorAssumption
<1>6. /\ delivered \subseteq 1 .. Len(log) /\ acked \subseteq delivered
      /\ redelivered \subseteq delivered /\ everHandled \subseteq 1 .. Len(log)
  BY <1>3
<1>7. TypeOK
  BY <1>1, <1>2, <1>3, <1>4, <1>5, <1>6 DEF TypeOK
<1>8. AckInv
  BY <1>3, <1>4 DEF AckInv
<1> QED BY <1>7, <1>8 DEF ProcessorInv

\* The message in a goroutine's hand.
LEMMA InHand ==
    ASSUME TypeOK, NEW t \in Topics, pc[t] # "idle"
    PROVE  /\ cur[t] \in delivered /\ cur[t] \in 1 .. Len(log)
           /\ log[cur[t]] \in Messages /\ log[cur[t]].topic = t
  BY DEF TypeOK

\* A handler moves its goroutine on and touches nothing of the stream.
LEMMA HandledStep ==
    ASSUME ProcessorInv, NEW t \in Topics, Handled(t), mem' \in Memory
    PROVE  ProcessorInv'
<1> USE DEF ProcessorInv
<1>1. pc[t] = "handle" /\ pc' = [pc EXCEPT ![t] = "ack"]
      /\ everHandled' = everHandled \cup {cur[t]}
      /\ UNCHANGED <<log, delivered, acked, lostAcks, sub, cur, restarts, redelivered>>
  BY DEF Handled
<1>2. cur[t] \in delivered /\ cur[t] \in 1 .. Len(log) /\ log[cur[t]].topic = t
  BY <1>1, InHand
<1>3. TypeOK'
  BY <1>1, <1>2 DEF TypeOK
<1>4. AckInv'
  BY <1>1 DEF AckInv, TypeOK
<1> QED BY <1>3, <1>4

LEMMA HandlerMemory ==
    ASSUME TypeOK, NEW t \in Topics, Handle(t)
    PROVE  Handled(t) /\ mem' \in Memory
<1> DEFINE m == log[cur[t]]
<1>1. Handled(t) /\ pc[t] = "handle"
  BY DEF Handle, HandleMalformed, HandleBadMetrics, handlePingResult, handleDNSResult,
         handleHTTPResult, handleTracerouteResult, Decodes, Handled
<1>2. m \in Messages /\ m.topic = t
  BY <1>1, InHand
<1>3. mem \in Memory
  BY DEF TypeOK
<1> DEFINE counted == [mem.resultsProcessed EXCEPT ![t] = @ + 1]
<1>0. counted \in [Topics -> Nat]
  BY <1>3 DEF Memory
<1>4. CASE HandleMalformed(t)
  <2> DEFINE errors == [mem.processingErrors EXCEPT ![<<t, "unmarshal">>] = @ + 1]
  <2>1. errors \in [Topics \X ErrorTypes -> Nat]
    BY <1>3 DEF Memory, ErrorTypes
  <2>2. mem' = [mem EXCEPT !.processingErrors = errors]
    BY <1>4 DEF HandleMalformed
  <2> HIDE DEF errors
  <2> QED BY <1>1, <1>3, <2>1, <2>2, FieldStored
<1>5. CASE HandleBadMetrics(t)
  <2> DEFINE errors == [mem.processingErrors EXCEPT ![<<t, "metrics_unmarshal">>] = @ + 1]
  <2>1. errors \in [Topics \X ErrorTypes -> Nat]
    BY <1>3 DEF Memory, ErrorTypes
  <2>2. mem' = [[mem EXCEPT !.resultsProcessed = counted] EXCEPT !.processingErrors = errors]
    BY <1>5 DEF HandleBadMetrics
  <2> HIDE DEF errors, counted
  <2> QED BY <1>1, <1>3, <1>0, <2>1, <2>2, FieldStored
<1>6. CASE t = "ping" /\ handlePingResult
  <2> DEFINE loss == [mem.pingPacketLoss EXCEPT ![Key(m)] = Decoded(m).loss]
  <2>1. m.form \in {"ok", "noMetrics"}
    BY <1>6 DEF handlePingResult, Decodes
  <2>2. Key(m) \in Keys /\ Decoded(m).loss \in {0, 1}
    BY <1>2, <1>6, <2>1, MessageFields, DecodedPing
  <2>3. loss \in Gauge({0, 1})
    BY <1>3, <2>2 DEF Memory, Gauge
  <2>4. mem' = [[mem EXCEPT !.resultsProcessed = counted] EXCEPT !.pingPacketLoss = loss]
    BY <1>6 DEF handlePingResult
  <2> HIDE DEF loss, counted
  <2> QED BY <1>1, <1>3, <1>0, <2>3, <2>4, FieldStored
<1>7. CASE t = "dns" /\ handleDNSResult
  <2> DEFINE codes == mem.dnsResponseCode \cup ({Key(m)} \X Decoded(m).codes)
  <2>1. m.form \in {"ok", "noMetrics"}
    BY <1>7 DEF handleDNSResult, Decodes
  <2>2. codes \subseteq Keys \X ResponseCodes
    BY <1>2, <1>3, <1>7, <2>1, MessageFields, DecodedDNS DEF Memory
  <2>3. mem' = [[mem EXCEPT !.resultsProcessed = counted] EXCEPT !.dnsResponseCode = codes]
    BY <1>7 DEF handleDNSResult
  <2> HIDE DEF codes, counted
  <2> QED BY <1>1, <1>3, <1>0, <2>2, <2>3, FieldStored
<1>8. CASE t = "http" /\ handleHTTPResult
  <2> DEFINE status == [mem.httpStatusCode EXCEPT ![Key(m)] = Decoded(m).status]
             cert == [mem.httpCertExpiry EXCEPT ![Key(m)] = CertExpiry(@, Decoded(m).cert)]
             seen == [mem EXCEPT !.resultsProcessed = counted]
  <2>1. m.form \in {"ok", "noMetrics"}
    BY <1>8 DEF handleHTTPResult, Decodes
  <2>2. /\ Key(m) \in Keys /\ Decoded(m).status \in {0, 200, 500}
        /\ Decoded(m).cert \in CertDays \cup {0}
    BY <1>2, <1>8, <2>1, MessageFields, DecodedHTTP
  <2>3. status \in Gauge({0, 200, 500})
    BY <1>3, <2>2 DEF Memory, Gauge
  <2>4. cert \in Gauge({days \in CertDays : days > 0})
    BY <1>3, <2>2 DEF Memory, Gauge, CertExpiry
  <2>5. mem' = [[seen EXCEPT !.httpStatusCode = status] EXCEPT !.httpCertExpiry = cert]
    BY <1>8 DEF handleHTTPResult
  <2> HIDE DEF status, cert, counted
  <2>6. seen \in Memory
    BY <1>3, <1>0, FieldStored
  <2> HIDE DEF seen
  <2> QED BY <1>1, <2>3, <2>4, <2>5, <2>6, FieldStored
<1>9. CASE t = "traceroute" /\ handleTracerouteResult
  <2> DEFINE last == mem.lastASPaths[m.target]
             current == asPathString(Decoded(m).path)
             reached == [mem.tracerouteReachable EXCEPT
                            ![Key(m)] = IF Decoded(m).reached THEN 1 ELSE 0]
             changes == [mem.traceroutePathChange EXCEPT
                            ![m.target] = IF PathChanged(last, current) THEN @ + 1 ELSE @]
             paths == [mem.lastASPaths EXCEPT ![m.target] = Remembered(last, current)]
             seen == [mem EXCEPT !.resultsProcessed = counted]
             marked == [seen EXCEPT !.tracerouteReachable = reached]
  <2>1. m.form \in {"ok", "noMetrics"}
    BY <1>9 DEF handleTracerouteResult, Decodes
  <2>2. /\ Key(m) \in Keys /\ m.target \in Targets /\ current \in PathStrings
    BY <1>2, <1>9, <2>1, MessageFields, DecodedTraceroute DEF PathStrings
  <2>3. reached \in Gauge({0, 1})
    BY <1>3, <2>2 DEF Memory, Gauge
  <2>4. changes \in [Targets -> Nat]
    BY <1>3, <2>2 DEF Memory
  <2>5. paths \in [Targets -> PathStrings]
    BY <1>3, <2>2 DEF Memory, Remembered
  <2>6. mem' = [[marked EXCEPT !.traceroutePathChange = changes] EXCEPT !.lastASPaths = paths]
    BY <1>9 DEF handleTracerouteResult
  <2> HIDE DEF reached, changes, paths, counted
  <2>7. seen \in Memory
    BY <1>3, <1>0, FieldStored
  <2> HIDE DEF seen
  <2>8. marked \in Memory
    BY <2>3, <2>7, FieldStored
  <2> HIDE DEF marked
  <2> QED BY <1>1, <2>4, <2>5, <2>6, <2>8, FieldStored
<1> QED BY <1>1, <1>4, <1>5, <1>6, <1>7, <1>8, <1>9 DEF Handle

LEMMA NextProcessor == ProcessorInv /\ [Next]_vars => ProcessorInv'
<1> SUFFICES ASSUME ProcessorInv, [Next]_vars PROVE ProcessorInv'
  OBVIOUS
<1> USE DEF ProcessorInv
<1>1. CASE Publish
  <2>1. PICK m \in Messages : log' = Append(log, m)
    BY <1>1 DEF Publish
  <2>2. /\ log' \in Seq(Messages) /\ Len(log') = Len(log) + 1 /\ Len(log') <= MaxMsgs
        /\ \A i \in 1 .. Len(log) : log'[i] = log[i]
    BY <1>1, <2>1, ProcessorAssumption DEF Publish, TypeOK
  <2>3. UNCHANGED <<delivered, acked, lostAcks, sub, cur, pc, restarts, mem, redelivered, everHandled>>
    BY <1>1 DEF Publish
  <2>4. /\ delivered \subseteq 1 .. Len(log') /\ \A i \in delivered : log'[i] = log[i]
        /\ everHandled \subseteq 1 .. Len(log')
    BY <2>2 DEF TypeOK
  <2>5. TypeOK'
    BY <2>2, <2>3, <2>4 DEF TypeOK
  <2> QED BY <2>3, <2>5 DEF AckInv
<1>2. ASSUME NEW t \in Topics, Deliver(t) PROVE ProcessorInv'
  <2>1. PICK i \in OfTopic(t) : /\ cur' = [cur EXCEPT ![t] = i] /\ delivered' = delivered \cup {i}
                               /\ redelivered' = redelivered \cup (delivered \cap {i})
    BY <1>2 DEF Deliver
  <2>2. /\ i \in 1 .. Len(log) /\ i \in 0 .. MaxMsgs /\ log[i].topic = t
        /\ pc' = [pc EXCEPT ![t] = "handle"]
        /\ UNCHANGED <<log, acked, lostAcks, sub, restarts, mem, everHandled>>
    BY <1>2, <2>1, ProcessorAssumption DEF Deliver, OfTopic, TypeOK
  <2>3. TypeOK'
    BY <2>1, <2>2 DEF TypeOK
  <2>4. AckInv'
    BY <2>1, <2>2 DEF AckInv, TypeOK
  <2> QED BY <2>3, <2>4
<1>3. ASSUME NEW t \in Topics, Handle(t) PROVE ProcessorInv'
  BY <1>3, HandlerMemory, HandledStep
<1>4. ASSUME NEW t \in Topics, Ack(t) \/ AckLost(t) PROVE ProcessorInv'
  <2>1. /\ pc[t] = "ack" /\ pc' = [pc EXCEPT ![t] = "idle"] /\ cur' = [cur EXCEPT ![t] = 0]
        /\ acked' \subseteq acked \cup {cur[t]}
        /\ UNCHANGED <<log, delivered, sub, restarts, mem, redelivered, everHandled>>
    BY <1>4 DEF Ack, AckLost
  <2>2. lostAcks' \in Nat /\ lostAcks' + restarts' <= MaxFaults
    BY <1>4, ProcessorAssumption DEF Ack, AckLost, TypeOK
  <2>3. cur[t] \in delivered /\ cur[t] \in everHandled
    BY <2>1, InHand DEF AckInv
  <2>4. cur' \in [Topics -> 0 .. MaxMsgs]
    BY <2>1, ProcessorAssumption DEF TypeOK
  <2>5. TypeOK'
    BY <2>1, <2>2, <2>3, <2>4 DEF TypeOK
  <2>6. AckInv'
    BY <2>1, <2>3 DEF AckInv, TypeOK
  <2> QED BY <2>5, <2>6
<1>5. CASE Restart
  <2>1. /\ sub' \subseteq Topics /\ mem' \in Memory /\ redelivered' = {}
        /\ UNCHANGED <<log, lostAcks, everHandled>>
    BY <1>5, NewMemory DEF Restart, Subscriptions
  <2>2. restarts' \in Nat /\ lostAcks' + restarts' <= MaxFaults
    BY <1>5, ProcessorAssumption DEF Restart, TypeOK
  <2>3. /\ pc' \in [Topics -> {"idle", "handle", "ack"}] /\ cur' \in [Topics -> 0 .. MaxMsgs]
        /\ \A t \in Topics : pc'[t] = "idle" /\ cur'[t] = 0
    BY <1>5, ProcessorAssumption DEF Restart
  <2>4. acked' \subseteq acked /\ acked' \subseteq delivered' /\ delivered' \subseteq delivered
    BY <1>5 DEF Restart, TypeOK
  <2>5. TypeOK'
    BY <2>1, <2>2, <2>3, <2>4 DEF TypeOK
  <2> QED BY <2>1, <2>3, <2>4, <2>5 DEF AckInv
<1>6. CASE UNCHANGED vars
  BY <1>6 DEF vars, TypeOK, AckInv
<1> QED BY <1>1, <1>2, <1>3, <1>4, <1>5, <1>6 DEF Next

LEMMA ProcessorInvariant == Spec => []ProcessorInv
  BY InitProcessor, NextProcessor, PTL DEF Spec

\* The metrics and the paths keep their types: whatever a message says, a handler
\* stores only what its topic can report, and the certificate's gauge never holds a
\* certificate that has expired.
THEOREM ProcessorTypeCorrect == Spec => []TypeOK
<1>1. ProcessorInv => TypeOK
  BY DEF ProcessorInv
<1> QED BY <1>1, ProcessorInvariant, PTL

\* However deliveries, lost acknowledgements and restarts interleave, Subscribe's
\* callback acknowledges only what some incarnation has handled: a crash between the
\* two repeats messages and loses none.
THEOREM HandledBeforeAcked == Spec => []AckedWasHandled
<1>1. ProcessorInv => AckedWasHandled
  BY DEF ProcessorInv, AckInv, AckedWasHandled
<1> QED BY <1>1, ProcessorInvariant, PTL

-----------------------------------------------------------------------------
(* A topic's messages are handled in the order of the stream, except those  *)
(* that are delivered again.                                                *)

HandledSet == {handled[n] : n \in 1 .. Len(handled)}

HandledOK == handled \in Seq(Nat) /\ HandledSet \subseteq delivered

\* Nothing of a topic was skipped, and what a goroutine has in hand for the first
\* time is the latest of what was delivered.
InStreamOrder ==
    \A t \in Topics :
        /\ \A i \in delivered : \A j \in OfTopic(t) :
            log[i].topic = t /\ j < i => j \in delivered
        /\ pc[t] # "idle" /\ cur[t] \notin redelivered =>
            \A i \in delivered : log[i].topic = t => i <= cur[t]

\* What was handled after a newer message of its topic had been delivered before.
OlderCameBack ==
    \A p, q \in 1 .. Len(handled) :
        /\ log[handled[p]].topic = log[handled[q]].topic
        /\ p < q /\ handled[p] > handled[q]
        => handled[q] \in redelivered

OrderInv == ProcessorInv /\ HandledOK /\ InStreamOrder /\ OlderCameBack

\* The message a handler is done with is the last one handled.
LEMMA HandledAppends ==
    ASSUME OrderInv, NEW t \in Topics, Handled(t)
    PROVE  /\ handled' \in Seq(Nat) /\ HandledSet' = HandledSet \cup {cur[t]}
           /\ cur[t] \in delivered /\ log[cur[t]] \in Messages /\ log[cur[t]].topic = t
           /\ Len(handled) \in Nat /\ 1 .. Len(handled') = 1 .. Len(handled) \cup {Len(handled) + 1}
           /\ handled'[Len(handled) + 1] = cur[t]
           /\ \A n \in 1 .. Len(handled) : handled'[n] = handled[n]
<1>1. handled \in Seq(Nat) /\ handled' = Append(handled, cur[t]) /\ pc[t] = "handle"
  BY DEF OrderInv, HandledOK, Handled
<1>2. /\ cur[t] \in delivered /\ cur[t] \in 1 .. Len(log)
      /\ log[cur[t]] \in Messages /\ log[cur[t]].topic = t
  BY <1>1, InHand DEF OrderInv, ProcessorInv
<1>3. /\ handled' \in Seq(Nat) /\ Len(handled') = Len(handled) + 1
      /\ handled'[Len(handled) + 1] = cur[t]
      /\ \A n \in 1 .. Len(handled) : handled'[n] = handled[n]
  BY <1>1, <1>2
<1>4. HandledSet' = {handled'[n] : n \in 1 .. Len(handled')}
  BY DEF HandledSet
<1>5. Len(handled) \in Nat
  BY <1>1
<1>6. 1 .. Len(handled') = 1 .. Len(handled) \cup {Len(handled) + 1}
  BY <1>3, <1>5
<1>7. HandledSet' = HandledSet \cup {cur[t]}
  BY <1>3, <1>4, <1>6 DEF HandledSet
<1> QED BY <1>2, <1>3, <1>5, <1>6, <1>7

LEMMA InitOrder == Init => OrderInv
<1> SUFFICES ASSUME Init PROVE OrderInv
  OBVIOUS
<1>1. ProcessorInv
  BY InitProcessor
<1>2. handled = <<>> /\ delivered = {} /\ HandledSet = {}
  BY DEF Init, HandledSet
<1>3. \A t \in Topics : pc[t] = "idle"
  BY DEF Init
<1>4. HandledOK
  BY <1>2 DEF HandledOK
<1>5. InStreamOrder /\ OlderCameBack
  BY <1>2, <1>3 DEF InStreamOrder, OlderCameBack
<1> QED BY <1>1, <1>4, <1>5 DEF OrderInv

LEMMA NextOrder == OrderInv /\ [Next]_vars => OrderInv'
<1> SUFFICES ASSUME OrderInv, [Next]_vars PROVE OrderInv'
  OBVIOUS
<1>0. ProcessorInv /\ ProcessorInv' /\ TypeOK /\ HandledOK /\ InStreamOrder /\ OlderCameBack
  BY NextProcessor DEF OrderInv, ProcessorInv
<1> SUFFICES HandledOK' /\ InStreamOrder' /\ OlderCameBack'
  BY <1>0 DEF OrderInv
<1>a. /\ pc \in [Topics -> {"idle", "handle", "ack"}] /\ cur \in [Topics -> 0 .. MaxMsgs]
      /\ delivered \subseteq 1 .. Len(log) /\ Len(log) \in Nat
      /\ \A n \in 1 .. Len(handled) : handled[n] \in delivered
  BY <1>0 DEF TypeOK, HandledOK, HandledSet
<1>1. CASE Publish
  <2>1. PICK m \in Messages : log' = Append(log, m)
    BY <1>1 DEF Publish
  <2>2. UNCHANGED <<delivered, cur, pc, handled, redelivered>>
    BY <1>1 DEF Publish
  <2>3. /\ \A i \in delivered : log'[i] = log[i]
        /\ \A j \in 1 .. Len(log) : log'[j] = log[j]
        /\ Len(log') = Len(log) + 1
    BY <1>0, <2>1 DEF TypeOK
  <2>4. HandledSet' = HandledSet
    BY <2>2 DEF HandledSet
  <2>5. \A t \in Topics : \A i \in delivered : \A j \in OfTopic(t)' : j < i => j \in OfTopic(t)
    BY <1>a, <2>3 DEF OfTopic
  <2>6. InStreamOrder'
    BY <1>0, <2>2, <2>3, <2>5 DEF InStreamOrder
  <2>7. OlderCameBack'
    BY <1>0, <1>a, <2>2, <2>3 DEF OlderCameBack
  <2> QED BY <1>0, <2>2, <2>4, <2>6, <2>7 DEF HandledOK
<1>2. ASSUME NEW t \in Topics, Deliver(t) PROVE HandledOK' /\ InStreamOrder' /\ OlderCameBack'
  <2>1. PICK i \in OfTopic(t) \ acked :
            /\ i \in delivered \/ \A j \in OfTopic(t) : j < i => j \in delivered
            /\ cur' = [cur EXCEPT ![t] = i] /\ delivered' = delivered \cup {i}
            /\ redelivered' = redelivered \cup (delivered \cap {i})
    BY <1>2 DEF Deliver
  <2>2. /\ pc' = [pc EXCEPT ![t] = "handle"]
        /\ UNCHANGED <<log, handled>>
    BY <1>2 DEF Deliver
  <2>3. HandledSet' = HandledSet /\ \A u \in Topics : OfTopic(u)' = OfTopic(u)
    BY <2>2 DEF HandledSet, OfTopic
  <2>4. i \in 1 .. Len(log) /\ log[i].topic = t
    BY <2>1 DEF OfTopic
  <2>5. \A u \in Topics : \A j \in delivered' : \A h \in OfTopic(u) :
            log[j].topic = u /\ h < j => h \in delivered'
    <3> SUFFICES ASSUME NEW u \in Topics, NEW j \in delivered', NEW h \in OfTopic(u),
                        log[j].topic = u, h < j
                 PROVE  h \in delivered'
      OBVIOUS
    <3>1. CASE j \in delivered
      BY <1>0, <2>1, <3>1 DEF InStreamOrder
    <3>2. CASE j \notin delivered
      <4>1. j = i /\ u = t
        BY <2>1, <2>4, <3>2
      <4> QED BY <2>1, <3>2, <4>1
    <3> QED BY <3>1, <3>2
  <2>6. ASSUME i \notin redelivered', NEW j \in delivered', log[j].topic = t PROVE j <= i
    <3>1. i \notin delivered
      BY <2>1, <2>6
    <3>2. CASE j = i
      BY <2>4, <3>2
    <3>3. CASE j # i
      <4>1. j \in delivered /\ i \in OfTopic(t)
        BY <2>1, <3>3
      <4>2. ~(i < j)
        BY <1>0, <2>6, <3>1, <4>1 DEF InStreamOrder
      <4> QED BY <1>a, <2>4, <4>1, <4>2
    <3> QED BY <3>2, <3>3
  <2>7. ASSUME NEW u \in Topics, pc'[u] # "idle", cur'[u] \notin redelivered',
               NEW j \in delivered', log[j].topic = u
        PROVE  j <= cur'[u]
    <3>1. CASE u = t
      <4>1. cur'[u] = i
        BY <1>a, <2>1, <3>1
      <4> QED BY <2>6, <2>7, <3>1, <4>1
    <3>2. CASE u # t
      <4>1. pc'[u] = pc[u] /\ cur'[u] = cur[u] /\ j \in delivered /\ cur[u] \notin redelivered
        BY <1>a, <2>1, <2>2, <2>4, <2>7, <3>2
      <4> QED BY <1>0, <2>7, <4>1 DEF InStreamOrder
    <3> QED BY <3>1, <3>2
  <2>8. InStreamOrder'
    BY <2>2, <2>3, <2>5, <2>7 DEF InStreamOrder
  <2>9. OlderCameBack'
    BY <1>0, <2>1, <2>2 DEF OlderCameBack
  <2> QED BY <1>0, <2>1, <2>2, <2>3, <2>8, <2>9 DEF HandledOK
<1>3. ASSUME NEW t \in Topics, Handle(t) PROVE HandledOK' /\ InStreamOrder' /\ OlderCameBack'
  <2>1. Handled(t)
    BY <1>0, <1>3, HandlerMemory
  <2>2. /\ handled' \in Seq(Nat) /\ HandledSet' = HandledSet \cup {cur[t]}
        /\ cur[t] \in delivered /\ log[cur[t]].topic = t
    BY <2>1, HandledAppends
  <2>3. /\ pc[t] = "handle" /\ pc' = [pc EXCEPT ![t] = "ack"]
        /\ UNCHANGED <<log, delivered, redelivered, cur>>
    BY <2>1 DEF Handled
  <2>4. \A u \in Topics : /\ pc'[u] # "idle" <=> pc[u] # "idle"
                          /\ OfTopic(u)' = OfTopic(u)
    BY <1>a, <2>3 DEF OfTopic
  <2>5. InStreamOrder'
    BY <1>0, <2>3, <2>4 DEF InStreamOrder
  <2>6. PICK N \in Nat : N = Len(handled) + 1
    BY <2>1, HandledAppends
  <2>7. /\ 1 .. Len(handled') = 1 .. Len(handled) \cup {N} /\ handled'[N] = cur[t]
        /\ \A n \in 1 .. Len(handled) : handled'[n] = handled[n] /\ n < N
    BY <2>1, <2>6, HandledAppends
  <2>8. ASSUME NEW n \in 1 .. Len(handled), log[handled[n]].topic = t, handled[n] > cur[t]
        PROVE  cur[t] \in redelivered
    <3>1. handled[n] \in delivered /\ handled[n] \in Nat /\ cur[t] \in Nat
      <4>1. handled[n] \in delivered /\ cur[t] \in delivered
        BY <1>a, <2>2
      <4>2. delivered \subseteq Nat
        BY <1>a
      <4> QED BY <4>1, <4>2, Zenon
    <3>2. ~(handled[n] <= cur[t])
      BY <2>8, <3>1
    <3> QED BY <1>0, <2>3, <2>8, <3>1, <3>2 DEF InStreamOrder
  <2>9. ASSUME NEW p \in 1 .. Len(handled'), NEW q \in 1 .. Len(handled'),
               log[handled'[p]].topic = log[handled'[q]].topic, p < q, handled'[p] > handled'[q]
        PROVE  handled'[q] \in redelivered
    <3>1. p \in 1 .. Len(handled)
      BY <2>6, <2>7, <2>9
    <3>2. CASE q = N
      BY <2>2, <2>7, <2>8, <2>9, <3>1, <3>2
    <3>3. CASE q # N
      BY <1>0, <2>7, <2>9, <3>1, <3>3 DEF OlderCameBack
    <3> QED BY <3>2, <3>3
  <2>10. OlderCameBack'
    BY <2>3, <2>9 DEF OlderCameBack
  <2> QED BY <1>0, <2>2, <2>3, <2>5, <2>10 DEF HandledOK
<1>4. ASSUME NEW t \in Topics, Ack(t) \/ AckLost(t)
      PROVE  HandledOK' /\ InStreamOrder' /\ OlderCameBack'
  <2>1. /\ pc' = [pc EXCEPT ![t] = "idle"] /\ cur' = [cur EXCEPT ![t] = 0]
        /\ UNCHANGED <<log, delivered, redelivered, handled>>
    BY <1>4 DEF Ack, AckLost
  <2>2. HandledSet' = HandledSet /\ \A u \in Topics : OfTopic(u)' = OfTopic(u)
    BY <2>1 DEF HandledSet, OfTopic
  <2>3. \A u \in Topics : pc'[u] # "idle" => pc[u] # "idle" /\ cur'[u] = cur[u]
    BY <1>a, <2>1
  <2>4. InStreamOrder'
    BY <1>0, <2>1, <2>2, <2>3 DEF InStreamOrder
  <2> QED BY <1>0, <2>1, <2>2, <2>4 DEF HandledOK, OlderCameBack
<1>5. CASE Restart
  <2>1. PICK gone \in SUBSET sub : delivered' = {i \in delivered : log[i].topic \notin gone}
    BY <1>5 DEF Restart
  <2>2. log' = log /\ handled' = <<>> /\ \A u \in Topics : pc'[u] = "idle"
    BY <1>5 DEF Restart
  <2>3. HandledSet' = {} /\ \A u \in Topics : OfTopic(u)' = OfTopic(u)
    BY <2>2 DEF HandledSet, OfTopic
  <2>4. ASSUME NEW u \in Topics, NEW i \in delivered', NEW j \in OfTopic(u), log[i].topic = u, j < i
        PROVE  j \in delivered'
    <3>1. i \in delivered /\ log[j].topic = log[i].topic
      BY <2>1, <2>4 DEF OfTopic
    <3>2. j \in delivered
      BY <1>0, <2>4, <3>1 DEF InStreamOrder
    <3> QED BY <2>1, <3>1, <3>2
  <2>5. InStreamOrder'
    BY <2>2, <2>3, <2>4 DEF InStreamOrder
  <2> QED BY <2>2, <2>3, <2>5 DEF HandledOK, OlderCameBack
<1>6. CASE UNCHANGED vars
  BY <1>0, <1>6 DEF vars, HandledOK, HandledSet, InStreamOrder, OlderCameBack, OfTopic
<1> QED BY <1>1, <1>2, <1>3, <1>4, <1>5, <1>6 DEF Next

LEMMA OrderInvariant == Spec => []OrderInv
  BY InitOrder, NextOrder, PTL DEF Spec

-----------------------------------------------------------------------------
(* The gauges.                                                             *)

\* A handled message adds one position, the last.
LEMMA PositionAdded ==
    ASSUME OrderInv, NEW t \in Topics, Handle(t)
    PROVE  /\ Len(handled) \in Nat /\ 1 .. Len(handled') = 1 .. Len(handled) \cup {Len(handled) + 1}
           /\ Len(handled) + 1 \notin 1 .. Len(handled) /\ log' = log
           /\ handled'[Len(handled) + 1] = cur[t]
           /\ \A n \in 1 .. Len(handled) : handled'[n] = handled[n]
           /\ log[cur[t]] \in Messages /\ log[cur[t]].topic = t
<1>1. Handled(t)
  BY HandlerMemory DEF OrderInv, ProcessorInv
<1>2. log' = log
  BY <1>1 DEF Handled
<1> QED BY <1>1, <1>2, HandledAppends

\* No step but a handler's and a restart touches memory or what was handled.
LEMMA OtherSteps ==
    ASSUME OrderInv,
           Publish \/ (\E t \in Topics : Deliver(t) \/ Ack(t) \/ AckLost(t)) \/ UNCHANGED vars
    PROVE  mem' = mem /\ handled' = handled /\ \A i \in HandledSet : log'[i] = log[i]
<1>1. HandledSet \subseteq delivered /\ delivered \subseteq 1 .. Len(log) /\ log \in Seq(Messages)
  <2>1. HandledSet \subseteq delivered
    BY DEF OrderInv, HandledOK
  <2>2. TypeOK
    BY DEF OrderInv, ProcessorInv
  <2> QED BY <2>1, <2>2 DEF TypeOK
<1>2. CASE Publish
  <2>1. PICK msg \in Messages : log' = Append(log, msg)
    BY <1>2 DEF Publish
  <2>2. mem' = mem /\ handled' = handled
    BY <1>2 DEF Publish
  <2>3. \A i \in 1 .. Len(log) : log'[i] = log[i]
    BY <1>1, <2>1
  <2> QED BY <1>1, <2>2, <2>3
<1>3. CASE \E t \in Topics : Deliver(t) \/ Ack(t) \/ AckLost(t)
  BY <1>3 DEF Deliver, Ack, AckLost
<1>4. CASE UNCHANGED vars
  BY <1>4 DEF vars
<1> QED BY <1>2, <1>3, <1>4

\* A message is a result of a key if it decodes and is about it.
IsResult(m, topic, k) ==
    m.topic = topic /\ m.form \in {"ok", "noMetrics"} /\ Key(m) = k

Losses(k) == [n \in ResultsAt("ping", k) |-> DecodedAt(n).loss]

Statuses(k) == [n \in ResultsAt("http", k) |-> DecodedAt(n).status]

Reached(k) ==
    [n \in ResultsAt("traceroute", k) |-> IF DecodedAt(n).reached THEN 1 ELSE 0]

Alive(k) == {n \in ResultsAt("http", k) : DecodedAt(n).cert > 0}

Expiries(k) == [n \in Alive(k) |-> DecodedAt(n).cert]

PingShows(k) == ShowsLast(mem.pingPacketLoss[k], Losses(k))

StatusShows(k) == ShowsLast(mem.httpStatusCode[k], Statuses(k))

ReachedShows(k) == ShowsLast(mem.tracerouteReachable[k], Reached(k))

ExpiryShows(k) == ShowsLast(mem.httpCertExpiry[k], Expiries(k))

CodesShow(k) ==
    {code \in ResponseCodes : <<k, code>> \in mem.dnsResponseCode} =
        UNION {DecodedAt(n).codes : n \in ResultsAt("dns", k)}

ShowsHandled(k) ==
    PingShows(k) /\ StatusShows(k) /\ ReachedShows(k) /\ ExpiryShows(k) /\ CodesShow(k)

GaugeInv == \A k \in Keys : ShowsHandled(k)

LEMMA GaugesAndOrder == OrderInv /\ GaugeInv => StaleOnlyAfterRedelivery
<1> SUFFICES ASSUME OrderInv, GaugeInv PROVE StaleOnlyAfterRedelivery
  OBVIOUS
<1>1. \A t \in Topics : \A p, q \in HandledAt(t) :
        p < q /\ handled[p] > handled[q] => handled[q] \in redelivered
  BY DEF OrderInv, OlderCameBack, HandledAt
<1>2. \A k \in Keys : ShowsHandled(k)
  BY DEF GaugeInv
<1> QED BY <1>1, <1>2 DEF StaleOnlyAfterRedelivery, ShowsHandled, PingShows, StatusShows,
        ReachedShows, ExpiryShows, CodesShow, Losses, Statuses, Reached, Alive, Expiries

\* What is added after all other positions is what is shown.
LEMMA AddedIsLast ==
    ASSUME NEW old, NEW new, NEW N \in Nat, NEW shown,
           old \subseteq Nat, \A n \in old : n < N,
           DOMAIN new = old \cup {N}, new[N] = shown
    PROVE  ShowsLast(shown, new)
<1>1. IsLastOf(N, DOMAIN new)
  <2>1. \A p \in old \cup {N} : p <= N
    OBVIOUS
  <2> QED BY <2>1, Zenon DEF IsLastOf
<1>2. N \in DOMAIN new /\ DOMAIN new # {}
  OBVIOUS
<1> QED BY <1>1, <1>2 DEF ShowsLast

\* The message becomes a result of its own topic and key, if it decodes.
LEMMA ResultAdded ==
    ASSUME OrderInv, NEW t \in Topics, Handle(t), NEW topic, NEW k
    PROVE  /\ ResultsAt(topic, k)' =
                ResultsAt(topic, k) \cup
                    (IF IsResult(log[cur[t]], topic, k) THEN {Len(handled) + 1} ELSE {})
           /\ \A n \in ResultsAt(topic, k) : DecodedAt(n)' = DecodedAt(n)
           /\ \A n : n = Len(handled) + 1 => DecodedAt(n)' = Decoded(log[cur[t]])
           /\ ResultsAt(topic, k) \subseteq Nat /\ Len(handled) + 1 \in Nat
           /\ \A n \in ResultsAt(topic, k) : n < Len(handled) + 1
<1>1. PICK N : N = Len(handled) + 1
  OBVIOUS
<1>2. /\ N \in Nat /\ 1 .. Len(handled') = 1 .. Len(handled) \cup {N} /\ N \notin 1 .. Len(handled)
      /\ log' = log /\ handled'[N] = cur[t]
      /\ \A n \in 1 .. Len(handled) : handled'[n] = handled[n] /\ n \in Nat /\ n < N
  BY <1>1, PositionAdded
<1>3. ResultsAt(topic, k)' = {n \in 1 .. Len(handled') : IsResult(log'[handled'[n]], topic, k)}
  BY DEF ResultsAt, IsResult
<1>4. ResultsAt(topic, k) = {n \in 1 .. Len(handled) : IsResult(log[handled[n]], topic, k)}
  BY DEF ResultsAt, IsResult
<1>5. ResultsAt(topic, k)' =
        ResultsAt(topic, k) \cup (IF IsResult(log[cur[t]], topic, k) THEN {N} ELSE {})
  <2>1. CASE IsResult(log[cur[t]], topic, k)
    BY <1>2, <1>3, <1>4, <2>1
  <2>2. CASE ~IsResult(log[cur[t]], topic, k)
    BY <1>2, <1>3, <1>4, <2>2
  <2> QED BY <2>1, <2>2
<1>6. \A n \in 1 .. Len(handled) : DecodedAt(n)' = DecodedAt(n)
  BY <1>2 DEF DecodedAt
<1>7. DecodedAt(N)' = Decoded(log[cur[t]])
  BY <1>2 DEF DecodedAt
<1>8. ResultsAt(topic, k) \subseteq 1 .. Len(handled)
  BY <1>4
<1> QED BY <1>1, <1>2, <1>5, <1>6, <1>7, <1>8

\* A handler sets only the gauges of its topic, of the key of its message, and none
\* for a message that does not decode.
LEMMA GaugesKept ==
    ASSUME OrderInv, NEW t \in Topics, Handle(t), NEW k \in Keys
    PROVE  /\ ~IsResult(log[cur[t]], "ping", k) => mem'.pingPacketLoss[k] = mem.pingPacketLoss[k]
           /\ ~IsResult(log[cur[t]], "http", k) =>
                /\ mem'.httpStatusCode[k] = mem.httpStatusCode[k]
                /\ mem'.httpCertExpiry[k] = mem.httpCertExpiry[k]
           /\ ~IsResult(log[cur[t]], "traceroute", k) =>
                mem'.tracerouteReachable[k] = mem.tracerouteReachable[k]
           /\ ~IsResult(log[cur[t]], "dns", k) =>
                \A code : <<k, code>> \in mem'.dnsResponseCode <=> <<k, code>> \in mem.dnsResponseCode
<1> DEFINE m == log[cur[t]]
<1>0. m.topic = t /\ mem \in Memory
  <2>1. m.topic = t
    BY HandledAppends, HandlerMemory DEF OrderInv, ProcessorInv
  <2> QED BY <2>1 DEF OrderInv, ProcessorInv, TypeOK
<1>1. CASE HandleMalformed(t)
  BY <1>0, <1>1 DEF HandleMalformed, Memory
<1>2. CASE HandleBadMetrics(t)
  BY <1>0, <1>2 DEF HandleBadMetrics, Memory
<1>3. CASE t = "ping" /\ handlePingResult
  <2>1. m.form \in {"ok", "noMetrics"}
    BY <1>3 DEF handlePingResult, Decodes
  <2>2. /\ mem'.pingPacketLoss = [mem.pingPacketLoss EXCEPT ![Key(m)] = Decoded(m).loss]
        /\ mem'.httpStatusCode = mem.httpStatusCode
        /\ mem'.httpCertExpiry = mem.httpCertExpiry
        /\ mem'.tracerouteReachable = mem.tracerouteReachable
        /\ mem'.dnsResponseCode = mem.dnsResponseCode
    BY <1>0, <1>3 DEF handlePingResult, Memory
  <2>3. Key(m) # k => mem'.pingPacketLoss[k] = mem.pingPacketLoss[k]
    BY <1>0, <2>2 DEF Memory, Gauge
  <2> QED BY <1>0, <1>3, <2>1, <2>2, <2>3 DEF IsResult
<1>4. CASE t = "dns" /\ handleDNSResult
  <2>1. m.form \in {"ok", "noMetrics"}
    BY <1>4 DEF handleDNSResult, Decodes
  <2>2. /\ mem'.dnsResponseCode = mem.dnsResponseCode \cup ({Key(m)} \X Decoded(m).codes)
        /\ mem'.pingPacketLoss = mem.pingPacketLoss
        /\ mem'.httpStatusCode = mem.httpStatusCode
        /\ mem'.httpCertExpiry = mem.httpCertExpiry
        /\ mem'.tracerouteReachable = mem.tracerouteReachable
    BY <1>0, <1>4 DEF handleDNSResult, Memory
  <2>3. Key(m) # k =>
            \A code : <<k, code>> \in mem'.dnsResponseCode <=> <<k, code>> \in mem.dnsResponseCode
    BY <2>2
  <2> QED BY <1>0, <1>4, <2>1, <2>2, <2>3 DEF IsResult
<1>5. CASE t = "http" /\ handleHTTPResult
  <2>1. m.form \in {"ok", "noMetrics"}
    BY <1>5 DEF handleHTTPResult, Decodes
  <2>2. /\ mem'.httpStatusCode = [mem.httpStatusCode EXCEPT ![Key(m)] = Decoded(m).status]
        /\ mem'.httpCertExpiry =
                [mem.httpCertExpiry EXCEPT ![Key(m)] = CertExpiry(@, Decoded(m).cert)]
        /\ mem'.pingPacketLoss = mem.pingPacketLoss
        /\ mem'.tracerouteReachable = mem.tracerouteReachable
        /\ mem'.dnsResponseCode = mem.dnsResponseCode
    BY <1>0, <1>5 DEF handleHTTPResult, Memory
  <2>3. Key(m) # k => /\ mem'.httpStatusCode[k] = mem.httpStatusCode[k]
                      /\ mem'.httpCertExpiry[k] = mem.httpCertExpiry[k]
    BY <1>0, <2>2 DEF Memory, Gauge
  <2> QED BY <1>0, <1>5, <2>1, <2>2, <2>3 DEF IsResult
<1>6. CASE t = "traceroute" /\ handleTracerouteResult
  <2> DEFINE reached == IF Decoded(m).reached THEN 1 ELSE 0
  <2>1. m.form \in {"ok", "noMetrics"}
    BY <1>6 DEF handleTracerouteResult, Decodes
  <2>2. /\ mem'.tracerouteReachable = [mem.tracerouteReachable EXCEPT ![Key(m)] = reached]
        /\ mem'.pingPacketLoss = mem.pingPacketLoss
        /\ mem'.httpStatusCode = mem.httpStatusCode
        /\ mem'.httpCertExpiry = mem.httpCertExpiry
        /\ mem'.dnsResponseCode = mem.dnsResponseCode
    BY <1>0, <1>6 DEF handleTracerouteResult, Memory
  <2>3. Key(m) # k => mem'.tracerouteReachable[k] = mem.tracerouteReachable[k]
    BY <1>0, <2>2 DEF Memory, Gauge
  <2> QED BY <1>0, <1>6, <2>1, <2>2, <2>3 DEF IsResult
<1> QED BY <1>1, <1>2, <1>3, <1>4, <1>5, <1>6 DEF Handle

LEMMA PingShown ==
    ASSUME OrderInv, NEW t \in Topics, Handle(t), NEW k \in Keys, PingShows(k)
    PROVE  PingShows(k)'
<1> DEFINE m == log[cur[t]]
           shown == Decoded(m).loss
           old == ResultsAt("ping", k)
<1>0. m.topic = t /\ mem \in Memory
  BY PositionAdded DEF OrderInv, ProcessorInv, TypeOK
<1>1. CASE IsResult(m, "ping", k)
  <2>1. t = "ping" /\ handlePingResult
    BY <1>0, <1>1 DEF IsResult, Handle, HandleMalformed, HandleBadMetrics
  <2>2. mem'.pingPacketLoss = [mem.pingPacketLoss EXCEPT ![Key(m)] = shown]
    BY <1>0, <2>1 DEF handlePingResult, Memory
  <2>3. mem'.pingPacketLoss[k] = shown
    BY <1>0, <1>1, <2>2 DEF IsResult, Memory, Gauge
  <2>4. PICK N \in Nat : N = Len(handled) + 1
    BY ResultAdded
  <2>5. /\ DOMAIN Losses(k)' = old \cup {N} /\ Losses(k)'[N] = shown
        /\ old \subseteq Nat /\ \A n \in old : n < N
    BY <1>1, <2>4, ResultAdded DEF Losses
  <2> HIDE DEF shown, old
  <2>6. ShowsLast(shown, Losses(k)')
    BY <2>4, <2>5, AddedIsLast
  <2> QED BY <2>3, <2>6 DEF PingShows, ShowsLast
<1>2. CASE ~IsResult(m, "ping", k)
  <2>1. mem'.pingPacketLoss[k] = mem.pingPacketLoss[k]
    BY <1>2, GaugesKept
  <2>2. Losses(k)' = Losses(k)
    BY <1>2, ResultAdded DEF Losses
  <2> QED BY <2>1, <2>2 DEF PingShows, ShowsLast
<1> QED BY <1>1, <1>2

LEMMA StatusShown ==
    ASSUME OrderInv, NEW t \in Topics, Handle(t), NEW k \in Keys, StatusShows(k)
    PROVE  StatusShows(k)'
<1> DEFINE m == log[cur[t]]
           shown == Decoded(m).status
           old == ResultsAt("http", k)
<1>0. m.topic = t /\ mem \in Memory
  BY PositionAdded DEF OrderInv, ProcessorInv, TypeOK
<1>1. CASE IsResult(m, "http", k)
  <2>1. t = "http" /\ handleHTTPResult
    BY <1>0, <1>1 DEF IsResult, Handle, HandleMalformed, HandleBadMetrics
  <2>2. mem'.httpStatusCode = [mem.httpStatusCode EXCEPT ![Key(m)] = shown]
    BY <1>0, <2>1 DEF handleHTTPResult, Memory
  <2>3. mem'.httpStatusCode[k] = shown
    BY <1>0, <1>1, <2>2 DEF IsResult, Memory, Gauge
  <2>4. PICK N \in Nat : N = Len(handled) + 1
    BY ResultAdded
  <2>5. /\ DOMAIN Statuses(k)' = old \cup {N} /\ Statuses(k)'[N] = shown
        /\ old \subseteq Nat /\ \A n \in old : n < N
    BY <1>1, <2>4, ResultAdded DEF Statuses
  <2> HIDE DEF shown, old
  <2>6. ShowsLast(shown, Statuses(k)')
    BY <2>4, <2>5, AddedIsLast
  <2> QED BY <2>3, <2>6 DEF StatusShows, ShowsLast
<1>2. CASE ~IsResult(m, "http", k)
  <2>1. mem'.httpStatusCode[k] = mem.httpStatusCode[k]
    BY <1>2, GaugesKept
  <2>2. Statuses(k)' = Statuses(k)
    BY <1>2, ResultAdded DEF Statuses
  <2> QED BY <2>1, <2>2 DEF StatusShows, ShowsLast
<1> QED BY <1>1, <1>2

LEMMA ReachedShown ==
    ASSUME OrderInv, NEW t \in Topics, Handle(t), NEW k \in Keys, ReachedShows(k)
    PROVE  ReachedShows(k)'
<1> DEFINE m == log[cur[t]]
           shown == IF Decoded(m).reached THEN 1 ELSE 0
           old == ResultsAt("traceroute", k)
<1>0. m.topic = t /\ mem \in Memory
  BY PositionAdded DEF OrderInv, ProcessorInv, TypeOK
<1>1. CASE IsResult(m, "traceroute", k)
  <2>1. t = "traceroute" /\ handleTracerouteResult
    BY <1>0, <1>1 DEF IsResult, Handle, HandleMalformed, HandleBadMetrics
  <2>2. mem'.tracerouteReachable = [mem.tracerouteReachable EXCEPT ![Key(m)] = shown]
    BY <1>0, <2>1 DEF handleTracerouteResult, Memory
  <2>3. mem'.tracerouteReachable[k] = shown
    BY <1>0, <1>1, <2>2 DEF IsResult, Memory, Gauge
  <2>4. PICK N \in Nat : N = Len(handled) + 1
    BY ResultAdded
  <2>5. /\ DOMAIN Reached(k)' = old \cup {N} /\ Reached(k)'[N] = shown
        /\ old \subseteq Nat /\ \A n \in old : n < N
    BY <1>1, <2>4, ResultAdded DEF Reached
  <2> HIDE DEF shown, old
  <2>6. ShowsLast(shown, Reached(k)')
    BY <2>4, <2>5, AddedIsLast
  <2> QED BY <2>3, <2>6 DEF ReachedShows, ShowsLast
<1>2. CASE ~IsResult(m, "traceroute", k)
  <2>1. mem'.tracerouteReachable[k] = mem.tracerouteReachable[k]
    BY <1>2, GaugesKept
  <2>2. Reached(k)' = Reached(k)
    BY <1>2, ResultAdded DEF Reached
  <2> QED BY <2>1, <2>2 DEF ReachedShows, ShowsLast
<1> QED BY <1>1, <1>2

\* The certificate's gauge follows the results that had days left.
LEMMA ExpiryShown ==
    ASSUME OrderInv, NEW t \in Topics, Handle(t), NEW k \in Keys, ExpiryShows(k)
    PROVE  ExpiryShows(k)'
<1> DEFINE m == log[cur[t]]
           days == Decoded(m).cert
<1>0. m.topic = t /\ mem \in Memory
  BY PositionAdded DEF OrderInv, ProcessorInv, TypeOK
<1>1. PICK N \in Nat : N = Len(handled) + 1
  BY ResultAdded
<1>2. Alive(k)' = {n \in ResultsAt("http", k)' : DecodedAt(n)'.cert > 0}
  BY DEF Alive
<1>3. CASE IsResult(m, "http", k)
  <2>1. t = "http" /\ handleHTTPResult
    BY <1>0, <1>3 DEF IsResult, Handle, HandleMalformed, HandleBadMetrics
  <2>2. mem'.httpCertExpiry = [mem.httpCertExpiry EXCEPT ![Key(m)] = CertExpiry(@, days)]
    BY <1>0, <2>1 DEF handleHTTPResult, Memory
  <2>3. mem'.httpCertExpiry[k] = CertExpiry(mem.httpCertExpiry[k], days)
    BY <1>0, <1>3, <2>2 DEF IsResult, Memory, Gauge
  <2>4. /\ ResultsAt("http", k)' = ResultsAt("http", k) \cup {N}
        /\ \A n \in ResultsAt("http", k) : DecodedAt(n)' = DecodedAt(n) /\ n \in Nat /\ n < N
        /\ DecodedAt(N)' = Decoded(m)
    BY <1>1, <1>3, ResultAdded
  <2>5. CASE days > 0
    <3>1. Alive(k)' = Alive(k) \cup {N} /\ Alive(k) \subseteq Nat /\ \A n \in Alive(k) : n < N
      BY <1>2, <2>4, <2>5 DEF Alive
    <3>2. DOMAIN Expiries(k)' = Alive(k) \cup {N} /\ Expiries(k)'[N] = days
      BY <2>4, <3>1 DEF Expiries
    <3> HIDE DEF days
    <3>3. ShowsLast(days, Expiries(k)')
      BY <3>1, <3>2, AddedIsLast
    <3> QED BY <2>3, <2>5, <3>3 DEF ExpiryShows, CertExpiry, ShowsLast
  <2>6. CASE ~(days > 0)
    <3>1. Alive(k)' = Alive(k) /\ \A n \in Alive(k) : DecodedAt(n)' = DecodedAt(n)
      BY <1>2, <2>4, <2>6 DEF Alive
    <3>2. Expiries(k)' = Expiries(k)
      BY <3>1 DEF Expiries
    <3> QED BY <2>3, <2>6, <3>2 DEF ExpiryShows, CertExpiry, ShowsLast
  <2> QED BY <2>5, <2>6
<1>4. CASE ~IsResult(m, "http", k)
  <2>1. mem'.httpCertExpiry[k] = mem.httpCertExpiry[k]
    BY <1>4, GaugesKept
  <2>2. ResultsAt("http", k)' = ResultsAt("http", k)
        /\ \A n \in ResultsAt("http", k) : DecodedAt(n)' = DecodedAt(n)
    BY <1>4, ResultAdded
  <2>3. Alive(k)' = Alive(k) /\ \A n \in Alive(k) : DecodedAt(n)' = DecodedAt(n)
    BY <1>2, <2>2 DEF Alive
  <2>4. Expiries(k)' = Expiries(k)
    BY <2>3 DEF Expiries
  <2> QED BY <2>1, <2>4 DEF ExpiryShows, ShowsLast
<1> QED BY <1>3, <1>4

\* A code once reported stays.
LEMMA CodesShown ==
    ASSUME OrderInv, NEW t \in Topics, Handle(t), NEW k \in Keys, CodesShow(k)
    PROVE  CodesShow(k)'
<1> DEFINE m == log[cur[t]]
           codes == UNION {DecodedAt(n).codes : n \in ResultsAt("dns", k)}
           codesNext == UNION {DecodedAt(n)'.codes : n \in ResultsAt("dns", k)'}
<1>0. m \in Messages /\ m.topic = t /\ mem \in Memory
  BY PositionAdded DEF OrderInv, ProcessorInv, TypeOK
<1>1. {code \in ResponseCodes : <<k, code>> \in mem.dnsResponseCode} = codes
  BY DEF CodesShow
<1>2. SUFFICES {code \in ResponseCodes : <<k, code>> \in mem'.dnsResponseCode} = codesNext
  BY DEF CodesShow
<1>3. CASE IsResult(m, "dns", k)
  <2>1. t = "dns" /\ handleDNSResult /\ m.form \in {"ok", "noMetrics"} /\ m.topic = "dns" /\ Key(m) = k
    BY <1>0, <1>3 DEF IsResult, Handle, HandleMalformed, HandleBadMetrics
  <2>2. mem'.dnsResponseCode = mem.dnsResponseCode \cup ({k} \X Decoded(m).codes)
    BY <1>0, <2>1 DEF handleDNSResult, Memory
  <2>3. Decoded(m).codes \subseteq ResponseCodes
    BY <1>0, <2>1, DecodedDNS
  <2>4. PICK N \in Nat : N = Len(handled) + 1
    BY ResultAdded
  <2>5. /\ ResultsAt("dns", k)' = ResultsAt("dns", k) \cup {N}
        /\ \A n \in ResultsAt("dns", k) : DecodedAt(n)' = DecodedAt(n)
        /\ DecodedAt(N)' = Decoded(m)
    BY <1>3, <2>4, ResultAdded
  <2>6. codesNext = codes \cup Decoded(m).codes
    BY <2>5
  <2> HIDE DEF codes, codesNext
  <2> QED BY <1>1, <2>2, <2>3, <2>6
<1>4. CASE ~IsResult(m, "dns", k)
  <2>1. \A code : <<k, code>> \in mem'.dnsResponseCode <=> <<k, code>> \in mem.dnsResponseCode
    BY <1>4, GaugesKept
  <2>2. ResultsAt("dns", k)' = ResultsAt("dns", k)
        /\ \A n \in ResultsAt("dns", k) : DecodedAt(n)' = DecodedAt(n)
    BY <1>4, ResultAdded
  <2>3. codesNext = codes
    BY <2>2
  <2> HIDE DEF codes, codesNext
  <2> QED BY <1>1, <2>1, <2>3
<1> QED BY <1>3, <1>4

\* Nothing handled, nothing shown.
LEMMA NothingShown ==
    ASSUME handled = <<>>, mem = New, NEW k \in Keys
    PROVE  ShowsHandled(k)
<1>1. \A topic : ResultsAt(topic, k) = {}
  BY DEF ResultsAt
<1>2. /\ DOMAIN Losses(k) = {} /\ DOMAIN Statuses(k) = {} /\ DOMAIN Reached(k) = {}
      /\ DOMAIN Expiries(k) = {}
  BY <1>1 DEF Losses, Statuses, Reached, Expiries, Alive
<1>3. /\ mem.pingPacketLoss[k] = None /\ mem.httpStatusCode[k] = None
      /\ mem.tracerouteReachable[k] = None /\ mem.httpCertExpiry[k] = None
      /\ mem.dnsResponseCode = {}
  BY DEF New
<1>4. PingShows(k) /\ StatusShows(k) /\ ReachedShows(k) /\ ExpiryShows(k)
  BY <1>2, <1>3 DEF PingShows, StatusShows, ReachedShows, ExpiryShows, ShowsLast
<1>5. CodesShow(k)
  BY <1>1, <1>3 DEF CodesShow
<1> QED BY <1>4, <1>5 DEF ShowsHandled

\* While nothing is handled and the messages stay what they are, nothing changes.
LEMMA SameShown ==
    ASSUME NEW k \in Keys, ShowsHandled(k), mem' = mem, handled' = handled,
           \A i \in HandledSet : log'[i] = log[i]
    PROVE  ShowsHandled(k)'
<1>1. \A n \in 1 .. Len(handled) : log'[handled'[n]] = log[handled[n]]
  BY DEF HandledSet
<1>2. ASSUME NEW topic PROVE ResultsAt(topic, k)' = ResultsAt(topic, k)
  BY <1>1 DEF ResultsAt
<1>3. ASSUME NEW topic, NEW n \in ResultsAt(topic, k) PROVE DecodedAt(n)' = DecodedAt(n)
  BY <1>1 DEF ResultsAt, DecodedAt
<1>4. Losses(k)' = Losses(k) /\ Statuses(k)' = Statuses(k) /\ Reached(k)' = Reached(k)
  BY <1>2, <1>3 DEF Losses, Statuses, Reached
<1>5. Expiries(k)' = Expiries(k)
  <2>1. Alive(k)' = {n \in ResultsAt("http", k)' : DecodedAt(n)'.cert > 0}
    BY DEF Alive
  <2>2. Alive(k)' = Alive(k) /\ \A n \in Alive(k) : DecodedAt(n)' = DecodedAt(n)
    BY <1>2, <1>3, <2>1 DEF Alive
  <2> QED BY <2>2 DEF Expiries
<1>6. UNION {DecodedAt(n)'.codes : n \in ResultsAt("dns", k)'} =
        UNION {DecodedAt(n).codes : n \in ResultsAt("dns", k)}
  BY <1>2, <1>3
<1>7. CodesShow(k)'
  BY <1>6 DEF CodesShow, ShowsHandled
<1> QED BY <1>4, <1>5, <1>7 DEF ShowsHandled, PingShows, StatusShows, ReachedShows, ExpiryShows,
        ShowsLast

LEMMA InitGauges == Init => GaugeInv
  BY NothingShown DEF Init, GaugeInv

LEMMA NextGauges == OrderInv /\ GaugeInv /\ [Next]_vars => GaugeInv'
<1> SUFFICES ASSUME OrderInv, GaugeInv, [Next]_vars, NEW k \in Keys PROVE ShowsHandled(k)'
  BY DEF GaugeInv
<1>0. ShowsHandled(k)
  BY DEF GaugeInv
<1>1. ASSUME Publish \/ (\E t \in Topics : Deliver(t) \/ Ack(t) \/ AckLost(t)) \/ UNCHANGED vars
      PROVE  ShowsHandled(k)'
  BY <1>0, <1>1, OtherSteps, SameShown
<1>2. ASSUME NEW t \in Topics, Handle(t) PROVE ShowsHandled(k)'
  BY <1>0, <1>2, PingShown, StatusShown, ReachedShown, ExpiryShown, CodesShown DEF ShowsHandled
<1>3. CASE Restart
  <2>1. handled' = <<>> /\ mem' = New
    BY <1>3 DEF Restart
  <2>2. \A topic : ResultsAt(topic, k)' = {}
    BY <2>1 DEF ResultsAt
  <2>3. /\ DOMAIN Losses(k)' = {} /\ DOMAIN Statuses(k)' = {} /\ DOMAIN Reached(k)' = {}
        /\ DOMAIN Expiries(k)' = {}
    BY <2>2 DEF Losses, Statuses, Reached, Expiries, Alive
  <2>4. /\ mem'.pingPacketLoss[k] = None /\ mem'.httpStatusCode[k] = None
        /\ mem'.tracerouteReachable[k] = None /\ mem'.httpCertExpiry[k] = None
        /\ mem'.dnsResponseCode = {}
    BY <2>1 DEF New
  <2>5. PingShows(k)' /\ StatusShows(k)' /\ ReachedShows(k)' /\ ExpiryShows(k)'
    BY <2>3, <2>4 DEF PingShows, StatusShows, ReachedShows, ExpiryShows, ShowsLast
  <2>6. CodesShow(k)'
    BY <2>2, <2>4 DEF CodesShow
  <2> QED BY <2>5, <2>6 DEF ShowsHandled
<1> QED BY <1>1, <1>2, <1>3 DEF Next

\* The handlers of processor.go never look at the time of a result: four gauges show
\* the last result handled, the DNS codes all of them, and a result is handled after a
\* newer one of its topic only if JetStream delivered it again.
THEOREM StaleOnlyIfAgain == Spec => []StaleOnlyAfterRedelivery
<1>1. Spec => []GaugeInv
  BY InitGauges, NextGauges, OrderInvariant, PTL DEF Spec
<1> QED BY <1>1, GaugesAndOrder, OrderInvariant, PTL

-----------------------------------------------------------------------------
(* The counters.  Redeliveries and restarts do no harm to them.            *)

Counted(t) ==
    mem.resultsProcessed[t] + mem.processingErrors[<<t, "unmarshal">>] = Cardinality(HandledAt(t))

CountInv == \A t \in Topics : Counted(t)

\* What handled says stays true while messages are published.
LEMMA SamePositions ==
    ASSUME handled' = handled, \A i \in HandledSet : log'[i] = log[i]
    PROVE  /\ \A t \in Topics : HandledAt(t)' = HandledAt(t)
           /\ \A target \in Targets : KnownAt(target)' = KnownAt(target)
           /\ \A n \in 1 .. Len(handled) : PathAt(n)' = PathAt(n)
<1>1. \A n \in 1 .. Len(handled) : log'[handled'[n]] = log[handled[n]]
  BY DEF HandledSet
<1> QED BY <1>1 DEF HandledAt, KnownAt, PathAt

LEMMA HandledAtAdded ==
    ASSUME OrderInv, NEW t \in Topics, Handle(t), NEW u \in Topics
    PROVE  /\ u # t => Cardinality(HandledAt(u)') = Cardinality(HandledAt(u))
           /\ Cardinality(HandledAt(t)') = Cardinality(HandledAt(t)) + 1
           /\ Cardinality(HandledAt(t)) \in Nat
<1> DEFINE N == Len(handled) + 1
<1>1. N \in Nat /\ N \notin 1 .. Len(handled) /\ 1 .. Len(handled') = 1 .. Len(handled) \cup {N}
  BY PositionAdded
<1>2. u # t => HandledAt(u)' = HandledAt(u)
  BY <1>1, PositionAdded DEF HandledAt
<1>3. HandledAt(t)' = HandledAt(t) \cup {N} /\ N \notin HandledAt(t)
  BY <1>1, PositionAdded DEF HandledAt
<1>4. IsFiniteSet(1 .. Len(handled)) /\ HandledAt(t) \subseteq 1 .. Len(handled)
  BY PositionAdded, FS_Interval DEF HandledAt
<1>5. IsFiniteSet(HandledAt(t))
  BY <1>4, FS_Subset
<1> QED BY <1>2, <1>3, <1>5, FS_AddElement, FS_CardinalityType

\* Each handler counts its message once.
LEMMA HandlerCounts ==
    ASSUME OrderInv, NEW t \in Topics, Handle(t), NEW u \in Topics
    PROVE  LET total(m) == m.resultsProcessed[u] + m.processingErrors[<<u, "unmarshal">>]
           IN  total(mem') = IF u = t THEN total(mem) + 1 ELSE total(mem)
<1> DEFINE counted == [mem.resultsProcessed EXCEPT ![t] = @ + 1]
<1>0. mem \in Memory
  BY DEF OrderInv, ProcessorInv, TypeOK
<1>1. /\ mem.resultsProcessed \in [Topics -> Nat]
      /\ mem.processingErrors \in [Topics \X ErrorTypes -> Nat]
      /\ <<u, "unmarshal">> \in Topics \X ErrorTypes
  BY <1>0 DEF Memory, ErrorTypes
<1>2. CASE HandleMalformed(t)
  <2>1. /\ mem'.resultsProcessed = mem.resultsProcessed
        /\ mem'.processingErrors = [mem.processingErrors EXCEPT ![<<t, "unmarshal">>] = @ + 1]
    BY <1>0, <1>2 DEF HandleMalformed, Memory
  <2> QED BY <1>1, <2>1
<1>3. CASE HandleBadMetrics(t)
  <2>1. /\ mem'.resultsProcessed = counted
        /\ mem'.processingErrors =
                [mem.processingErrors EXCEPT ![<<t, "metrics_unmarshal">>] = @ + 1]
    BY <1>0, <1>3 DEF HandleBadMetrics, Memory
  <2> QED BY <1>1, <2>1
<1>4. CASE ~HandleMalformed(t) /\ ~HandleBadMetrics(t)
  <2>1. mem'.resultsProcessed = counted /\ mem'.processingErrors = mem.processingErrors
    <3>1. CASE t = "ping" /\ handlePingResult
      BY <1>0, <3>1 DEF handlePingResult, Memory
    <3>2. CASE t = "dns" /\ handleDNSResult
      BY <1>0, <3>2 DEF handleDNSResult, Memory
    <3>3. CASE t = "http" /\ handleHTTPResult
      BY <1>0, <3>3 DEF handleHTTPResult, Memory
    <3>4. CASE t = "traceroute" /\ handleTracerouteResult
      BY <1>0, <3>4 DEF handleTracerouteResult, Memory
    <3> QED BY <1>4, <3>1, <3>2, <3>3, <3>4 DEF Handle
  <2> QED BY <1>1, <2>1
<1> QED BY <1>2, <1>3, <1>4

LEMMA InitCounts == Init => CountInv
<1> SUFFICES ASSUME Init, NEW t \in Topics PROVE Counted(t)
  BY DEF CountInv
<1>1. mem = New /\ HandledAt(t) = {} /\ <<t, "unmarshal">> \in Topics \X ErrorTypes
  BY DEF Init, HandledAt, ErrorTypes
<1>2. mem.resultsProcessed[t] = 0 /\ mem.processingErrors[<<t, "unmarshal">>] = 0
  BY <1>1 DEF New
<1> QED BY <1>1, <1>2, FS_EmptySet DEF Counted

LEMMA NextCounts == OrderInv /\ CountInv /\ [Next]_vars => CountInv'
<1> SUFFICES ASSUME OrderInv, CountInv, [Next]_vars, NEW u \in Topics PROVE Counted(u)'
  BY DEF CountInv
<1>0. Counted(u)
  BY DEF CountInv
<1>1. ASSUME Publish \/ (\E t \in Topics : Deliver(t) \/ Ack(t) \/ AckLost(t)) \/ UNCHANGED vars
      PROVE  Counted(u)'
  <2>1. mem' = mem /\ HandledAt(u)' = HandledAt(u)
    BY <1>1, OtherSteps, SamePositions
  <2> QED BY <1>0, <2>1 DEF Counted
<1>2. ASSUME NEW t \in Topics, Handle(t) PROVE Counted(u)'
  <2> DEFINE total(m) == m.resultsProcessed[u] + m.processingErrors[<<u, "unmarshal">>]
  <2>1. total(mem') = IF u = t THEN total(mem) + 1 ELSE total(mem)
    BY <1>2, HandlerCounts
  <2>2. Cardinality(HandledAt(u)') =
            IF u = t THEN Cardinality(HandledAt(u)) + 1 ELSE Cardinality(HandledAt(u))
    BY <1>2, HandledAtAdded
  <2> QED BY <1>0, <2>1, <2>2 DEF Counted
<1>3. CASE Restart
  <2>1. mem' = New /\ handled' = <<>>
    BY <1>3 DEF Restart
  <2>2. HandledAt(u)' = {} /\ <<u, "unmarshal">> \in Topics \X ErrorTypes
    BY <2>1 DEF HandledAt, ErrorTypes
  <2>3. mem'.resultsProcessed[u] = 0 /\ mem'.processingErrors[<<u, "unmarshal">>] = 0
    BY <2>1, <2>2 DEF New
  <2> QED BY <2>2, <2>3, FS_EmptySet DEF Counted
<1> QED BY <1>1, <1>2, <1>3 DEF Next

\* Each handled message is counted as a result or as an unreadable message, never as
\* both and never twice, whatever its form: no handler returns before it has counted.
THEOREM CountersPartition == Spec => []CountersAddUp
<1>1. CountInv => CountersAddUp
  BY DEF CountInv, Counted, CountersAddUp
<1>2. Spec => []CountInv
  BY InitCounts, NextCounts, OrderInvariant, PTL DEF Spec
<1> QED BY <1>1, <1>2, PTL

-----------------------------------------------------------------------------
(* The path changes.                                                       *)

\* Writing a path out loses nothing of it, and only the empty one becomes "".
LEMMA PathStringInjective ==
    ASSUME NEW p \in Seq(Int), NEW q \in Seq(Int)
    PROVE  /\ asPathString(p) = asPathString(q) => p = q
           /\ asPathString(p) = <<>> <=> p = <<>>
<1>1. /\ DOMAIN asPathString(p) = 1 .. 2 * Len(p) - 1 /\ DOMAIN asPathString(q) = 1 .. 2 * Len(q) - 1
      /\ Len(p) \in Nat /\ Len(q) \in Nat
  BY DEF asPathString
<1>2. ASSUME NEW i \in 1 .. Len(p) PROVE asPathString(p)[2 * i - 1] = p[i]
  <2>1. 2 * i - 1 \in 1 .. 2 * Len(p) - 1 /\ (2 * i - 1) % 2 = 1 /\ ((2 * i - 1) + 1) \div 2 = i
    BY <1>1
  <2> QED BY <2>1 DEF asPathString
<1>3. ASSUME NEW i \in 1 .. Len(q) PROVE asPathString(q)[2 * i - 1] = q[i]
  <2>1. 2 * i - 1 \in 1 .. 2 * Len(q) - 1 /\ (2 * i - 1) % 2 = 1 /\ ((2 * i - 1) + 1) \div 2 = i
    BY <1>1
  <2> QED BY <2>1 DEF asPathString
<1>4. ASSUME asPathString(p) = asPathString(q) PROVE p = q
  <2>1. 1 .. 2 * Len(p) - 1 = 1 .. 2 * Len(q) - 1
    BY <1>1, <1>4
  <2>2. Len(p) > 0 => 2 * Len(p) - 1 \in 1 .. 2 * Len(q) - 1
    BY <1>1, <2>1
  <2>3. Len(q) > 0 => 2 * Len(q) - 1 \in 1 .. 2 * Len(p) - 1
    BY <1>1, <2>1
  <2>4. Len(p) = Len(q)
    BY <1>1, <2>2, <2>3
  <2>5. \A i \in 1 .. Len(p) : p[i] = q[i]
    BY <1>2, <1>3, <1>4, <2>4
  <2> QED BY <2>4, <2>5
<1>5. asPathString(p) = <<>> => p = <<>>
  <2> SUFFICES ASSUME asPathString(p) = <<>> PROVE p = <<>>
    OBVIOUS
  <2>1. 1 .. 2 * Len(p) - 1 = {}
    BY <1>1
  <2>2. Len(p) > 0 => 1 .. 2 * Len(p) - 1 # {}
    <3>1. Len(p) > 0 => 1 \in 1 .. 2 * Len(p) - 1
      BY <1>1
    <3> QED BY <3>1
  <2>3. Len(p) = 0
    BY <1>1, <2>1, <2>2
  <2>4. <<>> \in Seq(Int) /\ Len(<<>>) = 0 /\ \A i \in 1 .. Len(p) : p[i] = <<>>[i]
    BY <2>3
  <2> QED BY <2>3, <2>4
<1>6. p = <<>> => asPathString(p) = <<>>
  BY DEF asPathString
<1> QED BY <1>4, <1>5, <1>6

IsKnown(m, target) ==
    m.topic = "traceroute" /\ m.form = "ok" /\ m.target = target /\ m.metrics.path # <<>>

\* The path remembered for a target is the last known one handled.
RemembersLast(target) ==
    /\ KnownAt(target) = {} => mem.lastASPaths[target] = <<>>
    /\ KnownAt(target) # {} =>
        \E n \in KnownAt(target) :
            /\ IsLastOf(n, KnownAt(target))
            /\ mem.lastASPaths[target] = asPathString(PathAt(n))

ChangesCounted(target) == mem.traceroutePathChange[target] = Cardinality(ChangesAt(target))

PathInv == \A target \in Targets : RemembersLast(target) /\ ChangesCounted(target)

\* A known path is a sequence of numbers.
LEMMA KnownPaths ==
    ASSUME OrderInv, NEW target
    PROVE  /\ \A n \in KnownAt(target) : PathAt(n) \in Seq(Int) /\ PathAt(n) # <<>>
           /\ KnownAt(target) \subseteq 1 .. Len(handled) /\ Len(handled) \in Nat
<1>1. KnownAt(target) \subseteq 1 .. Len(handled) /\ Len(handled) \in Nat
  BY DEF KnownAt, OrderInv, HandledOK
<1>2. ASSUME NEW n \in KnownAt(target) PROVE PathAt(n) \in Seq(Int) /\ PathAt(n) # <<>>
  <2>1. handled[n] \in HandledSet
    BY <1>1 DEF HandledSet
  <2>2. log[handled[n]] \in Messages
    <3>1. handled[n] \in delivered
      BY <2>1 DEF OrderInv, HandledOK
    <3>2. delivered \subseteq 1 .. Len(log) /\ log \in Seq(Messages)
      BY DEF OrderInv, ProcessorInv, TypeOK
    <3>3. \A i \in delivered : log[i] \in Messages
      BY <3>2
    <3> QED BY <3>1, <3>3
  <2>3. IsKnown(log[handled[n]], target)
    BY DEF KnownAt, IsKnown
  <2>4. log[handled[n]].metrics \in Metrics("traceroute")
    BY <2>2, <2>3, MessageFields DEF IsKnown
  <2> QED BY <2>3, <2>4, ProcessorAssumption DEF PathAt, IsKnown, Metrics
<1> QED BY <1>1, <1>2

LEMMA KnownAdded ==
    ASSUME OrderInv, NEW t \in Topics, Handle(t), NEW target
    PROVE  /\ KnownAt(target)' = KnownAt(target) \cup
                (IF IsKnown(log[cur[t]], target) THEN {Len(handled) + 1} ELSE {})
           /\ \A n \in 1 .. Len(handled) : PathAt(n)' = PathAt(n)
           /\ \A n : n = Len(handled) + 1 => PathAt(n)' = log[cur[t]].metrics.path
<1> DEFINE N == Len(handled) + 1
<1>1. N \in Nat /\ 1 .. Len(handled') = 1 .. Len(handled) \cup {N} /\ N \notin 1 .. Len(handled)
  BY PositionAdded
<1>2. KnownAt(target)' = {n \in 1 .. Len(handled') : IsKnown(log'[handled'[n]], target)}
  BY DEF KnownAt, IsKnown
<1>3. KnownAt(target) = {n \in 1 .. Len(handled) : IsKnown(log[handled[n]], target)}
  BY DEF KnownAt, IsKnown
<1>4. \A n \in 1 .. Len(handled) : log'[handled'[n]] = log[handled[n]]
  BY PositionAdded
<1>5. log'[handled'[N]] = log[cur[t]]
  BY PositionAdded
<1>6. KnownAt(target)' = KnownAt(target) \cup
            (IF IsKnown(log[cur[t]], target) THEN {N} ELSE {})
  <2> HIDE DEF N
  <2>1. CASE IsKnown(log[cur[t]], target)
    BY <1>1, <1>2, <1>3, <1>4, <1>5, <2>1
  <2>2. CASE ~IsKnown(log[cur[t]], target)
    BY <1>1, <1>2, <1>3, <1>4, <1>5, <2>2
  <2> QED BY <2>1, <2>2
<1>7. \A n \in 1 .. Len(handled) : PathAt(n)' = PathAt(n)
  BY <1>4 DEF PathAt
<1>8. \A n : n = N => PathAt(n)' = log[cur[t]].metrics.path
  BY <1>5 DEF PathAt
<1> QED BY <1>6, <1>7, <1>8

\* A message without a known path of the target leaves its two fields alone.
LEMMA UnknownKept ==
    ASSUME OrderInv, NEW t \in Topics, Handle(t), NEW target \in Targets,
           ~IsKnown(log[cur[t]], target)
    PROVE  /\ mem'.lastASPaths[target] = mem.lastASPaths[target]
           /\ mem'.traceroutePathChange[target] = mem.traceroutePathChange[target]
<1> DEFINE m == log[cur[t]]
<1>0. mem \in Memory /\ mem.lastASPaths \in [Targets -> PathStrings]
      /\ mem.traceroutePathChange \in [Targets -> Nat]
  BY DEF OrderInv, ProcessorInv, TypeOK, Memory
<1>1. CASE HandleMalformed(t)
  BY <1>0, <1>1 DEF HandleMalformed, Memory
<1>2. CASE HandleBadMetrics(t)
  BY <1>0, <1>2 DEF HandleBadMetrics, Memory
<1>3. CASE t = "ping" /\ handlePingResult
  BY <1>0, <1>3 DEF handlePingResult, Memory
<1>4. CASE t = "dns" /\ handleDNSResult
  BY <1>0, <1>4 DEF handleDNSResult, Memory
<1>5. CASE t = "http" /\ handleHTTPResult
  BY <1>0, <1>5 DEF handleHTTPResult, Memory
<1>6. CASE t = "traceroute" /\ handleTracerouteResult
  <2> DEFINE current == asPathString(Decoded(m).path)
             last == mem.lastASPaths[m.target]
  <2>1. /\ mem'.traceroutePathChange = [mem.traceroutePathChange EXCEPT
                ![m.target] = IF PathChanged(last, current) THEN @ + 1 ELSE @]
        /\ mem'.lastASPaths = [mem.lastASPaths EXCEPT ![m.target] = Remembered(last, current)]
    BY <1>0, <1>6 DEF handleTracerouteResult, Memory
  <2>2. m.topic = "traceroute" /\ m.form \in {"ok", "noMetrics"}
    BY <1>6, PositionAdded DEF handleTracerouteResult, Decodes
  <2>3. CASE m.target = target
    <3>1. Decoded(m).path = <<>>
      BY <2>2, <2>3 DEF IsKnown, Decoded, ZeroMetrics
    <3>2. current = <<>>
      BY <3>1 DEF asPathString
    <3> QED BY <1>0, <2>1, <2>3, <3>2 DEF PathChanged, Remembered
  <2>4. CASE m.target # target
    BY <1>0, <2>1, <2>4
  <2> QED BY <2>3, <2>4
<1> QED BY <1>1, <1>2, <1>3, <1>4, <1>5, <1>6 DEF Handle

\* One with a known path is compared with what is remembered, and remembered.
LEMMA KnownRemembered ==
    ASSUME OrderInv, NEW t \in Topics, Handle(t), NEW target \in Targets,
           IsKnown(log[cur[t]], target)
    PROVE  LET path == log[cur[t]].metrics.path
               last == mem.lastASPaths[target]
           IN  /\ path \in Seq(Int) /\ path # <<>>
               /\ mem'.lastASPaths[target] = asPathString(path)
               /\ mem'.traceroutePathChange[target] =
                    IF last # <<>> /\ last # asPathString(path)
                    THEN mem.traceroutePathChange[target] + 1
                    ELSE mem.traceroutePathChange[target]
<1> DEFINE m == log[cur[t]]
           path == m.metrics.path
           current == asPathString(path)
           last == mem.lastASPaths[target]
<1>0. mem \in Memory /\ mem.lastASPaths \in [Targets -> PathStrings]
      /\ mem.traceroutePathChange \in [Targets -> Nat]
  BY DEF OrderInv, ProcessorInv, TypeOK, Memory
<1>1. m \in Messages /\ m.topic = t /\ t = "traceroute" /\ m.form = "ok" /\ m.target = target
  BY PositionAdded DEF IsKnown
<1>2. path \in Seq(Int) /\ path # <<>>
  <2>1. m.metrics \in Metrics("traceroute")
    BY <1>1, MessageFields
  <2> QED BY <2>1, ProcessorAssumption DEF Metrics, IsKnown
<1>3. handleTracerouteResult
  BY <1>1 DEF Handle, HandleMalformed, HandleBadMetrics
<1>4. Decoded(m) = m.metrics
  BY <1>1 DEF Decoded
<1>5. /\ mem'.traceroutePathChange = [mem.traceroutePathChange EXCEPT
            ![target] = IF PathChanged(last, current) THEN @ + 1 ELSE @]
      /\ mem'.lastASPaths = [mem.lastASPaths EXCEPT ![target] = Remembered(last, current)]
  BY <1>0, <1>1, <1>3, <1>4 DEF handleTracerouteResult, Memory
<1>6. current # <<>>
  BY <1>2, PathStringInjective
<1> HIDE DEF current, last
<1>7. /\ mem'.lastASPaths[target] = current
      /\ mem'.traceroutePathChange[target] =
            IF last # <<>> /\ last # current
            THEN mem.traceroutePathChange[target] + 1 ELSE mem.traceroutePathChange[target]
  BY <1>0, <1>5, <1>6 DEF PathChanged, Remembered
<1> QED BY <1>2, <1>7 DEF current, last

\* Without a new known path neither the positions nor the fields change.
LEMMA UnknownStep ==
    ASSUME OrderInv, NEW t \in Topics, Handle(t), NEW target \in Targets,
           RemembersLast(target), ChangesCounted(target), ~IsKnown(log[cur[t]], target)
    PROVE  RemembersLast(target)' /\ ChangesCounted(target)'
<1>1. KnownAt(target)' = KnownAt(target) /\ \A n \in KnownAt(target) : PathAt(n)' = PathAt(n)
  BY KnownAdded, KnownPaths
<1>2. /\ mem'.lastASPaths[target] = mem.lastASPaths[target]
      /\ mem'.traceroutePathChange[target] = mem.traceroutePathChange[target]
  BY UnknownKept
<1>3. RemembersLast(target)'
  BY <1>1, <1>2 DEF RemembersLast, IsLastOf
<1>4. ChangesAt(target)' = ChangesAt(target)
  BY <1>1 DEF ChangesAt, IsLastOf
<1>5. ChangesCounted(target)'
  BY <1>2, <1>4 DEF ChangesCounted
<1> QED BY <1>3, <1>5

\* A new known path is the last, and a change if the one before it differs.
LEMMA KnownStep ==
    ASSUME OrderInv, NEW t \in Topics, Handle(t), NEW target \in Targets,
           RemembersLast(target), ChangesCounted(target), IsKnown(log[cur[t]], target)
    PROVE  RemembersLast(target)' /\ ChangesCounted(target)'
<1> DEFINE path == log[cur[t]].metrics.path
           last == mem.lastASPaths[target]
<1>1. PICK N \in Nat : N = Len(handled) + 1
  BY KnownPaths
<1>2. /\ KnownAt(target)' = KnownAt(target) \cup {N}
      /\ \A n \in KnownAt(target) : PathAt(n)' = PathAt(n) /\ n \in Nat /\ n < N
      /\ PathAt(N)' = path
  BY <1>1, KnownAdded, KnownPaths
<1>3. /\ path \in Seq(Int) /\ path # <<>> /\ mem'.lastASPaths[target] = asPathString(path)
      /\ mem'.traceroutePathChange[target] =
            IF last # <<>> /\ last # asPathString(path)
            THEN mem.traceroutePathChange[target] + 1 ELSE mem.traceroutePathChange[target]
  BY KnownRemembered
<1>4. RemembersLast(target)'
  <2>1. IsLastOf(N, KnownAt(target)')
    BY <1>2 DEF IsLastOf
  <2>2. \E n \in KnownAt(target)' :
            IsLastOf(n, KnownAt(target)') /\ mem'.lastASPaths[target] = asPathString(PathAt(n)')
    BY <1>2, <1>3, <2>1
  <2>3. KnownAt(target)' # {}
    BY <1>2
  <2> QED BY <2>2, <2>3 DEF RemembersLast, IsLastOf
<1> DEFINE changed == \E p \in KnownAt(target) : IsLastOf(p, KnownAt(target)) /\ PathAt(p) # path
<1>5. changed <=> last # <<>> /\ last # asPathString(path)
  <2>1. CASE KnownAt(target) = {}
    BY <2>1 DEF RemembersLast
  <2>2. CASE KnownAt(target) # {}
    <3>1. PICK n \in KnownAt(target) :
              IsLastOf(n, KnownAt(target)) /\ last = asPathString(PathAt(n))
      BY <2>2 DEF RemembersLast
    <3>2. \A p \in KnownAt(target) : IsLastOf(p, KnownAt(target)) => p = n
      BY <1>2, <3>1 DEF IsLastOf
    <3>3. PathAt(n) \in Seq(Int) /\ PathAt(n) # <<>>
      BY KnownPaths
    <3>4. last # <<>>
      BY <3>1, <3>3, PathStringInjective
    <3>5. last = asPathString(path) <=> PathAt(n) = path
      BY <1>3, <3>1, <3>3, PathStringInjective
    <3> QED BY <3>1, <3>2, <3>4, <3>5
  <2> QED BY <2>1, <2>2
<1>6. ChangesAt(target)' = ChangesAt(target) \cup (IF changed THEN {N} ELSE {})
  <2>1. \A n \in KnownAt(target) :
            {q \in KnownAt(target)' : q < n} = {q \in KnownAt(target) : q < n}
    BY <1>2
  <2>2. {q \in KnownAt(target)' : q < N} = KnownAt(target)
    BY <1>2
  <2>3. ChangesAt(target)' =
            {n \in KnownAt(target)' :
                \E p \in KnownAt(target)' :
                    IsLastOf(p, {q \in KnownAt(target)' : q < n}) /\ PathAt(p)' # PathAt(n)'}
    BY DEF ChangesAt, IsLastOf
  <2>4. ASSUME NEW n \in KnownAt(target) PROVE n \in ChangesAt(target)' <=> n \in ChangesAt(target)
    <3>1. \A p \in KnownAt(target)' :
            IsLastOf(p, {q \in KnownAt(target)' : q < n}) =>
                p \in KnownAt(target) /\ PathAt(p)' = PathAt(p)
      BY <1>2, <2>1 DEF IsLastOf
    <3>2. n \in KnownAt(target)' /\ PathAt(n)' = PathAt(n)
      BY <1>2
    <3> QED BY <1>2, <2>1, <2>3, <3>1, <3>2 DEF ChangesAt
  <2>5. N \in ChangesAt(target)' <=> changed
    <3>1. \A p \in KnownAt(target)' : IsLastOf(p, KnownAt(target)) =>
                p \in KnownAt(target) /\ PathAt(p)' = PathAt(p)
      BY <1>2 DEF IsLastOf
    <3>2. N \in KnownAt(target)'
      BY <1>2
    <3> QED BY <1>2, <2>2, <2>3, <3>1, <3>2
  <2>6. ChangesAt(target)' \subseteq KnownAt(target) \cup {N} /\ ChangesAt(target) \subseteq KnownAt(target)
    BY <1>2, <2>3 DEF ChangesAt
  <2>7. N \notin KnownAt(target)
    BY <1>2
  <2> QED BY <2>4, <2>5, <2>6, <2>7
<1>7. N \notin ChangesAt(target) /\ IsFiniteSet(ChangesAt(target))
  <2>1. ChangesAt(target) \subseteq KnownAt(target)
    BY DEF ChangesAt
  <2>2. IsFiniteSet(1 .. Len(handled)) /\ ChangesAt(target) \subseteq 1 .. Len(handled)
    <3>1. Len(handled) \in Nat /\ ChangesAt(target) \subseteq 1 .. Len(handled)
      BY <2>1, KnownPaths
    <3> QED BY <3>1, FS_Interval
  <2>3. IsFiniteSet(ChangesAt(target))
    BY <2>2, FS_Subset
  <2>4. N \notin ChangesAt(target)
    BY <1>2, <2>1
  <2> QED BY <2>3, <2>4
<1>8. ChangesCounted(target)'
  <2> HIDE DEF changed, last
  <2>1. CASE changed
    <3>1. Cardinality(ChangesAt(target)') = Cardinality(ChangesAt(target)) + 1
      BY <1>6, <1>7, <2>1, FS_AddElement
    <3> QED BY <1>3, <1>5, <2>1, <3>1 DEF ChangesCounted
  <2>2. CASE ~changed
    <3>1. ChangesAt(target)' = ChangesAt(target)
      BY <1>6, <2>2
    <3> QED BY <1>3, <1>5, <2>2, <3>1 DEF ChangesCounted
  <2> QED BY <2>1, <2>2
<1> QED BY <1>4, <1>8

LEMMA NothingKnown ==
    ASSUME handled = <<>>, mem = New, NEW target \in Targets
    PROVE  RemembersLast(target) /\ ChangesCounted(target)
<1>1. KnownAt(target) = {}
  BY DEF KnownAt
<1>2. ChangesAt(target) = {}
  BY <1>1 DEF ChangesAt
<1>3. mem.lastASPaths[target] = <<>> /\ mem.traceroutePathChange[target] = 0
  BY DEF New
<1> QED BY <1>1, <1>2, <1>3, FS_EmptySet DEF RemembersLast, ChangesCounted

LEMMA InitPaths == Init => PathInv
  BY NothingKnown DEF Init, PathInv

LEMMA NextPaths == OrderInv /\ PathInv /\ [Next]_vars => PathInv'
<1> SUFFICES ASSUME OrderInv, PathInv, [Next]_vars, NEW target \in Targets
             PROVE  RemembersLast(target)' /\ ChangesCounted(target)'
  BY DEF PathInv
<1>0. RemembersLast(target) /\ ChangesCounted(target)
  BY DEF PathInv
<1>1. ASSUME Publish \/ (\E t \in Topics : Deliver(t) \/ Ack(t) \/ AckLost(t)) \/ UNCHANGED vars
      PROVE  RemembersLast(target)' /\ ChangesCounted(target)'
  <2>0. mem' = mem /\ handled' = handled /\ \A i \in HandledSet : log'[i] = log[i]
    BY <1>1, OtherSteps
  <2>1. mem' = mem /\ KnownAt(target)' = KnownAt(target)
        /\ \A n \in KnownAt(target) : PathAt(n)' = PathAt(n)
    BY <2>0, SamePositions, KnownPaths
  <2>2. ChangesAt(target)' = ChangesAt(target)
    BY <2>1 DEF ChangesAt, IsLastOf
  <2> QED BY <1>0, <2>1, <2>2 DEF RemembersLast, ChangesCounted, IsLastOf
<1>2. ASSUME NEW t \in Topics, Handle(t)
      PROVE  RemembersLast(target)' /\ ChangesCounted(target)'
  BY <1>0, <1>2, KnownStep, UnknownStep
<1>3. CASE Restart
  <2>1. handled' = <<>> /\ mem' = New
    BY <1>3 DEF Restart
  <2>2. KnownAt(target)' = {}
    BY <2>1 DEF KnownAt
  <2>3. ChangesAt(target)' = {}
    BY <2>2 DEF ChangesAt
  <2>4. mem'.lastASPaths[target] = <<>> /\ mem'.traceroutePathChange[target] = 0
    BY <2>1 DEF New
  <2> QED BY <2>2, <2>3, <2>4, FS_EmptySet DEF RemembersLast, ChangesCounted
<1> QED BY <1>1, <1>2, <1>3 DEF Next

\* handleTracerouteResult counts a change exactly where two consecutive known paths
\* of a target differ: it compares strings, which loses nothing, and the results
\* without a path in between are neither remembered nor compared.
THEOREM ChangesExact == Spec => []PathChangesExact
<1>1. PathInv => PathChangesExact
  BY DEF PathInv, ChangesCounted, PathChangesExact
<1>2. Spec => []PathInv
  BY InitPaths, NextPaths, OrderInvariant, PTL DEF Spec
<1> QED BY <1>1, <1>2, PTL
=============================================================================
