---------------------------- MODULE BGPAnalyzer ----------------------------
(***************************************************************************)
(* The stream thread of the BGP analyzer (bgp-analyzer/, Python).          *)
(*                                                                         *)
(* The main thread takes one element of the BGP stream at a time, records  *)
(* it in PrefixState, runs the detectors, asks Routinator for the RPKI     *)
(* status and publishes the update to NATS through a private event loop.   *)
(* An exception in any of this ends the element, not the loop.             *)
(*                                                                         *)
(* SIGINT and SIGTERM are handled by the same thread between any two of    *)
(* its steps: the handler calls stop(), and what stop() raises is raised   *)
(* where the thread was interrupted.                                       *)
(***************************************************************************)
EXTENDS Prefix, BGPAttributes

CONSTANTS
    Monitored,        \* configured prefixes
    Announced,        \* prefixes seen on the stream
    expected_origins, \* configured origin of a monitored prefix, or None
    Peers,
    RawPaths,         \* as-path attributes seen on the stream
    None,
    MaxElems,         \* bound: elements processed
    MaxSignals        \* bound: signals received

Paths == {parse_as_path(raw) : raw \in RawPaths}

Origins == {origin_asn(path) : path \in Paths}

Pairs == Announced \X Peers

EventType == {"announcement", "withdrawal", "origin_change", "path_change",
              "hijack", "rpki_invalid"}
HijackType == {"origin", "moas", "sub_prefix"}
RPKIStatus == {"valid", "invalid", "not-found"}

\* What the stream yields: announcements, withdrawals, elements without a prefix
\* and elements that cannot be parsed.
Element ==
    [type : {"A"}, prefix : Announced, peer : Peers, path : Paths]
    \cup [type : {"W"}, prefix : Announced, peer : Peers]
    \cup [type : {"other", "bad"}]

ASSUME AnalyzerAssumption ==
    /\ expected_origins \in [Monitored -> Nat \cup {None}]
    /\ None \notin Monitored
    /\ None \notin Paths
    /\ None \notin Element
    /\ MaxElems \in Nat
    /\ MaxSignals \in Nat

VARIABLES
    matched_monitored, \* the monitored prefix found for each announced one
    announcements,     \* path last announced per prefix and peer
    active_origins,    \* origins recorded per prefix
    bgp_event_total,   \* events counted per prefix and type
    bgp_hijack_total,  \* hijacks counted per prefix and type
    bgp_rpki_status,   \* the status gauges that are 1
    bgp_stream_errors, \* elements that ended with an exception
    pc,                \* where the stream thread is
    elem,              \* the element it processes
    processed,         \* elements taken from the stream
    natsUp,            \* NATS answers (environment)
    connected,         \* SyncBGPPathPublisher._connected
    loop,              \* its event loop
    lastSent,          \* last update published per prefix and peer
    unsent,            \* prefixes and peers whose last update was dropped
    stop_event,
    signals,           \* signals received
    exitCode           \* of main, once it has returned

state == <<announcements, active_origins>>
metrics == <<bgp_event_total, bgp_hijack_total, bgp_rpki_status>>
publisher == <<connected, loop>>
stream == <<lastSent, unsent>>
stopping == <<stop_event, signals, exitCode>>
vars == <<matched_monitored, state, metrics, bgp_stream_errors, pc, elem, processed,
          natsUp, publisher, stream, stopping>>

TypeOK ==
    /\ matched_monitored \in [Announced -> Monitored \cup {None}]
    /\ announcements \in [Pairs -> Paths \cup {None}]
    /\ active_origins \in [Announced -> SUBSET Origins]
    /\ bgp_event_total \in [Announced \X EventType -> Nat]
    /\ bgp_hijack_total \in [Announced \X HijackType -> Nat]
    /\ bgp_rpki_status \in SUBSET (Announced \X Origins \X RPKIStatus)
    /\ bgp_stream_errors \in Nat
    /\ pc \in {"start", "stream", "check", "rpki", "publish", "publishing", "exited"}
    /\ elem \in Element \cup {None}
    /\ pc \in {"check", "rpki"} => elem \in Element /\ elem.type = "A"
    /\ pc \in {"publish", "publishing"} => elem \in Element /\ elem.type \in {"A", "W"}
    /\ processed \in 0 .. MaxElems
    /\ natsUp \in BOOLEAN
    /\ connected \in BOOLEAN
    /\ loop \in {"none", "open", "running", "closed"}
    /\ lastSent \in [Pairs -> Paths \cup {None}]
    /\ unsent \subseteq Pairs
    /\ stop_event \in BOOLEAN
    /\ signals \in 0 .. MaxSignals
    /\ exitCode \in {None, 0, 1}

\* A Python set is iterated in one order while it is not changed: which covering
\* prefix is found first is arbitrary, and the same for the whole run.
Init ==
    /\ matched_monitored \in
        {m \in [Announced -> Monitored \cup {None}] :
            \A p \in Announced :
                LET found == matches_any_monitored(p, Monitored)
                IN  IF found = {} THEN m[p] = None ELSE m[p] \in found}
    /\ announcements = [x \in Pairs |-> None]
    /\ active_origins = [p \in Announced |-> {}]
    /\ bgp_event_total = [x \in Announced \X EventType |-> 0]
    /\ bgp_hijack_total = [x \in Announced \X HijackType |-> 0]
    /\ bgp_rpki_status = {}
    /\ bgp_stream_errors = 0
    /\ pc = "start"
    /\ elem = None
    /\ processed = 0
    /\ natsUp \in BOOLEAN
    /\ connected = FALSE
    /\ loop = "none"
    /\ lastSent = [x \in Pairs |-> None]
    /\ unsent = {}
    /\ stop_event = FALSE
    /\ signals = 0
    /\ exitCode = None

-----------------------------------------------------------------------------
(* run: connect once, then read the stream.                                *)

\* A connection that cannot be made is logged and never tried again.
Connect ==
    /\ pc = "start"
    /\ loop' = "open"
    /\ connected' = natsUp
    /\ pc' = "stream"
    /\ UNCHANGED <<matched_monitored, state, metrics, bgp_stream_errors, elem, processed,
                   natsUp, stream, stopping>>

\* pybgpstream is missing or the stream itself raises: run ends and main fails.  A stream
\* that ends, ends main.
StreamFails ==
    /\ pc = "stream"
    /\ pc' = "exited"
    /\ exitCode' \in {0, 1}
    /\ UNCHANGED <<matched_monitored, state, metrics, bgp_stream_errors, elem, processed,
                   natsUp, publisher, stream, stop_event, signals>>

\* The stop event is looked at when the stream yields the next element.
Break ==
    /\ pc = "stream"
    /\ stop_event
    /\ pc' = "exited"
    /\ exitCode' = 0
    /\ UNCHANGED <<matched_monitored, state, metrics, bgp_stream_errors, elem, processed,
                   natsUp, publisher, stream, stop_event, signals>>

Relevant(e) == e.type \in {"A", "W"} /\ matched_monitored[e.prefix] # None

\* An element without effect: no prefix, not monitored, or not an update.
Skip(e) ==
    /\ e.type # "bad"
    /\ ~Relevant(e)
    /\ UNCHANGED <<state, metrics, bgp_stream_errors, pc, elem>>

\* A prefix or peer that cannot be parsed raises before anything is recorded.
Reject(e) ==
    /\ e.type = "bad"
    /\ bgp_stream_errors' = bgp_stream_errors + 1
    /\ UNCHANGED <<state, metrics, pc, elem>>

Count(p, events) ==
    bgp_event_total' = [x \in Announced \X EventType |->
        bgp_event_total[x] + (IF x[1] = p /\ x[2] \in events THEN 1 ELSE 0)]

\* Origins of the current announcements of a prefix.
OriginsOf(p, anns) == {origin_asn(anns[<<p, q>>]) : q \in {r \in Peers : anns[<<p, r>>] # None}}

\* The change events of _handle_announcement.
ChangeEvents(prev, path) ==
    IF prev = None THEN {}
    ELSE IF origin_asn(prev) # origin_asn(path) THEN {"origin_change"}
    ELSE IF prev # path THEN {"path_change"}
    ELSE {}

RecordAnnouncementIfNew(e) ==
    LET key == <<e.prefix, e.peer>> IN
    /\ e.type = "A"
    /\ Relevant(e)
    /\ announcements' = [announcements EXCEPT ![key] = e.path]
    /\ active_origins' = [active_origins EXCEPT
            ![e.prefix] = IF announcements[key] = None
                          THEN @ \cup {origin_asn(e.path)} ELSE @]
    /\ Count(e.prefix, {"announcement"} \cup ChangeEvents(announcements[key], e.path))
    /\ elem' = e
    /\ pc' = "check"
    /\ UNCHANGED <<bgp_hijack_total, bgp_rpki_status, bgp_stream_errors>>

\* record_announcement, then the base and change events.
RecordAnnouncement(e) ==
    LET key == <<e.prefix, e.peer>> IN
    /\ e.type = "A"
    /\ Relevant(e)
    /\ announcements' = [announcements EXCEPT ![key] = e.path]
    /\ active_origins' = [active_origins EXCEPT ![e.prefix] = @ \cup {origin_asn(e.path)}]
    /\ Count(e.prefix, {"announcement"} \cup ChangeEvents(announcements[key], e.path))
    /\ elem' = e
    /\ pc' = "check"
    /\ UNCHANGED <<bgp_hijack_total, bgp_rpki_status, bgp_stream_errors>>

\* record_withdrawal rebuilds the origins from what the other peers announce.
RecordWithdrawal(e) ==
    /\ e.type = "W"
    /\ Relevant(e)
    /\ announcements' = [announcements EXCEPT ![<<e.prefix, e.peer>>] = None]
    /\ active_origins' = [active_origins EXCEPT ![e.prefix] = OriginsOf(e.prefix, announcements')]
    /\ Count(e.prefix, {"withdrawal"})
    /\ elem' = e
    /\ pc' = "publish"
    /\ UNCHANGED <<bgp_hijack_total, bgp_rpki_status, bgp_stream_errors>>

\* _stream_loop and _process_element up to the first call that blocks.
ProcessElement ==
    /\ pc = "stream"
    /\ ~stop_event
    /\ processed < MaxElems
    /\ processed' = processed + 1
    /\ \E e \in Element :
        Skip(e) \/ Reject(e) \/ RecordAnnouncement(e) \/ RecordWithdrawal(e)
    /\ UNCHANGED <<matched_monitored, natsUp, publisher, stream, stopping>>

-----------------------------------------------------------------------------
(* The detectors.                                                          *)

Expected(p) == expected_origins[matched_monitored[p]]

\* _check_hijack: the origin is not the configured one.
Hijacked(e) == Expected(e.prefix) # None /\ origin_asn(e.path) # Expected(e.prefix)

\* _check_moas: more than one origin is recorded as active.
Multiple(origins) == \E x, y \in origins : x # y

MoasOnlyUnexpected(e) == Multiple(active_origins[e.prefix]) /\ Hijacked(e)

Moas(e) == Multiple(active_origins[e.prefix])

SubPrefixHijacked(e) ==
    /\ e.prefix # matched_monitored[e.prefix]
    /\ is_sub_prefix(matched_monitored[e.prefix], e.prefix)
    /\ Hijacked(e)

Detected(e) ==
    (IF Hijacked(e) THEN {"origin"} ELSE {})
    \cup (IF Moas(e) THEN {"moas"} ELSE {})
    \cup (IF SubPrefixHijacked(e) THEN {"sub_prefix"} ELSE {})

CheckAnnouncement ==
    /\ pc = "check"
    /\ bgp_hijack_total' = [x \in Announced \X HijackType |->
            bgp_hijack_total[x] +
                (IF x[1] = elem.prefix /\ x[2] \in Detected(elem) THEN 1 ELSE 0)]
    /\ Count(elem.prefix, IF Hijacked(elem) THEN {"hijack"} ELSE {})
    /\ pc' = "rpki"
    /\ UNCHANGED <<matched_monitored, state, bgp_rpki_status, bgp_stream_errors, elem,
                   processed, natsUp, publisher, stream, stopping>>

\* _validate_rpki with Routinator's answer; a failed query counts as not-found.
\* The gauge of the new status is set, those of other statuses are left alone.
ValidateRPKI ==
    /\ pc = "rpki"
    /\ \E status \in RPKIStatus :
        /\ bgp_rpki_status' =
            bgp_rpki_status \cup {<<elem.prefix, origin_asn(elem.path), status>>}
        /\ Count(elem.prefix, IF status = "invalid" THEN {"rpki_invalid"} ELSE {})
    /\ pc' = "publish"
    /\ UNCHANGED <<matched_monitored, state, bgp_hijack_total, bgp_stream_errors, elem,
                   processed, natsUp, publisher, stream, stopping>>

\* What the element tells of its prefix and peer.
Update(e) == IF e.type = "A" THEN e.path ELSE None

\* The broker has the update of the element ...
Sent(e) ==
    /\ lastSent' = [lastSent EXCEPT ![<<e.prefix, e.peer>>] = Update(e)]
    /\ unsent' = unsent \ {<<e.prefix, e.peer>>}

\* ... or nobody will ever send it ...
Dropped(e) ==
    /\ unsent' = unsent \cup {<<e.prefix, e.peer>>}
    /\ UNCHANGED lastSent

\* ... or the broker has it but its acknowledgement is lost.
Unconfirmed(e) ==
    /\ lastSent' = [lastSent EXCEPT ![<<e.prefix, e.peer>>] = Update(e)]
    /\ unsent' = unsent \cup {<<e.prefix, e.peer>>}

\* An answer of an unexpected shape raises; the element ends unpublished.
ValidateRPKIRaises ==
    /\ pc = "rpki"
    /\ bgp_stream_errors' = bgp_stream_errors + 1
    /\ Dropped(elem)
    /\ pc' = "stream"
    /\ UNCHANGED <<matched_monitored, state, metrics, elem, processed, natsUp, publisher,
                   stopping>>

-----------------------------------------------------------------------------
(* SyncBGPPathPublisher.                                                   *)

\* Not connected, or on a closed loop: the update is dropped and processing goes on.
PublishDropped ==
    /\ pc = "publish"
    /\ ~connected \/ loop = "closed"
    /\ Dropped(elem)
    /\ pc' = "stream"
    /\ UNCHANGED <<matched_monitored, state, metrics, bgp_stream_errors, elem, processed,
                   natsUp, publisher, stopping>>

PublishNewOnly ==
    /\ pc = "publish"
    /\ connected /\ loop = "open"
    /\ IF lastSent[<<elem.prefix, elem.peer>>] # None /\ elem.type = "A"
       THEN pc' = "stream" /\ UNCHANGED loop
       ELSE pc' = "publishing" /\ loop' = "running"
    /\ UNCHANGED <<matched_monitored, state, metrics, bgp_stream_errors, elem, processed,
                   natsUp, connected, stream, stopping>>

\* run_until_complete starts to run the publish coroutine.
PublishStarts ==
    /\ pc = "publish"
    /\ connected /\ loop = "open"
    /\ pc' = "publishing"
    /\ loop' = "running"
    /\ UNCHANGED <<matched_monitored, state, metrics, bgp_stream_errors, elem, processed,
                   natsUp, connected, stream, stopping>>

\* The broker's acknowledgement, or an exception that is logged and swallowed.
PublishEnds ==
    /\ pc = "publishing"
    /\ IF natsUp THEN Sent(elem) ELSE Dropped(elem) \/ Unconfirmed(elem)
    /\ pc' = "stream"
    /\ loop' = "open"
    /\ UNCHANGED <<matched_monitored, state, metrics, bgp_stream_errors, elem, processed,
                   natsUp, connected, stopping>>

-----------------------------------------------------------------------------
(* stop, called by the signal handler.                                     *)

\* close() runs the loop and closes it; it does nothing without a connection.
CloseRaises == connected /\ loop \in {"running", "closed"}

Signalled ==
    /\ pc # "exited"
    /\ signals < MaxSignals
    /\ signals' = signals + 1
    /\ UNCHANGED <<matched_monitored, state, metrics, elem, processed, natsUp, connected>>

StopCloses ==
    /\ Signalled
    /\ ~CloseRaises
    /\ stop_event' = TRUE
    /\ loop' = IF connected THEN "closed" ELSE loop
    /\ UNCHANGED <<bgp_stream_errors, pc, stream, exitCode>>

StopRaisesClosingFirst ==
    /\ Signalled
    /\ CloseRaises
    /\ UNCHANGED stop_event
    /\ \/ /\ pc = "publishing"
          /\ pc' = "stream"
          /\ loop' = "open"
          /\ Dropped(elem)
          /\ UNCHANGED <<bgp_stream_errors, exitCode>>
       \/ /\ pc \in {"check", "rpki", "publish"}
          /\ pc' = "stream"
          /\ bgp_stream_errors' = bgp_stream_errors + 1
          /\ Dropped(elem)
          /\ UNCHANGED <<loop, exitCode>>

\* RuntimeError in the signal handler: "already running" in the middle of a
\* publish, "loop is closed" after an earlier stop.  A publish swallows it, the
\* stream loop counts it and ends the element; between elements it ends main.
StopRaises ==
    /\ Signalled
    /\ CloseRaises
    /\ stop_event' = TRUE
    /\ \/ /\ pc = "publishing"
          /\ pc' = "stream"
          /\ loop' = "open"
          /\ Dropped(elem) \/ Unconfirmed(elem) \/ (natsUp /\ Sent(elem))
          /\ UNCHANGED <<bgp_stream_errors, exitCode>>
       \/ /\ pc \in {"check", "rpki", "publish"}
          /\ pc' = "stream"
          /\ bgp_stream_errors' = bgp_stream_errors + 1
          /\ Dropped(elem)
          /\ UNCHANGED <<loop, exitCode>>
       \/ /\ pc = "stream"
          /\ pc' = "exited"
          /\ exitCode' = 1
          /\ UNCHANGED <<bgp_stream_errors, loop, stream>>

\* The broker becomes reachable or unreachable; the client library reconnects a
\* connection that was once made.
NatsChange ==
    /\ natsUp' = ~natsUp
    /\ UNCHANGED <<matched_monitored, state, metrics, bgp_stream_errors, pc, elem, processed,
                   publisher, stream, stopping>>

Step ==
    \/ Connect \/ Break \/ CheckAnnouncement \/ ValidateRPKI
    \/ PublishDropped \/ PublishStarts \/ PublishEnds

Next ==
    \/ Step
    \/ ProcessElement
    \/ StreamFails
    \/ ValidateRPKIRaises
    \/ StopCloses \/ StopRaises
    \/ NatsChange

Spec == Init /\ [][Next]_vars

\* The thread runs, Routinator answers and the stream yields a next element for
\* Break to see.  No element, signal or change of the network has to happen.
FairSpec == Spec /\ WF_vars(Step)

-----------------------------------------------------------------------------
(* Correctness.  RecordAnnouncementIfNew, MoasOnlyUnexpected,               *)
(* PublishNewOnly and StopRaisesClosingFirst are regressions of the          *)
(* definitions after them; no specification uses them.                       *)

\* A prefix announced with two origins at once by different peers has been
\* counted as a MOAS conflict by the time the next element is read, whatever was
\* announced and withdrawn before.
MoasDetected ==
    pc = "stream" /\ ~stop_event =>
        \A p \in Announced :
            Multiple(OriginsOf(p, announcements)) => bgp_hijack_total[<<p, "moas">>] > 0

\* Between elements, what the correlation engine was last told of a prefix and peer is
\* what the analyzer holds, unless the last update of that very pair was dropped: what was
\* dropped of others, or earlier, does no harm any more.
StreamMirrorsState ==
    pc = "stream" => \A x \in Pairs \ unsent : lastSent[x] = announcements[x]

\* A signal ends the analyzer, wherever it finds the thread.
SignalEndsProcess == signals > 0 ~> pc = "exited"
=============================================================================
