------------------------------ MODULE PathFeed ------------------------------
(***************************************************************************)
(* The feed of BGP paths from the analyzer (publisher.py) through          *)
(* netvantage.bgp.paths to the correlation engine (HandleBGPUpdate).       *)
(*                                                                         *)
(* One side is Python and the other Go, and what crosses is JSON.  A       *)
(* message is modelled by its contents and by the JSON kind of each of its *)
(* fields: json.Unmarshal fails on a field of another kind than the Go     *)
(* struct declares, and a message that fails is logged and acknowledged.   *)
(***************************************************************************)
EXTENDS Naturals, Sequences

CONSTANTS
    Prefixes,
    Paths,
    None,
    MaxMsgs     \* bound: messages published

\* json.dumps of the two dictionaries; time.time() is a number.
Withdrawal ==
    [prefix |-> "string", peer_asn |-> "number", collector |-> "string",
     event_type |-> "string", timestamp |-> "number"]

Announcement ==
    [prefix |-> "string", origin_asn |-> "number", as_path |-> "array",
     peer_asn |-> "number", collector |-> "string", event_type |-> "string",
     timestamp |-> "number"]

\* The struct's fields.
BGPUpdate ==
    [prefix |-> "string", origin_asn |-> "number", as_path |-> "array",
     peer_asn |-> "number", collector |-> "string", event_type |-> "string",
     timestamp |-> "string"]

Unmarshals(json) ==
    \A field \in DOMAIN json \cap DOMAIN BGPUpdate : json[field] = BGPUpdate[field]

VARIABLES
    published,  \* path last published per prefix, None after a withdrawal
    stream,     \* messages not yet handled
    sent,       \* number of messages published
    bgpPaths    \* the engine's path per prefix

vars == <<published, stream, sent, bgpPaths>>

Init ==
    /\ published = [p \in Prefixes |-> None]
    /\ stream = <<>>
    /\ sent = 0
    /\ bgpPaths = [p \in Prefixes |-> None]

Publish(p, path, json) ==
    /\ sent < MaxMsgs
    /\ sent' = sent + 1
    /\ published' = [published EXCEPT ![p] = path]
    /\ stream' = Append(stream, [prefix |-> p, path |-> path, json |-> json])
    /\ UNCHANGED bgpPaths

publish_announcement(p, path) == Publish(p, path, Announcement)

publish_withdrawal(p) == Publish(p, None, Withdrawal)

\* A withdrawal deletes the path, an announcement replaces it.
HandleBGPUpdate ==
    LET m == Head(stream) IN
    /\ stream # <<>>
    /\ stream' = Tail(stream)
    /\ bgpPaths' = IF Unmarshals(m.json) THEN [bgpPaths EXCEPT ![m.prefix] = m.path]
                   ELSE bgpPaths
    /\ UNCHANGED <<published, sent>>

Next ==
    \/ \E p \in Prefixes :
        publish_withdrawal(p) \/ \E path \in Paths : publish_announcement(p, path)
    \/ HandleBGPUpdate

Spec == Init /\ [][Next]_vars

\* "BGPUpdate is the message format published by the BGP Analyzer": once the
\* stream is empty the engine holds what the analyzer published last.
EngineFollowsAnalyzer == stream = <<>> => bgpPaths = published
=============================================================================
