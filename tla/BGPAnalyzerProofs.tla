------------------------- MODULE BGPAnalyzerProofs -------------------------
(***************************************************************************)
(* Proofs about BGPAnalyzer for any prefixes, peers and AS paths and any   *)
(* number of elements and signals.                                         *)
(***************************************************************************)
EXTENDS BGPAnalyzer, TLAPS

\* Every origin now announced for a prefix is recorded as active.  The converse
\* is not true: an origin that a peer has replaced stays active until a withdrawal.
OriginsCovered ==
    \A p \in Announced : OriginsOf(p, announcements) \subseteq active_origins[p]

\* A conflict not counted yet is that of the announcement about to be checked.
MoasOwed ==
    ~stop_event =>
        \A p \in Announced :
            Multiple(OriginsOf(p, announcements)) =>
                \/ bgp_hijack_total[<<p, "moas">>] > 0
                \/ pc = "check" /\ elem.prefix = p

\* While an element is processed the engine is one update behind, that element's, on the
\* pairs whose last update was not dropped.
SendOwed ==
    /\ pc \in {"start", "stream"} => \A x \in Pairs \ unsent : lastSent[x] = announcements[x]
    /\ pc \in {"check", "rpki", "publish", "publishing"} =>
        /\ announcements[<<elem.prefix, elem.peer>>] = Update(elem)
        /\ \A x \in Pairs \ (unsent \cup {<<elem.prefix, elem.peer>>}) :
            lastSent[x] = announcements[x]

IInv == TypeOK /\ OriginsCovered /\ MoasOwed /\ SendOwed

USE DEF state, metrics, publisher, stream, stopping

-----------------------------------------------------------------------------
(* Operators.                                                              *)

\* What the type of a stream element says about its fields.
LEMMA ElementFields ==
    ASSUME NEW e \in Element, e.type \in {"A", "W"}
    PROVE  /\ e.prefix \in Announced
           /\ e.peer \in Peers
           /\ <<e.prefix, e.peer>> \in Pairs
           /\ e.type = "A" => e.path \in Paths
           /\ Update(e) \in Paths \cup {None}
  BY DEF Element, Pairs, Update

\* origin_asn of a parsed path is one of the origins.
LEMMA OriginType ==
    ASSUME NEW path \in Paths
    PROVE  origin_asn(path) \in Origins
  BY DEF Origins

\* Origins of recorded announcements are origins.
LEMMA OriginsOfType ==
    ASSUME NEW p \in Announced, NEW anns \in [Pairs -> Paths \cup {None}]
    PROVE  OriginsOf(p, anns) \in SUBSET Origins
<1> SUFFICES ASSUME NEW q \in Peers, anns[<<p, q>>] # None
             PROVE  origin_asn(anns[<<p, q>>]) \in Origins
  BY DEF OriginsOf
<1>1. <<p, q>> \in Pairs
  BY DEF Pairs
<1>2. anns[<<p, q>>] \in Paths
  BY <1>1
<1> QED BY <1>2, OriginType

\* Counting events keeps the event counters natural numbers.
LEMMA CountType ==
    ASSUME TypeOK, NEW p, NEW events, Count(p, events)
    PROVE  bgp_event_total' \in [Announced \X EventType -> Nat]
  BY DEF TypeOK, Count

\* A new announcement adds at most its own origin.
LEMMA AnnouncedOrigins ==
    ASSUME NEW anns \in [Pairs -> Paths \cup {None}], NEW p \in Announced,
           NEW q \in Peers, NEW path \in Paths
    PROVE  OriginsOf(p, [anns EXCEPT ![<<p, q>>] = path])
                \subseteq OriginsOf(p, anns) \cup {origin_asn(path)}
<1> DEFINE new == [anns EXCEPT ![<<p, q>>] = path]
<1>1. \A s \in Peers : s # q => new[<<p, s>>] = anns[<<p, s>>]
  BY DEF Pairs
<1>2. new[<<p, q>>] = path
  BY DEF Pairs
<1> QED BY <1>1, <1>2 DEF OriginsOf

\* A withdrawal adds none.
LEMMA WithdrawnOrigins ==
    ASSUME NEW anns \in [Pairs -> Paths \cup {None}], NEW p \in Announced, NEW q \in Peers
    PROVE  OriginsOf(p, [anns EXCEPT ![<<p, q>>] = None]) \subseteq OriginsOf(p, anns)
<1> DEFINE new == [anns EXCEPT ![<<p, q>>] = None]
<1>1. \A s \in Peers : s # q => new[<<p, s>>] = anns[<<p, s>>]
  BY DEF Pairs
<1>2. new[<<p, q>>] = None
  BY DEF Pairs
<1> QED BY <1>1, <1>2 DEF OriginsOf

\* A set with two origins still has them after more are added.
LEMMA MultipleMonotone ==
    ASSUME NEW S, NEW T, S \subseteq T, Multiple(S)
    PROVE  Multiple(T)
  BY DEF Multiple

-----------------------------------------------------------------------------
(* Type correctness.                                                       *)

\* The analyzer starts well typed.
LEMMA InitType == Init => TypeOK
<1> SUFFICES ASSUME Init PROVE TypeOK
  OBVIOUS
<1>1. matched_monitored \in [Announced -> Monitored \cup {None}]
  BY DEF Init
<1>2. announcements \in [Pairs -> Paths \cup {None}] /\ lastSent \in [Pairs -> Paths \cup {None}]
  BY DEF Init
<1>3. active_origins \in [Announced -> SUBSET Origins]
  BY DEF Init
<1>4. /\ bgp_event_total \in [Announced \X EventType -> Nat]
      /\ bgp_hijack_total \in [Announced \X HijackType -> Nat]
  BY DEF Init
<1>5. processed \in 0 .. MaxElems /\ signals \in 0 .. MaxSignals
  BY AnalyzerAssumption DEF Init
<1> QED BY <1>1, <1>2, <1>3, <1>4, <1>5 DEF Init, TypeOK

\* Recording an element (_process_element) keeps types.
LEMMA ProcessType ==
    ASSUME TypeOK, ProcessElement
    PROVE  TypeOK'
<1> USE DEF TypeOK
<1>1. PICK e \in Element :
        Skip(e) \/ Reject(e) \/ RecordAnnouncement(e) \/ RecordWithdrawal(e)
  BY DEF ProcessElement
<1>2. processed' \in 0 .. MaxElems
  BY AnalyzerAssumption DEF ProcessElement
<1>3. CASE Skip(e)
  BY <1>2, <1>3 DEF Skip, ProcessElement
<1>4. CASE Reject(e)
  BY <1>2, <1>4 DEF Reject, ProcessElement
<1>5. CASE RecordAnnouncement(e)
  <2>1. e.prefix \in Announced /\ e.path \in Paths /\ <<e.prefix, e.peer>> \in Pairs
    BY <1>5, ElementFields DEF RecordAnnouncement
  <2>2. announcements' \in [Pairs -> Paths \cup {None}]
    BY <1>5, <2>1 DEF RecordAnnouncement
  <2>3. active_origins' \in [Announced -> SUBSET Origins]
    BY <1>5, <2>1, OriginType DEF RecordAnnouncement
  <2>4. bgp_event_total' \in [Announced \X EventType -> Nat]
    BY <1>5, CountType DEF RecordAnnouncement
  <2> QED BY <1>2, <1>5, <2>2, <2>3, <2>4 DEF RecordAnnouncement, ProcessElement
<1>6. CASE RecordWithdrawal(e)
  <2>1. e.prefix \in Announced /\ <<e.prefix, e.peer>> \in Pairs
    BY <1>6, ElementFields DEF RecordWithdrawal
  <2>2. announcements' \in [Pairs -> Paths \cup {None}]
    BY <1>6, <2>1 DEF RecordWithdrawal
  <2>3. OriginsOf(e.prefix, announcements') \in SUBSET Origins
    BY <2>1, <2>2, OriginsOfType
  <2>4. active_origins' \in [Announced -> SUBSET Origins]
    BY <1>6, <2>1, <2>3 DEF RecordWithdrawal
  <2>5. bgp_event_total' \in [Announced \X EventType -> Nat]
    BY <1>6, CountType DEF RecordWithdrawal
  <2> QED BY <1>2, <1>6, <2>2, <2>4, <2>5 DEF RecordWithdrawal, ProcessElement
<1> QED BY <1>1, <1>3, <1>4, <1>5, <1>6

\* A message that is published is typed, and so is what the engine was last told.
LEMMA SentType ==
    ASSUME TypeOK, pc \in {"check", "rpki", "publish", "publishing"},
           Sent(elem) \/ Dropped(elem) \/ Unconfirmed(elem)
    PROVE  lastSent' \in [Pairs -> Paths \cup {None}] /\ unsent' \subseteq Pairs
<1>1. Update(elem) \in Paths \cup {None} /\ <<elem.prefix, elem.peer>> \in Pairs
  BY ElementFields DEF TypeOK
<1> QED BY <1>1 DEF TypeOK, Sent, Dropped, Unconfirmed

\* Every step of the stream thread and of the signal handler keeps types.
LEMMA NextType == TypeOK /\ [Next]_vars => TypeOK'
<1> SUFFICES ASSUME TypeOK, [Next]_vars PROVE TypeOK'
  OBVIOUS
<1>1. CASE ProcessElement
  BY <1>1, ProcessType
<1> USE DEF TypeOK
<1>2. CASE Connect
  BY <1>2 DEF Connect
<1>3. CASE Break
  BY <1>3 DEF Break
<1>4. CASE CheckAnnouncement
  <2>1. bgp_event_total' \in [Announced \X EventType -> Nat]
    BY <1>4, CountType DEF CheckAnnouncement
  <2>2. bgp_hijack_total' \in [Announced \X HijackType -> Nat]
    BY <1>4 DEF CheckAnnouncement
  <2> QED BY <1>4, <2>1, <2>2 DEF CheckAnnouncement
<1>5. CASE ValidateRPKI
  <2>1. PICK status \in RPKIStatus :
            /\ bgp_rpki_status' =
                bgp_rpki_status \cup {<<elem.prefix, origin_asn(elem.path), status>>}
            /\ Count(elem.prefix, IF status = "invalid" THEN {"rpki_invalid"} ELSE {})
    BY <1>5 DEF ValidateRPKI
  <2>2. elem.prefix \in Announced /\ origin_asn(elem.path) \in Origins
    BY <1>5, ElementFields, OriginType DEF ValidateRPKI
  <2>3. bgp_rpki_status' \in SUBSET (Announced \X Origins \X RPKIStatus)
    BY <2>1, <2>2
  <2>4. bgp_event_total' \in [Announced \X EventType -> Nat]
    BY <2>1, CountType
  <2> QED BY <1>5, <2>3, <2>4 DEF ValidateRPKI
<1>6. CASE ValidateRPKIRaises
  <2>1. bgp_stream_errors' \in Nat
    BY <1>6 DEF ValidateRPKIRaises
  <2>2. lastSent' \in [Pairs -> Paths \cup {None}] /\ unsent' \subseteq Pairs
    BY <1>6, SentType DEF ValidateRPKIRaises
  <2> QED BY <1>6, <2>1, <2>2 DEF ValidateRPKIRaises
<1>7. CASE PublishDropped
  <2>1. lastSent' \in [Pairs -> Paths \cup {None}] /\ unsent' \subseteq Pairs
    BY <1>7, SentType DEF PublishDropped
  <2> QED BY <1>7, <2>1 DEF PublishDropped
<1>8. CASE PublishStarts
  BY <1>8 DEF PublishStarts
<1>9. CASE PublishEnds
  <2>1. lastSent' \in [Pairs -> Paths \cup {None}] /\ unsent' \subseteq Pairs
    BY <1>9, SentType DEF PublishEnds
  <2> QED BY <1>9, <2>1 DEF PublishEnds
<1>10. CASE StopCloses
  <2>1. signals' \in 0 .. MaxSignals
    BY <1>10, AnalyzerAssumption DEF StopCloses, Signalled
  <2> QED BY <1>10, <2>1 DEF StopCloses, Signalled
<1>11. CASE StopRaises
  <2>1. signals' \in 0 .. MaxSignals
    BY <1>11, AnalyzerAssumption DEF StopRaises, Signalled
  <2>2. lastSent' \in [Pairs -> Paths \cup {None}] /\ unsent' \subseteq Pairs
    BY <1>11, SentType DEF StopRaises
  <2>3. bgp_stream_errors' \in Nat
    BY <1>11 DEF StopRaises
  <2>4. pc' \in {"stream", "exited"} /\ loop' \in {"open", loop} /\ exitCode' \in {None, 0, 1}
    BY <1>11 DEF StopRaises
  <2>5. stop_event' \in BOOLEAN
    BY <1>11 DEF StopRaises
  <2> QED BY <1>11, <2>1, <2>2, <2>3, <2>4, <2>5 DEF StopRaises, Signalled
<1>12. CASE StreamFails
  BY <1>12 DEF StreamFails
<1>13. CASE NatsChange
  BY <1>13 DEF NatsChange
<1>14. CASE UNCHANGED vars
  BY <1>14 DEF vars
<1> QED BY <1>1, <1>2, <1>3, <1>4, <1>5, <1>6, <1>7, <1>8, <1>9, <1>10, <1>11, <1>12,
           <1>13, <1>14 DEF Next, Step

\* Whatever arrives and wherever it is interrupted, the stream thread keeps its
\* state well formed; in particular a detector only ever sees an announcement.
THEOREM AnalyzerTypeCorrect == Spec => []TypeOK
  BY InitType, NextType, PTL DEF Spec

-----------------------------------------------------------------------------
(* The conflicts are counted.                                              *)

\* Recording an element keeps current origins recorded, and leaves at most the
\* conflict of this element uncounted.
LEMMA ProcessOrigins ==
    ASSUME TypeOK, TypeOK', OriginsCovered, MoasOwed, ProcessElement
    PROVE  OriginsCovered' /\ MoasOwed'
<1>1. PICK e \in Element :
        Skip(e) \/ Reject(e) \/ RecordAnnouncement(e) \/ RecordWithdrawal(e)
  BY DEF ProcessElement
<1>2. pc = "stream" /\ ~stop_event /\ UNCHANGED stop_event
  BY DEF ProcessElement
<1>3. CASE Skip(e) \/ Reject(e)
  BY <1>2, <1>3 DEF Skip, Reject, OriginsCovered, MoasOwed
<1>4. CASE RecordAnnouncement(e)
  <2> DEFINE p == e.prefix
             q == e.peer
  <2>1. p \in Announced /\ q \in Peers /\ e.path \in Paths
    BY <1>4, ElementFields DEF RecordAnnouncement
  <2>2. announcements \in [Pairs -> Paths \cup {None}] /\ active_origins \in [Announced -> SUBSET Origins]
    BY DEF TypeOK
  <2>3. announcements' = [announcements EXCEPT ![<<p, q>>] = e.path]
    BY <1>4 DEF RecordAnnouncement
  <2>4. \A r \in Announced : r # p => OriginsOf(r, announcements') = OriginsOf(r, announcements)
    <3> SUFFICES ASSUME NEW r \in Announced, r # p
                 PROVE  OriginsOf(r, announcements') = OriginsOf(r, announcements)
      OBVIOUS
    <3>1. \A x \in Peers : announcements'[<<r, x>>] = announcements[<<r, x>>]
      BY <2>1, <2>2, <2>3 DEF Pairs
    <3> QED BY <3>1 DEF OriginsOf
  <2>5. OriginsOf(p, announcements') \subseteq OriginsOf(p, announcements) \cup {origin_asn(e.path)}
    BY <2>1, <2>2, <2>3, AnnouncedOrigins
  <2>6. active_origins' = [active_origins EXCEPT ![p] = @ \cup {origin_asn(e.path)}]
    BY <1>4 DEF RecordAnnouncement
  <2>7. OriginsCovered'
    BY <2>1, <2>2, <2>4, <2>5, <2>6 DEF OriginsCovered
  <2>8. pc' = "check" /\ elem' = e /\ UNCHANGED bgp_hijack_total
    BY <1>4 DEF RecordAnnouncement
  <2>9. MoasOwed'
    BY <1>2, <2>4, <2>8 DEF MoasOwed
  <2> QED BY <2>7, <2>9
<1>5. CASE RecordWithdrawal(e)
  <2> DEFINE p == e.prefix
             q == e.peer
  <2>1. p \in Announced /\ q \in Peers
    BY <1>5, ElementFields DEF RecordWithdrawal
  <2>2. announcements \in [Pairs -> Paths \cup {None}] /\ active_origins \in [Announced -> SUBSET Origins]
    BY DEF TypeOK
  <2>3. announcements' = [announcements EXCEPT ![<<p, q>>] = None]
    BY <1>5 DEF RecordWithdrawal
  <2>4. \A r \in Announced : r # p => OriginsOf(r, announcements') = OriginsOf(r, announcements)
    <3> SUFFICES ASSUME NEW r \in Announced, r # p
                 PROVE  OriginsOf(r, announcements') = OriginsOf(r, announcements)
      OBVIOUS
    <3>1. \A x \in Peers : announcements'[<<r, x>>] = announcements[<<r, x>>]
      BY <2>1, <2>2, <2>3 DEF Pairs
    <3> QED BY <3>1 DEF OriginsOf
  <2>5. OriginsOf(p, announcements') \subseteq OriginsOf(p, announcements)
    BY <2>1, <2>2, <2>3, WithdrawnOrigins
  <2>6. active_origins' = [active_origins EXCEPT ![p] = OriginsOf(p, announcements')]
    BY <1>5 DEF RecordWithdrawal
  <2>7. OriginsCovered'
    BY <2>1, <2>2, <2>4, <2>6 DEF OriginsCovered
  <2>8. UNCHANGED bgp_hijack_total
    BY <1>5 DEF RecordWithdrawal
  <2>9. \A r \in Announced :
            Multiple(OriginsOf(r, announcements')) => Multiple(OriginsOf(r, announcements))
    BY <2>4, <2>5, MultipleMonotone
  <2>10. MoasOwed'
    BY <1>2, <2>8, <2>9 DEF MoasOwed
  <2> QED BY <2>7, <2>10
<1> QED BY <1>1, <1>3, <1>4, <1>5

\* _check_moas counts the conflict that recording left uncounted.
LEMMA CheckOrigins ==
    ASSUME TypeOK, OriginsCovered, MoasOwed, CheckAnnouncement
    PROVE  OriginsCovered' /\ MoasOwed'
<1>1. OriginsCovered'
  BY DEF CheckAnnouncement, OriginsCovered
<1>2. SUFFICES ASSUME ~stop_event, NEW p \in Announced, Multiple(OriginsOf(p, announcements))
               PROVE  bgp_hijack_total'[<<p, "moas">>] > 0
  BY <1>1 DEF MoasOwed, CheckAnnouncement
<1>3. <<p, "moas">> \in Announced \X HijackType
  BY DEF HijackType
<1>4. bgp_hijack_total[<<p, "moas">>] \in Nat
  BY <1>3 DEF TypeOK
<1>5. bgp_hijack_total'[<<p, "moas">>] = bgp_hijack_total[<<p, "moas">>] +
            (IF p = elem.prefix /\ "moas" \in Detected(elem) THEN 1 ELSE 0)
  BY <1>3 DEF CheckAnnouncement
<1>6. CASE bgp_hijack_total[<<p, "moas">>] > 0
  BY <1>4, <1>5, <1>6
<1>7. CASE elem.prefix = p
  <2>1. Multiple(active_origins[p])
    BY <1>2, MultipleMonotone DEF OriginsCovered
  <2>2. "moas" \in Detected(elem)
    BY <1>7, <2>1 DEF Detected, Moas
  <2> QED BY <1>4, <1>5, <1>7, <2>2
<1> QED BY <1>2, <1>6, <1>7 DEF MoasOwed

\* The other steps touch neither the origins nor the count, or set the stop event.
LEMMA OtherOrigins ==
    ASSUME OriginsCovered, MoasOwed,
           \/ Connect \/ Break \/ ValidateRPKI \/ PublishDropped \/ PublishStarts \/ PublishEnds
           \/ StreamFails \/ ValidateRPKIRaises \/ StopCloses \/ StopRaises \/ NatsChange
           \/ UNCHANGED vars
    PROVE  OriginsCovered' /\ MoasOwed'
<1>1. UNCHANGED <<announcements, active_origins, bgp_hijack_total>>
  BY DEF Connect, Break, ValidateRPKI, PublishDropped, PublishStarts, PublishEnds, StreamFails,
         ValidateRPKIRaises, StopCloses, StopRaises, Signalled, NatsChange, vars
<1>2. OriginsCovered'
  BY <1>1 DEF OriginsCovered
<1>3. stop_event' \/ (UNCHANGED stop_event /\ (pc # "check" \/ UNCHANGED <<pc, elem>>))
  BY DEF Connect, Break, ValidateRPKI, PublishDropped, PublishStarts, PublishEnds, StreamFails,
         ValidateRPKIRaises, StopCloses, StopRaises, Signalled, NatsChange, vars
<1>4. MoasOwed'
  BY <1>1, <1>3 DEF MoasOwed
<1> QED BY <1>2, <1>4

-----------------------------------------------------------------------------
(* The engine is told what the analyzer holds.                             *)

\* Recording an element puts the engine behind by that element only.
LEMMA ProcessSent ==
    ASSUME TypeOK, SendOwed, ProcessElement
    PROVE  SendOwed'
<1>1. PICK e \in Element :
        Skip(e) \/ Reject(e) \/ RecordAnnouncement(e) \/ RecordWithdrawal(e)
  BY DEF ProcessElement
<1>2. pc = "stream" /\ UNCHANGED <<lastSent, unsent>>
  BY DEF ProcessElement
<1>3. CASE Skip(e) \/ Reject(e)
  BY <1>2, <1>3 DEF Skip, Reject, SendOwed
<1>4. CASE RecordAnnouncement(e)
  <2>1. elem' = e /\ pc' = "check" /\ <<e.prefix, e.peer>> \in Pairs
        /\ announcements' = [announcements EXCEPT ![<<e.prefix, e.peer>>] = Update(e)]
    BY <1>4, ElementFields DEF RecordAnnouncement, Update
  <2> QED BY <1>2, <2>1 DEF SendOwed, TypeOK, Update
<1>5. CASE RecordWithdrawal(e)
  <2>1. elem' = e /\ pc' = "publish" /\ <<e.prefix, e.peer>> \in Pairs
        /\ announcements' = [announcements EXCEPT ![<<e.prefix, e.peer>>] = Update(e)]
    BY <1>5, ElementFields DEF RecordWithdrawal, Update
  <2> QED BY <1>2, <2>1 DEF SendOwed, TypeOK, Update
<1> QED BY <1>1, <1>3, <1>4, <1>5

\* Whether the element's update was published or not, the engine is owed nothing any more.
LEMMA Settled ==
    ASSUME TypeOK, SendOwed, pc \in {"check", "rpki", "publish", "publishing"},
           Sent(elem) \/ Dropped(elem) \/ Unconfirmed(elem), pc' = "stream",
           UNCHANGED announcements
    PROVE  SendOwed'
<1>1. <<elem.prefix, elem.peer>> \in Pairs
  BY ElementFields DEF TypeOK
<1> QED BY <1>1 DEF SendOwed, TypeOK, Sent, Dropped, Unconfirmed

\* Publishing it, or dropping it, settles what the engine was owed.
LEMMA StepSent ==
    ASSUME TypeOK, SendOwed, [Next]_vars, ~ProcessElement
    PROVE  SendOwed'
<1>1. CASE Connect
  BY <1>1 DEF Connect, SendOwed
<1>2. CASE Break \/ StreamFails
  BY <1>2 DEF Break, StreamFails, SendOwed
<1>3. CASE CheckAnnouncement
  BY <1>3 DEF CheckAnnouncement, SendOwed, Update
<1>4. CASE ValidateRPKI
  BY <1>4 DEF ValidateRPKI, SendOwed, Update
<1>5. CASE ValidateRPKIRaises \/ PublishDropped
  BY <1>5, Settled DEF ValidateRPKIRaises, PublishDropped
<1>6. CASE PublishStarts
  BY <1>6 DEF PublishStarts, SendOwed, Update
<1>7. CASE PublishEnds
  BY <1>7, Settled DEF PublishEnds
<1>8. CASE StopCloses
  BY <1>8 DEF StopCloses, Signalled, SendOwed, Update
<1>9. CASE StopRaises
  <2>1. CASE pc = "stream"
    BY <1>9, <2>1 DEF StopRaises, Signalled, SendOwed
  <2>2. CASE pc # "stream"
    BY <1>9, <2>2, Settled DEF StopRaises, Signalled
  <2> QED BY <2>1, <2>2
<1>10. CASE NatsChange \/ UNCHANGED vars
  BY <1>10 DEF NatsChange, vars, SendOwed, Update
<1> QED BY <1>1, <1>2, <1>3, <1>4, <1>5, <1>6, <1>7, <1>8, <1>9, <1>10 DEF Next, Step

-----------------------------------------------------------------------------
\* At start-up nothing is recorded, counted or published.
LEMMA InitKeeps == Init => IInv
<1> SUFFICES ASSUME Init PROVE IInv
  OBVIOUS
<1>1. \A p \in Announced : OriginsOf(p, announcements) = {}
  BY DEF Init, OriginsOf, Pairs
<1>2. OriginsCovered /\ MoasOwed
  BY <1>1 DEF OriginsCovered, MoasOwed, Multiple
<1>3. SendOwed
  BY DEF Init, SendOwed
<1> QED BY <1>2, <1>3, InitType DEF IInv

\* The inductive step of MoasComplete and EngineToldAll.
LEMMA NextKeeps == IInv /\ [Next]_vars => IInv'
<1> SUFFICES ASSUME IInv, [Next]_vars PROVE IInv'
  OBVIOUS
<1>1. TypeOK'
  BY NextType DEF IInv
<1>2. SendOwed'
  BY ProcessSent, StepSent DEF IInv
<1>3. OriginsCovered' /\ MoasOwed'
  BY <1>1, ProcessOrigins, CheckOrigins, OtherOrigins DEF IInv, Next, Step
<1> QED BY <1>1, <1>2, <1>3 DEF IInv

\* For any prefixes, peers and paths: _check_moas has counted every prefix that
\* is announced with two origins, because active_origins never misses one.
THEOREM MoasComplete == Spec => []MoasDetected
<1>1. IInv => MoasDetected
  BY DEF IInv, MoasOwed, MoasDetected
<1> QED BY <1>1, InitKeeps, NextKeeps, PTL DEF Spec

\* For any stream, signals and outages: of every pair whose last update was not dropped the
\* engine was last told what the analyzer holds.
THEOREM EngineToldAll == Spec => []StreamMirrorsState
<1>1. IInv => StreamMirrorsState
  BY DEF IInv, SendOwed, StreamMirrorsState
<1> QED BY <1>1, InitKeeps, NextKeeps, PTL DEF Spec
=============================================================================
