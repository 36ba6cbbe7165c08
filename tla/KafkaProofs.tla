---------------------------- MODULE KafkaProofs ----------------------------
(***************************************************************************)
(* Proofs about the Kafka transport for any number of partitions, messages, *)
(* publishers and sessions.                                                 *)
(***************************************************************************)
EXTENDS KafkaTransport, TLAPS

USE DEF group, claim, history

Offsets == 0 .. MaxOffset - 1

\* Every message of p below the offset was handed to the handler or jumped over.
SeenBelow(p, offset) == \A o \in Offsets : o < offset => <<p, o>> \in attempted \cup skipped

\* An offset that was, or will be, committed: right after a success.
Committable(p, offset) ==
    offset # None => /\ offset # 0 /\ <<p, offset - 1>> \in succeeded
                     /\ SeenBelow(p, offset)

ClaimInv ==
    \A p \in Partitions :
        /\ Committable(p, committed[p])
        /\ session => Committable(p, marked[p]) /\ SeenBelow(p, pos[p])
        /\ pc[p] = "mark" => session /\ pos[p] < highWater[p] /\ <<p, pos[p]>> \in succeeded

KafkaInv == TypeOK /\ ClaimInv

LEMMA InitKafka == Init => KafkaInv
<1> SUFFICES ASSUME Init PROVE KafkaInv
  OBVIOUS
<1>1. TypeOK
  <2>1. /\ highWater \in [Partitions -> 0 .. MaxOffset] /\ pos \in [Partitions -> 0 .. MaxOffset]
        /\ committed \in [Partitions -> 0 .. MaxOffset \cup {None}]
        /\ marked \in [Partitions -> 0 .. MaxOffset \cup {None}]
        /\ pc \in [Partitions -> {"range", "mark"}]
    BY KafkaAssumption DEF Init
  <2>2. session \in BOOLEAN /\ closed \in BOOLEAN
    BY DEF Init
  <2>3. /\ sessions \in 0 .. MaxSessions /\ failures \in 0 .. MaxFailures
        /\ attempted = {} /\ succeeded = {} /\ skipped = {} /\ lostMarks = {}
    BY KafkaAssumption DEF Init
  <2> QED BY <2>1, <2>2, <2>3 DEF TypeOK
<1>2. ClaimInv
  BY DEF Init, ClaimInv, Committable
<1> QED BY <1>1, <1>2 DEF KafkaInv

\* The step past a message that was seen.
LEMMA SeenNext ==
    ASSUME NEW p, NEW offset \in Nat, SeenBelow(p, offset), <<p, offset>> \in attempted \cup skipped
    PROVE  SeenBelow(p, offset + 1)
  BY KafkaAssumption DEF SeenBelow, Offsets

\* The consumer's steps, its brokers' included, keep types.
LEMMA NextKafkaType == KafkaInv /\ [Next]_vars => TypeOK'
<1> SUFFICES ASSUME KafkaInv, [Next]_vars PROVE TypeOK'
  OBVIOUS
<1> USE KafkaAssumption DEF TypeOK
<1>0. TypeOK /\ ClaimInv
  BY DEF KafkaInv
<1>1. CASE Consume
  <2>1. \A p \in Partitions : StartOffset(p) \in 0 .. MaxOffset
    BY <1>0 DEF StartOffset
  <2>2. pos' \in [Partitions -> 0 .. MaxOffset] /\ pc' \in [Partitions -> {"range", "mark"}]
    BY <1>1, <2>1 DEF Consume
  <2>3. sessions' \in 0 .. MaxSessions
    BY <1>0, <1>1 DEF Consume
  <2>4. session' \in BOOLEAN /\ closed' \in BOOLEAN /\ skipped' \subseteq Message
    BY <1>0, <1>1 DEF Consume
  <2>5. /\ highWater' = highWater /\ committed' = committed /\ marked' = committed
        /\ attempted' = attempted /\ succeeded' = succeeded /\ failures' = failures
        /\ lostMarks' = lostMarks
    BY <1>1 DEF Consume
  <2> QED BY <1>0, <2>2, <2>3, <2>4, <2>5
<1>2. CASE AutoCommit
  BY <1>0, <1>2 DEF AutoCommit
<1>3. CASE CloseClaims
  BY <1>0, <1>3 DEF CloseClaims
<1>4. CASE EndSession
  BY <1>0, <1>4 DEF EndSession
<1>5. CASE Crash
  BY <1>0, <1>5 DEF Crash
<1>6. ASSUME NEW p \in Partitions, Publish(p) PROVE TypeOK'
  BY <1>0, <1>6 DEF Publish
<1>7. ASSUME NEW p \in Partitions, HandlerSucceeds(p) PROVE TypeOK'
  <2>1. <<p, pos[p]>> \in Message
    BY <1>0, <1>7 DEF HandlerSucceeds, Message
  <2> QED BY <1>0, <1>7, <2>1 DEF HandlerSucceeds
<1>8. ASSUME NEW p \in Partitions, HandlerFails(p) PROVE TypeOK'
  <2>1. <<p, pos[p]>> \in Message
    BY <1>0, <1>8 DEF HandlerFails, Message
  <2>2. pos' \in [Partitions -> 0 .. MaxOffset] /\ failures' \in 0 .. MaxFailures
    BY <1>0, <1>8 DEF HandlerFails
  <2> QED BY <1>0, <1>8, <2>1, <2>2 DEF HandlerFails
<1>9. ASSUME NEW p \in Partitions, MarkMessage(p) PROVE TypeOK'
  <2>1. pos[p] < highWater[p] /\ highWater[p] \in 0 .. MaxOffset /\ pos[p] \in 0 .. MaxOffset
    BY <1>0, <1>9 DEF MarkMessage, ClaimInv
  <2>2. pos[p] + 1 \in 0 .. MaxOffset
    BY <2>1
  <2>3. MarkedOffset(p) \in 0 .. MaxOffset \cup {None}
    BY <1>0, <2>2 DEF MarkedOffset
  <2> QED BY <1>0, <1>9, <2>2, <2>3 DEF MarkMessage
<1>10. CASE UNCHANGED vars
  BY <1>0, <1>10 DEF vars
<1> QED BY <1>1, <1>2, <1>3, <1>4, <1>5, <1>6, <1>7, <1>8, <1>9, <1>10 DEF Next

\* A claim is handed messages in order, and commits right after a success.
LEMMA NextClaim == KafkaInv /\ [Next]_vars => ClaimInv'
<1> SUFFICES ASSUME KafkaInv, [Next]_vars, NEW q \in Partitions
             PROVE  /\ Committable(q, committed[q])'
                    /\ session' => Committable(q, marked[q])' /\ SeenBelow(q, pos[q])'
                    /\ pc'[q] = "mark" =>
                            session' /\ pos'[q] < highWater'[q] /\ <<q, pos'[q]>> \in succeeded'
  BY DEF ClaimInv
<1>0. /\ TypeOK
      /\ Committable(q, committed[q])
      /\ session => Committable(q, marked[q]) /\ SeenBelow(q, pos[q])
      /\ pc[q] = "mark" => session /\ pos[q] < highWater[q] /\ <<q, pos[q]>> \in succeeded
  BY DEF KafkaInv, ClaimInv
<1>1. CASE Consume
  <2>1. /\ marked' = committed /\ committed' = committed /\ highWater' = highWater
        /\ pos'[q] = StartOffset(q) /\ pc'[q] = "range"
        /\ attempted' = attempted /\ succeeded' = succeeded
        /\ skipped' = skipped \cup
                {m \in Message : committed[m[1]] = None /\ m[2] < highWater[m[1]]}
    BY <1>1 DEF Consume
  <2>2. Committable(q, committed[q])'
    BY <1>0, <2>1 DEF Committable, SeenBelow
  <2>3. SeenBelow(q, pos[q])'
    <3>1. CASE committed[q] = None
      <4> SUFFICES ASSUME NEW o \in Offsets, o < highWater[q] PROVE <<q, o>> \in skipped'
        BY <2>1, <3>1 DEF SeenBelow, StartOffset
      <4>1. <<q, o>> \in Message
        BY DEF Message, Offsets
      <4> QED BY <2>1, <3>1, <4>1
    <3>2. CASE committed[q] # None
      <4>1. pos'[q] = committed[q]
        BY <2>1, <3>2 DEF StartOffset
      <4> QED BY <1>0, <2>1, <3>2, <4>1 DEF Committable, SeenBelow
    <3> QED BY <3>1, <3>2
  <2>4. Committable(q, marked[q])'
    BY <2>1, <2>2 DEF Committable, SeenBelow
  <2> QED BY <2>1, <2>2, <2>3, <2>4
<1>2. CASE AutoCommit \/ EndSession
  <2>1. /\ session /\ committed' = marked /\ marked' = marked /\ pos' = pos /\ pc' = pc
        /\ highWater' = highWater
        /\ attempted' = attempted /\ succeeded' = succeeded /\ skipped' = skipped
    BY <1>2 DEF AutoCommit, EndSession
  <2>2. pc'[q] = "mark" => session'
    BY <1>2, <2>1 DEF AutoCommit, EndSession
  <2> QED BY <1>0, <2>1, <2>2 DEF Committable, SeenBelow
<1>3. CASE CloseClaims \/ UNCHANGED vars
  <2>1. /\ session' = session /\ committed' = committed /\ marked' = marked /\ pos' = pos
        /\ pc' = pc /\ highWater' = highWater
        /\ attempted' = attempted /\ succeeded' = succeeded /\ skipped' = skipped
    BY <1>3 DEF CloseClaims, vars
  <2> QED BY <1>0, <2>1 DEF Committable, SeenBelow
<1>4. CASE Crash
  <2>1. /\ ~session' /\ pc'[q] = "range" /\ committed' = committed
        /\ attempted' = attempted /\ succeeded' = succeeded /\ skipped' = skipped
    BY <1>4 DEF Crash
  <2> QED BY <1>0, <2>1 DEF Committable, SeenBelow
<1>5. ASSUME NEW p \in Partitions, Publish(p)
      PROVE  /\ Committable(q, committed[q])'
             /\ session' => Committable(q, marked[q])' /\ SeenBelow(q, pos[q])'
             /\ pc'[q] = "mark" =>
                     session' /\ pos'[q] < highWater'[q] /\ <<q, pos'[q]>> \in succeeded'
  <2>1. /\ session' = session /\ committed' = committed /\ marked' = marked /\ pos' = pos
        /\ pc' = pc /\ highWater' = [highWater EXCEPT ![p] = @ + 1]
        /\ attempted' = attempted /\ succeeded' = succeeded /\ skipped' = skipped
    BY <1>5 DEF Publish
  <2>2. highWater[q] \in Nat /\ pos[q] \in Nat /\ highWater'[q] \in {highWater[q], highWater[q] + 1}
    BY <1>0, <2>1, KafkaAssumption DEF TypeOK
  <2> QED BY <1>0, <2>1, <2>2 DEF Committable, SeenBelow
<1>6. ASSUME NEW p \in Partitions, HandlerSucceeds(p)
      PROVE  /\ Committable(q, committed[q])'
             /\ session' => Committable(q, marked[q])' /\ SeenBelow(q, pos[q])'
             /\ pc'[q] = "mark" =>
                     session' /\ pos'[q] < highWater'[q] /\ <<q, pos'[q]>> \in succeeded'
  <2>1. /\ session /\ session' = session /\ committed' = committed /\ marked' = marked /\ pos' = pos
        /\ highWater' = highWater /\ pos[p] < highWater[p]
        /\ pc' = [pc EXCEPT ![p] = "mark"] /\ skipped' = skipped
        /\ attempted' = attempted \cup {<<p, pos[p]>>}
        /\ succeeded' = succeeded \cup {<<p, pos[p]>>}
    BY <1>6 DEF HandlerSucceeds
  <2>2. pc'[q] = "mark" => pos'[q] < highWater'[q] /\ <<q, pos'[q]>> \in succeeded'
    BY <1>0, <2>1 DEF TypeOK
  <2> QED BY <1>0, <2>1, <2>2 DEF Committable, SeenBelow
<1>7. ASSUME NEW p \in Partitions, HandlerFails(p)
      PROVE  /\ Committable(q, committed[q])'
             /\ session' => Committable(q, marked[q])' /\ SeenBelow(q, pos[q])'
             /\ pc'[q] = "mark" =>
                     session' /\ pos'[q] < highWater'[q] /\ <<q, pos'[q]>> \in succeeded'
  <2>1. /\ session /\ session' = session /\ committed' = committed /\ marked' = marked
        /\ highWater' = highWater /\ pc' = pc /\ pc[p] = "range" /\ skipped' = skipped
        /\ pos' = [pos EXCEPT ![p] = @ + 1]
        /\ attempted' = attempted \cup {<<p, pos[p]>>} /\ succeeded' = succeeded
    BY <1>7 DEF HandlerFails
  <2>2. Committable(q, committed[q])' /\ Committable(q, marked[q])'
    BY <1>0, <2>1 DEF Committable, SeenBelow
  <2>3. SeenBelow(q, pos[q])'
    <3>1. CASE q = p
      <4>1. pos'[q] = pos[q] + 1 /\ pos[q] \in Nat
        BY <1>0, <2>1, <3>1 DEF TypeOK
      <4> SUFFICES ASSUME NEW o \in Offsets, o < pos[q] + 1
                   PROVE  <<q, o>> \in attempted' \cup skipped'
        BY <4>1 DEF SeenBelow
      <4>2. o < pos[q] \/ o = pos[q]
        BY <4>1, KafkaAssumption DEF Offsets
      <4> QED BY <1>0, <2>1, <3>1, <4>2 DEF SeenBelow
    <3>2. CASE q # p
      BY <1>0, <2>1, <3>2 DEF SeenBelow, TypeOK
    <3> QED BY <3>1, <3>2
  <2>4. pc'[q] = "mark" => pos'[q] < highWater'[q] /\ <<q, pos'[q]>> \in succeeded' /\ session'
    BY <1>0, <2>1 DEF TypeOK
  <2> QED BY <2>2, <2>3, <2>4
<1>8. ASSUME NEW p \in Partitions, MarkMessage(p)
      PROVE  /\ Committable(q, committed[q])'
             /\ session' => Committable(q, marked[q])' /\ SeenBelow(q, pos[q])'
             /\ pc'[q] = "mark" =>
                     session' /\ pos'[q] < highWater'[q] /\ <<q, pos'[q]>> \in succeeded'
  <2>1. /\ session' = session /\ committed' = committed /\ highWater' = highWater
        /\ pc[p] = "mark" /\ pc' = [pc EXCEPT ![p] = "range"]
        /\ pos' = [pos EXCEPT ![p] = @ + 1]
        /\ marked' = [marked EXCEPT ![p] = MarkedOffset(p)]
        /\ attempted' = attempted /\ succeeded' = succeeded /\ skipped' = skipped
    BY <1>8 DEF MarkMessage
  <2>2. Committable(q, committed[q])'
    BY <1>0, <2>1 DEF Committable, SeenBelow
  <2>3. CASE q = p
    <3>1. /\ session /\ <<q, pos[q]>> \in succeeded /\ pos[q] \in Nat /\ pos'[q] = pos[q] + 1
          /\ marked'[q] = MarkedOffset(q) /\ pc'[q] = "range" /\ succeeded \subseteq attempted
      BY <1>0, <2>1, <2>3 DEF TypeOK
    <3>2. SeenBelow(q, pos[q] + 1)
      BY <1>0, <3>1, SeenNext
    <3>3. Committable(q, pos[q] + 1)
      BY <3>1, <3>2 DEF Committable
    <3>4. Committable(q, MarkedOffset(q))
      BY <1>0, <3>1, <3>3 DEF MarkedOffset
    <3>5. SeenBelow(q, pos[q])' /\ Committable(q, marked[q])'
      BY <2>1, <3>1, <3>2, <3>4 DEF SeenBelow, Committable
    <3> QED BY <2>2, <3>1, <3>5
  <2>4. CASE q # p
    <3>1. pos'[q] = pos[q] /\ marked'[q] = marked[q] /\ pc'[q] = pc[q]
      BY <1>0, <2>1, <2>4 DEF TypeOK
    <3> QED BY <1>0, <2>1, <2>2, <3>1 DEF SeenBelow, Committable
  <2> QED BY <2>3, <2>4
<1> QED BY <1>1, <1>2, <1>3, <1>4, <1>5, <1>6, <1>7, <1>8 DEF Next

LEMMA ConsumerInvariant == Spec => []KafkaInv
<1>1. KafkaInv /\ [Next]_vars => KafkaInv'
  BY NextKafkaType, NextClaim DEF KafkaInv
<1> QED BY <1>1, InitKafka, PTL DEF Spec

NoneSucceeded(p) == \A q \in Offsets : <<p, q>> \notin succeeded

\* While nothing of a partition is committed, a success is marked, about to be, or was
\* lost in a crash; and what is committed is marked.
MarkInv ==
    \A p \in Partitions :
        /\ committed[p] = None =>
            \/ p \in lostMarks
            \/ NoneSucceeded(p)
            \/ session /\ (marked[p] # None \/ pc[p] = "mark")
        /\ session /\ committed[p] # None => marked[p] # None

LEMMA NextMark == KafkaInv /\ MarkInv /\ [Next]_vars => MarkInv'
<1> SUFFICES ASSUME KafkaInv, MarkInv, [Next]_vars, NEW q \in Partitions
             PROVE  /\ committed'[q] = None =>
                        \/ q \in lostMarks'
                        \/ NoneSucceeded(q)'
                        \/ session' /\ (marked'[q] # None \/ pc'[q] = "mark")
                    /\ session' /\ committed'[q] # None => marked'[q] # None
  BY DEF MarkInv
<1>0. /\ committed[q] = None =>
            \/ q \in lostMarks
            \/ NoneSucceeded(q)
            \/ session /\ (marked[q] # None \/ pc[q] = "mark")
      /\ session /\ committed[q] # None => marked[q] # None
      /\ marked \in [Partitions -> 0 .. MaxOffset \cup {None}] /\ pc \in [Partitions -> {"range", "mark"}]
      /\ pos \in [Partitions -> 0 .. MaxOffset]
  BY DEF KafkaInv, MarkInv, TypeOK
<1> USE DEF NoneSucceeded
<1>1. CASE Consume
  BY <1>0, <1>1 DEF Consume
<1>2. CASE AutoCommit \/ EndSession
  <2>1. /\ session /\ committed' = marked /\ marked' = marked /\ pc' = pc
        /\ lostMarks' = lostMarks /\ succeeded' = succeeded
        /\ session' \/ pc[q] = "range"
    BY <1>2 DEF AutoCommit, EndSession
  <2> QED BY <1>0, <2>1
<1>3. CASE CloseClaims \/ UNCHANGED vars
  BY <1>0, <1>3 DEF CloseClaims, vars
<1>4. CASE Crash
  <2>1. /\ committed' = committed /\ succeeded' = succeeded /\ ~session'
        /\ lostMarks' = lostMarks \cup
                {p \in Partitions : pc[p] = "mark" \/ marked[p] # committed[p]}
    BY <1>4 DEF Crash
  <2> QED BY <1>0, <2>1
<1>5. ASSUME NEW p \in Partitions, Publish(p) \/ HandlerFails(p)
      PROVE  /\ committed' = committed /\ succeeded' = succeeded /\ session' = session
             /\ lostMarks' = lostMarks /\ marked' = marked /\ pc' = pc
  BY <1>5 DEF Publish, HandlerFails
<1>6. ASSUME NEW p \in Partitions, HandlerSucceeds(p)
      PROVE  /\ committed' = committed /\ session /\ session' = session
             /\ lostMarks' = lostMarks /\ marked' = marked
             /\ IF q = p THEN pc'[q] = "mark" ELSE pc'[q] = pc[q] /\ (NoneSucceeded(q) => NoneSucceeded(q)')
  BY <1>0, <1>6 DEF HandlerSucceeds
<1>7. ASSUME NEW p \in Partitions, MarkMessage(p)
      PROVE  /\ committed' = committed /\ session' = session
             /\ lostMarks' = lostMarks /\ succeeded' = succeeded
             /\ IF q = p THEN marked'[q] # None ELSE pc'[q] = pc[q] /\ marked'[q] = marked[q]
  <2>1. pos[p] + 1 # None
    BY <1>0, KafkaAssumption
  <2>2. MarkedOffset(p) # None
    BY <2>1 DEF MarkedOffset
  <2>3. marked'[q] = IF q = p THEN MarkedOffset(p) ELSE marked[q]
    BY <1>0, <1>7 DEF MarkMessage
  <2> QED BY <1>0, <1>7, <2>2, <2>3 DEF MarkMessage
<1>8. ASSUME NEW p \in Partitions, MarkMessage(p) PROVE session
  BY <1>8 DEF KafkaInv, ClaimInv, MarkMessage
<1> QED BY <1>0, <1>1, <1>2, <1>3, <1>4, <1>5, <1>6, <1>7, <1>8 DEF Next

LEMMA MarkInvariant == Spec => []MarkInv
<1>1. Init => MarkInv
  BY DEF Init, MarkInv, NoneSucceeded
<1> QED BY <1>1, NextMark, ConsumerInvariant, PTL DEF Spec

\* The transport feeds the consumer: every step of it is one of KafkaConsumer, whose
\* partitions grow by what SendMessage stores, or a stutter.
THEOREM TransportFeedsConsumer == TransportSpec => Spec
<1>1. TransportInit => Init
  BY DEF TransportInit
<1>2. [TransportNext]_<<vars, transport>> => [Next]_vars
  <2> SUFFICES ASSUME TransportNext PROVE Next \/ UNCHANGED vars
    OBVIOUS
  <2>1. CASE Consumer
    BY <2>1 DEF Consumer, Next
  <2>2. CASE Close \/ ProducerClosed \/ CloseReturns
    BY <2>2 DEF Close, ProducerClosed, CloseReturns
  <2>3. ASSUME NEW k \in Publishers,
               PublishCalled(k) \/ RefusePublish(k) \/ AcceptPublish(k) \/ SendFails(k)
               \/ SendOnClosed(k)
        PROVE  UNCHANGED vars
    BY <2>3 DEF PublishCalled, RefusePublish, AcceptPublish, SendFails, SendOnClosed
  <2>4. ASSUME NEW k \in Publishers, NEW p \in Partitions,
               StoredUnanswered(k, p) \/ SendMessage(k, p)
        PROVE  Next
    BY <2>4 DEF StoredUnanswered, SendMessage, Next
  <2> QED BY <2>1, <2>2, <2>3, <2>4 DEF TransportNext
<1> QED BY <1>1, <1>2, PTL DEF TransportSpec, Spec

\* The variables of the consumer keep their types.
THEOREM ConsumerTypeCorrect == TransportSpec => []TypeOK
<1>1. KafkaInv => TypeOK
  BY DEF KafkaInv
<1> QED BY <1>1, ConsumerInvariant, TransportFeedsConsumer, PTL

\* Whatever the sessions, crashes and handler errors, the group commits past no
\* message that was neither handed to the handler nor older than the group.
THEOREM CommitsWhatWasAttempted == TransportSpec => []CommittedWereAttempted
<1>1. KafkaInv => CommittedWereAttempted
  BY DEF KafkaInv, ClaimInv, Committable, SeenBelow, CommittedWereAttempted, BelowCommit, Offsets
<1> QED BY <1>1, ConsumerInvariant, TransportFeedsConsumer, PTL

\* ConsumeClaim does not mark a failed message, and yet the next session may start
\* behind it: past a later success, or at the newest message when the partition has
\* no success to commit or a crash lost it.  In every other case it comes back.
THEOREM FailuresComeBack == TransportSpec => []FailuresPassedOver
<1>1. KafkaInv /\ MarkInv => FailuresPassedOver
  <2> SUFFICES ASSUME KafkaInv, MarkInv, ~session, NEW p \in Partitions, NEW o \in Offsets,
                      <<p, o>> \in attempted \ succeeded, o < StartOffset(p)
               PROVE  IF committed[p] # None
                      THEN \E q \in o + 1 .. committed[p] - 1 : <<p, q>> \in succeeded
                      ELSE p \in lostMarks \/ NoneSucceeded(p)
    BY DEF FailuresPassedOver, NoneSucceeded, Offsets
  <2>1. CASE committed[p] # None
    <3>1. <<p, committed[p] - 1>> \in succeeded /\ committed[p] # 0
      BY <2>1 DEF KafkaInv, ClaimInv, Committable
    <3>2. committed[p] \in Nat /\ o \in Nat /\ o < committed[p]
      BY <2>1, KafkaAssumption DEF KafkaInv, TypeOK, StartOffset, Offsets
    <3>3. o # committed[p] - 1
      BY <3>1
    <3>4. committed[p] - 1 \in o + 1 .. committed[p] - 1
      BY <3>1, <3>2, <3>3
    <3> QED BY <2>1, <3>1, <3>4
  <2>2. CASE committed[p] = None
    BY <2>2 DEF MarkInv
  <2> QED BY <2>1, <2>2
<1> QED BY <1>1, ConsumerInvariant, MarkInvariant, TransportFeedsConsumer, PTL

-----------------------------------------------------------------------------
(* Publish and Close.                                                      *)

\* Once Close was called the flag is up before the mutex is free again.
ClosingMarked ==
    /\ closing # "no" => isClosed
    /\ pub \in [Publishers -> {"none", "check", "send", "panicked"}]
    /\ afterClose \in [Publishers -> BOOLEAN]
    /\ \A k \in Publishers : afterClose[k] => closing # "no"

\* A Publish that was called after Close never sends.
THEOREM LateSendsOverlap == TransportSpec => []LateSendOverlapsClose
<1> DEFINE Inv == ClosingMarked /\ LateSendOverlapsClose
<1>1. TransportInit => Inv
  BY DEF TransportInit, ClosingMarked, LateSendOverlapsClose
<1>2. Inv /\ [TransportNext]_<<vars, transport>> => Inv'
  <2> SUFFICES ASSUME ClosingMarked, LateSendOverlapsClose,
                      [TransportNext]_<<vars, transport>>
               PROVE  ClosingMarked' /\ LateSendOverlapsClose'
    OBVIOUS
  <2> USE DEF ClosingMarked, LateSendOverlapsClose
  <2>1. CASE Consumer \/ UNCHANGED <<vars, transport>>
    BY <2>1 DEF Consumer, transport
  <2>2. CASE Close \/ ProducerClosed \/ CloseReturns
    BY <2>2 DEF Close, ProducerClosed, CloseReturns
  <2>3. ASSUME NEW k \in Publishers, PublishCalled(k) PROVE ClosingMarked' /\ LateSendOverlapsClose'
    BY <2>3 DEF PublishCalled
  <2>4. ASSUME NEW k \in Publishers, AcceptPublish(k) PROVE ClosingMarked' /\ LateSendOverlapsClose'
    BY <2>4 DEF AcceptPublish
  <2>5. ASSUME NEW k \in Publishers, RefusePublish(k) \/ SendFails(k) \/ SendOnClosed(k)
        PROVE  ClosingMarked' /\ LateSendOverlapsClose'
    BY <2>5 DEF RefusePublish, SendFails, SendOnClosed
  <2>6. ASSUME NEW k \in Publishers, NEW p \in Partitions,
               StoredUnanswered(k, p) \/ SendMessage(k, p)
        PROVE  ClosingMarked' /\ LateSendOverlapsClose'
    BY <2>6 DEF StoredUnanswered, SendMessage, transport
  <2> QED BY <2>1, <2>2, <2>3, <2>4, <2>5, <2>6 DEF TransportNext
<1> QED BY <1>1, <1>2, PTL DEF TransportSpec
=============================================================================
