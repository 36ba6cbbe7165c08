--------------------------- MODULE KafkaConsumer ---------------------------
(***************************************************************************)
(* The consumer side of the Kafka transport (internal/transport/kafka).    *)
(*                                                                         *)
(* Subscribe calls group.Consume in a loop; each call is one session, in   *)
(* which one goroutine per partition runs ConsumeClaim over the messages   *)
(* from the committed offset on.  sarama keeps one marked offset per       *)
(* partition, the highest one, and commits it now and then and when a      *)
(* session ends properly.  A crash loses the marks not yet committed.      *)
(***************************************************************************)
EXTENDS Naturals

CONSTANTS
    Partitions,
    MaxOffset,      \* bound: messages per partition
    MaxFailures,    \* bound: handler errors
    MaxSessions,    \* bound: sessions
    None

ASSUME KafkaAssumption ==
    MaxOffset \in Nat /\ MaxFailures \in Nat /\ MaxSessions \in Nat
    /\ None \notin Nat

VARIABLES
    highWater,   \* messages in each partition: offsets 0 .. highWater - 1
    committed,   \* the group's offset per partition, None if there is none
    session,     \* a session is running
    sessions,    \* sessions so far
    closed,      \* the claim's message channel is closed
    pos,         \* offset of the next message of the claim
    pc,          \* ConsumeClaim: waiting for a message, or about to mark one
    marked,      \* offset to commit next, None if there is none yet
    attempted,   \* messages handed to the handler
    succeeded,   \* messages for which the handler returned nil
    skipped,     \* messages a first session jumped over
    lostMarks,   \* partitions of which a crash lost a success not yet committed
    failures

group == <<highWater, committed>>
claim == <<pos, pc, marked>>
history == <<attempted, succeeded, skipped, lostMarks, failures>>
vars == <<group, session, sessions, closed, claim, history>>

Message == Partitions \X (0 .. MaxOffset - 1)

TypeOK ==
    /\ highWater \in [Partitions -> 0 .. MaxOffset]
    /\ committed \in [Partitions -> 0 .. MaxOffset \cup {None}]
    /\ session \in BOOLEAN /\ closed \in BOOLEAN
    /\ sessions \in 0 .. MaxSessions
    /\ pos \in [Partitions -> 0 .. MaxOffset]
    /\ pc \in [Partitions -> {"range", "mark"}]
    /\ marked \in [Partitions -> 0 .. MaxOffset \cup {None}]
    /\ succeeded \subseteq attempted /\ attempted \subseteq Message /\ skipped \subseteq Message
    /\ lostMarks \subseteq Partitions
    /\ failures \in 0 .. MaxFailures

Init ==
    /\ highWater = [p \in Partitions |-> 0]
    /\ committed = [p \in Partitions |-> None]
    /\ session = FALSE
    /\ sessions = 0
    /\ closed = FALSE
    /\ pos = [p \in Partitions |-> 0]
    /\ pc = [p \in Partitions |-> "range"]
    /\ marked = [p \in Partitions |-> None]
    /\ attempted = {}
    /\ succeeded = {}
    /\ skipped = {}
    /\ lostMarks = {}
    /\ failures = 0

Publish(p) ==
    /\ highWater[p] < MaxOffset
    /\ highWater' = [highWater EXCEPT ![p] = @ + 1]
    /\ UNCHANGED <<committed, session, sessions, closed, claim, history>>

-----------------------------------------------------------------------------
(* Subscribe.                                                              *)

\* InitialOffset is OffsetNewest: without a committed offset a claim starts at
\* the end of the partition.
StartOffset(p) == IF committed[p] = None THEN highWater[p] ELSE committed[p]

\* group.Consume: join, and start a claim per partition.
Consume ==
    /\ ~session
    /\ sessions < MaxSessions
    /\ session' = TRUE
    /\ sessions' = sessions + 1
    /\ closed' = FALSE
    /\ pos' = [p \in Partitions |-> StartOffset(p)]
    /\ marked' = committed
    /\ pc' = [p \in Partitions |-> "range"]
    /\ skipped' = skipped \cup {m \in Message : committed[m[1]] = None /\ m[2] < highWater[m[1]]}
    /\ UNCHANGED <<group, attempted, succeeded, lostMarks, failures>>

\* The handler returns nil; MarkMessage is the next step.
HandlerSucceeds(p) ==
    /\ session /\ ~closed
    /\ pc[p] = "range"
    /\ pos[p] < highWater[p]
    /\ attempted' = attempted \cup {<<p, pos[p]>>}
    /\ succeeded' = succeeded \cup {<<p, pos[p]>>}
    /\ pc' = [pc EXCEPT ![p] = "mark"]
    /\ UNCHANGED <<group, session, sessions, closed, pos, marked, skipped, lostMarks, failures>>

HandlerFailsMarking(p) ==
    /\ session /\ ~closed
    /\ pc[p] = "range"
    /\ pos[p] < highWater[p]
    /\ failures < MaxFailures
    /\ failures' = failures + 1
    /\ attempted' = attempted \cup {<<p, pos[p]>>}
    /\ pc' = [pc EXCEPT ![p] = "mark"]
    /\ UNCHANGED <<group, session, sessions, closed, pos, marked, succeeded, skipped, lostMarks>>

\* The handler fails: go on with the next message without a mark.
HandlerFails(p) ==
    /\ session /\ ~closed
    /\ pc[p] = "range"
    /\ pos[p] < highWater[p]
    /\ failures < MaxFailures
    /\ failures' = failures + 1
    /\ attempted' = attempted \cup {<<p, pos[p]>>}
    /\ pos' = [pos EXCEPT ![p] = @ + 1]
    /\ UNCHANGED <<group, session, sessions, closed, pc, marked, succeeded, skipped, lostMarks>>

MarkedPastNext(p) ==
    IF marked[p] = None \/ pos[p] + 2 > marked[p] THEN pos[p] + 2 ELSE marked[p]

\* sarama keeps the offset after the message, and never goes back.
MarkedOffset(p) ==
    IF marked[p] = None \/ pos[p] + 1 > marked[p] THEN pos[p] + 1 ELSE marked[p]

MarkMessage(p) ==
    /\ pc[p] = "mark"
    /\ marked' = [marked EXCEPT ![p] = MarkedOffset(p)]
    /\ pos' = [pos EXCEPT ![p] = @ + 1]
    /\ pc' = [pc EXCEPT ![p] = "range"]
    /\ UNCHANGED <<group, session, sessions, closed, history>>

-----------------------------------------------------------------------------
(* sarama's session (external).                                            *)

\* The periodic commit of what is marked.
AutoCommit ==
    /\ session
    /\ committed' = marked
    /\ UNCHANGED <<highWater, session, sessions, closed, claim, history>>

\* A rebalance, or the context's end: the message channels are closed.
CloseClaims ==
    /\ session /\ ~closed
    /\ closed' = TRUE
    /\ UNCHANGED <<group, session, sessions, claim, history>>

\* Every ConsumeClaim has returned: commit what is marked and leave.
EndSession ==
    /\ closed
    /\ session
    /\ \A p \in Partitions : pc[p] = "range"
    /\ committed' = marked
    /\ session' = FALSE
    /\ UNCHANGED <<highWater, sessions, closed, claim, history>>

\* The process ends without a commit.
Crash ==
    /\ session
    /\ lostMarks' = lostMarks \cup
            {p \in Partitions : pc[p] = "mark" \/ marked[p] # committed[p]}
    /\ session' = FALSE
    /\ closed' = TRUE
    /\ pc' = [p \in Partitions |-> "range"]
    /\ UNCHANGED <<group, sessions, pos, marked, attempted, succeeded, skipped, failures>>

Next ==
    \/ Consume \/ AutoCommit \/ CloseClaims \/ EndSession \/ Crash
    \/ \E p \in Partitions :
        Publish(p) \/ HandlerSucceeds(p) \/ HandlerFails(p) \/ MarkMessage(p)

Spec == Init /\ [][Next]_vars

-----------------------------------------------------------------------------
(* Correctness.  HandlerFailsMarking and MarkedPastNext are regressions of  *)
(* the definitions after them; no specification uses them.                  *)

BelowCommit(m) == committed[m[1]] # None /\ m[2] < committed[m[1]]

\* The group never commits past a message it has not handed to the handler: a
\* crash between the handler and the commit repeats messages and loses none.
\* Only what a session without a committed offset starts behind is passed over.
CommittedWereAttempted ==
    \A p \in Partitions, o \in 0 .. MaxOffset - 1 :
        BelowCommit(<<p, o>>) => <<p, o>> \in attempted \cup skipped

\* kafka.go:262 "Don't mark -- will be redelivered on rebalance."  The next session
\* passes over a failed message in two cases only.  A later message of its partition
\* succeeded and was committed; or there is no committed offset and the session starts
\* at the newest message, either because no message of the partition ever succeeded or
\* because the process crashed before the first commit.
FailuresPassedOver ==
    ~session =>
        \A p \in Partitions, o \in 0 .. MaxOffset - 1 :
            <<p, o>> \in attempted \ succeeded /\ o < StartOffset(p) =>
                IF committed[p] # None
                THEN \E q \in o + 1 .. committed[p] - 1 : <<p, q>> \in succeeded
                ELSE p \in lostMarks \/ \A q \in 0 .. MaxOffset - 1 : <<p, q>> \notin succeeded
=============================================================================
