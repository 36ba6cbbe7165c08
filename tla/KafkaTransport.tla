--------------------------- MODULE KafkaTransport ---------------------------
(***************************************************************************)
(* A Kafka transport that goroutines publish through until it is closed,    *)
(* feeding the consumer group of KafkaConsumer in another process.          *)
(*                                                                         *)
(* Publish looks at closed under the mutex, releases it and then hands the  *)
(* message to sarama's producer; Close keeps the mutex until producer and   *)
(* client are closed.  A message given to a closed producer is sent on a    *)
(* closed channel: the goroutine panics.                                    *)
(***************************************************************************)
EXTENDS KafkaConsumer

CONSTANT Publishers \* goroutines that publish

VARIABLES
    closing,   \* Close: not called, holding the mutex before or after the producer's end, over
    isClosed,  \* Transport.closed
    pub,       \* Publish of each goroutine: none, before the check, before the send, or a panic
    afterClose \* history: Close had been called when this Publish was

transport == <<closing, isClosed, pub, afterClose>>

TransportInit ==
    /\ Init
    /\ closing = "no"
    /\ isClosed = FALSE
    /\ pub = [k \in Publishers |-> "none"]
    /\ afterClose = [k \in Publishers |-> FALSE]

mutexFree == closing \in {"no", "over"}

PublishCalled(k) ==
    /\ pub[k] = "none"
    /\ pub' = [pub EXCEPT ![k] = "check"]
    /\ afterClose' = [afterClose EXCEPT ![k] = closing # "no"]
    /\ UNCHANGED <<vars, closing, isClosed>>

\* ErrClosed.
RefusePublish(k) ==
    /\ pub[k] = "check"
    /\ mutexFree
    /\ isClosed
    /\ pub' = [pub EXCEPT ![k] = "none"]
    /\ UNCHANGED <<vars, closing, isClosed, afterClose>>

AcceptPublish(k) ==
    /\ pub[k] = "check"
    /\ mutexFree
    /\ ~isClosed
    /\ pub' = [pub EXCEPT ![k] = "send"]
    /\ UNCHANGED <<vars, closing, isClosed, afterClose>>

producerOpen == closing \in {"no", "begun"}

\* The brokers stored the message and the answer is lost: the producer, which is not
\* an idempotent one, tries again.
StoredUnanswered(k, p) ==
    /\ pub[k] = "send"
    /\ producerOpen
    /\ Publish(p)
    /\ UNCHANGED transport

\* The brokers stored the message, and SendMessage knows or has no retry left.
SendMessage(k, p) ==
    /\ pub[k] = "send"
    /\ producerOpen
    /\ pub' = [pub EXCEPT ![k] = "none"]
    /\ Publish(p)
    /\ UNCHANGED <<closing, isClosed, afterClose>>

\* The retries are exhausted; the last one stored nothing.
SendFails(k) ==
    /\ pub[k] = "send"
    /\ producerOpen
    /\ pub' = [pub EXCEPT ![k] = "none"]
    /\ UNCHANGED <<vars, closing, isClosed, afterClose>>

SendOnClosed(k) ==
    /\ pub[k] = "send"
    /\ ~producerOpen
    /\ pub' = [pub EXCEPT ![k] = "panicked"]
    /\ UNCHANGED <<vars, closing, isClosed, afterClose>>

CloseUnmarked ==
    /\ closing = "no"
    /\ closing' = "begun"
    /\ UNCHANGED <<vars, isClosed, pub, afterClose>>

\* Another Close, later, does nothing.
Close ==
    /\ closing = "no"
    /\ closing' = "begun"
    /\ isClosed' = TRUE
    /\ UNCHANGED <<vars, pub, afterClose>>

\* Close goes on with the producer, the client and the mutex.
ProducerClosed ==
    /\ closing = "begun"
    /\ closing' = "ended"
    /\ UNCHANGED <<vars, isClosed, pub, afterClose>>

CloseReturns ==
    /\ closing = "ended"
    /\ closing' = "over"
    /\ UNCHANGED <<vars, isClosed, pub, afterClose>>

Consumer ==
    /\ \/ Consume \/ AutoCommit \/ CloseClaims \/ EndSession \/ Crash
       \/ \E p \in Partitions : HandlerSucceeds(p) \/ HandlerFails(p) \/ MarkMessage(p)
    /\ UNCHANGED transport

TransportNext ==
    \/ Consumer
    \/ \E k \in Publishers :
        \/ PublishCalled(k) \/ RefusePublish(k) \/ AcceptPublish(k)
        \/ \E p \in Partitions : StoredUnanswered(k, p) \/ SendMessage(k, p)
        \/ SendFails(k) \/ SendOnClosed(k)
    \/ Close \/ ProducerClosed \/ CloseReturns

TransportSpec == TransportInit /\ [][TransportNext]_<<vars, transport>>

-----------------------------------------------------------------------------
(* Correctness.  CloseUnmarked is a regression of Close.                    *)

\* Publish gives up the mutex before it sends, so it may meet a producer that was
\* closed in between; but only if it was called before Close.  Once Close has
\* been called no new message gets past the check, not even while Close waits.
LateSendOverlapsClose ==
    \A k \in Publishers : pub[k] \in {"send", "panicked"} => ~afterClose[k]
=============================================================================
