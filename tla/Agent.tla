------------------------------- MODULE Agent -------------------------------
(***************************************************************************)
(* The canary agent (internal/agent/agent.go) with its in-memory result    *)
(* buffer (internal/agent/buffer/buffer.go).                               *)
(*                                                                         *)
(* Run starts one goroutine per configured test, a heartbeat goroutine and *)
(* a drain goroutine, waits for its context to be cancelled and then for   *)
(* every goroutine to return.  A result whose publication fails goes to    *)
(* the buffer; every ten seconds the drain goroutine tries to publish      *)
(* everything buffered while it holds the buffer's mutex.                  *)
(*                                                                         *)
(* A result is <<t, n>>: the n-th result of test t.  Its contents do not   *)
(* matter here, its length in bytes does.                                  *)
(***************************************************************************)
EXTENDS Naturals, Sequences, Functions

CONSTANTS
    Tests,      \* the configured test definitions
    MaxTicks,   \* bound: results produced per test
    Ticks,      \* Ticks[t]: bound: results produced by t, at most MaxTicks
    MsgSize,    \* MsgSize[r]: length of r's JSON encoding
    MaxSize,    \* buffer.max_size_bytes
    MaxUnacked  \* bound: publishes that reach the broker and still return an error

Results == Tests \X (1..MaxTicks)

ASSUME AgentAssumption ==
    /\ MaxTicks \in Nat
    /\ Ticks \in [Tests -> 0..MaxTicks]
    /\ MsgSize \in [Results -> Nat \ {0}]
    /\ MaxSize \in Nat
    /\ MaxUnacked \in Nat

VARIABLES
    run,           \* "running", or "stopped" once the process has ended
    ctxDone,       \* the context handed to every goroutine is cancelled
    tpc,           \* where each test goroutine is
    produced,      \* number of results each test has produced
    hpc,           \* where the heartbeat goroutine is
    dpc,           \* where the drain goroutine is
    messages,      \* MemoryBuffer.messages
    curSize,       \* MemoryBuffer.curSize
    todo,          \* Drain: messages its loop has still to replay
    remaining,     \* Drain: messages kept for the next attempt
    remainingSize, \* Drain: their size
    link,          \* the transport is "up" or "down"
    log,           \* what the broker has stored, oldest first
    unacked,       \* number of publishes stored without the agent knowing
    dropped        \* results the agent gave up on and logged as dropped

bufferVars == <<messages, curSize>>
drainVars == <<todo, remaining, remainingSize>>
brokerVars == <<log, unacked>>
vars == <<run, ctxDone, tpc, produced, hpc, dpc, bufferVars, drainVars, link,
          brokerVars, dropped>>

InHand(t) == <<t, produced[t]>>

LogEntry == [res : Results, acked : BOOLEAN]

TypeOK ==
    /\ run \in {"running", "stopped"}
    /\ ctxDone \in BOOLEAN
    /\ tpc \in [Tests -> {"select", "execute", "publish", "push", "exited"}]
    /\ produced \in [Tests -> 0..MaxTicks]
    /\ hpc \in {"select", "publish", "exited"}
    /\ dpc \in {"select", "drain", "exited"}
    /\ messages \in Seq(Results)
    /\ curSize \in Nat
    /\ todo \in Seq(Results)
    /\ remaining \in Seq(Results)
    /\ remainingSize \in Nat
    /\ link \in {"up", "down"}
    /\ log \in Seq(LogEntry)
    /\ unacked \in 0..MaxUnacked
    /\ dropped \in SUBSET Results

\* Every goroutine of Run has been started; a test whose type has no canary
\* is skipped and never joins the wait group.
Init ==
    /\ run = "running"
    /\ ctxDone = FALSE
    /\ tpc \in [Tests -> {"select", "exited"}]
    /\ produced = [t \in Tests |-> 0]
    /\ hpc = "select"
    /\ dpc = "select"
    /\ messages = <<>> /\ curSize = 0
    /\ todo = <<>> /\ remaining = <<>> /\ remainingSize = 0
    /\ link \in {"up", "down"}
    /\ log = <<>> /\ unacked = 0
    /\ dropped = {}

-----------------------------------------------------------------------------
(* The transport, as publisher.Publish shows it to the agent.              *)

\* The broker is reachable or not.
LinkChange ==
    /\ run = "running"
    /\ link' = IF link = "up" THEN "down" ELSE "up"
    /\ UNCHANGED <<run, ctxDone, tpc, produced, hpc, dpc, bufferVars, drainVars,
                   brokerVars, dropped>>

Outcomes == {"acked", "failed", "unacked"}

\* Publish(ctx, topic, data) returns nil only once the broker has acknowledged;
\* it returns an error when the broker is unreachable or the context is done,
\* and then the message may have been stored all the same ("unacked").
Publish(r, outcome) ==
    /\ outcome = "acked" => link = "up"
    /\ outcome # "acked" => link = "down" \/ ctxDone
    /\ outcome = "unacked" => unacked < MaxUnacked
    /\ log' = IF outcome = "failed" THEN log
              ELSE Append(log, [res |-> r, acked |-> outcome = "acked"])
    /\ unacked' = IF outcome = "unacked" THEN unacked + 1 ELSE unacked

-----------------------------------------------------------------------------
(* testLoop, executeTest, publishResult and MemoryBuffer.Push.             *)

\* The ticker case of the select.  Go picks a ready case at random, so it may
\* win over a context that is already done.
Tick(t) ==
    /\ tpc[t] = "select"
    /\ produced[t] < Ticks[t]
    /\ tpc' = [tpc EXCEPT ![t] = "execute"]
    /\ UNCHANGED <<run, ctxDone, produced, hpc, dpc, bufferVars, drainVars, link,
                   brokerVars, dropped>>

\* Execute returned a result or an error: both become a result to publish.
Executed(t) ==
    /\ tpc[t] = "execute"
    /\ produced' = [produced EXCEPT ![t] = @ + 1]
    /\ tpc' = [tpc EXCEPT ![t] = "publish"]
    /\ UNCHANGED <<run, ctxDone, hpc, dpc, bufferVars, drainVars, link, brokerVars,
                   dropped>>

\* The canary panicked: recovered, nothing is published, the loop goes on.
Panicked(t) ==
    /\ tpc[t] = "execute"
    /\ tpc' = [tpc EXCEPT ![t] = "select"]
    /\ UNCHANGED <<run, ctxDone, produced, hpc, dpc, bufferVars, drainVars, link,
                   brokerVars, dropped>>

\* json.Marshal failed: the result is logged and dropped.
MarshalFailed(t) ==
    /\ tpc[t] = "publish"
    /\ tpc' = [tpc EXCEPT ![t] = "select"]
    /\ dropped' = dropped \cup {InHand(t)}
    /\ UNCHANGED <<run, ctxDone, produced, hpc, dpc, bufferVars, drainVars, link,
                   brokerVars>>

\* An error from Publish sends the result to the buffer.
AfterPublish(outcome) == IF outcome = "acked" THEN "select" ELSE "push"

PublishResult(t) ==
    /\ tpc[t] = "publish"
    /\ \E outcome \in Outcomes :
        /\ Publish(InHand(t), outcome)
        /\ tpc' = [tpc EXCEPT ![t] = AfterPublish(outcome)]
    /\ UNCHANGED <<run, ctxDone, produced, hpc, dpc, bufferVars, drainVars, link,
                   dropped>>

MutexIgnored == TRUE

\* Drain holds the mutex from its first to its last handler call.
MutexFree == dpc # "drain"

Fits(size) == curSize + size <= MaxSize

\* Push: refused with ErrBufferFull, after which the result is dropped, or stored.
Push(t) ==
    LET size == MsgSize[InHand(t)] IN
    /\ tpc[t] = "push"
    /\ MutexFree
    /\ IF Fits(size)
       THEN /\ messages' = Append(messages, InHand(t))
            /\ curSize' = curSize + size
            /\ UNCHANGED dropped
       ELSE /\ dropped' = dropped \cup {InHand(t)}
            /\ UNCHANGED bufferVars
    /\ tpc' = [tpc EXCEPT ![t] = "select"]
    /\ UNCHANGED <<run, ctxDone, produced, hpc, dpc, drainVars, link, brokerVars>>

ExitTestLoopWhenIdle(t) ==
    /\ tpc[t] = "select"
    /\ ctxDone
    /\ messages = <<>>
    /\ tpc' = [tpc EXCEPT ![t] = "exited"]
    /\ UNCHANGED <<run, ctxDone, produced, hpc, dpc, bufferVars, drainVars, link,
                   brokerVars, dropped>>

ExitTestLoop(t) ==
    /\ tpc[t] = "select"
    /\ ctxDone
    /\ tpc' = [tpc EXCEPT ![t] = "exited"]
    /\ UNCHANGED <<run, ctxDone, produced, hpc, dpc, bufferVars, drainVars, link,
                   brokerVars, dropped>>

-----------------------------------------------------------------------------
(* heartbeatLoop: a failed heartbeat is logged and forgotten.              *)

HeartbeatTick ==
    /\ hpc = "select"
    /\ hpc' = "publish"
    /\ UNCHANGED <<run, ctxDone, tpc, produced, dpc, bufferVars, drainVars, link,
                   brokerVars, dropped>>

\* Nothing consumes the heartbeat topic, so the broker's copy is not kept here.
SendHeartbeat ==
    /\ hpc = "publish"
    /\ hpc' = "select"
    /\ UNCHANGED <<run, ctxDone, tpc, produced, dpc, bufferVars, drainVars, link,
                   brokerVars, dropped>>

ExitHeartbeatLoop ==
    /\ hpc = "select"
    /\ ctxDone
    /\ hpc' = "exited"
    /\ UNCHANGED <<run, ctxDone, tpc, produced, dpc, bufferVars, drainVars, link,
                   brokerVars, dropped>>

-----------------------------------------------------------------------------
(* bufferDrainLoop and MemoryBuffer.Drain.                                 *)

DrainTickAboveOne ==
    /\ dpc = "select"
    /\ Len(messages) > 1
    /\ dpc' = "drain"
    /\ todo' = messages /\ remaining' = <<>> /\ remainingSize' = 0
    /\ UNCHANGED <<run, ctxDone, tpc, produced, hpc, bufferVars, link, brokerVars,
                   dropped>>

\* The ticker fired and the buffer is not empty: Drain takes the mutex.  With
\* an empty buffer the loop does nothing, which is no step at all.
DrainTick ==
    /\ dpc = "select"
    /\ Len(messages) # 0
    /\ dpc' = "drain"
    /\ todo' = messages /\ remaining' = <<>> /\ remainingSize' = 0
    /\ UNCHANGED <<run, ctxDone, tpc, produced, hpc, bufferVars, link, brokerVars,
                   dropped>>

KeepUnlessFailed(r, outcome) ==
    IF outcome = "failed" THEN remaining ELSE Append(remaining, r)

KeepInFront(r, outcome) ==
    IF outcome = "acked" THEN remaining ELSE <<r>> \o remaining

\* A message stays for the next attempt exactly when its handler failed.
Keep(r, outcome) ==
    IF outcome = "acked" THEN remaining ELSE Append(remaining, r)

\* One iteration of Drain's loop over the messages it found; an error does not
\* end the loop.
DrainStep ==
    /\ dpc = "drain"
    /\ todo # <<>>
    /\ \E outcome \in Outcomes :
        /\ Publish(Head(todo), outcome)
        /\ remaining' = Keep(Head(todo), outcome)
        /\ remainingSize' = IF outcome = "acked" THEN remainingSize
                            ELSE remainingSize + MsgSize[Head(todo)]
    /\ todo' = Tail(todo)
    /\ UNCHANGED <<run, ctxDone, tpc, produced, hpc, dpc, bufferVars, link, dropped>>

DrainFinishKeepingSize ==
    /\ dpc = "drain"
    /\ todo = <<>>
    /\ messages' = remaining
    /\ curSize' = curSize
    /\ todo' = <<>> /\ remaining' = <<>> /\ remainingSize' = 0
    /\ dpc' = "select"
    /\ UNCHANGED <<run, ctxDone, tpc, produced, hpc, link, brokerVars, dropped>>

DrainFinishEmptying ==
    /\ dpc = "drain"
    /\ todo = <<>>
    /\ messages' = <<>>
    /\ curSize' = 0
    /\ todo' = <<>> /\ remaining' = <<>> /\ remainingSize' = 0
    /\ dpc' = "select"
    /\ UNCHANGED <<run, ctxDone, tpc, produced, hpc, link, brokerVars, dropped>>

\* The loop is over: the buffer becomes what was kept and the mutex is released.
DrainFinish ==
    /\ dpc = "drain"
    /\ todo = <<>>
    /\ messages' = remaining
    /\ curSize' = remainingSize
    /\ todo' = <<>> /\ remaining' = <<>> /\ remainingSize' = 0
    /\ dpc' = "select"
    /\ UNCHANGED <<run, ctxDone, tpc, produced, hpc, link, brokerVars, dropped>>

ExitDrainLoop ==
    /\ dpc = "select"
    /\ ctxDone
    /\ dpc' = "exited"
    /\ UNCHANGED <<run, ctxDone, tpc, produced, hpc, bufferVars, drainVars, link,
                   brokerVars, dropped>>

-----------------------------------------------------------------------------
(* Run and main.                                                           *)

\* Stop, SIGINT or SIGTERM cancels the context.
Cancel ==
    /\ run = "running"
    /\ ~ctxDone
    /\ ctxDone' = TRUE
    /\ UNCHANGED <<run, tpc, produced, hpc, dpc, bufferVars, drainVars, link,
                   brokerVars, dropped>>

AllExited == (\A t \in Tests : tpc[t] = "exited") /\ hpc = "exited" /\ dpc = "exited"

\* The memory of the process, and the buffer in it, is gone.
EndProcess ==
    /\ run' = "stopped"
    /\ tpc' = [t \in Tests |-> "exited"]
    /\ hpc' = "exited" /\ dpc' = "exited"
    /\ messages' = <<>> /\ curSize' = 0
    /\ todo' = <<>> /\ remaining' = <<>> /\ remainingSize' = 0
    /\ UNCHANGED <<ctxDone, produced, link, brokerVars, dropped>>

\* wg.Wait returns, then Run and main return.
Stopped ==
    /\ run = "running"
    /\ ctxDone
    /\ AllExited
    /\ EndProcess

\* The process is killed at any point (OOM, SIGKILL, power).
Crash ==
    /\ run = "running"
    /\ EndProcess

TestStep(t) ==
    \/ Tick(t) \/ Executed(t) \/ Panicked(t) \/ MarshalFailed(t)
    \/ PublishResult(t) \/ Push(t) \/ ExitTestLoop(t)

DrainLoop == DrainTick \/ DrainStep \/ DrainFinish \/ ExitDrainLoop

HeartbeatLoop == HeartbeatTick \/ SendHeartbeat \/ ExitHeartbeatLoop

Next ==
    \/ \E t \in Tests : TestStep(t)
    \/ DrainLoop
    \/ HeartbeatLoop
    \/ LinkChange \/ Cancel \/ Stopped \/ Crash

\* A Publish call returns once the broker can answer it or the context is done;
\* while the transport is down it may wait for the connection for ever.
PublishReturns == link = "up" \/ ctxDone

\* A goroutine that can run does run; a select whose ctx.Done case is ready
\* time and again takes it, and a goroutine waiting for the mutex gets it
\* (Go's select chooses at random, its mutex has a starvation mode).  Nothing
\* is assumed of the transport, of cancellation or of crashes.
Fairness ==
    /\ \A t \in Tests :
        /\ WF_vars(Executed(t) \/ Panicked(t))
        /\ WF_vars(PublishReturns /\ PublishResult(t))
        /\ SF_vars(Push(t))
        /\ SF_vars(ExitTestLoop(t))
    /\ WF_vars(PublishReturns /\ SendHeartbeat)
    /\ SF_vars(ExitHeartbeatLoop)
    /\ WF_vars(DrainTick)
    /\ WF_vars(PublishReturns /\ DrainStep)
    /\ WF_vars(DrainFinish)
    /\ SF_vars(ExitDrainLoop)
    /\ WF_vars(Stopped)

Spec == Init /\ [][Next]_vars

FairSpec == Spec /\ Fairness

-----------------------------------------------------------------------------
(* Correctness.  The operators named after a fault (MutexIgnored,           *)
(* ExitTestLoopWhenIdle, DrainTickAboveOne, KeepUnlessFailed, KeepInFront,  *)
(* DrainFinishKeepingSize, DrainFinishEmptying) are regressions of the      *)
(* definition that follows each of them; no specification uses them.  They  *)
(* show that the properties below can fail.                                 *)

Buffered == Range(messages)
Held == {InHand(t) : t \in {u \in Tests : tpc[u] \in {"publish", "push"}}}
Stored == {e.res : e \in Range(log)}
Produced == {r \in Results : r[2] <= produced[r[1]]}

\* While the agent runs, no result disappears: whatever a canary produced is in
\* the hands of its goroutine, in the buffer, stored by the broker, or was
\* logged as dropped, also in the middle of a drain whose publishes fail.
NothingSilentlyLost ==
    run = "running" => Produced \subseteq Held \cup Buffered \cup Stored \cup dropped

\* A result the broker has acknowledged to the agent is not published again by
\* it: duplicates come only from publishes whose acknowledgement was lost.
AckedOnce ==
    \A i \in DOMAIN log, j \in DOMAIN log :
        i < j /\ log[i].res = log[j].res => ~log[i].acked

Ascending(s) ==
    \A i, j \in DOMAIN s : i < j /\ s[i][1] = s[j][1] => s[i][2] < s[j][2]

\* The buffer holds the results of one test in the order in which they were
\* produced, and a drain has them in that order, whatever its publishes do: a
\* result is overtaken on its way to the broker only if its own publish failed.
BufferInOrder == Ascending(messages) /\ Ascending(remaining \o todo)

\* The length of what a buffer holds, up to each of its messages.
BytesUpTo(s) ==
    LET upTo[n \in 0 .. Len(s)] == IF n = 0 THEN 0 ELSE upTo[n - 1] + MsgSize[s[n]]
    IN  upTo

Bytes(s) == BytesUpTo(s)[Len(s)]

\* MemoryBuffer.curSize is the number of bytes buffered, between and during
\* drains, and never exceeds the configured maximum; Drain recomputes it while
\* pushes wait for the mutex.
SizeAccounting ==
    /\ curSize = Bytes(messages)
    /\ curSize <= MaxSize
    /\ dpc = "drain" => remainingSize = Bytes(remaining)

\* After cancellation every goroutine returns and so does Run, even if the
\* transport is down and the buffer is being drained.
ShutdownTerminates == ctxDone ~> run = "stopped"

Connected == run = "running" /\ ~ctxDone /\ link = "up"

\* If the transport stays up and the agent keeps running, the buffer drains
\* completely and stays empty.
BufferDrains == <>[]Connected => <>[](messages = <<>>)

\* The agent implements ResultDelivery.
Status(r) ==
    IF r \in Stored THEN "delivered"
    ELSE IF r \in dropped THEN "dropped"
    ELSE IF r \notin Produced THEN "none"
    ELSE IF r \in Held \cup Buffered THEN "pending"
    ELSE "lost"

Delivery == INSTANCE ResultDelivery
                WITH status <- [r \in Results |-> Status(r)],
                     alive <- run = "running"

DeliverySpec == Delivery!Spec
=============================================================================
