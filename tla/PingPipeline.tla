---------------------------- MODULE PingPipeline ----------------------------
(***************************************************************************)
(* One ping test from probe to gauge: the ping canary's Execute, the       *)
(* agent's executeTest around it and the processor's handlePingResult.     *)
(*                                                                         *)
(* Execute starts a goroutine that runs the pinger and selects on its      *)
(* result and on the test's context.  Both have the same timeout, but the  *)
(* context's clock starts first, in executeTest.  Delivery from agent to   *)
(* processor is modelled in Agent and Processor and is immediate here.     *)
(***************************************************************************)
EXTENDS Naturals

CONSTANTS
    Count,      \* packets per test
    MaxRuns,    \* bound: executions of the test
    None

Runs == 1 .. MaxRuns

VARIABLES
    run,        \* current or last execution, 0 before the first
    pc,         \* of the test's goroutine
    sent,       \* packets of each execution, while Execute waits for it
    received,   \* replies to them
    ctxDone,    \* its context is done: expired or cancelled
    cancelled,  \* cancelled because the agent stops
    gpc,        \* the pinger goroutine of each execution: what it runs or sends
    done,       \* channel of capacity 1, one per execution
    loss,       \* pinger statistics of a result: which part was lost, or None
    pingPacketLoss  \* the gauge

vars == <<run, pc, sent, received, ctxDone, cancelled, gpc, done, loss, pingPacketLoss>>

\* A ratio of lost packets: 0, 1 or between.
Losses == {"none", "some", "total"}

ASSUME PingAssumption ==
    Count \in Nat \ {0} /\ MaxRuns \in Nat /\ None \notin Losses \cup {"ok", "error"}

TypeOK ==
    /\ run \in 0 .. MaxRuns
    /\ pc \in {"idle", "select", "publish"}
    /\ sent \in [Runs -> 0 .. Count] /\ received \in [Runs -> 0 .. Count]
    /\ ctxDone \in BOOLEAN /\ cancelled \in BOOLEAN
    /\ gpc \in [Runs -> {"none", "pinging", "ok", "error", "exited"}]
    /\ done \in [Runs -> {None, "ok", "error"}]
    /\ loss \in Losses \cup {None}
    /\ pingPacketLoss \in Losses \cup {None}

Init ==
    /\ run = 0
    /\ pc = "idle"
    /\ sent = [r \in Runs |-> 0] /\ received = [r \in Runs |-> 0]
    /\ ctxDone = FALSE
    /\ cancelled = FALSE
    /\ gpc = [r \in Runs |-> "none"]
    /\ done = [r \in Runs |-> None]
    /\ loss = None
    /\ pingPacketLoss = None

-----------------------------------------------------------------------------
(* Execute.                                                                *)

\* A new context, and a goroutine that runs the pinger.  The loop that waits for the
\* ticker and for the agent's stop may pick the ticker when both are there.
Execute ==
    /\ pc = "idle"
    /\ run < MaxRuns
    /\ run' = run + 1
    /\ ctxDone' = cancelled
    /\ gpc' = [gpc EXCEPT ![run + 1] = "pinging"]
    /\ pc' = "select"
    /\ UNCHANGED <<sent, received, cancelled, done, loss, pingPacketLoss>>

\* The configuration or the target's name is no good: an error before any probe.
ExecuteFails ==
    /\ pc = "idle"
    /\ run < MaxRuns
    /\ run' = run + 1
    /\ ctxDone' = cancelled
    /\ loss' = None
    /\ pc' = "publish"
    /\ UNCHANGED <<sent, received, cancelled, gpc, done, pingPacketLoss>>

\* The pinger sends the first packet at once and one per interval.
SendPacket ==
    /\ pc = "select"
    /\ gpc[run] = "pinging"
    /\ sent[run] < Count
    /\ sent' = [sent EXCEPT ![run] = @ + 1]
    /\ UNCHANGED <<run, pc, received, ctxDone, cancelled, gpc, done, loss, pingPacketLoss>>

Reply ==
    /\ pc = "select"
    /\ gpc[run] = "pinging"
    /\ received[run] < sent[run]
    /\ received' = [received EXCEPT ![run] = @ + 1]
    /\ UNCHANGED <<run, pc, sent, ctxDone, cancelled, gpc, done, loss, pingPacketLoss>>

\* pinger.Run returns: all replies are there, or its own timeout (which is up
\* after the context's) or Stop ends it.
PingerReturns(r) ==
    /\ gpc[r] = "pinging"
    /\ \/ received[r] = Count
       \/ ctxDone /\ sent[r] > 0
       \/ r # run \/ pc # "select"
    /\ gpc' = [gpc EXCEPT ![r] = "ok"]
    /\ UNCHANGED <<run, pc, sent, received, ctxDone, cancelled, done, loss, pingPacketLoss>>

\* It can fail at any time, for want of a socket say.
PingerFails(r) ==
    /\ gpc[r] = "pinging"
    /\ gpc' = [gpc EXCEPT ![r] = "error"]
    /\ UNCHANGED <<run, pc, sent, received, ctxDone, cancelled, done, loss, pingPacketLoss>>

SendUnbuffered(r) ==
    /\ gpc[r] \in {"ok", "error"}
    /\ r = run /\ pc = "select"
    /\ gpc' = [gpc EXCEPT ![r] = "exited"]
    /\ done' = [done EXCEPT ![r] = gpc[r]]
    /\ UNCHANGED <<run, pc, sent, received, ctxDone, cancelled, loss, pingPacketLoss>>

\* done <- pinger.Run(): the channel's buffer takes the value, reader or not.
SendDone(r) ==
    /\ gpc[r] \in {"ok", "error"}
    /\ gpc' = [gpc EXCEPT ![r] = "exited"]
    /\ done' = [done EXCEPT ![r] = gpc[r]]
    /\ UNCHANGED <<run, pc, sent, received, ctxDone, cancelled, loss, pingPacketLoss>>

CtxExpires ==
    /\ pc = "select"
    /\ ~ctxDone
    /\ ctxDone' = TRUE
    /\ UNCHANGED <<run, pc, sent, received, cancelled, gpc, done, loss, pingPacketLoss>>

\* The agent stops: the context of a running test is cancelled.
Cancel ==
    /\ ~cancelled
    /\ cancelled' = TRUE
    /\ ctxDone' = (pc = "select" \/ ctxDone)
    /\ UNCHANGED <<run, pc, sent, received, gpc, done, loss, pingPacketLoss>>

SelectCtxOnlyIfCancelled ==
    /\ pc = "select"
    /\ cancelled
    /\ loss' = None
    /\ pc' = "publish"
    /\ UNCHANGED <<run, sent, received, ctxDone, cancelled, gpc, done, pingPacketLoss>>

\* case <-ctx.Done(): Stop and return the context's error, without statistics.
SelectCtx ==
    /\ pc = "select"
    /\ ctxDone
    /\ loss' = None
    /\ pc' = "publish"
    /\ UNCHANGED <<run, sent, received, ctxDone, cancelled, gpc, done, pingPacketLoss>>

ReceivedOfSent ==
    CASE received[run] = 0 -> "none"
      [] received[run] = sent[run] /\ received[run] > 0 -> "total"
      [] OTHER -> "some"

\* Statistics().PacketLoss / 100: what was lost of the packets sent so far.
PacketLoss ==
    CASE received[run] = 0 -> "total"
      [] received[run] = sent[run] /\ received[run] > 0 -> "none"
      [] OTHER -> "some"

\* case err := <-done, with or without an error.
SelectDone ==
    /\ pc = "select"
    /\ done[run] # None
    /\ loss' = IF done[run] = "ok" THEN PacketLoss ELSE None
    /\ done' = [done EXCEPT ![run] = None]
    /\ pc' = "publish"
    /\ UNCHANGED <<run, sent, received, ctxDone, cancelled, gpc, pingPacketLoss>>

-----------------------------------------------------------------------------
\* executeTest turns an error into a result without metrics, which are null in
\* the message and decode to a loss of 0 in handlePingResult.
Record ==
    /\ pc = "publish"
    /\ pingPacketLoss' = IF loss = None THEN "none" ELSE loss
    /\ pc' = "idle"
    /\ UNCHANGED <<run, sent, received, ctxDone, cancelled, gpc, done, loss>>

Next ==
    \/ Execute \/ ExecuteFails \/ SendPacket \/ Reply \/ CtxExpires \/ Cancel
    \/ SelectCtx \/ SelectDone \/ Record
    \/ \E r \in Runs : PingerReturns(r) \/ PingerFails(r) \/ SendDone(r)

Spec == Init /\ [][Next]_vars

\* Timers fire, the goroutines run and a stopped pinger returns.  A pinger that
\* is not stopped may hang, and no reply has to come.
FairSpec ==
    /\ Spec
    /\ WF_vars(CtxExpires) /\ WF_vars(SelectCtx \/ SelectDone) /\ WF_vars(Record)
    /\ \A r \in Runs : WF_vars(PingerReturns(r) /\ pc # "select") /\ WF_vars(SendDone(r))

-----------------------------------------------------------------------------
(* Correctness.  SendUnbuffered, SelectCtxOnlyIfCancelled and ReceivedOfSent *)
(* are regressions of the definitions after them, which nothing else uses.   *)

\* The gauge never shows a total loss after a test that got a reply: the alert
\* NetVantagePingTargetUnreachable has no false positive.
NoFalseTotalLoss ==
    pc = "idle" /\ pingPacketLoss = "total" => received[run] = 0

\* A test ends even if its pinger hangs: the select also waits for the context.
TestEnds == pc = "select" ~> pc = "idle"

\* A channel with room for one value gives every pinger's send a place: nothing was
\* sent on it before, so done <- pinger.Run() cannot block, whoever has left.
SendFindsRoom == \A r \in Runs : gpc[r] \in {"ok", "error"} => done[r] = None

\* No pinger goroutine stays behind: its send does not wait for a reader.
NoGoroutineLeft == \A r \in Runs : gpc[r] \in {"ok", "error"} ~> gpc[r] = "exited"

\* ping_alerts.yml: "Fires when packet loss reaches 100% - target is completely
\* unreachable".  After a test that was not cancelled, sent packets and got no reply
\* the gauge shows a total loss.
UnreachableIsTotalLoss ==
    pc = "idle" /\ run > 0 /\ gpc[run] # "none" /\ ~cancelled /\ sent[run] > 0 /\ received[run] = 0 =>
        pingPacketLoss = "total"
=============================================================================
