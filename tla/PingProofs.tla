----------------------------- MODULE PingProofs -----------------------------
(***************************************************************************)
(* Proofs about the ping pipeline for any number of packets and executions. *)
(***************************************************************************)
EXTENDS PingPipeline, TLAPS

\* What a test that is over hands to Record, or has recorded, is about its own
\* replies: none arrives any more.
LossInv ==
    /\ pc # "idle" => run \in Runs
    /\ pc = "publish" /\ loss = "total" => received[run] = 0
    /\ NoFalseTotalLoss

PingInv == TypeOK /\ LossInv

LEMMA InitPing == Init => PingInv
<1> SUFFICES ASSUME Init PROVE PingInv
  OBVIOUS
<1>1. TypeOK
  <2>1. ctxDone \in BOOLEAN /\ cancelled \in BOOLEAN
    BY DEF Init
  <2>2. /\ run \in 0 .. MaxRuns /\ pc \in {"idle", "select", "publish"}
        /\ received \in [Runs -> 0 .. Count] /\ done \in [Runs -> {None, "ok", "error"}]
        /\ gpc \in [Runs -> {"none", "pinging", "ok", "error", "exited"}]
        /\ loss \in Losses \cup {None} /\ pingPacketLoss \in Losses \cup {None}
        /\ sent \in [Runs -> 0 .. Count]
    BY PingAssumption DEF Init, Runs, Losses
  <2> QED BY <2>1, <2>2 DEF TypeOK
<1>2. LossInv
  BY PingAssumption DEF Init, LossInv, NoFalseTotalLoss, Losses
<1> QED BY <1>1, <1>2 DEF PingInv

LEMMA NextPing == PingInv /\ [Next]_vars => PingInv'
<1> SUFFICES ASSUME PingInv, [Next]_vars PROVE PingInv'
  OBVIOUS
<1> USE PingAssumption DEF PingInv, TypeOK, LossInv, NoFalseTotalLoss, Runs, Losses
<1>1. CASE Execute
  <2>1. run + 1 \in Runs
    BY <1>1 DEF Execute
  <2>2. gpc' \in [Runs -> {"none", "pinging", "ok", "error", "exited"}]
    BY <1>1 DEF Execute
  <2>3. ctxDone' \in BOOLEAN /\ cancelled' \in BOOLEAN
    BY <1>1, Zenon DEF Execute
  <2> QED BY <1>1, <2>1, <2>2, <2>3 DEF Execute
<1>2. CASE ExecuteFails
  <2>1. run + 1 \in Runs
    BY <1>2 DEF ExecuteFails
  <2>2. ctxDone' \in BOOLEAN /\ cancelled' \in BOOLEAN
    BY <1>2, Zenon DEF ExecuteFails
  <2> QED BY <1>2, <2>1, <2>2 DEF ExecuteFails
<1>3. CASE SendPacket \/ Reply
  <2>1. CASE SendPacket
    BY <2>1 DEF SendPacket
  <2>2. CASE Reply
    <3>1. run \in Runs /\ received[run] + 1 \in 0 .. Count
      BY <2>2 DEF Reply
    <3> QED BY <2>2, <3>1 DEF Reply
  <2> QED BY <1>3, <2>1, <2>2
<1>4. CASE CtxExpires
  BY <1>4 DEF CtxExpires
<1>5. CASE Cancel
  BY <1>5 DEF Cancel
<1>6. CASE SelectCtx
  BY <1>6 DEF SelectCtx
<1>7. CASE SelectDone
  <2>1. run \in Runs /\ received[run] \in 0 .. Count
    BY <1>7 DEF SelectDone
  <2>2. loss' \in Losses \cup {None} /\ (loss' = "total" => received[run] = 0)
    BY <1>7, <2>1 DEF SelectDone, PacketLoss, Losses
  <2> QED BY <1>7, <2>1, <2>2 DEF SelectDone
<1>8. CASE Record
  BY <1>8 DEF Record
<1>9. ASSUME NEW r \in Runs, PingerReturns(r) \/ PingerFails(r) PROVE PingInv'
  BY <1>9 DEF PingerReturns, PingerFails
<1>10. ASSUME NEW r \in Runs, SendDone(r) PROVE PingInv'
  BY <1>10 DEF SendDone
<1>11. CASE UNCHANGED vars
  BY <1>11 DEF vars
<1> QED BY <1>1, <1>2, <1>3, <1>4, <1>5, <1>6, <1>7, <1>8, <1>9, <1>10, <1>11 DEF Next

LEMMA PingInvariant == Spec => []PingInv
  BY InitPing, NextPing, PTL DEF Spec

\* The variables keep their types: replies, and packets, stay within the count.
THEOREM PingTypeCorrect == Spec => []TypeOK
<1>1. PingInv => TypeOK
  BY DEF PingInv
<1> QED BY <1>1, PingInvariant, PTL

\* However the pinger, the deadline and the agent's stop interleave, and whatever is
\* left behind by earlier executions, the packet loss gauge shows a total loss only
\* after a test that got no reply.
THEOREM NoFalseAlarm == Spec => []NoFalseTotalLoss
<1>1. PingInv => NoFalseTotalLoss
  BY DEF PingInv, LossInv
<1> QED BY <1>1, PingInvariant, PTL

-----------------------------------------------------------------------------
(* The pinger's send never waits.                                          *)

\* Nothing was sent on the channel of a goroutine that has not sent yet, and the
\* executions to come have neither a goroutine nor a value on their channel.
ChannelInv ==
    \A r \in Runs :
        /\ gpc[r] # "exited" => done[r] = None
        /\ r > run => gpc[r] = "none"

LEMMA NextChannel == TypeOK /\ ChannelInv /\ [Next]_vars => ChannelInv'
<1> SUFFICES ASSUME TypeOK, ChannelInv, [Next]_vars PROVE ChannelInv'
  OBVIOUS
<1> USE PingAssumption DEF TypeOK, ChannelInv, Runs
<1>1. CASE Execute
  <2>1. run + 1 \in Runs /\ gpc[run + 1] = "none" /\ run' = run + 1 /\ done' = done
    BY <1>1 DEF Execute
  <2>2. \A r \in Runs : gpc'[r] = IF r = run + 1 THEN "pinging" ELSE gpc[r]
    BY <1>1 DEF Execute
  <2> QED BY <2>1, <2>2
<1>2. CASE ExecuteFails
  BY <1>2 DEF ExecuteFails
<1>3. CASE SendPacket \/ Reply \/ CtxExpires \/ Cancel \/ SelectCtx \/ Record
  BY <1>3 DEF SendPacket, Reply, CtxExpires, Cancel, SelectCtx, Record
<1>4. CASE SelectDone
  BY <1>4 DEF SelectDone
<1>5. ASSUME NEW r \in Runs, PingerReturns(r) \/ PingerFails(r) PROVE ChannelInv'
  BY <1>5 DEF PingerReturns, PingerFails
<1>6. ASSUME NEW r \in Runs, SendDone(r) PROVE ChannelInv'
  BY <1>6 DEF SendDone
<1>7. CASE UNCHANGED vars
  BY <1>7 DEF vars
<1> QED BY <1>1, <1>2, <1>3, <1>4, <1>5, <1>6, <1>7 DEF Next

\* However many executions time out while their pinger still runs, each pinger has a
\* place for its result in a channel of its own: none of them blocks on its send.
THEOREM PingerNeverBlocks == Spec => []SendFindsRoom
<1>1. Init => ChannelInv
  BY DEF Init, ChannelInv, Runs
<1>2. ChannelInv => SendFindsRoom
  BY DEF ChannelInv, SendFindsRoom
<1>3. PingInv => TypeOK
  BY DEF PingInv
<1> QED BY <1>1, <1>2, <1>3, PingInvariant, NextChannel, PTL DEF Spec
=============================================================================
