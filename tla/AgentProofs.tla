---------------------------- MODULE AgentProofs ----------------------------
(***************************************************************************)
(* Proofs about Agent for any set of tests, any number and any size of      *)
(* results and any buffer limit.                                            *)
(***************************************************************************)
EXTENDS Agent, WellFoundedInduction, TLAPS

\* What a goroutine's program counter says about its counters.
Counters ==
    \A t \in Tests :
        /\ tpc[t] = "execute" => produced[t] < MaxTicks
        /\ tpc[t] \in {"publish", "push"} => produced[t] # 0

TypeInv == TypeOK /\ Counters

USE DEF bufferVars, drainVars, brokerVars

\* The result a publishing goroutine holds is one of the results.
LEMMA InHandType ==
    ASSUME TypeInv, NEW t \in Tests, tpc[t] \in {"publish", "push"}
    PROVE  InHand(t) \in Results
<1>1. produced[t] \in 1..MaxTicks
  BY AgentAssumption DEF TypeInv, TypeOK, Counters
<1> QED BY <1>1 DEF InHand, Results

\* Publish keeps the broker's log and the count of lost acknowledgements typed.
LEMMA PublishType ==
    ASSUME TypeOK, NEW r \in Results, NEW outcome \in Outcomes, Publish(r, outcome)
    PROVE  log' \in Seq(LogEntry) /\ unacked' \in 0..MaxUnacked
<1>1. [res |-> r, acked |-> outcome = "acked"] \in LogEntry
  BY DEF LogEntry
<1>2. log' \in Seq(LogEntry)
  BY <1>1 DEF Publish, TypeOK
<1>3. unacked' \in 0..MaxUnacked
  BY AgentAssumption DEF Publish, TypeOK
<1> QED BY <1>2, <1>3

\* The goroutines start well typed.
LEMMA InitType == Init => TypeInv
<1> SUFFICES ASSUME Init PROVE TypeInv
  OBVIOUS
<1>1. TypeOK
  <2>1. tpc \in [Tests -> {"select", "execute", "publish", "push", "exited"}]
    BY DEF Init
  <2>2. produced \in [Tests -> 0..MaxTicks]
    BY AgentAssumption DEF Init
  <2>3. messages \in Seq(Results) /\ remaining \in Seq(Results) /\ log \in Seq(LogEntry)
    BY DEF Init
  <2>4. unacked \in 0..MaxUnacked
    BY AgentAssumption DEF Init
  <2> QED BY <2>1, <2>2, <2>3, <2>4 DEF Init, TypeOK
<1>2. ASSUME NEW t \in Tests PROVE tpc[t] \in {"select", "exited"}
  BY DEF Init
<1>3. Counters
  BY <1>2 DEF Init, Counters
<1> QED BY <1>1, <1>3 DEF TypeInv

\* A step of a test goroutine (testLoop, publishResult, Push) keeps types.
LEMMA TestStepType ==
    ASSUME TypeInv, NEW t \in Tests, TestStep(t)
    PROVE  TypeInv'
<1> USE DEF TypeInv, TypeOK, Counters
<1>1. CASE Tick(t)
  <2>1. Ticks[t] \in 0..MaxTicks
    BY AgentAssumption
  <2>2. produced[t] < MaxTicks
    BY <1>1, <2>1, AgentAssumption DEF Tick
  <2> QED BY <1>1, <2>2 DEF Tick
<1>2. CASE Executed(t)
  BY <1>2, AgentAssumption DEF Executed
<1>3. CASE Panicked(t)
  BY <1>3 DEF Panicked
<1>4. CASE MarshalFailed(t)
  <2>1. InHand(t) \in Results BY <1>4, InHandType DEF MarshalFailed
  <2> QED BY <1>4, <2>1 DEF MarshalFailed
<1>5. CASE PublishResult(t)
  <2>1. InHand(t) \in Results BY <1>5, InHandType DEF PublishResult
  <2>2. log' \in Seq(LogEntry) /\ unacked' \in 0..MaxUnacked
    BY <1>5, <2>1, PublishType DEF PublishResult
  <2> QED BY <1>5, <2>2 DEF PublishResult, AfterPublish
<1>6. CASE Push(t)
  <2>1. InHand(t) \in Results BY <1>6, InHandType DEF Push
  <2>2. MsgSize[InHand(t)] \in Nat BY <2>1, AgentAssumption
  <2>3. CASE Fits(MsgSize[InHand(t)])
    <3>1. dpc' # "drain" BY <1>6 DEF Push, MutexFree
    <3>2. messages' = Append(messages, InHand(t)) /\ curSize' = curSize + MsgSize[InHand(t)]
      BY <1>6, <2>3 DEF Push
    <3>3. tpc' = [tpc EXCEPT ![t] = "select"]
      BY <1>6 DEF Push
    <3>4. messages' \in Seq(Results) /\ curSize' \in Nat
      BY <2>1, <2>2, <3>2
    <3> QED BY <1>6, <2>3, <3>1, <3>3, <3>4 DEF Push
  <2>4. CASE ~Fits(MsgSize[InHand(t)])
    BY <1>6, <2>1, <2>4 DEF Push
  <2> QED BY <2>3, <2>4
<1>7. CASE ExitTestLoop(t)
  BY <1>7 DEF ExitTestLoop
<1> QED BY <1>1, <1>2, <1>3, <1>4, <1>5, <1>6, <1>7 DEF TestStep

\* A step of bufferDrainLoop, inside Drain or not, keeps types.
LEMMA DrainLoopType ==
    ASSUME TypeInv, DrainLoop
    PROVE  TypeInv'
<1> USE DEF TypeInv, TypeOK, Counters
<1>1. CASE DrainTick
  BY <1>1 DEF DrainTick
<1>2. CASE DrainStep
  <2>1. Head(todo) \in Results
    BY <1>2 DEF DrainStep
  <2>2. log' \in Seq(LogEntry) /\ unacked' \in 0..MaxUnacked
    BY <1>2, <2>1, PublishType DEF DrainStep
  <2>3. MsgSize[Head(todo)] \in Nat
    BY <2>1, AgentAssumption
  <2>4. remaining' \in Seq(Results) /\ remainingSize' \in Nat
    BY <1>2, <2>1, <2>3 DEF DrainStep, Keep
  <2> QED BY <1>2, <2>2, <2>4 DEF DrainStep
<1>3. CASE DrainFinish
  BY <1>3 DEF DrainFinish
<1>4. CASE ExitDrainLoop
  BY <1>4 DEF ExitDrainLoop
<1> QED BY <1>1, <1>2, <1>3, <1>4 DEF DrainLoop

\* Every step of the agent keeps types.
LEMMA NextType == TypeInv /\ [Next]_vars => TypeInv'
<1> SUFFICES ASSUME TypeInv, [Next]_vars PROVE TypeInv'
  OBVIOUS
<1>1. ASSUME NEW t \in Tests, TestStep(t) PROVE TypeInv'
  BY <1>1, TestStepType
<1>2. CASE DrainLoop
  BY <1>2, DrainLoopType
<1>3. CASE HeartbeatLoop
  BY <1>3 DEF TypeInv, TypeOK, Counters, HeartbeatLoop, HeartbeatTick,
              SendHeartbeat, ExitHeartbeatLoop
<1>4. CASE LinkChange \/ Cancel
  BY <1>4 DEF TypeInv, TypeOK, Counters, LinkChange, Cancel
<1>5. CASE Stopped \/ Crash
  <2>1. EndProcess
    BY <1>5 DEF Stopped, Crash
  <2>2. messages' \in Seq(Results) /\ remaining' \in Seq(Results)
    BY <2>1 DEF EndProcess
  <2>3. TypeOK'
    BY <2>1, <2>2 DEF TypeInv, TypeOK, EndProcess
  <2>4. Counters'
    BY <2>1 DEF Counters, EndProcess
  <2> QED BY <2>3, <2>4 DEF TypeInv
<1>6. CASE UNCHANGED vars
  BY <1>6 DEF TypeInv, TypeOK, Counters, vars
<1> QED BY <1>1, <1>2, <1>3, <1>4, <1>5, <1>6 DEF Next

\* Every variable of the agent keeps its type in every reachable state.
THEOREM TypeCorrect == Spec => []TypeOK
<1>1. TypeInv => TypeOK BY DEF TypeInv
<1> QED BY <1>1, InitType, NextType, PTL DEF Spec

-----------------------------------------------------------------------------
(* No result is lost while the agent runs.                                 *)

Accounted == Held \cup Buffered \cup Stored \cup dropped

\* During a drain, a buffered message is still to be replayed, kept for the next
\* attempt or stored by the broker.
DrainKeeps ==
    dpc = "drain" =>
        \A i \in DOMAIN messages :
            messages[i] \in Range(todo) \cup Range(remaining) \cup Stored

IInv == TypeInv /\ DrainKeeps /\ NothingSilentlyLost

\* The elements of a sequence after an append.
LEMMA RangeAppend ==
    ASSUME NEW S, NEW s \in Seq(S), NEW e \in S
    PROVE  Range(Append(s, e)) = Range(s) \cup {e}
<1>1. DOMAIN Append(s, e) = 1..(Len(s) + 1)
  OBVIOUS
<1>2. DOMAIN s = 1..Len(s)
  OBVIOUS
<1>3. \A i \in 1..Len(s) : Append(s, e)[i] = s[i]
  OBVIOUS
<1>4. Append(s, e)[Len(s) + 1] = e
  OBVIOUS
<1>5. Len(s) \in Nat
  OBVIOUS
<1>6. 1..(Len(s) + 1) = (1..Len(s)) \cup {Len(s) + 1}
  BY <1>5
<1> QED BY <1>1, <1>2, <1>3, <1>4, <1>6, Zenon DEF Range

\* Publish adds r to what the broker stores unless it failed.
LEMMA PublishExact ==
    ASSUME TypeOK, NEW r \in Results, NEW outcome \in Outcomes, Publish(r, outcome)
    PROVE  Stored' = IF outcome = "failed" THEN Stored ELSE Stored \cup {r}
<1> DEFINE e == [res |-> r, acked |-> outcome = "acked"]
<1>1. e \in LogEntry /\ e.res = r
  BY DEF LogEntry
<1>2. CASE outcome = "failed"
  BY <1>2 DEF Publish, Stored
<1>3. CASE outcome # "failed"
  <2>1. log' = Append(log, e)
    BY <1>3 DEF Publish
  <2>2. Range(log') = Range(log) \cup {e}
    BY <1>1, <2>1, RangeAppend DEF TypeOK
  <2> HIDE DEF e
  <2> QED BY <1>1, <1>3, <2>2 DEF Stored
<1> QED BY <1>2, <1>3

\* What Publish returns without failing, the broker stores; nothing is removed.
LEMMA PublishStores ==
    ASSUME TypeOK, NEW r \in Results, NEW outcome \in Outcomes, Publish(r, outcome)
    PROVE  /\ Stored \subseteq Stored'
           /\ outcome # "failed" => r \in Stored'
BY PublishExact

\* A step of test t that produces nothing changes at most t's own holding.
LEMMA HeldStep ==
    ASSUME TypeOK, NEW t \in Tests, NEW to, produced' = produced,
           tpc' = [tpc EXCEPT ![t] = to]
    PROVE  /\ Held \subseteq Held' \cup {InHand(t)}
           /\ tpc[t] \notin {"publish", "push"} => Held \subseteq Held'
           /\ to \in {"publish", "push"} => InHand(t) \in Held'
BY DEF TypeOK, Held, InHand

\* The elements of a sequence are its head and those of its tail: what is left of
\* a drain after one handler call.
LEMMA RangeHeadTail ==
    ASSUME NEW S, NEW s \in Seq(S), s # <<>>
    PROVE  Range(s) = {Head(s)} \cup Range(Tail(s))
<1>1. \A i \in 1..Len(s) : i = 1 \/ (i - 1 \in 1..Len(Tail(s)) /\ s[i] = Tail(s)[i - 1])
  OBVIOUS
<1>2. \A i \in 1..Len(Tail(s)) : i + 1 \in 1..Len(s) /\ Tail(s)[i] = s[i + 1]
  OBVIOUS
<1>3. Head(s) = s[1] /\ 1 \in 1..Len(s)
  OBVIOUS
<1>4. DOMAIN s = 1..Len(s) /\ DOMAIN Tail(s) = 1..Len(Tail(s))
  OBVIOUS
<1>5. Range(s) \subseteq {Head(s)} \cup Range(Tail(s))
  BY <1>1, <1>3, <1>4 DEF Range
<1>6. {Head(s)} \cup Range(Tail(s)) \subseteq Range(s)
  BY <1>2, <1>3, <1>4 DEF Range
<1> QED BY <1>5, <1>6

\* A step that produces nothing and forgets nothing keeps results accounted for.
LEMMA Frame ==
    ASSUME produced' = produced, run' = run, NothingSilentlyLost,
           Accounted \subseteq Accounted'
    PROVE  NothingSilentlyLost'
BY DEF NothingSilentlyLost, Produced, Accounted

\* A step that leaves the drain goroutine's state alone and loses nothing the
\* broker stores keeps DrainKeeps.
LEMMA DrainFrame ==
    ASSUME DrainKeeps, dpc' = dpc, dpc = "drain" => messages' = messages,
           todo' = todo, remaining' = remaining, Stored \subseteq Stored'
    PROVE  DrainKeeps'
BY DEF DrainKeeps

\* A test goroutine hands its result on to the broker, the buffer or the log of
\* dropped ones.
LEMMA TestStepKeeps ==
    ASSUME IInv, NEW t \in Tests, TestStep(t)
    PROVE  DrainKeeps' /\ NothingSilentlyLost'
<1> USE DEF IInv, TypeInv
<1>1. CASE Tick(t) \/ Panicked(t) \/ ExitTestLoop(t)
  <2>1. tpc[t] \notin {"publish", "push"} /\ \E to : tpc' = [tpc EXCEPT ![t] = to]
    BY <1>1 DEF Tick, Panicked, ExitTestLoop
  <2>2. /\ produced' = produced /\ run' = run /\ dpc' = dpc /\ messages' = messages
        /\ todo' = todo /\ remaining' = remaining /\ log' = log /\ dropped' = dropped
    BY <1>1 DEF Tick, Panicked, ExitTestLoop
  <2>3. Held \subseteq Held'
    BY <2>1, <2>2, HeldStep
  <2>4. Stored' = Stored /\ Buffered' = Buffered
    BY <2>2 DEF Stored, Buffered
  <2>5. Accounted \subseteq Accounted'
    BY <2>2, <2>3, <2>4 DEF Accounted
  <2> QED BY <2>2, <2>4, <2>5, Frame, DrainFrame
<1>2. CASE Executed(t)
  <2>1. /\ run' = run /\ dpc' = dpc /\ messages' = messages
        /\ todo' = todo /\ remaining' = remaining /\ log' = log /\ dropped' = dropped
    BY <1>2 DEF Executed
  <2>2. Stored' = Stored /\ Buffered' = Buffered
    BY <2>1 DEF Stored, Buffered
  <2>3. produced' = [produced EXCEPT ![t] = @ + 1] /\ tpc' = [tpc EXCEPT ![t] = "publish"]
        /\ tpc[t] = "execute"
    BY <1>2 DEF Executed
  <2>4. Held \subseteq Held' /\ <<t, produced[t] + 1>> \in Held'
    BY <2>3 DEF Held, InHand, TypeOK
  <2>5. ASSUME NEW r \in Results, r \in Produced'
        PROVE  r \in Produced \cup {<<t, produced[t] + 1>>}
    <3>1. PICK u \in Tests, n \in 1..MaxTicks : r = <<u, n>>
      BY DEF Results
    <3>2. n <= produced'[u]
      BY <2>5, <3>1 DEF Produced
    <3>3. produced[u] \in 0..MaxTicks
      BY DEF TypeOK
    <3>4. CASE u = t
      <4>1. n <= produced[t] + 1
        BY <2>3, <3>2, <3>4 DEF TypeOK
      <4>2. n <= produced[t] \/ n = produced[t] + 1
        BY <3>3, <3>4, <4>1, AgentAssumption
      <4> QED BY <3>1, <3>4, <4>2 DEF Produced
    <3>5. CASE u # t
      BY <2>3, <3>1, <3>2, <3>5 DEF TypeOK, Produced
    <3> QED BY <3>4, <3>5
  <2>6. Produced' \subseteq Results
    BY DEF Produced
  <2>7. NothingSilentlyLost'
    BY <2>1, <2>2, <2>4, <2>5, <2>6 DEF NothingSilentlyLost
  <2> QED BY <2>1, <2>2, <2>7, DrainFrame
<1>3. CASE MarshalFailed(t)
  <2>1. /\ produced' = produced /\ run' = run /\ dpc' = dpc /\ messages' = messages
        /\ todo' = todo /\ remaining' = remaining /\ log' = log
        /\ dropped' = dropped \cup {InHand(t)} /\ tpc' = [tpc EXCEPT ![t] = "select"]
    BY <1>3 DEF MarshalFailed
  <2>2. Held \subseteq Held' \cup {InHand(t)}
    BY <2>1, HeldStep
  <2>3. Stored' = Stored /\ Buffered' = Buffered
    BY <2>1 DEF Stored, Buffered
  <2>4. Accounted \subseteq Accounted'
    BY <2>1, <2>2, <2>3 DEF Accounted
  <2> QED BY <2>1, <2>3, <2>4, Frame, DrainFrame
<1>4. CASE PublishResult(t)
  <2>1. /\ produced' = produced /\ run' = run /\ dpc' = dpc /\ messages' = messages
        /\ todo' = todo /\ remaining' = remaining /\ dropped' = dropped
    BY <1>4 DEF PublishResult
  <2>2. PICK outcome \in Outcomes : /\ Publish(InHand(t), outcome)
                                    /\ tpc' = [tpc EXCEPT ![t] = AfterPublish(outcome)]
    BY <1>4 DEF PublishResult
  <2>3. InHand(t) \in Results
    BY <1>4, InHandType DEF PublishResult
  <2>4. Stored \subseteq Stored' /\ (outcome # "failed" => InHand(t) \in Stored')
    BY <2>2, <2>3, PublishStores
  <2>5. Held \subseteq Held' \cup {InHand(t)}
    BY <2>1, <2>2, HeldStep
  <2>6. outcome # "acked" => InHand(t) \in Held'
    BY <2>1, <2>2, HeldStep DEF AfterPublish
  <2>7. Held \subseteq Held' \cup Stored'
    BY <2>4, <2>5, <2>6
  <2>8. Buffered' = Buffered
    BY <2>1 DEF Buffered
  <2>9. Accounted \subseteq Accounted'
    BY <2>1, <2>4, <2>7, <2>8 DEF Accounted
  <2> QED BY <2>1, <2>4, <2>9, Frame, DrainFrame
<1>5. CASE Push(t)
  <2>1. /\ produced' = produced /\ run' = run /\ dpc' = dpc /\ dpc # "drain"
        /\ todo' = todo /\ remaining' = remaining /\ log' = log
        /\ tpc' = [tpc EXCEPT ![t] = "select"]
    BY <1>5 DEF Push, MutexFree
  <2>2. InHand(t) \in Results
    BY <1>5, InHandType DEF Push
  <2>3. Held \subseteq Held' \cup {InHand(t)}
    BY <2>1, HeldStep
  <2>4. Stored' = Stored
    BY <2>1 DEF Stored
  <2>5. \/ messages' = Append(messages, InHand(t)) /\ dropped' = dropped
        \/ messages' = messages /\ dropped' = dropped \cup {InHand(t)}
    BY <1>5 DEF Push
  <2>6. Buffered \cup dropped \cup {InHand(t)} \subseteq Buffered' \cup dropped'
    <3>1. Range(Append(messages, InHand(t))) = Range(messages) \cup {InHand(t)}
      BY <2>2, RangeAppend DEF TypeOK
    <3> QED BY <2>5, <3>1 DEF Buffered
  <2>7. Accounted \subseteq Accounted'
    BY <2>3, <2>4, <2>6 DEF Accounted
  <2> QED BY <2>1, <2>4, <2>7, Frame, DrainFrame
<1> QED BY <1>1, <1>2, <1>3, <1>4, <1>5 DEF TestStep

\* Drain moves a message to the broker or keeps it.
LEMMA DrainLoopKeeps ==
    ASSUME IInv, DrainLoop
    PROVE  DrainKeeps' /\ NothingSilentlyLost'
<1> USE DEF IInv, TypeInv
<1>1. produced' = produced /\ run' = run /\ tpc' = tpc /\ dropped' = dropped
  BY DEF DrainLoop, DrainTick, DrainStep, DrainFinish, ExitDrainLoop
<1>2. Held' = Held
  BY <1>1 DEF Held, InHand
<1>3. CASE DrainTick
  <2>1. messages' = messages /\ log' = log /\ todo' = messages
    BY <1>3 DEF DrainTick
  <2>2. Accounted \subseteq Accounted'
    BY <1>1, <1>2, <2>1 DEF Accounted, Buffered, Stored
  <2>3. \A i \in DOMAIN messages' : messages'[i] \in Range(todo')
    BY <2>1 DEF Range
  <2>4. DrainKeeps'
    BY <2>3 DEF DrainKeeps
  <2> QED BY <1>1, <2>2, <2>4, Frame
<1>4. CASE DrainStep
  <2> DEFINE r == Head(todo)
  <2>1. dpc = "drain" /\ dpc' = dpc /\ messages' = messages /\ todo' = Tail(todo)
        /\ todo # <<>> /\ todo \in Seq(Results)
    BY <1>4 DEF DrainStep, TypeOK
  <2>2. r \in Results
    BY <2>1 DEF TypeOK
  <2>3. PICK outcome \in Outcomes :
          Publish(r, outcome) /\ remaining' = Keep(r, outcome)
    BY <1>4 DEF DrainStep
  <2>4. Stored \subseteq Stored' /\ (outcome # "failed" => r \in Stored')
    BY <2>2, <2>3, PublishStores
  <2>5. Range(Append(remaining, r)) = Range(remaining) \cup {r}
    BY <2>2, RangeAppend DEF TypeOK
  <2>6. /\ Range(remaining) \subseteq Range(remaining')
        /\ r \in Range(remaining') \cup Stored'
    BY <2>3, <2>4, <2>5 DEF Keep
  <2>7. DrainKeeps'
    <3> SUFFICES ASSUME NEW i \in DOMAIN messages
                 PROVE  messages[i] \in Range(todo') \cup Range(remaining') \cup Stored'
      BY <2>1 DEF DrainKeeps
    <3>1. messages[i] \in Range(todo) \cup Range(remaining) \cup Stored
      BY <2>1 DEF DrainKeeps
    <3>2. Range(todo) = {r} \cup Range(todo')
      BY <2>1, RangeHeadTail
    <3> QED BY <2>4, <2>6, <3>1, <3>2
  <2>8. Accounted \subseteq Accounted'
    BY <1>1, <1>2, <2>1, <2>4 DEF Accounted, Buffered
  <2> QED BY <1>1, <2>7, <2>8, Frame
<1>5. CASE DrainFinish
  <2>1. /\ dpc = "drain" /\ dpc' = "select" /\ messages' = remaining /\ log' = log
        /\ todo = <<>>
    BY <1>5 DEF DrainFinish
  <2>2. Range(todo) = {}
    BY <2>1 DEF Range
  <2>3. Buffered \subseteq Buffered' \cup Stored
    <3> SUFFICES ASSUME NEW i \in DOMAIN messages
                 PROVE  messages[i] \in Range(remaining) \cup Stored
      BY <2>1 DEF Buffered, Range, TypeOK
    <3> QED BY <2>1, <2>2 DEF DrainKeeps
  <2>4. Accounted \subseteq Accounted'
    BY <1>1, <1>2, <2>1, <2>3 DEF Accounted, Stored
  <2> QED BY <1>1, <2>1, <2>4, Frame DEF DrainKeeps
<1>6. CASE ExitDrainLoop
  <2>1. messages' = messages /\ log' = log /\ dpc' = "exited"
    BY <1>6 DEF ExitDrainLoop
  <2>2. Accounted \subseteq Accounted'
    BY <1>1, <1>2, <2>1 DEF Accounted, Buffered, Stored
  <2> QED BY <1>1, <2>1, <2>2, Frame DEF DrainKeeps
<1> QED BY <1>3, <1>4, <1>5, <1>6 DEF DrainLoop

\* Heartbeats, the transport and cancellation touch no result.
LEMMA OtherKeeps ==
    ASSUME IInv, HeartbeatLoop \/ LinkChange \/ Cancel \/ UNCHANGED vars
    PROVE  DrainKeeps' /\ NothingSilentlyLost'
<1>1. /\ produced' = produced /\ run' = run /\ tpc' = tpc /\ dropped' = dropped
      /\ messages' = messages /\ todo' = todo /\ remaining' = remaining
      /\ log' = log /\ dpc' = dpc
  BY DEF HeartbeatLoop, HeartbeatTick, SendHeartbeat, ExitHeartbeatLoop,
         LinkChange, Cancel, vars
<1>2. Accounted' = Accounted /\ Stored' = Stored
  BY <1>1 DEF Accounted, Held, InHand, Buffered, Stored
<1> QED BY <1>1, <1>2, Frame, DrainFrame DEF IInv

\* The inductive step of ResultsConserved.
LEMMA NextKeeps == IInv /\ [Next]_vars => IInv'
<1> SUFFICES ASSUME IInv, [Next]_vars PROVE IInv'
  OBVIOUS
<1>1. TypeInv'
  BY NextType DEF IInv
<1>2. DrainKeeps' /\ NothingSilentlyLost'
  <2>1. ASSUME NEW t \in Tests, TestStep(t) PROVE DrainKeeps' /\ NothingSilentlyLost'
    BY <2>1, TestStepKeeps
  <2>2. CASE Stopped \/ Crash
    <3>1. dpc' = "exited" /\ run' = "stopped"
      BY <2>2 DEF Stopped, Crash, EndProcess
    <3> QED BY <3>1 DEF DrainKeeps, NothingSilentlyLost
  <2>3. CASE DrainLoop
    BY <2>3, DrainLoopKeeps
  <2>4. CASE HeartbeatLoop \/ LinkChange \/ Cancel \/ UNCHANGED vars
    BY <2>4, OtherKeeps
  <2> QED BY <2>1, <2>2, <2>3, <2>4 DEF Next
<1> QED BY <1>1, <1>2 DEF IInv

\* At start-up nothing has been produced.
LEMMA InitKeeps == Init => IInv
<1> SUFFICES ASSUME Init PROVE IInv
  OBVIOUS
<1>1. Produced = {}
  <2> SUFFICES ASSUME NEW r \in Results, r[2] <= produced[r[1]] PROVE FALSE
    BY DEF Produced
  <2>1. PICK u \in Tests, n \in 1..MaxTicks : r = <<u, n>>
    BY DEF Results
  <2> QED BY <2>1, AgentAssumption DEF Init
<1>2. DrainKeeps /\ NothingSilentlyLost
  BY <1>1 DEF Init, DrainKeeps, NothingSilentlyLost
<1> QED BY <1>2, InitType DEF IInv

\* For every set of tests and every buffer limit, no result that a canary has
\* produced disappears while the agent runs: publishResult, Push and Drain hand
\* it on, and Drain's loop keeps exactly what it could not publish.
THEOREM ResultsConserved == Spec => []NothingSilentlyLost
<1>1. IInv => NothingSilentlyLost
  BY DEF IInv
<1> QED BY <1>1, InitKeeps, NextKeeps, PTL DEF Spec

-----------------------------------------------------------------------------
(* The buffer keeps the order of each test.                                *)

Replaying == remaining \o todo

\* Whatever is buffered was produced before what its test is about to push.
Behind(s) ==
    \A i \in DOMAIN s :
        /\ s[i][2] <= produced[s[i][1]]
        /\ tpc[s[i][1]] \in {"publish", "push"} => s[i][2] < produced[s[i][1]]

OrderInv ==
    TypeInv /\ Ascending(messages) /\ Ascending(Replaying) /\ Behind(messages) /\ Behind(Replaying)

\* What Drain's loop still holds after one iteration, in place.
LEMMA ReplayedOne ==
    ASSUME NEW S, NEW s \in Seq(S), NEW u \in Seq(S), u # <<>>
    PROVE  /\ Append(s, Head(u)) \o Tail(u) = s \o u
           /\ \A i \in DOMAIN (s \o Tail(u)) :
                /\ (IF i <= Len(s) THEN i ELSE i + 1) \in DOMAIN (s \o u)
                /\ (s \o Tail(u))[i] = (s \o u)[IF i <= Len(s) THEN i ELSE i + 1]
  OBVIOUS

\* The parts of a sequence that is in order, and behind, are so too.
LEMMA KeptOrder ==
    ASSUME NEW s \in Seq(Results), NEW u \in Seq(Results), NEW f \in [DOMAIN u -> DOMAIN s],
           \A i \in DOMAIN u : u[i] = s[f[i]],
           \A i, j \in DOMAIN u : i < j => f[i] < f[j]
    PROVE  (Ascending(s) => Ascending(u)) /\ (Behind(s) => Behind(u))
  BY DEF Ascending, Behind

\* A step of a test's goroutine that pushes nothing leaves the order alone.
LEMMA BehindStep ==
    ASSUME TypeInv, TypeInv', NEW t \in Tests, TestStep(t), NEW s \in Seq(Results), Behind(s)
    PROVE  Behind(s)'
<1> SUFFICES ASSUME NEW i \in DOMAIN s
             PROVE  /\ s[i][2] <= produced'[s[i][1]]
                    /\ tpc'[s[i][1]] \in {"publish", "push"} => s[i][2] < produced'[s[i][1]]
  BY DEF Behind
<1> DEFINE u == s[i][1]
           n == s[i][2]
<1>1. u \in Tests /\ n \in Nat /\ produced[u] \in Nat
  <2>1. s[i] \in Results /\ produced \in [Tests -> 0 .. MaxTicks]
    BY DEF TypeInv, TypeOK
  <2>2. u \in Tests /\ n \in 1 .. MaxTicks
    BY <2>1 DEF Results
  <2> QED BY <2>1, <2>2, AgentAssumption
<1>2. n <= produced[u] /\ (tpc[u] \in {"publish", "push"} => n < produced[u])
  BY DEF Behind
<1> HIDE DEF u, n
<1>3. n <= produced'[u] /\ (tpc'[u] \in {"publish", "push"} => n < produced'[u])
  <2> USE DEF TypeInv, TypeOK
  <2>1. CASE Executed(t)
    <3>1. produced' = [produced EXCEPT ![t] = produced[t] + 1] /\ tpc' = [tpc EXCEPT ![t] = "publish"]
      BY <2>1 DEF Executed
    <3>2. CASE u = t
      <4>1. produced'[u] = produced[u] + 1
        BY <1>1, <3>1, <3>2
      <4> QED BY <1>1, <1>2, <4>1
    <3>3. CASE u # t
      <4>1. produced'[u] = produced[u] /\ tpc'[u] = tpc[u]
        BY <1>1, <3>1, <3>3
      <4> QED BY <1>2, <4>1
    <3> QED BY <3>2, <3>3
  <2>2. CASE PublishResult(t)
    <3>1. produced' = produced /\ tpc[t] = "publish" /\ (u # t => tpc'[u] = tpc[u])
      BY <1>1, <2>2 DEF PublishResult
    <3> QED BY <1>2, <3>1
  <2>3. CASE Tick(t) \/ Panicked(t) \/ MarshalFailed(t) \/ ExitTestLoop(t) \/ Push(t)
    <3>1. /\ produced' = produced
          /\ tpc'[u] = tpc[u] \/ tpc'[u] \in {"execute", "select", "exited"}
      BY <1>1, <2>3 DEF Tick, Panicked, MarshalFailed, ExitTestLoop, Push
    <3> QED BY <1>2, <3>1
  <2> QED BY <2>1, <2>2, <2>3 DEF TestStep
<1> QED BY <1>3 DEF u, n

\* Push adds the newest result of its test; everything else of a test's goroutine
\* leaves the buffer alone.
LEMMA TestStepOrder ==
    ASSUME OrderInv, TypeInv', NEW t \in Tests, TestStep(t)
    PROVE  OrderInv'
<1>1. /\ messages \in Seq(Results) /\ Replaying \in Seq(Results)
      /\ Ascending(messages) /\ Ascending(Replaying) /\ Behind(messages) /\ Behind(Replaying) /\ TypeInv
  BY DEF OrderInv, TypeInv, TypeOK, Replaying
<1>2. todo' = todo /\ remaining' = remaining
  BY DEF TestStep, Tick, Executed, Panicked, MarshalFailed, PublishResult, Push, ExitTestLoop
<1>3. Replaying' = Replaying
  BY <1>2 DEF Replaying
<1>4. Ascending(Replaying)' /\ Behind(Replaying)'
  <2>1. ASSUME NEW s \in Seq(Results), Behind(s) PROVE Behind(s)'
    BY <1>1, <2>1, BehindStep
  <2>2. Behind(Replaying)'
    BY <1>1, <1>3, <2>1 DEF Behind
  <2> QED BY <1>1, <1>3, <2>2 DEF Ascending
<1>5. CASE messages' = messages
  <2>1. ASSUME NEW s \in Seq(Results), Behind(s) PROVE Behind(s)'
    BY <1>1, <2>1, BehindStep
  <2>2. Behind(messages)'
    BY <1>1, <1>5, <2>1 DEF Behind
  <2> QED BY <1>1, <1>4, <1>5, <2>2 DEF OrderInv, Ascending
<1>6. CASE messages' # messages
  <2> DEFINE r == <<t, produced[t]>>
             n == Len(messages)
  <2>1. /\ messages' = Append(messages, r) /\ tpc[t] = "push"
        /\ produced' = produced /\ tpc' = [tpc EXCEPT ![t] = "select"]
    BY <1>6 DEF TestStep, Tick, Executed, Panicked, MarshalFailed, PublishResult, Push,
        ExitTestLoop, InHand
  <2>2. r \in Results /\ r[1] = t /\ r[2] = produced[t]
    BY <1>1, <2>1, InHandType DEF InHand
  <2> HIDE DEF r
  <2>3. /\ n \in Nat /\ DOMAIN messages = 1 .. n /\ DOMAIN messages' = 1 .. (n + 1)
        /\ messages'[n + 1] = r /\ \A i \in 1 .. n : messages'[i] = messages[i]
    BY <1>1, <2>1, <2>2
  <2>4. \A i \in 1 .. n : messages[i][1] = t => messages[i][2] < produced[t]
    BY <1>1, <2>1, <2>3 DEF Behind
  <2> HIDE DEF n
  <2>5. Ascending(messages)'
    <3> SUFFICES ASSUME NEW i \in 1 .. (n + 1), NEW j \in 1 .. (n + 1), i < j,
                        messages'[i][1] = messages'[j][1]
                 PROVE  messages'[i][2] < messages'[j][2]
      BY <2>3 DEF Ascending
    <3>1. i \in 1 .. n /\ messages'[i] = messages[i]
      BY <2>3
    <3>2. CASE j \in 1 .. n
      BY <1>1, <2>3, <3>1, <3>2 DEF Ascending
    <3>3. CASE j = n + 1
      BY <2>2, <2>3, <2>4, <3>1, <3>3
    <3> QED BY <2>3, <3>2, <3>3
  <2>6. Behind(messages)'
    <3> SUFFICES ASSUME NEW i \in 1 .. (n + 1)
                 PROVE  /\ messages'[i][2] <= produced[messages'[i][1]]
                        /\ tpc'[messages'[i][1]] \in {"publish", "push"} =>
                                messages'[i][2] < produced[messages'[i][1]]
      BY <2>1, <2>3 DEF Behind
    <3>1. CASE i \in 1 .. n
      <4>1. messages[i] \in Results /\ messages'[i] = messages[i]
        BY <1>1, <2>3, <3>1
      <4>2. messages[i][1] \in Tests
        BY <4>1 DEF Results
      <4>3. tpc'[messages[i][1]] \in {"publish", "push"} => tpc[messages[i][1]] \in {"publish", "push"}
        BY <1>1, <2>1, <4>2 DEF TypeInv, TypeOK
      <4> QED BY <1>1, <2>3, <3>1, <4>1, <4>3 DEF Behind
    <3>2. CASE i = n + 1
      <4>1. tpc'[t] = "select" /\ produced[t] \in Nat
        BY <1>1, <2>1 DEF TypeInv, TypeOK
      <4> QED BY <2>2, <2>3, <3>2, <4>1
    <3> QED BY <2>3, <3>1, <3>2
  <2> QED BY <1>4, <2>5, <2>6 DEF OrderInv
<1> QED BY <1>5, <1>6

\* Drain takes the buffer as it is, removes what was published and puts the rest back.
LEMMA DrainLoopOrder ==
    ASSUME OrderInv, TypeInv', DrainLoop
    PROVE  OrderInv'
<1>1. /\ messages \in Seq(Results) /\ remaining \in Seq(Results) /\ todo \in Seq(Results)
      /\ Ascending(messages) /\ Ascending(Replaying) /\ Behind(messages) /\ Behind(Replaying)
      /\ produced' = produced /\ tpc' = tpc
  BY DEF OrderInv, TypeInv, TypeOK, DrainLoop, DrainTick, DrainStep, DrainFinish, ExitDrainLoop
<1>2. CASE DrainTick
  <2>1. messages' = messages /\ todo' = messages /\ remaining' = <<>>
    BY <1>2 DEF DrainTick
  <2>2. Replaying' = messages
    BY <1>1, <2>1 DEF Replaying
  <2> QED BY <1>1, <2>1, <2>2 DEF OrderInv, Ascending, Behind
<1>3. CASE DrainStep
  <2>1. /\ messages' = messages /\ todo' = Tail(todo) /\ todo # <<>>
        /\ remaining' = remaining \/ remaining' = Append(remaining, Head(todo))
    BY <1>3 DEF DrainStep, Keep
  <2>2. CASE remaining' = Append(remaining, Head(todo))
    <3>1. Replaying' = Replaying
      BY <1>1, <2>1, <2>2, ReplayedOne DEF Replaying
    <3> QED BY <1>1, <2>1, <3>1 DEF OrderInv, Ascending, Behind
  <2>3. CASE remaining' = remaining
    <3> DEFINE u == remaining \o Tail(todo)
               s == remaining \o todo
               f == [i \in DOMAIN u |-> IF i <= Len(remaining) THEN i ELSE i + 1]
    <3>1. \A i \in DOMAIN u : f[i] \in DOMAIN s /\ u[i] = s[f[i]]
      BY <1>1, <2>1, ReplayedOne
    <3>2. u \in Seq(Results) /\ s \in Seq(Results) /\ f \in [DOMAIN u -> DOMAIN s]
      BY <1>1, <2>1, <3>1
    <3>3. DOMAIN u \subseteq Nat /\ Len(remaining) \in Nat
      BY <1>1, <3>2
    <3>4. \A i, j \in DOMAIN u : i < j => f[i] < f[j]
      BY <3>3
    <3>5. Ascending(s) /\ Behind(s)
      BY <1>1 DEF Replaying
    <3> HIDE DEF f, u, s
    <3>6. Ascending(u) /\ Behind(u)
      BY <3>1, <3>2, <3>4, <3>5, KeptOrder
    <3>7. Replaying' = u
      BY <2>1, <2>3 DEF Replaying, u
    <3> QED BY <1>1, <2>1, <3>6, <3>7 DEF OrderInv, Ascending, Behind
  <2> QED BY <2>1, <2>2, <2>3
<1>4. CASE DrainFinish
  <2>1. messages' = remaining /\ todo' = <<>> /\ remaining' = <<>> /\ todo = <<>>
    BY <1>4 DEF DrainFinish
  <2>2. Replaying = remaining /\ Replaying' = <<>>
    BY <1>1, <2>1 DEF Replaying
  <2> QED BY <1>1, <2>1, <2>2 DEF OrderInv, Ascending, Behind
<1>5. CASE ExitDrainLoop
  <2>1. messages' = messages /\ Replaying' = Replaying
    BY <1>5 DEF ExitDrainLoop, Replaying
  <2> QED BY <1>1, <2>1 DEF OrderInv, Ascending, Behind
<1> QED BY <1>2, <1>3, <1>4, <1>5 DEF DrainLoop

\* Every step keeps the order.
LEMMA NextOrder == OrderInv /\ [Next]_vars => OrderInv'
<1> SUFFICES ASSUME OrderInv, [Next]_vars PROVE OrderInv'
  OBVIOUS
<1>1. TypeInv'
  BY NextType DEF OrderInv
<1>2. ASSUME NEW t \in Tests, TestStep(t) PROVE OrderInv'
  BY <1>1, <1>2, TestStepOrder
<1>3. CASE DrainLoop
  BY <1>1, <1>3, DrainLoopOrder
<1>4. CASE Stopped \/ Crash
  <2>1. messages' = <<>> /\ Replaying' = <<>>
    BY <1>4 DEF Stopped, Crash, EndProcess, Replaying
  <2> QED BY <1>1, <2>1 DEF OrderInv, Ascending, Behind
<1>5. CASE HeartbeatLoop \/ LinkChange \/ Cancel \/ UNCHANGED vars
  <2>1. messages' = messages /\ Replaying' = Replaying /\ produced' = produced /\ tpc' = tpc
    BY <1>5 DEF HeartbeatLoop, HeartbeatTick, SendHeartbeat, ExitHeartbeatLoop, LinkChange, Cancel,
                vars, Replaying
  <2> QED BY <1>1, <2>1 DEF OrderInv, Ascending, Behind
<1> QED BY <1>2, <1>3, <1>4, <1>5 DEF Next

\* Everything starts empty.
LEMMA InitOrder == Init => OrderInv
<1> SUFFICES ASSUME Init PROVE OrderInv
  OBVIOUS
<1>1. messages = <<>> /\ Replaying = <<>>
  BY DEF Init, Replaying
<1> QED BY <1>1, InitType DEF OrderInv, Ascending, Behind

\* Push and Drain keep the results of each test in order, for any number of tests
\* and any outcome of every publish.
THEOREM OrderKept == Spec => []BufferInOrder
<1>1. OrderInv => BufferInOrder
  BY DEF OrderInv, BufferInOrder, Replaying
<1> QED BY <1>1, InitOrder, NextOrder, PTL DEF Spec

-----------------------------------------------------------------------------
(* The agent implements ResultDelivery.                                    *)

\* Only results that were produced are anywhere.
OnlyProduced == Stored \cup dropped \cup Buffered \subseteq Produced

\* The agent is rid of what it dropped.
DroppedGone == dropped \cap (Held \cup Buffered) = {}

\* A drain replays what is in the buffer.
ReplaysBuffered == Range(Replaying) \subseteq Buffered

\* No goroutine outlives the process.
AllGone == run = "stopped" => (\A t \in Tests : tpc[t] = "exited") /\ dpc = "exited"

Placed == OnlyProduced /\ DroppedGone /\ ReplaysBuffered /\ AllGone

DeliveryInv == IInv /\ OrderInv /\ Placed

\* What a goroutine is about to publish or push is nowhere else.
LEMMA InHandOnly ==
    ASSUME DeliveryInv, NEW t \in Tests, tpc[t] \in {"publish", "push"}
    PROVE  /\ InHand(t) \in Results /\ InHand(t) \in Produced /\ InHand(t) \in Held
           /\ InHand(t) \notin dropped /\ InHand(t) \notin Buffered
<1>1. InHand(t) \in Results
  BY InHandType DEF DeliveryInv, IInv
<1>2. produced[t] \in Nat
  BY AgentAssumption DEF DeliveryInv, IInv, TypeInv, TypeOK
<1>3. InHand(t) \in Produced
  BY <1>1, <1>2 DEF Produced, InHand
<1>4. InHand(t) \in Held
  BY DEF Held
<1>5. ASSUME NEW i \in DOMAIN messages, messages[i] = InHand(t) PROVE FALSE
  <2>1. messages[i][1] = t /\ messages[i][2] = produced[t]
    BY <1>5 DEF InHand
  <2>2. messages[i][2] < produced[t]
    BY <2>1 DEF DeliveryInv, OrderInv, Behind
  <2> QED BY <1>2, <2>1, <2>2
<1>6. InHand(t) \notin Buffered
  BY <1>5 DEF Buffered, Range
<1> QED BY <1>1, <1>3, <1>4, <1>6 DEF DeliveryInv, Placed, DroppedGone

\* A step of test t that produces nothing leaves the others' holdings alone.
LEMMA HeldExact ==
    ASSUME TypeOK, NEW t \in Tests, NEW to, produced' = produced,
           tpc' = [tpc EXCEPT ![t] = to]
    PROVE  /\ Held' \subseteq Held \cup {InHand(t)}
           /\ to \notin {"publish", "push"} => Held' \subseteq Held \ {InHand(t)}
BY DEF TypeOK, Held, InHand

\* A step that drops nothing and puts nothing anywhere new.
LEMMA PlacedFrame ==
    ASSUME Placed, run' = run, run = "running", produced' = produced, dropped' = dropped,
           Stored' \cup Buffered' \subseteq Produced,
           Held' \cup Buffered' \subseteq Held \cup Buffered,
           Range(Replaying') \subseteq Buffered'
    PROVE  Placed'
<1>1. Produced' = Produced
  BY DEF Produced
<1>2. OnlyProduced' /\ DroppedGone'
  BY <1>1 DEF Placed, OnlyProduced, DroppedGone
<1>3. ReplaysBuffered' /\ AllGone'
  BY DEF Placed, ReplaysBuffered, AllGone
<1> QED BY <1>2, <1>3 DEF Placed

\* A step that drops r, which its goroutine held.
LEMMA PlacedDrop ==
    ASSUME Placed, run' = run, run = "running", produced' = produced,
           NEW r \in Produced, dropped' = dropped \cup {r}, Stored' = Stored,
           Held' \subseteq Held \ {r}, r \notin Buffered, Buffered' = Buffered,
           Replaying' = Replaying
    PROVE  Placed'
<1>1. Produced' = Produced
  BY DEF Produced
<1>2. OnlyProduced' /\ DroppedGone'
  BY <1>1 DEF Placed, OnlyProduced, DroppedGone
<1>3. ReplaysBuffered' /\ AllGone'
  BY DEF Placed, ReplaysBuffered, AllGone
<1> QED BY <1>2, <1>3 DEF Placed

-----------------------------------------------------------------------------
(* What a step means for the status of the results.                        *)

\* While the agent runs, a status says where its result has arrived.
LEMMA StatusOf ==
    ASSUME NEW r \in Results, NothingSilentlyLost, OnlyProduced, run = "running"
    PROVE  /\ r \in Stored => Status(r) = "delivered"
           /\ r \in dropped \ Stored => Status(r) = "dropped"
           /\ r \notin Produced => Status(r) = "none"
           /\ r \in Produced \ (Stored \cup dropped) => Status(r) = "pending"
BY DEF Status, NothingSilentlyLost, OnlyProduced

\* The same after a step.
LEMMA StatusOfPrime ==
    ASSUME NEW r \in Results, NothingSilentlyLost', OnlyProduced', run' = "running"
    PROVE  /\ r \in Stored' => Status(r)' = "delivered"
           /\ r \in dropped' \ Stored' => Status(r)' = "dropped"
           /\ r \notin Produced' => Status(r)' = "none"
           /\ r \in Produced' \ (Stored' \cup dropped') => Status(r)' = "pending"
BY DEF Status, NothingSilentlyLost, OnlyProduced

\* In a running agent.
Goes == DeliveryInv /\ DeliveryInv' /\ run = "running" /\ run' = "running"

\* A step that changes nothing about where the results are is a stutter.
LEMMA StatusKept ==
    ASSUME Goes, Stored' = Stored, dropped' \ Stored = dropped \ Stored, Produced' = Produced
    PROVE  UNCHANGED Delivery!vars
<1>1. ASSUME NEW r \in Results PROVE Status(r)' = Status(r)
  <2>1. \/ r \in Stored \/ r \in dropped \ Stored \/ r \notin Produced
        \/ r \in Produced \ (Stored \cup dropped)
    OBVIOUS
  <2> QED BY <2>1, StatusOf, StatusOfPrime DEF Goes, DeliveryInv, IInv, Placed, OnlyProduced
<1> QED BY <1>1 DEF Goes, Delivery!vars

\* A step that changes the status of one result moves that result.
LEMMA StatusMoves ==
    ASSUME Goes, NEW r \in Results, NEW from, NEW to,
           Status(r) = from, Status(r)' = to,
           \A q \in Results \ {r} : Status(q)' = Status(q)
    PROVE  Delivery!Move(r, from, to)
BY DEF Goes, Delivery!Move

\* What the broker stores is delivered, or was already.
LEMMA StoredMaps ==
    ASSUME Goes, NEW r \in Results, r \in Produced \ dropped, Stored' = Stored \cup {r},
           dropped' = dropped, Produced' = Produced
    PROVE  Delivery!Deliver(r) \/ UNCHANGED Delivery!vars
<1>1. CASE r \in Stored
  <2>1. Stored' = Stored
    BY <1>1
  <2> QED BY <2>1, StatusKept
<1>2. CASE r \notin Stored
  <2>1. Status(r) = "pending" /\ Status(r)' = "delivered"
    BY <1>2, StatusOf, StatusOfPrime DEF Goes, DeliveryInv, IInv, Placed
  <2>2. ASSUME NEW q \in Results \ {r} PROVE Status(q)' = Status(q)
    <3>1. \/ q \in Stored \/ q \in dropped \ Stored \/ q \notin Produced
          \/ q \in Produced \ (Stored \cup dropped)
      OBVIOUS
    <3> QED BY <3>1, StatusOf, StatusOfPrime DEF Goes, DeliveryInv, IInv, Placed
  <2> QED BY <2>1, <2>2, StatusMoves DEF Delivery!Deliver
<1> QED BY <1>1, <1>2

\* What the agent drops is dropped, unless the broker has it all the same.
LEMMA DroppedMaps ==
    ASSUME Goes, NEW r \in Results, r \in Produced \ dropped, dropped' = dropped \cup {r},
           Stored' = Stored, Produced' = Produced
    PROVE  Delivery!Drop(r) \/ UNCHANGED Delivery!vars
<1>1. CASE r \in Stored
  BY <1>1, StatusKept
<1>2. CASE r \notin Stored
  <2>1. Status(r) = "pending" /\ Status(r)' = "dropped"
    BY <1>2, StatusOf, StatusOfPrime DEF Goes, DeliveryInv, IInv, Placed
  <2>2. ASSUME NEW q \in Results \ {r} PROVE Status(q)' = Status(q)
    <3>1. \/ q \in Stored \/ q \in dropped \ Stored \/ q \notin Produced
          \/ q \in Produced \ (Stored \cup dropped)
      OBVIOUS
    <3> QED BY <3>1, StatusOf, StatusOfPrime DEF Goes, DeliveryInv, IInv, Placed
  <2> QED BY <2>1, <2>2, StatusMoves DEF Delivery!Drop
<1> QED BY <1>1, <1>2

\* A new result is pending.
LEMMA ProducedMaps ==
    ASSUME Goes, NEW r \in Results, r \notin Produced, Produced' = Produced \cup {r},
           Stored' = Stored, dropped' = dropped
    PROVE  Delivery!Produce(r)
<1>1. r \notin Stored \cup dropped
  BY DEF Goes, DeliveryInv, Placed, OnlyProduced
<1>2. Status(r) = "none" /\ Status(r)' = "pending"
  BY <1>1, StatusOf, StatusOfPrime DEF Goes, DeliveryInv, IInv, Placed
<1>3. ASSUME NEW q \in Results \ {r} PROVE Status(q)' = Status(q)
  <2>1. \/ q \in Stored \/ q \in dropped \ Stored \/ q \notin Produced
        \/ q \in Produced \ (Stored \cup dropped)
    OBVIOUS
  <2> QED BY <2>1, StatusOf, StatusOfPrime DEF Goes, DeliveryInv, IInv, Placed
<1> QED BY <1>2, <1>3, StatusMoves DEF Delivery!Produce

-----------------------------------------------------------------------------
(* Every step of the agent is a step of ResultDelivery.                    *)

\* What a step of the running agent does to the results, in the four ways that
\* ResultDelivery knows of.
Effect ==
    \/ Stored' = Stored /\ dropped' = dropped /\ Produced' = Produced
    \/ \E r \in (Results \cap Produced) \ dropped :
        Stored' = Stored \cup {r} /\ dropped' = dropped /\ Produced' = Produced
    \/ \E r \in (Results \cap Produced) \ dropped :
        Stored' = Stored /\ dropped' = dropped \cup {r} /\ Produced' = Produced
    \/ \E r \in Results \ Produced :
        Stored' = Stored /\ dropped' = dropped /\ Produced' = Produced \cup {r}

\* Each of the four effects is a step of ResultDelivery or a stutter.
LEMMA EffectMaps ==
    ASSUME Goes, Effect
    PROVE  Delivery!Next \/ UNCHANGED Delivery!vars
BY StatusKept, StoredMaps, DroppedMaps, ProducedMaps DEF Effect, Delivery!Next

\* A goroutine counts the result it has just executed.
LEMMA ExecutedPlaced ==
    ASSUME DeliveryInv, NEW t \in Tests, Executed(t)
    PROVE  Placed' /\ Effect
<1> DEFINE r == <<t, produced[t] + 1>>
<1>1. /\ tpc[t] = "execute" /\ tpc' = [tpc EXCEPT ![t] = "publish"]
      /\ produced' = [produced EXCEPT ![t] = @ + 1]
      /\ run' = run /\ dpc' = dpc /\ messages' = messages /\ todo' = todo
      /\ remaining' = remaining /\ log' = log /\ dropped' = dropped
  BY DEF Executed
<1>2. produced \in [Tests -> Nat] /\ DOMAIN tpc = Tests /\ produced[t] < MaxTicks
  <2>1. produced \in [Tests -> 0 .. MaxTicks] /\ DOMAIN tpc = Tests
    BY DEF DeliveryInv, IInv, TypeInv, TypeOK
  <2>2. produced[t] < MaxTicks
    BY <1>1 DEF DeliveryInv, IInv, TypeInv, Counters
  <2> QED BY <2>1, <2>2, AgentAssumption
<1>3. produced'[t] = produced[t] + 1 /\ \A u \in Tests \ {t} : produced'[u] = produced[u]
  BY <1>1, <1>2
<1>4. r \in Results /\ r \notin Produced
  BY <1>2, AgentAssumption DEF Results, Produced
<1>5. Produced' = Produced \cup {r}
  <2>1. ASSUME NEW q \in Results PROVE q \in Produced' <=> q \in Produced \cup {r}
    <3>1. PICK u \in Tests, n \in 1 .. MaxTicks : q = <<u, n>>
      BY DEF Results
    <3>2. CASE u = t
      <4>1. n <= produced[t] + 1 <=> n <= produced[t] \/ n = produced[t] + 1
        BY <1>2, AgentAssumption
      <4> QED BY <1>3, <3>1, <3>2, <4>1 DEF Produced
    <3>3. CASE u # t
      BY <1>3, <3>1, <3>3 DEF Produced
    <3> QED BY <3>2, <3>3
  <2> QED BY <1>4, <2>1 DEF Produced
<1>6. Held' \subseteq Held \cup {r}
  BY <1>1, <1>2 DEF Held, InHand
<1>7. Stored' = Stored /\ Buffered' = Buffered /\ Replaying' = Replaying
  BY <1>1 DEF Stored, Buffered, Replaying
<1>8. OnlyProduced' /\ DroppedGone'
  BY <1>1, <1>4, <1>5, <1>6, <1>7 DEF DeliveryInv, Placed, OnlyProduced, DroppedGone
<1>9. ReplaysBuffered' /\ AllGone'
  BY <1>1, <1>7 DEF DeliveryInv, Placed, ReplaysBuffered, AllGone
<1>10. Effect
  BY <1>1, <1>4, <1>5, <1>7 DEF Effect
<1> QED BY <1>8, <1>9, <1>10 DEF Placed

\* A goroutine hands its result to the broker, to the buffer or to nobody.
LEMMA TestStepPlaced ==
    ASSUME DeliveryInv, NEW t \in Tests, TestStep(t)
    PROVE  Placed' /\ Effect /\ run = "running" /\ run' = run
<1>1. run' = run /\ tpc[t] # "exited"
  BY DEF TestStep, Tick, Executed, Panicked, MarshalFailed, PublishResult, Push, ExitTestLoop
<1>2. run = "running"
  BY <1>1 DEF DeliveryInv, IInv, TypeInv, TypeOK, Placed, AllGone
<1>3. Stored \cup Buffered \subseteq Produced /\ Range(Replaying) \subseteq Buffered
      /\ Placed /\ TypeOK
  BY DEF DeliveryInv, IInv, TypeInv, Placed, OnlyProduced, ReplaysBuffered
<1>4. CASE Tick(t) \/ Panicked(t) \/ ExitTestLoop(t)
  <2>1. /\ produced' = produced /\ messages' = messages /\ todo' = todo
        /\ remaining' = remaining /\ log' = log /\ dropped' = dropped
    BY <1>4 DEF Tick, Panicked, ExitTestLoop
  <2>2. PICK to \in {"execute", "select", "exited"} : tpc' = [tpc EXCEPT ![t] = to]
    BY <1>4 DEF Tick, Panicked, ExitTestLoop
  <2>3. Held' \subseteq Held
    BY <1>3, <2>1, <2>2, HeldExact
  <2>4. Stored' = Stored /\ Buffered' = Buffered /\ Replaying' = Replaying /\ Produced' = Produced
    BY <2>1 DEF Stored, Buffered, Replaying, Produced
  <2> QED BY <1>1, <1>2, <1>3, <2>1, <2>3, <2>4, PlacedFrame DEF Effect
<1>5. CASE Executed(t)
  BY <1>1, <1>2, <1>5, ExecutedPlaced
<1>6. CASE MarshalFailed(t)
  <2>1. /\ produced' = produced /\ messages' = messages /\ todo' = todo
        /\ remaining' = remaining /\ log' = log /\ dropped' = dropped \cup {InHand(t)}
        /\ tpc[t] = "publish" /\ tpc' = [tpc EXCEPT ![t] = "select"]
    BY <1>6 DEF MarshalFailed
  <2>2. /\ InHand(t) \in (Results \cap Produced) \ dropped /\ InHand(t) \notin Buffered
        /\ Held' \subseteq Held \ {InHand(t)}
    <3>1. Held' \subseteq Held \ {InHand(t)}
      BY <1>3, <2>1 DEF TypeOK, Held, InHand
    <3> QED BY <2>1, <3>1, InHandOnly
  <2>3. Stored' = Stored /\ Buffered' = Buffered /\ Replaying' = Replaying /\ Produced' = Produced
    BY <2>1 DEF Stored, Buffered, Replaying, Produced
  <2> QED BY <1>1, <1>2, <1>3, <2>1, <2>2, <2>3, PlacedDrop DEF Effect
<1>7. CASE PublishResult(t)
  <2>1. /\ produced' = produced /\ messages' = messages /\ todo' = todo
        /\ remaining' = remaining /\ dropped' = dropped /\ tpc[t] = "publish"
    BY <1>7 DEF PublishResult
  <2>2. PICK outcome \in Outcomes : /\ Publish(InHand(t), outcome)
                                    /\ tpc' = [tpc EXCEPT ![t] = AfterPublish(outcome)]
    BY <1>7 DEF PublishResult
  <2>3. InHand(t) \in (Results \cap Produced) \ dropped /\ InHand(t) \in Held
    BY <2>1, InHandOnly
  <2>4. Stored' = Stored \/ Stored' = Stored \cup {InHand(t)}
    BY <1>3, <2>2, <2>3, PublishExact
  <2>5. Held' \subseteq Held
    BY <1>3, <2>1, <2>2, <2>3, HeldExact
  <2>6. Buffered' = Buffered /\ Replaying' = Replaying /\ Produced' = Produced
    BY <2>1 DEF Buffered, Replaying, Produced
  <2>7. Placed'
    BY <1>1, <1>2, <1>3, <2>1, <2>3, <2>4, <2>5, <2>6, PlacedFrame
  <2> QED BY <1>1, <1>2, <2>1, <2>3, <2>4, <2>6, <2>7 DEF Effect
<1>8. CASE Push(t)
  <2>1. /\ produced' = produced /\ todo' = todo /\ remaining' = remaining /\ log' = log
        /\ tpc[t] = "push" /\ tpc' = [tpc EXCEPT ![t] = "select"]
    BY <1>8 DEF Push
  <2>2. /\ InHand(t) \in (Results \cap Produced) \ dropped /\ InHand(t) \notin Buffered
        /\ InHand(t) \in Held /\ Held' \subseteq Held \ {InHand(t)}
    <3>1. Held' \subseteq Held \ {InHand(t)}
      BY <1>3, <2>1 DEF TypeOK, Held, InHand
    <3> QED BY <2>1, <3>1, InHandOnly
  <2>3. Stored' = Stored /\ Replaying' = Replaying /\ Produced' = Produced
    BY <2>1 DEF Stored, Replaying, Produced
  <2>4. CASE messages' = Append(messages, InHand(t)) /\ dropped' = dropped
    <3>1. Buffered' = Buffered \cup {InHand(t)}
      BY <1>3, <2>2, <2>4, RangeAppend DEF Buffered, TypeOK
    <3>2. Placed'
      BY <1>1, <1>2, <1>3, <2>1, <2>2, <2>3, <2>4, <3>1, PlacedFrame
    <3> QED BY <1>1, <1>2, <2>3, <2>4, <3>2 DEF Effect
  <2>5. CASE messages' = messages /\ dropped' = dropped \cup {InHand(t)}
    <3>1. Buffered' = Buffered
      BY <2>5 DEF Buffered
    <3>2. Placed'
      BY <1>1, <1>2, <1>3, <2>1, <2>2, <2>3, <2>5, <3>1, PlacedDrop
    <3> QED BY <1>1, <1>2, <2>2, <2>3, <2>5, <3>2 DEF Effect
  <2> QED BY <1>8, <2>4, <2>5 DEF Push
<1> QED BY <1>4, <1>5, <1>6, <1>7, <1>8 DEF TestStep

\* The elements of two sequences in a row.
LEMMA RangeConcat ==
    ASSUME NEW S, NEW s \in Seq(S), NEW u \in Seq(S)
    PROVE  Range(s \o u) = Range(s) \cup Range(u)
<1>1. \A i \in DOMAIN (s \o u) :
        \/ i \in DOMAIN s /\ (s \o u)[i] = s[i]
        \/ i - Len(s) \in DOMAIN u /\ (s \o u)[i] = u[i - Len(s)]
  OBVIOUS
<1>2. /\ \A i \in DOMAIN s : i \in DOMAIN (s \o u) /\ (s \o u)[i] = s[i]
      /\ \A i \in DOMAIN u : i + Len(s) \in DOMAIN (s \o u) /\ (s \o u)[i + Len(s)] = u[i]
  OBVIOUS
<1>3. Range(s \o u) \subseteq Range(s) \cup Range(u)
  BY <1>1, Zenon DEF Range
<1>4. Range(s) \subseteq Range(s \o u)
  BY <1>2, Zenon DEF Range
<1>5. Range(u) \subseteq Range(s \o u)
  BY <1>2, Zenon DEF Range
<1> QED BY <1>3, <1>4, <1>5

\* A drain takes results out of the buffer and puts none into it.
LEMMA DrainLoopPlaced ==
    ASSUME DeliveryInv, DrainLoop
    PROVE  Placed' /\ Effect /\ run = "running" /\ run' = run
<1>1. /\ run' = run /\ dpc # "exited" /\ produced' = produced /\ tpc' = tpc
      /\ dropped' = dropped
  BY DEF DrainLoop, DrainTick, DrainStep, DrainFinish, ExitDrainLoop
<1>2. run = "running"
  BY <1>1 DEF DeliveryInv, IInv, TypeInv, TypeOK, Placed, AllGone
<1>3. /\ Stored \cup Buffered \subseteq Produced /\ Range(Replaying) \subseteq Buffered
      /\ dropped \cap Buffered = {} /\ Placed /\ TypeOK
  BY DEF DeliveryInv, IInv, TypeInv, Placed, OnlyProduced, ReplaysBuffered, DroppedGone
<1>4. Held' = Held /\ Produced' = Produced
  BY <1>1 DEF Held, InHand, Produced
<1>5. CASE DrainTick
  <2>1. messages' = messages /\ log' = log /\ todo' = messages /\ remaining' = <<>>
    BY <1>5 DEF DrainTick
  <2>2. Stored' = Stored /\ Buffered' = Buffered /\ Replaying' = messages
    BY <1>3, <2>1 DEF Stored, Buffered, Replaying, TypeOK
  <2>3. Range(Replaying') \subseteq Buffered'
    BY <2>2 DEF Buffered
  <2>4. Placed'
    BY <1>1, <1>2, <1>3, <1>4, <2>2, <2>3, PlacedFrame
  <2> QED BY <1>1, <1>2, <1>4, <2>2, <2>4 DEF Effect
<1>6. CASE DrainStep
  <2> DEFINE r == Head(todo)
  <2>1. /\ messages' = messages /\ todo' = Tail(todo) /\ todo # <<>>
        /\ todo \in Seq(Results) /\ remaining \in Seq(Results)
    BY <1>3, <1>6 DEF DrainStep, TypeOK
  <2>2. PICK outcome \in Outcomes : Publish(r, outcome) /\ remaining' = Keep(r, outcome)
    BY <1>6 DEF DrainStep
  <2>3. r \in Results /\ todo' \in Seq(Results)
    BY <2>1
  <2>4. Range(todo) = {r} \cup Range(todo')
    BY <2>1, RangeHeadTail
  <2>5. Range(Replaying) = Range(remaining) \cup Range(todo)
    BY <2>1, RangeConcat DEF Replaying
  <2>6. r \in (Results \cap Produced) \ dropped
    BY <1>3, <2>3, <2>4, <2>5
  <2>7. remaining' \in Seq(Results) /\ Range(remaining') \subseteq Range(remaining) \cup {r}
    BY <2>1, <2>2, <2>3, RangeAppend DEF Keep
  <2>8. Range(Replaying') = Range(remaining') \cup Range(todo')
    <3> HIDE DEF r
    <3> QED BY <2>3, <2>7, RangeConcat DEF Replaying
  <2>9. Buffered' = Buffered
    BY <2>1 DEF Buffered
  <2>10. Range(Replaying') \subseteq Buffered'
    BY <1>3, <2>4, <2>5, <2>7, <2>8, <2>9
  <2>11. Stored' = Stored \/ Stored' = Stored \cup {r}
    BY <1>3, <2>2, <2>3, PublishExact
  <2> HIDE DEF r
  <2>12. Placed'
    BY <1>1, <1>2, <1>3, <1>4, <2>6, <2>9, <2>10, <2>11, PlacedFrame
  <2> QED BY <1>1, <1>2, <1>4, <2>6, <2>11, <2>12 DEF Effect
<1>7. CASE DrainFinish
  <2>1. /\ messages' = remaining /\ todo = <<>> /\ todo' = <<>> /\ remaining' = <<>>
        /\ log' = log /\ remaining \in Seq(Results)
    BY <1>3, <1>7 DEF DrainFinish, TypeOK
  <2>2. Replaying = remaining /\ Replaying' = <<>>
    BY <2>1 DEF Replaying
  <2>3. Stored' = Stored /\ Buffered' \subseteq Buffered /\ Range(Replaying') = {}
    BY <1>3, <2>1, <2>2 DEF Stored, Buffered, Range
  <2>4. Placed'
    BY <1>1, <1>2, <1>3, <1>4, <2>3, PlacedFrame
  <2> QED BY <1>1, <1>2, <1>4, <2>3, <2>4 DEF Effect
<1>8. CASE ExitDrainLoop
  <2>1. Stored' = Stored /\ Buffered' = Buffered /\ Replaying' = Replaying
    BY <1>8 DEF ExitDrainLoop, Stored, Buffered, Replaying
  <2>2. Placed'
    BY <1>1, <1>2, <1>3, <1>4, <2>1, PlacedFrame
  <2> QED BY <1>1, <1>2, <1>4, <2>1, <2>2 DEF Effect
<1> QED BY <1>5, <1>6, <1>7, <1>8 DEF DrainLoop

\* Heartbeats, the transport and cancellation touch no result.
LEMMA OtherPlaced ==
    ASSUME DeliveryInv, HeartbeatLoop \/ LinkChange \/ Cancel \/ UNCHANGED vars
    PROVE  Placed' /\ UNCHANGED Delivery!vars
<1>1. /\ produced' = produced /\ run' = run /\ tpc' = tpc /\ dropped' = dropped
      /\ messages' = messages /\ todo' = todo /\ remaining' = remaining
      /\ log' = log /\ dpc' = dpc
  BY DEF HeartbeatLoop, HeartbeatTick, SendHeartbeat, ExitHeartbeatLoop, LinkChange, Cancel, vars
<1>2. /\ Stored' = Stored /\ Buffered' = Buffered /\ Replaying' = Replaying
      /\ Held' = Held /\ Produced' = Produced
  BY <1>1 DEF Stored, Buffered, Replaying, Held, InHand, Produced
<1>3. OnlyProduced' /\ DroppedGone' /\ ReplaysBuffered' /\ AllGone'
  BY <1>1, <1>2 DEF DeliveryInv, Placed, OnlyProduced, DroppedGone, ReplaysBuffered, AllGone
<1>4. UNCHANGED Delivery!vars
  BY <1>1, <1>2 DEF Delivery!vars, Status
<1> QED BY <1>3, <1>4 DEF Placed

\* When the process ends, what it held or buffered is lost.
LEMMA EndPlaced ==
    ASSUME DeliveryInv, run = "running", EndProcess
    PROVE  Placed' /\ Delivery!End
<1>1. /\ run' = "stopped" /\ tpc' = [t \in Tests |-> "exited"] /\ dpc' = "exited"
      /\ messages' = <<>> /\ todo' = <<>> /\ remaining' = <<>>
      /\ produced' = produced /\ log' = log /\ dropped' = dropped
  BY DEF EndProcess
<1>2. /\ Stored' = Stored /\ Produced' = Produced /\ Buffered' = {} /\ Held' = {}
      /\ Range(Replaying') = {}
  BY <1>1 DEF Stored, Produced, Buffered, Held, Replaying, Range
<1>3. OnlyProduced' /\ DroppedGone' /\ ReplaysBuffered' /\ AllGone'
  BY <1>1, <1>2 DEF DeliveryInv, Placed, OnlyProduced, DroppedGone, ReplaysBuffered, AllGone
<1>4. ASSUME NEW r \in Results
      PROVE  Status(r)' = IF Status(r) = "pending" THEN "lost" ELSE Status(r)
  <2>1. \/ r \in Stored \/ r \in dropped \ Stored \/ r \notin Produced
        \/ r \in Produced \ (Stored \cup dropped)
    OBVIOUS
  <2>2. NothingSilentlyLost /\ OnlyProduced
    BY DEF DeliveryInv, IInv, Placed
  <2>3. Status(r)' = IF r \in Stored THEN "delivered" ELSE IF r \in dropped THEN "dropped"
                     ELSE IF r \notin Produced THEN "none" ELSE "lost"
    BY <1>1, <1>2 DEF Status
  <2> QED BY <2>1, <2>2, <2>3, StatusOf DEF OnlyProduced
<1>5. Delivery!End
  BY <1>1, <1>4 DEF Delivery!End
<1> QED BY <1>3, <1>5 DEF Placed

\* The agent starts as ResultDelivery does.
LEMMA InitDelivery == Init => DeliveryInv /\ Delivery!Init
<1> SUFFICES ASSUME Init PROVE DeliveryInv /\ Delivery!Init
  OBVIOUS
<1>1. /\ IInv /\ OrderInv
  BY InitKeeps, InitOrder
<1>2. /\ run = "running" /\ dropped = {} /\ messages = <<>> /\ Replaying = <<>> /\ log = <<>>
      /\ produced = [t \in Tests |-> 0]
  BY DEF Init, Replaying
<1>3. Stored = {} /\ Buffered = {} /\ Range(Replaying) = {}
  BY <1>2 DEF Stored, Buffered, Range
<1>4. Placed
  BY <1>2, <1>3 DEF Placed, OnlyProduced, DroppedGone, ReplaysBuffered, AllGone
<1>5. ASSUME NEW r \in Results PROVE Status(r) = "none"
  <2>1. r \notin Produced
    BY <1>2, AgentAssumption DEF Produced, Results
  <2> QED BY <1>2, <1>3, <2>1 DEF Status
<1>6. Delivery!Init
  BY <1>2, <1>5 DEF Delivery!Init
<1> QED BY <1>1, <1>4, <1>6 DEF DeliveryInv

\* Every step keeps the invariant and is one of ResultDelivery or a stutter.
LEMMA NextDelivery ==
    DeliveryInv /\ [Next]_vars => DeliveryInv' /\ [Delivery!Next]_(Delivery!vars)
<1> SUFFICES ASSUME DeliveryInv, [Next]_vars
             PROVE  DeliveryInv' /\ [Delivery!Next]_(Delivery!vars)
  OBVIOUS
<1>1. IInv' /\ OrderInv'
  BY NextKeeps, NextOrder DEF DeliveryInv
<1>2. CASE (\E t \in Tests : TestStep(t)) \/ DrainLoop
  <2>1. Placed' /\ Effect /\ run = "running" /\ run' = run
    BY <1>2, TestStepPlaced, DrainLoopPlaced
  <2>2. DeliveryInv' /\ Goes
    BY <1>1, <2>1 DEF DeliveryInv, Goes
  <2> QED BY <2>1, <2>2, EffectMaps
<1>3. CASE HeartbeatLoop \/ LinkChange \/ Cancel \/ UNCHANGED vars
  <2>1. Placed' /\ UNCHANGED Delivery!vars
    BY <1>3, OtherPlaced
  <2> QED BY <1>1, <2>1 DEF DeliveryInv
<1>4. CASE Stopped \/ Crash
  <2>1. run = "running" /\ EndProcess
    BY <1>4 DEF Stopped, Crash
  <2>2. Placed' /\ Delivery!End
    BY <2>1, EndPlaced
  <2> QED BY <1>1, <2>2 DEF DeliveryInv, Delivery!Next
<1> QED BY <1>2, <1>3, <1>4 DEF Next

\* For every set of tests and every buffer limit the agent implements
\* ResultDelivery: testLoop, Push and Drain take a produced result to the broker
\* or to the log of dropped ones, by one step of its life at a time, and only the
\* end of the process loses a pending one.
THEOREM AgentImplementsDelivery == Spec => DeliverySpec
<1>1. Spec => Delivery!Init /\ [][Delivery!Next]_(Delivery!vars)
  BY InitDelivery, NextDelivery, PTL DEF Spec
<1> QED BY <1>1 DEF DeliverySpec, Delivery!Spec

-----------------------------------------------------------------------------
(* What was acknowledged is not published again.                           *)

Acked == {log[i].res : i \in {j \in DOMAIN log : log[j].acked}}

\* What the agent has still to publish, as far as it knows: during a drain the
\* buffer is what the drain has left of it.
ToPublish == Held \cup Range(Replaying) \cup (IF dpc = "drain" THEN {} ELSE Buffered)

AckedGone == Acked \cap ToPublish = {}

AckedInv == DeliveryInv /\ AckedGone /\ AckedOnce

\* A publish of what has not been acknowledged.
LEMMA PublishAcks ==
    ASSUME TypeOK, AckedOnce, NEW r \in Results, r \notin Acked,
           NEW outcome \in Outcomes, Publish(r, outcome)
    PROVE  AckedOnce' /\ Acked' = IF outcome = "acked" THEN Acked \cup {r} ELSE Acked
<1>1. CASE outcome = "failed"
  BY <1>1 DEF Publish, AckedOnce, Acked
<1>2. CASE outcome # "failed"
  <2> DEFINE e == [res |-> r, acked |-> outcome = "acked"]
             n == Len(log)
  <2>1. e \in LogEntry /\ e.res = r /\ e.acked = (outcome = "acked")
    BY DEF LogEntry
  <2>2. log' = Append(log, e) /\ log \in Seq(LogEntry)
    BY <1>2 DEF Publish, TypeOK
  <2> HIDE DEF e
  <2>3. /\ n \in Nat /\ DOMAIN log = 1 .. n /\ DOMAIN log' = 1 .. (n + 1)
        /\ log'[n + 1] = e /\ \A i \in 1 .. n : log'[i] = log[i]
    BY <2>1, <2>2
  <2> HIDE DEF n
  <2>4. AckedOnce'
    <3> SUFFICES ASSUME NEW i \in 1 .. (n + 1), NEW j \in 1 .. (n + 1), i < j,
                        log'[i].res = log'[j].res
                 PROVE  ~log'[i].acked
      BY <2>3 DEF AckedOnce
    <3>1. i \in 1 .. n /\ log'[i] = log[i]
      BY <2>3
    <3>2. CASE j \in 1 .. n
      BY <2>3, <3>1, <3>2 DEF AckedOnce
    <3>3. CASE j = n + 1
      <4>1. log[i].res = r
        BY <2>1, <2>3, <3>1, <3>3
      <4> QED BY <2>3, <3>1, <4>1 DEF Acked
    <3> QED BY <2>3, <3>2, <3>3
  <2>5. \A i \in 1 .. (n + 1) : i \in 1 .. n \/ i = n + 1
    BY <2>3
  <2>6. n + 1 \in 1 .. (n + 1) /\ \A i \in 1 .. n : i \in 1 .. (n + 1)
    BY <2>3
  <2>7. Acked' \subseteq IF outcome = "acked" THEN Acked \cup {r} ELSE Acked
    <3> SUFFICES ASSUME NEW i \in 1 .. (n + 1), log'[i].acked
                 PROVE  log'[i].res \in Acked \/ (outcome = "acked" /\ log'[i].res = r)
      BY <2>3, Zenon DEF Acked
    <3>1. CASE i \in 1 .. n
      BY <2>3, <3>1, Zenon DEF Acked
    <3>2. CASE i = n + 1
      BY <2>1, <2>3, <3>2, Zenon
    <3> QED BY <2>5, <3>1, <3>2
  <2>8. Acked \subseteq Acked' /\ (outcome = "acked" => r \in Acked')
    BY <2>1, <2>3, <2>6 DEF Acked
  <2> QED BY <2>4, <2>7, <2>8
<1> QED BY <1>1, <1>2

\* A step that publishes nothing and finds nothing new to publish.
LEMMA AckedFrame ==
    ASSUME AckedInv, log' = log, ToPublish' \subseteq ToPublish
    PROVE  AckedGone' /\ AckedOnce'
BY DEF AckedInv, AckedGone, AckedOnce, Acked

\* A test's goroutine publishes what is new, and pushes what was not acknowledged.
LEMMA TestStepAcked ==
    ASSUME AckedInv, NEW t \in Tests, TestStep(t)
    PROVE  AckedGone' /\ AckedOnce'
<1>1. /\ DeliveryInv /\ AckedGone /\ AckedOnce /\ TypeOK
      /\ Range(Replaying) \subseteq Buffered /\ Stored \subseteq Produced
  BY DEF AckedInv, DeliveryInv, IInv, TypeInv, Placed, ReplaysBuffered, OnlyProduced
<1>2. CASE Tick(t) \/ Panicked(t) \/ ExitTestLoop(t) \/ MarshalFailed(t)
  <2>1. /\ produced' = produced /\ messages' = messages /\ todo' = todo
        /\ remaining' = remaining /\ log' = log /\ dpc' = dpc
    BY <1>2 DEF Tick, Panicked, ExitTestLoop, MarshalFailed
  <2>2. PICK to \in {"execute", "select", "exited"} : tpc' = [tpc EXCEPT ![t] = to]
    BY <1>2 DEF Tick, Panicked, ExitTestLoop, MarshalFailed
  <2>3. Held' \subseteq Held
    BY <1>1, <2>1, <2>2, HeldExact
  <2>4. ToPublish' \subseteq ToPublish
    BY <2>1, <2>3 DEF ToPublish, Buffered, Replaying
  <2> QED BY <2>1, <2>4, AckedFrame
<1>3. CASE Executed(t)
  <2> DEFINE r == <<t, produced[t] + 1>>
  <2>1. /\ messages' = messages /\ todo' = todo /\ remaining' = remaining /\ log' = log
        /\ dpc' = dpc /\ produced' = [produced EXCEPT ![t] = @ + 1]
        /\ tpc' = [tpc EXCEPT ![t] = "publish"]
    BY <1>3 DEF Executed
  <2>2. DOMAIN tpc = Tests /\ produced \in [Tests -> 0 .. MaxTicks]
    BY <1>1 DEF TypeOK
  <2>3. Held' \subseteq Held \cup {r}
    BY <2>1, <2>2 DEF Held, InHand
  <2>4. r \notin Produced
    <3>1. produced[t] \in Nat
      BY <2>2, AgentAssumption
    <3> QED BY <3>1 DEF Produced
  <2>5. Acked \subseteq Stored
    BY DEF Acked, Stored, Range
  <2>6. r \notin Acked
    BY <1>1, <2>4, <2>5
  <2> HIDE DEF r
  <2>7. ToPublish' \subseteq ToPublish \cup {r}
    BY <2>1, <2>3 DEF ToPublish, Buffered, Replaying
  <2> QED BY <1>1, <2>1, <2>6, <2>7 DEF AckedGone, AckedOnce, Acked
<1>4. CASE PublishResult(t)
  <2>1. /\ produced' = produced /\ messages' = messages /\ todo' = todo /\ dpc' = dpc
        /\ remaining' = remaining /\ tpc[t] = "publish"
    BY <1>4 DEF PublishResult
  <2>2. PICK outcome \in Outcomes : /\ Publish(InHand(t), outcome)
                                    /\ tpc' = [tpc EXCEPT ![t] = AfterPublish(outcome)]
    BY <1>4 DEF PublishResult
  <2>3. InHand(t) \in Results /\ InHand(t) \in Held /\ InHand(t) \notin Buffered
    BY <1>1, <2>1, InHandOnly
  <2>4. InHand(t) \notin Acked
    BY <1>1, <2>3 DEF AckedGone, ToPublish
  <2>5. AckedOnce' /\ Acked' = IF outcome = "acked" THEN Acked \cup {InHand(t)} ELSE Acked
    BY <1>1, <2>2, <2>3, <2>4, PublishAcks
  <2>6. Held' \subseteq Held
    BY <1>1, <2>1, <2>2, <2>3, HeldExact
  <2>7. Buffered' = Buffered /\ Replaying' = Replaying
    BY <2>1 DEF Buffered, Replaying
  <2>8. CASE outcome = "acked"
    <3>1. tpc' = [tpc EXCEPT ![t] = "select"]
      BY <2>2, <2>8 DEF AfterPublish
    <3>2. InHand(t) \notin Held'
      BY <1>1, <2>1, <3>1 DEF TypeOK, Held, InHand
    <3> QED BY <1>1, <2>1, <2>3, <2>5, <2>6, <2>7, <2>8, <3>2 DEF AckedGone, ToPublish
  <2>9. CASE outcome # "acked"
    BY <1>1, <2>1, <2>5, <2>6, <2>7, <2>9 DEF AckedGone, ToPublish
  <2> QED BY <2>8, <2>9
<1>5. CASE Push(t)
  <2>1. /\ produced' = produced /\ todo' = todo /\ remaining' = remaining /\ log' = log
        /\ tpc[t] = "push" /\ tpc' = [tpc EXCEPT ![t] = "select"]
        /\ dpc' = dpc /\ dpc # "drain"
        /\ messages' = messages \/ messages' = Append(messages, InHand(t))
    BY <1>5 DEF Push, MutexFree
  <2>2. InHand(t) \in Results /\ InHand(t) \in Held
    BY <1>1, <2>1, InHandOnly
  <2>3. Held' \subseteq Held
    BY <1>1, <2>1 DEF TypeOK, Held, InHand
  <2>4. Buffered' \subseteq Buffered \cup {InHand(t)}
    <3>1. Range(Append(messages, InHand(t))) = Range(messages) \cup {InHand(t)}
      BY <1>1, <2>2, RangeAppend DEF TypeOK
    <3> QED BY <2>1, <3>1 DEF Buffered
  <2>5. ToPublish' \subseteq ToPublish
    BY <2>1, <2>2, <2>3, <2>4 DEF ToPublish, Replaying
  <2> QED BY <2>1, <2>5, AckedFrame
<1> QED BY <1>2, <1>3, <1>4, <1>5 DEF TestStep

\* What the first of a drain's remaining messages is, the others are not.
LEMMA HeadOnlyOnce ==
    ASSUME NEW s \in Seq(Results), NEW u \in Seq(Results), u # <<>>, Ascending(s \o u)
    PROVE  Head(u) \notin Range(s \o Tail(u))
<1> DEFINE v == s \o u
           w == s \o Tail(u)
           p == Len(s) + 1
           f == [i \in DOMAIN w |-> IF i <= Len(s) THEN i ELSE i + 1]
<1>1. p \in DOMAIN v /\ v[p] = Head(u) /\ v \in Seq(Results) /\ p \in Nat
  OBVIOUS
<1>2. \A i \in DOMAIN w : f[i] \in DOMAIN v /\ w[i] = v[f[i]]
  BY ReplayedOne
<1>3. \A i \in DOMAIN w : f[i] \in Nat /\ f[i] # p
  OBVIOUS
<1>4. Ascending(v)
  OBVIOUS
<1> HIDE DEF v, w, p, f
<1>5. ASSUME NEW i \in DOMAIN w, w[i] = Head(u) PROVE FALSE
  <2>1. f[i] \in DOMAIN v /\ v[f[i]] = v[p] /\ (f[i] < p \/ p < f[i])
    BY <1>1, <1>2, <1>3, <1>5
  <2>2. v[p][2] < v[p][2]
    BY <1>1, <1>4, <2>1 DEF Ascending
  <2>3. v[p] \in Results
    BY <1>1
  <2>4. v[p][2] \in Nat
    BY <2>3, AgentAssumption DEF Results
  <2> QED BY <2>2, <2>4
<1>6. Head(u) \notin Range(w)
  BY <1>5 DEF Range
<1> QED BY <1>6 DEF w

\* A drain publishes each of its messages once and keeps what failed.
LEMMA DrainLoopAcked ==
    ASSUME AckedInv, DrainLoop
    PROVE  AckedGone' /\ AckedOnce'
<1>1. /\ DeliveryInv /\ AckedGone /\ AckedOnce /\ TypeOK
      /\ Range(Replaying) \subseteq Buffered /\ Ascending(Replaying)
  BY DEF AckedInv, DeliveryInv, IInv, OrderInv, TypeInv, Placed, ReplaysBuffered
<1>2. Held' = Held
  BY DEF DrainLoop, DrainTick, DrainStep, DrainFinish, ExitDrainLoop, Held, InHand
<1>3. CASE DrainTick
  <2>1. /\ messages' = messages /\ log' = log /\ todo' = messages /\ remaining' = <<>>
        /\ dpc = "select" /\ dpc' = "drain"
    BY <1>3 DEF DrainTick
  <2>2. Replaying' = messages
    BY <1>1, <2>1 DEF Replaying, TypeOK
  <2>3. ToPublish' \subseteq ToPublish
    BY <1>2, <2>1, <2>2 DEF ToPublish, Buffered
  <2> QED BY <2>1, <2>3, AckedFrame
<1>4. CASE DrainStep
  <2> DEFINE r == Head(todo)
  <2>1. /\ messages' = messages /\ todo' = Tail(todo) /\ todo # <<>>
        /\ dpc = "drain" /\ dpc' = "drain"
        /\ todo \in Seq(Results) /\ remaining \in Seq(Results)
    BY <1>1, <1>4 DEF DrainStep, TypeOK
  <2>2. PICK outcome \in Outcomes : Publish(r, outcome) /\ remaining' = Keep(r, outcome)
    BY <1>4 DEF DrainStep
  <2>3. r \in Results /\ todo' \in Seq(Results)
    BY <2>1
  <2>4. Range(todo) = {r} \cup Range(todo')
    BY <2>1, RangeHeadTail
  <2>5. Range(Replaying) = Range(remaining) \cup Range(todo)
    BY <2>1, RangeConcat DEF Replaying
  <2>6. remaining' \in Seq(Results) /\ Range(remaining') \subseteq Range(remaining) \cup {r}
    BY <2>1, <2>2, <2>3, RangeAppend DEF Keep
  <2>7. Range(Replaying') = Range(remaining') \cup Range(todo')
    <3> HIDE DEF r
    <3> QED BY <2>3, <2>6, RangeConcat DEF Replaying
  <2>8. Range(Replaying') \subseteq Range(Replaying) /\ r \in Range(Replaying)
    BY <2>4, <2>5, <2>6, <2>7
  <2>9. r \notin Acked
    BY <1>1, <2>8 DEF AckedGone, ToPublish
  <2>10. AckedOnce' /\ Acked' = IF outcome = "acked" THEN Acked \cup {r} ELSE Acked
    BY <1>1, <2>2, <2>3, <2>9, PublishAcks
  <2>11. outcome = "acked" => r \notin Range(Replaying')
    <3>1. r \notin Range(remaining \o Tail(todo))
      BY <1>1, <2>1, HeadOnlyOnce DEF Replaying
    <3> QED BY <2>1, <2>2, <3>1 DEF Keep, Replaying
  <2>12. r \notin Held
    <3>1. ASSUME NEW t \in Tests, tpc[t] \in {"publish", "push"} PROVE InHand(t) \notin Buffered
      BY <1>1, <3>1, InHandOnly
    <3> QED BY <1>1, <2>8, <3>1 DEF Held
  <2> HIDE DEF r
  <2> QED BY <1>1, <1>2, <2>1, <2>8, <2>10, <2>11, <2>12 DEF AckedGone, ToPublish
<1>5. CASE DrainFinish
  <2>1. /\ messages' = remaining /\ todo = <<>> /\ todo' = <<>> /\ remaining' = <<>>
        /\ log' = log /\ remaining \in Seq(Results)
    BY <1>1, <1>5 DEF DrainFinish, TypeOK
  <2>2. Replaying = remaining /\ Range(Replaying') = {}
    BY <2>1 DEF Replaying, Range
  <2>3. ToPublish' \subseteq ToPublish
    BY <1>2, <2>1, <2>2 DEF ToPublish, Buffered
  <2> QED BY <2>1, <2>3, AckedFrame
<1>6. CASE ExitDrainLoop
  <2>1. /\ messages' = messages /\ log' = log /\ Replaying' = Replaying
        /\ dpc = "select" /\ dpc' = "exited"
    BY <1>6 DEF ExitDrainLoop, Replaying
  <2>2. ToPublish' \subseteq ToPublish
    BY <1>2, <2>1 DEF ToPublish, Buffered
  <2> QED BY <2>1, <2>2, AckedFrame
<1> QED BY <1>3, <1>4, <1>5, <1>6 DEF DrainLoop

\* Every step keeps what was acknowledged away from what is to be published.
LEMMA NextAcked == AckedInv /\ [Next]_vars => AckedInv'
<1> SUFFICES ASSUME AckedInv, [Next]_vars PROVE AckedInv'
  OBVIOUS
<1>1. DeliveryInv'
  BY NextDelivery DEF AckedInv
<1>2. AckedGone' /\ AckedOnce'
  <2>1. ASSUME NEW t \in Tests, TestStep(t) PROVE AckedGone' /\ AckedOnce'
    BY <2>1, TestStepAcked
  <2>2. CASE DrainLoop
    BY <2>2, DrainLoopAcked
  <2>3. CASE HeartbeatLoop \/ LinkChange \/ Cancel \/ UNCHANGED vars
    <3>1. /\ produced' = produced /\ tpc' = tpc /\ messages' = messages /\ todo' = todo
          /\ remaining' = remaining /\ log' = log /\ dpc' = dpc
      BY <2>3 DEF HeartbeatLoop, HeartbeatTick, SendHeartbeat, ExitHeartbeatLoop, LinkChange,
                  Cancel, vars
    <3>2. ToPublish' = ToPublish
      BY <3>1 DEF ToPublish, Held, InHand, Buffered, Replaying
    <3> QED BY <3>1, <3>2, AckedFrame
  <2>4. CASE Stopped \/ Crash
    <3>1. /\ messages' = <<>> /\ todo' = <<>> /\ remaining' = <<>> /\ log' = log
          /\ tpc' = [t \in Tests |-> "exited"]
      BY <2>4 DEF Stopped, Crash, EndProcess
    <3>2. ToPublish' = {}
      BY <3>1 DEF ToPublish, Held, Buffered, Replaying, Range
    <3> QED BY <3>1, <3>2, AckedFrame
  <2> QED BY <2>1, <2>2, <2>3, <2>4 DEF Next
<1> QED BY <1>1, <1>2 DEF AckedInv

\* For any tests, sizes and outcomes, the agent publishes nothing again that the
\* broker has acknowledged to it: Drain keeps only what its handler failed on.
THEOREM AckedNotRepeated == Spec => []AckedOnce
<1>1. Init => AckedInv
  <2> SUFFICES ASSUME Init PROVE AckedInv
    OBVIOUS
  <2>1. log = <<>>
    BY DEF Init
  <2> QED BY <2>1, InitDelivery DEF AckedInv, AckedGone, AckedOnce, Acked
<1>2. AckedInv => AckedOnce
  BY DEF AckedInv
<1> QED BY <1>1, <1>2, NextAcked, PTL DEF Spec

-----------------------------------------------------------------------------
(* The bytes of a buffer.                                                  *)

\* A set of naturals that holds 0 and the successor of each of its elements
\* holds every natural number.
LEMMA InductiveSet ==
    ASSUME NEW T \in SUBSET Nat, 0 \in T, \A n \in T : n + 1 \in T
    PROVE  T = Nat
<1> DEFINE R == {p \in Nat \X Nat : p[1] < p[2]}
           Missing == Nat \ T
<1>0. SUFFICES ASSUME Missing # {} PROVE FALSE
  OBVIOUS
<1>1. IsWellFoundedOn(R, Nat)
  BY NatLessThanWellFounded, Zenon DEF OpToRel
<1>2. PICK x \in Missing : \A y \in Missing : <<y, x>> \notin R
  <2>1. Missing \subseteq Nat
    OBVIOUS
  <2> HIDE DEF R, Missing
  <2> QED BY <1>0, <1>1, <2>1, WFMin
<1>3. x \in Nat /\ x # 0 /\ x \notin T
  OBVIOUS
<1>4. x - 1 \in Nat /\ x - 1 < x
  BY <1>3
<1>5. x - 1 \notin Missing
  BY <1>2, <1>3, <1>4
<1>6. (x - 1) + 1 = x
  BY <1>3
<1> QED BY <1>3, <1>4, <1>5, <1>6

\* sums[k] adds up the first k numbers of f, up to the first n.
IsSums(sums, n, f) ==
    /\ sums \in [0 .. n -> Nat]
    /\ sums[0] = 0
    /\ \A k \in 1 .. n : sums[k] = sums[k - 1] + f[k]

Summable(n, f) == \E sums : IsSums(sums, n, f)

\* Sums of naturals up to each of them exist.
LEMMA SumsExist ==
    ASSUME NEW N \in Nat, NEW f \in [1 .. N -> Nat]
    PROVE  Summable(N, f)
<1> DEFINE T == {n \in Nat : n <= N => Summable(n, f)}
<1>1. 0 \in T
  <2>1. IsSums([k \in 0 .. 0 |-> 0], 0, f)
    BY DEF IsSums
  <2>2. Summable(0, f)
    BY <2>1 DEF Summable
  <2> QED BY <2>2
<1>2. ASSUME NEW n \in T PROVE n + 1 \in T
  <2>1. SUFFICES ASSUME n + 1 <= N PROVE Summable(n + 1, f)
    OBVIOUS
  <2>s. Summable(n, f)
    BY <2>1
  <2>2. PICK g : IsSums(g, n, f)
    BY <2>s DEF Summable
  <2>3. n \in Nat /\ f[n + 1] \in Nat
    BY <2>1
  <2> DEFINE h == [k \in 0 .. (n + 1) |-> IF k = n + 1 THEN g[n] + f[n + 1] ELSE g[k]]
  <2>4. h \in [0 .. (n + 1) -> Nat] /\ h[0] = 0
    BY <2>2, <2>3 DEF IsSums
  <2>5. ASSUME NEW k \in 1 .. (n + 1) PROVE h[k] = h[k - 1] + f[k]
    <3>1. CASE k = n + 1
      <4>1. h[n + 1] = g[n] + f[n + 1] /\ h[n] = g[n]
        BY <2>3
      <4>2. k - 1 = n
        BY <2>3, <3>1
      <4> QED BY <3>1, <4>1, <4>2
    <3>2. CASE k \in 1 .. n
      <4>1. h[k] = g[k] /\ h[k - 1] = g[k - 1]
        BY <2>3, <3>2
      <4>2. g[k] = g[k - 1] + f[k]
        BY <2>2, <3>2 DEF IsSums
      <4> QED BY <4>1, <4>2
    <3> QED BY <2>3, <3>1, <3>2
  <2> HIDE DEF h
  <2>6. IsSums(h, n + 1, f)
    BY <2>4, <2>5 DEF IsSums
  <2> QED BY <2>6 DEF Summable
<1>3. T = Nat
  <2>1. T \in SUBSET Nat
    OBVIOUS
  <2> HIDE DEF T
  <2> QED BY <1>1, <1>2, <2>1, InductiveSet
<1> QED BY <1>3

\* The lengths of a sequence of results add up.
LEMMA BytesSteps ==
    ASSUME NEW s \in Seq(Results)
    PROVE  LET upTo == BytesUpTo(s)
           IN  /\ upTo \in [0 .. Len(s) -> Nat]
               /\ upTo[0] = 0
               /\ \A n \in 1 .. Len(s) : upTo[n] = upTo[n - 1] + MsgSize[s[n]]
<1> DEFINE N == Len(s)
           f == [n \in 1 .. N |-> MsgSize[s[n]]]
           Is(it) == it = [n \in 0 .. N |-> IF n = 0 THEN 0 ELSE it[n - 1] + MsgSize[s[n]]]
<1>1. N \in Nat /\ f \in [1 .. N -> Nat]
  <2>1. \A n \in 1 .. N : MsgSize[s[n]] \in Nat
    BY AgentAssumption
  <2> QED BY <2>1
<1>2. PICK sums : IsSums(sums, N, f)
  <2> HIDE DEF f, N
  <2>1. Summable(N, f)
    BY <1>1, SumsExist
  <2> QED BY <2>1 DEF Summable
<1>3. Is(sums)
  BY <1>1, <1>2 DEF IsSums
<1> DEFINE upTo == CHOOSE it : Is(it)
<1>4. Is(upTo)
  <2> HIDE DEF Is
  <2> QED BY <1>3
<1>5. BytesUpTo(s) = upTo
  BY DEF BytesUpTo
<1> HIDE DEF upTo
<1>6. upTo[0] = 0 /\ \A n \in 1 .. N : upTo[n] = upTo[n - 1] + MsgSize[s[n]]
  <2>1. \A n \in 0 .. N : upTo[n] = IF n = 0 THEN 0 ELSE upTo[n - 1] + MsgSize[s[n]]
    BY <1>4
  <2>2. 0 \in 0 .. N /\ \A n \in 1 .. N : n \in 0 .. N /\ n # 0
    BY <1>1
  <2> QED BY <2>1, <2>2
<1> DEFINE T == {n \in Nat : n <= N => upTo[n] \in Nat}
<1>7. T = Nat
  <2>1. T \in SUBSET Nat /\ 0 \in T
    BY <1>6
  <2>2. ASSUME NEW n \in T PROVE n + 1 \in T
    <3>1. SUFFICES ASSUME n + 1 <= N PROVE upTo[n + 1] \in Nat
      OBVIOUS
    <3>2. n \in Nat /\ n + 1 \in 1 .. N /\ (n + 1) - 1 = n /\ upTo[n] \in Nat
      BY <1>1, <3>1
    <3>3. upTo[n + 1] = upTo[n] + MsgSize[s[n + 1]]
      BY <1>6, <3>2
    <3>4. MsgSize[s[n + 1]] \in Nat
      BY <3>2, AgentAssumption
    <3> QED BY <3>2, <3>3, <3>4
  <2> HIDE DEF T
  <2> QED BY <2>1, <2>2, InductiveSet
<1>8. upTo \in [0 .. N -> Nat]
  <2>1. \A n \in 0 .. N : upTo[n] \in Nat
    BY <1>1, <1>7
  <2>2. upTo = [n \in 0 .. N |-> upTo[n]]
    BY <1>4
  <2> HIDE DEF T, Is
  <2> QED BY <2>1, <2>2
<1> QED BY <1>5, <1>6, <1>8

\* An empty buffer has no bytes.
LEMMA BytesEmpty == Bytes(<<>>) = 0
<1>1. <<>> \in Seq(Results) /\ Len(<<>>) = 0
  OBVIOUS
<1> QED BY <1>1, BytesSteps DEF Bytes

\* The bytes of a buffer are a natural number.
LEMMA BytesType ==
    ASSUME NEW s \in Seq(Results)
    PROVE  Bytes(s) \in Nat
<1>1. Len(s) \in 0 .. Len(s)
  OBVIOUS
<1> QED BY <1>1, BytesSteps DEF Bytes

\* One more result adds its length.
LEMMA BytesAppend ==
    ASSUME NEW s \in Seq(Results), NEW r \in Results
    PROVE  Bytes(Append(s, r)) = Bytes(s) + MsgSize[r]
<1> DEFINE e == Append(s, r)
           a == BytesUpTo(s)
           b == BytesUpTo(e)
           T == {n \in Nat : n <= Len(s) => b[n] = a[n]}
<1>1. /\ e \in Seq(Results) /\ Len(e) = Len(s) + 1 /\ e[Len(e)] = r
      /\ \A n \in 1 .. Len(s) : e[n] = s[n]
      /\ Len(s) \in Nat
  OBVIOUS
<1>2. a[0] = 0 /\ \A n \in 1 .. Len(s) : a[n] = a[n - 1] + MsgSize[s[n]]
  BY BytesSteps
<1>3. b[0] = 0 /\ \A n \in 1 .. Len(e) : b[n] = b[n - 1] + MsgSize[e[n]]
  BY <1>1, BytesSteps
<1> HIDE DEF a, b, e
<1>4. T = Nat
  <2>1. T \in SUBSET Nat /\ 0 \in T
    BY <1>2, <1>3
  <2>2. ASSUME NEW n \in T PROVE n + 1 \in T
    <3>1. SUFFICES ASSUME n + 1 <= Len(s) PROVE b[n + 1] = a[n + 1]
      OBVIOUS
    <3>2. n + 1 \in 1 .. Len(s) /\ n + 1 \in 1 .. Len(e) /\ (n + 1) - 1 = n /\ b[n] = a[n]
      BY <1>1, <3>1
    <3>3. a[n + 1] = a[n] + MsgSize[s[n + 1]] /\ b[n + 1] = b[n] + MsgSize[e[n + 1]]
      BY <1>2, <1>3, <3>2
    <3> QED BY <1>1, <3>2, <3>3
  <2> HIDE DEF T
  <2> QED BY <2>1, <2>2, InductiveSet
<1>5. b[Len(s)] = a[Len(s)]
  BY <1>1, <1>4
<1>6. b[Len(e)] = b[Len(s)] + MsgSize[r]
  <2>1. Len(e) \in 1 .. Len(e) /\ Len(e) - 1 = Len(s)
    BY <1>1
  <2> QED BY <1>1, <1>3, <2>1
<1> QED BY <1>5, <1>6 DEF Bytes, a, b, e

\* A sequence is its head and its tail.
LEMMA BytesHeadTail ==
    ASSUME NEW s \in Seq(Results), s # <<>>
    PROVE  Bytes(s) = MsgSize[Head(s)] + Bytes(Tail(s))
<1> DEFINE e == Tail(s)
           a == BytesUpTo(s)
           b == BytesUpTo(e)
           c == MsgSize[Head(s)]
           T == {n \in Nat : n <= Len(e) => a[n + 1] = c + b[n]}
<1>1. /\ e \in Seq(Results) /\ Len(s) = Len(e) + 1 /\ Head(s) = s[1]
      /\ \A n \in 1 .. Len(e) : e[n] = s[n + 1]
      /\ Len(e) \in Nat /\ Head(s) \in Results
  OBVIOUS
<1>2. a[0] = 0 /\ \A n \in 1 .. Len(s) : a[n] = a[n - 1] + MsgSize[s[n]]
  BY BytesSteps
<1>3. /\ b[0] = 0 /\ b \in [0 .. Len(e) -> Nat]
      /\ \A n \in 1 .. Len(e) : b[n] = b[n - 1] + MsgSize[e[n]]
  BY <1>1, BytesSteps
<1>4. c \in Nat /\ \A n \in 1 .. Len(e) : MsgSize[e[n]] \in Nat
  BY <1>1, AgentAssumption
<1>5. a[1] = c
  <2>1. 1 \in 1 .. Len(s) /\ 1 - 1 = 0
    BY <1>1
  <2>2. a[1] = a[1 - 1] + MsgSize[s[1]]
    BY <1>2, <2>1
  <2> HIDE DEF a
  <2> QED BY <1>1, <1>2, <1>4, <2>1, <2>2
<1> HIDE DEF a, b, c, e
<1>6. T = Nat
  <2>1. T \in SUBSET Nat /\ 0 \in T
    <3>1. 0 + 1 = 1 /\ c + 0 = c
      BY <1>4
    <3> QED BY <1>3, <1>5, <3>1
  <2>2. ASSUME NEW n \in T PROVE n + 1 \in T
    <3>1. SUFFICES ASSUME n + 1 <= Len(e) PROVE a[(n + 1) + 1] = c + b[n + 1]
      OBVIOUS
    <3>2. /\ n \in Nat /\ n + 1 \in 1 .. Len(e) /\ (n + 1) - 1 = n /\ n \in 0 .. Len(e)
          /\ (n + 1) + 1 \in 1 .. Len(s) /\ ((n + 1) + 1) - 1 = n + 1
          /\ a[n + 1] = c + b[n]
      BY <1>1, <3>1
    <3>3. /\ a[(n + 1) + 1] = a[n + 1] + MsgSize[s[(n + 1) + 1]]
          /\ b[n + 1] = b[n] + MsgSize[e[n + 1]]
          /\ s[(n + 1) + 1] = e[n + 1]
      BY <1>1, <1>2, <1>3, <3>2
    <3>4. b[n] \in Nat /\ MsgSize[e[n + 1]] \in Nat
      BY <1>3, <1>4, <3>2
    <3> QED BY <1>4, <3>2, <3>3, <3>4
  <2> HIDE DEF T
  <2> QED BY <2>1, <2>2, InductiveSet
<1>7. a[Len(e) + 1] = c + b[Len(e)]
  BY <1>1, <1>6
<1> QED BY <1>1, <1>7 DEF Bytes, a, b, c, e

-----------------------------------------------------------------------------
(* curSize is what the buffer holds and stays within the limit.            *)

\* What a drain has kept and has still to try is part of what it found.
DrainWithin ==
    dpc = "drain" => Bytes(remaining) + Bytes(todo) <= Bytes(messages)

SizeInv == TypeInv /\ SizeAccounting /\ DrainWithin

\* An empty buffer has the size 0.
LEMMA InitSize == Init => SizeInv
<1> SUFFICES ASSUME Init PROVE SizeInv
  OBVIOUS
<1>1. TypeInv
  BY InitType
<1>2. 0 <= MaxSize
  BY AgentAssumption
<1> QED BY <1>1, <1>2, BytesEmpty DEF Init, SizeInv, SizeAccounting, DrainWithin

\* A step that touches neither the buffer nor a drain keeps the sizes.
LEMMA SizeFrame ==
    ASSUME SizeInv, messages' = messages, curSize' = curSize, todo' = todo,
           remaining' = remaining, remainingSize' = remainingSize,
           dpc' = "drain" => dpc = "drain"
    PROVE  SizeAccounting' /\ DrainWithin'
BY DEF SizeInv, SizeAccounting, DrainWithin

\* Push stores a result only if it fits; the other steps of a test goroutine
\* leave the buffer alone.
LEMMA TestStepSize ==
    ASSUME SizeInv, NEW t \in Tests, TestStep(t)
    PROVE  SizeAccounting' /\ DrainWithin'
<1> DEFINE r == InHand(t)
           Alone == /\ messages' = messages /\ curSize' = curSize /\ todo' = todo
                    /\ remaining' = remaining /\ remainingSize' = remainingSize
                    /\ dpc' = dpc
<1>1. ASSUME Alone PROVE SizeAccounting' /\ DrainWithin'
  BY <1>1, SizeFrame
<1>2. CASE Tick(t)
  <2>1. Alone BY <1>2 DEF Tick
  <2> QED BY <1>1, <2>1
<1>3. CASE Executed(t)
  <2>1. Alone BY <1>3 DEF Executed
  <2> QED BY <1>1, <2>1
<1>4. CASE Panicked(t)
  <2>1. Alone BY <1>4 DEF Panicked
  <2> QED BY <1>1, <2>1
<1>5. CASE MarshalFailed(t)
  <2>1. Alone BY <1>5 DEF MarshalFailed
  <2> QED BY <1>1, <2>1
<1>6. CASE PublishResult(t)
  <2>1. Alone BY <1>6 DEF PublishResult
  <2> QED BY <1>1, <2>1
<1>7. CASE Push(t)
  <2>1. r \in Results
    BY <1>7, InHandType DEF SizeInv, Push
  <2>2. CASE Fits(MsgSize[r])
    <3>1. messages' = Append(messages, r) /\ curSize' = curSize + MsgSize[r]
      BY <1>7, <2>2 DEF Push
    <3>2. dpc # "drain" /\ dpc' = dpc
      BY <1>7 DEF Push, MutexFree
    <3>3. messages \in Seq(Results)
      BY DEF SizeInv, TypeInv, TypeOK
    <3> HIDE DEF r
    <3>4. Bytes(messages') = Bytes(messages) + MsgSize[r]
      BY <2>1, <3>1, <3>3, BytesAppend
    <3>5. curSize' = Bytes(messages')
      BY <3>1, <3>4 DEF SizeInv, SizeAccounting
    <3>6. curSize' <= MaxSize
      BY <2>2, <3>1 DEF Fits
    <3> QED BY <3>2, <3>5, <3>6 DEF SizeAccounting, DrainWithin
  <2>3. CASE ~Fits(MsgSize[r])
    <3>1. Alone BY <1>7, <2>3 DEF Push
    <3> QED BY <1>1, <3>1
  <2> QED BY <2>2, <2>3
<1>8. CASE ExitTestLoop(t)
  <2>1. Alone BY <1>8 DEF ExitTestLoop
  <2> QED BY <1>1, <2>1
<1> QED BY <1>2, <1>3, <1>4, <1>5, <1>6, <1>7, <1>8 DEF TestStep

\* A drain moves each message from what it has to try to what it keeps, or loses
\* it, and recomputes the size from what it kept.
LEMMA DrainLoopSize ==
    ASSUME SizeInv, DrainLoop
    PROVE  SizeAccounting' /\ DrainWithin'
<1>1. /\ messages \in Seq(Results) /\ todo \in Seq(Results) /\ remaining \in Seq(Results)
      /\ curSize = Bytes(messages) /\ curSize <= MaxSize
  BY DEF SizeInv, TypeInv, TypeOK, SizeAccounting
<1>2. CASE DrainTick
  <2>1. /\ messages' = messages /\ curSize' = curSize /\ todo' = messages
        /\ remaining' = <<>> /\ remainingSize' = 0
    BY <1>2 DEF DrainTick
  <2>2. Bytes(messages) \in Nat
    BY <1>1, BytesType
  <2>3. Bytes(remaining') + Bytes(todo') <= Bytes(messages')
    BY <2>1, <2>2, BytesEmpty
  <2> QED BY <1>1, <2>1, <2>3, BytesEmpty DEF SizeAccounting, DrainWithin
<1>3. CASE DrainStep
  <2> DEFINE h == Head(todo)
  <2>1. PICK outcome \in Outcomes :
            /\ remaining' = Keep(h, outcome)
            /\ remainingSize' = IF outcome = "acked" THEN remainingSize
                                ELSE remainingSize + MsgSize[h]
    BY <1>3 DEF DrainStep
  <2>2. /\ dpc = "drain" /\ todo # <<>> /\ todo' = Tail(todo)
        /\ messages' = messages /\ curSize' = curSize
    BY <1>3 DEF DrainStep
  <2>3. h \in Results /\ MsgSize[h] \in Nat /\ Tail(todo) \in Seq(Results)
    <3>1. h \in Results /\ Tail(todo) \in Seq(Results)
      BY <1>1, <2>2
    <3> QED BY <3>1, AgentAssumption
  <2>4. Bytes(todo) = MsgSize[h] + Bytes(todo')
    BY <1>1, <2>2, BytesHeadTail
  <2> HIDE DEF h
  <2>5. /\ Bytes(todo') \in Nat /\ Bytes(remaining) \in Nat /\ Bytes(messages) \in Nat
    BY <1>1, <2>2, <2>3, BytesType
  <2>6. remainingSize = Bytes(remaining) /\ Bytes(remaining) + Bytes(todo) <= Bytes(messages)
    BY <2>2 DEF SizeInv, SizeAccounting, DrainWithin
  <2>7. CASE outcome = "acked"
    <3>1. remaining' = remaining /\ remainingSize' = remainingSize
      BY <2>1, <2>7 DEF Keep
    <3>2. Bytes(remaining') + Bytes(todo') <= Bytes(messages')
      BY <2>2, <2>3, <2>4, <2>5, <2>6, <3>1
    <3> QED BY <1>1, <2>2, <2>6, <3>1, <3>2 DEF SizeAccounting, DrainWithin
  <2>8. CASE outcome # "acked"
    <3>1. remaining' = Append(remaining, h) /\ remainingSize' = remainingSize + MsgSize[h]
      BY <2>1, <2>8 DEF Keep
    <3>2. Bytes(remaining') = Bytes(remaining) + MsgSize[h]
      BY <1>1, <2>3, <3>1, BytesAppend
    <3>3. Bytes(remaining') + Bytes(todo') <= Bytes(messages')
      BY <2>2, <2>3, <2>4, <2>5, <2>6, <3>2
    <3>4. remainingSize' = Bytes(remaining')
      BY <2>6, <3>1, <3>2
    <3> QED BY <1>1, <2>2, <3>3, <3>4 DEF SizeAccounting, DrainWithin
  <2> QED BY <2>7, <2>8
<1>4. CASE DrainFinish
  <2>1. /\ dpc = "drain" /\ todo = <<>> /\ dpc' = "select"
        /\ messages' = remaining /\ curSize' = remainingSize
    BY <1>4 DEF DrainFinish
  <2>2. Bytes(messages) \in Nat /\ Bytes(remaining) \in Nat
    BY <1>1, BytesType
  <2>3. remainingSize = Bytes(remaining) /\ Bytes(remaining) + Bytes(todo) <= Bytes(messages)
    BY <2>1 DEF SizeInv, SizeAccounting, DrainWithin
  <2>4. Bytes(remaining) <= Bytes(messages)
    BY <2>1, <2>2, <2>3, BytesEmpty
  <2>5. MaxSize \in Nat
    BY AgentAssumption
  <2>6. curSize' = Bytes(messages') /\ curSize' <= MaxSize
    BY <1>1, <2>1, <2>2, <2>3, <2>4, <2>5
  <2> QED BY <2>1, <2>6 DEF SizeAccounting, DrainWithin
<1>5. CASE ExitDrainLoop
  <2>1. /\ messages' = messages /\ curSize' = curSize /\ todo' = todo
        /\ remaining' = remaining /\ remainingSize' = remainingSize /\ dpc' = "exited"
    BY <1>5 DEF ExitDrainLoop
  <2> QED BY <2>1, SizeFrame
<1> QED BY <1>2, <1>3, <1>4, <1>5 DEF DrainLoop

\* Every step of the agent keeps the sizes; the end of the process empties them.
LEMMA NextSize == SizeInv /\ [Next]_vars => SizeInv'
<1> SUFFICES ASSUME SizeInv, [Next]_vars PROVE SizeInv'
  OBVIOUS
<1>1. TypeInv'
  BY NextType DEF SizeInv
<1> SUFFICES SizeAccounting' /\ DrainWithin'
  BY <1>1 DEF SizeInv
<1>2. ASSUME NEW t \in Tests, TestStep(t) PROVE SizeAccounting' /\ DrainWithin'
  BY <1>2, TestStepSize
<1>3. CASE DrainLoop
  BY <1>3, DrainLoopSize
<1>4. CASE HeartbeatLoop \/ LinkChange \/ Cancel \/ UNCHANGED vars
  <2>1. /\ messages' = messages /\ curSize' = curSize /\ todo' = todo
        /\ remaining' = remaining /\ remainingSize' = remainingSize /\ dpc' = dpc
    BY <1>4 DEF HeartbeatLoop, HeartbeatTick, SendHeartbeat, ExitHeartbeatLoop,
                LinkChange, Cancel, vars
  <2> QED BY <2>1, SizeFrame
<1>5. CASE Stopped \/ Crash
  <2>1. messages' = <<>> /\ curSize' = 0 /\ dpc' = "exited"
    BY <1>5 DEF Stopped, Crash, EndProcess
  <2>2. 0 <= MaxSize
    BY AgentAssumption
  <2> QED BY <2>1, <2>2, BytesEmpty DEF SizeAccounting, DrainWithin
<1> QED BY <1>2, <1>3, <1>4, <1>5 DEF Next

\* The buffer's byte count is right and within max_size_bytes between pushes,
\* during drains and after them, and a drain counts what it keeps.
THEOREM SizeAccounted == Spec => []SizeAccounting
<1>1. SizeInv => SizeAccounting
  BY DEF SizeInv
<1> QED BY <1>1, InitSize, NextSize, PTL DEF Spec
=============================================================================
