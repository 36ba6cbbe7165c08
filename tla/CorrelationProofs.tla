-------------------------- MODULE CorrelationProofs --------------------------
(***************************************************************************)
(* Proofs about CorrelationEngine for any prefixes, targets, POPs, paths    *)
(* and any number of concurrent handlers.                                   *)
(***************************************************************************)
EXTENDS CorrelationEngine, TLAPS

USE DEF stores, metrics, scan

\* What a handler's program counter says about its local variables.
Locals ==
    \A h \in Handlers :
        /\ h \in BgpHandlers /\ pc[h] # "idle" => upd[h] \in BgpUpdate
        /\ h \in TrHandlers /\ pc[h] # "idle" => upd[h] \in TrUpdate
        /\ pc[h] \in {"collect", "next", "scanning", "relock"} => h \in BgpHandlers
        /\ h \in BgpHandlers /\ pc[h] \in {"scanning", "relock", "snapshot", "record"}
              => cur[h] \in Targets
        /\ pc[h] = "snapshot" => arg[h] \in Keys
        /\ pc[h] = "record" => snap[h] \in Snapshot

TypeInv == TypeOK /\ Locals

\* evaluate always answers one of the four match types.
LEMMA EvaluateType ==
    ASSUME NEW b, NEW t, NEW r
    PROVE  evaluate(b, t, r) \in MatchType
BY DEF evaluate, MatchType

\* The engine starts well typed.
LEMMA InitType == Init => TypeInv
BY EngineAssumption DEF Init, TypeInv, TypeOK, Locals

\* Receiving and storing an update keeps types.
LEMMA StoreType ==
    ASSUME TypeInv, NEW h \in Handlers, Receive(h) \/ StoreBGP(h) \/ StoreTraceroute(h)
    PROVE  TypeInv'
<1> USE DEF TypeInv, TypeOK, Locals, Goto
<1>1. CASE Receive(h)
  <2>1. PICK u \in (IF h \in BgpHandlers THEN BgpUpdate ELSE TrUpdate) :
          upd' = [upd EXCEPT ![h] = u]
    BY <1>1 DEF Receive
  <2>2. h \in TrHandlers => h \notin BgpHandlers
    BY EngineAssumption
  <2>3. /\ h \in BgpHandlers => u \in BgpUpdate
        /\ h \in TrHandlers => u \in TrUpdate
    BY <2>1, <2>2
  <2>4. handled' \in [Handlers -> 0..MaxUpdates]
    BY <1>1, EngineAssumption DEF Receive
  <2>5. TypeOK'
    BY <1>1, <2>1, <2>4 DEF Receive
  <2>6. Locals'
    BY <1>1, <2>1, <2>3 DEF Receive
  <2> QED BY <2>5, <2>6
<1>2. CASE StoreBGP(h)
  <2>1. upd[h] \in BgpUpdate
    BY <1>2 DEF StoreBGP
  <2>2. bgpPaths' \in [Prefixes -> BgpPaths \cup {None}]
    BY <1>2, <2>1 DEF StoreBGP, BgpUpdate
  <2> QED BY <1>2, <2>1, <2>2 DEF StoreBGP
<1>3. CASE StoreTraceroute(h)
  <2>1. upd[h] \in TrUpdate /\ h \notin BgpHandlers
    BY <1>3, EngineAssumption DEF StoreTraceroute
  <2>2. traceroutePaths' \in [Keys -> TrInfo \cup {None}] /\ upd[h].key \in Keys
    BY <1>3, <2>1 DEF StoreTraceroute, TrUpdate
  <2> QED BY <1>3, <2>1, <2>2 DEF StoreTraceroute
<1> QED BY <1>1, <1>2, <1>3

\* The scan of correlatePrefix keeps types.
LEMMA ScanType ==
    ASSUME TypeInv, NEW h \in Handlers,
           \/ Collect(h) \/ NextTarget(h) \/ NoTargetLeft(h)
           \/ VisitKey(h) \/ Relock(h) \/ EndTarget(h)
    PROVE  TypeInv'
<1> USE DEF TypeInv, TypeOK, Locals, Goto
<1>1. CASE Collect(h)
  BY <1>1 DEF Collect
<1>2. CASE NextTarget(h)
  BY <1>2 DEF NextTarget
<1>3. CASE NoTargetLeft(h)
  BY <1>3 DEF NoTargetLeft
<1>4. CASE VisitKey(h)
  <2>1. PICK pop \in Pops \ seen[h] :
          /\ must' = [must EXCEPT ![h] = @ \ {pop}]
          /\ seen' = [seen EXCEPT ![h] = @ \cup {pop}]
          /\ arg' = [arg EXCEPT ![h] = <<cur[h], pop>>]
    BY <1>4 DEF VisitKey
  <2>2. <<cur[h], pop>> \in Keys
    BY <1>4 DEF VisitKey, Keys
  <2> QED BY <1>4, <2>1, <2>2 DEF VisitKey
<1>5. CASE Relock(h)
  BY <1>5 DEF Relock
<1>6. CASE EndTarget(h)
  BY <1>6 DEF EndTarget
<1> QED BY <1>1, <1>2, <1>3, <1>4, <1>5, <1>6

\* correlateTarget and recordResult keep types.
LEMMA CorrelateType ==
    ASSUME TypeInv, NEW h \in Handlers, TakeSnapshot(h) \/ RecordResult(h)
    PROVE  TypeInv'
<1> USE DEF TypeInv, TypeOK, Locals, Goto, Return
<1>1. CASE TakeSnapshot(h)
  <2> DEFINE k == arg[h]
             p == prefixTargetMap[k[1]]
             s == [prefix |-> p, key |-> k, bgp |-> bgpPaths[p], tr |-> traceroutePaths[k]]
  <2>1. k \in Keys /\ k[1] \in Targets /\ p \in Prefixes \cup {None}
    BY <1>1 DEF TakeSnapshot, Keys
  <2>2. CASE p # None /\ bgpPaths[p] # None /\ traceroutePaths[k] # None
    <3>1. s \in Snapshot
      BY <2>1, <2>2 DEF Snapshot
    <3>2. snap' = [snap EXCEPT ![h] = s] /\ pc' = [pc EXCEPT ![h] = "record"]
      BY <1>1, <2>2 DEF TakeSnapshot
    <3> HIDE DEF s
    <3> QED BY <1>1, <3>1, <3>2 DEF TakeSnapshot
  <2>3. CASE ~(p # None /\ bgpPaths[p] # None /\ traceroutePaths[k] # None)
    <3>1. snap' = snap /\ pc' = [pc EXCEPT ![h] = Return(h)]
      BY <1>1, <2>3 DEF TakeSnapshot
    <3> QED BY <1>1, <3>1 DEF TakeSnapshot
  <2> QED BY <2>2, <2>3
<1>2. CASE RecordResult(h)
  <2> DEFINE s == snap[h]
             match == Evaluated(s)
             perPop == <<s.prefix, s.key[2]>>
  <2>1. s \in Snapshot
    BY <1>2 DEF RecordResult
  <2>2. perPop \in PerPop /\ <<s.prefix, s.key>> \in Cells
    BY <2>1 DEF Snapshot, PerPop, Cells, Keys
  <2>3. match \in MatchType
    BY EvaluateType DEF Evaluated
  <2>4. matchStatus' \in [Cells -> MatchType \cup {None}]
    BY <1>2, <2>2, <2>3 DEF RecordResult
  <2>5. correlationsRun' \in [PerPop -> Nat]
    BY <1>2, <2>2 DEF RecordResult
  <2>6. mismatchTotal' \in [PerPop \X {"partial", "mismatch"} -> Nat]
    <3>1. CASE match \in {"partial", "mismatch"}
      <4>1. mismatchTotal' = [mismatchTotal EXCEPT ![<<perPop, match>>] = @ + 1]
        BY <1>2, <3>1 DEF RecordResult
      <4>2. <<perPop, match>> \in PerPop \X {"partial", "mismatch"}
        BY <2>2, <3>1
      <4> HIDE DEF match, perPop
      <4> QED BY <4>1, <4>2
    <3>2. CASE match \notin {"partial", "mismatch"}
      BY <1>2, <3>2 DEF RecordResult
    <3> QED BY <3>1, <3>2
  <2>7. pc' = [pc EXCEPT ![h] = Return(h)]
    BY <1>2 DEF RecordResult
  <2> HIDE DEF s, match, perPop
  <2> QED BY <1>2, <2>4, <2>5, <2>6, <2>7 DEF RecordResult
<1> QED BY <1>1, <1>2

\* Every step of the engine keeps types.
LEMMA NextType == TypeInv /\ [Next]_vars => TypeInv'
<1> SUFFICES ASSUME TypeInv, [Next]_vars PROVE TypeInv'
  OBVIOUS
<1>1. ASSUME NEW h \in Handlers, Receive(h) \/ Step(h) PROVE TypeInv'
  BY <1>1, StoreType, ScanType, CorrelateType DEF Step
<1>2. ASSUME NEW t \in Targets, NEW p \in Prefixes, RegisterPrefix(t, p) PROVE TypeInv'
  BY <1>2 DEF RegisterPrefix, TypeInv, TypeOK, Locals
<1>3. CASE UNCHANGED vars
  BY <1>3 DEF vars, TypeInv, TypeOK, Locals
<1> QED BY <1>1, <1>2, <1>3 DEF Next

\* Every variable of the engine keeps its type in every reachable state.
THEOREM EngineTypeCorrect == Spec => []TypeOK
<1>1. TypeInv => TypeOK BY DEF TypeInv
<1> QED BY <1>1, InitType, NextType, PTL DEF Spec

-----------------------------------------------------------------------------
(* No correlation is missed.                                               *)

\* Handler h will still evaluate key k for prefix p: it is about to take or to
\* record that snapshot, or its correlatePrefix has the target still to come or
\* the POP still to be yielded.
Owes(h, p, k) ==
    \/ pc[h] = "snapshot" /\ arg[h] = k
    \/ pc[h] = "record" /\ snap[h].prefix = p /\ snap[h].key = k
    \/ /\ h \in BgpHandlers
       /\ upd[h].prefix = p
       /\ \/ pc[h] = "collect"
          \/ /\ pc[h] \in {"next", "scanning", "relock", "snapshot", "record"}
             /\ k[1] \in targets[h]
          \/ /\ pc[h] \in {"scanning", "relock", "snapshot", "record"}
             /\ cur[h] = k[1]
             /\ k[2] \in must[h]

Waiting(p, k) ==
    BothKnown(p, k) /\ k[1] \notin late /\ matchStatus[<<p, k>>] = None

SomeoneOwes ==
    \A p \in Prefixes, k \in Keys :
        Waiting(p, k) => \E h \in Handlers : Owes(h, p, k)

IInv == TypeInv /\ SomeoneOwes

\* A handler that neither moves nor is touched keeps what it owes.
LEMMA OwesFrame ==
    ASSUME NEW h, NEW g \in Handlers, g # h, TypeOK,
           \E to : pc' = [pc EXCEPT ![h] = to],
           upd' = upd \/ \E u : upd' = [upd EXCEPT ![h] = u],
           targets' = targets \/ \E u : targets' = [targets EXCEPT ![h] = u],
           cur' = cur \/ \E u : cur' = [cur EXCEPT ![h] = u],
           must' = must \/ \E u : must' = [must EXCEPT ![h] = u],
           arg' = arg \/ \E u : arg' = [arg EXCEPT ![h] = u],
           snap' = snap \/ \E u : snap' = [snap EXCEPT ![h] = u],
           NEW p, NEW k, Owes(g, p, k)
    PROVE  Owes(g, p, k)'
<1>1. pc'[g] = pc[g] /\ upd'[g] = upd[g] /\ targets'[g] = targets[g]
  BY DEF TypeOK
<1>2. cur'[g] = cur[g] /\ must'[g] = must[g] /\ arg'[g] = arg[g] /\ snap'[g] = snap[g]
  BY DEF TypeOK
<1> QED BY <1>1, <1>2 DEF Owes

\* What every step of a handler does to its own local variables.
StepFrame(h) ==
    /\ \E to : pc' = [pc EXCEPT ![h] = to]
    /\ upd' = upd \/ \E u : upd' = [upd EXCEPT ![h] = u]
    /\ targets' = targets \/ \E u : targets' = [targets EXCEPT ![h] = u]
    /\ cur' = cur \/ \E u : cur' = [cur EXCEPT ![h] = u]
    /\ must' = must \/ \E u : must' = [must EXCEPT ![h] = u]
    /\ arg' = arg \/ \E u : arg' = [arg EXCEPT ![h] = u]
    /\ snap' = snap \/ \E u : snap' = [snap EXCEPT ![h] = u]
    /\ prefixTargetMap' = prefixTargetMap
    /\ late' = late

\* If what was waiting before is owed by h itself only when it still is after
\* the step, and what starts to wait is owed by h, then somebody owes it.
LEMMA OwesStep ==
    ASSUME IInv, NEW h \in Handlers, StepFrame(h),
           \A p \in Prefixes, k \in Keys :
             Waiting(p, k)' =>
                \/ Waiting(p, k) /\ (Owes(h, p, k) => Owes(h, p, k)')
                \/ Owes(h, p, k)'
    PROVE  SomeoneOwes'
<1> SUFFICES ASSUME NEW p \in Prefixes, NEW k \in Keys, Waiting(p, k)'
             PROVE  \E g \in Handlers : Owes(g, p, k)'
  BY DEF SomeoneOwes
<1>1. CASE Owes(h, p, k)'
  BY <1>1
<1>2. CASE Waiting(p, k) /\ (Owes(h, p, k) => Owes(h, p, k)')
  <2>1. PICK g \in Handlers : Owes(g, p, k)
    BY <1>2 DEF IInv, SomeoneOwes
  <2>2. CASE g = h
    BY <1>2, <2>1, <2>2
  <2>3. CASE g # h
    <3>1. Owes(g, p, k)'
      BY <2>1, <2>3, OwesFrame DEF IInv, TypeInv, StepFrame
    <3> QED BY <3>1
  <2> QED BY <2>2, <2>3
<1> QED BY <1>1, <1>2

\* A handler that stores one side owes the evaluations that became possible.
LEMMA StoreOwes ==
    ASSUME IInv, NEW h \in Handlers, Receive(h) \/ StoreBGP(h) \/ StoreTraceroute(h)
    PROVE  SomeoneOwes'
<1>1. StepFrame(h)
  BY DEF Receive, StoreBGP, StoreTraceroute, Goto, StepFrame
<1>2. TypeOK /\ Locals
  BY DEF IInv, TypeInv
<1>3. \A p \in Prefixes, k \in Keys : ~Owes(h, p, k)
  BY <1>2 DEF Receive, StoreBGP, StoreTraceroute, Owes
<1> SUFFICES ASSUME NEW p \in Prefixes, NEW k \in Keys, Waiting(p, k)'
             PROVE  Waiting(p, k) \/ Owes(h, p, k)'
  BY <1>1, <1>3, OwesStep
<1>4. CASE Receive(h)
  BY <1>4 DEF Receive, Waiting, BothKnown
<1>5. CASE StoreBGP(h)
  <2>1. upd[h] \in BgpUpdate /\ upd' = upd /\ h \in BgpHandlers
    BY <1>2, <1>5 DEF StoreBGP, Locals
  <2>2. CASE p # upd[h].prefix
    <3>1. bgpPaths'[p] = bgpPaths[p]
      BY <1>2, <1>5, <2>2 DEF StoreBGP, TypeOK
    <3> QED BY <1>5, <3>1 DEF StoreBGP, Waiting, BothKnown
  <2>3. CASE p = upd[h].prefix
    <3>1. upd[h].path # None
      BY <1>2, <1>5, <2>3 DEF StoreBGP, Waiting, BothKnown, TypeOK
    <3>2. pc'[h] = "collect"
      BY <1>2, <1>5, <3>1 DEF StoreBGP, Goto, TypeOK
    <3> QED BY <2>1, <2>3, <3>2 DEF Owes
  <2> QED BY <2>2, <2>3
<1>6. CASE StoreTraceroute(h)
  <2>1. upd[h].key \in Keys
    BY <1>2, <1>6 DEF StoreTraceroute, Locals, TrUpdate
  <2>2. CASE k # upd[h].key
    <3>1. traceroutePaths'[k] = traceroutePaths[k]
      BY <1>2, <1>6, <2>2 DEF StoreTraceroute, TypeOK
    <3> QED BY <1>6, <3>1 DEF StoreTraceroute, Waiting, BothKnown
  <2>3. CASE k = upd[h].key
    <3>1. pc'[h] = "snapshot" /\ arg'[h] = k
      BY <1>2, <1>6, <2>3 DEF StoreTraceroute, Goto, TypeOK
    <3> QED BY <3>1 DEF Owes
  <2> QED BY <2>2, <2>3
<1> QED BY <1>4, <1>5, <1>6

\* correlatePrefix drops no target it has still to visit.
LEMMA ScanOwes ==
    ASSUME IInv, NEW h \in Handlers,
           \/ Collect(h) \/ NextTarget(h) \/ NoTargetLeft(h)
           \/ VisitKey(h) \/ Relock(h) \/ EndTarget(h)
    PROVE  SomeoneOwes'
<1>1. StepFrame(h)
  BY DEF Collect, NextTarget, NoTargetLeft, VisitKey, Relock, EndTarget, Goto, StepFrame
<1>2. TypeOK /\ Locals
  BY DEF IInv, TypeInv
<1>3. /\ matchStatus' = matchStatus /\ bgpPaths' = bgpPaths /\ late' = late
      /\ traceroutePaths' = traceroutePaths /\ prefixTargetMap' = prefixTargetMap
      /\ upd' = upd
  BY DEF Collect, NextTarget, NoTargetLeft, VisitKey, Relock, EndTarget
<1>4. h \in BgpHandlers
  BY <1>2 DEF Collect, NextTarget, NoTargetLeft, VisitKey, Relock, EndTarget, Locals
<1> SUFFICES ASSUME NEW p \in Prefixes, NEW k \in Keys, Waiting(p, k), Owes(h, p, k)
             PROVE  Owes(h, p, k)'
  BY <1>1, <1>3, OwesStep DEF Waiting, BothKnown
<1>5. k[1] \in Targets /\ k[2] \in Pops /\ k = <<k[1], k[2]>>
  BY DEF Keys
<1>6. CASE Collect(h)
  <2>1. upd[h].prefix = p
    BY <1>6 DEF Collect, Owes
  <2>2. pc'[h] = "next" /\ targets'[h] = {t \in Targets : prefixTargetMap[t] = p}
    BY <1>2, <1>6, <2>1 DEF Collect, Goto, TypeOK
  <2>3. k[1] \in targets'[h]
    BY <1>5, <2>2 DEF Waiting, BothKnown
  <2> QED BY <1>3, <1>4, <2>1, <2>2, <2>3 DEF Owes
<1>7. CASE NextTarget(h)
  <2>1. upd[h].prefix = p /\ k[1] \in targets[h]
    BY <1>7 DEF NextTarget, Owes
  <2>2. PICK t \in targets[h] :
          /\ targets'[h] = targets[h] \ {t}
          /\ cur'[h] = t
          /\ must'[h] = {pop \in Pops : traceroutePaths[<<t, pop>>] # None}
    BY <1>2, <1>7 DEF NextTarget, TypeOK
  <2>3. pc'[h] = "scanning"
    BY <1>2, <1>7 DEF NextTarget, Goto, TypeOK
  <2>4. CASE t = k[1]
    <3>1. k[2] \in must'[h]
      BY <1>5, <2>2, <2>4 DEF Waiting, BothKnown
    <3> QED BY <1>3, <1>4, <2>1, <2>2, <2>3, <2>4, <3>1 DEF Owes
  <2>5. CASE t # k[1]
    BY <1>3, <1>4, <2>1, <2>2, <2>3, <2>5 DEF Owes
  <2> QED BY <2>4, <2>5
<1>8. CASE NoTargetLeft(h)
  BY <1>8 DEF NoTargetLeft, Owes
<1>9. CASE VisitKey(h)
  <2>1. PICK pop \in Pops :
          must'[h] = must[h] \ {pop} /\ arg'[h] = <<cur[h], pop>>
    BY <1>2, <1>9 DEF VisitKey, TypeOK
  <2>2. pc'[h] = "snapshot" /\ targets' = targets /\ cur' = cur
    BY <1>2, <1>9 DEF VisitKey, Goto, TypeOK
  <2>3. pc[h] = "scanning"
    BY <1>9 DEF VisitKey
  <2>4. CASE cur[h] = k[1] /\ k[2] = pop
    BY <1>5, <2>1, <2>2, <2>4 DEF Owes
  <2>5. CASE ~(cur[h] = k[1] /\ k[2] = pop)
    BY <1>3, <1>4, <2>1, <2>2, <2>3, <2>5 DEF Owes
  <2> QED BY <2>4, <2>5
<1>10. CASE Relock(h)
  BY <1>2, <1>10 DEF Relock, Goto, Owes, TypeOK
<1>11. CASE EndTarget(h)
  BY <1>2, <1>11 DEF EndTarget, Goto, Owes, TypeOK
<1> QED BY <1>6, <1>7, <1>8, <1>9, <1>10, <1>11

\* correlateTarget pays what its handler owed.
LEMMA CorrelateOwes ==
    ASSUME IInv, NEW h \in Handlers, TakeSnapshot(h) \/ RecordResult(h)
    PROVE  SomeoneOwes'
<1>1. StepFrame(h)
  BY DEF TakeSnapshot, RecordResult, Goto, StepFrame
<1>2. TypeOK /\ Locals
  BY DEF IInv, TypeInv
<1>3. /\ bgpPaths' = bgpPaths /\ traceroutePaths' = traceroutePaths /\ late' = late
      /\ prefixTargetMap' = prefixTargetMap /\ upd' = upd /\ targets' = targets
      /\ cur' = cur /\ must' = must
  BY DEF TakeSnapshot, RecordResult
<1> SUFFICES ASSUME NEW p \in Prefixes, NEW k \in Keys, Waiting(p, k)'
             PROVE  Waiting(p, k) /\ (Owes(h, p, k) => Owes(h, p, k)')
  BY <1>1, OwesStep
<1>4. CASE TakeSnapshot(h)
  <2>1. matchStatus' = matchStatus /\ pc[h] = "snapshot"
    BY <1>4 DEF TakeSnapshot
  <2>2. Waiting(p, k)
    BY <1>3, <2>1 DEF Waiting, BothKnown
  <2>3. CASE arg[h] = k
    <3>1. prefixTargetMap[k[1]] = p /\ bgpPaths[p] # None /\ traceroutePaths[k] # None
      BY <2>2 DEF Waiting, BothKnown
    <3>2. p # None
      BY EngineAssumption
    <3>3. pc'[h] = "record" /\ snap'[h].prefix = p /\ snap'[h].key = k
      BY <1>2, <1>4, <2>3, <3>1, <3>2 DEF TakeSnapshot, Goto, TypeOK
    <3> QED BY <2>2, <3>3 DEF Owes
  <2>4. CASE arg[h] # k
    <3>1. pc'[h] = "record" \/ pc'[h] = Return(h)
      BY <1>2, <1>4 DEF TakeSnapshot, Goto, TypeOK
    <3>2. h \in BgpHandlers => pc'[h] \in {"record", "relock"}
      BY <3>1 DEF Return
    <3> QED BY <1>3, <2>1, <2>2, <2>4, <3>2 DEF Owes
  <2> QED BY <2>3, <2>4
<1>5. CASE RecordResult(h)
  <2> DEFINE c == <<snap[h].prefix, snap[h].key>>
  <2>1. pc[h] = "record" /\ snap[h] \in Snapshot
    BY <1>2, <1>5 DEF RecordResult, Locals
  <2>2. c \in Cells
    BY <2>1 DEF Snapshot, Cells
  <2>3. matchStatus' = [matchStatus EXCEPT ![c] = Evaluated(snap[h])]
    BY <1>5 DEF RecordResult
  <2>4. Evaluated(snap[h]) # None
    BY EvaluateType, EngineAssumption DEF Evaluated
  <2>5. <<p, k>> \in Cells
    BY DEF Cells
  <2>6. <<p, k>> # c
    <3> SUFFICES ASSUME <<p, k>> = c PROVE FALSE
      OBVIOUS
    <3>1. matchStatus'[c] = Evaluated(snap[h])
      BY <1>2, <2>2, <2>3 DEF TypeOK
    <3> QED BY <2>4, <3>1 DEF Waiting
  <2>7. matchStatus'[<<p, k>>] = matchStatus[<<p, k>>]
    BY <1>2, <2>2, <2>3, <2>5, <2>6 DEF TypeOK
  <2>8. Waiting(p, k)
    BY <1>3, <2>7 DEF Waiting, BothKnown
  <2>9. h \in BgpHandlers => pc'[h] = "relock"
    BY <1>2, <1>5 DEF RecordResult, Goto, Return, TypeOK
  <2> QED BY <1>3, <2>1, <2>6, <2>8, <2>9 DEF Owes
<1> QED BY <1>4, <1>5

\* RegisterPrefix makes nothing due.
LEMMA RegisterOwes ==
    ASSUME IInv, NEW t \in Targets, NEW q \in Prefixes, RegisterPrefix(t, q)
    PROVE  SomeoneOwes'
<1>1. TypeOK
  BY DEF IInv, TypeInv
<1> SUFFICES ASSUME NEW p \in Prefixes, NEW k \in Keys, Waiting(p, k)'
             PROVE  \E h \in Handlers : Owes(h, p, k)'
  BY DEF SomeoneOwes
<1>2. k[1] \in Targets
  BY DEF Keys
<1>3. k[1] # t
  <2> SUFFICES ASSUME k[1] = t PROVE FALSE
    OBVIOUS
  <2>1. p = q
    BY <1>1 DEF RegisterPrefix, Waiting, BothKnown, TypeOK
  <2>2. Known(t, q)
    BY <2>1 DEF RegisterPrefix, Waiting, BothKnown, Known
  <2> QED BY <2>2 DEF RegisterPrefix, Waiting
<1>4. Waiting(p, k)
  BY <1>1, <1>2, <1>3 DEF RegisterPrefix, Waiting, BothKnown, TypeOK
<1> QED BY <1>4 DEF IInv, SomeoneOwes, RegisterPrefix, Owes

\* The inductive step of NoCorrelationMissed.
LEMMA NextOwes == IInv /\ [Next]_vars => IInv'
<1> SUFFICES ASSUME IInv, [Next]_vars PROVE IInv'
  OBVIOUS
<1>1. TypeInv'
  BY NextType DEF IInv
<1>2. SomeoneOwes'
  <2>1. ASSUME NEW h \in Handlers, Receive(h) \/ Step(h) PROVE SomeoneOwes'
    BY <2>1, StoreOwes, ScanOwes, CorrelateOwes DEF Step
  <2>2. ASSUME NEW t \in Targets, NEW p \in Prefixes, RegisterPrefix(t, p)
        PROVE  SomeoneOwes'
    BY <2>2, RegisterOwes
  <2>3. CASE UNCHANGED vars
    BY <2>3 DEF vars, IInv, SomeoneOwes, Waiting, BothKnown, Owes
  <2> QED BY <2>1, <2>2, <2>3 DEF Next
<1> QED BY <1>1, <1>2 DEF IInv

\* For any number of concurrent handlers, whichever of the two sides of a
\* registered target is stored last is correlated with the other one: once no
\* handler is active, no known pair is left without a status.
THEOREM NoCorrelationMissed == Spec => []NoMissedCorrelation
<1>1. Init => IInv
  <2> SUFFICES ASSUME Init PROVE IInv
    OBVIOUS
  <2>1. SomeoneOwes
    BY DEF Init, SomeoneOwes, Waiting, BothKnown
  <2> QED BY <2>1, InitType DEF IInv
<1>2. IInv => NoMissedCorrelation
  BY DEF IInv, SomeoneOwes, Waiting, Owes, NoMissedCorrelation, Quiescent
<1> QED BY <1>1, <1>2, NextOwes, PTL DEF Spec

-----------------------------------------------------------------------------
(* The handlers never all wait.                                            *)

\* What correlatePrefix's iteration has still to yield is in the map: an entry is
\* never deleted, and one already yielded is not yielded again.
Visitable ==
    \A h \in BgpHandlers :
        pc[h] \in {"scanning", "relock", "snapshot", "record"} =>
            /\ must[h] \cap seen[h] = {}
            /\ \A pop \in must[h] : traceroutePaths[<<cur[h], pop>>] # None

\* The step of a handler keeps the entries of the other iterations.
LEMMA VisitableFrame ==
    ASSUME TypeInv, Visitable, NEW h \in Handlers, NEW to, Goto(h, to),
           cur' = cur, must' = must, seen' = seen, traceroutePaths' = traceroutePaths,
           \/ to \notin {"scanning", "relock", "snapshot", "record"}
           \/ pc[h] \in {"scanning", "relock", "snapshot", "record"}
           \/ h \notin BgpHandlers
    PROVE  Visitable'
BY DEF Visitable, Goto, TypeInv, TypeOK

\* Every step of the engine keeps the iterations' entries in the map.
LEMMA NextVisitable == TypeInv /\ Visitable /\ [Next]_vars => Visitable'
<1> SUFFICES ASSUME TypeInv, Visitable, [Next]_vars PROVE Visitable'
  OBVIOUS
<1>1. TypeOK /\ Locals
  BY DEF TypeInv
<1>2. ASSUME NEW h \in Handlers, Receive(h) PROVE Visitable'
  BY <1>2, VisitableFrame DEF Receive
<1>3. ASSUME NEW h \in Handlers, StoreBGP(h) PROVE Visitable'
  <2>1. PICK to \in {"idle", "collect"} : Goto(h, to)
    BY <1>3 DEF StoreBGP
  <2> QED BY <1>3, <2>1, VisitableFrame DEF StoreBGP
<1>4. ASSUME NEW h \in Handlers, StoreTraceroute(h) PROVE Visitable'
  <2>1. /\ upd[h] \in TrUpdate /\ h \notin BgpHandlers
        /\ traceroutePaths' = [traceroutePaths EXCEPT ![upd[h].key] = upd[h].info]
        /\ cur' = cur /\ must' = must /\ seen' = seen
    BY <1>1, <1>4, EngineAssumption DEF StoreTraceroute, Locals
  <2>2. upd[h].info # None /\ upd[h].key \in Keys
    BY <2>1, EngineAssumption DEF TrUpdate
  <2>3. \A k \in Keys : traceroutePaths[k] # None => traceroutePaths'[k] # None
    BY <1>1, <2>1, <2>2 DEF TypeOK
  <2>4. ASSUME NEW g \in BgpHandlers, pc'[g] \in {"scanning", "relock", "snapshot", "record"}
        PROVE  /\ must'[g] \cap seen'[g] = {}
               /\ \A pop \in must'[g] : traceroutePaths'[<<cur'[g], pop>>] # None
    <3>1. g \in Handlers /\ g # h
      BY <2>1 DEF Handlers
    <3>2. pc'[g] = pc[g]
      BY <1>1, <1>4, <3>1 DEF StoreTraceroute, Goto, TypeOK
    <3>3. cur[g] \in Targets /\ must[g] \subseteq Pops
      BY <1>1, <2>4, <3>1, <3>2 DEF TypeOK, Locals
    <3>4. \A pop \in must[g] : <<cur[g], pop>> \in Keys
      BY <3>3 DEF Keys
    <3> QED BY <2>1, <2>3, <2>4, <3>2, <3>4 DEF Visitable
  <2> QED BY <2>4 DEF Visitable
<1>5. ASSUME NEW h \in Handlers, Collect(h) PROVE Visitable'
  BY <1>5, VisitableFrame DEF Collect
<1>6. ASSUME NEW h \in Handlers, NextTarget(h) PROVE Visitable'
  <2>1. PICK t \in targets[h] :
          /\ cur' = [cur EXCEPT ![h] = t]
          /\ must' = [must EXCEPT ![h] = {pop \in Pops : traceroutePaths[<<t, pop>>] # None}]
    BY <1>6 DEF NextTarget
  <2>2. seen' = [seen EXCEPT ![h] = {}] /\ traceroutePaths' = traceroutePaths
    BY <1>6 DEF NextTarget
  <2>3. \A g \in Handlers : g # h => /\ pc'[g] = pc[g] /\ cur'[g] = cur[g]
                                     /\ must'[g] = must[g] /\ seen'[g] = seen[g]
    BY <1>1, <1>6, <2>1, <2>2 DEF NextTarget, Goto, TypeOK
  <2>4. /\ cur'[h] = t /\ seen'[h] = {}
        /\ must'[h] = {pop \in Pops : traceroutePaths[<<t, pop>>] # None}
    BY <1>1, <2>1, <2>2 DEF TypeOK
  <2>5. BgpHandlers \subseteq Handlers
    BY DEF Handlers
  <2> QED BY <2>2, <2>3, <2>4, <2>5 DEF Visitable
<1>7. ASSUME NEW h \in Handlers, NoTargetLeft(h) PROVE Visitable'
  BY <1>7, VisitableFrame DEF NoTargetLeft
<1>8. ASSUME NEW h \in Handlers, VisitKey(h) PROVE Visitable'
  <2>1. PICK pop \in Pops \ seen[h] :
          /\ must' = [must EXCEPT ![h] = @ \ {pop}]
          /\ seen' = [seen EXCEPT ![h] = @ \cup {pop}]
    BY <1>8 DEF VisitKey
  <2>2. pc[h] = "scanning" /\ traceroutePaths' = traceroutePaths /\ cur' = cur
    BY <1>8 DEF VisitKey
  <2>3. \A g \in Handlers : g # h => /\ pc'[g] = pc[g]
                                     /\ must'[g] = must[g] /\ seen'[g] = seen[g]
    BY <1>1, <1>8, <2>1 DEF VisitKey, Goto, TypeOK
  <2>4. must'[h] = must[h] \ {pop} /\ seen'[h] = seen[h] \cup {pop}
    BY <1>1, <2>1 DEF TypeOK
  <2>5. BgpHandlers \subseteq Handlers
    BY DEF Handlers
  <2> QED BY <2>2, <2>3, <2>4, <2>5 DEF Visitable
<1>9. ASSUME NEW h \in Handlers, Relock(h) PROVE Visitable'
  BY <1>9, VisitableFrame DEF Relock
<1>10. ASSUME NEW h \in Handlers, EndTarget(h) PROVE Visitable'
  BY <1>10, VisitableFrame DEF EndTarget
<1>11. ASSUME NEW h \in Handlers, TakeSnapshot(h) PROVE Visitable'
  <2>1. PICK to : Goto(h, to)
    BY <1>11 DEF TakeSnapshot
  <2> QED BY <1>11, <2>1, VisitableFrame DEF TakeSnapshot
<1>12. ASSUME NEW h \in Handlers, RecordResult(h) PROVE Visitable'
  BY <1>12, VisitableFrame DEF RecordResult
<1>13. ASSUME NEW t \in Targets, NEW p \in Prefixes, RegisterPrefix(t, p) PROVE Visitable'
  BY <1>13 DEF RegisterPrefix, Visitable
<1>14. CASE UNCHANGED vars
  BY <1>14 DEF vars, Visitable
<1> QED BY <1>2, <1>3, <1>4, <1>5, <1>6, <1>7, <1>8, <1>9, <1>10, <1>11, <1>12, <1>13, <1>14
        DEF Next, Step

\* Whoever iterates can go on; if nobody does, a writer gets the lock; and if no
\* writer waits, every reader gets it.
LEMMA SomebodyMoves ==
    ASSUME TypeInv, Visitable
    PROVE  NeverStuck
<1> SUFFICES ASSUME ~Quiescent PROVE \E h \in Handlers : CanMove(h)
  BY DEF NeverStuck
<1>1. PICK h \in Handlers : pc[h] # "idle"
  BY DEF Quiescent
<1>2. CASE \E g \in Handlers : pc[g] = "scanning"
  <2>1. PICK g \in Handlers : pc[g] = "scanning"
    BY <1>2
  <2>2. g \in BgpHandlers /\ must[g] \subseteq Pops
    BY <2>1 DEF TypeInv, TypeOK, Locals
  <2>3. must[g] = {} \/ \E pop \in Pops \ seen[g] : traceroutePaths[<<cur[g], pop>>] # None
    BY <2>1, <2>2 DEF Visitable
  <2> QED BY <2>1, <2>3 DEF CanMove
<1>3. CASE \A g \in Handlers : pc[g] # "scanning"
  <2>1. CanLock
    BY <1>3 DEF CanLock, HoldsRead
  <2>2. CASE \E g \in Handlers : pc[g] = "lock"
    BY <2>1, <2>2 DEF CanMove
  <2>3. CASE \A g \in Handlers : pc[g] # "lock"
    <3>1. CanRLock
      BY <2>3 DEF CanRLock
    <3>2. pc[h] \in {"collect", "next", "relock", "snapshot", "record"}
      BY <1>1, <1>3, <2>3 DEF TypeInv, TypeOK
    <3> QED BY <3>1, <3>2 DEF CanMove
  <2> QED BY <2>2, <2>3
<1> QED BY <1>2, <1>3

\* correlatePrefix, correlateTarget and the two handlers share one RWMutex whose
\* waiting writers block new readers: however many of them run, one can always go on.
THEOREM EngineNeverStuck == Spec => []NeverStuck
<1>1. Init => Visitable
  BY DEF Init, Visitable, Handlers
<1>2. TypeInv /\ Visitable => NeverStuck
  BY SomebodyMoves
<1> QED BY <1>1, <1>2, InitType, NextType, NextVisitable, PTL DEF Spec

-----------------------------------------------------------------------------
(* Every status is the comparison of two paths that were stored together.   *)

\* What a step of h does to the comparisons in hand.
LEMMA ComparedStep ==
    ASSUME TypeInv, NEW h \in Handlers, NEW to, Goto(h, to),
           snap' = snap \/ \E s : snap' = [snap EXCEPT ![h] = s]
    PROVE  Compared' = [Compared EXCEPT ![h] = InHand(h)']
<1>1. ASSUME NEW g \in Handlers, g # h PROVE InHand(g)' = InHand(g)
  BY <1>1 DEF InHand, Goto, TypeInv, TypeOK
<1> QED BY <1>1 DEF Compared

\* A step neither to nor from recordResult leaves them as they are.
LEMMA ComparedKept ==
    ASSUME TypeInv, NEW h \in Handlers, NEW to, Goto(h, to), snap' = snap,
           to # "record", pc[h] # "record"
    PROVE  Compared' = Compared
<1>1. ASSUME NEW g \in Handlers PROVE InHand(g)' = InHand(g)
  BY DEF InHand, Goto, TypeInv, TypeOK
<1> QED BY <1>1 DEF Compared

\* evaluate is the same function on both sides.
LEMMA SameEvaluate ==
    ASSUME NEW b, NEW t, NEW r
    PROVE  evaluate(b, t, r) = Correlation!evaluate(b, t, r)
<1>1. ASSUME NEW S PROVE Cardinality(S) = Correlation!Cardinality(S)
  BY Zenon DEF Cardinality, Correlation!Cardinality
<1>2. pathOverlap(b, t) = Correlation!pathOverlap(b, t)
  BY <1>1 DEF pathOverlap, Correlation!pathOverlap
<1>3. isSubsequence(t, b) = Correlation!isSubsequence(t, b)
  BY DEF isSubsequence, Correlation!isSubsequence
<1>4. Origin(b) = Correlation!Origin(b) /\ Origin(t) = Correlation!Origin(t)
  BY DEF Origin, Correlation!Origin
<1> QED BY <1>2, <1>3, <1>4 DEF evaluate, Correlation!evaluate

\* Nothing is in hand when the engine starts.
LEMMA CorrelatorInit == Init => Correlation!Init
<1> SUFFICES ASSUME Init PROVE Correlation!Init
  OBVIOUS
<1>1. Compared = [h \in Handlers |-> None]
  BY DEF Init, Compared, InHand
<1> QED BY <1>1 DEF Init, Correlation!Init, Cells

\* Every step of the engine learns something, compares, shows, or is none of
\* Correlator's business.
LEMMA CorrelatorNext == TypeInv /\ [Next]_vars => [Correlation!Next]_Correlation!vars
<1> SUFFICES ASSUME TypeInv, [Next]_vars PROVE [Correlation!Next]_Correlation!vars
  OBVIOUS
<1>1. TypeOK /\ Locals
  BY DEF TypeInv
<1>2. ASSUME Compared' = Compared, stores' = stores, matchStatus' = matchStatus
      PROVE  UNCHANGED Correlation!vars
  BY <1>2 DEF Correlation!vars, Correlation!known
<1> HIDE DEF stores, metrics
<1>3. ASSUME NEW h \in Handlers, Receive(h) PROVE UNCHANGED Correlation!vars
  <2>1. Goto(h, "lock") /\ snap' = snap /\ pc[h] # "record"
    BY <1>3 DEF Receive
  <2>2. Compared' = Compared
    BY <2>1, ComparedKept
  <2> QED BY <1>2, <1>3, <2>2 DEF Receive, metrics
<1>4. ASSUME NEW h \in Handlers, StoreBGP(h) PROVE Correlation!LearnBGP
  <2>1. PICK to \in {"idle", "collect"} : Goto(h, to)
    BY <1>4 DEF StoreBGP
  <2>2. Compared' = Compared
    BY <1>4, <2>1, ComparedKept DEF StoreBGP
  <2>3. upd[h] \in BgpUpdate
    BY <1>1, <1>4 DEF StoreBGP, Locals
  <2>4. /\ upd[h].prefix \in Prefixes /\ upd[h].path \in BgpPaths \cup {None}
        /\ bgpPaths' = [bgpPaths EXCEPT ![upd[h].prefix] = upd[h].path]
    BY <1>4, <2>3 DEF StoreBGP, BgpUpdate
  <2>5. \E p \in Prefixes, path \in BgpPaths \cup {None} :
          bgpPaths' = [bgpPaths EXCEPT ![p] = path]
    BY <2>4
  <2> QED BY <1>4, <2>2, <2>5 DEF StoreBGP, metrics, Correlation!LearnBGP
<1>5. ASSUME NEW h \in Handlers, StoreTraceroute(h) PROVE Correlation!LearnTraceroute
  <2>1. Goto(h, "snapshot") /\ snap' = snap /\ pc[h] # "record"
    BY <1>5 DEF StoreTraceroute
  <2>2. Compared' = Compared
    BY <2>1, ComparedKept
  <2>3. upd[h] \in TrUpdate
    BY <1>1, <1>5 DEF StoreTraceroute, Locals
  <2>4. /\ upd[h].key \in Keys /\ upd[h].info \in TrInfo
        /\ traceroutePaths' = [traceroutePaths EXCEPT ![upd[h].key] = upd[h].info]
    BY <1>5, <2>3 DEF StoreTraceroute, TrUpdate
  <2>5. \E k \in Keys, info \in TrInfo :
          traceroutePaths' = [traceroutePaths EXCEPT ![k] = info]
    BY <2>4
  <2> QED BY <1>5, <2>2, <2>5 DEF StoreTraceroute, metrics, Correlation!LearnTraceroute
<1>6. ASSUME NEW h \in Handlers,
             \/ Collect(h) \/ NextTarget(h) \/ NoTargetLeft(h)
             \/ VisitKey(h) \/ Relock(h) \/ EndTarget(h)
      PROVE  UNCHANGED Correlation!vars
  <2>1. \E to : /\ to # "record" /\ pc[h] # "record" /\ snap' = snap
                /\ Goto(h, to) /\ stores' = stores /\ metrics' = metrics
    BY <1>6 DEF Collect, NextTarget, NoTargetLeft, VisitKey, Relock, EndTarget
  <2>2. Compared' = Compared
    BY <2>1, ComparedKept
  <2> QED BY <1>2, <2>1, <2>2 DEF metrics
<1>7. ASSUME NEW h \in Handlers, TakeSnapshot(h)
      PROVE  Correlation!Compare(h) \/ UNCHANGED Correlation!vars
  <2> DEFINE k == arg[h]
             p == prefixTargetMap[k[1]]
             s == [prefix |-> p, key |-> k, bgp |-> bgpPaths[p], tr |-> traceroutePaths[k]]
  <2>1. k \in Keys /\ pc[h] = "snapshot" /\ stores' = stores /\ metrics' = metrics
    BY <1>1, <1>7 DEF TakeSnapshot, Locals
  <2>2. CASE p # None /\ bgpPaths[p] # None /\ traceroutePaths[k] # None
    <3>1. snap' = [snap EXCEPT ![h] = s] /\ Goto(h, "record")
      BY <1>7, <2>2 DEF TakeSnapshot
    <3>2. InHand(h)' = s
      BY <1>1, <3>1 DEF InHand, Goto, TypeOK
    <3>3. Compared' = [Compared EXCEPT ![h] = s]
      BY <3>1, <3>2, ComparedStep
    <3>4. Compared[h] = None
      BY <2>1 DEF Compared, InHand
    <3>5. \E key \in Keys :
            LET pre == prefixTargetMap[key[1]] IN
            /\ pre # None /\ bgpPaths[pre] # None /\ traceroutePaths[key] # None
            /\ Compared' = [Compared EXCEPT ![h] =
                   [prefix |-> pre, key |-> key, bgp |-> bgpPaths[pre],
                    tr |-> traceroutePaths[key]]]
      BY <2>1, <2>2, <3>3
    <3> HIDE DEF s, p, k
    <3> QED BY <2>1, <3>4, <3>5
            DEF stores, metrics, Correlation!Compare, Correlation!known
  <2>3. CASE ~(p # None /\ bgpPaths[p] # None /\ traceroutePaths[k] # None)
    <3>1. snap' = snap /\ Goto(h, Return(h)) /\ Return(h) # "record"
      BY <1>7, <2>3 DEF TakeSnapshot, Return
    <3>2. Compared' = Compared
      BY <2>1, <3>1, ComparedKept
    <3> QED BY <1>2, <2>1, <3>2 DEF metrics
  <2> QED BY <2>2, <2>3
<1>8. ASSUME NEW h \in Handlers, RecordResult(h) PROVE Correlation!Show(h)
  <2>1. /\ pc[h] = "record" /\ snap[h] \in Snapshot /\ snap[h] # None
        /\ snap' = snap /\ stores' = stores
        /\ Goto(h, Return(h)) /\ Return(h) # "record"
    BY <1>1, <1>8, EngineAssumption DEF RecordResult, Locals, Return
  <2>2. InHand(h)' = None
    BY <1>1, <2>1 DEF InHand, Goto, TypeOK
  <2>3. Compared' = [Compared EXCEPT ![h] = None]
    BY <2>1, <2>2, ComparedStep
  <2>4. Compared[h] = snap[h]
    BY <2>1 DEF Compared, InHand
  <2>5. matchStatus' = [matchStatus EXCEPT ![<<snap[h].prefix, snap[h].key>>] =
                            Correlation!evaluate(snap[h].bgp, snap[h].tr.path, snap[h].tr.reached)]
    BY <1>8, SameEvaluate DEF RecordResult, Evaluated
  <2> QED BY <2>1, <2>3, <2>4, <2>5 DEF stores, Correlation!Show, Correlation!known
<1>9. ASSUME NEW t \in Targets, NEW p \in Prefixes, RegisterPrefix(t, p)
       PROVE  Correlation!Register
  BY <1>9 DEF RegisterPrefix, metrics, Compared, InHand, Correlation!Register
<1>10. CASE UNCHANGED vars
  <2>1. stores' = stores /\ metrics' = metrics /\ Compared' = Compared
    BY <1>10 DEF vars, Compared, InHand
  <2> QED BY <1>2, <2>1 DEF metrics
<1>11. ASSUME NEW h \in Handlers, Step(h)
       PROVE  \/ Correlation!LearnBGP \/ Correlation!LearnTraceroute
              \/ Correlation!Compare(h) \/ Correlation!Show(h)
              \/ UNCHANGED Correlation!vars
  BY <1>4, <1>5, <1>6, <1>7, <1>8, <1>11 DEF Step
<1> QED BY <1>3, <1>9, <1>10, <1>11 DEF Next, Correlation!Next

\* The handlers take two read locks and release both before they evaluate, so the
\* gauge may lag; but it never shows the comparison of paths that were not stored
\* together, nor for a prefix that was not the target's.
THEOREM EngineImplementsCorrelator == Spec => CorrelatorSpec
BY InitType, NextType, CorrelatorInit, CorrelatorNext, PTL
   DEF Spec, CorrelatorSpec, Correlation!Spec
=============================================================================
