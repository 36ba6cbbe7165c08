------------------------- MODULE CorrelationEngine -------------------------
(***************************************************************************)
(* The path correlation engine (internal/processor/correlation).           *)
(*                                                                         *)
(* Handlers run concurrently: with NATS one goroutine handles BGP updates  *)
(* and one handles traceroute results, with Kafka one per partition does.  *)
(* A handler stores its update under the engine's RWMutex, releases it,    *)
(* takes a snapshot of both sides under a read lock, releases that too,    *)
(* and only then evaluates the snapshot and sets the status gauge.         *)
(*                                                                         *)
(* A pending Lock of a Go RWMutex blocks every new RLock.  Critical         *)
(* sections that contain no blocking call are one step; the one that spans *)
(* several, correlatePrefix's loop over traceroutePaths, is the pc value   *)
(* "scanning".                                                             *)
(***************************************************************************)
EXTENDS ASPath

CONSTANTS
    Prefixes, Targets, Pops,
    BgpPaths,     \* AS paths a BGP update may carry
    TrPaths,      \* AS paths a traceroute may observe
    BgpHandlers,  \* goroutines running HandleBGPUpdate
    TrHandlers,   \* goroutines running HandleTracerouteResult
    None,         \* an absent map entry
    MaxUpdates    \* bound: updates handled per goroutine

Handlers == BgpHandlers \cup TrHandlers
Keys == Targets \X Pops

\* What the two maps hold, and what arrives.
TrInfo == [path : TrPaths, reached : BOOLEAN]
BgpUpdate == [prefix : Prefixes, path : BgpPaths \cup {None}]
TrUpdate == [key : Keys, info : TrInfo]

\* A snapshot: the prefix and both sides as read under one read lock.
Snapshot == [prefix : Prefixes, key : Keys, bgp : BgpPaths, tr : TrInfo]

ASSUME EngineAssumption ==
    /\ BgpHandlers \cap TrHandlers = {}
    /\ None \notin BgpPaths \cup TrInfo \cup Prefixes \cup Targets
    /\ None \notin BgpUpdate \cup TrUpdate \cup Keys \cup Snapshot \cup MatchType
    /\ MaxUpdates \in Nat

VARIABLES
    bgpPaths,        \* latest BGP path per prefix
    traceroutePaths, \* latest traceroute per target and POP
    prefixTargetMap, \* covering prefix of each registered target
    matchStatus,     \* the status gauge, per prefix, POP and target
    correlationsRun, \* evaluations counted, per prefix and POP
    mismatchTotal,   \* discrepancies counted, per prefix, POP and kind
    pc,              \* where each handler is
    upd,             \* the update it is handling
    targets,         \* correlatePrefix: targets still to do
    cur,             \* correlatePrefix: the target being scanned
    must,            \* POPs of that target the map iteration still has to yield
    seen,            \* POPs of that target it has yielded
    arg,             \* correlateTarget's arguments
    snap,            \* what it read
    handled,         \* updates received per handler
    late             \* targets registered when a path for them was already stored

stores == <<bgpPaths, traceroutePaths, prefixTargetMap>>
metrics == <<matchStatus, correlationsRun, mismatchTotal>>
scan == <<targets, cur, must, seen>>
vars == <<stores, metrics, pc, upd, scan, arg, snap, handled, late>>

Cells == Prefixes \X Keys
PerPop == Prefixes \X Pops

TypeOK ==
    /\ bgpPaths \in [Prefixes -> BgpPaths \cup {None}]
    /\ traceroutePaths \in [Keys -> TrInfo \cup {None}]
    /\ prefixTargetMap \in [Targets -> Prefixes \cup {None}]
    /\ matchStatus \in [Cells -> MatchType \cup {None}]
    /\ correlationsRun \in [PerPop -> Nat]
    /\ mismatchTotal \in [PerPop \X {"partial", "mismatch"} -> Nat]
    /\ pc \in [Handlers -> {"idle", "lock", "collect", "next", "scanning",
                            "relock", "snapshot", "record"}]
    /\ upd \in [Handlers -> BgpUpdate \cup TrUpdate \cup {None}]
    /\ targets \in [Handlers -> SUBSET Targets]
    /\ cur \in [Handlers -> Targets \cup {None}]
    /\ must \in [Handlers -> SUBSET Pops]
    /\ seen \in [Handlers -> SUBSET Pops]
    /\ arg \in [Handlers -> Keys \cup {None}]
    /\ snap \in [Handlers -> Snapshot \cup {None}]
    /\ handled \in [Handlers -> 0..MaxUpdates]
    /\ late \in SUBSET Targets

Init ==
    /\ bgpPaths = [p \in Prefixes |-> None]
    /\ traceroutePaths = [k \in Keys |-> None]
    /\ prefixTargetMap = [t \in Targets |-> None]
    /\ matchStatus = [c \in Cells |-> None]
    /\ correlationsRun = [x \in PerPop |-> 0]
    /\ mismatchTotal = [x \in PerPop \X {"partial", "mismatch"} |-> 0]
    /\ pc = [h \in Handlers |-> "idle"]
    /\ upd = [h \in Handlers |-> None]
    /\ targets = [h \in Handlers |-> {}]
    /\ cur = [h \in Handlers |-> None]
    /\ must = [h \in Handlers |-> {}]
    /\ seen = [h \in Handlers |-> {}]
    /\ arg = [h \in Handlers |-> None]
    /\ snap = [h \in Handlers |-> None]
    /\ handled = [h \in Handlers |-> 0]
    /\ late = {}

Goto(h, to) == pc' = [pc EXCEPT ![h] = to]

-----------------------------------------------------------------------------
(* Engine.mu, a sync.RWMutex.                                              *)

HoldsWhileCorrelating(h) ==
    h \in BgpHandlers /\ pc[h] \in {"scanning", "snapshot", "record", "relock"}

\* A read lock is held across steps only while correlatePrefix iterates.
HoldsRead(h) == pc[h] = "scanning"

CanLock == \A h \in Handlers : ~HoldsRead(h)

CanRLock == \A h \in Handlers : pc[h] # "lock"

-----------------------------------------------------------------------------
(* Updates arrive and are stored.                                          *)

\* A well-formed message reaches an idle handler, which then calls Lock.  A
\* malformed one is logged and acknowledged without any effect.
Receive(h) ==
    /\ pc[h] = "idle"
    /\ handled[h] < MaxUpdates
    /\ \E u \in (IF h \in BgpHandlers THEN BgpUpdate ELSE TrUpdate) :
        upd' = [upd EXCEPT ![h] = u]
    /\ handled' = [handled EXCEPT ![h] = @ + 1]
    /\ Goto(h, "lock")
    /\ UNCHANGED <<stores, metrics, scan, arg, snap, late>>

\* HandleBGPUpdate: a withdrawal deletes the path and that is all; an
\* announcement replaces it and goes on to correlatePrefix.
StoreBGP(h) ==
    /\ h \in BgpHandlers
    /\ pc[h] = "lock"
    /\ CanLock
    /\ bgpPaths' = [bgpPaths EXCEPT ![upd[h].prefix] = upd[h].path]
    /\ Goto(h, IF upd[h].path = None THEN "idle" ELSE "collect")
    /\ UNCHANGED <<traceroutePaths, prefixTargetMap, metrics, upd, scan, arg, snap,
                   handled, late>>

StoreTracerouteTooLate(h) ==
    /\ h \in TrHandlers
    /\ pc[h] = "lock"
    /\ CanLock
    /\ traceroutePaths' = [traceroutePaths EXCEPT ![upd[h].key] = upd[h].info]
    /\ Goto(h, IF traceroutePaths[upd[h].key] = None THEN "idle" ELSE "snapshot")
    /\ arg' = [arg EXCEPT ![h] = upd[h].key]
    /\ UNCHANGED <<bgpPaths, prefixTargetMap, metrics, upd, scan, snap, handled, late>>

\* HandleTracerouteResult stores, then calls correlateTarget.
StoreTraceroute(h) ==
    /\ h \in TrHandlers
    /\ pc[h] = "lock"
    /\ CanLock
    /\ traceroutePaths' = [traceroutePaths EXCEPT ![upd[h].key] = upd[h].info]
    /\ arg' = [arg EXCEPT ![h] = upd[h].key]
    /\ Goto(h, "snapshot")
    /\ UNCHANGED <<bgpPaths, prefixTargetMap, metrics, upd, scan, snap, handled, late>>

\* Some path relevant to target t under prefix p is already stored.
Known(t, p) ==
    \/ bgpPaths[p] # None
    \/ \E pop \in Pops : traceroutePaths[<<t, pop>>] # None

\* RegisterPrefix only writes the map: it triggers no correlation.
RegisterPrefix(t, p) ==
    /\ CanLock
    /\ prefixTargetMap[t] # p
    /\ prefixTargetMap' = [prefixTargetMap EXCEPT ![t] = p]
    /\ late' = IF Known(t, p) THEN late \cup {t} ELSE late
    /\ UNCHANGED <<bgpPaths, traceroutePaths, metrics, pc, upd, scan, arg, snap, handled>>

-----------------------------------------------------------------------------
(* correlatePrefix.                                                        *)

\* The targets that map to the updated prefix, under one read lock.
Collect(h) ==
    /\ pc[h] = "collect"
    /\ CanRLock
    /\ targets' = [targets EXCEPT
            ![h] = {t \in Targets : prefixTargetMap[t] = upd[h].prefix}]
    /\ Goto(h, "next")
    /\ UNCHANGED <<stores, metrics, upd, cur, must, seen, arg, snap, handled, late>>

\* Take the next target and start to iterate over traceroutePaths: an iteration
\* yields every entry the map has now, and may yield one that is added meanwhile.
NextTarget(h) ==
    /\ pc[h] = "next"
    /\ CanRLock
    /\ \E t \in targets[h] :
        /\ targets' = [targets EXCEPT ![h] = @ \ {t}]
        /\ cur' = [cur EXCEPT ![h] = t]
        /\ must' = [must EXCEPT
                ![h] = {pop \in Pops : traceroutePaths[<<t, pop>>] # None}]
    /\ seen' = [seen EXCEPT ![h] = {}]
    /\ Goto(h, "scanning")
    /\ UNCHANGED <<stores, metrics, upd, arg, snap, handled, late>>

NoTargetLeft(h) ==
    /\ pc[h] = "next"
    /\ targets[h] = {}
    /\ Goto(h, "idle")
    /\ UNCHANGED <<stores, metrics, upd, scan, arg, snap, handled, late>>

\* The iteration yields a POP of the target: unlock, then correlateTarget.
VisitKey(h) ==
    /\ pc[h] = "scanning"
    /\ \E pop \in Pops \ seen[h] :
        /\ traceroutePaths[<<cur[h], pop>>] # None
        /\ must' = [must EXCEPT ![h] = @ \ {pop}]
        /\ seen' = [seen EXCEPT ![h] = @ \cup {pop}]
        /\ arg' = [arg EXCEPT ![h] = <<cur[h], pop>>]
    /\ Goto(h, "snapshot")
    /\ UNCHANGED <<stores, metrics, upd, targets, cur, snap, handled, late>>

\* Back from correlateTarget: lock again and go on with the iteration.
Relock(h) ==
    /\ pc[h] = "relock"
    /\ CanRLock
    /\ Goto(h, "scanning")
    /\ UNCHANGED <<stores, metrics, upd, scan, arg, snap, handled, late>>

EndTarget(h) ==
    /\ pc[h] = "scanning"
    /\ must[h] = {}
    /\ Goto(h, "next")
    /\ UNCHANGED <<stores, metrics, upd, scan, arg, snap, handled, late>>

-----------------------------------------------------------------------------
(* correlateTarget, evaluate and recordResult.                             *)

\* Where correlateTarget returns to.
Return(h) == IF h \in BgpHandlers THEN "relock" ELSE "idle"

\* Read both sides under one read lock; give up if one is missing.
TakeSnapshot(h) ==
    LET k == arg[h]
        p == prefixTargetMap[k[1]]
    IN
    /\ pc[h] = "snapshot"
    /\ CanRLock
    /\ IF p # None /\ bgpPaths[p] # None /\ traceroutePaths[k] # None
       THEN /\ snap' = [snap EXCEPT ![h] = [prefix |-> p, key |-> k,
                                            bgp |-> bgpPaths[p],
                                            tr |-> traceroutePaths[k]]]
            /\ Goto(h, "record")
       ELSE /\ UNCHANGED snap
            /\ Goto(h, Return(h))
    /\ UNCHANGED <<stores, metrics, upd, scan, arg, handled, late>>

Evaluated(s) == evaluate(s.bgp, s.tr.path, s.tr.reached)

\* recordResult, without any lock.
RecordResult(h) ==
    LET s == snap[h]
        match == Evaluated(s)
        perPop == <<s.prefix, s.key[2]>>
    IN
    /\ pc[h] = "record"
    /\ matchStatus' = [matchStatus EXCEPT ![<<s.prefix, s.key>>] = match]
    /\ correlationsRun' = [correlationsRun EXCEPT ![perPop] = @ + 1]
    /\ mismatchTotal' =
        IF match \in {"partial", "mismatch"}
        THEN [mismatchTotal EXCEPT ![<<perPop, match>>] = @ + 1]
        ELSE mismatchTotal
    /\ Goto(h, Return(h))
    /\ UNCHANGED <<stores, upd, scan, arg, snap, handled, late>>

-----------------------------------------------------------------------------
Step(h) ==
    \/ StoreBGP(h) \/ StoreTraceroute(h)
    \/ Collect(h) \/ NextTarget(h) \/ NoTargetLeft(h)
    \/ VisitKey(h) \/ Relock(h) \/ EndTarget(h)
    \/ TakeSnapshot(h) \/ RecordResult(h)

Next ==
    \/ \E h \in Handlers : Receive(h) \/ Step(h)
    \/ \E t \in Targets, p \in Prefixes : RegisterPrefix(t, p)

Spec == Init /\ [][Next]_vars

\* A handler that has started goes on, and gets the RWMutex in the end: the
\* runtime queues readers and writers.  Nothing makes an update arrive.
FairSpec == Spec /\ \A h \in Handlers : SF_vars(Step(h))

-----------------------------------------------------------------------------
(* Correctness.  HoldsWhileCorrelating and StoreTracerouteTooLate are       *)
(* regressions of the definitions after them; no specification uses them.   *)

Quiescent == \A h \in Handlers : pc[h] = "idle"

\* GetCorrelationState's answer for a prefix and a key: what the gauge should say.
CurrentStatus(p, k) ==
    evaluate(bgpPaths[p], traceroutePaths[k].path, traceroutePaths[k].reached)

BothKnown(p, k) ==
    /\ prefixTargetMap[k[1]] = p
    /\ bgpPaths[p] # None
    /\ traceroutePaths[k] # None

\* When every handler has finished, each target whose mapping was there first
\* and whose two sides are known has been evaluated: whichever side was stored
\* last found the other one, however the two handlers interleaved.
NoMissedCorrelation ==
    Quiescent =>
        \A p \in Prefixes, k \in Keys :
            BothKnown(p, k) /\ k[1] \notin late => matchStatus[<<p, k>>] # None

\* No handler blocks for ever on the RWMutex: correlatePrefix lets go of its
\* read lock before correlateTarget asks for another one, so a writer waiting in
\* between blocks nobody for good.
HandlersFinish == \A h \in Handlers : pc[h] # "idle" ~> pc[h] = "idle"

\* The gauge's help text says it is the "Current correlation status": when
\* nothing is being handled it is that of the two paths the engine stores.
StatusIsCurrent ==
    Quiescent =>
        \A p \in Prefixes, k \in Keys :
            BothKnown(p, k) /\ k[1] \notin late =>
                matchStatus[<<p, k>>] = CurrentStatus(p, k)

\* A step that handler h can take, by the guards of its actions: it gets the lock
\* that it asks for, its iteration has an entry to yield or none left, or it needs
\* no lock.
CanMove(h) ==
    \/ pc[h] = "lock" /\ CanLock
    \/ pc[h] \in {"collect", "relock", "snapshot"} /\ CanRLock
    \/ pc[h] = "next" /\ (CanRLock \/ targets[h] = {})
    \/ /\ pc[h] = "scanning"
       /\ \/ must[h] = {}
          \/ \E pop \in Pops \ seen[h] : traceroutePaths[<<cur[h], pop>>] # None
    \/ pc[h] = "record"

\* The handlers never all wait for one another, on the RWMutex or on an entry that
\* the iteration still has to yield.
NeverStuck == Quiescent \/ \E h \in Handlers : CanMove(h)

\* A comparison is in hand between TakeSnapshot and RecordResult.
InHand(h) == IF pc[h] = "record" THEN snap[h] ELSE None
Compared == [h \in Handlers |-> InHand(h)]

\* The engine implements Correlator: the gauge may lag behind the two maps, but it
\* only ever shows the comparison of paths that were stored together, for the
\* prefix that was the target's then.
Correlation == INSTANCE Correlator WITH Comparers <- Handlers, compared <- Compared

CorrelatorSpec == Correlation!Spec
=============================================================================
