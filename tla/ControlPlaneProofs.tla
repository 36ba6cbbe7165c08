------------------------- MODULE ControlPlaneProofs -------------------------
(***************************************************************************)
(* The control plane for any number of concurrent requests and any tables: *)
(* its state is well typed, its references stay intact, its audit log      *)
(* names acknowledged mutations only, every POP is tried and no other gets *)
(* the test, and an update is undone only by one that overlaps it.         *)
(*                                                                         *)
(* Each repository method keeps the database as the schema allows it       *)
(* (DBOK), so a statement does, with whatever outcome; the handlers only   *)
(* have to call them with arguments of the right kind, for which one has   *)
(* to know where a request is (Where).  The later parts group the steps by *)
(* what they leave alone: Gentle makes no assignment, Calm writes no       *)
(* update.                                                                 *)
(***************************************************************************)
EXTENDS ControlPlane, TLAPS

\* A database as the schema allows it.
DBOK(d) == d \in Database /\ References(d)

\* What a repository method returns.
ResultOK(r) == DBOK(r.db) /\ r.err # "fault"

\* INSERT of a test keeps the schema (TestRepoCreate).
LEMMA OKTestCreate ==
    ASSUME NEW d, DBOK(d), NEW t \in Tests, NEW row \in Row
    PROVE  ResultOK(TestRepoCreate(d, t, row))
BY ControlPlaneAssumption
   DEF ResultOK, DBOK, Database, References, TestRepoCreate, Done, Fail

\* A SELECT of a test keeps the schema (TestRepoGet).
LEMMA OKTestGet ==
    ASSUME NEW d, DBOK(d), NEW t \in Tests
    PROVE  ResultOK(TestRepoGet(d, t))
BY ControlPlaneAssumption
   DEF ResultOK, DBOK, Database, References, TestRepoGet, Done, Fail

\* UPDATE of a test keeps the schema (TestRepoUpdate).
LEMMA OKTestUpdate ==
    ASSUME NEW d, DBOK(d), NEW t \in Tests, NEW row \in Row
    PROVE  ResultOK(TestRepoUpdate(d, t, row))
BY ControlPlaneAssumption
   DEF ResultOK, DBOK, Database, References, TestRepoUpdate, Done, Fail

\* DELETE of a test, whose assignments go with it, keeps the schema (TestRepoDelete).
LEMMA OKTestDelete ==
    ASSUME NEW d, DBOK(d), NEW t \in Tests
    PROVE  ResultOK(TestRepoDelete(d, t))
BY ControlPlaneAssumption
   DEF ResultOK, DBOK, Database, References, TestRepoDelete, Done, Fail

\* INSERT of an assignment, whose test and POP must exist, keeps the schema (AssignmentRepoAssign).
LEMMA OKAssign ==
    ASSUME NEW d, DBOK(d), NEW t \in Tests, NEW p \in POPs \cup {Global}
    PROVE  ResultOK(AssignmentRepoAssign(d, t, p))
BY ControlPlaneAssumption
   DEF ResultOK, DBOK, Database, References, AssignmentRepoAssign, Done, Fail

\* INSERT of a POP keeps the schema (POPRepoCreate).
LEMMA OKPOPCreate ==
    ASSUME NEW d, DBOK(d), NEW p \in POPs
    PROVE  ResultOK(POPRepoCreate(d, p))
BY ControlPlaneAssumption
   DEF ResultOK, DBOK, Database, References, POPRepoCreate, Done, Fail

\* A SELECT of a POP keeps the schema (POPRepoGet).
LEMMA OKPOPGet ==
    ASSUME NEW d, DBOK(d), NEW p \in POPs
    PROVE  ResultOK(POPRepoGet(d, p))
BY ControlPlaneAssumption
   DEF ResultOK, DBOK, Database, References, POPRepoGet, Done, Fail

\* DELETE of a POP, refused while an agent is there, keeps the schema (POPRepoDelete).
LEMMA OKPOPDelete ==
    ASSUME NEW d, DBOK(d), NEW p \in POPs
    PROVE  ResultOK(POPRepoDelete(d, p))
BY ControlPlaneAssumption
   DEF ResultOK, DBOK, Database, References, POPRepoDelete, Done, Fail

\* INSERT of an agent, whose POP must exist, keeps the schema (AgentRepoCreate).
LEMMA OKAgentCreate ==
    ASSUME NEW d, DBOK(d), NEW a \in Agents, NEW row \in AgentRow
    PROVE  ResultOK(AgentRepoCreate(d, a, row))
BY ControlPlaneAssumption
   DEF ResultOK, DBOK, Database, References, AgentRepoCreate, Done, Fail

\* UPDATE of an agent's status keeps the schema (UpdateHeartbeat).
LEMMA OKHeartbeat ==
    ASSUME NEW d, DBOK(d), NEW a \in Agents, NEW s \in {"online", "degraded"}
    PROVE  ResultOK(UpdateHeartbeat(d, a, s))
BY ControlPlaneAssumption
   DEF ResultOK, DBOK, Database, References, UpdateHeartbeat, Done, Fail, AgentRow

\* DELETE of an agent keeps the schema (AgentRepoDelete).
LEMMA OKAgentDelete ==
    ASSUME NEW d, DBOK(d), NEW a \in Agents
    PROVE  ResultOK(AgentRepoDelete(d, a))
BY ControlPlaneAssumption
   DEF ResultOK, DBOK, Database, References, AgentRepoDelete, Done, Fail

\* The fields of a request are those of its route (the bodies the handlers decode).
LEMMA RequestFields ==
    ASSUME NEW r \in Requests
    PROVE  /\ r.op \in {"CreateTest", "UpdateTest", "AssignTest", "GetTest", "DeleteTest"}
                => r.test \in Tests
           /\ r.op = "CreateTest" => r.fields \in Row
           /\ r.op = "UpdateTest" => r.fields \in Patch
           /\ r.op \in {"CreateTest", "AssignTest"} => r.pops \in SUBSET (POPs \cup {Global})
           /\ r.op \in {"CreatePOP", "DeletePOP", "ConfigSync", "Register"} => r.pop \in POPs
           /\ r.op \in {"Register", "Heartbeat", "DeleteAgent"} => r.agent \in Agents
           /\ r.op = "Heartbeat" => r.status \in {"online", "degraded"}
BY DEF Requests

\* Update's merge of a request into a row is a row.
LEMMA MergeIsRow ==
    ASSUME NEW row \in Row, NEW patch \in Patch
    PROVE  Merge(row, patch) \in Row
BY DEF Row, Patch, Merge

\* Whatever comes of a statement, the database stays as the schema allows it.
LEMMA CommitOK ==
    ASSUME DBOK(db), faults \in 0 .. MaxFaults,
           NEW r, ResultOK(r), NEW out \in Outcomes(r), Commit(out)
    PROVE  DBOK(db') /\ faults' \in 0 .. MaxFaults
BY ControlPlaneAssumption DEF ResultOK, Outcomes, Commit, Fail

Codes == {200, 201, 204, 400, 401, 404, 409, 429, 500}

\* errorResponse only has codes of errors.
LEMMA ErrorCodes == \A err : errorResponse(err) \in {400, 404, 409, 500}
BY DEF errorResponse

\* Where a request is tells what it is and what it has read.
Where ==
    \A c \in Clients :
        /\ pc[c] = "assign" => want[c].op \in {"CreateTest", "AssignTest"}
        /\ At(c, "UpdateTest", "second") => existing[c] \in Row

\* Audit entries, written or not, are of acknowledged mutations.
EntriesOK ==
    \A e \in pending \cup audit :
        /\ e.by \in Clients
        /\ pc[e.by] = "done" /\ status[e.by] \in 200 .. 399
        /\ isMutation(want[e.by].op)

IInv == StateOK /\ References(db) /\ Where /\ EntriesOK

\* A step that takes c's request to place and keeps responses and audit entries in order.
Moved(c, place) ==
    /\ pc' = [pc EXCEPT ![c] = place]
    /\ pc' \in [Clients -> InFlight \cup {"idle", "done", "dropped"}]
    /\ status' \in [Clients -> Codes \cup {0}]
    /\ {e.by : e \in pending' \cup audit'} \subseteq Clients
    /\ EntriesOK'

\* What Answer leaves: the middleware after the handler.
LEMMA AnswerOK ==
    ASSUME IInv, NEW c \in Clients, pc[c] # "done", NEW code \in Codes, Answer(c, code),
           UNCHANGED <<want, audit>>
    PROVE  Moved(c, "done")
<1>1. /\ pc' = [pc EXCEPT ![c] = "done"]
      /\ pc' \in [Clients -> InFlight \cup {"idle", "done", "dropped"}]
      /\ status' = [status EXCEPT ![c] = code]
      /\ status' \in [Clients -> Codes \cup {0}]
  BY DEF IInv, StateOK, Answer, Codes
<1>2. ASSUME NEW e \in pending' \cup audit'
      PROVE  /\ e.by \in Clients
             /\ pc'[e.by] = "done" /\ status'[e.by] \in 200 .. 399
             /\ isMutation(want'[e.by].op)
  <2>1. CASE e \in pending \cup audit
    <3>1. e.by \in Clients /\ e.by # c
      BY <2>1 DEF IInv, EntriesOK
    <3>. QED
      BY <1>1, <2>1, <3>1 DEF IInv, EntriesOK, StateOK
  <2>2. CASE e = AuditEntry(c) /\ Audited(want[c].op, code)
    BY <1>1, <2>2 DEF AuditEntry, Audited, IInv, StateOK, Codes
  <2>. QED
    BY <2>1, <2>2 DEF Answer
<1>. QED
  BY <1>1, <1>2 DEF EntriesOK, Moved

\* What Goto leaves.
LEMMA GotoOK ==
    ASSUME IInv, NEW c \in Clients, pc[c] # "done", NEW place \in InFlight, Goto(c, place),
           UNCHANGED <<want, audit>>
    PROVE  Moved(c, place)
<1>1. /\ pc' = [pc EXCEPT ![c] = place]
      /\ pc' \in [Clients -> InFlight \cup {"idle", "done", "dropped"}]
      /\ status' \in [Clients -> Codes \cup {0}]
  BY DEF IInv, StateOK, Goto, Codes
<1>2. EntriesOK'
  <2>1. ASSUME NEW e \in pending \cup audit
        PROVE  e.by \in Clients /\ e.by # c
    BY <2>1 DEF IInv, EntriesOK
  <2>. QED
    BY <1>1, <2>1 DEF IInv, EntriesOK, StateOK, Goto
<1>. QED
  BY <1>1, <1>2 DEF EntriesOK, Moved

\* A handler's last statement.
LEMMA FinishOK ==
    ASSUME IInv, NEW c \in Clients, pc[c] # "done", NEW r, ResultOK(r),
           NEW code \in {200, 201, 204}, Finish(c, r, code), UNCHANGED <<want, audit>>
    PROVE  /\ DBOK(db') /\ faults' \in 0 .. MaxFaults
           /\ Moved(c, "done")
<1>1. PICK out \in Outcomes(r) :
        /\ Commit(out)
        /\ Answer(c, IF out.err = "none" THEN code ELSE errorResponse(out.err))
  BY DEF Finish
<1>2. (IF out.err = "none" THEN code ELSE errorResponse(out.err)) \in Codes
  BY ErrorCodes DEF Codes
<1>3. DBOK(db)
  BY DEF IInv, StateOK, DBOK
<1>4. faults \in 0 .. MaxFaults
  BY DEF IInv, StateOK
<1>5. DBOK(db') /\ faults' \in 0 .. MaxFaults
  BY <1>1, <1>3, <1>4, CommitOK
<1>. QED
  BY <1>1, <1>2, <1>5, AnswerOK

\* A step that ends a request, or that takes it on without reading anything.
LEMMA PlainStep ==
    ASSUME IInv, NEW c \in Clients, NEW place \in {"auth", "handler", "done"}, Moved(c, place),
           DBOK(db'), faults' \in 0 .. MaxFaults,
           UNCHANGED <<want, server, audit, restarts, locals>>,
           skipped' \subseteq Clients \X (POPs \cup {Global}),
           raced' \subseteq Clients \X Clients, UNCHANGED lost
    PROVE  IInv'
<1>1. StateOK'
  BY DEF IInv, StateOK, Moved, DBOK, locals, Codes
<1>2. Where'
  BY DEF IInv, StateOK, Where, At, Moved, locals
<1>. QED
  BY <1>1, <1>2 DEF IInv, Moved, DBOK

\* The same for a step that leaves the database alone.
LEMMA QuietStep ==
    ASSUME IInv, NEW c \in Clients, NEW place \in {"auth", "handler", "done"}, Moved(c, place),
           UNCHANGED <<want, db, faults, server, audit, restarts, locals, history>>
    PROVE  IInv'
<1>1. DBOK(db') /\ faults' \in 0 .. MaxFaults
  BY DEF IInv, StateOK, DBOK
<1>2. /\ skipped' \subseteq Clients \X (POPs \cup {Global})
      /\ raced' \subseteq Clients \X Clients
      /\ UNCHANGED lost
  BY DEF IInv, StateOK, history
<1>. QED
  BY <1>1, <1>2, PlainStep

\* A handler that is one statement, or whose last statement this is.
LEMMA FinishStep ==
    ASSUME IInv, NEW c \in Clients, pc[c] # "done", NEW r, ResultOK(r),
           NEW code \in {200, 201, 204}, Finish(c, r, code), UNCHANGED <<static, locals, history>>
    PROVE  IInv'
<1>1. UNCHANGED <<want, server, audit, restarts>>
  BY DEF static
<1>2. Moved(c, "done") /\ DBOK(db') /\ faults' \in 0 .. MaxFaults
  BY <1>1, FinishOK
<1>3. /\ skipped' \subseteq Clients \X (POPs \cup {Global})
      /\ raced' \subseteq Clients \X Clients
      /\ UNCHANGED lost
  BY DEF IInv, StateOK, history
<1>. QED
  BY <1>1, <1>2, <1>3, PlainStep

\* A body that is refused.
LEMMA RejectStep ==
    ASSUME IInv, NEW c \in Clients, pc[c] # "done", Reject(c), UNCHANGED <<static, locals, history>>
    PROVE  IInv'
<1>1. UNCHANGED <<want, server, audit, restarts>>
  BY DEF static
<1>2. Answer(c, 400) /\ 400 \in Codes /\ UNCHANGED <<db, faults>>
  BY DEF Reject, Codes
<1>3. Moved(c, "done")
  BY <1>1, <1>2, AnswerOK
<1>. QED
  BY <1>1, <1>2, <1>3, QuietStep

\* The lists the assignment loop is given (Create, Assign).
LEMMA AssignmentsType ==
    ASSUME IInv, NEW c \in Clients, want[c].op \in {"CreateTest", "AssignTest"}
    PROVE  Assignments(c) \in SUBSET (POPs \cup {Global})
<1>1. want[c] \in Requests
  BY DEF IInv, StateOK
<1>. QED
  BY <1>1, RequestFields DEF Assignments

\* Entering the assignment loop.
LEMMA LoopStep ==
    ASSUME IInv, NEW c \in Clients, pc[c] = "handler",
           want[c].op \in {"CreateTest", "AssignTest"}, DBOK(db'), faults' \in 0 .. MaxFaults,
           Goto(c, "assign"), todo' = [todo EXCEPT ![c] = Assignments(c)],
           UNCHANGED <<static, existing, history>>
    PROVE  IInv'
<1>1. UNCHANGED <<want, server, audit, restarts>>
  BY DEF static
<1>2. Moved(c, "assign")
  BY <1>1, GotoOK DEF InFlight
<1>3. todo' \in [Clients -> SUBSET (POPs \cup {Global})]
  BY AssignmentsType DEF IInv, StateOK
<1>4. StateOK'
  BY <1>1, <1>2, <1>3 DEF IInv, StateOK, Moved, DBOK, history, Codes
<1>5. Where'
  BY <1>1, <1>2 DEF IInv, StateOK, Where, At, Moved
<1>. QED
  BY <1>2, <1>4, <1>5 DEF IInv, Moved, DBOK

\* Answering an error, or a body that is refused after a read.
LEMMA ErrorStep ==
    ASSUME IInv, NEW c \in Clients, pc[c] # "done", NEW code \in Codes, Answer(c, code),
           DBOK(db'), faults' \in 0 .. MaxFaults, UNCHANGED <<static, locals, history>>
    PROVE  IInv'
<1>1. UNCHANGED <<want, server, audit, restarts>>
  BY DEF static
<1>2. Moved(c, "done")
  BY <1>1, AnswerOK
<1>3. /\ skipped' \subseteq Clients \X (POPs \cup {Global})
      /\ raced' \subseteq Clients \X Clients
      /\ UNCHANGED lost
  BY DEF IInv, StateOK, history
<1>. QED
  BY <1>1, <1>2, <1>3, PlainStep

\* Create, up to its INSERT.
LEMMA CreateTestStep ==
    ASSUME IInv, NEW c \in Clients, CreateTest(c)
    PROVE  IInv'
<1>1. /\ pc[c] = "handler" /\ want[c].op = "CreateTest"
      /\ UNCHANGED <<static, existing, history>>
  BY DEF CreateTest, At
<1>2. want[c].test \in Tests /\ want[c].fields \in Row
  BY <1>1, RequestFields DEF IInv, StateOK
<1>3. DBOK(db) /\ faults \in 0 .. MaxFaults
  BY DEF IInv, StateOK, DBOK
<1>4. CASE Reject(c) /\ UNCHANGED todo
  BY <1>1, <1>4, RejectStep DEF locals
<1>5. CASE /\ want[c].valid
           /\ \E out \in Outcomes(TestRepoCreate(db, want[c].test, want[c].fields)) :
                /\ Commit(out)
                /\ IF out.err = "none"
                   THEN Goto(c, "assign") /\ todo' = [todo EXCEPT ![c] = Assignments(c)]
                   ELSE Answer(c, errorResponse(out.err)) /\ UNCHANGED todo
  <2>1. ResultOK(TestRepoCreate(db, want[c].test, want[c].fields))
    BY <1>2, <1>3, OKTestCreate
  <2>2. PICK out \in Outcomes(TestRepoCreate(db, want[c].test, want[c].fields)) :
                /\ Commit(out)
                /\ IF out.err = "none"
                   THEN Goto(c, "assign") /\ todo' = [todo EXCEPT ![c] = Assignments(c)]
                   ELSE Answer(c, errorResponse(out.err)) /\ UNCHANGED todo
    BY <1>5
  <2>3. DBOK(db') /\ faults' \in 0 .. MaxFaults
    BY <1>3, <2>1, <2>2, CommitOK
  <2>4. CASE out.err = "none"
    BY <1>1, <2>2, <2>3, <2>4, LoopStep
  <2>5. CASE out.err # "none"
    <3>1. errorResponse(out.err) \in Codes
      BY ErrorCodes DEF Codes
    <3>. QED
      BY <1>1, <2>2, <2>3, <2>5, <3>1, ErrorStep DEF locals
  <2>. QED
    BY <2>4, <2>5
<1>. QED
  BY <1>4, <1>5 DEF CreateTest

\* Assign, up to its lookup of the test.
LEMMA AssignTestStep ==
    ASSUME IInv, NEW c \in Clients, AssignTest(c)
    PROVE  IInv'
<1>1. /\ pc[c] = "handler" /\ want[c].op = "AssignTest"
      /\ UNCHANGED <<static, existing, history>>
  BY DEF AssignTest, At
<1>2. want[c].test \in Tests
  BY <1>1, RequestFields DEF IInv, StateOK
<1>3. DBOK(db) /\ faults \in 0 .. MaxFaults
  BY DEF IInv, StateOK, DBOK
<1>4. ResultOK(TestRepoGet(db, want[c].test))
  BY <1>2, <1>3, OKTestGet
<1>5. PICK out \in Outcomes(TestRepoGet(db, want[c].test)) :
        /\ Commit(out)
        /\ \/ Answer(c, errorResponse(out.err)) /\ UNCHANGED todo
           \/ Answer(c, 400) /\ UNCHANGED todo
           \/ Goto(c, "assign") /\ todo' = [todo EXCEPT ![c] = Assignments(c)]
  BY DEF AssignTest
<1>6. DBOK(db') /\ faults' \in 0 .. MaxFaults
  BY <1>3, <1>4, <1>5, CommitOK
<1>7. errorResponse(out.err) \in Codes /\ 400 \in Codes
  BY ErrorCodes DEF Codes
<1>8. CASE Answer(c, errorResponse(out.err)) /\ UNCHANGED todo
  BY <1>1, <1>6, <1>7, <1>8, ErrorStep DEF locals
<1>9. CASE Answer(c, 400) /\ UNCHANGED todo
  BY <1>1, <1>6, <1>7, <1>9, ErrorStep DEF locals
<1>10. CASE Goto(c, "assign") /\ todo' = [todo EXCEPT ![c] = Assignments(c)]
  BY <1>1, <1>6, <1>10, LoopStep
<1>. QED
  BY <1>5, <1>8, <1>9, <1>10

\* A round of the assignment loop: an INSERT whose error is ignored.
LEMMA AssignStep ==
    ASSUME IInv, NEW c \in Clients, Assign(c)
    PROVE  IInv'
<1>1. /\ pc[c] = "assign" /\ UNCHANGED <<want, server, audit, restarts>>
      /\ UNCHANGED <<pc, status, pending, existing, raced, lost>>
  BY DEF Assign, static
<1>2. want[c].op \in {"CreateTest", "AssignTest"}
  BY <1>1 DEF IInv, Where
<1>3. want[c].test \in Tests
  BY <1>2, RequestFields DEF IInv, StateOK
<1>4. DBOK(db) /\ faults \in 0 .. MaxFaults
  BY DEF IInv, StateOK, DBOK
<1>5. PICK p \in todo[c] : \E out \in Outcomes(AssignmentRepoAssign(db, want[c].test, p)) :
        /\ Commit(out)
        /\ todo' = [todo EXCEPT ![c] = @ \ {p}]
        /\ skipped' = IF out.err = "none" THEN skipped ELSE skipped \cup {<<c, p>>}
  BY DEF Assign
<1>6. p \in POPs \cup {Global}
  BY <1>5 DEF IInv, StateOK
<1>7. ResultOK(AssignmentRepoAssign(db, want[c].test, p))
  BY <1>3, <1>4, <1>6, OKAssign
<1>8. DBOK(db') /\ faults' \in 0 .. MaxFaults
  BY <1>4, <1>5, <1>7, CommitOK
<1>9. /\ todo' \in [Clients -> SUBSET (POPs \cup {Global})]
      /\ skipped' \subseteq Clients \X (POPs \cup {Global})
  BY <1>5, <1>6 DEF IInv, StateOK
<1>10. StateOK'
  BY <1>1, <1>8, <1>9 DEF IInv, StateOK, DBOK
<1>11. Where' /\ EntriesOK'
  BY <1>1 DEF IInv, Where, At, EntriesOK
<1>. QED
  BY <1>8, <1>10, <1>11 DEF IInv, DBOK

\* Update's read of the row.
LEMMA UpdateReadStep ==
    ASSUME IInv, NEW c \in Clients, UpdateRead(c)
    PROVE  IInv'
<1>1. /\ pc[c] = "handler" /\ want[c].op = "UpdateTest"
      /\ UNCHANGED <<static, todo, history>>
  BY DEF UpdateRead, At
<1>2. want[c].test \in Tests
  BY <1>1, RequestFields DEF IInv, StateOK
<1>3. DBOK(db) /\ faults \in 0 .. MaxFaults
  BY DEF IInv, StateOK, DBOK
<1>4. ResultOK(TestRepoGet(db, want[c].test))
  BY <1>2, <1>3, OKTestGet
<1>5. PICK out \in Outcomes(TestRepoGet(db, want[c].test)) :
        /\ Commit(out)
        /\ \/ Answer(c, errorResponse(out.err)) /\ UNCHANGED existing
           \/ Answer(c, 400) /\ UNCHANGED existing
           \/ /\ out.err = "none" /\ Goto(c, "second")
              /\ existing' = [existing EXCEPT ![c] = db.tests[want[c].test]]
  BY DEF UpdateRead
<1>6. DBOK(db') /\ faults' \in 0 .. MaxFaults
  BY <1>3, <1>4, <1>5, CommitOK
<1>7. errorResponse(out.err) \in Codes /\ 400 \in Codes
  BY ErrorCodes DEF Codes
<1>8. CASE Answer(c, errorResponse(out.err)) /\ UNCHANGED existing
  BY <1>1, <1>6, <1>7, <1>8, ErrorStep DEF locals
<1>9. CASE Answer(c, 400) /\ UNCHANGED existing
  BY <1>1, <1>6, <1>7, <1>9, ErrorStep DEF locals
<1>10. CASE /\ out.err = "none" /\ Goto(c, "second")
            /\ existing' = [existing EXCEPT ![c] = db.tests[want[c].test]]
  <2>1. UNCHANGED <<want, server, audit, restarts>>
    BY <1>1 DEF static
  <2>2. Moved(c, "second")
    BY <1>1, <1>10, <2>1, GotoOK DEF InFlight
  <2>3. db.tests[want[c].test] \in Row
    BY <1>2, <1>3, <1>5, <1>10
       DEF Outcomes, TestRepoGet, Done, Fail, DBOK, Database
  <2>4. existing' \in [Clients -> Row \cup {NoRow}]
    BY <1>10, <2>3 DEF IInv, StateOK
  <2>5. StateOK'
    <3>1. UNCHANGED <<todo, skipped, raced, lost>>
      BY <1>1 DEF history
    <3>2. /\ want' \in [Clients -> Requests] /\ server' \in {"up", "draining"}
          /\ todo' \in [Clients -> SUBSET (POPs \cup {Global})]
          /\ restarts' \in 0 .. MaxRestarts
          /\ skipped' \subseteq Clients \X (POPs \cup {Global})
          /\ raced' \subseteq Clients \X Clients /\ lost' \subseteq Clients
      BY <2>1, <3>1 DEF IInv, StateOK
    <3>3. /\ db' \in Database /\ faults' \in 0 .. MaxFaults
          /\ pc' \in [Clients -> InFlight \cup {"idle", "done", "dropped"}]
          /\ status' \in [Clients -> {0, 200, 201, 204, 400, 401, 404, 409, 429, 500}]
          /\ {e.by : e \in pending' \cup audit'} \subseteq Clients
      BY <1>6, <2>2 DEF Moved, DBOK, Codes
    <3>. QED
      BY <2>4, <3>2, <3>3 DEF StateOK
  <2>6. Where'
    BY <1>10, <2>1, <2>2, <2>3 DEF IInv, StateOK, Where, At, Moved
  <2>. QED
    BY <1>6, <2>2, <2>5, <2>6 DEF IInv, Moved, DBOK
<1>. QED
  BY <1>5, <1>8, <1>9, <1>10

\* Update's write of the merged row.
LEMMA UpdateWriteStep ==
    ASSUME IInv, NEW c \in Clients, UpdateWrite(c)
    PROVE  IInv'
<1>1. /\ pc[c] = "second" /\ want[c].op = "UpdateTest"
      /\ UNCHANGED <<want, server, audit, restarts, locals, skipped, lost>>
  BY DEF UpdateWrite, At, static
<1>2. want[c].test \in Tests /\ want[c].fields \in Patch
  BY <1>1, RequestFields DEF IInv, StateOK
<1>3. existing[c] \in Row
  BY <1>1 DEF IInv, Where, At
<1>4. DBOK(db)
  BY DEF IInv, StateOK, DBOK
<1>5. ResultOK(TestRepoUpdate(db, want[c].test, Merge(existing[c], want[c].fields)))
  BY <1>2, <1>3, <1>4, MergeIsRow, OKTestUpdate
<1>6. Finish(c, TestRepoUpdate(db, want[c].test, Merge(existing[c], want[c].fields)), 200)
  BY DEF UpdateWrite
<1>7. Moved(c, "done") /\ DBOK(db') /\ faults' \in 0 .. MaxFaults
  BY <1>1, <1>5, <1>6, FinishOK
<1>8. raced' \subseteq Clients \X Clients
  BY DEF UpdateWrite, IInv, StateOK
<1>9. skipped' \subseteq Clients \X (POPs \cup {Global})
  BY <1>1 DEF IInv, StateOK
<1>. QED
  BY <1>1, <1>7, <1>8, <1>9, PlainStep

\* Register's lookup of the POP.
LEMMA RegisterReadStep ==
    ASSUME IInv, NEW c \in Clients, RegisterRead(c)
    PROVE  IInv'
<1>1. /\ pc[c] = "handler" /\ want[c].op = "Register" /\ UNCHANGED <<static, locals, history>>
  BY DEF RegisterRead, At
<1>2. want[c].pop \in POPs
  BY <1>1, RequestFields DEF IInv, StateOK
<1>3. DBOK(db) /\ faults \in 0 .. MaxFaults
  BY DEF IInv, StateOK, DBOK
<1>4. CASE Reject(c)
  BY <1>1, <1>4, RejectStep
<1>5. CASE \E out \in Outcomes(POPRepoGet(db, want[c].pop)) :
                /\ Commit(out)
                /\ IF out.err = "none" THEN Goto(c, "second")
                   ELSE Answer(c, errorResponse("InvalidInput"))
  <2>1. PICK out \in Outcomes(POPRepoGet(db, want[c].pop)) :
                /\ Commit(out)
                /\ Goto(c, "second") \/ Answer(c, errorResponse("InvalidInput"))
    BY <1>5
  <2>2. ResultOK(POPRepoGet(db, want[c].pop))
    BY <1>2, <1>3, OKPOPGet
  <2>3. DBOK(db') /\ faults' \in 0 .. MaxFaults
    BY <1>3, <2>1, <2>2, CommitOK
  <2>4. CASE Goto(c, "second")
    <3>1. UNCHANGED <<want, server, audit, restarts>>
      BY <1>1 DEF static
    <3>2. Moved(c, "second")
      BY <1>1, <2>4, <3>1, GotoOK DEF InFlight
    <3>3. StateOK'
      BY <1>1, <2>3, <3>1, <3>2 DEF IInv, StateOK, Moved, DBOK, locals, history, Codes
    <3>4. Where'
      BY <1>1, <3>1, <3>2 DEF IInv, StateOK, Where, At, Moved, locals
    <3>. QED
      BY <2>3, <3>2, <3>3, <3>4 DEF IInv, Moved, DBOK
  <2>5. CASE Answer(c, errorResponse("InvalidInput"))
    <3>1. errorResponse("InvalidInput") \in Codes
      BY ErrorCodes DEF Codes
    <3>. QED
      BY <1>1, <2>3, <2>5, <3>1, ErrorStep
  <2>. QED
    BY <2>1, <2>4, <2>5
<1>. QED
  BY <1>4, <1>5 DEF RegisterRead

\* The handlers of one statement, and the INSERT of Register.
LEMMA OneStatementStep ==
    ASSUME IInv, NEW c \in Clients,
           \/ DeleteTest(c) \/ GetTest(c) \/ CreatePOP(c) \/ DeletePOP(c)
           \/ RegisterWrite(c) \/ Heartbeat(c) \/ DeleteAgent(c) \/ ConfigSync(c)
    PROVE  IInv'
<1>1. want[c] \in Requests /\ DBOK(db)
  BY DEF IInv, StateOK, DBOK
<1>2. CASE DeleteTest(c)
  <2>1. /\ pc[c] = "handler" /\ want[c].op = "DeleteTest" /\ UNCHANGED <<static, locals, history>>
        /\ Finish(c, TestRepoDelete(db, want[c].test), 204)
    BY <1>2 DEF DeleteTest, At
  <2>2. ResultOK(TestRepoDelete(db, want[c].test))
    BY <1>1, <2>1, RequestFields, OKTestDelete
  <2>. QED
    BY <2>1, <2>2, FinishStep
<1>3. CASE GetTest(c)
  <2>1. /\ pc[c] = "handler" /\ want[c].op = "GetTest" /\ UNCHANGED <<static, locals, history>>
        /\ Finish(c, TestRepoGet(db, want[c].test), 200)
    BY <1>3 DEF GetTest, At
  <2>2. ResultOK(TestRepoGet(db, want[c].test))
    BY <1>1, <2>1, RequestFields, OKTestGet
  <2>. QED
    BY <2>1, <2>2, FinishStep
<1>4. CASE CreatePOP(c)
  <2>1. /\ pc[c] = "handler" /\ want[c].op = "CreatePOP" /\ UNCHANGED <<static, locals, history>>
        /\ Reject(c) \/ Finish(c, POPRepoCreate(db, want[c].pop), 201)
    BY <1>4 DEF CreatePOP, At
  <2>2. ResultOK(POPRepoCreate(db, want[c].pop))
    BY <1>1, <2>1, RequestFields, OKPOPCreate
  <2>. QED
    BY <2>1, <2>2, FinishStep, RejectStep
<1>5. CASE DeletePOP(c)
  <2>1. /\ pc[c] = "handler" /\ want[c].op = "DeletePOP" /\ UNCHANGED <<static, locals, history>>
        /\ Finish(c, POPRepoDelete(db, want[c].pop), 204)
    BY <1>5 DEF DeletePOP, At
  <2>2. ResultOK(POPRepoDelete(db, want[c].pop))
    BY <1>1, <2>1, RequestFields, OKPOPDelete
  <2>. QED
    BY <2>1, <2>2, FinishStep
<1>6. CASE RegisterWrite(c)
  <2>1. /\ pc[c] = "second" /\ want[c].op = "Register" /\ UNCHANGED <<static, locals, history>>
        /\ Finish(c, AgentRepoCreate(db, want[c].agent,
                                     [pop |-> want[c].pop, status |-> "online"]), 201)
    BY <1>6 DEF RegisterWrite, At
  <2>2. want[c].agent \in Agents /\ [pop |-> want[c].pop, status |-> "online"] \in AgentRow
    BY <1>1, <2>1, RequestFields DEF AgentRow
  <2>3. ResultOK(AgentRepoCreate(db, want[c].agent, [pop |-> want[c].pop, status |-> "online"]))
    BY <1>1, <2>2, OKAgentCreate
  <2>. QED
    BY <2>1, <2>3, FinishStep
<1>7. CASE Heartbeat(c)
  <2>1. /\ pc[c] = "handler" /\ want[c].op = "Heartbeat" /\ UNCHANGED <<static, locals, history>>
        /\ \/ Reject(c)
           \/ Finish(c, UpdateHeartbeat(db, want[c].agent, want[c].status), 200)
    BY <1>7 DEF Heartbeat, At
  <2>2. ResultOK(UpdateHeartbeat(db, want[c].agent, want[c].status))
    BY <1>1, <2>1, RequestFields, OKHeartbeat
  <2>. QED
    BY <2>1, <2>2, FinishStep, RejectStep
<1>8. CASE DeleteAgent(c)
  <2>1. /\ pc[c] = "handler" /\ want[c].op = "DeleteAgent" /\ UNCHANGED <<static, locals, history>>
        /\ Finish(c, AgentRepoDelete(db, want[c].agent), 204)
    BY <1>8 DEF DeleteAgent, At
  <2>2. ResultOK(AgentRepoDelete(db, want[c].agent))
    BY <1>1, <2>1, RequestFields, OKAgentDelete
  <2>. QED
    BY <2>1, <2>2, FinishStep
<1>9. CASE ConfigSync(c)
  <2>1. /\ pc[c] = "handler" /\ UNCHANGED <<static, locals, history>>
        /\ Reject(c) \/ Finish(c, Done(db), 200)
    BY <1>9 DEF ConfigSync, At
  <2>2. ResultOK(Done(db))
    BY <1>1 DEF ResultOK, Done
  <2>. QED
    BY <2>1, <2>2, FinishStep, RejectStep
<1>. QED
  BY <1>2, <1>3, <1>4, <1>5, <1>6, <1>7, <1>8, <1>9

\* The audit goroutine.
LEMMA RecordStep ==
    ASSUME IInv, NEW e \in pending, Record(e)
    PROVE  IInv'
<1>1. UNCHANGED <<want, db, server, pc, existing, todo, status, restarts, skipped, raced>>
  BY DEF Record, locals
<1>2. pending' \cup audit' \subseteq pending \cup audit
  BY DEF Record
<1>3. faults' \in 0 .. MaxFaults
  BY ControlPlaneAssumption DEF Record, IInv, StateOK
<1>4. lost' \subseteq Clients
  BY DEF Record, IInv, StateOK, EntriesOK
<1>5. EntriesOK'
  BY <1>1, <1>2 DEF IInv, EntriesOK
<1>6. {x.by : x \in pending' \cup audit'} \subseteq Clients
  BY <1>5 DEF EntriesOK
<1>7. StateOK'
  BY <1>1, <1>3, <1>4, <1>6 DEF IInv, StateOK
<1>8. Where'
  BY <1>1 DEF IInv, Where, At
<1>. QED
  BY <1>1, <1>5, <1>7, <1>8 DEF IInv, References

\* The end of the process: requests in flight are dropped, the tables stay.
LEMMA EndStep ==
    ASSUME IInv, End, restarts' \in 0 .. MaxRestarts
    PROVE  IInv'
<1>1. /\ UNCHANGED <<want, db, existing, todo, status, audit, faults, skipped, raced>>
      /\ server' = "up" /\ pending' = {}
      /\ pc' = [c \in Clients |-> IF pc[c] \in InFlight THEN "dropped" ELSE pc[c]]
  BY DEF End, locals
<1>2. pc' \in [Clients -> InFlight \cup {"idle", "done", "dropped"}]
  BY <1>1 DEF IInv, StateOK
<1>3. EntriesOK'
  BY <1>1 DEF IInv, EntriesOK, InFlight
<1>4. {x.by : x \in pending' \cup audit'} \subseteq Clients
  BY <1>3 DEF EntriesOK
<1>5. lost' \subseteq Clients
  BY DEF End, IInv, StateOK, EntriesOK
<1>6. StateOK'
  BY <1>1, <1>2, <1>4, <1>5 DEF IInv, StateOK
<1>7. Where'
  BY <1>1 DEF IInv, Where, At, InFlight
<1>. QED
  BY <1>1, <1>3, <1>6, <1>7 DEF IInv, References

\* The server starts on a database that keeps the schema.
LEMMA InitOK == Init => IInv
<1>. SUFFICES ASSUME Init PROVE IInv
  OBVIOUS
<1>1. StateOK
  BY ControlPlaneAssumption DEF Init, StateOK
<1>2. References(db)
  BY ControlPlaneAssumption DEF Init
<1>3. Where /\ EntriesOK
  BY DEF Init, Where, EntriesOK, At
<1>. QED
  BY <1>1, <1>2, <1>3 DEF IInv

\* No step of a request, of an audit goroutine or of the process breaks the invariant.
LEMMA NextOK == IInv /\ [Next]_vars => IInv'
<1>. SUFFICES ASSUME IInv, [Next]_vars PROVE IInv'
  OBVIOUS
<1>1. ASSUME NEW c \in Clients, Accept(c) PROVE IInv'
  <2>1. /\ pc[c] = "idle"
        /\ UNCHANGED <<want, db, faults, server, audit, restarts, locals, history>>
        /\ Goto(c, "auth") \/ Answer(c, 429)
    BY <1>1 DEF Accept
  <2>2. Moved(c, "auth") \/ Moved(c, "done")
    BY <2>1, GotoOK, AnswerOK DEF InFlight, Codes
  <2>. QED
    BY <2>1, <2>2, QuietStep
<1>2. ASSUME NEW c \in Clients, APIKeyAuth(c) PROVE IInv'
  <2>1. /\ pc[c] = "auth"
        /\ UNCHANGED <<want, db, faults, server, audit, restarts, locals, history>>
        /\ Goto(c, "handler") \/ Answer(c, 401)
    BY <1>2 DEF APIKeyAuth
  <2>2. Moved(c, "handler") \/ Moved(c, "done")
    BY <2>1, GotoOK, AnswerOK DEF InFlight, Codes
  <2>. QED
    BY <2>1, <2>2, QuietStep
<1>3. ASSUME NEW c \in Clients, Assigned(c) PROVE IInv'
  <2>1. /\ pc[c] = "assign"
        /\ UNCHANGED <<want, db, faults, server, audit, restarts, locals, history>>
        /\ Answer(c, 201) \/ Answer(c, 200)
    BY <1>3 DEF Assigned, static
  <2>2. Moved(c, "done")
    BY <2>1, AnswerOK DEF Codes
  <2>. QED
    BY <2>1, <2>2, QuietStep
<1>4. ASSUME NEW c \in Clients, Serve(c) PROVE IInv'
  BY <1>2, <1>3, <1>4, CreateTestStep, AssignTestStep, AssignStep, UpdateReadStep,
     UpdateWriteStep, RegisterReadStep, OneStatementStep DEF Serve
<1>5. CASE Shutdown
  <2>1. /\ UNCHANGED <<want, db, pc, existing, todo, status, pending, audit, faults>>
        /\ UNCHANGED <<skipped, raced, lost>>
        /\ server' = "draining" /\ restarts' \in 0 .. MaxRestarts
    BY <1>5, ControlPlaneAssumption DEF Shutdown, locals, history, IInv, StateOK
  <2>2. StateOK'
    BY <2>1 DEF IInv, StateOK
  <2>3. Where' /\ EntriesOK' /\ References(db)'
    BY <2>1 DEF IInv, Where, At, EntriesOK, References
  <2>. QED
    BY <2>2, <2>3 DEF IInv
<1>6. CASE Exit
  BY <1>6, EndStep DEF Exit, IInv, StateOK
<1>7. CASE Crash
  <2>1. restarts' \in 0 .. MaxRestarts
    BY <1>7, ControlPlaneAssumption DEF Crash, IInv, StateOK
  <2>. QED
    BY <1>7, <2>1, EndStep DEF Crash
<1>8. CASE UNCHANGED vars
  <2>1. /\ UNCHANGED <<want, db, server, pc, existing, todo, status, pending, audit>>
        /\ UNCHANGED <<faults, restarts, skipped, raced, lost>>
    BY <1>8 DEF vars, locals, history
  <2>2. StateOK'
    BY <2>1 DEF IInv, StateOK
  <2>3. Where' /\ EntriesOK' /\ References(db)'
    BY <2>1 DEF IInv, Where, At, EntriesOK, References
  <2>. QED
    BY <2>2, <2>3 DEF IInv
<1>. QED
  BY <1>1, <1>4, <1>5, <1>6, <1>7, <1>8, RecordStep DEF Next

\* The invariant of the control plane, for the theorems below.
LEMMA Invariance == Spec => []IInv
BY InitOK, NextOK, PTL DEF Spec

\* However the statements of any number of requests interleave, fail or are cut off, an
\* agent's POP exists, and so do an assignment's test and POP.
THEOREM ReferencesKept == Spec => []ReferencesExist
<1>1. IInv => ReferencesExist
  BY DEF IInv, ReferencesExist
<1>. QED
  BY <1>1, Invariance, PTL

\* The audit log names no request but mutations that were answered with success.
THEOREM AuditIsAcknowledged == Spec => []AuditedOnlyAcknowledged
<1>1. IInv => AuditedOnlyAcknowledged
  BY DEF IInv, EntriesOK, AuditedOnlyAcknowledged, isMutation
<1>. QED
  BY <1>1, Invariance, PTL

-----------------------------------------------------------------------------
(* What the assignment loop tries.                                         *)

\* Some request deletes what assignment x refers to.
Deleted(x) ==
    \E d \in Clients :
        \/ want[d].op = "DeleteTest" /\ want[d].test = x[1]
        \/ want[d].op = "DeletePOP" /\ want[d].pop = x[2]

Tried(c, p) ==
    \/ <<want[c].test, p>> \in db.assigned
    \/ <<c, p>> \in skipped
    \/ Deleted(<<want[c].test, p>>)

\* What is no longer to be assigned has been tried.
LoopOK ==
    \A c \in Clients : pc[c] = "assign" =>
        /\ todo[c] \subseteq Assignments(c)
        /\ \A p \in Assignments(c) : p \in todo[c] \/ Tried(c, p)

Assigns(c) == want[c].op \in {"CreateTest", "AssignTest"}

\* What was answered with success has been tried.
AnsweredOK ==
    \A c \in Clients : Assigns(c) /\ status[c] \in {200, 201} =>
        \A p \in Assignments(c) : Tried(c, p)

AssignInv == IInv /\ LoopOK /\ AnsweredOK

\* Assignments go only with what they refer to.
AssignmentsKept ==
    /\ db'.assigned \subseteq db.assigned
    /\ \A x \in db.assigned \ db'.assigned : Deleted(x)

\* A step that makes no assignment.
Gentle ==
    /\ AssignmentsKept /\ want' = want /\ skipped' = skipped
    /\ \A c \in Clients :
        /\ pc'[c] = "assign" =>
            (pc[c] = "assign" /\ todo'[c] = todo[c]) \/ todo'[c] = Assignments(c)
        /\ Assigns(c) /\ status'[c] \in {200, 201} =>
            status[c] \in {200, 201} \/ (pc[c] = "assign" /\ todo[c] = {})

\* What such a step keeps.
LEMMA GentleKeeps ==
    ASSUME AssignInv, Gentle
    PROVE  LoopOK' /\ AnsweredOK'
<1>1. /\ want' = want /\ skipped' = skipped /\ db'.assigned \subseteq db.assigned
      /\ \A c : Assignments(c)' = Assignments(c)
  BY DEF Gentle, AssignmentsKept, Assignments
<1>2. ASSUME NEW c \in Clients, NEW p, Tried(c, p) PROVE Tried(c, p)'
  BY <1>1, <1>2 DEF Tried, Deleted, Gentle, AssignmentsKept
<1>4. LoopOK'
  BY <1>1, <1>2 DEF AssignInv, LoopOK, Gentle
<1>5. AnsweredOK'
  <2> SUFFICES ASSUME NEW c \in Clients, Assigns(c), status'[c] \in {200, 201},
                      NEW p \in Assignments(c)
               PROVE  Tried(c, p)'
    BY <1>1 DEF AnsweredOK, Assigns
  <2>1. Tried(c, p)
    BY DEF Gentle, AssignInv, AnsweredOK, LoopOK
  <2> QED BY <1>2, <2>1
<1> QED BY <1>4, <1>5

\* A statement that leaves assignments alone, whatever comes of it.
LEMMA KeptBy ==
    ASSUME NEW r, r.db.assigned = db.assigned, NEW out \in Outcomes(r), Commit(out)
    PROVE  AssignmentsKept
BY DEF AssignmentsKept, Outcomes, Commit, Fail

\* The repositories' methods other than those that assign and delete.
LEMMA RepositoryKeeps ==
    ASSUME IInv
    PROVE  /\ \A t, row : TestRepoCreate(db, t, row).db.assigned = db.assigned
           /\ \A t : TestRepoGet(db, t).db.assigned = db.assigned
           /\ \A t, row : TestRepoUpdate(db, t, row).db.assigned = db.assigned
           /\ \A p : POPRepoCreate(db, p).db.assigned = db.assigned
           /\ \A p : POPRepoGet(db, p).db.assigned = db.assigned
           /\ \A a, row : AgentRepoCreate(db, a, row).db.assigned = db.assigned
           /\ \A a, s : UpdateHeartbeat(db, a, s).db.assigned = db.assigned
           /\ \A a : AgentRepoDelete(db, a).db.assigned = db.assigned
           /\ Done(db).db.assigned = db.assigned
<1>1. db \in Database
  BY DEF IInv, StateOK
<1> QED BY <1>1 DEF Database, TestRepoCreate, TestRepoGet, TestRepoUpdate, POPRepoCreate,
               POPRepoGet, AgentRepoCreate, UpdateHeartbeat, AgentRepoDelete, Done, Fail

\* A step of c's request that answers, or goes on to something that is not the loop.
LEMMA RequestGentle ==
    ASSUME IInv, NEW c \in Clients, AssignmentsKept,
           UNCHANGED <<want, skipped, todo>>,
           \/ \E place \in {"auth", "handler", "second"} : Goto(c, place)
           \/ \E code : /\ Answer(c, code)
                        /\ ~Assigns(c) \/ code \notin {200, 201} \/ (pc[c] = "assign" /\ todo[c] = {})
    PROVE  Gentle
<1>1. DOMAIN pc = Clients /\ DOMAIN status = Clients
  BY DEF IInv, StateOK
<1>2. ASSUME NEW b \in Clients, pc'[b] = "assign" PROVE pc[b] = "assign"
  BY <1>1, <1>2 DEF Goto, Answer
<1>3. ASSUME NEW b \in Clients, Assigns(b), status'[b] \in {200, 201}
      PROVE  status[b] \in {200, 201} \/ (pc[b] = "assign" /\ todo[b] = {})
  <2>1. CASE status' = status
    BY <1>3, <2>1
  <2>2. CASE status' # status
    <3>1. PICK code : /\ Answer(c, code)
                      /\ ~Assigns(c) \/ code \notin {200, 201} \/ (pc[c] = "assign" /\ todo[c] = {})
      BY <2>2 DEF Goto
    <3>2. status' = [status EXCEPT ![c] = code]
      BY <3>1 DEF Answer
    <3>3. CASE b = c
      BY <1>1, <1>3, <3>1, <3>2, <3>3
    <3>4. CASE b # c
      BY <1>1, <1>3, <3>2, <3>4
    <3> QED BY <3>3, <3>4
  <2> QED BY <2>1, <2>2
<1> QED BY <1>2, <1>3 DEF Gentle

\* A handler's last statement, in a handler that makes no assignment.
LEMMA FinishGentle ==
    ASSUME IInv, NEW c \in Clients, ~Assigns(c), NEW r, NEW code, Finish(c, r, code),
           \A out \in Outcomes(r) : Commit(out) => AssignmentsKept,
           UNCHANGED <<want, skipped, todo>>
    PROVE  Gentle
<1>1. AssignmentsKept /\ \E any : Answer(c, any)
  BY DEF Finish
<1> QED BY <1>1, RequestGentle

\* A body that is refused.
LEMMA RejectGentle ==
    ASSUME IInv, NEW c \in Clients, Reject(c), UNCHANGED <<want, skipped, todo>>
    PROVE  Gentle
<1>1. Answer(c, 400) /\ AssignmentsKept
  BY DEF Reject, AssignmentsKept
<1> QED BY <1>1, RequestGentle

\* DELETE of a test takes its own assignments along.
LEMMA DeleteTestGentle ==
    ASSUME IInv, NEW c \in Clients, DeleteTest(c)
    PROVE  Gentle
<1> DEFINE r == TestRepoDelete(db, want[c].test)
<1>1. /\ want[c].op = "DeleteTest" /\ Finish(c, r, 204)
      /\ UNCHANGED <<want, skipped, todo>>
  BY DEF DeleteTest, At, static, locals, history
<1>2. db \in Database
  BY DEF IInv, StateOK
<1>3. /\ r.db.assigned \subseteq db.assigned
      /\ \A x \in db.assigned \ r.db.assigned : x[1] = want[c].test
  BY <1>2 DEF Database, TestRepoDelete, Done, Fail
<1> HIDE DEF r
<1>4. ASSUME NEW out \in Outcomes(r), Commit(out) PROVE AssignmentsKept
  BY <1>1, <1>3, <1>4 DEF Outcomes, Commit, Fail, AssignmentsKept, Deleted
<1> QED BY <1>1, <1>4, FinishGentle DEF Assigns

\* DELETE of a POP takes its own assignments along.
LEMMA DeletePOPGentle ==
    ASSUME IInv, NEW c \in Clients, DeletePOP(c)
    PROVE  Gentle
<1> DEFINE r == POPRepoDelete(db, want[c].pop)
<1>1. /\ want[c].op = "DeletePOP" /\ Finish(c, r, 204)
      /\ UNCHANGED <<want, skipped, todo>>
  BY DEF DeletePOP, At, static, locals, history
<1>2. db \in Database
  BY DEF IInv, StateOK
<1>3. /\ r.db.assigned \subseteq db.assigned
      /\ \A x \in db.assigned \ r.db.assigned : x[2] = want[c].pop
  BY <1>2 DEF Database, POPRepoDelete, Done, Fail
<1> HIDE DEF r
<1>4. ASSUME NEW out \in Outcomes(r), Commit(out) PROVE AssignmentsKept
  BY <1>1, <1>3, <1>4 DEF Outcomes, Commit, Fail, AssignmentsKept, Deleted
<1> QED BY <1>1, <1>4, FinishGentle DEF Assigns

\* The other handlers that end with one statement.
LEMMA OneStatementGentle ==
    ASSUME IInv, NEW c \in Clients,
           \/ GetTest(c) \/ CreatePOP(c) \/ RegisterWrite(c) \/ Heartbeat(c) \/ DeleteAgent(c)
           \/ UpdateWrite(c) \/ ConfigSync(c)
    PROVE  Gentle
<1>1. ~Assigns(c) /\ UNCHANGED <<want, skipped, todo>>
  BY DEF GetTest, CreatePOP, RegisterWrite, Heartbeat, DeleteAgent, UpdateWrite, ConfigSync, At, Assigns,
         static, locals, history
<1>2. Reject(c) \/ \E r, code : r.db.assigned = db.assigned /\ Finish(c, r, code)
  <2>1. CASE GetTest(c)
    BY <2>1, RepositoryKeeps DEF GetTest
  <2>2. CASE CreatePOP(c)
    BY <2>2, RepositoryKeeps DEF CreatePOP
  <2>3. CASE RegisterWrite(c)
    BY <2>3, RepositoryKeeps DEF RegisterWrite
  <2>4. CASE Heartbeat(c)
    BY <2>4, RepositoryKeeps DEF Heartbeat
  <2>5. CASE DeleteAgent(c)
    BY <2>5, RepositoryKeeps DEF DeleteAgent
  <2>6. CASE UpdateWrite(c)
    BY <2>6, RepositoryKeeps DEF UpdateWrite
  <2>7. CASE ConfigSync(c)
    BY <2>7, RepositoryKeeps DEF ConfigSync
  <2> QED BY <2>1, <2>2, <2>3, <2>4, <2>5, <2>6, <2>7
<1>3. CASE Reject(c)
  BY <1>1, <1>3, RejectGentle
<1>4. ASSUME NEW r, NEW code, r.db.assigned = db.assigned, Finish(c, r, code) PROVE Gentle
  <2>1. \A out \in Outcomes(r) : Commit(out) => AssignmentsKept
    BY <1>4, KeptBy
  <2> QED BY <1>1, <1>4, <2>1, FinishGentle
<1> QED BY <1>2, <1>3, <1>4

\* Entering the loop, whose list is the request's.
LEMMA EnterGentle ==
    ASSUME IInv, NEW c \in Clients, AssignmentsKept, UNCHANGED <<want, skipped>>,
           Goto(c, "assign"), todo' = [todo EXCEPT ![c] = Assignments(c)]
    PROVE  Gentle
<1>1. DOMAIN pc = Clients /\ DOMAIN todo = Clients
  BY DEF IInv, StateOK
<1>2. \A b \in Clients : pc'[b] = "assign" =>
        (pc[b] = "assign" /\ todo'[b] = todo[b]) \/ todo'[b] = Assignments(b)
  BY <1>1 DEF Goto
<1> QED BY <1>2 DEF Gentle, Goto

\* The handlers of several statements, up to their last.
LEMMA FirstStatementGentle ==
    ASSUME IInv, NEW c \in Clients,
           CreateTest(c) \/ AssignTest(c) \/ UpdateRead(c) \/ RegisterRead(c)
    PROVE  Gentle
<1>1. UNCHANGED <<want, skipped>>
  BY DEF CreateTest, AssignTest, UpdateRead, RegisterRead, static, locals, history
<1>2. \A err : errorResponse(err) \notin {200, 201}
  BY ErrorCodes
<1>3. CASE CreateTest(c)
  <2>1. CASE Reject(c) /\ UNCHANGED todo
    BY <1>1, <2>1, RejectGentle
  <2>2. CASE ~(Reject(c) /\ UNCHANGED todo)
    <3>1. PICK out \in Outcomes(TestRepoCreate(db, want[c].test, want[c].fields)) :
                /\ Commit(out)
                /\ IF out.err = "none"
                   THEN Goto(c, "assign") /\ todo' = [todo EXCEPT ![c] = Assignments(c)]
                   ELSE Answer(c, errorResponse(out.err)) /\ UNCHANGED todo
      BY <1>3, <2>2 DEF CreateTest
    <3>2. AssignmentsKept
      BY <3>1, RepositoryKeeps, KeptBy
    <3>3. CASE out.err = "none"
      BY <1>1, <3>1, <3>2, <3>3, EnterGentle
    <3>4. CASE out.err # "none"
      BY <1>1, <1>2, <3>1, <3>2, <3>4, RequestGentle
    <3> QED BY <3>3, <3>4
  <2> QED BY <2>1, <2>2
<1>4. CASE AssignTest(c)
  <2>1. PICK out \in Outcomes(TestRepoGet(db, want[c].test)) :
        /\ Commit(out)
        /\ \/ /\ out.err # "none"
              /\ Answer(c, errorResponse(out.err)) /\ UNCHANGED todo
           \/ /\ out.err = "none" /\ ~want[c].valid
              /\ Answer(c, 400) /\ UNCHANGED todo
           \/ /\ out.err = "none" /\ want[c].valid
              /\ Goto(c, "assign") /\ todo' = [todo EXCEPT ![c] = Assignments(c)]
    BY <1>4 DEF AssignTest
  <2>2. AssignmentsKept
    BY <2>1, RepositoryKeeps, KeptBy
  <2>3. CASE Answer(c, errorResponse(out.err)) /\ UNCHANGED todo
    BY <1>1, <1>2, <2>2, <2>3, RequestGentle
  <2>4. CASE Answer(c, 400) /\ UNCHANGED todo
    BY <1>1, <2>2, <2>4, RequestGentle
  <2>5. CASE Goto(c, "assign") /\ todo' = [todo EXCEPT ![c] = Assignments(c)]
    BY <1>1, <2>2, <2>5, EnterGentle
  <2> QED BY <2>1, <2>3, <2>4, <2>5
<1>5. CASE UpdateRead(c)
  <2>1. PICK out \in Outcomes(TestRepoGet(db, want[c].test)) :
        /\ Commit(out)
        /\ Answer(c, errorResponse(out.err)) \/ Answer(c, 400) \/ Goto(c, "second")
    BY <1>5 DEF UpdateRead
  <2>2. AssignmentsKept /\ UNCHANGED todo
    BY <1>5, <2>1, RepositoryKeeps, KeptBy DEF UpdateRead
  <2> QED BY <1>1, <1>2, <2>1, <2>2, RequestGentle
<1>6. CASE RegisterRead(c)
  <2>1. UNCHANGED todo
    BY <1>6 DEF RegisterRead, locals
  <2>2. CASE Reject(c)
    BY <1>1, <2>1, <2>2, RejectGentle
  <2>3. CASE ~Reject(c)
    <3>1. PICK out \in Outcomes(POPRepoGet(db, want[c].pop)) :
            Commit(out) /\ (Goto(c, "second") \/ Answer(c, errorResponse("InvalidInput")))
      BY <1>6, <2>3 DEF RegisterRead
    <3>2. AssignmentsKept
      BY <3>1, RepositoryKeeps, KeptBy
    <3> QED BY <1>1, <1>2, <2>1, <3>1, <3>2, RequestGentle
  <2> QED BY <2>2, <2>3
<1> QED BY <1>3, <1>4, <1>5, <1>6

\* One round of the loop: its assignment is the request's own, and is tried.
LEMMA AssignKeeps ==
    ASSUME AssignInv, NEW c \in Clients, Assign(c)
    PROVE  LoopOK' /\ AnsweredOK'
<1>1. /\ pc[c] = "assign" /\ Assigns(c) /\ want' = want /\ pc' = pc /\ status' = status
      /\ \A b : Assignments(b)' = Assignments(b)
  BY DEF Assign, static, AssignInv, IInv, Where, Assigns, Assignments
<1>2. PICK p \in todo[c] : \E out \in Outcomes(AssignmentRepoAssign(db, want[c].test, p)) :
        /\ Commit(out)
        /\ todo' = [todo EXCEPT ![c] = @ \ {p}]
        /\ skipped' = IF out.err = "none" THEN skipped ELSE skipped \cup {<<c, p>>}
  BY DEF Assign
<1>3. PICK out \in Outcomes(AssignmentRepoAssign(db, want[c].test, p)) :
        /\ Commit(out)
        /\ todo' = [todo EXCEPT ![c] = @ \ {p}]
        /\ skipped' = IF out.err = "none" THEN skipped ELSE skipped \cup {<<c, p>>}
  BY <1>2
<1>4. p \in Assignments(c) /\ db \in Database /\ DOMAIN todo = Clients
  BY <1>1, <1>2 DEF AssignInv, LoopOK, IInv, StateOK
<1> DEFINE x == <<want[c].test, p>>
           r == AssignmentRepoAssign(db, want[c].test, p)
<1>5. /\ r.db.assigned = db.assigned \/ r.db.assigned = db.assigned \cup {x}
      /\ r.err = "none" => x \in r.db.assigned
  BY <1>4 DEF Database, AssignmentRepoAssign, Done, Fail
<1>6. out = r \/ (out.err = "fault" /\ (out.db = db \/ out.db = r.db))
  BY <1>3 DEF Outcomes, Fail
<1>7. /\ db.assigned \subseteq db'.assigned /\ db'.assigned \subseteq db.assigned \cup {x}
      /\ out.err = "none" => x \in db'.assigned
      /\ skipped \subseteq skipped' /\ (out.err # "none" => <<c, p>> \in skipped')
  <2>1. db' = out.db
    BY <1>3 DEF Commit
  <2> HIDE DEF r, x
  <2> QED BY <1>3, <1>5, <1>6, <2>1
<1> HIDE DEF r
<1>8. ASSUME NEW b \in Clients, NEW q, Tried(b, q) PROVE Tried(b, q)'
  BY <1>1, <1>7, <1>8 DEF Tried, Deleted
<1>9. Tried(c, p)'
  BY <1>1, <1>7 DEF Tried
<1>11. LoopOK'
  <2> SUFFICES ASSUME NEW b \in Clients, pc[b] = "assign"
               PROVE  /\ todo'[b] \subseteq Assignments(b)
                      /\ \A q \in Assignments(b) : q \in todo'[b] \/ Tried(b, q)'
    BY <1>1 DEF LoopOK
  <2>1. /\ todo[b] \subseteq Assignments(b)
        /\ \A q \in Assignments(b) : q \in todo[b] \/ Tried(b, q)'
    BY <1>8 DEF AssignInv, LoopOK
  <2>2. todo'[b] = IF b = c THEN todo[c] \ {p} ELSE todo[b]
    BY <1>3, <1>4
  <2> QED BY <1>9, <2>1, <2>2
<1>12. AnsweredOK'
  BY <1>1, <1>8 DEF AssignInv, AnsweredOK, Assigns
<1> QED BY <1>11, <1>12

\* No step of a request, of an audit goroutine or of the process breaks the invariant.
LEMMA AssignNext == AssignInv /\ [Next]_vars => AssignInv'
<1> SUFFICES ASSUME AssignInv, [Next]_vars PROVE AssignInv'
  OBVIOUS
<1>1. IInv /\ IInv'
  BY NextOK DEF AssignInv
<1>2. ASSUME NEW c \in Clients, Accept(c) \/ APIKeyAuth(c) PROVE Gentle
  <2>1. /\ UNCHANGED <<want, db, skipped, todo>>
        /\ Goto(c, "auth") \/ Goto(c, "handler") \/ Answer(c, 429) \/ Answer(c, 401)
    BY <1>2 DEF Accept, APIKeyAuth, locals, history
  <2>2. AssignmentsKept
    BY <2>1 DEF AssignmentsKept
  <2> QED BY <1>1, <2>1, <2>2, RequestGentle
<1>3. ASSUME NEW c \in Clients, Assigned(c) PROVE Gentle
  <2>1. /\ UNCHANGED <<want, db, skipped, todo>> /\ pc[c] = "assign" /\ todo[c] = {}
        /\ Answer(c, 201) \/ Answer(c, 200)
    BY <1>3 DEF Assigned, static, locals, history
  <2>2. AssignmentsKept
    BY <2>1 DEF AssignmentsKept
  <2> QED BY <1>1, <2>1, <2>2, RequestGentle
<1>4. ASSUME NEW c \in Clients, Serve(c), ~Assign(c) PROVE Gentle
  BY <1>1, <1>2, <1>3, <1>4, DeleteTestGentle, DeletePOPGentle, OneStatementGentle,
     FirstStatementGentle DEF Serve
<1>5. CASE (\E e \in pending : Record(e)) \/ Shutdown \/ UNCHANGED vars
  <2>1. UNCHANGED <<want, db, pc, todo, status, skipped>>
    BY <1>5 DEF Record, Shutdown, vars, locals, history
  <2> QED BY <1>1, <2>1, GentleKeeps DEF AssignInv, Gentle, AssignmentsKept
<1>6. CASE Exit \/ Crash
  <2>1. /\ UNCHANGED <<want, db, todo, status, skipped>>
        /\ pc' = [c \in Clients |-> IF pc[c] \in InFlight THEN "dropped" ELSE pc[c]]
    BY <1>6 DEF Exit, Crash, End, locals
  <2>2. \A c \in Clients : pc'[c] # "assign"
    BY <2>1 DEF InFlight
  <2> QED BY <1>1, <2>1, <2>2, GentleKeeps DEF AssignInv, Gentle, AssignmentsKept
<1>7. ASSUME NEW c \in Clients, Accept(c) \/ Serve(c) PROVE AssignInv'
  BY <1>1, <1>2, <1>4, <1>7, GentleKeeps, AssignKeeps DEF AssignInv
<1> QED BY <1>5, <1>6, <1>7 DEF Next

\* The invariant of the assignments, for the theorems below.
LEMMA AssignInvariance == Spec => []AssignInv
<1>1. Init => AssignInv
  <2> SUFFICES ASSUME Init PROVE AssignInv
    OBVIOUS
  <2>1. \A c \in Clients : pc[c] = "idle" /\ status[c] = 0
    BY DEF Init
  <2> QED BY <2>1, InitOK DEF AssignInv, LoopOK, AnsweredOK
<1> QED BY <1>1, AssignNext, PTL DEF Spec

\* An assignment that fails in the loop of Create or Assign takes none of the others with
\* it, for any number of POPs and of requests that delete some of them meanwhile.
THEOREM FailureStopsNoOther == Spec => []OneFailureStopsNoOther
<1>1. AssignInv => OneFailureStopsNoOther
  BY DEF AssignInv, AnsweredOK, OneFailureStopsNoOther, Tried, Deleted, Assigns
<1> QED BY <1>1, AssignInvariance, PTL

-----------------------------------------------------------------------------
(* Where a test runs.                                                      *)

\* Every assignment, made or still to be made by a request in its loop, was asked for since
\* its test and POP were created, or is one that a deletion overtook.
GivenOK ==
    /\ granted \cup overtaken \subseteq Tests \X (POPs \cup {Global})
    /\ db.assigned \subseteq granted \cup overtaken
    /\ \A c \in Clients :
        pc[c] = "assign" => {want[c].test} \X todo[c] \subseteq granted \cup overtaken

\* A step of c's request, or of none, that makes no assignment and asks for none.
LEMMA GivenFrame ==
    ASSUME IInv, GivenOK, Gentle, UNCHANGED <<todo, given>>,
           \A c \in Clients : pc'[c] = "assign" => pc[c] = "assign"
    PROVE  GivenOK'
<1>1. want' = want /\ db'.assigned \subseteq db.assigned /\ todo' = todo
      /\ granted' = granted /\ overtaken' = overtaken
  BY DEF Gentle, AssignmentsKept, given
<1> QED BY <1>1 DEF GivenOK

\* The requests that do not assign leave the loop to those that do.
LEMMA GivenOther ==
    ASSUME IInv, IInv', GivenOK, Gentle, NEW c \in Clients, ~Assigns(c),
           UNCHANGED <<todo, given>>, NEW place, pc' = [pc EXCEPT ![c] = place]
    PROVE  GivenOK'
<1>1. want' = want /\ DOMAIN pc = Clients
  BY DEF Gentle, IInv, StateOK
<1>2. pc'[c] # "assign"
  BY <1>1 DEF IInv, Where, Assigns
<1>3. \A b \in Clients : pc'[b] = "assign" => pc[b] = "assign"
  BY <1>1, <1>2
<1> QED BY <1>3, GivenFrame

\* Answering and going on move one request.
LEMMA MovesOne ==
    ASSUME NEW c \in Clients,
           Reject(c) \/ (\E r, code : Finish(c, r, code)) \/ (\E code : Answer(c, code))
           \/ (\E place : Goto(c, place))
    PROVE  \E place : pc' = [pc EXCEPT ![c] = place]
BY DEF Reject, Finish, Answer, Goto

\* Create and Assign ask for what their loop will assign.
LEMMA GivenAsked ==
    ASSUME IInv, GivenOK, Gentle, NEW c \in Clients, pc[c] = "handler", Assigns(c),
           NEW out, Grant(c, out),
           \/ UNCHANGED todo /\ \E code : Answer(c, code)
           \/ /\ out.err = "none" /\ want[c].valid /\ Goto(c, "assign")
              /\ todo' = [todo EXCEPT ![c] = Assignments(c)]
    PROVE  GivenOK'
<1>1. /\ want' = want /\ db'.assigned \subseteq db.assigned
      /\ DOMAIN pc = Clients /\ DOMAIN todo = Clients
  BY DEF Gentle, AssignmentsKept, IInv, StateOK
<1>2. want[c].test \in Tests /\ Assignments(c) \subseteq POPs \cup {Global}
  BY RequestFields, AssignmentsType DEF IInv, StateOK, Assigns
<1>3. /\ granted \cup overtaken \subseteq granted' \cup overtaken'
      /\ granted' \cup overtaken' \subseteq Tests \X (POPs \cup {Global})
  BY <1>2 DEF Grant, GivenOK
<1>4. ASSUME NEW b \in Clients, pc'[b] = "assign"
      PROVE  {want[b].test} \X todo'[b] \subseteq granted' \cup overtaken'
  <2>1. CASE b # c
    <3>1. pc[b] = "assign" /\ todo'[b] = todo[b]
      BY <1>1, <1>4, <2>1 DEF Goto, Answer
    <3> QED BY <1>3, <3>1 DEF GivenOK
  <2>2. CASE b = c
    <3>1. /\ todo'[c] = Assignments(c)
          /\ granted' = granted \cup ({want[c].test} \X Assignments(c))
      BY <1>1, <1>4, <2>2 DEF Answer, Grant
    <3> QED BY <2>2, <3>1
  <2> QED BY <2>1, <2>2
<1> QED BY <1>1, <1>3, <1>4 DEF GivenOK

\* A test or a POP is deleted: what is gone is not in the tables any more, and what requests
\* under way may still assign is overtaken.
LEMMA GivenRevoked ==
    ASSUME IInv, IInv', GivenOK, Gentle, Revoke, UNCHANGED todo, NEW c \in Clients,
           ~Assigns(c), NEW place, pc' = [pc EXCEPT ![c] = place]
    PROVE  GivenOK'
<1>1. /\ want' = want /\ db'.assigned \subseteq db.assigned /\ DOMAIN pc = Clients
      /\ db.assigned \subseteq Tests \X (POPs \cup {Global})
  BY DEF Gentle, AssignmentsKept, IInv, StateOK, Database
<1>2. \A b \in Clients : pc'[b] = "assign" => pc[b] = "assign"
  BY <1>1 DEF IInv, Where, Assigns
<1>3. \A x \in UnderWay : x \in granted \cup overtaken
  BY DEF UnderWay, GivenOK
<1>4. granted' \cup overtaken' \subseteq Tests \X (POPs \cup {Global})
  BY <1>3 DEF Revoke, GivenOK
<1>5. ASSUME NEW x \in granted \cup overtaken, ~Gone(x) PROVE x \in granted' \cup overtaken'
  BY <1>5 DEF Revoke
<1>6. ASSUME NEW x \in UnderWay PROVE x \in granted' \cup overtaken'
  BY <1>3, <1>5, <1>6 DEF Revoke
<1>7. ASSUME NEW x \in db'.assigned PROVE x \in granted' \cup overtaken'
  <2>1. x \in granted \cup overtaken
    BY <1>1, <1>7 DEF GivenOK
  <2>2. db'.tests[x[1]] # NoRow /\ x[2] \in db'.pops \cup {Global}
    BY <1>7 DEF IInv, References
  <2>3. x[2] \notin db.pops \ db'.pops
    BY <2>2, ControlPlaneAssumption DEF IInv, StateOK, Database
  <2> QED BY <1>5, <2>1, <2>2, <2>3 DEF Gone
<1>8. ASSUME NEW b \in Clients, pc'[b] = "assign"
      PROVE  {want[b].test} \X todo[b] \subseteq granted' \cup overtaken'
  <2>1. pc[b] = "assign"
    BY <1>2, <1>8
  <2>2. {want[b].test} \X todo[b] \subseteq UnderWay
    BY <2>1 DEF UnderWay
  <2> QED BY <1>6, <2>2
<1> QED BY <1>1, <1>4, <1>7, <1>8 DEF GivenOK

\* A round of the loop makes an assignment that is still to be made.
LEMMA GivenAssign ==
    ASSUME IInv, GivenOK, NEW c \in Clients, Assign(c)
    PROVE  GivenOK'
<1>1. /\ pc[c] = "assign" /\ want' = want /\ pc' = pc
      /\ granted' = granted /\ overtaken' = overtaken
  BY DEF Assign, static, given
<1>2. PICK p \in todo[c] : \E out \in Outcomes(AssignmentRepoAssign(db, want[c].test, p)) :
        Commit(out) /\ todo' = [todo EXCEPT ![c] = @ \ {p}]
  BY DEF Assign
<1>3. PICK out \in Outcomes(AssignmentRepoAssign(db, want[c].test, p)) : Commit(out)
  BY <1>2
<1>4. db \in Database /\ DOMAIN todo = Clients
  BY DEF IInv, StateOK
<1>5. AssignmentRepoAssign(db, want[c].test, p).db.assigned
        \subseteq db.assigned \cup {<<want[c].test, p>>}
  BY <1>4 DEF Database, AssignmentRepoAssign, Done, Fail
<1>6. db'.assigned \subseteq db.assigned \cup {<<want[c].test, p>>}
  BY <1>3, <1>5 DEF Outcomes, Commit, Fail
<1>7. <<want[c].test, p>> \in granted \cup overtaken
  BY <1>1, <1>2 DEF GivenOK
<1>8. \A b \in Clients : todo'[b] \subseteq todo[b]
  BY <1>2, <1>4
<1>9. ASSUME NEW b \in Clients, pc[b] = "assign"
      PROVE  {want[b].test} \X todo'[b] \subseteq granted \cup overtaken
  BY <1>8, <1>9 DEF GivenOK
<1> QED BY <1>1, <1>6, <1>7, <1>9 DEF GivenOK

\* Create and Assign, up to their loop.
LEMMA GivenEnter ==
    ASSUME IInv, GivenOK, NEW c \in Clients, CreateTest(c) \/ AssignTest(c)
    PROVE  GivenOK'
<1>1. Gentle /\ pc[c] = "handler" /\ Assigns(c)
  BY FirstStatementGentle DEF CreateTest, AssignTest, At, Assigns
<1>2. CASE Reject(c) /\ UNCHANGED <<todo, given>>
  <2>1. \A b \in Clients : pc'[b] = "assign" => pc[b] = "assign"
    BY <1>2 DEF Reject, Answer, IInv, StateOK
  <2> QED BY <1>1, <1>2, <2>1, GivenFrame
<1>3. CASE ~(Reject(c) /\ UNCHANGED <<todo, given>>)
  <2>1. PICK out :
          /\ Grant(c, out)
          /\ \/ UNCHANGED todo /\ \E code : Answer(c, code)
             \/ /\ out.err = "none" /\ want[c].valid /\ Goto(c, "assign")
                /\ todo' = [todo EXCEPT ![c] = Assignments(c)]
    BY <1>3 DEF CreateTest, AssignTest
  <2> QED BY <1>1, <2>1, GivenAsked
<1> QED BY <1>2, <1>3

\* No step of a request, of an audit goroutine or of the process breaks the invariant.
LEMMA GivenNext == IInv /\ GivenOK /\ [Next]_vars => GivenOK'
<1> SUFFICES ASSUME IInv, GivenOK, [Next]_vars PROVE GivenOK'
  OBVIOUS
<1>1. IInv'
  BY NextOK
<1>2. ASSUME NEW c \in Clients, Accept(c) \/ APIKeyAuth(c) \/ Assigned(c) PROVE GivenOK'
  <2>1. /\ UNCHANGED <<want, db, skipped, todo, given>>
        /\ Goto(c, "auth") \/ Goto(c, "handler")
           \/ \E code : /\ Answer(c, code)
                        /\ ~Assigns(c) \/ code \notin {200, 201}
                           \/ (pc[c] = "assign" /\ todo[c] = {})
    BY <1>2 DEF Accept, APIKeyAuth, Assigned, static, locals, history
  <2>2. AssignmentsKept
    BY <2>1 DEF AssignmentsKept
  <2>3. Gentle
    BY <2>1, <2>2, RequestGentle
  <2>4. \A b \in Clients : pc'[b] = "assign" => pc[b] = "assign"
    BY <2>1 DEF Goto, Answer, IInv, StateOK
  <2> QED BY <2>1, <2>3, <2>4, GivenFrame
<1>3. ASSUME NEW c \in Clients,
             \/ UpdateRead(c) \/ UpdateWrite(c) \/ GetTest(c) \/ CreatePOP(c) \/ ConfigSync(c)
             \/ RegisterRead(c) \/ RegisterWrite(c) \/ Heartbeat(c) \/ DeleteAgent(c)
      PROVE  GivenOK'
  <2>1. Gentle
    BY <1>3, OneStatementGentle, FirstStatementGentle
  <2>2. ~Assigns(c) /\ UNCHANGED <<todo, given>>
    BY <1>3 DEF UpdateRead, UpdateWrite, GetTest, CreatePOP, ConfigSync, RegisterRead,
                RegisterWrite, Heartbeat, DeleteAgent, At, Assigns, locals
  <2>3. Reject(c) \/ (\E r, code : Finish(c, r, code)) \/ (\E code : Answer(c, code))
        \/ (\E place : Goto(c, place))
    <3>1. CASE UpdateRead(c) \/ RegisterRead(c)
      BY <3>1 DEF UpdateRead, RegisterRead
    <3>2. CASE UpdateWrite(c) \/ GetTest(c) \/ CreatePOP(c) \/ ConfigSync(c)
      BY <3>2 DEF UpdateWrite, GetTest, CreatePOP, ConfigSync
    <3>3. CASE RegisterWrite(c) \/ Heartbeat(c) \/ DeleteAgent(c)
      BY <3>3 DEF RegisterWrite, Heartbeat, DeleteAgent
    <3> QED BY <1>3, <3>1, <3>2, <3>3
  <2>4. PICK place : pc' = [pc EXCEPT ![c] = place]
    BY <2>3, MovesOne
  <2> QED BY <1>1, <2>1, <2>2, <2>4, GivenOther
<1>4. ASSUME NEW c \in Clients, DeleteTest(c) \/ DeletePOP(c) PROVE GivenOK'
  <2>1. Gentle
    BY <1>4, DeleteTestGentle, DeletePOPGentle
  <2>2. ~Assigns(c) /\ Revoke /\ UNCHANGED todo /\ \E r, code : Finish(c, r, code)
    BY <1>4 DEF DeleteTest, DeletePOP, At, Assigns, locals
  <2>3. PICK place : pc' = [pc EXCEPT ![c] = place]
    BY <2>2, MovesOne
  <2> QED BY <1>1, <2>1, <2>2, <2>3, GivenRevoked
<1>5. CASE (\E e \in pending : Record(e)) \/ Shutdown \/ UNCHANGED vars
  <2>1. UNCHANGED <<want, db, pc, todo, given>>
    BY <1>5 DEF Record, Shutdown, vars, locals
  <2> QED BY <2>1 DEF GivenOK, given
<1>6. CASE Exit \/ Crash
  <2>1. /\ UNCHANGED <<want, db, todo, given>>
        /\ pc' = [c \in Clients |-> IF pc[c] \in InFlight THEN "dropped" ELSE pc[c]]
    BY <1>6 DEF Exit, Crash, End, locals
  <2>2. \A c \in Clients : pc'[c] # "assign"
    BY <2>1 DEF InFlight
  <2> QED BY <2>1, <2>2 DEF GivenOK, given
<1>7. ASSUME NEW c \in Clients, Accept(c) \/ Serve(c) PROVE GivenOK'
  BY <1>2, <1>3, <1>4, <1>7, GivenEnter, GivenAssign DEF Serve
<1> QED BY <1>5, <1>6, <1>7 DEF Next

\* The invariant of what was asked for, for the theorems below.
LEMMA GivenInvariance == Spec => [](IInv /\ GivenOK)
<1>1. Init => IInv /\ GivenOK
  <2> SUFFICES ASSUME Init PROVE GivenOK
    BY InitOK
  <2>1. /\ granted = InitialDB.assigned /\ overtaken = {} /\ db = InitialDB
        /\ \A c \in Clients : pc[c] = "idle"
    BY DEF Init
  <2>2. InitialDB.assigned \subseteq Tests \X (POPs \cup {Global})
    BY ControlPlaneAssumption DEF Database
  <2> QED BY <2>1, <2>2 DEF GivenOK
<1> QED BY <1>1, NextOK, GivenNext, PTL DEF Spec

\* However requests interleave and statements fail, a config sync sends a POP only tests
\* assigned to it or to all since the test, and the POP if it is named, was created, or by a
\* request that their deletion overtook: for any tables and any number of requests that
\* delete and create them again.
THEOREM ServedAsAssigned == Spec => []ServedOnlyAsAssigned
<1>1. GivenOK => ServedOnlyAsAssigned
  BY DEF GivenOK, ServedOnlyAsAssigned, ListByPOP
<1> QED BY <1>1, GivenInvariance, PTL

\* Every reachable state of the control plane is well typed: responses are among the codes
\* the handlers write and every row has all its columns, for any tables and requests.
THEOREM ControlPlaneTypeCorrect == Spec => []TypeOK
<1>1. IInv /\ GivenOK => TypeOK
  BY DEF IInv, GivenOK, TypeOK
<1>. QED
  BY <1>1, GivenInvariance, PTL

-----------------------------------------------------------------------------
(* What an acknowledged update wrote.                                      *)

Updates(c) == want[c].op = "UpdateTest"

\* Another request that may undo what c wrote to field f.
Excused(c, f) ==
    \E d \in Clients \ {c} :
        \/ <<c, d>> \in raced
        \/ want[d].op = "CreateTest" /\ want[d].test = want[c].test
        \/ want[d].op = "UpdateTest" /\ want[d].test = want[c].test /\ f \in DOMAIN want[d].fields

\* The field is in the row, and in every copy of it that an update will write back.
Preserved(c, f) ==
    /\ db.tests[want[c].test] # NoRow => db.tests[want[c].test][f] = want[c].fields[f]
    /\ \A d \in Clients \ {c} :
        At(d, "UpdateTest", "second") /\ want[d].test = want[c].test =>
            existing[d][f] = want[c].fields[f]

UpdatesOK ==
    \A c \in Clients : Updates(c) /\ status[c] = 200 =>
        \A f \in DOMAIN want[c].fields : Excused(c, f) \/ Preserved(c, f)

\* A row disappears or is created by a request, but is not changed.
RowsKept ==
    \A t \in Tests :
        \/ db'.tests[t] \in {db.tests[t], NoRow}
        \/ \E d \in Clients : want[d].op = "CreateTest" /\ want[d].test = t

\* A step that writes no update.
Calm ==
    /\ RowsKept /\ want' = want /\ raced' = raced
    /\ \A c \in Clients : Updates(c) =>
        /\ pc'[c] = "second" =>
            \/ pc[c] = "second" /\ existing'[c] = existing[c]
            \/ existing'[c] = db.tests[want[c].test] /\ existing'[c] # NoRow
        /\ status'[c] = 200 => status[c] = 200

\* What such a step keeps.
LEMMA CalmKeeps ==
    ASSUME IInv, UpdatesOK, Calm
    PROVE  UpdatesOK'
<1> SUFFICES ASSUME NEW c \in Clients, Updates(c), status'[c] = 200,
                    NEW f \in DOMAIN want[c].fields
             PROVE  Excused(c, f)' \/ Preserved(c, f)'
  BY DEF UpdatesOK, Updates, Calm
<1>1. want' = want /\ raced' = raced /\ want[c].test \in Tests
  BY RequestFields DEF Calm, IInv, StateOK, Updates
<1>2. Excused(c, f)' = Excused(c, f)
  BY <1>1 DEF Excused
<1>3. CASE Excused(c, f)
  BY <1>2, <1>3
<1>4. CASE ~Excused(c, f)
  <2>1. Preserved(c, f)
    BY <1>4 DEF Calm, UpdatesOK
  <2>2. db'.tests[want[c].test] \in {db.tests[want[c].test], NoRow}
    BY <1>1, <1>4 DEF Calm, RowsKept, Excused, Updates
  <2>3. ASSUME NEW d \in Clients \ {c}, want[d].op = "UpdateTest", pc'[d] = "second",
               want[d].test = want[c].test
        PROVE  existing'[d][f] = want[c].fields[f]
    <3>1. \/ pc[d] = "second" /\ existing'[d] = existing[d]
          \/ existing'[d] = db.tests[want[c].test] /\ existing'[d] # NoRow
      BY <2>3 DEF Calm, Updates
    <3> QED BY <2>1, <2>3, <3>1 DEF Preserved, At
  <2> QED BY <1>1, <2>1, <2>2, <2>3 DEF Preserved, At
<1> QED BY <1>3, <1>4

\* A statement that leaves the tests alone, whatever comes of it.
LEMMA RowsKeptBy ==
    ASSUME NEW r, r.db.tests = db.tests, NEW out \in Outcomes(r), Commit(out)
    PROVE  RowsKept
BY DEF RowsKept, Outcomes, Commit, Fail

\* The repositories' methods other than those that write tests.
LEMMA RepositoryKeepsTests ==
    ASSUME IInv
    PROVE  /\ \A t : TestRepoGet(db, t).db.tests = db.tests
           /\ \A t, p : AssignmentRepoAssign(db, t, p).db.tests = db.tests
           /\ \A p : POPRepoCreate(db, p).db.tests = db.tests
           /\ \A p : POPRepoGet(db, p).db.tests = db.tests
           /\ \A p : POPRepoDelete(db, p).db.tests = db.tests
           /\ \A a, row : AgentRepoCreate(db, a, row).db.tests = db.tests
           /\ \A a, s : UpdateHeartbeat(db, a, s).db.tests = db.tests
           /\ \A a : AgentRepoDelete(db, a).db.tests = db.tests
           /\ Done(db).db.tests = db.tests
<1>1. db \in Database
  BY DEF IInv, StateOK
<1> QED BY <1>1 DEF Database, TestRepoGet, AssignmentRepoAssign, POPRepoCreate, POPRepoGet,
               POPRepoDelete, AgentRepoCreate, UpdateHeartbeat, AgentRepoDelete, Done, Fail

\* A step of c's request that is not an update's success nor its read of the row.
LEMMA RequestCalm ==
    ASSUME IInv, NEW c \in Clients, RowsKept, UNCHANGED <<want, raced, existing>>,
           \/ \E place \in {"auth", "handler", "assign"} : Goto(c, place)
           \/ ~Updates(c) /\ Goto(c, "second")
           \/ \E code : Answer(c, code) /\ (~Updates(c) \/ code # 200)
    PROVE  Calm
<1>1. DOMAIN pc = Clients /\ DOMAIN status = Clients
  BY DEF IInv, StateOK
<1>2. ASSUME NEW b \in Clients, Updates(b)
      PROVE  /\ pc'[b] = "second" => pc[b] = "second"
             /\ status'[b] = 200 => status[b] = 200
  <2>1. CASE b = c
    BY <1>1, <1>2, <2>1 DEF Goto, Answer
  <2>2. CASE b # c
    BY <1>1, <2>2 DEF Goto, Answer
  <2> QED BY <2>1, <2>2
<1> QED BY <1>2 DEF Calm

\* A handler's last statement, in a handler other than Update.
LEMMA FinishCalm ==
    ASSUME IInv, NEW c \in Clients, ~Updates(c), NEW r, NEW code, Finish(c, r, code),
           \A out \in Outcomes(r) : Commit(out) => RowsKept,
           UNCHANGED <<want, raced, existing>>
    PROVE  Calm
<1>1. RowsKept /\ \E any : Answer(c, any)
  BY DEF Finish
<1> QED BY <1>1, RequestCalm

\* A body that is refused.
LEMMA RejectCalm ==
    ASSUME IInv, NEW c \in Clients, Reject(c), UNCHANGED <<want, raced, existing>>
    PROVE  Calm
<1>1. Answer(c, 400) /\ RowsKept
  BY DEF Reject, RowsKept
<1> QED BY <1>1, RequestCalm

\* DELETE of a test.
LEMMA DeleteTestCalm ==
    ASSUME IInv, NEW c \in Clients, DeleteTest(c)
    PROVE  Calm
<1> DEFINE r == TestRepoDelete(db, want[c].test)
<1>1. /\ want[c].op = "DeleteTest" /\ Finish(c, r, 204)
      /\ UNCHANGED <<want, raced, existing>>
  BY DEF DeleteTest, At, static, locals, history
<1>2. db \in Database
  BY DEF IInv, StateOK
<1>3. \A t \in Tests : r.db.tests[t] \in {db.tests[t], NoRow}
  BY <1>2 DEF Database, TestRepoDelete, Done, Fail
<1> HIDE DEF r
<1>4. ASSUME NEW out \in Outcomes(r), Commit(out) PROVE RowsKept
  BY <1>3, <1>4 DEF Outcomes, Commit, Fail, RowsKept
<1> QED BY <1>1, <1>4, FinishCalm DEF Updates

\* The other handlers that end with one statement.
LEMMA OneStatementCalm ==
    ASSUME IInv, NEW c \in Clients,
           \/ GetTest(c) \/ CreatePOP(c) \/ DeletePOP(c) \/ RegisterWrite(c) \/ Heartbeat(c)
           \/ DeleteAgent(c) \/ ConfigSync(c)
    PROVE  Calm
<1>1. ~Updates(c) /\ UNCHANGED <<want, raced, existing>>
  BY DEF GetTest, CreatePOP, DeletePOP, RegisterWrite, Heartbeat, DeleteAgent, ConfigSync, At,
         Updates, static, locals, history
<1>2. Reject(c) \/ \E r, code : r.db.tests = db.tests /\ Finish(c, r, code)
  <2>1. CASE GetTest(c)
    BY <2>1, RepositoryKeepsTests DEF GetTest
  <2>2. CASE CreatePOP(c)
    BY <2>2, RepositoryKeepsTests DEF CreatePOP
  <2>3. CASE DeletePOP(c)
    BY <2>3, RepositoryKeepsTests DEF DeletePOP
  <2>4. CASE RegisterWrite(c)
    BY <2>4, RepositoryKeepsTests DEF RegisterWrite
  <2>5. CASE Heartbeat(c)
    BY <2>5, RepositoryKeepsTests DEF Heartbeat
  <2>6. CASE DeleteAgent(c)
    BY <2>6, RepositoryKeepsTests DEF DeleteAgent
  <2>7. CASE ConfigSync(c)
    BY <2>7, RepositoryKeepsTests DEF ConfigSync
  <2> QED BY <2>1, <2>2, <2>3, <2>4, <2>5, <2>6, <2>7
<1>3. CASE Reject(c)
  BY <1>1, <1>3, RejectCalm
<1>4. ASSUME NEW r, NEW code, r.db.tests = db.tests, Finish(c, r, code) PROVE Calm
  <2>1. \A out \in Outcomes(r) : Commit(out) => RowsKept
    BY <1>4, RowsKeptBy
  <2> QED BY <1>1, <1>4, <2>1, FinishCalm
<1> QED BY <1>2, <1>3, <1>4

\* INSERT of a test, by a request that creates it.
LEMMA CreateTestCalm ==
    ASSUME IInv, NEW c \in Clients, CreateTest(c)
    PROVE  Calm
<1>1. want[c].op = "CreateTest" /\ UNCHANGED <<want, raced, existing>>
  BY DEF CreateTest, At, static, history
<1>2. CASE Reject(c)
  BY <1>1, <1>2, RejectCalm
<1>3. CASE ~Reject(c)
  <2> DEFINE r == TestRepoCreate(db, want[c].test, want[c].fields)
  <2>1. PICK out \in Outcomes(r) :
          /\ Commit(out)
          /\ IF out.err = "none"
             THEN Goto(c, "assign") /\ todo' = [todo EXCEPT ![c] = Assignments(c)]
             ELSE Answer(c, errorResponse(out.err)) /\ UNCHANGED todo
    BY <1>3 DEF CreateTest
  <2>2. db \in Database
    BY DEF IInv, StateOK
  <2>3. \A t \in Tests : t # want[c].test => r.db.tests[t] = db.tests[t]
    BY <2>2 DEF Database, TestRepoCreate, Done, Fail
  <2> HIDE DEF r
  <2>4. RowsKept
    BY <1>1, <2>1, <2>3 DEF Outcomes, Commit, Fail, RowsKept
  <2>5. Goto(c, "assign") \/ Answer(c, errorResponse(out.err))
    BY <2>1
  <2> QED BY <1>1, <2>4, <2>5, RequestCalm DEF Updates
<1> QED BY <1>2, <1>3

\* The other first statements: reads, and an update's copy is the row it read.
LEMMA FirstReadCalm ==
    ASSUME IInv, NEW c \in Clients, AssignTest(c) \/ RegisterRead(c) \/ UpdateRead(c)
    PROVE  Calm
<1>1. \A err : errorResponse(err) # 200
  BY ErrorCodes
<1>2. UNCHANGED <<want, raced>>
  BY DEF AssignTest, RegisterRead, UpdateRead, static, locals, history
<1>3. CASE AssignTest(c)
  <2>1. PICK out \in Outcomes(TestRepoGet(db, want[c].test)) :
        /\ Commit(out)
        /\ Answer(c, errorResponse(out.err)) \/ Answer(c, 400) \/ Goto(c, "assign")
    BY <1>3 DEF AssignTest
  <2>2. RowsKept /\ UNCHANGED existing
    BY <1>3, <2>1, RepositoryKeepsTests, RowsKeptBy DEF AssignTest
  <2> QED BY <1>1, <1>2, <2>1, <2>2, RequestCalm
<1>4. CASE RegisterRead(c)
  <2>1. ~Updates(c) /\ UNCHANGED existing
    BY <1>4 DEF RegisterRead, locals, At, Updates
  <2>2. CASE Reject(c)
    BY <1>2, <2>1, <2>2, RejectCalm
  <2>3. CASE ~Reject(c)
    <3>1. PICK out \in Outcomes(POPRepoGet(db, want[c].pop)) :
            Commit(out) /\ (Goto(c, "second") \/ Answer(c, errorResponse("InvalidInput")))
      BY <1>4, <2>3 DEF RegisterRead
    <3>2. RowsKept
      BY <3>1, RepositoryKeepsTests, RowsKeptBy
    <3> QED BY <1>2, <2>1, <3>1, <3>2, RequestCalm
  <2> QED BY <2>2, <2>3
<1>5. CASE UpdateRead(c)
  <2>1. PICK out \in Outcomes(TestRepoGet(db, want[c].test)) :
        /\ Commit(out)
        /\ \/ /\ out.err # "none"
              /\ Answer(c, errorResponse(out.err)) /\ UNCHANGED existing
           \/ /\ out.err = "none" /\ ~want[c].valid
              /\ Answer(c, 400) /\ UNCHANGED existing
           \/ /\ out.err = "none" /\ want[c].valid
              /\ Goto(c, "second")
              /\ existing' = [existing EXCEPT ![c] = db.tests[want[c].test]]
    BY <1>5 DEF UpdateRead
  <2>2. RowsKept
    BY <2>1, RepositoryKeepsTests, RowsKeptBy
  <2>3. CASE Answer(c, errorResponse(out.err)) /\ UNCHANGED existing
    BY <1>1, <1>2, <2>2, <2>3, RequestCalm
  <2>4. CASE Answer(c, 400) /\ UNCHANGED existing
    BY <1>2, <2>2, <2>4, RequestCalm
  <2>5. CASE /\ out.err = "none" /\ Goto(c, "second")
             /\ existing' = [existing EXCEPT ![c] = db.tests[want[c].test]]
    <3>1. DOMAIN pc = Clients /\ DOMAIN existing = Clients
      BY DEF IInv, StateOK
    <3>2. db.tests[want[c].test] # NoRow
      BY <2>1, <2>5 DEF Outcomes, TestRepoGet, Done, Fail
    <3>3. status' = status /\ pc' = [pc EXCEPT ![c] = "second"]
      BY <2>5 DEF Goto
    <3>4. ASSUME NEW b \in Clients, pc'[b] = "second"
          PROVE  \/ pc[b] = "second" /\ existing'[b] = existing[b]
                 \/ existing'[b] = db.tests[want[b].test] /\ existing'[b] # NoRow
      BY <2>5, <3>1, <3>2, <3>3, <3>4
    <3> QED BY <1>2, <2>2, <3>3, <3>4 DEF Calm
  <2> QED BY <2>1, <2>3, <2>4, <2>5
<1> QED BY <1>3, <1>4, <1>5

\* An update writes what it names and, of the rest, what it read.
LEMMA UpdateWriteKeeps ==
    ASSUME IInv, UpdatesOK, NEW c \in Clients, UpdateWrite(c)
    PROVE  UpdatesOK'
<1> DEFINE t == want[c].test
           row == Merge(existing[c], want[c].fields)
           r == TestRepoUpdate(db, t, row)
<1>1. /\ Updates(c) /\ pc[c] = "second" /\ want' = want /\ existing' = existing
      /\ At(c, "UpdateTest", "second")
      /\ raced' = raced \cup {<<c, d>> : d \in {e \in Clients \ {c} :
                                /\ At(e, "UpdateTest", "second")
                                /\ want[e].test = want[c].test}}
  BY DEF UpdateWrite, At, Updates, static, locals
<1>2. PICK out \in Outcomes(r) :
        Commit(out) /\ Answer(c, IF out.err = "none" THEN 200 ELSE errorResponse(out.err))
  BY DEF UpdateWrite, Finish
<1>3. /\ t \in Tests /\ existing[c] \in Row /\ want[c].fields \in Patch /\ db \in Database
      /\ DOMAIN pc = Clients /\ DOMAIN status = Clients
  BY <1>1, RequestFields DEF IInv, StateOK, Where, At
<1>4. /\ \A f \in DOMAIN want[c].fields : row[f] = want[c].fields[f]
      /\ \A f \in {"target", "enabled"} \ DOMAIN want[c].fields : row[f] = existing[c][f]
  BY <1>3 DEF Merge, Row, Patch
<1>5. /\ \A u \in Tests : u # t => r.db.tests[u] = db.tests[u]
      /\ r.db.tests[t] = db.tests[t] \/ r.db.tests[t] = row
      /\ r.err = "none" => r.db.tests[t] = row
  BY <1>3 DEF Database, TestRepoUpdate, Done, Fail
<1>6. out = r \/ (out.err = "fault" /\ (out.db = db \/ out.db = r.db))
  BY <1>2 DEF Outcomes, Fail
<1>7. db' = out.db /\ pc' = [pc EXCEPT ![c] = "done"]
      /\ status' = [status EXCEPT ![c] = IF out.err = "none" THEN 200 ELSE errorResponse(out.err)]
  BY <1>2 DEF Commit, Answer
<1> HIDE DEF r, row
<1>8. /\ \A u \in Tests : u # t => db'.tests[u] = db.tests[u]
      /\ db'.tests[t] = db.tests[t] \/ db'.tests[t] = row
      /\ out.err = "none" => db'.tests[t] = row
  BY <1>5, <1>6, <1>7
<1>9. errorResponse(out.err) # 200
  BY ErrorCodes
<1> SUFFICES ASSUME NEW b \in Clients, Updates(b), status'[b] = 200,
                    NEW f \in DOMAIN want[b].fields
             PROVE  Excused(b, f)' \/ Preserved(b, f)'
  BY <1>1 DEF UpdatesOK, Updates
<1>10. want[b].test \in Tests /\ f \in {"target", "enabled"}
  <2>1. want[b].test \in Tests /\ want[b].fields \in Patch
    BY RequestFields DEF IInv, StateOK, Updates
  <2> QED BY <2>1 DEF Patch, Row
<1>11. Excused(b, f) => Excused(b, f)'
  BY <1>1 DEF Excused
<1>12. CASE b = c
  <2>1. out.err = "none"
    BY <1>3, <1>7, <1>9, <1>12
  <2>2. CASE \E d \in Clients \ {c} : At(d, "UpdateTest", "second") /\ want[d].test = t
    BY <1>1, <1>12, <2>2 DEF Excused
  <2>3. CASE ~\E d \in Clients \ {c} : At(d, "UpdateTest", "second") /\ want[d].test = t
    <3>1. \A d \in Clients \ {c} : pc'[d] = pc[d]
      BY <1>3, <1>7
    <3>2. db'.tests[t][f] = want[c].fields[f]
      BY <1>4, <1>8, <1>12, <2>1
    <3> QED BY <1>1, <1>12, <2>3, <3>1, <3>2 DEF Preserved, At
  <2> QED BY <2>2, <2>3
<1>13. CASE b # c
  <2>1. status[b] = 200
    BY <1>3, <1>7, <1>13
  <2>2. CASE Excused(b, f)
    BY <1>11, <2>2
  <2>3. CASE ~Excused(b, f)
    <3>1. Preserved(b, f)
      BY <2>1, <2>3 DEF UpdatesOK
    <3>2. \A d \in Clients \ {b} : At(d, "UpdateTest", "second")' => At(d, "UpdateTest", "second")
      BY <1>1, <1>3, <1>7 DEF At
    <3>3. CASE want[b].test # t
      BY <1>1, <1>8, <1>10, <3>1, <3>2, <3>3 DEF Preserved
    <3>4. CASE want[b].test = t
      <4>1. f \notin DOMAIN want[c].fields
        BY <1>1, <1>13, <2>3, <3>4 DEF Excused, Updates
      <4>2. row[f] = want[b].fields[f]
        BY <1>1, <1>4, <1>10, <1>13, <3>1, <3>4, <4>1 DEF Preserved
      <4> QED BY <1>1, <1>8, <3>1, <3>2, <3>4, <4>2 DEF Preserved
    <3> QED BY <3>3, <3>4
  <2> QED BY <2>2, <2>3
<1> QED BY <1>12, <1>13

\* No step of a request, of an audit goroutine or of the process breaks the invariant.
LEMMA UpdatesNext == IInv /\ UpdatesOK /\ [Next]_vars => UpdatesOK'
<1> SUFFICES ASSUME IInv, UpdatesOK, [Next]_vars PROVE UpdatesOK'
  OBVIOUS
<1>1. ASSUME NEW c \in Clients, Accept(c) \/ APIKeyAuth(c) PROVE Calm
  <2>1. /\ UNCHANGED <<want, db, raced, existing>>
        /\ Goto(c, "auth") \/ Goto(c, "handler") \/ Answer(c, 429) \/ Answer(c, 401)
    BY <1>1 DEF Accept, APIKeyAuth, locals, history
  <2>2. RowsKept
    BY <2>1 DEF RowsKept
  <2> QED BY <2>1, <2>2, RequestCalm
<1>2. ASSUME NEW c \in Clients, Assigned(c) PROVE Calm
  <2>1. /\ UNCHANGED <<want, db, raced, existing>> /\ pc[c] = "assign"
        /\ \E code : Answer(c, code)
    BY <1>2 DEF Assigned, static, locals, history
  <2>2. RowsKept /\ ~Updates(c)
    BY <2>1 DEF RowsKept, IInv, Where, Updates
  <2> QED BY <2>1, <2>2, RequestCalm
<1>3. ASSUME NEW c \in Clients, Assign(c) PROVE Calm
  <2>1. UNCHANGED <<want, raced, existing, pc, status>>
    BY <1>3 DEF Assign, static
  <2>2. RowsKept
    BY <1>3, RepositoryKeepsTests, RowsKeptBy DEF Assign
  <2> QED BY <2>1, <2>2 DEF Calm
<1>4. ASSUME NEW c \in Clients, Serve(c), ~UpdateWrite(c) PROVE Calm
  BY <1>1, <1>2, <1>3, <1>4, DeleteTestCalm, OneStatementCalm, CreateTestCalm, FirstReadCalm
     DEF Serve
<1>5. CASE (\E e \in pending : Record(e)) \/ Shutdown \/ UNCHANGED vars
  <2>1. UNCHANGED <<want, db, pc, existing, status, raced>>
    BY <1>5 DEF Record, Shutdown, vars, locals, history
  <2>2. Calm
    BY <2>1 DEF Calm, RowsKept
  <2> QED BY <2>2, CalmKeeps
<1>6. CASE Exit \/ Crash
  <2>1. /\ UNCHANGED <<want, db, existing, status, raced>>
        /\ pc' = [c \in Clients |-> IF pc[c] \in InFlight THEN "dropped" ELSE pc[c]]
    BY <1>6 DEF Exit, Crash, End, locals
  <2>2. \A c \in Clients : pc'[c] # "second"
    BY <2>1 DEF InFlight
  <2>3. Calm
    BY <2>1, <2>2 DEF Calm, RowsKept
  <2> QED BY <2>3, CalmKeeps
<1>7. ASSUME NEW c \in Clients, Accept(c) \/ Serve(c) PROVE UpdatesOK'
  BY <1>1, <1>4, <1>7, CalmKeeps, UpdateWriteKeeps
<1> QED BY <1>5, <1>6, <1>7 DEF Next

\* Whatever else happens to a test's row, a field that an acknowledged update set keeps its
\* value, unless another request names the field, creates the test or had read the row
\* before: for any number of requests, faults and restarts.
THEOREM OnlyOverlapLosesUpdates == Spec => []LostUpdateNeedsOverlap
<1>1. Init => UpdatesOK
  BY DEF Init, UpdatesOK
<1>2. UpdatesOK => LostUpdateNeedsOverlap
  BY DEF UpdatesOK, LostUpdateNeedsOverlap, Updates, Excused, Preserved
<1> QED BY <1>1, <1>2, InitOK, NextOK, UpdatesNext, PTL DEF Spec
=============================================================================
