---------------------------- MODULE ControlPlane ----------------------------
(***************************************************************************)
(* The control plane (internal/server): REST handlers over PostgreSQL.     *)
(*                                                                         *)
(* Every request runs in a goroutine of its own through the rate limiter,  *)
(* the API-key check and the audit middleware into its handler.  A handler *)
(* is a sequence of single SQL statements without a transaction around     *)
(* them, so the statements of concurrent requests interleave.  A statement *)
(* is atomic; a repository method is an operator from the database to what *)
(* the statement returns and leaves.  Any statement may also fail, before  *)
(* or after it took effect: the connection or the request's context is     *)
(* gone.  The audit entry is written by a goroutine after the response,    *)
(* and the process may be stopped or crash at any point.                   *)
(***************************************************************************)
EXTENDS Integers, FiniteSets

CONSTANTS
    Clients,        \* one request each
    Tests, POPs, Agents,
    Targets,        \* values of a test's target, standing for its other fields too
    Global,         \* the NULL pop_name of an assignment to all POPs
    NoRow,
    InitialDB,      \* what the server finds when it starts
    Workloads,      \* the requests the clients may make
    MaxFaults,      \* bound: statements that fail
    MaxRestarts     \* bound: crashes and shutdowns

Row == [target : Targets, enabled : BOOLEAN]

\* UpdateTestRequest: the fields a request leaves out are left alone.
Patch == [target : Targets] \cup [enabled : BOOLEAN] \cup Row

AgentRow == [pop : POPs, status : {"online", "degraded"}]

\* The routes of the API.  valid is FALSE for a body that does not decode or that the
\* handler rejects before it uses the database for anything but reading.  Nobody checks
\* the names in a list of POPs: an empty one is stored as the NULL that Global stands for.
Requests ==
    [op : {"CreateTest"}, test : Tests, fields : Row, pops : SUBSET (POPs \cup {Global}),
     valid : BOOLEAN]
    \cup [op : {"UpdateTest"}, test : Tests, fields : Patch, valid : BOOLEAN]
    \cup [op : {"AssignTest"}, test : Tests, pops : SUBSET (POPs \cup {Global}), valid : BOOLEAN]
    \cup [op : {"GetTest", "DeleteTest"}, test : Tests]
    \cup [op : {"CreatePOP"}, pop : POPs, valid : BOOLEAN]
    \cup [op : {"DeletePOP"}, pop : POPs]
    \cup [op : {"ConfigSync"}, pop : POPs, valid : BOOLEAN]
    \cup [op : {"Register"}, agent : Agents, pop : POPs, valid : BOOLEAN]
    \cup [op : {"Heartbeat"}, agent : Agents, status : {"online", "degraded"}, valid : BOOLEAN]
    \cup [op : {"DeleteAgent"}, agent : Agents]

Database ==
    [pops : SUBSET POPs,
     agents : [Agents -> AgentRow \cup {NoRow}],
     tests : [Tests -> Row \cup {NoRow}],
     assigned : SUBSET (Tests \X (POPs \cup {Global}))]

\* The schema's foreign keys.
References(d) ==
    /\ \A a \in Agents : d.agents[a] # NoRow => d.agents[a].pop \in d.pops
    /\ \A x \in d.assigned : d.tests[x[1]] # NoRow /\ x[2] \in d.pops \cup {Global}

ASSUME ControlPlaneAssumption ==
    /\ Global \notin POPs
    /\ NoRow \notin Row \cup AgentRow
    /\ InitialDB \in Database /\ References(InitialDB)
    /\ Workloads \subseteq [Clients -> Requests]
    /\ MaxFaults \in Nat /\ MaxRestarts \in Nat

VARIABLES
    want,       \* each client's request
    db,         \* the tables
    server,     \* "up", or "draining" after a SIGTERM
    pc,         \* where each request is
    existing,   \* the row Update read
    todo,       \* POPs still to be assigned
    status,     \* the response, 0 before
    pending,    \* audit entries whose goroutine has not written them
    audit,      \* the audit_log table
    faults, restarts,
    \* history
    skipped,    \* assignments whose error was ignored
    raced,      \* <<c, d>>: d had read the row when c wrote it
    lost,       \* requests whose audit entry was lost
    granted,    \* assignments asked for since their test, and POP, was created
    overtaken   \* assignments still to be made when their test, or POP, was deleted

locals == <<existing, todo>>
history == <<skipped, raced, lost>>
given == <<granted, overtaken>>
vars == <<want, db, server, pc, locals, status, pending, audit, faults, restarts, history, given>>

InFlight == {"auth", "handler", "second", "assign"}

(***************************************************************************)
(* The repositories: one SQL statement each.                               *)
(***************************************************************************)

Done(d) == [err |-> "none", db |-> d]
Fail(d, err) == [err |-> err, db |-> d]

TestRepoCreate(d, t, row) ==
    IF d.tests[t] # NoRow THEN Fail(d, "AlreadyExists")
    ELSE Done([d EXCEPT !.tests[t] = row])

TestRepoGet(d, t) == IF d.tests[t] = NoRow THEN Fail(d, "NotFound") ELSE Done(d)

\* No row affected is ErrNotFound.
TestRepoUpdate(d, t, row) ==
    IF d.tests[t] = NoRow THEN Fail(d, "NotFound")
    ELSE Done([d EXCEPT !.tests[t] = row])

\* ON DELETE CASCADE takes the assignments along.
TestRepoDelete(d, t) ==
    IF d.tests[t] = NoRow THEN Fail(d, "NotFound")
    ELSE Done([d EXCEPT !.tests[t] = NoRow,
                        !.assigned = {x \in @ : x[1] # t}])

ListByPOP(d, p) ==
    {t \in Tests : /\ d.tests[t] # NoRow /\ d.tests[t].enabled
                   /\ <<t, p>> \in d.assigned \/ <<t, Global>> \in d.assigned}

\* ON CONFLICT DO NOTHING; both columns are foreign keys, Global is the NULL of one.
\* Repeated NULL rows are one member of the set: ListByPOP is DISTINCT.
AssignmentRepoAssign(d, t, p) ==
    IF d.tests[t] = NoRow \/ p \notin d.pops \cup {Global} THEN Fail(d, "ForeignKey")
    ELSE Done([d EXCEPT !.assigned = @ \cup {<<t, p>>}])

POPRepoCreate(d, p) ==
    IF p \in d.pops THEN Fail(d, "AlreadyExists") ELSE Done([d EXCEPT !.pops = @ \cup {p}])

POPRepoGet(d, p) == IF p \notin d.pops THEN Fail(d, "NotFound") ELSE Done(d)

\* Regression: the assignments of a deleted POP are set to NULL, which is all POPs.
POPRepoDeleteSetNull(d, p) ==
    CASE p \notin d.pops -> Fail(d, "NotFound")
      [] \E a \in Agents : d.agents[a] # NoRow /\ d.agents[a].pop = p -> Fail(d, "ForeignKey")
      [] OTHER -> Done([d EXCEPT !.pops = @ \ {p},
                                 !.assigned = {<<x[1], IF x[2] = p THEN Global ELSE x[2]>> : x \in @}])

\* agents.pop_name does not cascade; the assignments' does.
POPRepoDelete(d, p) ==
    CASE p \notin d.pops -> Fail(d, "NotFound")
      [] \E a \in Agents : d.agents[a] # NoRow /\ d.agents[a].pop = p -> Fail(d, "ForeignKey")
      [] OTHER -> Done([d EXCEPT !.pops = @ \ {p},
                                 !.assigned = {x \in @ : x[2] # p}])

\* Regression: the table has no foreign key, the handler's check is all there is.
AgentRepoCreateUnchecked(d, a, row) ==
    IF d.agents[a] # NoRow THEN Fail(d, "AlreadyExists")
    ELSE Done([d EXCEPT !.agents[a] = row])

\* The key is checked when the row goes in, the foreign key at the statement's end.
AgentRepoCreate(d, a, row) ==
    CASE d.agents[a] # NoRow -> Fail(d, "AlreadyExists")
      [] d.agents[a] = NoRow /\ row.pop \notin d.pops -> Fail(d, "ForeignKey")
      [] OTHER -> Done([d EXCEPT !.agents[a] = row])

UpdateHeartbeat(d, a, s) ==
    IF d.agents[a] = NoRow THEN Fail(d, "NotFound")
    ELSE Done([d EXCEPT !.agents[a].status = s])

AgentRepoDelete(d, a) ==
    IF d.agents[a] = NoRow THEN Fail(d, "NotFound")
    ELSE Done([d EXCEPT !.agents[a] = NoRow])

\* What running a statement may come to: its result, or an error with or without its
\* effect.
Outcomes(result) ==
    {result} \cup (IF faults < MaxFaults THEN {Fail(db, "fault"), Fail(result.db, "fault")} ELSE {})

Commit(out) ==
    /\ db' = out.db
    /\ faults' = faults + (IF out.err = "fault" THEN 1 ELSE 0)

(***************************************************************************)
(* The middleware.                                                         *)
(***************************************************************************)

errorResponse(err) ==
    CASE err = "NotFound" -> 404
      [] err = "AlreadyExists" -> 409
      [] err = "InvalidInput" -> 400
      [] OTHER -> 500

\* POST, PUT and DELETE; GET is not audited.
isMutation(op) == op \notin {"GetTest", "ConfigSync"}

methodToAction(op) ==
    CASE op = "UpdateTest" -> "update"
      [] op \in {"DeleteTest", "DeletePOP", "DeleteAgent"} -> "delete"
      [] OTHER -> "create"

extractResource(op) ==
    CASE op \in {"CreateTest", "UpdateTest", "DeleteTest"} -> "tests"
      [] op = "AssignTest" -> "tests.assign"
      [] op \in {"CreatePOP", "DeletePOP"} -> "pops"
      [] op \in {"Register", "DeleteAgent"} -> "agents"
      [] op = "Heartbeat" -> "agents.heartbeat"

\* Regression: the status is not looked at.
AuditedAlways(op, code) == isMutation(op)

\* Regression: only 200 counts as success.
AuditedIf200(op, code) == isMutation(op) /\ code = 200

Audited(op, code) == isMutation(op) /\ code >= 200 /\ code < 400

\* The entry AuditLogger hands to its goroutine.
AuditEntry(c) ==
    [by |-> c, action |-> methodToAction(want[c].op), resource |-> extractResource(want[c].op)]

\* The response is written and AuditLogger, back from the handler, starts the goroutine
\* that will record it.
Answer(c, code) ==
    /\ pc' = [pc EXCEPT ![c] = "done"]
    /\ status' = [status EXCEPT ![c] = code]
    /\ pending' = pending \cup (IF Audited(want[c].op, code) THEN {AuditEntry(c)} ELSE {})

\* The request goes on.
Goto(c, place) ==
    /\ pc' = [pc EXCEPT ![c] = place]
    /\ UNCHANGED <<status, pending>>

\* RateLimiter.Middleware: 429 or on.  How the bucket decides is not modelled.
Accept(c) ==
    /\ server = "up" /\ pc[c] = "idle"
    /\ Goto(c, "auth") \/ Answer(c, 429)
    /\ UNCHANGED <<want, db, server, locals, audit, faults, restarts, history, given>>

\* APIKeyAuth: a key that is missing, unknown or expired, or that could not be looked up.
APIKeyAuth(c) ==
    /\ pc[c] = "auth"
    /\ Goto(c, "handler") \/ Answer(c, 401)
    /\ UNCHANGED <<want, db, server, locals, audit, faults, restarts, history, given>>

(***************************************************************************)
(* The handlers.                                                           *)
(***************************************************************************)

At(c, op, place) == pc[c] = place /\ want[c].op = op

\* A statement whose result is the response.
Finish(c, result, code) ==
    \E out \in Outcomes(result) :
        /\ Commit(out)
        /\ Answer(c, IF out.err = "none" THEN code ELSE errorResponse(out.err))

\* readJSON or a check of the request's fields fails, or ConfigSync is not told the POP:
\* 400.
Reject(c) == ~want[c].valid /\ Answer(c, 400) /\ UNCHANGED <<db, faults>>

static == <<want, server, audit, restarts>>

\* An empty list of POPs is the global assignment.
Assignments(c) == IF want[c].pops = {} THEN {Global} ELSE want[c].pops

\* The request's assignments are asked for, if it goes on.
Grant(c, out) ==
    /\ granted' = IF out.err = "none" /\ want[c].valid
                  THEN granted \cup ({want[c].test} \X Assignments(c)) ELSE granted
    /\ UNCHANGED overtaken

\* What requests in their loop still have to assign.
UnderWay == UNION {{want[c].test} \X todo[c] : c \in {d \in Clients : pc[d] = "assign"}}

\* The statement took the test or the POP of an assignment away.
Gone(x) ==
    \/ db.tests[x[1]] # NoRow /\ db'.tests[x[1]] = NoRow
    \/ x[2] \in db.pops \ db'.pops

\* Nobody has asked for the assignments that go with it, if there is one like it again;
\* but requests under way may still make theirs.
Revoke ==
    /\ granted' = {x \in granted : ~Gone(x)}
    /\ overtaken' = {x \in overtaken : ~Gone(x)} \cup {x \in UnderWay : Gone(x)}

CreateTest(c) ==
    /\ At(c, "CreateTest", "handler")
    /\ \/ Reject(c) /\ UNCHANGED <<todo, given>>
       \/ /\ want[c].valid
          /\ \E out \in Outcomes(TestRepoCreate(db, want[c].test, want[c].fields)) :
                /\ Commit(out)
                /\ Grant(c, out)
                /\ IF out.err = "none"
                   THEN Goto(c, "assign") /\ todo' = [todo EXCEPT ![c] = Assignments(c)]
                   ELSE Answer(c, errorResponse(out.err)) /\ UNCHANGED todo
    /\ UNCHANGED <<static, existing, history>>

\* Assign looks the test up before it reads the body.
AssignTest(c) ==
    /\ At(c, "AssignTest", "handler")
    /\ \E out \in Outcomes(TestRepoGet(db, want[c].test)) :
        /\ Commit(out)
        /\ Grant(c, out)
        /\ \/ /\ out.err # "none"
              /\ Answer(c, errorResponse(out.err)) /\ UNCHANGED todo
           \/ /\ out.err = "none" /\ ~want[c].valid
              /\ Answer(c, 400) /\ UNCHANGED todo
           \/ /\ out.err = "none" /\ want[c].valid
              /\ Goto(c, "assign") /\ todo' = [todo EXCEPT ![c] = Assignments(c)]
    /\ UNCHANGED <<static, existing, history>>

\* Regression: what cannot be assigned to its POP is assigned to all.
AssignFallingBack(c) ==
    /\ pc[c] = "assign"
    /\ \E p \in todo[c] : \E out \in Outcomes(AssignmentRepoAssign(db, want[c].test, p)) :
        /\ Commit(IF out.err = "ForeignKey"
                  THEN AssignmentRepoAssign(out.db, want[c].test, Global) ELSE out)
        /\ todo' = [todo EXCEPT ![c] = @ \ {p}]
        /\ skipped' = IF out.err = "none" THEN skipped ELSE skipped \cup {<<c, p>>}
    /\ UNCHANGED <<static, pc, status, pending, existing, raced, lost, given>>

\* Regression: the loop ends at the first error.
AssignUntilError(c) ==
    /\ pc[c] = "assign"
    /\ \E p \in todo[c] : \E out \in Outcomes(AssignmentRepoAssign(db, want[c].test, p)) :
        /\ Commit(out)
        /\ todo' = [todo EXCEPT ![c] = IF out.err = "none" THEN @ \ {p} ELSE {}]
        /\ skipped' = IF out.err = "none" THEN skipped ELSE skipped \cup {<<c, p>>}
    /\ UNCHANGED <<static, pc, status, pending, existing, raced, lost, given>>

\* One round of the loop over the POPs; its error is ignored.  The order is that of
\* the request's list, which can be any.
Assign(c) ==
    /\ pc[c] = "assign"
    /\ \E p \in todo[c] : \E out \in Outcomes(AssignmentRepoAssign(db, want[c].test, p)) :
        /\ Commit(out)
        /\ todo' = [todo EXCEPT ![c] = @ \ {p}]
        /\ skipped' = IF out.err = "none" THEN skipped ELSE skipped \cup {<<c, p>>}
    /\ UNCHANGED <<static, pc, status, pending, existing, raced, lost, given>>

Assigned(c) ==
    /\ pc[c] = "assign" /\ todo[c] = {}
    /\ Answer(c, IF want[c].op = "CreateTest" THEN 201 ELSE 200)
    /\ UNCHANGED <<static, db, faults, locals, history, given>>

\* Update reads the row ...
UpdateRead(c) ==
    /\ At(c, "UpdateTest", "handler")
    /\ \E out \in Outcomes(TestRepoGet(db, want[c].test)) :
        /\ Commit(out)
        /\ \/ /\ out.err # "none"
              /\ Answer(c, errorResponse(out.err)) /\ UNCHANGED existing
           \/ /\ out.err = "none" /\ ~want[c].valid
              /\ Answer(c, 400) /\ UNCHANGED existing
           \/ /\ out.err = "none" /\ want[c].valid
              /\ Goto(c, "second")
              /\ existing' = [existing EXCEPT ![c] = db.tests[want[c].test]]
    /\ UNCHANGED <<static, todo, history, given>>

\* Regression: a field the request leaves out is set to its zero value.
MergeZeroing(row, patch) ==
    [row EXCEPT !.target = IF "target" \in DOMAIN patch THEN patch.target ELSE @,
                !.enabled = "enabled" \in DOMAIN patch /\ patch.enabled]

Merge(row, patch) ==
    [f \in DOMAIN row |-> IF f \in DOMAIN patch THEN patch[f] ELSE row[f]]

\* ... merges the request into it and writes all of it back.
UpdateWrite(c) ==
    /\ At(c, "UpdateTest", "second")
    /\ Finish(c, TestRepoUpdate(db, want[c].test, Merge(existing[c], want[c].fields)), 200)
    /\ raced' = raced \cup {<<c, d>> : d \in {e \in Clients \ {c} :
                                /\ At(e, "UpdateTest", "second")
                                /\ want[e].test = want[c].test}}
    /\ UNCHANGED <<static, locals, skipped, lost, given>>

DeleteTest(c) ==
    /\ At(c, "DeleteTest", "handler")
    /\ Finish(c, TestRepoDelete(db, want[c].test), 204)
    /\ Revoke
    /\ UNCHANGED <<static, locals, history>>

\* The reads of tests, agents and POPs: a row or 404.
GetTest(c) ==
    /\ At(c, "GetTest", "handler")
    /\ Finish(c, TestRepoGet(db, want[c].test), 200)
    /\ UNCHANGED <<static, locals, history, given>>

\* A single read, whose answer is ListByPOP(db, want[c].pop).
ConfigSync(c) ==
    /\ At(c, "ConfigSync", "handler")
    /\ Reject(c) \/ (want[c].valid /\ Finish(c, Done(db), 200))
    /\ UNCHANGED <<static, locals, history, given>>

CreatePOP(c) ==
    /\ At(c, "CreatePOP", "handler")
    /\ Reject(c) \/ (want[c].valid /\ Finish(c, POPRepoCreate(db, want[c].pop), 201))
    /\ UNCHANGED <<static, locals, history, given>>

DeletePOP(c) ==
    /\ At(c, "DeletePOP", "handler")
    /\ Finish(c, POPRepoDelete(db, want[c].pop), 204)
    /\ Revoke
    /\ UNCHANGED <<static, locals, history>>

\* Register checks that the POP exists (any error of the lookup is a 400) ...
RegisterRead(c) ==
    /\ At(c, "Register", "handler")
    /\ \/ Reject(c)
       \/ /\ want[c].valid
          /\ \E out \in Outcomes(POPRepoGet(db, want[c].pop)) :
                /\ Commit(out)
                /\ IF out.err = "none" THEN Goto(c, "second")
                   ELSE Answer(c, errorResponse("InvalidInput"))
    /\ UNCHANGED <<static, locals, history, given>>

\* ... and inserts the agent.
RegisterWrite(c) ==
    /\ At(c, "Register", "second")
    /\ Finish(c, AgentRepoCreate(db, want[c].agent,
                                 [pop |-> want[c].pop, status |-> "online"]), 201)
    /\ UNCHANGED <<static, locals, history, given>>

Heartbeat(c) ==
    /\ At(c, "Heartbeat", "handler")
    /\ \/ Reject(c)
       \/ want[c].valid /\ Finish(c, UpdateHeartbeat(db, want[c].agent, want[c].status), 200)
    /\ UNCHANGED <<static, locals, history, given>>

DeleteAgent(c) ==
    /\ At(c, "DeleteAgent", "handler")
    /\ Finish(c, AgentRepoDelete(db, want[c].agent), 204)
    /\ UNCHANGED <<static, locals, history, given>>

\* The goroutine of an audit entry; an error is logged and the entry is gone.
Record(e) ==
    /\ e \in pending
    /\ pending' = pending \ {e}
    /\ \/ audit' = audit \cup {e} /\ UNCHANGED <<faults, lost>>
       \/ /\ faults < MaxFaults /\ faults' = faults + 1
          /\ lost' = lost \cup {e.by} /\ UNCHANGED audit
    /\ UNCHANGED <<want, db, server, pc, locals, status, restarts, skipped, raced, given>>

(***************************************************************************)
(* The process.                                                            *)
(***************************************************************************)

\* SIGTERM: Shutdown stops accepting and waits, for 10 s at most, for the requests in
\* flight, not for the audit goroutines.
Shutdown ==
    /\ server = "up" /\ restarts < MaxRestarts
    /\ server' = "draining"
    /\ restarts' = restarts + 1
    /\ UNCHANGED <<want, db, pc, locals, status, pending, audit, faults, history, given>>

\* The process ends with all it has in memory and is started again.
End ==
    /\ server' = "up"
    /\ pc' = [c \in Clients |-> IF pc[c] \in InFlight THEN "dropped" ELSE pc[c]]
    /\ pending' = {}
    /\ lost' = lost \cup {e.by : e \in pending}
    /\ UNCHANGED <<want, db, locals, status, audit, faults, skipped, raced, given>>

Exit == server = "draining" /\ End /\ UNCHANGED restarts

Crash == restarts < MaxRestarts /\ End /\ restarts' = restarts + 1

Init ==
    /\ want \in Workloads
    /\ db = InitialDB
    /\ server = "up"
    /\ pc = [c \in Clients |-> "idle"]
    /\ existing = [c \in Clients |-> NoRow]
    /\ todo = [c \in Clients |-> {}]
    /\ status = [c \in Clients |-> 0]
    /\ pending = {} /\ audit = {}
    /\ faults = 0 /\ restarts = 0
    /\ skipped = {} /\ raced = {} /\ lost = {}
    /\ granted = InitialDB.assigned /\ overtaken = {}

\* A step of the goroutine that serves c's request.
Serve(c) ==
    \/ APIKeyAuth(c)
    \/ CreateTest(c) \/ AssignTest(c) \/ Assign(c) \/ Assigned(c)
    \/ UpdateRead(c) \/ UpdateWrite(c) \/ DeleteTest(c) \/ GetTest(c)
    \/ CreatePOP(c) \/ DeletePOP(c) \/ ConfigSync(c)
    \/ RegisterRead(c) \/ RegisterWrite(c) \/ Heartbeat(c) \/ DeleteAgent(c)

Next ==
    \/ \E c \in Clients : Accept(c) \/ Serve(c)
    \/ \E e \in pending : Record(e)
    \/ Shutdown \/ Exit \/ Crash

Spec == Init /\ [][Next]_vars

\* A request's goroutine and an audit goroutine run on: every statement returns.
Fairness ==
    \A c \in Clients :
        WF_vars(Serve(c)) /\ WF_vars(\E e \in pending : e.by = c /\ Record(e))

FairSpec == Spec /\ Fairness

(***************************************************************************)
(* Properties.                                                             *)
(***************************************************************************)

StateOK ==
    /\ want \in [Clients -> Requests]
    /\ db \in Database
    /\ server \in {"up", "draining"}
    /\ pc \in [Clients -> InFlight \cup {"idle", "done", "dropped"}]
    /\ existing \in [Clients -> Row \cup {NoRow}]
    /\ todo \in [Clients -> SUBSET (POPs \cup {Global})]
    /\ status \in [Clients -> {0, 200, 201, 204, 400, 401, 404, 409, 429, 500}]
    /\ {e.by : e \in pending \cup audit} \subseteq Clients
    /\ faults \in 0 .. MaxFaults /\ restarts \in 0 .. MaxRestarts
    /\ skipped \subseteq Clients \X (POPs \cup {Global})
    /\ raced \subseteq Clients \X Clients /\ lost \subseteq Clients

TypeOK == StateOK /\ granted \cup overtaken \subseteq Tests \X (POPs \cup {Global})

\* Register looks the POP up in one statement and inserts the agent in another, Create
\* and Assign insert assignments of a test they saw earlier: whatever was deleted in
\* between, an agent's POP exists and so do an assignment's test and POP.
ReferencesExist == References(db)

\* Update writes the whole row back, so it may undo a concurrent update.  That is all it
\* may undo: a field that an acknowledged update set keeps its value unless another
\* request names the field or creates the test anew, or had read the row before.
LostUpdateNeedsOverlap ==
    \A c \in Clients : LET t == want[c].test IN
        (want[c].op = "UpdateTest" /\ status[c] = 200 /\ db.tests[t] # NoRow) =>
            \A f \in DOMAIN want[c].fields :
                \/ db.tests[t][f] = want[c].fields[f]
                \/ \E d \in Clients \ {c} :
                    \/ <<c, d>> \in raced
                    \/ want[d].op = "CreateTest" /\ want[d].test = t
                    \/ /\ want[d].op = "UpdateTest" /\ want[d].test = t
                       /\ f \in DOMAIN want[d].fields

\* A config sync, whenever it comes, sends a POP only tests that somebody assigned to it
\* or to all POPs since that test was created, and the POP if it is named: a failing
\* assignment never widens where a test runs, and assignments do not outlive the test
\* or the POP they were made for.  The exception is a request that was still assigning
\* when the one or the other was deleted and created again.
ServedOnlyAsAssigned ==
    \A p \in POPs : \A t \in ListByPOP(db, p) :
        {<<t, p>>, <<t, Global>>} \cap (granted \cup overtaken) # {}

\* Create and Assign ignore the error of each assignment.  When they answer success every
\* POP of the request was at least tried: it has the test, or its own statement failed,
\* or the test or the POP was deleted.
OneFailureStopsNoOther ==
    \A c \in Clients :
        (want[c].op \in {"CreateTest", "AssignTest"} /\ status[c] \in {200, 201}) =>
            \A p \in Assignments(c) :
                \/ <<want[c].test, p>> \in db.assigned
                \/ <<c, p>> \in skipped
                \/ \E d \in Clients :
                    \/ want[d].op = "DeleteTest" /\ want[d].test = want[c].test
                    \/ want[d].op = "DeletePOP" /\ want[d].pop = p

\* The audit log has no entry for a request that was refused, that failed or that was cut
\* off, and none for a read.
AuditedOnlyAcknowledged ==
    \A e \in audit : /\ pc[e.by] = "done" /\ status[e.by] \in 200 .. 399
                     /\ want[e.by].op \notin {"GetTest", "ConfigSync"}

\* Every request that passed the limiter is answered, and every mutation answered with
\* success reaches the audit log, unless the process ends first or the database refuses
\* the entry.
EveryRequestSettles ==
    \A c \in Clients :
        pc[c] = "auth" ~>
            \/ pc[c] = "dropped"
            \/ /\ pc[c] = "done"
               /\ (status[c] \in 200 .. 399 /\ want[c].op \notin {"GetTest", "ConfigSync"}) =>
                    c \in lost \/ \E e \in audit : e.by = c
=============================================================================
