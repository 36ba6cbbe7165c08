--------------------------- MODULE MCControlPlane ---------------------------
EXTENDS ControlPlane, Sequences

CONSTANTS t1, t2, p1, p2, a1, c1, c2, c3

MCInitialDB ==
    [pops |-> {p1},
     agents |-> [a \in Agents |-> NoRow],
     tests |-> [t \in Tests |-> IF t = t1 THEN [target |-> 1, enabled |-> TRUE] ELSE NoRow],
     assigned |-> {<<t1, p1>>}]

Create(t, pops, ok) ==
    [op |-> "CreateTest", test |-> t, fields |-> [target |-> 1, enabled |-> TRUE],
     pops |-> pops, valid |-> ok]
Retarget(ok) == [op |-> "UpdateTest", test |-> t1, fields |-> [target |-> 2], valid |-> ok]
Switch(on) == [op |-> "UpdateTest", test |-> t1, fields |-> [enabled |-> on], valid |-> TRUE]
AssignAll(t, pops, ok) == [op |-> "AssignTest", test |-> t, pops |-> pops, valid |-> ok]
OnTest(o, t) == [op |-> o, test |-> t]
RemovePOP(p) == [op |-> "DeletePOP", pop |-> p]
Sync(p, ok) == [op |-> "ConfigSync", pop |-> p, valid |-> ok]
AddPOP(p, ok) == [op |-> "CreatePOP", pop |-> p, valid |-> ok]
RegisterAt(p, ok) == [op |-> "Register", agent |-> a1, pop |-> p, valid |-> ok]
Beat(ok) == [op |-> "Heartbeat", agent |-> a1, status |-> "degraded", valid |-> ok]
RemoveAgent == [op |-> "DeleteAgent", agent |-> a1]

\* Triples of requests that meet on the same rows.
Triples == {
    <<Retarget(TRUE), Switch(FALSE), Sync(p1, TRUE)>>,
    <<Retarget(TRUE), Switch(TRUE), OnTest("GetTest", t1)>>,
    <<Retarget(TRUE), OnTest("DeleteTest", t1), Create(t1, {}, TRUE)>>,
    <<Retarget(FALSE), AssignAll(t1, {}, FALSE), Create(t2, {}, FALSE)>>,
    <<Create(t2, {p1}, TRUE), Switch(FALSE), Sync(p1, FALSE)>>,
    <<Create(t2, {p1, p2}, TRUE), AddPOP(p2, TRUE), Sync(p1, TRUE)>>,
    <<Create(t2, {p2}, TRUE), Sync(p1, TRUE), OnTest("GetTest", t2)>>,
    <<Create(t2, {p1}, TRUE), RemovePOP(p1), Sync(p1, TRUE)>>,
    <<AssignAll(t1, {p1, p2}, TRUE), OnTest("DeleteTest", t1), Create(t1, {p2}, TRUE)>>,
    <<AssignAll(t1, {Global, p1}, TRUE), RemovePOP(p1), AddPOP(p1, TRUE)>>,
    <<OnTest("DeleteTest", t1), Create(t1, {p2}, TRUE), Sync(p1, TRUE)>>,
    <<RegisterAt(p1, TRUE), RemovePOP(p1), AddPOP(p1, TRUE)>>,
    <<RegisterAt(p1, TRUE), Beat(TRUE), RemoveAgent>>,
    <<RegisterAt(p1, TRUE), RegisterAt(p2, TRUE), AddPOP(p2, TRUE)>>,
    <<RegisterAt(p1, FALSE), Beat(FALSE), AddPOP(p2, FALSE)>>}

MCWorkloads ==
    {[c \in Clients |-> x[IF c = c1 THEN 1 ELSE IF c = c2 THEN 2 ELSE 3]] : x \in Triples}
=============================================================================
