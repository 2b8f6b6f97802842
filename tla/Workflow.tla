------------------------------- MODULE Workflow -------------------------------
(***************************************************************************)
(* Workflow instances: rows with a state and a version, created and moved  *)
(* by concurrent API requests.  A transition reads the row twice (in the   *)
(* handler, for the answer, and in the service) and writes it only if the  *)
(* version it read still stands.  PostgreSQL and MongoDB behave alike.     *)
(***************************************************************************)
EXTENDS Integers, FiniteSets

CONSTANTS WorkflowID, Tenant, WorkflowType,
          WfRequest,        \* API requests in progress
          MaxWfCalls        \* bound: handler calls

VARIABLES
    instances,    \* per workflow id: {} or {row}
    wfCall,       \* per request: its step, input, and the row it read
    wfCalls,      \* handler calls so far (the bound)
    answeredOk    \* history: transitions answered "ok", per workflow id

wfVars == <<instances, wfCall, wfCalls, answeredOk>>

Status == {"pending", "running", "paused", "completed", "failed"}

\* Create does not check the state a client asks for: "other" is any such.
AnyState == Status \cup {"other"}

\* What a create request may store; the service sets the version.
NewInstance == [tenant : Tenant, type : WorkflowType, state : AnyState, version : {1},
                revision : {0, 1}, completed : BOOLEAN]

CanTransition(from, to) ==
    to \in CASE from = "pending" -> {"running", "failed"}
             [] from = "running" -> {"completed", "failed", "paused"}
             [] from = "paused"  -> {"running", "failed"}
             [] OTHER            -> {}

NoCall == [step |-> "idle", id |-> CHOOSE w \in WorkflowID : TRUE,
           tenant |-> CHOOSE t \in Tenant : TRUE, from |-> "", to |-> "other", seen |-> {}]

WfInit ==
    /\ instances = [w \in WorkflowID |-> {}]
    /\ wfCall = [r \in WfRequest |-> NoCall]
    /\ wfCalls = 0
    /\ answeredOk = [w \in WorkflowID |-> 0]

Call == wfCalls < MaxWfCalls /\ wfCalls' = wfCalls + 1

\* A second create with the same id changes nothing: it succeeds for the same
\* tenant and type, and is a conflict otherwise.
SaveInstance(w, row) == IF instances[w] = {} THEN [instances EXCEPT ![w] = {row}] ELSE instances

\* POST /v1/workflows.
Create(w, row) ==
    /\ Call
    /\ instances' = SaveInstance(w, row)
    /\ UNCHANGED <<wfCall, answeredOk>>

\* The row a tenant sees.
GetInstance(t, w) == {row \in instances[w] : row.tenant = t}

WfReturn(r) == wfCall' = [wfCall EXCEPT ![r] = NoCall]

\* The handler's read: 404 without a row, 409 if from_state is not its state.
TransitionWorkflow(r, t, w, from, to) ==
    /\ wfCall[r].step = "idle" /\ Call
    /\ IF \E row \in GetInstance(t, w) : from \in {"", row.state}
       THEN wfCall' = [wfCall EXCEPT ![r] = [step |-> "read", id |-> w, tenant |-> t,
                                             from |-> from, to |-> to, seen |-> {}]]
       ELSE UNCHANGED wfCall
    /\ UNCHANGED <<instances, answeredOk>>

\* The service's read, with the same checks again and the state graph.
ReadForTransition(r) ==
    LET c == wfCall[r]
        rows == GetInstance(c.tenant, c.id) IN
    /\ c.step = "read"
    /\ IF \E row \in rows : c.from \in {"", row.state} /\ CanTransition(row.state, c.to)
       THEN wfCall' = [wfCall EXCEPT ![r].step = "write", ![r].seen = rows]
       ELSE WfReturn(r)
    /\ UNCHANGED <<instances, wfCalls, answeredOk>>

\* Without from_state the handler calls UpdateState with revision 0.
Transitioned(row, from, to) ==
    [row EXCEPT !.state = to, !.version = @ + 1,
                !.revision = IF from = "" THEN 0 ELSE @,
                !.completed = @ \/ to \in {"completed", "failed"}]

\* A mistake: the update does not compare the version.
UpdateAlways(r) ==
    LET c == wfCall[r]
        seen == CHOOSE row \in c.seen : TRUE IN
    /\ c.step = "write"
    /\ instances' = [instances EXCEPT ![c.id] = {Transitioned(seen, c.from, c.to)}]
    /\ answeredOk' = [answeredOk EXCEPT ![c.id] = @ + 1]
    /\ WfReturn(r) /\ UNCHANGED wfCalls

\* Update: the row is written if its version is the one read, or the request
\* is answered with a conflict.
Update(r) ==
    LET c == wfCall[r]
        seen == CHOOSE row \in c.seen : TRUE IN
    /\ c.step = "write"
    /\ IF \E row \in GetInstance(c.tenant, c.id) : row.version = seen.version
       THEN /\ instances' = [instances EXCEPT ![c.id] = {Transitioned(seen, c.from, c.to)}]
            /\ answeredOk' = [answeredOk EXCEPT ![c.id] = @ + 1]
       ELSE UNCHANGED <<instances, answeredOk>>
    /\ WfReturn(r) /\ UNCHANGED wfCalls

WfNext ==
    \/ \E w \in WorkflowID, row \in NewInstance : Create(w, row)
    \/ \E r \in WfRequest, t \in Tenant, w \in WorkflowID, from \in AnyState \cup {""},
          to \in AnyState : TransitionWorkflow(r, t, w, from, to)
    \/ \E r \in WfRequest : ReadForTransition(r) \/ Update(r)

WfSpec == WfInit /\ [][WfNext]_wfVars

-----------------------------------------------------------------------------
\* A stored workflow moves only along the state graph, one version at a time:
\* terminal states are final and tenant and type never change, however the
\* reads and writes of concurrent requests interleave.
GraphStep ==
    \A w \in WorkflowID : \A old \in instances[w] : \A new \in instances'[w] :
        new # old => /\ CanTransition(old.state, new.state)
                     /\ new.version = old.version + 1
                     /\ new.tenant = old.tenant /\ new.type = old.type

WorkflowFollowsGraph == [][GraphStep]_wfVars

\* Every transition answered "ok" is in the row: no two requests that read the
\* same version are both told they succeeded.
NoLostTransition ==
    \A w \in WorkflowID : \A row \in instances[w] : row.version = 1 + answeredOk[w]
=============================================================================
