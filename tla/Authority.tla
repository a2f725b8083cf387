------------------------------ MODULE Authority ------------------------------
(***************************************************************************)
(* The control plane of a company: service agents, the authority edges     *)
(* between them, the routing of a request to an agent, and the delegation  *)
(* that turns a routed request into a work item.  Every call reads first   *)
(* and writes later; a request may be retried while its first call runs.   *)
(***************************************************************************)
EXTENDS Integers, FiniteSets

CONSTANTS
  Agent, NoAgent,
  Boss,        \* the agent that requests delegations
  Caller,      \* calls of delegate in progress
  Request,     \* idempotency keys of delegations
  Wanted,      \* [Request -> SUBSET Agent]: who fits role, capability, department
  Offered,     \* the edges people set
  Hierarchy,   \* the agent definitions of Git: a set of [Agent -> Agent or NoAgent or "absent"]
  MaxPending   \* bound: writes of the agents and of the edges in flight

VARIABLES
  service,    \* status of the service agent
  managed,    \* the service agents the definitions made
  intent,     \* writes of a status between the read that allows them and the write
  edge,       \* rows of authority_edges
  route,      \* rows of routing_decisions, by idempotency key
  delegation, \* rows of delegations, by idempotency key
  work,       \* the assignee of the work item created for a key
  escalation, \* escalations of requests that could not be routed
  caller,     \* where a call of delegate stands
  setter,     \* the calls of setAuthorityEdge between their read and their insert
  reconciler  \* the reconciliation of the definitions in progress

agents == <<service, managed, intent>>
requests == <<route, delegation, work, escalation, caller>>
edges == <<edge, setter>>
vars == <<agents, edges, requests, reconciler>>

ServiceStatus == {"none", "active", "paused", "stale", "retired"}
Command == {"reports_to", "manages"}
Relation == Command \union {"may_delegate_to", "must_escalate_to"}
Edge == {e \in [from : Agent, to : Agent, relation : Relation] : e.from # e.to}
NoRoute == [status |-> "none", agent |-> NoAgent]
NoDelegation == [status |-> "none", agent |-> NoAgent]
CallerPC == {"idle", "find", "look", "choose", "escalate", "persist", "create", "record"}
AtRest == [pc |-> "idle", request |-> CHOOSE r \in Request : TRUE, seen |-> NoRoute]
Nothing == [phase |-> "idle", tree |-> [a \in Agent |-> "absent"], left |-> {}]

RouteStatus == {"none", "routed", "rejected", "escalated"}

TypeOK ==
  /\ service \in [Agent -> ServiceStatus] /\ managed \subseteq Agent
  /\ intent \subseteq [agent : Agent, status : ServiceStatus, definition : BOOLEAN]
  /\ edge \subseteq Edge
  /\ setter \subseteq [edge : Edge, definition : BOOLEAN]
  /\ route \in [Request -> [status : RouteStatus, agent : Agent \union {NoAgent}]]
  /\ delegation \in [Request -> [status : {"none", "created", "failed"},
                                 agent : Agent \union {NoAgent}]]
  /\ work \in [Request -> Agent \union {NoAgent}]
  /\ escalation \in [Request -> {"none", "open", "acknowledged", "resolved"}]
  /\ caller \in [Caller -> [pc : CallerPC, request : Request,
       seen : [status : RouteStatus, agent : Agent \union {NoAgent}]]]
  /\ reconciler.phase \in {"idle", "register", "retire", "drop", "add"}

Init ==
  /\ service = [a \in Agent |-> "none"] /\ managed = {} /\ intent = {}
  /\ edge = {} /\ setter = {}
  /\ route = [r \in Request |-> NoRoute]
  /\ delegation = [r \in Request |-> NoDelegation]
  /\ work = [r \in Request |-> NoAgent]
  /\ escalation = [r \in Request |-> "none"]
  /\ caller = [c \in Caller |-> AtRest]
  /\ reconciler = Nothing

-----------------------------------------------------------------------------
(* Authority edges.                                                        *)

\* What findPath walks: edges as they are stored, reports_to in both directions.
Walk(relations) ==
  {<<e.from, e.to>> : e \in {x \in edge : x.relation \in relations}}
  \union {<<e.to, e.from>> :
            e \in {x \in edge : x.relation = "reports_to" /\ "reports_to" \in relations}}

\* y is in every set that contains x and is closed under the walk.
HasPath(x, y, relations) ==
  \A S \in SUBSET Agent :
    (x \in S /\ \A p \in Walk(relations) : p[1] \in S => p[2] \in S) => y \in S

ClosesCycle(e) == e.relation \in Command /\ HasPath(e.to, e.from, Command)

\* setAuthorityEdge reads every edge ...
ReadEdges(e) ==
  /\ Cardinality(setter) < MaxPending /\ ~ClosesCycle(e)
  /\ setter' = setter \union {[edge |-> e, definition |-> FALSE]}
  /\ UNCHANGED <<agents, edge, requests, reconciler>>

\* ... and inserts; the row may be there already.
InsertEdge(w) ==
  /\ w \in setter
  /\ edge' = edge \union {w.edge}
  /\ setter' = setter \ {w}
  /\ UNCHANGED <<agents, requests, reconciler>>

-----------------------------------------------------------------------------
(* The life of a service agent: the row is read, the new status allowed or *)
(* refused, and written, whatever the row says by then.                    *)

Intend(a, status, definition) ==
  intent' = intent \union {[agent |-> a, status |-> status, definition |-> definition]}
MayIntend == Cardinality(intent) < MaxPending

WriteService(w) ==
  /\ w \in intent
  /\ service' = [service EXCEPT ![w.agent] = w.status]
  /\ managed' = IF w.definition THEN managed \union {w.agent} ELSE managed
  /\ intent' = intent \ {w}
  /\ UNCHANGED <<edges, requests, reconciler>>

\* A new agent is active, one that is there again, a retired one stays so.
Registered(a) == IF service[a] = "retired" THEN "retired" ELSE "active"

RegisterServiceAgent(a) ==
  /\ MayIntend
  /\ Intend(a, Registered(a), FALSE)
  /\ UNCHANGED <<service, managed, edges, requests, reconciler>>

TransitionServiceAgent(a, status) ==
  /\ MayIntend /\ service[a] # "none" /\ (service[a] = "retired" => status = "retired")
  /\ Intend(a, status, FALSE)
  /\ UNCHANGED <<service, managed, edges, requests, reconciler>>

HeartbeatServiceAgent(a) ==
  /\ MayIntend /\ service[a] \in {"active", "paused", "stale"}
  /\ Intend(a, "active", FALSE)
  /\ UNCHANGED <<service, managed, edges, requests, reconciler>>

\* reconcileServiceAgents: active and silent for too long.
ReconcileServiceAgents(a) ==
  /\ MayIntend /\ service[a] = "active"
  /\ Intend(a, "stale", FALSE)
  /\ UNCHANGED <<service, managed, edges, requests, reconciler>>

-----------------------------------------------------------------------------
(* reconcileAgentDefinitions: one agent, one row, one edge after another.  *)

Defined(tree) == {a \in Agent : tree[a] # "absent"}

\* Nothing the reconciliation awaits is in flight.
Settled == \A w \in intent \union setter : ~w.definition

BeginReconcile(tree) ==
  /\ reconciler.phase = "idle" /\ Settled
  /\ reconciler' = [phase |-> "register", tree |-> tree, left |-> Defined(tree)]
  /\ UNCHANGED <<agents, edges, requests>>

Register ==
  /\ reconciler.phase = "register" /\ Settled
  /\ \/ \E a \in reconciler.left :
          /\ Intend(a, Registered(a), TRUE)
          /\ reconciler' = [reconciler EXCEPT !.left = @ \ {a}]
     \/ /\ reconciler.left = {}
        /\ reconciler' = [reconciler EXCEPT !.phase = "retire",
                            !.left = managed \ Defined(reconciler.tree)]
        /\ UNCHANGED intent
  /\ UNCHANGED <<service, managed, edges, requests>>

\* Agents the definitions made and no longer name; the rows were read before.
Retire ==
  /\ reconciler.phase = "retire"
  /\ \/ \E a \in reconciler.left :
          /\ service' = [service EXCEPT ![a] = "retired"]
          /\ reconciler' = [reconciler EXCEPT !.left = @ \ {a}]
     \/ /\ reconciler.left = {}
        /\ reconciler' = [reconciler EXCEPT !.phase = "drop",
             !.left = {e \in edge : e.relation \in Command /\ {e.from, e.to} \cap managed # {}}]
        /\ UNCHANGED service
  /\ UNCHANGED <<managed, intent, edges, requests>>

\* The edges of command are deleted one after the other and made anew.
DropEdges ==
  /\ reconciler.phase = "drop"
  /\ \/ \E e \in reconciler.left :
          /\ edge' = edge \ {e}
          /\ reconciler' = [reconciler EXCEPT !.left = @ \ {e}]
     \/ /\ reconciler.left = {}
        /\ reconciler' = [reconciler EXCEPT !.phase = "add",
             !.left = {[from |-> a, to |-> reconciler.tree[a], relation |-> "reports_to"] :
                         a \in {b \in Agent : reconciler.tree[b] \in Agent}}]
        /\ UNCHANGED edge
  /\ UNCHANGED <<agents, setter, requests>>

\* An edge that would close a cycle ends the reconciliation with an error; the edges
\* dropped and not yet made again are gone.
AddEdges ==
  /\ reconciler.phase = "add" /\ Settled
  /\ \/ \E e \in {x \in reconciler.left : ~ClosesCycle(x)} :
          /\ setter' = setter \union {[edge |-> e, definition |-> TRUE]}
          /\ reconciler' = [reconciler EXCEPT !.left = @ \ {e}]
     \/ /\ (\E e \in reconciler.left : ClosesCycle(e)) \/ reconciler.left = {}
        /\ reconciler' = Nothing /\ UNCHANGED setter
  /\ UNCHANGED <<agents, edge, requests>>

\* The worker dies while it reconciles.
CrashReconcile ==
  /\ reconciler.phase # "idle"
  /\ reconciler' = Nothing
  /\ intent' = {w \in intent : ~w.definition}
  /\ setter' = {w \in setter : ~w.definition}
  /\ UNCHANGED <<service, managed, edge, requests>>

-----------------------------------------------------------------------------
(* delegate: find, route, create the work item, record.                    *)

Goto(c, pc) == caller' = [caller EXCEPT ![c].pc = pc]
Key(c) == caller[c].request

BeginDelegate(c, r) ==
  /\ caller[c].pc = "idle"
  /\ caller' = [caller EXCEPT ![c] = [AtRest EXCEPT !.pc = "find", !.request = r]]
  /\ UNCHANGED <<agents, edges, route, delegation, work, escalation, reconciler>>

\* A delegation that is there is returned, a failed one included.
FindDelegation(c) ==
  /\ caller[c].pc = "find"
  /\ Goto(c, IF delegation[Key(c)] # NoDelegation THEN "idle" ELSE "look")
  /\ UNCHANGED <<agents, edges, route, delegation, work, escalation, reconciler>>

\* What a call does with the decision it got: an unrouted request is an error.
Follow(decision) == IF decision.status = "routed" THEN "create" ELSE "idle"

FindRoute(c) ==
  LET found == route[Key(c)] IN
  /\ caller[c].pc = "look"
  /\ IF found = NoRoute THEN Goto(c, "choose")
     ELSE caller' = [caller EXCEPT ![c].seen = found, ![c].pc = Follow(found)]
  /\ UNCHANGED <<agents, edges, route, delegation, work, escalation, reconciler>>

\* Among the active agents that fit, the one that failed least; which that is
\* is left open.  The requester must reach it by authority.
Eligible(r) == {a \in Wanted[r] : service[a] = "active"}
Authorised(a) == HasPath(Boss, a, {"manages", "may_delegate_to", "reports_to"})

Choose(c) ==
  /\ caller[c].pc = "choose"
  /\ IF Eligible(Key(c)) = {}
     THEN caller' = [caller EXCEPT ![c].pc = "escalate",
                       ![c].seen = [status |-> "escalated", agent |-> NoAgent]]
     ELSE \E a \in Eligible(Key(c)) :
            caller' = [caller EXCEPT
              ![c].pc = IF Authorised(a) THEN "persist" ELSE "escalate",
              ![c].seen = IF Authorised(a) THEN [status |-> "routed", agent |-> a]
                          ELSE [status |-> "rejected", agent |-> NoAgent]]
  /\ UNCHANGED <<agents, edges, route, delegation, work, escalation, reconciler>>

\* One escalation for a request, whatever became of it.
CreateEscalation(c) ==
  /\ caller[c].pc = "escalate"
  /\ escalation' = [escalation EXCEPT ![Key(c)] = IF @ = "none" THEN "open" ELSE @]
  /\ Goto(c, "persist")
  /\ UNCHANGED <<agents, edges, route, delegation, work, reconciler>>

\* The first decision of a key is the decision: the insert of another one fails on
\* the unique index, and its call goes on with the stored one.
Adopted(c) == IF route[Key(c)] = NoRoute THEN caller[c].seen ELSE route[Key(c)]

PersistRouteMutant(c) ==
  /\ caller[c].pc = "persist"
  /\ route' = [route EXCEPT ![Key(c)] = IF @ = NoRoute THEN caller[c].seen ELSE @]
  /\ Goto(c, Follow(caller[c].seen))
  /\ UNCHANGED <<agents, edges, delegation, work, escalation, reconciler>>
PersistRoute(c) ==
  /\ caller[c].pc = "persist"
  /\ route' = [route EXCEPT ![Key(c)] = Adopted(c)]
  /\ caller' = [caller EXCEPT ![c].seen = Adopted(c), ![c].pc = Follow(Adopted(c))]
  /\ UNCHANGED <<agents, edges, delegation, work, escalation, reconciler>>

\* The work item is created once for a key; when that fails the delegation is
\* recorded as failed.
CreateWork(c) ==
  /\ caller[c].pc = "create"
  /\ \/ /\ work' = [work EXCEPT ![Key(c)] = IF @ = NoAgent THEN caller[c].seen.agent ELSE @]
        /\ Goto(c, "record") /\ UNCHANGED delegation
     \/ /\ delegation' = [delegation EXCEPT ![Key(c)] =
             IF @ = NoDelegation THEN [status |-> "failed", agent |-> caller[c].seen.agent]
             ELSE @]
        /\ Goto(c, "idle") /\ UNCHANGED work
  /\ UNCHANGED <<agents, edges, route, escalation, reconciler>>

RecordDelegation(c) ==
  /\ caller[c].pc = "record"
  /\ delegation' = [delegation EXCEPT ![Key(c)] =
       IF @ = NoDelegation THEN [status |-> "created", agent |-> caller[c].seen.agent] ELSE @]
  /\ Goto(c, "idle")
  /\ UNCHANGED <<agents, edges, route, work, escalation, reconciler>>

\* The process of a call dies; the call may be made again.
CrashCall(c) ==
  /\ caller[c].pc # "idle"
  /\ caller' = [caller EXCEPT ![c] = AtRest]
  /\ UNCHANGED <<agents, edges, route, delegation, work, escalation, reconciler>>

\* Acknowledging asks for no status: it also reopens what was resolved.
AcknowledgeEscalation(r) ==
  /\ escalation[r] # "none"
  /\ escalation' = [escalation EXCEPT ![r] = "acknowledged"]
  /\ UNCHANGED <<agents, edges, route, delegation, work, caller, reconciler>>

ResolveEscalation(r) ==
  /\ escalation[r] # "none"
  /\ escalation' = [escalation EXCEPT ![r] = "resolved"]
  /\ UNCHANGED <<agents, edges, route, delegation, work, caller, reconciler>>

-----------------------------------------------------------------------------
SetEdge == (\E e \in Offered : ReadEdges(e)) \/ (\E w \in setter : InsertEdge(w))
Delegate(c) == \/ \E r \in Request : BeginDelegate(c, r)
               \/ FindDelegation(c) \/ FindRoute(c) \/ Choose(c) \/ CreateEscalation(c)
               \/ PersistRoute(c) \/ CreateWork(c) \/ RecordDelegation(c) \/ CrashCall(c)
Reconcile == \/ \E tree \in Hierarchy : BeginReconcile(tree)
             \/ Register \/ Retire \/ DropEdges \/ AddEdges \/ CrashReconcile
Life == \/ \E a \in Agent :
             \/ RegisterServiceAgent(a) \/ HeartbeatServiceAgent(a) \/ ReconcileServiceAgents(a)
             \/ \E status \in {"active", "paused", "retired"} : TransitionServiceAgent(a, status)
        \/ \E w \in intent : WriteService(w)
Answer(r) == AcknowledgeEscalation(r) \/ ResolveEscalation(r)
Next ==
  \/ SetEdge \/ Reconcile \/ Life
  \/ \E c \in Caller : Delegate(c)
  \/ \E r \in Request : Answer(r)

Spec == Init /\ [][Next]_vars

-----------------------------------------------------------------------------
(* Properties                                                              *)

\* Calls that race, retry or die in between still agree on who does the work: the
\* work item, the delegation and the routing decision of a key name one agent.
OneAssignee ==
  \A r \in Request :
    /\ work[r] # NoAgent => route[r] = [status |-> "routed", agent |-> work[r]]
    /\ delegation[r] # NoDelegation => delegation[r].agent = route[r].agent
=============================================================================
