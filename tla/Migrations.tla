------------------------------ MODULE Migrations ------------------------------
(***************************************************************************)
(* runMigrations: every process that opens the database (the worker at its *)
(* start, the API, each page of the web board) runs the statements that    *)
(* create tables, add columns and normalise old rows, while processes that *)
(* have done so go on working.  A statement is atomic; the statements of a *)
(* group that commute with one another are one step here.                  *)
(***************************************************************************)
EXTENDS Integers, Sequences

CONSTANTS
  Process,
  Version     \* the databases an upgrade may begin with: [groups, lacking, item, action, events]

VARIABLES
  tables,     \* the tables there are
  lacking,    \* columns that a table of an older version does not have: <<table, column>>
  process,    \* [pc, n: the next group, missing: the columns its check did not find]
  item,       \* a work item: [status, mode, delivery, commit, live], or None
  action,     \* an external action: [status, owner, live], or None
  events,     \* the numbers of a session's events, in the order of their ids
  project     \* objectives of a project: "absent" (no project), "none", "legacy", "own"

vars == <<tables, lacking, process, item, action, events, project>>
rows == <<item, action, events, project>>

None == [status |-> "none"]
\* What is normalised and what new versions write.
Item == [status : {"ready", "in_progress", "awaiting", "completed", "blocked"},
         mode : {"commit", "pull_request", "none"}, delivery : {"pending", "ready", "delivering", "delivered", "failed"},
         commit : BOOLEAN, live : BOOLEAN]
Action == [status : {"pending", "running", "succeeded", "failed"}, owner : {"none", "legacy", "live"}, live : BOOLEAN]

-----------------------------------------------------------------------------
(* The schema.                                                             *)

IdentityTables == {"user", "organization", "session", "account", "verification", "two_factor", "member",
                   "invitation", "api_key", "audit_log", "login_attempt"}
RuntimeTables == {"loops", "loop_controls", "wakeups", "sessions", "session_events", "budget_ledger", "audit_events"}
StrategyTables == {"goals", "projects", "company_profiles", "company_control_events", "project_objectives",
                   "objective_measurements", "project_assignments", "milestones", "process_bindings"}
ThreadTables == {"threads", "thread_messages", "repositories", "definition_revisions"}
WorkTables == {"execution_work_items", "execution_work_item_dependencies", "workflow_runs", "loop_outputs"}
AttemptTables == {"agent_attempts", "execution_workspaces", "resource_locks", "execution_plans", "execution_artifacts",
                  "execution_events", "execution_raw_outputs"}
GovernanceTables == {"execution_verifications", "execution_approvals", "execution_budget_reservations",
                     "execution_governance_events", "execution_external_actions", "execution_process_definitions"}
OperatorTables == {"execution_operator_runs", "execution_control_decisions", "execution_escalations",
                   "execution_operator_leases"}
KnowledgeTables == {"memory_records", "temporal_facts", "knowledge_proposals", "knowledge_change_requests"}
DirectoryTables == {"departments", "department_members", "service_agents", "autonomy_proposals",
                    "autonomy_change_requests", "authority_edges", "routing_decisions", "delegations", "escalations"}
TelemetryTables == {"telemetry_logs", "telemetry_spans", "telemetry_metrics", "telemetry_sessions",
                    "telemetry_session_messages", "telemetry_import_state", "telemetry_ingest_errors",
                    "telemetry_dashboards", "telemetry_dashboard_widgets", "telemetry_live_events"}

Creation == <<IdentityTables, RuntimeTables, StrategyTables, ThreadTables, WorkTables, AttemptTables,
              GovernanceTables, OperatorTables, KnowledgeTables, DirectoryTables>>
Tables == (UNION {Creation[n] : n \in DOMAIN Creation}) \cup TelemetryTables

Of(table, columns) == {table} \X columns
StrategicColumns == Of("goals", {"priority", "horizon", "success_criteria_json", "target_at", "review_cadence", "owner_agent_id"})
  \cup Of("projects", {"manager_agent_id", "budget_json", "risk_level", "review_cadence", "health_status", "success_criteria_json"})
LineageColumns == Of("execution_work_items", {"workflow_run_id", "milestone_id", "process_binding_id", "parent_work_item_id",
                                              "assigned_agent_id", "alignment_rationale"})
  \cup Of("workflow_runs", {"source_type", "process_definition_hash", "state_version", "source_id"})
DeliveryColumns == Of("execution_work_items",
  {"priority", "deadline_at", "max_attempts", "retry_after", "blocked_reason", "governance_json", "repository_ids_json", "work_kind",
   "delivery_mode", "delivery_status", "delivery_ref", "delivery_commit_sha", "delivery_claim_owner", "delivery_lease_expires_at"})
AttemptColumns == Of("agent_attempts", {"harness_session_id", "role", "parent_attempt_id", "verification_id", "heartbeat_at",
                                        "interrupt_requested_at"})
  \cup Of("execution_external_actions", {"fingerprint", "claim_owner", "lease_expires_at"})
LateColumns == Of("wakeups", {"heartbeat_at"}) \cup Of("session_events", {"seq"})
  \cup Of("execution_plans", {"agent_id", "idempotency_key", "harness_config_json", "workspace_policy_json",
                              "profile_hash", "profile_snapshot_json"})
Evolution == <<StrategicColumns, LineageColumns, DeliveryColumns, AttemptColumns, LateColumns>>

\* What CREATE TABLE leaves to the statements that add columns, of a new database too.
NotCreated == StrategicColumns
  \cup Of("execution_work_items", {"milestone_id", "process_binding_id", "parent_work_item_id", "assigned_agent_id",
                                   "alignment_rationale", "delivery_claim_owner", "delivery_lease_expires_at"})
  \cup Of("workflow_runs", {"process_definition_hash", "state_version"})
\* Columns of the indexes that are created with the tables.
Indexed == Of("execution_work_items", {"workflow_run_id"}) \cup Of("workflow_runs", {"source_type", "source_id"})
  \cup Of("agent_attempts", {"role", "verification_id"})

-----------------------------------------------------------------------------
Idle == [pc |-> "idle", n |-> 1, missing |-> {}]
TypeOK ==
  /\ tables \subseteq Tables /\ lacking \subseteq UNION {Evolution[n] : n \in DOMAIN Evolution}
  /\ \A p \in Process : process[p].pc \in {"idle", "create", "check", "alter", "normalize", "telemetry", "ready", "threw"}
  /\ item = None \/ item \in Item
  /\ action = None \/ action \in Action
  /\ project \in {"absent", "none", "legacy", "own"}

Init ==
  /\ \E v \in Version :
       /\ tables = UNION {Creation[n] : n \in 1 .. v.groups} /\ lacking = v.lacking
       /\ item = v.item /\ action = v.action /\ events = v.events
       /\ project = IF v.groups = 0 THEN "absent" ELSE "none"
  /\ process = [p \in Process |-> Idle]

At(p, pc) == process[p].pc = pc
Goto(p, pc, n) == process' = [process EXCEPT ![p] = [pc |-> pc, n |-> n, missing |-> {}]]
Onward(p, last, then) == IF process[p].n < last THEN Goto(p, process[p].pc, process[p].n + 1) ELSE Goto(p, then, 1)

-----------------------------------------------------------------------------
(* runMigrations.                                                          *)

Begin(p) == process[p].pc \in {"idle", "ready"} /\ Goto(p, "create", 1) /\ UNCHANGED <<tables, lacking, rows>>

\* CREATE TABLE and CREATE INDEX IF NOT EXISTS: an index on a column that an old table lacks throws.
Create(p) ==
  /\ At(p, "create")
  /\ LET group == Creation[process[p].n] IN
     IF \E c \in lacking \cap Indexed : c[1] \in group \cap tables
     THEN Goto(p, "threw", 1) /\ UNCHANGED <<tables, lacking>>
     ELSE /\ tables' = tables \cup group
          /\ lacking' = lacking \cup {c \in NotCreated : c[1] \in group \ tables}
          /\ Onward(p, Len(Creation), "check")
  /\ UNCHANGED rows

Check(p) ==
  /\ At(p, "check")
  /\ process' = [process EXCEPT ![p].pc = "alter", ![p].missing = lacking \cap Evolution[process[p].n]]
  /\ UNCHANGED <<tables, lacking, rows>>

\* A column that another process added since is not an error.
Alter(p) ==
  /\ At(p, "alter")
  /\ lacking' = lacking \ process[p].missing
  /\ IF process[p].n < Len(Evolution) THEN Goto(p, "check", process[p].n + 1) ELSE Goto(p, "normalize", 1)
  /\ UNCHANGED <<tables, rows>>

\* A commit or pull request whose commit was never recorded can not be delivered.
Legacy(i) ==
  /\ ~i.commit /\ i.mode \in {"commit", "pull_request"}
  /\ i.status = "awaiting" \/ i.delivery \in {"ready", "delivering"}
LinkPrimary == project' = IF project = "none" THEN "legacy" ELSE project
NumberEvents == events' = [e \in DOMAIN events |-> IF events[e] = 0 THEN e ELSE events[e]]
BlockLegacy == item' = IF item # None /\ Legacy(item) THEN [item EXCEPT !.status = "blocked", !.delivery = "failed"] ELSE item
LeaseLegacy == action' = IF action # None /\ action.status \in {"pending", "running"} /\ action.owner = "none"
                         THEN [action EXCEPT !.status = "running", !.owner = "legacy"] ELSE action
Settle == item' = IF item # None /\ item.status = "completed" /\ item.mode # "pull_request" /\ item.delivery = "pending"
                  THEN [item EXCEPT !.delivery = "delivered"] ELSE item
Normalize(p) ==
  /\ At(p, "normalize")
  /\ CASE process[p].n = 1 -> LinkPrimary /\ UNCHANGED <<item, action, events>>
       [] process[p].n = 2 -> NumberEvents /\ UNCHANGED <<item, action, project>>
       [] process[p].n = 3 -> BlockLegacy /\ UNCHANGED <<action, events, project>>
       [] process[p].n = 4 -> LeaseLegacy /\ UNCHANGED <<item, events, project>>
       [] OTHER -> Settle /\ UNCHANGED <<action, events, project>>
  /\ Onward(p, 5, "telemetry")
  /\ UNCHANGED <<tables, lacking>>

CreateTelemetry(p) ==
  /\ At(p, "telemetry")
  /\ tables' = tables \cup TelemetryTables /\ Goto(p, "ready", 1)
  /\ UNCHANGED <<lacking, rows>>

\* A process stops wherever it is; what it did stays.
Stop(p) == ~At(p, "idle") /\ Goto(p, "idle", 1) /\ UNCHANGED <<tables, lacking, rows>>

-----------------------------------------------------------------------------
(* The work of processes that are past their migrations.                   *)

Ready(p) == At(p, "ready") /\ UNCHANGED <<tables, lacking, process>>

\* An item is created, or one that waits or was blocked is taken up (again).
StartWork(p, mode) ==
  /\ Ready(p)
  /\ \/ item = None /\ item' = [status |-> "in_progress", mode |-> mode, delivery |-> "pending", commit |-> FALSE, live |-> TRUE]
     \/ item # None /\ item.status \in {"ready", "blocked"} /\ item.mode = mode
        /\ item' = [item EXCEPT !.status = "in_progress", !.live = TRUE]
  /\ UNCHANGED <<action, events, project>>

\* persistAttemptOutput records the commit of the maker before the attempt is settled.
RecordDeliveryCommit(p) ==
  /\ Ready(p) /\ item # None /\ item.status = "in_progress" /\ item.mode # "none"
  /\ item' = [item EXCEPT !.commit = TRUE]
  /\ UNCHANGED <<action, events, project>>

Evidenced(i) == i.mode = "none" \/ i.commit
AwaitEvidenceMutant(p) ==
  /\ Ready(p) /\ item # None /\ item.status = "in_progress"
  /\ item' = [item EXCEPT !.status = "awaiting"]
  /\ UNCHANGED <<action, events, project>>
AwaitEvidence(p) ==
  /\ Ready(p) /\ item # None /\ item.status = "in_progress" /\ Evidenced(item)
  /\ item' = [item EXCEPT !.status = "awaiting"]
  /\ UNCHANGED <<action, events, project>>

FinalizeWorkItem(p) ==
  /\ Ready(p) /\ item # None /\ item.status \in {"in_progress", "awaiting"} /\ Evidenced(item)
  /\ item' = [item EXCEPT !.status = "completed", !.delivery = IF item.mode = "pull_request" THEN "ready" ELSE "delivered"]
  /\ UNCHANGED <<action, events, project>>

ClaimDelivery(p) ==
  /\ Ready(p) /\ item # None /\ item.status = "completed" /\ item.mode = "pull_request" /\ item.commit
  /\ item.delivery \in {"ready", "failed"}
  /\ item' = [item EXCEPT !.delivery = "delivering"]
  /\ UNCHANGED <<action, events, project>>

CompleteDelivery(p, status) ==
  /\ Ready(p) /\ item # None /\ item.delivery = "delivering"
  /\ item' = [item EXCEPT !.delivery = status]
  /\ UNCHANGED <<action, events, project>>

\* The legacy lease runs out, or there was none; a claim always names its owner.
ClaimExternalAction(p) ==
  /\ Ready(p) /\ (action = None \/ action.status \in {"pending", "failed"} \/ (action.status = "running" /\ action.owner = "legacy"))
  /\ action' = [status |-> "running", owner |-> "live", live |-> TRUE]
  /\ UNCHANGED <<item, events, project>>

CompleteExternalAction(p, status) ==
  /\ Ready(p) /\ action # None /\ action.owner = "live"
  /\ action' = [action EXCEPT !.status = status, !.owner = "none"]
  /\ UNCHANGED <<item, events, project>>

\* The next number of a session's event.
WriteEvent(p, last) ==
  /\ Ready(p) /\ Len(events) < last
  /\ events' = Append(events, 1 + (IF events = <<>> THEN 0 ELSE CHOOSE m \in {events[e] : e \in DOMAIN events} :
                                                            \A e \in DOMAIN events : events[e] <= m))
  /\ UNCHANGED <<item, action, project>>

\* A project is created with its primary objective in one transaction.
CreateProject(p) ==
  /\ Ready(p) /\ project = "absent" /\ project' = "own"
  /\ UNCHANGED <<item, action, events>>

-----------------------------------------------------------------------------
Next == \E p \in Process :
  \/ Begin(p) \/ Create(p) \/ Check(p) \/ Alter(p) \/ Normalize(p) \/ CreateTelemetry(p) \/ Stop(p)
  \/ \E mode \in {"commit", "pull_request", "none"} : StartWork(p, mode)
  \/ RecordDeliveryCommit(p) \/ AwaitEvidence(p) \/ FinalizeWorkItem(p)
  \/ ClaimDelivery(p) \/ \E status \in {"delivered", "failed"} : CompleteDelivery(p, status)
  \/ ClaimExternalAction(p) \/ \E status \in {"succeeded", "failed"} : CompleteExternalAction(p, status)
  \/ WriteEvent(p, 3) \/ CreateProject(p)
Spec == Init /\ [][Next]_vars

-----------------------------------------------------------------------------
(* Properties                                                              *)

\* Migrations that any process runs at any time beside the work of others take nothing from it:
\* an item or an action that a current version works on is never treated as legacy, the events of
\* a session keep their order, and who is past its migrations finds every table and column.
UpgradeKeepsWork ==
  /\ item # None /\ item.live /\ item.status = "awaiting" => ~Legacy(item)
  /\ item # None /\ item.live /\ item.delivery \in {"ready", "delivering"} => ~Legacy(item)
  /\ action # None /\ action.live => action.owner # "legacy"
  /\ \A p \in Process : At(p, "ready") =>
       /\ tables = Tables /\ lacking = {} /\ project # "none"
       /\ \A d, e \in DOMAIN events : d < e => events[d] < events[e]
=============================================================================
