# A verification project for aaspai

aaspai runs a company of agents: definitions live in Git, and every operational
transition (a work item, an attempt, a claim, an approval) is a row of one SQLite
database that a worker, the API, the CLI and the web board change at the same time.
This directory holds TLA+ models of the parts of that machinery in which an
interleaving, a crash, a late answer or a lease that ran out could do harm; the TLC
runs that check them on small instances; and TLAPS proofs of what matters most for
every value of the constants. `PROJECT.json` lists, for every definition that
models code, the lines it models.

To repeat: `tlc -workers 2 -config <X>.cfg <module>` for each run listed below (the
largest, `Systems`, takes two to three minutes), `tlapm <module>.tla` for the eight
`...Proofs` modules (`OneWorkerProofs` takes six minutes, `ComponentProofs` nine, and `PlatformProofs` and
`SystemsProofs`, whose obligations carry the definitions of every component, about twenty each).

## 1. The system and its components

| Component | State | Operations | Module |
|---|---|---|---|
| Execution store (`packages/execution/src/store-implementation.ts`) | work items with status, claimant and dependencies; agent attempts; harness sessions; resource locks; verifications; approvals; deliveries; external actions; budget reservations | dispatch, claim, start, heartbeat, settle, cancel, interrupt, reconcile; verify, approve, deliver; reserve and settle budgets | `WorkExecution`, `Governance`, `DeliveryClaim`, `ExternalAction` |
| Autonomous executor (`executor.ts`), harness plan runner (`harness-runner.ts`) | the running CLI, its session, its log, its workspace and artifacts | dispatch, start, run under a heartbeat, persist evidence, settle, release | `WorkExecution`, `AttemptEvidence` |
| Worker daemon (`apps/worker/src/daemon-implementation.ts`) | wakeup rows, one execution in flight, timers | poll, claim and run wakeups; retry; verify pending items; recover stale claims; drive operator runs; apply company actions; restore and persist what attempts leave | `WorkExecution`, `Governance`, `OperatorControl`, `Delegation`, `LoopRun`, `AttemptEvidence` |
| Operator control (`operator.ts`, `operator-store.ts`) | operator runs with a state version, leases, control decisions, escalations | start a process, tick: promote, decide, propose, apply; roll up | `OperatorControl` |
| Dependency scheduler (`scheduler.ts`) | a snapshot of a workflow's items | block, promote, dispatch within concurrency limits | `DependencyScheduler` |
| Company actions of managers (`company-action-broker.ts`, the daemon) | posted actions by fingerprint, delegated items, callbacks, retained workspaces | post, apply, hire, delegate, call back, release | `Delegation` |
| Company control plane (`packages/company/src/control-plane.ts`) | authority edges, service agents, routing decisions, delegations, escalations | edges, life of agents, route, delegate, escalate, reconcile with the definitions | `Authority` |
| Company directory (`packages/company/src/index.ts`) | departments, autonomy proposals and change requests | membership, decide, open a pull request, import | `Directory` |
| Company commands (`command-service.ts`) | profile, goals, projects, links, assignments, milestones, bindings, runs | every strategic command | `Portfolio` |
| Loops (`packages/loops`) | workflow runs by trigger, outputs, controls, daily budget | tick, catch up, decide, create and execute items, pause | `LoopRun` |
| Sessions (`packages/sessions`) | session rows, numbered events, the registry of running sessions | execute with retries, pause, resume, stop, cancel, compact | `Sessions` |
| Harness drivers (`packages/harness`) | lock file, queue of a process, registered children; pool of warm ACP runtimes; a run at another service | run a CLI, handle its events, time out, abort, cancel; evict, create, resume, prompt; ask, follow, poll, stop | `AgentCli`, `Acp`, `Gateway` |
| Runtimes (`packages/runtime`) | leases, machines of nine providers and what is on them | acquire, resume, copy there and back, exec, release | `RemoteTarget` |
| Telemetry (`packages/telemetry`, its routes, the observer of the worker) | import state, transcript rows, logs, spans, metrics, live events, sessions with their messages, dashboards | watch, scan, poll, read incrementally, import by hand; ingest, page, delete, retain, count; publish and stream; project and backfill; arrange widgets | `SessionImport`, `TelemetryStore`, `LiveFeed`, `Transcripts`, `Dashboards` |
| Database schema (`packages/db`) | tables, columns, indexes; rows of older versions | create, add columns, normalise, at every process that opens the database | `Migrations` |
| Knowledge and memory (`packages/knowledge`, `packages/memory`, `process-improvement.ts`) | memory records, proposals, change requests | evaluate, write back, review | `Knowledge` |
| Definition files (`packages/file-loader`, the daemon, the routes of the API) | files, what a source holds, its watcher, what the worker made of them | start, scan, load, report, reconcile, refresh, stop | `Definitions` |
| Skills, tools, plan-only and manual runs, web UI, identity, configuration, observability, Git | catalogues and infrastructure | mostly sequential I/O | none (section 5) |

How they interact: **shared state** is the database, and nothing else: every awaited
statement of drizzle over better-sqlite3 is atomic, and between two of them anything
done by another process may happen. **Calls** go from the daemon to the executor, from
the executor to the store and (by a callback, `runProvider`) back to the daemon, which
calls the runner. **Messages** are wakeup rows: the API, the company commands, the
operator loop and retries insert them, keyed so that a repeated insert is dropped, and
the poll of a worker claims them by a compare-and-set. **Callbacks** of timers are the
attempt heartbeat, the claim heartbeat and the one-second cancellation poll.

What is hard here:

- **Interleavings of statements.** Dispatch lists the attempts and then inserts; a
  transition is validated against a status read before; settlement reads the item's
  status, releases slots, then writes the item.
- **Crashes and suspensions.** A worker may stop between any two statements, or be
  suspended longer than the five minutes after which its claims are recovered, and
  come back.
- **Retries at three levels.** One wakeup is executed up to three times, one item has
  `max_attempts` attempts, and recovery queues retries of its own.
- **Leases.** Slots (an hour, extended by heartbeats), external actions (60 s against a
  30 s call), deliveries (60 s), operator runs (30 s), machines of a provider.
- **Check, then write.** Company commands, authority edges, dependencies and proposals
  are validated by reads before the transaction that changes them.
- **Streams and files.** Events of a CLI arrive in chunks, late, or cut off; a transcript
  is read at remembered offsets by several readers while it grows.
- **Unconditional writes.** `updateWorkItemStatus` has no condition on the status that
  was read; what keeps it safe is the order of statements around it.

What makes each component correct:

- *dispatch and settlement*: one active attempt per item, the claimant of an item
  exists, no slot outlives its attempt, an ended item stays ended, every claimed wakeup,
  attempt and slot comes back;
- *governance*: no item is completed without the evidence its plan asks for, no verdict
  without a check that ended, one checker at a time, outcomes are final;
- *external actions and deliveries*: one sender, one recorded success, one pull request,
  replies that stay true;
- *operator control, scheduler*: steps run in dependency order, a completed run has
  completed items, a run that can proceed is evaluated again;
- *company*: calls that race or retry agree on who does the work; an approved change has
  one pull request; a project has one primary objective; an action has one delegated
  item and one callback, and its workspace lives as long as it is needed;
- *loops*: no occurrence is lost;
- *agents*: a result says what the CLI or the service did, a transcript is complete, an attempt's
  evidence is its own, a runtime that failed is not handed on, a machine returns the run's own work;
- *definition files*: the worker ends up with what the files say;
- *telemetry, knowledge*: no line is lost; pages and streams miss nothing they promise; a
  transcript is numbered as it happened; a proposal is accepted once;
- *schema*: an upgrade keeps what live processes are at work on.

The hazards of this code, each at its line, are in `PROJECT.json` under `hazards`, with
the properties that cover them or the reason why none does.

## 2. Modules

| Module | What it is |
|---|---|
| `WorkExecution` | from a ready item and its wakeup to a settled item: dispatch, run, settlement, retries, recovery, operators |
| `MCWorkExecution` | its instances for TLC |
| `WorkExecutionProofs` | its theorems |
| `OneWorkerProofs` | its theorems for one worker process |
| `Governance` | verification, checker attempts and approvals of one item, over several rounds of work |
| `MCGovernance` | its instances for TLC |
| `GovernanceProofs` | its theorems |
| `IdempotentEffect` | abstract: what an idempotency key promises |
| `ExternalAction` | the row, the claim and the route of an external action; implements `IdempotentEffect` |
| `MCExternalAction` | its instance for TLC |
| `ExternalActionProofs` | its theorems, the refinement among them |
| `OperatorControl` | an operator run: start command, ticks under a lease, decisions, wakeups, execution and roll-up, recurring reviews |
| `MCOperatorControl` | its instance for TLC |
| `OperatorControlProofs` | its theorems |
| `DependencyScheduler` | the items of a workflow, their dependencies, and ticks that overlap |
| `DeliveryClaim` | a completed item's way to a pull request |
| `Delegation` | a manager's actions, the delegated work, the callbacks, the retained workspace |
| `Authority` | service agents, authority edges, routing, delegation by key, escalation |
| `Directory` | departments, autonomy proposals, the pull request of a change |
| `Portfolio` | every command of `CompanyCommandService` |
| `LoopRun` | the occurrences of one loop, their runs and items |
| `AgentCli` | runs of command lines: opencode (local and in a runtime) and those of `runProcess` |
| `Acp` | runs over the Agent Client Protocol and their pool |
| `Sessions` | `Sessions.execute` and what may happen to a session meanwhile |
| `RemoteTarget` | runs on the machines of nine providers, in docker, over ssh |
| `SessionImport` | one transcript, its watchers, the import by hand |
| `TelemetryStore` | batches that are posted again, deletion and retention, pages under way, counts |
| `LiveFeed` | stored events and the streams that hand them on |
| `Transcripts` | the events of a session, its projection and its backfills |
| `Dashboards` | dashboards, their default, their widgets |
| `Migrations` | the upgrade of a database beside processes that use it |
| `Knowledge` | evaluations, write-backs, reviews |
| `Gateway` | a run that OpenClaw, Hermes or Cursor is asked for |
| `Definitions` | the sources of definition files, their watcher and those who use them |
| `AttemptEvidence` | the sessions, workspaces, artifacts and the commit of an item's attempts |
| `MCSystems` | the instances of the last twenty-one modules for TLC, one at a time |
| `ComponentProofs` | theorems of nine of them, for every value of their constants |
| `PlatformProofs` | the same of seven more: loops, live feed, remote machines, upgrades, services, CLIs, sessions |
| `SystemsProofs` | the same of the instances that `MCSystems` checks |

### WorkExecution

One action is one awaited statement (or one transaction). Variables: `item` (status and
`claimedByAttemptId`), `attempt` (rows of `agent_attempts` with the two request flags and
the status of their harness session), `slot` (unreleased rows of `resource_locks`),
`wake` (wakeups, keyed by item and attempt number as `queueRetryWakeup` keys them),
`worker` (where a thread of control stands and what it has read), `stalled` (workers
suspended past the cutoff).

A worker's `pc` names the statement it executes next, and its path is the code's:
`claimAndRun` (`ClaimWakeup`, `HandleThrow`, `BackOff`, `GiveUp`), `execute`
(`Enter` = `reconcileTerminalHarnessAttempt`), `dispatchWorkItem` (`Dispatch`,
`CreateAttempt`, `TakeSlot`, `ReserveBudget`, `ClaimWorkItem`, and the way back
`UndoSlots`, `DeleteAttempt`, `BlockItem`, `Relist`), `startScheduledAttempt`
(`ReadQueued` .. `MarkInProgress`), the provider (`Heartbeat`, `LinkSession`,
`FinishCli`, `EndSession`, `ReadForSettle`, `SettleAbort`, `SettleAttempt`),
`completeScheduledAttempt` (`ReadCompleted`, the late branch `LateRelease`,
`LateSettleItem`, the usual one `CompleteAttempt`, `SettleItem`, `SettleRelease`; the
transitions of an attempt read the row again before they write, so `StillPermits` asks
what the row permits by then and not what was read first),
`verifyPendingWorkItems` (`Verify`, in detail in `Governance`), `queueRetryWakeup`
(`ReadForRetry`, `RetryReady`, `QueueRetry`) and `finishWakeup`. An error inside the
part that `execute` catches is `ProviderThrew` (the attempt is settled as failed and
the error rethrown); any other is `Threw`.

Recovery is a pass of an idle worker: `LoseAttempt`, `LoseRelease`
(`reconcileLostAttempts`) and the cases of `recoverStaleClaims`. Read and mark are one
step there, because the mark is conditional on exactly what was read (the heartbeat, the
status); the select and the release of `reconcileExpiredLocks` are one step too, a gap
named among the hazards.

Abstractions. A heartbeat is stale exactly when no responsive worker attends the row:
heartbeats come every minute, the cutoff is five. Statements of one process run without
interruption by its own timers (the database driver is synchronous, its awaits are
microtasks), so a shutdown signal is seen at the real waits only (`RequestStop`); other
processes interleave everywhere. A retry's delay is over when the wakeup is claimed.
`proposed` is treated with `ready`. A budget is an unpredictable refusal or breach. Loop
work of the organization is an owner `Other` of a slot. Identifiers of deleted rows that
nobody remembers are used again, so that the bound on `Attempt` bounds the rows alive and
not the history. Not modelled: the denial of dispatch by policy, the status of workflow
runs, delegation callbacks, loop and discovery wakeups, the override of an item's status
by hand.

### Governance

One work item, its governance plan, its rounds of work and everything that verifies or
approves it. `maker`, `verification`, `checker` and `approval` are rows (a verification
and its checker attempt share an index, since the code makes at most one of each);
`proc` are the processes: workers, which make, verify or both, and requests of the API,
which ask for a checker attempt or submit a verdict; `orphaned` are the makers whose
wakeup a dead worker still holds.

The path of `verifyPendingWorkItems` is `ListAwaiting`, `ReadLatest`, `CheckPending`,
`InsertChecker` (`createCheckerAttempt`), `ReadChecker`, `PrepareChecker`,
`ActivateChecker`, `LinkSession`, `CliEnds`, then `submitVerification`:
`CheckSubmission`, `SettleVerification`, the gate (`AskApproval`, `InsertApproval`,
`GateItem`, or `FinalizeItem`, or `BlockItem`) and `Writeback`; its catch branch is
`ReadCaught`, `FailChecker` and a failed submission. `FailChecker` is one transition of the
walk from queued over preparing and running to failed: each reads the row anew, and recovery
or a late CLI may have ended it in between. The flag `caught` remembers that an
error inside the catch branch escapes. A worker that made the item continues into the
pass over it, any worker may make such a pass for another item of the workflow
(`BeginPass`). No heartbeat covers a checker attempt (only `executor.execute` starts
one), so `LoseChecker` is enabled whenever one is live.

Abstractions. Making is `Claim`, then success, failure or a crash: its details are
`WorkExecution`. `submitVerification` reads the verification and its checker in one step
(the checker has ended by then, and an end is final). Evidence, agent identities, the
independence of maker and checker, and delivery are choices of the environment. `Reopen`
is the board's move of an item back to ready, the way a blocked or failed item is taken
up again; the other statuses that the board lets a person write override the process and
are left out. It is a model of safety only.

### ExternalAction

The row of one connector and idempotency key, several requests served by several API
processes, and a clock. `claimExternalAction` is `Begin` (which reads the time the lease
counts from), `Insert`, `Read`, `TakeOver` (the conditional update) and `Reread`; the
route is `Call`, `NotConfigured`, `Returns` and `Settle` (`completeExternalAction`, fenced
by the owner id). The connector is external: it answers within the timeout or the call
fails. A process may be suspended at any statement, and then answers late.

### OperatorControl

`run`, `decision` (by sequence number) and `lease` are the rows of the operator store,
`item` the items of every workflow the run has pointed to, `wake` the wakeups by workflow
and state version. The start command is its statements up to `commandProcessRun`; a worker
claims a wakeup, takes the lease, reads the state once (`run`, items), promotes, decides,
proposes a decision, applies it with the version as a compare-and-set, rolls a completed
milestone up, and queues the wakeup of the next version. The execution of an item is one
step per outcome (its details are `WorkExecution`); a recurring binding continues with a
review workflow. A worker may die between any two statements; its wakeup is then recovered
(or fails) as `recoverStaleClaims` does.

### Company: Authority, Directory, Portfolio, Delegation

A call is its awaited statements. `Authority`: `delegate` looks for the delegation of its
key, for the routing decision, chooses an eligible agent from the edges and the agents of
that moment, persists the choice or adopts the one it meets, creates the work item and
records the delegation; agents go stale, are paused, retired or registered, and the
reconciliation of the definition files moves edges, all in between. `Directory`: the change
request of an approved proposal is looked for, reviewed, inserted, committed and pushed,
opened as a pull request and recorded. `Portfolio`: a command is a `Check...` (what it reads
before its transaction) and an action of its name (the transaction), so that anything may
happen between the two. `Delegation`: actions posted by fingerprint or
reported with the result, the effects of each kind call by call (a hire with its files, its
registration and delegation, delegated work, a milestone, a recurring process) and the record of
each, the same again in a retried attempt, `queueDelegationCallback` by the
worker and by recovery at once, and the scan that decides whether the workspace is released.

### DependencyScheduler, DeliveryClaim, LoopRun

`DependencyScheduler` keeps what a tick read at its start (`ticker`) apart from the rows, and
writes by that reading as the code does; `known` remembers the dependencies there were before
the first tick. `DeliveryClaim` numbers the owners of a delivery: a claim is a compare-and-set,
the row is read again afterwards, and settlement is fenced by the owner. `LoopRun` is one loop:
`dueOccurrences` from the newest run, `LoopRunner.run` statement by statement, replay of an
existing run, dispatch and execution of its items, the budget that pauses the loop.

### Agents: Sessions, AgentCli, Acp, RemoteTarget

`Sessions`: a run is its row, its registration, its attempts, the lines of its adapter, each
numbered by a counter the run read once, and every way out. `AgentCli`: turns for the lock
file and for the queue of the process, events (a company action by its id, status and
validity), a buffer for runtimes that return output at the end, timers and signals, the close
handler with an unfinished last line. `Acp`: the pool by key, a run that evicts, creates or
takes a runtime, its session, its turn, its way out. `RemoteTarget`: what differs between
providers is a record (setup, bytes, pause, stop); machines are named, and what is on them is
whose edits there are since the last baseline. `Gateway`: the run at the service goes on by
itself; the driver's call is its requests, the frames of its stream (some damaged), its polls (some
failed), its deadline and the signal of its caller; what it returns is what it heard last.

### Evidence and definitions: AttemptEvidence, Definitions

`AttemptEvidence` follows the makers of one item and its checker through `executeDurableAttempt`, the
plan runner and `persistAttemptOutput`: a file is the attempt that wrote it, in a workspace, in the
copies of an attempt and in the records of the store; sessions are chained by what their wakeups
name. `Definitions` has a definition as two files, read one after the other by loads that overlap
with each other and with scans; the watcher reports what changed since it last looked, or nothing
where it is not open; the worker's list, the refreshes it queues and the requests of the API that
start and stop one source are actors of their own.

### Telemetry: SessionImport, TelemetryStore, LiveFeed, Transcripts, Dashboards

`SessionImport` counts bytes of complete and unfinished lines; a reader has the position it
started from, what it read and what it will store, and commits with a compare-and-set where
the code has one. `TelemetryStore` has the rows of three tables with a time and a random id
each; an ingest is one statement per batch that ignores keys it has, an answer may be lost; a
reader goes from page to page by the cursor of the last row, while rows come and go. `LiveFeed`
has a subscription in the memory of the API's process beside the table, and what is on the wire to
each client, which is lost with its connection. `Transcripts` separates the events of a session
from what is derived of them: the lines a run emits as it goes and the logs, the summary and the
messages that a backfill writes, one statement after the other. `Dashboards` is each request in
its statements.

### Migrations, Knowledge

`Migrations` is `runMigrations` as a sequence of groups: those that create tables, the check for
each column and its addition, and the statements that normalise old rows; several processes run
them at once, and those that are through use the rows meanwhile. What an old database may lack is
a parameter (`Version`). `Knowledge` has causes in place of the state an evaluation looks at; the
conditional update of a review is one transaction, what follows it is a step of its own.

Abstractions common to these modules: identifiers, texts, prices and payloads are model values;
a step that the code rolls back (a transaction that throws, a unique index that refuses) has no
effect but the error; a clock is replaced by the event that matters (a lease runs out, an
interval passes, a deadline passes).


## 3. The runs

| Run | Instance | Asks |
|---|---|---|
| `WorkOneWorker` | 1 worker, 1 item that its evidence completes, 3 attempt ids, 2 slots, max_attempts 2, 3 tries | the supported deployment: one worker that crashes, is suspended and shut down at will, operators, other work |
| `WorkTwoWorkers` | 2 workers, 1 item that waits for checker and approver, 3 attempt ids, 1 slot, max_attempts 2, 2 tries | two workers that overlap: what indexes and compare-and-sets still guarantee |
| `WorkLiveness` | 1 worker, 1 item, 2 attempt ids, 1 slot, 1 try | claimed wakeups settle and attempts end |
| `Governance` | 2 workers, 1 request, 2 rounds, 2 approvals, 1 extra pass each | evidence and verdicts under every interleaving |
| `ExternalAction` | 3 requests, 2 payloads, lease 3, timeout 1, delay 1, time to 5 | the key's promise, and the refinement |
| `OperatorControl` | 2 workers, a process of two dependent steps, a recurring review, state versions to 4, ticks within their lease | dependency order, completion, and that the run goes on |
| `Systems` | twenty-one modules, one at a time | the hazards of everything around the execution of work |
| `WorkCancel`, `WorkRetry`, `WorkApproval`, `GovernanceRework`, `GovernanceRecheck` | small instances | each shows one disagreement between code and documentation (section 6) |

The properties:

- `WorkOneWorker`: `LiveAttemptIsClaimant` (an attempt that runs is the one its item will
  be settled by), `AttemptLifecycle` (only the transitions of the table, and a row is
  deleted only if it never left the queue), `SettledItemStays` (a cancelled item stays so, a completed
  one too **unless an approver decides it**, and a failed one is reopened only by recovery, which found
  its attempt lost). The exception is real: for an item with an approval gate recovery overwrites the
  completion, which is what `WorkApproval` shows. The item of this run has no gate, so that its
  completion is what the clause protects.
  `SlotsKeptWhileAttended`
  (a lease never runs out under an attempt that is attended).
- `WorkTwoWorkers`: `NothingDangles` (a claimant exists, a slot has its attempt), `OneActiveAttempt`,
  `ClosedByEvidence` (an item that is completed or gated is claimed by an attempt that
  succeeded), `OneCliPerAttempt`. What does *not* hold with two workers is left to the
  one-worker run: `docs/deployment.md` lists multi-worker scheduling among the gaps.
- `WorkLiveness`: `WakeupSettles`, `AttemptEnds`. That the slots of an attempt come back is *not*
  claimed: those of an attempt that ended without releasing them wait for the end of their lease and
  then for somebody who reconciles expired locks (below).
- `WorkApproval` expects `CompletedWorkIsKept` (no completed item leaves that status, gate or not) to be
  violated.
- `Governance`: `EvidenceClosesWork`, `VerdictsRestOnChecks`, `OneCheckerRuns`,
  `CheckerOutcomeStands`.
- `ExternalAction`: `OneSender`, `RepliesAreTrue`, `IsIdempotent`; `OneSuccess` is proved only.
- `OperatorControl`: `StepsInOrder`, `CompletedMeansDone`, `CompletedItemsStay`, and the
  liveness property `KeepsEvaluating`.
- `Systems`, by module: `OneAssignee` (Authority), `OnePullRequest` (Directory),
  `OnePrimary` (Portfolio), `DelegationKept` (Delegation),
  `DependenciesFirst` (DependencyScheduler), `DeliveredStays` (DeliveryClaim),
  `NoOccurrenceLost` (LoopRun), `ResultIsTrue` (AgentCli, Gateway), `NoLineLost` (SessionImport),
  `EvidenceComplete` (Sessions, AttemptEvidence), `DefinitionsKnown` (Definitions), `FailedRuntimesDropped` (Acp), `AcceptedOnce` (Knowledge),
  `OwnWorkComesHome` (RemoteTarget), `NoEventMissed` (LiveFeed), `PagesComplete`
  (TelemetryStore), `TranscriptFaithful` (Transcripts), `UpgradeKeepsWork` (Migrations); that a
  dashboard at most is the default, and widgets are on dashboards, is in the `TypeOK` of
  Dashboards.

The type invariants of `WorkExecution`, `Governance`, `ExternalAction`, `OperatorControl` are proved for every value
of the constants (section 4) and not evaluated by the runs again; those of the modules of
`Systems` are its `TypeOK`.

### Bounds of the core

`OneActiveAttempt` needs an attempt that ended and two that race for its successor, hence
three identifiers, and a second try, which is what brings a worker back to dispatch. Two
slots show every prefix of the way back. The two-worker run leaves out operators,
shutdowns, other holders of the slot and exhausted budgets, has at most one worker
suspended and one on a second try (`TwoWorkerBound`); all of these are explored by the
one-worker run, and the proofs below need no bound at all. Two rounds are the least in
which a verification, a checker or an approval of an earlier round can meet a later one;
from the second round on at most one process is busy (`Bounded`), processes of the first
round included, which may still be suspended in it. Three requests allow a holder, one
that replaces it and one that asks meanwhile; time runs past one lease and into a second.
Workers, attempt ids, requests and payloads are symmetric, liveness is checked without
symmetry. Deadlock checking is off: with every counter bounded, the system rightly stops.

`OperatorControl`: two steps, one after the other, are the least for a promotion by an old
reading; two workflows, the process and its review, for a run that is pointed elsewhere. Two
workers let one die or be late where the other goes on. A wakeup is tried twice, an item once (its
retries are those of `WorkExecution`). No tick outlives its lease of 30 seconds (`Overruns` is
`FALSE`): with three dependent steps, a tick that was suspended for longer can take a completed item
back, and section 6 says how. The process is a recurring one, so that its second workflow is the
review; a second start command beside a tick at work (`Impatient`, without `Recurring`) is left out:
section 6 says what it does. The proofs cover both: `OrderKept`, `CompletedStays` and
`CompletedIsDone` ask for what the run asks for and no more.

### Bounds of `Systems`

The twenty-one modules share no state, so a behaviour of `MCSystems` keeps to one of them: the
variable `focus` says which, and its variables are the first of the slots `s1` .. `s14`. Two
modules have two foci, so that two halves of their operations are explored deeply instead of
all of them shallowly. In all of them two actors (calls, ticks, requests, runs) are what the
hazards take; what is kept small besides is listed here.

- *Authority*: `edges` (at most two edges of opposite direction or kind, at most two writes of agents
  or edges in flight, one of a service agent at a time; heartbeats and sweeps only between calls
  of `setAuthorityEdge`) and `delegate` (two calls of one key, the second begins while the first is in progress, only the first
  may die; two candidates).
- *Directory*: two proposals that undo each other, two calls; one may fail, the other die.
- *Portfolio*: `portfolio` (from the draft to an active company with two objectives and one
  project, two commands whose checks and transactions interleave) and `delivery` (one project from creation to
  completion, verdicts of a second caller).
- *Delegation*: three setups of a manager's attempts (with and without the broker), three actions of
  different kinds, two attempts; the second delegation is posted only in the first attempt and after
  the first one; worker and recovery settle side by side.
- *DependencyScheduler*: two items, both edges offered, two ticks of which the second begins during the
  first; dependencies are inserted before or beside the first tick; one deadline, one delayed retry.
- *DeliveryClaim*: two commits, three requests, three claims.
- *LoopRun*: three intervals of which a tick catches up with two, one reference, two ticks; a loop
  either catches up (always enqueues, and has run before) or does neither (and has not); a budget of one run.
- *AgentCli*: one process that may die, an opencode CLI with a streamed and one with a buffered
  output of at most two lines, or a Codex CLI alone.
- *SessionImport*: a watcher without backfill, two lines of two bytes that report one usage, one
  import by hand, which does not begin behind an unfinished line. Two watchers are not covered: with backfill they do lose lines (section 6).
- *Sessions*: two runs of one durable session in one process beside one other call; two attempts
  and two lines for the first, one line for the second, which begins while the first is under way; pauses, stops and
  exceptions only while the first runs alone.
- *Acp*: two runs of one key, one of which resumes, timeouts of one and broken or aborted turns
  of the other.
- *Knowledge*: two causes, one of which puts the other's project at risk, one verified item, two
  callers with any number of calls; a second evaluation begins beside the first.
- *RemoteTarget*: all nine kinds of machines; a first run with or without directory and reuse, a second
  run that resumes its machine (or takes one of its own, for docker and ssh) once the first is set up; the machine may
  expire, the process die.
- *TelemetryStore*: two batches of logs, or one that mixes logs, a span without ids and a metric; pages
  of one row, so that every cursor is used. *LiveFeed*: one client, four events, a replay of two, a
  queue of one. *Transcripts*: two backfills of a session of three events, one of which is not
  shown. *Dashboards*: two dashboards, two widgets.
- *Migrations*: two processes; a new database, one from before deliveries and actions had owners, and
  one too old to be upgraded.
- *Gateway*: one run of each driver, two frames on their way.
- *Definitions*: one definition, which as a loop has a built-in one of its name; the worker with two edits, or a source of the
  API with two requests.
- *AttemptEvidence*: two makers and the checker, two files of which one may be declared, the three
  kinds of work; the first maker may be lost, die, throw, be cancelled or time out, and the second goes
  on to its CLI beside it only for work in a repository; the checker starts when the first process
  is over.

### Fairness

`WorkExecution!Fairness` (used by `WorkLiveness`): strong fairness of a worker's execution
and of its recovery pass: the poll runs every few seconds for as long as the process is up, a
suspended process may be resumed and suspended again for ever but then does get on, and the
service manager restarts a dead one. Weak fairness of `Resume`: a suspension ends.
Nothing is assumed of `ReconcileExpiredLock`: only `DependencyScheduler.tick` (a due occurrence
of a loop), a route of the API (`company.ts:408`) and the recovery route of the web app call it,
never the recovery of the worker. Without any of them the slots of a dead worker's attempt stay
taken, and no property says otherwise.

`OperatorControl!Fairness`: weak fairness of each worker's next statement and poll (its loop
has no other wait), of the timed wakeup falling due and of the lease running out (both only time),
of the settlement of an item that awaits a decision (the operator run depends on somebody deciding;
without it the run rightly waits), and of the start command. Nothing is assumed
about operators, crashes, other work or the outcome of a CLI, and `KeepsEvaluating` excepts the
runs that the code does give up: one whose wakeup failed and one whose start did not finish (section 6).


## 4. What is proved

All theorems hold for every number of workers, items, attempts, slots, rounds, requests
and payloads, under the named assumptions on the constants in the modules that declare
them (`NeedsAssumption`, `TimesAssumption`, ...) and the hypotheses in their statements.
Fifty-nine are listed in `PROJECT.json`; thirty-three of them state a property that a run checks.

**WorkExecution.** `TypeCorrect`, `ClaimantAlwaysExists`, `NoSlotOrphaned` (together
`NothingDanglesEver`), `OneCliAlways`.
None of them is inductive. `ClaimantExists` depends on which row a worker is about to
delete, so the invariant `Inv` adds `OwnsRow`: a worker between the insert of an attempt
and its claim or deletion owns that row alone, and no item is claimed by it. (Another
worker may take the queued attempt over and start it; what it cannot do is claim an item
with it.) `NoOrphanSlot` needs `Emptied` (at the delete, the slots of the row are given
back), `OneCliPerAttempt` needs `Linked` (an attempt whose CLI runs can not be linked
again), and all need `Placed`, what a worker remembers at which statement. Most of the
fifty actions touch none of this: they satisfy the footprint `Kept`, and the lemma
`KeptPreserves` discharges them together; six actions (`CreateAttempt`, `TakeSlot`,
`ClaimWorkItem`, `UndoSlots`, `DeleteAttempt`, `LinkSession`) get a proof of their own.
`NextInv` is the inductive step.

**Governance.** `TypeCorrect`, `EvidenceAlwaysClosesWork`, `VerdictsAlwaysRestOnChecks`,
`OneCheckerAlways`, `OutcomesStand`. The argument is monotonicity: a checker attempt that
ended keeps its outcome, one that exists keeps existing, a linked session stays linked,
an approved request stays approved (`Grows`). So what a process read several statements
ago is still true when it acts: `Fit` says, for each statement, which fact about the rows
the process relies on (a submitter past its check has a checker that ended; one past a
passed verdict, or past a maker that needs no check, has `Checked`). `OneChecker` says
that the unique index leaves one checker attempt, and its session one owner. The steps
are classified (`CheckerMove`, `ItemMove`, `VerificationMove`) and each class preserves
each conjunct.

**ExternalAction.** `TypeCorrect`, `OneSenderAlways`, `OneSuccessAlways`,
`RepliesStayTrue`, and `Refinement`: every behaviour of the row is one of
`IdempotentEffect`, with the owner as the holder and the request that was told of a
success as the one credited with it. The invariant adds `Bound` (the row and its payload
come and go together, and an owner exists exactly while it runs), `Told` (replies and
row agree), `Clocked` (no time read lies in the future) and `Fenced` (a request that is
about to call or waits within its times still owns the row, with the lease it wrote).

**WorkExecution with one worker** (`OneWorkerProofs`). `docs/deployment.md` supports one worker
process, and the daemon executes one wakeup at a time: `SoleWorker` says so, and every theorem of the
module is of the form `SoleWorker /\ Spec => ...`. Proved are `LiveAttemptIsClaimant`,
`OneActiveAttempt`, `ClosedByEvidence`, `AttemptLifecycle`, `SettledItemStays` and
`SlotsKeptWhileAttended`, for every number of items, attempts, slots, tries and retries. The argument is that the
attempts of an item end one after the other. `Top(w)` is the number of the attempt that `w` is
claimed by. Every older attempt has ended (`PastEnded`); at most one newer one exists, a *stray* that
never started and is the worker's that is building it, or one it left when it died
(`StraysFit`); a wakeup is queued only for the attempt after `Top(w)`, and only once that has
ended (`Waiting`). To these come what the worker remembers at each group of statements (`Trying`
and its like). Most actions move no row but along a few tables (`Moves`); the insert, the claim
and the delete, which change `Top` or make a stray, get a proof of their own. `SettledItemStays` is
the property whose first form did not survive the attempt: a failed item is reopened when recovery takes
a first wakeup up by a stale reading (section 6), so the property now says exactly who may reopen. For
a completed item it speaks of those that no approver decides; of the others it is false (`WorkApproval`).

**OperatorControl.** `TypeCorrect`, `OrderKept` (`StepsInOrder`), `CompletedStays`
(`CompletedItemsStay`), `CompletedIsDone` (`CompletedMeansDone` for a process that does not recur).
A promotion is overtaken only when its tick has lost the lease; while the lease is held the tick is
the only one that promotes, proposes and applies, and its reading of the items is out of date only
where an execution or a decision moved an item forward (`ItemMoves` is the table of these moves). A
start command is the only thing that writes beside a tick. A decision is pending only for the next
version, so what it says of the items still holds when it is applied.

**The systems around it** (`ComponentProofs`), each for every value of its constants:

- *Knowledge*, `ReviewsAccepted`: a caller between its transaction and its event has written the change
  request that carries its name, and no other transaction can accept the proposal again.
- *Acp*, `RuntimesDropped`: a runtime is named by the run that created it; only that run, or one that
  adopted it from the pool, brings it back, and neither does once it was unsuccessful; a handle that was
  dropped is in nobody's hands.
- *DeliveryClaim*, `DeliveriesStay`: a claim takes a number that nobody had, an owner exists exactly
  while the delivery is under way, and settlement is fenced by it.
- *Authority*, `AssigneesAgree`: the routing decision of a key never changes once inserted; a call that
  lost the insert reads it again, and everything behind the route follows the row.
- *Directory*, `ChangesCarriedOnce`: the call that inserted the row is the only one that gets to the
  commit, so a second pull request has nobody to open it.
- *Portfolio*, `OnePrimaryKept`: of all commands three change links. Two insert where no primary
  can be; the third demotes the others in its own transaction.
- *DependencyScheduler*, `DependenciesKept`: a tick that decides has read every dependency there was at
  the first tick, and an item it saw completed was completed.
- *AttemptEvidence*, `EvidencesComplete`: a session belongs to the attempt that opened it (`Single`), an
  attempt that runs is the only one that writes its workspace, and what is recorded of a file is
  recorded once, after it was copied and while the workspace can no longer change (`Copies`).
  `Concludes` says what is already known at each statement on the way to a success, `Inherits` and
  `Judges` what a retry and a checker were given to start from, which later steps do not touch.
- *Delegation*, `DelegationsKept`: a key has one child, made for an agent that was hired, and a callback
  follows a child that has ended (`Begotten`, `Resumed`). A workspace is released only by who holds
  its lock, and the holder has seen that no attempt runs in it, that no process is bound to it and,
  before the release, that every child that was given it has ended (`Settles`); children of an attempt
  that is over are not joined by new ones, so this stays true. It assumes `Setups`: no action is
  called like a holder of the lock.

**The platform beneath them** (`PlatformProofs`), likewise:

- *LoopRun*, `OccurrencesKept`: what a tick has before it are occurrences that follow one another, and
  those before the first of them have their runs; so a tick that dies half way leaves no gap
  behind the newest run, which is where the next one begins.
- *LiveFeed*, `EventsSeen`: everything up to an event on the wire was seen by the client or is ahead of
  it on the wire, and so is everything up to what the stream counts as sent. Duplicates and lost
  connections leave that as it is. A stream that drains its queue while more rows wait than one replay
  sends does not: these clients are `flooded` (section 6).
- *RemoteTarget*, `OwnWorkRestored`: while a run works on a machine it has to itself, the machine holds
  no edits but its own, runs no command but its own, and every other run that names the machine
  has ended or not yet resumed it. With docker the worktree itself is what the command writes.
- *Migrations*, `UpgradesKeepWork`: what a process that is past a group of statements left behind
  (`Left`: tables, columns, numbers of events, no legacy item) is not taken away by those that work
  beside it, and nobody who works makes a row that a later migration would treat as legacy. It
  assumes `Versions`: a database that an upgrade begins with has no row that somebody is at work on.
  A live row is one written by a process of the current version, so none exists before one is ready.
- *Gateway*, `AnswersTrue`: what a client has heard of a run, by frame or by poll, was true when it was
  sent, and a run that ended never changes its outcome; so what was heard of an end is still true when
  the answer is made of it.
- *AgentCli*, `ResultsTrue`: what a call will have taken in the end is what it has taken and what its
  buffer holds (`Told`), and an event joins it by either way once. What the events of a buffer add up
  to is proved for buffers of any length: were it ever otherwise, there would be a least number of
  events for which it is, and the event before it would already have added up to the wrong thing.
- *Sessions*, `TranscriptsComplete`: a run that has lost no line has as many events in its session as it
  sent lines (`Transcribed`), and a number is given to an event only when no event has it
  (`OnePerNumber`), whoever else numbers events of the session.
- *Definitions*, `DefinitionsLearned`: the last entry of a loop in the worker's queue says whether the
  source has it, and the last reconciliation of agents knows which there are; so when the queue is
  empty, what the worker runs is what the source holds, but for definitions whose last change nobody
  was told of (`Known`). A scan that nothing else overlaps has read what the disk says of each
  definition it is done with (`CleanScans`), and without edits every scan and load has (`Unedited`).
  It assumes `Sources`: definitions are finitely many, and the worker is neither one nor a request.
  The proof attempt found the property true of the run's bounds only: two scans of one source may
  overlap, and the one that ends last may have read an older file. The property now asks that a clean
  scan begins alone, and speaks of a missed definition where no file was edited.

`SystemsProofs` carries these over to the instances that `Systems` checks, so that what TLC
evaluates and what is proved is one formula: the focus never changes (`FocusStays`), a behaviour of
a focus begins and goes on as the component does (`...Starts`, `...Steps`), and outside of its focus
a property says nothing. Two of the properties speak of two components each: `EvidenceHolds` rests on Sessions
and AttemptEvidence, `ResultsHold` on AgentCli and Gateway. The module rests on four assumptions about the
model values of the run: the one for nobody is none of the others (`NobodyIsNone`), no action is called like
a holder of a lock (`NamesAreNoStates`), who cancels is not a run (`CallersAreNoRuns`), and the worker is neither
a definition nor a request (`WorkerIsApart`). The steps of `MCSystems`
that offer an attempt fewer files than the component are shown to be among its steps with the invariant's help
(`AttemptSteps`).

**Only model-checked.**

- Liveness (its proof needs ENABLED, which the provers here do not support): `WakeupSettles`,
  `AttemptEnds`, `KeepsEvaluating`.
- `OneActiveAttempt` and `ClosedByEvidence` of two and more workers. The run checks them for two on one
  item with two tries; their invariant relates attempt numbers, claims and what every worker remembers.
- `CompletedMeansDone` of a recurring process (a decision about the process that waits while the
  run is pointed to its review and back would have to be excluded).
- `PagesComplete` and `TranscriptFaithful`: they rest on how many rows a set of them has and on sequences
  that grow row by row.
- The rest of `Systems`: its `TypeOK` and `NoLineLost` (section 7).

`ChecksTheCompletedWork` and `EveryRoundCheckable` do not hold (section 6).

## 5. What is not modelled

See `components` in `PROJECT.json`. In short:

- *text*: prompts, transcripts, redaction, parsing of CLI output, the fields of definition files, exports;
- *views*: the web board, the routes that only read, cost tables and charts, search and scoring
  of memory, signals and facts;
- *row mapping and schemas*: the contracts and the functions that turn rows
  into objects are a large part of the repository and hold no protocol; enumerations of
  statuses and unique indexes appear in the models as alphabets and guards;
- *sequential programs*: manual and plan-only runs, the compilation of profiles, skills,
  tools, full export and import;
- *infrastructure*: identity, authentication, configuration, observability, Git commands;
- *code without a caller in the daemon*: `Scheduler.fire`, the kill switch, gate, ledger and
  worktrees of `packages/loops`, the local and docker sandbox drivers;
- *`recoverMissedExecutableWakeups`*: at its start a daemon queues finished wakeups of commands again
  that never got a workflow run. The wakeups of `WorkExecution` belong to items of a run and are passed
  over by it, retries included;
- *overrides by hand*: the statuses a person may write over an item, other than the move back
  to ready;
- *amounts*: tokens and cost (a budget is a refusal, a breach, or a number of runs).

## 6. Where code and documentation disagree

Each of the first five is a run whose property is violated by what the code does; the trace TLC
prints is the scenario.

1. `WorkCancel`: a CLI that ends before the one-second poll sees the cancellation makes
   the runner ask for a transition that `cancelling` does not allow; the attempt the
   operator cancelled is settled as failed, and its item is retried.
2. `WorkRetry`: a retry wakeup that finds a slot busy queues the retry of the previous
   attempt again, under its own key; the insert is dropped, the wakeup is finished and
   the item stays ready with nothing to wake it.
3. `WorkApproval`: the attempt succeeds, its item waits for the approver, and the worker dies before
   its wakeup is finished. The claim is stale, the attempt is neither live nor retryable, so
   recovery fails the wakeup's item: `failDurableWakeupWork` does not count the awaiting
   statuses as ended, and writes without a condition on what it read. The approver decides
   between the read and the write, and the item goes from completed to failed. The same restart while a
   checker runs fails an item whose attempt succeeded and whose verification is pending.
4. `GovernanceRework`: a verification that a crashed round left pending is reused by the
   next round; its verdict is about the work of the earlier attempt.
5. `GovernanceRecheck`: every checker attempt of an item has number 1, so the unique
   index refuses the checker of a second verification.

What follows was met while modelling. The models take the code as it is, and the properties
are stated so that they hold of it; these notes say what they do not promise.

**Execution.** An interrupt that arrives while evidence is persisted becomes a permanent
cancellation; recovery may reopen an item that was blocked; a crash inside recovery between
the mark of the wakeup and the write of the item strands the item, and so does one between a
verdict and the move of its item; a second worker that takes over a queued attempt may start
it while its creator gives it up, and the creator then deletes a running attempt; a worker
that comes back after its item ended writes over the end; one whose claim fails deletes the row of an
attempt that another worker took over and ran to success, and the item stays ready. With three tries
recovery may reopen a failed item even in a deployment of one worker: the branch of `recoverStaleClaims` for lost
attempts does not look at the item's status, so that the first wakeup, if it is still claimed, brings back what the
last one gave up. Reservations of lost attempts are
never settled. Most need overlapping workers or a crash inside recovery, which
`docs/deployment.md` names as gaps.

**Operator control.** `docs/architecture.md:143` says "Startup recovery reconciles stale claims
and missed executable wakeups before normal polling." The wakeup of an operator run that failed
(dead worker, three errors) keeps its key, and nothing inserts it again until the version moves.
The start decision takes the sequence number of the next tick under another key: while it is
proposed and not applied, every later tick fails on it. A tick completes its run (`operator.ts:251`) without
looking at the workflow the run points to by then: a command that starts the next process while a tick of the last one is about
to complete the run leaves a run that is completed and a workflow that has not begun
(`CompletedMeansDone` fails with `Recurring = FALSE` and `Impatient = TRUE`). A worker suspended
for more than 30 seconds between its reading of the items and its promotion writes `ready` over a step that another
tick has promoted, dispatched and completed meanwhile (`operator.ts`, `promoteReadyItems`; `CompletedItemsStay` fails with
`Overruns = TRUE` on a chain of three steps).

**Scheduler.** A tick writes by statuses it read long before, without a condition
(`scheduler.ts:114`); a dependency that is added after a tick read the edges is not honoured by
it. `addWorkItemDependency` reads every edge and then inserts: two inserts may close a cycle,
whose items wait for ever. `executeLegacyWakeup` dispatches items that are still `proposed`
without looking at their dependencies.

**Delivery.** The row a claim reads again may belong to another request by then, and the
loser of the claim goes on as its owner: both push, which the host's single pull request makes harmless.
An item that was reopened can not record a new commit.

**Company.** Two calls of `setAuthorityEdge` may close a cycle of commands, each having checked
without the other (`control-plane.ts:84`). A decision to approve and one to reject an autonomy
proposal overwrite each other. A retired service agent is revived by a heartbeat that had read it
before. Pausing a project writes `blocked`, while `startProcessRun` refuses only paused,
completed, cancelled and archived ones; a resume activates a scope without the founder's approval; `objectiveStatusSchema` lacks
the `completed` that `evaluateObjective` writes. A callback may be queued for a workspace that the
worker releases beside the recovery.

**Managers.** An action that fails behind `queueDelegatedWork` or `bind_process` leaves its attempt without
`retain`: the workspace is dropped while the wakeup or the binding names it, and the callback is never
queued. `daemon-implementation.ts:1576` says "The lock is the runtime-liveness authority", but the
first run of a manager holds no lock on its workspace. A child that ends unverified never resumes its manager; a milestone with a
sequence number that is taken is ignored and recorded as succeeded; a hire whose skills are refused leaves a directory without
`AGENT.md`; a workspace that only a process binding retains is never released after the process is
bound elsewhere; a retried attempt that repeats a delegation keeps its own workspace for ever.

**Loops.** A crash between the creation of a run and its end leaves it queued, and every later
occurrence of a loop that does not always enqueue is held back by it; a run by hand swallows the
occurrences that were missed before it; items of a failed run stay undispatched; a second tick that
replays a run may settle it while the first still creates its items.

**Knowledge.** A review that rejects or withdraws always fails: `curator.ts:168` writes the
action (`reject`) as the status, and `knowledgeProposalStatusSchema` (`rejected`) refuses it, though
`process-improvement.ts:26` calls a proposal reviewable and the web page has a button for it. Two
evaluations at once collide on the proposal's id and the later one ends with an error; a crash
between the review and its event loses the operator's wakeup for good; two ingestions at once store
a content twice; nothing applies a knowledge change request.

**Sessions.** A comment (`sessions.ts:529`) says that a transient error that is thrown is retried by
the loop; the loop is inside the `try`, so the call leaves with the result of the attempt before, or none, and
the row stays `running`. A normal return does not remove the registration, so that a cancellation
of a finished session turns its row into `cancelled`; a row that was cancelled, stopped or paused while its run
went on is overwritten by the completion.

**Command lines.** `acquireLock` (opencode) returns its release without awaiting its turn, though
the comments promise that it "blocks until we have it": CLIs of two processes run together; a call
that waited ten seconds fails with a lock timeout although its CLI finished; the lock of a live
process may be unlinked by one that read an older holder. The unfinished last line registers a child that is gone;
opencode in a runtime is never registered, so it can not be cancelled.

**ACP.** The use of a runtime is stamped when its session starts, so a long run is closed as idle by
another one; two first runs of a key replace one another's pool entry and leave a session open
that nobody closes; a run whose entry was dropped meanwhile fails on it.

**Remote machines.** Six of the drivers write the archive of a worktree as UTF-8 text
(`e2b-driver.ts:190` and its like), which a gzip file does not survive: every run with a directory
fails in its preparation there; Daytona's keeps the bytes. A release for reuse does nothing for the
providers without a pause, though the comment in `sdk-sandbox-driver.ts:51` expects it to destroy
the machine. A failure after the creation leaves the machine. The first of two runs on one lease
pauses or destroys the machine of the other, hence "had its machine to itself" in
`OwnWorkComesHome`. Ssh ignores a failed copy home (`ssh/index.ts:236`), hence its exception there.

**Telemetry.** Usage metrics have no unique key (`claude.ts:30` says that they are deduplicated), and
a change event reads a file from its start: usage is counted again. A change of a skipped file
imports what was skipped; an import by hand keeps a position that makes a later line collide with one
that is stored; a watcher that begins with a file that was cut keeps its parser state. With two watchers that
backfill, `NoLineLost` does not hold. The cursor of traces and of sessions is an offset in text
(`encodeCursor(String(offset))`) that `decodeCursor` never takes: every page is the first, and the
paging does not end. A ranged export asks `telemetry_sessions` for `observed_at`, a column it does
not have. `canonical.ts:148` calls retries of OTLP idempotent, but exported metrics carry no key:
a retried batch doubles the cost. `otlp.ts:24` says that partial records are reported, but a span
without ids is passed over, while duplicates are reported as rejected. An ingest that failed
altogether answers 200. `publish.ts:13` says that a reconnecting client can replay what it missed;
a stream that drains an event while more than a thousand rows wait goes on behind them (`flooded`
in `LiveFeed`), and every event of the process itself is sent twice. The observer page asks for logs in
the order of their random ids and misses most new ones. A backfill writes `backfilled` over the
status of a session; lines that a run emitted and a backfill reads again have other keys and are stored
twice; a backfill after the retention makes the deleted rows again. A dashboard that does not
exist and is made the default clears the default of the others before it answers 404.

**Database.** `docs/deployment.md:5` wants every API and worker stopped before an upgrade, but
`runMigrations` runs in every page of the web board as well, on the live database. The phase that
creates tables makes indexes on columns that only the next phase adds
(`execution_work_items.workflow_run_id`, `workflow_runs.source_type`,
`agent_attempts.verification_id`): a database from before those columns cannot be upgraded. An item
that a person moved to an awaiting status without a commit is blocked as a legacy delivery by the next
page that is looked at; a blocked legacy item that runs again keeps its failed delivery.

**Other services.** Hermes: when the deadline passes and its timer has not fired yet, the call returns exit code 0 as
timed out, with a run that goes on and is not told to stop; a poll that fails, or an answer without a run id, leaves the
run alone. Cursor: polls do not check `ok` (`cursor-cloud/index.ts:112`), so an error page without
a status counts as completed; without an agent id or a status URL the first answer is the result, even one that says running. Neither Cursor nor OpenClaw
stops its run at the service; an abort of OpenClaw closes the socket and its waiter hangs until its timer. Hence
`ResultIsTrue` of Gateway speaks of what was heard, and of runs that could be stopped.

**Definition files.** The log says "watcher change failed; loop disabled" (`loop-source.ts:44`); a loop whose file is broken or
gone falls back to the built-in pattern of its name instead. Removing any sidecar drops the whole definition until the scan of the
next minute; a slow load may overwrite a newer one until then, so may the slower of two scans that overlap, and a
definition is read file by file while it changes. A loop that is removed between the first listing and its `watch` stays registered. A second request of
the API that joins a source under way may answer 404 for a loop that exists, or stop the watcher under another
that waits for it.

**Evidence of attempts.** `deliveryCommitSha` is never cleared: once an attempt has recorded its commit and then crashes, is
cancelled or fails, every retry ends with "Maker commit evidence is immutable" (`store-implementation.ts:1695`).
A runtime that reports another identity with its result throws outside of every handler of the plan runner:
the session stays `running` and nothing is kept. The status of an attempt is not looked at before its CLI starts, so one that
was declared lost runs. A crash between the completion of an attempt and `recordGeneralWorkEvidence` leaves a success without a
report. A retry restores what the latest attempt with any artifact left, complete or not. `matchesPath`
takes `src/**` to cover `srcfoo/x`.

**Opencode.** An `error` event turns exit code 0 into 1 only in the local variant. A company action
without a call id is never recorded. `auth.json`, `mcp.json` and `opencode.json` are read, changed and
written; one that cannot be parsed is taken as empty and overwritten. Two starts of a server under one
key both pass the check and leave one of the two servers without an owner.

## 7. Plan

1. Proofs of the remaining properties of `Systems`, in the order of what they say about the system:
   `NoLineLost` (SessionImport; what lies before a position was stored), then `PagesComplete`
   (TelemetryStore).
2. `OneActiveAttempt` for any number of workers, with the invariant that a number is claimed by the row
   that carries it and that a worker about to insert has seen no active row or will meet the index;
   then `ClosedByEvidence`.
3. `AttemptLedger`, an abstract specification of an item with its attempts (one active
   attempt, settled once) that `WorkExecution` with one worker implements, so
   that `Governance`'s `Claim`, `MakerSucceeds`, `MakerFails` rest on it instead of on
   its own reading of the code. `SoleInv` has what the refinement needs.
4. Deliveries and the commands of `CompanyCommandService` as implementations of
   `IdempotentEffect`, where they promise as much.
