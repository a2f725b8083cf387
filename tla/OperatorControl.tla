--------------------------- MODULE OperatorControl ---------------------------
(***************************************************************************)
(* The control loop of one operator run (a manager's process): a command   *)
(* compiles a process definition into a workflow and points the run to it; *)
(* wakeups make workers tick the run under a lease, each tick proposes and *)
(* applies one decision; what was dispatched is executed, what completed   *)
(* is rolled up, and a recurring process goes on with a review workflow.   *)
(***************************************************************************)
EXTENDS Integers, FiniteSets

CONSTANTS
  Worker, NoWorker,
  Step,            \* the steps of the process definition
  DependsOn,       \* [Step -> SUBSET Step], acyclic
  Review,          \* the one step of a review workflow
  LastFlow,        \* bound: workflows 1 .. LastFlow
  LastVersion,     \* bound: state versions of the run
  MaxAttempts,     \* of a work item
  Tries,           \* executions of one claimed wakeup
  Recurring,       \* the process binding has a schedule
  Overruns,        \* a tick may outlive its lease of 30 seconds
  Impatient        \* a command may start a process while a tick is at work

ASSUME NamesAssumption == NoWorker \notin Worker /\ Review \notin Step
ASSUME DependsAssumption == DependsOn \in [Step -> SUBSET Step]
ASSUME BoundsAssumption ==
  /\ {LastFlow, LastVersion, MaxAttempts, Tries} \subseteq Nat \ {0}
  /\ {Recurring, Overruns, Impatient} \subseteq BOOLEAN

VARIABLES
  run,       \* row of execution_operator_runs
  decision,  \* rows of execution_control_decisions, by sequence number
  lease,     \* the unreleased row of execution_operator_leases
  item,      \* work items of every workflow
  wake,      \* wakeups, by workflow and state version (0: the start command's)
  escalated, \* workflows with an open escalation
  accepted,  \* workflows whose milestone was rolled up
  worker,    \* where a worker stands
  starter    \* the command start_process_run in progress

vars == <<run, decision, lease, item, wake, escalated, accepted, worker, starter>>

Flow == 1 .. LastFlow
IsReview(f) == Recurring /\ f % 2 = 0
StepsOf(f) == IF IsReview(f) THEN {Review} ELSE Step
Needs(s) == IF s = Review THEN {} ELSE DependsOn[s]

RunStatus == {"idle", "evaluating", "waiting", "blocked", "completed", "failed"}
Ended == {"completed", "failed", "blocked"}
ItemStatus == {"none", "proposed", "ready", "in_progress", "awaiting", "completed", "failed"}
Action == {"start_process", "wait", "complete", "escalate", "dispatch"}
NoDecision == [action |-> "none", target |-> Review, flow |-> 0, status |-> "none"]
WakeStatus == {"none", "queued", "claimed", "completed", "failed"}
TickPC == {"read", "list", "promote", "decide", "propose", "load", "bump", "mark",
           "effect", "block", "settle", "unwind"}
PC == TickPC \union {"idle", "enter", "execute", "await", "queue", "finalize", "review", "finish"}
StarterPC == {"idle", "compile", "point", "propose", "load", "bump", "mark", "announce", "done"}
Key == Flow \X (0 .. LastVersion)
AtRest == [pc |-> "idle", wake |-> <<1, 0>>, tries |-> 0, ver |-> 0, flow |-> 0,
           snap |-> {}, seq |-> 1, plan |-> <<"wait", Review>>]

TypeOK ==
  /\ run \in [status: RunStatus, version: 0 .. LastVersion, flow: 0 .. LastFlow,
              wakeAt: {"none", "later", "due"}]
  /\ decision \in [1 .. LastVersion ->
       [action: Action \union {"none"}, target: Step \union {Review}, flow: 0 .. LastFlow,
        status: {"none", "proposed", "applied"}]]
  /\ lease \in [holder: Worker \union {NoWorker}, expired: BOOLEAN]
  /\ item \in [Flow -> [Step \union {Review} -> [status: ItemStatus, tries: 0 .. MaxAttempts]]]
  /\ wake \in [Key -> WakeStatus]
  /\ escalated \subseteq Flow /\ accepted \subseteq Flow
  /\ worker \in [Worker -> [pc: PC, wake: Key, tries: 0 .. Tries, ver: 0 .. LastVersion,
                            flow: 0 .. LastFlow, snap: SUBSET (Step \union {Review}),
                            seq: 1 .. LastVersion + 1,
                            plan: Action \X (Step \union {Review})]]
  /\ starter \in [pc: StarterPC, flow: 0 .. LastFlow, ver: 0 .. LastVersion]

Init ==
  /\ run = [status |-> "idle", version |-> 0, flow |-> 0, wakeAt |-> "none"]
  /\ decision = [n \in 1 .. LastVersion |-> NoDecision]
  /\ lease = [holder |-> NoWorker, expired |-> FALSE]
  /\ item = [f \in Flow |-> [s \in Step \union {Review} |-> [status |-> "none", tries |-> 0]]]
  /\ wake = [k \in Key |-> "none"]
  /\ escalated = {} /\ accepted = {}
  /\ worker = [w \in Worker |-> AtRest]
  /\ starter = [pc |-> "idle", flow |-> 0, ver |-> 0]

-----------------------------------------------------------------------------
At(w, pc) == worker[w].pc = pc
Goto(w, pc) == worker' = [worker EXCEPT ![w].pc = pc]
Status(f, s) == item[f][s].status
AllCompleted(f) == \A s \in StepsOf(f) : Status(f, s) = "completed"
SetItem(f, s, status) == item' = [item EXCEPT ![f][s].status = status]
Throw(w) == Goto(w, "unwind")

\* An insert of a wakeup whose key exists is dropped.
Enqueue(k) == wake' = [wake EXCEPT ![k] = IF @ = "none" THEN "queued" ELSE @]

\* The insert of a decision: the sequence number is unique in the run, and the
\* idempotency key of a tick is its sequence number.
Free(n) == decision[n] = NoDecision
StartsOf(f) == {n \in 1 .. LastVersion :
                  decision[n].action = "start_process" /\ decision[n].flow = f}
WorkIsActive == \E f \in Flow : ~IsReview(f) /\
  \E s \in Step : Status(f, s) \in {"proposed", "ready", "in_progress", "awaiting"}

-----------------------------------------------------------------------------
(* The command start_process_run.                                          *)

MoveStarter(pc) == starter' = [starter EXCEPT !.pc = pc]

\* The next process is started by the command of a person, or by the manager who
\* reviews the previous cycle; the project must have no other process at work.
\* A command that failed or died may be repeated.
BeginStart(f) ==
  /\ ~IsReview(f)
  /\ \/ starter.pc = "idle" /\ starter.flow = f
     \/ starter.pc \in {"idle", "done"} /\ starter.flow < f /\ ~WorkIsActive
        /\ f = IF Recurring /\ starter.flow # 0 THEN starter.flow + 2 ELSE starter.flow + 1
  /\ IF Recurring /\ f > 1 THEN \E w \in Worker : At(w, "await") /\ worker[w].flow = f - 1
     ELSE Impatient \/ f = 1 \/ run.flow = f \/ run.status \in Ended
  /\ starter' = [pc |-> "compile", flow |-> f, ver |-> 0]
  /\ UNCHANGED <<run, decision, lease, item, wake, escalated, accepted, worker>>

\* The workflow, its items and their dependencies: inserts keyed by the command,
\* of rows that nobody reads before the run points to the workflow.
Compile ==
  /\ starter.pc = "compile"
  /\ MoveStarter("point")
  /\ item' = [item EXCEPT ![starter.flow] = [s \in DOMAIN @ |->
       IF s \in Step /\ @[s].status = "none"
       THEN [@[s] EXCEPT !.status = IF Needs(s) = {} THEN "ready" ELSE "proposed"]
       ELSE @[s]]]
  /\ UNCHANGED <<run, decision, lease, wake, escalated, accepted, worker>>

Point ==
  /\ starter.pc = "point"
  /\ run' = [run EXCEPT !.flow = starter.flow, !.status = "evaluating", !.wakeAt = "none"]
  /\ starter' = [starter EXCEPT !.pc = "propose", !.ver = run.version]
  /\ UNCHANGED <<decision, lease, item, wake, escalated, accepted, worker>>

\* The start decision takes the sequence number of the next tick under a key of
\* its own; when a tick has that number the command fails.
ProposeStart ==
  LET n == starter.ver + 1 IN
  /\ starter.pc = "propose" /\ n <= LastVersion
  /\ CASE StartsOf(starter.flow) # {} -> MoveStarter("load") /\ UNCHANGED decision
       [] StartsOf(starter.flow) = {} /\ Free(n) ->
            /\ MoveStarter("load")
            /\ decision' = [decision EXCEPT ![n] = [NoDecision EXCEPT
                 !.action = "start_process", !.flow = starter.flow, !.status = "proposed"]]
       [] OTHER -> MoveStarter("idle") /\ UNCHANGED decision
  /\ UNCHANGED <<run, lease, item, wake, escalated, accepted, worker>>

StartSeq == CHOOSE n \in StartsOf(starter.flow) : TRUE

LoadStart ==
  /\ starter.pc = "load"
  /\ MoveStarter(IF decision[StartSeq].status = "applied" THEN "announce" ELSE "bump")
  /\ UNCHANGED <<run, decision, lease, item, wake, escalated, accepted, worker>>

BumpStart ==
  /\ starter.pc = "bump"
  /\ IF run.version = StartSeq - 1
     THEN MoveStarter("mark") /\ run' = [run EXCEPT !.version = StartSeq]
     ELSE MoveStarter("idle") /\ UNCHANGED run          \* "stale operator decision"
  /\ UNCHANGED <<decision, lease, item, wake, escalated, accepted, worker>>

MarkStart ==
  /\ starter.pc = "mark"
  /\ MoveStarter("announce")
  /\ decision' = [decision EXCEPT ![StartSeq].status = "applied"]
  /\ UNCHANGED <<run, lease, item, wake, escalated, accepted, worker>>

\* The transaction that queues the first wakeup of the process.
Announce ==
  /\ starter.pc = "announce"
  /\ MoveStarter("done")
  /\ Enqueue(<<starter.flow, 0>>)
  /\ UNCHANGED <<run, decision, lease, item, escalated, accepted, worker>>

\* The process that executes the command dies; the command may be repeated.
CrashStarter ==
  /\ starter.pc \notin {"idle", "done"}
  /\ MoveStarter("idle")
  /\ UNCHANGED <<run, decision, lease, item, wake, escalated, accepted, worker>>

-----------------------------------------------------------------------------
(* A worker: claim, tick, execute, roll up.                                *)

Claim(w, k) ==
  /\ At(w, "idle") /\ wake[k] = "queued"
  /\ wake' = [wake EXCEPT ![k] = "claimed"]
  /\ worker' = [worker EXCEPT ![w] = [AtRest EXCEPT !.pc = "enter", !.wake = k, !.tries = 1]]
  /\ UNCHANGED <<run, decision, lease, item, escalated, accepted, starter>>

\* A wakeup of another workflow is finished; otherwise the lease is taken,
\* after leases that ran out were released.
Enter(w) ==
  /\ At(w, "enter")
  /\ CASE run.flow # worker[w].wake[1] -> Goto(w, "finish") /\ UNCHANGED lease
       [] run.flow = worker[w].wake[1] /\ (lease.holder = NoWorker \/ lease.expired) ->
            Goto(w, "read") /\ lease' = [holder |-> w, expired |-> FALSE]
       [] OTHER -> Throw(w) /\ UNCHANGED lease
  /\ UNCHANGED <<run, decision, item, wake, escalated, accepted, starter>>

ReadRun(w) ==
  /\ At(w, "read")
  /\ IF run.status \in Ended
     THEN /\ Goto(w, "finish")
          /\ lease' = IF lease.holder = w THEN [holder |-> NoWorker, expired |-> FALSE] ELSE lease
     ELSE /\ worker' = [worker EXCEPT ![w].pc = "list", ![w].seq = run.version + 1,
                                      ![w].flow = run.flow]
          /\ UNCHANGED lease
  /\ UNCHANGED <<run, decision, item, wake, escalated, accepted, starter>>

\* promoteReadyItems reads all statuses at once ...
RipeMutant(f, s) ==
  Status(f, s) = "proposed" /\ \A d \in Needs(s) : Status(f, d) # "failed"
Ripe(f, s) ==
  Status(f, s) = "proposed" /\ \A d \in Needs(s) : Status(f, d) = "completed"

ListItems(w) ==
  LET f == worker[w].flow IN
  /\ At(w, "list")
  /\ worker' = [worker EXCEPT ![w].pc = "promote", ![w].snap = {s \in StepsOf(f) : Ripe(f, s)}]
  /\ UNCHANGED <<run, decision, lease, item, wake, escalated, accepted, starter>>

\* ... and then writes "ready" over each, unconditionally.
Promote(w, s) ==
  /\ At(w, "promote") /\ s \in worker[w].snap
  /\ SetItem(worker[w].flow, s, "ready")
  /\ worker' = [worker EXCEPT ![w].snap = @ \ {s}]
  /\ UNCHANGED <<run, decision, lease, wake, escalated, accepted, starter>>

ChoicesMutant(f) ==
  LET at(S) == {s \in StepsOf(f) : Status(f, s) \in S} IN
  IF at({"ready", "proposed", "in_progress", "failed"}) = {} THEN {<<"complete", Review>>}
  ELSE IF at({"failed"}) # {} THEN {"escalate"} \X at({"failed"})
  ELSE IF at({"ready"}) # {} THEN {"dispatch"} \X at({"ready"})
  ELSE {<<"wait", Review>>}
Choices(f) ==
  IF AllCompleted(f) THEN {<<"complete", Review>>}
  ELSE LET failed == {s \in StepsOf(f) : Status(f, s) = "failed"}
           ready == {s \in StepsOf(f) : Status(f, s) = "ready"}
       IN  IF failed # {} THEN {"escalate"} \X failed
           ELSE IF ready # {} THEN {"dispatch"} \X ready
           ELSE {<<"wait", Review>>}

Decide(w) ==
  /\ At(w, "promote") /\ worker[w].snap = {}
  /\ \E c \in Choices(worker[w].flow) :
       worker' = [worker EXCEPT ![w].pc = "propose", ![w].plan = c]
  /\ UNCHANGED <<run, decision, lease, item, wake, escalated, accepted, starter>>

\* A decision of the same number is adopted if a tick made it.
Propose(w) ==
  LET n == worker[w].seq IN
  /\ At(w, "propose") /\ n <= LastVersion
  /\ IF Free(n) THEN decision' = [decision EXCEPT ![n] =
                       [action |-> worker[w].plan[1], target |-> worker[w].plan[2],
                        flow |-> worker[w].flow, status |-> "proposed"]]
     ELSE UNCHANGED decision
  /\ Goto(w, IF decision[n].action = "start_process" THEN "unwind" ELSE "load")
  /\ UNCHANGED <<run, lease, item, wake, escalated, accepted, starter>>

Decided(w) == decision[worker[w].seq]

Load(w) ==
  /\ At(w, "load")
  /\ Goto(w, IF Decided(w).status = "applied" THEN "effect" ELSE "bump")
  /\ UNCHANGED <<run, decision, lease, item, wake, escalated, accepted, starter>>

Bump(w) ==
  /\ At(w, "bump")
  /\ IF run.version = worker[w].seq - 1
     THEN Goto(w, "mark") /\ run' = [run EXCEPT !.version = @ + 1]
     ELSE Throw(w) /\ UNCHANGED run                     \* "stale operator decision"
  /\ UNCHANGED <<decision, lease, item, wake, escalated, accepted, starter>>

Mark(w) ==
  /\ At(w, "mark")
  /\ Goto(w, "effect")
  /\ decision' = [decision EXCEPT ![worker[w].seq].status = "applied"]
  /\ UNCHANGED <<run, lease, item, wake, escalated, accepted, starter>>

\* The effects of an applied decision on the run.
Wait(w) ==
  /\ At(w, "effect") /\ Decided(w).action = "wait"
  /\ run' = [run EXCEPT !.status = "waiting", !.wakeAt = "later"]
  /\ Goto(w, "settle")
  /\ UNCHANGED <<decision, lease, item, wake, escalated, accepted, starter>>

Complete(w) ==
  /\ At(w, "effect") /\ Decided(w).action = "complete"
  /\ run' = [run EXCEPT !.status = "completed"]
  /\ Goto(w, "settle")
  /\ UNCHANGED <<decision, lease, item, wake, escalated, accepted, starter>>

CreateEscalation(w) ==
  /\ At(w, "effect") /\ Decided(w).action = "escalate"
  /\ escalated' = escalated \union {worker[w].flow}
  /\ Goto(w, "block")
  /\ UNCHANGED <<run, decision, lease, item, wake, accepted, starter>>

Block(w) ==
  /\ At(w, "block")
  /\ run' = [run EXCEPT !.status = "blocked"]
  /\ Goto(w, "settle")
  /\ UNCHANGED <<decision, lease, item, wake, escalated, accepted, starter>>

\* The worker gives the tick no provider: it executes the item after the tick.
Dispatch(w) ==
  /\ At(w, "effect") /\ Decided(w).action = "dispatch"
  /\ Goto(w, "settle")
  /\ UNCHANGED <<run, decision, lease, item, wake, escalated, accepted, starter>>

\* The tick returns the run as it is now and gives the lease back.
Settle(w) ==
  /\ At(w, "settle")
  /\ lease' = IF lease.holder = w THEN [holder |-> NoWorker, expired |-> FALSE] ELSE lease
  /\ worker' = [worker EXCEPT ![w].ver = run.version, ![w].flow = run.flow,
       ![w].pc = CASE Decided(w).action = "dispatch" -> "execute"
                   [] Decided(w).action = "complete" -> "finalize"
                   [] OTHER -> "finish"]
  /\ UNCHANGED <<run, decision, item, wake, escalated, accepted, starter>>

\* An error gives the lease back; the wakeup is tried again or marked failed.
\* It names no work item, so nothing else is failed.
Unwind(w) ==
  /\ At(w, "unwind")
  /\ lease' = IF lease.holder = w THEN [holder |-> NoWorker, expired |-> FALSE] ELSE lease
  /\ IF worker[w].tries < Tries
     THEN /\ worker' = [worker EXCEPT ![w].pc = "enter", ![w].tries = @ + 1]
          /\ UNCHANGED wake
     ELSE /\ worker' = [worker EXCEPT ![w] = AtRest]
          /\ wake' = [wake EXCEPT ![worker[w].wake] = IF @ = "claimed" THEN "failed" ELSE @]
  /\ UNCHANGED <<run, decision, item, escalated, accepted, starter>>

\* executeManagerWorkItem: an item that is not dispatchable (another attempt runs, a
\* retry is not yet due, a slot is taken) or is outside the workflow is an error.
Execute(w) ==
  LET f == worker[w].flow  s == Decided(w).target IN
  /\ At(w, "execute")
  /\ \/ /\ Decided(w).flow = f /\ Status(f, s) = "ready" /\ item[f][s].tries < MaxAttempts
        /\ item' = [item EXCEPT ![f][s] = [status |-> "in_progress", tries |-> @.tries + 1]]
        /\ Goto(w, "await")
     \/ Throw(w) /\ UNCHANGED item
  /\ UNCHANGED <<run, decision, lease, wake, escalated, accepted, starter>>

\* What one execution makes of its item: done, checked, retried or failed. The review
\* of a cycle must have started the next process.
Outcomes(f, s) ==
  {"failed"} \union (IF item[f][s].tries < MaxAttempts THEN {"ready"} ELSE {})
    \union (IF s # Review THEN {"completed", "awaiting"}
            ELSE IF starter = [starter EXCEPT !.pc = "done", !.flow = f + 1]
                 THEN {"completed"} ELSE {})

Executed(w) ==
  LET f == worker[w].flow  s == Decided(w).target IN
  /\ At(w, "await")
  /\ \E o \in Outcomes(f, s) : SetItem(f, s, o)
  /\ Goto(w, "queue") \/ Throw(w)
  /\ UNCHANGED <<run, decision, lease, wake, escalated, accepted, starter>>

\* A checker, an approval or a delivery settles the item later.
DecisionMutant(f, s) ==
  /\ Status(f, s) \in {"awaiting", "completed"}
  /\ \E o \in {"completed", "failed"} : SetItem(f, s, o)
  /\ UNCHANGED <<run, decision, lease, wake, escalated, accepted, worker, starter>>
Decision(f, s) ==
  /\ Status(f, s) = "awaiting"
  /\ \E o \in {"completed", "failed"} : SetItem(f, s, o)
  /\ UNCHANGED <<run, decision, lease, wake, escalated, accepted, worker, starter>>

\* queueManagerWake, keyed by the workflow and the version the tick returned.
QueueMutant(w) ==
  /\ At(w, "queue")
  /\ Enqueue(<<worker[w].flow, 0>>)
  /\ Goto(w, "finish")
  /\ UNCHANGED <<run, decision, lease, item, escalated, accepted, starter>>
Queue(w) ==
  /\ At(w, "queue")
  /\ Enqueue(<<worker[w].flow, worker[w].ver>>)
  /\ Goto(w, "finish")
  /\ UNCHANGED <<run, decision, lease, item, escalated, accepted, starter>>

\* finalizeManagerRun rolls the milestone up; a review has no verification to cite.
Finalize(w) ==
  LET f == worker[w].flow IN
  /\ At(w, "finalize")
  /\ CASE run.flow # f -> Goto(w, "finish") /\ UNCHANGED accepted
       [] run.flow = f /\ AllCompleted(f) /\ ~IsReview(f) ->
            /\ accepted' = accepted \union {f}
            /\ Goto(w, IF Recurring THEN "review" ELSE "finish")
       [] OTHER -> Throw(w) /\ UNCHANGED accepted
  /\ UNCHANGED <<run, decision, lease, item, wake, escalated, starter>>

\* scheduleRecurringProcessReview: a workflow of one item, due at the next cadence.
ScheduleReview(w) ==
  LET f == worker[w].flow + 1 IN
  /\ At(w, "review") /\ f <= LastFlow
  /\ IF Status(f, Review) = "none" THEN SetItem(f, Review, "proposed") ELSE UNCHANGED item
  /\ run' = [run EXCEPT !.flow = f, !.status = "waiting", !.wakeAt = "later"]
  /\ Goto(w, "finish")
  /\ UNCHANGED <<decision, lease, wake, escalated, accepted, starter>>

FinishWakeup(w) ==
  /\ At(w, "finish")
  /\ wake' = [wake EXCEPT ![worker[w].wake] = IF @ = "claimed" THEN "completed" ELSE @]
  /\ worker' = [worker EXCEPT ![w] = AtRest]
  /\ UNCHANGED <<run, decision, lease, item, escalated, accepted, starter>>

\* enqueueDueManagerRuns, at every poll of a worker that has nothing to do.
EnqueueDue(w) ==
  /\ At(w, "idle") /\ run.status = "waiting" /\ run.wakeAt = "due"
  /\ wake[<<run.flow, run.version>>] = "none"
  /\ Enqueue(<<run.flow, run.version>>)
  /\ UNCHANGED <<run, decision, lease, item, escalated, accepted, worker, starter>>

FallDue ==
  /\ run.wakeAt = "later"
  /\ run' = [run EXCEPT !.wakeAt = "due"]
  /\ UNCHANGED <<decision, lease, item, wake, escalated, accepted, worker, starter>>

\* Thirty seconds pass: the holder is dead, or (Overruns) suspended.
ExpireLease ==
  /\ lease.holder # NoWorker /\ ~lease.expired
  /\ Overruns \/ worker[lease.holder].pc \notin TickPC
  /\ lease' = [lease EXCEPT !.expired = TRUE]
  /\ UNCHANGED <<run, decision, item, wake, escalated, accepted, worker, starter>>

\* The worker dies and is restarted idle; its wakeup stays claimed.
Crash(w) ==
  /\ worker[w].pc # "idle"
  /\ worker' = [worker EXCEPT ![w] = AtRest]
  /\ starter' = IF Recurring /\ At(w, "await") /\ starter.pc # "done"
                THEN [starter EXCEPT !.pc = "idle"] ELSE starter
  /\ UNCHANGED <<run, decision, lease, item, wake, escalated, accepted>>

\* recoverStaleClaims: the wakeup of an operator run names no work item, so it is
\* marked failed and nothing else happens.
RecoverClaim(w, k) ==
  /\ At(w, "idle") /\ wake[k] = "claimed"
  /\ \A v \in Worker : At(v, "idle") \/ worker[v].wake # k
  /\ wake' = [wake EXCEPT ![k] = "failed"]
  /\ UNCHANGED <<run, decision, lease, item, escalated, accepted, worker, starter>>

-----------------------------------------------------------------------------
Start == \/ \E f \in Flow : BeginStart(f)
         \/ Compile \/ Point \/ ProposeStart \/ LoadStart \/ BumpStart \/ MarkStart \/ Announce
Tick(w) == \/ Enter(w) \/ ReadRun(w) \/ ListItems(w) \/ (\E s \in Step \union {Review} : Promote(w, s))
           \/ Decide(w) \/ Propose(w) \/ Load(w) \/ Bump(w) \/ Mark(w)
           \/ Wait(w) \/ Complete(w) \/ CreateEscalation(w) \/ Block(w) \/ Dispatch(w)
           \/ Settle(w) \/ Unwind(w)
Work(w) == \/ Execute(w) \/ Executed(w) \/ Queue(w) \/ Finalize(w) \/ ScheduleReview(w)
           \/ FinishWakeup(w)
Poll(w) == \/ \E k \in Key : Claim(w, k) \/ RecoverClaim(w, k)
           \/ EnqueueDue(w)
Settlement == \E f \in Flow : \E s \in Step : Decision(f, s)

Next == \/ Start \/ CrashStarter \/ Settlement \/ FallDue \/ ExpireLease
        \/ \E w \in Worker : Tick(w) \/ Work(w) \/ Poll(w) \/ Crash(w)

Spec == Init /\ [][Next]_vars

\* A worker that can take a step takes one in the end, the polls claim what is queued,
\* time passes, and what awaits a decision gets one.
Fairness == /\ \A w \in Worker : WF_vars(Tick(w) \/ Work(w) \/ Poll(w))
            /\ WF_vars(FallDue) /\ WF_vars(ExpireLease) /\ WF_vars(Settlement) /\ WF_vars(Start)
LiveSpec == Spec /\ Fairness

-----------------------------------------------------------------------------
(* Properties                                                              *)

\* A step of the process is taken up only when all it depends on is completed:
\* promotion reads the statuses once and writes "ready" without looking again.
StepsInOrder ==
  \A f \in Flow : \A s \in StepsOf(f) :
    Status(f, s) \in {"ready", "in_progress", "awaiting", "completed"}
      => \A d \in Needs(s) : Status(f, d) = "completed"

\* A run that is completed has completed all items of the workflow it points to,
\* although the decision was made on an earlier reading of them.
CompletedMeansDone == run.status = "completed" => AllCompleted(run.flow)

\* What is completed stays completed: no late promotion or execution reopens it.
CompletedItemsStay ==
  [][\A f \in Flow : \A s \in StepsOf(f) :
       Status(f, s) = "completed" => item'[f][s].status = "completed"]_vars

Active == run.flow # 0 /\ run.status \in {"evaluating", "waiting"} /\ run.version < LastVersion
WakeLost == \E k \in Key : wake[k] = "failed"
StartLost == starter.pc = "idle"

\* A run that is not at its end is evaluated again, unless one of its wakeups ended in
\* failure (dead worker, three errors) or the command that starts it did not finish.
KeepsEvaluating == []<>(~Active \/ WakeLost \/ StartLost)
=============================================================================
