----------------------------- MODULE Delegation -----------------------------
(***************************************************************************)
(* A manager's run and what it sets in motion: the company actions its CLI *)
(* posts to the loopback broker or reports when it ends, their application *)
(* one after the other (an agent is hired, work is delegated, a milestone  *)
(* or a recurring process is made), the callback that resumes the manager  *)
(* when a child reaches a terminal status, and the release of the          *)
(* disposable workspace kept for that.  A callback is queued by the worker *)
(* that ran the child or by the recovery that runs beside it.              *)
(***************************************************************************)
EXTENDS Integers, FiniteSets

CONSTANTS
  Action,       \* distinct actions, by fingerprint: also the agents they hire and their children
  Setup,        \* the cases of "setup" below
  MaxActions,   \* MAX_ACTIONS_PER_ATTEMPT
  MaxAttempts   \* bound: attempts of the manager's work item

VARIABLES
  setup,       \* [kind of the actions used, required: types the work item asks for, brokered,
               \* milestone: the project has one]
  attempt,     \* the manager's attempt: [number, running, ok: its CLI did well, kept: its
               \* workspace is retained, succeeded]
  broker,      \* "open", "closing" or "closed"; without a broker, until the result is dealt with
  request,     \* what the broker holds for a fingerprint, or the result reported
  applying,    \* the action being applied and the step it is at
  agent,       \* "none", "partial": files but no AGENT.md, "defined", or "hired"
  child,       \* delegated work item: [status, made: how many, from: the attempt whose workspace
               \* its wakeup names]
  callback,    \* callback work item of a child: [status, queued: wakeups]
  process,     \* [milestone, bound: the attempt whose workspace the binding names, run]
  recorded,    \* company.action.succeeded events: pairs of an action and an attempt
  workspace,   \* the disposable workspace of an attempt: "none", "ready", "dropped" by the attempt
               \* itself, "released", or "pulled": released under the running attempt
  lock,        \* who holds the lock of a workspace
  settler      \* where the worker and the recovery stand

managerState == <<setup, attempt, broker, request, applying>>
companyState == <<agent, process, recorded>>
spaces == <<workspace, lock>>
vars == <<managerState, companyState, child, callback, spaces, settler>>

Settler == {"worker", "recovery"}
Attempts == 1 .. MaxAttempts
Kind == {"delegate", "member", "milestone", "process"}
Used == DOMAIN setup.kind
KindOf(a) == setup.kind[a]
TypeOf(a) == IF KindOf(a) \in {"delegate", "member"} THEN "hire_and_delegate" ELSE KindOf(a)
Idle == [step |-> "idle"]
\* "unverified": completed, but not by a verification that passed.
Terminal == {"completed", "failed", "unverified"}
Free == "free"

TypeOK ==
  /\ setup \in Setup /\ attempt.number \in Attempts /\ broker \in {"open", "closing", "closed"}
  /\ {attempt.running, attempt.ok, attempt.kept, attempt.succeeded} \subseteq BOOLEAN
  /\ request \in [Action -> {"none", "queued", "applied"}]
  /\ applying.step \in {"idle", "write", "register", "delegate", "queue", "milestone", "bind", "start", "record"}
  /\ agent \in [Action -> {"none", "partial", "defined", "hired"}]
  /\ child \in [Action -> [status : {"none", "ready"} \cup Terminal, made : Nat, from : 0 .. MaxAttempts]]
  /\ callback \in [Action -> [status : {"none", "ready", "running", "done"}, queued : Nat]]
  /\ process.bound \in 0 .. MaxAttempts /\ recorded \subseteq Action \X Attempts
  /\ workspace \in [Attempts -> {"none", "ready", "dropped", "released", "pulled"}]
  /\ lock \in [Attempts -> {Free} \cup Settler \cup Action]
  /\ \A s \in Settler : settler[s].pc \in {"idle", "create", "enqueue", "scan", "release"}

Begun(n) == [number |-> n, running |-> TRUE, ok |-> FALSE, kept |-> FALSE, succeeded |-> FALSE]
Init ==
  /\ setup \in Setup /\ attempt = Begun(1) /\ broker = "open"
  /\ request = [a \in Action |-> "none"] /\ applying = Idle
  /\ agent = [a \in Action |-> "none"]
  /\ child = [a \in Action |-> [status |-> "none", made |-> 0, from |-> 0]]
  /\ callback = [a \in Action |-> [status |-> "none", queued |-> 0]]
  /\ process = [milestone |-> setup.milestone, bound |-> 0, run |-> FALSE] /\ recorded = {}
  /\ workspace = [n \in Attempts |-> IF n = 1 THEN "ready" ELSE "none"]
  /\ lock = [n \in Attempts |-> Free]
  /\ settler = [s \in Settler |-> [pc |-> "idle"]]

-----------------------------------------------------------------------------
(* The run of the manager: executeDurableAttempt.                          *)

Missing(as) == setup.required \ {TypeOf(a) : a \in as}
Applied == {a \in Action : request[a] = "applied"}
Keeps(a) == KindOf(a) \in {"delegate", "process"}

\* The same action again waits for the first one; a new one must fit the ceiling.
Post(a) ==
  /\ a \in Used /\ attempt.running /\ setup.brokered /\ broker = "open" /\ request[a] = "none"
  /\ Cardinality({b \in Action : request[b] # "none"}) < MaxActions
  /\ request' = [request EXCEPT ![a] = "queued"]
  /\ UNCHANGED <<setup, attempt, broker, applying, companyState, child, callback, spaces, settler>>

\* The CLI has ended.  The broker accepts nothing new and finishes what it accepted; without a
\* broker, the actions of the result are applied if none is missing.
EndCli(ok, reported) ==
  /\ attempt.running /\ broker = "open" /\ broker' = "closing"
  /\ reported \subseteq Used /\ (reported # {} => ~setup.brokered)
  /\ LET fine == ok /\ (setup.brokered \/ Missing(reported) = {}) IN
       /\ attempt' = [attempt EXCEPT !.ok = fine]
       /\ request' = [a \in Action |-> IF fine /\ a \in reported THEN "queued" ELSE request[a]]
  /\ UNCHANGED <<setup, applying, companyState, child, callback, spaces, settler>>

EndAttempt ==
  /\ attempt.running /\ broker = "closing"
  /\ applying = Idle /\ \A a \in Action : request[a] # "queued"
  /\ broker' = "closed"
  /\ LET kept == attempt.kept \/ (~setup.brokered /\ attempt.ok /\ \E a \in Applied : Keeps(a)) IN
       /\ attempt' = [attempt EXCEPT !.running = FALSE, !.kept = kept,
                                     !.succeeded = attempt.ok /\ Missing(Applied) = {}]
       /\ workspace' = IF kept \/ workspace[attempt.number] # "ready" THEN workspace
                       ELSE [workspace EXCEPT ![attempt.number] = "dropped"]
  /\ UNCHANGED <<setup, request, applying, companyState, child, callback, lock, settler>>

\* The worker is lost: the broker and its memory go with it, the workspace stays.
LoseAttempt ==
  /\ attempt.running /\ attempt' = [attempt EXCEPT !.running = FALSE] /\ broker' = "closed"
  /\ request' = [a \in Action |-> "none"] /\ applying' = Idle
  /\ UNCHANGED <<setup, companyState, child, callback, spaces, settler>>

Runs(n) == attempt.running /\ attempt.number = n
\* An agent has one run at a time, be it of the work item or of a callback: agentConcurrency.
Busy == attempt.running \/ \E a \in Action : callback[a].status = "running"

\* The work item is attempted again, in a workspace of its own.
Retry ==
  /\ ~Busy /\ ~attempt.succeeded /\ attempt.number < MaxAttempts
  /\ attempt' = Begun(attempt.number + 1) /\ broker' = "open"
  /\ request' = [a \in Action |-> "none"]
  /\ workspace' = [workspace EXCEPT ![attempt.number + 1] = "ready"]
  /\ UNCHANGED <<setup, applying, companyState, child, callback, lock, settler>>

-----------------------------------------------------------------------------
(* applyCompanyActions: one action at a time, one call after another.      *)

At(step) == applying.step = step
To(step) == applying' = [applying EXCEPT !.step = step]
This == applying.action

FirstStep == [k \in Kind |-> CASE k = "milestone" -> "milestone" [] k = "process" -> "bind" [] OTHER -> "write"]
BeginApply(a) ==
  /\ request[a] = "queued" /\ At("idle")
  /\ applying' = [step |-> FirstStep[KindOf(a)], action |-> a]
  /\ UNCHANGED <<setup, attempt, broker, request, companyState, child, callback, spaces, settler>>

\* Any call may fail.  The broker forgets the action, which may be posted again; without one, the
\* actions after it are not applied and the attempt fails.
FailAction ==
  /\ ~At("idle") /\ applying' = Idle
  /\ request' = [a \in Action |-> IF a = This \/ (~setup.brokered /\ request[a] = "queued") THEN "none"
                                  ELSE request[a]]
  /\ attempt' = [attempt EXCEPT !.ok = attempt.ok /\ setup.brokered]
  /\ UNCHANGED <<setup, broker, companyState, child, callback, spaces, settler>>

\* Files of the definition are written before a skill is refused, AGENT.md last of all.
WritePart ==
  /\ At("write") /\ agent[This] = "none" /\ agent' = [agent EXCEPT ![This] = "partial"]
  /\ UNCHANGED <<managerState, process, recorded, child, callback, spaces, settler>>
WriteHiredAgent ==
  /\ At("write") /\ To("register")
  /\ agent' = [agent EXCEPT ![This] = IF @ = "hired" THEN @ ELSE "defined"]
  /\ UNCHANGED <<setup, attempt, broker, request, process, recorded, child, callback, spaces, settler>>

\* The service agent, the assignment, the authority edge, each again under the key it has.
Register ==
  /\ At("register") /\ To(IF KindOf(This) = "delegate" THEN "delegate" ELSE "record")
  /\ agent' = [agent EXCEPT ![This] = "hired"]
  /\ UNCHANGED <<setup, attempt, broker, request, process, recorded, child, callback, spaces, settler>>

\* The key of the work item is made of the manager's work item and the fingerprint, so
\* that a later attempt finds what an earlier one made.
Delegate ==
  /\ At("delegate") /\ To("queue")
  /\ child' = IF child[This].made > 0 THEN child
              ELSE [child EXCEPT ![This] = [status |-> "ready", made |-> 1, from |-> 0]]
  /\ UNCHANGED <<setup, attempt, broker, request, companyState, callback, spaces, settler>>

\* The wakeup is unique for the child: it keeps the workspace of the first attempt.
QueueDelegatedWork ==
  /\ At("queue") /\ To("record")
  /\ child' = [child EXCEPT ![This].from = IF @ = 0 THEN attempt.number ELSE @]
  /\ UNCHANGED <<setup, attempt, broker, request, companyState, callback, spaces, settler>>

\* A sequence that is taken is not an error, and makes nothing.
CreateMilestone ==
  /\ At("milestone") /\ To("record") /\ process' = [process EXCEPT !.milestone = TRUE]
  /\ UNCHANGED <<setup, attempt, broker, request, agent, recorded, child, callback, spaces, settler>>

\* A milestone and a specialist of the project; a binding that is there is given this attempt's
\* session and workspace to resume.
BindProcess ==
  /\ At("bind") /\ process.milestone /\ \E a \in Action : agent[a] = "hired"
  /\ To("start") /\ process' = [process EXCEPT !.bound = attempt.number]
  /\ UNCHANGED <<setup, attempt, broker, request, agent, recorded, child, callback, spaces, settler>>
StartProcessRun ==
  /\ At("start") /\ To("record") /\ process' = [process EXCEPT !.run = TRUE]
  /\ UNCHANGED <<setup, attempt, broker, request, agent, recorded, child, callback, spaces, settler>>

RecordCompanyAction ==
  /\ At("record") /\ applying' = Idle
  /\ request' = [request EXCEPT ![This] = "applied"]
  /\ recorded' = recorded \cup {<<This, attempt.number>>}
  /\ attempt' = [attempt EXCEPT !.kept = @ \/ (setup.brokered /\ Keeps(This))]
  /\ UNCHANGED <<setup, broker, agent, process, child, callback, spaces, settler>>

-----------------------------------------------------------------------------
(* The children and their callbacks.                                       *)

\* The child runs, is verified, and ends; or a person completes it.  The organization has one slot
\* to run in, which the manager's attempt holds.
EndChild(a, outcome) ==
  /\ child[a].status = "ready" /\ child[a].from # 0
  /\ Runs(child[a].from) => outcome = "unverified"
  /\ child' = [child EXCEPT ![a].status = outcome]
  /\ UNCHANGED <<managerState, companyState, callback, spaces, settler>>

\* The manager is resumed in the workspace, which must be there and is locked; otherwise the
\* attempts of the callback fail.
ResumeManager(a) ==
  /\ callback[a].status = "ready" /\ callback[a].queued > 0 /\ ~Busy
  /\ workspace[child[a].from] = "ready" /\ lock[child[a].from] = Free
  /\ callback' = [callback EXCEPT ![a].status = "running"]
  /\ lock' = [lock EXCEPT ![child[a].from] = a]
  /\ UNCHANGED <<managerState, companyState, child, workspace, settler>>
ResumeFails(a) ==
  /\ callback[a].status = "ready" /\ callback[a].queued > 0 /\ ~Busy
  /\ workspace[child[a].from] # "ready" \/ lock[child[a].from] # Free
  /\ callback' = [callback EXCEPT ![a].status = "done"]
  /\ UNCHANGED <<managerState, companyState, child, spaces, settler>>
EndCallback(a) ==
  /\ callback[a].status = "running" /\ callback' = [callback EXCEPT ![a].status = "done"]
  /\ lock' = [n \in Attempts |-> IF lock[n] = a THEN Free ELSE lock[n]]
  /\ UNCHANGED <<managerState, companyState, child, workspace, settler>>
\* Its worker is lost; it is attempted again when the lock was reconciled.
LoseCallback(a) ==
  /\ callback[a].status = "running" /\ callback' = [callback EXCEPT ![a].status = "ready"]
  /\ UNCHANGED <<managerState, companyState, child, spaces, settler>>

Resting(s) == settler[s].pc = "idle"
Move(s, next) == settler' = [settler EXCEPT ![s] = next]

\* settleDelegationLifecycle and the checks of queueDelegationCallback.
BeginCallback(s, a) ==
  /\ Resting(s) /\ child[a].status \in Terminal \ {"unverified"} /\ child[a].from # 0
  /\ workspace[child[a].from] = "ready"
  /\ Move(s, [pc |-> "create", action |-> a])
  /\ UNCHANGED <<managerState, companyState, child, callback, spaces>>

CreateCallbackWorkMutant(s) ==
  /\ settler[s].pc = "create"
  /\ callback' = [callback EXCEPT ![settler[s].action].status = IF @ = "none" THEN child[settler[s].action].status ELSE @]
  /\ Move(s, [settler[s] EXCEPT !.pc = "enqueue"])
  /\ UNCHANGED <<managerState, companyState, child, spaces>>
CreateCallbackWork(s) ==
  /\ settler[s].pc = "create"
  /\ callback' = [callback EXCEPT ![settler[s].action].status = IF @ = "none" THEN "ready" ELSE @]
  /\ Move(s, [settler[s] EXCEPT !.pc = "enqueue"])
  /\ UNCHANGED <<managerState, companyState, child, spaces>>

\* The wakeup is unique for the child.
EnqueueCallback(s) ==
  /\ settler[s].pc = "enqueue"
  /\ callback' = [callback EXCEPT ![settler[s].action].queued = IF @ = 0 THEN 1 ELSE @]
  /\ Move(s, [pc |-> "idle"])
  /\ UNCHANGED <<managerState, companyState, child, spaces>>

-----------------------------------------------------------------------------
(* releaseRetainedManagerWorkspace: by the worker after a callback ended,  *)
(* by the recovery for every workspace a delegation names.                 *)

Related(n) == {a \in Action : child[a].from = n}

\* Not the workspace that a recurring process resumes in, nor one that is locked; the attempt that
\* made the workspace does not lock it.
BeginRelease(s, n) ==
  /\ Resting(s) /\ Related(n) # {}
  /\ s = "worker" => \E a \in Related(n) : callback[a].status = "done"
  /\ workspace[n] = "ready" /\ process.bound # n /\ lock[n] = Free
  /\ lock' = [lock EXCEPT ![n] = s]
  /\ Move(s, [pc |-> "scan", workspace |-> n, under |-> Runs(n)])
  /\ UNCHANGED <<managerState, companyState, child, callback, workspace>>

\* Every work item a wakeup ties to the workspace is terminal.
OverMutant(n) == \A a \in Related(n) : callback[a].queued > 0 => callback[a].status = "done"
Over(n) == \A a \in Related(n) :
             /\ child[a].status \in Terminal
             /\ callback[a].queued > 0 => callback[a].status = "done"

ScanRelated(s) ==
  LET n == settler[s].workspace IN
  /\ settler[s].pc = "scan"
  /\ IF Over(n) THEN Move(s, [settler[s] EXCEPT !.pc = "release"]) /\ UNCHANGED lock
     ELSE Move(s, [pc |-> "idle"]) /\ lock' = [lock EXCEPT ![n] = Free]
  /\ UNCHANGED <<managerState, companyState, child, callback, workspace>>

ReleaseWorkspace(s) ==
  LET n == settler[s].workspace IN
  /\ settler[s].pc = "release"
  /\ workspace' = IF workspace[n] # "ready" THEN workspace
                  ELSE [workspace EXCEPT ![n] = IF settler[s].under THEN "pulled" ELSE "released"]
  /\ lock' = [lock EXCEPT ![n] = Free]
  /\ Move(s, [pc |-> "idle"])
  /\ UNCHANGED <<managerState, companyState, child, callback>>

\* A process dies; its lock is left to expire.
Die(s) == /\ ~Resting(s) /\ Move(s, [pc |-> "idle"])
          /\ UNCHANGED <<managerState, companyState, child, callback, spaces>>

ExpireLock(n) ==
  /\ lock[n] # Free
  /\ IF lock[n] \in Settler THEN settler[lock[n]].pc \notin {"scan", "release"}
     ELSE callback[lock[n]].status # "running"
  /\ lock' = [lock EXCEPT ![n] = Free]
  /\ UNCHANGED <<managerState, companyState, child, callback, workspace, settler>>

-----------------------------------------------------------------------------
Manager == \/ \E a \in Action : Post(a) \/ BeginApply(a)
           \/ \E ok \in BOOLEAN, reported \in SUBSET Action : EndCli(ok, reported)
           \/ EndAttempt \/ LoseAttempt \/ Retry
           \/ FailAction \/ WritePart \/ WriteHiredAgent \/ Register \/ Delegate \/ QueueDelegatedWork
           \/ CreateMilestone \/ BindProcess \/ StartProcessRun \/ RecordCompanyAction
Children == \E a \in Action : \/ ResumeManager(a) \/ ResumeFails(a) \/ EndCallback(a) \/ LoseCallback(a)
                              \/ \E outcome \in Terminal : EndChild(a, outcome)
Settle(s) == \/ \E a \in Action : BeginCallback(s, a)
             \/ CreateCallbackWork(s) \/ EnqueueCallback(s) \/ ScanRelated(s)
             \/ ReleaseWorkspace(s) \/ Die(s)
             \/ \E n \in Attempts : BeginRelease(s, n)
Next == \/ Manager \/ Children \/ (\E s \in Settler : Settle(s))
        \/ \E n \in Attempts : ExpireLock(n)
Spec == Init /\ [][Next]_vars

-----------------------------------------------------------------------------
(* Properties                                                              *)

\* Whatever is posted twice, retried in another attempt, settled by the worker and by the recovery
\* at once, or cut short by a crash: a delegation has one work item, made for an agent that was
\* hired, and at most one callback, which follows its outcome and runs only in a workspace that is
\* there.  A workspace is not released before every child that was given it has ended, nor from
\* under a recurring process, unless that began while the attempt that made it was running; and
\* the attempt itself does not drop it once the broker told its CLI that such an action succeeded.
DelegationKept ==
  /\ \A a \in Action :
       /\ child[a].made <= 1 /\ callback[a].queued <= 1
       /\ child[a].made > 0 => agent[a] = "hired"
       /\ callback[a].status # "none" => child[a].status \in Terminal
       /\ callback[a].status = "running" => workspace[child[a].from] = "ready"
  /\ \A n \in Attempts :
       /\ workspace[n] = "released" => process.bound # n /\ \A a \in Related(n) : child[a].status \in Terminal
       /\ workspace[n] = "dropped" /\ setup.brokered => \A a \in Action : <<a, n>> \in recorded => ~Keeps(a)
=============================================================================
