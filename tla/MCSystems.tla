------------------------------ MODULE MCSystems ------------------------------
(***************************************************************************)
(* The systems around the execution of work, side by side.  They share no  *)
(* state and a behaviour keeps to one of them (focus), so that the states  *)
(* add up instead of multiplying; its variables are the first of s1 .. s14. *)
(***************************************************************************)
EXTENDS Integers, FiniteSets, Sequences, TLC

CONSTANTS a1, a2, a3, nobody, c1, c2, founder, g1, g2, p1, m1, k1, k2, d1
ASSUME NobodyIsNone == nobody \notin {a1, a2, a3, c1, c2, founder, g1, g2, p1, m1, k1, k2, d1}
ASSUME NamesAreNoStates == {k1, k2, p1} \cap {"free", "worker", "recovery"} = {}
ASSUME CallersAreNoRuns == c1 \notin {k1, k2}
ASSUME WorkerIsApart == a1 \notin {k1, c1, c2}

VARIABLES focus, s1, s2, s3, s4, s5, s6, s7, s8, s9, s10, s11, s12, s13, s14

vars == <<focus, s1, s2, s3, s4, s5, s6, s7, s8, s9, s10, s11, s12, s13, s14>>

Agents == {a1, a2, a3}
Edge(x, y, r) == [from |-> x, to |-> y, relation |-> r]

A == INSTANCE Authority WITH
  Agent <- Agents, NoAgent <- nobody, Boss <- a1, Caller <- {c1, c2}, Request <- {k1},
  Wanted <- [r \in {k1} |-> {a2, a3}],
  Offered <- {Edge(a1, a2, "manages"), Edge(a1, a2, "reports_to"), Edge(a1, a2, "may_delegate_to")},
  Hierarchy <- {(a1 :> nobody) @@ (a2 :> a1) @@ (a3 :> a1),
                (a1 :> nobody) @@ (a2 :> a1) @@ (a3 :> "absent")},
  MaxPending <- 2,
  service <- s1, managed <- s2, intent <- s3, edge <- s4, route <- s5, delegation <- s6,
  work <- s7, escalation <- s8, caller <- s9, setter <- s10, reconciler <- s11

D == INSTANCE Directory WITH
  Person <- {a1}, NoPerson <- nobody, Department <- {d1}, Proposal <- {k1, k2},
  From <- (k1 :> 0) @@ (k2 :> 1), To <- (k1 :> 1) @@ (k2 :> 0), Caller <- {c1, c2},
  Bundle <- {(k1 :> "approved") @@ (k2 :> "none")},
  manager <- s1, member <- s2, proposal <- s3, request <- s4, pulls <- s5, level <- s6,
  caller <- s7

P == INSTANCE Portfolio WITH
  Agent <- {a1, a2}, Ceo <- a1, Founder <- founder, Nobody <- nobody, Goal <- {g1, g2},
  Project <- {p1}, Milestone <- {m1}, ProjectOf <- (m1 :> p1),
  Portfolios <- {{[project |-> p1, goal |-> g1, manager |-> nobody]},
                 {[project |-> p1, goal |-> g1, manager |-> a2]}},
  MaxProjects <- 1, Share <- {100}, Run <- {k1}, Caller <- {c1, c2},
  company <- s1, objective <- s2, measured <- s3, portfolio <- s4, project <- s5, link <- s6,
  managerRow <- s7, share <- s8, milestone <- s9, verified <- s10, binding <- s11, run <- s12,
  wake <- s13, caller <- s14

Hires == [kind |-> [a \in {k1, k2} |-> "delegate"], required |-> {}, brokered |-> TRUE, milestone |-> FALSE]
SetsUp == [kind |-> [a \in {k1, k2, p1} |-> CASE a = k1 -> "member" [] a = k2 -> "milestone" [] a = p1 -> "process"],
           brokered |-> TRUE, required |-> {"hire_and_delegate", "milestone", "process"}, milestone |-> FALSE]
Reports == [kind |-> [a \in {k1, p1} |-> IF a = k1 THEN "delegate" ELSE "process"], required |-> {"hire_and_delegate"},
            brokered |-> FALSE, milestone |-> TRUE]
M == INSTANCE Delegation WITH
  Action <- {k1, k2, p1}, Setup <- {Hires, SetsUp, Reports}, MaxActions <- 3, MaxAttempts <- 2,
  setup <- s1, attempt <- s2, broker <- s3, request <- s4, applying <- s5, agent <- s6, child <- s7,
  callback <- s8, process <- s9, recorded <- s10, workspace <- s11, lock <- s12, settler <- s13

S == INSTANCE DependencyScheduler WITH
  Item <- {k1, k2}, Order <- <<k1, k2>>, Ticker <- {c1, c2}, Adder <- {c1, c2}, Offered <- {<<k1, k2>>, <<k2, k1>>},
  Deadlined <- {k1}, Concurrency <- 1, RunLimit <- 2, MaxTicks <- 2,
  item <- s1, assigned <- s2, needs <- s3, overdue <- s4, later <- s5, runs <- s6,
  workflow <- s7, ticker <- s8, adder <- s9, completed <- s10, begun <- s11, known <- s12

C == INSTANCE DeliveryClaim WITH
  Request <- {c1, c2, a1}, Commit <- {k1, k2}, NoCommit <- nobody, MaxClaims <- 3,
  delivery <- s1, commit <- s2, writer <- s3, request <- s4, pulls <- s5, told <- s6

L == INSTANCE LoopRun WITH
  Worker <- {c1, c2}, Found <- <<k1>>, Last <- 3, Cap <- 2, Soft <- 1, Hard <- 1,
  policy <- s1, now <- s2, paused <- s3, spent <- s4, run <- s5, newest <- s6, worker <- s7,
  jumped <- s8

H == INSTANCE AgentCli WITH
  Process <- {a1}, Call <- {c1, c2, k1}, ProcessOf <- [c \in {c1, c2, k1} |-> a1],
  Driver <- (c1 :> "opencode") @@ (c2 :> "managed") @@ (k1 :> "codex"), Session <- {p1},
  SessionOf <- [c \in {c1, c2, k1} |-> p1], Id <- {k1, k2}, Nobody <- nobody,
  alive <- s1, lockFile <- s2, lockLine <- s3, cliChain <- s4, sessions <- s5, call <- s6

I == INSTANCE SessionImport WITH
  Watcher <- {a1}, Last <- 2, Size <- <<2, 2>>, Chars <- <<2, 2>>, Usage <- <<k1, k1>>,
  None <- nobody, Backfill <- FALSE,
  written <- s1, partial <- s2, row <- s3, stored <- s4, counted <- s5, watcher <- s6,
  hand <- s7, skipped <- s8, byHand <- s9

Q == INSTANCE Sessions WITH
  Process <- {a1}, Request <- {k1, k2}, ProcessOf <- [r \in {k1, k2} |-> a1], Session <- {p1},
  SessionOf <- [r \in {k1, k2} |-> p1], WakeupOf <- [r \in {k1, k2} |-> m1], Caller <- {c1},
  Nobody <- nobody, MaxAttempts <- 2, MaxLines <- 2,
  row <- s1, events <- s2, live <- s3, run <- s4, caller <- s5

Local == [engine |-> "auto", boundary |-> "local", ready |-> TRUE, warm |-> TRUE, resume |-> FALSE]
T == INSTANCE Acp WITH
  Run <- {k1, k2}, Nobody <- nobody, Key <- {p1, m1}, KeyOf <- [r \in {k1, k2} |-> p1],
  AskOf <- (k1 :> [Local EXCEPT !.resume = TRUE]) @@ (k2 :> Local),
  warm <- s1, open <- s2, active <- s3, run <- s4

K == INSTANCE Knowledge WITH
  Cause <- {k1, k2}, Verified <- {p1}, PathOf <- (k1 :> a1) @@ (k2 :> a2) @@ (p1 :> a1),
  TroublesOf <- (k1 :> {}) @@ (k2 :> {k1}), Caller <- {c1, c2}, Nobody <- nobody,
  cause <- s1, memory <- s2, proposal <- s3, change <- s4, wake <- s5, caller <- s6

R == INSTANCE RemoteTarget WITH
  Run <- {k1, k2}, Box <- {p1, m1}, Nobody <- nobody,
  provider <- s1, box <- s2, leases <- s3, edits <- s4, process <- s5, run <- s6, home <- s7

F == INSTANCE LiveFeed WITH
  Client <- {c1}, Limit <- 2, MaxQueue <- 1, Last <- 4,
  last <- s1, hub <- s2, stream <- s3, client <- s4, flooded <- s5, page <- s6

Sent(kind, key, time, form) == [kind |-> kind, key |-> key, time |-> time, form |-> form]
Posted == (k1 :> {Sent("log", "a", 1, "good"), Sent("log", "b", 1, "good")})
          @@ (k2 :> {Sent("log", "c", 2, "good")})
          @@ (p1 :> {Sent("span", "a", 1, "good"), Sent("span", "b", 1, "anonymous"),
                     Sent("metric", "none", 1, "good"), Sent("log", "a", 2, "noise")})
B == INSTANCE TelemetryStore WITH
  Batch <- {k1, k2, p1}, Records <- Posted, Batches <- {{k1, k2}, {p1}}, Ids <- 1 .. 3,
  Burst <- 2, Limit <- 1,
  rows <- s1, tokens <- s2, exporter <- s3, errors <- s4, pager <- s5, steady <- s6,
  overview <- s7, report <- s8

N == INSTANCE Transcripts WITH
  Shown <- <<TRUE, FALSE, TRUE>>, Process <- {c1, c2}, Status <- {"succeeded"}, None <- nobody,
  events <- s1, logs <- s2, summary <- s3, messages <- s4, backfill <- s5, detail <- s6

O == INSTANCE Dashboards WITH
  Dashboard <- {k1, k2}, Widget <- {p1, m1}, Place <- {1, 2},
  dashboards <- s1, default <- s2, widgets <- s3, request <- s4

\* A new database, one from before deliveries and actions had owners, and one too old to be upgraded.
Fresh == [groups |-> 0, lacking |-> {}, item |-> [status |-> "none"], action |-> [status |-> "none"], events |-> <<>>]
Upgraded == [groups |-> 10,
             lacking |-> {<<"execution_work_items", "delivery_commit_sha">>, <<"execution_external_actions", "claim_owner">>,
                          <<"session_events", "seq">>},
             item |-> [status |-> "awaiting", mode |-> "commit", delivery |-> "pending", commit |-> FALSE, live |-> FALSE],
             action |-> [status |-> "pending", owner |-> "none", live |-> FALSE], events |-> <<0, 0>>]
Ancient == [Upgraded EXCEPT !.lacking = @ \cup {<<"execution_work_items", "workflow_run_id">>}]
V == INSTANCE Migrations WITH
  Process <- {c1, c2}, Version <- {Fresh, Upgraded, Ancient},
  tables <- s1, lacking <- s2, process <- s3, item <- s4, action <- s5, events <- s6, project <- s7

G == INSTANCE Gateway WITH
  Kind <- {"openclaw", "hermes", "cursor"}, MaxFrames <- 2,
  kind <- s1, call <- s2, service <- s3, frames <- s4, answer <- s5, lost <- s6

J == INSTANCE Definitions WITH
  Definition <- {k1}, Builtin <- {k1}, Worker <- a1, Request <- {c1, c2},
  kind <- s1, disk <- s2, watcher <- s3, watching <- s4, cache <- s5, loads <- s6, scan <- s7,
  user <- s8, registry <- s9, refresh <- s10, edits <- s11

E == INSTANCE AttemptEvidence WITH
  MaxMakers <- 2, File <- {k1, k2}, Declared <- {k1},
  kind <- s1, delivery <- s2, claim <- s3, judged <- s4, att <- s5, run <- s6, sess <- s7, ws <- s8,
  base <- s9, disk <- s10, rec <- s11

\* How many variables a focus has.
Width == [f \in {"edges", "delegate", "attempt"} |-> 11] @@ ("directory" :> 7)
         @@ [f \in {"portfolio", "delivery"} |-> 14] @@ ("manager" :> 13) @@ ("schedule" :> 12)
         @@ ("publish" :> 6) @@ ("loop" :> 8) @@ ("cli" :> 6) @@ ("import" :> 9)
         @@ ("session" :> 5) @@ ("acp" :> 4) @@ ("learn" :> 6) @@ ("remote" :> 7)
         @@ ("feed" :> 6) @@ ("store" :> 8) @@ ("transcript" :> 6) @@ ("boards" :> 4) @@ ("upgrade" :> 7)
         @@ ("gateway" :> 6) @@ ("defs" :> 11)
Spare(n) == n > Width[focus]

Init ==
  /\ \/ focus \in {"edges", "delegate"} /\ A!Init
     \/ focus = "directory" /\ D!Init
     \/ focus \in {"portfolio", "delivery"} /\ P!Init
     \/ focus = "manager" /\ M!Init
     \/ focus = "schedule" /\ S!Init
     \/ focus = "publish" /\ C!Init
     \/ focus = "loop" /\ L!Init /\ (s1.always <=> s1.catchUp) /\ (s6 = 0 <=> s1.catchUp)
     \/ focus = "cli" /\ H!Init
     \/ focus = "import" /\ I!Init
     \/ focus = "session" /\ Q!Init
     \/ focus = "acp" /\ T!Init
     \/ focus = "learn" /\ K!Init
     \/ focus = "remote" /\ R!Init
     \/ focus = "feed" /\ F!Init
     \/ focus = "store" /\ B!Init
     \/ focus = "transcript" /\ N!Init
     \/ focus = "boards" /\ O!Init
     \/ focus = "upgrade" /\ V!Init
     \/ focus = "gateway" /\ G!Init
     \/ focus = "attempt" /\ E!Init
     \/ focus = "defs" /\ J!Init /\ s2[k1].main = "v1"
  /\ Spare(5) => s5 = nobody
  /\ Spare(6) => s6 = nobody
  /\ Spare(7) => s7 = nobody
  /\ Spare(8) => s8 = nobody
  /\ Spare(9) => s9 = nobody
  /\ Spare(10) => s10 = nobody
  /\ Spare(11) => s11 = nobody
  /\ Spare(12) => s12 = nobody
  /\ Spare(13) => s13 = nobody
  /\ Spare(14) => s14 = nobody

\* What a step of a focus leaves alone: the focus, and the slots it has no variable for.
beyond4 == <<focus, s5, s6, s7, s8, s9, s10, s11, s12, s13, s14>>
beyond5 == <<focus, s6, s7, s8, s9, s10, s11, s12, s13, s14>>
beyond6 == <<focus, s7, s8, s9, s10, s11, s12, s13, s14>>
beyond7 == <<focus, s8, s9, s10, s11, s12, s13, s14>>
beyond8 == <<focus, s9, s10, s11, s12, s13, s14>>
beyond9 == <<focus, s10, s11, s12, s13, s14>>
beyond11 == <<focus, s12, s13, s14>>
beyond12 == <<focus, s13, s14>>
beyond13 == <<focus, s14>>
beyond14 == <<focus>>

\* The variables that the bounds below are about.
intent == s3
router == s9
setter == s10
needs == s3
ticker == s8
known == s12
policy == s1
now == s2
call == s6
written == s1
partial == s2
byHand == s9
rows == s1
requests == s4
runs == s4
learners == s6
remoteRuns == s6
wire == s3[c1].wire
exporters == s3
paging == s5.pc
fillers == s5
logged == s2

-----------------------------------------------------------------------------
Few == intent = {}

\* Edges of every kind against the reconciliation of the definitions.
EdgeNext ==
  /\ focus = "edges" /\ UNCHANGED beyond11
  /\ \/ \E e \in {Edge(a1, a2, "manages"), Edge(a1, a2, "reports_to")} : A!ReadEdges(e)
     \/ \E w \in setter : A!InsertEdge(w)
     \/ \E tree \in {(a1 :> nobody) @@ (a2 :> a1) @@ (a3 :> a1),
                     (a1 :> nobody) @@ (a2 :> a1) @@ (a3 :> "absent")} :
          Few /\ A!BeginReconcile(tree)
     \/ A!Register
     \/ A!Retire
     \/ A!DropEdges
     \/ A!AddEdges
     \/ A!CrashReconcile
     \/ setter = {} /\ A!HeartbeatServiceAgent(a2)
     \/ setter = {} /\ Few /\ A!ReconcileServiceAgents(a2)
     \/ A!TransitionServiceAgent(a2, "retired")
     \/ \E w \in intent : A!WriteService(w)

\* Two calls of one delegation against the life of the agents.
DelegateNext ==
  /\ focus = "delegate" /\ UNCHANGED beyond11
  /\ \/ Few /\ router[c1].pc = "idle" /\ A!ReadEdges(Edge(a1, a2, "may_delegate_to"))
     \/ \E w \in setter : A!InsertEdge(w)
     \/ \E a \in {a2, a3} : Few /\ setter = {} /\ A!RegisterServiceAgent(a)
     \/ Few /\ A!TransitionServiceAgent(a2, "paused")
     \/ \E w \in intent : A!WriteService(w)
     \/ \E c \in {c1, c2} : (c = c2 => router[c1].pc # "idle") /\ A!BeginDelegate(c, k1)
     \/ \E c \in {c1, c2} : A!FindDelegation(c)
     \/ \E c \in {c1, c2} : A!FindRoute(c)
     \/ \E c \in {c1, c2} : A!Choose(c)
     \/ \E c \in {c1, c2} : A!CreateEscalation(c)
     \/ \E c \in {c1, c2} : A!PersistRoute(c)
     \/ \E c \in {c1, c2} : A!CreateWork(c)
     \/ \E c \in {c1, c2} : A!RecordDelegation(c)
     \/ A!CrashCall(c1)
     \/ A!AcknowledgeEscalation(k1)
     \/ A!ResolveEscalation(k1)

DirectoryNext ==
  /\ focus = "directory" /\ UNCHANGED beyond7
  /\ \/ \E c \in {c1, c2}, p \in {a1, nobody} : D!CreateDepartment(c, d1, p)
     \/ \E c \in {c1, c2}, role \in {"member", "manager"} :
          D!SetDepartmentMember(c, d1, a1, role)
     \/ \E c \in {c1, c2} : D!PutManager(c)
     \/ \E p \in {k1, k2} : D!CreateAutonomyProposal(p)
     \/ \E c \in {c1, c2} : D!DecideAutonomyProposal(c, k1, "approved")
     \/ \E p \in {k1, k2} : D!DecideAutonomyProposal(c2, p, "rejected")
     \/ D!DecideAutonomyProposal(c2, k2, "approved")
     \/ \E c \in {c1, c2} : D!WriteDecision(c)
     \/ D!ImportCompany((k1 :> "approved") @@ (k2 :> "none"))
     \/ \E c \in {c1, c2}, p \in {k1, k2} : D!BeginChange(c, p)
     \/ \E c \in {c1, c2} : D!FindChange(c)
     \/ \E c \in {c1, c2} : D!ReviewChange(c)
     \/ \E c \in {c1, c2} : D!InsertChange(c)
     \/ D!FailChange(c1)
     \/ \E c \in {c1, c2} : D!CommitAndPush(c)
     \/ \E c \in {c1, c2} : D!OpenPullRequest(c)
     \/ \E c \in {c1, c2} : D!RecordChange(c)
     \/ D!Crash(c2)
     \/ \E p \in {k1, k2} : D!Merge(p)

\* From the draft to an active portfolio, and the projects and objectives in it.
PortfolioNext ==
  /\ focus = "portfolio" /\ UNCHANGED beyond14
  /\ \/ P!CheckSetup(c1)
     \/ P!CheckValidate(c1)
     \/ P!CheckDiscovery(c1)
     \/ \E m \in {nobody, a2} :
          P!CheckProposal(c1, a1, {[project |-> p1, goal |-> g1, manager |-> m]})
     \/ P!CheckActivate(c1)
     \/ P!CheckObjective(c1, g2)
     \/ \E c \in {c1, c2}, g \in {g1, g2}, primary \in BOOLEAN :
          P!CheckLink(c, a2, p1, g, primary)
     \/ P!CheckAppoint(c1, founder, p1, a1)
     \/ P!Setup(c1, {g1})
     \/ P!Validate(c1)
     \/ P!StartDiscovery(c1)
     \/ P!SubmitPortfolioProposal(c1)
     \/ P!ActivateCompany(c1)
     \/ P!CreateObjective(c1)
     \/ \E c \in {c1, c2} : P!LinkProjectObjective(c)
     \/ P!AppointManager(c1)
     \/ \E c \in {c1, c2} : P!Abandon(c)
     \/ P!TransitionCompany("paused")

\* One project of an active company, from its creation to its completion.
DeliveryNext ==
  /\ focus = "delivery" /\ UNCHANGED beyond14
  /\ \/ P!CheckSetup(c1)
     \/ P!Setup(c1, {g1})
     \/ P!TransitionCompany("active")
     \/ P!CheckProject(c1, founder, p1, g1, a1)
     \/ P!CreateProject(c1)
     \/ P!CheckAssign(c1, a1, p1, a2, 100)
     \/ P!CheckMilestone(c1, a1, m1)
     \/ P!CheckBind(c1, a1, p1, a1)
     \/ P!CheckRun(c1, a1, p1, k1)
     \/ P!CheckMeasure(c1, g1)
     \/ \E verdict \in {"accepted", "blocked"} : P!CheckJudge(c2, a1, m1, verdict)
     \/ P!CheckEvaluateProject(c1, a1, p1)
     \/ P!CheckEvaluateObjective(c1, a1, g1)
     \/ P!AssignAgent(c1)
     \/ P!CreateMilestone(c1)
     \/ P!BindProcess(c1)
     \/ P!StartProcessRun(c1)
     \/ P!RecordMeasurement(c1)
     \/ P!RecordMilestoneEvaluation(c2)
     \/ P!EvaluateProject(c1)
     \/ P!EvaluateObjective(c1)
     \/ \E status \in {"blocked", "active"} : P!TransitionProject(p1, status)
     \/ \E x \in {m1, p1, g1} : P!Verify(x)
     \/ P!FinishRun(p1, k1)

\* Of two delegations, the second is posted in the first attempt, after the first one, which may fail.
Uneasy == s5.step # "idle" /\ (s1 = Hires => s5.action = k1)
ManagerNext ==
  /\ focus = "manager" /\ UNCHANGED beyond13
  /\ \/ \E a \in {k1, k2, p1} : (a = k2 => s1 # Hires \/ (requests[k1] = "applied" /\ s2.number = 1)) /\ M!Post(a)
     \/ \E ok \in BOOLEAN : M!EndCli(ok, {})
     \/ s1 = Reports /\ \E reported \in {{k1}, {p1}, {k1, p1}} : M!EndCli(TRUE, reported)
     \/ M!EndAttempt
     \/ M!LoseAttempt
     \/ M!Retry
     \/ \E a \in {k1, k2, p1} : M!BeginApply(a)
     \/ Uneasy /\ M!FailAction
     \/ Uneasy /\ M!WritePart
     \/ M!WriteHiredAgent
     \/ M!Register
     \/ M!Delegate
     \/ M!QueueDelegatedWork
     \/ M!CreateMilestone
     \/ M!BindProcess
     \/ M!StartProcessRun
     \/ M!RecordCompanyAction
     \/ \E a \in {k1, k2} : M!EndChild(a, "completed")
     \/ M!EndChild(k1, "unverified")
     \/ \E a \in {k1, k2} : M!ResumeManager(a)
     \/ \E a \in {k1, k2} : M!ResumeFails(a)
     \/ \E a \in {k1, k2} : M!EndCallback(a)
     \/ M!LoseCallback(k1)
     \/ \E s \in M!Settler, a \in {k1, k2} : (a = k2 => s = "recovery") /\ M!BeginCallback(s, a)
     \/ \E s \in M!Settler : M!CreateCallbackWork(s)
     \/ \E s \in M!Settler : M!EnqueueCallback(s)
     \/ \E s \in M!Settler, n \in 1 .. 2 : M!BeginRelease(s, n)
     \/ \E s \in M!Settler : M!ScanRelated(s)
     \/ \E s \in M!Settler : M!ReleaseWorkspace(s)
     \/ M!Die("recovery")
     \/ \E n \in 1 .. 2 : M!ExpireLock(n)

\* The ticks of a worker and of a request over a workflow whose dependencies were just added.
ScheduleNext ==
  /\ focus = "schedule" /\ UNCHANGED beyond12
  /\ \/ known.ticks = 0 /\ \E a \in {c1, c2}, p \in {<<k1, k2>>, <<k2, k1>>} : S!CheckDependency(a, p)
     \/ \E a \in {c1, c2} : S!InsertDependency(a)
     \/ <<k1, k2>> \in needs /\ \E t \in {c1, c2} : (t = c2 => ticker[c1].pc # "idle") /\ S!BeginTick(t)
     \/ \E t \in {c1, c2} : S!AssignAndLink(t)
     \/ \E t \in {c1, c2} : S!Judge(t)
     \/ \E t \in {c1, c2} : S!CountActive(t)
     \/ \E t \in {c1, c2} : S!Skip(t)
     \/ \E t \in {c1, c2} : S!Dispatch(t)
     \/ \E t \in {c1, c2} : S!EndTick(t)
     \/ \E t \in {c1, c2} : S!CrashTick(t)
     \/ \E i \in {k1, k2} : S!StartAttempt(i)
     \/ S!EndAttempt(k1, "completed")
     \/ \E outcome \in S!ItemStatus : S!EndAttempt(k2, outcome)
     \/ \E outcome \in {"completed", "failed"} : S!Settle(k2, outcome)
     \/ S!DeadlinePasses(k1)
     \/ S!RetryDue(k2)

PublishNext ==
  /\ focus = "publish" /\ UNCHANGED beyond6
  /\ \/ \E c \in {k1, k2} : C!ReadEvidence(c)
     \/ C!RecordDeliveryCommit
     \/ C!FinalizeWorkItem
     \/ \E r \in {c1, c2, a1} : C!ClaimDelivery(r)
     \/ \E r \in {c1, c2, a1} : C!Reread(r)
     \/ \E r \in {c1, c2, a1} : C!Push(r)
     \/ \E r \in {c1, c2, a1} : C!FindPull(r)
     \/ \E r \in {c1, c2, a1} : C!CreatePull(r)
     \/ \E r \in {c1, c2, a1} : C!CompleteDelivery(r)
     \/ C!ExpireLease
     \/ \E r \in {c1, c2, a1} : C!Crash(r)

\* Two ticks of a loop over three intervals, one more than it catches up.
LoopNext ==
  /\ focus = "loop" /\ UNCHANGED beyond8
  /\ \/ \E w \in {c1, c2} : L!DueOccurrences(w)
     \/ ~policy.catchUp /\ ~policy.always /\ now = 1 /\ L!ExecuteWakeup(c1)
     \/ \E w \in {c1, c2} : L!FindRun(w)
     \/ \E w \in {c1, c2} : L!CreateRun(w)
     \/ \E w \in {c1, c2} : L!CheckPaused(w)
     \/ \E w \in {c1, c2} : L!View(w)
     \/ \E w \in {c1, c2} : L!Trip(w)
     \/ \E decision \in {"act", "noop"} : L!Decide(c1, decision)
     \/ L!Decide(c2, "report")
     \/ L!FailRun(c2)
     \/ \E w \in {c1, c2} : L!EndRun(w)
     \/ \E w \in {c1, c2} : L!Dispatch(w, k1)
     \/ \E outcome \in {"completed", "failed"} : L!EndItem(c1, outcome)
     \/ L!EndItem(c2, "awaiting_approval")
     \/ \E w \in {c1, c2} : L!NextOccurrence(w)
     \/ \E t \in 0 .. 3 : L!Settle(t, k1, "completed")
     \/ \E t \in 0 .. 3 : L!Recover(t, k1)
     \/ now = 1 /\ \E value \in BOOLEAN : L!SetPaused(value)
     \/ L!Pass
     \/ L!Crash(c2)

\* Two CLIs of opencode in one process that may die, or one of codex.
Line(id, status, input) == [id |-> id, status |-> status, input |-> input]
Lines == {Line(k1, "running", "action"), Line(k1, "completed", "action"),
          Line(k2, "completed", "malformed"), Line(k2, "completed", "none")}
Opencodes == call[k1].pc = "idle"
CliNext ==
  /\ focus = "cli" /\ UNCHANGED beyond6
  /\ \/ Opencodes /\ \E c \in {c1, c2} : H!Execute(c)
     \/ call[c1].pc = "idle" /\ call[c2].pc = "idle" /\ H!Execute(k1)
     \/ \E c \in {c1, c2} : H!TakeLock(c)
     \/ \E c \in {c1, c2} : H!ReadHolder(c)
     \/ \E c \in {c1, c2} : H!Steal(c)
     \/ H!LockTimeout(c1)
     \/ \E c \in {c1, c2} : H!Release(c)
     \/ \E c \in {c1, c2} : H!Spawn(c)
     \/ H!SpawnError(c1)
     \/ \E e \in Lines : H!Emit(c1, e, TRUE)
     \/ Len(call[c2].buffer) < 2 /\ \E e \in Lines : H!Emit(c2, e, FALSE)
     \/ \E c \in {c1, k1} : H!RunTimeout(c)
     \/ \E c \in {c2, k1} : H!Abort(c)
     \/ H!Inactive(k1)
     \/ H!Cancel(p1)
     \/ \E c \in {c1, c2, k1}, exit \in {"zero", "killed"} : H!Close(c, exit, <<>>)
     \/ \E e \in Lines : H!Close(c1, "zero", <<e>>)
     \/ H!Die(a1)
     \/ H!Restart(a1)

\* A session file, its watcher and an import by hand.
ImportNext ==
  /\ focus = "import" /\ UNCHANGED beyond9
  /\ \/ I!WritePartial({a1})
     \/ \E t \in SUBSET {a1} : (written = 0 => t # {}) /\ I!WriteLine(t)
     \/ I!BeginScan(a1)
     \/ I!BeginWithoutFile(a1)
     \/ I!ScanFile(a1)
     \/ I!ProcessChange(a1)
     \/ I!Poll(a1)
     \/ I!Parse(a1)
     \/ I!Commit(a1)
     \/ I!Fail(a1)
     \/ I!Stop(a1)
     \/ ~byHand /\ ~partial /\ I!BeginImport(FALSE)
     \/ I!ParseAll
     \/ I!CommitImport

\* Two runs of one durable session in one process, beside one other call.
Alone == requests[k1].pc = "run" /\ requests[k2].pc = "idle"
SessionNext ==
  /\ focus = "session" /\ UNCHANGED beyond5
  /\ \/ \E r \in {k1, k2} : (r = k2 => requests[k1].pc \notin {"idle", "done"}) /\ Q!FindRow(r)
     \/ \E r \in {k1, k2} : Q!WriteRow(r)
     \/ \E r \in {k1, k2} : Q!Register(r)
     \/ \E r \in {k1, k2} : Q!ReadSeq(r)
     \/ \E r \in {k1, k2} : (r = k2 => requests[r].lines = 0) /\ Q!Emit(r, TRUE)
     \/ requests[k1].lines = 0 /\ Q!Emit(k1, FALSE)
     \/ \E outcome \in {"succeeded", "failed"} : Q!Return(k1, outcome, TRUE, FALSE)
     \/ \E overBudget \in BOOLEAN : requests[k1].pc # "run" /\ Q!Return(k2, "succeeded", FALSE, overBudget)
     \/ \E r \in {k1, k2} : Q!Record(r)
     \/ Q!Retry(k1)
     \/ \E transient \in BOOLEAN : requests[k2].pc = "idle" /\ Q!Throw(k1, transient)
     \/ Q!RecordFailure(k1)
     \/ Q!Leave(k1)
     \/ requests[k1].pc = "run" /\ requests[k2].pc # "done" /\ Q!Die(a1)
     \/ requests[k2].pc \in {"idle", "run"} /\ Q!Cancel(c1, a1, p1)
     \/ Q!EndCancel(c1)
     \/ Alone /\ rows[p1].status = "running" /\ Q!Stop(p1)
     \/ Alone /\ rows[p1].status = "running" /\ Q!Pause(p1)
     \/ rows[p1].status = "paused_for_question" /\ Q!Resume(p1)
     \/ Q!NumberEvent(c1, a1, p1)
     \/ Q!AppendEvent(c1)

\* Two runs of one key and its pooled runtime.
AcpNext ==
  /\ focus = "acp" /\ UNCHANGED beyond4
  /\ \/ \E r \in {k1, k2} : T!Execute(r)
     \/ \E r \in {k1, k2} : T!EvictIdle(r, p1) \/ T!EvictIdle(r, m1)
     \/ \E r \in {k1, k2} : T!DropIdle(r)
     \/ \E r \in {k1, k2} : T!FindRuntime(r)
     \/ \E r \in {k1, k2} : T!CreateRuntime(r)
     \/ \E r \in {k1, k2} : T!EnsureSession(r)
     \/ \E r \in {k1, k2} : T!Register(r)
     \/ T!TimeOut(k1)
     \/ runs[k2].pc = "turn" /\ T!Abort(k2)
     \/ T!Cancel(p1)
     \/ \E r \in {k1, k2}, status \in {"completed", "cancelled", "failed"} : T!EndTurn(r, status)
     \/ T!BreakTurn(k2)
     \/ \E r \in {k1, k2} : T!EndRun(r)
     \/ \E r \in {k1, k2} : T!Drop(r)
     \/ \E r \in {k1, k2} : T!LogResult(r)
     \/ \E r \in {k1, k2} : T!CloseAfterError(r)
     \/ \E r \in {k1, k2} : T!DropAfterError(r)
     \/ T!Idle(p1)

\* Two calls that evaluate, review or write back what was learned.
Evaluating(c) == learners[c].pc \in {"list", "each"}
LearnNext ==
  /\ focus = "learn" /\ UNCHANGED beyond6
  /\ \/ (\A c \in {c1, c2} : learners[c].pc = "idle") /\ \E x \in {k1, k2} : K!Happen(x)
     \/ \E c \in {c1, c2} : (c = c2 => Evaluating(c1)) /\ K!BeginEvaluate(c)
     \/ \E c \in {c1, c2} : K!ListProposals(c)
     \/ \E c \in {c1, c2}, x \in {k1, k2} : K!FindMemory(c, x)
     \/ K!BeginWriteback(c1, p1)
     \/ \E c \in {c1, c2} : K!InsertMemory(c)
     \/ \E c \in {c1, c2} : K!InsertProposal(c)
     \/ \E c \in {c1, c2} : K!EndEvaluate(c)
     \/ \E c \in {c1, c2}, x \in {k1, p1}, action \in {"accept", "reject"} : K!BeginReview(c, x, action)
     \/ \E c \in {c1, c2} : K!WriteReview(c)
     \/ \E c \in {c1, c2} : K!RecordReview(c)
     \/ K!Crash(c2)

\* A run on a new machine, and one on the same machine if it can be resumed.
RemoteNext ==
  /\ focus = "remote" /\ UNCHANGED beyond7
  /\ \/ \E dir, reuse \in BOOLEAN : R!Begin(k1, dir, reuse, nobody)
     \/ \E lease \in {p1, nobody} : (lease = p1 <=> R!Leased) /\ remoteRuns[k1].pc \notin {"idle", "create", "setup"} /\ R!Begin(k2, TRUE, FALSE, lease)
     \/ R!Create(k1, p1)
     \/ R!Create(k2, m1)
     \/ R!CreateLost(k1, p1)
     \/ \E r \in {k1, k2} : R!SetUp(r)
     \/ R!SetupFails(k1)
     \/ R!Resume(k2)
     \/ R!ResumeFails(k2)
     \/ \E r \in {k1, k2} : R!Prepare(r)
     \/ \E r \in {k1, k2} : R!PrepareFails(r)
     \/ \E r \in {k1, k2} : R!Start(r)
     \/ \E r \in {k1, k2} : R!Edit(r)
     \/ \E r \in {k1, k2} : R!Exit(r)
     \/ \E r \in {k1, k2} : R!Stop(r)
     \/ \E r \in {k1, k2} : R!Throw(r)
     \/ \E r \in {k1, k2} : R!Restore(r)
     \/ \E r \in {k1, k2} : R!RestoreFails(r)
     \/ \E r \in {k1, k2} : R!Release(r)
     \/ R!Pause(k1)
     \/ \E r \in {k1, k2} : R!Destroy(r)
     \/ \E r \in {k1, k2} : R!DestroyFails(r)
     \/ R!Expire(p1)
     \/ R!Die

\* One client of the live feed, which loses its connection; the page is looked at before the first event.
FeedNext ==
  /\ focus = "feed" /\ UNCHANGED beyond6
  /\ \/ \E stored \in BOOLEAN : F!PublishLive(stored)
     \/ F!EmitNativeLine
     \/ F!Connect(c1)
     \/ Len(wire) < 3 /\ F!Tick(c1)
     \/ F!Deliver(c1)
     \/ F!Disconnect(c1)
     \/ F!Restart
     \/ s1 = 0 /\ s2[c1].queue = <<>> /\ \E n \in 1 .. 2, greatest \in BOOLEAN : F!InsertLog(n, greatest)
     \/ s1 = 0 /\ s2[c1].queue = <<>> /\ F!Poll

\* A reader that pages through logs while they are added and deleted, or a batch of every kind.
Mixed == exporters[p1].pc = "idle"
StoreNext ==
  /\ focus = "store" /\ UNCHANGED beyond8
  /\ \/ \E b \in {k1, p1}, answered \in BOOLEAN : B!Ingest(b, answered)
     \/ B!Ingest(k2, TRUE)
     \/ B!IngestFails(p1)
     \/ B!QueryPage
     \/ B!DeleteInRange({"log"}, 1, 1)
     \/ \E asc \in BOOLEAN : exporters[p1].pc = "told" /\ B!BeginPaging("log", asc, 0)
     \/ exporters[p1].pc = "told" /\ B!BeginPaging("log", TRUE, 2)
     \/ Mixed /\ B!Retention(1)
     \/ Mixed /\ B!Refill
     \/ Mixed /\ B!QueryTraces
     \/ Mixed /\ B!AggregateCosts
     \/ Mixed /\ \E k \in B!Kind : B!CountStats(k)

\* Two backfills of a growing session.
TranscriptNext ==
  /\ focus = "transcript" /\ UNCHANGED beyond6
  /\ \/ N!RecordEvent(TRUE)
     \/ logged = {} /\ N!RecordEvent(FALSE)
     \/ fillers[c1].pc = "idle" /\ fillers[c2].pc = "idle" /\ N!EmitSessionProjection("succeeded")
     \/ \E p \in {c1, c2} : N!BeginBackfill(p)
     \/ \E p \in {c1, c2} : N!InsertLogs(p)
     \/ \E p \in {c1, c2} : N!UpsertSummary(p)
     \/ \E p \in {c1, c2} : N!InsertMessages(p)
     \/ N!Stop(c2)
     \/ \E ofLogs, ofSessions \in BOOLEAN : s1 = 3 /\ N!DeleteInRange(ofLogs, ofSessions)
     \/ fillers[c1].pc = "done" /\ N!GetSessionDetail

\* Two dashboards and two widgets.
BoardsNext ==
  /\ focus = "boards" /\ UNCHANGED beyond4
  /\ \/ O!CreateDefault
     \/ O!UpdateDefault
     \/ O!ClearOnly
     \/ \E d \in {k1, k2} : O!CreateDashboard(d)
     \/ \E d \in {k1, k2} : O!ClearDefault(d)
     \/ \E d \in {k1, k2} : O!DropDefault(d)
     \/ \E d \in {k1, k2} : O!DeleteDashboard(d)
     \/ \E d \in {k1, k2}, w \in {p1, m1}, place \in {1, 2} : O!AddWidget(d, w, place)
     \/ \E d \in {k1, k2}, w \in {p1, m1}, place \in {1, 2} : O!UpdateWidget(d, w, place)
     \/ \E d \in {k1, k2}, w \in {p1, m1} : O!DeleteWidget(d, w)
     \/ \E d \in {k1, k2} : \E to \in [{p1, m1} -> {1, 2}] : O!UpdateWidgetPositions(d, to)

\* One process that works and one that migrates beside it.
UpgradeNext ==
  /\ focus = "upgrade" /\ UNCHANGED beyond7
  /\ \/ s3[c1].pc = "idle" /\ V!Begin(c1)
     \/ V!Begin(c2)
     \/ \E p \in {c1, c2} : V!Create(p)
     \/ \E p \in {c1, c2} : V!Check(p)
     \/ \E p \in {c1, c2} : V!Alter(p)
     \/ \E p \in {c1, c2} : V!Normalize(p)
     \/ \E p \in {c1, c2} : V!CreateTelemetry(p)
     \/ V!Stop(c2)
     \/ \E mode \in {"commit", "pull_request", "none"} : V!StartWork(c1, mode)
     \/ V!RecordDeliveryCommit(c1)
     \/ V!AwaitEvidence(c1)
     \/ V!FinalizeWorkItem(c1)
     \/ V!ClaimDelivery(c1)
     \/ \E status \in {"delivered", "failed"} : V!CompleteDelivery(c1, status)
     \/ V!ClaimExternalAction(c1)
     \/ \E status \in {"succeeded", "failed"} : V!CompleteExternalAction(c1, status)
     \/ V!WriteEvent(c1, 3)
     \/ V!CreateProject(c1)

\* One run at a service, of each of the three drivers.
GatewayNext ==
  /\ focus = "gateway" /\ UNCHANGED beyond6
  /\ \/ G!Accept
     \/ G!Progress
     \/ \E outcome \in G!Ended, damaged \in BOOLEAN : G!EndRun(outcome, damaged)
     \/ G!Finish
     \/ \E arrives \in BOOLEAN : G!Stop(arrives)
     \/ G!Deadline
     \/ G!TimerFires
     \/ G!RequestTimesOut
     \/ G!Cancel
     \/ G!Breaks
     \/ G!OpenSocket
     \/ G!ReceiveChallenge
     \/ \E ok \in BOOLEAN : G!Hello(ok)
     \/ G!Post
     \/ G!Refuse
     \/ G!Accepted
     \/ G!Waited
     \/ G!Started
     \/ G!NoRunId
     \/ G!ReadFrame
     \/ G!EndStream
     \/ G!Check
     \/ G!Fetch
     \/ \E named \in BOOLEAN : G!Created(named)

\* The source of a worker whose loop or agent is edited twice, or that of an API with two requests.
OfWorker == s8[c1].pc = "idle" /\ s8[c2].pc = "idle" /\ (s1 # "concept" => s2[k1].side = "v1")
OfApi(r) == s8[a1].pc = "idle" /\ s1 # "concept" /\ s2[k1].side = "none" /\ (r = c2 => s8[c1].pc # "idle")
Up == s8[a1].pc \in {"reading", "watching"}
Calm == Up /\ s11.made < 2 /\ Len(s10) < 2 /\ s3.changed = {} /\ s3.seen # {} /\ \A l \in s6 : l.at = s11.made
DefinitionsNext ==
  /\ focus = "defs" /\ UNCHANGED beyond11
  /\ \/ Calm /\ \E text \in {"none", "v2", "bad"} : (text = "bad" => s1 = "loop") /\ J!Edit(k1, "main", text)
     \/ Calm /\ s11.made = 0 /\ J!Edit(k1, "side", "none")
     \/ J!RefreshFileLoop
     \/ J!ListAgents
     \/ J!ReconcileAgentDefinitions
     \/ \E p \in J!Part : Len(s10) < 2 /\ J!Deliver(k1, p)
     \/ \E l \in s6 : J!LoadMain(l)
     \/ \E l \in s6 : Len(s10) < 2 /\ J!FinishLoad(l)
     \/ \E u \in J!User : (u = a1 => s8[a1].pc = "scan" \/ (s8[a1].pc = "watching" /\ s11.made > 0 /\ s11.clean # "yes")) /\ J!BeginScan(u)
     \/ \E u \in J!User : J!ScanMain(u, k1)
     \/ \E u \in J!User : J!ScanSide(u)
     \/ \E u \in J!User : Len(s10) < 2 /\ J!EndScan(u)
     \/ OfWorker /\ J!Start(a1)
     \/ \E r \in {c1, c2} : OfApi(r) /\ J!Start(r)
     \/ \E r \in {c1, c2} : J!Joined(r)
     \/ J!Ready
     \/ J!ListDefinitions
     \/ J!Watch
     \/ \E r \in {c1, c2} : J!Look(r, k1)
     \/ \E r \in {c1, c2} : J!Stop(r)

\* Two makers of an item and its checker, of which the first may be lost while it runs.
Writes(a) == IF a = 3 THEN {s8[a], [s8[a] EXCEPT ![k1] = a]} ELSE {[f \in {k1, k2} |-> a], [s8[a] EXCEPT ![k1] = a]}
Working(a) == s6[a].pc \in {"linked", "copying", "closed"} /\ s6[a].left # {k2}
Settled == s6[1].pc \in {"done", "threw", "dead"}
AttemptNext ==
  /\ focus = "attempt" /\ UNCHANGED beyond11
  /\ \/ \E a \in 1 .. 2, wake \in 1 .. 2 : E!DispatchMaker(a, wake)
     \/ Settled /\ \E m \in 1 .. 2 : E!DispatchChecker(m)
     \/ \E a \in 1 .. 3 : E!Setup(a)
     \/ s6[1].pc = "opened" /\ E!Throw(1)
     \/ \E a \in 1 .. 3 : E!ReadSession(a)
     \/ \E a \in 1 .. 3 : E!OpenSession(a)
     \/ \E a \in 1 .. 3 : E!Link(a)
     \/ \E a \in 1 .. 3 : \E files \in Writes(a), p \in {a, s6[a].asked} \ {0} :
          (a = 2 => Settled \/ s1 = "repository") /\ E!Execute(a, "returned", TRUE, p, TRUE, files)
     \/ Settled /\ E!Execute(2, "returned", TRUE, 2, FALSE, [f \in {k1, k2} |-> 2])
     \/ \E end \in {"returned", "timed_out"} : E!Execute(1, end, FALSE, 1, TRUE, [f \in {k1, k2} |-> 1])
     \/ E!Execute(1, "cancelled", TRUE, 1, TRUE, [f \in {k1, k2} |-> 1])
     \/ E!WrongIdentity(1)
     \/ \E a \in 1 .. 3, refused \in BOOLEAN : (refused => a = 1) /\ E!CheckOutput(a, refused)
     \/ \E a \in 1 .. 3, f \in {k1, k2} : (f = k2 => a = 1 \/ k1 \notin s6[a].left) /\ E!CopyArtifact(a, f)
     \/ \E a \in 1 .. 3 : E!RecordArtifact(a)
     \/ E!StopCopying(1)
     \/ \E a \in 1 .. 3 : E!FinishCopying(a)
     \/ E!ApplyActionsFails(1)
     \/ \E a \in 1 .. 3 : E!CompleteSession(a)
     \/ \E a \in 1 .. 3 : E!CompleteAttempt(a)
     \/ Working(1) /\ E!Lose(1)
     \/ \E a \in {1, 3} : Working(a) /\ E!Die(a)
     \/ E!Reconcile(1)
     \/ E!QueueRetry(1)

Next == \/ EdgeNext \/ DelegateNext \/ DirectoryNext \/ PortfolioNext \/ DeliveryNext \/ ManagerNext
        \/ ScheduleNext \/ PublishNext \/ LoopNext \/ CliNext \/ ImportNext
        \/ SessionNext \/ AcpNext \/ LearnNext \/ RemoteNext
        \/ FeedNext \/ StoreNext \/ TranscriptNext \/ BoardsNext \/ UpgradeNext \/ GatewayNext \/ DefinitionsNext
        \/ AttemptNext
Spec == Init /\ [][Next]_vars

\* Every component keeps to the values its schemas allow.
TypeOK ==
  CASE focus \in {"edges", "delegate"} -> A!TypeOK
    [] focus = "directory" -> D!TypeOK
    [] focus \in {"portfolio", "delivery"} -> P!TypeOK
    [] focus = "manager" -> M!TypeOK
    [] focus = "schedule" -> S!TypeOK
    [] focus = "publish" -> C!TypeOK
    [] focus = "loop" -> L!TypeOK
    [] focus = "cli" -> H!TypeOK
    [] focus = "import" -> I!TypeOK
    [] focus = "session" -> Q!TypeOK
    [] focus = "acp" -> T!TypeOK
    [] focus = "learn" -> K!TypeOK
    [] focus = "remote" -> R!TypeOK
    [] focus = "feed" -> F!TypeOK
    [] focus = "store" -> B!TypeOK
    [] focus = "transcript" -> N!TypeOK
    [] focus = "boards" -> O!TypeOK
    [] focus = "upgrade" -> V!TypeOK
    [] focus = "gateway" -> G!TypeOK
    [] focus = "defs" -> J!TypeOK
    [] focus = "attempt" -> E!TypeOK
\* Calls that race or retry agree on the assignee of a delegation (Authority).
OneAssignee == focus = "delegate" => A!OneAssignee
\* One pull request for an approved change of autonomy (Directory).
OnePullRequest == focus = "directory" => D!OnePullRequest
\* At most one primary objective for a project (Portfolio).
OnePrimary == focus \in {"portfolio", "delivery"} => P!OnePrimary
\* A delegation has one child and one callback, and the manager's workspace is kept for them (Delegation).
DelegationKept == focus = "manager" => M!DelegationKept
\* An item is taken up only after what it depends on was completed (DependencyScheduler).
DependenciesFirst == focus = "schedule" => S!DependenciesFirst
\* A delivery that was reported stays delivered (DeliveryClaim).
DeliveredStays == focus = "publish" => C!DeliveredStays
\* A loop that catches up loses no occurrence (LoopRun).
NoOccurrenceLost == focus = "loop" => L!NoOccurrenceLost
\* A CLI's result lists what it did, and does not call what was stopped a success (AgentCli); the
\* result of a run at a service says how that run ended (Gateway).
ResultIsTrue == (focus = "cli" => H!ResultIsTrue) /\ (focus = "gateway" => G!AnswerIsTrue)
\* What the import of a session has passed is stored (SessionImport).
NoLineLost == focus = "import" => I!NoLineLost
\* A run of a session that succeeded left its whole transcript (Sessions), and an attempt that
\* succeeded its artifacts or its commit, which is what its retry or its checker is given (AttemptEvidence).
EvidenceComplete == (focus = "session" => Q!EvidenceComplete) /\ (focus = "attempt" => E!EvidenceComplete)
\* No runtime of a failed run is handed on (Acp).
FailedRuntimesDropped == focus = "acp" => T!FailedRuntimesDropped
\* A proposal is accepted once, with one change request (Knowledge).
AcceptedOnce == focus = "learn" => K!AcceptedOnce
\* A run's worktree gets the edits of its own command (RemoteTarget).
OwnWorkComesHome == focus = "remote" => R!OwnWorkComesHome
\* A client of the live feed misses no event up to the last it saw (LiveFeed).
NoEventMissed == focus = "feed" => F!NoEventMissed
\* Pages show every row that was there all the while, once (TelemetryStore).
PagesComplete == focus = "store" => B!PagesComplete
\* Backfills agree on a session's transcript (Transcripts).
TranscriptFaithful == focus = "transcript" => N!TranscriptFaithful
\* Migrations beside the work of others take nothing from it (Migrations).
UpgradeKeepsWork == focus = "upgrade" => V!UpgradeKeepsWork
\* The worker runs the definitions that its files hold (Definitions).
DefinitionsKnown == focus = "defs" => J!DefinitionsKnown
=============================================================================
