---------------------------- MODULE SystemsProofs ----------------------------
(***************************************************************************)
(* What ComponentProofs and PlatformProofs prove of the components, for    *)
(* the behaviours that MCSystems runs: the focus of a behaviour never      *)
(* changes, and while it is a component's, the behaviour is one of that    *)
(* component.                                                              *)
(***************************************************************************)
EXTENDS MCSystems, TLAPS

CP == INSTANCE ComponentProofs WITH
  Nobody <- nobody, Caller <- {c1, c2},
  Cause <- {k1, k2}, Verified <- {p1}, PathOf <- (k1 :> a1) @@ (k2 :> a2) @@ (p1 :> a1),
  TroublesOf <- (k1 :> {}) @@ (k2 :> {k1}),
  cause <- s1, memory <- s2, proposal <- s3, change <- s4, wake <- s5, learner <- s6,
  Run <- {k1, k2}, Key <- {p1, m1}, KeyOf <- [r \in {k1, k2} |-> p1],
  AskOf <- (k1 :> [Local EXCEPT !.resume = TRUE]) @@ (k2 :> Local),
  warm <- s1, open <- s2, active <- s3, client <- s4,
  Deliverer <- {c1, c2, a1}, Commit <- {k1, k2}, MaxClaims <- 3,
  delivery <- s1, commit <- s2, writer <- s3, deliverer <- s4, pulls <- s5, told <- s6,
  Agent <- Agents, Boss <- a1, Asked <- {k1}, Wanted <- [r \in {k1} |-> {a2, a3}],
  Offered <- {Edge(a1, a2, "manages"), Edge(a1, a2, "reports_to"), Edge(a1, a2, "may_delegate_to")},
  Hierarchy <- {(a1 :> nobody) @@ (a2 :> a1) @@ (a3 :> a1),
                (a1 :> nobody) @@ (a2 :> a1) @@ (a3 :> "absent")},
  MaxPending <- 2,
  service <- s1, managed <- s2, intent <- s3, edge <- s4, route <- s5, delegation <- s6,
  work <- s7, escalation <- s8, router <- s9, setter <- s10, reconciler <- s11,
  Person <- {a1}, Department <- {d1}, Proposal <- {k1, k2},
  From <- (k1 :> 0) @@ (k2 :> 1), To <- (k1 :> 1) @@ (k2 :> 0),
  Bundle <- {(k1 :> "approved") @@ (k2 :> "none")},
  manager <- s1, member <- s2, autonomy <- s3, carried <- s4, opened <- s5, level <- s6,
  clerk <- s7,
  Staff <- {a1, a2}, Ceo <- a1, Founder <- founder, Goal <- {g1, g2}, Project <- {p1},
  Milestone <- {m1}, ProjectOf <- (m1 :> p1),
  Portfolios <- {{[project |-> p1, goal |-> g1, manager |-> nobody]},
                 {[project |-> p1, goal |-> g1, manager |-> a2]}},
  MaxProjects <- 1, Share <- {100}, ProcessRun <- {k1},
  company <- s1, objective <- s2, measured <- s3, portfolio <- s4, project <- s5, link <- s6,
  managerRow <- s7, share <- s8, milestone <- s9, verified <- s10, binding <- s11,
  processes <- s12, woken <- s13, commander <- s14,
  Item <- {k1, k2}, Order <- <<k1, k2>>, Ticker <- {c1, c2}, Adder <- {c1, c2},
  Edges <- {<<k1, k2>>, <<k2, k1>>}, Deadlined <- {k1}, Concurrency <- 1, RunLimit <- 2,
  MaxTicks <- 2,
  item <- s1, assigned <- s2, needs <- s3, overdue <- s4, later <- s5, runs <- s6,
  workflow <- s7, ticker <- s8, adder <- s9, completed <- s10, begun <- s11, known <- s12,
  Action <- {k1, k2, p1}, Setup <- {Hires, SetsUp, Reports}, MaxActions <- 3, MaxAttempts <- 2,
  setup <- s1, attempt <- s2, broker <- s3, request <- s4, applying <- s5, agent <- s6, child <- s7,
  callback <- s8, process <- s9, recorded <- s10, workspace <- s11, lock <- s12, settler <- s13,
  MaxMakers <- 2, File <- {k1, k2}, Declared <- {k1},
  kind <- s1, deliveredBy <- s2, claim <- s3, judged <- s4, att <- s5, run <- s6, sess <- s7, ws <- s8,
  base <- s9, disk <- s10, rec <- s11

PP == INSTANCE PlatformProofs WITH
  Looper <- {c1, c2}, Found <- <<k1>>, Intervals <- 3, Cap <- 2, Soft <- 1, Hard <- 1,
  policy <- s1, now <- s2, paused <- s3, spent <- s4, occurred <- s5, newest <- s6, looper <- s7,
  jumped <- s8,
  Client <- {c1}, Limit <- 2, MaxQueue <- 1, Last <- 4,
  last <- s1, hub <- s2, stream <- s3, client <- s4, flooded <- s5, page <- s6,
  Runner <- {k1, k2}, Box <- {p1, m1}, Nobody <- nobody,
  provider <- s1, box <- s2, leases <- s3, edits <- s4, process <- s5, runner <- s6, home <- s7,
  Opener <- {c1, c2}, Version <- {Fresh, Upgraded, Ancient},
  tables <- s1, lacking <- s2, opener <- s3, item <- s4, action <- s5, events <- s6, project <- s7,
  Kind <- {"openclaw", "hermes", "cursor"}, MaxFrames <- 2,
  kind <- s1, call <- s2, service <- s3, frames <- s4, answer <- s5, lost <- s6,
  Process <- {a1}, Call <- {c1, c2, k1}, ProcessOf <- [c \in {c1, c2, k1} |-> a1],
  Driver <- (c1 :> "opencode") @@ (c2 :> "managed") @@ (k1 :> "codex"), Session <- {p1},
  SessionOf <- [c \in {c1, c2, k1} |-> p1], Id <- {k1, k2},
  alive <- s1, lockFile <- s2, lockLine <- s3, cliChain <- s4, sessions <- s5, cli <- s6,
  Request <- {k1, k2}, ProcessFor <- [r \in {k1, k2} |-> a1], SessionFor <- [r \in {k1, k2} |-> p1],
  WakeupOf <- [r \in {k1, k2} |-> m1], Sender <- {c1}, MaxAttempts <- 2, MaxLines <- 2,
  row <- s1, emitted <- s2, live <- s3, turn <- s4, other <- s5,
  Definition <- {k1}, Builtin <- {k1}, Worker <- a1, Reader <- {c1, c2},
  disk <- s2, watcher <- s3, watching <- s4, cache <- s5, loads <- s6, scan <- s7, user <- s8,
  registry <- s9, refresh <- s10, edited <- s11

\* Every step is one of the focus it is in, and keeps it.
LEMMA FocusStays == [Next]_vars => focus' = focus
  BY DEF Next, vars, EdgeNext, DelegateNext, DirectoryNext, PortfolioNext, DeliveryNext, ManagerNext,
     ScheduleNext, PublishNext, LoopNext, CliNext, ImportNext, SessionNext, AcpNext, LearnNext,
     RemoteNext, FeedNext, StoreNext, TranscriptNext, BoardsNext, UpgradeNext, GatewayNext,
     DefinitionsNext, AttemptNext, beyond4, beyond5, beyond6, beyond7, beyond8, beyond9, beyond11,
     beyond12, beyond13, beyond14

\* Every step is a step of its own focus, and of no other.
LEMMA FocusNext ==
  ASSUME Next
  PROVE  /\ focus = "learn" => LearnNext
         /\ focus = "acp" => AcpNext
         /\ focus = "publish" => PublishNext
         /\ focus = "delegate" => DelegateNext
         /\ focus = "directory" => DirectoryNext
         /\ focus = "portfolio" => PortfolioNext
         /\ focus = "delivery" => DeliveryNext
         /\ focus = "schedule" => ScheduleNext
         /\ focus = "loop" => LoopNext
         /\ focus = "feed" => FeedNext
         /\ focus = "remote" => RemoteNext
         /\ focus = "upgrade" => UpgradeNext
         /\ focus = "manager" => ManagerNext
         /\ focus = "attempt" => AttemptNext
         /\ focus = "session" => SessionNext
         /\ focus = "cli" => CliNext
         /\ focus = "gateway" => GatewayNext
         /\ focus = "defs" => DefinitionsNext
  BY DEF Next, EdgeNext, DelegateNext, DirectoryNext, PortfolioNext, DeliveryNext, ManagerNext,
     ScheduleNext, PublishNext, LoopNext, CliNext, ImportNext, SessionNext, AcpNext, LearnNext,
     RemoteNext, FeedNext, StoreNext, TranscriptNext, BoardsNext, UpgradeNext, GatewayNext,
     DefinitionsNext, AttemptNext

-----------------------------------------------------------------------------
(* Knowledge.                                                              *)

\* A behaviour of the focus begins as the component does.
LEMMA LearnStarts == Init /\ focus = "learn" => CP!K!Init
  BY DEF Init, K!Init, CP!K!Init, K!Subject, CP!K!Subject, K!None, CP!K!None, K!AtRest, CP!K!AtRest

\* Its steps are the component's.
LEMMA LearnSteps == focus = "learn" /\ [Next]_vars => [CP!K!Next]_(CP!K!vars)
<1> SUFFICES ASSUME focus = "learn", [Next]_vars PROVE [CP!K!Next]_(CP!K!vars)
  OBVIOUS
<1>1. CASE UNCHANGED vars
  BY <1>1 DEF vars, K!vars, CP!K!vars
<1>2. CASE LearnNext
  BY <1>2 DEF LearnNext, K!Next, CP!K!Next, K!Happen, CP!K!Happen, K!BeginEvaluate, CP!K!BeginEvaluate,
     K!ListProposals, CP!K!ListProposals, K!InsertMemory, CP!K!InsertMemory, K!InsertProposal,
     CP!K!InsertProposal, K!EndEvaluate, CP!K!EndEvaluate, K!WriteReview, CP!K!WriteReview,
     K!RecordReview, CP!K!RecordReview, K!Crash, CP!K!Crash, K!Subject, CP!K!Subject,
     K!FindMemory, CP!K!FindMemory, K!BeginWriteback, CP!K!BeginWriteback, K!BeginReview,
     CP!K!BeginReview, K!At, CP!K!At, K!Set, CP!K!Set, K!Active, CP!K!Active, K!None,
     CP!K!None, K!End, CP!K!End, K!AtRest, CP!K!AtRest
<1> QED BY <1>1, <1>2, FocusNext

\* A proposal is accepted once, with one change request (Knowledge).
THEOREM ProposalsAccepted == Spec => []AcceptedOnce
<1>1. (focus = "learn" => CP!K!AcceptedOnce) => AcceptedOnce
  BY DEF AcceptedOnce, K!AcceptedOnce, CP!K!AcceptedOnce, K!Subject, CP!K!Subject
<1>2. CP!K!Spec => []CP!K!AcceptedOnce
  BY NobodyIsNone, CP!ReviewsAccepted
<1>3. /\ focus = "learn" /\ [Next]_vars => (focus = "learn")'
      /\ ~(focus = "learn") /\ [Next]_vars => ~(focus = "learn")'
  BY FocusStays
<1> QED BY <1>1, <1>2, <1>3, LearnStarts, LearnSteps, PTL DEF Spec, CP!K!Spec

-----------------------------------------------------------------------------
(* Acp.                                                                    *)

\* A behaviour of the focus begins as the component does.
LEMMA AcpStarts == Init /\ focus = "acp" => CP!T!Init
  BY DEF Init, T!Init, CP!T!Init, T!Empty, CP!T!Empty, T!NotStarted, CP!T!NotStarted

\* Its steps are the component's.
LEMMA AcpSteps == focus = "acp" /\ [Next]_vars => [CP!T!Next]_(CP!T!vars)
<1> SUFFICES ASSUME focus = "acp", [Next]_vars PROVE [CP!T!Next]_(CP!T!vars)
  OBVIOUS
<1>1. CASE UNCHANGED vars
  BY <1>1 DEF vars, T!vars, CP!T!vars
<1>2. CASE AcpNext
  BY ZenonT(30), <1>2 DEF AcpNext, Local, T!Next, CP!T!Next, T!Step, CP!T!Step, T!Idle, CP!T!Idle, T!Cancel,
     CP!T!Cancel, T!Execute, CP!T!Execute, T!EvictIdle, CP!T!EvictIdle, T!DropIdle,
     CP!T!DropIdle, T!FindRuntime, CP!T!FindRuntime, T!CreateRuntime, CP!T!CreateRuntime,
     T!EnsureSession, CP!T!EnsureSession, T!Register, CP!T!Register, T!TimeOut, CP!T!TimeOut,
     T!Abort, CP!T!Abort, T!EndTurn, CP!T!EndTurn, T!BreakTurn, CP!T!BreakTurn, T!EndRun,
     CP!T!EndRun, T!Drop, CP!T!Drop, T!LogResult, CP!T!LogResult, T!CloseAfterError,
     CP!T!CloseAfterError, T!DropAfterError, CP!T!DropAfterError, T!Pooled, CP!T!Pooled, T!At,
     CP!T!At, T!Engine, CP!T!Engine, T!Set, CP!T!Set, T!Ask, CP!T!Ask, T!Failure,
     CP!T!Failure, T!Empty, CP!T!Empty, T!Unsuccessful, CP!T!Unsuccessful, T!Forget,
     CP!T!Forget
<1> QED BY <1>1, <1>2, FocusNext

\* No runtime of a failed run is handed on (Acp).
THEOREM FailuresDropped == Spec => []FailedRuntimesDropped
<1>1. (focus = "acp" => CP!T!FailedRuntimesDropped) => FailedRuntimesDropped
  BY DEF FailedRuntimesDropped, T!FailedRuntimesDropped, CP!T!FailedRuntimesDropped
<1>2. CP!T!Spec => []CP!T!FailedRuntimesDropped
  BY NobodyIsNone, CP!RuntimesDropped
<1>3. /\ focus = "acp" /\ [Next]_vars => (focus = "acp")'
      /\ ~(focus = "acp") /\ [Next]_vars => ~(focus = "acp")'
  BY FocusStays
<1> QED BY <1>1, <1>2, <1>3, AcpStarts, AcpSteps, PTL DEF Spec, CP!T!Spec

-----------------------------------------------------------------------------
(* DeliveryClaim.                                                          *)

\* A behaviour of the focus begins as the component does.
LEMMA PublishStarts == Init /\ focus = "publish" => CP!C!Init
  BY DEF Init, C!Init, CP!C!Init, C!AtRest, CP!C!AtRest

\* Its steps are the component's.
LEMMA PublishSteps == focus = "publish" /\ [Next]_vars => [CP!C!Next]_(CP!C!vars)
<1> SUFFICES ASSUME focus = "publish", [Next]_vars PROVE [CP!C!Next]_(CP!C!vars)
  OBVIOUS
<1>1. CASE UNCHANGED vars
  BY <1>1 DEF vars, C!vars, CP!C!vars
<1>2. CASE PublishNext
  BY <1>2 DEF PublishNext, C!Next, CP!C!Next, C!Make, CP!C!Make, C!ExpireLease, CP!C!ExpireLease,
     C!Deliver, CP!C!Deliver, C!ReadEvidence, CP!C!ReadEvidence, C!RecordDeliveryCommit,
     CP!C!RecordDeliveryCommit, C!FinalizeWorkItem, CP!C!FinalizeWorkItem, C!ClaimDelivery,
     CP!C!ClaimDelivery, C!Reread, CP!C!Reread, C!Push, CP!C!Push, C!FindPull, CP!C!FindPull,
     C!CreatePull, CP!C!CreatePull, C!CompleteDelivery, CP!C!CompleteDelivery, C!Crash,
     CP!C!Crash, C!At, CP!C!At, C!Claimable, CP!C!Claimable, C!Goto, CP!C!Goto, C!AtRest,
     CP!C!AtRest, C!Owns, CP!C!Owns
<1> QED BY <1>1, <1>2, FocusNext

\* A delivery that was reported stays delivered (DeliveryClaim).
THEOREM DeliveriesKept == Spec => []DeliveredStays
<1>1. (focus = "publish" => CP!C!DeliveredStays) => DeliveredStays
  BY DEF DeliveredStays, C!DeliveredStays, CP!C!DeliveredStays
<1>2. CP!C!Spec => []CP!C!DeliveredStays
  BY CP!DeliveriesStay
<1>3. /\ focus = "publish" /\ [Next]_vars => (focus = "publish")'
      /\ ~(focus = "publish") /\ [Next]_vars => ~(focus = "publish")'
  BY FocusStays
<1> QED BY <1>1, <1>2, <1>3, PublishStarts, PublishSteps, PTL DEF Spec, CP!C!Spec

-----------------------------------------------------------------------------
(* Authority.                                                              *)

\* A behaviour of the focus begins as the component does.
LEMMA DelegateStarts == Init /\ focus = "delegate" => CP!A!Init
  BY DEF Init, A!Init, CP!A!Init, A!NoRoute, CP!A!NoRoute, A!NoDelegation, CP!A!NoDelegation,
     A!AtRest, CP!A!AtRest, A!Nothing, CP!A!Nothing

\* The actions of the calls and of what changes beside them are the same, action by action.
LEMMA DelegateActions ==
  /\ \A e : A!ReadEdges(e) => CP!A!ReadEdges(e)
  /\ \A w : A!InsertEdge(w) => CP!A!InsertEdge(w)
  /\ \A a : A!RegisterServiceAgent(a) => CP!A!RegisterServiceAgent(a)
  /\ \A a, t : A!TransitionServiceAgent(a, t) => CP!A!TransitionServiceAgent(a, t)
  /\ \A w : A!WriteService(w) => CP!A!WriteService(w)
  /\ \A c, r : A!BeginDelegate(c, r) => CP!A!BeginDelegate(c, r)
  /\ \A c : A!FindDelegation(c) => CP!A!FindDelegation(c)
  /\ \A c : A!FindRoute(c) => CP!A!FindRoute(c)
  /\ \A c : A!Choose(c) => CP!A!Choose(c)
  /\ \A c : A!CreateEscalation(c) => CP!A!CreateEscalation(c)
  /\ \A c : A!PersistRoute(c) => CP!A!PersistRoute(c)
  /\ \A c : A!CreateWork(c) => CP!A!CreateWork(c)
  /\ \A c : A!RecordDelegation(c) => CP!A!RecordDelegation(c)
  /\ \A c : A!CrashCall(c) => CP!A!CrashCall(c)
  /\ \A r : A!AcknowledgeEscalation(r) => CP!A!AcknowledgeEscalation(r)
  /\ \A r : A!ResolveEscalation(r) => CP!A!ResolveEscalation(r)
<1>1. /\ \A e : A!ReadEdges(e) => CP!A!ReadEdges(e)
      /\ \A w : A!InsertEdge(w) => CP!A!InsertEdge(w)
      /\ \A a : A!RegisterServiceAgent(a) => CP!A!RegisterServiceAgent(a)
      /\ \A a, t : A!TransitionServiceAgent(a, t) => CP!A!TransitionServiceAgent(a, t)
      /\ \A w : A!WriteService(w) => CP!A!WriteService(w)
      /\ \A c, r : A!BeginDelegate(c, r) => CP!A!BeginDelegate(c, r)
      /\ \A c : A!FindDelegation(c) => CP!A!FindDelegation(c)
      /\ \A c : A!FindRoute(c) => CP!A!FindRoute(c)
  BY DEF A!ReadEdges, CP!A!ReadEdges, A!ClosesCycle, CP!A!ClosesCycle, A!agents, CP!A!agents,
     A!requests, CP!A!requests, A!Command, CP!A!Command, A!HasPath, CP!A!HasPath, A!Walk, CP!A!Walk,
     A!Cardinality, CP!A!Cardinality, A!IsFiniteSet, CP!A!IsFiniteSet, A!InsertEdge, CP!A!InsertEdge,
     A!RegisterServiceAgent, CP!A!RegisterServiceAgent, A!MayIntend, CP!A!MayIntend, A!Intend,
     CP!A!Intend, A!Registered, CP!A!Registered, A!edges, CP!A!edges, A!TransitionServiceAgent,
     CP!A!TransitionServiceAgent, A!WriteService, CP!A!WriteService, A!BeginDelegate,
     CP!A!BeginDelegate, A!AtRest, CP!A!AtRest, A!NoRoute, CP!A!NoRoute, A!FindDelegation,
     CP!A!FindDelegation, A!Goto, CP!A!Goto, A!Key, CP!A!Key, A!NoDelegation, CP!A!NoDelegation,
     A!FindRoute, CP!A!FindRoute, A!Follow, CP!A!Follow
<1>2. /\ \A c : A!Choose(c) => CP!A!Choose(c)
      /\ \A c : A!CreateEscalation(c) => CP!A!CreateEscalation(c)
      /\ \A c : A!PersistRoute(c) => CP!A!PersistRoute(c)
      /\ \A c : A!CreateWork(c) => CP!A!CreateWork(c)
      /\ \A c : A!RecordDelegation(c) => CP!A!RecordDelegation(c)
      /\ \A c : A!CrashCall(c) => CP!A!CrashCall(c)
      /\ \A r : A!AcknowledgeEscalation(r) => CP!A!AcknowledgeEscalation(r)
      /\ \A r : A!ResolveEscalation(r) => CP!A!ResolveEscalation(r)
  BY DEF A!Choose, CP!A!Choose, A!Eligible, CP!A!Eligible, A!Key, CP!A!Key, A!Authorised,
     CP!A!Authorised, A!agents, CP!A!agents, A!edges, CP!A!edges, A!HasPath, CP!A!HasPath, A!Walk,
     CP!A!Walk, A!CreateEscalation, CP!A!CreateEscalation, A!Goto, CP!A!Goto, A!PersistRoute,
     CP!A!PersistRoute, A!Adopted, CP!A!Adopted, A!Follow, CP!A!Follow, A!NoRoute, CP!A!NoRoute,
     A!CreateWork, CP!A!CreateWork, A!NoDelegation, CP!A!NoDelegation, A!RecordDelegation,
     CP!A!RecordDelegation, A!CrashCall, CP!A!CrashCall, A!AtRest, CP!A!AtRest, A!AcknowledgeEscalation,
     CP!A!AcknowledgeEscalation, A!ResolveEscalation, CP!A!ResolveEscalation
<1> QED BY <1>1, <1>2

\* Its steps are the component's.
LEMMA DelegateSteps == focus = "delegate" /\ [Next]_vars => [CP!A!Next]_(CP!A!vars)
<1> SUFFICES ASSUME focus = "delegate", [Next]_vars PROVE [CP!A!Next]_(CP!A!vars)
  OBVIOUS
<1>1. CASE UNCHANGED vars
  BY <1>1 DEF vars, A!vars, CP!A!vars, A!agents, CP!A!agents, A!edges, CP!A!edges, A!requests, CP!A!requests
<1>2. CASE DelegateNext
  <2>1. a1 \in Agents /\ a2 \in Agents /\ a3 \in Agents
    BY DEF Agents
  <2> QED BY <1>2, <2>1, DelegateActions
     DEF DelegateNext, CP!A!Next, CP!A!SetEdge, CP!A!Life, CP!A!Delegate, CP!A!Answer, intent, setter
<1> QED BY <1>1, <1>2, FocusNext

\* Calls that race or retry agree on the assignee of a delegation (Authority).
THEOREM OneAssigneeHolds == Spec => []OneAssignee
<1>1. [r \in {k1} |-> {a2, a3}] \in [{k1} -> SUBSET Agents]
  BY NobodyIsNone DEF Agents
<1>2. (focus = "delegate" => CP!A!OneAssignee) => OneAssignee
  BY DEF OneAssignee, A!OneAssignee, CP!A!OneAssignee, A!NoDelegation, CP!A!NoDelegation
<1>3. CP!A!Spec => []CP!A!OneAssignee
  BY <1>1, CP!AssigneesAgree
<1>4. /\ focus = "delegate" /\ [Next]_vars => (focus = "delegate")'
      /\ ~(focus = "delegate") /\ [Next]_vars => ~(focus = "delegate")'
  BY FocusStays
<1> QED BY <1>2, <1>3, <1>4, DelegateStarts, DelegateSteps, PTL DEF Spec, CP!A!Spec

-----------------------------------------------------------------------------
(* Directory.                                                              *)

\* A behaviour of the focus begins as the component does.
LEMMA DirectoryStarts == Init /\ focus = "directory" => CP!D!Init
  BY DEF Init, D!Init, CP!D!Init, D!AtRest, CP!D!AtRest

\* Its steps are the component's.
LEMMA DirectorySteps == focus = "directory" /\ [Next]_vars => [CP!D!Next]_(CP!D!vars)
<1> SUFFICES ASSUME focus = "directory", [Next]_vars PROVE [CP!D!Next]_(CP!D!vars)
  OBVIOUS
<1>1. CASE UNCHANGED vars
  BY <1>1 DEF vars, D!vars, CP!D!vars
<1>2. CASE DirectoryNext
  BY <1>2 DEF DirectoryNext, D!Next, CP!D!Next, D!Change, CP!D!Change, D!Organise, CP!D!Organise,
     D!Decide, CP!D!Decide, D!Crash, CP!D!Crash, D!Others, CP!D!Others, D!BeginChange,
     CP!D!BeginChange, D!FindChange, CP!D!FindChange, D!ReviewChange, CP!D!ReviewChange,
     D!InsertChange, CP!D!InsertChange, D!FailChange, CP!D!FailChange, D!CommitAndPush,
     CP!D!CommitAndPush, D!OpenPullRequest, CP!D!OpenPullRequest, D!RecordChange,
     CP!D!RecordChange, D!CreateDepartment, CP!D!CreateDepartment, D!SetDepartmentMember,
     CP!D!SetDepartmentMember, D!PutManager, CP!D!PutManager, D!DecideAutonomyProposal,
     CP!D!DecideAutonomyProposal, D!WriteDecision, CP!D!WriteDecision, D!Idle, CP!D!Idle,
     D!Rest, CP!D!Rest, D!CreateAutonomyProposal, CP!D!CreateAutonomyProposal, D!Merge,
     CP!D!Merge, D!ImportCompany, CP!D!ImportCompany, D!Asked, CP!D!Asked, D!Goto, CP!D!Goto,
     D!AtRest, CP!D!AtRest
<1> QED BY <1>1, <1>2, FocusNext

\* One pull request for an approved change of autonomy (Directory).
THEOREM OnePullRequestHolds == Spec => []OnePullRequest
<1>1. (focus = "directory" => CP!D!OnePullRequest) => OnePullRequest
  BY DEF OnePullRequest, D!OnePullRequest, CP!D!OnePullRequest
<1>2. CP!D!Spec => []CP!D!OnePullRequest
  BY CP!ChangesCarriedOnce
<1>3. /\ focus = "directory" /\ [Next]_vars => (focus = "directory")'
      /\ ~(focus = "directory") /\ [Next]_vars => ~(focus = "directory")'
  BY FocusStays
<1> QED BY <1>1, <1>2, <1>3, DirectoryStarts, DirectorySteps, PTL DEF Spec, CP!D!Spec

-----------------------------------------------------------------------------
(* Portfolio.                                                              *)

\* A behaviour of the focus begins as the component does.
LEMMA PortfolioStarts == Init /\ focus \in {"portfolio", "delivery"} => CP!P!Init
  BY DEF Init, P!Init, CP!P!Init, P!NoProject, CP!P!NoProject, P!AtRest, CP!P!AtRest

\* The commands and what changes beside them are the same, action by action.
LEMMA PortfolioActions ==
  /\ \A c : P!CheckSetup(c) => CP!P!CheckSetup(c)
  /\ \A c : P!CheckValidate(c) => CP!P!CheckValidate(c)
  /\ \A c : P!CheckDiscovery(c) => CP!P!CheckDiscovery(c)
  /\ \A c, a, projects : P!CheckProposal(c, a, projects) => CP!P!CheckProposal(c, a, projects)
  /\ \A c : P!CheckActivate(c) => CP!P!CheckActivate(c)
  /\ \A c, g : P!CheckObjective(c, g) => CP!P!CheckObjective(c, g)
  /\ \A c, a, p, g, m : P!CheckProject(c, a, p, g, m) => CP!P!CheckProject(c, a, p, g, m)
  /\ \A c, a, p, g, primary : P!CheckLink(c, a, p, g, primary) => CP!P!CheckLink(c, a, p, g, primary)
  /\ \A c, a, p, m : P!CheckAppoint(c, a, p, m) => CP!P!CheckAppoint(c, a, p, m)
  /\ \A c, a, p, m, percent : P!CheckAssign(c, a, p, m, percent) => CP!P!CheckAssign(c, a, p, m, percent)
  /\ \A c, a, m : P!CheckMilestone(c, a, m) => CP!P!CheckMilestone(c, a, m)
  /\ \A c, a, p, owner : P!CheckBind(c, a, p, owner) => CP!P!CheckBind(c, a, p, owner)
  /\ \A c, a, p, r : P!CheckRun(c, a, p, r) => CP!P!CheckRun(c, a, p, r)
  /\ \A c, g : P!CheckMeasure(c, g) => CP!P!CheckMeasure(c, g)
  /\ \A c, a, m, verdict : P!CheckJudge(c, a, m, verdict) => CP!P!CheckJudge(c, a, m, verdict)
  /\ \A c, a, p : P!CheckEvaluateProject(c, a, p) => CP!P!CheckEvaluateProject(c, a, p)
  /\ \A c, a, g : P!CheckEvaluateObjective(c, a, g) => CP!P!CheckEvaluateObjective(c, a, g)
  /\ \A c, goals : P!Setup(c, goals) => CP!P!Setup(c, goals)
  /\ \A c : P!Validate(c) => CP!P!Validate(c)
  /\ \A c : P!StartDiscovery(c) => CP!P!StartDiscovery(c)
  /\ \A c : P!SubmitPortfolioProposal(c) => CP!P!SubmitPortfolioProposal(c)
  /\ \A c : P!ActivateCompany(c) => CP!P!ActivateCompany(c)
  /\ \A c : P!CreateObjective(c) => CP!P!CreateObjective(c)
  /\ \A c : P!CreateProject(c) => CP!P!CreateProject(c)
  /\ \A c : P!LinkProjectObjective(c) => CP!P!LinkProjectObjective(c)
  /\ \A c : P!AppointManager(c) => CP!P!AppointManager(c)
  /\ \A c : P!AssignAgent(c) => CP!P!AssignAgent(c)
  /\ \A c : P!CreateMilestone(c) => CP!P!CreateMilestone(c)
  /\ \A c : P!BindProcess(c) => CP!P!BindProcess(c)
  /\ \A c : P!StartProcessRun(c) => CP!P!StartProcessRun(c)
  /\ \A c : P!RecordMeasurement(c) => CP!P!RecordMeasurement(c)
  /\ \A c : P!RecordMilestoneEvaluation(c) => CP!P!RecordMilestoneEvaluation(c)
  /\ \A c : P!EvaluateProject(c) => CP!P!EvaluateProject(c)
  /\ \A c : P!EvaluateObjective(c) => CP!P!EvaluateObjective(c)
  /\ \A status : P!TransitionCompany(status) => CP!P!TransitionCompany(status)
  /\ \A p, status : P!TransitionProject(p, status) => CP!P!TransitionProject(p, status)
  /\ \A c : P!Abandon(c) => CP!P!Abandon(c)
  /\ \A x : P!Verify(x) => CP!P!Verify(x)
  /\ \A p, r : P!FinishRun(p, r) => CP!P!FinishRun(p, r)
<1>1. /\ \A c : P!CheckSetup(c) => CP!P!CheckSetup(c)
      /\ \A c : P!CheckValidate(c) => CP!P!CheckValidate(c)
      /\ \A c : P!CheckDiscovery(c) => CP!P!CheckDiscovery(c)
      /\ \A c, a, projects : P!CheckProposal(c, a, projects) => CP!P!CheckProposal(c, a, projects)
      /\ \A c : P!CheckActivate(c) => CP!P!CheckActivate(c)
      /\ \A c, g : P!CheckObjective(c, g) => CP!P!CheckObjective(c, g)
      /\ \A c, a, p, g, m : P!CheckProject(c, a, p, g, m) => CP!P!CheckProject(c, a, p, g, m)
      /\ \A c, a, p, g, primary : P!CheckLink(c, a, p, g, primary) => CP!P!CheckLink(c, a, p, g, primary)
  BY DEF P!CheckSetup, CP!P!CheckSetup, P!Checked, CP!P!Checked, P!AtRest, CP!P!AtRest,
     P!portfolioState, CP!P!portfolioState, P!projectState, CP!P!projectState, P!workState,
     CP!P!workState, P!goalState, CP!P!goalState, P!CheckValidate, CP!P!CheckValidate, P!CheckDiscovery,
     CP!P!CheckDiscovery, P!CheckProposal, CP!P!CheckProposal, P!CeoActor, CP!P!CeoActor,
     P!CheckActivate, CP!P!CheckActivate, P!Cardinality, CP!P!Cardinality, P!IsFiniteSet,
     CP!P!IsFiniteSet, P!CheckObjective, CP!P!CheckObjective, P!CheckProject, CP!P!CheckProject,
     P!HasRoom, CP!P!HasRoom, P!Open, CP!P!Open, P!CheckLink, CP!P!CheckLink, P!ProjectActor,
     CP!P!ProjectActor, P!Exists, CP!P!Exists, P!ManagerOf, CP!P!ManagerOf
<1>2. /\ \A c, a, p, m : P!CheckAppoint(c, a, p, m) => CP!P!CheckAppoint(c, a, p, m)
      /\ \A c, a, p, m, percent :
           P!CheckAssign(c, a, p, m, percent) => CP!P!CheckAssign(c, a, p, m, percent)
      /\ \A c, a, m : P!CheckMilestone(c, a, m) => CP!P!CheckMilestone(c, a, m)
  BY DEF P!CheckAppoint, CP!P!CheckAppoint, P!CeoActor, CP!P!CeoActor, P!Exists, CP!P!Exists, P!Checked,
     CP!P!Checked, P!AtRest, CP!P!AtRest, P!portfolioState, CP!P!portfolioState, P!projectState,
     CP!P!projectState, P!workState, CP!P!workState, P!goalState, CP!P!goalState, P!CheckAssign,
     CP!P!CheckAssign, P!ProjectActor, CP!P!ProjectActor, P!Allocated, CP!P!Allocated, P!ManagerOf,
     CP!P!ManagerOf, P!Cardinality, CP!P!Cardinality, P!IsFiniteSet, CP!P!IsFiniteSet, P!CheckMilestone,
     CP!P!CheckMilestone
<1>3. \A c, a, p, owner : P!CheckBind(c, a, p, owner) => CP!P!CheckBind(c, a, p, owner)
  <2>1. \A p : P!Team(p) = CP!P!Team(p)
    BY DEF P!Team, CP!P!Team, P!Assigned, CP!P!Assigned, P!ManagerOf, CP!P!ManagerOf
  <2> QED BY <2>1 DEF P!CheckBind, CP!P!CheckBind, P!ProjectActor, CP!P!ProjectActor, P!Exists,
       CP!P!Exists, P!ManagerOf, CP!P!ManagerOf, P!Checked, CP!P!Checked, P!CeoActor,
       CP!P!CeoActor, P!AtRest, CP!P!AtRest, P!portfolioState, CP!P!portfolioState,
       P!projectState, CP!P!projectState, P!workState, CP!P!workState, P!goalState,
       CP!P!goalState
<1>4. \A c, a, p, r : P!CheckRun(c, a, p, r) => CP!P!CheckRun(c, a, p, r)
  <2>1. \A p : P!Team(p) = CP!P!Team(p)
    BY DEF P!Team, CP!P!Team, P!Assigned, CP!P!Assigned, P!ManagerOf, CP!P!ManagerOf
  <2> QED BY <2>1 DEF P!CheckRun, CP!P!CheckRun, P!ProjectActor, CP!P!ProjectActor, P!Checked,
       CP!P!Checked, P!CeoActor, CP!P!CeoActor, P!ManagerOf, CP!P!ManagerOf, P!AtRest,
       CP!P!AtRest, P!portfolioState, CP!P!portfolioState, P!projectState,
       CP!P!projectState, P!workState, CP!P!workState, P!goalState, CP!P!goalState
<1>5. /\ \A c, g : P!CheckMeasure(c, g) => CP!P!CheckMeasure(c, g)
      /\ \A c, a, m, verdict : P!CheckJudge(c, a, m, verdict) => CP!P!CheckJudge(c, a, m, verdict)
      /\ \A c, a, p : P!CheckEvaluateProject(c, a, p) => CP!P!CheckEvaluateProject(c, a, p)
  BY DEF P!CheckMeasure, CP!P!CheckMeasure, P!Checked, CP!P!Checked, P!AtRest, CP!P!AtRest,
     P!portfolioState, CP!P!portfolioState, P!projectState, CP!P!projectState, P!workState,
     CP!P!workState, P!goalState, CP!P!goalState, P!CheckJudge, CP!P!CheckJudge, P!ProjectActor,
     CP!P!ProjectActor, P!Backed, CP!P!Backed, P!CeoActor, CP!P!CeoActor, P!ManagerOf, CP!P!ManagerOf,
     P!CheckEvaluateProject, CP!P!CheckEvaluateProject, P!Exists, CP!P!Exists, P!Accepted, CP!P!Accepted
<1>6. \A c, a, g : P!CheckEvaluateObjective(c, a, g) => CP!P!CheckEvaluateObjective(c, a, g)
  BY DEF P!CheckEvaluateObjective, CP!P!CheckEvaluateObjective, P!CeoActor, CP!P!CeoActor,
       P!Backed, CP!P!Backed, P!Checked, CP!P!Checked, P!Achieved, CP!P!Achieved, P!AtRest,
       CP!P!AtRest, P!portfolioState, CP!P!portfolioState, P!projectState,
       CP!P!projectState, P!workState, CP!P!workState, P!goalState, CP!P!goalState
<1>7. /\ \A c, goals : P!Setup(c, goals) => CP!P!Setup(c, goals)
      /\ \A c : P!Validate(c) => CP!P!Validate(c)
      /\ \A c : P!StartDiscovery(c) => CP!P!StartDiscovery(c)
      /\ \A c : P!SubmitPortfolioProposal(c) => CP!P!SubmitPortfolioProposal(c)
      /\ \A c : P!ActivateCompany(c) => CP!P!ActivateCompany(c)
      /\ \A c : P!CreateObjective(c) => CP!P!CreateObjective(c)
      /\ \A c : P!CreateProject(c) => CP!P!CreateProject(c)
      /\ \A c : P!LinkProjectObjective(c) => CP!P!LinkProjectObjective(c)
  BY DEF P!Setup, CP!P!Setup, P!Doing, CP!P!Doing, P!projectState, CP!P!projectState, P!workState,
     CP!P!workState, P!AtRest, CP!P!AtRest, P!Validate, CP!P!Validate, P!goalState, CP!P!goalState,
     P!StartDiscovery, CP!P!StartDiscovery, P!SubmitPortfolioProposal, CP!P!SubmitPortfolioProposal,
     P!Cmd, CP!P!Cmd, P!ActivateCompany, CP!P!ActivateCompany, P!Added, CP!P!Added, P!HasPrimary,
     CP!P!HasPrimary, P!WithManager, CP!P!WithManager, P!CreateObjective, CP!P!CreateObjective,
     P!portfolioState, CP!P!portfolioState, P!CreateProject, CP!P!CreateProject, P!Linked, CP!P!Linked,
     P!LinkProjectObjective, CP!P!LinkProjectObjective
<1>8. /\ \A c : P!AppointManager(c) => CP!P!AppointManager(c)
      /\ \A c : P!AssignAgent(c) => CP!P!AssignAgent(c)
      /\ \A c : P!CreateMilestone(c) => CP!P!CreateMilestone(c)
      /\ \A c : P!BindProcess(c) => CP!P!BindProcess(c)
      /\ \A c : P!StartProcessRun(c) => CP!P!StartProcessRun(c)
      /\ \A c : P!RecordMeasurement(c) => CP!P!RecordMeasurement(c)
      /\ \A c : P!RecordMilestoneEvaluation(c) => CP!P!RecordMilestoneEvaluation(c)
      /\ \A c : P!EvaluateProject(c) => CP!P!EvaluateProject(c)
  BY DEF P!AppointManager, CP!P!AppointManager, P!Doing, CP!P!Doing, P!WithManager, CP!P!WithManager,
     P!Cmd, CP!P!Cmd, P!portfolioState, CP!P!portfolioState, P!goalState, CP!P!goalState, P!workState,
     CP!P!workState, P!AtRest, CP!P!AtRest, P!AssignAgent, CP!P!AssignAgent, P!CreateMilestone,
     CP!P!CreateMilestone, P!projectState, CP!P!projectState, P!BindProcess, CP!P!BindProcess,
     P!StartProcessRun, CP!P!StartProcessRun, P!RecordMeasurement, CP!P!RecordMeasurement,
     P!RecordMilestoneEvaluation, CP!P!RecordMilestoneEvaluation, P!EvaluateProject,
     CP!P!EvaluateProject
<1>9. /\ \A c : P!EvaluateObjective(c) => CP!P!EvaluateObjective(c)
      /\ \A status : P!TransitionCompany(status) => CP!P!TransitionCompany(status)
      /\ \A p, status : P!TransitionProject(p, status) => CP!P!TransitionProject(p, status)
      /\ \A c : P!Abandon(c) => CP!P!Abandon(c)
      /\ \A x : P!Verify(x) => CP!P!Verify(x)
      /\ \A p, r : P!FinishRun(p, r) => CP!P!FinishRun(p, r)
  BY DEF P!EvaluateObjective, CP!P!EvaluateObjective, P!Doing, CP!P!Doing, P!Cmd, CP!P!Cmd,
     P!portfolioState, CP!P!portfolioState, P!projectState, CP!P!projectState, P!workState,
     CP!P!workState, P!AtRest, CP!P!AtRest, P!TransitionCompany, CP!P!TransitionCompany, P!goalState,
     CP!P!goalState, P!TransitionProject, CP!P!TransitionProject, P!Exists, CP!P!Exists, P!Abandon,
     CP!P!Abandon, P!Verify, CP!P!Verify, P!FinishRun, CP!P!FinishRun
<1> QED BY <1>1, <1>2, <1>3, <1>4, <1>5, <1>6, <1>7, <1>8, <1>9

\* Its steps are the component's.
LEMMA PortfolioSteps == focus \in {"portfolio", "delivery"} /\ [Next]_vars => [CP!P!Next]_(CP!P!vars)
<1> SUFFICES ASSUME focus \in {"portfolio", "delivery"}, [Next]_vars PROVE [CP!P!Next]_(CP!P!vars)
  OBVIOUS
<1>1. CASE UNCHANGED vars
  BY <1>1 DEF vars, P!vars, CP!P!vars, P!portfolioState, CP!P!portfolioState, P!projectState,
     CP!P!projectState, P!workState, CP!P!workState, P!goalState, CP!P!goalState
<1>2. CASE PortfolioNext \/ DeliveryNext
  <2>1. CASE PortfolioNext
    BY <2>1, PortfolioActions DEF PortfolioNext, CP!P!Next, CP!P!Read, CP!P!Commit, CP!P!Transition, CP!P!Actor
  <2>2. CASE DeliveryNext
    BY <2>2, PortfolioActions
       DEF DeliveryNext, CP!P!Next, CP!P!Read, CP!P!Commit, CP!P!Transition, CP!P!World, CP!P!Actor
  <2> QED BY <1>2, <2>1, <2>2
<1> QED BY <1>1, <1>2, FocusNext

\* At most one primary objective for a project (Portfolio).
THEOREM OnePrimaryHolds == Spec => []OnePrimary
<1>1. (focus \in {"portfolio", "delivery"} => CP!P!OnePrimary) => OnePrimary
  BY DEF OnePrimary, P!OnePrimary, CP!P!OnePrimary
<1>2. CP!P!Spec => []CP!P!OnePrimary
  BY CP!OnePrimaryKept
<1>3. /\ focus \in {"portfolio", "delivery"} /\ [Next]_vars => (focus \in {"portfolio", "delivery"})'
      /\ ~(focus \in {"portfolio", "delivery"}) /\ [Next]_vars => ~(focus \in {"portfolio", "delivery"})'
  BY FocusStays
<1> QED BY <1>1, <1>2, <1>3, PortfolioStarts, PortfolioSteps, PTL DEF Spec, CP!P!Spec

-----------------------------------------------------------------------------
(* DependencyScheduler.                                                    *)

\* A behaviour of the focus begins as the component does.
LEMMA ScheduleStarts == Init /\ focus = "schedule" => CP!S!Init
  BY DEF Init, S!Init, CP!S!Init, S!AtRest, CP!S!AtRest, S!NoPair, CP!S!NoPair

\* Its steps are the component's.
LEMMA ScheduleSteps == focus = "schedule" /\ [Next]_vars => [CP!S!Next]_(CP!S!vars)
<1> SUFFICES ASSUME focus = "schedule", [Next]_vars PROVE [CP!S!Next]_(CP!S!vars)
  OBVIOUS
<1>1. CASE UNCHANGED vars
  BY <1>1 DEF vars, S!vars, CP!S!vars
<1>2. CASE ScheduleNext
  BY ZenonT(30), <1>2 DEF ScheduleNext, S!Next, CP!S!Next, S!Add, CP!S!Add, S!Tick, CP!S!Tick, S!Execute,
     CP!S!Execute, S!DeadlinePasses, CP!S!DeadlinePasses, S!RetryDue, CP!S!RetryDue,
     S!InsertDependency, CP!S!InsertDependency, S!CheckDependency, CP!S!CheckDependency,
     S!BeginTick, CP!S!BeginTick, S!AssignAndLink, CP!S!AssignAndLink, S!Judge, CP!S!Judge,
     S!CountActive, CP!S!CountActive, S!Skip, CP!S!Skip, S!Dispatch, CP!S!Dispatch, S!EndTick,
     CP!S!EndTick, S!CrashTick, CP!S!CrashTick, S!StartAttempt, CP!S!StartAttempt,
     S!ItemStatus, CP!S!ItemStatus, S!EndAttempt, CP!S!EndAttempt, S!Settle, CP!S!Settle,
     S!kept, CP!S!kept, S!NoPair, CP!S!NoPair, S!Reaches, CP!S!Reaches, S!At, CP!S!At,
     S!Facing, CP!S!Facing, S!Verdict, CP!S!Verdict, S!Pass, CP!S!Pass, S!Reconciled,
     CP!S!Reconciled, S!Running, CP!S!Running, S!Ready, CP!S!Ready, S!AtRest, CP!S!AtRest,
     S!Seen, CP!S!Seen, S!Ended, CP!S!Ended, S!Active, CP!S!Active, S!DependsOn,
     CP!S!DependsOn, S!Cardinality, CP!S!Cardinality, S!IsFiniteSet, CP!S!IsFiniteSet
<1> QED BY <1>1, <1>2, FocusNext

\* An item is taken up only after what it depends on was completed (DependencyScheduler).
THEOREM DependenciesHold == Spec => []DependenciesFirst
<1>1. (focus = "schedule" => CP!S!DependenciesFirst) => DependenciesFirst
  BY DEF DependenciesFirst, S!DependenciesFirst, CP!S!DependenciesFirst
<1>2. CP!S!Spec => []CP!S!DependenciesFirst
  BY NobodyIsNone, CP!DependenciesKept
<1>3. /\ focus = "schedule" /\ [Next]_vars => (focus = "schedule")'
      /\ ~(focus = "schedule") /\ [Next]_vars => ~(focus = "schedule")'
  BY FocusStays
<1> QED BY <1>1, <1>2, <1>3, ScheduleStarts, ScheduleSteps, PTL DEF Spec, CP!S!Spec

-----------------------------------------------------------------------------
(* LoopRun.                                                                *)

\* A run is reconciled in the same way.
LEMMA SameOutcomes == \A r : L!Reconciled(r) = PP!L!Reconciled(r)
  BY DEF L!Reconciled, PP!L!Reconciled, L!Ref, PP!L!Ref

\* A behaviour of the focus begins as the component does.
LEMMA LoopStarts == Init /\ focus = "loop" => PP!L!Init
  BY SameOutcomes DEF Init, L!Init, PP!L!Init, L!Trigger, PP!L!Trigger, L!Ref, PP!L!Ref, L!AtRest, PP!L!AtRest

\* Its actions are the component's.
LEMMA LoopActions ==
  /\ \A w : L!DueOccurrences(w) => PP!L!DueOccurrences(w)
  /\ \A w : L!ExecuteWakeup(w) => PP!L!ExecuteWakeup(w)
  /\ \A w : L!FindRun(w) => PP!L!FindRun(w)
  /\ \A w : L!CreateRun(w) => PP!L!CreateRun(w)
  /\ \A w : L!CheckPaused(w) => PP!L!CheckPaused(w)
  /\ \A w : L!View(w) => PP!L!View(w)
  /\ \A w : L!Trip(w) => PP!L!Trip(w)
  /\ \A w, d : L!Decide(w, d) => PP!L!Decide(w, d)
  /\ \A w : L!FailRun(w) => PP!L!FailRun(w)
  /\ \A w : L!EndRun(w) => PP!L!EndRun(w)
  /\ \A w, r : L!Dispatch(w, r) => PP!L!Dispatch(w, r)
  /\ \A w, e : L!EndItem(w, e) => PP!L!EndItem(w, e)
  /\ \A w : L!NextOccurrence(w) => PP!L!NextOccurrence(w)
  /\ \A t, r, e : L!Settle(t, r, e) => PP!L!Settle(t, r, e)
  /\ \A t, r : L!Recover(t, r) => PP!L!Recover(t, r)
  /\ \A v : L!SetPaused(v) => PP!L!SetPaused(v)
  /\ L!Pass => PP!L!Pass
  /\ \A w : L!Crash(w) => PP!L!Crash(w)
<1>1. /\ \A w : L!DueOccurrences(w) => PP!L!DueOccurrences(w)
      /\ \A w : L!ExecuteWakeup(w) => PP!L!ExecuteWakeup(w)
      /\ \A w : L!FindRun(w) => PP!L!FindRun(w)
      /\ \A w : L!CreateRun(w) => PP!L!CreateRun(w)
      /\ \A w : L!CheckPaused(w) => PP!L!CheckPaused(w)
      /\ \A w : L!View(w) => PP!L!View(w)
      /\ \A w : L!Trip(w) => PP!L!Trip(w)
      /\ \A w, d : L!Decide(w, d) => PP!L!Decide(w, d)
  BY SameOutcomes DEF L!DueOccurrences, PP!L!DueOccurrences, L!At, PP!L!At, L!Active, PP!L!Active,
     L!Occurrences, PP!L!Occurrences, L!AtRest, PP!L!AtRest, L!OfLoop, PP!L!OfLoop, L!Trigger,
     PP!L!Trigger, L!Least, PP!L!Least, L!ExecuteWakeup, PP!L!ExecuteWakeup, L!Hand, PP!L!Hand,
     L!FindRun, PP!L!FindRun, L!Goto, PP!L!Goto, L!Current, PP!L!Current, L!CreateRun, PP!L!CreateRun,
     L!Newest, PP!L!Newest, L!CheckPaused, PP!L!CheckPaused, L!View, PP!L!View, L!DailyBudgetMode,
     PP!L!DailyBudgetMode, L!Trip, PP!L!Trip, L!Decide, PP!L!Decide
<1>2. /\ \A w : L!FailRun(w) => PP!L!FailRun(w)
      /\ \A w : L!EndRun(w) => PP!L!EndRun(w)
      /\ \A w, r : L!Dispatch(w, r) => PP!L!Dispatch(w, r)
      /\ \A w, e : L!EndItem(w, e) => PP!L!EndItem(w, e)
      /\ \A w : L!NextOccurrence(w) => PP!L!NextOccurrence(w)
      /\ \A t, r, e : L!Settle(t, r, e) => PP!L!Settle(t, r, e)
      /\ \A t, r : L!Recover(t, r) => PP!L!Recover(t, r)
      /\ \A v : L!SetPaused(v) => PP!L!SetPaused(v)
  BY SameOutcomes DEF L!FailRun, PP!L!FailRun, L!At, PP!L!At, L!Current, PP!L!Current, L!AtRest,
     PP!L!AtRest, L!OfLoop, PP!L!OfLoop, L!EndRun, PP!L!EndRun, L!Ref, PP!L!Ref, L!Goto, PP!L!Goto,
     L!Dispatch, PP!L!Dispatch, L!Busy, PP!L!Busy, L!Trigger, PP!L!Trigger, L!EndItem, PP!L!EndItem,
     L!NextOccurrence, PP!L!NextOccurrence, L!Settle, PP!L!Settle, L!Recover, PP!L!Recover, L!SetPaused,
     PP!L!SetPaused
<1>3. /\ L!Pass => PP!L!Pass
      /\ \A w : L!Crash(w) => PP!L!Crash(w)
  BY SameOutcomes DEF L!Pass, PP!L!Pass, L!Crash, PP!L!Crash, L!At, PP!L!At, L!AtRest, PP!L!AtRest,
     L!OfLoop, PP!L!OfLoop
<1> QED BY <1>1, <1>2, <1>3

\* Its steps are the component's.
LEMMA LoopSteps == focus = "loop" /\ [Next]_vars => [PP!L!Next]_(PP!L!vars)
<1> SUFFICES ASSUME focus = "loop", [Next]_vars PROVE [PP!L!Next]_(PP!L!vars)
  OBVIOUS
<1>1. CASE UNCHANGED vars
  BY <1>1 DEF vars, L!vars, PP!L!vars
<1>2. CASE LoopNext
  <2>1. k1 \in PP!L!Ref /\ PP!L!Trigger = 0 .. 3
    BY DEF PP!L!Ref, PP!L!Trigger
  <2> QED BY <1>2, <2>1, LoopActions
     DEF LoopNext, PP!L!Next, PP!L!Step, PP!L!Others, PP!L!ItemStatus
<1> QED BY <1>1, <1>2, FocusNext

\* Catching up, a loop loses no occurrence up to its newest run (LoopRun).
THEOREM OccurrencesHold == Spec => []NoOccurrenceLost
<1>1. 3 \in Nat \ {0} /\ 2 \in Nat
  OBVIOUS
<1>2. (focus = "loop" => PP!L!NoOccurrenceLost) => NoOccurrenceLost
  BY DEF NoOccurrenceLost, L!NoOccurrenceLost, PP!L!NoOccurrenceLost
<1>3. PP!L!Spec => []PP!L!NoOccurrenceLost
  BY <1>1, PP!OccurrencesKept
<1>4. /\ focus = "loop" /\ [Next]_vars => (focus = "loop")'
      /\ ~(focus = "loop") /\ [Next]_vars => ~(focus = "loop")'
  BY FocusStays
<1> QED BY <1>2, <1>3, <1>4, LoopStarts, LoopSteps, PTL DEF Spec, PP!L!Spec

-----------------------------------------------------------------------------
(* LiveFeed.                                                               *)

\* A behaviour of the focus begins as the component does.
LEMMA FeedStarts == Init /\ focus = "feed" => PP!F!Init
  BY DEF Init, F!Init, PP!F!Init, F!Unsubscribed, PP!F!Unsubscribed, F!Closed, PP!F!Closed

\* Its actions are the component's.
LEMMA FeedActions ==
  /\ \A x : F!PublishLive(x) => PP!F!PublishLive(x)
  /\ F!EmitNativeLine => PP!F!EmitNativeLine
  /\ \A c : F!Connect(c) => PP!F!Connect(c)
  /\ \A c : F!Tick(c) => PP!F!Tick(c)
  /\ \A c : F!Deliver(c) => PP!F!Deliver(c)
  /\ \A c : F!Disconnect(c) => PP!F!Disconnect(c)
  /\ F!Restart => PP!F!Restart
  /\ \A n, g : F!InsertLog(n, g) => PP!F!InsertLog(n, g)
  /\ F!Poll => PP!F!Poll
<1>1. /\ \A x : F!PublishLive(x) => PP!F!PublishLive(x)
      /\ F!EmitNativeLine => PP!F!EmitNativeLine
      /\ \A c : F!Connect(c) => PP!F!Connect(c)
      /\ \A c : F!Tick(c) => PP!F!Tick(c)
      /\ \A c : F!Deliver(c) => PP!F!Deliver(c)
      /\ \A c : F!Disconnect(c) => PP!F!Disconnect(c)
      /\ F!Restart => PP!F!Restart
      /\ \A n, g : F!InsertLog(n, g) => PP!F!InsertLog(n, g)
  BY DEF F!PublishLive, PP!F!PublishLive, F!Offered, PP!F!Offered, F!EmitNativeLine,
     PP!F!EmitNativeLine, F!Connect, PP!F!Connect, F!Replayed, PP!F!Replayed, F!UpTo, PP!F!UpTo, F!Max,
     PP!F!Max, F!Min, PP!F!Min, F!Range, PP!F!Range, F!Tick, PP!F!Tick, F!Deliver, PP!F!Deliver,
     F!Disconnect, PP!F!Disconnect, F!Closed, PP!F!Closed, F!Unsubscribed, PP!F!Unsubscribed, F!Restart,
     PP!F!Restart, F!InsertLog, PP!F!InsertLog
<1>2. F!Poll => PP!F!Poll
  BY DEF F!Poll, PP!F!Poll
<1> QED BY <1>1, <1>2

\* Its steps are the component's.
LEMMA FeedSteps == focus = "feed" /\ [Next]_vars => [PP!F!Next]_(PP!F!vars)
<1> SUFFICES ASSUME focus = "feed", [Next]_vars PROVE [PP!F!Next]_(PP!F!vars)
  OBVIOUS
<1>1. CASE UNCHANGED vars
  BY <1>1 DEF vars, F!vars, PP!F!vars
<1>2. CASE FeedNext
  BY <1>2, FeedActions DEF FeedNext, PP!F!Next
<1> QED BY <1>1, <1>2, FocusNext

\* A client of the live feed misses no event up to the last id it saw (LiveFeed).
THEOREM EventsHold == Spec => []NoEventMissed
<1>1. 2 \in Nat
  OBVIOUS
<1>2. (focus = "feed" => PP!F!NoEventMissed) => NoEventMissed
  BY DEF NoEventMissed, F!NoEventMissed, PP!F!NoEventMissed
<1>3. PP!F!Spec => []PP!F!NoEventMissed
  BY <1>1, PP!EventsSeen
<1>4. /\ focus = "feed" /\ [Next]_vars => (focus = "feed")'
      /\ ~(focus = "feed") /\ [Next]_vars => ~(focus = "feed")'
  BY FocusStays
<1> QED BY <1>2, <1>3, <1>4, FeedStarts, FeedSteps, PTL DEF Spec, PP!F!Spec

-----------------------------------------------------------------------------
(* RemoteTarget.                                                           *)

\* What the providers do is the same.
LEMMA SameDrivers == R!Driver = PP!R!Driver
  BY DEF R!Driver, PP!R!Driver, R!E2b, PP!R!E2b, R!Novita, PP!R!Novita, R!Modal, PP!R!Modal, R!ExeDev,
     PP!R!ExeDev, R!Cloudflare, PP!R!Cloudflare, R!Kubernetes, PP!R!Kubernetes, R!Daytona, PP!R!Daytona,
     R!Docker, PP!R!Docker, R!Ssh, PP!R!Ssh

\* A behaviour of the focus begins as the component does.
LEMMA RemoteStarts == Init /\ focus = "remote" => PP!R!Init
  BY SameDrivers DEF Init, R!Init, PP!R!Init, R!Fresh, PP!R!Fresh

\* Its actions are the component's.
LEMMA RemoteActions ==
  /\ \A r, d, u, l : R!Begin(r, d, u, l) => PP!R!Begin(r, d, u, l)
  /\ \A r, b : R!Create(r, b) => PP!R!Create(r, b)
  /\ \A r, b : R!CreateLost(r, b) => PP!R!CreateLost(r, b)
  /\ \A r : R!SetUp(r) => PP!R!SetUp(r)
  /\ \A r : R!SetupFails(r) => PP!R!SetupFails(r)
  /\ \A r : R!Resume(r) => PP!R!Resume(r)
  /\ \A r : R!ResumeFails(r) => PP!R!ResumeFails(r)
  /\ \A r : R!Prepare(r) => PP!R!Prepare(r)
  /\ \A r : R!PrepareFails(r) => PP!R!PrepareFails(r)
  /\ \A r : R!Start(r) => PP!R!Start(r)
  /\ \A r : R!Edit(r) => PP!R!Edit(r)
  /\ \A r : R!Exit(r) => PP!R!Exit(r)
  /\ \A r : R!Stop(r) => PP!R!Stop(r)
  /\ \A r : R!Throw(r) => PP!R!Throw(r)
  /\ \A r : R!Restore(r) => PP!R!Restore(r)
  /\ \A r : R!RestoreFails(r) => PP!R!RestoreFails(r)
  /\ \A r : R!Release(r) => PP!R!Release(r)
  /\ \A r : R!Pause(r) => PP!R!Pause(r)
  /\ \A r : R!Destroy(r) => PP!R!Destroy(r)
  /\ \A r : R!DestroyFails(r) => PP!R!DestroyFails(r)
  /\ \A b : R!Expire(b) => PP!R!Expire(b)
  /\ R!Die => PP!R!Die
<1>1. /\ \A r, d, u, l : R!Begin(r, d, u, l) => PP!R!Begin(r, d, u, l)
      /\ \A r, b : R!Create(r, b) => PP!R!Create(r, b)
      /\ \A r, b : R!CreateLost(r, b) => PP!R!CreateLost(r, b)
      /\ \A r : R!SetUp(r) => PP!R!SetUp(r)
      /\ \A r : R!SetupFails(r) => PP!R!SetupFails(r)
      /\ \A r : R!Resume(r) => PP!R!Resume(r)
      /\ \A r : R!ResumeFails(r) => PP!R!ResumeFails(r)
      /\ \A r : R!Prepare(r) => PP!R!Prepare(r)
  BY SameDrivers DEF R!Begin, PP!R!Begin, R!At, PP!R!At, R!Leased, PP!R!Leased, R!Set, PP!R!Set, R!With,
     PP!R!With, R!Fresh, PP!R!Fresh, R!Create, PP!R!Create, R!CreateLost, PP!R!CreateLost, R!Fail,
     PP!R!Fail, R!Is, PP!R!Is, R!SetUp, PP!R!SetUp, R!Of, PP!R!Of, R!SetupFails, PP!R!SetupFails,
     R!Becomes, PP!R!Becomes, R!Resume, PP!R!Resume, R!Inside, PP!R!Inside, R!ResumeFails,
     PP!R!ResumeFails, R!Prepare, PP!R!Prepare
<1>2. /\ \A r : R!PrepareFails(r) => PP!R!PrepareFails(r)
      /\ \A r : R!Start(r) => PP!R!Start(r)
      /\ \A r : R!Edit(r) => PP!R!Edit(r)
      /\ \A r : R!Exit(r) => PP!R!Exit(r)
      /\ \A r : R!Stop(r) => PP!R!Stop(r)
      /\ \A r : R!Throw(r) => PP!R!Throw(r)
      /\ \A r : R!Restore(r) => PP!R!Restore(r)
      /\ \A r : R!RestoreFails(r) => PP!R!RestoreFails(r)
  BY SameDrivers DEF R!PrepareFails, PP!R!PrepareFails, R!Of, PP!R!Of, R!At, PP!R!At, R!Fail, PP!R!Fail,
     R!Set, PP!R!Set, R!With, PP!R!With, R!Fresh, PP!R!Fresh, R!Start, PP!R!Start, R!Edit, PP!R!Edit,
     R!Exit, PP!R!Exit, R!Stop, PP!R!Stop, R!Is, PP!R!Is, R!Becomes, PP!R!Becomes, R!Throw, PP!R!Throw,
     R!Restore, PP!R!Restore, R!RestoreFails, PP!R!RestoreFails
<1>3. /\ \A r : R!Release(r) => PP!R!Release(r)
      /\ \A r : R!Pause(r) => PP!R!Pause(r)
      /\ \A r : R!Destroy(r) => PP!R!Destroy(r)
      /\ \A r : R!DestroyFails(r) => PP!R!DestroyFails(r)
      /\ \A b : R!Expire(b) => PP!R!Expire(b)
      /\ R!Die => PP!R!Die
  BY SameDrivers DEF R!Release, PP!R!Release, R!At, PP!R!At, R!Set, PP!R!Set, R!Leased, PP!R!Leased,
     R!Of, PP!R!Of, R!With, PP!R!With, R!Fresh, PP!R!Fresh, R!Pause, PP!R!Pause, R!Is, PP!R!Is,
     R!Becomes, PP!R!Becomes, R!Destroy, PP!R!Destroy, R!DestroyFails, PP!R!DestroyFails, R!Fail,
     PP!R!Fail, R!Expire, PP!R!Expire, R!Die, PP!R!Die
<1> QED BY <1>1, <1>2, <1>3

\* Its steps are the component's.
LEMMA RemoteSteps == focus = "remote" /\ [Next]_vars => [PP!R!Next]_(PP!R!vars)
<1> SUFFICES ASSUME focus = "remote", [Next]_vars PROVE [PP!R!Next]_(PP!R!vars)
  OBVIOUS
<1>1. CASE UNCHANGED vars
  BY <1>1 DEF vars, R!vars, PP!R!vars
<1>2. CASE RemoteNext
  BY <1>2, RemoteActions DEF RemoteNext, PP!R!Next
<1> QED BY <1>1, <1>2, FocusNext

\* A run alone on its machine brings home its own edits, and only them (RemoteTarget).
THEOREM OwnWorkHolds == Spec => []OwnWorkComesHome
<1>1. (focus = "remote" => PP!R!OwnWorkComesHome) => OwnWorkComesHome
  BY DEF OwnWorkComesHome, R!OwnWorkComesHome, PP!R!OwnWorkComesHome, R!At, PP!R!At
<1>2. PP!R!Spec => []PP!R!OwnWorkComesHome
  BY NobodyIsNone, PP!OwnWorkRestored
<1>3. /\ focus = "remote" /\ [Next]_vars => (focus = "remote")'
      /\ ~(focus = "remote") /\ [Next]_vars => ~(focus = "remote")'
  BY FocusStays
<1> QED BY <1>1, <1>2, <1>3, RemoteStarts, RemoteSteps, PTL DEF Spec, PP!R!Spec

-----------------------------------------------------------------------------
(* Migrations.                                                             *)

\* The schema is the same.
LEMMA SameSchema ==
  /\ V!Creation = PP!V!Creation /\ V!Evolution = PP!V!Evolution /\ V!NotCreated = PP!V!NotCreated
  /\ V!Indexed = PP!V!Indexed /\ V!TelemetryTables = PP!V!TelemetryTables /\ V!Tables = PP!V!Tables
  BY DEF V!Creation, PP!V!Creation, V!Tables, PP!V!Tables, V!Evolution, PP!V!Evolution,
     V!NotCreated, PP!V!NotCreated, V!Indexed, PP!V!Indexed, V!TelemetryTables,
     PP!V!TelemetryTables, V!IdentityTables, PP!V!IdentityTables, V!RuntimeTables,
     PP!V!RuntimeTables, V!StrategyTables, PP!V!StrategyTables, V!ThreadTables,
     PP!V!ThreadTables, V!WorkTables, PP!V!WorkTables, V!AttemptTables, PP!V!AttemptTables,
     V!GovernanceTables, PP!V!GovernanceTables, V!OperatorTables, PP!V!OperatorTables,
     V!KnowledgeTables, PP!V!KnowledgeTables, V!DirectoryTables, PP!V!DirectoryTables,
     V!StrategicColumns, PP!V!StrategicColumns, V!LineageColumns, PP!V!LineageColumns,
     V!DeliveryColumns, PP!V!DeliveryColumns, V!AttemptColumns, PP!V!AttemptColumns,
     V!LateColumns, PP!V!LateColumns, V!Of, PP!V!Of

\* The databases of the run are such as an upgrade may begin with.
LEMMA OldDatabases == PP!Versions
<1>1. /\ PP!V!Evolution[2] = PP!V!LineageColumns /\ PP!V!Evolution[3] = PP!V!DeliveryColumns
      /\ PP!V!Evolution[4] = PP!V!AttemptColumns /\ PP!V!Evolution[5] = PP!V!LateColumns
  BY DEF PP!V!Evolution
<1>2. /\ <<"execution_work_items", "workflow_run_id">> \in PP!V!LineageColumns
      /\ <<"execution_work_items", "delivery_commit_sha">> \in PP!V!DeliveryColumns
      /\ <<"execution_external_actions", "claim_owner">> \in PP!V!AttemptColumns
      /\ <<"session_events", "seq">> \in PP!V!LateColumns
  BY DEF PP!V!LineageColumns, PP!V!DeliveryColumns, PP!V!AttemptColumns, PP!V!LateColumns, PP!V!Of
<1>3. \A k \in 1 .. 5 : PP!V!Evolution[k] \subseteq PP!Columns
  BY DEF PP!Columns
<1>4. Upgraded.lacking \subseteq PP!Columns /\ Ancient.lacking \subseteq PP!Columns
  BY <1>1, <1>2, <1>3 DEF Upgraded, Ancient
<1>5. /\ Fresh.groups = 0 /\ Fresh.lacking = {} /\ Fresh.events = <<>>
      /\ Fresh.item = PP!V!None /\ Fresh.action = PP!V!None
  BY DEF Fresh, PP!V!None
<1>6. ASSUME NEW v \in {Upgraded, Ancient}
      PROVE  /\ v.groups = 10 /\ v.item \in PP!V!Item /\ ~v.item.live /\ v.action \in PP!V!Action /\ ~v.action.live
             /\ v.events = <<0, 0>>
  <2>1. /\ v.groups = 10 /\ v.events = <<0, 0>>
        /\ v.item = [status |-> "awaiting", mode |-> "commit", delivery |-> "pending", commit |-> FALSE,
                      live |-> FALSE]
        /\ v.action = [status |-> "pending", owner |-> "none", live |-> FALSE]
    <3>1. CASE v = Upgraded
      BY <3>1 DEF Upgraded
    <3>2. CASE v = Ancient
      <4>1. /\ v.groups = Upgraded.groups /\ v.events = Upgraded.events
            /\ v.item = Upgraded.item /\ v.action = Upgraded.action
        <5>1. DOMAIN Upgraded = {"groups", "lacking", "item", "action", "events"}
          BY DEF Upgraded
        <5> QED BY <3>2, <5>1 DEF Ancient
      <4> QED BY <4>1 DEF Upgraded
    <3> QED BY <1>6, <3>1, <3>2
  <2> QED BY <2>1 DEF PP!V!Item, PP!V!Action
<1>7. <<0, 0>> \in Seq(Nat) /\ (\A e \in 1 .. Len(<<0, 0>>) : <<0, 0>>[e] \in {0, e}) /\ 10 \in 0 .. 10
  OBVIOUS
<1>8. <<>> \in Seq(Nat) /\ (\A e \in 1 .. Len(<<>>) : <<>>[e] \in {0, e}) /\ 0 \in 0 .. 10
  OBVIOUS
<1>9. ASSUME NEW v \in {Upgraded, Ancient}
      PROVE  /\ v.groups \in 0 .. 10 /\ v.lacking \subseteq PP!Columns
             /\ v.item = PP!V!None \/ (v.item \in PP!V!Item /\ ~v.item.live)
             /\ v.action = PP!V!None \/ (v.action \in PP!V!Action /\ ~v.action.live)
             /\ v.events \in Seq(Nat) /\ \A e \in 1 .. Len(v.events) : v.events[e] \in {0, e}
  <2>1. v.lacking \subseteq PP!Columns /\ v.events = <<0, 0>> /\ v.groups = 10
    BY <1>4, <1>6, <1>9
  <2>2. v.item \in PP!V!Item /\ ~v.item.live /\ v.action \in PP!V!Action /\ ~v.action.live
    BY <1>6, <1>9
  <2>3. v.events \in Seq(Nat) /\ \A e \in 1 .. Len(v.events) : v.events[e] \in {0, e}
    BY <1>7, <2>1
  <2> QED BY <2>1, <2>2, <2>3
<1>10. /\ Fresh.groups \in 0 .. 10 /\ Fresh.lacking \subseteq PP!Columns
       /\ Fresh.item = PP!V!None /\ Fresh.action = PP!V!None
       /\ Fresh.events \in Seq(Nat) /\ \A e \in 1 .. Len(Fresh.events) : Fresh.events[e] \in {0, e}
  BY <1>5, <1>8
<1> QED BY <1>9, <1>10 DEF PP!Versions

\* A behaviour of the focus begins as the component does.
LEMMA UpgradeStarts == Init /\ focus = "upgrade" => PP!V!Init
  BY SameSchema DEF Init, V!Init, PP!V!Init, V!Idle, PP!V!Idle

\* Its actions are the component's.
LEMMA UpgradeActions ==
  /\ \A p : V!Begin(p) => PP!V!Begin(p)
  /\ \A p : V!Create(p) => PP!V!Create(p)
  /\ \A p : V!Check(p) => PP!V!Check(p)
  /\ \A p : V!Alter(p) => PP!V!Alter(p)
  /\ \A p : V!Normalize(p) => PP!V!Normalize(p)
  /\ \A p : V!CreateTelemetry(p) => PP!V!CreateTelemetry(p)
  /\ \A p : V!Stop(p) => PP!V!Stop(p)
  /\ \A p, m : V!StartWork(p, m) => PP!V!StartWork(p, m)
  /\ \A p : V!RecordDeliveryCommit(p) => PP!V!RecordDeliveryCommit(p)
  /\ \A p : V!AwaitEvidence(p) => PP!V!AwaitEvidence(p)
  /\ \A p : V!FinalizeWorkItem(p) => PP!V!FinalizeWorkItem(p)
  /\ \A p : V!ClaimDelivery(p) => PP!V!ClaimDelivery(p)
  /\ \A p, s : V!CompleteDelivery(p, s) => PP!V!CompleteDelivery(p, s)
  /\ \A p : V!ClaimExternalAction(p) => PP!V!ClaimExternalAction(p)
  /\ \A p, s : V!CompleteExternalAction(p, s) => PP!V!CompleteExternalAction(p, s)
  /\ \A p, n : V!WriteEvent(p, n) => PP!V!WriteEvent(p, n)
  /\ \A p : V!CreateProject(p) => PP!V!CreateProject(p)
<1>1. /\ \A p : V!Begin(p) => PP!V!Begin(p)
      /\ \A p : V!Create(p) => PP!V!Create(p)
      /\ \A p : V!Check(p) => PP!V!Check(p)
      /\ \A p : V!Alter(p) => PP!V!Alter(p)
  BY SameSchema DEF V!Begin, PP!V!Begin, V!Goto, PP!V!Goto, V!rows, PP!V!rows, V!Create, PP!V!Create,
     V!At, PP!V!At, V!Onward, PP!V!Onward, V!Check, PP!V!Check, V!Alter, PP!V!Alter
<1>2. \A p : V!Normalize(p) => PP!V!Normalize(p)
  BY SameSchema DEF V!Normalize, PP!V!Normalize, V!At, PP!V!At, V!LinkPrimary, PP!V!LinkPrimary,
         V!NumberEvents, PP!V!NumberEvents, V!BlockLegacy, PP!V!BlockLegacy, V!LeaseLegacy,
         PP!V!LeaseLegacy, V!Settle, PP!V!Settle, V!Onward, PP!V!Onward, V!None, PP!V!None,
         V!Legacy, PP!V!Legacy, V!Goto, PP!V!Goto
<1>3. /\ \A p : V!CreateTelemetry(p) => PP!V!CreateTelemetry(p)
      /\ \A p : V!Stop(p) => PP!V!Stop(p)
      /\ \A p, m : V!StartWork(p, m) => PP!V!StartWork(p, m)
      /\ \A p : V!RecordDeliveryCommit(p) => PP!V!RecordDeliveryCommit(p)
      /\ \A p : V!AwaitEvidence(p) => PP!V!AwaitEvidence(p)
      /\ \A p : V!FinalizeWorkItem(p) => PP!V!FinalizeWorkItem(p)
      /\ \A p : V!ClaimDelivery(p) => PP!V!ClaimDelivery(p)
      /\ \A p, s : V!CompleteDelivery(p, s) => PP!V!CompleteDelivery(p, s)
  BY SameSchema DEF V!CreateTelemetry, PP!V!CreateTelemetry, V!At, PP!V!At, V!Goto, PP!V!Goto, V!rows,
     PP!V!rows, V!Stop, PP!V!Stop, V!StartWork, PP!V!StartWork, V!Ready, PP!V!Ready, V!None, PP!V!None,
     V!RecordDeliveryCommit, PP!V!RecordDeliveryCommit, V!AwaitEvidence, PP!V!AwaitEvidence,
     V!Evidenced, PP!V!Evidenced, V!FinalizeWorkItem, PP!V!FinalizeWorkItem, V!ClaimDelivery,
     PP!V!ClaimDelivery, V!CompleteDelivery, PP!V!CompleteDelivery
<1>4. /\ \A p : V!ClaimExternalAction(p) => PP!V!ClaimExternalAction(p)
      /\ \A p, s : V!CompleteExternalAction(p, s) => PP!V!CompleteExternalAction(p, s)
      /\ \A p, n : V!WriteEvent(p, n) => PP!V!WriteEvent(p, n)
      /\ \A p : V!CreateProject(p) => PP!V!CreateProject(p)
  BY SameSchema DEF V!ClaimExternalAction, PP!V!ClaimExternalAction, V!Ready, PP!V!Ready, V!None,
     PP!V!None, V!At, PP!V!At, V!CompleteExternalAction, PP!V!CompleteExternalAction, V!WriteEvent,
     PP!V!WriteEvent, V!CreateProject, PP!V!CreateProject
<1> QED BY <1>1, <1>2, <1>3, <1>4

\* Its steps are the component's.
LEMMA UpgradeSteps == focus = "upgrade" /\ [Next]_vars => [PP!V!Next]_(PP!V!vars)
<1> SUFFICES ASSUME focus = "upgrade", [Next]_vars PROVE [PP!V!Next]_(PP!V!vars)
  OBVIOUS
<1>1. CASE UNCHANGED vars
  BY <1>1 DEF vars, V!vars, PP!V!vars
<1>2. CASE UpgradeNext
  BY <1>2, UpgradeActions DEF UpgradeNext, PP!V!Next
<1> QED BY <1>1, <1>2, FocusNext

\* An upgrade takes nothing from the work beside it (Migrations).
THEOREM UpgradesHold == Spec => []UpgradeKeepsWork
<1>1. (focus = "upgrade" => PP!V!UpgradeKeepsWork) => UpgradeKeepsWork
  BY SameSchema DEF UpgradeKeepsWork, V!UpgradeKeepsWork, PP!V!UpgradeKeepsWork, V!None, PP!V!None, V!Legacy,
     PP!V!Legacy, V!At, PP!V!At
<1>2. PP!V!Spec => []PP!V!UpgradeKeepsWork
  BY OldDatabases, PP!UpgradesKeepWork
<1>3. /\ focus = "upgrade" /\ [Next]_vars => (focus = "upgrade")'
      /\ ~(focus = "upgrade") /\ [Next]_vars => ~(focus = "upgrade")'
  BY FocusStays
<1> QED BY <1>1, <1>2, <1>3, UpgradeStarts, UpgradeSteps, PTL DEF Spec, PP!V!Spec

-----------------------------------------------------------------------------
(* Delegation.                                                             *)

\* A behaviour of the focus begins as the component does.
LEMMA ManagerStarts == Init /\ focus = "manager" => CP!M!Init
  BY DEF Init, M!Init, CP!M!Init, M!Begun, CP!M!Begun, M!Idle, CP!M!Idle, M!Attempts, CP!M!Attempts,
     M!Free, CP!M!Free, M!Settler, CP!M!Settler

\* Its actions are the component's, one by one.
LEMMA ManagerActions ==
  /\ \A a : M!Post(a) => CP!M!Post(a)
  /\ \A ok, reported : M!EndCli(ok, reported) => CP!M!EndCli(ok, reported)
  /\ M!EndAttempt => CP!M!EndAttempt
  /\ M!LoseAttempt => CP!M!LoseAttempt
  /\ M!Retry => CP!M!Retry
  /\ \A a : M!BeginApply(a) => CP!M!BeginApply(a)
  /\ M!FailAction => CP!M!FailAction
  /\ M!WritePart => CP!M!WritePart
  /\ M!WriteHiredAgent => CP!M!WriteHiredAgent
  /\ M!Register => CP!M!Register
  /\ M!Delegate => CP!M!Delegate
  /\ M!QueueDelegatedWork => CP!M!QueueDelegatedWork
  /\ M!CreateMilestone => CP!M!CreateMilestone
  /\ M!BindProcess => CP!M!BindProcess
  /\ M!StartProcessRun => CP!M!StartProcessRun
  /\ M!RecordCompanyAction => CP!M!RecordCompanyAction
  /\ \A a, outcome : M!EndChild(a, outcome) => CP!M!EndChild(a, outcome)
  /\ \A a : M!ResumeManager(a) => CP!M!ResumeManager(a)
  /\ \A a : M!ResumeFails(a) => CP!M!ResumeFails(a)
  /\ \A a : M!EndCallback(a) => CP!M!EndCallback(a)
  /\ \A a : M!LoseCallback(a) => CP!M!LoseCallback(a)
  /\ \A s, a : M!BeginCallback(s, a) => CP!M!BeginCallback(s, a)
  /\ \A s : M!CreateCallbackWork(s) => CP!M!CreateCallbackWork(s)
  /\ \A s : M!EnqueueCallback(s) => CP!M!EnqueueCallback(s)
  /\ \A s, n : M!BeginRelease(s, n) => CP!M!BeginRelease(s, n)
  /\ \A s : M!ScanRelated(s) => CP!M!ScanRelated(s)
  /\ \A s : M!ReleaseWorkspace(s) => CP!M!ReleaseWorkspace(s)
  /\ \A s : M!Die(s) => CP!M!Die(s)
  /\ \A n : M!ExpireLock(n) => CP!M!ExpireLock(n)
<1>1. /\ \A a : M!Post(a) => CP!M!Post(a)
      /\ \A ok, reported : M!EndCli(ok, reported) => CP!M!EndCli(ok, reported)
      /\ M!EndAttempt => CP!M!EndAttempt
      /\ M!LoseAttempt => CP!M!LoseAttempt
      /\ M!Retry => CP!M!Retry
      /\ \A a : M!BeginApply(a) => CP!M!BeginApply(a)
      /\ M!FailAction => CP!M!FailAction
      /\ M!WritePart => CP!M!WritePart
  BY DEF M!Post, CP!M!Post, M!Used, CP!M!Used, M!Cardinality, CP!M!Cardinality, M!companyState,
     CP!M!companyState, M!spaces, CP!M!spaces, M!IsFiniteSet, CP!M!IsFiniteSet, M!EndCli, CP!M!EndCli,
     M!Missing, CP!M!Missing, M!TypeOf, CP!M!TypeOf, M!KindOf, CP!M!KindOf, M!EndAttempt,
     CP!M!EndAttempt, M!Idle, CP!M!Idle, M!Applied, CP!M!Applied, M!Keeps, CP!M!Keeps, M!LoseAttempt,
     CP!M!LoseAttempt, M!Retry, CP!M!Retry, M!Busy, CP!M!Busy, M!Begun, CP!M!Begun, M!BeginApply,
     CP!M!BeginApply, M!At, CP!M!At, M!FirstStep, CP!M!FirstStep, M!Kind, CP!M!Kind, M!FailAction,
     CP!M!FailAction, M!This, CP!M!This, M!WritePart, CP!M!WritePart, M!managerState, CP!M!managerState
<1>2. /\ M!WriteHiredAgent => CP!M!WriteHiredAgent
      /\ M!Register => CP!M!Register
      /\ M!Delegate => CP!M!Delegate
      /\ M!QueueDelegatedWork => CP!M!QueueDelegatedWork
      /\ M!CreateMilestone => CP!M!CreateMilestone
      /\ M!BindProcess => CP!M!BindProcess
      /\ M!StartProcessRun => CP!M!StartProcessRun
      /\ M!RecordCompanyAction => CP!M!RecordCompanyAction
  BY DEF M!WriteHiredAgent, CP!M!WriteHiredAgent, M!At, CP!M!At, M!To, CP!M!To, M!This, CP!M!This,
     M!spaces, CP!M!spaces, M!Register, CP!M!Register, M!KindOf, CP!M!KindOf, M!Delegate, CP!M!Delegate,
     M!companyState, CP!M!companyState, M!QueueDelegatedWork, CP!M!QueueDelegatedWork,
     M!CreateMilestone, CP!M!CreateMilestone, M!BindProcess, CP!M!BindProcess, M!StartProcessRun,
     CP!M!StartProcessRun, M!RecordCompanyAction, CP!M!RecordCompanyAction, M!Idle, CP!M!Idle, M!Keeps,
     CP!M!Keeps
<1>3. /\ \A a, outcome : M!EndChild(a, outcome) => CP!M!EndChild(a, outcome)
      /\ \A a : M!ResumeManager(a) => CP!M!ResumeManager(a)
      /\ \A a : M!ResumeFails(a) => CP!M!ResumeFails(a)
      /\ \A a : M!EndCallback(a) => CP!M!EndCallback(a)
      /\ \A a : M!LoseCallback(a) => CP!M!LoseCallback(a)
      /\ \A s, a : M!BeginCallback(s, a) => CP!M!BeginCallback(s, a)
      /\ \A s : M!CreateCallbackWork(s) => CP!M!CreateCallbackWork(s)
      /\ \A s : M!EnqueueCallback(s) => CP!M!EnqueueCallback(s)
  BY DEF M!EndChild, CP!M!EndChild, M!Runs, CP!M!Runs, M!managerState, CP!M!managerState,
     M!companyState, CP!M!companyState, M!spaces, CP!M!spaces, M!ResumeManager, CP!M!ResumeManager,
     M!Busy, CP!M!Busy, M!Free, CP!M!Free, M!ResumeFails, CP!M!ResumeFails, M!EndCallback,
     CP!M!EndCallback, M!Attempts, CP!M!Attempts, M!LoseCallback, CP!M!LoseCallback, M!BeginCallback,
     CP!M!BeginCallback, M!Resting, CP!M!Resting, M!Terminal, CP!M!Terminal, M!Move, CP!M!Move,
     M!CreateCallbackWork, CP!M!CreateCallbackWork, M!EnqueueCallback, CP!M!EnqueueCallback
<1>4. /\ \A s, n : M!BeginRelease(s, n) => CP!M!BeginRelease(s, n)
      /\ \A s : M!ScanRelated(s) => CP!M!ScanRelated(s)
      /\ \A s : M!ReleaseWorkspace(s) => CP!M!ReleaseWorkspace(s)
      /\ \A s : M!Die(s) => CP!M!Die(s)
      /\ \A n : M!ExpireLock(n) => CP!M!ExpireLock(n)
  BY DEF M!BeginRelease, CP!M!BeginRelease, M!Resting, CP!M!Resting, M!Related, CP!M!Related, M!Free,
     CP!M!Free, M!Move, CP!M!Move, M!Runs, CP!M!Runs, M!managerState, CP!M!managerState, M!companyState,
     CP!M!companyState, M!ScanRelated, CP!M!ScanRelated, M!Over, CP!M!Over, M!Terminal, CP!M!Terminal,
     M!ReleaseWorkspace, CP!M!ReleaseWorkspace, M!Die, CP!M!Die, M!spaces, CP!M!spaces, M!ExpireLock,
     CP!M!ExpireLock, M!Settler, CP!M!Settler
<1> QED BY <1>1, <1>2, <1>3, <1>4

\* Its steps are the component's.
LEMMA ManagerSteps == focus = "manager" /\ [Next]_vars => [CP!M!Next]_(CP!M!vars)
<1> SUFFICES ASSUME focus = "manager", [Next]_vars PROVE [CP!M!Next]_(CP!M!vars)
  OBVIOUS
<1>1. CASE UNCHANGED vars
  BY <1>1 DEF vars, M!vars, CP!M!vars, M!managerState, CP!M!managerState, M!companyState,
     CP!M!companyState, M!spaces, CP!M!spaces
<1>2. CASE ManagerNext
  <2>1. \A a \in {k1, k2, p1} : M!Post(a) \/ M!BeginApply(a) => CP!M!Next
    BY ManagerActions DEF CP!M!Next, CP!M!Manager
  <2>2. /\ \A ok \in BOOLEAN : M!EndCli(ok, {}) => CP!M!Next
        /\ \A reported \in {{k1}, {p1}, {k1, p1}} : M!EndCli(TRUE, reported) => CP!M!Next
    <3>1. \A ok \in BOOLEAN, reported \in SUBSET {k1, k2, p1} : M!EndCli(ok, reported) => CP!M!Next
      BY ManagerActions DEF CP!M!Next, CP!M!Manager
    <3> QED BY <3>1
  <2>3. \/ M!EndAttempt \/ M!LoseAttempt \/ M!Retry \/ M!FailAction \/ M!WritePart \/ M!WriteHiredAgent
        \/ M!Register \/ M!Delegate \/ M!QueueDelegatedWork \/ M!CreateMilestone \/ M!BindProcess
        \/ M!StartProcessRun \/ M!RecordCompanyAction
        => CP!M!Next
    BY ManagerActions DEF CP!M!Next, CP!M!Manager
  <2>4. \A a \in {k1, k2} : M!ResumeManager(a) \/ M!ResumeFails(a) \/ M!EndCallback(a) => CP!M!Next
    BY ManagerActions DEF CP!M!Next, CP!M!Children
  <2>5. /\ \A a \in {k1, k2} : M!EndChild(a, "completed") => CP!M!Next
        /\ M!EndChild(k1, "unverified") \/ M!LoseCallback(k1) => CP!M!Next
    BY ManagerActions DEF CP!M!Next, CP!M!Children, CP!M!Terminal
  <2>6. \A s \in M!Settler, a \in {k1, k2} : M!BeginCallback(s, a) => CP!M!Next
    BY ManagerActions DEF CP!M!Next, CP!M!Settle, M!Settler, CP!M!Settler
  <2>7. \A s \in M!Settler : M!CreateCallbackWork(s) \/ M!EnqueueCallback(s) \/ M!ScanRelated(s)
                            \/ M!ReleaseWorkspace(s) => CP!M!Next
    BY ManagerActions DEF CP!M!Next, CP!M!Settle, M!Settler, CP!M!Settler
  <2>8. \A s \in M!Settler, n \in 1 .. 2 : M!BeginRelease(s, n) => CP!M!Next
    BY ManagerActions DEF CP!M!Next, CP!M!Settle, M!Settler, CP!M!Settler, CP!M!Attempts
  <2>9. M!Die("recovery") \/ (\E n \in 1 .. 2 : M!ExpireLock(n)) => CP!M!Next
    BY ManagerActions DEF CP!M!Next, CP!M!Settle, CP!M!Settler, CP!M!Attempts
  <2>10. \/ \E a \in {k1, k2, p1} : (a = k2 => s1 # Hires \/ (requests[k1] = "applied" /\ s2.number = 1)) /\ M!Post(a)
         \/ \E ok \in BOOLEAN : M!EndCli(ok, {})
         \/ s1 = Reports /\ \E reported \in {{k1}, {p1}, {k1, p1}} : M!EndCli(TRUE, reported)
         \/ M!EndAttempt
         \/ M!LoseAttempt
         \/ M!Retry
         \/ \E a \in {k1, k2, p1} : M!BeginApply(a)
         \/ Uneasy /\ M!FailAction
         \/ Uneasy /\ M!WritePart
         \/ M!WriteHiredAgent
         \/ M!Register
         \/ M!Delegate
         \/ M!QueueDelegatedWork
         \/ M!CreateMilestone
         \/ M!BindProcess
         \/ M!StartProcessRun
         \/ M!RecordCompanyAction
         \/ \E a \in {k1, k2} : M!EndChild(a, "completed")
         \/ M!EndChild(k1, "unverified")
         \/ \E a \in {k1, k2} : M!ResumeManager(a)
         \/ \E a \in {k1, k2} : M!ResumeFails(a)
         \/ \E a \in {k1, k2} : M!EndCallback(a)
         \/ M!LoseCallback(k1)
         \/ \E s \in M!Settler, a \in {k1, k2} : (a = k2 => s = "recovery") /\ M!BeginCallback(s, a)
         \/ \E s \in M!Settler : M!CreateCallbackWork(s)
         \/ \E s \in M!Settler : M!EnqueueCallback(s)
         \/ \E s \in M!Settler, n \in 1 .. 2 : M!BeginRelease(s, n)
         \/ \E s \in M!Settler : M!ScanRelated(s)
         \/ \E s \in M!Settler : M!ReleaseWorkspace(s)
         \/ M!Die("recovery")
         \/ \E n \in 1 .. 2 : M!ExpireLock(n)
    BY <1>2 DEF ManagerNext
  <2> QED BY <2>1, <2>2, <2>3, <2>4, <2>5, <2>6, <2>7, <2>8, <2>9, <2>10
<1> QED BY <1>1, <1>2, FocusNext

\* A delegation has one child and one callback, and the manager's workspace is kept for them (Delegation).
THEOREM DelegationsHold == Spec => []DelegationKept
<1>1. CP!Setups
  BY NamesAreNoStates DEF CP!Setups, Hires, SetsUp, Reports, CP!M!Kind
<1>2. CP!M!DelegationKept => M!DelegationKept
  BY DEF M!DelegationKept, CP!M!DelegationKept, M!Terminal, CP!M!Terminal, M!Attempts, CP!M!Attempts,
     M!Related, CP!M!Related, M!Keeps, CP!M!Keeps, M!KindOf, CP!M!KindOf
<1>3. CP!M!Spec => []CP!M!DelegationKept
  BY <1>1, CP!DelegationsKept
<1>4. /\ focus = "manager" /\ [Next]_vars => (focus = "manager")'
      /\ ~(focus = "manager") /\ [Next]_vars => ~(focus = "manager")'
  BY FocusStays
<1>5. (focus = "manager" => M!DelegationKept) => DelegationKept
  BY DEF DelegationKept
<1> QED BY <1>2, <1>3, <1>4, ManagerStarts, ManagerSteps, <1>5, PTL DEF Spec, CP!M!Spec

-----------------------------------------------------------------------------
(* AttemptEvidence.                                                        *)

\* A behaviour of the focus begins as the component does.
LEMMA AttemptStarts == Init /\ focus = "attempt" => CP!E!Init
  BY DEF Init, E!Init, CP!E!Init, E!Attempt, CP!E!Attempt, E!NotStarted, CP!E!NotStarted, E!SessionId,
     CP!E!SessionId, E!NoSession, CP!E!NoSession, E!Blank, CP!E!Blank, E!Maker, CP!E!Maker, E!Checker,
     CP!E!Checker, E!Own, CP!E!Own

\* Its actions are the component's, one by one.
LEMMA AttemptActions ==
  /\ \A a, wake : E!DispatchMaker(a, wake) => CP!E!DispatchMaker(a, wake)
  /\ \A m : E!DispatchChecker(m) => CP!E!DispatchChecker(m)
  /\ \A a : E!Setup(a) => CP!E!Setup(a)
  /\ \A a : E!Throw(a) => CP!E!Throw(a)
  /\ \A a : E!ReadSession(a) => CP!E!ReadSession(a)
  /\ \A a : E!OpenSession(a) => CP!E!OpenSession(a)
  /\ \A a : E!Link(a) => CP!E!Link(a)
  /\ \A a, o, k, p, i, w : E!Execute(a, o, k, p, i, w) => CP!E!Execute(a, o, k, p, i, w)
  /\ \A a : E!WrongIdentity(a) => CP!E!WrongIdentity(a)
  /\ \A a, refused : E!CheckOutput(a, refused) => CP!E!CheckOutput(a, refused)
  /\ \A a, f : E!CopyArtifact(a, f) => CP!E!CopyArtifact(a, f)
  /\ \A a : E!RecordArtifact(a) => CP!E!RecordArtifact(a)
  /\ \A a : E!StopCopying(a) => CP!E!StopCopying(a)
  /\ \A a : E!FinishCopying(a) => CP!E!FinishCopying(a)
  /\ \A a : E!ApplyActionsFails(a) => CP!E!ApplyActionsFails(a)
  /\ \A a : E!CompleteSession(a) => CP!E!CompleteSession(a)
  /\ \A a : E!CompleteAttempt(a) => CP!E!CompleteAttempt(a)
  /\ \A a : E!Lose(a) => CP!E!Lose(a)
  /\ \A a : E!Die(a) => CP!E!Die(a)
  /\ \A a : E!Reconcile(a) => CP!E!Reconcile(a)
  /\ \A a : E!QueueRetry(a) => CP!E!QueueRetry(a)
<1>1. /\ \A a, wake : E!DispatchMaker(a, wake) => CP!E!DispatchMaker(a, wake)
      /\ \A m : E!DispatchChecker(m) => CP!E!DispatchChecker(m)
      /\ \A a : E!Setup(a) => CP!E!Setup(a)
      /\ \A a : E!Throw(a) => CP!E!Throw(a)
      /\ \A a : E!ReadSession(a) => CP!E!ReadSession(a)
      /\ \A a : E!OpenSession(a) => CP!E!OpenSession(a)
      /\ \A a : E!Link(a) => CP!E!Link(a)
  BY DEF E!DispatchMaker, CP!E!DispatchMaker, E!Retryable, CP!E!Retryable, E!Maker, CP!E!Maker, E!Set,
     CP!E!Set, E!files4, CP!E!files4, E!DispatchChecker, CP!E!DispatchChecker, E!Checker, CP!E!Checker,
     E!Setup, CP!E!Setup, E!At, CP!E!At, E!Repository, CP!E!Repository, E!IsMaker, CP!E!IsMaker,
     E!Resolved, CP!E!Resolved, E!Workspace, CP!E!Workspace, E!item, CP!E!item, E!Blank, CP!E!Blank,
     E!Restored, CP!E!Restored, E!Throw, CP!E!Throw, E!Fails, CP!E!Fails, E!ReadSession,
     CP!E!ReadSession, E!OpenSession, CP!E!OpenSession, E!Own, CP!E!Own, E!Link, CP!E!Link, E!Attempt,
     CP!E!Attempt
<1>2. \A a, o, k, p, i, w : E!Execute(a, o, k, p, i, w) => CP!E!Execute(a, o, k, p, i, w)
  BY DEF E!Execute, CP!E!Execute, E!At, CP!E!At, E!Set, CP!E!Set, E!Seen, CP!E!Seen, E!item, CP!E!item
<1>3. \A a : E!WrongIdentity(a) => CP!E!WrongIdentity(a)
  BY DEF E!WrongIdentity, CP!E!WrongIdentity, E!At, CP!E!At, E!Fails, CP!E!Fails, E!item, CP!E!item,
     E!files4, CP!E!files4, E!Set, CP!E!Set
<1>4. \A a, refused : E!CheckOutput(a, refused) => CP!E!CheckOutput(a, refused)
  BY DEF E!CheckOutput, CP!E!CheckOutput, E!At, CP!E!At, E!Repository, CP!E!Repository, E!IsMaker,
     CP!E!IsMaker, E!Successful, CP!E!Successful, E!Changed, CP!E!Changed, E!Refuse, CP!E!Refuse, E!Set,
     CP!E!Set, E!Artifacts, CP!E!Artifacts, E!item, CP!E!item, E!files4, CP!E!files4, E!Checker,
     CP!E!Checker, E!Present, CP!E!Present
<1>5. \A a, f : E!CopyArtifact(a, f) => CP!E!CopyArtifact(a, f)
  BY DEF E!CopyArtifact, CP!E!CopyArtifact, E!At, CP!E!At, E!Successful, CP!E!Successful, E!Refuse,
     CP!E!Refuse, E!Set, CP!E!Set, E!item, CP!E!item
<1>6. /\ \A a : E!RecordArtifact(a) => CP!E!RecordArtifact(a)
      /\ \A a : E!StopCopying(a) => CP!E!StopCopying(a)
      /\ \A a : E!FinishCopying(a) => CP!E!FinishCopying(a)
      /\ \A a : E!ApplyActionsFails(a) => CP!E!ApplyActionsFails(a)
      /\ \A a : E!CompleteSession(a) => CP!E!CompleteSession(a)
      /\ \A a : E!CompleteAttempt(a) => CP!E!CompleteAttempt(a)
      /\ \A a : E!Lose(a) => CP!E!Lose(a)
      /\ \A a : E!Die(a) => CP!E!Die(a)
  BY DEF E!RecordArtifact, CP!E!RecordArtifact, E!At, CP!E!At, E!Set, CP!E!Set, E!item, CP!E!item,
     E!StopCopying, CP!E!StopCopying, E!Refuse, CP!E!Refuse, E!files4, CP!E!files4, E!FinishCopying,
     CP!E!FinishCopying, E!Repository, CP!E!Repository, E!IsMaker, CP!E!IsMaker, E!Successful,
     CP!E!Successful, E!Checker, CP!E!Checker, E!ApplyActionsFails, CP!E!ApplyActionsFails,
     E!CompleteSession, CP!E!CompleteSession, E!Status, CP!E!Status, E!CompleteAttempt,
     CP!E!CompleteAttempt, E!Fails, CP!E!Fails, E!Lose, CP!E!Lose, E!Die, CP!E!Die
<1>7. /\ \A a : E!Reconcile(a) => CP!E!Reconcile(a)
      /\ \A a : E!QueueRetry(a) => CP!E!QueueRetry(a)
  BY DEF E!Reconcile, CP!E!Reconcile, E!IsMaker, CP!E!IsMaker, E!Terminal, CP!E!Terminal, E!item,
     CP!E!item, E!files4, CP!E!files4, E!Checker, CP!E!Checker, E!Retryable, CP!E!Retryable,
     E!QueueRetry, CP!E!QueueRetry, E!NoSession, CP!E!NoSession
<1> QED BY <1>1, <1>2, <1>3, <1>4, <1>5, <1>6, <1>7

\* Its steps are the component's.
LEMMA AttemptSteps == focus = "attempt" /\ CP!EvidenceInv /\ [Next]_vars => [CP!E!Next]_(CP!E!vars)
<1> SUFFICES ASSUME focus = "attempt", CP!EvidenceInv, [Next]_vars PROVE [CP!E!Next]_(CP!E!vars)
  OBVIOUS
<1>1. CASE UNCHANGED vars
  BY <1>1 DEF vars, E!vars, CP!E!vars
<1>2. CASE AttemptNext
  <2>1. CP!E!Maker = 1 .. 2 /\ CP!E!Attempt = 1 .. 3
    BY DEF CP!E!Maker, CP!E!Attempt, CP!E!Checker
  <2> DEFINE FreshIn(a) == [f \in {k1, k2} |-> a]
  <2>2. \A a \in 1 .. 3 : Writes(a) \cup {FreshIn(a)} \subseteq CP!E!Written(a)
    <3> SUFFICES ASSUME NEW a \in 1 .. 3 PROVE Writes(a) \cup {FreshIn(a)} \subseteq CP!E!Written(a)
      OBVIOUS
    <3>1. s8[a] \in [{k1, k2} -> Nat]
      BY <2>1 DEF CP!EvidenceInv, CP!FileShape
    <3> QED BY <3>1 DEF Writes, CP!E!Written
  <2> HIDE DEF FreshIn
  <2>3. /\ \A a \in 1 .. 2, wake \in 1 .. 2 : E!DispatchMaker(a, wake) => CP!E!Next
        /\ \A m \in 1 .. 2 : E!DispatchChecker(m) \/ E!QueueRetry(m) => CP!E!Next
        /\ \A a \in 1 .. 3 : E!Setup(a) \/ E!Throw(a) \/ E!ReadSession(a) \/ E!OpenSession(a) \/ E!Link(a)
                            \/ E!WrongIdentity(a) => CP!E!Next
        /\ \A a \in 1 .. 3 : /\ \A refused \in BOOLEAN : E!CheckOutput(a, refused) => CP!E!Next
                            /\ \A f \in {k1, k2} : E!CopyArtifact(a, f) => CP!E!Next
        /\ \A a \in 1 .. 3 : E!RecordArtifact(a) \/ E!StopCopying(a) \/ E!FinishCopying(a) => CP!E!Next
        /\ \A a \in 1 .. 3 : E!ApplyActionsFails(a) \/ E!CompleteSession(a) \/ E!CompleteAttempt(a)
                            \/ E!Lose(a) \/ E!Die(a) \/ E!Reconcile(a) => CP!E!Next
    BY <2>1, AttemptActions DEF CP!E!Next, CP!E!Starts, CP!E!Prepares, CP!E!Runs, CP!E!Persists, CP!E!Ends
  <2>4. \A a \in 1 .. 3, o \in {"returned", "timed_out", "cancelled"}, k, i \in BOOLEAN :
          \A p \in {a, s6[a].asked} \ {0}, w \in Writes(a) \cup {FreshIn(a)} :
            E!Execute(a, o, k, p, i, w) => CP!E!Next
    <3> SUFFICES ASSUME NEW a \in 1 .. 3, NEW o \in {"returned", "timed_out", "cancelled"}, NEW k \in BOOLEAN,
                        NEW i \in BOOLEAN, NEW p \in {a, s6[a].asked} \ {0},
                        NEW w \in Writes(a) \cup {FreshIn(a)}, E!Execute(a, o, k, p, i, w)
                 PROVE  CP!E!Next
      OBVIOUS
    <3>1. CP!E!Execute(a, o, k, p, i, w) /\ w \in CP!E!Written(a)
      BY <2>2, AttemptActions
    <3> QED BY <2>1, <3>1 DEF CP!E!Next, CP!E!Runs
  <2>5. /\ 1 \in 1 .. 2 /\ 1 \in 1 .. 3 /\ 2 \in 1 .. 3 /\ 3 \in 1 .. 3
        /\ 1 \in {1, s6[1].asked} \ {0} /\ FreshIn(1) \in Writes(1) \cup {FreshIn(1)}
        /\ 2 \in {2, s6[2].asked} \ {0} /\ FreshIn(2) \in Writes(2) \cup {FreshIn(2)}
    OBVIOUS
  <2>6. /\ \A a \in 1 .. 3 : \A files \in Writes(a), p \in {a, s6[a].asked} \ {0} :
             E!Execute(a, "returned", TRUE, p, TRUE, files) => CP!E!Next
        /\ E!Execute(2, "returned", TRUE, 2, FALSE, FreshIn(2)) => CP!E!Next
        /\ \A end \in {"returned", "timed_out"} : E!Execute(1, end, FALSE, 1, TRUE, FreshIn(1)) => CP!E!Next
        /\ E!Execute(1, "cancelled", TRUE, 1, TRUE, FreshIn(1)) => CP!E!Next
    BY <2>4, <2>5
  <2>7. \/ \E a \in 1 .. 2, wake \in 1 .. 2 : E!DispatchMaker(a, wake)
        \/ Settled /\ \E m \in 1 .. 2 : E!DispatchChecker(m)
        \/ \E a \in 1 .. 3 : E!Setup(a)
        \/ s6[1].pc = "opened" /\ E!Throw(1)
        \/ \E a \in 1 .. 3 : E!ReadSession(a)
        \/ \E a \in 1 .. 3 : E!OpenSession(a)
        \/ \E a \in 1 .. 3 : E!Link(a)
        \/ \E a \in 1 .. 3 : \E files \in Writes(a), p \in {a, s6[a].asked} \ {0} :
             (a = 2 => Settled \/ s1 = "repository") /\ E!Execute(a, "returned", TRUE, p, TRUE, files)
        \/ Settled /\ E!Execute(2, "returned", TRUE, 2, FALSE, FreshIn(2))
        \/ \E end \in {"returned", "timed_out"} : E!Execute(1, end, FALSE, 1, TRUE, FreshIn(1))
        \/ E!Execute(1, "cancelled", TRUE, 1, TRUE, FreshIn(1))
        \/ E!WrongIdentity(1)
        \/ \E a \in 1 .. 3, refused \in BOOLEAN : (refused => a = 1) /\ E!CheckOutput(a, refused)
        \/ \E a \in 1 .. 3, f \in {k1, k2} : (f = k2 => a = 1 \/ k1 \notin s6[a].left) /\ E!CopyArtifact(a, f)
        \/ \E a \in 1 .. 3 : E!RecordArtifact(a)
        \/ E!StopCopying(1)
        \/ \E a \in 1 .. 3 : E!FinishCopying(a)
        \/ E!ApplyActionsFails(1)
        \/ \E a \in 1 .. 3 : E!CompleteSession(a)
        \/ \E a \in 1 .. 3 : E!CompleteAttempt(a)
        \/ Working(1) /\ E!Lose(1)
        \/ \E a \in {1, 3} : Working(a) /\ E!Die(a)
        \/ E!Reconcile(1)
        \/ E!QueueRetry(1)
    BY <1>2 DEF AttemptNext, FreshIn
  <2> QED BY <2>3, <2>5, <2>6, <2>7
<1> QED BY <1>1, <1>2, FocusNext

-----------------------------------------------------------------------------
(* Sessions.                                                               *)

\* A behaviour of the focus begins as the component does.
LEMMA SessionStarts == Init /\ focus = "session" => PP!Q!Init
  BY DEF Init, Q!Init, PP!Q!Init, Q!Absent, PP!Q!Absent, Q!NotStarted, PP!Q!NotStarted, Q!AtRest,
     PP!Q!AtRest

\* Its actions are the component's, one by one.
LEMMA SessionActions ==
  /\ \A r : Q!FindRow(r) => PP!Q!FindRow(r)
  /\ \A r : Q!WriteRow(r) => PP!Q!WriteRow(r)
  /\ \A r : Q!Register(r) => PP!Q!Register(r)
  /\ \A r : Q!ReadSeq(r) => PP!Q!ReadSeq(r)
  /\ \A r, stored : Q!Emit(r, stored) => PP!Q!Emit(r, stored)
  /\ \A r, outcome, transient, overBudget :
       Q!Return(r, outcome, transient, overBudget) => PP!Q!Return(r, outcome, transient, overBudget)
  /\ \A r : Q!Record(r) => PP!Q!Record(r)
  /\ \A r : Q!Retry(r) => PP!Q!Retry(r)
  /\ \A r, transient : Q!Throw(r, transient) => PP!Q!Throw(r, transient)
  /\ \A r : Q!RecordFailure(r) => PP!Q!RecordFailure(r)
  /\ \A r : Q!Leave(r) => PP!Q!Leave(r)
  /\ \A p : Q!Die(p) => PP!Q!Die(p)
  /\ \A c, p, s : Q!Cancel(c, p, s) => PP!Q!Cancel(c, p, s)
  /\ \A c : Q!EndCancel(c) => PP!Q!EndCancel(c)
  /\ \A s : Q!Stop(s) => PP!Q!Stop(s)
  /\ \A s : Q!Pause(s) => PP!Q!Pause(s)
  /\ \A s : Q!Resume(s) => PP!Q!Resume(s)
  /\ \A c, p, s : Q!NumberEvent(c, p, s) => PP!Q!NumberEvent(c, p, s)
  /\ \A c : Q!AppendEvent(c) => PP!Q!AppendEvent(c)
<1>1. /\ \A r : Q!FindRow(r) => PP!Q!FindRow(r)
      /\ \A r : Q!WriteRow(r) => PP!Q!WriteRow(r)
      /\ \A r : Q!Register(r) => PP!Q!Register(r)
      /\ \A r : Q!ReadSeq(r) => PP!Q!ReadSeq(r)
  BY DEF Q!FindRow, PP!Q!FindRow, Q!Exists, PP!Q!Exists, Q!Set, PP!Q!Set, Q!Absent, PP!Q!Absent,
     Q!WriteRow, PP!Q!WriteRow, Q!Register, PP!Q!Register, Q!ReadSeq, PP!Q!ReadSeq, Q!LastSeq, PP!Q!LastSeq, Q!Taken, PP!Q!Taken
<1>2. \A r, stored : Q!Emit(r, stored) => PP!Q!Emit(r, stored)
  BY DEF Q!Emit, PP!Q!Emit, Q!StoreLine, PP!Q!StoreLine, Q!Taken, PP!Q!Taken, Q!Set, PP!Q!Set
<1>3. \A r, outcome, transient, overBudget :
       Q!Return(r, outcome, transient, overBudget) => PP!Q!Return(r, outcome, transient, overBudget)
  BY DEF Q!Return, PP!Q!Return, Q!StatusOf, PP!Q!StatusOf, Q!Set, PP!Q!Set
<1>4. /\ \A r : Q!Record(r) => PP!Q!Record(r)
      /\ \A r : Q!Retry(r) => PP!Q!Retry(r)
      /\ \A r, transient : Q!Throw(r, transient) => PP!Q!Throw(r, transient)
      /\ \A r : Q!RecordFailure(r) => PP!Q!RecordFailure(r)
      /\ \A r : Q!Leave(r) => PP!Q!Leave(r)
      /\ \A p : Q!Die(p) => PP!Q!Die(p)
      /\ \A c, p, s : Q!Cancel(c, p, s) => PP!Q!Cancel(c, p, s)
      /\ \A c : Q!EndCancel(c) => PP!Q!EndCancel(c)
  BY DEF Q!Record, PP!Q!Record, Q!Write, PP!Q!Write, Q!Set, PP!Q!Set, Q!Exists, PP!Q!Exists, Q!Absent,
     PP!Q!Absent, Q!Retry, PP!Q!Retry, Q!Throw, PP!Q!Throw, Q!RecordFailure, PP!Q!RecordFailure,
     Q!Leave, PP!Q!Leave, Q!Die, PP!Q!Die, Q!Cancel, PP!Q!Cancel, Q!EndCancel, PP!Q!EndCancel
<1>5. /\ \A s : Q!Stop(s) => PP!Q!Stop(s)
      /\ \A s : Q!Pause(s) => PP!Q!Pause(s)
      /\ \A s : Q!Resume(s) => PP!Q!Resume(s)
      /\ \A c, p, s : Q!NumberEvent(c, p, s) => PP!Q!NumberEvent(c, p, s)
      /\ \A c : Q!AppendEvent(c) => PP!Q!AppendEvent(c)
  BY DEF Q!Stop, PP!Q!Stop, Q!Exists, PP!Q!Exists, Q!Write, PP!Q!Write, Q!Absent, PP!Q!Absent, Q!Pause,
     PP!Q!Pause, Q!Resume, PP!Q!Resume, Q!NumberEvent, PP!Q!NumberEvent, Q!LastSeq, PP!Q!LastSeq,
     Q!Taken, PP!Q!Taken, Q!AppendEvent, PP!Q!AppendEvent
<1> QED BY <1>1, <1>2, <1>3, <1>4, <1>5

\* Its steps are the component's.
LEMMA SessionSteps == focus = "session" /\ [Next]_vars => [PP!Q!Next]_(PP!Q!vars)
<1> SUFFICES ASSUME focus = "session", [Next]_vars PROVE [PP!Q!Next]_(PP!Q!vars)
  OBVIOUS
<1>1. CASE UNCHANGED vars
  BY <1>1 DEF vars, Q!vars, PP!Q!vars
<1>2. CASE SessionNext
  <2>1. \A r \in {k1, k2} : Q!FindRow(r) \/ Q!WriteRow(r) \/ Q!Register(r) \/ Q!ReadSeq(r)
                            \/ Q!Record(r) \/ Q!Retry(r) \/ Q!RecordFailure(r) \/ Q!Leave(r) => PP!Q!Next
    BY SessionActions DEF PP!Q!Next, PP!Q!Execute
  <2>2. \A r \in {k1, k2}, stored \in BOOLEAN : Q!Emit(r, stored) => PP!Q!Next
    BY SessionActions DEF PP!Q!Next, PP!Q!Execute
  <2>3. \A r \in {k1, k2}, outcome \in {"succeeded", "failed"}, transient, overBudget \in BOOLEAN :
          Q!Return(r, outcome, transient, overBudget) \/ Q!Throw(r, transient) => PP!Q!Next
    BY SessionActions DEF PP!Q!Next, PP!Q!Execute, PP!Q!Outcome, PP!Q!Classified, PP!Q!Violated
  <2>4. Q!Cancel(c1, a1, p1) \/ Q!NumberEvent(c1, a1, p1) \/ Q!EndCancel(c1) \/ Q!AppendEvent(c1) => PP!Q!Next
    BY SessionActions DEF PP!Q!Next, PP!Q!Others
  <2>5. Q!Stop(p1) \/ Q!Pause(p1) \/ Q!Resume(p1) \/ Q!Die(a1) => PP!Q!Next
    BY SessionActions DEF PP!Q!Next
  <2> QED BY <1>2, <2>1, <2>2, <2>3, <2>4, <2>5 DEF SessionNext
<1> QED BY <1>1, <1>2, FocusNext

\* A run of a session that succeeded left its whole transcript (Sessions), and an attempt that
\* succeeded its artifacts or its commit, which is what its retry or its checker is given (AttemptEvidence).
THEOREM EvidenceHolds == Spec => []EvidenceComplete
<1>1. PP!Sessioned /\ CP!Evidenced
  BY CallersAreNoRuns DEF PP!Sessioned, CP!Evidenced
<1>2. PP!Q!Spec => []PP!Q!EvidenceComplete
  BY <1>1, PP!TranscriptsComplete
<1>3. PP!Q!EvidenceComplete => Q!EvidenceComplete
  BY DEF Q!EvidenceComplete, PP!Q!EvidenceComplete, Q!Cardinality, PP!Q!Cardinality, Q!IsFiniteSet,
     PP!Q!IsFiniteSet
<1>4. Init /\ focus = "attempt" => CP!EvidenceInv
  BY <1>1, AttemptStarts, CP!EvidenceBegins
<1>5. focus = "attempt" /\ CP!EvidenceInv /\ [Next]_vars => CP!EvidenceInv'
  BY <1>1, AttemptSteps, CP!EvidenceNext
<1>6. CP!EvidenceInv => E!EvidenceComplete
  <2>1. CP!E!EvidenceComplete => E!EvidenceComplete
    BY DEF E!EvidenceComplete, CP!E!EvidenceComplete, E!SucceededIsRecorded, CP!E!SucceededIsRecorded,
       E!RetryFromOneAttempt, CP!E!RetryFromOneAttempt, E!CheckedIsDelivered, CP!E!CheckedIsDelivered,
       E!OneRunPerSession, CP!E!OneRunPerSession, E!ResumedIsContinued, CP!E!ResumedIsContinued,
       E!Maker, CP!E!Maker, E!Artifacts, CP!E!Artifacts, E!Repository, CP!E!Repository, E!Blank,
       CP!E!Blank, E!Present, CP!E!Present, E!Checker, CP!E!Checker, E!Attempt, CP!E!Attempt, E!IsMaker,
       CP!E!IsMaker
  <2> QED BY <1>1, <2>1, CP!EvidenceSuffices
<1>7. /\ focus = "session" /\ [Next]_vars => (focus = "session")'
      /\ focus = "attempt" /\ [Next]_vars => (focus = "attempt")'
      /\ ~(focus = "session") /\ [Next]_vars => ~(focus = "session")'
      /\ ~(focus = "attempt") /\ [Next]_vars => ~(focus = "attempt")'
  BY FocusStays
<1>8. (focus = "session" => Q!EvidenceComplete) /\ (focus = "attempt" => E!EvidenceComplete) => EvidenceComplete
  BY DEF EvidenceComplete
<1> QED BY <1>2, <1>3, <1>4, <1>5, <1>6, <1>7, <1>8, SessionStarts, SessionSteps, PTL DEF Spec, PP!Q!Spec

-----------------------------------------------------------------------------
(* AgentCli.                                                               *)

\* A behaviour of the focus begins as the component does.
LEMMA CliStarts == Init /\ focus = "cli" => PP!H!Init
  BY DEF Init, H!Init, PP!H!Init, H!AtRest, PP!H!AtRest

\* Its actions are the component's, one by one.
LEMMA CliActions ==
  /\ \A c : H!Execute(c) => PP!H!Execute(c)
  /\ \A c : H!TakeLock(c) => PP!H!TakeLock(c)
  /\ \A c : H!ReadHolder(c) => PP!H!ReadHolder(c)
  /\ \A c : H!Steal(c) => PP!H!Steal(c)
  /\ \A c : H!LockTimeout(c) => PP!H!LockTimeout(c)
  /\ \A c : H!Release(c) => PP!H!Release(c)
  /\ \A c : H!Spawn(c) => PP!H!Spawn(c)
  /\ \A c : H!SpawnError(c) => PP!H!SpawnError(c)
  /\ \A c, e, streamed : H!Emit(c, e, streamed) => PP!H!Emit(c, e, streamed)
  /\ \A c : H!RunTimeout(c) => PP!H!RunTimeout(c)
  /\ \A c : H!Abort(c) => PP!H!Abort(c)
  /\ \A c : H!Inactive(c) => PP!H!Inactive(c)
  /\ \A s : H!Cancel(s) => PP!H!Cancel(s)
  /\ \A c, exit, tail : H!Close(c, exit, tail) => PP!H!Close(c, exit, tail)
  /\ \A p : H!Die(p) => PP!H!Die(p)
  /\ \A p : H!Restart(p) => PP!H!Restart(p)
<1>1. \A c : H!Execute(c) => PP!H!Execute(c)
  BY DEF H!Execute, PP!H!Execute, H!Own, PP!H!Own, H!Opencode, PP!H!Opencode, H!Set, PP!H!Set
<1>2. /\ \A c : H!TakeLock(c) => PP!H!TakeLock(c)
      /\ \A c : H!ReadHolder(c) => PP!H!ReadHolder(c)
      /\ \A c : H!Steal(c) => PP!H!Steal(c)
      /\ \A c : H!LockTimeout(c) => PP!H!LockTimeout(c)
      /\ \A c : H!Release(c) => PP!H!Release(c)
      /\ \A c : H!Spawn(c) => PP!H!Spawn(c)
      /\ \A c : H!SpawnError(c) => PP!H!SpawnError(c)
  BY DEF H!TakeLock, PP!H!TakeLock, H!Turn, PP!H!Turn, H!Own, PP!H!Own, H!Set, PP!H!Set, H!Leave,
     PP!H!Leave, H!First, PP!H!First, H!ReadHolder, PP!H!ReadHolder, H!Steal, PP!H!Steal, H!LockTimeout,
     PP!H!LockTimeout, H!Release, PP!H!Release, H!Spawn, PP!H!Spawn, H!SpawnError, PP!H!SpawnError
<1>3. \A c, e, streamed : H!Emit(c, e, streamed) => PP!H!Emit(c, e, streamed)
  BY DEF H!Emit, PP!H!Emit, H!Opencode, PP!H!Opencode, H!Heard, PP!H!Heard, H!HandleEvent,
     PP!H!HandleEvent, H!Handle, PP!H!Handle, H!Range, PP!H!Range
<1>4. /\ \A c : H!RunTimeout(c) => PP!H!RunTimeout(c)
      /\ \A c : H!Abort(c) => PP!H!Abort(c)
      /\ \A c : H!Inactive(c) => PP!H!Inactive(c)
      /\ \A s : H!Cancel(s) => PP!H!Cancel(s)
  BY DEF H!RunTimeout, PP!H!RunTimeout, H!Set, PP!H!Set, H!Abort, PP!H!Abort, H!Signal, PP!H!Signal,
     H!Inactive, PP!H!Inactive, H!Cancel, PP!H!Cancel
<1>5. \A c, exit, tail : H!Close(c, exit, tail) => PP!H!Close(c, exit, tail)
  <2>1. \A r, e : H!HandleEvent(r, e) = PP!H!HandleEvent(r, e) /\ H!Heard(r, e) = PP!H!Heard(r, e)
    BY DEF H!HandleEvent, PP!H!HandleEvent, H!Handle, PP!H!Handle, H!Heard, PP!H!Heard, H!Range, PP!H!Range
  <2>2. \A r, es : H!HandleAll(r, es) = PP!H!HandleAll(r, es)
    BY <2>1 DEF H!HandleAll, PP!H!HandleAll
  <2>3. \A c, r, x : H!ExitCode(c, r, x) = PP!H!ExitCode(c, r, x)
    BY DEF H!ExitCode, PP!H!ExitCode
  <2>4. \A c : (H!Opencode(c) <=> PP!H!Opencode(c)) /\ \A q : H!Leave(q, c) = PP!H!Leave(q, c)
    BY DEF H!Opencode, PP!H!Opencode, H!Leave, PP!H!Leave, H!Own, PP!H!Own
  <2> SUFFICES ASSUME NEW c, NEW exit, NEW tail, H!Close(c, exit, tail) PROVE PP!H!Close(c, exit, tail)
    OBVIOUS
  <2> DEFINE buffered == PP!H!HandleAll(s6[c], s6[c].buffer)
             r == IF tail = <<>> THEN buffered ELSE PP!H!HandleEvent(PP!H!Heard(buffered, tail[1]), tail[1])
             ended == [s6 EXCEPT ![c] = [r EXCEPT !.code = PP!H!ExitCode(c, r, exit), !.buffer = <<>>,
                                                   !.pc = IF PP!H!Opencode(c) THEN "release" ELSE "done"]]
  <2>5. s6' = ended
    <3>1. H!HandleAll(s6[c], s6[c].buffer) = buffered
      BY <2>2
    <3>2. (IF tail = <<>> THEN buffered ELSE H!HandleEvent(H!Heard(buffered, tail[1]), tail[1])) = r
      BY <2>1
    <3>3. H!ExitCode(c, r, exit) = PP!H!ExitCode(c, r, exit) /\ (H!Opencode(c) <=> PP!H!Opencode(c))
      BY <2>3, <2>4
    <3> HIDE DEF buffered, r
    <3> QED BY <3>1, <3>2, <3>3 DEF H!Close
  <2> HIDE DEF ended
  <2>6. /\ s6[c].pc = "running" /\ Len(tail) <= 1 /\ (PP!H!Opencode(c) \/ tail = <<>>)
        /\ exit = "killed" => s6[c].stop # "none"
    BY <2>4 DEF H!Close
  <2> QED BY <2>4, <2>5, <2>6 DEF H!Close, PP!H!Close, ended
<1>6. /\ \A p : H!Die(p) => PP!H!Die(p)
      /\ \A p : H!Restart(p) => PP!H!Restart(p)
  BY DEF H!Die, PP!H!Die, H!Own, PP!H!Own, H!AtRest, PP!H!AtRest, H!Restart, PP!H!Restart
<1> QED BY <1>1, <1>2, <1>3, <1>4, <1>5, <1>6

\* Its steps are the component's.
LEMMA CliSteps == focus = "cli" /\ [Next]_vars => [PP!H!Next]_(PP!H!vars)
<1> SUFFICES ASSUME focus = "cli", [Next]_vars PROVE [PP!H!Next]_(PP!H!vars)
  OBVIOUS
<1>1. CASE UNCHANGED vars
  BY <1>1 DEF vars, H!vars, PP!H!vars
<1>2. CASE CliNext
  <2>1. \A c \in {c1, c2, k1} : H!Execute(c) \/ H!TakeLock(c) \/ H!ReadHolder(c) \/ H!Steal(c)
                                \/ H!LockTimeout(c) \/ H!Release(c) => PP!H!Next
    BY CliActions DEF PP!H!Next, PP!H!Lock
  <2>2. \A c \in {c1, c2, k1} : H!Spawn(c) \/ H!SpawnError(c) \/ H!RunTimeout(c) \/ H!Abort(c)
                                \/ H!Inactive(c) => PP!H!Next
    BY CliActions DEF PP!H!Next, PP!H!Run
  <2>3. Lines \subseteq PP!H!Event
    BY DEF Lines, Line, PP!H!Event
  <2>4. \A c \in {c1, c2, k1}, e \in Lines, streamed \in BOOLEAN : H!Emit(c, e, streamed) => PP!H!Next
    BY <2>3, CliActions DEF PP!H!Next, PP!H!Run
  <2>5. \A c \in {c1, c2, k1}, exit \in {"zero", "killed"} :
          /\ H!Close(c, exit, <<>>) => PP!H!Next
          /\ \A e \in Lines : H!Close(c, exit, <<e>>) => PP!H!Next
    BY <2>3, CliActions DEF PP!H!Next, PP!H!Run
  <2>6. H!Cancel(p1) \/ H!Die(a1) \/ H!Restart(a1) => PP!H!Next
    BY CliActions DEF PP!H!Next
  <2> QED BY <1>2, <2>1, <2>2, <2>4, <2>5, <2>6 DEF CliNext
<1> QED BY <1>1, <1>2, FocusNext

-----------------------------------------------------------------------------
(* Gateway.                                                                *)

\* A behaviour of the focus begins as the component does.
LEMMA GatewayStarts == Init /\ focus = "gateway" => PP!G!Init
  BY DEF Init, G!Init, PP!G!Init

\* Its actions are the component's, one by one.
LEMMA GatewayActions ==
  /\ G!Accept => PP!G!Accept
  /\ G!Progress => PP!G!Progress
  /\ \A outcome, damaged : G!EndRun(outcome, damaged) => PP!G!EndRun(outcome, damaged)
  /\ G!Finish => PP!G!Finish
  /\ \A arrives : G!Stop(arrives) => PP!G!Stop(arrives)
  /\ G!Deadline => PP!G!Deadline
  /\ G!TimerFires => PP!G!TimerFires
  /\ G!RequestTimesOut => PP!G!RequestTimesOut
  /\ G!Cancel => PP!G!Cancel
  /\ G!Breaks => PP!G!Breaks
  /\ G!OpenSocket => PP!G!OpenSocket
  /\ G!ReceiveChallenge => PP!G!ReceiveChallenge
  /\ \A ok : G!Hello(ok) => PP!G!Hello(ok)
  /\ G!Post => PP!G!Post
  /\ G!Refuse => PP!G!Refuse
  /\ G!Accepted => PP!G!Accepted
  /\ G!Waited => PP!G!Waited
  /\ G!Started => PP!G!Started
  /\ G!NoRunId => PP!G!NoRunId
  /\ G!ReadFrame => PP!G!ReadFrame
  /\ G!EndStream => PP!G!EndStream
  /\ G!Check => PP!G!Check
  /\ G!Fetch => PP!G!Fetch
  /\ \A named : G!Created(named) => PP!G!Created(named)
<1>1. /\ G!Accept => PP!G!Accept
      /\ G!Progress => PP!G!Progress
      /\ \A outcome, damaged : G!EndRun(outcome, damaged) => PP!G!EndRun(outcome, damaged)
      /\ G!Finish => PP!G!Finish
      /\ \A arrives : G!Stop(arrives) => PP!G!Stop(arrives)
      /\ G!Deadline => PP!G!Deadline
      /\ G!TimerFires => PP!G!TimerFires
      /\ G!RequestTimesOut => PP!G!RequestTimesOut
  BY DEF G!Accept, PP!G!Accept, G!Progress, PP!G!Progress, G!Streams, PP!G!Streams, G!Report,
     PP!G!Report, G!At, PP!G!At, G!EndRun, PP!G!EndRun, G!Finish, PP!G!Finish, G!Move, PP!G!Move, G!End,
     PP!G!End, G!Exit, PP!G!Exit, G!TimedOut, PP!G!TimedOut, G!Failed, PP!G!Failed, G!Stop, PP!G!Stop,
     G!Deadline, PP!G!Deadline, G!Open, PP!G!Open, G!TimerFires, PP!G!TimerFires, G!RequestTimesOut,
     PP!G!RequestTimesOut, G!Error, PP!G!Error
<1>2. /\ G!Cancel => PP!G!Cancel
      /\ G!Breaks => PP!G!Breaks
      /\ G!OpenSocket => PP!G!OpenSocket
      /\ G!ReceiveChallenge => PP!G!ReceiveChallenge
      /\ \A ok : G!Hello(ok) => PP!G!Hello(ok)
      /\ G!Post => PP!G!Post
      /\ G!Refuse => PP!G!Refuse
      /\ G!Accepted => PP!G!Accepted
  BY DEF G!Cancel, PP!G!Cancel, G!Breaks, PP!G!Breaks, G!At, PP!G!At, G!Error, PP!G!Error, G!Move,
     PP!G!Move, G!End, PP!G!End, G!OpenSocket, PP!G!OpenSocket, G!ReceiveChallenge,
     PP!G!ReceiveChallenge, G!Hello, PP!G!Hello, G!Post, PP!G!Post, G!Refuse, PP!G!Refuse, G!Accepted,
     PP!G!Accepted, G!Answers, PP!G!Answers, G!Status, PP!G!Status
<1>3. /\ G!Waited => PP!G!Waited
      /\ G!Started => PP!G!Started
      /\ G!NoRunId => PP!G!NoRunId
      /\ G!ReadFrame => PP!G!ReadFrame
      /\ G!EndStream => PP!G!EndStream
      /\ G!Check => PP!G!Check
      /\ G!Fetch => PP!G!Fetch
      /\ \A named : G!Created(named) => PP!G!Created(named)
  BY DEF G!Waited, PP!G!Waited, G!At, PP!G!At, G!Answers, PP!G!Answers, G!Status, PP!G!Status,
     G!Started, PP!G!Started, G!Ended, PP!G!Ended, G!NoRunId, PP!G!NoRunId, G!Error, PP!G!Error, G!Move,
     PP!G!Move, G!End, PP!G!End, G!ReadFrame, PP!G!ReadFrame, G!EndStream, PP!G!EndStream, G!Check,
     PP!G!Check, G!Over, PP!G!Over, G!Fetch, PP!G!Fetch, G!Created, PP!G!Created
<1> QED BY <1>1, <1>2, <1>3

\* Its steps are the component's.
LEMMA GatewaySteps == focus = "gateway" /\ [Next]_vars => [PP!G!Next]_(PP!G!vars)
<1> SUFFICES ASSUME focus = "gateway", [Next]_vars PROVE [PP!G!Next]_(PP!G!vars)
  OBVIOUS
<1>1. CASE UNCHANGED vars
  BY <1>1 DEF vars, G!vars, PP!G!vars
<1>2. CASE GatewayNext
  BY <1>2, GatewayActions DEF GatewayNext, PP!G!Next, G!Ended, PP!G!Ended
<1> QED BY <1>1, <1>2, FocusNext

\* A CLI's result lists what it did, and does not call what was stopped a success (AgentCli); the
\* result of a run at a service says how that run ended (Gateway).
THEOREM ResultsHold == Spec => []ResultIsTrue
<1>1. PP!H!ResultIsTrue => H!ResultIsTrue
  BY DEF H!ResultIsTrue, PP!H!ResultIsTrue, H!Range, PP!H!Range
<1>2. PP!H!Spec => []PP!H!ResultIsTrue
  BY PP!ResultsTrue
<1>3. /\ focus = "cli" /\ [Next]_vars => (focus = "cli")'
      /\ ~(focus = "cli") /\ [Next]_vars => ~(focus = "cli")'
  BY FocusStays
<1>4. PP!G!AnswerIsTrue => G!AnswerIsTrue
  BY DEF G!AnswerIsTrue, PP!G!AnswerIsTrue, G!Blind, PP!G!Blind, G!Ended, PP!G!Ended
<1>5. PP!G!Spec => []PP!G!AnswerIsTrue
  BY PP!AnswersTrue
<1>6. /\ focus = "gateway" /\ [Next]_vars => (focus = "gateway")'
      /\ ~(focus = "gateway") /\ [Next]_vars => ~(focus = "gateway")'
  BY FocusStays
<1>7. (focus = "cli" => H!ResultIsTrue) /\ (focus = "gateway" => G!AnswerIsTrue) => ResultIsTrue
  BY DEF ResultIsTrue
<1> QED BY <1>1, <1>2, <1>3, CliStarts, CliSteps, <1>4, <1>5, <1>6, GatewayStarts, GatewaySteps, <1>7,
       PTL DEF Spec, PP!H!Spec, PP!G!Spec

-----------------------------------------------------------------------------
(* Definitions.                                                            *)

\* What the two instances compute of a source is the same.
LEMMA SameSources ==
  /\ J!Nothing = PP!J!Nothing /\ J!NoScan = PP!J!NoScan /\ J!User = PP!J!User /\ J!Part = PP!J!Part
  /\ \A content : J!Present(content) = PP!J!Present(content)
  /\ \A main, side : J!Loaded(main, side) = PP!J!Loaded(main, side)
  /\ J!Defined = PP!J!Defined
  /\ \A d : J!Files(d) = PP!J!Files(d) /\ J!Fallback(d) = PP!J!Fallback(d)
  /\ J!AllFiles = PP!J!AllFiles
  /\ \A next : J!Changed(next) = PP!J!Changed(next)
  /\ \A u, pc : J!At(u, pc) = PP!J!At(u, pc)
  /\ J!Subscribed = PP!J!Subscribed /\ J!Starting = PP!J!Starting
<1>1. /\ J!Nothing = PP!J!Nothing /\ J!NoScan = PP!J!NoScan /\ J!User = PP!J!User /\ J!Part = PP!J!Part
      /\ \A content : J!Present(content) = PP!J!Present(content)
      /\ \A main, side : J!Loaded(main, side) = PP!J!Loaded(main, side)
      /\ \A u, pc : J!At(u, pc) = PP!J!At(u, pc)
  BY DEF J!Nothing, PP!J!Nothing, J!NoScan, PP!J!NoScan, J!User, PP!J!User, J!Part, PP!J!Part,
     J!Present, PP!J!Present, J!Loaded, PP!J!Loaded, J!At, PP!J!At
<1>2. J!Defined = PP!J!Defined
  BY <1>1 DEF J!Defined, PP!J!Defined
<1>3. \A d : J!Files(d) = PP!J!Files(d) /\ J!Fallback(d) = PP!J!Fallback(d)
  BY <1>1 DEF J!Files, PP!J!Files, J!Fallback, PP!J!Fallback
<1>4. J!AllFiles = PP!J!AllFiles
  BY <1>3 DEF J!AllFiles, PP!J!AllFiles
<1>5. \A next : J!Changed(next) = PP!J!Changed(next)
  BY <1>1 DEF J!Changed, PP!J!Changed
<1>6. J!Subscribed = PP!J!Subscribed /\ J!Starting = PP!J!Starting
  BY <1>1 DEF J!Subscribed, PP!J!Subscribed, J!Starting, PP!J!Starting
<1> QED BY <1>1, <1>2, <1>3, <1>4, <1>5, <1>6

\* A change is put in the queue in the same order.
LEMMA SameOrders == \A ds : J!SetToSeq(ds) = PP!J!SetToSeq(ds)
  BY DEF J!SetToSeq, PP!J!SetToSeq, J!IsInjective, PP!J!IsInjective, J!Cardinality, PP!J!Cardinality

\* The same change is reported to whoever subscribed.
LEMMA SameCallbacks == \A ds, clean : J!Emit(ds, clean) => PP!J!Emit(ds, clean)
<1> SUFFICES ASSUME NEW ds, NEW clean, J!Emit(ds, clean) PROVE PP!J!Emit(ds, clean)
  OBVIOUS
<1> DEFINE told == [i \in DOMAIN J!SetToSeq(ds) |->
             [def |-> J!SetToSeq(ds)[i], has |-> J!Present(s5'[J!SetToSeq(ds)[i]]), listed |-> {}, asked |-> FALSE]]
           heard == [i \in DOMAIN PP!J!SetToSeq(ds) |->
             [def |-> PP!J!SetToSeq(ds)[i], has |-> PP!J!Present(s5'[PP!J!SetToSeq(ds)[i]]), listed |-> {},
              asked |-> FALSE]]
<1>1. told = heard
  BY DEF J!SetToSeq, PP!J!SetToSeq, J!IsInjective, PP!J!IsInjective, J!Cardinality, PP!J!Cardinality,
     J!Present, PP!J!Present
<1>2. /\ s10' = IF J!Subscribed THEN s10 \o told ELSE s10
      /\ s11' = [s11 EXCEPT !.clean = clean,
                            !.missed = IF ~J!Subscribed THEN @ \cup ds
                                       ELSE IF s1 = "agent" /\ ds # {} THEN {} ELSE @ \ ds]
  BY DEF J!Emit
<1> HIDE DEF told, heard
<1>3. s10' = IF PP!J!Subscribed THEN s10 \o heard ELSE s10
  BY <1>1, <1>2, SameSources
<1>4. s11' = [s11 EXCEPT !.clean = clean,
                         !.missed = IF ~PP!J!Subscribed THEN @ \cup ds
                                    ELSE IF s1 = "agent" /\ ds # {} THEN {} ELSE @ \ ds]
  BY <1>2, SameSources
<1> QED BY <1>3, <1>4 DEF PP!J!Emit, heard

\* A behaviour of the focus begins as the component does.
LEMMA DefinitionsStart == Init /\ focus = "defs" => PP!J!Init
  BY SameSources DEF Init, J!Init, PP!J!Init

\* Its actions are the component's, one by one.
LEMMA DefinitionsActions ==
  /\ \A d, part, text : J!Edit(d, part, text) => PP!J!Edit(d, part, text)
  /\ J!RefreshFileLoop => PP!J!RefreshFileLoop
  /\ J!ListAgents => PP!J!ListAgents
  /\ J!ReconcileAgentDefinitions => PP!J!ReconcileAgentDefinitions
  /\ \A d, part : J!Deliver(d, part) => PP!J!Deliver(d, part)
  /\ \A l : J!LoadMain(l) => PP!J!LoadMain(l)
  /\ \A l : J!FinishLoad(l) => PP!J!FinishLoad(l)
  /\ \A u : J!BeginScan(u) => PP!J!BeginScan(u)
  /\ \A u, d : J!ScanMain(u, d) => PP!J!ScanMain(u, d)
  /\ \A u : J!ScanSide(u) => PP!J!ScanSide(u)
  /\ \A u : J!EndScan(u) => PP!J!EndScan(u)
  /\ \A u : J!Start(u) => PP!J!Start(u)
  /\ \A u : J!Joined(u) => PP!J!Joined(u)
  /\ J!Ready => PP!J!Ready
  /\ J!ListDefinitions => PP!J!ListDefinitions
  /\ J!Watch => PP!J!Watch
  /\ \A r, d : J!Look(r, d) => PP!J!Look(r, d)
  /\ \A r : J!Stop(r) => PP!J!Stop(r)
<1> USE SameSources DEF J!files, PP!J!files, J!source, PP!J!source, J!consumer, PP!J!consumer
<1>1. /\ \A d, part, text : J!Edit(d, part, text) => PP!J!Edit(d, part, text)
      /\ \A l : J!LoadMain(l) => PP!J!LoadMain(l)
      /\ \A u, d : J!ScanMain(u, d) => PP!J!ScanMain(u, d)
      /\ \A u : J!ScanSide(u) => PP!J!ScanSide(u)
      /\ J!Ready => PP!J!Ready
  <2>1. \A d, part, text : J!Edit(d, part, text) => PP!J!Edit(d, part, text)
    BY DEF J!Edit, PP!J!Edit
  <2>2. /\ \A l : J!LoadMain(l) => PP!J!LoadMain(l)
        /\ \A u, d : J!ScanMain(u, d) => PP!J!ScanMain(u, d)
    BY DEF J!LoadMain, PP!J!LoadMain, J!ScanMain, PP!J!ScanMain
  <2>3. \A u : J!ScanSide(u) => PP!J!ScanSide(u)
    BY DEF J!ScanSide, PP!J!ScanSide, J!Loaded, PP!J!Loaded, J!Nothing, PP!J!Nothing
  <2>4. J!Ready => PP!J!Ready
    BY DEF J!Ready, PP!J!Ready, J!At, PP!J!At, J!User, PP!J!User
  <2> QED BY <2>1, <2>2, <2>3, <2>4
<1>2. /\ J!RefreshFileLoop => PP!J!RefreshFileLoop
      /\ J!ListAgents => PP!J!ListAgents
      /\ J!ReconcileAgentDefinitions => PP!J!ReconcileAgentDefinitions
      /\ J!Watch => PP!J!Watch
  BY DEF J!RefreshFileLoop, PP!J!RefreshFileLoop, J!Next1, PP!J!Next1, J!ListAgents, PP!J!ListAgents,
     J!ReconcileAgentDefinitions, PP!J!ReconcileAgentDefinitions, J!Goto, PP!J!Goto, J!Watch, PP!J!Watch
<1>3. /\ \A u : J!BeginScan(u) => PP!J!BeginScan(u)
      /\ \A u : J!Start(u) => PP!J!Start(u)
      /\ \A u : J!Joined(u) => PP!J!Joined(u)
      /\ \A r, d : J!Look(r, d) => PP!J!Look(r, d)
      /\ \A r : J!Stop(r) => PP!J!Stop(r)
  BY DEF J!BeginScan, PP!J!BeginScan, J!CanScan, PP!J!CanScan, J!Start, PP!J!Start, J!Open, PP!J!Open,
     J!Goto, PP!J!Goto, J!Joined, PP!J!Joined, J!Begun, PP!J!Begun, J!Look, PP!J!Look, J!Stop, PP!J!Stop
<1>4. \A d, part : J!Deliver(d, part) => PP!J!Deliver(d, part)
  BY SameCallbacks DEF J!Deliver, PP!J!Deliver
<1>5. \A l : J!FinishLoad(l) => PP!J!FinishLoad(l)
  BY SameCallbacks DEF J!FinishLoad, PP!J!FinishLoad
<1>6. \A u : J!EndScan(u) => PP!J!EndScan(u)
  BY SameCallbacks DEF J!EndScan, PP!J!EndScan, J!Begun, PP!J!Begun, J!Goto, PP!J!Goto
<1>7. J!ListDefinitions => PP!J!ListDefinitions
  BY DEF J!ListDefinitions, PP!J!ListDefinitions, J!Goto, PP!J!Goto, J!SetToSeq, PP!J!SetToSeq,
     J!IsInjective, PP!J!IsInjective, J!Cardinality, PP!J!Cardinality, J!Defined, PP!J!Defined,
     J!Present, PP!J!Present, J!At, PP!J!At
<1> QED BY <1>1, <1>2, <1>3, <1>4, <1>5, <1>6, <1>7

\* Its steps are the component's.
LEMMA DefinitionsSteps == focus = "defs" /\ [Next]_vars => [PP!J!Next]_(PP!J!vars)
<1> SUFFICES ASSUME focus = "defs", [Next]_vars PROVE [PP!J!Next]_(PP!J!vars)
  OBVIOUS
<1>1. CASE UNCHANGED vars
  BY <1>1 DEF vars, PP!J!vars, PP!J!files, PP!J!source, PP!J!consumer
<1>2. CASE DefinitionsNext
  <2>1. J!User = {a1, c1, c2} /\ PP!J!User = {a1, c1, c2} /\ J!Part = PP!J!Part /\ PP!J!Part = {"main", "side"}
    BY DEF J!User, PP!J!User, J!Part, PP!J!Part
  <2> QED BY <1>2, <2>1, DefinitionsActions DEF DefinitionsNext, PP!J!Next
<1> QED BY <1>1, <1>2, FocusNext

\* The worker runs the definitions that its files hold, however their loads, scans and changes
\* overlap with the requests of the API (Definitions).
THEOREM DefinitionsHold == Spec => []DefinitionsKnown
<1>1. PP!J!DefinitionsKnown => J!DefinitionsKnown
  BY SameSources DEF J!DefinitionsKnown, PP!J!DefinitionsKnown
<1>2. PP!J!Spec => []PP!J!DefinitionsKnown
  <2>1. PP!Sources
    BY WorkerIsApart, PP!FS_Singleton DEF PP!Sources
  <2> QED BY <2>1, PP!DefinitionsLearned
<1>3. /\ focus = "defs" /\ [Next]_vars => (focus = "defs")'
      /\ ~(focus = "defs") /\ [Next]_vars => ~(focus = "defs")'
  BY FocusStays
<1>4. (focus = "defs" => J!DefinitionsKnown) => DefinitionsKnown
  BY DEF DefinitionsKnown
<1> QED BY <1>1, <1>2, <1>3, <1>4, DefinitionsStart, DefinitionsSteps, PTL DEF Spec, PP!J!Spec
=============================================================================
