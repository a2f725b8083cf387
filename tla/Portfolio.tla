------------------------------ MODULE Portfolio ------------------------------
(***************************************************************************)
(* CompanyCommandService: every strategic mutation of a company.  A command*)
(* first reads what allows it (Check...), then changes the database in one *)
(* transaction (the action of its type), whatever happened in between.  The*)
(* audit event and the wakeup it leaves are keyed by the command; only the *)
(* wakeups of the CEO are kept here.                                       *)
(***************************************************************************)
EXTENDS Integers, FiniteSets

CONSTANTS
  Agent, Ceo, Founder, Nobody,
  Goal, Project, Milestone,
  ProjectOf,     \* [Milestone -> Project]
  Portfolios,    \* what the CEO may propose: sets of [project, goal, manager]
  MaxProjects,   \* policy.maxProjects
  Share,         \* allocations an assignment may ask for
  Run,           \* idempotency keys of process runs
  Caller         \* commands in progress

VARIABLES
  company,     \* lifecycleStatus of the profile
  objective,   \* status of a goal
  measured,    \* goals with a measurement
  portfolio,   \* the latest portfolio proposal
  project,     \* [status, manager, health, goal] of a row of projects
  link,        \* rows of project_objectives: project, goal -> "none", "linked", "primary"
  managerRow,  \* the manager's assignment of a project: [agent, active]
  share,       \* allocation of the other active assignments: project, agent -> percent
  milestone,   \* status of a milestone
  verified,    \* what a passed verification backs: milestones, projects and goals
  binding,     \* the owner of the active process binding of a project
  run,         \* process runs that have unfinished work: project -> keys
  wake,        \* what the CEO was woken for
  caller       \* the command a caller has checked

portfolioState == <<company, portfolio, wake>>
projectState == <<project, link, managerRow, share>>
workState == <<milestone, verified, binding, run>>
goalState == <<objective, measured>>
vars == <<portfolioState, projectState, workState, goalState, caller>>

Lifecycle == {"none", "draft", "validated", "discovery", "review", "active", "paused"}
ProjectStatus == {"none", "proposed", "approved", "staffed", "active", "completed", "blocked"}
GoalStatus == {"none", "planned", "active", "completed"}
MilestoneStatus == {"none", "proposed", "accepted", "blocked", "failed"}
Actor == Agent \union {Founder}
NoProject == [status |-> "none", manager |-> Nobody, health |-> "unknown", goal |-> Nobody]
AtRest == [type |-> "idle"]

TypeOK ==
  /\ company \in Lifecycle
  /\ objective \in [Goal -> GoalStatus] /\ measured \subseteq Goal
  /\ project \in [Project -> [status : ProjectStatus, manager : Agent \union {Nobody},
                              health : {"unknown", "healthy", "at_risk"},
                              goal : Goal \union {Nobody}]]
  /\ link \in [Project \X Goal -> {"none", "linked", "primary"}]
  /\ managerRow \in [Project -> [agent : Agent \union {Nobody}, active : BOOLEAN]]
  /\ share \in [Project \X Agent -> Share \union {0}]
  /\ milestone \in [Milestone -> MilestoneStatus]
  /\ verified \subseteq Milestone \union Project \union Goal
  /\ binding \in [Project -> Agent \union {Nobody}]
  /\ run \in [Project -> SUBSET Run]
  /\ wake \subseteq {"discovery", "staffing"}

Init ==
  /\ company = "none" /\ portfolio = {} /\ wake = {}
  /\ objective = [g \in Goal |-> "none"] /\ measured = {}
  /\ project = [p \in Project |-> NoProject]
  /\ link = [x \in Project \X Goal |-> "none"]
  /\ managerRow = [p \in Project |-> [agent |-> Nobody, active |-> FALSE]]
  /\ share = [x \in Project \X Agent |-> 0]
  /\ milestone = [m \in Milestone |-> "none"] /\ verified = {}
  /\ binding = [p \in Project |-> Nobody] /\ run = [p \in Project |-> {}]
  /\ caller = [c \in Caller |-> AtRest]

-----------------------------------------------------------------------------
(* What a command requires when it reads.                                  *)

Exists(p) == project[p].status # "none"
CeoActor(a) == a = Founder \/ a = Ceo
ManagerOf(p, a) == managerRow[p] = [agent |-> a, active |-> TRUE]
ProjectActor(p, a) == CeoActor(a) \/ ManagerOf(p, a)
Backed(x) == x \in verified
Open(p) == project[p].status \notin {"none", "completed"}
HasRoom == Cardinality({p \in Project : Open(p)}) < MaxProjects

\* What an agent is allocated elsewhere, the assignment at hand not counted.
Allocated(p, a) ==
  LET others == {q \in Project \ {p} : share[<<q, a>>] > 0}
      managed == {q \in Project : ManagerOf(q, a)}
  IN 100 * Cardinality(managed)
     + (IF others = {} THEN 0 ELSE share[<<CHOOSE q \in others : TRUE, a>>] * Cardinality(others))

Assigned(p, a) == ManagerOf(p, a) \/ share[<<p, a>>] > 0

\* An agent without a team of its own to give steps to cannot bind a process.
Team(p) == {a \in Agent : Assigned(p, a)} \ {managerRow[p].agent}

Accepted(p) ==
  LET all == {m \in Milestone : ProjectOf[m] = p /\ milestone[m] # "none"} IN
  all # {} /\ (\A m \in all : milestone[m] = "accepted") /\ run[p] = {}

Achieved(g) ==
  LET linked == {p \in Project : link[<<p, g>>] # "none"} IN
  linked # {} /\ g \in measured /\ \A p \in linked : project[p].status = "completed"

-----------------------------------------------------------------------------
(* Reading: a command that may proceed, with what it remembers of it.      *)

Checked(c, command) ==
  /\ caller[c] = AtRest
  /\ caller' = [caller EXCEPT ![c] = command]
  /\ UNCHANGED <<portfolioState, projectState, workState, goalState>>

CheckSetup(c) == company \in {"none", "draft"} /\ Checked(c, [type |-> "setup"])
CheckValidate(c) ==
  /\ company # "none" /\ \E g \in Goal : objective[g] # "none"
  /\ Checked(c, [type |-> "validate"])
CheckDiscovery(c) == company = "validated" /\ Checked(c, [type |-> "discovery"])
CheckProposal(c, a, projects) ==
  /\ company = "discovery" /\ CeoActor(a)
  /\ \A x \in projects : objective[x.goal] # "none"
  /\ Checked(c, [type |-> "proposal", projects |-> projects])
\* A person activates what is under review.
CheckActivate(c) ==
  /\ company = "review" /\ Cardinality(portfolio) <= MaxProjects
  /\ Checked(c, [type |-> "activate", projects |-> portfolio])
CheckObjective(c, g) == Checked(c, [type |-> "objective", goal |-> g])
CheckProject(c, a, p, g, m) ==
  /\ CeoActor(a) /\ company = "active" /\ objective[g] # "none" /\ HasRoom
  /\ Checked(c, [type |-> "project", project |-> p, goal |-> g, manager |-> m])
CheckLink(c, a, p, g, primary) ==
  /\ ProjectActor(p, a) /\ Exists(p) /\ objective[g] # "none"
  /\ Checked(c, [type |-> "link", project |-> p, goal |-> g, primary |-> primary])
CheckAppoint(c, a, p, m) ==
  /\ CeoActor(a) /\ Exists(p)
  /\ Checked(c, [type |-> "appoint", project |-> p, manager |-> m])
CheckAssign(c, a, p, m, percent) ==
  /\ ProjectActor(p, a) /\ Exists(p) /\ Allocated(p, m) + percent <= 100
  /\ Checked(c, [type |-> "assign", project |-> p, agent |-> m, percent |-> percent])
CheckMilestone(c, a, m) ==
  /\ ProjectActor(ProjectOf[m], a) /\ Exists(ProjectOf[m])
  /\ Checked(c, [type |-> "milestone", milestone |-> m])
CheckBind(c, a, p, owner) ==
  /\ ProjectActor(p, a) /\ Exists(p) /\ ManagerOf(p, owner) /\ Team(p) # {}
  /\ Checked(c, [type |-> "bind", project |-> p, owner |-> owner])
\* One process at a time in a project; its own run may be started again.
CheckRun(c, a, p, r) ==
  /\ ProjectActor(p, a) /\ binding[p] # Nobody /\ run[p] \subseteq {r}
  /\ project[p].status \notin {"none", "completed"} /\ Team(p) # {}
  /\ Checked(c, [type |-> "run", project |-> p, run |-> r])
CheckMeasure(c, g) ==
  /\ objective[g] # "none" /\ Checked(c, [type |-> "measure", goal |-> g])
CheckJudge(c, a, m, verdict) ==
  /\ ProjectActor(ProjectOf[m], a) /\ milestone[m] # "none"
  /\ verdict = "accepted" => Backed(m)
  /\ Checked(c, [type |-> "judge", milestone |-> m, verdict |-> verdict])
CheckEvaluateProject(c, a, p) ==
  /\ ProjectActor(p, a) /\ Exists(p) /\ Backed(p)
  /\ Checked(c, [type |-> "evaluateProject", project |-> p, complete |-> Accepted(p),
                 status |-> project[p].status])
CheckEvaluateObjective(c, a, g) ==
  /\ CeoActor(a) /\ objective[g] # "none" /\ Backed(g)
  /\ Checked(c, [type |-> "evaluateObjective", goal |-> g, complete |-> Achieved(g)])

-----------------------------------------------------------------------------
(* Writing: one transaction per command.                                   *)

Doing(c, type) == caller[c].type = type /\ caller' = [caller EXCEPT ![c] = AtRest]
Cmd(c) == caller[c]

\* An existing profile keeps its status; a goal that is there keeps its own.
Setup(c, goals) ==
  /\ Doing(c, "setup")
  /\ company' = IF company = "none" THEN "draft" ELSE company
  /\ objective' = [g \in Goal |-> IF g \in goals /\ objective[g] = "none" THEN "planned"
                                  ELSE objective[g]]
  /\ UNCHANGED <<portfolio, wake, measured, projectState, workState>>

\* From any status.
Validate(c) ==
  /\ Doing(c, "validate") /\ company' = "validated"
  /\ UNCHANGED <<portfolio, wake, goalState, projectState, workState>>

StartDiscovery(c) ==
  /\ Doing(c, "discovery") /\ company' = "discovery" /\ wake' = wake \union {"discovery"}
  /\ UNCHANGED <<portfolio, goalState, projectState, workState>>

SubmitPortfolioProposal(c) ==
  /\ Doing(c, "proposal") /\ company' = "review" /\ portfolio' = Cmd(c).projects
  /\ UNCHANGED <<wake, goalState, projectState, workState>>

\* insertManager: the row of the project's manager is overwritten.
WithManager(rows, p, m) ==
  IF m = Nobody THEN rows ELSE [rows EXCEPT ![p] = [agent |-> m, active |-> TRUE]]

\* A new project, its primary link and its manager; rows that are there stay, and a
\* second primary link is dropped by the unique index.
Added(projects, x, status) ==
  IF projects[x.project].status # "none" THEN projects
  ELSE [projects EXCEPT ![x.project] = [status |-> status, manager |-> x.manager,
                                        health |-> "unknown", goal |-> x.goal]]
HasPrimary(p) == \E g \in Goal : link[<<p, g>>] = "primary"
Linked(x) ==
  link' = [link EXCEPT ![<<x.project, x.goal>>] =
             IF @ = "none" /\ ~HasPrimary(x.project) THEN "primary" ELSE @]

ActivateCompany(c) ==
  /\ Doing(c, "activate") /\ company' = "active"
  /\ LET proposed == Cmd(c).projects
         For(p) == CHOOSE x \in proposed : x.project = p
         named == {x.project : x \in proposed}
     IN /\ project' = [p \in Project |-> IF p \notin named THEN project[p]
            ELSE Added(project, For(p),
                       IF For(p).manager = Nobody THEN "approved" ELSE "staffed")[p]]
        /\ link' = [x \in Project \X Goal |->
             IF x[1] \in named /\ For(x[1]).goal = x[2] /\ link[x] = "none" /\ ~HasPrimary(x[1])
             THEN "primary" ELSE link[x]]
        /\ managerRow' = [p \in Project |-> IF p \notin named THEN managerRow[p]
                                            ELSE WithManager(managerRow, p, For(p).manager)[p]]
        /\ wake' = IF \E x \in proposed : x.manager = Nobody THEN wake \union {"staffing"} ELSE wake
  /\ UNCHANGED <<portfolio, goalState, share, workState>>

CreateObjective(c) ==
  /\ Doing(c, "objective")
  /\ objective' = [objective EXCEPT ![Cmd(c).goal] = IF @ = "none" THEN "planned" ELSE @]
  /\ UNCHANGED <<portfolioState, measured, projectState, workState>>

CreateProject(c) ==
  /\ Doing(c, "project")
  /\ project' = Added(project, Cmd(c), "proposed")
  /\ Linked(Cmd(c))
  /\ managerRow' = WithManager(managerRow, Cmd(c).project, Cmd(c).manager)
  /\ UNCHANGED <<portfolioState, goalState, share, workState>>

\* A new primary objective takes the place of the old one.
LinkProjectObjectiveMutant(c) ==
  /\ Doing(c, "link")
  /\ link' = [link EXCEPT ![<<Cmd(c).project, Cmd(c).goal>>] =
                IF Cmd(c).primary THEN "primary" ELSE "linked"]
  /\ UNCHANGED <<portfolioState, goalState, project, managerRow, share, workState>>
LinkProjectObjective(c) ==
  /\ Doing(c, "link")
  /\ link' = [x \in Project \X Goal |->
       IF x = <<Cmd(c).project, Cmd(c).goal>> THEN IF Cmd(c).primary THEN "primary" ELSE "linked"
       ELSE IF x[1] = Cmd(c).project /\ Cmd(c).primary /\ link[x] = "primary" THEN "linked"
       ELSE link[x]]
  /\ UNCHANGED <<portfolioState, goalState, project, managerRow, share, workState>>

AppointManager(c) ==
  /\ Doing(c, "appoint")
  /\ managerRow' = WithManager(managerRow, Cmd(c).project, Cmd(c).manager)
  /\ project' = [project EXCEPT ![Cmd(c).project].manager = Cmd(c).manager,
                                ![Cmd(c).project].status = "staffed"]
  /\ UNCHANGED <<portfolioState, goalState, link, share, workState>>

AssignAgent(c) ==
  /\ Doing(c, "assign")
  /\ share' = [share EXCEPT ![<<Cmd(c).project, Cmd(c).agent>>] = Cmd(c).percent]
  /\ UNCHANGED <<portfolioState, goalState, project, link, managerRow, workState>>

CreateMilestone(c) ==
  /\ Doing(c, "milestone")
  /\ milestone' = [milestone EXCEPT ![Cmd(c).milestone] = IF @ = "none" THEN "proposed" ELSE @]
  /\ UNCHANGED <<portfolioState, goalState, projectState, verified, binding, run>>

BindProcess(c) ==
  /\ Doing(c, "bind")
  /\ binding' = [binding EXCEPT ![Cmd(c).project] = Cmd(c).owner]
  /\ UNCHANGED <<portfolioState, goalState, projectState, milestone, verified, run>>

\* The work of the run is made, then the project is active and healthy.
StartProcessRun(c) ==
  /\ Doing(c, "run")
  /\ run' = [run EXCEPT ![Cmd(c).project] = @ \union {Cmd(c).run}]
  /\ project' = [project EXCEPT ![Cmd(c).project].status = "active",
                                ![Cmd(c).project].health = "healthy"]
  /\ UNCHANGED <<portfolioState, goalState, link, managerRow, share, milestone, verified,
                 binding>>

RecordMeasurement(c) ==
  /\ Doing(c, "measure") /\ measured' = measured \union {Cmd(c).goal}
  /\ UNCHANGED <<portfolioState, objective, projectState, workState>>

RecordMilestoneEvaluation(c) ==
  /\ Doing(c, "judge")
  /\ milestone' = [milestone EXCEPT ![Cmd(c).milestone] = Cmd(c).verdict]
  /\ project' = IF Cmd(c).verdict = "accepted" THEN project
                ELSE [project EXCEPT ![ProjectOf[Cmd(c).milestone]].health = "at_risk"]
  /\ UNCHANGED <<portfolioState, goalState, link, managerRow, share, verified, binding, run>>

\* The status read before is written back when the project is not complete.
EvaluateProject(c) ==
  /\ Doing(c, "evaluateProject")
  /\ project' = [project EXCEPT
       ![Cmd(c).project].status = IF Cmd(c).complete THEN "completed" ELSE Cmd(c).status,
       ![Cmd(c).project].health = IF Cmd(c).complete THEN "healthy" ELSE "at_risk"]
  /\ UNCHANGED <<portfolioState, goalState, link, managerRow, share, workState>>

EvaluateObjective(c) ==
  /\ Doing(c, "evaluateObjective")
  /\ objective' = [objective EXCEPT ![Cmd(c).goal] = IF Cmd(c).complete THEN "completed"
                                                     ELSE "active"]
  /\ UNCHANGED <<portfolioState, measured, projectState, workState>>

\* pause_scope and resume_scope read nothing: any status, any actor.
TransitionCompany(status) ==
  /\ company # "none" /\ status \in {"paused", "active"} /\ company' = status
  /\ UNCHANGED <<portfolio, wake, goalState, projectState, workState, caller>>

\* A project is paused by the status "blocked".
TransitionProject(p, status) ==
  /\ Exists(p) /\ status \in {"blocked", "active"}
  /\ project' = [project EXCEPT ![p].status = status]
  /\ UNCHANGED <<portfolioState, goalState, link, managerRow, share, workState, caller>>

\* The process of a command dies after its reads.
Abandon(c) ==
  /\ caller[c] # AtRest
  /\ caller' = [caller EXCEPT ![c] = AtRest]
  /\ UNCHANGED <<portfolioState, projectState, workState, goalState>>

-----------------------------------------------------------------------------
(* The rest of the system: verifications pass, the work of a run ends.     *)

Verify(x) ==
  /\ x \in Milestone => milestone[x] # "none"
  /\ x \in Project => Exists(x)
  /\ verified' = verified \union {x}
  /\ UNCHANGED <<portfolioState, goalState, projectState, milestone, binding, run, caller>>

FinishRun(p, r) ==
  /\ r \in run[p]
  /\ run' = [run EXCEPT ![p] = @ \ {r}]
  /\ UNCHANGED <<portfolioState, goalState, projectState, milestone, verified, binding, caller>>

-----------------------------------------------------------------------------
Read(c) ==
  \/ CheckSetup(c) \/ CheckValidate(c) \/ CheckDiscovery(c) \/ CheckActivate(c)
  \/ \E a \in Actor, projects \in Portfolios : CheckProposal(c, a, projects)
  \/ \E g \in Goal : CheckObjective(c, g) \/ CheckMeasure(c, g)
  \/ \E a \in Actor, p \in Project, g \in Goal, m \in Agent \union {Nobody} :
       CheckProject(c, a, p, g, m)
  \/ \E a \in Actor, p \in Project, g \in Goal :
       \/ \E primary \in BOOLEAN : CheckLink(c, a, p, g, primary)
       \/ CheckEvaluateObjective(c, a, g)
  \/ \E a \in Actor, p \in Project, m \in Agent :
       \/ CheckAppoint(c, a, p, m) \/ CheckBind(c, a, p, m)
       \/ \E percent \in Share : CheckAssign(c, a, p, m, percent)
  \/ \E a \in Actor, p \in Project :
       CheckEvaluateProject(c, a, p) \/ \E r \in Run : CheckRun(c, a, p, r)
  \/ \E a \in Actor, m \in Milestone :
       \/ CheckMilestone(c, a, m)
       \/ \E verdict \in {"accepted", "blocked", "failed"} : CheckJudge(c, a, m, verdict)

Commit(c) ==
  \/ \E goals \in SUBSET Goal : Setup(c, goals)
  \/ Validate(c) \/ StartDiscovery(c) \/ SubmitPortfolioProposal(c) \/ ActivateCompany(c)
  \/ CreateObjective(c) \/ CreateProject(c) \/ LinkProjectObjective(c) \/ AppointManager(c)
  \/ AssignAgent(c) \/ CreateMilestone(c) \/ BindProcess(c) \/ StartProcessRun(c)
  \/ RecordMeasurement(c) \/ RecordMilestoneEvaluation(c) \/ EvaluateProject(c)
  \/ EvaluateObjective(c)

Transition == (\E status \in {"paused", "active"} : TransitionCompany(status))
              \/ \E p \in Project, status \in {"blocked", "active"} : TransitionProject(p, status)
World == (\E x \in Milestone \union Project \union Goal : Verify(x))
         \/ \E p \in Project, r \in Run : FinishRun(p, r)

Next == (\E c \in Caller : Read(c) \/ Commit(c) \/ Abandon(c)) \/ Transition \/ World
Spec == Init /\ [][Next]_vars

-----------------------------------------------------------------------------
(* Properties                                                              *)

\* However activations, creations and links interleave and repeat, a project has at
\* most one primary objective: no link is left for the unique index to refuse.
OnePrimary ==
  \A p \in Project : \A g, h \in Goal :
    link[<<p, g>>] = "primary" /\ link[<<p, h>>] = "primary" => g = h
=============================================================================
