------------------------------ MODULE Directory ------------------------------
(***************************************************************************)
(* The company's directory (CompanyOperationsService): departments and     *)
(* their members, proposals to move the autonomy level of an agent or a    *)
(* loop, and the pull request that carries an approved proposal into the   *)
(* definition repository.  A statement of the database is a step.          *)
(***************************************************************************)
EXTENDS Integers, FiniteSets

CONSTANTS
  Person, NoPerson, Department,
  Proposal,    \* autonomy proposals, all about one definition file
  From, To,    \* [Proposal -> level]: the move a proposal asks for
  Caller,      \* calls in progress
  Bundle       \* what companies import: a set of [Proposal -> status or "none"]

VARIABLES
  manager,   \* departments.managerAgentId, or "none" for no department
  member,    \* [Department -> [Person -> role]]
  proposal,  \* autonomy_proposals.status
  request,   \* autonomy_change_requests.status, one row per proposal
  pulls,     \* pull requests opened at the Git host for a proposal
  level,     \* the level in the definition file of the default branch
  caller     \* where a call stands

vars == <<manager, member, proposal, request, pulls, level, caller>>

Role == {"none", "member", "manager"}
Level == 0 .. 3
ProposalStatus == {"none", "proposed", "approved", "rejected"}
RequestStatus == {"none", "preparing", "published", "failed"}
AtRest == [op |-> "idle"]

TypeOK ==
  /\ manager \in [Department -> Person \union {NoPerson, "none"}]
  /\ member \in [Department -> [Person -> Role]]
  /\ proposal \in [Proposal -> ProposalStatus]
  /\ request \in [Proposal -> RequestStatus]
  /\ pulls \in [Proposal -> Nat]
  /\ level \in Level
  /\ \A c \in Caller : caller[c].op \in {"idle", "manager", "decide", "find", "review",
                                         "insert", "commit", "open", "record"}

Init ==
  /\ manager = [d \in Department |-> "none"]
  /\ member = [d \in Department |-> [p \in Person |-> "none"]]
  /\ proposal = [p \in Proposal |-> "none"]
  /\ request = [p \in Proposal |-> "none"]
  /\ pulls = [p \in Proposal |-> 0]
  /\ level = 0
  /\ caller = [c \in Caller |-> AtRest]

Idle(c) == caller[c] = AtRest
Rest(c) == caller' = [caller EXCEPT ![c] = AtRest]
Goto(c, op) == caller' = [caller EXCEPT ![c].op = op]

-----------------------------------------------------------------------------
(* Departments.                                                            *)

\* The row names the manager before the manager is a member.
CreateDepartment(c, d, p) ==
  /\ Idle(c) /\ manager[d] = "none"
  /\ manager' = [manager EXCEPT ![d] = p]
  /\ caller' = [caller EXCEPT ![c] =
       IF p = NoPerson THEN AtRest
       ELSE [op |-> "manager", department |-> d, person |-> p, joined |-> FALSE]]
  /\ UNCHANGED <<member, proposal, request, pulls, level>>

SetDepartmentMember(c, d, p, role) ==
  /\ Idle(c) /\ manager[d] # "none"
  /\ member' = [member EXCEPT ![d][p] = role]
  /\ caller' = [caller EXCEPT ![c] =
       IF role = "member" THEN AtRest
       ELSE [op |-> "manager", department |-> d, person |-> p, joined |-> TRUE]]
  /\ UNCHANGED <<manager, proposal, request, pulls, level>>

\* The second statement of a manager: the membership of a new department, then the
\* department's own column.
PutManager(c) ==
  /\ caller[c].op = "manager"
  /\ IF caller[c].joined
     THEN /\ manager' = [manager EXCEPT ![caller[c].department] = caller[c].person]
          /\ Rest(c) /\ UNCHANGED member
     ELSE /\ member' = [member EXCEPT ![caller[c].department][caller[c].person] = "manager"]
          /\ caller' = [caller EXCEPT ![c].joined = TRUE] /\ UNCHANGED manager
  /\ UNCHANGED <<proposal, request, pulls, level>>

-----------------------------------------------------------------------------
(* Autonomy proposals.                                                     *)

\* One level at a time.
CreateAutonomyProposal(p) ==
  /\ proposal[p] = "none" /\ From[p] - To[p] \in {-1, 1}
  /\ proposal' = [proposal EXCEPT ![p] = "proposed"]
  /\ UNCHANGED <<manager, member, request, pulls, level, caller>>

\* A decision reads the status, and writes whatever the status is by then.
DecideAutonomyProposal(c, p, decision) ==
  /\ Idle(c) /\ proposal[p] = "proposed"
  /\ caller' = [caller EXCEPT ![c] = [op |-> "decide", proposal |-> p, decision |-> decision]]
  /\ UNCHANGED <<manager, member, proposal, request, pulls, level>>

WriteDecision(c) ==
  /\ caller[c].op = "decide"
  /\ proposal' = [proposal EXCEPT ![caller[c].proposal] = caller[c].decision]
  /\ Rest(c)
  /\ UNCHANGED <<manager, member, request, pulls, level>>

\* importCompany: the rows of the bundle replace the rows of the same id.
ImportCompany(bundle) ==
  /\ proposal' = [p \in Proposal |-> IF bundle[p] = "none" THEN proposal[p] ELSE bundle[p]]
  /\ UNCHANGED <<manager, member, request, pulls, level, caller>>

-----------------------------------------------------------------------------
(* createAutonomyChangeRequest.                                            *)

Asked(c) == caller[c].proposal

BeginChange(c, p) ==
  /\ Idle(c)
  /\ caller' = [caller EXCEPT ![c] = [op |-> "find", proposal |-> p]]
  /\ UNCHANGED <<manager, member, proposal, request, pulls, level>>

\* A published request is returned; any other one is an error.
FindChange(c) ==
  /\ caller[c].op = "find"
  /\ IF request[Asked(c)] # "none" THEN Rest(c) ELSE Goto(c, "review")
  /\ UNCHANGED <<manager, member, proposal, request, pulls, level>>

\* Approved, and the definition repository is clean.
ReviewChange(c) ==
  /\ caller[c].op = "review"
  /\ \/ proposal[Asked(c)] = "approved" /\ Goto(c, "insert")
     \/ Rest(c)
  /\ UNCHANGED <<manager, member, proposal, request, pulls, level>>

\* The row is unique for a proposal: the second call fails here.
InsertChangeMutant(c) ==
  /\ caller[c].op = "insert"
  /\ request' = [request EXCEPT ![Asked(c)] = "preparing"] /\ Goto(c, "commit")
  /\ UNCHANGED <<manager, member, proposal, pulls, level>>
InsertChange(c) ==
  /\ caller[c].op = "insert"
  /\ IF request[Asked(c)] = "none"
     THEN request' = [request EXCEPT ![Asked(c)] = "preparing"] /\ Goto(c, "commit")
     ELSE Rest(c) /\ UNCHANGED request
  /\ UNCHANGED <<manager, member, proposal, pulls, level>>

\* Any step of the publication may fail; the row is then failed for good.
FailChange(c) ==
  /\ caller[c].op \in {"commit", "open", "record"}
  /\ request' = [request EXCEPT ![Asked(c)] = "failed"]
  /\ Rest(c)
  /\ UNCHANGED <<manager, member, proposal, pulls, level>>

\* The file must still say the level the proposal starts from.
CommitAndPush(c) ==
  /\ caller[c].op = "commit" /\ level = From[Asked(c)]
  /\ Goto(c, "open")
  /\ UNCHANGED <<manager, member, proposal, request, pulls, level>>

OpenPullRequest(c) ==
  /\ caller[c].op = "open"
  /\ pulls' = [pulls EXCEPT ![Asked(c)] = @ + 1]
  /\ Goto(c, "record")
  /\ UNCHANGED <<manager, member, proposal, request, level>>

RecordChange(c) ==
  /\ caller[c].op = "record"
  /\ request' = [request EXCEPT ![Asked(c)] = "published"]
  /\ Rest(c)
  /\ UNCHANGED <<manager, member, proposal, pulls, level>>

\* The process dies: the row stays as it is.
Crash(c) ==
  /\ ~Idle(c)
  /\ Rest(c)
  /\ UNCHANGED <<manager, member, proposal, request, pulls, level>>

\* A person merges a pull request at the Git host; it applies to the line it was
\* made from.
Merge(p) ==
  /\ pulls[p] > 0 /\ level = From[p]
  /\ level' = To[p]
  /\ UNCHANGED <<manager, member, proposal, request, pulls, caller>>

-----------------------------------------------------------------------------
Change(c) == \/ \E p \in Proposal : BeginChange(c, p)
             \/ FindChange(c) \/ ReviewChange(c) \/ InsertChange(c) \/ FailChange(c)
             \/ CommitAndPush(c) \/ OpenPullRequest(c) \/ RecordChange(c)
Organise(c) == \/ \E d \in Department, p \in Person \union {NoPerson} : CreateDepartment(c, d, p)
               \/ \E d \in Department, p \in Person, role \in {"member", "manager"} :
                    SetDepartmentMember(c, d, p, role)
               \/ PutManager(c)
Decide(c) == \/ \E p \in Proposal, decision \in {"approved", "rejected"} :
                  DecideAutonomyProposal(c, p, decision)
             \/ WriteDecision(c)
Others == (\E p \in Proposal : CreateAutonomyProposal(p) \/ Merge(p))
          \/ \E bundle \in Bundle : ImportCompany(bundle)
Next == (\E c \in Caller : Change(c) \/ Organise(c) \/ Decide(c) \/ Crash(c)) \/ Others

Spec == Init /\ [][Next]_vars

-----------------------------------------------------------------------------
(* Properties                                                              *)

\* However often a change is asked for, by whom, and whatever fails or dies on the
\* way, a proposal is carried by one pull request, and one that is recorded as
\* published has it.
OnePullRequest ==
  \A p \in Proposal : /\ pulls[p] <= 1
                      /\ request[p] = "published" => pulls[p] = 1
=============================================================================
