------------------------------ MODULE Governance ------------------------------
(***************************************************************************)
(* What stands between a maker's success and a completed work item: the    *)
(* verification row, the independent checker attempt, the submission of    *)
(* its verdict, the approval request and its decision.  One item, any      *)
(* number of workers and of API requests.                                  *)
(*                                                                         *)
(* A worker passes here with its own wakeup (it ran the maker) or with     *)
(* that of another item of the workflow, since verifyPendingWorkItems      *)
(* serves every item of a workflow run.  As in WorkExecution a database    *)
(* statement is a step, and what a process has read it keeps in its own    *)
(* record until it uses it.  The run of the maker itself, with slots,      *)
(* retries and cancellation, is WorkExecution; here it succeeds, fails or  *)
(* is lost in one step.                                                    *)
(***************************************************************************)
EXTENDS Naturals

CONSTANTS
  Worker,            \* worker processes
  Request,           \* concurrent API requests about the verification
  Plan,              \* governance plans an item may have
  MaxRounds,         \* bound: maker attempts of the item
  MaxApprovals,      \* bound: approval rows of the item
  MaxPasses,         \* bound: passes and requests of one process
  NoOne              \* a checker attempt without a harness session

ASSUME BoundsAssumption == /\ MaxRounds \in Nat \ {0}
                           /\ MaxApprovals \in Nat \ {0}
                           /\ MaxPasses \in Nat
ASSUME PlanAssumption ==
  Plan \subseteq [check : BOOLEAN, approval : BOOLEAN, expires : BOOLEAN]
ASSUME NamesAssumption == /\ NoOne \notin Worker
                          /\ Worker \cap Request = {}

VARIABLES
  plan,          \* its governance: a check required, an approval, one that expires
  item,          \* status of the work item
  maker,         \* maker[n]: status of the item's n-th maker attempt
  verification,  \* verification[v]: status and maker attempt of the v-th row
  checker,       \* checker[v]: status and session of v's checker attempt
  approval,      \* approval[a]: status of the a-th row; due once its time is over
  proc,          \* proc[p]: where p stands and what it remembers
  orphaned       \* maker attempts whose wakeup a dead worker left claimed

vars == <<plan, item, maker, verification, checker, approval, proc, orphaned>>

-----------------------------------------------------------------------------
Round == 1 .. MaxRounds
Verification == 1 .. MaxRounds
Approval == 1 .. MaxApprovals
Process == Worker \cup Request

ItemStatus == {"ready", "in_progress", "awaiting_verification", "awaiting_approval",
               "blocked", "completed", "failed"}
ItemEnd == {"blocked", "completed", "failed"}
MakerStatus == {"none", "running", "succeeded", "failed", "lost"}
Verdict == {"passed", "failed", "concerns"}
VerificationStatus == {"none", "pending"} \cup Verdict
CheckerLive == {"preparing", "running", "cancelling"}
CheckerActive == CheckerLive \cup {"queued"}
CheckerEnd == {"succeeded", "failed", "cancelled", "timed_out", "lost"}
CheckerStatus == {"none"} \cup CheckerActive \cup CheckerEnd
Decision == {"approved", "rejected", "changes_requested"}
ApprovalStatus == {"none", "requested", "expired"} \cup Decision

(***************************************************************************)
(* pc is the next statement; own: p executes the item's wakeup; made its   *)
(* maker attempt; v the verification it read (0: none); verdict what it    *)
(* submits; caught: it is in the catch branch (where it may start the      *)
(* checker only to fail it); passes how often it began.                    *)
(***************************************************************************)
PC == {"idle", "make", "open", "await", "list", "latest", "check", "insert", "start",
       "prepare", "activate", "link", "cli", "catch", "catchFail", "submit", "settle",
       "ask", "request", "gate", "finalize", "block", "writeback", "thrown", "fail"}
ProcRecord == [pc : PC, own : BOOLEAN, made : 0 .. MaxRounds, v : 0 .. MaxRounds,
               verdict : Verdict, caught : BOOLEAN, passes : 0 .. MaxPasses]
Idle == [pc |-> "idle", own |-> FALSE, made |-> 0, v |-> 0, verdict |-> "failed",
         caught |-> FALSE, passes |-> 0]

NoRow == [status |-> "none", maker |-> 0]
NoChecker == [status |-> "none", session |-> NoOne]
NoApproval == [status |-> "none", due |-> FALSE]

Init ==
  /\ plan \in Plan
  /\ item = "ready"
  /\ maker = [n \in Round |-> "none"]
  /\ verification = [v \in Verification |-> NoRow]
  /\ checker = [v \in Verification |-> NoChecker]
  /\ approval = [a \in Approval |-> NoApproval]
  /\ proc = [p \in Process |-> Idle]
  /\ orphaned = {}

-----------------------------------------------------------------------------
(* What the statements read *)

At(p, pc) == proc[p].pc = pc
Seen(p) == proc[p].v

\* getVerificationForWorkItem: the row created last
Latest(v) == /\ verification[v].status # "none"
             /\ \A u \in Verification : u > v => verification[u].status = "none"
IsPending(v) == verification[v].status = "pending"

\* the unique index agent_attempts (work_item_id, role, attempt_number): every
\* checker attempt has number 1
CheckerNumberTaken == \E v \in Verification : checker[v].status # "none"

Requested(a) == approval[a].status = "requested"
IsNextApproval(a) == /\ approval[a].status = "none"
                     /\ \A b \in Approval : b < a => approval[b].status # "none"

\* the last maker attempt is the claimant of the item
IsClaimant(n) == /\ maker[n] # "none"
                 /\ \A m \in Round : m > n => maker[m] = "none"
\* dispatchWorkItem refuses an item with an active attempt, whatever its role
AnyActive == \/ \E n \in Round : maker[n] = "running"
             \/ \E v \in Verification : checker[v].status \in CheckerActive

\* the guards of submitVerification
SubmittableEarly(v, verdict) ==
  /\ IsPending(v)
  /\ verdict = "passed" => checker[v].status = "succeeded"
Submittable(v, verdict) ==
  /\ IsPending(v)
  /\ checker[v].status \in CheckerEnd
  /\ verdict = "passed" => checker[v].status = "succeeded"

Goto(p, pc) == proc' = [proc EXCEPT ![p].pc = pc]

(***************************************************************************)
(* The end of p's procedure.  A worker that ran the maker finishes its     *)
(* wakeup; any other worker goes on with its own item, a request returns.  *)
(***************************************************************************)
Leave(p) == proc' = [proc EXCEPT ![p] = [Idle EXCEPT !.passes = proc[p].passes]]

(***************************************************************************)
(* An error: a request answers 400; a worker inside the try of             *)
(* verifyPendingWorkItems enters its catch branch, outside of it (before   *)
(* the try, or thrown by the catch branch) its wakeup's execution failed.  *)
(***************************************************************************)
Throw(p, inTry) ==
  IF p \in Request THEN Leave(p)
  ELSE Goto(p, IF inTry /\ ~proc[p].caught THEN "catch" ELSE "thrown")

-----------------------------------------------------------------------------
(* The maker: dispatchWorkItem ... completeScheduledAttempt *)

Claim(p) ==
  /\ At(p, "idle") \/ (At(p, "thrown") /\ proc[p].own)
  /\ p \in Worker
  /\ item = "ready"
  /\ ~AnyActive
  /\ \E n \in Round :
       /\ maker[n] = "none"
       /\ \A m \in Round : m < n => maker[m] # "none"
       /\ maker' = [maker EXCEPT ![n] = "running"]
       /\ proc' = [proc EXCEPT ![p] = [Idle EXCEPT !.pc = "make", !.own = TRUE, !.made = n,
                                                   !.passes = proc[p].passes]]
  /\ item' = "in_progress"
  /\ UNCHANGED <<plan, verification, checker, approval, orphaned>>

\* advanceSuccessfulWorkItem: what the governance plan asks for next
MakerSucceeds(p) ==
  /\ At(p, "make") /\ maker[proc[p].made] = "running"
  /\ maker' = [maker EXCEPT ![proc[p].made] = "succeeded"]
  /\ Goto(p, IF plan.check THEN "open" ELSE IF plan.approval THEN "ask" ELSE "finalize")
  /\ UNCHANGED <<plan, item, verification, checker, approval, orphaned>>

\* completeScheduledAttempt: a retry is due, or max_attempts is reached
MakerFails(p) ==
  /\ At(p, "make") /\ maker[proc[p].made] = "running"
  /\ maker' = [maker EXCEPT ![proc[p].made] = "failed"]
  /\ item' \in {"ready", "failed"}
  /\ Leave(p)
  /\ UNCHANGED <<plan, verification, checker, approval, orphaned>>

\* createVerification returns a row that is still pending, whoever made it
ReusableRow == CHOOSE v \in Verification : Latest(v) /\ IsPending(v)
HasReusableRow == \E v \in Verification : Latest(v) /\ IsPending(v)
OpenVerification(p) ==
  /\ At(p, "open")
  /\ IF HasReusableRow
     THEN UNCHANGED verification
     ELSE \E v \in Verification :
            /\ verification[v].status = "none"
            /\ \A u \in Verification : u < v => verification[u].status # "none"
            /\ verification' = [verification EXCEPT
                 ![v] = [status |-> "pending", maker |-> proc[p].made]]
  /\ Goto(p, "await")
  /\ UNCHANGED <<plan, item, maker, checker, approval, orphaned>>

AwaitVerification(p) ==
  /\ At(p, "await")
  /\ item' = "awaiting_verification"
  /\ Goto(p, "list")
  /\ UNCHANGED <<plan, maker, verification, checker, approval, orphaned>>

-----------------------------------------------------------------------------
(* verifyPendingWorkItems, and the request that creates a checker attempt *)

\* a worker that executed the wakeup of another item of the workflow
BeginPass(p) ==
  /\ At(p, "idle") /\ p \in Worker
  /\ proc[p].passes < MaxPasses
  /\ proc' = [proc EXCEPT ![p] = [Idle EXCEPT !.pc = "list", !.passes = proc[p].passes + 1]]
  /\ UNCHANGED <<plan, item, maker, verification, checker, approval, orphaned>>

ListAwaiting(p) ==
  /\ At(p, "list")
  /\ IF item = "awaiting_verification" THEN Goto(p, "latest") ELSE Leave(p)
  /\ UNCHANGED <<plan, item, maker, verification, checker, approval, orphaned>>

ReadLatest(p) ==
  /\ At(p, "latest")
  /\ IF HasReusableRow
     THEN proc' = [proc EXCEPT ![p].pc = "check", ![p].v = ReusableRow]
     ELSE Leave(p)
  /\ UNCHANGED <<plan, item, maker, verification, checker, approval, orphaned>>

RequestChecker(p) ==
  /\ At(p, "idle") /\ p \in Request
  /\ proc[p].passes < MaxPasses
  /\ \E v \in Verification :
       /\ verification[v].status # "none"
       /\ proc' = [proc EXCEPT ![p] = [Idle EXCEPT !.pc = "check", !.v = v,
                                                   !.passes = proc[p].passes + 1]]
  /\ UNCHANGED <<plan, item, maker, verification, checker, approval, orphaned>>

\* a worker goes on to run the checker attempt, a request returns it
WithChecker(p) == IF p \in Request THEN Leave(p) ELSE Goto(p, "start")

\* createCheckerAttempt up to its insert
CheckPending(p) ==
  /\ At(p, "check")
  /\ CASE ~IsPending(Seen(p))                  -> Throw(p, FALSE)
       [] IsPending(Seen(p)) /\ checker[Seen(p)].status # "none" -> WithChecker(p)
       [] OTHER                                -> Goto(p, "insert")
  /\ UNCHANGED <<plan, item, maker, verification, checker, approval, orphaned>>

InsertChecker(p) ==
  /\ At(p, "insert")
  /\ IF CheckerNumberTaken
     THEN Throw(p, FALSE) /\ UNCHANGED checker
     ELSE /\ checker' = [checker EXCEPT ![Seen(p)] = [status |-> "queued", session |-> NoOne]]
          /\ WithChecker(p)
  /\ UNCHANGED <<plan, item, maker, verification, approval, orphaned>>

\* startCheckerAttempt, called to run the checker and again by the catch branch:
\* each transition is validated against the status read by getAttempt and
\* written by a compare-and-set
Started(p) == IF proc[p].caught THEN "catchFail" ELSE "link"
ReadChecker(p) ==
  /\ At(p, "start")
  /\ Goto(p, CASE checker[Seen(p)].status = "queued"    -> "prepare"
               [] checker[Seen(p)].status = "preparing" -> "activate"
               [] OTHER                                 -> Started(p))
  /\ UNCHANGED <<plan, item, maker, verification, checker, approval, orphaned>>

Transition(p, from, to, pc) ==
  IF checker[Seen(p)].status = from
  THEN checker' = [checker EXCEPT ![Seen(p)].status = to] /\ Goto(p, pc)
  ELSE Throw(p, TRUE) /\ UNCHANGED checker

PrepareChecker(p) ==
  /\ At(p, "prepare")
  /\ Transition(p, "queued", "preparing", "start")
  /\ UNCHANGED <<plan, item, maker, verification, approval, orphaned>>

ActivateChecker(p) ==
  /\ At(p, "activate")
  /\ Transition(p, "preparing", "running", Started(p))
  /\ UNCHANGED <<plan, item, maker, verification, approval, orphaned>>

\* executeDurableAttempt: workspace, artifacts or plan may fail; the session is
\* linked by a transaction that refuses an attempt with another session
SetupFails(p) ==
  /\ At(p, "link")
  /\ Throw(p, TRUE)
  /\ UNCHANGED <<plan, item, maker, verification, checker, approval, orphaned>>

CanRelink(v) == checker[v].session \in Worker \cup {NoOne}
CanLink(v) == checker[v].session = NoOne
LinkSession(p) ==
  /\ At(p, "link")
  /\ IF CanLink(Seen(p))
     THEN checker' = [checker EXCEPT ![Seen(p)].session = p] /\ Goto(p, "cli")
     ELSE Throw(p, TRUE) /\ UNCHANGED checker
  /\ UNCHANGED <<plan, item, maker, verification, approval, orphaned>>

\* the CLI ended: completeAttempt gives a live attempt its outcome.  A run that
\* was aborted by the cancellation poll or interrupted by a shutdown may have
\* ended well before, and leaves an attempt that is over as it is; any other
\* result is a transition that an attempt which is not running refuses
CliOutcome(p, out, verdict) ==
  /\ checker' = [checker EXCEPT ![Seen(p)].status = out]
  /\ proc' = [proc EXCEPT ![p].pc = "submit", ![p].verdict = verdict]
CliEnds(p) ==
  /\ At(p, "cli")
  /\ LET status == checker[Seen(p)].status
     IN  \/ \E verdict \in Verdict :
              \/ status = "running" /\ CliOutcome(p, "succeeded", verdict)
              \/ status \in {"running", "cancelling"} /\ CliOutcome(p, "timed_out", verdict)
              \/ status = "cancelling" /\ CliOutcome(p, "cancelled", verdict)
              \/ status \in CheckerEnd /\ CliOutcome(p, status, verdict)
         \/ status \in {"running", "cancelling"} /\ CliOutcome(p, "failed", "failed")
         \/ status # "running" /\ Throw(p, TRUE) /\ UNCHANGED checker
  /\ UNCHANGED <<plan, item, maker, verification, approval, orphaned>>

\* the catch branch: an attempt that is not over is started if it was not and
\* fails; then a failed verdict
AfterCatch(status) == CASE status \in CheckerEnd              -> "submit"
                        [] status \in {"queued", "preparing"} -> "start"
                        [] OTHER                             -> "catchFail"
ReadCaught(p) ==
  /\ At(p, "catch")
  /\ proc' = [proc EXCEPT ![p].caught = TRUE, ![p].verdict = "failed",
                          ![p].pc = AfterCatch(checker[Seen(p)].status)]
  /\ UNCHANGED <<plan, item, maker, verification, checker, approval, orphaned>>

FailCheckerAnyway(p) ==
  /\ At(p, "catchFail")
  /\ checker' = [checker EXCEPT ![Seen(p)].status = "failed"] /\ Goto(p, "submit")
  /\ UNCHANGED <<plan, item, maker, verification, approval, orphaned>>
\* the transition to failed is refused when the row is over, or has moved on
\* since transitionAttempt read it
FailChecker(p) ==
  /\ At(p, "catchFail")
  /\ \/ /\ checker[Seen(p)].status \in CheckerLive
        /\ checker' = [checker EXCEPT ![Seen(p)].status = "failed"]
        /\ Goto(p, "submit")
     \/ /\ checker[Seen(p)].status # "running"
        /\ Throw(p, TRUE) /\ UNCHANGED checker
  /\ UNCHANGED <<plan, item, maker, verification, approval, orphaned>>

\* no heartbeat covers a checker attempt: a recovery pass of another process
\* declares it lost when its CLI has been silent for longer than the cutoff
LoseChecker(v) ==
  /\ checker[v].status \in CheckerLive
  /\ checker' = [checker EXCEPT ![v].status = "lost"]
  /\ UNCHANGED <<plan, item, maker, verification, approval, proc, orphaned>>

\* requestCancelAttempt, by an operator
CancelChecker(v) ==
  /\ checker[v].status \in {"queued", "preparing", "running"}
  /\ checker' = [checker EXCEPT ![v].status =
       IF checker[v].status = "queued" THEN "cancelled" ELSE "cancelling"]
  /\ UNCHANGED <<plan, item, maker, verification, approval, proc, orphaned>>

-----------------------------------------------------------------------------
(* submitVerification, by the worker that ran the checker or by a request *)

RequestSubmit(p) ==
  /\ At(p, "idle") /\ p \in Request
  /\ proc[p].passes < MaxPasses
  /\ \E v \in Verification, verdict \in Verdict :
       /\ verification[v].status # "none"
       /\ proc' = [proc EXCEPT ![p] = [Idle EXCEPT !.pc = "submit", !.v = v, !.verdict = verdict,
                                                   !.passes = proc[p].passes + 1]]
  /\ UNCHANGED <<plan, item, maker, verification, checker, approval, orphaned>>

\* the guards are read here and acted upon in the following statements; a pass
\* may have too little evidence, a request may name evidence of another attempt
Refusable(p) == \/ ~Submittable(Seen(p), proc[p].verdict)
                \/ proc[p].verdict = "passed"
                \/ p \in Request
CheckSubmission(p) ==
  /\ At(p, "submit")
  /\ \/ Submittable(Seen(p), proc[p].verdict) /\ Goto(p, "settle")
     \/ Refusable(p) /\ Throw(p, TRUE)
  /\ UNCHANGED <<plan, item, maker, verification, checker, approval, orphaned>>

\* the update of the verification has no condition on its status
SettleVerification(p) ==
  /\ At(p, "settle")
  /\ verification' = [verification EXCEPT ![Seen(p)].status = proc[p].verdict]
  /\ Goto(p, IF proc[p].verdict # "passed" THEN "block"
             ELSE IF plan.approval THEN "ask" ELSE "finalize")
  /\ UNCHANGED <<plan, item, maker, checker, approval, orphaned>>

\* createApprovalRequest: an open request is returned, else one is inserted
AskApproval(p) ==
  /\ At(p, "ask")
  /\ Goto(p, IF \E a \in Approval : Requested(a) THEN "gate" ELSE "request")
  /\ UNCHANGED <<plan, item, maker, verification, checker, approval, orphaned>>

InsertApproval(p) ==
  /\ At(p, "request")
  /\ \E a \in Approval :
       /\ IsNextApproval(a)
       /\ approval' = [approval EXCEPT ![a] = [status |-> "requested", due |-> FALSE]]
  /\ Goto(p, "gate")
  /\ UNCHANGED <<plan, item, maker, verification, checker, orphaned>>

\* after a passed submission the worker proposes knowledge, inside the try
Submitted(p) == IF p \in Worker /\ Seen(p) # 0 /\ proc[p].verdict = "passed"
                THEN Goto(p, "writeback") ELSE Leave(p)
\* the worker that ran a maker without a check goes on to the pass
Advanced(p) == IF p \in Worker /\ Seen(p) = 0 THEN Goto(p, "list") ELSE Submitted(p)

GateItem(p) ==
  /\ At(p, "gate")
  /\ item' = "awaiting_approval"
  /\ Advanced(p)
  /\ UNCHANGED <<plan, maker, verification, checker, approval, orphaned>>

FinalizeItem(p) ==
  /\ At(p, "finalize")
  /\ item' = "completed"
  /\ Advanced(p)
  /\ UNCHANGED <<plan, maker, verification, checker, approval, orphaned>>

\* finalizeWorkItem: the commit or artifact the delivery mode asks for is missing
FinalizeThrows(p) ==
  /\ At(p, "finalize")
  /\ Throw(p, Seen(p) # 0)
  /\ UNCHANGED <<plan, item, maker, verification, checker, approval, orphaned>>

BlockItem(p) ==
  /\ At(p, "block")
  /\ item' = "blocked"
  /\ Submitted(p)
  /\ UNCHANGED <<plan, maker, verification, checker, approval, orphaned>>

\* proposeKnowledgeWriteback
Writeback(p) ==
  /\ At(p, "writeback")
  /\ Leave(p) \/ Throw(p, TRUE)
  /\ UNCHANGED <<plan, item, maker, verification, checker, approval, orphaned>>

-----------------------------------------------------------------------------
(* decideApproval is one transaction *)

ChangesComplete(a, decision) ==
  /\ Requested(a) /\ ~approval[a].due
  /\ item = "awaiting_approval"
  /\ approval' = [approval EXCEPT ![a].status = decision]
  /\ item' = IF decision # "rejected" THEN "completed" ELSE "blocked"
  /\ UNCHANGED <<plan, maker, verification, checker, proc, orphaned>>
DecideApproval(a, decision) ==
  /\ Requested(a) /\ ~approval[a].due
  /\ item = "awaiting_approval"
  /\ approval' = [approval EXCEPT ![a].status = decision]
  /\ item' = IF decision = "approved" THEN "completed" ELSE "blocked"
  /\ UNCHANGED <<plan, maker, verification, checker, proc, orphaned>>

\* the decision comes too late: the request is marked, the item keeps waiting
ExpireApproval(a) ==
  /\ Requested(a) /\ approval[a].due
  /\ approval' = [approval EXCEPT ![a].status = "expired"]
  /\ UNCHANGED <<plan, item, maker, verification, checker, proc, orphaned>>

FallsDue(a) ==
  /\ plan.expires /\ Requested(a) /\ ~approval[a].due
  /\ approval' = [approval EXCEPT ![a].due = TRUE]
  /\ UNCHANGED <<plan, item, maker, verification, checker, proc, orphaned>>

\* an operator sends the item back to the board's first column, where it is
\* dispatched again.  The route takes any status: the others are an override of
\* this process by hand, and not part of it
Reopen ==
  /\ item # "ready"
  /\ maker[MaxRounds] = "none"
  /\ item' = "ready"
  /\ UNCHANGED <<plan, maker, verification, checker, approval, proc, orphaned>>

-----------------------------------------------------------------------------
(* Failed executions, crashes and recovery *)

\* the tries of the wakeup are used up, or the item is ready and its retry is
\* queued; only the item's own wakeup can fail it
GiveUp(p) ==
  /\ At(p, "thrown")
  /\ IF proc[p].own /\ item \notin ItemEnd \cup {"ready"} THEN Goto(p, "fail") ELSE Leave(p)
  /\ UNCHANGED <<plan, item, maker, verification, checker, approval, orphaned>>

\* failDurableWakeupWork writes without a condition what it decided before
FailItem(p) ==
  /\ At(p, "fail")
  /\ item' = "failed"
  /\ Leave(p)
  /\ UNCHANGED <<plan, maker, verification, checker, approval, orphaned>>

Crash(p) ==
  /\ ~At(p, "idle")
  /\ Leave(p)
  /\ orphaned' = IF proc[p].own THEN orphaned \cup {proc[p].made} ELSE orphaned
  /\ UNCHANGED <<plan, item, maker, verification, checker, approval>>

\* recoverStaleClaims for the wakeup of maker n: a maker without a worker is
\* lost and retried while attempts remain, an item that is neither over nor
\* ready for its retry is failed
Attended == \E p \in Worker : At(p, "make")
Recover(n) ==
  /\ n \in orphaned
  /\ orphaned' = orphaned \ {n}
  /\ \E m \in Round :
       /\ IsClaimant(m)
       /\ \/ /\ maker[m] = "running" /\ ~Attended
             /\ maker' = [maker EXCEPT ![m] = "lost"]
             /\ item' = "ready" \/ item' = (IF item \in ItemEnd THEN item ELSE "failed")
          \/ /\ maker[m] # "running"
             /\ item' = IF item \in ItemEnd \/ (item = "ready" /\ maker[m] # "succeeded")
                        THEN item ELSE "failed"
             /\ UNCHANGED maker
  /\ UNCHANGED <<plan, verification, checker, approval, proc>>

-----------------------------------------------------------------------------
Pass(p) == \/ BeginPass(p) \/ ListAwaiting(p) \/ ReadLatest(p) \/ CheckPending(p)
           \/ InsertChecker(p) \/ ReadChecker(p) \/ PrepareChecker(p) \/ ActivateChecker(p)
           \/ SetupFails(p) \/ LinkSession(p) \/ CliEnds(p) \/ ReadCaught(p) \/ FailChecker(p)
Submission(p) == \/ CheckSubmission(p) \/ SettleVerification(p) \/ AskApproval(p)
                 \/ InsertApproval(p) \/ GateItem(p) \/ FinalizeItem(p) \/ FinalizeThrows(p)
                 \/ BlockItem(p) \/ Writeback(p)
Make(p) == \/ Claim(p) \/ MakerSucceeds(p) \/ MakerFails(p) \/ OpenVerification(p)
           \/ AwaitVerification(p)
Step(p) == \/ Make(p) \/ Pass(p) \/ Submission(p) \/ RequestChecker(p) \/ RequestSubmit(p)
           \/ GiveUp(p) \/ FailItem(p) \/ Crash(p)
Decide(a) == \/ \E decision \in Decision : DecideApproval(a, decision)
             \/ ExpireApproval(a) \/ FallsDue(a)

Next ==
  \/ \E p \in Process : Step(p)
  \/ \E v \in Verification : LoseChecker(v) \/ CancelChecker(v)
  \/ \E a \in Approval : Decide(a)
  \/ \E n \in Round : Recover(n)
  \/ Reopen

Spec == Init /\ [][Next]_vars

-----------------------------------------------------------------------------
(* Properties *)

TypeOK ==
  /\ plan \in Plan
  /\ item \in ItemStatus
  /\ maker \in [Round -> MakerStatus]
  /\ verification \in [Verification -> [status : VerificationStatus, maker : 0 .. MaxRounds]]
  /\ checker \in [Verification -> [status : CheckerStatus, session : Worker \cup {NoOne}]]
  /\ approval \in [Approval -> [status : ApprovalStatus, due : BOOLEAN]]
  /\ proc \in [Process -> ProcRecord]
  /\ orphaned \subseteq Round

(***************************************************************************)
(* Evidence closes work (docs/concept.md): whatever workers, requests,     *)
(* crashes and recoveries do to each other, an item is completed only if a *)
(* checker attempt of it succeeded where its plan requires a check, and a  *)
(* request of it was approved where its plan requires an approval.         *)
(***************************************************************************)
EvidenceClosesWork ==
  item = "completed" =>
    /\ plan.check => \E v \in Verification : checker[v].status = "succeeded"
    /\ plan.approval => \E a \in Approval : approval[a].status = "approved"

(***************************************************************************)
(* A verdict rests on a finished check: a settled verification has a       *)
(* checker attempt that ended, and a passed one a checker that succeeded,  *)
(* although both were read some statements before the verdict is written.  *)
(***************************************************************************)
VerdictsRestOnChecks ==
  \A v \in Verification :
    /\ verification[v].status \in Verdict => checker[v].status \in CheckerEnd
    /\ verification[v].status = "passed" => checker[v].status = "succeeded"

(***************************************************************************)
(* At most one checker CLI runs for the item, although several workers may *)
(* verify it at once and a pass may begin again after a crash.             *)
(***************************************************************************)
OneCheckerRuns == \A p, q \in Worker : At(p, "cli") /\ At(q, "cli") => p = q

(***************************************************************************)
(* The outcome of a checker attempt stands: no catch branch, cancellation, *)
(* recovery or late CLI overwrites it.                                     *)
(***************************************************************************)
CheckerOutcomeStands ==
  [][\A v \in Verification : checker[v].status \in CheckerEnd =>
       checker'[v].status = checker[v].status]_vars

(***************************************************************************)
(* The check that lets an item complete is a check of the work it          *)
(* completes with: that of its claimant, the last maker attempt.           *)
(***************************************************************************)
ChecksTheCompletedWork ==
  item = "completed" /\ plan.check =>
    \E v \in Verification : /\ verification[v].status = "passed"
                            /\ IsClaimant(verification[v].maker)

(***************************************************************************)
(* A verification that waits for its check can be checked: the checker     *)
(* attempt it still lacks is not refused because an earlier round of the   *)
(* item had one.                                                           *)
(***************************************************************************)
EveryRoundCheckable ==
  \A p \in Process :
    At(p, "insert") /\ IsPending(Seen(p)) /\ checker[Seen(p)].status = "none"
      => ~CheckerNumberTaken
=============================================================================
