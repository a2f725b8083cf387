--------------------------- MODULE GovernanceProofs ---------------------------
(***************************************************************************)
(* Proofs about Governance, for every number of workers, requests, rounds, *)
(* approvals and passes.                                                   *)
(*                                                                         *)
(* The argument is one of monotonicity: whatever two processes do to each  *)
(* other, a checker attempt is never removed, its outcome is never         *)
(* overwritten and its session never replaced (Grows).  What a process     *)
(* read before it acts is of this kind, so it still holds when it acts     *)
(* (Fit), and the verdicts and completions that rest on it are sound.      *)
(***************************************************************************)
EXTENDS Governance, TLAPS

\* The records of the tables and of the processes.
VerificationRecord == [status : VerificationStatus, maker : 0 .. MaxRounds]
CheckerRecord == [status : CheckerStatus, session : Worker \cup {NoOne}]
ApprovalRecord == [status : ApprovalStatus, due : BOOLEAN]

\* the statements a request executes, those that act on a verification, those
\* of a started checker, and those after the gate of a check
RequestPC == {"idle", "check", "insert", "submit", "settle", "ask", "request", "gate",
              "finalize", "block"}
VerifyingPC == {"check", "insert", "start", "prepare", "activate", "link", "cli", "catch",
                "catchFail", "submit", "settle", "block", "writeback"}
CheckerPC == {"start", "prepare", "activate", "link", "cli"}
CheckedPC == {"ask", "request", "gate", "finalize"}

Ended(v) == checker[v].status \in CheckerEnd
Succeeded(v) == checker[v].status = "succeeded"
Checked == plan.check => \E v \in Verification : Succeeded(v)

(***************************************************************************)
(* What a process remembers fits the statement it executes next.           *)
(***************************************************************************)
Fit(p) ==
  /\ proc[p].pc \notin RequestPC => p \in Worker
  /\ proc[p].pc \in VerifyingPC => Seen(p) # 0
  /\ proc[p].own \/ proc[p].pc \in {"make", "open", "await"} => proc[p].made # 0
  /\ proc[p].pc \in CheckerPC => checker[Seen(p)].status # "none"
  /\ At(p, "cli") => checker[Seen(p)].session = p
  /\ At(p, "settle") => Ended(Seen(p)) /\ (proc[p].verdict = "passed" => Succeeded(Seen(p)))
  /\ proc[p].pc \in CheckedPC => Checked
  /\ At(p, "finalize") => ~plan.approval

\* the unique index allows one checker attempt, and only that can have a session
OneChecker == /\ \A u, v \in Verification :
                   checker[u].status # "none" /\ checker[v].status # "none" => u = v
              /\ \A v \in Verification :
                   checker[v].session # NoOne => checker[v].status # "none"

IInv == /\ TypeOK
        /\ \A p \in Process : Fit(p)
        /\ OneChecker
        /\ item = "awaiting_approval" => Checked
        /\ EvidenceClosesWork
        /\ VerdictsRestOnChecks

-----------------------------------------------------------------------------
(* Types *)

LEMMA PCs ==
  /\ "idle" \in PC /\ "make" \in PC /\ "open" \in PC /\ "await" \in PC
  /\ "list" \in PC /\ "latest" \in PC /\ "check" \in PC /\ "insert" \in PC
  /\ "start" \in PC /\ "prepare" \in PC /\ "activate" \in PC /\ "link" \in PC
  /\ "cli" \in PC /\ "catch" \in PC /\ "catchFail" \in PC /\ "submit" \in PC
  /\ "settle" \in PC /\ "ask" \in PC /\ "request" \in PC /\ "gate" \in PC
  /\ "finalize" \in PC /\ "block" \in PC /\ "writeback" \in PC /\ "thrown" \in PC
  /\ "fail" \in PC
BY DEF PC

\* Where the catch branch goes on, and that it starts no checker it did not see.
LEMMA CaughtPC ==
  ASSUME NEW status
  PROVE  /\ AfterCatch(status) \in {"submit", "start", "catchFail"}
         /\ AfterCatch(status) = "start" => status \in {"queued", "preparing"}
BY DEF AfterCatch

LEMMA Statuses ==
  /\ "ready" \in ItemStatus /\ "in_progress" \in ItemStatus
  /\ "awaiting_verification" \in ItemStatus /\ "awaiting_approval" \in ItemStatus
  /\ "blocked" \in ItemStatus /\ "completed" \in ItemStatus /\ "failed" \in ItemStatus
  /\ "running" \in MakerStatus /\ "succeeded" \in MakerStatus
  /\ "failed" \in MakerStatus /\ "lost" \in MakerStatus
  /\ "requested" \in ApprovalStatus /\ "expired" \in ApprovalStatus
  /\ "pending" \in VerificationStatus
BY DEF ItemStatus, MakerStatus, ApprovalStatus, VerificationStatus

LEMMA CheckerStatuses ==
  /\ "queued" \in CheckerStatus /\ "preparing" \in CheckerStatus /\ "running" \in CheckerStatus
  /\ "cancelling" \in CheckerStatus /\ "succeeded" \in CheckerStatus
  /\ "failed" \in CheckerStatus /\ "timed_out" \in CheckerStatus
  /\ "cancelled" \in CheckerStatus /\ "lost" \in CheckerStatus
BY DEF CheckerStatus, CheckerActive, CheckerLive, CheckerEnd

LEMMA IdleRecord ==
  ASSUME NEW passes \in 0 .. MaxPasses
  PROVE  [Idle EXCEPT !.passes = passes] \in ProcRecord
<1>1. 0 \in 0 .. MaxRounds BY BoundsAssumption
<1>2. "failed" \in Verdict BY DEF Verdict
<1> QED BY <1>1, <1>2, PCs DEF Idle, ProcRecord

\* The ways a process moves keep its type.
LEMMA ProcUpdates ==
  ASSUME TypeOK, NEW p \in Process
  PROVE  /\ \A pc \in PC : Goto(p, pc) => proc' \in [Process -> ProcRecord]
         /\ Leave(p) => proc' \in [Process -> ProcRecord]
         /\ \A inTry \in BOOLEAN : Throw(p, inTry) => proc' \in [Process -> ProcRecord]
<1>1. proc \in [Process -> ProcRecord] /\ proc[p] \in ProcRecord BY DEF TypeOK
<1>2. \A pc \in PC : Goto(p, pc) => proc' \in [Process -> ProcRecord]
  BY <1>1 DEF Goto, ProcRecord
<1>3. Leave(p) => proc' \in [Process -> ProcRecord]
  <2>1. proc[p].passes \in 0 .. MaxPasses BY <1>1 DEF ProcRecord
  <2> QED BY <1>1, <2>1, IdleRecord DEF Leave
<1>4. \A inTry \in BOOLEAN : Throw(p, inTry) => proc' \in [Process -> ProcRecord]
  BY <1>2, <1>3, PCs DEF Throw
<1> QED BY <1>2, <1>3, <1>4

LEMMA Judged ==
  ASSUME TypeOK, NEW p \in Process, NEW pc \in PC, NEW verdict \in Verdict
  PROVE  /\ [proc EXCEPT ![p].pc = pc, ![p].verdict = verdict] \in [Process -> ProcRecord]
         /\ [proc EXCEPT ![p].caught = TRUE, ![p].verdict = verdict, ![p].pc = pc]
              \in [Process -> ProcRecord]
<1>1. proc \in [Process -> ProcRecord] /\ proc[p] \in ProcRecord BY DEF TypeOK
<1>2. [proc[p] EXCEPT !.pc = pc, !.verdict = verdict] \in ProcRecord BY <1>1 DEF ProcRecord
<1>3. [proc[p] EXCEPT !.caught = TRUE, !.verdict = verdict, !.pc = pc] \in ProcRecord
  BY <1>1 DEF ProcRecord
<1> QED BY <1>1, <1>2, <1>3

LEMMA Looked ==
  ASSUME TypeOK, NEW p \in Process, NEW pc \in PC, NEW v \in 0 .. MaxRounds
  PROVE  [proc EXCEPT ![p].pc = pc, ![p].v = v] \in [Process -> ProcRecord]
BY DEF TypeOK, ProcRecord

LEMMA Replaced ==
  ASSUME TypeOK, NEW p \in Process, NEW s \in ProcRecord, proc' = [proc EXCEPT ![p] = s]
  PROVE  proc' \in [Process -> ProcRecord]
BY DEF TypeOK

LEMMA Fresh ==
  ASSUME NEW pc \in PC, NEW made \in 0 .. MaxRounds, NEW v \in 0 .. MaxRounds,
         NEW verdict \in Verdict, NEW passes \in 0 .. MaxPasses
  PROVE  /\ [Idle EXCEPT !.pc = pc, !.own = TRUE, !.made = made, !.passes = passes] \in ProcRecord
         /\ [Idle EXCEPT !.pc = pc, !.passes = passes] \in ProcRecord
         /\ [Idle EXCEPT !.pc = pc, !.v = v, !.passes = passes] \in ProcRecord
         /\ [Idle EXCEPT !.pc = pc, !.v = v, !.verdict = verdict, !.passes = passes] \in ProcRecord
<1>1. 0 \in 0 .. MaxRounds BY BoundsAssumption
<1>2. "failed" \in Verdict BY DEF Verdict
<1> QED BY <1>1, <1>2 DEF Idle, ProcRecord

LEMMA Numbers ==
  ASSUME TypeOK, NEW p \in Process
  PROVE  /\ 0 \in 0 .. MaxRounds
         /\ Round \subseteq 0 .. MaxRounds /\ Verification \subseteq 0 .. MaxRounds
         /\ proc[p].passes \in 0 .. MaxPasses
         /\ proc[p].passes < MaxPasses => proc[p].passes + 1 \in 0 .. MaxPasses
         /\ proc[p].v \in 0 .. MaxRounds
         /\ proc[p].v # 0 => proc[p].v \in Verification
         /\ proc[p].made # 0 => proc[p].made \in Round
         /\ proc[p].verdict \in Verdict
         /\ proc \in [Process -> ProcRecord]
         /\ proc[p] \in ProcRecord
<1>1. proc \in [Process -> ProcRecord] /\ proc[p] \in ProcRecord BY DEF TypeOK
<1>2. /\ proc[p].passes \in 0 .. MaxPasses /\ proc[p].v \in 0 .. MaxRounds
      /\ proc[p].made \in 0 .. MaxRounds /\ proc[p].verdict \in Verdict
  BY <1>1 DEF ProcRecord
<1> QED BY <1>1, <1>2, BoundsAssumption DEF Round, Verification

LEMMA MakeProc ==
  ASSUME TypeOK, NEW p \in Process, Make(p) PROVE proc' \in [Process -> ProcRecord]
<1>1. CASE Claim(p)
  <2>1. PICK n \in Round :
          proc' = [proc EXCEPT ![p] = [Idle EXCEPT !.pc = "make", !.own = TRUE, !.made = n,
                                                   !.passes = proc[p].passes]]
    BY <1>1 DEF Claim
  <2>2. "failed" \in Verdict BY DEF Verdict
  <2>3. [Idle EXCEPT !.pc = "make", !.own = TRUE, !.made = n, !.passes = proc[p].passes]
          \in ProcRecord
    BY PCs, Numbers, Fresh
  <2> QED BY <2>1, <2>3, Replaced
<1>2. CASE MakerSucceeds(p)
  <2>1. Goto(p, "open") \/ Goto(p, "ask") \/ Goto(p, "finalize") BY <1>2 DEF MakerSucceeds
  <2> QED BY <2>1, PCs, ProcUpdates
<1>3. CASE MakerFails(p) BY <1>3, ProcUpdates DEF MakerFails
<1>4. CASE OpenVerification(p) BY <1>4, PCs, ProcUpdates DEF OpenVerification
<1>5. CASE AwaitVerification(p) BY <1>5, PCs, ProcUpdates DEF AwaitVerification
<1> QED BY <1>1, <1>2, <1>3, <1>4, <1>5 DEF Make

LEMMA PassProc ==
  ASSUME TypeOK, NEW p \in Process, Pass(p) PROVE proc' \in [Process -> ProcRecord]
<1>1. CASE BeginPass(p)
  <2>1. "failed" \in Verdict BY DEF Verdict
  <2>2. [Idle EXCEPT !.pc = "list", !.passes = proc[p].passes + 1]
          \in ProcRecord
    BY <1>1, <2>1, PCs, Numbers, Fresh DEF BeginPass
  <2> QED BY <1>1, <2>2, Replaced DEF BeginPass
<1>2. CASE ListAwaiting(p) BY <1>2, PCs, ProcUpdates DEF ListAwaiting
<1>3. CASE ReadLatest(p)
  <2>1. HasReusableRow => ReusableRow \in 0 .. MaxRounds
    <3>1. HasReusableRow => ReusableRow \in Verification BY DEF HasReusableRow, ReusableRow
    <3> QED BY <3>1, Numbers
  <2>2. "check" \in PC BY PCs
  <2>3. HasReusableRow => [proc EXCEPT ![p].pc = "check", ![p].v = ReusableRow] \in [Process -> ProcRecord]
    BY <2>1, <2>2, Looked
  <2> QED BY <1>3, <2>3, ProcUpdates DEF ReadLatest
<1>4. WithChecker(p) => proc' \in [Process -> ProcRecord]
  BY PCs, ProcUpdates DEF WithChecker
<1>5. CASE CheckPending(p)
  <2>1. Throw(p, FALSE) \/ WithChecker(p) \/ Goto(p, "insert") BY <1>5 DEF CheckPending
  <2> QED BY <1>4, <2>1, PCs, ProcUpdates
<1>6. CASE InsertChecker(p) BY <1>4, <1>6, PCs, ProcUpdates DEF InsertChecker
<1>7. CASE ReadChecker(p)
  <2>1. Goto(p, "prepare") \/ Goto(p, "activate") \/ Goto(p, "link") \/ Goto(p, "catchFail")
    BY <1>7 DEF ReadChecker, Started
  <2> QED BY <2>1, PCs, ProcUpdates
<1>8. CASE PrepareChecker(p) BY <1>8, PCs, ProcUpdates DEF PrepareChecker, Transition
<1>9. CASE ActivateChecker(p) BY <1>9, PCs, ProcUpdates DEF ActivateChecker, Transition, Started
<1>10. CASE SetupFails(p) BY <1>10, ProcUpdates DEF SetupFails
<1>11. CASE LinkSession(p) BY <1>11, PCs, ProcUpdates DEF LinkSession
<1>12. CASE CliEnds(p)
  <2>1. ASSUME NEW out, NEW verdict \in Verdict, CliOutcome(p, out, verdict)
        PROVE  proc' \in [Process -> ProcRecord]
    <3>1. "submit" \in PC BY PCs
    <3> QED BY <2>1, <3>1, Judged DEF CliOutcome
  <2>2. "failed" \in Verdict BY DEF Verdict
  <2>3. \/ \E out \in CheckerStatus, verdict \in Verdict : CliOutcome(p, out, verdict)
        \/ CliOutcome(p, checker[Seen(p)].status, proc[p].verdict)
        \/ \E verdict \in Verdict : CliOutcome(p, checker[Seen(p)].status, verdict)
        \/ Throw(p, TRUE)
    BY <1>12, <2>2, CheckerStatuses DEF CliEnds
  <2> QED BY <2>1, <2>3, Numbers, ProcUpdates
<1>13. CASE ReadCaught(p)
  <2>1. "failed" \in Verdict BY DEF Verdict
  <2>2. PICK pc \in {"submit", "start", "catchFail"} :
          proc' = [proc EXCEPT ![p].caught = TRUE, ![p].verdict = "failed", ![p].pc = pc]
    BY <1>13, CaughtPC DEF ReadCaught
  <2>3. pc \in PC BY PCs
  <2> QED BY <2>1, <2>2, <2>3, Judged
<1>14. CASE FailChecker(p) BY <1>14, PCs, ProcUpdates DEF FailChecker
<1> QED BY <1>1, <1>2, <1>3, <1>5, <1>6, <1>7, <1>8, <1>9, <1>10, <1>11, <1>12, <1>13, <1>14
        DEF Pass

LEMMA SubmissionProc ==
  ASSUME TypeOK, NEW p \in Process, Submission(p) PROVE proc' \in [Process -> ProcRecord]
<1>1. CASE CheckSubmission(p) BY <1>1, PCs, ProcUpdates DEF CheckSubmission
<1>2. CASE SettleVerification(p)
  <2>1. Goto(p, "block") \/ Goto(p, "ask") \/ Goto(p, "finalize")
    BY <1>2 DEF SettleVerification
  <2> QED BY <2>1, PCs, ProcUpdates
<1>3. CASE AskApproval(p) BY <1>3, PCs, ProcUpdates DEF AskApproval
<1>4. CASE InsertApproval(p) BY <1>4, PCs, ProcUpdates DEF InsertApproval
<1>5. Submitted(p) => proc' \in [Process -> ProcRecord] BY PCs, ProcUpdates DEF Submitted
<1>6. Advanced(p) => proc' \in [Process -> ProcRecord] BY <1>5, PCs, ProcUpdates DEF Advanced
<1>7. CASE GateItem(p) BY <1>6, <1>7 DEF GateItem
<1>8. CASE FinalizeItem(p) BY <1>6, <1>8 DEF FinalizeItem
<1>9. CASE FinalizeThrows(p) BY <1>9, ProcUpdates DEF FinalizeThrows
<1>10. CASE BlockItem(p) BY <1>5, <1>10 DEF BlockItem
<1>11. CASE Writeback(p) BY <1>11, ProcUpdates DEF Writeback
<1> QED BY <1>1, <1>2, <1>3, <1>4, <1>7, <1>8, <1>9, <1>10, <1>11 DEF Submission

LEMMA StepProc ==
  ASSUME TypeOK, NEW p \in Process, Step(p) PROVE proc' \in [Process -> ProcRecord]
<1>1. CASE Make(p) BY <1>1, MakeProc
<1>2. CASE Pass(p) BY <1>2, PassProc
<1>3. CASE Submission(p) BY <1>3, SubmissionProc
<1>4. "failed" \in Verdict BY DEF Verdict
<1>5. CASE RequestChecker(p)
  <2>1. PICK v \in Verification :
          proc' = [proc EXCEPT ![p] = [Idle EXCEPT !.pc = "check", !.v = v,
                                                   !.passes = proc[p].passes + 1]]
    BY <1>5 DEF RequestChecker
  <2>2. [Idle EXCEPT !.pc = "check", !.v = v, !.passes = proc[p].passes + 1]
          \in ProcRecord
    BY <1>4, <1>5, PCs, Numbers, Fresh DEF RequestChecker
  <2> QED BY <2>1, <2>2, Replaced
<1>6. CASE RequestSubmit(p)
  <2>1. PICK v \in Verification, verdict \in Verdict :
          proc' = [proc EXCEPT ![p] = [Idle EXCEPT !.pc = "submit", !.v = v, !.verdict = verdict,
                                                   !.passes = proc[p].passes + 1]]
    BY <1>6 DEF RequestSubmit
  <2>2. [Idle EXCEPT !.pc = "submit", !.v = v, !.verdict = verdict, !.passes = proc[p].passes + 1]
          \in ProcRecord
    BY <1>6, PCs, Numbers, Fresh DEF RequestSubmit
  <2> QED BY <2>1, <2>2, Replaced
<1>7. CASE GiveUp(p) BY <1>7, PCs, ProcUpdates DEF GiveUp
<1>8. CASE FailItem(p) BY <1>8, ProcUpdates DEF FailItem
<1>9. CASE Crash(p) BY <1>9, ProcUpdates DEF Crash
<1> QED BY <1>1, <1>2, <1>3, <1>5, <1>6, <1>7, <1>8, <1>9 DEF Step

-----------------------------------------------------------------------------
(* What becomes of the checker attempts *)

\* A checker attempt is inserted by the unique index, advances while it is not
\* over, or is linked to a session while it has none.
Inserts(p) == /\ At(p, "insert") /\ ~CheckerNumberTaken
              /\ checker' = [checker EXCEPT ![Seen(p)] = [status |-> "queued", session |-> NoOne]]
Advances(v, to) == /\ checker[v].status # "none" /\ to \in CheckerActive \cup CheckerEnd
                   /\ Ended(v) => to = checker[v].status
                   /\ checker' = [checker EXCEPT ![v].status = to]
Links(p) == /\ At(p, "link") /\ checker[Seen(p)].session = NoOne
            /\ checker' = [checker EXCEPT ![Seen(p)].session = p]
CheckerMove ==
  \/ checker' = checker
  \/ \E p \in Process : Inserts(p) \/ Links(p)
  \/ \E v \in Verification, to \in CheckerActive \cup CheckerEnd : Advances(v, to)

LEMMA ActiveOrEnded ==
  /\ \A s \in CheckerActive : s # "none" /\ s \notin CheckerEnd
  /\ \A s \in CheckerEnd : s # "none"
  /\ "queued" \in CheckerActive /\ "preparing" \in CheckerActive /\ "running" \in CheckerActive
  /\ "cancelling" \in CheckerActive
  /\ "succeeded" \in CheckerEnd /\ "failed" \in CheckerEnd /\ "timed_out" \in CheckerEnd
  /\ "cancelled" \in CheckerEnd /\ "lost" \in CheckerEnd
  /\ CheckerLive \subseteq CheckerActive
BY DEF CheckerActive, CheckerLive, CheckerEnd

LEMMA StepChecker ==
  ASSUME TypeOK, NEW p \in Process, Fit(p), Step(p) PROVE CheckerMove
<1> DEFINE v == Seen(p)
<1>1. proc[p].pc \in VerifyingPC => v \in Verification BY Numbers DEF Fit, Seen
<1>2. ASSUME proc[p].pc \in VerifyingPC, checker[v].status \in CheckerActive,
             NEW to \in CheckerActive \cup CheckerEnd, checker' = [checker EXCEPT ![v].status = to]
      PROVE  CheckerMove
  <2>1. Advances(v, to) BY <1>2, ActiveOrEnded DEF Advances, Ended
  <2> QED BY <1>1, <1>2, <2>1 DEF CheckerMove
<1>3. CASE InsertChecker(p)
  BY <1>3 DEF InsertChecker, Inserts, CheckerMove
<1>4. CASE PrepareChecker(p)
  BY <1>2, <1>4, ActiveOrEnded DEF PrepareChecker, Transition, VerifyingPC, At, CheckerMove
<1>5. CASE ActivateChecker(p)
  BY <1>2, <1>5, ActiveOrEnded DEF ActivateChecker, Transition, VerifyingPC, At, CheckerMove
<1>6. CASE LinkSession(p)
  BY <1>6 DEF LinkSession, CanLink, Links, CheckerMove
<1>7. CASE CliEnds(p)
  <2>1. v \in Verification /\ proc[p].pc \in VerifyingPC /\ checker[v].status # "none"
    BY <1>1, <1>7 DEF CliEnds, VerifyingPC, CheckerPC, At, Fit
  <2>2. ASSUME NEW out \in CheckerEnd, NEW verdict, CliOutcome(p, out, verdict),
               checker[v].status \in {"running", "cancelling"} \/ out = checker[v].status
        PROVE  CheckerMove
    <3>1. Ended(v) => out = checker[v].status BY <2>2, ActiveOrEnded DEF Ended
    <3>2. Advances(v, out) BY <2>1, <2>2, <3>1 DEF Advances, CliOutcome
    <3> QED BY <2>1, <3>2 DEF CheckerMove
  <2>3. \/ checker' = checker
        \/ \E out \in CheckerEnd, verdict \in Verdict \cup {"failed"} :
             /\ CliOutcome(p, out, verdict)
             /\ checker[v].status \in {"running", "cancelling"} \/ out = checker[v].status
    BY <1>7, ActiveOrEnded DEF CliEnds
  <2> QED BY <2>2, <2>3 DEF CheckerMove
<1>8. CASE FailChecker(p)
  BY <1>2, <1>8, ActiveOrEnded DEF FailChecker, VerifyingPC, At, CheckerMove
<1>9. CASE Make(p)
  BY <1>9 DEF Make, Claim, MakerSucceeds, MakerFails, OpenVerification, AwaitVerification,
              CheckerMove
<1>10. CASE Submission(p)
  BY <1>10 DEF Submission, CheckSubmission, SettleVerification, AskApproval, InsertApproval,
               GateItem, FinalizeItem, FinalizeThrows, BlockItem, Writeback, CheckerMove
<1> QED
  BY <1>3, <1>4, <1>5, <1>6, <1>7, <1>8, <1>9, <1>10
  DEF Step, Pass, BeginPass, ListAwaiting, ReadLatest, CheckPending, ReadChecker, SetupFails,
      ReadCaught, RequestChecker, RequestSubmit, GiveUp, FailItem, Crash, CheckerMove

LEMMA NextChecker ==
  ASSUME IInv, [Next]_vars PROVE CheckerMove
<1>1. ASSUME NEW p \in Process, Step(p) PROVE CheckerMove
  BY <1>1, StepChecker DEF IInv
<1>2. ASSUME NEW v \in Verification, LoseChecker(v) PROVE CheckerMove
  <2>1. Advances(v, "lost") BY <1>2, ActiveOrEnded DEF LoseChecker, Advances, Ended
  <2> QED BY <2>1, ActiveOrEnded DEF CheckerMove
<1>3. ASSUME NEW v \in Verification, CancelChecker(v) PROVE CheckerMove
  <2>1. checker[v].status \in CheckerActive BY <1>3, ActiveOrEnded DEF CancelChecker
  <2>2. \E to \in {"cancelled", "cancelling"} : checker' = [checker EXCEPT ![v].status = to]
    BY <1>3 DEF CancelChecker
  <2>3. \E to \in CheckerActive \cup CheckerEnd : Advances(v, to)
    BY <2>1, <2>2, ActiveOrEnded DEF Advances, Ended
  <2> QED BY <2>3 DEF CheckerMove
<1>4. ASSUME NEW a \in Approval, Decide(a) PROVE CheckerMove
  BY <1>4 DEF Decide, DecideApproval, ExpireApproval, FallsDue, CheckerMove
<1>5. ASSUME NEW n \in Round, Recover(n) PROVE CheckerMove BY <1>5 DEF Recover, CheckerMove
<1>6. CASE Reopen BY <1>6 DEF Reopen, CheckerMove
<1>7. CASE UNCHANGED vars BY <1>7 DEF vars, CheckerMove
<1> QED BY <1>1, <1>2, <1>3, <1>4, <1>5, <1>6, <1>7 DEF Next

(***************************************************************************)
(* Knowledge about checker attempts is never revoked.                      *)
(***************************************************************************)
Grows ==
  \A v \in Verification :
    /\ checker[v].status # "none" => checker'[v].status # "none"
    /\ Ended(v) => checker'[v].status = checker[v].status
    /\ checker[v].session # NoOne => checker'[v].session = checker[v].session

LEMMA CheckerGrows ==
  ASSUME IInv, CheckerMove PROVE Grows
<1>1. checker \in [Verification -> CheckerRecord] /\ OneChecker
  BY DEF IInv, TypeOK, CheckerRecord
<1>2. CASE checker' = checker BY <1>2 DEF Grows
<1>3. ASSUME NEW p \in Process, Inserts(p) PROVE Grows
  <2>1. \A v \in Verification : checker[v].status = "none" /\ checker[v].session = NoOne
    BY <1>1, <1>3 DEF Inserts, CheckerNumberTaken, OneChecker
  <2> QED BY <2>1, ActiveOrEnded DEF Grows, Ended
<1>4. ASSUME NEW p \in Process, Links(p) PROVE Grows
  BY <1>1, <1>4 DEF Links, Grows, CheckerRecord
<1>5. ASSUME NEW u \in Verification, NEW to \in CheckerActive \cup CheckerEnd, Advances(u, to)
      PROVE  Grows
  <2>1. to # "none" BY ActiveOrEnded
  <2> QED BY <1>1, <1>5, <2>1 DEF Advances, Grows, CheckerRecord
<1> QED BY <1>2, <1>3, <1>4, <1>5 DEF CheckerMove

LEMMA CheckedStays ==
  ASSUME Grows, plan' = plan, Checked PROVE Checked'
<1>1. \A v \in Verification : Succeeded(v) => Succeeded(v)'
  BY ActiveOrEnded DEF Grows, Ended, Succeeded
<1> QED BY <1>1 DEF Checked

\* A process that does not move stays fit for its next statement.
LEMMA FitStays ==
  ASSUME TypeOK, Grows, plan' = plan, NEW p \in Process, Fit(p), proc'[p] = proc[p]
  PROVE  Fit(p)'
<1>1. proc[p].pc \in VerifyingPC => Seen(p) \in Verification BY Numbers DEF Fit, Seen
<1>2. Checked => Checked' BY CheckedStays
<1>3. proc[p].pc \in CheckerPC => proc[p].pc \in VerifyingPC
  BY DEF CheckerPC, VerifyingPC
<1>4. proc[p].pc \in CheckerPC => checker'[Seen(p)].status # "none"
  BY <1>1, <1>3 DEF Fit, Grows
<1>5. At(p, "cli") => checker'[Seen(p)].session = p
  <2>1. ASSUME At(p, "cli") PROVE p \in Worker /\ Seen(p) \in Verification
    BY <1>1, <2>1 DEF Fit, At, VerifyingPC, RequestPC
  <2> QED BY <2>1, NamesAssumption DEF Fit, Grows
<1>6. At(p, "settle") =>
        /\ checker'[Seen(p)].status \in CheckerEnd
        /\ proc[p].verdict = "passed" => checker'[Seen(p)].status = "succeeded"
  <2>1. At(p, "settle") => Seen(p) \in Verification BY <1>1 DEF At, VerifyingPC
  <2> QED BY <2>1 DEF Fit, Grows, Ended, Succeeded
<1>7. Seen(p)' = Seen(p) /\ \A pc \in PC : At(p, pc)' <=> At(p, pc) BY DEF Seen, At
<1> QED BY <1>2, <1>4, <1>5, <1>6, <1>7, PCs DEF Fit, Ended, Succeeded

\* The ways a process moves, and what they leave of its record.
LEMMA Moves ==
  ASSUME TypeOK, NEW p \in Process
  PROVE  /\ \A pc \in PC : Goto(p, pc) =>
              /\ At(p, pc)' /\ Seen(p)' = Seen(p) /\ proc'[p].verdict = proc[p].verdict
              /\ proc'[p].own = proc[p].own /\ proc'[p].made = proc[p].made
         /\ Leave(p) => At(p, "idle")' /\ proc'[p].own = FALSE
<1>1. proc \in [Process -> ProcRecord] /\ proc[p] \in ProcRecord BY Numbers
<1> QED BY <1>1 DEF Goto, Leave, Idle, At, Seen, ProcRecord

LEMMA FitIdle ==
  ASSUME NEW p \in Process, At(p, "idle")', proc'[p].own = FALSE
  PROVE  Fit(p)'
BY DEF Fit, At, RequestPC, VerifyingPC, CheckerPC, CheckedPC

LEMMA FitLeave ==
  ASSUME TypeOK, NEW p \in Process, Leave(p) PROVE Fit(p)'
BY Moves, FitIdle

\* A statement that asks nothing of the process but to be a worker.
LEMMA FitWorker ==
  ASSUME TypeOK, NEW p \in Worker, Fit(p),
         NEW pc \in {"list", "latest", "thrown", "fail"}, Goto(p, pc)
  PROVE  Fit(p)'
<1>1. p \in Process /\ pc \in PC BY PCs DEF Process
<1>2. /\ At(p, pc)' /\ proc'[p].own = proc[p].own /\ proc'[p].made = proc[p].made
  BY <1>1, Moves
<1> QED BY <1>2 DEF Fit, At, RequestPC, VerifyingPC, CheckerPC, CheckedPC

\* One that acts on the verification the process read.
LEMMA FitVerifier ==
  ASSUME TypeOK, NEW p \in Process, Fit(p), Seen(p) # 0,
         NEW pc \in {"check", "insert", "catch", "catchFail", "submit", "block", "writeback"},
         pc \in RequestPC \/ p \in Worker, Goto(p, pc)
  PROVE  Fit(p)'
<1>1. pc \in PC BY PCs
<1>2. /\ At(p, pc)' /\ Seen(p)' = Seen(p)
      /\ proc'[p].own = proc[p].own /\ proc'[p].made = proc[p].made
  BY <1>1, Moves
<1> QED BY <1>2 DEF Fit, At, RequestPC, VerifyingPC, CheckerPC, CheckedPC

LEMMA FitThrow ==
  ASSUME TypeOK, NEW p \in Process, Fit(p), NEW inTry \in BOOLEAN, inTry => Seen(p) # 0,
         Throw(p, inTry)
  PROVE  Fit(p)'
<1>1. CASE p \in Request BY <1>1, FitLeave DEF Throw
<1>2. CASE p \notin Request
  <2>1. p \in Worker BY <1>2 DEF Process
  <2>2. (inTry /\ Goto(p, "catch")) \/ Goto(p, "thrown") BY <1>2 DEF Throw
  <2> QED BY <2>1, <2>2, FitWorker, FitVerifier
<1> QED BY <1>1, <1>2

\* The statements of the worker that runs a started checker.
LEMMA FitChecker ==
  ASSUME TypeOK, NEW p \in Worker, Fit(p), Seen(p) # 0,
         NEW pc \in {"start", "prepare", "activate", "link"}, Goto(p, pc),
         checker'[Seen(p)].status # "none"
  PROVE  Fit(p)'
<1>1. p \in Process /\ pc \in PC BY PCs DEF Process
<1>2. /\ At(p, pc)' /\ Seen(p)' = Seen(p)
      /\ proc'[p].own = proc[p].own /\ proc'[p].made = proc[p].made
  BY <1>1, Moves
<1> QED BY <1>2 DEF Fit, At, RequestPC, VerifyingPC, CheckerPC, CheckedPC

\* The statements that follow a check that passed or was not required.
LEMMA FitChecked ==
  ASSUME TypeOK, NEW p \in Process, Fit(p), Checked',
         NEW pc \in CheckedPC, pc = "finalize" => ~plan'.approval, Goto(p, pc)
  PROVE  Fit(p)'
<1>1. pc \in PC BY PCs DEF CheckedPC
<1>2. /\ At(p, pc)' /\ proc'[p].own = proc[p].own /\ proc'[p].made = proc[p].made
  BY <1>1, Moves
<1> QED BY <1>2 DEF Fit, At, RequestPC, VerifyingPC, CheckerPC, CheckedPC

LEMMA PlanStays == ASSUME [Next]_vars PROVE plan' = plan
<1>1. ASSUME NEW p \in Process, Make(p) PROVE plan' = plan
  BY <1>1 DEF Make, Claim, MakerSucceeds, MakerFails, OpenVerification, AwaitVerification
<1>2. ASSUME NEW p \in Process, Pass(p) PROVE plan' = plan
  BY <1>2 DEF Pass, BeginPass, ListAwaiting, ReadLatest, CheckPending, InsertChecker, ReadChecker,
              PrepareChecker, ActivateChecker, SetupFails, LinkSession, CliEnds, ReadCaught,
              FailChecker
<1>3. ASSUME NEW p \in Process, Submission(p) PROVE plan' = plan
  BY <1>3 DEF Submission, CheckSubmission, SettleVerification, AskApproval, InsertApproval,
              GateItem, FinalizeItem, FinalizeThrows, BlockItem, Writeback
<1> QED BY <1>1, <1>2, <1>3
        DEF Next, Step, RequestChecker, RequestSubmit, GiveUp, FailItem, Crash, LoseChecker,
            CancelChecker, Decide, DecideApproval, ExpireApproval, FallsDue, Recover, Reopen, vars

LEMMA MakeFit ==
  ASSUME TypeOK, NEW p \in Process, Fit(p), plan' = plan, Make(p) PROVE Fit(p)'
<1>1. CASE Claim(p)
  <2>1. PICK n \in Round :
          proc' = [proc EXCEPT ![p] = [Idle EXCEPT !.pc = "make", !.own = TRUE, !.made = n,
                                                   !.passes = proc[p].passes]]
    BY <1>1 DEF Claim
  <2>2. At(p, "make")' /\ proc'[p].made = n BY <2>1, Numbers DEF At, Idle
  <2>3. n # 0 /\ p \in Worker BY <1>1 DEF Claim, Round
  <2> QED BY <2>2, <2>3 DEF Fit, At, RequestPC, VerifyingPC, CheckerPC, CheckedPC
<1>2. At(p, "make") \/ At(p, "open") \/ At(p, "await") => p \in Worker /\ proc[p].made # 0
  BY DEF Fit, At, RequestPC
<1>3. ASSUME NEW pc \in {"open", "await"}, Goto(p, pc), p \in Worker, proc[p].made # 0
      PROVE  Fit(p)'
  <2>1. At(p, pc)' /\ proc'[p].made = proc[p].made BY <1>3, Moves, PCs
  <2> QED BY <1>3, <2>1 DEF Fit, At, RequestPC, VerifyingPC, CheckerPC, CheckedPC
<1>4. CASE MakerSucceeds(p)
  <2>1. CASE plan.check BY <1>2, <1>3, <1>4, <2>1 DEF MakerSucceeds
  <2>2. CASE ~plan.check
    <3>1. Checked' BY <2>2 DEF Checked
    <3>2. \/ plan.approval /\ Goto(p, "ask")
          \/ ~plan.approval /\ Goto(p, "finalize")
      BY <1>4, <2>2 DEF MakerSucceeds
    <3> QED BY <3>1, <3>2, FitChecked DEF CheckedPC
  <2> QED BY <2>1, <2>2
<1>5. CASE MakerFails(p) BY <1>5, FitLeave DEF MakerFails
<1>6. CASE OpenVerification(p) BY <1>2, <1>3, <1>6 DEF OpenVerification
<1>7. CASE AwaitVerification(p) BY <1>2, <1>7, FitWorker DEF AwaitVerification
<1> QED BY <1>1, <1>4, <1>5, <1>6, <1>7 DEF Make

LEMMA PassFit ==
  ASSUME TypeOK, TypeOK', Grows, NEW p \in Process, Fit(p), plan' = plan, Pass(p)
  PROVE  Fit(p)'
<1>1. \A pc \in VerifyingPC : At(p, pc) => Seen(p) # 0 /\ Seen(p) \in Verification
  BY Numbers DEF Fit, At, Seen
<1>2. \A pc : At(p, pc) /\ pc \notin RequestPC => p \in Worker BY DEF Fit, At
<1>3. \A pc \in CheckerPC : At(p, pc) => checker'[Seen(p)].status # "none"
  <2>1. \A pc \in CheckerPC : pc \in VerifyingPC BY DEF CheckerPC, VerifyingPC
  <2> QED BY <1>1, <2>1 DEF Fit, At, Grows
<1>4. CASE BeginPass(p)
  <2>1. /\ At(p, "list")' /\ proc'[p].own = FALSE /\ p \in Worker
    BY <1>4, Numbers DEF BeginPass, At, Idle
  <2> QED BY <2>1 DEF Fit, At, RequestPC, VerifyingPC, CheckerPC, CheckedPC
<1>5. CASE ListAwaiting(p)
  BY <1>2, <1>5, FitWorker, FitLeave DEF ListAwaiting, RequestPC
<1>6. CASE ReadLatest(p)
  <2>1. CASE HasReusableRow
    <3>1. ReusableRow \in Verification BY <2>1 DEF HasReusableRow, ReusableRow
    <3>2. At(p, "check")' /\ Seen(p)' = ReusableRow /\ proc'[p].own = proc[p].own
          /\ proc'[p].made = proc[p].made
      BY <1>6, <2>1, Numbers DEF ReadLatest, At, Seen, ProcRecord
    <3> QED BY <3>1, <3>2
            DEF Fit, At, Verification, RequestPC, VerifyingPC, CheckerPC, CheckedPC
  <2>2. CASE ~HasReusableRow BY <1>6, <2>2, FitLeave DEF ReadLatest
  <2> QED BY <2>1, <2>2
<1>7. ASSUME WithChecker(p), Seen(p) # 0, checker'[Seen(p)].status # "none" PROVE Fit(p)'
  <2>1. p \notin Request => p \in Worker BY DEF Process
  <2> QED BY <1>7, <2>1, FitLeave, FitChecker DEF WithChecker
<1>8. CASE CheckPending(p)
  <2>1. Seen(p) # 0 /\ Seen(p) \in Verification BY <1>1, <1>8 DEF CheckPending, VerifyingPC
  <2>2. \/ Throw(p, FALSE)
        \/ WithChecker(p) /\ checker[Seen(p)].status # "none"
        \/ Goto(p, "insert")
    BY <1>8 DEF CheckPending
  <2>3. checker' = checker BY <1>8 DEF CheckPending
  <2> QED BY <1>7, <2>1, <2>2, <2>3, FitThrow, FitVerifier DEF RequestPC
<1>9. CASE InsertChecker(p)
  <2>1. Seen(p) # 0 /\ Seen(p) \in Verification BY <1>1, <1>9 DEF InsertChecker, VerifyingPC
  <2>2. CASE Throw(p, FALSE) BY <2>1, <2>2, FitThrow
  <2>3. CASE /\ checker' = [checker EXCEPT ![Seen(p)] = [status |-> "queued", session |-> NoOne]]
             /\ WithChecker(p)
    <3>1. checker'[Seen(p)].status = "queued" BY <2>1, <2>3 DEF TypeOK
    <3> QED BY <1>7, <2>1, <2>3, <3>1
  <2> QED BY <1>9, <2>2, <2>3 DEF InsertChecker
<1>10. ASSUME NEW pc \in CheckerPC, At(p, pc)
       PROVE  p \in Worker /\ Seen(p) # 0 /\ checker'[Seen(p)].status # "none"
  BY <1>1, <1>2, <1>3, <1>10 DEF CheckerPC, VerifyingPC, RequestPC
<1>11. CASE ReadChecker(p)
  <2>1. \/ \E pc \in {"prepare", "activate", "link"} : Goto(p, pc)
        \/ Goto(p, "catchFail")
    BY <1>11 DEF ReadChecker, Started
  <2>2. At(p, "start") BY <1>11 DEF ReadChecker
  <2>3. p \in Process BY <1>10, <2>2 DEF CheckerPC, Process
  <2> QED BY <1>10, <2>1, <2>2, <2>3, FitChecker, FitVerifier DEF CheckerPC
<1>12. CASE PrepareChecker(p)
  BY <1>10, <1>12, FitChecker, FitThrow DEF PrepareChecker, Transition, CheckerPC
<1>13. CASE ActivateChecker(p)
  <2>1. Goto(p, "link") \/ Goto(p, "catchFail") \/ Throw(p, TRUE)
    BY <1>13 DEF ActivateChecker, Transition, Started
  <2>2. p \in Worker /\ Seen(p) # 0 /\ checker'[Seen(p)].status # "none"
    BY <1>10, <1>13 DEF ActivateChecker, CheckerPC
  <2> QED BY <2>1, <2>2, FitChecker, FitVerifier, FitThrow
<1>14. CASE SetupFails(p) BY <1>10, <1>14, FitThrow DEF SetupFails, CheckerPC
<1>15. CASE LinkSession(p)
  <2>1. p \in Worker /\ Seen(p) # 0 /\ checker'[Seen(p)].status # "none"
        /\ Seen(p) \in Verification
    BY <1>1, <1>10, <1>15 DEF LinkSession, CheckerPC, VerifyingPC
  <2>2. CASE Throw(p, TRUE) BY <2>1, <2>2, FitThrow
  <2>3. CASE checker' = [checker EXCEPT ![Seen(p)].session = p] /\ Goto(p, "cli")
    <3>1. checker'[Seen(p)].session = p BY <2>1, <2>3 DEF TypeOK
    <3>2. /\ At(p, "cli")' /\ Seen(p)' = Seen(p)
          /\ proc'[p].own = proc[p].own /\ proc'[p].made = proc[p].made
      BY <2>3, Moves, PCs
    <3> QED BY <2>1, <3>1, <3>2 DEF Fit, At, RequestPC, VerifyingPC, CheckerPC, CheckedPC
  <2> QED BY <1>15, <2>2, <2>3 DEF LinkSession
<1>16. CASE CliEnds(p)
  <2>1. Seen(p) # 0 /\ p \in Worker BY <1>10, <1>16 DEF CliEnds, CheckerPC
  <2>2. Throw(p, TRUE) \/ \E out, verdict : CliOutcome(p, out, verdict) BY <1>16 DEF CliEnds
  <2>3. ASSUME NEW out, NEW verdict, CliOutcome(p, out, verdict) PROVE Fit(p)'
    <3>1. /\ At(p, "submit")' /\ Seen(p)' = Seen(p)
          /\ proc'[p].own = proc[p].own /\ proc'[p].made = proc[p].made
      BY <2>3, Numbers DEF CliOutcome, At, Seen, ProcRecord
    <3> QED BY <2>1, <3>1 DEF Fit, At, RequestPC, VerifyingPC, CheckerPC, CheckedPC
  <2> QED BY <2>1, <2>2, <2>3, FitThrow
<1>17. CASE ReadCaught(p)
  <2>1. Seen(p) # 0 /\ p \in Worker BY <1>1, <1>2, <1>17 DEF ReadCaught, VerifyingPC, RequestPC
  <2>2. PICK pc \in {"submit", "start", "catchFail"} :
          /\ pc = AfterCatch(checker[Seen(p)].status)
          /\ proc' = [proc EXCEPT ![p].caught = TRUE, ![p].verdict = "failed", ![p].pc = pc]
    BY <1>17, CaughtPC DEF ReadCaught
  <2>3. /\ At(p, pc)' /\ Seen(p)' = Seen(p)
        /\ proc'[p].own = proc[p].own /\ proc'[p].made = proc[p].made
    BY <2>2, Numbers DEF At, Seen, ProcRecord
  <2>4. checker' = checker BY <1>17 DEF ReadCaught
  <2>5. pc = "start" => checker[Seen(p)].status \in {"queued", "preparing"}
    BY <2>2, CaughtPC
  <2> QED BY <2>1, <2>3, <2>4, <2>5 DEF Fit, At, RequestPC, VerifyingPC, CheckerPC, CheckedPC
<1>18. CASE FailChecker(p)
  <2>1. Seen(p) # 0 BY <1>1, <1>18 DEF FailChecker, VerifyingPC
  <2>2. Goto(p, "submit") \/ Throw(p, TRUE) BY <1>18 DEF FailChecker
  <2> QED BY <2>1, <2>2, FitVerifier, FitThrow DEF RequestPC
<1> QED BY <1>4, <1>5, <1>6, <1>8, <1>9, <1>11, <1>12, <1>13, <1>14, <1>15, <1>16, <1>17, <1>18
        DEF Pass

LEMMA SubmissionFit ==
  ASSUME TypeOK, NEW p \in Process, Fit(p), VerdictsRestOnChecks, plan' = plan, Submission(p),
         checker' = checker
  PROVE  Fit(p)'
<1>1. \A pc \in VerifyingPC : At(p, pc) => Seen(p) # 0 /\ Seen(p) \in Verification
  BY Numbers DEF Fit, At, Seen
<1>2. Checked => Checked' BY DEF Checked, Succeeded
<1>3. CASE CheckSubmission(p)
  <2>1. Seen(p) # 0 BY <1>1, <1>3 DEF CheckSubmission, VerifyingPC
  <2>2. CASE Throw(p, TRUE) BY <2>1, <2>2, FitThrow
  <2>3. CASE Submittable(Seen(p), proc[p].verdict) /\ Goto(p, "settle")
    <3>1. /\ At(p, "settle")' /\ Seen(p)' = Seen(p) /\ proc'[p].verdict = proc[p].verdict
          /\ proc'[p].own = proc[p].own /\ proc'[p].made = proc[p].made
      BY <2>3, Moves, PCs
    <3>2. Ended(Seen(p))' /\ (proc'[p].verdict = "passed" => Succeeded(Seen(p))')
      BY <2>3, <3>1 DEF Submittable, Ended, Succeeded
    <3> QED BY <2>1, <3>1, <3>2 DEF Fit, At, RequestPC, VerifyingPC, CheckerPC, CheckedPC
  <2> QED BY <1>3, <2>2, <2>3 DEF CheckSubmission
<1>4. CASE SettleVerification(p)
  <2>1. Seen(p) # 0 /\ Seen(p) \in Verification BY <1>1, <1>4 DEF SettleVerification, VerifyingPC
  <2>2. CASE proc[p].verdict # "passed"
    BY <1>4, <2>1, <2>2, FitVerifier DEF SettleVerification, RequestPC
  <2>3. CASE proc[p].verdict = "passed"
    <3>1. Succeeded(Seen(p)) BY <1>4, <2>3 DEF SettleVerification, Fit
    <3>2. Checked' BY <1>2, <2>1, <3>1 DEF Checked
    <3>3. \/ plan.approval /\ Goto(p, "ask")
          \/ ~plan.approval /\ Goto(p, "finalize")
      BY <1>4, <2>3 DEF SettleVerification
    <3> QED BY <3>2, <3>3, FitChecked DEF CheckedPC
  <2> QED BY <2>2, <2>3
<1>5. \A pc \in CheckedPC : At(p, pc) => Checked' BY <1>2 DEF Fit, At
<1>6. CASE AskApproval(p)
  BY <1>5, <1>6, FitChecked DEF AskApproval, CheckedPC
<1>7. CASE InsertApproval(p)
  BY <1>5, <1>7, FitChecked DEF InsertApproval, CheckedPC
<1>8. Submitted(p) => Fit(p)' BY FitLeave, FitVerifier DEF Submitted
<1>9. Advanced(p) => Fit(p)' BY <1>8, FitWorker DEF Advanced
<1>10. CASE GateItem(p) BY <1>9, <1>10 DEF GateItem
<1>11. CASE FinalizeItem(p) BY <1>9, <1>11 DEF FinalizeItem
<1>12. CASE FinalizeThrows(p) BY <1>12, FitThrow DEF FinalizeThrows
<1>13. CASE BlockItem(p) BY <1>8, <1>13 DEF BlockItem
<1>14. CASE Writeback(p)
  <2>1. Seen(p) # 0 BY <1>1, <1>14 DEF Writeback, VerifyingPC
  <2> QED BY <1>14, <2>1, FitLeave, FitThrow DEF Writeback
<1> QED BY <1>3, <1>4, <1>6, <1>7, <1>10, <1>11, <1>12, <1>13, <1>14 DEF Submission

LEMMA StepFit ==
  ASSUME IInv, TypeOK', Grows, NEW p \in Process, plan' = plan, Step(p)
  PROVE  \A q \in Process : Fit(q)'
<1>1. TypeOK /\ Fit(p) /\ VerdictsRestOnChecks BY DEF IInv
<1>2. ASSUME Make(p) PROVE Fit(p)' BY <1>1, <1>2, MakeFit
<1>3. ASSUME Pass(p) PROVE Fit(p)' BY <1>1, <1>3, PassFit
<1>4. ASSUME Submission(p) PROVE Fit(p)'
  <2>1. checker' = checker
    BY <1>4 DEF Submission, CheckSubmission, SettleVerification, AskApproval, InsertApproval,
                GateItem, FinalizeItem, FinalizeThrows, BlockItem, Writeback
  <2> QED BY <1>1, <1>4, <2>1, SubmissionFit
<1>5. ASSUME NEW pc \in {"check", "submit"}, NEW v \in Verification,
             At(p, pc)', Seen(p)' = v, proc'[p].own = FALSE
      PROVE  Fit(p)'
  BY <1>5 DEF Fit, At, Verification, RequestPC, VerifyingPC, CheckerPC, CheckedPC
<1>6. ASSUME RequestChecker(p) PROVE Fit(p)'
  <2>1. PICK v \in Verification :
          proc' = [proc EXCEPT ![p] = [Idle EXCEPT !.pc = "check", !.v = v,
                                                   !.passes = proc[p].passes + 1]]
    BY <1>6 DEF RequestChecker
  <2>2. At(p, "check")' /\ Seen(p)' = v /\ proc'[p].own = FALSE
    BY <1>1, <2>1, Numbers DEF At, Seen, Idle
  <2> QED BY <1>5, <2>2
<1>7. ASSUME RequestSubmit(p) PROVE Fit(p)'
  <2>1. PICK v \in Verification, verdict \in Verdict :
          proc' = [proc EXCEPT ![p] = [Idle EXCEPT !.pc = "submit", !.v = v, !.verdict = verdict,
                                                   !.passes = proc[p].passes + 1]]
    BY <1>7 DEF RequestSubmit
  <2>2. At(p, "submit")' /\ Seen(p)' = v /\ proc'[p].own = FALSE
    BY <1>1, <2>1, Numbers DEF At, Seen, Idle
  <2> QED BY <1>5, <2>2
<1>8. ASSUME GiveUp(p) PROVE Fit(p)'
  <2>1. p \in Worker BY <1>1, <1>8 DEF GiveUp, Fit, At, RequestPC
  <2> QED BY <1>1, <1>8, <2>1, FitWorker, FitLeave DEF GiveUp
<1>9. ASSUME FailItem(p) PROVE Fit(p)' BY <1>1, <1>9, FitLeave DEF FailItem
<1>10. ASSUME Crash(p) PROVE Fit(p)' BY <1>1, <1>10, FitLeave DEF Crash
<1>11. Fit(p)' BY <1>2, <1>3, <1>4, <1>6, <1>7, <1>8, <1>9, <1>10 DEF Step
<1>12. \A q \in Process : q # p => proc'[q] = proc[q]
  <2>1. proc \in [Process -> ProcRecord] BY <1>1, Numbers
  <2>2. \A pc : Goto(p, pc) => \A q \in Process : q # p => proc'[q] = proc[q]
    BY <2>1 DEF Goto
  <2>3. Leave(p) => \A q \in Process : q # p => proc'[q] = proc[q] BY <2>1 DEF Leave
  <2>4. \A inTry : Throw(p, inTry) => \A q \in Process : q # p => proc'[q] = proc[q]
    BY <2>2, <2>3 DEF Throw
  <2>5. CASE Make(p)
    BY <2>1, <2>2, <2>3, <2>5
       DEF Make, Claim, MakerSucceeds, MakerFails, OpenVerification, AwaitVerification
  <2>6. CASE Pass(p)
    BY <2>1, <2>2, <2>3, <2>4, <2>6
       DEF Pass, BeginPass, ListAwaiting, ReadLatest, CheckPending, InsertChecker, ReadChecker,
           PrepareChecker, ActivateChecker, SetupFails, LinkSession, CliEnds, CliOutcome,
           ReadCaught, FailChecker, Transition, WithChecker
  <2>7. CASE Submission(p)
    BY <2>2, <2>3, <2>4, <2>7
       DEF Submission, CheckSubmission, SettleVerification, AskApproval, InsertApproval, GateItem,
           FinalizeItem, FinalizeThrows, BlockItem, Writeback, Advanced, Submitted
  <2> QED BY <2>1, <2>2, <2>3, <2>5, <2>6, <2>7
          DEF Step, RequestChecker, RequestSubmit, GiveUp, FailItem, Crash
<1>13. ASSUME NEW q \in Process, q # p PROVE Fit(q)'
  BY <1>1, <1>12, <1>13, FitStays DEF IInv
<1> QED BY <1>11, <1>13

-----------------------------------------------------------------------------
(* The tables keep their types *)

LEMMA StepTables ==
  ASSUME TypeOK, NEW p \in Process, Fit(p), Step(p)
  PROVE  /\ item' \in ItemStatus
         /\ maker' \in [Round -> MakerStatus]
         /\ verification' \in [Verification -> VerificationRecord]
         /\ approval' \in [Approval -> ApprovalRecord]
         /\ orphaned' \subseteq Round
<1>1. /\ item \in ItemStatus /\ maker \in [Round -> MakerStatus]
      /\ verification \in [Verification -> VerificationRecord]
      /\ approval \in [Approval -> ApprovalRecord] /\ orphaned \subseteq Round
  BY DEF TypeOK, VerificationRecord, ApprovalRecord
<1>2. CASE Make(p)
  <2>1. item' \in ItemStatus
    BY <1>1, <1>2, Statuses
       DEF Make, Claim, MakerSucceeds, MakerFails, OpenVerification, AwaitVerification
  <2>2. maker' \in [Round -> MakerStatus]
    BY <1>1, <1>2, Statuses
       DEF Make, Claim, MakerSucceeds, MakerFails, OpenVerification, AwaitVerification
  <2>3. verification' \in [Verification -> VerificationRecord]
    <3>1. CASE OpenVerification(p)
      <4>1. proc[p].made \in 0 .. MaxRounds BY Numbers DEF ProcRecord
      <4>2. [status |-> "pending", maker |-> proc[p].made] \in VerificationRecord
        BY <4>1, Statuses DEF VerificationRecord
      <4> QED BY <1>1, <3>1, <4>2 DEF OpenVerification
    <3> QED BY <1>1, <1>2, <3>1 DEF Make, Claim, MakerSucceeds, MakerFails, AwaitVerification
  <2> QED BY <1>1, <1>2, <2>1, <2>2, <2>3
          DEF Make, Claim, MakerSucceeds, MakerFails, OpenVerification, AwaitVerification
<1>3. CASE Pass(p)
  BY <1>1, <1>3
     DEF Pass, BeginPass, ListAwaiting, ReadLatest, CheckPending, InsertChecker, ReadChecker,
         PrepareChecker, ActivateChecker, SetupFails, LinkSession, CliEnds, ReadCaught, FailChecker
<1>4. CASE Submission(p)
  <2>1. item' \in ItemStatus
    BY <1>1, <1>4, Statuses
       DEF Submission, CheckSubmission, SettleVerification, AskApproval, InsertApproval, GateItem,
           FinalizeItem, FinalizeThrows, BlockItem, Writeback
  <2>2. verification' \in [Verification -> VerificationRecord]
    <3>1. proc[p].verdict \in VerificationStatus BY Numbers DEF VerificationStatus
    <3> QED BY <1>1, <1>4, <3>1
            DEF Submission, CheckSubmission, SettleVerification, AskApproval, InsertApproval,
                GateItem, FinalizeItem, FinalizeThrows, BlockItem, Writeback, VerificationRecord
  <2>3. approval' \in [Approval -> ApprovalRecord]
    <3>1. [status |-> "requested", due |-> FALSE] \in ApprovalRecord
      BY Statuses DEF ApprovalRecord
    <3> QED BY <1>1, <1>4, <3>1
            DEF Submission, CheckSubmission, SettleVerification, AskApproval, InsertApproval,
                GateItem, FinalizeItem, FinalizeThrows, BlockItem, Writeback
  <2> QED BY <1>1, <1>4, <2>1, <2>2, <2>3
          DEF Submission, CheckSubmission, SettleVerification, AskApproval, InsertApproval,
              GateItem, FinalizeItem, FinalizeThrows, BlockItem, Writeback
<1>5. CASE FailItem(p) BY <1>1, <1>5, Statuses DEF FailItem
<1>6. CASE Crash(p)
  <2>1. proc[p].own => proc[p].made \in Round BY Numbers DEF Fit
  <2> QED BY <1>1, <1>6, <2>1 DEF Crash
<1> QED BY <1>1, <1>2, <1>3, <1>4, <1>5, <1>6 DEF Step, RequestChecker, RequestSubmit, GiveUp

LEMMA MoveTypes ==
  ASSUME TypeOK, \A p \in Process : Fit(p), CheckerMove
  PROVE  checker' \in [Verification -> CheckerRecord]
<1>1. checker \in [Verification -> CheckerRecord] BY DEF TypeOK, CheckerRecord
<1>2. ASSUME NEW p \in Process, Inserts(p) PROVE checker' \in [Verification -> CheckerRecord]
  <2>1. [status |-> "queued", session |-> NoOne] \in CheckerRecord
    BY CheckerStatuses DEF CheckerRecord
  <2> QED BY <1>1, <1>2, <2>1 DEF Inserts
<1>3. ASSUME NEW p \in Process, Links(p) PROVE checker' \in [Verification -> CheckerRecord]
  <2>1. p \in Worker BY <1>3 DEF Links, At, Fit, RequestPC
  <2> QED BY <1>1, <1>3, <2>1 DEF Links, CheckerRecord
<1>4. ASSUME NEW v \in Verification, NEW to \in CheckerActive \cup CheckerEnd, Advances(v, to)
      PROVE  checker' \in [Verification -> CheckerRecord]
  <2>1. to \in CheckerStatus BY DEF CheckerStatus
  <2> QED BY <1>1, <1>4, <2>1 DEF Advances, CheckerRecord
<1> QED BY <1>1, <1>2, <1>3, <1>4 DEF CheckerMove

LEMMA NextTypes ==
  ASSUME IInv, [Next]_vars PROVE TypeOK'
<1>1. TypeOK /\ \A p \in Process : Fit(p) BY DEF IInv
<1>2. plan' \in Plan BY <1>1, PlanStays DEF TypeOK
<1>3. checker' \in [Verification -> CheckerRecord] BY <1>1, NextChecker, MoveTypes
<1> DEFINE Others == /\ item' \in ItemStatus
                     /\ maker' \in [Round -> MakerStatus]
                     /\ verification' \in [Verification -> VerificationRecord]
                     /\ approval' \in [Approval -> ApprovalRecord]
                     /\ orphaned' \subseteq Round
                     /\ proc' \in [Process -> ProcRecord]
<1>4. SUFFICES Others BY <1>2, <1>3 DEF TypeOK, VerificationRecord, ApprovalRecord, CheckerRecord
<1>5. /\ item \in ItemStatus /\ maker \in [Round -> MakerStatus]
      /\ verification \in [Verification -> VerificationRecord]
      /\ approval \in [Approval -> ApprovalRecord] /\ orphaned \subseteq Round
      /\ proc \in [Process -> ProcRecord]
  BY <1>1 DEF TypeOK, VerificationRecord, ApprovalRecord
<1>6. ASSUME NEW p \in Process, Step(p) PROVE Others BY <1>1, <1>6, StepTables, StepProc
<1>7. ASSUME NEW v \in Verification, LoseChecker(v) \/ CancelChecker(v) PROVE Others
  BY <1>5, <1>7 DEF LoseChecker, CancelChecker
<1>8. ASSUME NEW a \in Approval, Decide(a) PROVE Others
  <2>1. Decision \subseteq ApprovalStatus BY DEF ApprovalStatus
  <2>2. approval' \in [Approval -> ApprovalRecord]
    BY ZenonT(30), <1>5, <1>8, <2>1, Statuses
       DEF Decide, DecideApproval, ExpireApproval, FallsDue, ApprovalRecord
  <2>3. item' \in ItemStatus
    BY <1>5, <1>8, Statuses DEF Decide, DecideApproval, ExpireApproval, FallsDue
  <2> QED BY <1>5, <1>8, <2>2, <2>3 DEF Decide, DecideApproval, ExpireApproval, FallsDue
<1>9. ASSUME NEW n \in Round, Recover(n) PROVE Others
  <2>1. item' \in ItemStatus BY <1>5, <1>9, Statuses DEF Recover
  <2>2. maker' \in [Round -> MakerStatus] BY <1>5, <1>9, Statuses DEF Recover
  <2> QED BY <1>5, <1>9, <2>1, <2>2 DEF Recover
<1>10. CASE Reopen BY <1>5, <1>10, Statuses DEF Reopen
<1>11. CASE UNCHANGED vars BY <1>5, <1>11 DEF vars
<1> QED BY <1>6, <1>7, <1>8, <1>9, <1>10, <1>11 DEF Next

-----------------------------------------------------------------------------
(* The invariant is inductive *)

LEMMA NextOneChecker ==
  ASSUME IInv, CheckerMove PROVE OneChecker'
<1>1. checker \in [Verification -> CheckerRecord] /\ OneChecker /\ \A p \in Process : Fit(p)
  BY DEF IInv, TypeOK, CheckerRecord
<1>2. CASE checker' = checker BY <1>1, <1>2 DEF OneChecker
<1>3. ASSUME NEW p \in Process, Inserts(p) PROVE OneChecker'
  <2>1. \A v \in Verification : checker[v].status = "none" /\ checker[v].session = NoOne
    BY <1>1, <1>3 DEF Inserts, CheckerNumberTaken, OneChecker
  <2> QED BY <1>1, <1>3, <2>1 DEF Inserts, OneChecker
<1>4. ASSUME NEW p \in Process, Links(p) PROVE OneChecker'
  <2>1. checker[Seen(p)].status # "none" BY <1>1, <1>4 DEF Links, Fit, At, CheckerPC
  <2>2. \A v \in Verification : checker'[v].status = checker[v].status
    BY <1>1, <1>4 DEF Links, CheckerRecord
  <2>3. \A v \in Verification : v # Seen(p) => checker'[v].session = checker[v].session
    BY <1>1, <1>4 DEF Links, CheckerRecord
  <2> QED BY <1>1, <2>1, <2>2, <2>3 DEF OneChecker
<1>5. ASSUME NEW u \in Verification, NEW to \in CheckerActive \cup CheckerEnd, Advances(u, to)
      PROVE  OneChecker'
  <2>1. \A v \in Verification : /\ checker'[v].status # "none" <=> checker[v].status # "none"
                                /\ checker'[v].session = checker[v].session
    BY <1>1, <1>5, ActiveOrEnded DEF Advances, CheckerRecord
  <2> QED BY <1>1, <2>1 DEF OneChecker
<1> QED BY <1>2, <1>3, <1>4, <1>5 DEF CheckerMove

\* the verdicts are written by SettleVerification only
LEMMA VerificationMove ==
  ASSUME TypeOK, [Next]_vars, NEW v \in Verification, verification'[v].status \in Verdict
  PROVE  \/ verification'[v].status = verification[v].status
         \/ \E p \in Process : /\ At(p, "settle") /\ v = Seen(p)
                               /\ verification'[v].status = proc[p].verdict
<1>1. verification \in [Verification -> VerificationRecord] BY DEF TypeOK, VerificationRecord
<1>2. ASSUME NEW p \in Process, OpenVerification(p)
      PROVE  verification'[v].status = verification[v].status
  BY <1>1, <1>2 DEF OpenVerification, Verdict
<1>3. ASSUME NEW p \in Process, SettleVerification(p)
      PROVE  \/ verification'[v].status = verification[v].status
             \/ v = Seen(p) /\ verification'[v].status = proc[p].verdict
  BY <1>1, <1>3 DEF SettleVerification, VerificationRecord
<1>4. ASSUME NEW p \in Process, Step(p), ~OpenVerification(p), ~SettleVerification(p)
      PROVE  verification' = verification
  <2>1. CASE Make(p)
    BY <1>4, <2>1 DEF Make, Claim, MakerSucceeds, MakerFails, AwaitVerification
  <2>2. CASE Pass(p)
    BY <2>2 DEF Pass, BeginPass, ListAwaiting, ReadLatest, CheckPending, InsertChecker,
                ReadChecker, PrepareChecker, ActivateChecker, SetupFails, LinkSession, CliEnds,
                ReadCaught, FailChecker
  <2>3. CASE Submission(p)
    BY <1>4, <2>3 DEF Submission, CheckSubmission, AskApproval, InsertApproval, GateItem,
                      FinalizeItem, FinalizeThrows, BlockItem, Writeback
  <2> QED BY <1>4, <2>1, <2>2, <2>3
          DEF Step, RequestChecker, RequestSubmit, GiveUp, FailItem, Crash
<1>5. (\E p \in Process : Step(p)) \/ verification' = verification
  BY DEF Next, LoseChecker, CancelChecker, Decide, DecideApproval, ExpireApproval, FallsDue,
         Recover, Reopen, vars
<1> QED BY <1>2, <1>3, <1>4, <1>5 DEF SettleVerification

LEMMA NextVerdicts ==
  ASSUME IInv, [Next]_vars, Grows PROVE VerdictsRestOnChecks'
<1>1. TypeOK /\ VerdictsRestOnChecks /\ \A p \in Process : Fit(p) BY DEF IInv
<1>2. ASSUME NEW v \in Verification, verification'[v].status \in Verdict
      PROVE  /\ checker[v].status \in CheckerEnd
             /\ verification'[v].status = "passed" => checker[v].status = "succeeded"
  <2>1. CASE verification'[v].status = verification[v].status
    BY <1>1, <1>2, <2>1 DEF VerdictsRestOnChecks
  <2>2. CASE \E p \in Process : /\ At(p, "settle") /\ v = Seen(p)
                                /\ verification'[v].status = proc[p].verdict
    BY <1>1, <2>2 DEF Fit, Ended, Succeeded
  <2> QED BY <1>1, <1>2, <2>1, <2>2, VerificationMove
<1>3. "passed" \in Verdict BY DEF Verdict
<1> QED BY <1>2, <1>3 DEF VerdictsRestOnChecks, Grows, Ended

\* An item is completed by a finalization or an approval, waits for approval
\* by a gate, and an approval once given stays.
LEMMA ItemMove ==
  ASSUME TypeOK, [Next]_vars
  PROVE  /\ item' = "completed" =>
              \/ item = "completed"
              \/ \E p \in Process : FinalizeItem(p)
              \/ \E a \in Approval : DecideApproval(a, "approved")
         /\ item' = "awaiting_approval" =>
              item = "awaiting_approval" \/ \E p \in Process : GateItem(p)
         /\ \A a \in Approval :
              approval[a].status = "approved" => approval'[a].status = "approved"
<1>1. approval \in [Approval -> ApprovalRecord] BY DEF TypeOK, ApprovalRecord
<1> DEFINE Same == item' = item \/ item' \notin {"completed", "awaiting_approval"}
           Kept == \A a \in Approval :
                     approval[a].status = "approved" => approval'[a].status = "approved"
<1>2. ASSUME NEW p \in Process, Make(p) PROVE Same /\ Kept
  BY <1>2 DEF Make, Claim, MakerSucceeds, MakerFails, OpenVerification, AwaitVerification
<1>3. ASSUME NEW p \in Process, Pass(p) PROVE Same /\ Kept
  BY <1>3 DEF Pass, BeginPass, ListAwaiting, ReadLatest, CheckPending, InsertChecker, ReadChecker,
              PrepareChecker, ActivateChecker, SetupFails, LinkSession, CliEnds, ReadCaught,
              FailChecker
<1>4. ASSUME NEW p \in Process, Submission(p)
      PROVE  (Same \/ FinalizeItem(p) \/ GateItem(p)) /\ Kept
  <2>1. CASE InsertApproval(p)
    <3>1. Kept BY <1>1, <2>1 DEF InsertApproval, IsNextApproval
    <3> QED BY <2>1, <3>1 DEF InsertApproval
  <2> QED BY <1>4, <2>1
          DEF Submission, CheckSubmission, SettleVerification, AskApproval, GateItem, FinalizeItem,
              FinalizeThrows, BlockItem, Writeback
<1>5. ASSUME NEW p \in Process, Step(p)
      PROVE  (Same \/ FinalizeItem(p) \/ GateItem(p)) /\ Kept
  BY <1>2, <1>3, <1>4, <1>5 DEF Step, RequestChecker, RequestSubmit, GiveUp, FailItem, Crash
<1>6. ASSUME NEW a \in Approval, Decide(a)
      PROVE  (Same \/ DecideApproval(a, "approved")) /\ Kept
  <2>1. Kept
    BY <1>1, <1>6 DEF Decide, DecideApproval, ExpireApproval, FallsDue, Requested, ApprovalRecord
  <2>2. Same \/ DecideApproval(a, "approved")
    BY <1>6 DEF Decide, DecideApproval, ExpireApproval, FallsDue
  <2> QED BY <2>1, <2>2
<1>7. ASSUME NEW n \in Round, Recover(n) PROVE Same /\ Kept BY <1>7 DEF Recover
<1>8. ASSUME Reopen \/ UNCHANGED vars PROVE Same /\ Kept BY <1>8 DEF Reopen, vars
<1>9. ASSUME NEW v \in Verification, LoseChecker(v) \/ CancelChecker(v) PROVE Same /\ Kept
  BY <1>9 DEF LoseChecker, CancelChecker
<1>10. ASSUME Same, Kept
       PROVE  /\ item' = "completed" => item = "completed"
              /\ item' = "awaiting_approval" => item = "awaiting_approval"
  BY <1>10
<1>11. ASSUME NEW p \in Process, FinalizeItem(p) PROVE item' = "completed"
  BY <1>11 DEF FinalizeItem
<1>12. ASSUME NEW p \in Process, GateItem(p) PROVE item' = "awaiting_approval"
  BY <1>12 DEF GateItem
<1>13. ASSUME NEW a \in Approval, DecideApproval(a, "approved") PROVE item' = "completed"
  BY <1>13 DEF DecideApproval
<1> HIDE DEF Same, Kept
<1>14. Kept BY <1>5, <1>6, <1>7, <1>8, <1>9 DEF Next
<1>15. \/ Same \/ \E p \in Process : FinalizeItem(p) \/ GateItem(p)
       \/ \E a \in Approval : DecideApproval(a, "approved")
  BY <1>5, <1>6, <1>7, <1>8, <1>9 DEF Next
<1> QED BY <1>10, <1>11, <1>12, <1>13, <1>14, <1>15 DEF Kept

LEMMA NextEvidence ==
  ASSUME IInv, [Next]_vars, Grows
  PROVE  EvidenceClosesWork' /\ (item' = "awaiting_approval" => Checked')
<1>1. /\ TypeOK /\ EvidenceClosesWork /\ \A p \in Process : Fit(p)
      /\ item = "awaiting_approval" => Checked
  BY DEF IInv
<1>2. plan' = plan BY PlanStays
<1>3. Checked => Checked' BY <1>2, CheckedStays
<1> DEFINE Approved == plan.approval => \E a \in Approval : approval[a].status = "approved"
<1>4. Approved => Approved' BY <1>1, <1>2, ItemMove
<1>5. EvidenceClosesWork <=> (item = "completed" => Checked /\ Approved)
  BY DEF EvidenceClosesWork, Checked, Succeeded
<1>6. EvidenceClosesWork' <=> (item' = "completed" => Checked' /\ Approved')
  BY DEF EvidenceClosesWork, Checked, Succeeded
<1>7. ASSUME NEW p \in Process, FinalizeItem(p) PROVE Checked /\ Approved
  <2>1. At(p, "finalize") BY <1>7 DEF FinalizeItem
  <2> QED BY <1>1, <2>1 DEF Fit, At, CheckedPC
<1>8. ASSUME NEW a \in Approval, DecideApproval(a, "approved") PROVE Checked /\ Approved'
  <2>1. approval'[a].status = "approved" BY <1>1, <1>8 DEF DecideApproval, TypeOK
  <2> QED BY <1>1, <1>8, <2>1 DEF DecideApproval
<1>9. ASSUME NEW p \in Process, GateItem(p) PROVE Checked
  <2>1. At(p, "gate") BY <1>9 DEF GateItem
  <2> QED BY <1>1, <2>1 DEF Fit, At, CheckedPC
<1> HIDE DEF Approved
<1>10. item' = "completed" => Checked' /\ Approved'
  BY <1>1, <1>3, <1>4, <1>5, <1>7, <1>8, ItemMove
<1>11. item' = "awaiting_approval" => Checked' BY <1>1, <1>3, <1>9, ItemMove
<1> QED BY <1>6, <1>10, <1>11

LEMMA InitInv == Init => IInv
<1> SUFFICES ASSUME Init PROVE IInv OBVIOUS
<1>1. TypeOK
  <2>1. Idle \in ProcRecord
    <3>1. 0 \in 0 .. MaxPasses /\ 0 \in 0 .. MaxRounds BY BoundsAssumption
    <3>2. "failed" \in Verdict BY DEF Verdict
    <3> QED BY <3>1, <3>2, PCs DEF Idle, ProcRecord
  <2>2. NoRow \in VerificationRecord
    BY BoundsAssumption DEF NoRow, VerificationRecord, VerificationStatus
  <2>3. NoChecker \in CheckerRecord BY DEF NoChecker, CheckerRecord, CheckerStatus
  <2>4. NoApproval \in ApprovalRecord BY DEF NoApproval, ApprovalRecord, ApprovalStatus
  <2>5. item \in ItemStatus /\ "none" \in MakerStatus BY Statuses DEF Init, MakerStatus
  <2> HIDE DEF Idle, NoRow, NoChecker, NoApproval
  <2>6. /\ plan \in Plan /\ maker \in [Round -> MakerStatus] /\ orphaned \subseteq Round
        /\ verification \in [Verification -> VerificationRecord]
        /\ checker \in [Verification -> CheckerRecord]
        /\ approval \in [Approval -> ApprovalRecord]
        /\ proc \in [Process -> ProcRecord]
    BY <2>1, <2>2, <2>3, <2>4, <2>5 DEF Init
  <2> QED BY <2>5, <2>6 DEF TypeOK, VerificationRecord, CheckerRecord, ApprovalRecord
<1>2. ASSUME NEW p \in Process PROVE Fit(p)
  <2>1. At(p, "idle") /\ proc[p].own = FALSE BY DEF Init, Idle, At
  <2> QED BY <2>1 DEF Fit, At, RequestPC, VerifyingPC, CheckerPC, CheckedPC
<1>3. OneChecker BY DEF Init, NoChecker, OneChecker
<1>4. item = "ready" BY DEF Init
<1>5. EvidenceClosesWork BY <1>4 DEF EvidenceClosesWork
<1>6. VerdictsRestOnChecks BY DEF Init, NoRow, VerdictsRestOnChecks, Verdict
<1> QED BY <1>1, <1>2, <1>3, <1>4, <1>5, <1>6 DEF IInv

LEMMA NextInv == IInv /\ [Next]_vars => IInv'
<1> SUFFICES ASSUME IInv, [Next]_vars PROVE IInv' OBVIOUS
<1>1. CheckerMove BY NextChecker
<1>2. Grows BY <1>1, CheckerGrows
<1>3. TypeOK' BY NextTypes
<1>4. plan' = plan BY PlanStays
<1>5. \A p \in Process : Fit(p)'
  <2>1. ASSUME NEW q \in Process, Step(q) PROVE \A p \in Process : Fit(p)'
    BY <1>2, <1>3, <1>4, <2>1, StepFit
  <2>2. ASSUME proc' = proc PROVE \A p \in Process : Fit(p)'
    BY <1>2, <1>4, <2>2, FitStays DEF IInv
  <2> QED BY <2>1, <2>2
          DEF Next, LoseChecker, CancelChecker, Decide, DecideApproval, ExpireApproval, FallsDue,
              Recover, Reopen, vars
<1>6. OneChecker' BY <1>1, NextOneChecker
<1>7. VerdictsRestOnChecks' BY <1>2, NextVerdicts
<1>8. EvidenceClosesWork' /\ (item' = "awaiting_approval" => Checked') BY <1>2, NextEvidence
<1> QED BY <1>3, <1>5, <1>6, <1>7, <1>8 DEF IInv

-----------------------------------------------------------------------------
(* Theorems *)

LEMMA Invariance == Spec => []IInv
BY InitInv, NextInv, PTL DEF Spec

(***************************************************************************)
(* Tables and processes keep their types for every number of workers,      *)
(* requests, rounds and approvals.                                         *)
(***************************************************************************)
THEOREM TypeCorrect == Spec => []TypeOK
<1>1. IInv => TypeOK BY DEF IInv
<1> QED BY <1>1, Invariance, PTL

(***************************************************************************)
(* No interleaving of workers, requests, operators, crashes and recoveries *)
(* completes an item without the check and the approval its plan requires. *)
(***************************************************************************)
THEOREM EvidenceAlwaysClosesWork == Spec => []EvidenceClosesWork
<1>1. IInv => EvidenceClosesWork BY DEF IInv
<1> QED BY <1>1, Invariance, PTL

(***************************************************************************)
(* submitVerification writes a verdict only about a checker attempt that   *)
(* ended, and a pass only about one that succeeded, although it reads and  *)
(* writes in separate statements.                                          *)
(***************************************************************************)
THEOREM VerdictsAlwaysRestOnChecks == Spec => []VerdictsRestOnChecks
<1>1. IInv => VerdictsRestOnChecks BY DEF IInv
<1> QED BY <1>1, Invariance, PTL

(***************************************************************************)
(* Two workers never run a checker of the item at once.                    *)
(***************************************************************************)
THEOREM OneCheckerAlways == Spec => []OneCheckerRuns
<1>1. IInv => OneCheckerRuns
  <2> SUFFICES ASSUME IInv, NEW p \in Worker, NEW q \in Worker, At(p, "cli"), At(q, "cli")
               PROVE  p = q
    BY DEF OneCheckerRuns
  <2>1. ASSUME NEW w \in Worker, At(w, "cli")
        PROVE  /\ Seen(w) \in Verification /\ checker[Seen(w)].status # "none"
               /\ checker[Seen(w)].session = w
    <3>1. w \in Process BY DEF Process
    <3>2. TypeOK /\ Fit(w) BY <3>1 DEF IInv
    <3>3. Seen(w) # 0 BY <2>1, <3>2 DEF Fit, At, VerifyingPC
    <3> QED BY <2>1, <3>1, <3>2, <3>3, Numbers DEF Fit, At, CheckerPC, Seen
  <2>2. Seen(p) = Seen(q) BY <2>1 DEF IInv, OneChecker
  <2> QED BY <2>1, <2>2
<1> QED BY <1>1, Invariance, PTL

(***************************************************************************)
(* No catch branch, cancellation, recovery or late CLI overwrites the      *)
(* outcome of a checker attempt.                                           *)
(***************************************************************************)
THEOREM OutcomesStand == Spec => CheckerOutcomeStands
<1>1. IInv /\ [Next]_vars =>
        [\A v \in Verification : checker[v].status \in CheckerEnd =>
           checker'[v].status = checker[v].status]_vars
  <2> SUFFICES ASSUME IInv, [Next]_vars, NEW v \in Verification,
                      checker[v].status \in CheckerEnd
               PROVE  checker'[v].status = checker[v].status
    OBVIOUS
  <2>1. Grows BY NextChecker, CheckerGrows
  <2> QED BY <2>1 DEF Grows, Ended
<1> QED BY <1>1, Invariance, PTL DEF Spec, CheckerOutcomeStands
=============================================================================
