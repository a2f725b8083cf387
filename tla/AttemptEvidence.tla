--------------------------- MODULE AttemptEvidence ---------------------------
(***************************************************************************)
(* What the attempts of one work item leave behind: the session each runs  *)
(* as, the files of its workspace, the copies and records of its artifacts *)
(* and its commit.  A maker's retry goes on from the artifacts and the     *)
(* provider session of an earlier attempt, which may be lost while its     *)
(* process still runs; a checker is given what the maker recorded.         *)
(***************************************************************************)
EXTENDS Integers, FiniteSets

CONSTANTS
  MaxMakers,   \* maxAttempts of the item
  File,        \* paths of a workspace
  Declared     \* metadata.declaredArtifacts of an item that names its artifacts

VARIABLES
  kind,       \* work and artifacts of the item: "found", "declared" or "repository"
  delivery,   \* deliveryCommitSha: the attempt that made the commit, or 0
  claim,      \* claimedByAttemptId: the maker dispatched last, or 0
  judged,     \* makerAttemptId of the verification, or 0
  att,        \* agent_attempts: their status
  run,        \* executeDurableAttempt and the plan runner's run, for each attempt
  sess,       \* rows of sessions: [status, provider, parent, error], and what their wakeups name
  ws,         \* files of an attempt's workspace: the attempt that wrote each, or 0
  base,       \* the same when the agent got the workspace (checkerBaseline)
  disk,       \* copies under the attempt's artifact root
  rec         \* rows of artifacts, with the content that was hashed

vars == <<kind, delivery, claim, judged, att, run, sess, ws, base, disk, rec>>

Maker == 1 .. MaxMakers
Checker == MaxMakers + 1
Attempt == Maker \cup {Checker}
\* The session queued with a wakeup has the number of the attempt it was queued for.
Own(a) == Checker + a
SessionId == Maker \cup {Own(a) : a \in Attempt}

Retryable == {"failed", "timed_out", "lost"}
Terminal == Retryable \cup {"succeeded", "cancelled"}
Blank == [f \in File |-> 0]
NoSession == [status |-> "absent", provider |-> 0, parent |-> 0, named |-> 0, error |-> FALSE]
NotStarted == [pc |-> "none", wake |-> 0, id |-> 0, parent |-> 0, asked |-> 0, session |-> 0,
               linked |-> FALSE, out |-> "none", exit |-> FALSE, failed |-> FALSE, left |-> {}, copying |-> {}]

Present(files) == {f \in File : files[f] # 0}
IsMaker(a) == a # Checker
Repository == kind = "repository"

TypeOK ==
  /\ kind \in {"found", "declared", "repository"}
  /\ delivery \in {0} \cup Maker /\ claim \in {0} \cup Maker /\ judged \in {0} \cup Maker
  /\ att \in [Attempt -> {"none", "running"} \cup Terminal]
  /\ sess \in [SessionId -> [status : {"absent", "queued", "running"} \cup Terminal,
                             provider : 0 .. Checker, named : 0 .. Checker,
                             parent : {0} \cup SessionId, error : BOOLEAN]]
  /\ \A files \in {ws, base, disk, rec} : files \in [Attempt -> [File -> 0 .. Checker]]
  /\ \A a \in Attempt : run[a].session \in {0} \cup SessionId /\ run[a].left \subseteq File

Init ==
  /\ kind \in {"found", "declared", "repository"}
  /\ delivery = 0 /\ claim = 0 /\ judged = 0
  /\ att = [a \in Attempt |-> "none"] /\ run = [a \in Attempt |-> NotStarted]
  /\ sess = [s \in SessionId |-> IF s = 1 THEN [NoSession EXCEPT !.status = "queued"] ELSE NoSession]
  /\ ws = [a \in Attempt |-> Blank] /\ base = ws /\ disk = ws /\ rec = ws

Set(a, fields) == run' = [run EXCEPT ![a] = [f \in DOMAIN @ |-> IF f \in DOMAIN fields THEN fields[f] ELSE @[f]]]
At(a, pc) == run[a].pc = pc
item == <<kind, delivery, claim, judged>>
files4 == <<ws, base, disk, rec>>

-----------------------------------------------------------------------------
(* Before the agent runs.                                                  *)

\* The wakeup of attempt a, or the one before it that is claimed again.
DispatchMaker(a, wake) ==
  /\ att[a] = "none" /\ (a > 1 => att[a - 1] \in Retryable)
  /\ wake \in {a, a - 1} \cap Maker /\ sess[wake].status # "absent"
  /\ att' = [att EXCEPT ![a] = "running"] /\ claim' = a
  /\ Set(a, [pc |-> "dispatched", wake |-> wake])
  /\ UNCHANGED <<kind, delivery, judged, sess, files4>>

DispatchChecker(m) ==
  /\ att[Checker] = "none" /\ att[m] = "succeeded"
  /\ att' = [att EXCEPT ![Checker] = "running"] /\ judged' = m
  /\ Set(Checker, [pc |-> "dispatched"])
  /\ UNCHANGED <<kind, delivery, claim, sess, files4>>

\* resolveHarnessSessionStart: a row that was never used is taken over, from another one the
\* run is a child that continues its provider session.
Resolved(id, parent) ==
  IF id = 0 THEN [id |-> 0, parent |-> parent, resume |-> 0]
  ELSE IF sess[id].status = "queued" THEN [id |-> id, parent |-> sess[id].parent, resume |-> 0]
  ELSE [id |-> 0, parent |-> id, resume |-> sess[id].provider]

\* restorePreviousAttemptArtifacts: those of the latest earlier attempt that recorded any.
Restored(a) ==
  LET earlier == {p \in Maker : p < a /\ rec[p] # Blank}
  IN IF earlier = {} THEN Blank ELSE rec[CHOOSE p \in earlier : \A q \in earlier : q <= p]

Workspace(a) ==
  IF Repository THEN IF IsMaker(a) THEN Blank ELSE ws[delivery]
  ELSE IF IsMaker(a) THEN Restored(a) ELSE rec[judged]

\* The provider session that the wakeup of a retry names comes before the one found.
Setup(a) ==
  /\ At(a, "dispatched")
  /\ Repository /\ ~IsMaker(a) => delivery # 0
  /\ LET wake == run[a].wake  start == Resolved(wake, 0) IN
     Set(a, [pc |-> "prepared", id |-> start.id, parent |-> start.parent,
             asked |-> IF wake # 0 /\ sess[wake].named # 0 THEN sess[wake].named ELSE start.resume])
  /\ ws' = [ws EXCEPT ![a] = Workspace(a)] /\ base' = [base EXCEPT ![a] = Workspace(a)]
  /\ UNCHANGED <<item, att, sess, disk, rec>>

\* The executor's catch: completeScheduledAttempt fails the attempt if it is still active.
Fails(a) ==
  /\ Set(a, [pc |-> "threw"])
  /\ att' = [att EXCEPT ![a] = IF @ = "running" THEN "failed" ELSE @]

\* Whatever throws before the adapter runs; a session that was opened stays as it is.
Throw(a) ==
  /\ run[a].pc \in {"dispatched", "prepared", "read", "opened"}
  /\ Fails(a) /\ UNCHANGED <<item, sess, files4>>

\* createHarnessSession resolves once more, then writes the row.
ReadSession(a) ==
  /\ At(a, "prepared")
  /\ LET start == Resolved(run[a].id, run[a].parent) IN
     Set(a, [pc |-> "read", id |-> start.id, parent |-> start.parent,
             asked |-> IF run[a].asked # 0 THEN run[a].asked ELSE start.resume])
  /\ UNCHANGED <<item, att, sess, files4>>

OpenSession(a) ==
  /\ At(a, "read")
  /\ LET s == IF run[a].id = 0 THEN Own(a) ELSE run[a].id IN
     IF s # Own(a) /\ sess[s].status # "queued" THEN Fails(a) /\ UNCHANGED sess
     ELSE /\ sess' = [sess EXCEPT ![s] = [@ EXCEPT !.status = "running", !.parent = run[a].parent]]
          /\ Set(a, [pc |-> "opened", session |-> s]) /\ UNCHANGED att
  /\ UNCHANGED <<item, files4>>

\* linkHarnessSession: a session belongs to one attempt.
Link(a) ==
  /\ At(a, "opened")
  /\ IF \E b \in Attempt \ {a} : run[b].linked /\ run[b].session = run[a].session
     THEN Fails(a) ELSE Set(a, [pc |-> "linked", linked |-> TRUE]) /\ UNCHANGED att
  /\ UNCHANGED <<item, sess, files4>>

-----------------------------------------------------------------------------
(* The run.                                                                *)

\* setHarnessSessionProviderIdentity: the provider session first seen is kept.
Seen(s, provider) ==
  sess' = [sess EXCEPT ![s].provider = IF @ = 0 THEN provider ELSE @]

\* The adapter returns or throws, is stopped by the watchdog ("timed_out"), by an operator's
\* interruption (the same, to be resumed) or by a cancellation, and has written the files.
\* A clean exit in another provider session than the one asked for counts as a failure, and
\* so does one that no runtime with the identity of the plan was seen to execute.
Execute(a, out, clean, provider, identified, written) ==
  /\ At(a, "linked")
  /\ LET resumed == run[a].asked = 0 \/ provider = run[a].asked
         exit == clean /\ out \in {"returned", "cancelled"} /\ resumed /\ identified
     IN Set(a, [pc |-> "executed", exit |-> exit,
                out |-> IF out # "returned" THEN out ELSE IF exit THEN "succeeded" ELSE "failed"])
  /\ Seen(run[a].session, provider)
  /\ ws' = [ws EXCEPT ![a] = written]
  /\ UNCHANGED <<item, att, base, disk, rec>>

\* A runtime identity reported with the result that is not the plan's throws outside every
\* handler of the run: nothing is persisted and the session stays open.
WrongIdentity(a) == At(a, "executed") /\ run[a].exit /\ Fails(a) /\ UNCHANGED <<item, sess, files4>>

-----------------------------------------------------------------------------
(* persistAttemptOutput.                                                   *)

Successful(a) == run[a].exit
\* The artifacts of an attempt: declared, or whatever a maker of general work left.
Artifacts(a) ==
  IF kind = "declared" THEN Declared
  ELSE IF kind = "found" /\ IsMaker(a) THEN Present(ws[a]) ELSE {}

\* changedWorkspaceFiles, git status, or all artifacts.
Changed(a) ==
  IF Repository \/ ~IsMaker(a) THEN {f \in File : ws[a][f] # base[a][f]} ELSE Artifacts(a)

Refuse(a) == Set(a, [pc |-> "persisted", failed |-> TRUE])

\* Secrets, policy, evidence policy, limits and paths may refuse any output; a checker's if it
\* changed a file, a repository maker's if there is nothing to commit.
CheckOutput(a, refused) ==
  /\ At(a, "executed")
  /\ LET nothing == Repository /\ IsMaker(a) /\ Successful(a) /\ Changed(a) = {} IN
     IF refused \/ (~IsMaker(a) /\ Changed(a) # {}) \/ nothing THEN Refuse(a)
     ELSE Set(a, [pc |-> "copying", left |-> Artifacts(a)])
  /\ UNCHANGED <<item, att, sess, files4>>

\* One artifact after the other is copied, then recorded with the hash of the copy.
CopyArtifact(a, f) ==
  /\ At(a, "copying") /\ run[a].copying = {} /\ f \in run[a].left
  /\ IF ws[a][f] = 0
     THEN /\ IF Successful(a) THEN Refuse(a) ELSE Set(a, [left |-> run[a].left \ {f}])
          /\ UNCHANGED disk
     ELSE /\ disk' = [disk EXCEPT ![a][f] = ws[a][f]]
          /\ Set(a, [left |-> run[a].left \ {f}, copying |-> {f}])
  /\ UNCHANGED <<item, att, sess, ws, base, rec>>

RecordArtifact(a) ==
  /\ At(a, "copying")
  /\ \E f \in run[a].copying :
       /\ rec' = [rec EXCEPT ![a][f] = disk[a][f]]
       /\ Set(a, [copying |-> {}])
  /\ UNCHANGED <<item, att, sess, ws, base, disk>>

\* The copy, its record or a limit on the sizes fails.
StopCopying(a) ==
  /\ At(a, "copying") /\ Refuse(a) /\ UNCHANGED <<item, att, sess, files4>>

\* recordDeliveryCommit: from the maker that holds the item, once.
FinishCopying(a) ==
  /\ At(a, "copying") /\ run[a].copying = {} /\ run[a].left = {}
  /\ IF Repository /\ IsMaker(a) /\ Successful(a)
     THEN IF claim = a /\ delivery \in {0, a}
          THEN delivery' = a /\ Set(a, [pc |-> "persisted"])
          ELSE Refuse(a) /\ UNCHANGED delivery
     ELSE Set(a, [pc |-> "persisted"]) /\ UNCHANGED delivery
  /\ UNCHANGED <<kind, claim, judged, att, sess, files4>>

-----------------------------------------------------------------------------
(* The end of a run.                                                       *)

\* terminalStatus; evidence that could not be persisted fails a clean exit.
Status(a) == IF run[a].out = "succeeded" /\ run[a].failed THEN "failed" ELSE run[a].out

\* Discovery and company actions, applied before the session is completed, may fail the run.
ApplyActionsFails(a) ==
  /\ At(a, "persisted") /\ Successful(a) /\ ~run[a].failed /\ Set(a, [failed |-> TRUE])
  /\ UNCHANGED <<item, att, sess, files4>>

CompleteSession(a) ==
  /\ At(a, "persisted")
  /\ sess' = [sess EXCEPT ![run[a].session].status = Status(a), ![run[a].session].error = run[a].failed]
  /\ Set(a, [pc |-> "closed"])
  /\ UNCHANGED <<item, att, files4>>

\* transitionAttempt refuses an attempt that is over by now.
CompleteAttempt(a) ==
  /\ At(a, "closed")
  /\ IF att[a] = "running"
     THEN att' = [att EXCEPT ![a] = Status(a)] /\ Set(a, [pc |-> "done"])
     ELSE Fails(a)
  /\ UNCHANGED <<item, sess, files4>>

\* The lease of an attempt runs out, whether its process is dead or just slow.
Lose(a) ==
  /\ att[a] = "running" /\ IsMaker(a) /\ att' = [att EXCEPT ![a] = "lost"]
  /\ UNCHANGED <<item, run, sess, files4>>

Die(a) ==
  /\ run[a].pc \notin {"none", "done", "threw", "dead"} /\ Set(a, [pc |-> "dead"])
  /\ UNCHANGED <<item, att, sess, files4>>

\* reconcileTerminalHarnessAttempt: an attempt whose session is over gets the session's status.
Reconcile(a) ==
  /\ att[a] = "running" /\ run[a].pc \in {"closed", "dead"} /\ IsMaker(a) /\ run[a].linked
  /\ sess[run[a].session].status \in Terminal
  /\ att' = [att EXCEPT ![a] = sess[run[a].session].status]
  /\ UNCHANGED <<item, run, sess, files4>>

\* queueRetryAfterAttempt: the retry's wakeup and its session, a child of this one; it continues
\* the provider session of a run that was cut short or whose evidence was not persisted.
QueueRetry(a) ==
  /\ a < MaxMakers /\ att[a] \in Retryable /\ sess[a + 1].status = "absent"
  /\ LET from == IF run[a].linked THEN run[a].session ELSE run[a].wake
         resume == run[a].linked /\ (att[a] # "failed" \/ sess[from].error)
     IN sess' = [sess EXCEPT ![a + 1] = [NoSession EXCEPT !.status = "queued", !.parent = from,
                                         !.named = IF resume THEN sess[from].provider ELSE 0]]
  /\ UNCHANGED <<item, att, run, files4>>

-----------------------------------------------------------------------------
\* What an agent leaves in a workspace: what was there, what it wrote, or nothing.
Written(a) == {files \in [File -> {0, a} \cup {ws[a][f] : f \in File}] :
                 \A f \in File : files[f] \in {0, a, ws[a][f]}}
Starts(a) == DispatchChecker(a) \/ \E wake \in Maker : DispatchMaker(a, wake)
Prepares(a) == Setup(a) \/ Throw(a) \/ ReadSession(a) \/ OpenSession(a) \/ Link(a)
Runs(a) ==
  \/ \E out \in {"returned", "timed_out", "cancelled"}, clean \in BOOLEAN, provider \in {a, run[a].asked} \ {0},
        identified \in BOOLEAN, files \in Written(a) : Execute(a, out, clean, provider, identified, files)
  \/ WrongIdentity(a)
Persists(a) ==
  \/ (\E refused \in BOOLEAN : CheckOutput(a, refused)) \/ (\E f \in File : CopyArtifact(a, f))
  \/ RecordArtifact(a) \/ StopCopying(a) \/ FinishCopying(a)
Ends(a) == ApplyActionsFails(a) \/ CompleteSession(a) \/ CompleteAttempt(a) \/ Lose(a) \/ Die(a) \/ Reconcile(a)
Next == \/ \E a \in Maker : Starts(a) \/ QueueRetry(a)
        \/ \E a \in Attempt : Prepares(a) \/ Runs(a) \/ Persists(a) \/ Ends(a)
Spec == Init /\ [][Next]_vars

-----------------------------------------------------------------------------
(* Properties.                                                             *)

\* A maker that succeeded has every artifact recorded as its workspace holds it, or its commit
\* recorded as the item's delivery, whoever else ran, was lost or died meanwhile.
SucceededIsRecorded ==
  \A m \in Maker : att[m] = "succeeded" =>
    /\ \A f \in Artifacts(m) : ws[m][f] # 0 /\ rec[m][f] = ws[m][f]
    /\ Repository => delivery = m

\* What a retry starts from is the work of one earlier attempt, never a mixture.
RetryFromOneAttempt ==
  \A m \in Maker : base[m] # Blank => \E p \in Maker : p < m /\ \A f \in Present(base[m]) : base[m][f] = rec[p][f]

\* A checker that succeeded saw what the succeeded maker handed over and left it as it was.
CheckedIsDelivered ==
  att[Checker] = "succeeded" =>
    /\ ws[Checker] = base[Checker]
    /\ \A f \in File : base[Checker][f] = IF Repository \/ f \in Artifacts(judged) THEN ws[judged][f] ELSE 0

\* Two runs never write the same session, and a retry that succeeded after it was told which
\* provider session to continue did continue that one.
OneRunPerSession ==
  \A a, b \in Attempt : a # b /\ run[a].session # 0 => run[a].session # run[b].session
ResumedIsContinued ==
  \A m \in Maker : att[m] = "succeeded" /\ run[m].asked # 0 => sess[run[m].session].provider = run[m].asked

EvidenceComplete ==
  SucceededIsRecorded /\ RetryFromOneAttempt /\ CheckedIsDelivered /\ OneRunPerSession /\ ResumedIsContinued
=============================================================================
