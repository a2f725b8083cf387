---------------------------- MODULE WorkExecution ----------------------------
(***************************************************************************)
(* How a ready work item of aaspai becomes a run of an agent and is then   *)
(* settled: the wakeup a worker claims, the attempt it creates, the        *)
(* scheduler slots and the claim it takes, the provider it runs, the       *)
(* settlement of attempt and item, the retry it queues, and the recovery   *)
(* of what a dead or suspended worker left behind.                         *)
(*                                                                         *)
(* The shared state is the SQLite database.  Every awaited statement (or   *)
(* db.transaction) is one atomic action; between two of them the worker    *)
(* keeps what it has read in its own record, so a value read before an     *)
(* await and used after it may be stale here as it may be in the code.     *)
(* A worker is one thread of control: a wakeup being executed, or a        *)
(* recovery pass.                                                          *)
(***************************************************************************)
EXTENDS Naturals, Sequences, FiniteSets

CONSTANTS
  Worker,       \* concurrent threads of control that poll for wakeups
  WorkItem,     \* work items, all created "ready" with one queued wakeup
  Attempt,      \* identifiers an attempt row can take
  Slot,         \* scheduler slots and branch locks (resource_locks)
  Needs,        \* Needs[w]: the slots an attempt at w acquires, in order
  Gates,        \* Gates[w]: the governance steps w requires before completion
  Results,      \* how a run of the agent CLI can end
  MaxAttempts,  \* work item max_attempts
  MaxTries,     \* executions of one claimed wakeup (3 in claimAndRun)
  MaxNumber,    \* bound on attempt numbers explored
  None,         \* no attempt, no item, no owner
  Other         \* any other holder of a slot: loop work of the organization

ASSUME NeedsAssumption ==
  /\ Needs \in [WorkItem -> Seq(Slot)]
  /\ \A w \in WorkItem : Needs[w] # << >>
ASSUME GatesAssumption == Gates \in [WorkItem -> SUBSET {"verification", "approval"}]
ASSUME ResultsAssumption == Results \subseteq {"succeeded", "failed", "timed_out"}
ASSUME BoundsAssumption ==
  /\ MaxAttempts \in Nat \ {0}
  /\ MaxTries \in Nat \ {0}
  /\ MaxNumber \in Nat \ {0}
ASSUME NoneAssumption ==
  /\ None \notin Attempt \cup WorkItem
  /\ Other \notin Attempt \cup {None}

VARIABLES
  item,     \* item[w]: status and claimedByAttemptId of a work item
  attempt,  \* attempt[a]: a row of agent_attempts; status "none" is no row
  slot,     \* slot[k]: the attempt holding an unreleased lock, Other or None
  wake,     \* wake[w, n]: the wakeup for attempt n at w ("none": not inserted)
  worker,   \* worker[s]: where s stands and what it remembers
  stalled   \* workers suspended for longer than the stale-claim cutoff

vars == <<item, attempt, slot, wake, worker, stalled>>

-----------------------------------------------------------------------------
(* Statuses, packages/contracts/src/execution.ts *)

LiveStatus == {"preparing", "running", "cancelling"}
ActiveStatus == LiveStatus \cup {"queued"}
EndStatus == {"succeeded", "failed", "cancelled", "timed_out", "lost"}
AttemptStatus == ActiveStatus \cup EndStatus \cup {"none"}
Outcome == {"succeeded", "failed", "cancelled", "timed_out"}
SessionStatus == {"none", "running"} \cup Outcome

ItemStatus == {"ready", "claimed", "in_progress", "awaiting_verification",
               "awaiting_approval", "blocked", "completed", "failed", "cancelled"}
ItemEnd == {"blocked", "completed", "failed", "cancelled"}

Follows(from, to) ==
  \/ from = "queued" /\ to \in {"preparing", "cancelled"}
  \/ from = "preparing" /\ to \in {"running", "cancelling", "failed", "cancelled", "lost"}
  \/ from = "running" /\ to \in {"cancelling", "succeeded", "failed", "timed_out", "lost"}
  \/ from = "cancelling" /\ to \in {"cancelled", "failed", "timed_out", "lost"}

WakeStatus == {"none", "queued", "claimed", "completed", "failed"}
WakeKey == WorkItem \X (1 .. MaxNumber + 1)

NoRow == [status |-> "none", item |-> None, number |-> 0,
          cancel |-> FALSE, interrupt |-> FALSE, session |-> "none"]
NewRow(w, n) == [NoRow EXCEPT !.status = "queued", !.item = w, !.number = n]

(***************************************************************************)
(* A worker's record: pc is the statement it executes next; item and       *)
(* number name the wakeup it holds; att the attempt it works on; seen the  *)
(* last status it read and will act on; out the outcome it carries; ctx    *)
(* why it is in the current procedure (where to continue afterwards);      *)
(* next the attempt number, or the index of the slot, it needs next; tries *)
(* counts the executions of the wakeup; stop: a shutdown was requested.    *)
(***************************************************************************)
PC == {"idle", "enter", "threw", "backoff", "giveUp", "failItem", "failWrite", "dispatch", "create", "slots",
       "reserve", "claim", "undo", "delete", "block", "relist", "start", "prepare", "restart",
       "begin", "mark", "beat", "link", "run", "session", "settle", "settleAbort", "settleCas",
       "complete", "lateRelease", "lateItem", "completeCas", "settleItem", "release", "verify",
       "retry", "retryReady", "retryQueue", "finish", "lost", "recoverReady", "recoverCancel",
       "recoverRelease"}
Context == {"none", "slots", "budget", "claim", "interrupt", "abort", "plain", "return",
            "rethrow", "reconcile", "finish", "recover"}
Record == [pc : PC, item : WorkItem \cup {None}, number : 1 .. MaxNumber + 1,
           att : Attempt \cup {None}, seen : AttemptStatus \cup ItemStatus,
           out : Outcome \cup {"none"}, ctx : Context, next : Nat, tries : Nat, stop : BOOLEAN]
Idle == [pc |-> "idle", item |-> None, number |-> 1, att |-> None, seen |-> "none",
         out |-> "none", ctx |-> "none", next |-> 0, tries |-> 0, stop |-> FALSE]

Init ==
  /\ item = [w \in WorkItem |-> [status |-> "ready", by |-> None]]
  /\ attempt = [a \in Attempt |-> NoRow]
  /\ slot = [k \in Slot |-> None]
  /\ wake = [key \in WakeKey |-> IF key[2] = 1 THEN "queued" ELSE "none"]
  /\ worker = [s \in Worker |-> Idle]
  /\ stalled = {}

-----------------------------------------------------------------------------
At(s, pc) == s \notin stalled /\ worker[s].pc = pc
Goto(s, pc) == worker' = [worker EXCEPT ![s].pc = pc]
Become(s, record) == worker' = [worker EXCEPT ![s] = record]
MyItem(s) == worker[s].item
MyAttempt(s) == worker[s].att
MyWake(s) == <<worker[s].item, worker[s].number>>
MyRow(s) == attempt[worker[s].att]

SetItem(w, status) == item' = [item EXCEPT ![w].status = status]
SetStatus(a, status) == attempt' = [attempt EXCEPT ![a].status = status]
Rows(w) == {a \in Attempt : attempt[a].status # "none" /\ attempt[a].item = w}
ActiveRows(w) == {a \in Rows(w) : attempt[a].status \in ActiveStatus}
IsLastNumber(w, n) ==
  /\ n = 0 \/ \E a \in Rows(w) : attempt[a].number = n
  /\ \A a \in Rows(w) : attempt[a].number <= n

\* Identifiers of no row that nobody remembers: a new row may take any of them.
Fresh == {a \in Attempt : /\ attempt[a].status = "none"
                          /\ \A w \in WorkItem : item[w].by # a
                          /\ \A s \in Worker : worker[s].att # a
                          /\ \A k \in Slot : slot[k] # a}

\* An error out of the executor, and one inside the part it catches.
Threw(s) ==
  Become(s, [Idle EXCEPT !.pc = "threw", !.item = worker[s].item,
               !.number = worker[s].number, !.tries = worker[s].tries, !.stop = worker[s].stop])
ProviderThrew(s) ==
  Become(s, [worker[s] EXCEPT !.pc = "complete", !.out = "failed", !.ctx = "rethrow",
                              !.seen = "none"])

\* wakeupClaimGuard: only a claimed wakeup is finished, completed or failed.
MarkWake(key, status) == IF wake[key] = "claimed" THEN [wake EXCEPT ![key] = status] ELSE wake

ReleaseSlots(a) == slot' = [k \in Slot |-> IF slot[k] = a THEN None ELSE slot[k]]

-----------------------------------------------------------------------------
(* The wakeup loop of one worker: claimAndRun. *)

ClaimWakeup(s) ==
  /\ At(s, "idle")
  /\ \E w \in WorkItem, n \in 1 .. MaxNumber + 1 :
       /\ wake[<<w, n>>] = "queued"
       /\ wake' = [wake EXCEPT ![<<w, n>>] = "claimed"]
       /\ Become(s, [Idle EXCEPT !.pc = "enter", !.item = w, !.number = n, !.tries = 1])
  /\ UNCHANGED <<item, attempt, slot, stalled>>

\* reconcileTerminalHarnessAttempt: an attempt still active whose session ended.
Enter(s) ==
  /\ At(s, "enter")
  /\ LET ended == {a \in Rows(MyItem(s)) : /\ attempt[a].status \in LiveStatus
                                           /\ attempt[a].session \in Outcome}
     IN  IF ended = {}
         THEN Goto(s, "dispatch")
         ELSE \E a \in ended :
                Become(s, [worker[s] EXCEPT !.pc = "complete", !.att = a,
                             !.out = attempt[a].session, !.ctx = "reconcile"])
  /\ UNCHANGED <<item, attempt, slot, wake, stalled>>

\* An error that left execute: the daemon queues the retry of an item found
\* ready, else tries the wakeup again after a backoff, else gives up. A worker
\* that is shutting down fails the wakeup before the next try, not its item.
HandleThrow(s) ==
  /\ At(s, "threw")
  /\ LET w == MyItem(s)
         by == item[w].by
         readyAgain == item[w].status = "ready" /\ by # None /\ attempt[by].status # "none"
     IN  \/ /\ readyAgain
            /\ Become(s, [Idle EXCEPT !.pc = "retry", !.item = w, !.number = worker[s].number,
                            !.ctx = "finish", !.next = attempt[by].number + 1])
            /\ UNCHANGED wake
         \/ /\ ~ readyAgain /\ worker[s].tries < MaxTries /\ ~ worker[s].stop
            /\ Become(s, [worker[s] EXCEPT !.pc = "backoff", !.tries = worker[s].tries + 1])
            /\ UNCHANGED wake
         \/ /\ ~ readyAgain /\ worker[s].tries < MaxTries /\ worker[s].stop
            /\ Become(s, Idle)
            /\ wake' = MarkWake(MyWake(s), "failed")
         \/ /\ ~ readyAgain /\ worker[s].tries >= MaxTries
            /\ Goto(s, "giveUp")
            /\ UNCHANGED wake
  /\ UNCHANGED <<item, attempt, slot, stalled>>

BackOff(s) ==
  /\ At(s, "backoff")
  /\ Goto(s, "enter")
  /\ UNCHANGED <<item, attempt, slot, wake, stalled>>

\* stop(): seen while the worker waits for the CLI, the checker or a backoff.
RequestStop(s) ==
  /\ At(s, "run") \/ At(s, "verify") \/ At(s, "backoff")
  /\ ~ worker[s].stop
  /\ worker' = [worker EXCEPT ![s].stop = TRUE]
  /\ UNCHANGED <<item, attempt, slot, wake, stalled>>

\* markFailed of the claimed wakeup; whoever marks it also fails its item.
GiveUp(s) ==
  /\ At(s, "giveUp")
  /\ IF wake[MyWake(s)] = "claimed"
     THEN /\ wake' = MarkWake(MyWake(s), "failed")
          /\ Goto(s, "failItem")
     ELSE /\ Become(s, Idle)
          /\ UNCHANGED wake
  /\ UNCHANGED <<item, attempt, slot, stalled>>

\* failDurableWakeupWork: an item read as not ended is written failed.  Mutant:
\* it is written failed whatever was read.
FailAnyway(status) == TRUE
MayFail(status) == status \notin ItemEnd

ReadForFail(s) ==
  /\ At(s, "failItem")
  /\ IF MayFail(item[MyItem(s)].status) THEN Goto(s, "failWrite") ELSE Become(s, Idle)
  /\ UNCHANGED <<item, attempt, slot, wake, stalled>>

FailItem(s) ==
  /\ At(s, "failWrite")
  /\ SetItem(MyItem(s), "failed")
  /\ Become(s, Idle)
  /\ UNCHANGED <<attempt, slot, wake, stalled>>

-----------------------------------------------------------------------------
(* dispatchWorkItem: attempt row, slots, budget, claim, and the way back.  *)

Dispatch(s) ==
  /\ At(s, "dispatch")
  /\ LET w == MyItem(s)
     IN  \/ /\ item[w].status # "ready"
            /\ Threw(s)
         \/ /\ item[w].status = "ready"
            /\ \E a \in ActiveRows(w) :
                 Become(s, [worker[s] EXCEPT !.pc = "start", !.att = a])
         \/ /\ item[w].status = "ready" /\ ActiveRows(w) = {}
            /\ \E n \in 0 .. MaxNumber :
                 /\ IsLastNumber(w, n)
                 /\ Become(s, [worker[s] EXCEPT !.pc = "create", !.att = None, !.next = n + 1])
  /\ UNCHANGED <<item, attempt, slot, wake, stalled>>

\* The unique index on (work item, number).  Mutant: no index.
NumberUnindexed(w, n) == FALSE
NumberTaken(w, n) == \E a \in Rows(w) : attempt[a].number = n

\* createAttempt; the index decides who inserts.
CreateAttempt(s) ==
  /\ At(s, "create")
  /\ worker[s].next <= MaxNumber
  /\ IF NumberTaken(MyItem(s), worker[s].next)
     THEN /\ Goto(s, "relist")
          /\ UNCHANGED attempt
     ELSE \E a \in Fresh :
            /\ attempt' = [attempt EXCEPT ![a] = NewRow(MyItem(s), worker[s].next)]
            /\ Become(s, [worker[s] EXCEPT !.pc = "slots", !.att = a, !.next = 1])
  /\ UNCHANGED <<item, slot, wake, stalled>>

\* acquireSchedulerSlots: one insert per slot, the index on active locks decides.
TakeSlot(s) ==
  /\ At(s, "slots")
  /\ LET needed == Needs[MyItem(s)]
         k == needed[worker[s].next]
     IN  IF slot[k] = None
         THEN /\ slot' = [slot EXCEPT ![k] = MyAttempt(s)]
              /\ IF worker[s].next = Len(needed)
                 THEN Become(s, [worker[s] EXCEPT !.pc = "reserve", !.next = 0])
                 ELSE Become(s, [worker[s] EXCEPT !.next = worker[s].next + 1])
         ELSE /\ Become(s, [worker[s] EXCEPT !.pc = "undo", !.ctx = "slots", !.next = 0])
              /\ UNCHANGED slot
  /\ UNCHANGED <<item, attempt, wake, stalled>>

ReserveBudget(s) ==
  /\ At(s, "reserve")
  /\ \/ Goto(s, "claim")
     \/ Become(s, [worker[s] EXCEPT !.pc = "undo", !.ctx = "budget"])
  /\ UNCHANGED <<item, attempt, slot, wake, stalled>>

\* Mutant: the claim does not record its attempt.
ClaimedByNobody(w, a) == [item[w] EXCEPT !.status = "claimed"]
ClaimedBy(w, a) == [status |-> "claimed", by |-> a]

\* claimWorkItem, one transaction.
ClaimWorkItem(s) ==
  /\ At(s, "claim")
  /\ IF MyRow(s).status = "queued" /\ item[MyItem(s)].status = "ready"
     THEN /\ item' = [item EXCEPT ![MyItem(s)] = ClaimedBy(MyItem(s), MyAttempt(s))]
          /\ Become(s, [worker[s] EXCEPT !.pc = "start", !.ctx = "none"])
     ELSE /\ Become(s, [worker[s] EXCEPT !.pc = "undo", !.ctx = "claim"])
          /\ UNCHANGED item
  /\ UNCHANGED <<attempt, slot, wake, stalled>>

UndoSlots(s) ==
  /\ At(s, "undo")
  /\ ReleaseSlots(MyAttempt(s))
  /\ Goto(s, "delete")
  /\ UNCHANGED <<item, attempt, wake, stalled>>

\* Mutant: the delete selects by work item instead of by attempt.
DeletedWithItem(s) == Rows(MyItem(s))
Deleted(s) == {MyAttempt(s)}

DeleteAttempt(s) ==
  /\ At(s, "delete")
  /\ attempt' = [a \in Attempt |-> IF a \in Deleted(s) THEN NoRow ELSE attempt[a]]
  /\ \/ worker[s].ctx = "slots" /\ Threw(s)
     \/ worker[s].ctx = "budget" /\ Goto(s, "block")
     \/ worker[s].ctx = "claim" /\ Goto(s, "relist")
  /\ UNCHANGED <<item, slot, wake, stalled>>

BlockItem(s) ==
  /\ At(s, "block")
  /\ SetItem(MyItem(s), "blocked")
  /\ Threw(s)
  /\ UNCHANGED <<attempt, slot, wake, stalled>>

\* The winner of a lost race is taken over, its row only: created is false.
Relist(s) ==
  /\ At(s, "relist")
  /\ \/ ActiveRows(MyItem(s)) = {} /\ Threw(s)
     \/ \E a \in ActiveRows(MyItem(s)) :
          Become(s, [worker[s] EXCEPT !.pc = "start", !.att = a, !.ctx = "none", !.next = 0])
  /\ UNCHANGED <<item, attempt, slot, wake, stalled>>

-----------------------------------------------------------------------------
(* startScheduledAttempt: a read before each transition, which re-checks.  *)

ReadQueued(s) ==
  /\ At(s, "start")
  /\ CASE MyRow(s).status = "none" -> Threw(s)
       [] MyRow(s).status = "queued" -> Goto(s, "prepare")
       [] OTHER -> Goto(s, "restart")
  /\ UNCHANGED <<item, attempt, slot, wake, stalled>>

Prepare(s) ==
  /\ At(s, "prepare")
  /\ IF MyRow(s).status = "queued"
     THEN SetStatus(MyAttempt(s), "preparing") /\ Goto(s, "restart")
     ELSE UNCHANGED attempt /\ Threw(s)
  /\ UNCHANGED <<item, slot, wake, stalled>>

ReadPreparing(s) ==
  /\ At(s, "restart")
  /\ IF MyRow(s).status = "preparing" THEN Goto(s, "begin") ELSE Goto(s, "mark")
  /\ UNCHANGED <<item, attempt, slot, wake, stalled>>

Begin(s) ==
  /\ At(s, "begin")
  /\ IF MyRow(s).status = "preparing"
     THEN SetStatus(MyAttempt(s), "running") /\ Goto(s, "mark")
     ELSE UNCHANGED attempt /\ Threw(s)
  /\ UNCHANGED <<item, slot, wake, stalled>>

MarkInProgress(s) ==
  /\ At(s, "mark")
  /\ IF item[MyItem(s)].by = MyAttempt(s)
     THEN SetItem(MyItem(s), "in_progress") ELSE UNCHANGED item
  /\ IF MyRow(s).status = "none" THEN Threw(s) ELSE Goto(s, "beat")
  /\ UNCHANGED <<attempt, slot, wake, stalled>>

-----------------------------------------------------------------------------
(* The provider: startAttemptHeartbeat, executeDurableAttempt and the      *)
(* settlement of the attempt by HarnessExecutionPlanRunner.                *)

Heartbeat(s) ==
  /\ At(s, "beat")
  /\ IF MyRow(s).status \in LiveStatus THEN Goto(s, "link") ELSE ProviderThrew(s)
  /\ UNCHANGED <<item, attempt, slot, wake, stalled>>

\* linkHarnessSession links one session per attempt.  Mutant: it relinks.
CanRelink(row) == row.status # "none"
CanLink(row) == row.status # "none" /\ row.session = "none"

\* Workspace, plan and session are set up, then the session is linked.
LinkSession(s) ==
  /\ At(s, "link")
  /\ \/ /\ CanLink(MyRow(s))
        /\ attempt' = [attempt EXCEPT ![MyAttempt(s)].session = "running"]
        /\ Goto(s, "run")
     \/ UNCHANGED attempt /\ ProviderThrew(s)
  /\ UNCHANGED <<item, slot, wake, stalled>>

\* What the one-second cancellation poll aborts a run for.
PollAborts(s) == MyRow(s).status = "cancelling" \/ MyRow(s).cancel

\* The CLI ends by itself, or the poll aborted it; then
\* the runner reads whether an operator interrupted the attempt.
FinishCli(s) ==
  /\ At(s, "run")
  /\ \E result \in Results, aborted \in BOOLEAN :
       /\ aborted => PollAborts(s)
       /\ LET interrupted == MyRow(s).interrupt /\ ~ MyRow(s).cancel
          IN  Become(s, [worker[s] EXCEPT !.pc = "session",
                !.out = IF interrupted THEN "timed_out" ELSE result,
                !.ctx = IF interrupted THEN "interrupt"
                        ELSE IF aborted THEN "abort" ELSE "plain"])
  /\ UNCHANGED <<item, attempt, slot, wake, stalled>>

\* Evidence was persisted (onExecuted), or was not and the run failed; a poll may
\* have aborted the run meanwhile. Then completeHarnessSession, unconditional.
EndSession(s) ==
  /\ At(s, "session")
  /\ \E evidence, aborted \in BOOLEAN :
       /\ aborted => PollAborts(s)
       /\ LET ctx == IF aborted /\ worker[s].ctx = "plain" THEN "abort" ELSE worker[s].ctx
              out == IF ~ evidence /\ worker[s].out = "succeeded" THEN "failed" ELSE worker[s].out
          IN  /\ attempt' = IF MyRow(s).status = "none" THEN attempt
                            ELSE [attempt EXCEPT ![MyAttempt(s)].session =
                                    IF ctx = "abort" THEN "cancelled" ELSE out]
              /\ Become(s, [worker[s] EXCEPT !.pc = "settle", !.out = out, !.ctx = ctx])
  /\ UNCHANGED <<item, slot, wake, stalled>>

Returned(s, ctx) == Become(s, [worker[s] EXCEPT !.pc = "complete", !.ctx = ctx, !.seen = "none"])

\* The status a transition compares with in its update.  Mutant: it does not.
SeenOrNot(s) == TRUE
StillSeen(s) == MyRow(s).status = worker[s].seen

\* transitionAttempt reads the row once more before it decides.  After a read of
\* the caller's own the move is made wherever the row permits it by then, and
\* refused where it does not, or where the row moved between that second read and
\* the update.
StillPermits(s, next) == Follows(MyRow(s).status, next)
MayHaveMoved(s, next) == ~ StillPermits(s, next) \/ ~ StillSeen(s)

SettleTarget(s) ==
  CASE worker[s].ctx = "interrupt" -> "timed_out"
    [] worker[s].ctx = "abort" -> "cancelled"
    [] OTHER -> worker[s].out

\* completeAttempt reads the status to compare with; an aborted run first
\* persists the cancellation (requestCancelAttempt).
ReadForSettle(s) ==
  /\ At(s, "settle")
  /\ LET status == MyRow(s).status
         Compare(pc) == Become(s, [worker[s] EXCEPT !.pc = pc, !.seen = status])
     IN  \/ /\ worker[s].ctx = "interrupt"
            /\ IF status \in {"running", "cancelling"}
               THEN Compare("settleCas") ELSE Returned(s, "return")
            /\ UNCHANGED attempt
         \/ /\ worker[s].ctx = "plain"
            /\ IF Follows(status, worker[s].out)
               THEN Compare("settleCas") ELSE ProviderThrew(s)
            /\ UNCHANGED attempt
         \/ /\ worker[s].ctx = "abort" /\ status \in LiveStatus
            /\ attempt' = [attempt EXCEPT ![MyAttempt(s)].cancel = TRUE,
                                          ![MyAttempt(s)].interrupt = FALSE]
            /\ Compare(IF status = "cancelling" THEN "settleCas" ELSE "settleAbort")
         \/ /\ worker[s].ctx = "abort" /\ status \notin LiveStatus
            /\ UNCHANGED attempt
            /\ IF status = "none" THEN ProviderThrew(s) ELSE Returned(s, "return")
  /\ UNCHANGED <<item, slot, wake, stalled>>

\* requestCancelAttempt moved a running attempt to cancelling first.
SettleAbort(s) ==
  /\ At(s, "settleAbort")
  /\ IF StillSeen(s)
     THEN /\ SetStatus(MyAttempt(s), "cancelling")
          /\ Become(s, [worker[s] EXCEPT !.pc = "settleCas", !.seen = "cancelling"])
     ELSE UNCHANGED attempt /\ ProviderThrew(s)
  /\ UNCHANGED <<item, slot, wake, stalled>>

\* transitionAttempt: the status read for a plain run is its own read, compared in
\* its update; an interrupt and an abort read the row before they call it, and an
\* abort returns quietly where it reads the attempt as ended by then.  A run that
\* succeeded without a report throws afterwards.
SettleAttempt(s) ==
  /\ At(s, "settleCas")
  /\ \/ /\ IF worker[s].ctx = "plain" THEN StillSeen(s) ELSE StillPermits(s, SettleTarget(s))
        /\ SetStatus(MyAttempt(s), SettleTarget(s))
        /\ \/ Returned(s, "return")
           \/ SettleTarget(s) = "succeeded" /\ ProviderThrew(s)
     \/ /\ ~ StillSeen(s)
        /\ UNCHANGED attempt
        /\ \/ ProviderThrew(s)
           \/ worker[s].ctx = "abort" /\ Returned(s, "return")
  /\ UNCHANGED <<item, slot, wake, stalled>>

-----------------------------------------------------------------------------
(* completeScheduledAttempt.  ctx says who called it: the executor after   *)
(* its provider returned ("return") or threw ("rethrow"), or              *)
(* reconcileTerminalHarnessAttempt ("reconcile").                          *)

\* Mutant: the item takes the attempt's status.
\* The work item's status after a successful attempt: the first gate it requires.
Advanced(w) ==
  IF "verification" \in Gates[w] THEN "awaiting_verification"
  ELSE IF "approval" \in Gates[w] THEN "awaiting_approval" ELSE "completed"

\* Where the caller goes on, given the status of the item it is handed back.
AfterCompletion(s, status) ==
  CASE worker[s].ctx = "rethrow" -> Threw(s)
    [] worker[s].ctx = "reconcile" /\ status = "ready" ->
         Become(s, [worker[s] EXCEPT !.pc = "dispatch", !.out = "none", !.ctx = "none", !.seen = "none"])
    [] OTHER ->
         Become(s, [worker[s] EXCEPT !.pc = "verify", !.out = "none", !.ctx = "none", !.next = 0, !.seen = status])

CanRetry(a) == attempt[a].number < MaxAttempts

\* Mutant: a lost attempt settles its item as a successful one.
SettlementsOfLost(a, w, end) ==
  CASE end \in {"succeeded", "lost"} -> {Advanced(w), "blocked"}
    [] end \in {"failed", "timed_out"} /\ CanRetry(a) -> {"ready"}
    [] end = "cancelled" -> {"cancelled"}
    [] OTHER -> {"failed"}
\* The item's next status once attempt a ended with status `end`. A successful
\* attempt may have breached its budget.
Settlements(a, w, end) ==
  CASE end = "succeeded" -> {Advanced(w), "blocked"}
    [] end \in {"failed", "timed_out"} /\ CanRetry(a) -> {"ready"}
    [] end = "cancelled" -> {"cancelled"}
    [] OTHER -> {"failed"}

\* finalizeWorkItem refuses to complete an item whose delivery evidence is missing.
FinalizeMayThrow(w, end) == end = "succeeded" /\ Advanced(w) = "completed"

ReadCompleted(s) ==
  /\ At(s, "complete")
  /\ LET status == MyRow(s).status
     IN  CASE status = "none" -> Threw(s)
           [] status \in EndStatus ->
                Become(s, [worker[s] EXCEPT !.pc = "lateRelease", !.seen = item[MyItem(s)].status])
           [] OTHER -> Become(s, [worker[s] EXCEPT !.pc = "completeCas", !.seen = status])
  /\ UNCHANGED <<item, attempt, slot, wake, stalled>>

\* The attempt had already ended: release its slots, then settle the item if the
\* status read before the release was claimed or in_progress.
LateRelease(s) ==
  /\ At(s, "lateRelease")
  /\ ReleaseSlots(MyAttempt(s))
  /\ Goto(s, "lateItem")
  /\ UNCHANGED <<item, attempt, wake, stalled>>

LateSettleItem(s) ==
  /\ At(s, "lateItem")
  /\ LET w == MyItem(s)
         end == MyRow(s).status
     IN  IF worker[s].seen \notin {"claimed", "in_progress"}
         THEN UNCHANGED item /\ AfterCompletion(s, worker[s].seen)
         ELSE \/ \E status \in Settlements(MyAttempt(s), w, end) :
                   SetItem(w, status) /\ AfterCompletion(s, status)
              \/ FinalizeMayThrow(w, end) /\ UNCHANGED item /\ Threw(s)
  /\ UNCHANGED <<attempt, slot, wake, stalled>>

\* The attempt is still active: whoever gets here has started it, so the start of
\* a queued or preparing one is never repeated. "cancelled" goes through cancelling, which an
\* attempt already cancelling cannot enter again (the two updates are one step).
\* Whether the move is permitted is decided by the row that transitionAttempt reads.
CompleteAttempt(s) ==
  /\ At(s, "completeCas")
  /\ LET out == worker[s].out
         next == IF out = "cancelled" THEN "cancelling" ELSE out
     IN  \/ /\ StillPermits(s, next)
            /\ SetStatus(MyAttempt(s), out)
            /\ Become(s, [worker[s] EXCEPT !.pc = "settleItem", !.seen = "none"])
         \/ MayHaveMoved(s, next) /\ UNCHANGED attempt /\ Threw(s)
  /\ UNCHANGED <<item, slot, wake, stalled>>

SettleItem(s) ==
  /\ At(s, "settleItem")
  /\ LET w == MyItem(s)
     IN  \/ /\ \E status \in Settlements(MyAttempt(s), w, worker[s].out) : SetItem(w, status)
            /\ Goto(s, "release")
         \/ FinalizeMayThrow(w, worker[s].out) /\ UNCHANGED item /\ Threw(s)
  /\ UNCHANGED <<attempt, slot, wake, stalled>>

SettleRelease(s) ==
  /\ At(s, "release")
  /\ ReleaseSlots(MyAttempt(s))
  /\ AfterCompletion(s, item[MyItem(s)].status)
  /\ UNCHANGED <<item, attempt, wake, stalled>>

-----------------------------------------------------------------------------
(* After execute returned: verification, retry wakeup, end of the wakeup.  *)

\* What the daemon does about the item status that execute returned.
AfterVerification(s) ==
  LET done == [Idle EXCEPT !.pc = "finish", !.item = MyItem(s), !.number = worker[s].number]
  IN  IF worker[s].seen = "ready"
      THEN Become(s, [done EXCEPT !.pc = "retry", !.ctx = "finish", !.next = MyRow(s).number + 1])
      ELSE Become(s, done)

\* verifyPendingWorkItems runs an independent checker on an item that awaits it;
\* without one (an unknown checker agent) it throws.
Verify(s) ==
  /\ At(s, "verify")
  /\ LET w == MyItem(s)
         awaits == item[w].status = "awaiting_verification"
     IN  \/ ~ awaits /\ UNCHANGED item /\ AfterVerification(s)
         \/ /\ awaits
            /\ \/ SetItem(w, IF "approval" \in Gates[w] THEN "awaiting_approval" ELSE "completed")
               \/ SetItem(w, "blocked")
            /\ AfterVerification(s)
         \/ awaits /\ UNCHANGED item /\ Threw(s)
  /\ UNCHANGED <<attempt, slot, wake, stalled>>

\* queueRetryWakeup: an item read ready is written ready again ...
ReadForRetry(s) ==
  /\ At(s, "retry")
  /\ IF item[MyItem(s)].status = "ready" THEN Goto(s, "retryReady") ELSE Goto(s, "retryQueue")
  /\ UNCHANGED <<item, attempt, slot, wake, stalled>>

RetryReady(s) ==
  /\ At(s, "retryReady")
  /\ SetItem(MyItem(s), "ready")
  /\ Goto(s, "retryQueue")
  /\ UNCHANGED <<attempt, slot, wake, stalled>>

\* ... and the wakeup keyed by item and attempt number is inserted unless that
\* key exists already (onConflictDoNothing).
QueueRetry(s) ==
  /\ At(s, "retryQueue")
  /\ LET key == <<MyItem(s), worker[s].next>>
     IN  wake' = IF key \in WakeKey /\ wake[key] = "none"
                 THEN [wake EXCEPT ![key] = "queued"] ELSE wake
  /\ IF worker[s].ctx = "finish"
     THEN Become(s, [Idle EXCEPT !.pc = "finish", !.item = MyItem(s), !.number = worker[s].number])
     ELSE Become(s, Idle)
  /\ UNCHANGED <<item, attempt, slot, stalled>>

FinishWakeup(s) ==
  /\ At(s, "finish")
  /\ wake' = MarkWake(MyWake(s), "completed")
  /\ Become(s, Idle)
  /\ UNCHANGED <<item, attempt, slot, stalled>>

-----------------------------------------------------------------------------
(* Recovery: recoverStaleClaims and reconcileLostAttempts.  A heartbeat is *)
(* stale exactly when no responsive worker is busy with the wakeup or the  *)
(* attempt: heartbeats come every minute and the cutoff is five.  A pass   *)
(* reads a row and marks it in one step: the mark is conditional on the    *)
(* row's heartbeat and status, so a row that moved in between is skipped.  *)

Attends(s, a) == s \notin stalled /\ worker[s].pc # "idle" /\ worker[s].att = a
Holds(s, w, n) == s \notin stalled /\ worker[s].pc # "idle" /\ MyWake(s) = <<w, n>>

\* findStaleAttempts looks at live attempts.  Mutant: at running ones only.
LosableIfRunning(a) == attempt[a].status = "running"
Losable(a) == attempt[a].status \in LiveStatus

LoseAttempt(s) ==
  /\ At(s, "idle")
  /\ \E a \in Attempt :
       /\ Losable(a)
       /\ \A t \in Worker : ~ Attends(t, a)
       /\ SetStatus(a, "lost")
       /\ Become(s, [Idle EXCEPT !.pc = "lost", !.att = a])
  /\ UNCHANGED <<item, slot, wake, stalled>>

\* Its locks are released, then its session fails; a later pass redoes the latter.
LoseRelease(s) ==
  /\ At(s, "lost")
  /\ ReleaseSlots(MyAttempt(s))
  /\ attempt' = IF MyRow(s).session = "running"
                THEN [attempt EXCEPT ![MyAttempt(s)].session = "failed"] ELSE attempt
  /\ Become(s, Idle)
  /\ UNCHANGED <<item, wake, stalled>>

\* The last lost attempt of w (none: NoRow's number).
LastLost(w) == {a \in Rows(w) : /\ attempt[a].status = "lost"
                                /\ \A b \in Rows(w) : attempt[b].status = "lost" =>
                                     attempt[b].number <= attempt[a].number}
RetryableClaim(w) ==
  /\ item[w].by # None
  /\ \/ item[w].by \in LastLost(w)
     \/ item[w].status = "ready" /\ attempt[item[w].by].status \in {"failed", "timed_out"}
  /\ CanRetry(item[w].by)

\* Mutant: recovery looks at the wakeups of ready items only.
StaleClaimOfReady(w, n) == wake[<<w, n>>] = "claimed" /\ item[w].status = "ready"
StaleClaim(w, n) == wake[<<w, n>>] = "claimed" /\ \A t \in Worker : ~ Holds(t, w, n)

\* The retryable claim: the wakeup fails, the item becomes ready, a retry is queued.
RecoverRetry(s) ==
  /\ At(s, "idle")
  /\ \E w \in WorkItem, n \in 1 .. MaxNumber + 1 :
       /\ StaleClaim(w, n)
       /\ RetryableClaim(w)
       /\ wake' = [wake EXCEPT ![<<w, n>>] = "failed"]
       /\ Become(s, [Idle EXCEPT !.pc = "recoverReady", !.item = w, !.number = n,
                       !.att = item[w].by, !.ctx = "recover",
                       !.next = attempt[item[w].by].number + 1])
  /\ UNCHANGED <<item, attempt, slot, stalled>>

RecoverReady(s) ==
  /\ At(s, "recoverReady")
  /\ SetItem(MyItem(s), "ready")
  /\ Goto(s, "retry")
  /\ UNCHANGED <<attempt, slot, wake, stalled>>

RecoverCompleted(s) ==
  /\ At(s, "idle")
  /\ \E w \in WorkItem, n \in 1 .. MaxNumber + 1 :
       /\ StaleClaim(w, n)
       /\ ~ RetryableClaim(w)
       /\ item[w].status = "completed"
       /\ wake' = [wake EXCEPT ![<<w, n>>] = "completed"]
  /\ UNCHANGED <<item, attempt, slot, worker, stalled>>

\* Any other stale claim whose attempt is not live fails, and with it the item.
RecoverFail(s) ==
  /\ At(s, "idle")
  /\ \E w \in WorkItem, n \in 1 .. MaxNumber + 1 :
       LET by == item[w].by
           status == IF by = None THEN "none" ELSE attempt[by].status
       IN  /\ StaleClaim(w, n)
           /\ ~ RetryableClaim(w)
           /\ item[w].status # "completed"
           /\ status \notin LiveStatus
           /\ wake' = [wake EXCEPT ![<<w, n>>] = "failed"]
           /\ Become(s, [Idle EXCEPT !.item = w, !.number = n, !.att = by,
                           !.pc = CASE status = "queued" -> "recoverCancel"
                                    [] status \in EndStatus -> "recoverRelease"
                                    [] OTHER -> "failItem"])
  /\ UNCHANGED <<item, attempt, slot, stalled>>

\* transitionAttempt reads the status again; one that cannot be cancelled throws
\* and ends the pass.
RecoverCancel(s) ==
  /\ At(s, "recoverCancel")
  /\ IF Follows(MyRow(s).status, "cancelled")
     THEN SetStatus(MyAttempt(s), "cancelled") /\ Goto(s, "recoverRelease")
     ELSE UNCHANGED attempt /\ Become(s, Idle)
  /\ UNCHANGED <<item, slot, wake, stalled>>

RecoverRelease(s) ==
  /\ At(s, "recoverRelease")
  /\ ReleaseSlots(MyAttempt(s))
  /\ Goto(s, "failItem")
  /\ UNCHANGED <<item, attempt, wake, stalled>>

-----------------------------------------------------------------------------
(* What happens to workers, leases and attempts from outside.              *)

Crash(s) ==
  /\ worker[s].pc # "idle"
  /\ Become(s, Idle)
  /\ stalled' = stalled \ {s}
  /\ UNCHANGED <<item, attempt, slot, wake>>

\* Suspended past the cutoff (a sleeping host), then resumed where it stood.
Stall(s) ==
  /\ s \notin stalled /\ worker[s].pc # "idle"
  /\ stalled' = stalled \cup {s}
  /\ UNCHANGED <<item, attempt, slot, wake, worker>>

Resume(s) ==
  /\ s \in stalled
  /\ stalled' = stalled \ {s}
  /\ UNCHANGED <<item, attempt, slot, wake, worker>>

\* Heartbeats extend the leases of an attended attempt.  Mutant: never.
LeaseNeverExtended(a) == FALSE
LeaseExtended(a) == \E t \in Worker : Attends(t, a)

\* reconcileExpiredLocks: nobody has extended this lease for an hour.
ReconcileExpiredLock(k) ==
  /\ slot[k] \in Attempt
  /\ ~ LeaseExtended(slot[k])
  /\ slot' = [slot EXCEPT ![k] = None]
  /\ UNCHANGED <<item, attempt, wake, worker, stalled>>

\* Loop work of the same organization takes and gives back slots concurrently.
OtherTakes(k) ==
  /\ slot[k] = None
  /\ slot' = [slot EXCEPT ![k] = Other]
  /\ UNCHANGED <<item, attempt, wake, worker, stalled>>

OtherFrees(k) ==
  /\ slot[k] = Other
  /\ slot' = [slot EXCEPT ![k] = None]
  /\ UNCHANGED <<item, attempt, wake, worker, stalled>>

\* An operator cancels or interrupts: the intent is written first, then the
\* status moves (requestCancelAttempt, requestInterruptAttempt).  An attempt read
\* as queued is cancelled at once, even if it is being prepared by then.
CancelQueued(a) ==
  /\ attempt[a].status \in {"queued", "preparing"}
  /\ SetStatus(a, "cancelled")
  /\ UNCHANGED <<item, slot, wake, worker, stalled>>

RequestCancel(a) ==
  /\ attempt[a].status \in LiveStatus
  /\ ~ attempt[a].cancel
  /\ attempt' = [attempt EXCEPT ![a].cancel = TRUE, ![a].interrupt = FALSE]
  /\ UNCHANGED <<item, slot, wake, worker, stalled>>

RequestInterrupt(a) ==
  /\ attempt[a].status \in LiveStatus
  /\ ~ attempt[a].cancel /\ ~ attempt[a].interrupt
  /\ attempt' = [attempt EXCEPT ![a].interrupt = TRUE]
  /\ UNCHANGED <<item, slot, wake, worker, stalled>>

BeginCancelling(a) ==
  /\ attempt[a].status \in {"preparing", "running"}
  /\ attempt[a].cancel \/ attempt[a].interrupt
  /\ SetStatus(a, "cancelling")
  /\ UNCHANGED <<item, slot, wake, worker, stalled>>

\* decideApproval, one transaction.
DecideApproval(w) ==
  /\ item[w].status = "awaiting_approval"
  /\ \/ SetItem(w, "completed")
     \/ SetItem(w, "blocked")
  /\ UNCHANGED <<attempt, slot, wake, worker, stalled>>

-----------------------------------------------------------------------------
Execute(s) ==
  \/ ClaimWakeup(s) \/ Enter(s) \/ HandleThrow(s) \/ BackOff(s) \/ GiveUp(s)
  \/ ReadForFail(s) \/ FailItem(s) \/ Dispatch(s) \/ CreateAttempt(s) \/ TakeSlot(s) \/ ReserveBudget(s)
  \/ ClaimWorkItem(s) \/ UndoSlots(s) \/ DeleteAttempt(s) \/ BlockItem(s) \/ Relist(s)
  \/ ReadQueued(s) \/ Prepare(s) \/ ReadPreparing(s) \/ Begin(s) \/ MarkInProgress(s)
  \/ Heartbeat(s) \/ LinkSession(s) \/ FinishCli(s) \/ EndSession(s) \/ ReadForSettle(s)
  \/ SettleAbort(s) \/ SettleAttempt(s) \/ ReadCompleted(s) \/ LateRelease(s)
  \/ LateSettleItem(s) \/ CompleteAttempt(s) \/ SettleItem(s) \/ SettleRelease(s)
  \/ Verify(s) \/ ReadForRetry(s) \/ RetryReady(s) \/ QueueRetry(s) \/ FinishWakeup(s)

Recover(s) ==
  \/ LoseAttempt(s) \/ LoseRelease(s) \/ RecoverRetry(s) \/ RecoverReady(s)
  \/ RecoverCompleted(s) \/ RecoverFail(s) \/ RecoverCancel(s) \/ RecoverRelease(s)

Disturb(s) == RequestStop(s) \/ Crash(s) \/ Stall(s) \/ Resume(s)

Leases(k) == ReconcileExpiredLock(k) \/ OtherTakes(k) \/ OtherFrees(k)

Operate(a) == CancelQueued(a) \/ RequestCancel(a) \/ RequestInterrupt(a) \/ BeginCancelling(a)

Next ==
  \/ \E s \in Worker : Execute(s) \/ Recover(s) \/ Disturb(s)
  \/ \E k \in Slot : Leases(k)
  \/ \E a \in Attempt : Operate(a)
  \/ \E w \in WorkItem : DecideApproval(w)

Spec == Init /\ [][Next]_vars

\* A worker that keeps waking up gets on with its work (strong fairness: it may
\* be suspended again and again), a dead one is restarted idle, a suspended one
\* wakes up.  Nothing is assumed of expired locks: the worker never reconciles
\* them, only a tick of the dependency scheduler and a request of an operator do.
Fairness ==
  \A s \in Worker : SF_vars(Execute(s)) /\ SF_vars(Recover(s)) /\ WF_vars(Resume(s))

LiveSpec == Spec /\ Fairness

-----------------------------------------------------------------------------
(* Properties *)

TypeOK ==
  /\ item \in [WorkItem -> [status : ItemStatus, by : Attempt \cup {None}]]
  /\ attempt \in [Attempt -> [status : AttemptStatus, item : WorkItem \cup {None},
                              number : Nat, cancel : BOOLEAN, interrupt : BOOLEAN,
                              session : SessionStatus]]
  /\ slot \in [Slot -> Attempt \cup {Other, None}]
  /\ wake \in [WakeKey -> WakeStatus]
  /\ worker \in [Worker -> Record]
  /\ stalled \subseteq Worker

Exists(a) == attempt[a].status # "none"

\* dispatchWorkItem's way back deletes the attempt it created; whatever the
\* interleaving, it never deletes the attempt a work item says it is claimed by.
ClaimantExists ==
  \A w \in WorkItem : item[w].by # None => Exists(item[w].by) /\ attempt[item[w].by].item = w

\* No unreleased lock outlives the row of its owner: a deleted attempt holds no
\* slot, so nothing but a lease can keep a slot from being taken again.
NoOrphanSlot == \A k \in Slot : slot[k] \in Attempt => Exists(slot[k])

\* What dispatchWorkItem deletes on its way back is named by no work item and by no lock.
NothingDangles == ClaimantExists /\ NoOrphanSlot

\* At most one attempt of a work item is active, however retries, recovery and
\* a resumed worker overlap (the list-then-insert of dispatchWorkItem).
OneActiveAttempt == \A w \in WorkItem : \A a, b \in ActiveRows(w) : a = b

\* Evidence closes work: an item that is completed, or waits for its checker or
\* its approver, is claimed by an attempt that succeeded.
ClosedByEvidence ==
  \A w \in WorkItem :
    item[w].status \in {"completed", "awaiting_verification", "awaiting_approval"} =>
      item[w].by # None /\ attempt[item[w].by].status = "succeeded"

\* Two workers never run the CLI of the same attempt.
OneCliPerAttempt ==
  \A s, t \in Worker :
    worker[s].pc = "run" /\ worker[t].pc = "run" /\ worker[s].att = worker[t].att => s = t

\* One worker, crashing and suspended at will: an attempt that was started is
\* always the one its work item is claimed by, so the item is settled by it.
LiveAttemptIsClaimant ==
  \A a \in Attempt : attempt[a].status \in LiveStatus => item[attempt[a].item].by = a

\* ... an attempt only moves along the transition table, and its row is deleted
\* only while it has never left the queue (or was cancelled there).
AttemptLifecycle ==
  [][\A a \in Attempt : attempt'[a].status # attempt[a].status =>
       \/ Follows(attempt[a].status, attempt'[a].status)
       \/ ~ Exists(a) /\ attempt'[a].status = "queued"
       \/ attempt[a].status \in {"queued", "cancelled"} /\ attempt'[a] = NoRow]_vars

\* ... a cancelled item stays cancelled, and a completed one completed unless its
\* completion is an approver's (see CompletedWorkIsKept); a failed one is reopened by
\* recovery only, which found that its attempt was lost: no retry or late settlement
\* reopens it.
SettledItemStays ==
  [][\A w \in WorkItem :
       /\ \/ item[w].status = "cancelled"
          \/ item[w].status = "completed" /\ "approval" \notin Gates[w]
          => item'[w].status = item[w].status
       /\ item[w].status = "failed" =>
            \/ item'[w].status = "failed"
            \/ item'[w].status = "ready" /\ attempt[item[w].by].status = "lost"]_vars

\* ... an attempt that runs and is attended keeps the slots it was given.
SlotsKeptWhileAttended ==
  [][\A k \in Slot : \A t \in Worker :
       slot[k] \in Attempt /\ Attends(t, slot[k]) /\ attempt[slot[k]].status \in LiveStatus =>
         slot'[k] = slot[k]]_vars

\* Every claimed wakeup is eventually finished, by its worker or by recovery.
WakeupSettles == \A key \in WakeKey : wake[key] = "claimed" ~> wake[key] # "claimed"

\* Every started attempt eventually ends, by its runner, by settlement or by the
\* recovery of a worker.  (Its slots may stay behind: a worker that dies between the
\* end of an attempt and the release of its slots leaves them to the lease, and no
\* worker reconciles leases.)
AttemptEnds == \A a \in Attempt : attempt[a].status \in LiveStatus ~> attempt[a].status \notin LiveStatus

\* store-implementation.ts:3103: "the live runner moves cancelling to cancelled
\* after process exit".  The code settles it as failed or timed out as well.
CancelSettlesAsCancelled ==
  [][\A a \in Attempt :
       attempt[a].status = "cancelling" /\ attempt[a].cancel
         /\ attempt'[a].status # attempt[a].status =>
       attempt'[a].status \in {"cancelled", "lost"}]_vars

\* docs/architecture.md:132: retries create a new attempt.  A wakeup is finished
\* while its item still waits to be retried and nothing else will wake it.
RetryStaysQueued ==
  [][\A w \in WorkItem, n \in 1 .. MaxNumber + 1 :
       wake[<<w, n>>] = "claimed" /\ wake'[<<w, n>>] = "completed" /\ item[w].status = "ready" =>
         \E m \in 1 .. MaxNumber + 1 : m # n /\ wake[<<w, m>>] \in {"queued", "claimed"}]_vars

\* docs/concept.md:20: claims, retries, approvals and worker restarts do not depend
\* on a live conversation, and :35: evidence closes work.  A restart before the wakeup
\* was finished makes recovery fail an item whose attempt succeeded, and it writes that
\* over the completion of an approver whose decision came after recovery's read.
CompletedWorkIsKept ==
  [][\A w \in WorkItem : item[w].status = "completed" => item'[w].status = "completed"]_vars

=============================================================================
