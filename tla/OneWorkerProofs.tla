-------------------------- MODULE OneWorkerProofs --------------------------
(***************************************************************************)
(* What WorkExecution guarantees where one worker process runs, which      *)
(* executes one wakeup at a time (the topology of docs/deployment.md), for *)
(* every number of work items, attempts, slots and retries: the worker may *)
(* crash, be suspended and recover at any statement, while operators       *)
(* cancel, approvers decide and leases expire.                             *)
(*                                                                         *)
(* The argument: the attempts of an item end one after the other.  Top(w)  *)
(* is the number of the attempt w is claimed by; every older attempt has   *)
(* ended; at most one newer one exists, has never started, and belongs to  *)
(* the worker that is building it or died doing so (a stray).  A wakeup is *)
(* queued only for the attempt after the last one, once that has ended.    *)
(***************************************************************************)
EXTENDS WorkExecutionProofs

\* The deployment: one thread of control.
SoleWorker == \E s : Worker = {s}

\* The number of the attempt a work item is claimed by, 0 before its first claim.
Top(w) == IF item[w].by = None THEN 0 ELSE attempt[item[w].by].number
Ended(a) == attempt[a].status \in EndStatus
Settled(w) == item[w].by # None => Ended(item[w].by)
\* An attempt that was created after the one its item is claimed by.
Stray(a) == Exists(a) /\ attempt[a].number > Top(attempt[a].item)

\* The statements of a wakeup: before an attempt is listed, before the claim, before
\* the session is linked, from the start to the settlement, and after the attempt ended.
Early == {"enter", "threw", "backoff", "dispatch"}
Before == {"create", "relist", "block"} \cup Building
Unlinked == {"start", "prepare", "restart", "begin", "mark", "beat", "link"}
Begun == {"mark", "beat", "link", "run", "session", "settle", "settleAbort", "settleCas",
          "complete", "completeCas"}
Over == {"lateRelease", "lateItem", "settleItem", "release", "verify"}
After == Unlinked \cup Begun \cup Over
Retrying == {"retry", "retryReady", "retryQueue", "recoverReady"}

\* The shared part of the invariant: rows, strays, older attempts, queued wakeups,
\* and what an item's status says of the attempt it is claimed by.
RowsFit ==
  \A a \in Attempt : Exists(a) => attempt[a].number \in 1 .. MaxNumber /\ attempt[a].item \in WorkItem
StraysFit ==
  \A a \in Attempt : Stray(a) =>
    /\ attempt[a].number = Top(attempt[a].item) + 1
    /\ attempt[a].status \in {"queued", "cancelled"}
    /\ wake[<<attempt[a].item, attempt[a].number>>] \notin {"none", "queued"}
    /\ \A s \in Worker : worker[s].item = attempt[a].item /\ worker[s].pc \in Early \cup Before \cup After =>
         worker[s].pc \in Building /\ worker[s].att = a
PastEnded ==
  \A a \in Attempt : Exists(a) /\ item[attempt[a].item].by # a => Stray(a) \/ Ended(a)
Waiting ==
  \A w \in WorkItem, n \in 1 .. MaxNumber + 1 :
    wake[<<w, n>>] = "queued" => n = Top(w) + 1 /\ Settled(w)
ReadySettled == \A w \in WorkItem : item[w].status = "ready" => Settled(w)
Approving == \A w \in WorkItem : item[w].status = "awaiting_approval" => "approval" \in Gates[w]
Cancelled ==
  \A w \in WorkItem : item[w].status = "cancelled" =>
    item[w].by # None /\ attempt[item[w].by].status = "cancelled"

Global == RowsFit /\ StraysFit /\ PastEnded /\ Waiting /\ ReadySettled /\ Approving /\ Cancelled
          /\ ClosedByEvidence /\ OneActiveAttempt

\* Before the claim: the wakeup is the one after the claimed attempt.
Trying(s) ==
  LET w == worker[s].item IN
  /\ worker[s].pc \in Early =>
       /\ wake[MyWake(s)] = "claimed"
       /\ worker[s].number \in {Top(w), Top(w) + 1}
       /\ item[w].by # None /\ attempt[item[w].by].status \in LiveStatus =>
            attempt[item[w].by].session \notin Outcome
       /\ worker[s].pc # "threw" /\ item[w].status = "ready" => worker[s].number = Top(w) + 1
  /\ worker[s].pc \in Before =>
       /\ wake[MyWake(s)] = "claimed"
       /\ worker[s].number = Top(w) + 1
       /\ item[w].status = "ready"
  /\ worker[s].pc = "create" => worker[s].next = Top(w) + 1 /\ ActiveRows(w) = {}
  /\ worker[s].pc \in Building =>
       /\ MyRow(s).number = Top(w) + 1 /\ MyRow(s).status \in {"queued", "cancelled"}
       /\ MyRow(s).session = "none"

\* From the claim on: the item is claimed by the attempt of the worker, and the
\* attempt has come as far as the worker has brought it.
Claiming(s) ==
  worker[s].pc \in After =>
    /\ wake[MyWake(s)] = "claimed"
    /\ item[worker[s].item].by = worker[s].att
    /\ worker[s].number = MyRow(s).number
    /\ MyRow(s).item = worker[s].item
Progress(s) ==
  /\ worker[s].pc \in After \ {"release", "verify"} =>
       item[worker[s].item].status \in {"claimed", "in_progress"}
  /\ worker[s].pc \in Unlinked => MyRow(s).session = "none"
  /\ worker[s].pc \in {"start", "prepare"} => MyRow(s).status \in {"queued", "cancelled"}
  /\ worker[s].pc \in {"restart", "begin"} => MyRow(s).status \notin {"none", "queued"}
  /\ worker[s].pc \in Begun => MyRow(s).status \in {"running", "cancelling"} \cup EndStatus
  /\ worker[s].pc \in Over \cup {"lost", "recoverRelease"} => MyRow(s).status \in EndStatus
Working(s) == Claiming(s) /\ Progress(s)

\* What it settles the attempt with is allowed.
Settling(s) ==
  /\ worker[s].pc \in {"session", "settle"} =>
       worker[s].out # "cancelled" /\ (worker[s].ctx = "interrupt" => worker[s].out = "timed_out")
  /\ worker[s].pc \in ComparePC =>
       /\ worker[s].seen \in {"running", "cancelling"}
       /\ MyRow(s).status \in {worker[s].seen, "cancelling"} \cup EndStatus
  /\ worker[s].pc = "settleAbort" => worker[s].ctx = "abort" /\ worker[s].seen = "running"
  /\ worker[s].pc = "settleCas" => Follows(worker[s].seen, SettleTarget(s))
  /\ worker[s].pc \in {"complete", "completeCas"} \cup (Over \ {"verify"}) =>
       worker[s].ctx \in {"return", "rethrow"}
  /\ worker[s].pc = "complete" =>
       /\ worker[s].ctx = "return" => MyRow(s).status \in EndStatus
       /\ worker[s].ctx = "rethrow" =>
            worker[s].out = "failed" /\ (MyRow(s).session \in Outcome => MyRow(s).status # "running")
  /\ worker[s].pc = "completeCas" =>
       worker[s].out = "failed" /\ (MyRow(s).session \in Outcome => worker[s].seen = "cancelling")
  /\ worker[s].pc = "settleItem" => MyRow(s).status = worker[s].out

\* Retries follow an attempt that ended; recovery reopens nothing that was settled.
Recovering(s) ==
  LET w == worker[s].item IN
  /\ worker[s].pc \in Retrying =>
       item[w].by # None /\ worker[s].next = Top(w) + 1 /\ Settled(w)
  /\ worker[s].pc = "retryReady" => item[w].status = "ready"
  /\ worker[s].pc = "recoverReady" => item[w].status = "ready" \/ attempt[item[w].by].status = "lost"
  /\ worker[s].pc = "failWrite" =>
       /\ item[w].status \notin {"failed", "cancelled"}
       /\ item[w].status = "completed" => "approval" \in Gates[w]

\* The part of the worker, and the inductive invariant.
Local == \A s \in Worker : Trying(s) /\ Working(s) /\ Settling(s) /\ Recovering(s)

SoleInv == SoleWorker /\ Inv /\ Global /\ Local

-----------------------------------------------------------------------------
\* The only worker.
LEMMA Only ==
  ASSUME SoleInv, NEW s \in Worker
  PROVE  \A t \in Worker : t = s
  BY DEF SoleInv, SoleWorker

\* Worker s's record at a step, and what it is after it.
Busy == Early \cup Before \cup After

\* An item is settled for good (an approval may still be decided).
Final(w) ==
  \/ item[w].status = "cancelled"
  \/ item[w].status = "completed" /\ "approval" \notin Gates[w]
MayBecome(w, status) ==
  /\ status = "ready" => Settled(w)
  /\ status \in {"completed", "awaiting_verification", "awaiting_approval"} =>
       item[w].by # None /\ attempt[item[w].by].status = "succeeded"
  /\ status = "awaiting_approval" => "approval" \in Gates[w]
  /\ status = "cancelled" => item[w].by # None /\ attempt[item[w].by].status = "cancelled"
  /\ ~ Final(w)
  /\ item[w].status = "failed" => status = "ready" /\ attempt[item[w].by].status = "lost"

RowMoves ==
  \A a \in Attempt :
    /\ attempt'[a].item = attempt[a].item /\ attempt'[a].number = attempt[a].number
    /\ attempt'[a].status = attempt[a].status \/ Follows(attempt[a].status, attempt'[a].status)
    /\ Stray(a) => attempt'[a].status \in {"queued", "cancelled"}
ItemMoves ==
  \A w \in WorkItem :
    /\ item'[w].by = item[w].by
    /\ item'[w].status = item[w].status \/ MayBecome(w, item'[w].status)
WakeMoves ==
  \A w \in WorkItem, n \in 1 .. MaxNumber + 1 :
    \/ wake'[<<w, n>>] = wake[<<w, n>>]
    \/ wake'[<<w, n>>] \in {"claimed", "completed", "failed"}
    \/ wake[<<w, n>>] = "none" /\ n = Top(w) + 1 /\ Settled(w)
SlotMoves ==
  \A k \in Slot : \A t \in Worker :
    slot[k] \in Attempt /\ Attends(t, slot[k]) /\ attempt[slot[k]].status \in LiveStatus =>
      slot'[k] = slot[k]
Moves == RowMoves /\ ItemMoves /\ WakeMoves /\ SlotMoves

Onward(s) ==
  worker'[s].pc \in Busy =>
    \/ /\ worker[s].pc \in Busy /\ worker'[s].item = worker[s].item
       /\ worker[s].pc \in Building => worker'[s].pc \in Building /\ worker'[s].att = worker[s].att
    \/ \A a \in Attempt : Stray(a) => attempt[a].item # worker'[s].item
Stands(s) == Onward(s) /\ Trying(s)' /\ Working(s)' /\ Settling(s)' /\ Recovering(s)'

-----------------------------------------------------------------------------
\* What is left alone does not move.
LEMMA Unmoved ==
  ASSUME SoleInv
  PROVE  /\ UNCHANGED attempt => RowMoves
         /\ UNCHANGED item => ItemMoves
         /\ UNCHANGED wake => WakeMoves
         /\ UNCHANGED slot => SlotMoves
  <1>1. UNCHANGED attempt => RowMoves
    BY DEF RowMoves, SoleInv, Global, StraysFit
  <1> QED BY <1>1 DEF ItemMoves, WakeMoves, SlotMoves

\* The transition table leads from no ended status, and to no row.
LEMMA FollowsEnds ==
  ASSUME NEW from, NEW to, Follows(from, to)
  PROVE  /\ from \in ActiveStatus /\ to \in AttemptStatus /\ to # "none" /\ from # "none"
         /\ from \notin EndStatus
  BY DEF Follows, ActiveStatus, LiveStatus, AttemptStatus, EndStatus

\* The rows keep their item and number, the claims their rows.
LEMMA TopStays ==
  ASSUME SoleInv, RowMoves, ItemMoves
  PROVE  /\ \A a \in Attempt : /\ Exists(a)' = Exists(a)
                               /\ Ended(a) => attempt'[a].status = attempt[a].status
                               /\ attempt'[a].status \in ActiveStatus => attempt[a].status \in ActiveStatus
                               /\ attempt'[a].status \in LiveStatus => attempt[a].status \in ActiveStatus
         /\ \A w \in WorkItem : Top(w)' = Top(w) /\ (Settled(w) => Settled(w)')
         /\ \A a \in Attempt : Exists(a) => Stray(a)' = Stray(a)
  <1>1. \A a \in Attempt : /\ Exists(a)' = Exists(a)
                           /\ Ended(a) => attempt'[a].status = attempt[a].status
                           /\ attempt'[a].status \in ActiveStatus => attempt[a].status \in ActiveStatus
                           /\ attempt'[a].status \in LiveStatus => attempt[a].status \in ActiveStatus
    BY FollowsEnds DEF RowMoves, Exists, Ended, ActiveStatus
  <1>2. \A w \in WorkItem : item[w].by # None => item[w].by \in Attempt
    BY DEF SoleInv, Inv, TypeOK
  <1>3. \A w \in WorkItem : Top(w)' = Top(w)
    BY <1>2 DEF Top, RowMoves, ItemMoves
  <1>4. \A w \in WorkItem : Settled(w) => Settled(w)'
    BY <1>1, <1>2 DEF Settled, Ended, ItemMoves
  <1>5. \A a \in Attempt : Exists(a) => Stray(a)' = Stray(a)
    BY <1>1, <1>3 DEF Stray, RowMoves, SoleInv, Global, RowsFit
  <1> QED BY <1>1, <1>3, <1>4, <1>5

\* The shared part of the invariant under the steps that only move what is there.
LEMMA GlobalKept ==
  ASSUME SoleInv, Inv', Moves, \A s \in Worker : Onward(s)
  PROVE  Global'
  <1> USE DEF Moves
  <1>1. RowsFit'
    BY TopStays DEF RowsFit, RowMoves, SoleInv, Global
  <1>2. StraysFit'
    <2> SUFFICES ASSUME NEW a \in Attempt, Stray(a)', NEW w \in WorkItem, w = attempt[a].item
                 PROVE  /\ attempt'[a].number = Top(w) + 1
                        /\ attempt'[a].status \in {"queued", "cancelled"}
                        /\ wake'[<<w, attempt[a].number>>] \notin {"none", "queued"}
                        /\ \A s \in Worker :
                             worker'[s].item = w /\ worker'[s].pc \in Busy =>
                               worker'[s].pc \in Building /\ worker'[s].att = a
      <3>1. \A a \in Attempt : Stray(a)' => attempt'[a].item \in WorkItem
        BY <1>1 DEF RowsFit, Stray
      <3>2. \A v \in WorkItem : Top(v)' = Top(v)
        BY TopStays
      <3> QED BY <3>1, <3>2 DEF StraysFit, RowMoves, Busy, Top
    <2>1. Stray(a) /\ Exists(a)
      BY TopStays DEF Stray
    <2>2. attempt[a].number \in 1 .. MaxNumber
      BY <2>1 DEF SoleInv, Global, RowsFit
    <2>3. attempt[a].number = Top(w) + 1
      BY <2>1 DEF SoleInv, Global, StraysFit
    <2>4. attempt'[a].status \in {"queued", "cancelled"} /\ attempt'[a].number = attempt[a].number
      BY <2>1 DEF RowMoves
    <2>5. wake[<<w, attempt[a].number>>] \notin {"none", "queued"}
      BY <2>1 DEF SoleInv, Global, StraysFit
    <2>6. wake'[<<w, attempt[a].number>>] \notin {"none", "queued"}
      BY <2>2, <2>5, BoundsAssumption DEF WakeMoves
    <2>7. ASSUME NEW s \in Worker, worker'[s].item = w, worker'[s].pc \in Busy
          PROVE  worker'[s].pc \in Building /\ worker'[s].att = a
      <3>1. worker[s].item = w /\ worker[s].pc \in Busy
            /\ (worker[s].pc \in Building => worker'[s].pc \in Building /\ worker'[s].att = worker[s].att)
        BY <2>1, <2>7 DEF Onward
      <3>2. worker[s].pc \in Building /\ worker[s].att = a
        BY ZenonT(30), <2>1, <3>1 DEF Busy, SoleInv, Global, StraysFit
      <3> QED BY <3>1, <3>2
    <2> QED BY <2>3, <2>4, <2>6, <2>7
  <1>3. PastEnded'
    <2> SUFFICES ASSUME NEW a \in Attempt, Exists(a)', item'[attempt'[a].item].by # a, ~ Ended(a)'
                 PROVE  Stray(a)'
      BY DEF PastEnded
    <2>1. Exists(a) /\ ~ Ended(a)
      BY TopStays DEF Ended
    <2>2. attempt[a].item \in WorkItem
      BY <2>1 DEF SoleInv, Global, RowsFit
    <2>3. item[attempt[a].item].by # a
      BY <2>2 DEF ItemMoves, RowMoves
    <2> QED BY <2>1, <2>3, TopStays DEF SoleInv, Global, PastEnded
  <1>4. Waiting'
    BY TopStays DEF WakeMoves, Waiting, SoleInv, Global
  <1>5. ReadySettled'
    BY TopStays DEF ItemMoves, MayBecome, ReadySettled, SoleInv, Global
  <1>6. Approving'
    BY DEF ItemMoves, MayBecome, Approving, SoleInv, Global
  <1>7. \A w \in WorkItem : item[w].by # None => item[w].by \in Attempt
    BY DEF SoleInv, Inv, TypeOK
  <1>8. Cancelled'
    BY <1>7, TopStays DEF ItemMoves, MayBecome, Cancelled, SoleInv, Global, Ended, EndStatus
  <1>9. ClosedByEvidence'
    BY <1>7, TopStays DEF ItemMoves, MayBecome, ClosedByEvidence, SoleInv, Global, Ended, EndStatus
  <1>10. OneActiveAttempt'
    <2>1. \A w \in WorkItem : ActiveRows(w)' \subseteq ActiveRows(w)
      BY TopStays DEF ActiveRows, Rows, RowMoves, Exists
    <2> QED BY <2>1 DEF OneActiveAttempt, SoleInv, Global
  <1> QED BY <1>1, <1>2, <1>3, <1>4, <1>5, <1>6, <1>8, <1>9, <1>10 DEF Global

-----------------------------------------------------------------------------
(* Where a worker goes on.                                                     *)

\* The record a worker takes, and the one it goes on with.
LEMMA Fields ==
  ASSUME SoleInv, NEW s \in Worker
  PROVE  /\ \A r : Become(s, r) => worker'[s] = r
         /\ \A p : Goto(s, p) =>
              /\ worker'[s].pc = p /\ worker'[s].item = worker[s].item
              /\ worker'[s].number = worker[s].number /\ worker'[s].att = worker[s].att
              /\ worker'[s].seen = worker[s].seen /\ worker'[s].out = worker[s].out
              /\ worker'[s].ctx = worker[s].ctx /\ worker'[s].next = worker[s].next
  BY DEF SoleInv, Inv, TypeOK, Become, Goto, Record

\* A worker that holds no wakeup it executes.
LEMMA Aside ==
  ASSUME NEW s \in Worker, worker'[s].pc \in {"idle", "giveUp", "failItem", "finish", "recoverCancel"}
  PROVE  Stands(s)
  BY DEF Stands, Onward, Busy, Trying, Working, Claiming, Progress, Settling, Recovering, Early, Before, Building, After,
         Unlinked, Begun, Over, ComparePC, Retrying

\* A worker that queues a retry.
LEMMA RetryStands ==
  ASSUME SoleInv, NEW s \in Worker, worker'[s].pc \in {"retry", "retryQueue"}
  PROVE  Recovering(s)' => Stands(s)
  BY DEF Stands, Onward, Busy, Trying, Working, Claiming, Progress, Settling, Early, Before, Building, After,
         Unlinked, Begun, Over, ComparePC

\* A worker at work: its item is claimed by the attempt it works on.
LEMMA AtWork ==
  ASSUME SoleInv, NEW s \in Worker, worker[s].pc \in After
  PROVE  LET w == worker[s].item
             a == worker[s].att
         IN  /\ w \in WorkItem /\ a \in Attempt /\ item[w].by = a /\ a # None /\ attempt[a].item = w
             /\ Exists(a) /\ ~ Stray(a) /\ worker[s].number = Top(w) /\ Top(w) = attempt[a].number
             /\ wake[MyWake(s)] = "claimed" /\ worker[s] \in Record
  <1>1. worker[s].pc \notin {"idle", "lost"} /\ worker[s].pc \in AttemptPC
    BY DEF After, Unlinked, Begun, Over, AttemptPC, Building
  <1>2. worker[s].item \in WorkItem /\ worker[s].att \in Attempt /\ worker[s] \in Record
    BY <1>1 DEF SoleInv, Inv, Placed, TypeOK
  <1>3. /\ item[worker[s].item].by = worker[s].att /\ attempt[worker[s].att].item = worker[s].item
        /\ wake[MyWake(s)] = "claimed" /\ worker[s].number = attempt[worker[s].att].number
    BY DEF SoleInv, Local, Working, Claiming, Progress, MyRow
  <1>4. worker[s].att # None /\ Exists(worker[s].att)
    BY <1>2, <1>3, NoneAssumption DEF SoleInv, Inv, ClaimantExists
  <1>5. Top(worker[s].item) = attempt[worker[s].att].number
    BY <1>3, <1>4 DEF Top
  <1>6. ~ Stray(worker[s].att)
    BY <1>2, <1>3, <1>4, <1>5 DEF Stray, SoleInv, Global, RowsFit
  <1> QED BY <1>2, <1>3, <1>4, <1>5, <1>6

\* An error that leaves the executor.
LEMMA ThrewStands ==
  ASSUME SoleInv, NEW s \in Worker, Threw(s), RowMoves, ItemMoves, wake' = wake,
         worker[s].pc \in Busy \ Building, worker[s].item \in WorkItem,
         item[worker[s].item].by # None /\ attempt'[item[worker[s].item].by].status \in LiveStatus =>
           attempt'[item[worker[s].item].by].session \notin Outcome
  PROVE  Stands(s)
  <1>1. /\ worker'[s].pc = "threw" /\ worker'[s].item = worker[s].item
        /\ worker'[s].number = worker[s].number
    BY DEF Threw, Become, Idle, SoleInv, Inv, TypeOK
  <1>2. wake[MyWake(s)] = "claimed" /\ worker[s].number \in {Top(worker[s].item), Top(worker[s].item) + 1}
    <2>1. CASE worker[s].pc \in Early \cup Before
      BY <2>1 DEF SoleInv, Local, Trying
    <2>2. CASE worker[s].pc \in After
      BY <2>2, AtWork
    <2> QED BY <2>1, <2>2 DEF Busy, Building
  <1>3. /\ \A w \in WorkItem : Top(w)' = Top(w)
        /\ item'[worker[s].item].by = item[worker[s].item].by
    BY TopStays DEF ItemMoves
  <1>4. Trying(s)'
    BY <1>1, <1>2, <1>3 DEF Trying, Early, Before, Building, MyWake, Top
  <1>5. Working(s)' /\ Settling(s)' /\ Recovering(s)'
    BY <1>1 DEF Working, Claiming, Progress, Settling, Recovering, After, Unlinked, Begun, Over, ComparePC, Retrying
  <1>6. Onward(s)
    BY <1>1 DEF Onward, Busy
  <1> QED BY <1>4, <1>5, <1>6 DEF Stands

\* An error that the executor settles the attempt for as failed.
LEMMA ProviderThrewStands ==
  ASSUME SoleInv, NEW s \in Worker, ProviderThrew(s), RowMoves, UNCHANGED <<item, wake>>,
         worker[s].pc \in Begun,
         attempt'[worker[s].att].session \in Outcome => attempt'[worker[s].att].status # "running"
  PROVE  Stands(s)
  <1>0. worker[s].pc \in After
    BY DEF After
  <1>1. /\ worker'[s].pc = "complete" /\ worker'[s].item = worker[s].item /\ worker'[s].att = worker[s].att
        /\ worker'[s].number = worker[s].number /\ worker'[s].out = "failed" /\ worker'[s].ctx = "rethrow"
    BY <1>0, AtWork DEF ProviderThrew, Become, Record, SoleInv, Inv, TypeOK
  <1>2. attempt[worker[s].att].status \in {"running", "cancelling"} \cup EndStatus
    BY DEF SoleInv, Local, Working, Claiming, Progress, MyRow
  <1>3. attempt'[worker[s].att].status \in {"running", "cancelling"} \cup EndStatus
    BY <1>0, <1>2, AtWork DEF RowMoves, Follows, EndStatus
  <1>4. attempt'[worker[s].att].item = worker[s].item /\ attempt'[worker[s].att].number = worker[s].number
    BY <1>0, AtWork DEF RowMoves
  <1>5. item[worker[s].item].status \in {"claimed", "in_progress"}
    BY DEF SoleInv, Local, Working, Claiming, Progress, After, Begun, Over
  <1>6. Working(s)'
    BY <1>0, <1>1, <1>3, <1>4, <1>5, AtWork DEF Working, Claiming, Progress, After, Unlinked, Begun, Over, MyRow, MyWake
  <1>7. Settling(s)'
    BY <1>1 DEF Settling, ComparePC, Over, MyRow
  <1>8. Trying(s)' /\ Recovering(s)'
    BY <1>1 DEF Trying, Recovering, Early, Before, Building, Retrying
  <1>9. Onward(s)
    BY <1>0, <1>1 DEF Onward, Busy, After, Begun, Unlinked, Over, Building
  <1> QED BY <1>6, <1>7, <1>8, <1>9 DEF Stands

\* The provider returned: its attempt has ended.
LEMMA ReturnedStands ==
  ASSUME SoleInv, NEW s \in Worker, Returned(s, "return"), RowMoves, UNCHANGED <<item, wake>>,
         worker[s].pc \in Begun, attempt'[worker[s].att].status \in EndStatus
  PROVE  Stands(s)
  <1>0. worker[s].pc \in After
    BY DEF After
  <1>1. /\ worker'[s].pc = "complete" /\ worker'[s].item = worker[s].item /\ worker'[s].att = worker[s].att
        /\ worker'[s].number = worker[s].number /\ worker'[s].ctx = "return"
    BY <1>0, AtWork DEF Returned, Become, Record, SoleInv, Inv, TypeOK
  <1>4. attempt'[worker[s].att].item = worker[s].item /\ attempt'[worker[s].att].number = worker[s].number
    BY <1>0, AtWork DEF RowMoves
  <1>5. item[worker[s].item].status \in {"claimed", "in_progress"}
    BY DEF SoleInv, Local, Working, Claiming, Progress, After, Begun, Over
  <1>6. Working(s)'
    BY <1>0, <1>1, <1>4, <1>5, AtWork DEF Working, Claiming, Progress, After, Unlinked, Begun, Over, MyRow, MyWake
  <1>7. Settling(s)'
    BY <1>1 DEF Settling, ComparePC, Over, MyRow
  <1>8. Trying(s)' /\ Recovering(s)'
    BY <1>1 DEF Trying, Recovering, Early, Before, Building, Retrying
  <1>9. Onward(s)
    BY <1>0, <1>1 DEF Onward, Busy, After, Begun, Unlinked, Over, Building
  <1> QED BY <1>6, <1>7, <1>8, <1>9 DEF Stands

-----------------------------------------------------------------------------
(* The statements of a worker before its claim.                               *)
USE DEF Early, Before, Building, After, Unlinked, Begun, Over, Busy, Retrying, ComparePC

Moved(s) == Moves /\ Stands(s)

\* A worker that is where it was, and so is what it stands on.
LEMMA Still ==
  ASSUME SoleInv, NEW s \in Worker, worker'[s] = worker[s], UNCHANGED <<item, attempt, wake>>
  PROVE  Stands(s)
  <1>1. Onward(s)
    BY DEF Onward
  <1>2. Trying(s)'
    BY ZenonT(30) DEF Trying, SoleInv, Local, Top, MyWake, MyRow, ActiveRows, Rows
  <1>3. Working(s)'
    BY DEF Working, Claiming, Progress, SoleInv, Local, MyWake, MyRow
  <1>4. Settling(s)'
    BY DEF Settling, SettleTarget, SoleInv, Local, MyRow
  <1>5. Recovering(s)'
    BY DEF Recovering, SoleInv, Local, Top, Settled, Ended
  <1> QED BY <1>1, <1>2, <1>3, <1>4, <1>5 DEF Stands

\* A queued wakeup is the next one of an item without strays.
LEMMA ClaimWakeupMoves ==
  ASSUME SoleInv, NEW s \in Worker, ClaimWakeup(s)
  PROVE  Moved(s)
  <1>1. PICK w \in WorkItem, n \in 1 .. MaxNumber + 1 :
           /\ wake[<<w, n>>] = "queued"
           /\ wake' = [wake EXCEPT ![<<w, n>>] = "claimed"]
           /\ Become(s, [Idle EXCEPT !.pc = "enter", !.item = w, !.number = n, !.tries = 1])
    BY DEF ClaimWakeup
  <1>2. worker'[s].pc = "enter" /\ worker'[s].item = w /\ worker'[s].number = n
    BY <1>1 DEF Become, Idle, SoleInv, Inv, TypeOK
  <1>3. n = Top(w) + 1 /\ Settled(w)
    BY <1>1 DEF SoleInv, Global, Waiting
  <1>4. \A a \in Attempt : Stray(a) => attempt[a].item # w
    <2> SUFFICES ASSUME NEW a \in Attempt, Stray(a), attempt[a].item = w PROVE FALSE
      OBVIOUS
    <2>1. attempt[a].number = Top(w) + 1 /\ wake[<<w, attempt[a].number>>] # "queued"
      BY DEF SoleInv, Global, StraysFit
    <2> QED BY <1>1, <1>3, <2>1
  <1>5. wake'[<<w, n>>] = "claimed" /\ item' = item /\ attempt' = attempt /\ slot' = slot
    BY <1>1 DEF ClaimWakeup, SoleInv, Inv, TypeOK, WakeKey
  <1>6. WakeMoves
    BY <1>1 DEF WakeMoves, SoleInv, Inv, TypeOK, WakeKey
  <1>7. Trying(s)'
    BY <1>2, <1>3, <1>5 DEF Trying, MyWake, Top, Settled, Ended, LiveStatus, EndStatus
  <1>8. Working(s)' /\ Settling(s)' /\ Recovering(s)'
    BY <1>2 DEF Working, Claiming, Progress, Settling, Recovering
  <1>9. Onward(s)
    BY <1>2, <1>4 DEF Onward
  <1> QED BY <1>5, <1>6, <1>7, <1>8, <1>9, Unmoved DEF Moved, Moves, Stands

\* No attempt is reconciled: one whose session ended was settled at once.
LEMMA EnterMoves ==
  ASSUME SoleInv, NEW s \in Worker, Enter(s)
  PROVE  Moved(s)
  <1> DEFINE w == worker[s].item
  <1>1. worker[s].pc = "enter" /\ worker[s] \in Record /\ w \in WorkItem
    BY DEF Enter, At, SoleInv, Inv, Placed, TypeOK
  <1>2. ASSUME NEW a \in Rows(w), attempt[a].status \in LiveStatus, attempt[a].session \in Outcome
        PROVE  FALSE
    <2>1. a \in Attempt /\ Exists(a) /\ attempt[a].item = w
      BY DEF Rows, Exists
    <2>2. ~ Stray(a) /\ ~ Ended(a)
      BY <1>2, <2>1 DEF SoleInv, Global, StraysFit, Ended, LiveStatus, EndStatus
    <2>3. item[w].by = a /\ a # None
      BY <2>1, <2>2, NoneAssumption DEF SoleInv, Global, PastEnded
    <2> QED BY <1>1, <1>2, <2>3 DEF SoleInv, Local, Trying
  <1>3. Goto(s, "dispatch") /\ UNCHANGED <<item, attempt, slot, wake>>
    BY <1>2 DEF Enter, MyItem
  <1>4. worker'[s].pc = "dispatch" /\ worker'[s].item = w /\ worker'[s].number = worker[s].number
    BY <1>3, Fields
  <1>5. Trying(s)'
    BY <1>1, <1>3, <1>4 DEF Trying, SoleInv, Local, MyWake, Top
  <1>6. Working(s)' /\ Settling(s)' /\ Recovering(s)' /\ Onward(s)
    BY <1>1, <1>4 DEF Working, Claiming, Progress, Settling, Recovering, Onward
  <1> QED BY <1>3, <1>5, <1>6, Unmoved DEF Moved, Moves, Stands

\* A failed execution: the retry of an item found ready follows its ended attempt.
LEMMA HandleThrowMoves ==
  ASSUME SoleInv, NEW s \in Worker, HandleThrow(s)
  PROVE  Moved(s)
  <1> DEFINE w == worker[s].item
             by == item[w].by
  <1>1. worker[s].pc = "threw" /\ worker[s] \in Record /\ w \in WorkItem /\ MyWake(s) \in WakeKey
    BY Here DEF HandleThrow, SoleInv, MyWake, WakeKey, Record
  <1>2. UNCHANGED <<item, attempt, slot>> /\ WakeMoves
    BY <1>1 DEF HandleThrow, MarkWake, WakeMoves, SoleInv, Inv, TypeOK, MyWake, WakeKey
  <1>3. ASSUME item[w].status = "ready", by # None,
               Become(s, [Idle EXCEPT !.pc = "retry", !.item = w, !.number = worker[s].number,
                            !.ctx = "finish", !.next = attempt[by].number + 1])
        PROVE  Stands(s)
    <2>1. worker'[s].pc = "retry" /\ worker'[s].item = w /\ worker'[s].next = attempt[by].number + 1
      BY <1>3 DEF Become, Idle, SoleInv, Inv, TypeOK
    <2>2. Settled(w) /\ Top(w) = attempt[by].number
      BY <1>1, <1>3 DEF SoleInv, Global, ReadySettled, Top
    <2>3. Recovering(s)'
      BY <1>2, <1>3, <2>1, <2>2 DEF Recovering, Top, Settled, Ended
    <2> QED BY <2>1, <2>3, RetryStands
  <1>4. ASSUME ~ (item[w].status = "ready" /\ by # None /\ attempt[by].status # "none"), wake' = wake,
               Become(s, [worker[s] EXCEPT !.pc = "backoff", !.tries = worker[s].tries + 1])
        PROVE  Stands(s)
    <2>1. worker'[s].pc = "backoff" /\ worker'[s].item = w /\ worker'[s].number = worker[s].number
      BY <1>1, <1>4 DEF Become, Record, SoleInv, Inv, TypeOK
    <2>2. item[w].status = "ready" => by = None
      BY <1>1, <1>4 DEF SoleInv, Inv, ClaimantExists, Exists
    <2>3. item[w].status = "ready" => worker[s].number = Top(w) + 1
      <3>1. worker[s].number \in 1 .. MaxNumber + 1 /\ worker[s].number \in {Top(w), Top(w) + 1}
        BY <1>1 DEF Record, SoleInv, Local, Trying
      <3> QED BY <2>2, <3>1 DEF Top
    <2>4. Trying(s)'
      BY <1>1, <1>2, <1>4, <2>1, <2>3 DEF Trying, SoleInv, Local, MyWake, Top
    <2>5. Working(s)' /\ Settling(s)' /\ Recovering(s)' /\ Onward(s)
      BY <1>1, <2>1 DEF Working, Claiming, Progress, Settling, Recovering, Onward
    <2> QED BY <2>4, <2>5 DEF Stands
  <1>5. CASE Become(s, Idle)
    <2>1. worker'[s].pc = "idle"
      BY <1>5 DEF Become, Idle, SoleInv, Inv, TypeOK
    <2> QED BY <1>2, <2>1, Aside, Unmoved DEF Moved, Moves
  <1>6. CASE Goto(s, "giveUp")
    <2>1. worker'[s].pc = "giveUp"
      BY <1>6, Fields
    <2> QED BY <1>2, <2>1, Aside, Unmoved DEF Moved, Moves
  <1> QED BY <1>2, <1>3, <1>4, <1>5, <1>6, Unmoved DEF HandleThrow, MyItem, Moved, Moves

\* The wait before the next try.
LEMMA BackOffMoves ==
  ASSUME SoleInv, NEW s \in Worker, BackOff(s)
  PROVE  Moved(s)
  <1>1. worker[s].pc = "backoff" /\ UNCHANGED <<item, attempt, slot, wake>>
    BY DEF BackOff, At
  <1>2. worker'[s].pc = "enter" /\ worker'[s].item = worker[s].item /\ worker'[s].number = worker[s].number
    BY Fields DEF BackOff
  <1>3. Trying(s)'
    BY <1>1, <1>2 DEF Trying, SoleInv, Local, MyWake, Top
  <1>4. Working(s)' /\ Settling(s)' /\ Recovering(s)' /\ Onward(s)
    BY <1>1, <1>2 DEF Working, Claiming, Progress, Settling, Recovering, Onward
  <1> QED BY <1>1, <1>3, <1>4, Unmoved DEF Moved, Moves, Stands

\* A shutdown request.
LEMMA RequestStopMoves ==
  ASSUME SoleInv, NEW s \in Worker, RequestStop(s)
  PROVE  Moved(s)
  <1>1. UNCHANGED <<item, attempt, slot, wake>> /\ worker[s] \in Record
    BY DEF RequestStop, SoleInv, Inv, TypeOK
  <1>2. /\ worker'[s].pc = worker[s].pc /\ worker'[s].item = worker[s].item
        /\ worker'[s].number = worker[s].number /\ worker'[s].att = worker[s].att
        /\ worker'[s].out = worker[s].out /\ worker'[s].ctx = worker[s].ctx
        /\ worker[s].pc \in {"run", "verify", "backoff"}
    BY <1>1 DEF RequestStop, At, Record, SoleInv, Inv, TypeOK
  <1>3. Trying(s)'
    BY <1>1, <1>2 DEF Trying, SoleInv, Local, MyWake, Top
  <1>4. Working(s)'
    BY <1>1, <1>2 DEF Working, Claiming, Progress, SoleInv, Local, MyWake, MyRow
  <1>5. Settling(s)' /\ Recovering(s)' /\ Onward(s)
    BY <1>2 DEF Settling, Recovering, Onward
  <1> QED BY <1>1, <1>3, <1>4, <1>5, Unmoved DEF Moved, Moves, Stands

\* The worker gives its wakeup up.
LEMMA GiveUpMoves ==
  ASSUME SoleInv, NEW s \in Worker, GiveUp(s)
  PROVE  Moved(s)
  <1>1. UNCHANGED <<item, attempt, slot>> /\ worker[s].pc = "giveUp"
    BY DEF GiveUp, At
  <1>2. MyWake(s) \in WakeKey
    BY <1>1 DEF SoleInv, Inv, Placed, TypeOK, MyWake, WakeKey, Record
  <1>3. WakeMoves
    BY <1>2 DEF GiveUp, MarkWake, WakeMoves, SoleInv, Inv, TypeOK, WakeKey
  <1>4. worker'[s].pc \in {"failItem", "idle"}
    BY DEF GiveUp, Goto, Become, Idle, SoleInv, Inv, TypeOK, Record
  <1> QED BY <1>1, <1>3, <1>4, Aside, Unmoved DEF Moved, Moves

\* The item is read before it is failed ...
LEMMA ReadForFailMoves ==
  ASSUME SoleInv, NEW s \in Worker, ReadForFail(s)
  PROVE  Moved(s)
  <1>1. UNCHANGED <<item, attempt, slot, wake>>
    BY DEF ReadForFail
  <1>2. CASE Become(s, Idle)
    <2>1. worker'[s].pc = "idle"
      BY <1>2 DEF Become, Idle, SoleInv, Inv, TypeOK
    <2> QED BY <1>1, <2>1, Aside, Unmoved DEF Moved, Moves
  <1>3. CASE MayFail(item[MyItem(s)].status) /\ Goto(s, "failWrite")
    <2>1. worker'[s].pc = "failWrite" /\ worker'[s].item = worker[s].item
      BY <1>3, Fields
    <2>2. Recovering(s)'
      BY <1>1, <1>3, <2>1 DEF Recovering, MayFail, ItemEnd, MyItem
    <2>3. Trying(s)' /\ Working(s)' /\ Settling(s)' /\ Onward(s)
      BY <2>1 DEF Trying, Working, Claiming, Progress, Settling, Onward
    <2> QED BY <1>1, <2>2, <2>3, Unmoved DEF Moved, Moves, Stands
  <1> QED BY <1>2, <1>3 DEF ReadForFail

\* ... and may have been approved in between, but by nobody else settled.
LEMMA FailItemMoves ==
  ASSUME SoleInv, NEW s \in Worker, FailItem(s)
  PROVE  Moved(s)
  <1> DEFINE w == worker[s].item
  <1>1. UNCHANGED <<attempt, slot, wake>> /\ worker[s].pc = "failWrite" /\ w \in WorkItem
    BY DEF FailItem, At, SoleInv, Inv, Placed
  <1>2. worker'[s].pc = "idle"
    BY DEF FailItem, Become, Idle, SoleInv, Inv, TypeOK
  <1>3. /\ item[w].status \notin {"failed", "cancelled"}
        /\ item[w].status = "completed" => "approval" \in Gates[w]
    BY <1>1 DEF SoleInv, Local, Recovering
  <1>4. item' = [item EXCEPT ![w].status = "failed"]
    BY DEF FailItem, SetItem, MyItem
  <1>5. ItemMoves
    BY <1>1, <1>3, <1>4 DEF ItemMoves, MayBecome, Final, SoleInv, Inv, TypeOK
  <1> QED BY <1>1, <1>2, <1>5, Aside, Unmoved DEF Moved, Moves

\* An item read ready has no active attempt: the worker creates the next one.
LEMMA NoneActive ==
  ASSUME SoleInv, NEW s \in Worker, worker[s].item \in WorkItem, item[worker[s].item].status = "ready",
         worker[s].pc \in Early \cup (Before \ Building)
  PROVE  ActiveRows(worker[s].item) = {}
  <1> SUFFICES ASSUME NEW a \in ActiveRows(worker[s].item) PROVE FALSE
    OBVIOUS
  <1>1. a \in Attempt /\ Exists(a) /\ attempt[a].item = worker[s].item /\ ~ Ended(a)
    BY DEF ActiveRows, Rows, Exists, Ended, ActiveStatus, LiveStatus, EndStatus
  <1>2. ~ Stray(a)
    BY <1>1 DEF SoleInv, Global, StraysFit
  <1>3. item[worker[s].item].by = a /\ a # None
    BY <1>1, <1>2, NoneAssumption DEF SoleInv, Global, PastEnded
  <1> QED BY <1>1, <1>3 DEF SoleInv, Global, ReadySettled, Settled

\* Its rows end with the attempt it is claimed by.
LEMMA LastIsTop ==
  ASSUME SoleInv, NEW s \in Worker, worker[s].item \in WorkItem,
         worker[s].pc \in Early \cup (Before \ Building),
         NEW n \in 0 .. MaxNumber, IsLastNumber(worker[s].item, n)
  PROVE  n = Top(worker[s].item)
  <1> DEFINE w == worker[s].item
  <1>1. \A a \in Rows(w) : a \in Attempt /\ Exists(a) /\ attempt[a].item = w
    BY DEF Rows, Exists
  <1>2. ASSUME NEW a \in Rows(w) PROVE attempt[a].number \in 1 .. MaxNumber /\ attempt[a].number <= Top(w)
    <2>1. ~ Stray(a) /\ attempt[a].number \in 1 .. MaxNumber
      BY <1>1 DEF SoleInv, Global, StraysFit, RowsFit
    <2>2. attempt[a].item = w /\ Exists(a)
      BY <1>1
    <2>3. Top(w) \in Nat
      BY DEF Top, SoleInv, Inv, TypeOK
    <2> QED BY <2>1, <2>2, <2>3 DEF Stray
  <1>3. CASE item[w].by = None
    BY <1>2, <1>3 DEF Top, IsLastNumber
  <1>4. CASE item[w].by # None
    <2>1. item[w].by \in Rows(w)
      BY <1>4 DEF SoleInv, Inv, ClaimantExists, TypeOK, Rows, Exists
    <2> QED BY <1>2, <1>4, <2>1 DEF Top, IsLastNumber
  <1> QED BY <1>3, <1>4

\* An item found ready has no active attempt, so the next one is created; else it threw.
LEMMA DispatchMoves ==
  ASSUME SoleInv, NEW s \in Worker, Dispatch(s)
  PROVE  Moved(s)
  <1> DEFINE w == worker[s].item
  <1>1. /\ worker[s].pc = "dispatch" /\ w \in WorkItem /\ worker[s] \in Record
        /\ UNCHANGED <<item, attempt, slot, wake>>
    BY DEF Dispatch, At, SoleInv, Inv, Placed, TypeOK
  <1>2. CASE Threw(s)
    <2>1. item[w].by # None /\ attempt[item[w].by].status \in LiveStatus =>
            attempt[item[w].by].session \notin Outcome
      BY <1>1 DEF SoleInv, Local, Trying
    <2> QED BY <1>1, <1>2, <2>1, ThrewStands, Unmoved DEF Moved, Moves
  <1>3. CASE item[w].status = "ready" /\ \E a \in ActiveRows(w) : TRUE
    BY <1>1, <1>3, NoneActive
  <1>4. ASSUME item[w].status = "ready", NEW n \in 0 .. MaxNumber, IsLastNumber(w, n),
               Become(s, [worker[s] EXCEPT !.pc = "create", !.att = None, !.next = n + 1])
        PROVE  Stands(s)
    <2>1. /\ worker'[s].pc = "create" /\ worker'[s].item = w /\ worker'[s].number = worker[s].number
          /\ worker'[s].next = n + 1
      BY <1>1, <1>4 DEF Become, Record, SoleInv, Inv, TypeOK
    <2>2. n = Top(w)
      BY <1>1, <1>4, LastIsTop
    <2>3. ActiveRows(w) = {}
      BY <1>1, <1>4, NoneActive
    <2>4. wake[MyWake(s)] = "claimed" /\ worker[s].number = Top(w) + 1
      BY <1>1, <1>4 DEF SoleInv, Local, Trying
    <2>5. Trying(s)'
      BY <1>1, <1>4, <2>1, <2>2, <2>3, <2>4 DEF Trying, MyWake, Top, ActiveRows, Rows
    <2>6. Working(s)' /\ Settling(s)' /\ Recovering(s)' /\ Onward(s)
      BY <1>1, <2>1 DEF Working, Claiming, Progress, Settling, Recovering, Onward
    <2> QED BY <2>5, <2>6 DEF Stands
  <1> QED BY <1>1, <1>2, <1>3, <1>4, Unmoved DEF Dispatch, MyItem, Moved, Moves

\* A worker that builds an attempt.
LEMMA AtBuilding ==
  ASSUME SoleInv, NEW s \in Worker, worker[s].pc \in Building
  PROVE  LET w == worker[s].item
             a == worker[s].att
         IN  /\ w \in WorkItem /\ a \in Attempt /\ Exists(a) /\ attempt[a].item = w /\ worker[s] \in Record
             /\ \A v \in WorkItem : item[v].by # a
             /\ attempt[a].number = Top(w) + 1 /\ attempt[a].status \in {"queued", "cancelled"}
             /\ attempt[a].session = "none" /\ worker[s].number = Top(w) + 1
             /\ wake[MyWake(s)] = "claimed" /\ item[w].status = "ready"
             /\ \A b \in Attempt : Stray(b) /\ attempt[b].item = w => b = a
  <1>1. /\ worker[s].item \in WorkItem /\ worker[s].att \in Attempt /\ worker[s] \in Record
        /\ Exists(worker[s].att) /\ attempt[worker[s].att].item = worker[s].item
        /\ \A v \in WorkItem : item[v].by # worker[s].att
    BY DEF SoleInv, Inv, Placed, OwnsRow, AttemptPC, TypeOK
  <1>2. /\ attempt[worker[s].att].number = Top(worker[s].item) + 1
        /\ attempt[worker[s].att].status \in {"queued", "cancelled"}
        /\ attempt[worker[s].att].session = "none" /\ worker[s].number = Top(worker[s].item) + 1
        /\ wake[MyWake(s)] = "claimed" /\ item[worker[s].item].status = "ready"
    BY DEF SoleInv, Local, Trying, MyRow
  <1>3. \A b \in Attempt : Stray(b) /\ attempt[b].item = worker[s].item => b = worker[s].att
    BY DEF SoleInv, Global, StraysFit
  <1> QED BY <1>1, <1>2, <1>3

\* A worker that goes on building.
LEMMA BuildingStands ==
  ASSUME SoleInv, NEW s \in Worker, worker[s].pc \in Building, worker'[s].pc \in Building,
         worker'[s].item = worker[s].item, worker'[s].att = worker[s].att,
         worker'[s].number = worker[s].number, UNCHANGED <<item, attempt, wake>>
  PROVE  Stands(s)
  <1>1. Trying(s)'
    BY DEF Trying, SoleInv, Local, MyWake, MyRow, Top
  <1>2. Working(s)' /\ Settling(s)' /\ Recovering(s)' /\ Onward(s)
    BY DEF Working, Claiming, Progress, Settling, Recovering, Onward
  <1> QED BY <1>1, <1>2 DEF Stands

\* A free slot is taken, one that is held ends the attempt.
LEMMA TakeSlotMoves ==
  ASSUME SoleInv, NEW s \in Worker, TakeSlot(s)
  PROVE  Moved(s)
  <1>1. worker[s].pc = "slots" /\ UNCHANGED <<item, attempt, wake>> /\ worker[s] \in Record
    BY DEF TakeSlot, At, SoleInv, Inv, TypeOK
  <1>2. SlotMoves
    BY NoneAssumption DEF TakeSlot, SlotMoves, SoleInv, Inv, TypeOK
  <1> DEFINE Goes == /\ worker'[s].pc \in Building /\ worker'[s].item = worker[s].item
                     /\ worker'[s].att = worker[s].att /\ worker'[s].number = worker[s].number
  <1>3. Become(s, [worker[s] EXCEPT !.pc = "reserve", !.next = 0]) => Goes
    BY <1>1 DEF Become, Record, SoleInv, Inv, TypeOK
  <1>4. Become(s, [worker[s] EXCEPT !.next = worker[s].next + 1]) => Goes
    BY <1>1 DEF Become, Record, SoleInv, Inv, TypeOK
  <1>5. Become(s, [worker[s] EXCEPT !.pc = "undo", !.ctx = "slots", !.next = 0]) => Goes
    BY <1>1 DEF Become, Record, SoleInv, Inv, TypeOK
  <1>6. Goes
    BY <1>3, <1>4, <1>5 DEF TakeSlot
  <1> QED BY <1>1, <1>2, <1>6, BuildingStands, Unmoved DEF Moved, Moves

\* The budget is reserved or exhausted.
LEMMA ReserveBudgetMoves ==
  ASSUME SoleInv, NEW s \in Worker, ReserveBudget(s)
  PROVE  Moved(s)
  <1>1. worker[s].pc = "reserve" /\ UNCHANGED <<item, attempt, slot, wake>> /\ worker[s] \in Record
    BY DEF ReserveBudget, At, SoleInv, Inv, TypeOK
  <1> DEFINE Goes == /\ worker'[s].pc \in Building /\ worker'[s].item = worker[s].item
                     /\ worker'[s].att = worker[s].att /\ worker'[s].number = worker[s].number
  <1>2. Become(s, [worker[s] EXCEPT !.pc = "undo", !.ctx = "budget"]) => Goes
    BY <1>1 DEF Become, Record, SoleInv, Inv, TypeOK
  <1>3. Goes
    BY <1>2, Fields DEF ReserveBudget
  <1> QED BY <1>1, <1>3, BuildingStands, Unmoved DEF Moved, Moves

\* The slots given back are those of an attempt that was never started.
LEMMA UndoSlotsMoves ==
  ASSUME SoleInv, NEW s \in Worker, UndoSlots(s)
  PROVE  Moved(s)
  <1>1. worker[s].pc = "undo" /\ UNCHANGED <<item, attempt, wake>> /\ worker[s] \in Record
    BY DEF UndoSlots, At, SoleInv, Inv, TypeOK
  <1>2. attempt[worker[s].att].status \notin LiveStatus
    BY <1>1, AtBuilding DEF LiveStatus
  <1>3. SlotMoves
    BY <1>2 DEF UndoSlots, ReleaseSlots, MyAttempt, SlotMoves
  <1>4. /\ worker'[s].pc \in Building /\ worker'[s].item = worker[s].item
        /\ worker'[s].att = worker[s].att /\ worker'[s].number = worker[s].number
    BY <1>1, Fields DEF UndoSlots
  <1> QED BY <1>1, <1>3, <1>4, BuildingStands, Unmoved DEF Moved, Moves

\* Without budget an item that waited is blocked.
LEMMA BlockItemMoves ==
  ASSUME SoleInv, NEW s \in Worker, BlockItem(s)
  PROVE  Moved(s)
  <1> DEFINE w == worker[s].item
  <1>1. worker[s].pc = "block" /\ UNCHANGED <<attempt, slot, wake>> /\ w \in WorkItem
    BY DEF BlockItem, At, SoleInv, Inv, Placed
  <1>2. item[w].status = "ready"
    BY <1>1 DEF SoleInv, Local, Trying
  <1>3. item' = [item EXCEPT ![w].status = "blocked"]
    BY DEF BlockItem, SetItem, MyItem
  <1>4. ItemMoves
    BY <1>1, <1>2, <1>3 DEF ItemMoves, MayBecome, Final, SoleInv, Inv, TypeOK
  <1>5. item[w].by # None => attempt[item[w].by].status \notin LiveStatus
    BY <1>1, <1>2 DEF SoleInv, Global, ReadySettled, Settled, Ended, EndStatus, LiveStatus
  <1>6. Stands(s)
    BY <1>1, <1>4, <1>5, ThrewStands, Unmoved DEF BlockItem
  <1> QED BY <1>1, <1>4, <1>6, Unmoved DEF Moved, Moves

\* Nobody else created an attempt of this item: there is none to take over.
LEMMA RelistMoves ==
  ASSUME SoleInv, NEW s \in Worker, Relist(s)
  PROVE  Moved(s)
  <1> DEFINE w == worker[s].item
  <1>1. worker[s].pc = "relist" /\ UNCHANGED <<item, attempt, slot, wake>> /\ w \in WorkItem
    BY DEF Relist, At, SoleInv, Inv, Placed
  <1>2. item[w].status = "ready"
    BY <1>1 DEF SoleInv, Local, Trying
  <1>3. ActiveRows(w) = {}
    BY <1>1, <1>2, NoneActive
  <1>4. Threw(s)
    BY <1>3 DEF Relist, MyItem
  <1>5. item[w].by # None => attempt[item[w].by].status \notin LiveStatus
    BY <1>1, <1>2 DEF SoleInv, Global, ReadySettled, Settled, Ended, EndStatus, LiveStatus
  <1> QED BY <1>1, <1>4, <1>5, ThrewStands, Unmoved DEF Moved, Moves

-----------------------------------------------------------------------------
(* The three statements that create, claim and delete.                        *)

\* What a step may do to attempts and to settled items.
RowStep ==
  \A a \in Attempt : attempt'[a].status # attempt[a].status =>
    \/ Follows(attempt[a].status, attempt'[a].status)
    \/ ~ Exists(a) /\ attempt'[a].status = "queued"
    \/ attempt[a].status \in {"queued", "cancelled"} /\ attempt'[a] = NoRow
ItemStep ==
  \A w \in WorkItem :
    /\ Final(w) => item'[w].status = item[w].status
    /\ item[w].status = "failed" =>
         \/ item'[w].status = "failed"
         \/ item'[w].status = "ready" /\ attempt[item[w].by].status = "lost"

Steps == RowStep /\ ItemStep /\ SlotMoves

\* Such a move is one of the steps allowed.
LEMMA MovesStep ==
  ASSUME Moves
  PROVE  Steps
  BY DEF Moves, Steps, RowStep, ItemStep, RowMoves, ItemMoves, MayBecome

\* The other parts of the invariant when no claim moves.
LEMMA SameClaims ==
  ASSUME SoleInv, Inv', UNCHANGED <<item, wake>>,
         \A w \in WorkItem : item[w].by # None => attempt'[item[w].by] = attempt[item[w].by]
  PROVE  /\ Waiting' /\ ReadySettled' /\ Approving' /\ Cancelled' /\ ClosedByEvidence'
         /\ \A w \in WorkItem : Top(w)' = Top(w)
  <1>1. \A w \in WorkItem : Top(w)' = Top(w)
    BY DEF Top
  <1>2. \A w \in WorkItem : Settled(w)' = Settled(w)
    BY DEF Settled, Ended
  <1>3. Waiting'
    BY <1>1, <1>2 DEF Waiting, SoleInv, Global
  <1>4. ReadySettled' /\ Approving'
    BY <1>2 DEF ReadySettled, Approving, SoleInv, Global
  <1>5. Cancelled' /\ ClosedByEvidence'
    BY DEF Cancelled, ClosedByEvidence, SoleInv, Global
  <1> QED BY <1>1, <1>3, <1>4, <1>5

\* What those three keep: the invariant, and what a step may do.
Reshaped(s) == Global' /\ Steps /\ Trying(s)' /\ Working(s)' /\ Settling(s)' /\ Recovering(s)'

\* The new attempt is the next one of an item without an active attempt.
LEMMA CreateAttemptReshapes ==
  ASSUME SoleInv, Inv', NEW s \in Worker, CreateAttempt(s)
  PROVE  Reshaped(s)
  <1>0. PICK w : w = worker[s].item
    OBVIOUS
  <1>1. /\ worker[s].pc = "create" /\ w \in WorkItem /\ worker[s] \in Record
        /\ UNCHANGED <<item, slot, wake>> /\ worker[s].next <= MaxNumber
    BY <1>0 DEF CreateAttempt, At, SoleInv, Inv, Placed, TypeOK
  <1>2. /\ worker[s].next = Top(w) + 1 /\ ActiveRows(w) = {} /\ worker[s].number = Top(w) + 1
        /\ wake[MyWake(s)] = "claimed" /\ item[w].status = "ready"
    BY <1>0, <1>1 DEF SoleInv, Local, Trying
  <1>3. CASE UNCHANGED attempt /\ Goto(s, "relist")
    <2>1. worker'[s].pc = "relist" /\ worker'[s].item = w /\ worker'[s].number = worker[s].number
      BY <1>0, <1>3, Fields
    <2>2. Trying(s)'
      BY <1>0, <1>1, <1>2, <1>3, <2>1 DEF Trying, MyWake, Top
    <2>3. Working(s)' /\ Settling(s)' /\ Recovering(s)' /\ Onward(s)
      BY <1>0, <1>1, <2>1 DEF Working, Claiming, Progress, Settling, Recovering, Onward
    <2>4. Moves /\ \A t \in Worker : Onward(t)
      BY <1>1, <1>3, <2>3, Unmoved, Only DEF Moves
    <2> QED BY <2>2, <2>3, <2>4, GlobalKept, MovesStep DEF Reshaped, Stands
  <1>4. ASSUME NEW a \in Fresh,
               attempt' = [attempt EXCEPT ![a] = NewRow(w, worker[s].next)],
               Become(s, [worker[s] EXCEPT !.pc = "slots", !.att = a, !.next = 1])
        PROVE  Reshaped(s)
    <2>1. a \in Attempt /\ ~ Exists(a) /\ \A v \in WorkItem : item[v].by # a
      BY <1>4 DEF Fresh, Exists
    <2>2. /\ worker'[s].pc = "slots" /\ worker'[s].item = w /\ worker'[s].att = a
          /\ worker'[s].number = worker[s].number
      BY <1>0, <1>1, <1>4 DEF Become, Record, SoleInv, Inv, TypeOK
    <2>3. /\ attempt'[a].status = "queued" /\ attempt'[a].item = w /\ attempt'[a].number = Top(w) + 1
          /\ attempt'[a].session = "none"
          /\ \A b \in Attempt : b # a => attempt'[b] = attempt[b]
      BY <1>2, <1>4, <2>1 DEF NewRow, NoRow, SoleInv, Inv, TypeOK
    <2>4. \A v \in WorkItem : item[v].by # None => item[v].by \in Attempt /\ attempt'[item[v].by] = attempt[item[v].by]
      BY <2>1, <2>3 DEF SoleInv, Inv, TypeOK
    <2>5. /\ Waiting' /\ ReadySettled' /\ Approving' /\ Cancelled' /\ ClosedByEvidence'
          /\ \A v \in WorkItem : Top(v)' = Top(v)
      BY <1>1, <2>4, SameClaims
    <2>6. RowsFit'
      <3>1. Top(w) \in Nat
        BY <1>1 DEF Top, SoleInv, Inv, TypeOK
      <3> QED BY <1>1, <1>2, <2>1, <2>3, <3>1, BoundsAssumption DEF RowsFit, Exists, SoleInv, Global
    <2>7. ASSUME NEW b \in Attempt, b # a, Exists(b) PROVE Stray(b)' = Stray(b) /\ Ended(b)' = Ended(b)
      <3>1. attempt[b].item \in WorkItem
        BY <2>7 DEF SoleInv, Global, RowsFit
      <3> QED BY <2>3, <2>5, <2>7, <3>1 DEF Stray, Exists, Ended
    <2>8. \A b \in Attempt : b # a => Exists(b)' = Exists(b)
      BY <2>3 DEF Exists
    <2>9. StraysFit'
      <3> SUFFICES ASSUME NEW b \in Attempt, Stray(b)', NEW v \in WorkItem, v = attempt'[b].item
                   PROVE  /\ attempt'[b].number = Top(v) + 1
                          /\ attempt'[b].status \in {"queued", "cancelled"}
                          /\ wake[<<v, attempt'[b].number>>] \notin {"none", "queued"}
                          /\ \A t \in Worker : worker'[t].item = v /\ worker'[t].pc \in Busy =>
                               worker'[t].pc \in Building /\ worker'[t].att = b
        <4>1. \A c \in Attempt : Stray(c)' => attempt'[c].item \in WorkItem
          BY <2>6 DEF RowsFit, Stray
        <4> QED BY <1>1, <2>5, <4>1 DEF StraysFit, Top
      <3>1. CASE b = a
        <4>1. wake[<<w, Top(w) + 1>>] = "claimed"
          BY <1>0, <1>2 DEF MyWake
        <4> QED BY <2>2, <2>3, <3>1, <4>1, Only
      <3>2. CASE b # a
        <4>1. Stray(b) /\ attempt'[b] = attempt[b]
          BY <2>3, <2>7, <2>8, <3>2 DEF Stray
        <4>2. attempt[b].item # w
          BY <1>0, <1>1, <4>1 DEF SoleInv, Global, StraysFit
        <4>3. /\ attempt[b].number = Top(v) + 1 /\ attempt[b].status \in {"queued", "cancelled"}
              /\ wake[<<v, attempt[b].number>>] \notin {"none", "queued"}
          BY <4>1 DEF SoleInv, Global, StraysFit
        <4> QED BY <2>2, <4>1, <4>2, <4>3, Only
      <3> QED BY <3>1, <3>2
    <2>10. Stray(a)'
      <3>1. Top(w)' = Top(w) /\ Top(w) \in Nat
        BY <1>1, <2>5 DEF Top, SoleInv, Inv, TypeOK
      <3> QED BY <2>3, <3>1 DEF Stray, Exists, Top
    <2>11. PastEnded'
      BY <1>1, <2>3, <2>7, <2>8, <2>10 DEF PastEnded, SoleInv, Global
    <2>12. OneActiveAttempt'
      <3>1. ActiveRows(w)' \subseteq {a}
        BY <1>2, <2>3 DEF ActiveRows, Rows
      <3>2. \A v \in WorkItem : v # w => ActiveRows(v)' \subseteq ActiveRows(v)
        BY <2>3 DEF ActiveRows, Rows
      <3> QED BY <3>1, <3>2 DEF OneActiveAttempt, SoleInv, Global
    <2>13. Trying(s)'
      <3>1. Top(w)' = Top(w)
        BY <1>1, <2>5
      <3> QED BY <1>0, <1>1, <1>2, <2>2, <2>3, <3>1 DEF Trying, MyWake, MyRow, Top
    <2>14. Working(s)' /\ Settling(s)' /\ Recovering(s)' /\ Onward(s)
      BY <1>0, <1>1, <2>2 DEF Working, Claiming, Progress, Settling, Recovering, Onward
    <2>15. Steps
      BY <1>1, <2>1, <2>3 DEF Steps, RowStep, ItemStep, SlotMoves
    <2> QED BY <2>5, <2>6, <2>9, <2>11, <2>12, <2>13, <2>14, <2>15 DEF Reshaped, Stands, Global
  <1> QED BY <1>0, <1>1, <1>3, <1>4 DEF CreateAttempt, MyItem

\* The claim: the attempt a worker built is the one its item is claimed by from now on.
LEMMA ClaimWorkItemReshapes ==
  ASSUME SoleInv, Inv', NEW s \in Worker, ClaimWorkItem(s)
  PROVE  Reshaped(s)
  <1>0. PICK w, a : w = worker[s].item /\ a = worker[s].att
    OBVIOUS
  <1>1. worker[s].pc = "claim" /\ UNCHANGED <<attempt, slot, wake>>
    BY DEF ClaimWorkItem, At
  <1>2. /\ w \in WorkItem /\ a \in Attempt /\ Exists(a) /\ attempt[a].item = w /\ worker[s] \in Record
        /\ \A v \in WorkItem : item[v].by # a
        /\ attempt[a].number = Top(w) + 1 /\ attempt[a].session = "none" /\ worker[s].number = Top(w) + 1
        /\ wake[MyWake(s)] = "claimed" /\ item[w].status = "ready"
        /\ \A b \in Attempt : Stray(b) /\ attempt[b].item = w => b = a
    BY <1>0, <1>1, AtBuilding
  <1>3. CASE UNCHANGED item /\ Become(s, [worker[s] EXCEPT !.pc = "undo", !.ctx = "claim"])
    <2>1. /\ worker'[s].pc = "undo" /\ worker'[s].item = worker[s].item
          /\ worker'[s].att = worker[s].att /\ worker'[s].number = worker[s].number
      BY <1>2, <1>3 DEF Become, Record, SoleInv, Inv, TypeOK
    <2>2. Stands(s)
      BY <1>1, <1>3, <2>1, BuildingStands
    <2>3. Moves /\ \A t \in Worker : Onward(t)
      BY <1>1, <1>3, <2>2, Unmoved, Only DEF Moves, Stands
    <2> QED BY <2>2, <2>3, GlobalKept, MovesStep DEF Reshaped, Stands
  <1>4. ASSUME attempt[a].status = "queued", item' = [item EXCEPT ![w] = [status |-> "claimed", by |-> a]],
               Become(s, [worker[s] EXCEPT !.pc = "start", !.ctx = "none"])
        PROVE  Reshaped(s)
    <2>1. /\ worker'[s].pc = "start" /\ worker'[s].item = w
          /\ worker'[s].att = a /\ worker'[s].number = worker[s].number
      BY <1>0, <1>2, <1>4 DEF Become, Record, SoleInv, Inv, TypeOK
    <2>2. item'[w].by = a /\ item'[w].status = "claimed" /\ a # None
      BY <1>2, <1>4, NoneAssumption DEF SoleInv, Inv, TypeOK
    <2>3. \A v \in WorkItem : v # w => item'[v] = item[v]
      BY <1>2, <1>4 DEF SoleInv, Inv, TypeOK
    <2>4. \A v \in WorkItem : v # w => Top(v)' = Top(v) /\ Settled(v)' = Settled(v)
      BY <1>1, <2>3 DEF Top, Settled, Ended
    <2>5. \A v \in WorkItem : v = w => Top(v)' = Top(v) + 1 /\ Top(v) \in Nat
      <3>1. Top(w) \in Nat
        BY <1>2 DEF Top, SoleInv, Inv, TypeOK
      <3> QED BY <1>1, <1>2, <2>2, <3>1 DEF Top
    <2>6. RowsFit'
      BY <1>1 DEF RowsFit, Exists, SoleInv, Global
    <2>7. ASSUME NEW b \in Attempt, Stray(b)'
          PROVE  Stray(b) /\ attempt[b].item # w /\ attempt[b].item \in WorkItem
      <3>1. Exists(b) /\ attempt[b].item \in WorkItem /\ attempt[b].number \in Nat
        BY <1>1, <2>6, <2>7 DEF Stray, Exists, RowsFit
      <3>2. CASE attempt[b].item # w
        BY <1>1, <2>4, <2>7, <3>1, <3>2 DEF Stray
      <3>3. CASE attempt[b].item = w
        <4>1. attempt[b].number > Top(w) + 1
          BY <1>1, <1>2, <2>5, <2>7, <3>1, <3>3 DEF Stray
        <4>2. Stray(b)
          BY <2>5, <3>1, <3>3, <4>1, <1>2 DEF Stray
        <4>3. b = a
          BY <1>2, <3>3, <4>2
        <4> QED BY <1>2, <2>5, <4>1, <4>3
      <3> QED BY <3>2, <3>3
    <2>8. StraysFit'
      <3> SUFFICES ASSUME NEW b \in Attempt, Stray(b)', NEW v \in WorkItem, v = attempt[b].item
                   PROVE  /\ attempt[b].number = Top(v) + 1
                          /\ attempt[b].status \in {"queued", "cancelled"}
                          /\ wake[<<v, attempt[b].number>>] \notin {"none", "queued"}
                          /\ v # w
        BY <1>1, <2>1, <2>4, <2>7, Only DEF StraysFit
      <3> QED BY <2>7 DEF SoleInv, Global, StraysFit
    <2>9. PastEnded'
      <3> SUFFICES ASSUME NEW b \in Attempt, Exists(b), NEW v \in WorkItem, v = attempt[b].item,
                          item'[v].by # b
                   PROVE  Stray(b)' \/ Ended(b)
        <4>1. \A c \in Attempt : Exists(c) => attempt[c].item \in WorkItem
          BY DEF SoleInv, Global, RowsFit
        <4> QED BY <1>1, <4>1 DEF PastEnded, Exists, Ended
      <3>1. CASE v # w
        <4>1. Stray(b) \/ Ended(b)
          BY <2>3, <3>1 DEF SoleInv, Global, PastEnded
        <4> QED BY <1>1, <2>4, <3>1, <4>1 DEF Stray, Exists
      <3>2. CASE v = w /\ item[w].by # b
        BY <1>2, <2>2, <3>2 DEF SoleInv, Global, PastEnded
      <3>3. CASE v = w /\ item[w].by = b
        BY <1>2, <3>3, NoneAssumption DEF SoleInv, Global, ReadySettled, Settled
      <3> QED BY <3>1, <3>2, <3>3
    <2>10. Waiting'
      <3>1. \A n \in 1 .. MaxNumber + 1 : wake[<<w, n>>] # "queued"
        <4>1. \A n \in 1 .. MaxNumber + 1 : wake[<<w, n>>] = "queued" => n = Top(w) + 1
          BY <1>2 DEF SoleInv, Global, Waiting
        <4>2. wake[<<w, Top(w) + 1>>] = "claimed"
          BY <1>0, <1>2 DEF MyWake
        <4> QED BY <4>1, <4>2
      <3> QED BY <1>1, <2>4, <3>1 DEF Waiting, SoleInv, Global
    <2>11. ReadySettled' /\ Approving' /\ Cancelled' /\ ClosedByEvidence'
      <3>1. ReadySettled' /\ Approving'
        BY <2>2, <2>3, <2>4 DEF ReadySettled, Approving, SoleInv, Global
      <3>2. Cancelled' /\ ClosedByEvidence'
        BY <1>1, <2>2, <2>3 DEF Cancelled, ClosedByEvidence, SoleInv, Global
      <3> QED BY <3>1, <3>2
    <2>12. OneActiveAttempt'
      BY <1>1 DEF OneActiveAttempt, ActiveRows, Rows, SoleInv, Global
    <2>13. Working(s)'
      BY <1>0, <1>1, <1>2, <1>4, <2>1, <2>2 DEF Working, Claiming, Progress, MyWake, MyRow
    <2>14. Trying(s)' /\ Settling(s)' /\ Recovering(s)'
      BY <2>1 DEF Trying, Settling, Recovering
    <2>15. Steps
      BY <1>1, <1>2, <2>3 DEF Steps, RowStep, ItemStep, SlotMoves, Final
    <2> QED BY <2>6, <2>8, <2>9, <2>10, <2>11, <2>12, <2>13, <2>14, <2>15 DEF Reshaped, Global
  <1> QED BY <1>0, <1>3, <1>4 DEF ClaimWorkItem, ClaimedBy, MyItem, MyAttempt, MyRow

\* What is deleted was never started, and nothing was claimed by it.
LEMMA DeleteAttemptReshapes ==
  ASSUME SoleInv, Inv', NEW s \in Worker, DeleteAttempt(s)
  PROVE  Reshaped(s)
  <1>0. PICK w, a : w = worker[s].item /\ a = worker[s].att
    OBVIOUS
  <1>1. worker[s].pc = "delete" /\ UNCHANGED <<item, slot, wake>>
    BY DEF DeleteAttempt, At
  <1>2. /\ w \in WorkItem /\ a \in Attempt /\ Exists(a) /\ attempt[a].item = w /\ worker[s] \in Record
        /\ \A v \in WorkItem : item[v].by # a
        /\ attempt[a].status \in {"queued", "cancelled"} /\ worker[s].number = Top(w) + 1
        /\ wake[MyWake(s)] = "claimed" /\ item[w].status = "ready"
        /\ \A b \in Attempt : Stray(b) /\ attempt[b].item = w => b = a
    BY <1>0, <1>1, AtBuilding
  <1>3. attempt'[a] = NoRow /\ \A b \in Attempt : b # a => attempt'[b] = attempt[b]
    BY <1>0, <1>2 DEF DeleteAttempt, Deleted, MyAttempt
  <1>4. \A v \in WorkItem : item[v].by # None => item[v].by \in Attempt /\ attempt'[item[v].by] = attempt[item[v].by]
    BY <1>2, <1>3 DEF SoleInv, Inv, TypeOK
  <1>5. /\ Waiting' /\ ReadySettled' /\ Approving' /\ Cancelled' /\ ClosedByEvidence'
        /\ \A v \in WorkItem : Top(v)' = Top(v)
    BY <1>1, <1>4, SameClaims
  <1>6. worker'[s].pc \in {"threw", "block", "relist"} /\ worker'[s].item = w
        /\ worker'[s].number = worker[s].number
    <2>1. Threw(s) => worker'[s].pc = "threw" /\ worker'[s].item = w /\ worker'[s].number = worker[s].number
      BY <1>0 DEF Threw, Become, Idle, SoleInv, Inv, TypeOK
    <2> QED BY <1>0, <2>1, Fields DEF DeleteAttempt
  <1>7. ~ Exists(a)' /\ \A b \in Attempt : b # a => Exists(b)' = Exists(b)
    BY <1>3 DEF Exists, NoRow
  <1>8. RowsFit'
    BY <1>3, <1>7 DEF RowsFit, SoleInv, Global
  <1>9. ASSUME NEW b \in Attempt, b # a, Exists(b)
        PROVE  Stray(b)' = Stray(b) /\ Ended(b)' = Ended(b) /\ attempt[b].item \in WorkItem
    <2>1. attempt[b].item \in WorkItem
      BY <1>9 DEF SoleInv, Global, RowsFit
    <2> QED BY <1>3, <1>5, <1>9, <2>1 DEF Stray, Exists, Ended
  <1>10. StraysFit'
    <2> SUFFICES ASSUME NEW b \in Attempt, Stray(b)'
                 PROVE  /\ Stray(b) /\ b # a /\ attempt[b].item # w /\ attempt[b].item \in WorkItem
                        /\ attempt'[b] = attempt[b]
      BY <1>1, <1>5, <1>6, Only DEF StraysFit, SoleInv, Global
    <2>1. b # a /\ Exists(b)
      BY <1>7 DEF Stray
    <2> QED BY <1>2, <1>3, <1>9, <2>1
  <1>11. PastEnded'
    BY <1>1, <1>3, <1>7, <1>9 DEF PastEnded, SoleInv, Global
  <1>12. OneActiveAttempt'
    <2>1. \A v \in WorkItem : ActiveRows(v)' \subseteq ActiveRows(v)
      BY <1>3 DEF ActiveRows, Rows, NoRow, ActiveStatus, LiveStatus
    <2> QED BY <2>1 DEF OneActiveAttempt, SoleInv, Global
  <1>13. Trying(s)'
    <2>1. item[w].by # None => attempt'[item[w].by].status \notin LiveStatus
      BY <1>2, <1>4 DEF SoleInv, Global, ReadySettled, Settled, Ended, EndStatus, LiveStatus
    <2>2. MyWake(s)' = MyWake(s)
      BY <1>0, <1>6 DEF MyWake
    <2>3. wake'[MyWake(s)'] = "claimed" /\ item'[w].status = "ready" /\ item'[w].by = item[w].by
      BY <1>1, <1>2, <2>2
    <2> QED BY <1>2, <1>5, <1>6, <2>1, <2>3 DEF Trying
  <1>14. Working(s)' /\ Settling(s)' /\ Recovering(s)'
    BY <1>6 DEF Working, Claiming, Progress, Settling, Recovering
  <1>15. Steps
    BY <1>1, <1>2, <1>3 DEF Steps, RowStep, ItemStep, SlotMoves
  <1> QED BY <1>5, <1>8, <1>10, <1>11, <1>12, <1>13, <1>14, <1>15 DEF Reshaped, Global

-----------------------------------------------------------------------------
(* From the claim to the end of the run.                                       *)

\* A worker that goes on with its attempt.
LEMMA WorkStands ==
  ASSUME SoleInv, NEW s \in Worker, worker[s].pc \in After, worker'[s].pc \in After,
         worker'[s].item = worker[s].item, worker'[s].att = worker[s].att,
         worker'[s].number = worker[s].number, RowMoves, ItemMoves, wake' = wake,
         Progress(s)', Settling(s)'
  PROVE  Stands(s)
  <1>1. PICK w, a : w = worker[s].item /\ a = worker[s].att
    OBVIOUS
  <1>2. /\ w \in WorkItem /\ a \in Attempt /\ item[w].by = a /\ attempt[a].item = w
        /\ worker[s].number = attempt[a].number /\ wake[<<w, worker[s].number>>] = "claimed"
    BY <1>1, AtWork DEF MyWake
  <1>3. item'[w].by = a /\ attempt'[a].item = w /\ attempt'[a].number = attempt[a].number
    BY <1>2 DEF RowMoves, ItemMoves
  <1>4. Claiming(s)'
    BY <1>1, <1>2, <1>3 DEF Claiming, MyWake, MyRow
  <1>5. worker'[s].pc \notin Early \cup Before \cup Retrying \cup {"failWrite"} /\ worker'[s].pc \in Busy
        /\ worker[s].pc \in Busy \ Building
    OBVIOUS
  <1>6. Trying(s)' /\ Recovering(s)'
    BY <1>5 DEF Trying, Recovering
  <1>7. Onward(s)
    BY <1>5 DEF Onward
  <1> QED BY <1>4, <1>6, <1>7 DEF Stands, Working

\* One row moves along the transition table.
LEMMA StatusMoves ==
  ASSUME SoleInv, NEW a \in Attempt, NEW status, SetStatus(a, status), Stray(a) => status = "cancelled",
         Follows(attempt[a].status, status)
  PROVE  RowMoves /\ attempt'[a].status = status /\ attempt'[a].session = attempt[a].session
  <1>1. /\ attempt'[a].status = status /\ attempt'[a].session = attempt[a].session
        /\ attempt'[a].item = attempt[a].item /\ attempt'[a].number = attempt[a].number
        /\ \A b \in Attempt : b # a => attempt'[b] = attempt[b]
    BY DEF SoleInv, Inv, TypeOK, SetStatus
  <1>2. \A b \in Attempt : Stray(b) => attempt[b].status \in {"queued", "cancelled"}
    BY DEF SoleInv, Global, StraysFit
  <1> QED BY <1>1, <1>2 DEF RowMoves

\* The claimed attempt is queued still, or an operator cancelled it.
LEMMA ReadQueuedMoves ==
  ASSUME SoleInv, NEW s \in Worker, ReadQueued(s)
  PROVE  Moved(s)
  <1>1. worker[s].pc = "start" /\ UNCHANGED <<item, attempt, slot, wake>>
    BY DEF ReadQueued, At
  <1>2. Progress(s)
    BY DEF SoleInv, Local, Working
  <1>3. PICK p \in {"prepare", "restart"} :
           Goto(s, p) /\ (p = "restart" => MyRow(s).status # "queued")
    BY <1>1, <1>2 DEF ReadQueued, Progress
  <1>4. /\ worker'[s].pc = p /\ worker'[s].item = worker[s].item /\ worker'[s].att = worker[s].att
        /\ worker'[s].number = worker[s].number
    BY <1>3, Fields
  <1>5. Progress(s)'
    BY <1>1, <1>2, <1>3, <1>4 DEF Progress, MyRow
  <1>6. Settling(s)'
    BY <1>3, <1>4 DEF Settling
  <1>7. Stands(s)
    BY <1>1, <1>3, <1>4, <1>5, <1>6, WorkStands, Unmoved
  <1> QED BY <1>1, <1>7, Unmoved DEF Moved, Moves

\* It is prepared only if nobody cancelled it since.
LEMMA PrepareMoves ==
  ASSUME SoleInv, NEW s \in Worker, Prepare(s)
  PROVE  Moved(s)
  <1>1. worker[s].pc = "prepare" /\ UNCHANGED <<item, slot, wake>>
    BY DEF Prepare, At
  <1>2. Progress(s) /\ worker[s].att \in Attempt /\ ~ Stray(worker[s].att)
    BY <1>1, AtWork DEF SoleInv, Local, Working
  <1>3. CASE UNCHANGED attempt /\ MyRow(s).status # "queued" /\ Threw(s)
    <2>1. attempt[worker[s].att].status \notin LiveStatus /\ item[worker[s].item].by = worker[s].att
          /\ worker[s].item \in WorkItem
      BY <1>1, <1>2, <1>3, AtWork DEF Progress, MyRow, LiveStatus
    <2> QED BY <1>1, <1>3, <2>1, ThrewStands, Unmoved DEF Moved, Moves
  <1>4. CASE MyRow(s).status = "queued" /\ SetStatus(worker[s].att, "preparing") /\ Goto(s, "restart")
    <2>1. RowMoves /\ attempt'[worker[s].att].status = "preparing"
          /\ attempt'[worker[s].att].session = attempt[worker[s].att].session
      BY <1>2, <1>4, StatusMoves DEF Follows, MyRow
    <2>2. /\ worker'[s].pc = "restart" /\ worker'[s].item = worker[s].item /\ worker'[s].att = worker[s].att
          /\ worker'[s].number = worker[s].number
      BY <1>4, Fields
    <2>3. Progress(s)'
      BY <1>1, <1>2, <2>1, <2>2 DEF Progress, MyRow
    <2>4. Settling(s)'
      BY <2>2 DEF Settling
    <2>5. Stands(s)
      BY <1>1, <2>1, <2>2, <2>3, <2>4, WorkStands, Unmoved
    <2> QED BY <1>1, <2>1, <2>5, Unmoved DEF Moved, Moves
  <1> QED BY <1>3, <1>4 DEF Prepare, MyAttempt

\* What is no longer being prepared has been cancelled or is on its way there.
LEMMA ReadPreparingMoves ==
  ASSUME SoleInv, NEW s \in Worker, ReadPreparing(s)
  PROVE  Moved(s)
  <1>1. worker[s].pc = "restart" /\ UNCHANGED <<item, attempt, slot, wake>>
    BY DEF ReadPreparing, At
  <1>2. Progress(s) /\ MyRow(s).status \in AttemptStatus
    BY <1>1, AtWork DEF SoleInv, Local, Working, Inv, TypeOK, MyRow
  <1>3. PICK p \in {"begin", "mark"} :
           Goto(s, p) /\ (p = "mark" => MyRow(s).status # "preparing")
    BY DEF ReadPreparing
  <1>4. /\ worker'[s].pc = p /\ worker'[s].item = worker[s].item /\ worker'[s].att = worker[s].att
        /\ worker'[s].number = worker[s].number
    BY <1>3, Fields
  <1>5. Progress(s)'
    BY <1>1, <1>2, <1>3, <1>4 DEF Progress, MyRow, AttemptStatus, ActiveStatus, LiveStatus
  <1>6. Settling(s)'
    BY <1>3, <1>4 DEF Settling
  <1>7. Stands(s)
    BY <1>1, <1>3, <1>4, <1>5, <1>6, WorkStands, Unmoved
  <1> QED BY <1>1, <1>7, Unmoved DEF Moved, Moves

\* It begins to run only if nobody stopped it since.
LEMMA BeginMoves ==
  ASSUME SoleInv, NEW s \in Worker, Begin(s)
  PROVE  Moved(s)
  <1>1. worker[s].pc = "begin" /\ UNCHANGED <<item, slot, wake>>
    BY DEF Begin, At
  <1>2. Progress(s) /\ worker[s].att \in Attempt /\ ~ Stray(worker[s].att)
    BY <1>1, AtWork DEF SoleInv, Local, Working
  <1>3. CASE UNCHANGED attempt /\ Threw(s)
    <2>1. attempt[worker[s].att].session = "none" /\ item[worker[s].item].by = worker[s].att
          /\ worker[s].item \in WorkItem
      BY <1>1, <1>2, AtWork DEF Progress, MyRow
    <2> QED BY <1>1, <1>3, <2>1, ThrewStands, Unmoved, StatusNames DEF Moved, Moves
  <1>4. CASE MyRow(s).status = "preparing" /\ SetStatus(worker[s].att, "running") /\ Goto(s, "mark")
    <2>1. RowMoves /\ attempt'[worker[s].att].status = "running"
          /\ attempt'[worker[s].att].session = attempt[worker[s].att].session
      BY <1>2, <1>4, StatusMoves DEF Follows, MyRow
    <2>2. /\ worker'[s].pc = "mark" /\ worker'[s].item = worker[s].item /\ worker'[s].att = worker[s].att
          /\ worker'[s].number = worker[s].number
      BY <1>4, Fields
    <2>3. Progress(s)'
      BY <1>1, <1>2, <2>1, <2>2 DEF Progress, MyRow
    <2>4. Settling(s)'
      BY <2>2 DEF Settling
    <2>5. Stands(s)
      BY <1>1, <2>1, <2>2, <2>3, <2>4, WorkStands, Unmoved
    <2> QED BY <1>1, <2>1, <2>5, Unmoved DEF Moved, Moves
  <1> QED BY <1>3, <1>4 DEF Begin, MyAttempt

\* The item is marked as being worked on.
LEMMA MarkInProgressMoves ==
  ASSUME SoleInv, NEW s \in Worker, MarkInProgress(s)
  PROVE  Moved(s)
  <1>1. worker[s].pc = "mark" /\ UNCHANGED <<attempt, slot, wake>>
    BY DEF MarkInProgress, At
  <1>2. /\ Progress(s) /\ worker[s].item \in WorkItem /\ item[worker[s].item].by = worker[s].att
        /\ MyRow(s).status # "none"
    BY <1>1, AtWork DEF SoleInv, Local, Working, MyRow, Exists
  <1>3. item' = [item EXCEPT ![worker[s].item].status = "in_progress"] /\ Goto(s, "beat")
    BY <1>2 DEF MarkInProgress, SetItem, MyItem, MyAttempt
  <1>4. item[worker[s].item].status \in {"claimed", "in_progress"}
    BY <1>1, <1>2 DEF Progress
  <1>5. ItemMoves /\ item'[worker[s].item].status = "in_progress"
    BY <1>2, <1>3, <1>4 DEF ItemMoves, MayBecome, Final, SoleInv, Inv, TypeOK
  <1>6. /\ worker'[s].pc = "beat" /\ worker'[s].item = worker[s].item /\ worker'[s].att = worker[s].att
        /\ worker'[s].number = worker[s].number
    BY <1>3, Fields
  <1>7. Progress(s)'
    BY <1>1, <1>2, <1>5, <1>6 DEF Progress, MyRow
  <1>8. Settling(s)'
    BY <1>6 DEF Settling
  <1>9. Stands(s)
    BY <1>1, <1>5, <1>6, <1>7, <1>8, WorkStands, Unmoved
  <1> QED BY <1>1, <1>5, <1>9, Unmoved DEF Moved, Moves

\* The first heartbeat finds it live or has it settled as failed.
LEMMA HeartbeatMoves ==
  ASSUME SoleInv, NEW s \in Worker, Heartbeat(s)
  PROVE  Moved(s)
  <1>1. worker[s].pc = "beat" /\ UNCHANGED <<item, attempt, slot, wake>>
    BY DEF Heartbeat, At
  <1>2. Progress(s)
    BY DEF SoleInv, Local, Working
  <1>3. CASE ProviderThrew(s)
    <2>1. attempt[worker[s].att].session \notin Outcome
      BY <1>1, <1>2, StatusNames DEF Progress, MyRow
    <2> QED BY <1>1, <1>3, <2>1, ProviderThrewStands, Unmoved DEF Moved, Moves
  <1>4. CASE Goto(s, "link")
    <2>1. /\ worker'[s].pc = "link" /\ worker'[s].item = worker[s].item /\ worker'[s].att = worker[s].att
          /\ worker'[s].number = worker[s].number
      BY <1>4, Fields
    <2>2. Progress(s)'
      BY <1>1, <1>2, <2>1 DEF Progress, MyRow
    <2>3. Settling(s)'
      BY <2>1 DEF Settling
    <2>4. Stands(s)
      BY <1>1, <2>1, <2>2, <2>3, WorkStands, Unmoved
    <2> QED BY <1>1, <2>4, Unmoved DEF Moved, Moves
  <1> QED BY <1>3, <1>4 DEF Heartbeat

\* A row of which only the session or the request flags change.
LEMMA SameStatus ==
  ASSUME SoleInv, \A b \in Attempt : /\ attempt'[b].status = attempt[b].status
                                 /\ attempt'[b].item = attempt[b].item
                                 /\ attempt'[b].number = attempt[b].number
  PROVE  RowMoves
  BY DEF RowMoves, SoleInv, Global, StraysFit

\* Its session is linked before the CLI runs.
LEMMA LinkSessionMoves ==
  ASSUME SoleInv, NEW s \in Worker, LinkSession(s)
  PROVE  Moved(s)
  <1>1. worker[s].pc = "link" /\ UNCHANGED <<item, slot, wake>> /\ worker[s].att \in Attempt
    BY AtWork DEF LinkSession, At
  <1>2. Progress(s)
    BY DEF SoleInv, Local, Working
  <1>3. CASE UNCHANGED attempt /\ ProviderThrew(s)
    <2>1. attempt[worker[s].att].session \notin Outcome
      BY <1>1, <1>2, StatusNames DEF Progress, MyRow
    <2> QED BY <1>1, <1>3, <2>1, ProviderThrewStands, Unmoved DEF Moved, Moves
  <1>4. CASE attempt' = [attempt EXCEPT ![worker[s].att].session = "running"] /\ Goto(s, "run")
    <2>1. /\ worker'[s].pc = "run" /\ worker'[s].item = worker[s].item /\ worker'[s].att = worker[s].att
          /\ worker'[s].number = worker[s].number
      BY <1>4, Fields
    <2>2. /\ RowMoves
          /\ attempt'[worker[s].att].status = attempt[worker[s].att].status
      BY <1>1, <1>4, SameStatus DEF SoleInv, Inv, TypeOK
    <2>3. Progress(s)'
      BY <1>1, <1>2, <2>1, <2>2 DEF Progress, MyRow
    <2>4. Settling(s)'
      BY <2>1 DEF Settling
    <2>5. Stands(s)
      BY <1>1, <2>1, <2>2, <2>3, <2>4, WorkStands, Unmoved
    <2> QED BY <1>1, <2>2, <2>5, Unmoved DEF Moved, Moves
  <1> QED BY <1>3, <1>4 DEF LinkSession, MyAttempt

\* The run ends in one of the results the CLI can report, never as cancelled.
LEMMA FinishCliMoves ==
  ASSUME SoleInv, NEW s \in Worker, FinishCli(s)
  PROVE  Moved(s)
  <1>1. worker[s].pc = "run" /\ UNCHANGED <<item, attempt, slot, wake>> /\ worker[s] \in Record
    BY DEF FinishCli, At, SoleInv, Inv, TypeOK
  <1>2. Progress(s)
    BY DEF SoleInv, Local, Working
  <1>3. PICK out \in {"succeeded", "failed", "timed_out"}, ctx \in {"interrupt", "abort", "plain"} :
           /\ ctx = "interrupt" => out = "timed_out"
           /\ Become(s, [worker[s] EXCEPT !.pc = "session", !.out = out, !.ctx = ctx])
    BY ResultsAssumption DEF FinishCli
  <1>4. /\ worker'[s].pc = "session" /\ worker'[s].item = worker[s].item /\ worker'[s].att = worker[s].att
        /\ worker'[s].number = worker[s].number /\ worker'[s].out = out /\ worker'[s].ctx = ctx
    BY <1>1, <1>3 DEF Become, Record, SoleInv, Inv, TypeOK
  <1>5. Progress(s)'
    BY <1>1, <1>2, <1>4 DEF Progress, MyRow
  <1>6. Settling(s)'
    BY <1>3, <1>4 DEF Settling
  <1>7. Stands(s)
    BY <1>1, <1>4, <1>5, <1>6, WorkStands, Unmoved
  <1> QED BY <1>1, <1>7, Unmoved DEF Moved, Moves

\* A run without evidence has failed, an aborted one is told apart by its context.
LEMMA EndSessionMoves ==
  ASSUME SoleInv, NEW s \in Worker, EndSession(s)
  PROVE  Moved(s)
  <1>1. /\ worker[s].pc = "session" /\ UNCHANGED <<item, slot, wake>> /\ worker[s] \in Record
        /\ worker[s].att \in Attempt /\ MyRow(s).status # "none"
    BY AtWork DEF EndSession, At, SoleInv, Inv, TypeOK, MyRow, Exists
  <1>2. Progress(s) /\ Settling(s)
    BY DEF SoleInv, Local, Working
  <1>3. PICK out, ctx, session :
           /\ out # "cancelled" /\ (ctx = "interrupt" => out = "timed_out")
           /\ attempt' = [attempt EXCEPT ![worker[s].att].session = session]
           /\ Become(s, [worker[s] EXCEPT !.pc = "settle", !.out = out, !.ctx = ctx])
    <2>1. worker[s].out # "cancelled" /\ (worker[s].ctx = "interrupt" => worker[s].out = "timed_out")
      BY <1>1, <1>2 DEF Settling
    <2> QED BY <1>1, <2>1 DEF EndSession, MyAttempt
  <1>4. /\ worker'[s].pc = "settle" /\ worker'[s].item = worker[s].item /\ worker'[s].att = worker[s].att
        /\ worker'[s].number = worker[s].number /\ worker'[s].out = out /\ worker'[s].ctx = ctx
    BY <1>1, <1>3 DEF Become, Record, SoleInv, Inv, TypeOK
  <1>5. RowMoves /\ attempt'[worker[s].att].status = attempt[worker[s].att].status
    BY <1>1, <1>3, SameStatus DEF SoleInv, Inv, TypeOK
  <1>6. Progress(s)'
    BY <1>1, <1>2, <1>4, <1>5 DEF Progress, MyRow
  <1>7. Settling(s)'
    BY <1>3, <1>4 DEF Settling
  <1>8. Stands(s)
    BY <1>1, <1>4, <1>5, <1>6, <1>7, WorkStands, Unmoved
  <1> QED BY <1>1, <1>5, <1>8, Unmoved DEF Moved, Moves

\* A worker that goes on to compare the status it has read.
LEMMA CompareStands ==
  ASSUME SoleInv, NEW s \in Worker, NEW p \in {"settleAbort", "settleCas"}, worker[s].pc \in {"settle", "settleAbort"},
         NEW seen \in {"running", "cancelling"},
         Become(s, [worker[s] EXCEPT !.pc = p, !.seen = seen]),
         RowMoves, UNCHANGED <<item, wake>>, attempt'[worker[s].att].status = seen,
         p = "settleAbort" => worker[s].ctx = "abort" /\ seen = "running",
         p = "settleCas" => Follows(seen, SettleTarget(s))
  PROVE  Stands(s)
  <1>1. worker[s] \in Record
    BY DEF SoleInv, Inv, TypeOK
  <1>2. /\ worker'[s].pc = p /\ worker'[s].item = worker[s].item /\ worker'[s].att = worker[s].att
        /\ worker'[s].number = worker[s].number /\ worker'[s].out = worker[s].out
        /\ worker'[s].ctx = worker[s].ctx /\ worker'[s].seen = seen
    BY <1>1 DEF Become, Record, SoleInv, Inv, TypeOK
  <1>3. item[worker[s].item].status \in {"claimed", "in_progress"}
    BY DEF SoleInv, Local, Working, Progress
  <1>4. Progress(s)'
    BY <1>2, <1>3 DEF Progress, MyRow
  <1>5. SettleTarget(s)' = SettleTarget(s)
    BY <1>2 DEF SettleTarget
  <1>6. Settling(s)'
    BY <1>2, <1>5 DEF Settling, MyRow
  <1> QED BY <1>2, <1>4, <1>6, WorkStands, Unmoved

\* What it settles the attempt with follows the status it has read.
LEMMA ReadForSettleMoves ==
  ASSUME SoleInv, NEW s \in Worker, ReadForSettle(s)
  PROVE  Moved(s)
  <1>1. /\ worker[s].pc = "settle" /\ UNCHANGED <<item, slot, wake>> /\ worker[s].att \in Attempt
        /\ worker[s].out \in Outcome /\ worker[s].att \in Attempt
    BY AtWork DEF ReadForSettle, At, SoleInv, Inv, TypeOK, Placed, OutcomePC
  <1>2. /\ MyRow(s).status \in {"running", "cancelling"} \cup EndStatus
        /\ worker[s].out # "cancelled" /\ (worker[s].ctx = "interrupt" => worker[s].out = "timed_out")
    BY <1>1 DEF SoleInv, Local, Working, Progress, Settling
  <1>3. CASE UNCHANGED attempt /\ worker[s].ctx = "interrupt"
    <2>1. CASE MyRow(s).status \in {"running", "cancelling"}
               /\ Become(s, [worker[s] EXCEPT !.pc = "settleCas", !.seen = MyRow(s).status])
      <3>1. Follows(MyRow(s).status, SettleTarget(s))
        BY <1>3, <2>1 DEF Follows, SettleTarget
      <3> QED BY <1>1, <1>3, <2>1, <3>1, CompareStands, Unmoved DEF Moved, Moves, MyRow
    <2>2. CASE MyRow(s).status \notin {"running", "cancelling"} /\ Returned(s, "return")
      BY <1>1, <1>2, <1>3, <2>2, ReturnedStands, Unmoved DEF Moved, Moves, MyRow
    <2> QED BY <1>1, <1>3, <2>1, <2>2 DEF ReadForSettle
  <1>4. CASE UNCHANGED attempt /\ worker[s].ctx = "plain"
    <2>1. CASE Follows(MyRow(s).status, worker[s].out)
               /\ Become(s, [worker[s] EXCEPT !.pc = "settleCas", !.seen = MyRow(s).status])
      <3>1. MyRow(s).status \in {"running", "cancelling"}
        BY <1>2, <2>1, FollowsEnds
      <3>2. Follows(MyRow(s).status, SettleTarget(s))
        BY <1>4, <2>1 DEF SettleTarget
      <3> QED BY <1>1, <1>4, <2>1, <3>1, <3>2, CompareStands, Unmoved DEF Moved, Moves, MyRow
    <2>2. CASE ~ Follows(MyRow(s).status, worker[s].out) /\ ProviderThrew(s)
      <3>1. MyRow(s).status # "running"
        BY <1>1, <1>2, <2>2 DEF Follows, Outcome
      <3> QED BY <1>1, <1>4, <2>2, <3>1, ProviderThrewStands, Unmoved DEF Moved, Moves, MyRow
    <2> QED BY <1>1, <1>4, <2>1, <2>2 DEF ReadForSettle
  <1>5. CASE /\ worker[s].ctx = "abort" /\ MyRow(s).status \in LiveStatus
             /\ attempt' = [attempt EXCEPT ![worker[s].att].cancel = TRUE, ![worker[s].att].interrupt = FALSE]
             /\ Become(s, [worker[s] EXCEPT !.seen = MyRow(s).status,
                             !.pc = IF MyRow(s).status = "cancelling" THEN "settleCas" ELSE "settleAbort"])
    <2>1. MyRow(s).status \in {"running", "cancelling"}
      BY <1>2, <1>5 DEF LiveStatus, EndStatus
    <2>2. RowMoves /\ attempt'[worker[s].att].status = attempt[worker[s].att].status
      BY <1>1, <1>5, SameStatus DEF SoleInv, Inv, TypeOK
    <2>3. PICK p \in {"settleAbort", "settleCas"} :
             /\ p = IF MyRow(s).status = "cancelling" THEN "settleCas" ELSE "settleAbort"
             /\ Become(s, [worker[s] EXCEPT !.pc = p, !.seen = MyRow(s).status])
      BY <1>1, <1>5 DEF Become
    <2>4. p = "settleCas" => Follows(MyRow(s).status, SettleTarget(s))
      BY <1>5, <2>3 DEF Follows, SettleTarget
    <2>5. Stands(s)
      BY <1>1, <1>5, <2>1, <2>2, <2>3, <2>4, CompareStands DEF MyRow
    <2> QED BY <1>1, <2>2, <2>5, Unmoved DEF Moved, Moves
  <1>6. CASE UNCHANGED attempt /\ MyRow(s).status \notin LiveStatus
             /\ (MyRow(s).status = "none" \/ Returned(s, "return"))
    <2>1. MyRow(s).status \in EndStatus /\ MyRow(s).status # "none"
      BY <1>2, <1>6 DEF LiveStatus, EndStatus
    <2> QED BY <1>1, <1>6, <2>1, ReturnedStands, Unmoved DEF Moved, Moves, MyRow
  <1> QED BY <1>1, <1>3, <1>4, <1>5, <1>6 DEF ReadForSettle, MyAttempt

\* An aborted run passes through cancelling, unless the row has moved.
LEMMA SettleAbortMoves ==
  ASSUME SoleInv, NEW s \in Worker, SettleAbort(s)
  PROVE  Moved(s)
  <1>1. worker[s].pc = "settleAbort" /\ UNCHANGED <<item, slot, wake>> /\ worker[s].att \in Attempt
        /\ ~ Stray(worker[s].att)
    BY AtWork DEF SettleAbort, At
  <1>2. /\ worker[s].ctx = "abort" /\ worker[s].seen = "running"
        /\ MyRow(s).status \in {"running", "cancelling"} \cup EndStatus
    BY <1>1 DEF SoleInv, Local, Settling, Working, Progress
  <1>3. CASE UNCHANGED attempt /\ MyRow(s).status # worker[s].seen /\ ProviderThrew(s)
    BY <1>1, <1>2, <1>3, ProviderThrewStands, Unmoved DEF Moved, Moves, MyRow
  <1>4. CASE /\ MyRow(s).status = worker[s].seen /\ SetStatus(worker[s].att, "cancelling")
             /\ Become(s, [worker[s] EXCEPT !.pc = "settleCas", !.seen = "cancelling"])
    <2>1. RowMoves /\ attempt'[worker[s].att].status = "cancelling"
      BY <1>1, <1>2, <1>4, StatusMoves DEF Follows, MyRow
    <2>2. Follows("cancelling", SettleTarget(s))
      BY <1>2 DEF Follows, SettleTarget
    <2>3. Stands(s)
      BY <1>1, <1>4, <2>1, <2>2, CompareStands
    <2> QED BY <1>1, <2>1, <2>3, Unmoved DEF Moved, Moves
  <1> QED BY <1>3, <1>4 DEF SettleAbort, StillSeen, MyAttempt

\* The status is settled only if it is the one that was read.
LEMMA SettleAttemptMoves ==
  ASSUME SoleInv, NEW s \in Worker, SettleAttempt(s)
  PROVE  Moved(s)
  <1>1. /\ worker[s].pc = "settleCas" /\ UNCHANGED <<item, slot, wake>> /\ worker[s].att \in Attempt
        /\ ~ Stray(worker[s].att) /\ worker[s].out \in Outcome
    BY AtWork DEF SettleAttempt, At, SoleInv, Inv, Placed, OutcomePC
  <1>2. /\ worker[s].seen \in {"running", "cancelling"}
        /\ MyRow(s).status \in {worker[s].seen, "cancelling"} \cup EndStatus
        /\ Follows(worker[s].seen, SettleTarget(s))
    BY <1>1 DEF SoleInv, Local, Settling
  <1>3. CASE UNCHANGED attempt /\ MyRow(s).status # worker[s].seen /\ ProviderThrew(s)
    <2>1. MyRow(s).status # "running"
      BY <1>2, <1>3 DEF EndStatus
    <2> QED BY <1>1, <1>3, <2>1, ProviderThrewStands, Unmoved DEF Moved, Moves, MyRow
  <1>4. CASE /\ Follows(MyRow(s).status, SettleTarget(s)) /\ SetStatus(worker[s].att, SettleTarget(s))
             /\ Returned(s, "return") \/ ProviderThrew(s)
    <2>1. SettleTarget(s) \in EndStatus /\ SettleTarget(s) # "running"
      BY <1>1 DEF SettleTarget, EndStatus, Outcome
    <2>2. RowMoves /\ attempt'[worker[s].att].status = SettleTarget(s)
      BY <1>1, <1>2, <1>4, StatusMoves DEF MyRow
    <2>3. Stands(s)
      BY <1>1, <1>4, <2>1, <2>2, ReturnedStands, ProviderThrewStands
    <2> QED BY <1>1, <2>2, <2>3, Unmoved DEF Moved, Moves
  <1>5. CASE /\ UNCHANGED attempt /\ MyRow(s).status # worker[s].seen
             /\ worker[s].ctx = "abort" /\ Returned(s, "return")
    <2>1. worker[s].seen = "cancelling"
      BY <1>2, <1>5 DEF Follows, SettleTarget
    <2>2. MyRow(s).status \in EndStatus /\ MyRow(s).status # "none"
      BY <1>2, <1>5, <2>1 DEF EndStatus
    <2> QED BY <1>1, <1>5, <2>2, ReturnedStands, Unmoved DEF Moved, Moves, MyRow
  <1> QED BY <1>2, <1>3, <1>4, <1>5 DEF SettleAttempt, StillSeen, StillPermits, MyAttempt

-----------------------------------------------------------------------------
(* The settlement of the item.                                                *)

\* Slots given back are those of an attempt that has ended.
LEMMA ReleaseMoves ==
  ASSUME SoleInv, NEW a, ReleaseSlots(a), a \in Attempt => attempt[a].status \notin LiveStatus
  PROVE  SlotMoves
  BY DEF ReleaseSlots, SlotMoves

\* A worker whose attempt has ended: what it has still to do with it.
LEMMA AtOver ==
  ASSUME SoleInv, NEW s \in Worker, worker[s].pc \in Over
  PROVE  LET w == worker[s].item
             a == worker[s].att
         IN  /\ w \in WorkItem /\ a \in Attempt /\ item[w].by = a /\ a # None /\ worker[s] \in Record
             /\ attempt[a].status \in EndStatus /\ attempt[a].status \notin LiveStatus
             /\ attempt[a].number = Top(w) /\ Settled(w)
             /\ worker[s].pc # "verify" => worker[s].ctx \in {"return", "rethrow"}
             /\ worker[s].pc \notin {"release", "verify"} => item[w].status \in {"claimed", "in_progress"}
  <1>1. worker[s].pc \in After
    OBVIOUS
  <1>2. attempt[worker[s].att].status \in EndStatus
    BY DEF SoleInv, Local, Working, Progress, MyRow
  <1>3. /\ worker[s].pc # "verify" => worker[s].ctx \in {"return", "rethrow"}
        /\ worker[s].pc \notin {"release", "verify"} => item[worker[s].item].status \in {"claimed", "in_progress"}
    BY DEF SoleInv, Local, Working, Progress, Settling
  <1>4. attempt[worker[s].att].status \notin LiveStatus
    BY <1>2 DEF EndStatus, LiveStatus
  <1>5. Settled(worker[s].item)
    BY <1>1, <1>2, AtWork DEF Settled, Ended
  <1> QED BY <1>1, <1>2, <1>3, <1>4, <1>5, AtWork

\* A worker that goes on to settle the item of its ended attempt.
LEMMA OverStands ==
  ASSUME SoleInv, NEW s \in Worker, worker[s].pc \in Over \ {"verify"}, NEW p \in {"lateItem", "release"}, Goto(s, p),
         UNCHANGED <<attempt, wake>>, ItemMoves,
         p = "lateItem" => item'[worker[s].item].status = item[worker[s].item].status /\ worker[s].pc = "lateRelease"
  PROVE  Stands(s)
  <1>1. /\ worker'[s].pc = p /\ worker'[s].item = worker[s].item /\ worker'[s].att = worker[s].att
        /\ worker'[s].number = worker[s].number /\ worker'[s].ctx = worker[s].ctx
    BY Fields
  <1>2. Progress(s)'
    BY <1>1, AtOver DEF Progress, MyRow
  <1>3. Settling(s)'
    BY <1>1, AtOver DEF Settling
  <1> QED BY <1>1, <1>2, <1>3, WorkStands, Unmoved

\* Where a worker goes on once attempt and item are settled.
LEMMA AfterCompletionStands ==
  ASSUME SoleInv, NEW s \in Worker, NEW status, AfterCompletion(s, status),
         worker[s].pc \in {"lateItem", "release"}, UNCHANGED <<attempt, wake>>, ItemMoves
  PROVE  Stands(s)
  <1>1. worker[s].ctx \in {"return", "rethrow"} /\ worker[s] \in Record
    BY AtOver
  <1>2. CASE Threw(s)
    BY <1>2, AtOver, ThrewStands, Unmoved
  <1>3. CASE Become(s, [worker[s] EXCEPT !.pc = "verify", !.out = "none", !.ctx = "none",
                                         !.next = 0, !.seen = status])
    <2>1. /\ worker'[s].pc = "verify" /\ worker'[s].item = worker[s].item /\ worker'[s].att = worker[s].att
          /\ worker'[s].number = worker[s].number
      BY <1>1, <1>3 DEF Become, Record, SoleInv, Inv, TypeOK
    <2>2. Progress(s)'
      BY <2>1, AtOver DEF Progress, MyRow
    <2>3. Settling(s)'
      BY <2>1 DEF Settling
    <2> QED BY <2>1, <2>2, <2>3, WorkStands, Unmoved
  <1> QED BY <1>1, <1>2, <1>3 DEF AfterCompletion

\* What an item may be settled with, given how its attempt ended.
LEMMA SettlementMoves ==
  ASSUME SoleInv, NEW s \in Worker, worker[s].pc \in Over \ {"release", "verify"},
         NEW status \in Settlements(worker[s].att, worker[s].item, attempt[worker[s].att].status),
         SetItem(worker[s].item, status)
  PROVE  ItemMoves
  <1>1. PICK w, a : w = worker[s].item /\ a = worker[s].att
    OBVIOUS
  <1>2. /\ w \in WorkItem /\ a \in Attempt /\ item[w].by = a /\ a # None /\ Settled(w)
        /\ attempt[a].status \in EndStatus /\ item[w].status \in {"claimed", "in_progress"}
    BY <1>1, AtOver
  <1>3. MayBecome(w, status)
    <2>1. CASE attempt[a].status = "succeeded"
      BY <1>1, <1>2, <2>1 DEF Settlements, Advanced, MayBecome, Final
    <2>2. CASE attempt[a].status = "cancelled"
      BY <1>1, <1>2, <2>2 DEF Settlements, MayBecome, Final
    <2>3. CASE attempt[a].status \notin {"succeeded", "cancelled"}
      BY <1>1, <1>2, <2>3 DEF Settlements, MayBecome, Final
    <2> QED BY <2>1, <2>2, <2>3
  <1>4. item' = [item EXCEPT ![w].status = status]
    BY <1>1 DEF SetItem
  <1> QED BY <1>2, <1>3, <1>4 DEF ItemMoves, SoleInv, Inv, TypeOK

\* An attempt that is still active is settled as failed, once its provider threw.
LEMMA ReadCompletedMoves ==
  ASSUME SoleInv, NEW s \in Worker, ReadCompleted(s)
  PROVE  Moved(s)
  <1>1. /\ worker[s].pc = "complete" /\ UNCHANGED <<item, attempt, slot, wake>> /\ worker[s] \in Record
        /\ worker[s].att \in Attempt /\ MyRow(s).status # "none"
    BY AtWork DEF ReadCompleted, At, MyRow, Exists
  <1>2. /\ MyRow(s).status \in {"running", "cancelling"} \cup EndStatus
        /\ item[worker[s].item].status \in {"claimed", "in_progress"}
        /\ worker[s].ctx \in {"return", "rethrow"}
        /\ worker[s].ctx = "return" => MyRow(s).status \in EndStatus
        /\ worker[s].ctx = "rethrow" =>
             worker[s].out = "failed" /\ (MyRow(s).session \in Outcome => MyRow(s).status # "running")
    BY <1>1 DEF SoleInv, Local, Working, Progress, Settling
  <1>3. CASE MyRow(s).status \in EndStatus
             /\ Become(s, [worker[s] EXCEPT !.pc = "lateRelease", !.seen = item[worker[s].item].status])
    <2>1. /\ worker'[s].pc = "lateRelease" /\ worker'[s].item = worker[s].item /\ worker'[s].att = worker[s].att
          /\ worker'[s].number = worker[s].number /\ worker'[s].ctx = worker[s].ctx
      BY <1>1, <1>3 DEF Become, Record, SoleInv, Inv, TypeOK
    <2>2. Progress(s)'
      BY <1>1, <1>2, <1>3, <2>1 DEF Progress, MyRow
    <2>3. Settling(s)'
      BY <1>2, <2>1 DEF Settling
    <2>4. Stands(s)
      BY <1>1, <2>1, <2>2, <2>3, WorkStands, Unmoved
    <2> QED BY <1>1, <2>4, Unmoved DEF Moved, Moves
  <1>4. CASE MyRow(s).status \notin EndStatus
             /\ Become(s, [worker[s] EXCEPT !.pc = "completeCas", !.seen = MyRow(s).status])
    <2>1. /\ worker'[s].pc = "completeCas" /\ worker'[s].item = worker[s].item /\ worker'[s].att = worker[s].att
          /\ worker'[s].number = worker[s].number /\ worker'[s].ctx = worker[s].ctx
          /\ worker'[s].out = worker[s].out /\ worker'[s].seen = MyRow(s).status
      BY <1>1, <1>4 DEF Become, Record, SoleInv, Inv, TypeOK
    <2>2. Progress(s)'
      BY <1>1, <1>2, <2>1 DEF Progress, MyRow
    <2>3. Settling(s)'
      BY <1>1, <1>2, <1>4, <2>1 DEF Settling, MyRow
    <2>4. Stands(s)
      BY <1>1, <2>1, <2>2, <2>3, WorkStands, Unmoved
    <2> QED BY <1>1, <2>4, Unmoved DEF Moved, Moves
  <1> QED BY <1>1, <1>3, <1>4 DEF ReadCompleted, MyItem

\* The attempt had ended: its slots are given back.
LEMMA LateReleaseMoves ==
  ASSUME SoleInv, NEW s \in Worker, LateRelease(s)
  PROVE  Moved(s)
  <1>1. worker[s].pc = "lateRelease" /\ UNCHANGED <<item, attempt, wake>> /\ Goto(s, "lateItem")
    BY DEF LateRelease, At
  <1>2. SlotMoves
    BY <1>1, AtOver, ReleaseMoves DEF LateRelease, MyAttempt
  <1>3. Stands(s)
    BY <1>1, OverStands, Unmoved
  <1> QED BY <1>1, <1>2, <1>3, Unmoved DEF Moved, Moves

\* The item is settled by how its attempt had ended already.
LEMMA LateSettleItemMoves ==
  ASSUME SoleInv, NEW s \in Worker, LateSettleItem(s)
  PROVE  Moved(s)
  <1>1. worker[s].pc = "lateItem" /\ UNCHANGED <<attempt, slot, wake>>
    BY DEF LateSettleItem, At
  <1>2. CASE UNCHANGED item /\ Threw(s)
    <2>1. Stands(s)
      BY <1>1, <1>2, AtOver, ThrewStands, Unmoved
    <2> QED BY <1>1, <1>2, <2>1, Unmoved DEF Moved, Moves
  <1>3. CASE UNCHANGED item /\ AfterCompletion(s, worker[s].seen)
    <2>1. Stands(s)
      BY <1>1, <1>3, AfterCompletionStands, Unmoved
    <2> QED BY <1>1, <1>3, <2>1, Unmoved DEF Moved, Moves
  <1>4. ASSUME NEW status \in Settlements(worker[s].att, worker[s].item, attempt[worker[s].att].status),
               SetItem(worker[s].item, status), AfterCompletion(s, status)
        PROVE  Moved(s)
    <2>1. ItemMoves
      BY <1>1, <1>4, SettlementMoves
    <2>2. Stands(s)
      BY <1>1, <1>4, <2>1, AfterCompletionStands
    <2> QED BY <1>1, <2>1, <2>2, Unmoved DEF Moved, Moves
  <1> QED BY <1>2, <1>3, <1>4 DEF LateSettleItem, MyItem, MyAttempt, MyRow

\* Whatever moved the row meanwhile ended it or began to cancel it.
LEMMA CompleteAttemptMoves ==
  ASSUME SoleInv, NEW s \in Worker, CompleteAttempt(s)
  PROVE  Moved(s)
  <1>1. /\ worker[s].pc = "completeCas" /\ UNCHANGED <<item, slot, wake>> /\ worker[s] \in Record
        /\ worker[s].att \in Attempt /\ ~ Stray(worker[s].att)
    BY AtWork DEF CompleteAttempt, At
  <1>2. /\ worker[s].seen \in {"running", "cancelling"} /\ worker[s].out = "failed"
        /\ MyRow(s).status \in {worker[s].seen, "cancelling"} \cup EndStatus
        /\ MyRow(s).session \in Outcome => worker[s].seen = "cancelling"
        /\ worker[s].ctx \in {"return", "rethrow"}
        /\ item[worker[s].item].status \in {"claimed", "in_progress"}
    BY <1>1 DEF SoleInv, Local, Settling, Working, Progress
  <1>3. CASE /\ UNCHANGED attempt /\ Threw(s)
             /\ MyRow(s).status # worker[s].seen \/ ~ Follows(MyRow(s).status, "failed")
    <2>1. /\ worker[s].item \in WorkItem /\ item[worker[s].item].by = worker[s].att
          /\ attempt[worker[s].att].status \in LiveStatus => attempt[worker[s].att].session \notin Outcome
      BY <1>1, <1>2, <1>3, AtWork DEF MyRow, LiveStatus, EndStatus, Follows
    <2>2. Stands(s)
      BY <1>1, <1>3, <2>1, ThrewStands, Unmoved
    <2> QED BY <1>1, <1>3, <2>2, Unmoved DEF Moved, Moves
  <1>4. CASE /\ Follows(MyRow(s).status, "failed") /\ SetStatus(worker[s].att, "failed")
             /\ Become(s, [worker[s] EXCEPT !.pc = "settleItem", !.seen = "none"])
    <2>1. RowMoves /\ attempt'[worker[s].att].status = "failed"
      BY <1>1, <1>2, <1>4, StatusMoves DEF Follows, MyRow
    <2>2. /\ worker'[s].pc = "settleItem" /\ worker'[s].item = worker[s].item /\ worker'[s].att = worker[s].att
          /\ worker'[s].number = worker[s].number /\ worker'[s].ctx = worker[s].ctx
          /\ worker'[s].out = worker[s].out
      BY <1>1, <1>4 DEF Become, Record, SoleInv, Inv, TypeOK
    <2>3. Progress(s)'
      BY <1>1, <1>2, <2>1, <2>2 DEF Progress, MyRow, EndStatus
    <2>4. Settling(s)'
      BY <1>2, <2>1, <2>2 DEF Settling, MyRow
    <2>5. Stands(s)
      BY <1>1, <2>1, <2>2, <2>3, <2>4, WorkStands, Unmoved
    <2> QED BY <1>1, <2>1, <2>5, Unmoved DEF Moved, Moves
  <1> QED BY <1>2, <1>3, <1>4
          DEF CompleteAttempt, StillPermits, MayHaveMoved, StillSeen, MyAttempt

\* The item is settled by what its attempt was settled with.
LEMMA SettleItemMoves ==
  ASSUME SoleInv, NEW s \in Worker, SettleItem(s)
  PROVE  Moved(s)
  <1>1. worker[s].pc = "settleItem" /\ UNCHANGED <<attempt, slot, wake>>
    BY DEF SettleItem, At
  <1>2. worker[s].out = attempt[worker[s].att].status
    BY <1>1 DEF SoleInv, Local, Settling, MyRow
  <1>3. CASE UNCHANGED item /\ Threw(s)
    <2>1. Stands(s)
      BY <1>1, <1>3, AtOver, ThrewStands, Unmoved
    <2> QED BY <1>1, <1>3, <2>1, Unmoved DEF Moved, Moves
  <1>4. ASSUME NEW status \in Settlements(worker[s].att, worker[s].item, worker[s].out),
               SetItem(worker[s].item, status), Goto(s, "release")
        PROVE  Moved(s)
    <2>1. ItemMoves
      BY <1>1, <1>2, <1>4, SettlementMoves
    <2>2. Stands(s)
      BY <1>1, <1>4, <2>1, OverStands
    <2> QED BY <1>1, <2>1, <2>2, Unmoved DEF Moved, Moves
  <1> QED BY <1>3, <1>4 DEF SettleItem, MyItem, MyAttempt

\* Its slots are given back after the item was settled.
LEMMA SettleReleaseMoves ==
  ASSUME SoleInv, NEW s \in Worker, SettleRelease(s)
  PROVE  Moved(s)
  <1>1. worker[s].pc = "release" /\ UNCHANGED <<item, attempt, wake>>
    BY DEF SettleRelease, At
  <1>2. SlotMoves
    BY <1>1, AtOver, ReleaseMoves DEF SettleRelease, MyAttempt
  <1>3. Stands(s)
    BY <1>1, AfterCompletionStands, Unmoved DEF SettleRelease
  <1> QED BY <1>1, <1>2, <1>3, Unmoved DEF Moved, Moves

-----------------------------------------------------------------------------
(* After execute returned, and recovery.                                      *)

\* A worker that queues the retry of a settled item, or is about to read it.
LEMMA RetryOn ==
  ASSUME SoleInv, NEW s \in Worker, worker'[s].pc \in {"retry", "retryReady", "retryQueue"},
         NEW w \in WorkItem, worker'[s].item = w, item[w].by # None, RowMoves, ItemMoves,
         worker'[s].next = Top(w) + 1, Settled(w),
         worker'[s].pc = "retryReady" => item'[w].status = "ready"
  PROVE  Stands(s)
  <1>1. \A v \in WorkItem : Top(v)' = Top(v) /\ (Settled(v) => Settled(v)')
    BY TopStays
  <1>2. item'[w].by # None
    BY DEF ItemMoves
  <1>4. \A v \in WorkItem : v = worker'[s].item => /\ item'[v].by # None /\ Settled(v)'
                                                   /\ worker'[s].next = Top(v)' + 1
    BY <1>1, <1>2
  <1>5. Recovering(s)'
    BY <1>4 DEF Recovering
  <1>6. Trying(s)' /\ Working(s)' /\ Settling(s)' /\ Onward(s)
    BY DEF Trying, Working, Claiming, Progress, Settling, Onward
  <1> QED BY <1>5, <1>6 DEF Stands

\* The item returned to wait for a retry, or the wakeup is finished.
LEMMA AfterVerificationStands ==
  ASSUME SoleInv, NEW s \in Worker, AfterVerification(s), worker[s].pc = "verify",
         UNCHANGED <<attempt, wake>>, ItemMoves
  PROVE  Stands(s)
  <1>1. PICK w, a : w = worker[s].item /\ a = worker[s].att
    OBVIOUS
  <1>2. /\ w \in WorkItem /\ a \in Attempt /\ item[w].by = a /\ a # None /\ worker[s] \in Record
        /\ attempt[a].number = Top(w) /\ Settled(w)
    BY <1>1, AtOver
  <1>3. CASE Become(s, [Idle EXCEPT !.pc = "retry", !.item = w, !.number = worker[s].number,
                          !.ctx = "finish", !.next = attempt[a].number + 1])
    <2>1. worker'[s].pc = "retry" /\ worker'[s].item = w /\ worker'[s].next = Top(w) + 1
      BY <1>2, <1>3 DEF Become, Idle, SoleInv, Inv, TypeOK
    <2> QED BY <1>2, <2>1, RetryOn, Unmoved
  <1>4. CASE Become(s, [Idle EXCEPT !.pc = "finish", !.item = w, !.number = worker[s].number])
    <2>1. worker'[s].pc = "finish"
      BY <1>4 DEF Become, Idle, SoleInv, Inv, TypeOK
    <2> QED BY <2>1, Aside
  <1> QED BY <1>1, <1>3, <1>4 DEF AfterVerification, MyItem, MyRow, Idle

\* The checker decides on an item whose attempt succeeded.
LEMMA VerifyMoves ==
  ASSUME SoleInv, NEW s \in Worker, Verify(s)
  PROVE  Moved(s)
  <1>1. PICK w : w = worker[s].item
    OBVIOUS
  <1>2. worker[s].pc = "verify" /\ UNCHANGED <<attempt, slot, wake>> /\ w \in WorkItem
    BY <1>1, AtOver DEF Verify, At
  <1>3. CASE UNCHANGED item /\ AfterVerification(s)
    <2>1. Stands(s)
      BY <1>2, <1>3, AfterVerificationStands, Unmoved
    <2> QED BY <1>2, <1>3, <2>1, Unmoved DEF Moved, Moves
  <1>4. CASE UNCHANGED item /\ Threw(s)
    <2>1. Stands(s)
      BY <1>1, <1>2, <1>4, AtOver, ThrewStands, Unmoved
    <2> QED BY <1>2, <1>4, <2>1, Unmoved DEF Moved, Moves
  <1>5. ASSUME item[w].status = "awaiting_verification",
               NEW status \in {IF "approval" \in Gates[w] THEN "awaiting_approval" ELSE "completed", "blocked"},
               SetItem(w, status), AfterVerification(s)
        PROVE  Moved(s)
    <2>1. item[w].by # None /\ attempt[item[w].by].status = "succeeded"
      BY <1>2, <1>5 DEF SoleInv, Global, ClosedByEvidence
    <2>2. MayBecome(w, status)
      BY <1>5, <2>1 DEF MayBecome, Final
    <2>3. ItemMoves
      BY <1>2, <1>5, <2>2 DEF SetItem, ItemMoves, SoleInv, Inv, TypeOK
    <2>4. Stands(s)
      BY <1>2, <1>5, <2>3, AfterVerificationStands
    <2> QED BY <1>2, <2>3, <2>4, Unmoved DEF Moved, Moves
  <1> QED BY <1>1, <1>3, <1>4, <1>5 DEF Verify, MyItem

\* Where a worker is that queues a retry.
LEMMA AtRetry ==
  ASSUME SoleInv, NEW s \in Worker, worker[s].pc \in Retrying
  PROVE  LET w == worker[s].item
         IN  /\ w \in WorkItem /\ item[w].by # None /\ worker[s].next = Top(w) + 1 /\ Settled(w)
             /\ worker[s] \in Record
  <1>1. worker[s].item \in WorkItem /\ worker[s] \in Record
    BY DEF SoleInv, Inv, Placed, TypeOK
  <1> QED BY <1>1 DEF SoleInv, Local, Recovering

\* The item may have been cancelled before its retry is queued.
LEMMA ReadForRetryMoves ==
  ASSUME SoleInv, NEW s \in Worker, ReadForRetry(s)
  PROVE  Moved(s)
  <1>1. PICK w : w = worker[s].item
    OBVIOUS
  <1>2. worker[s].pc = "retry" /\ UNCHANGED <<item, attempt, slot, wake>>
    BY DEF ReadForRetry, At
  <1>3. PICK p \in {"retryReady", "retryQueue"} : Goto(s, p) /\ (p = "retryReady" => item[w].status = "ready")
    BY <1>1 DEF ReadForRetry, MyItem
  <1>4. worker'[s].pc = p /\ worker'[s].item = w /\ worker'[s].next = worker[s].next
    BY <1>1, <1>3, Fields
  <1>5. Stands(s)
    BY <1>1, <1>2, <1>3, <1>4, AtRetry, RetryOn, Unmoved
  <1> QED BY <1>2, <1>5, Unmoved DEF Moved, Moves

\* The item read ready is ready still.
LEMMA RetryReadyMoves ==
  ASSUME SoleInv, NEW s \in Worker, RetryReady(s)
  PROVE  Moved(s)
  <1>1. PICK w : w = worker[s].item
    OBVIOUS
  <1>2. worker[s].pc = "retryReady" /\ UNCHANGED <<attempt, slot, wake>> /\ Goto(s, "retryQueue")
    BY DEF RetryReady, At
  <1>3. item[w].status = "ready" /\ w \in WorkItem
    BY <1>1, <1>2, AtRetry DEF SoleInv, Local, Recovering
  <1>4. ItemMoves
    BY <1>1, <1>3 DEF RetryReady, SetItem, MyItem, ItemMoves, SoleInv, Inv, TypeOK
  <1>5. worker'[s].pc = "retryQueue" /\ worker'[s].item = w /\ worker'[s].next = worker[s].next
    BY <1>1, <1>2, Fields
  <1>6. Stands(s)
    BY <1>1, <1>2, <1>4, <1>5, AtRetry, RetryOn, Unmoved
  <1> QED BY <1>2, <1>4, <1>6, Unmoved DEF Moved, Moves

\* The wakeup it inserts is for the attempt after the one that ended.
LEMMA QueueRetryMoves ==
  ASSUME SoleInv, NEW s \in Worker, QueueRetry(s)
  PROVE  Moved(s)
  <1>1. PICK w : w = worker[s].item
    OBVIOUS
  <1>2. worker[s].pc = "retryQueue" /\ UNCHANGED <<item, attempt, slot>>
    BY DEF QueueRetry, At
  <1>3. w \in WorkItem /\ worker[s].next = Top(w) + 1 /\ Settled(w)
    BY <1>1, <1>2, AtRetry
  <1>4. WakeMoves
    <2>1. \A key \in WakeKey : wake'[key] = wake[key] \/ (key = <<w, worker[s].next>> /\ wake[key] = "none")
      BY <1>1 DEF QueueRetry, MyItem, SoleInv, Inv, TypeOK
    <2>2. \A v \in WorkItem, n \in 1 .. MaxNumber + 1 : <<v, n>> \in WakeKey
      BY DEF WakeKey
    <2> QED BY <1>3, <2>1, <2>2 DEF WakeMoves
  <1>5. worker'[s].pc \in {"finish", "idle"}
    <2>1. \A p : Become(s, [Idle EXCEPT !.pc = p, !.item = w, !.number = worker[s].number]) => worker'[s].pc = p
      BY DEF Become, Idle, SoleInv, Inv, TypeOK
    <2>2. Become(s, Idle) => worker'[s].pc = "idle"
      BY DEF Become, Idle, SoleInv, Inv, TypeOK
    <2> QED BY <1>1, <2>1, <2>2 DEF QueueRetry, MyItem
  <1> QED BY <1>2, <1>4, <1>5, Aside, Unmoved DEF Moved, Moves

\* The wakeup is finished once.
LEMMA FinishWakeupMoves ==
  ASSUME SoleInv, NEW s \in Worker, FinishWakeup(s)
  PROVE  Moved(s)
  <1>1. worker[s].pc = "finish" /\ UNCHANGED <<item, attempt, slot>>
    BY DEF FinishWakeup, At
  <1>2. MyWake(s) \in WakeKey
    BY <1>1 DEF SoleInv, Inv, Placed, TypeOK, MyWake, WakeKey, Record
  <1>3. WakeMoves
    BY <1>2 DEF FinishWakeup, MarkWake, WakeMoves, SoleInv, Inv, TypeOK, WakeKey
  <1>4. worker'[s].pc = "idle"
    BY DEF FinishWakeup, Become, Idle, SoleInv, Inv, TypeOK
  <1> QED BY <1>1, <1>3, <1>4, Aside, Unmoved DEF Moved, Moves

\* A worker that handles an attempt which ended without it.
LEMMA EndedStands ==
  ASSUME NEW s \in Worker, worker'[s].pc \in {"lost", "recoverRelease"},
         attempt'[worker'[s].att].status \in EndStatus
  PROVE  Stands(s)
  <1>1. Progress(s)'
    BY DEF Progress, MyRow
  <1>2. Trying(s)' /\ Claiming(s)' /\ Settling(s)' /\ Recovering(s)' /\ Onward(s)
    BY DEF Trying, Claiming, Settling, Recovering, Onward
  <1> QED BY <1>1, <1>2 DEF Stands, Working

\* Only a started attempt is lost, and that is the one its item is claimed by.
LEMMA LoseAttemptMoves ==
  ASSUME SoleInv, NEW s \in Worker, LoseAttempt(s)
  PROVE  Moved(s)
  <1>1. PICK a \in Attempt : /\ attempt[a].status \in LiveStatus /\ SetStatus(a, "lost")
                             /\ Become(s, [Idle EXCEPT !.pc = "lost", !.att = a])
    BY DEF LoseAttempt, Losable
  <1>2. UNCHANGED <<item, slot, wake>>
    BY DEF LoseAttempt
  <1>3. ~ Stray(a) /\ Follows(attempt[a].status, "lost")
    BY <1>1 DEF SoleInv, Global, StraysFit, LiveStatus, Follows
  <1>4. RowMoves /\ attempt'[a].status = "lost"
    BY <1>1, <1>3, StatusMoves
  <1>5. worker'[s].pc = "lost" /\ worker'[s].att = a
    BY <1>1 DEF Become, Idle, SoleInv, Inv, TypeOK
  <1>6. Stands(s)
    BY <1>4, <1>5, EndedStands DEF EndStatus
  <1> QED BY <1>2, <1>4, <1>6, Unmoved DEF Moved, Moves

\* What was lost gives its slots back and fails its session.
LEMMA LoseReleaseMoves ==
  ASSUME SoleInv, NEW s \in Worker, LoseRelease(s)
  PROVE  Moved(s)
  <1>1. worker[s].pc = "lost" /\ UNCHANGED <<item, wake>> /\ worker[s].att \in Attempt
    BY AttemptPCNames DEF LoseRelease, At, SoleInv, Inv, Placed
  <1>2. attempt[worker[s].att].status \in EndStatus
    BY <1>1 DEF SoleInv, Local, Working, Progress, MyRow
  <1>3. SlotMoves
    BY <1>2, ReleaseMoves DEF LoseRelease, MyAttempt, EndStatus, LiveStatus
  <1>4. RowMoves
    BY <1>1, SameStatus DEF LoseRelease, MyAttempt, SoleInv, Inv, TypeOK
  <1>5. worker'[s].pc = "idle"
    BY DEF LoseRelease, Become, Idle, SoleInv, Inv, TypeOK
  <1> QED BY <1>1, <1>3, <1>4, <1>5, Aside, Unmoved DEF Moved, Moves

\* A wakeup marked by recovery.
LEMMA MarkedMoves ==
  ASSUME SoleInv, NEW key, NEW status \in {"completed", "failed"}, wake' = [wake EXCEPT ![key] = status]
  PROVE  WakeMoves
  <1>1. \A k \in WakeKey : wake'[k] = wake[k] \/ wake'[k] = status
    BY DEF SoleInv, Inv, TypeOK
  <1>2. \A w \in WorkItem, n \in 1 .. MaxNumber + 1 : <<w, n>> \in WakeKey
    BY DEF WakeKey
  <1> QED BY <1>1, <1>2 DEF WakeMoves

\* The retried claim is lost, or was settled for a retry.
LEMMA RecoverRetryMoves ==
  ASSUME SoleInv, NEW s \in Worker, RecoverRetry(s)
  PROVE  Moved(s)
  <1>1. PICK w \in WorkItem, n \in 1 .. MaxNumber + 1 :
           /\ RetryableClaim(w)
           /\ wake' = [wake EXCEPT ![<<w, n>>] = "failed"]
           /\ Become(s, [Idle EXCEPT !.pc = "recoverReady", !.item = w, !.number = n,
                           !.att = item[w].by, !.ctx = "recover", !.next = attempt[item[w].by].number + 1])
    BY DEF RecoverRetry
  <1>2. UNCHANGED <<item, attempt, slot>> /\ WakeMoves
    BY <1>1, MarkedMoves DEF RecoverRetry
  <1>3. /\ item[w].by # None /\ Top(w) = attempt[item[w].by].number /\ Settled(w)
        /\ item[w].status = "ready" \/ attempt[item[w].by].status = "lost"
    BY <1>1 DEF RetryableClaim, LastLost, Top, Settled, Ended, EndStatus
  <1>4. worker'[s].pc = "recoverReady" /\ worker'[s].item = w /\ worker'[s].next = Top(w) + 1
    BY <1>1, <1>3 DEF Become, Idle, SoleInv, Inv, TypeOK
  <1>5. Recovering(s)'
    <2>1. \A v \in WorkItem : Top(v)' = Top(v) /\ Settled(v)' = Settled(v)
      BY <1>2 DEF Top, Settled, Ended
    <2>2. \A v \in WorkItem : v = worker'[s].item => /\ item'[v].by # None /\ Settled(v)'
                                                     /\ worker'[s].next = Top(v)' + 1
      BY <1>2, <1>3, <1>4, <2>1
    <2> QED BY <1>2, <1>3, <1>4, <2>2 DEF Recovering
  <1>6. Trying(s)' /\ Working(s)' /\ Settling(s)' /\ Onward(s)
    BY <1>4 DEF Trying, Working, Claiming, Progress, Settling, Onward
  <1> QED BY <1>2, <1>5, <1>6, Unmoved DEF Moved, Moves, Stands

\* It reopens an item that is ready anyway or lost its attempt.
LEMMA RecoverReadyMoves ==
  ASSUME SoleInv, NEW s \in Worker, RecoverReady(s)
  PROVE  Moved(s)
  <1>1. PICK w : w = worker[s].item
    OBVIOUS
  <1>2. worker[s].pc = "recoverReady" /\ UNCHANGED <<attempt, slot, wake>> /\ Goto(s, "retry")
    BY DEF RecoverReady, At
  <1>3. /\ w \in WorkItem /\ item[w].by # None /\ worker[s].next = Top(w) + 1 /\ Settled(w)
        /\ item[w].status = "ready" \/ attempt[item[w].by].status = "lost"
    BY <1>1, <1>2, AtRetry DEF SoleInv, Local, Recovering
  <1>4. item[w].status = "ready" \/ MayBecome(w, "ready")
    BY <1>3 DEF MayBecome, Final, SoleInv, Global, Cancelled, ClosedByEvidence
  <1>5. ItemMoves
    BY <1>1, <1>3, <1>4 DEF RecoverReady, SetItem, MyItem, ItemMoves, SoleInv, Inv, TypeOK
  <1>6. worker'[s].pc = "retry" /\ worker'[s].item = w /\ worker'[s].next = worker[s].next
    BY <1>1, <1>2, Fields
  <1>7. Stands(s)
    BY <1>2, <1>3, <1>5, <1>6, RetryOn, Unmoved
  <1> QED BY <1>2, <1>5, <1>7, Unmoved DEF Moved, Moves

\* The wakeup of a completed item is completed with it.
LEMMA RecoverCompletedMoves ==
  ASSUME SoleInv, NEW s \in Worker, RecoverCompleted(s)
  PROVE  Moved(s)
  <1>1. UNCHANGED <<item, attempt, slot, worker>> /\ worker[s].pc = "idle"
    BY DEF RecoverCompleted, At
  <1>2. WakeMoves
    BY MarkedMoves DEF RecoverCompleted
  <1> QED BY <1>1, <1>2, Aside, Unmoved DEF Moved, Moves

\* A claim that cannot be retried: its attempt is cancelled, released, or was never made.
LEMMA RecoverFailMoves ==
  ASSUME SoleInv, NEW s \in Worker, RecoverFail(s)
  PROVE  Moved(s)
  <1>1. UNCHANGED <<item, attempt, slot>> /\ WakeMoves
    BY MarkedMoves DEF RecoverFail
  <1>2. PICK r : /\ Become(s, r) /\ r.pc \in {"recoverCancel", "recoverRelease", "failItem"}
                 /\ r.pc = "recoverRelease" => attempt[r.att].status \in EndStatus
    <2>1. PICK w \in WorkItem, n \in 1 .. MaxNumber + 1 : \E status, p, r :
             /\ status = IF item[w].by = None THEN "none" ELSE attempt[item[w].by].status
             /\ status \notin LiveStatus
             /\ p = CASE status = "queued" -> "recoverCancel"
                      [] status \in EndStatus -> "recoverRelease"
                      [] OTHER -> "failItem"
             /\ r = [Idle EXCEPT !.item = w, !.number = n, !.att = item[w].by, !.pc = p]
             /\ Become(s, r)
      BY DEF RecoverFail
    <2>2. PICK status, p, r :
             /\ status = IF item[w].by = None THEN "none" ELSE attempt[item[w].by].status
             /\ p = CASE status = "queued" -> "recoverCancel"
                      [] status \in EndStatus -> "recoverRelease"
                      [] OTHER -> "failItem"
             /\ r = [Idle EXCEPT !.item = w, !.number = n, !.att = item[w].by, !.pc = p]
             /\ Become(s, r)
      BY <2>1
    <2>3. p \in {"recoverCancel", "recoverRelease", "failItem"}
          /\ (p = "recoverRelease" => attempt[item[w].by].status \in EndStatus)
      BY <2>2 DEF EndStatus
    <2>4. r.pc = p /\ r.att = item[w].by
      BY <2>2 DEF Idle
    <2> QED BY <2>2, <2>3, <2>4
  <1>3. worker'[s] = r
    BY <1>2, Fields
  <1>4. Stands(s)
    BY <1>1, <1>2, <1>3, Aside, EndedStands
  <1> QED BY <1>1, <1>4, Unmoved DEF Moved, Moves

\* Only an attempt that may still be cancelled is.
LEMMA RecoverCancelMoves ==
  ASSUME SoleInv, NEW s \in Worker, RecoverCancel(s)
  PROVE  Moved(s)
  <1>1. worker[s].pc = "recoverCancel" /\ UNCHANGED <<item, slot, wake>> /\ worker[s].att \in Attempt
    BY AttemptPCNames DEF RecoverCancel, At, SoleInv, Inv, Placed
  <1>2. CASE UNCHANGED attempt /\ Become(s, Idle)
    <2>1. worker'[s].pc = "idle"
      BY <1>2 DEF Become, Idle, SoleInv, Inv, TypeOK
    <2> QED BY <1>1, <1>2, <2>1, Aside, Unmoved DEF Moved, Moves
  <1>3. CASE /\ Follows(MyRow(s).status, "cancelled") /\ SetStatus(worker[s].att, "cancelled")
             /\ Goto(s, "recoverRelease")
    <2>1. RowMoves /\ attempt'[worker[s].att].status = "cancelled"
      BY <1>1, <1>3, StatusMoves DEF MyRow
    <2>2. worker'[s].pc = "recoverRelease" /\ worker'[s].att = worker[s].att
      BY <1>3, Fields
    <2>3. Stands(s)
      BY <2>1, <2>2, EndedStands DEF EndStatus
    <2> QED BY <1>1, <2>1, <2>3, Unmoved DEF Moved, Moves
  <1> QED BY <1>2, <1>3 DEF RecoverCancel, MyAttempt

\* Its slots are given back before its item fails.
LEMMA RecoverReleaseMoves ==
  ASSUME SoleInv, NEW s \in Worker, RecoverRelease(s)
  PROVE  Moved(s)
  <1>1. worker[s].pc = "recoverRelease" /\ UNCHANGED <<item, attempt, wake>> /\ worker[s].att \in Attempt
    BY AttemptPCNames DEF RecoverRelease, At, SoleInv, Inv, Placed
  <1>2. attempt[worker[s].att].status \in EndStatus
    BY <1>1 DEF SoleInv, Local, Working, Progress, MyRow
  <1>3. SlotMoves
    BY <1>2, ReleaseMoves DEF RecoverRelease, MyAttempt, EndStatus, LiveStatus
  <1>4. worker'[s].pc = "failItem"
    BY Fields DEF RecoverRelease
  <1> QED BY <1>1, <1>3, <1>4, Aside, Unmoved DEF Moved, Moves

-----------------------------------------------------------------------------
(* What happens from outside.                                                 *)

\* A dead worker remembers nothing.
LEMMA CrashMoves ==
  ASSUME SoleInv, NEW s \in Worker, Crash(s)
  PROVE  Moved(s)
  <1>1. UNCHANGED <<item, attempt, slot, wake>>
    BY DEF Crash
  <1>2. worker'[s].pc = "idle"
    BY DEF Crash, Become, Idle, SoleInv, Inv, TypeOK
  <1> QED BY <1>1, <1>2, Aside, Unmoved DEF Moved, Moves

\* A suspended worker and one that wakes up stand where they stood.
LEMMA StallMoves ==
  ASSUME SoleInv, NEW s \in Worker, Stall(s) \/ Resume(s)
  PROVE  Moved(s)
  <1>1. UNCHANGED <<item, attempt, slot, wake, worker>>
    BY DEF Stall, Resume
  <1> QED BY <1>1, Still, Unmoved DEF Moved, Moves

\* A lease expires, and a slot is taken or freed by others.
LEMMA LeasesMove ==
  ASSUME SoleInv, NEW k \in Slot, Leases(k), NEW s \in Worker
  PROVE  Moved(s)
  <1>1. UNCHANGED <<item, attempt, wake, worker>>
    BY DEF Leases, ReconcileExpiredLock, OtherTakes, OtherFrees
  <1>2. SlotMoves
    BY NoneAssumption DEF Leases, ReconcileExpiredLock, LeaseExtended, OtherTakes, OtherFrees, SlotMoves,
       SoleInv, Inv, TypeOK
  <1> QED BY <1>1, <1>2, Still, Unmoved DEF Moved, Moves

\* What an operator does to a row.
LEMMA OperateRow ==
  ASSUME SoleInv, NEW a \in Attempt, Operate(a)
  PROVE  /\ UNCHANGED <<item, slot, wake, worker>>
         /\ \A b \in Attempt :
              /\ attempt'[b].item = attempt[b].item /\ attempt'[b].number = attempt[b].number
              /\ attempt'[b].session = attempt[b].session
              /\ \/ attempt'[b].status = attempt[b].status
                 \/ attempt[b].status \in {"queued", "preparing"} /\ attempt'[b].status = "cancelled"
                 \/ attempt[b].status \in {"preparing", "running"} /\ attempt'[b].status = "cancelling"
  <1>1. UNCHANGED <<item, slot, wake, worker>>
    BY DEF Operate, CancelQueued, RequestCancel, RequestInterrupt, BeginCancelling
  <1>2. CASE CancelQueued(a)
    BY <1>2 DEF CancelQueued, SetStatus, SoleInv, Inv, TypeOK
  <1>3. CASE RequestCancel(a)
    BY <1>3 DEF RequestCancel, SoleInv, Inv, TypeOK
  <1>4. CASE RequestInterrupt(a)
    BY <1>4 DEF RequestInterrupt, SoleInv, Inv, TypeOK
  <1>5. CASE BeginCancelling(a)
    BY <1>5 DEF BeginCancelling, SetStatus, SoleInv, Inv, TypeOK
  <1> QED BY <1>1, <1>2, <1>3, <1>4, <1>5 DEF Operate

\* An operator ends no attempt that a worker takes for a live one, without its finding out.
LEMMA OperateMoves ==
  ASSUME SoleInv, NEW a \in Attempt, Operate(a), NEW s \in Worker
  PROVE  Moved(s)
  <1>1. PICK w, m, r : w = worker[s].item /\ m = worker[s].att /\ r = worker[s]
    OBVIOUS
  <1>2. worker'[s] = r /\ UNCHANGED <<item, slot, wake>>
    BY <1>1, OperateRow
  <1>3. RowMoves
    <2>1. \A b \in Attempt : Stray(b) => attempt[b].status \in {"queued", "cancelled"}
      BY DEF SoleInv, Global, StraysFit
    <2> QED BY <2>1, OperateRow DEF RowMoves, Follows
  <1>4. /\ \A v \in WorkItem : Top(v)' = Top(v) /\ (Settled(v) => Settled(v)')
        /\ \A b \in Attempt : attempt[b].status \in EndStatus => attempt'[b].status = attempt[b].status
    BY <1>2, <1>3, TopStays, Unmoved DEF Ended
  <1>5. \A v \in WorkItem : item[v].by # None => item[v].by \in Attempt
    BY DEF SoleInv, Inv, TypeOK
  <1>6. r.pc \notin {"idle", "lost"} => w \in WorkItem
    BY <1>1 DEF SoleInv, Inv, Placed
  <1>7. r.pc \in AttemptPC => m \in Attempt
    BY <1>1 DEF SoleInv, Inv, Placed
  <1>8. Trying(s)'
    <2>1. Trying(s)
      BY DEF SoleInv, Local
    <2>2. CASE r.pc \in Early
      <3>1. w \in WorkItem /\ Top(w)' = Top(w)
        BY <1>4, <1>6, <2>2
      <3>2. item[w].by # None /\ attempt'[item[w].by].status \in LiveStatus =>
              attempt'[item[w].by].session \notin Outcome
        BY <1>1, <1>5, <2>1, <2>2, <3>1, OperateRow DEF Trying, LiveStatus
      <3>3. /\ wake[<<w, r.number>>] = "claimed" /\ r.number \in {Top(w), Top(w) + 1}
            /\ r.pc # "threw" /\ item[w].status = "ready" => r.number = Top(w) + 1
        BY <1>1, <2>1, <2>2 DEF Trying, MyWake
      <3>4. \A v \in WorkItem : v = w => Top(v)' = Top(v)
        BY <1>4
      <3> QED BY <1>1, <1>2, <2>2, <3>1, <3>2, <3>3, <3>4 DEF Trying, MyWake, Top
    <2>3. CASE r.pc \in Before
      <3>1. w \in WorkItem
        BY <1>6, <2>3
      <3>2. /\ wake[<<w, r.number>>] = "claimed" /\ r.number = Top(w) + 1 /\ item[w].status = "ready"
            /\ r.pc = "create" => r.next = Top(w) + 1 /\ ActiveRows(w) = {}
            /\ r.pc \in Building => /\ attempt[m].number = Top(w) + 1 /\ attempt[m].session = "none"
                                    /\ attempt[m].status \in {"queued", "cancelled"}
        BY <1>1, <2>1, <2>3 DEF Trying, MyWake, MyRow
      <3>3. \A v \in WorkItem : v = w => Top(v)' = Top(v)
        BY <1>4
      <3>4. ActiveRows(w) = {} => \A b \in Attempt :
              ~ (attempt'[b].status # "none" /\ attempt'[b].item = w /\ attempt'[b].status \in ActiveStatus)
        BY OperateRow DEF ActiveRows, Rows, ActiveStatus, LiveStatus
      <3>5. r.pc \in Building => /\ attempt'[m].number = Top(w) + 1 /\ attempt'[m].session = "none"
                                 /\ attempt'[m].status \in {"queued", "cancelled"}
        BY <1>7, <3>2, OperateRow DEF AttemptPC
      <3> QED BY ZenonT(30), <1>1, <1>2, <2>3, <3>1, <3>2, <3>3, <3>4, <3>5 DEF Trying, MyWake, MyRow, Top, ActiveRows, Rows
    <2> QED BY <1>1, <1>2, <2>2, <2>3 DEF Trying
  <1>9. Claiming(s)'
    BY <1>1, <1>2, <1>7, OperateRow DEF Claiming, AttemptPC, MyWake, MyRow, SoleInv, Local, Working
  <1>10. Progress(s)'
    <2>1. Progress(s)
      BY DEF SoleInv, Local, Working
    <2> QED BY <1>1, <1>2, <1>4, <1>7, <2>1, OperateRow DEF Progress, AttemptPC, MyRow, EndStatus
  <1>11. Settling(s)'
    <2>1. Settling(s) /\ Progress(s)
      BY DEF SoleInv, Local, Working
    <2>2. SettleTarget(s)' = SettleTarget(s)
      BY <1>1, <1>2 DEF SettleTarget
    <2> QED BY <1>1, <1>2, <1>4, <1>7, <2>1, <2>2, OperateRow DEF Settling, Progress, AttemptPC, MyRow, EndStatus
  <1>12. Recovering(s)'
    <2>1. Recovering(s)
      BY DEF SoleInv, Local
    <2>2. \A v \in WorkItem : v = w => Top(v)' = Top(v) /\ (Settled(v) => Settled(v)')
      BY <1>4
    <2>3. r.pc = "recoverReady" /\ attempt[item[w].by].status = "lost" => attempt'[item[w].by].status = "lost"
      BY <1>1, <1>4, <1>5, <1>6, <2>1 DEF Recovering, EndStatus
    <2> QED BY <1>1, <1>2, <1>6, <2>1, <2>2, <2>3 DEF Recovering, Top
  <1>13. Onward(s)
    BY <1>1, <1>2 DEF Onward
  <1> QED BY <1>2, <1>3, <1>8, <1>9, <1>10, <1>11, <1>12, <1>13, Unmoved DEF Moved, Moves, Stands, Working

\* The approver decides on an item whose attempt succeeded.
LEMMA DecideApprovalMoves ==
  ASSUME SoleInv, NEW w \in WorkItem, DecideApproval(w), NEW s \in Worker
  PROVE  Moved(s)
  <1>1. UNCHANGED <<attempt, slot, wake, worker>> /\ item[w].status = "awaiting_approval"
    BY DEF DecideApproval
  <1>2. PICK status \in {"completed", "blocked"} : item' = [item EXCEPT ![w].status = status]
    BY DEF DecideApproval, SetItem
  <1>3. /\ item'[w].by = item[w].by /\ item'[w].status = status
        /\ \A v \in WorkItem : v # w => item'[v] = item[v]
    BY <1>2 DEF SoleInv, Inv, TypeOK
  <1>4. ItemMoves
    <2>1. MayBecome(w, status)
      BY <1>1 DEF MayBecome, Final, SoleInv, Global, ClosedByEvidence, Approving
    <2> QED BY <1>3, <2>1 DEF ItemMoves
  <1>5. PICK u, r : u = worker[s].item /\ r = worker[s]
    OBVIOUS
  <1>6. worker'[s] = r /\ (r.pc \notin {"idle", "lost"} => u \in WorkItem)
    BY <1>1, <1>5 DEF SoleInv, Inv, Placed
  <1>7. \A v \in WorkItem : Top(v)' = Top(v) /\ Settled(v)' = Settled(v)
    BY <1>1, <1>3 DEF Top, Settled, Ended
  <1>8. Trying(s)'
    <2>1. Trying(s)
      BY DEF SoleInv, Local
    <2>2. \A v \in WorkItem : v = u => Top(v)' = Top(v)
      BY <1>7
    <2>3. r.pc \in Before => u # w
      BY <1>1, <1>5, <2>1 DEF Trying
    <2> QED BY <1>1, <1>3, <1>5, <1>6, <2>1, <2>2, <2>3 DEF Trying, MyWake, MyRow, Top, ActiveRows, Rows
  <1>9. Claiming(s)'
    BY <1>1, <1>3, <1>5, <1>6 DEF Claiming, MyWake, MyRow, SoleInv, Local, Working
  <1>10. Progress(s)'
    <2>1. Progress(s)
      BY DEF SoleInv, Local, Working
    <2> QED BY <1>1, <1>3, <1>5, <1>6, <2>1 DEF Progress, MyRow
  <1>11. Settling(s)'
    BY <1>1, <1>5, <1>6 DEF Settling, SettleTarget, MyRow, SoleInv, Local
  <1>12. Recovering(s)'
    <2>1. Recovering(s)
      BY DEF SoleInv, Local
    <2>2. \A v \in WorkItem : v = u => Top(v)' = Top(v) /\ Settled(v)' = Settled(v)
      BY <1>7
    <2>3. "approval" \in Gates[w]
      BY <1>1 DEF SoleInv, Global, Approving
    <2>4. r.pc = "retryReady" \/ (r.pc = "recoverReady" /\ item[u].status = "ready") => u # w
      BY <1>1, <1>5, <2>1 DEF Recovering
    <2> QED BY <1>1, <1>2, <1>3, <1>5, <1>6, <2>1, <2>2, <2>3, <2>4 DEF Recovering, Top
  <1>13. Onward(s)
    BY <1>1 DEF Onward
  <1> QED BY <1>1, <1>4, <1>8, <1>9, <1>10, <1>11, <1>12, <1>13, Unmoved DEF Moved, Moves, Stands, Working

-----------------------------------------------------------------------------
(* The invariant holds, and what it implies.                                   *)

\* A step of the only worker that moves no claim and deletes no row.
LEMMA MovedKept ==
  ASSUME SoleInv, Inv', NEW s \in Worker, Moved(s)
  PROVE  SoleInv' /\ Steps
  <1>1. \A t \in Worker : t = s
    BY Only
  <1>2. Global'
    BY <1>1, GlobalKept DEF Moved, Stands
  <1>3. Local'
    BY <1>1 DEF Local, Moved, Stands
  <1>4. Steps
    BY MovesStep DEF Moved
  <1> QED BY <1>2, <1>3, <1>4 DEF SoleInv, SoleWorker

\* A creation, claim or deletion keeps the invariant as well.
LEMMA ReshapedKept ==
  ASSUME SoleInv, Inv', NEW s \in Worker, Reshaped(s)
  PROVE  SoleInv' /\ Steps
  <1>1. \A t \in Worker : t = s
    BY Only
  <1>2. Local'
    BY <1>1 DEF Local, Reshaped
  <1> QED BY <1>2 DEF SoleInv, SoleWorker, Reshaped

\* Nothing was created, claimed or queued but the first wakeups.
LEMMA InitOne ==
  ASSUME SoleWorker, Init
  PROVE  SoleInv
  <1>1. Inv
    BY InitInv
  <1>2. \A a \in Attempt : ~ Exists(a)
    BY DEF Init, NoRow, Exists
  <1>3. \A w \in WorkItem : item[w].by = None /\ item[w].status = "ready" /\ Top(w) = 0
    BY DEF Init, Top
  <1>4. \A w \in WorkItem, n \in 1 .. MaxNumber + 1 : wake[<<w, n>>] = "queued" => n = 1
    BY DEF Init, WakeKey
  <1>5. Global
    BY <1>2, <1>3, <1>4 DEF Global, RowsFit, StraysFit, Stray, PastEnded, Waiting, ReadySettled, Settled,
       Approving, Cancelled, ClosedByEvidence, OneActiveAttempt, ActiveRows, Rows, Exists
  <1>6. Local
    BY DEF Init, Idle, Local, Trying, Working, Claiming, Progress, Settling, Recovering
  <1> QED BY <1>1, <1>5, <1>6 DEF SoleInv

\* Every statement of the wakeup loop keeps the invariant.
LEMMA ExecuteOne ==
  ASSUME SoleInv, Inv', NEW s \in Worker, Execute(s)
  PROVE  SoleInv' /\ Steps
  <1>1. \/ Moved(s) \/ Reshaped(s)
    BY ClaimWakeupMoves, EnterMoves, HandleThrowMoves, BackOffMoves, GiveUpMoves, ReadForFailMoves,
       FailItemMoves, DispatchMoves, CreateAttemptReshapes, TakeSlotMoves, ReserveBudgetMoves,
       ClaimWorkItemReshapes, UndoSlotsMoves, DeleteAttemptReshapes, BlockItemMoves, RelistMoves,
       ReadQueuedMoves, PrepareMoves, ReadPreparingMoves, BeginMoves, MarkInProgressMoves,
       HeartbeatMoves, LinkSessionMoves, FinishCliMoves, EndSessionMoves, ReadForSettleMoves,
       SettleAbortMoves, SettleAttemptMoves, ReadCompletedMoves, LateReleaseMoves,
       LateSettleItemMoves, CompleteAttemptMoves, SettleItemMoves, SettleReleaseMoves, VerifyMoves,
       ReadForRetryMoves, RetryReadyMoves, QueueRetryMoves, FinishWakeupMoves
    DEF Execute
  <1> QED BY <1>1, MovedKept, ReshapedKept

\* So does every statement of a recovery pass.
LEMMA RecoverOne ==
  ASSUME SoleInv, Inv', NEW s \in Worker, Recover(s)
  PROVE  SoleInv' /\ Steps
  <1>1. Moved(s)
    BY LoseAttemptMoves, LoseReleaseMoves, RecoverRetryMoves, RecoverReadyMoves, RecoverCompletedMoves,
       RecoverFailMoves, RecoverCancelMoves, RecoverReleaseMoves
    DEF Recover
  <1> QED BY <1>1, MovedKept

\* Every step keeps the invariant, and does to attempts, items and slots what it may.
THEOREM NextOne == SoleInv /\ [Next]_vars => SoleInv' /\ [Steps]_vars
  <1> SUFFICES ASSUME SoleInv, [Next]_vars PROVE SoleInv' /\ (Steps \/ UNCHANGED vars)
    OBVIOUS
  <1>1. Inv'
    BY NextInv DEF SoleInv
  <1>2. PICK s \in Worker : TRUE
    BY DEF SoleInv, SoleWorker
  <1>3. ASSUME NEW t \in Worker, Execute(t) \/ Recover(t) \/ Disturb(t) PROVE SoleInv' /\ Steps
    BY <1>1, <1>3, ExecuteOne, RecoverOne, RequestStopMoves, CrashMoves, StallMoves, MovedKept DEF Disturb
  <1>4. ASSUME NEW k \in Slot, Leases(k) PROVE SoleInv' /\ Steps
    BY <1>1, <1>2, <1>4, LeasesMove, MovedKept
  <1>5. ASSUME NEW a \in Attempt, Operate(a) PROVE SoleInv' /\ Steps
    BY <1>1, <1>2, <1>5, OperateMoves, MovedKept
  <1>6. ASSUME NEW w \in WorkItem, DecideApproval(w) PROVE SoleInv' /\ Steps
    BY <1>1, <1>2, <1>6, DecideApprovalMoves, MovedKept
  <1>7. CASE UNCHANGED vars
    <2>1. UNCHANGED <<item, attempt, slot, wake, worker>>
      BY <1>7 DEF vars
    <2>2. Moved(s)
      BY <2>1, Still, Unmoved DEF Moved, Moves
    <2> QED BY <1>1, <1>7, <2>2, MovedKept
  <1> QED BY <1>3, <1>4, <1>5, <1>6, <1>7 DEF Next

\* The invariant of a deployment with one worker, and what its steps may do.
THEOREM OneHolds == SoleWorker => (Spec => []SoleInv /\ [][Steps]_vars)
  <1>1. SoleWorker /\ Init => SoleInv
    BY InitOne
  <1>2. SoleInv /\ [Next]_vars => SoleInv' /\ [Steps]_vars
    BY NextOne
  <1> QED BY <1>1, <1>2, PTL DEF Spec

\* One worker, crashing and suspended at will: an attempt that was started is the
\* one its item is claimed by, so it is settled, or found lost, together with it.
THEOREM LiveAttemptAlwaysClaimant == SoleWorker => (Spec => []LiveAttemptIsClaimant)
  <1>1. SoleInv => LiveAttemptIsClaimant
    <2> SUFFICES ASSUME SoleInv, NEW a \in Attempt, attempt[a].status \in LiveStatus
                 PROVE  item[attempt[a].item].by = a
      BY DEF LiveAttemptIsClaimant
    <2>1. Exists(a) /\ ~ Ended(a) /\ attempt[a].status \notin {"queued", "cancelled"}
      BY DEF Exists, Ended, LiveStatus, EndStatus
    <2>2. ~ Stray(a)
      BY <2>1 DEF SoleInv, Global, StraysFit
    <2> QED BY <2>1, <2>2 DEF SoleInv, Global, PastEnded
  <1> QED BY <1>1, OneHolds, PTL

\* The list-then-insert of dispatchWorkItem never leaves an item two active attempts,
\* whatever crashes, retries and recovery leave behind for the next wakeup.
THEOREM OneAttemptActive == SoleWorker => (Spec => []OneActiveAttempt)
  <1>1. SoleInv => OneActiveAttempt
    BY DEF SoleInv, Global
  <1> QED BY <1>1, OneHolds, PTL

\* An item that is completed, or waits for its checker or approver, is claimed by an
\* attempt that succeeded: recovery, late settlement and retries included.
THEOREM EvidenceCloses == SoleWorker => (Spec => []ClosedByEvidence)
  <1>1. SoleInv => ClosedByEvidence
    BY DEF SoleInv, Global
  <1> QED BY <1>1, OneHolds, PTL

\* A row moves along the transition table, and is deleted only if it never started.
THEOREM AttemptsFollowTable == SoleWorker => (Spec => AttemptLifecycle)
  <1>1. [Steps]_vars => [RowStep]_vars
    BY DEF Steps
  <1>2. [][RowStep]_vars => AttemptLifecycle
    BY DEF RowStep, AttemptLifecycle
  <1> QED BY <1>1, <1>2, OneHolds, PTL

\* What is completed or cancelled stays so, and only the loss of its attempt reopens
\* what failed.
THEOREM SettledItemsStay == SoleWorker => (Spec => SettledItemStays)
  <1>1. [Steps]_vars => [ItemStep]_vars
    BY DEF Steps
  <1>2. [][ItemStep]_vars => SettledItemStays
    BY DEF ItemStep, Final, SettledItemStays
  <1> QED BY <1>1, <1>2, OneHolds, PTL

\* An attempt that runs and is attended keeps its slots: no lease expires under it and
\* nobody gives them back.
THEOREM SlotsStay == SoleWorker => (Spec => SlotsKeptWhileAttended)
  <1>1. [Steps]_vars => [SlotMoves]_vars
    BY DEF Steps
  <1>2. [][SlotMoves]_vars => SlotsKeptWhileAttended
    BY DEF SlotMoves, SlotsKeptWhileAttended
  <1> QED BY <1>1, <1>2, OneHolds, PTL
=============================================================================
