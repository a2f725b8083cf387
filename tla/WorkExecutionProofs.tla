------------------------ MODULE WorkExecutionProofs ------------------------
(***************************************************************************)
(* What WorkExecution guarantees for every number of workers, work items,  *)
(* attempts and slots: types, the claim of a work item never dangles, a    *)
(* deleted attempt holds no slot, and one CLI at most runs per attempt.    *)
(***************************************************************************)
EXTENDS WorkExecution, TLAPS

(***************************************************************************)
(* The inductive invariant.  What a worker remembers is only meaningful at *)
(* the statements that use it: Placed says which fields are set where.     *)
(***************************************************************************)
Building == {"slots", "reserve", "claim", "undo", "delete"}
AttemptPC == Building \cup
  {"start", "prepare", "restart", "begin", "mark", "beat", "link", "run", "session", "settle",
   "settleAbort", "settleCas", "complete", "lateRelease", "lateItem", "completeCas", "settleItem",
   "release", "verify", "lost", "recoverCancel", "recoverRelease"}
OutcomePC == {"session", "settle", "settleAbort", "settleCas", "complete", "completeCas"}
ComparePC == {"settleAbort", "settleCas", "completeCas"}

Placed(r) ==
  /\ r.pc \notin {"idle", "lost"} => r.item \in WorkItem
  /\ r.pc \in AttemptPC => r.att \in Attempt
  /\ r.pc \in OutcomePC => r.out \in Outcome
  /\ r.pc \in ComparePC => r.seen # "none"

\* A worker that builds an attempt owns its row, which nobody has claimed.
OwnsRow(s) ==
  worker[s].pc \in Building =>
    /\ Exists(worker[s].att) /\ attempt[worker[s].att].item = worker[s].item
    /\ \A w \in WorkItem : item[w].by # worker[s].att
    /\ \A t \in Worker : worker[t].pc \in Building /\ worker[t].att = worker[s].att => t = s

\* When it deletes the row, it has given the slots back.
Emptied(s) == worker[s].pc = "delete" => \A k \in Slot : slot[k] # worker[s].att

\* The attempt whose CLI runs cannot be linked again.
Linked(s) == worker[s].pc = "run" => ~ CanLink(attempt[worker[s].att])

Inv ==
  /\ TypeOK
  /\ \A s \in Worker : Placed(worker[s])
  /\ \A s \in Worker : OwnsRow(s)
  /\ \A s \in Worker : Emptied(s)
  /\ \A s \in Worker : Linked(s)
  /\ ClaimantExists
  /\ NoOrphanSlot
  /\ OneCliPerAttempt

-----------------------------------------------------------------------------
(* The names of statements, contexts and statuses belong to their sets.  Cited *)
(* instead of the definitions, they keep the leaves below small.              *)

\* Every statement name a worker can be sent to is one.
LEMMA PCNames ==
  /\ "idle" \in PC /\ "enter" \in PC /\ "threw" \in PC /\ "backoff" \in PC /\ "giveUp" \in PC
  /\ "failItem" \in PC /\ "failWrite" \in PC /\ "dispatch" \in PC /\ "create" \in PC
  /\ "slots" \in PC /\ "reserve" \in PC /\ "claim" \in PC /\ "undo" \in PC /\ "delete" \in PC
  /\ "block" \in PC /\ "relist" \in PC /\ "start" \in PC /\ "prepare" \in PC /\ "restart" \in PC
  /\ "begin" \in PC /\ "mark" \in PC /\ "beat" \in PC /\ "link" \in PC /\ "run" \in PC
  /\ "session" \in PC /\ "settle" \in PC /\ "settleAbort" \in PC /\ "settleCas" \in PC
  /\ "complete" \in PC /\ "lateRelease" \in PC /\ "lateItem" \in PC /\ "completeCas" \in PC
  /\ "settleItem" \in PC /\ "release" \in PC /\ "verify" \in PC /\ "retry" \in PC
  /\ "retryReady" \in PC /\ "retryQueue" \in PC /\ "finish" \in PC /\ "lost" \in PC
  /\ "recoverReady" \in PC /\ "recoverCancel" \in PC /\ "recoverRelease" \in PC
  BY DEF PC

\* The statements at which a worker's attempt is meaningful, and the others.
LEMMA AttemptPCNames ==
  /\ "slots" \in AttemptPC /\ "reserve" \in AttemptPC /\ "claim" \in AttemptPC
  /\ "undo" \in AttemptPC /\ "delete" \in AttemptPC /\ "start" \in AttemptPC
  /\ "prepare" \in AttemptPC /\ "restart" \in AttemptPC /\ "begin" \in AttemptPC
  /\ "mark" \in AttemptPC /\ "beat" \in AttemptPC /\ "link" \in AttemptPC /\ "run" \in AttemptPC
  /\ "session" \in AttemptPC /\ "settle" \in AttemptPC /\ "settleAbort" \in AttemptPC
  /\ "settleCas" \in AttemptPC /\ "complete" \in AttemptPC /\ "lateRelease" \in AttemptPC
  /\ "lateItem" \in AttemptPC /\ "completeCas" \in AttemptPC /\ "settleItem" \in AttemptPC
  /\ "release" \in AttemptPC /\ "verify" \in AttemptPC /\ "lost" \in AttemptPC
  /\ "recoverCancel" \in AttemptPC /\ "recoverRelease" \in AttemptPC /\ "idle" \notin AttemptPC
  /\ "enter" \notin AttemptPC /\ "threw" \notin AttemptPC /\ "backoff" \notin AttemptPC
  /\ "giveUp" \notin AttemptPC /\ "failItem" \notin AttemptPC /\ "failWrite" \notin AttemptPC
  /\ "dispatch" \notin AttemptPC /\ "create" \notin AttemptPC /\ "block" \notin AttemptPC
  /\ "relist" \notin AttemptPC /\ "retry" \notin AttemptPC /\ "retryReady" \notin AttemptPC
  /\ "retryQueue" \notin AttemptPC /\ "finish" \notin AttemptPC /\ "recoverReady" \notin AttemptPC
  BY DEF AttemptPC, Building

\* Every procedure context is one.
LEMMA ContextNames ==
  /\ "none" \in Context /\ "slots" \in Context /\ "budget" \in Context /\ "claim" \in Context
  /\ "interrupt" \in Context /\ "abort" \in Context /\ "plain" \in Context /\ "return" \in Context
  /\ "rethrow" \in Context /\ "reconcile" \in Context /\ "finish" \in Context
  /\ "recover" \in Context
  BY DEF Context

\* Attempt and item statuses, and the statuses an item can be settled with.
LEMMA StatusNames ==
  /\ {"none", "queued", "preparing", "running", "cancelling", "lost"} \subseteq AttemptStatus
  /\ Outcome \subseteq AttemptStatus /\ LiveStatus \subseteq AttemptStatus
  /\ "none" \notin Outcome /\ "none" \notin LiveStatus
  /\ {"cancelled", "failed", "timed_out"} \subseteq Outcome
  /\ {"ready", "claimed", "in_progress", "blocked", "completed", "failed",
      "awaiting_verification", "awaiting_approval"} \subseteq ItemStatus
  BY DEF AttemptStatus, ActiveStatus, LiveStatus, EndStatus, Outcome, ItemStatus

-----------------------------------------------------------------------------
(* What all but six actions do: they keep the rows, the claims and the         *)
(* ownership of slots, and lead no worker into a statement that builds an      *)
(* attempt, deletes one or runs a CLI.                                         *)

RowType == [status : AttemptStatus, item : WorkItem \cup {None}, number : Nat,
          cancel : BOOLEAN, interrupt : BOOLEAN, session : SessionStatus]

RowsKept ==
  /\ attempt' \in [Attempt -> RowType]
  /\ \A a \in Attempt : /\ Exists(a)' = Exists(a)
                        /\ attempt'[a].item = attempt[a].item
                        /\ attempt[a].session # "none" => attempt'[a].session # "none"
ClaimsKept ==
  /\ item' \in [WorkItem -> [status : ItemStatus, by : Attempt \cup {None}]]
  /\ \A w \in WorkItem : item'[w].by = item[w].by
SlotsKept ==
  /\ slot' \in [Slot -> Attempt \cup {Other, None}]
  /\ \A k \in Slot : slot'[k] = slot[k] \/ slot'[k] \notin Attempt
WakesKept == wake' \in [WakeKey -> WakeStatus]

\* From record r to record q of one worker.
Calm(r, q) ==
  /\ q.pc \in Building => r.pc \in Building /\ q.att = r.att /\ q.item = r.item
  /\ q.pc = "delete" => r.pc = "delete"
  /\ q.pc = "run" => r.pc = "run" /\ q.att = r.att
WorkersKept ==
  /\ worker' \in [Worker -> Record]
  /\ \A t \in Worker : Placed(worker'[t]) /\ Calm(worker[t], worker'[t])

Kept == RowsKept /\ ClaimsKept /\ SlotsKept /\ WakesKept /\ WorkersKept /\ stalled' \subseteq Worker

\* A worker that builds an attempt goes on owning its row.
LEMMA OwnersPreserved ==
  ASSUME Inv, RowsKept, ClaimsKept, WorkersKept
  PROVE  \A s \in Worker : OwnsRow(s)'
  <1>1. ASSUME NEW s \in Worker, worker'[s].pc \in Building
        PROVE  /\ worker[s].pc \in Building
               /\ worker'[s].att = worker[s].att /\ worker'[s].item = worker[s].item
               /\ worker[s].att \in Attempt
    BY <1>1 DEF WorkersKept, Calm, Inv, Placed, AttemptPC
  <1> QED BY <1>1 DEF RowsKept, ClaimsKept, Inv, OwnsRow, Exists

\* A worker about to delete a row still holds none of its slots.
LEMMA EmptiedPreserved ==
  ASSUME Inv, SlotsKept, WorkersKept
  PROVE  \A s \in Worker : Emptied(s)'
  <1> SUFFICES ASSUME NEW s \in Worker, worker'[s].pc = "delete", NEW k \in Slot
               PROVE  slot'[k] # worker'[s].att
    BY DEF Emptied
  <1>1. worker[s].pc = "delete" /\ worker'[s].att = worker[s].att /\ worker[s].att \in Attempt
    BY AttemptPCNames DEF WorkersKept, Calm, Building, Inv, Placed
  <1> QED BY <1>1 DEF SlotsKept, Inv, Emptied

\* A linked session stays linked.
LEMMA LinkedPreserved ==
  ASSUME Inv, RowsKept, WorkersKept
  PROVE  \A s \in Worker : Linked(s)'
  <1> SUFFICES ASSUME NEW s \in Worker, worker'[s].pc = "run"
               PROVE  ~ CanLink(attempt[worker[s].att])'
    BY DEF Linked, WorkersKept, Calm
  <1>1. worker[s].pc = "run" /\ worker'[s].att = worker[s].att /\ worker[s].att \in Attempt
    BY AttemptPCNames DEF WorkersKept, Calm, Inv, Placed
  <1> QED BY <1>1 DEF RowsKept, Inv, Linked, CanLink, Exists

\* A claimed row stays.
LEMMA ClaimantPreserved ==
  ASSUME Inv, RowsKept, ClaimsKept
  PROVE  ClaimantExists'
  BY NoneAssumption DEF RowsKept, ClaimsKept, Inv, TypeOK, ClaimantExists, Exists

\* A row that holds a slot stays.
LEMMA SlotsPreserved ==
  ASSUME Inv, RowsKept, SlotsKept
  PROVE  NoOrphanSlot'
  BY DEF RowsKept, SlotsKept, Inv, NoOrphanSlot, Exists

\* No second worker enters the run of a CLI.
LEMMA CliPreserved ==
  ASSUME Inv, WorkersKept
  PROVE  OneCliPerAttempt'
  BY DEF WorkersKept, Calm, Inv, OneCliPerAttempt

\* A step that keeps all this keeps the invariant.
LEMMA KeptPreserves ==
  ASSUME Inv, Kept
  PROVE  Inv'
  <1>1. TypeOK'
    BY DEF Kept, RowsKept, ClaimsKept, SlotsKept, WakesKept, WorkersKept, TypeOK, RowType
  <1>2. \A s \in Worker : Placed(worker'[s])
    BY DEF Kept, WorkersKept
  <1> QED BY <1>1, <1>2, OwnersPreserved, EmptiedPreserved, LinkedPreserved, ClaimantPreserved,
             SlotsPreserved, CliPreserved DEF Kept, Inv

-----------------------------------------------------------------------------
(* The steps the actions are made of.                                          *)

\* What is left alone is kept.
LEMMA UnchangedKept ==
  ASSUME Inv
  PROVE  /\ UNCHANGED attempt => RowsKept
         /\ UNCHANGED item => ClaimsKept
         /\ UNCHANGED slot => SlotsKept
         /\ UNCHANGED wake => WakesKept
         /\ UNCHANGED worker => WorkersKept
         /\ UNCHANGED stalled => stalled' \subseteq Worker
  <1>1. UNCHANGED attempt => RowsKept
    BY DEF Inv, TypeOK, RowsKept, Exists, RowType
  <1>2. UNCHANGED item => ClaimsKept
    BY DEF Inv, TypeOK, ClaimsKept
  <1>3. UNCHANGED slot => SlotsKept
    BY DEF Inv, TypeOK, SlotsKept
  <1>4. UNCHANGED wake => WakesKept
    BY DEF Inv, TypeOK, WakesKept
  <1>5. UNCHANGED worker => WorkersKept
    BY DEF Inv, TypeOK, WorkersKept, Calm
  <1>6. UNCHANGED stalled => stalled' \subseteq Worker
    BY DEF Inv, TypeOK
  <1> QED BY <1>1, <1>2, <1>3, <1>4, <1>5, <1>6

\* A status change of an existing attempt keeps the rows.
LEMMA StatusKept ==
  ASSUME Inv, NEW a \in Attempt, attempt[a].status # "none",
         NEW status \in AttemptStatus, status # "none", SetStatus(a, status)
  PROVE  RowsKept
  BY DEF Inv, TypeOK, SetStatus, RowsKept, Exists, RowType

\* A row rewritten with the same identity keeps the rows.
LEMMA RowKept ==
  ASSUME Inv, NEW a \in Attempt, NEW row \in RowType,
         row.status = attempt[a].status, row.item = attempt[a].item,
         attempt[a].session # "none" => row.session # "none",
         attempt' = [attempt EXCEPT ![a] = row]
  PROVE  RowsKept
  BY DEF Inv, TypeOK, RowsKept, Exists, RowType

\* A session linked or ended.
LEMMA SessionKept ==
  ASSUME Inv, NEW a \in Attempt, NEW session \in SessionStatus, session # "none",
         attempt' = [attempt EXCEPT ![a].session = session]
  PROVE  RowsKept
  <1> DEFINE row == [attempt[a] EXCEPT !.session = session]
  <1>1. attempt[a] \in RowType
    BY DEF Inv, TypeOK, RowType
  <1>2. row \in RowType /\ row.status = attempt[a].status /\ row.item = attempt[a].item
        /\ row.session # "none"
    BY <1>1 DEF RowType
  <1>3. attempt' = [attempt EXCEPT ![a] = row]
    BY DEF Inv, TypeOK
  <1> QED BY <1>2, <1>3, RowKept

\* The flags of an operator's request.
LEMMA FlagsKept ==
  ASSUME Inv, NEW a \in Attempt, NEW c \in BOOLEAN, NEW i \in BOOLEAN,
         attempt' = [attempt EXCEPT ![a].cancel = c, ![a].interrupt = i]
  PROVE  RowsKept
  <1> DEFINE row == [attempt[a] EXCEPT !.cancel = c, !.interrupt = i]
  <1>1. attempt[a] \in RowType
    BY DEF Inv, TypeOK, RowType
  <1>2. row \in RowType /\ row.status = attempt[a].status /\ row.item = attempt[a].item
        /\ row.session = attempt[a].session
    BY <1>1 DEF RowType
  <1>3. attempt' = [attempt EXCEPT ![a] = row]
    BY DEF Inv, TypeOK
  <1> QED BY <1>2, <1>3, RowKept

\* A status change of an item keeps the claims.
LEMMA ItemKept ==
  ASSUME Inv, NEW w \in WorkItem, NEW status \in ItemStatus, SetItem(w, status)
  PROVE  ClaimsKept
  BY DEF Inv, TypeOK, SetItem, ClaimsKept

\* Releasing slots gives none away.
LEMMA ReleaseKept ==
  ASSUME Inv, NEW a, ReleaseSlots(a)
  PROVE  SlotsKept
  BY NoneAssumption DEF Inv, TypeOK, ReleaseSlots, SlotsKept

\* Marking a wakeup.
LEMMA MarkKept ==
  ASSUME Inv, NEW key, NEW status \in WakeStatus, wake' = MarkWake(key, status)
  PROVE  WakesKept
  BY DEF Inv, TypeOK, MarkWake, WakesKept

\* Every status an item is settled with is an item status.
LEMMA SettlementsTyped ==
  ASSUME NEW a, NEW w, NEW end
  PROVE  Settlements(a, w, end) \subseteq ItemStatus
  BY DEF Settlements, Advanced, ItemStatus

\* A worker at a statement: what its record holds there.
LEMMA Here ==
  ASSUME Inv, NEW s \in Worker, NEW pc, At(s, pc)
  PROVE  /\ worker[s] \in Record /\ worker[s].pc = pc
         /\ pc \notin {"idle", "lost"} => worker[s].item \in WorkItem
         /\ pc \in AttemptPC => worker[s].att \in Attempt
         /\ pc \in OutcomePC => worker[s].out \in Outcome
         /\ pc \in ComparePC => worker[s].seen # "none"
  BY DEF Inv, TypeOK, At, Placed

\* A worker that takes a record fit for the statement it names.
LEMMA BecomeKept ==
  ASSUME Inv, NEW s \in Worker, NEW r \in Record, Placed(r), Calm(worker[s], r), Become(s, r)
  PROVE  WorkersKept
  BY DEF Inv, TypeOK, Become, WorkersKept, Calm

\* A worker that goes on to another statement with its record.
LEMMA GotoKept ==
  ASSUME Inv, NEW s \in Worker, NEW p \in PC,
         p \in Building => worker[s].pc \in Building, p \notin {"run", "delete"},
         p \notin {"idle", "lost"} => worker[s].item \in WorkItem,
         p \in AttemptPC => worker[s].att \in Attempt,
         p \in OutcomePC => worker[s].out \in Outcome,
         p \in ComparePC => worker[s].seen # "none",
         Goto(s, p)
  PROVE  WorkersKept
  <1> DEFINE r == [worker[s] EXCEPT !.pc = p]
  <1>0. worker[s] \in Record
    BY DEF Inv, TypeOK
  <1>1. r \in Record
    BY <1>0 DEF Record
  <1>2. Placed(r)
    BY <1>0 DEF Placed, Record
  <1>3. Calm(worker[s], r)
    BY <1>0 DEF Calm, Record
  <1>4. Become(s, r)
    BY DEF Goto, Become
  <1> QED BY <1>1, <1>2, <1>3, <1>4, BecomeKept

\* The idle record is a record.
LEMMA IdleTyped == Idle \in Record /\ Placed(Idle)
  <1>1. Idle \in Record
    BY PCNames, ContextNames, StatusNames, BoundsAssumption DEF Record, Idle
  <1>2. Placed(Idle)
    BY AttemptPCNames DEF Placed, Idle, OutcomePC, ComparePC
  <1> QED BY <1>1, <1>2

\* A worker that becomes idle.
LEMMA IdleKept ==
  ASSUME Inv, NEW s \in Worker, Become(s, Idle)
  PROVE  WorkersKept
  <1>1. Calm(worker[s], Idle)
    BY DEF Calm, Building, Idle
  <1> QED BY <1>1, IdleTyped, BecomeKept

\* A worker whose execution threw.
LEMMA ThrewKept ==
  ASSUME Inv, NEW s \in Worker, worker[s].item \in WorkItem, Threw(s)
  PROVE  WorkersKept
  <1> DEFINE r == [Idle EXCEPT !.pc = "threw", !.item = worker[s].item,
                     !.number = worker[s].number, !.tries = worker[s].tries, !.stop = worker[s].stop]
  <1>0. worker[s] \in Record
    BY DEF Inv, TypeOK
  <1>1. r \in Record
    BY <1>0, PCNames, ContextNames, StatusNames DEF Record, Idle
  <1>2. Placed(r)
    BY AttemptPCNames DEF Placed, Idle, OutcomePC, ComparePC
  <1>3. Calm(worker[s], r)
    BY DEF Calm, Building, Idle
  <1> QED BY <1>1, <1>2, <1>3, BecomeKept DEF Threw

\* A worker whose provider threw.
LEMMA ProviderThrewKept ==
  ASSUME Inv, NEW s \in Worker, worker[s].item \in WorkItem, worker[s].att \in Attempt,
         ProviderThrew(s)
  PROVE  WorkersKept
  <1> DEFINE r == [worker[s] EXCEPT !.pc = "complete", !.out = "failed", !.ctx = "rethrow",
                                    !.seen = "none"]
  <1>0. worker[s] \in Record
    BY DEF Inv, TypeOK
  <1>1. r \in Record
    BY <1>0, PCNames, ContextNames, StatusNames DEF Record
  <1>2. Placed(r)
    BY <1>0, StatusNames DEF Placed, Record, ComparePC
  <1>3. Calm(worker[s], r)
    BY <1>0 DEF Calm, Building, Record
  <1> QED BY <1>1, <1>2, <1>3, BecomeKept DEF ProviderThrew

\* A worker whose provider returned.
LEMMA ReturnedKept ==
  ASSUME Inv, NEW s \in Worker, worker[s].item \in WorkItem, worker[s].att \in Attempt,
         worker[s].out \in Outcome, NEW ctx \in Context, Returned(s, ctx)
  PROVE  WorkersKept
  <1> DEFINE r == [worker[s] EXCEPT !.pc = "complete", !.ctx = ctx, !.seen = "none"]
  <1>0. worker[s] \in Record
    BY DEF Inv, TypeOK
  <1>1. r \in Record
    BY <1>0, PCNames, StatusNames DEF Record
  <1>2. Placed(r)
    BY <1>0 DEF Placed, Record, ComparePC
  <1>3. Calm(worker[s], r)
    BY <1>0 DEF Calm, Building, Record
  <1> QED BY <1>1, <1>2, <1>3, BecomeKept DEF Returned

-----------------------------------------------------------------------------
(* One lemma per action, in the order of WorkExecution: an action other than  *)
(* the six of the next section keeps what Kept says.                          *)

\* A poll only takes a queued wakeup.
LEMMA ClaimWakeupKept ==
  ASSUME Inv, NEW s \in Worker, ClaimWakeup(s)
  PROVE  Kept
  <1>1. PICK w \in WorkItem, n \in 1 .. MaxNumber + 1 :
           /\ wake' = [wake EXCEPT ![<<w, n>>] = "claimed"]
           /\ Become(s, [Idle EXCEPT !.pc = "enter", !.item = w, !.number = n, !.tries = 1])
    BY DEF ClaimWakeup
  <1> DEFINE r == [Idle EXCEPT !.pc = "enter", !.item = w, !.number = n, !.tries = 1]
  <1>2. r \in Record /\ Placed(r) /\ Calm(worker[s], r)
    BY PCNames, AttemptPCNames, ContextNames, StatusNames
       DEF Record, Idle, Placed, OutcomePC, ComparePC, Calm, Building
  <1>3. WorkersKept
    BY <1>1, <1>2, BecomeKept
  <1>4. WakesKept
    BY <1>1 DEF Inv, TypeOK, WakesKept, WakeStatus
  <1> QED BY <1>3, <1>4, UnchangedKept DEF ClaimWakeup, Kept

\* reconcileTerminalHarnessAttempt only chooses where to go on.
LEMMA EnterKept ==
  ASSUME Inv, NEW s \in Worker, Enter(s)
  PROVE  Kept
  <1>1. At(s, "enter")
    BY DEF Enter
  <1>2. worker[s] \in Record /\ worker[s].item \in WorkItem
    BY <1>1, Here
  <1>4. CASE Goto(s, "dispatch")
    BY <1>2, <1>4, GotoKept, PCNames, AttemptPCNames, UnchangedKept
       DEF Enter, Kept, Building, OutcomePC, ComparePC
  <1>3. ASSUME NEW a \in Attempt, attempt[a].session \in Outcome,
               Become(s, [worker[s] EXCEPT !.pc = "complete", !.att = a,
                            !.out = attempt[a].session, !.ctx = "reconcile"])
        PROVE  Kept
    <2> DEFINE r == [worker[s] EXCEPT !.pc = "complete", !.att = a,
                       !.out = attempt[a].session, !.ctx = "reconcile"]
    <2>1. r \in Record
      BY <1>2, <1>3, PCNames, ContextNames DEF Record
    <2>2. Placed(r)
      BY <1>2, <1>3 DEF Record, Placed, ComparePC
    <2>3. Calm(worker[s], r)
      BY <1>2 DEF Record, Calm, Building
    <2> QED BY <1>3, <2>1, <2>2, <2>3, BecomeKept, UnchangedKept DEF Enter, Kept
  <1> QED BY <1>3, <1>4 DEF Enter, Rows, MyItem

\* A failed execution only touches its wakeup.
LEMMA HandleThrowKept ==
  ASSUME Inv, NEW s \in Worker, HandleThrow(s)
  PROVE  Kept
  <1> DEFINE w == worker[s].item
             number == attempt[item[w].by].number + 1
             retry == [Idle EXCEPT !.pc = "retry", !.item = w, !.number = worker[s].number,
                         !.ctx = "finish", !.next = number]
             tries == worker[s].tries + 1
             again == [worker[s] EXCEPT !.pc = "backoff", !.tries = tries]
  <1>1. At(s, "threw")
    BY DEF HandleThrow
  <1>2. worker[s] \in Record /\ w \in WorkItem
    BY <1>1, Here
  <1>3. WakesKept
    BY UnchangedKept, MarkKept DEF HandleThrow, WakeStatus
  <1>4. CASE item[w].by # None /\ Become(s, retry)
    <2>1. attempt[item[w].by].number \in Nat
      BY <1>2, <1>4 DEF Inv, TypeOK
    <2>2. retry \in Record
      <3>1. number \in Nat
        BY <2>1
      <3> HIDE DEF number
      <3> QED BY <1>2, <3>1, PCNames, ContextNames, StatusNames DEF Record, Idle
    <2>3. Placed(retry)
      BY <1>2, AttemptPCNames DEF Idle, Placed, OutcomePC, ComparePC
    <2>4. Calm(worker[s], retry)
      BY DEF Idle, Calm, Building
    <2> QED BY <1>3, <1>4, <2>2, <2>3, <2>4, BecomeKept, UnchangedKept DEF HandleThrow, Kept
  <1>5. CASE Become(s, again)
    <2>1. again \in Record
      <3>1. tries \in Nat
        BY <1>2 DEF Record
      <3> HIDE DEF tries
      <3> QED BY <1>2, <3>1, PCNames DEF Record
    <2>2. Placed(again)
      BY <1>2, AttemptPCNames DEF Record, Placed, OutcomePC, ComparePC
    <2>3. Calm(worker[s], again)
      BY <1>2 DEF Record, Calm, Building
    <2> QED BY <1>3, <1>5, <2>1, <2>2, <2>3, BecomeKept, UnchangedKept DEF HandleThrow, Kept
  <1>6. CASE Become(s, Idle)
    BY <1>3, <1>6, IdleKept, UnchangedKept DEF HandleThrow, Kept
  <1>7. CASE Goto(s, "giveUp")
    BY <1>2, <1>3, <1>7, GotoKept, PCNames, AttemptPCNames, UnchangedKept
       DEF HandleThrow, Kept, Building, OutcomePC, ComparePC
  <1> QED BY <1>4, <1>5, <1>6, <1>7 DEF HandleThrow, MyItem

\* The wait before the next try touches nothing shared.
LEMMA BackOffKept ==
  ASSUME Inv, NEW s \in Worker, BackOff(s)
  PROVE  Kept
  BY Here, GotoKept, PCNames, AttemptPCNames, UnchangedKept
     DEF BackOff, Kept, Building, OutcomePC, ComparePC

\* A shutdown request is seen by its own worker only.
LEMMA RequestStopKept ==
  ASSUME Inv, NEW s \in Worker, RequestStop(s)
  PROVE  Kept
  <1> DEFINE r == [worker[s] EXCEPT !.stop = TRUE]
  <1>1. r \in Record /\ Placed(r) /\ Calm(worker[s], r)
    BY DEF Inv, TypeOK, Record, Placed, Calm
  <1>2. Become(s, r)
    BY DEF RequestStop, Become
  <1> QED BY <1>1, <1>2, BecomeKept, UnchangedKept DEF RequestStop, Kept

\* Marking the wakeup failed touches no attempt.
LEMMA GiveUpKept ==
  ASSUME Inv, NEW s \in Worker, GiveUp(s)
  PROVE  Kept
  <1>1. WakesKept
    BY UnchangedKept, MarkKept DEF GiveUp, WakeStatus
  <1>2. WorkersKept
    BY Here, GotoKept, IdleKept, PCNames, AttemptPCNames
       DEF GiveUp, Building, OutcomePC, ComparePC
  <1> QED BY <1>1, <1>2, UnchangedKept DEF GiveUp, Kept

\* failDurableWakeupWork reads the item.
LEMMA ReadForFailKept ==
  ASSUME Inv, NEW s \in Worker, ReadForFail(s)
  PROVE  Kept
  BY Here, GotoKept, IdleKept, PCNames, AttemptPCNames, UnchangedKept
     DEF ReadForFail, Kept, Building, OutcomePC, ComparePC

\* ... and writes its status, never its claim.
LEMMA FailItemKept ==
  ASSUME Inv, NEW s \in Worker, FailItem(s)
  PROVE  Kept
  BY Here, IdleKept, ItemKept, StatusNames, UnchangedKept DEF FailItem, Kept, MyItem

\* dispatchWorkItem reads item and attempts before it creates one.
LEMMA DispatchKept ==
  ASSUME Inv, NEW s \in Worker, Dispatch(s)
  PROVE  Kept
  <1>1. At(s, "dispatch")
    BY DEF Dispatch
  <1>2. worker[s] \in Record /\ worker[s].item \in WorkItem
    BY <1>1, Here
  <1>3. CASE Threw(s)
    BY <1>2, <1>3, ThrewKept, UnchangedKept DEF Dispatch, Kept
  <1>4. ASSUME NEW a \in Attempt, Become(s, [worker[s] EXCEPT !.pc = "start", !.att = a])
        PROVE  Kept
    <2> DEFINE r == [worker[s] EXCEPT !.pc = "start", !.att = a]
    <2>1. r \in Record /\ Placed(r) /\ Calm(worker[s], r)
      BY <1>2, PCNames DEF Record, Placed, OutcomePC, ComparePC, Calm, Building
    <2> QED BY <1>4, <2>1, BecomeKept, UnchangedKept DEF Dispatch, Kept
  <1>5. ASSUME NEW n \in 0 .. MaxNumber,
               Become(s, [worker[s] EXCEPT !.pc = "create", !.att = None, !.next = n + 1])
        PROVE  Kept
    <2> DEFINE number == n + 1
               r == [worker[s] EXCEPT !.pc = "create", !.att = None, !.next = number]
    <2>1. r \in Record
      <3>1. number \in Nat
        OBVIOUS
      <3> HIDE DEF number
      <3> QED BY <1>2, <3>1, PCNames DEF Record
    <2>2. Placed(r)
      BY <1>2, AttemptPCNames DEF Record, Placed, OutcomePC, ComparePC
    <2>3. Calm(worker[s], r)
      BY <1>2 DEF Record, Calm, Building
    <2> QED BY <1>5, <2>1, <2>2, <2>3, BecomeKept, UnchangedKept DEF Dispatch, Kept
  <1> QED BY <1>3, <1>4, <1>5 DEF Dispatch, ActiveRows, Rows

\* The budget decides; the attempt stays the one being built.
LEMMA ReserveBudgetKept ==
  ASSUME Inv, NEW s \in Worker, ReserveBudget(s)
  PROVE  Kept
  <1>1. At(s, "reserve")
    BY DEF ReserveBudget
  <1>2. worker[s] \in Record /\ worker[s].item \in WorkItem /\ worker[s].att \in Attempt
        /\ worker[s].pc = "reserve"
    BY <1>1, Here, AttemptPCNames
  <1>3. CASE Goto(s, "claim")
    BY <1>2, <1>3, GotoKept, PCNames, UnchangedKept
       DEF ReserveBudget, Kept, Building, OutcomePC, ComparePC
  <1>4. CASE Become(s, [worker[s] EXCEPT !.pc = "undo", !.ctx = "budget"])
    <2> DEFINE r == [worker[s] EXCEPT !.pc = "undo", !.ctx = "budget"]
    <2>1. r \in Record
      BY <1>2, PCNames, ContextNames DEF Record
    <2>2. Placed(r)
      BY <1>2 DEF Record, Placed, OutcomePC, ComparePC
    <2>3. Calm(worker[s], r)
      BY <1>2 DEF Record, Calm, Building
    <2> QED BY <1>4, <2>1, <2>2, <2>3, BecomeKept, UnchangedKept DEF ReserveBudget, Kept
  <1> QED BY <1>3, <1>4 DEF ReserveBudget

\* An exhausted budget blocks the item, whose claim stays.
LEMMA BlockItemKept ==
  ASSUME Inv, NEW s \in Worker, BlockItem(s)
  PROVE  Kept
  BY Here, ThrewKept, ItemKept, StatusNames, UnchangedKept DEF BlockItem, Kept, MyItem

\* The winner of a lost race is taken over: no row changes.
LEMMA RelistKept ==
  ASSUME Inv, NEW s \in Worker, Relist(s)
  PROVE  Kept
  <1>1. At(s, "relist")
    BY DEF Relist
  <1>2. worker[s] \in Record /\ worker[s].item \in WorkItem
    BY <1>1, Here
  <1>3. CASE Threw(s)
    BY <1>2, <1>3, ThrewKept, UnchangedKept DEF Relist, Kept
  <1>4. ASSUME NEW a \in Attempt,
               Become(s, [worker[s] EXCEPT !.pc = "start", !.att = a, !.ctx = "none", !.next = 0])
        PROVE  Kept
    <2> DEFINE r == [worker[s] EXCEPT !.pc = "start", !.att = a, !.ctx = "none", !.next = 0]
    <2>1. r \in Record
      BY <1>2, PCNames, ContextNames DEF Record
    <2>2. Placed(r)
      BY <1>2 DEF Record, Placed, OutcomePC, ComparePC
    <2>3. Calm(worker[s], r)
      BY <1>2 DEF Record, Calm, Building
    <2> QED BY <1>4, <2>1, <2>2, <2>3, BecomeKept, UnchangedKept DEF Relist, Kept
  <1> QED BY <1>3, <1>4 DEF Relist, ActiveRows, Rows

\* startScheduledAttempt reads the attempt.
LEMMA ReadQueuedKept ==
  ASSUME Inv, NEW s \in Worker, ReadQueued(s)
  PROVE  Kept
  <1>1. worker[s].item \in WorkItem /\ worker[s].att \in Attempt
    BY Here, AttemptPCNames DEF ReadQueued
  <1>2. Threw(s) \/ Goto(s, "prepare") \/ Goto(s, "restart")
    BY DEF ReadQueued
  <1>3. WorkersKept
    BY <1>1, <1>2, ThrewKept, GotoKept, PCNames DEF Building, OutcomePC, ComparePC
  <1> QED BY <1>3, UnchangedKept DEF ReadQueued, Kept

\* queued to preparing, on an existing row.
LEMMA PrepareKept ==
  ASSUME Inv, NEW s \in Worker, Prepare(s)
  PROVE  Kept
  <1>1. worker[s].item \in WorkItem /\ worker[s].att \in Attempt
    BY Here, AttemptPCNames DEF Prepare
  <1>2. WorkersKept
    BY <1>1, ThrewKept, GotoKept, PCNames DEF Prepare, Building, OutcomePC, ComparePC
  <1>3. RowsKept
    BY <1>1, StatusKept, StatusNames, UnchangedKept DEF Prepare, MyRow, MyAttempt
  <1> QED BY <1>2, <1>3, UnchangedKept DEF Prepare, Kept

\* The second read of startScheduledAttempt.
LEMMA ReadPreparingKept ==
  ASSUME Inv, NEW s \in Worker, ReadPreparing(s)
  PROVE  Kept
  <1>1. worker[s].item \in WorkItem /\ worker[s].att \in Attempt
    BY Here, AttemptPCNames DEF ReadPreparing
  <1>2. WorkersKept
    BY <1>1, GotoKept, PCNames DEF ReadPreparing, Building, OutcomePC, ComparePC
  <1> QED BY <1>2, UnchangedKept DEF ReadPreparing, Kept

\* preparing to running, on an existing row.
LEMMA BeginKept ==
  ASSUME Inv, NEW s \in Worker, Begin(s)
  PROVE  Kept
  <1>1. worker[s].item \in WorkItem /\ worker[s].att \in Attempt
    BY Here, AttemptPCNames DEF Begin
  <1>2. WorkersKept
    BY <1>1, ThrewKept, GotoKept, PCNames DEF Begin, Building, OutcomePC, ComparePC
  <1>3. RowsKept
    BY <1>1, StatusKept, StatusNames, UnchangedKept DEF Begin, MyRow, MyAttempt
  <1> QED BY <1>2, <1>3, UnchangedKept DEF Begin, Kept

\* markClaimedWorkItemInProgress changes a status, not a claim.
LEMMA MarkInProgressKept ==
  ASSUME Inv, NEW s \in Worker, MarkInProgress(s)
  PROVE  Kept
  <1>1. worker[s].item \in WorkItem /\ worker[s].att \in Attempt
    BY Here, AttemptPCNames DEF MarkInProgress
  <1>2. WorkersKept
    BY <1>1, ThrewKept, GotoKept, PCNames DEF MarkInProgress, Building, OutcomePC, ComparePC
  <1>3. ClaimsKept
    BY <1>1, ItemKept, StatusNames, UnchangedKept DEF MarkInProgress, MyItem
  <1> QED BY <1>2, <1>3, UnchangedKept DEF MarkInProgress, Kept

\* The first heartbeat only decides whether the provider goes on.
LEMMA HeartbeatKept ==
  ASSUME Inv, NEW s \in Worker, Heartbeat(s)
  PROVE  Kept
  <1>1. worker[s].item \in WorkItem /\ worker[s].att \in Attempt
    BY Here, AttemptPCNames DEF Heartbeat
  <1>2. WorkersKept
    BY <1>1, ProviderThrewKept, GotoKept, PCNames DEF Heartbeat, Building, OutcomePC, ComparePC
  <1> QED BY <1>2, UnchangedKept DEF Heartbeat, Kept

\* The end of the CLI is remembered by its worker.
LEMMA FinishCliKept ==
  ASSUME Inv, NEW s \in Worker, FinishCli(s)
  PROVE  Kept
  <1>1. worker[s] \in Record /\ worker[s].item \in WorkItem /\ worker[s].att \in Attempt
    BY Here, AttemptPCNames DEF FinishCli
  <1>2. PICK out \in Outcome, ctx \in Context :
           Become(s, [worker[s] EXCEPT !.pc = "session", !.out = out, !.ctx = ctx])
    BY ResultsAssumption, StatusNames, ContextNames DEF FinishCli, Outcome
  <1> DEFINE r == [worker[s] EXCEPT !.pc = "session", !.out = out, !.ctx = ctx]
  <1>3. r \in Record
    BY <1>1, PCNames DEF Record
  <1>4. Placed(r)
    BY <1>1 DEF Record, Placed, ComparePC
  <1>5. Calm(worker[s], r)
    BY <1>1 DEF Record, Calm, Building
  <1> QED BY <1>2, <1>3, <1>4, <1>5, BecomeKept, UnchangedKept DEF FinishCli, Kept

\* completeHarnessSession gives the session an end, never unlinks it.
LEMMA EndSessionKept ==
  ASSUME Inv, NEW s \in Worker, EndSession(s)
  PROVE  Kept
  <1>1. worker[s] \in Record /\ worker[s].item \in WorkItem /\ worker[s].att \in Attempt
        /\ worker[s].out \in Outcome
    BY Here, AttemptPCNames DEF EndSession, OutcomePC
  <1>2. PICK out \in Outcome, ctx \in Context :
          /\ attempt' = IF MyRow(s).status = "none" THEN attempt
                        ELSE [attempt EXCEPT ![MyAttempt(s)].session =
                                IF ctx = "abort" THEN "cancelled" ELSE out]
          /\ Become(s, [worker[s] EXCEPT !.pc = "settle", !.out = out, !.ctx = ctx])
    <2>1. worker[s].ctx \in Context
      BY <1>1 DEF Record
    <2> QED BY <1>1, <2>1, StatusNames, ContextNames DEF EndSession
  <1> DEFINE r == [worker[s] EXCEPT !.pc = "settle", !.out = out, !.ctx = ctx]
  <1>3. r \in Record
    BY <1>1, PCNames DEF Record
  <1>4. Placed(r)
    BY <1>1 DEF Record, Placed, ComparePC
  <1>5. Calm(worker[s], r)
    BY <1>1 DEF Record, Calm, Building
  <1>6. RowsKept
    <2> DEFINE session == IF ctx = "abort" THEN "cancelled" ELSE out
    <2>1. session \in SessionStatus /\ session # "none"
      BY StatusNames DEF SessionStatus
    <2>2. UNCHANGED attempt \/ attempt' = [attempt EXCEPT ![worker[s].att].session = session]
      BY <1>2 DEF MyAttempt
    <2> HIDE DEF session
    <2> QED BY <1>1, <2>1, <2>2, SessionKept, UnchangedKept
  <1> QED BY <1>2, <1>3, <1>4, <1>5, <1>6, BecomeKept, UnchangedKept DEF EndSession, Kept

\* The read of the settlement, with the flag an aborted run persists.
LEMMA ReadForSettleKept ==
  ASSUME Inv, NEW s \in Worker, ReadForSettle(s)
  PROVE  Kept
  <1> DEFINE status == MyRow(s).status
             Compare(pc) == [worker[s] EXCEPT !.pc = pc, !.seen = status]
  <1>1. worker[s] \in Record /\ worker[s].item \in WorkItem /\ worker[s].att \in Attempt
        /\ worker[s].out \in Outcome
    BY Here, AttemptPCNames DEF ReadForSettle, OutcomePC
  <1>2. status \in AttemptStatus
    BY <1>1 DEF Inv, TypeOK, MyRow
  <1>3. ASSUME NEW pc \in {"settleCas", "settleAbort"}, status # "none", Become(s, Compare(pc))
        PROVE  WorkersKept
    <2> HIDE DEF status
    <2>1. Compare(pc) \in Record
      BY <1>1, <1>2, PCNames DEF Record
    <2>2. Placed(Compare(pc))
      BY <1>1, <1>3 DEF Record, Placed
    <2>3. Calm(worker[s], Compare(pc))
      BY <1>1 DEF Record, Calm, Building
    <2> QED BY <1>3, <2>1, <2>2, <2>3, BecomeKept
  <1>4. ASSUME status # "none",
               attempt' = [attempt EXCEPT ![MyAttempt(s)].cancel = TRUE,
                                          ![MyAttempt(s)].interrupt = FALSE]
        PROVE  RowsKept
    BY <1>1, <1>4, FlagsKept DEF MyAttempt
  <1>5. WorkersKept \/ ProviderThrew(s) \/ Returned(s, "return")
    <2>1. \A o : Follows("none", o) = FALSE
      BY DEF Follows
    <2> QED BY <1>3, <2>1, StatusNames DEF ReadForSettle, LiveStatus
  <1>6. WorkersKept
    BY <1>1, <1>5, ProviderThrewKept, ReturnedKept, ContextNames
  <1>7. RowsKept
    BY <1>4, UnchangedKept, StatusNames DEF ReadForSettle
  <1> QED BY <1>6, <1>7, UnchangedKept DEF ReadForSettle, Kept

\* requestCancelAttempt moves an existing attempt to cancelling.
LEMMA SettleAbortKept ==
  ASSUME Inv, NEW s \in Worker, SettleAbort(s)
  PROVE  Kept
  <1> DEFINE r == [worker[s] EXCEPT !.pc = "settleCas", !.seen = "cancelling"]
  <1>1. worker[s] \in Record /\ worker[s].item \in WorkItem /\ worker[s].att \in Attempt
        /\ worker[s].out \in Outcome /\ worker[s].seen # "none"
    BY Here, AttemptPCNames DEF SettleAbort, OutcomePC, ComparePC
  <1>2. r \in Record
    BY <1>1, PCNames, StatusNames DEF Record
  <1>3. Placed(r)
    BY <1>1 DEF Record, Placed
  <1>4. Calm(worker[s], r)
    BY <1>1 DEF Record, Calm, Building
  <1>5. WorkersKept
    BY <1>1, <1>2, <1>3, <1>4, BecomeKept, ProviderThrewKept DEF SettleAbort
  <1>6. RowsKept
    BY <1>1, StatusKept, StatusNames, UnchangedKept DEF SettleAbort, StillSeen, MyRow, MyAttempt
  <1> QED BY <1>5, <1>6, UnchangedKept DEF SettleAbort, Kept

\* The conditional update of completeAttempt ends an existing attempt.
LEMMA SettleAttemptKept ==
  ASSUME Inv, NEW s \in Worker, SettleAttempt(s)
  PROVE  Kept
  <1>1. worker[s].item \in WorkItem /\ worker[s].att \in Attempt
        /\ worker[s].out \in Outcome /\ worker[s].seen # "none"
    BY Here, AttemptPCNames DEF SettleAttempt, OutcomePC, ComparePC
  <1>2. SettleTarget(s) \in Outcome
    BY <1>1, StatusNames DEF SettleTarget
  <1>3. WorkersKept
    BY <1>1, ReturnedKept, ProviderThrewKept, ContextNames DEF SettleAttempt
  <1>4. RowsKept
    BY <1>1, <1>2, StatusKept, StatusNames, UnchangedKept
       DEF SettleAttempt, StillSeen, StillPermits, Follows, MyRow, MyAttempt
  <1> QED BY <1>3, <1>4, UnchangedKept DEF SettleAttempt, Kept

-----------------------------------------------------------------------------
(* Completion, verification, retry.                                            *)

\* Wherever completeScheduledAttempt returns to, the worker builds nothing.
LEMMA AfterCompletionKept ==
  ASSUME Inv, NEW s \in Worker, worker[s].item \in WorkItem, worker[s].att \in Attempt,
         NEW status \in ItemStatus \cup AttemptStatus, AfterCompletion(s, status)
  PROVE  WorkersKept
  <1> DEFINE dispatch == [worker[s] EXCEPT !.pc = "dispatch", !.out = "none", !.ctx = "none",
                            !.seen = "none"]
             verify == [worker[s] EXCEPT !.pc = "verify", !.out = "none", !.ctx = "none",
                          !.next = 0, !.seen = status]
  <1>1. worker[s] \in Record
    BY DEF Inv, TypeOK
  <1>2. dispatch \in Record /\ verify \in Record
    BY <1>1, PCNames, ContextNames, StatusNames DEF Record
  <1>3. Placed(dispatch)
    BY <1>1, AttemptPCNames DEF Record, Placed, OutcomePC, ComparePC
  <1>4. Placed(verify)
    BY <1>1 DEF Record, Placed, OutcomePC, ComparePC
  <1>5. Calm(worker[s], dispatch) /\ Calm(worker[s], verify)
    BY <1>1 DEF Record, Calm, Building
  <1>6. Threw(s) \/ Become(s, dispatch) \/ Become(s, verify)
    BY DEF AfterCompletion
  <1> HIDE DEF dispatch, verify
  <1> QED BY <1>2, <1>3, <1>4, <1>5, <1>6, BecomeKept, ThrewKept

\* completeScheduledAttempt reads the attempt.
LEMMA ReadCompletedKept ==
  ASSUME Inv, NEW s \in Worker, ReadCompleted(s)
  PROVE  Kept
  <1> DEFINE late == [worker[s] EXCEPT !.pc = "lateRelease", !.seen = item[MyItem(s)].status]
             compare == [worker[s] EXCEPT !.pc = "completeCas", !.seen = MyRow(s).status]
  <1>1. worker[s] \in Record /\ worker[s].item \in WorkItem /\ worker[s].att \in Attempt
        /\ worker[s].out \in Outcome
    BY Here, AttemptPCNames DEF ReadCompleted, OutcomePC
  <1>2. item[MyItem(s)].status \in ItemStatus /\ MyRow(s).status \in AttemptStatus
    BY <1>1 DEF Inv, TypeOK, MyRow, MyItem
  <1>3. CASE Threw(s)
    BY <1>1, <1>3, ThrewKept, UnchangedKept DEF ReadCompleted, Kept
  <1>4. CASE Become(s, late)
    <2>1. late \in Record
      BY <1>1, <1>2, PCNames DEF Record
    <2>2. Placed(late)
      BY <1>1 DEF Record, Placed, OutcomePC, ComparePC
    <2>3. Calm(worker[s], late)
      BY <1>1 DEF Record, Calm, Building
    <2> QED BY <1>4, <2>1, <2>2, <2>3, BecomeKept, UnchangedKept DEF ReadCompleted, Kept
  <1>5. CASE MyRow(s).status # "none" /\ Become(s, compare)
    <2>1. compare \in Record
      BY <1>1, <1>2, PCNames DEF Record
    <2>2. Placed(compare)
      BY <1>1, <1>5 DEF Record, Placed
    <2>3. Calm(worker[s], compare)
      BY <1>1 DEF Record, Calm, Building
    <2> QED BY <1>5, <2>1, <2>2, <2>3, BecomeKept, UnchangedKept DEF ReadCompleted, Kept
  <1> QED BY <1>3, <1>4, <1>5 DEF ReadCompleted

\* An attempt that had ended gives its slots back.
LEMMA LateReleaseKept ==
  ASSUME Inv, NEW s \in Worker, LateRelease(s)
  PROVE  Kept
  <1>1. worker[s].item \in WorkItem /\ worker[s].att \in Attempt
    BY Here, AttemptPCNames DEF LateRelease
  <1>2. WorkersKept
    BY <1>1, GotoKept, PCNames DEF LateRelease, Building, OutcomePC, ComparePC
  <1> QED BY <1>2, ReleaseKept, UnchangedKept DEF LateRelease, Kept

\* ... and its item a status.
LEMMA LateSettleItemKept ==
  ASSUME Inv, NEW s \in Worker, LateSettleItem(s)
  PROVE  Kept
  <1>1. worker[s] \in Record /\ worker[s].item \in WorkItem /\ worker[s].att \in Attempt
    BY Here, AttemptPCNames DEF LateSettleItem
  <1>2. worker[s].seen \in ItemStatus \cup AttemptStatus
    BY <1>1 DEF Record
  <1>3. WorkersKept
    BY <1>1, <1>2, AfterCompletionKept, ThrewKept, SettlementsTyped DEF LateSettleItem
  <1>4. ClaimsKept
    BY <1>1, ItemKept, SettlementsTyped, UnchangedKept DEF LateSettleItem, MyItem
  <1> QED BY <1>3, <1>4, UnchangedKept DEF LateSettleItem, Kept

\* The conditional update of completeScheduledAttempt.
LEMMA CompleteAttemptKept ==
  ASSUME Inv, NEW s \in Worker, CompleteAttempt(s)
  PROVE  Kept
  <1> DEFINE r == [worker[s] EXCEPT !.pc = "settleItem", !.seen = "none"]
  <1>1. worker[s] \in Record /\ worker[s].item \in WorkItem /\ worker[s].att \in Attempt
        /\ worker[s].out \in Outcome /\ worker[s].seen # "none"
    BY Here, AttemptPCNames DEF CompleteAttempt, OutcomePC, ComparePC
  <1>2. r \in Record
    BY <1>1, PCNames, StatusNames DEF Record
  <1>3. Placed(r)
    BY <1>1 DEF Record, Placed, OutcomePC, ComparePC
  <1>4. Calm(worker[s], r)
    BY <1>1 DEF Record, Calm, Building
  <1>5. WorkersKept
    BY <1>1, <1>2, <1>3, <1>4, BecomeKept, ThrewKept DEF CompleteAttempt
  <1>6. RowsKept
    BY <1>1, StatusKept, StatusNames, UnchangedKept
       DEF CompleteAttempt, StillPermits, Follows, MyRow, MyAttempt
  <1> QED BY <1>5, <1>6, UnchangedKept DEF CompleteAttempt, Kept

\* The settlement of the item changes a status, not a claim.
LEMMA SettleItemKept ==
  ASSUME Inv, NEW s \in Worker, SettleItem(s)
  PROVE  Kept
  <1>1. worker[s].item \in WorkItem /\ worker[s].att \in Attempt
    BY Here, AttemptPCNames DEF SettleItem
  <1>2. WorkersKept
    BY <1>1, ThrewKept, GotoKept, PCNames DEF SettleItem, Building, OutcomePC, ComparePC
  <1>3. ClaimsKept
    BY <1>1, ItemKept, SettlementsTyped, UnchangedKept DEF SettleItem, MyItem
  <1> QED BY <1>2, <1>3, UnchangedKept DEF SettleItem, Kept

\* The slots of the settled attempt come back.
LEMMA SettleReleaseKept ==
  ASSUME Inv, NEW s \in Worker, SettleRelease(s)
  PROVE  Kept
  <1>1. worker[s].item \in WorkItem /\ worker[s].att \in Attempt
    BY Here, AttemptPCNames DEF SettleRelease
  <1>2. item[worker[s].item].status \in ItemStatus
    BY <1>1 DEF Inv, TypeOK
  <1>3. WorkersKept
    BY <1>1, <1>2, AfterCompletionKept DEF SettleRelease, MyItem
  <1> QED BY <1>3, ReleaseKept, UnchangedKept DEF SettleRelease, Kept

\* The worker goes on to queue a retry or to finish its wakeup.
LEMMA AfterVerificationKept ==
  ASSUME Inv, NEW s \in Worker, worker[s].item \in WorkItem, worker[s].att \in Attempt,
         AfterVerification(s)
  PROVE  WorkersKept
  <1> DEFINE number == attempt[worker[s].att].number + 1
             done == [Idle EXCEPT !.pc = "finish", !.item = worker[s].item,
                        !.number = worker[s].number]
             retry == [done EXCEPT !.pc = "retry", !.ctx = "finish", !.next = number]
  <1>1. worker[s] \in Record
    BY DEF Inv, TypeOK
  <1>2. number \in Nat
    BY DEF Inv, TypeOK
  <1>3. Become(s, done) \/ Become(s, retry)
    BY DEF AfterVerification, MyItem, MyRow
  <1> HIDE DEF number
  <1>4. done \in Record
    BY <1>1, PCNames, ContextNames, StatusNames DEF Record, Idle
  <1>5. retry \in Record
    BY <1>2, <1>4, PCNames, ContextNames DEF Record
  <1>6. Placed(done)
    BY AttemptPCNames DEF Idle, Placed, OutcomePC, ComparePC
  <1>7. Placed(retry)
    BY AttemptPCNames DEF Idle, Placed, OutcomePC, ComparePC
  <1>8. Calm(worker[s], done) /\ Calm(worker[s], retry)
    BY DEF Idle, Calm, Building
  <1> HIDE DEF done, retry
  <1> QED BY <1>3, <1>4, <1>5, <1>6, <1>7, <1>8, BecomeKept

\* The checker's verdict changes a status, not a claim.
LEMMA VerifyKept ==
  ASSUME Inv, NEW s \in Worker, Verify(s)
  PROVE  Kept
  <1>1. worker[s].item \in WorkItem /\ worker[s].att \in Attempt
    BY Here, AttemptPCNames DEF Verify
  <1>2. WorkersKept
    BY <1>1, AfterVerificationKept, ThrewKept DEF Verify
  <1>3. ClaimsKept
    BY <1>1, ItemKept, StatusNames, UnchangedKept DEF Verify, MyItem
  <1> QED BY <1>2, <1>3, UnchangedKept DEF Verify, Kept

\* queueRetryWakeup reads the item.
LEMMA ReadForRetryKept ==
  ASSUME Inv, NEW s \in Worker, ReadForRetry(s)
  PROVE  Kept
  BY Here, GotoKept, PCNames, AttemptPCNames, UnchangedKept
     DEF ReadForRetry, Kept, Building, OutcomePC, ComparePC

\* ... writes an item it read ready, ready.
LEMMA RetryReadyKept ==
  ASSUME Inv, NEW s \in Worker, RetryReady(s)
  PROVE  Kept
  BY Here, GotoKept, ItemKept, PCNames, AttemptPCNames, StatusNames, UnchangedKept
     DEF RetryReady, Kept, MyItem, Building, OutcomePC, ComparePC

\* ... and inserts a wakeup at most.
LEMMA QueueRetryKept ==
  ASSUME Inv, NEW s \in Worker, QueueRetry(s)
  PROVE  Kept
  <1> DEFINE r == [Idle EXCEPT !.pc = "finish", !.item = worker[s].item, !.number = worker[s].number]
  <1>1. worker[s] \in Record /\ worker[s].item \in WorkItem
    BY Here DEF QueueRetry
  <1>2. r \in Record
    BY <1>1, PCNames, ContextNames, StatusNames DEF Record, Idle
  <1>3. Placed(r)
    BY <1>1, AttemptPCNames DEF Idle, Placed, OutcomePC, ComparePC
  <1>4. Calm(worker[s], r)
    BY DEF Idle, Calm, Building
  <1>5. WorkersKept
    <2>1. Become(s, r) \/ Become(s, Idle)
      BY DEF QueueRetry, MyItem
    <2> HIDE DEF r
    <2> QED BY <2>1, <1>2, <1>3, <1>4, BecomeKept, IdleKept
  <1>6. WakesKept
    BY DEF QueueRetry, Inv, TypeOK, WakesKept, WakeStatus
  <1> QED BY <1>5, <1>6, UnchangedKept DEF QueueRetry, Kept

\* A finished wakeup frees its worker.
LEMMA FinishWakeupKept ==
  ASSUME Inv, NEW s \in Worker, FinishWakeup(s)
  PROVE  Kept
  BY IdleKept, MarkKept, UnchangedKept DEF FinishWakeup, Kept, WakeStatus

-----------------------------------------------------------------------------
(* Recovery.                                                                   *)

\* A stale attempt is marked lost: its row stays.
LEMMA LoseAttemptKept ==
  ASSUME Inv, NEW s \in Worker, LoseAttempt(s)
  PROVE  Kept
  <1>1. PICK a \in Attempt : /\ Losable(a)
                             /\ SetStatus(a, "lost")
                             /\ Become(s, [Idle EXCEPT !.pc = "lost", !.att = a])
    BY DEF LoseAttempt
  <1> DEFINE r == [Idle EXCEPT !.pc = "lost", !.att = a]
  <1>2. r \in Record
    BY IdleTyped, PCNames DEF Record
  <1>3. Placed(r)
    BY DEF Idle, Placed, OutcomePC, ComparePC
  <1>4. Calm(worker[s], r)
    BY DEF Idle, Calm, Building
  <1>5. RowsKept
    BY <1>1, StatusKept, StatusNames DEF Losable
  <1> QED BY <1>1, <1>2, <1>3, <1>4, <1>5, BecomeKept, UnchangedKept DEF LoseAttempt, Kept

\* A lost attempt gives its slots back and its session fails.
LEMMA LoseReleaseKept ==
  ASSUME Inv, NEW s \in Worker, LoseRelease(s)
  PROVE  Kept
  <1>1. worker[s].att \in Attempt
    BY Here, AttemptPCNames DEF LoseRelease
  <1>2. RowsKept
    <2>1. "failed" \in SessionStatus
      BY StatusNames DEF SessionStatus
    <2> QED BY <1>1, <2>1, SessionKept, UnchangedKept DEF LoseRelease, MyAttempt
  <1> QED BY <1>2, IdleKept, ReleaseKept, UnchangedKept DEF LoseRelease, Kept

\* recoverStaleClaims fails a wakeup whose claim can be retried.
LEMMA RecoverRetryKept ==
  ASSUME Inv, NEW s \in Worker, RecoverRetry(s)
  PROVE  Kept
  <1>1. PICK w \in WorkItem, n \in 1 .. MaxNumber + 1 :
          /\ RetryableClaim(w)
          /\ wake' = [wake EXCEPT ![<<w, n>>] = "failed"]
          /\ Become(s, [Idle EXCEPT !.pc = "recoverReady", !.item = w, !.number = n,
                          !.att = item[w].by, !.ctx = "recover",
                          !.next = attempt[item[w].by].number + 1])
    BY DEF RecoverRetry
  <1> DEFINE number == attempt[item[w].by].number + 1
             r == [Idle EXCEPT !.pc = "recoverReady", !.item = w, !.number = n,
                     !.att = item[w].by, !.ctx = "recover", !.next = number]
  <1>2. item[w].by \in Attempt
    BY <1>1 DEF Inv, TypeOK, RetryableClaim
  <1>3. number \in Nat
    BY <1>2 DEF Inv, TypeOK
  <1>4. Become(s, r)
    BY <1>1
  <1> HIDE DEF number
  <1>5. r \in Record
    BY <1>2, <1>3, PCNames, ContextNames, StatusNames DEF Record, Idle
  <1>6. Placed(r)
    BY <1>2, AttemptPCNames DEF Idle, Placed, OutcomePC, ComparePC
  <1>7. Calm(worker[s], r)
    BY DEF Idle, Calm, Building
  <1>8. WakesKept
    BY <1>1 DEF Inv, TypeOK, WakesKept, WakeStatus
  <1>9. WorkersKept
    BY <1>4, <1>5, <1>6, <1>7, BecomeKept
  <1> QED BY <1>8, <1>9, UnchangedKept DEF RecoverRetry, Kept

\* ... and writes its item ready, whose claim stays.
LEMMA RecoverReadyKept ==
  ASSUME Inv, NEW s \in Worker, RecoverReady(s)
  PROVE  Kept
  BY Here, GotoKept, ItemKept, PCNames, AttemptPCNames, StatusNames, UnchangedKept
     DEF RecoverReady, Kept, MyItem, Building, OutcomePC, ComparePC

\* A stale wakeup of a completed item is completed.
LEMMA RecoverCompletedKept ==
  ASSUME Inv, NEW s \in Worker, RecoverCompleted(s)
  PROVE  Kept
  <1>1. WakesKept
    BY DEF RecoverCompleted, Inv, TypeOK, WakesKept, WakeStatus
  <1> QED BY <1>1, UnchangedKept DEF RecoverCompleted, Kept

\* Any other stale wakeup fails.
LEMMA RecoverFailKept ==
  ASSUME Inv, NEW s \in Worker, RecoverFail(s)
  PROVE  Kept
  <1>1. PICK w \in WorkItem, n \in 1 .. MaxNumber + 1 :
          LET by == item[w].by
              status == IF by = None THEN "none" ELSE attempt[by].status
          IN  /\ wake' = [wake EXCEPT ![<<w, n>>] = "failed"]
              /\ Become(s, [Idle EXCEPT !.item = w, !.number = n, !.att = by,
                              !.pc = CASE status = "queued" -> "recoverCancel"
                                       [] status \in EndStatus -> "recoverRelease"
                                       [] OTHER -> "failItem"])
    BY DEF RecoverFail
  <1> DEFINE by == item[w].by
             r(pc) == [Idle EXCEPT !.item = w, !.number = n, !.att = by, !.pc = pc]
  <1>2. by \in Attempt \cup {None}
    BY DEF Inv, TypeOK
  <1>3. PICK pc \in {"recoverCancel", "recoverRelease", "failItem"} :
          (pc # "failItem" => by # None) /\ Become(s, r(pc))
    BY <1>1 DEF EndStatus
  <1> HIDE DEF by
  <1>4. r(pc) \in Record
    BY <1>2, PCNames, ContextNames, StatusNames DEF Record, Idle
  <1>5. Placed(r(pc))
    BY <1>2, <1>3, AttemptPCNames DEF Idle, Placed, OutcomePC, ComparePC
  <1>6. Calm(worker[s], r(pc))
    BY DEF Idle, Calm, Building
  <1>7. WorkersKept
    BY <1>3, <1>4, <1>5, <1>6, BecomeKept
  <1>8. WakesKept
    BY <1>1 DEF Inv, TypeOK, WakesKept, WakeStatus
  <1> QED BY <1>7, <1>8, UnchangedKept DEF RecoverFail, Kept

\* Its queued attempt is cancelled: the row stays.
LEMMA RecoverCancelKept ==
  ASSUME Inv, NEW s \in Worker, RecoverCancel(s)
  PROVE  Kept
  <1>1. worker[s].item \in WorkItem /\ worker[s].att \in Attempt
    BY Here, AttemptPCNames DEF RecoverCancel
  <1>2. WorkersKept
    BY <1>1, IdleKept, GotoKept, PCNames DEF RecoverCancel, Building, OutcomePC, ComparePC
  <1>3. Follows("none", "cancelled") = FALSE
    BY DEF Follows
  <1>4. RowsKept
    BY <1>1, <1>3, StatusKept, StatusNames, UnchangedKept DEF RecoverCancel, MyRow, MyAttempt
  <1> QED BY <1>2, <1>4, UnchangedKept DEF RecoverCancel, Kept

\* Its slots come back.
LEMMA RecoverReleaseKept ==
  ASSUME Inv, NEW s \in Worker, RecoverRelease(s)
  PROVE  Kept
  <1>1. worker[s].item \in WorkItem
    BY Here DEF RecoverRelease
  <1>2. WorkersKept
    BY <1>1, GotoKept, PCNames, AttemptPCNames DEF RecoverRelease, Building, OutcomePC, ComparePC
  <1> QED BY <1>2, ReleaseKept, UnchangedKept DEF RecoverRelease, Kept

-----------------------------------------------------------------------------
(* Crashes, suspension, leases, operators, approvers.                          *)

\* Shutdown, crash, suspension and resumption touch no row.
LEMMA DisturbKept ==
  ASSUME Inv, NEW s \in Worker, Disturb(s)
  PROVE  Kept
  <1>1. CASE RequestStop(s)
    BY <1>1, RequestStopKept
  <1>2. CASE Crash(s)
    <2>1. stalled' \subseteq Worker
      BY <1>2 DEF Crash, Inv, TypeOK
    <2> QED BY <1>2, <2>1, IdleKept, UnchangedKept DEF Crash, Kept
  <1>3. CASE Stall(s)
    <2>1. stalled' \subseteq Worker
      BY <1>3 DEF Stall, Inv, TypeOK
    <2> QED BY <1>3, <2>1, UnchangedKept DEF Stall, Kept
  <1>4. CASE Resume(s)
    <2>1. stalled' \subseteq Worker
      BY <1>4 DEF Resume, Inv, TypeOK
    <2> QED BY <1>4, <2>1, UnchangedKept DEF Resume, Kept
  <1> QED BY <1>1, <1>2, <1>3, <1>4 DEF Disturb

\* An expired lease frees a slot; loop work never passes for an attempt.
LEMMA LeasesKept ==
  ASSUME Inv, NEW k \in Slot, Leases(k)
  PROVE  Kept
  <1>1. SlotsKept
    BY NoneAssumption
       DEF Leases, ReconcileExpiredLock, OtherTakes, OtherFrees, Inv, TypeOK, SlotsKept
  <1> QED BY <1>1, UnchangedKept DEF Leases, ReconcileExpiredLock, OtherTakes, OtherFrees, Kept

\* An operator changes flags and status of an existing attempt.
LEMMA OperateKept ==
  ASSUME Inv, NEW a \in Attempt, Operate(a)
  PROVE  Kept
  <1>1. attempt[a].cancel \in BOOLEAN /\ attempt[a].interrupt \in BOOLEAN
    BY DEF Inv, TypeOK
  <1>2. CASE CancelQueued(a) \/ BeginCancelling(a)
    <2>1. RowsKept
      BY <1>2, StatusKept, StatusNames DEF CancelQueued, BeginCancelling
    <2> QED BY <1>2, <2>1, UnchangedKept DEF CancelQueued, BeginCancelling, Kept
  <1>3. CASE RequestCancel(a)
    <2>1. RowsKept
      BY <1>3, FlagsKept DEF RequestCancel
    <2> QED BY <1>3, <2>1, UnchangedKept DEF RequestCancel, Kept
  <1>4. CASE RequestInterrupt(a)
    <2> DEFINE row == [attempt[a] EXCEPT !.interrupt = TRUE]
    <2>1. attempt[a] \in RowType
      BY DEF Inv, TypeOK, RowType
    <2>2. row \in RowType /\ row.status = attempt[a].status /\ row.item = attempt[a].item
          /\ row.session = attempt[a].session
      BY <2>1 DEF RowType
    <2>3. attempt' = [attempt EXCEPT ![a] = row]
      BY <1>4 DEF RequestInterrupt
    <2>4. RowsKept
      BY <2>2, <2>3, RowKept
    <2> QED BY <1>4, <2>4, UnchangedKept DEF RequestInterrupt, Kept
  <1> QED BY <1>2, <1>3, <1>4 DEF Operate

\* An approver's decision changes a status, not a claim.
LEMMA DecideApprovalKept ==
  ASSUME Inv, NEW w \in WorkItem, DecideApproval(w)
  PROVE  Kept
  BY ItemKept, StatusNames, UnchangedKept DEF DecideApproval, Kept

-----------------------------------------------------------------------------
(* The six actions that do not keep all of Kept.                               *)

\* A row inserted under a fresh identifier: nobody claims it, no slot is its own.
LEMMA CreateAttemptPreserves ==
  ASSUME Inv, NEW s \in Worker, CreateAttempt(s)
  PROVE  Inv'
  <1>1. worker[s] \in Record /\ worker[s].item \in WorkItem /\ worker[s].next \in Nat
    BY Here DEF CreateAttempt, Record
  <1>2. CASE UNCHANGED attempt /\ Goto(s, "relist")
    <2>1. WorkersKept
      BY <1>1, <1>2, GotoKept, PCNames, AttemptPCNames DEF Building, OutcomePC, ComparePC
    <2> QED BY <1>2, <2>1, UnchangedKept, KeptPreserves DEF CreateAttempt, Kept
  <1>3. ASSUME NEW a \in Fresh,
               attempt' = [attempt EXCEPT ![a] = NewRow(worker[s].item, worker[s].next)],
               Become(s, [worker[s] EXCEPT !.pc = "slots", !.att = a, !.next = 1])
        PROVE  Inv'
    <2> DEFINE r == [worker[s] EXCEPT !.pc = "slots", !.att = a, !.next = 1]
               row == NewRow(worker[s].item, worker[s].next)
    <2>1. /\ a \in Attempt /\ attempt[a].status = "none"
          /\ \A w \in WorkItem : item[w].by # a
          /\ \A t \in Worker : worker[t].att # a
          /\ \A k \in Slot : slot[k] # a
      BY <1>3 DEF Fresh
    <2>2. /\ r \in Record /\ r.pc = "slots" /\ r.att = a /\ r.item = worker[s].item
      BY <1>1, <2>1, PCNames DEF Record
    <2>3. Placed(r)
      BY <1>1, <2>1, <2>2 DEF Placed, OutcomePC, ComparePC
    <2>4. /\ worker' \in [Worker -> Record] /\ worker'[s] = r
          /\ \A t \in Worker : t # s => worker'[t] = worker[t]
      BY <1>3, <2>2 DEF Inv, TypeOK, Become
    <2>5. row \in RowType /\ row.status = "queued" /\ row.item = worker[s].item
      BY <1>1, StatusNames DEF RowType, NewRow, NoRow, SessionStatus
    <2>6. /\ attempt' \in [Attempt -> RowType] /\ attempt'[a] = row
          /\ \A b \in Attempt : b # a => attempt'[b] = attempt[b]
      BY <1>3, <2>1, <2>5 DEF Inv, TypeOK, RowType
    <2>7. item' = item /\ slot' = slot /\ wake' = wake /\ stalled' = stalled
      BY DEF CreateAttempt
    <2> HIDE DEF r, row
    <2>8. TypeOK' /\ \A t \in Worker : Placed(worker'[t])
      BY <2>3, <2>4, <2>6, <2>7 DEF Inv, TypeOK, RowType
    <2>9. \A t \in Worker : OwnsRow(t)'
      <3>1. OwnsRow(s)'
        BY <2>1, <2>2, <2>4, <2>5, <2>6, <2>7 DEF OwnsRow, Exists
      <3>2. ASSUME NEW t \in Worker, t # s PROVE OwnsRow(t)'
        <4>1. worker[t].pc \in Building => worker[t].att \in Attempt
          BY DEF Inv, Placed, AttemptPC
        <4> QED BY <2>1, <2>2, <2>4, <2>6, <2>7, <3>2, <4>1 DEF Inv, OwnsRow, Exists
      <3> QED BY <3>1, <3>2
    <2>10. \A t \in Worker : Emptied(t)'
      BY <2>2, <2>4, <2>7 DEF Inv, Emptied
    <2>11. \A t \in Worker : Linked(t)'
      BY <2>1, <2>2, <2>4, <2>6, AttemptPCNames DEF Inv, Linked, Placed
    <2>12. ClaimantExists'
      BY <2>1, <2>6, <2>7 DEF Inv, TypeOK, ClaimantExists, Exists
    <2>13. NoOrphanSlot'
      BY <2>1, <2>6, <2>7 DEF Inv, NoOrphanSlot, Exists
    <2>14. OneCliPerAttempt'
      BY <2>2, <2>4 DEF Inv, OneCliPerAttempt
    <2> QED BY <2>8, <2>9, <2>10, <2>11, <2>12, <2>13, <2>14 DEF Inv
  <1> QED BY <1>2, <1>3 DEF CreateAttempt, MyItem

\* A slot given to the attempt the worker is building.
LEMMA TakeSlotPreserves ==
  ASSUME Inv, NEW s \in Worker, TakeSlot(s)
  PROVE  Inv'
  <1> DEFINE k == Needs[worker[s].item][worker[s].next]
             a == worker[s].att
             next == worker[s].next + 1
             reserve == [worker[s] EXCEPT !.pc = "reserve", !.next = 0]
             more == [worker[s] EXCEPT !.next = next]
             undo == [worker[s] EXCEPT !.pc = "undo", !.ctx = "slots", !.next = 0]
  <1>1. /\ worker[s] \in Record /\ worker[s].pc = "slots"
        /\ worker[s].item \in WorkItem /\ a \in Attempt
    BY Here, AttemptPCNames DEF TakeSlot
  <1>2. next \in Nat
    BY <1>1 DEF Record
  <1>3. Become(s, reserve) \/ Become(s, more) \/ Become(s, undo)
    BY DEF TakeSlot
  <1>4. reserve \in Record /\ undo \in Record
    BY <1>1, PCNames, ContextNames DEF Record
  <1>5. more \in Record
    <2> HIDE DEF next
    <2> QED BY <1>1, <1>2 DEF Record
  <1>6. Placed(reserve) /\ Placed(more) /\ Placed(undo)
    BY <1>1 DEF Record, Placed, OutcomePC, ComparePC
  <1>7. Calm(worker[s], reserve) /\ Calm(worker[s], more) /\ Calm(worker[s], undo)
    BY <1>1 DEF Record, Calm, Building
  <1>8. WorkersKept
    <2> HIDE DEF reserve, more, undo
    <2> QED BY <1>3, <1>4, <1>5, <1>6, <1>7, BecomeKept
  <1>9. RowsKept /\ ClaimsKept /\ WakesKept /\ stalled' \subseteq Worker
    BY UnchangedKept DEF TakeSlot
  <1>10. CASE UNCHANGED slot
    BY <1>8, <1>9, <1>10, UnchangedKept, KeptPreserves DEF Kept
  <1>11. CASE slot' = [slot EXCEPT ![k] = a]
    <2>1. TypeOK'
      BY <1>1, <1>8, <1>9, <1>11
         DEF Inv, TypeOK, RowsKept, ClaimsKept, WakesKept, WorkersKept, RowType
    <2>2. \A t \in Worker : Placed(worker'[t])
      BY <1>8 DEF WorkersKept
    <2>3. Exists(a)
      BY <1>1 DEF Inv, OwnsRow, Building
    <2>4. NoOrphanSlot'
      BY <1>1, <1>9, <1>11, <2>3 DEF Inv, TypeOK, NoOrphanSlot, RowsKept, Exists
    <2>5. \A t \in Worker : Emptied(t)'
      <3> SUFFICES ASSUME NEW t \in Worker, worker'[t].pc = "delete", NEW j \in Slot
                   PROVE  slot'[j] # worker'[t].att
        BY DEF Emptied
      <3>1. worker[t].pc = "delete" /\ worker'[t].att = worker[t].att
        BY <1>8 DEF WorkersKept, Calm, Building
      <3>2. worker[t].att # a
        BY <1>1, <3>1 DEF Inv, OwnsRow, Building
      <3> QED BY <1>11, <3>1, <3>2 DEF Inv, TypeOK, Emptied
    <2> QED BY <1>8, <1>9, <2>1, <2>2, <2>4, <2>5, OwnersPreserved, LinkedPreserved,
               ClaimantPreserved, CliPreserved DEF Inv
  <1> QED BY <1>10, <1>11 DEF TakeSlot, MyItem, MyAttempt

\* The claim goes to an attempt that only this worker builds, and ends its building.
LEMMA ClaimWorkItemPreserves ==
  ASSUME Inv, NEW s \in Worker, ClaimWorkItem(s)
  PROVE  Inv'
  <1> DEFINE w == worker[s].item
             a == worker[s].att
             start == [worker[s] EXCEPT !.pc = "start", !.ctx = "none"]
             undo == [worker[s] EXCEPT !.pc = "undo", !.ctx = "claim"]
  <1>1. worker[s] \in Record /\ worker[s].pc = "claim" /\ w \in WorkItem /\ a \in Attempt
    BY Here, AttemptPCNames DEF ClaimWorkItem
  <1>2. start \in Record /\ undo \in Record
    BY <1>1, PCNames, ContextNames DEF Record
  <1>3. Placed(start) /\ Placed(undo)
    BY <1>1 DEF Record, Placed, OutcomePC, ComparePC
  <1>4. Calm(worker[s], start) /\ Calm(worker[s], undo)
    BY <1>1 DEF Record, Calm, Building
  <1>5. RowsKept /\ SlotsKept /\ WakesKept /\ stalled' \subseteq Worker
    BY UnchangedKept DEF ClaimWorkItem
  <1>6. CASE UNCHANGED item /\ Become(s, undo)
    BY <1>2, <1>3, <1>4, <1>5, <1>6, BecomeKept, UnchangedKept, KeptPreserves DEF Kept
  <1>7. CASE item' = [item EXCEPT ![w] = [status |-> "claimed", by |-> a]] /\ Become(s, start)
    <2>1. WorkersKept
      BY <1>2, <1>3, <1>4, <1>7, BecomeKept
    <2>2. [status |-> "claimed", by |-> a] \in [status : ItemStatus, by : Attempt \cup {None}]
      BY <1>1, StatusNames
    <2>3. item' \in [WorkItem -> [status : ItemStatus, by : Attempt \cup {None}]]
      BY <1>7, <2>2 DEF Inv, TypeOK
    <2>4. TypeOK'
      BY <1>5, <2>1, <2>3 DEF Inv, TypeOK, RowsKept, SlotsKept, WakesKept, WorkersKept, RowType
    <2>5. \A t \in Worker : Placed(worker'[t])
      BY <2>1 DEF WorkersKept
    <2>6. item'[w].by = a /\ \A v \in WorkItem : v # w => item'[v].by = item[v].by
      BY <1>1, <1>7 DEF Inv, TypeOK
    <2>7. Exists(a) /\ attempt[a].item = w
      BY <1>1 DEF Inv, OwnsRow, Building
    <2>8. ClaimantExists'
      BY <1>1, <2>6, <2>7 DEF ClaimWorkItem, Inv, ClaimantExists, Exists
    <2>9. \A t \in Worker : OwnsRow(t)'
      <3>1. worker'[s].pc = "start" /\ \A t \in Worker : t # s => worker'[t] = worker[t]
        BY <1>1, <1>7 DEF Inv, TypeOK, Become, Record
      <3>2. ASSUME NEW t \in Worker, worker'[t].pc \in Building PROVE OwnsRow(t)'
        <4>1. t # s
          BY <3>1, <3>2 DEF Building
        <4>2. worker'[t] = worker[t] /\ worker[t].att # a
          BY <1>1, <3>1, <3>2, <4>1 DEF Inv, OwnsRow, Building
        <4>3. \A u \in Worker : worker'[u].pc \in Building => worker'[u] = worker[u]
          BY <3>1 DEF Building
        <4>4. attempt' = attempt
          BY DEF ClaimWorkItem
        <4> QED BY <2>6, <3>2, <4>2, <4>3, <4>4 DEF Inv, OwnsRow, Exists
      <3> QED BY <3>2 DEF OwnsRow
    <2> QED BY <1>5, <2>1, <2>4, <2>5, <2>8, <2>9, EmptiedPreserved, LinkedPreserved,
               SlotsPreserved, CliPreserved DEF Inv
  <1> QED BY <1>6, <1>7 DEF ClaimWorkItem, ClaimedBy, MyItem, MyAttempt

\* The slots are given back before the row is deleted.
LEMMA UndoSlotsPreserves ==
  ASSUME Inv, NEW s \in Worker, UndoSlots(s)
  PROVE  Inv'
  <1> DEFINE r == [worker[s] EXCEPT !.pc = "delete"]
  <1>1. worker[s] \in Record /\ worker[s].pc = "undo" /\ worker[s].item \in WorkItem
        /\ worker[s].att \in Attempt
    BY Here, AttemptPCNames DEF UndoSlots
  <1>2. /\ r \in Record /\ r.pc = "delete" /\ r.att = worker[s].att /\ r.item = worker[s].item
    BY <1>1, PCNames DEF Record
  <1>3. Placed(r)
    BY <1>1, <1>2 DEF Placed, OutcomePC, ComparePC
  <1>4. /\ worker' \in [Worker -> Record] /\ worker'[s] = r
        /\ \A t \in Worker : t # s => worker'[t] = worker[t]
    BY <1>2 DEF UndoSlots, Goto, Inv, TypeOK
  <1> HIDE DEF r
  <1>5. RowsKept /\ ClaimsKept /\ SlotsKept /\ WakesKept /\ stalled' \subseteq Worker
    BY ReleaseKept, UnchangedKept DEF UndoSlots
  <1>6. attempt' = attempt /\ item' = item
    BY DEF UndoSlots
  <1>7. TypeOK' /\ \A t \in Worker : Placed(worker'[t])
    BY <1>3, <1>4, <1>5 DEF Inv, TypeOK, RowsKept, ClaimsKept, SlotsKept, WakesKept, RowType
  <1>8. \A t \in Worker : OwnsRow(t)'
    <2>1. \A t \in Worker : /\ worker'[t].pc \in Building <=> worker[t].pc \in Building
                            /\ worker'[t].att = worker[t].att
                            /\ worker'[t].item = worker[t].item
      BY <1>1, <1>2, <1>4 DEF Building
    <2> QED BY <1>6, <2>1 DEF Inv, OwnsRow, Exists
  <1>9. \A t \in Worker : Emptied(t)'
    <2>1. \A k \in Slot : slot'[k] # worker[s].att
      BY <1>1, NoneAssumption DEF UndoSlots, ReleaseSlots, MyAttempt
    <2>2. ASSUME NEW t \in Worker, t # s, worker[t].pc = "delete", NEW k \in Slot
          PROVE  slot'[k] # worker[t].att
      <3>1. worker[t].att \in Attempt /\ slot[k] # worker[t].att
        BY <2>2, AttemptPCNames DEF Inv, Placed, Emptied
      <3> QED BY <1>5, <3>1 DEF SlotsKept
    <2> QED BY <1>2, <1>4, <2>1, <2>2 DEF Emptied
  <1>10. \A t \in Worker : Linked(t)'
    BY <1>2, <1>4, <1>6 DEF Inv, Linked
  <1>11. OneCliPerAttempt'
    BY <1>2, <1>4 DEF Inv, OneCliPerAttempt
  <1> QED BY <1>5, <1>7, <1>8, <1>9, <1>10, <1>11, ClaimantPreserved, SlotsPreserved DEF Inv

\* The deleted row is claimed by no item, holds no slot and runs nowhere.
LEMMA DeleteAttemptPreserves ==
  ASSUME Inv, NEW s \in Worker, DeleteAttempt(s)
  PROVE  Inv'
  <1> DEFINE a == worker[s].att
  <1>1. /\ worker[s].pc = "delete" /\ worker[s].item \in WorkItem /\ a \in Attempt
    BY Here, AttemptPCNames DEF DeleteAttempt
  <1>2. WorkersKept
    BY <1>1, ThrewKept, GotoKept, PCNames, AttemptPCNames
       DEF DeleteAttempt, Building, OutcomePC, ComparePC
  <1>3. worker'[s].pc \notin Building /\ \A t \in Worker : t # s => worker'[t] = worker[t]
    <2>1. worker'[s].pc \in {"threw", "block", "relist"}
      <3>1. CASE Threw(s)
        BY <3>1 DEF Threw, Become, Idle, Inv, TypeOK
      <3>2. ASSUME NEW p \in {"block", "relist"}, Goto(s, p) PROVE worker'[s].pc = p
        BY <3>2 DEF Goto, Inv, TypeOK, Record
      <3> QED BY <3>1, <3>2 DEF DeleteAttempt
    <2>2. \A t \in Worker : t # s => worker'[t] = worker[t]
      BY DEF DeleteAttempt, Threw, Become, Goto, Inv, TypeOK
    <2> QED BY <2>1, <2>2 DEF Building
  <1>4. ClaimsKept /\ SlotsKept /\ WakesKept /\ stalled' \subseteq Worker
        /\ item' = item /\ slot' = slot
    BY UnchangedKept DEF DeleteAttempt
  <1>5. /\ NoRow \in RowType /\ NoRow.status = "none"
    BY StatusNames DEF RowType, NoRow, SessionStatus
  <1>6. /\ attempt' \in [Attempt -> RowType] /\ attempt'[a] = NoRow
        /\ \A b \in Attempt : b # a => attempt'[b] = attempt[b]
    BY <1>1, <1>5 DEF DeleteAttempt, Deleted, MyAttempt, Inv, TypeOK, RowType
  <1>7. /\ \A w \in WorkItem : item[w].by # a
        /\ \A k \in Slot : slot[k] # a
        /\ \A t \in Worker : worker[t].pc \in Building /\ worker[t].att = a => t = s
    BY <1>1 DEF Inv, OwnsRow, Emptied, Building
  <1>8. TypeOK' /\ \A t \in Worker : Placed(worker'[t])
    BY <1>2, <1>4, <1>6
       DEF Inv, TypeOK, ClaimsKept, SlotsKept, WakesKept, WorkersKept, RowType
  <1>9. \A t \in Worker : OwnsRow(t)'
    <2> SUFFICES ASSUME NEW t \in Worker, worker'[t].pc \in Building PROVE OwnsRow(t)'
      BY DEF OwnsRow
    <2>1. t # s /\ worker'[t] = worker[t] /\ worker[t].att # a
      BY <1>3, <1>7
    <2>2. worker[t].att \in Attempt
      BY <2>1 DEF Inv, Placed, AttemptPC
    <2>3. \A u \in Worker : worker'[u].pc \in Building => worker'[u] = worker[u]
      BY <1>3
    <2> QED BY <1>4, <1>6, <2>1, <2>2, <2>3 DEF Inv, OwnsRow, Exists
  <1>10. \A t \in Worker : Linked(t)'
    <2> SUFFICES ASSUME NEW t \in Worker, worker'[t].pc = "run"
                 PROVE  ~ CanLink(attempt[worker[t].att])' /\ worker'[t].att = worker[t].att
      BY DEF Linked
    <2>1. worker[t].pc = "run" /\ worker'[t].att = worker[t].att /\ worker[t].att \in Attempt
      BY <1>2, AttemptPCNames DEF WorkersKept, Calm, Inv, Placed
    <2> QED BY <1>5, <1>6, <2>1 DEF Inv, Linked, CanLink
  <1>11. ClaimantExists'
    BY <1>4, <1>6, <1>7 DEF Inv, TypeOK, ClaimantExists, Exists
  <1>12. NoOrphanSlot'
    BY <1>4, <1>6, <1>7 DEF Inv, NoOrphanSlot, Exists
  <1> QED BY <1>2, <1>4, <1>8, <1>9, <1>10, <1>11, <1>12, EmptiedPreserved, CliPreserved DEF Inv

\* The worker that links the session is the only one that gets to run the CLI.
LEMMA LinkSessionPreserves ==
  ASSUME Inv, NEW s \in Worker, LinkSession(s)
  PROVE  Inv'
  <1> DEFINE a == worker[s].att
             r == [worker[s] EXCEPT !.pc = "run"]
  <1>1. worker[s] \in Record /\ worker[s].item \in WorkItem /\ a \in Attempt
    BY Here, AttemptPCNames DEF LinkSession
  <1>2. CASE UNCHANGED attempt /\ ProviderThrew(s)
    BY <1>1, <1>2, ProviderThrewKept, UnchangedKept, KeptPreserves DEF LinkSession, Kept
  <1>3. CASE /\ CanLink(attempt[a])
             /\ attempt' = [attempt EXCEPT ![a].session = "running"]
             /\ Goto(s, "run")
    <2>1. r \in Record /\ r.pc = "run" /\ r.att = a
      BY <1>1, PCNames DEF Record
    <2>2. Placed(r)
      BY <1>1 DEF Record, Placed, OutcomePC, ComparePC
    <2>3. /\ worker' \in [Worker -> Record] /\ worker'[s] = r
          /\ \A t \in Worker : t # s => worker'[t] = worker[t]
      BY <1>3, <2>1 DEF Goto, Inv, TypeOK
    <2> HIDE DEF r
    <2>4. RowsKept /\ ClaimsKept /\ SlotsKept /\ WakesKept /\ stalled' \subseteq Worker
      <3>1. "running" \in SessionStatus
        BY DEF SessionStatus
      <3> QED BY <1>1, <1>3, <3>1, SessionKept, UnchangedKept DEF LinkSession
    <2>5. TypeOK' /\ \A t \in Worker : Placed(worker'[t])
      BY <2>2, <2>3, <2>4 DEF Inv, TypeOK, RowsKept, ClaimsKept, SlotsKept, WakesKept, RowType
    <2>6. \A t \in Worker : worker'[t].pc \in Building => worker'[t] = worker[t]
      BY <2>1, <2>3 DEF Building
    <2>7. \A t \in Worker : OwnsRow(t)'
      <3> SUFFICES ASSUME NEW t \in Worker, worker'[t].pc \in Building PROVE OwnsRow(t)'
        BY DEF OwnsRow
      <3>1. worker'[t] = worker[t] /\ worker[t].att \in Attempt
        BY <2>6 DEF Inv, Placed, AttemptPC
      <3> QED BY <2>4, <2>6, <3>1 DEF Inv, OwnsRow, RowsKept, ClaimsKept, Exists
    <2>8. \A t \in Worker : Emptied(t)'
      BY <2>1, <2>3 DEF LinkSession, Inv, Emptied
    <2>9. \A t \in Worker : worker'[t].pc = "run" =>
             ~ CanLink(attempt'[worker'[t].att])
      <3>1. attempt'[a].session = "running"
        BY <1>1, <1>3 DEF Inv, TypeOK
      <3>2. ~ CanLink(attempt'[a])
        BY <3>1 DEF CanLink
      <3>3. ASSUME NEW t \in Worker, t # s, worker[t].pc = "run"
            PROVE  ~ CanLink(attempt'[worker[t].att])
        <4>1. worker[t].att \in Attempt
          BY <3>3, AttemptPCNames DEF Inv, Placed
        <4> QED BY <2>4, <3>3, <4>1 DEF Inv, Linked, RowsKept, CanLink, Exists
      <3> QED BY <2>1, <2>3, <3>2, <3>3
    <2>10. \A t \in Worker : Linked(t)'
      BY <2>9 DEF Linked, CanLink
    <2>11. OneCliPerAttempt'
      <3>1. \A t \in Worker : worker[t].pc = "run" => worker[t].att # a
        BY <1>3 DEF Inv, Linked
      <3> QED BY <2>1, <2>3, <3>1 DEF Inv, OneCliPerAttempt
    <2> QED BY <2>4, <2>5, <2>7, <2>8, <2>10, <2>11, ClaimantPreserved, SlotsPreserved DEF Inv
  <1> QED BY <1>2, <1>3 DEF LinkSession, MyRow, MyAttempt

-----------------------------------------------------------------------------
(* The invariant and what follows from it.                                     *)

\* Nothing is created, claimed, held or running at first.
LEMMA InitInv == Init => Inv
  <1> SUFFICES ASSUME Init PROVE Inv
    OBVIOUS
  <1>1. TypeOK
    <2>1. NoRow \in RowType
      BY StatusNames DEF RowType, NoRow, SessionStatus
    <2>2. \A w \in WorkItem : item[w] \in [status : ItemStatus, by : Attempt \cup {None}]
      BY StatusNames DEF Init
    <2>3. item \in [WorkItem -> [status : ItemStatus, by : Attempt \cup {None}]]
      BY <2>2 DEF Init
    <2>4. wake \in [WakeKey -> WakeStatus]
      BY DEF Init, WakeStatus
    <2> QED BY <2>1, <2>3, <2>4, IdleTyped DEF Init, TypeOK, RowType
  <1>2. \A s \in Worker : worker[s].pc = "idle" /\ Placed(worker[s])
    BY IdleTyped DEF Init, Idle
  <1>3. \A s \in Worker : OwnsRow(s) /\ Emptied(s) /\ Linked(s)
    BY <1>2 DEF OwnsRow, Emptied, Linked, Building
  <1>4. ClaimantExists /\ NoOrphanSlot
    BY NoneAssumption DEF Init, ClaimantExists, NoOrphanSlot
  <1>5. OneCliPerAttempt
    BY <1>2 DEF OneCliPerAttempt
  <1> QED BY <1>1, <1>2, <1>3, <1>4, <1>5 DEF Inv

\* Every statement of a worker keeps the invariant.
LEMMA ExecutePreserves ==
  ASSUME Inv, NEW s \in Worker, Execute(s)
  PROVE  Inv'
  <1>1. CASE CreateAttempt(s)
    BY <1>1, CreateAttemptPreserves
  <1>2. CASE TakeSlot(s)
    BY <1>2, TakeSlotPreserves
  <1>3. CASE ClaimWorkItem(s)
    BY <1>3, ClaimWorkItemPreserves
  <1>4. CASE UndoSlots(s)
    BY <1>4, UndoSlotsPreserves
  <1>5. CASE DeleteAttempt(s)
    BY <1>5, DeleteAttemptPreserves
  <1>6. CASE LinkSession(s)
    BY <1>6, LinkSessionPreserves
  <1>7. CASE \/ ClaimWakeup(s) \/ Enter(s) \/ HandleThrow(s) \/ BackOff(s) \/ GiveUp(s)
             \/ ReadForFail(s) \/ FailItem(s) \/ Dispatch(s) \/ ReserveBudget(s)
             \/ BlockItem(s) \/ Relist(s)
    BY <1>7, ClaimWakeupKept, EnterKept, HandleThrowKept, BackOffKept, GiveUpKept,
       ReadForFailKept, FailItemKept, DispatchKept, ReserveBudgetKept, BlockItemKept,
       RelistKept, KeptPreserves
  <1>8. CASE \/ ReadQueued(s) \/ Prepare(s) \/ ReadPreparing(s) \/ Begin(s) \/ MarkInProgress(s)
             \/ Heartbeat(s) \/ FinishCli(s) \/ EndSession(s) \/ ReadForSettle(s)
             \/ SettleAbort(s) \/ SettleAttempt(s)
    BY <1>8, ReadQueuedKept, PrepareKept, ReadPreparingKept, BeginKept, MarkInProgressKept,
       HeartbeatKept, FinishCliKept, EndSessionKept, ReadForSettleKept, SettleAbortKept,
       SettleAttemptKept, KeptPreserves
  <1>9. CASE \/ ReadCompleted(s) \/ LateRelease(s) \/ LateSettleItem(s) \/ CompleteAttempt(s)
             \/ SettleItem(s) \/ SettleRelease(s) \/ Verify(s) \/ ReadForRetry(s)
             \/ RetryReady(s) \/ QueueRetry(s) \/ FinishWakeup(s)
    BY <1>9, ReadCompletedKept, LateReleaseKept, LateSettleItemKept, CompleteAttemptKept,
       SettleItemKept, SettleReleaseKept, VerifyKept, ReadForRetryKept, RetryReadyKept,
       QueueRetryKept, FinishWakeupKept, KeptPreserves
  <1> QED BY <1>1, <1>2, <1>3, <1>4, <1>5, <1>6, <1>7, <1>8, <1>9 DEF Execute

\* Every statement of a recovery pass keeps the invariant.
LEMMA RecoverPreserves ==
  ASSUME Inv, NEW s \in Worker, Recover(s)
  PROVE  Inv'
  BY LoseAttemptKept, LoseReleaseKept, RecoverRetryKept, RecoverReadyKept, RecoverCompletedKept,
     RecoverFailKept, RecoverCancelKept, RecoverReleaseKept, KeptPreserves DEF Recover

\* Every step, of a worker, of recovery or from outside, keeps the invariant.
THEOREM NextInv == Inv /\ [Next]_vars => Inv'
  <1> SUFFICES ASSUME Inv, [Next]_vars PROVE Inv'
    OBVIOUS
  <1>1. ASSUME NEW s \in Worker, Execute(s) \/ Recover(s) \/ Disturb(s) PROVE Inv'
    BY <1>1, ExecutePreserves, RecoverPreserves, DisturbKept, KeptPreserves
  <1>2. ASSUME NEW k \in Slot, Leases(k) PROVE Inv'
    BY <1>2, LeasesKept, KeptPreserves
  <1>3. ASSUME NEW a \in Attempt, Operate(a) PROVE Inv'
    BY <1>3, OperateKept, KeptPreserves
  <1>4. ASSUME NEW w \in WorkItem, DecideApproval(w) PROVE Inv'
    BY <1>4, DecideApprovalKept, KeptPreserves
  <1>5. CASE UNCHANGED vars
    BY <1>5, UnchangedKept, KeptPreserves DEF vars, Kept
  <1> QED BY <1>1, <1>2, <1>3, <1>4, <1>5 DEF Next

\* The invariant holds in every reachable state of every instance.
THEOREM InvHolds == Spec => []Inv
  <1>1. Init => Inv
    BY InitInv
  <1>2. Inv /\ [Next]_vars => Inv'
    BY NextInv
  <1> QED BY <1>1, <1>2, PTL DEF Spec

\* Rows, records and marks keep their types: what a worker remembers is fit for
\* the statement it executes next, whoever else has written since.
THEOREM TypeCorrect == Spec => []TypeOK
  <1>1. Inv => TypeOK
    BY DEF Inv
  <1> QED BY <1>1, InvHolds, PTL

\* dispatchWorkItem's way back never deletes the attempt a work item names.
THEOREM ClaimantAlwaysExists == Spec => []ClaimantExists
  <1>1. Inv => ClaimantExists
    BY DEF Inv
  <1> QED BY <1>1, InvHolds, PTL

\* No scheduler slot is held by an attempt that was deleted.
THEOREM NoSlotOrphaned == Spec => []NoOrphanSlot
  <1>1. Inv => NoOrphanSlot
    BY DEF Inv
  <1> QED BY <1>1, InvHolds, PTL

\* What the way back of dispatchWorkItem deletes is named by no work item and by no lock.
THEOREM NothingDanglesEver == Spec => []NothingDangles
  <1>1. Inv => NothingDangles
    BY DEF Inv, NothingDangles
  <1> QED BY <1>1, InvHolds, PTL

\* The CLI of an attempt is run by one worker at a time, duplicates of its
\* wakeup, suspended workers and recovery notwithstanding.
THEOREM OneCliAlways == Spec => []OneCliPerAttempt
  <1>1. Inv => OneCliPerAttempt
    BY DEF Inv
  <1> QED BY <1>1, InvHolds, PTL

=============================================================================
