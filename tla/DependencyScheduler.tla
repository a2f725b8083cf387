-------------------------- MODULE DependencyScheduler --------------------------
(***************************************************************************)
(* The items of a workflow and their dependencies (DependencyScheduler).   *)
(* A tick reads the statuses once, decides from that reading which items   *)
(* are blocked or ready, writes that over whatever the items are by then,  *)
(* and dispatches what is ready within the limits and the budget.  The     *)
(* ticks of a worker and of the API's schedule route may overlap.          *)
(***************************************************************************)
EXTENDS Integers, FiniteSets, Sequences

CONSTANTS
  Item, Order,  \* the items, and the sequence in which the store lists them
  Ticker,       \* ticks in progress: a worker's, a request's
  Adder,        \* requests that add a dependency
  Offered,      \* the pairs <<item, dependency>> requests ask for
  Deadlined,    \* items with a deadline
  Concurrency,  \* the smallest limit on running attempts
  RunLimit,     \* runs the budget of the goal allows
  MaxTicks      \* bound: ticks

VARIABLES
  item,       \* status of a work item
  assigned,   \* items that belong to the workflow
  needs,      \* rows of execution_work_item_dependencies
  overdue,    \* items whose deadline has passed
  later,      \* items whose next attempt has to wait (retryAfter)
  runs,       \* budget reservations that are reserved or settled
  workflow,   \* status of the workflow run
  ticker,     \* where a tick stands, and what it read
  adder,      \* the pair an adder has checked
  completed,  \* history: items that were completed
  begun,      \* history: items that were taken up
  known       \* history: ticks begun, and the dependencies there were before the first

vars == <<item, assigned, needs, overdue, later, runs, workflow, ticker, adder, completed, begun,
          known>>
kept == <<completed, begun, known>>

ItemStatus == {"proposed", "ready", "claimed", "in_progress", "awaiting_verification",
               "completed", "failed", "blocked"}
Ended == {"completed", "failed", "blocked"}
Active == {"claimed", "in_progress"}
WorkflowStatus == {"queued", "running", "succeeded", "failed"}
NoPair == <<>>
AtRest == [pc |-> "idle"]

TypeOK ==
  /\ item \in [Item -> ItemStatus] /\ assigned \subseteq Item /\ needs \subseteq Item \X Item
  /\ overdue \subseteq Deadlined /\ later \subseteq Item /\ runs \in 0 .. RunLimit /\ workflow \in WorkflowStatus
  /\ \A t \in Ticker : ticker[t].pc \in {"idle", "link", "judge", "count", "dispatch", "mark"}
  /\ \A a \in Adder : adder[a] = NoPair \/ adder[a] \in Item \X Item
  /\ completed \subseteq Item /\ begun \subseteq Item
  /\ known \in [ticks : 0 .. MaxTicks, needs : SUBSET (Item \X Item)]

Init ==
  /\ item = [i \in Item |-> "proposed"] /\ assigned = {} /\ needs = {} /\ overdue = {} /\ later = {}
  /\ runs = 0 /\ workflow = "queued"
  /\ ticker = [t \in Ticker |-> AtRest] /\ adder = [a \in Adder |-> NoPair]
  /\ completed = {} /\ begun = {} /\ known = [ticks |-> 0, needs |-> {}]

-----------------------------------------------------------------------------
(* addWorkItemDependency.                                                  *)

\* y is in every set that contains x and is closed under the dependencies.
Reaches(x, y) ==
  \A S \in SUBSET Item : (x \in S /\ \A p \in needs : p[1] \in S => p[2] \in S) => y \in S

\* All edges are read and searched ...
CheckDependency(a, p) ==
  /\ adder[a] = NoPair /\ p[1] # p[2] /\ ~Reaches(p[2], p[1])
  /\ adder' = [adder EXCEPT ![a] = p]
  /\ UNCHANGED <<item, assigned, needs, overdue, later, runs, workflow, ticker, kept>>

\* ... before the row is inserted.
InsertDependency(a) ==
  /\ adder[a] # NoPair
  /\ needs' = needs \union {adder[a]}
  /\ adder' = [adder EXCEPT ![a] = NoPair]
  /\ UNCHANGED <<item, assigned, overdue, later, runs, workflow, ticker, kept>>

-----------------------------------------------------------------------------
(* tick.                                                                   *)

At(t, pc) == ticker[t].pc = pc

\* The items of the workflow and those of no workflow, their statuses and the time.
BeginTick(t) ==
  /\ At(t, "idle") /\ known.ticks < MaxTicks
  /\ ticker' = [ticker EXCEPT ![t] =
       [pc |-> "link", status |-> item, late |-> overdue, left |-> Order, needs |-> {}]]
  /\ known' = [ticks |-> known.ticks + 1,
               needs |-> IF known.ticks = 0 THEN needs ELSE known.needs]
  /\ UNCHANGED <<item, assigned, needs, overdue, later, runs, workflow, adder, completed, begun>>

\* What belongs to nobody is assigned; the dependencies are read afterwards.
AssignAndLink(t) ==
  /\ At(t, "link")
  /\ assigned' = Item
  /\ ticker' = [ticker EXCEPT ![t].pc = "judge", ![t].needs = needs]
  /\ UNCHANGED <<item, needs, overdue, later, runs, workflow, adder, kept>>

DependsOn(t, i) == {d \in Item : <<i, d>> \in ticker[t].needs}
Seen(t, i) == ticker[t].status[i]

\* What the tick makes of an item, from what it read and decided so far.
VerdictMutant(t, i) ==
  IF Seen(t, i) \in Ended \union Active \union {"awaiting_verification"} THEN "leave"
  ELSE IF i \in ticker[t].late \/ \E d \in DependsOn(t, i) : Seen(t, d) \in {"failed", "blocked"}
       THEN "blocked"
  ELSE IF Seen(t, i) = "proposed" /\ (\A d \in DependsOn(t, i) : Seen(t, d) # "proposed")
       THEN "ready" ELSE "leave"
Verdict(t, i) ==
  IF Seen(t, i) \in Ended \union Active \union {"awaiting_verification"} THEN "leave"
  ELSE IF i \in ticker[t].late \/ \E d \in DependsOn(t, i) : Seen(t, d) \in {"failed", "blocked"}
       THEN "blocked"
  ELSE IF Seen(t, i) = "proposed" /\ (\A d \in DependsOn(t, i) : Seen(t, d) = "completed")
       THEN "ready" ELSE "leave"

\* reconcileWorkflowRun, after every status that is written by hand of the scheduler.
Reconciled(status) ==
  IF workflow \in {"succeeded", "failed"} \/ \E i \in Item : status[i] \notin Ended THEN workflow
  ELSE IF \A i \in Item : status[i] = "completed" THEN "succeeded" ELSE "failed"

Pass(t) == ticker' = [ticker EXCEPT ![t].left = Tail(@)]
Facing(t, pc) == At(t, pc) /\ ticker[t].left # <<>>

Judge(t) ==
  /\ Facing(t, "judge")
  /\ LET i == Head(ticker[t].left)
         verdict == Verdict(t, i)
     IN
     IF verdict = "leave"
     THEN Pass(t) /\ UNCHANGED <<item, workflow>>
     ELSE /\ item' = [item EXCEPT ![i] = verdict]
          /\ workflow' = Reconciled(item')
          /\ ticker' = [ticker EXCEPT ![t].left = Tail(@), ![t].status[i] = verdict]
  /\ UNCHANGED <<assigned, needs, overdue, later, runs, adder, kept>>

Running == {i \in Item : item[i] \in Active}

CountActive(t) ==
  /\ At(t, "judge") /\ ticker[t].left = <<>>
  /\ ticker' = [ticker EXCEPT ![t] = [pc |-> "dispatch", left |-> Order,
                                      running |-> Cardinality(Running), dispatched |-> FALSE]]
  /\ UNCHANGED <<item, assigned, needs, overdue, later, runs, workflow, adder, kept>>

\* An item is read again: it must be ready and due, and the tick below its limits.
Ready(t) ==
  LET i == Head(ticker[t].left) IN
  item[i] = "ready" /\ i \notin later /\ ticker[t].running < Concurrency

Skip(t) ==
  /\ Facing(t, "dispatch") /\ ~Ready(t) /\ Pass(t)
  /\ UNCHANGED <<item, assigned, needs, overdue, later, runs, workflow, adder, kept>>

\* dispatchWorkItem: a slot, then the budget, then the claim. Without a slot nothing
\* happens; without budget the item is blocked.
Dispatch(t) ==
  /\ Facing(t, "dispatch") /\ Ready(t)
  /\ LET i == Head(ticker[t].left) IN
     \/ /\ Cardinality(Running) >= Concurrency
        /\ Pass(t) /\ UNCHANGED <<item, runs, workflow, begun>>
     \/ /\ Cardinality(Running) < Concurrency /\ runs = RunLimit
        /\ item' = [item EXCEPT ![i] = "blocked"] /\ workflow' = Reconciled(item')
        /\ Pass(t) /\ UNCHANGED <<runs, begun>>
     \/ /\ Cardinality(Running) < Concurrency /\ runs < RunLimit
        /\ item' = [item EXCEPT ![i] = "claimed"] /\ runs' = runs + 1
        /\ begun' = begun \union {i}
        /\ ticker' = [ticker EXCEPT ![t].left = Tail(@), ![t].running = @ + 1,
                                    ![t].dispatched = TRUE]
        /\ UNCHANGED workflow
  /\ UNCHANGED <<assigned, needs, overdue, later, adder, completed, known>>

EndTick(t) ==
  /\ At(t, "dispatch") /\ ticker[t].left = <<>>
  /\ ticker' = [ticker EXCEPT ![t] = AtRest]
  /\ workflow' = IF ticker[t].dispatched /\ workflow = "queued" THEN "running" ELSE workflow
  /\ UNCHANGED <<item, assigned, needs, overdue, later, runs, adder, kept>>

CrashTick(t) ==
  /\ ~At(t, "idle")
  /\ ticker' = [ticker EXCEPT ![t] = AtRest]
  /\ UNCHANGED <<item, assigned, needs, overdue, later, runs, workflow, adder, kept>>

-----------------------------------------------------------------------------
(* What the executors make of the items, and time.                         *)

StartAttempt(i) ==
  /\ item[i] = "claimed" /\ item' = [item EXCEPT ![i] = "in_progress"]
  /\ UNCHANGED <<assigned, needs, overdue, later, runs, workflow, ticker, adder, kept>>

\* Completed, to be verified, failed, or ready again for another attempt; the
\* reservation of an attempt that ended or was lost keeps counting as a run.
EndAttempt(i, outcome) ==
  /\ item[i] = "in_progress" /\ outcome \in {"completed", "awaiting_verification", "failed", "ready"}
  /\ item' = [item EXCEPT ![i] = outcome]
  /\ completed' = IF outcome = "completed" THEN completed \union {i} ELSE completed
  /\ later' = IF outcome = "ready" THEN later \union {i} ELSE later
  /\ workflow' = Reconciled(item')
  /\ UNCHANGED <<assigned, needs, overdue, runs, ticker, adder, begun, known>>

\* A verdict settles what awaits it.
Settle(i, outcome) ==
  /\ item[i] = "awaiting_verification" /\ outcome \in {"completed", "failed"}
  /\ item' = [item EXCEPT ![i] = outcome]
  /\ completed' = IF outcome = "completed" THEN completed \union {i} ELSE completed
  /\ workflow' = Reconciled(item')
  /\ UNCHANGED <<assigned, needs, overdue, later, runs, ticker, adder, begun, known>>

DeadlinePasses(i) ==
  /\ i \in Deadlined \ overdue /\ overdue' = overdue \union {i}
  /\ UNCHANGED <<item, assigned, needs, later, runs, workflow, ticker, adder, kept>>

RetryDue(i) ==
  /\ i \in later /\ later' = later \ {i}
  /\ UNCHANGED <<item, assigned, needs, overdue, runs, workflow, ticker, adder, kept>>

-----------------------------------------------------------------------------
Add(a) == InsertDependency(a) \/ \E p \in Offered : CheckDependency(a, p)
Tick(t) == \/ BeginTick(t) \/ AssignAndLink(t) \/ Judge(t) \/ CountActive(t) \/ Skip(t)
           \/ Dispatch(t) \/ EndTick(t) \/ CrashTick(t)
Execute(i) == StartAttempt(i) \/ \E outcome \in ItemStatus : EndAttempt(i, outcome) \/ Settle(i, outcome)
Next == \/ \E a \in Adder : Add(a)
        \/ \E t \in Ticker : Tick(t)
        \/ \E i \in Item : Execute(i) \/ DeadlinePasses(i) \/ RetryDue(i)
Spec == Init /\ [][Next]_vars

-----------------------------------------------------------------------------
(* Properties                                                              *)

\* However ticks overlap, die and write what they read long before, an item is taken
\* up only after every item it depends on has been completed, as far as the dependency
\* was there before the workflow's first tick.
DependenciesFirst == \A p \in known.needs : p[1] \in begun => p[2] \in completed
=============================================================================
