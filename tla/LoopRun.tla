-------------------------------- MODULE LoopRun --------------------------------
(***************************************************************************)
(* One loop: the scheduler's due occurrences of its interval, a durable run *)
(* for each, the decisions of the run (LoopRunner) and the execution of the *)
(* work items they create.  Ticks of one or several workers overlap, die   *)
(* between any two steps, and catch up with the occurrences they missed.   *)
(***************************************************************************)
EXTENDS Integers, Sequences

CONSTANTS
  Worker,      \* ticks in progress
  Found,       \* the refs a discovery returns, in order
  Last,        \* bound: intervals that pass
  Cap,         \* catchUpCap of the loop
  Soft, Hard   \* runs of a day from which the loop only reports, and is paused

VARIABLES
  policy,   \* the loop's policies: enqueue missed occurrences, always enqueue
  now,      \* the interval the clock is in
  paused,   \* loop_controls
  spent,    \* runs reserved or settled in the budget of the day
  run,      \* workflow_runs of the loop by trigger, with their items and outputs
  newest,   \* the interval the most recently created run stands for, -1 without a run
  worker,   \* where a tick stands
  jumped    \* history: whether there was a run by hand, or a first run of all

vars == <<policy, now, paused, spent, run, newest, worker, jumped>>

Hand == 0   \* the trigger of a wakeup; the others are the numbers of intervals
Trigger == 0 .. Last
Ref == {Found[n] : n \in DOMAIN Found}
RunStatus == {"none", "queued", "running", "succeeded", "failed", "cancelled"}
ItemStatus == {"none", "open", "running", "awaiting_approval", "completed", "failed"}
AtRest == [pc |-> "idle", due |-> <<>>, left |-> <<>>, mode |-> "ok"]

TypeOK ==
  /\ policy \in [catchUp : BOOLEAN, always : BOOLEAN] /\ now \in 1 .. Last
  /\ paused \in BOOLEAN /\ spent \in 0 .. Hard
  /\ run \in [Trigger -> [status : RunStatus, item : [Ref -> ItemStatus], outputs : SUBSET Ref]]
  /\ newest \in -1 .. Last /\ jumped \in BOOLEAN
  /\ \A w \in Worker :
       /\ worker[w].pc \in {"idle", "find", "create", "check", "view", "trip", "decide", "execute", "work"}
       /\ worker[w].mode \in {"ok", "report_only", "kill_switch"}

Init ==
  /\ policy \in [catchUp : BOOLEAN, always : BOOLEAN] /\ now = 1 /\ paused = FALSE /\ spent = 0
  /\ run = [t \in Trigger |-> [status |-> "none", item |-> [r \in Ref |-> "none"], outputs |-> {}]]
  /\ newest \in {-1, 0} /\ worker = [w \in Worker |-> AtRest] /\ jumped = FALSE

At(w, pc) == worker[w].pc = pc
Current(w) == Head(worker[w].due)
Goto(w, pc) == worker' = [worker EXCEPT ![w].pc = pc]
OfLoop == <<policy, now>>

-----------------------------------------------------------------------------
(* Scheduler.dueOccurrences.                                               *)

Active == \E t \in Trigger : run[t].status \in {"queued", "running"}
Least(a, b) == IF a < b THEN a ELSE b

\* The interval of the newest run is read from its trigger; a run by hand has none and
\* counts for the interval it was created in.
NewestMutant(t) == now
Newest(t) == IF t = Hand THEN now ELSE t

\* Those after the newest run, oldest first; without a run, or when missed ones are
\* skipped, the current one if the tick crosses its boundary.
Occurrences ==
  IF policy.catchUp /\ newest >= 0
  THEN [n \in 1 .. Least(Cap, now - newest) |-> newest + n]
  ELSE <<now>>

DueOccurrences(w) ==
  /\ At(w, "idle") /\ ~paused /\ (policy.always \/ ~Active) /\ Occurrences # <<>>
  /\ worker' = [worker EXCEPT ![w] = [AtRest EXCEPT !.pc = "find", !.due = Occurrences]]
  /\ UNCHANGED <<OfLoop, paused, spent, run, newest, jumped>>

\* A claimed wakeup of the loop runs it whatever else is active.
ExecuteWakeup(w) ==
  /\ At(w, "idle")
  /\ worker' = [worker EXCEPT ![w] = [AtRest EXCEPT !.pc = "find", !.due = <<Hand>>]]
  /\ UNCHANGED <<OfLoop, paused, spent, run, newest, jumped>>

-----------------------------------------------------------------------------
(* LoopRunner.run.                                                         *)

\* A run that exists is replayed: its rows are reported, nothing is decided again.
FindRun(w) ==
  /\ At(w, "find")
  /\ Goto(w, IF run[Current(w)].status = "none" THEN "create" ELSE "execute")
  /\ UNCHANGED <<OfLoop, paused, spent, run, newest, jumped>>

\* The key is unique: a tick that comes second fails.
CreateRun(w) ==
  LET t == Current(w) IN
  /\ At(w, "create")
  /\ IF run[t].status # "none"
     THEN worker' = [worker EXCEPT ![w] = AtRest] /\ UNCHANGED <<run, newest, jumped>>
     ELSE /\ run' = [run EXCEPT ![t].status = "queued"]
          /\ newest' = Newest(t)
          /\ jumped' = (jumped \/ t = Hand \/ newest = -1)
          /\ Goto(w, "check")
  /\ UNCHANGED <<OfLoop, paused, spent>>

CheckPaused(w) ==
  /\ At(w, "check")
  /\ run' = [run EXCEPT ![Current(w)].status = IF paused THEN "cancelled" ELSE @]
  /\ Goto(w, IF paused THEN "execute" ELSE "view")
  /\ UNCHANGED <<OfLoop, paused, spent, newest, jumped>>

DailyBudgetMode ==
  IF spent >= Hard THEN "kill_switch" ELSE IF spent >= Soft THEN "report_only" ELSE "ok"

View(w) ==
  /\ At(w, "view")
  /\ worker' = [worker EXCEPT ![w].mode = DailyBudgetMode, ![w].left = Found,
                              ![w].pc = IF DailyBudgetMode = "kill_switch" THEN "trip" ELSE "decide"]
  /\ UNCHANGED <<OfLoop, paused, spent, run, newest, jumped>>

\* The daily budget is used up: the loop is paused, this run goes on without acting.
Trip(w) ==
  /\ At(w, "trip") /\ paused' = TRUE /\ Goto(w, "decide")
  /\ UNCHANGED <<OfLoop, spent, run, newest, jumped>>

\* To act is to create a work item, within the budget; to report or escalate an output.
Decide(w, decision) ==
  LET t == Current(w)
      ref == Head(worker[w].left)
  IN
  /\ At(w, "decide") /\ worker[w].left # <<>> /\ decision \in {"act", "report", "noop"}
  /\ run' = CASE decision = "act" /\ worker[w].mode = "ok" ->
                   [run EXCEPT ![t].item[ref] = IF @ = "none" THEN "open" ELSE @]
              [] decision = "noop" -> run
              [] OTHER -> [run EXCEPT ![t].outputs = @ \union {ref}]
  /\ worker' = [worker EXCEPT ![w].left = Tail(@)]
  /\ UNCHANGED <<OfLoop, paused, spent, newest, jumped>>

\* Discovery, a decision or a write fails: so does the run, and with it the tick.
FailRun(w) ==
  /\ At(w, "decide")
  /\ run' = [run EXCEPT ![Current(w)].status = "failed"]
  /\ worker' = [worker EXCEPT ![w] = AtRest]
  /\ UNCHANGED <<OfLoop, paused, spent, newest, jumped>>

EndRun(w) ==
  LET t == Current(w) IN
  /\ At(w, "decide") /\ worker[w].left = <<>>
  /\ run' = [run EXCEPT ![t].status =
       IF \A r \in Ref : run[t].item[r] = "none" THEN "succeeded" ELSE @]
  /\ Goto(w, "execute")
  /\ UNCHANGED <<OfLoop, paused, spent, newest, jumped>>

-----------------------------------------------------------------------------
(* executeWorkItems: the items of the run one after the other.             *)

\* reconcileWorkflowRun.
Reconciled(r) ==
  LET used == {i \in Ref : r.item[i] # "none"} IN
  IF \/ r.status \notin {"queued", "running"} \/ used = {}
     \/ \E i \in used : r.item[i] \in {"open", "running", "awaiting_approval"} THEN r
  ELSE [r EXCEPT !.status = IF \A i \in used : r.item[i] = "completed" THEN "succeeded" ELSE "failed"]

Busy == \E t \in Trigger, r \in Ref : run[t].item[r] = "running"

\* One item of the organization at a time; without budget it is blocked.
Dispatch(w, r) ==
  LET t == Current(w)
      next == [run[t] EXCEPT !.item[r] = "running",
                             !.status = IF @ = "queued" THEN "running" ELSE @]
  IN
  /\ At(w, "execute") /\ run[t].item[r] = "open" /\ ~Busy
  /\ IF spent < Hard
     THEN /\ run' = [run EXCEPT ![t] = next] /\ spent' = spent + 1
          /\ worker' = [worker EXCEPT ![w].pc = "work", ![w].left = <<r>>]
     ELSE /\ run' = [run EXCEPT ![t] = Reconciled([@ EXCEPT !.item[r] = "failed"])]
          /\ UNCHANGED <<spent, worker>>
  /\ UNCHANGED <<OfLoop, paused, newest, jumped>>

EndItem(w, outcome) ==
  LET t == Current(w)
      r == Head(worker[w].left)
  IN
  /\ At(w, "work") /\ outcome \in {"completed", "failed", "awaiting_approval"}
  /\ run' = [run EXCEPT ![t] = Reconciled([@ EXCEPT !.item[r] =
       IF @ = "running" THEN outcome ELSE @])]
  /\ worker' = [worker EXCEPT ![w].pc = "execute", ![w].left = <<>>]
  /\ UNCHANGED <<OfLoop, paused, spent, newest, jumped>>

\* Nothing is left to dispatch: the run is reconciled and the next occurrence has its turn.
NextOccurrence(w) ==
  LET t == Current(w) IN
  /\ At(w, "execute") /\ (Busy \/ \A r \in Ref : run[t].item[r] # "open")
  /\ run' = [run EXCEPT ![t] = Reconciled(@)]
  /\ worker' = [worker EXCEPT ![w] =
       IF Tail(@.due) = <<>> THEN AtRest ELSE [AtRest EXCEPT !.pc = "find", !.due = Tail(worker[w].due)]]
  /\ UNCHANGED <<OfLoop, paused, spent, newest, jumped>>

-----------------------------------------------------------------------------
(* Everybody else.                                                         *)

\* An approval settles what awaits it.
Settle(t, r, outcome) ==
  /\ run[t].item[r] = "awaiting_approval" /\ outcome \in {"completed", "failed"}
  /\ run' = [run EXCEPT ![t] = Reconciled([@ EXCEPT !.item[r] = outcome])]
  /\ UNCHANGED <<OfLoop, paused, spent, newest, worker, jumped>>

\* The attempt of a dead worker is given up.
Recover(t, r) ==
  /\ run[t].item[r] = "running"
  /\ \A w \in Worker : ~(At(w, "work") /\ Current(w) = t /\ Head(worker[w].left) = r)
  /\ run' = [run EXCEPT ![t] = Reconciled([@ EXCEPT !.item[r] = "failed"])]
  /\ UNCHANGED <<OfLoop, paused, spent, newest, worker, jumped>>

SetPaused(value) ==
  /\ paused # value /\ paused' = value
  /\ UNCHANGED <<OfLoop, spent, run, newest, worker, jumped>>

Pass ==
  /\ now < Last /\ now' = now + 1
  /\ UNCHANGED <<policy, paused, spent, run, newest, worker, jumped>>

Crash(w) ==
  /\ ~At(w, "idle") /\ worker' = [worker EXCEPT ![w] = AtRest]
  /\ UNCHANGED <<OfLoop, paused, spent, run, newest, jumped>>

-----------------------------------------------------------------------------
Step(w) ==
  \/ DueOccurrences(w) \/ ExecuteWakeup(w) \/ FindRun(w) \/ CreateRun(w) \/ CheckPaused(w)
  \/ View(w) \/ Trip(w) \/ FailRun(w) \/ EndRun(w) \/ NextOccurrence(w) \/ Crash(w)
  \/ \E decision \in {"act", "report", "noop"} : Decide(w, decision)
  \/ \E r \in Ref : Dispatch(w, r)
  \/ \E outcome \in ItemStatus : EndItem(w, outcome)
Others ==
  \/ Pass \/ SetPaused(TRUE) \/ SetPaused(FALSE)
  \/ \E t \in Trigger, r \in Ref : Recover(t, r) \/ \E outcome \in ItemStatus : Settle(t, r, outcome)
Next == Others \/ \E w \in Worker : Step(w)
Spec == Init /\ [][Next]_vars

-----------------------------------------------------------------------------
(* Properties                                                              *)

\* A loop that has run and enqueues what it missed loses no occurrence: every interval up
\* to its newest run has a run of its own, however late, in whatever order and by however
\* many ticks the runs are created - unless the loop was run by hand in between.
NoOccurrenceLost ==
  policy.catchUp /\ ~jumped => \A t \in 1 .. newest : run[t].status # "none"
=============================================================================
