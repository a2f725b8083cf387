-------------------------- MODULE MCWorkExecution --------------------------
(***************************************************************************)
(* Instances of WorkExecution: one work item that needs two slots in the   *)
(* order of acquireSchedulerSlots (its organization, then its repository). *)
(***************************************************************************)
EXTENDS WorkExecution, TLC

CONSTANTS w1, org, repo

MCNeeds == [w \in WorkItem |-> <<org, repo>>]
OneSlot == [w \in WorkItem |-> <<org>>]
Ungated == [w \in WorkItem |-> {}]
Gated == [w \in WorkItem |-> {"verification", "approval"}]
Approved == [w \in WorkItem |-> {"approval"}]

\* Bounds of the two-worker instance: no operator request, no foreign slot
\* holder, no shutdown, no exhausted budget; one worker suspended and one on its
\* second try at a time.
TwoWorkerBound ==
  /\ \A a \in Attempt : /\ ~ attempt[a].cancel /\ ~ attempt[a].interrupt
                        /\ attempt[a].status # "cancelled"
  /\ \A k \in Slot : slot[k] # Other
  /\ \A w \in WorkItem : item[w].status # "blocked"
  /\ \A s \in Worker : ~ worker[s].stop /\ worker[s].ctx # "budget"
  /\ Cardinality(stalled) <= 1
  /\ Cardinality({s \in Worker : worker[s].tries > 1}) <= 1

\* The instance for liveness leaves out what only changes which way a worker
\* ends: shutdowns, interrupts, foreign slot holders and approvals.
LiveNext ==
  \/ \E s \in Worker : Execute(s) \/ Recover(s) \/ Crash(s) \/ Stall(s) \/ Resume(s)
  \/ \E k \in Slot : ReconcileExpiredLock(k)
  \/ \E a \in Attempt : CancelQueued(a) \/ RequestCancel(a) \/ BeginCancelling(a)
LiveInstance == Init /\ [][LiveNext]_vars /\ Fairness

Symmetry == Permutations(Worker) \cup Permutations(Attempt)

=============================================================================
