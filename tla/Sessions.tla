------------------------------- MODULE Sessions -------------------------------
(***************************************************************************)
(* Sessions: one run of an agent's adapter for each call of execute, whose *)
(* row and numbered events are shared with other runs of the same durable  *)
(* session, with compactions and audit events, and with whoever pauses,    *)
(* resumes, stops or cancels it, from this process or another one.         *)
(***************************************************************************)
EXTENDS Integers, FiniteSets

CONSTANTS
  Process, Request, ProcessOf,   \* calls of execute, and the process of each
  Session, SessionOf,            \* the row a call runs as
  WakeupOf,                      \* the wakeup a call is made for
  Caller, Nobody,                \* calls of cancel, compact and recordEvent
  MaxAttempts,                   \* retry.transientMaxAttempts + 1
  MaxLines                       \* bound: lines an adapter logs

VARIABLES
  row,      \* rows of sessions: [status, wakeup]
  events,   \* rows of session_events: [seq, by]
  live,     \* runningSessions of a process: the call registered for a session
  run,      \* the calls of execute
  caller    \* the other calls

vars == <<row, events, live, run, caller>>

Status == {"queued", "running", "paused_for_question", "succeeded", "failed", "cancelled", "timed_out"}
Absent == [status |-> "absent", wakeup |-> Nobody]
NotStarted == [pc |-> "idle", found |-> FALSE, seq |-> 0, lines |-> 0, lost |-> FALSE,
               aborted |-> FALSE, attempt |-> 0, status |-> "none", again |-> FALSE]
AtRest == [pc |-> "idle", session |-> Nobody, process |-> Nobody, seq |-> 0]

TypeOK ==
  /\ row \in [Session -> [status : Status, wakeup : {WakeupOf[r] : r \in Request}] \cup {Absent}]
  /\ \A s \in Session : \A e \in events[s] : e.seq \in Nat \ {0} /\ e.by \in Request \cup Caller
  /\ live \in [Process -> [Session -> Request \cup {Nobody}]]
  /\ \A r \in Request :
       /\ run[r].pc \in {"idle", "write", "register", "number", "run", "record", "backoff", "fail", "leave",
                         "done", "threw", "dead"}
       /\ run[r].status \in Status \cup {"none"} /\ run[r].attempt \in 0 .. MaxAttempts
  /\ \A c \in Caller : caller[c].pc \in {"idle", "cancel", "append", "done"}

Init ==
  /\ row \in [Session -> {Absent} \cup [status : {"queued"}, wakeup : {WakeupOf[r] : r \in Request}]]
  /\ events = [s \in Session |-> {}]
  /\ live = [p \in Process |-> [s \in Session |-> Nobody]]
  /\ run = [r \in Request |-> NotStarted] /\ caller = [c \in Caller |-> AtRest]

Exists(s) == row[s] # Absent
Write(s, status) == row' = [row EXCEPT ![s].status = IF Exists(s) THEN status ELSE @]
Set(r, fields) == run' = [run EXCEPT ![r] = [f \in DOMAIN @ |-> IF f \in DOMAIN fields THEN fields[f] ELSE @[f]]]
Taken(s) == {e.seq : e \in events[s]}
\* getNextSeq: the last number taken.
LastSeq(s) == IF events[s] = {} THEN 0 ELSE CHOOSE n \in Taken(s) : \A m \in Taken(s) : m <= n

-----------------------------------------------------------------------------
(* execute, up to the registration of the run.                             *)

FindRow(r) ==
  /\ run[r].pc = "idle"
  /\ LET s == SessionOf[r] IN
     IF Exists(s) /\ row[s].wakeup # WakeupOf[r]
     THEN Set(r, [pc |-> "threw"])
     ELSE Set(r, [pc |-> "write", found |-> Exists(s)])
  /\ UNCHANGED <<row, events, live, caller>>

\* The row that was found is taken over as it is now; the insert of a row that another call
\* inserted meanwhile is refused.
WriteRow(r) ==
  /\ run[r].pc = "write"
  /\ IF ~run[r].found /\ Exists(SessionOf[r])
     THEN Set(r, [pc |-> "threw"]) /\ UNCHANGED row
     ELSE /\ row' = [row EXCEPT ![SessionOf[r]] = [status |-> "running", wakeup |-> WakeupOf[r]]]
          /\ Set(r, [pc |-> "register"])
  /\ UNCHANGED <<events, live, caller>>

\* A second run of the session takes the first one's place ...
Register(r) ==
  /\ run[r].pc = "register"
  /\ live' = [live EXCEPT ![ProcessOf[r]][SessionOf[r]] = r]
  /\ Set(r, [pc |-> "number"])
  /\ UNCHANGED <<row, events, caller>>

\* ... and numbers from what is stored by then.
ReadSeq(r) ==
  /\ run[r].pc = "number"
  /\ Set(r, [pc |-> "run", seq |-> LastSeq(SessionOf[r]), attempt |-> 1])
  /\ UNCHANGED <<row, events, live, caller>>

-----------------------------------------------------------------------------
(* The attempts of a run.                                                  *)

\* recordEvent: a number is used once in a session; a line that cannot be stored is remembered.
StoreLineMutant(r, stored) ==
  LET n == run[r].seq + 1  s == SessionOf[r]  kept == stored /\ n \notin Taken(s) IN
  /\ events' = [events EXCEPT ![s] = IF kept THEN @ \cup {[seq |-> n, by |-> r]} ELSE @]
  /\ Set(r, [seq |-> n, lines |-> run[r].lines + 1, lost |-> run[r].lost \/ ~stored])
StoreLine(r, stored) ==
  LET n == run[r].seq + 1  s == SessionOf[r]  kept == stored /\ n \notin Taken(s) IN
  /\ events' = [events EXCEPT ![s] = IF kept THEN @ \cup {[seq |-> n, by |-> r]} ELSE @]
  /\ Set(r, [seq |-> n, lines |-> run[r].lines + 1, lost |-> run[r].lost \/ ~kept])

Emit(r, stored) ==
  /\ run[r].pc = "run" /\ run[r].lines < MaxLines
  /\ StoreLine(r, stored)
  /\ UNCHANGED <<row, live, caller>>

\* classifyErrorFamily: whether an error is transient; checkBudgetViolation: whether a run took more
\* tokens, money or time than it was given.
Classified == BOOLEAN
Violated == BOOLEAN

\* The adapter's outcome, as cancellation, lost events and the budget change it.
StatusOf(r, outcome, overBudget) ==
  IF run[r].lost \/ overBudget THEN "failed" ELSE IF run[r].aborted THEN "cancelled" ELSE outcome

Return(r, outcome, transient, overBudget) ==
  /\ run[r].pc = "run"
  /\ LET status == StatusOf(r, outcome, overBudget) IN
     Set(r, [pc |-> "record", status |-> status,
             again |-> status = "failed" /\ transient /\ ~overBudget /\ run[r].attempt < MaxAttempts])
  /\ UNCHANGED <<row, events, live, caller>>

\* Whatever the row says by now; the run stays registered when the call returns from here.
Record(r) ==
  /\ run[r].pc = "record" /\ Write(SessionOf[r], run[r].status)
  /\ Set(r, [pc |-> IF run[r].again THEN "backoff" ELSE "done"])
  /\ UNCHANGED <<events, live, caller>>

Retry(r) ==
  /\ run[r].pc = "backoff" /\ Set(r, [pc |-> "run", attempt |-> run[r].attempt + 1])
  /\ UNCHANGED <<row, events, live, caller>>

\* The adapter or the update of the row throws: the loop of attempts is inside the try, so a
\* transient error leaves it as well, after its backoff.
Throw(r, transient) ==
  /\ run[r].pc \in {"run", "record"}
  /\ Set(r, [pc |-> IF transient /\ run[r].attempt < MaxAttempts THEN "leave" ELSE "fail"])
  /\ UNCHANGED <<row, events, live, caller>>

RecordFailure(r) ==
  /\ run[r].pc = "fail" /\ Write(SessionOf[r], "failed")
  /\ Set(r, [pc |-> "done", status |-> "failed"])
  /\ UNCHANGED <<events, live, caller>>

\* With the result of an attempt before, or an error; the row is left as it is.
Leave(r) ==
  /\ run[r].pc = "leave"
  /\ live' = [live EXCEPT ![ProcessOf[r]][SessionOf[r]] = Nobody]
  /\ Set(r, [pc |-> IF run[r].status = "none" THEN "threw" ELSE "done"])
  /\ UNCHANGED <<row, events, caller>>

Die(p) ==
  /\ run' = [r \in Request |-> IF ProcessOf[r] = p /\ run[r].pc \notin {"idle", "done", "threw"}
                               THEN [run[r] EXCEPT !.pc = "dead"] ELSE run[r]]
  /\ caller' = [c \in Caller |-> IF caller[c].process = p THEN [caller[c] EXCEPT !.pc = "done"]
                                 ELSE caller[c]]
  /\ live' = [live EXCEPT ![p] = [s \in Session |-> Nobody]]
  /\ UNCHANGED <<row, events>>

-----------------------------------------------------------------------------
(* Calls of others.                                                        *)

\* The run this process knows is aborted ...
Cancel(c, p, s) ==
  /\ caller[c].pc = "idle" /\ live[p][s] # Nobody
  /\ run' = [run EXCEPT ![live[p][s]].aborted = TRUE]
  /\ caller' = [caller EXCEPT ![c] = [pc |-> "cancel", session |-> s, process |-> p, seq |-> 0]]
  /\ UNCHANGED <<row, events, live>>

\* ... and, when its adapter was asked to cancel, whichever is registered is forgotten.
EndCancel(c) ==
  /\ caller[c].pc = "cancel"
  /\ live' = [live EXCEPT ![caller[c].process][caller[c].session] = Nobody]
  /\ Write(caller[c].session, "cancelled")
  /\ caller' = [caller EXCEPT ![c].pc = "done"]
  /\ UNCHANGED <<events, run>>

\* stop, and cancel in a process that does not run the session.
Stop(s) == Exists(s) /\ Write(s, "cancelled") /\ UNCHANGED <<events, live, run, caller>>
Pause(s) == Exists(s) /\ Write(s, "paused_for_question") /\ UNCHANGED <<events, live, run, caller>>
Resume(s) == Exists(s) /\ Write(s, "running") /\ UNCHANGED <<events, live, run, caller>>

\* compact and recordEvent number from what is stored, too.
NumberEvent(c, p, s) ==
  /\ caller[c].pc = "idle" /\ Exists(s)
  /\ caller' = [caller EXCEPT ![c] = [pc |-> "append", session |-> s, process |-> p,
                                      seq |-> LastSeq(s) + 1]]
  /\ UNCHANGED <<row, events, live, run>>

AppendEvent(c) ==
  /\ caller[c].pc = "append"
  /\ LET s == caller[c].session  n == caller[c].seq IN
     events' = [events EXCEPT ![s] = IF n \in Taken(s) THEN @ ELSE @ \cup {[seq |-> n, by |-> c]}]
  /\ caller' = [caller EXCEPT ![c].pc = "done"]
  /\ UNCHANGED <<row, live, run>>

-----------------------------------------------------------------------------
Outcome == {"succeeded", "failed", "timed_out"}
Execute(r) ==
  \/ FindRow(r) \/ WriteRow(r) \/ Register(r) \/ ReadSeq(r) \/ (\E stored \in BOOLEAN : Emit(r, stored))
  \/ \E outcome \in Outcome, transient \in Classified, overBudget \in Violated :
       Return(r, outcome, transient, overBudget)
  \/ Record(r) \/ Retry(r) \/ (\E transient \in Classified : Throw(r, transient))
  \/ RecordFailure(r) \/ Leave(r)
Others(c) ==
  \/ \E p \in Process, s \in Session : Cancel(c, p, s) \/ NumberEvent(c, p, s)
  \/ EndCancel(c) \/ AppendEvent(c)
Next == \/ \E r \in Request : Execute(r)
        \/ \E c \in Caller : Others(c)
        \/ \E s \in Session : Stop(s) \/ Pause(s) \/ Resume(s)
        \/ \E p \in Process : Die(p)
Spec == Init /\ [][Next]_vars

-----------------------------------------------------------------------------
(* Properties                                                              *)

\* A run that is reported as succeeded left its whole transcript, each line under a number of
\* its own, whoever wrote events of the session beside it.
EvidenceComplete ==
  /\ \A s \in Session : \A d, e \in events[s] : d.seq = e.seq => d = e
  /\ \A r \in Request :
       run[r].pc = "done" /\ run[r].status = "succeeded" =>
         Cardinality({e \in events[SessionOf[r]] : e.by = r}) = run[r].lines
=============================================================================
