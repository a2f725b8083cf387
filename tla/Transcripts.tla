------------------------------ MODULE Transcripts ------------------------------
(***************************************************************************)
(* The transcript of a session in telemetry: backfills of several          *)
(* processes that read the session's events and write logs, a summary and  *)
(* messages one after the other, the lines and the summary that the        *)
(* session's own run emits, and deletions.                                 *)
(***************************************************************************)
EXTENDS Integers, FiniteSets

CONSTANTS
  Shown,      \* which events of the session have a role in a transcript, in their order
  Process,    \* backfills
  Status,     \* what a run may report
  None

VARIABLES
  events,     \* rows of session_events of the session: their numbers are 1 .. events
  logs,       \* rows of telemetry_logs: [event, by]
  summary,    \* row of telemetry_sessions: [count, status], or None
  messages,   \* rows of telemetry_session_messages: [seq, event]
  backfill,   \* [pc, read]
  detail      \* what a reader of the session was shown: the messages, or None

vars == <<events, logs, summary, messages, backfill, detail>>

Event == DOMAIN Shown
ShownUpTo(n) == {e \in 1 .. n : Shown[e]}

TypeOK ==
  /\ events \in {0} \cup Event
  /\ logs \subseteq [event : 1 .. events, by : {"run", "backfill"}]
  /\ summary = None \/ summary \in [count : 0 .. Cardinality(Event), status : Status \cup {"backfilled"}]
  /\ messages \subseteq [seq : 0 .. Cardinality(Event), event : 1 .. events]
  /\ backfill \in [Process -> [pc : {"idle", "batch", "summary", "messages", "done"}, read : SUBSET Event]]

Init ==
  /\ events = 0 /\ logs = {} /\ summary = None /\ messages = {} /\ detail = None
  /\ backfill = [p \in Process |-> [pc |-> "idle", read |-> {}]]

-----------------------------------------------------------------------------
(* The run of the session.                                                 *)

\* Its line is stored, and offered to telemetry, which may fail; the key of that log is not the
\* key a backfill gives to the same event.
RecordEvent(emitted) ==
  /\ events + 1 \in Event /\ events' = events + 1
  /\ logs' = IF emitted THEN logs \cup {[event |-> events + 1, by |-> "run"]} ELSE logs
  /\ UNCHANGED <<summary, messages, backfill, detail>>

\* upsertSessionSummary keeps no number of messages but the last one written.
Summary(count, status) == summary' = [count |-> count, status |-> status]

EmitSessionProjection(status) ==
  /\ Summary(0, status) /\ UNCHANGED <<events, logs, messages, backfill, detail>>

-----------------------------------------------------------------------------
(* backfillFromControlPlane.                                               *)

ReadEventsMutant == {e \in 1 .. events : [event |-> e, by |-> "backfill"] \notin logs}
ReadEvents == 1 .. events

BeginBackfill(p) ==
  /\ backfill[p].pc = "idle"
  /\ backfill' = [backfill EXCEPT ![p] = [pc |-> "batch", read |-> ReadEvents]]
  /\ UNCHANGED <<events, logs, summary, messages, detail>>

\* In one transaction; a log that is there is left.
InsertLogs(p) ==
  /\ backfill[p].pc = "batch"
  /\ logs' = logs \cup [event : backfill[p].read, by : {"backfill"}]
  /\ backfill' = [backfill EXCEPT ![p].pc = IF backfill[p].read = {} THEN "done" ELSE "summary"]
  /\ UNCHANGED <<events, summary, messages, detail>>

\* projectTranscript: the events with a role, counted from nought.
Numbered(read) ==
  {[seq |-> Cardinality({d \in read : Shown[d] /\ d < e}), event |-> e] : e \in {d \in read : Shown[d]}}

UpsertSummary(p) ==
  /\ backfill[p].pc = "summary"
  /\ Summary(Cardinality(Numbered(backfill[p].read)), "backfilled")
  /\ backfill' = [backfill EXCEPT ![p].pc = "messages"]
  /\ UNCHANGED <<events, logs, messages, detail>>

\* A number that is taken keeps its message.
InsertMessages(p) ==
  /\ backfill[p].pc = "messages"
  /\ messages' = messages \cup {m \in Numbered(backfill[p].read) : \A k \in messages : k.seq # m.seq}
  /\ backfill' = [backfill EXCEPT ![p].pc = "done"]
  /\ UNCHANGED <<events, logs, summary, detail>>

\* A session that fails is counted and passed over; a process may die; the next start reads again.
Stop(p) ==
  /\ backfill[p].pc # "idle"
  /\ backfill' = [backfill EXCEPT ![p] = [pc |-> "idle", read |-> {}]]
  /\ UNCHANGED <<events, logs, summary, messages, detail>>

-----------------------------------------------------------------------------
(* Deletion and reading.                                                   *)

\* deleteInRange with its scopes: the messages go with the summary, of which there may be none.
DeleteInRange(ofLogs, ofSessions) ==
  /\ logs' = IF ofLogs THEN {} ELSE logs
  /\ summary' = IF ofSessions THEN None ELSE summary
  /\ messages' = IF ofSessions THEN {} ELSE messages
  /\ UNCHANGED <<events, backfill, detail>>

GetSessionDetail ==
  /\ detail' = IF summary = None THEN None ELSE messages
  /\ UNCHANGED <<events, logs, summary, messages, backfill>>

-----------------------------------------------------------------------------
Next ==
  \/ \E emitted \in BOOLEAN : RecordEvent(emitted)
  \/ \E status \in Status : EmitSessionProjection(status)
  \/ \E p \in Process : BeginBackfill(p) \/ InsertLogs(p) \/ UpsertSummary(p) \/ InsertMessages(p) \/ Stop(p)
  \/ \E ofLogs, ofSessions \in BOOLEAN : DeleteInRange(ofLogs, ofSessions)
  \/ GetSessionDetail
Spec == Init /\ [][Next]_vars

-----------------------------------------------------------------------------
(* Properties                                                              *)

\* Backfills that read the session at different times, beside its run and deletions, agree: the
\* n-th message of the transcript is the n-th event that is shown, and none is missing before it.
TranscriptFaithful ==
  /\ \A m \in messages : Shown[m.event] /\ m.seq = Cardinality(ShownUpTo(m.event - 1))
  /\ \A m \in messages : \A n \in 0 .. m.seq : \E k \in messages : k.seq = n
=============================================================================
