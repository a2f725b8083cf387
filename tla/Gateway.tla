------------------------------- MODULE Gateway -------------------------------
(***************************************************************************)
(* A run that a driver hands to a service elsewhere: OpenClaw over a       *)
(* WebSocket, Hermes over HTTP with a stream of events and, when that      *)
(* fails, polling, Cursor by polling.  The service works on by itself;     *)
(* requests, answers and frames may be lost, the deadline may pass and the *)
(* caller may cancel at any moment.                                        *)
(***************************************************************************)
EXTENDS Integers, Sequences

CONSTANTS
  Kind,        \* drivers: of "openclaw", "hermes", "cursor"
  MaxFrames    \* bound: frames of the event stream on their way

VARIABLES
  kind,      \* the driver of the call
  call,      \* [pc, state: the last status heard, late: its deadline passed, aborted: its signal is
             \* raised, by: by its caller, named: the service said how to find the run]
  service,   \* the run at the service
  frames,    \* hermes: events of the stream that were not read
  answer,    \* what the driver returns: [given, exit, timedOut, says]
  lost       \* history: the request to stop the run was lost

vars == <<kind, call, service, frames, answer, lost>>

Ended == {"completed", "failed", "cancelled"}
Heard == Ended \cup {"running", "timeout", "unknown"}
Open == {"start", "challenge", "hello", "agent", "accept", "wait", "stream", "poll", "fetch"}

TypeOK ==
  /\ kind \in Kind /\ service \in {"none", "posted", "running"} \cup Ended /\ lost \in BOOLEAN
  /\ call.pc \in Open \cup {"finish", "stop", "done"} /\ call.state \in Heard
  /\ {call.late, call.aborted, call.by, call.named} \subseteq BOOLEAN
  /\ Len(frames) <= MaxFrames
  /\ answer.exit \in {0, 1} /\ answer.says \in Heard /\ answer.timedOut \in BOOLEAN

Init ==
  /\ kind \in Kind /\ service = "none" /\ frames = <<>> /\ lost = FALSE
  /\ call = [pc |-> "start", state |-> "unknown", late |-> FALSE, aborted |-> FALSE, by |-> FALSE, named |-> FALSE]
  /\ answer = [given |-> FALSE, exit |-> 1, timedOut |-> FALSE, says |-> "unknown"]

At(pc) == call.pc = pc
Move(pc) == call' = [call EXCEPT !.pc = pc]

-----------------------------------------------------------------------------
(* The service, which is external.                                         *)

Accept ==
  /\ service = "posted" /\ service' = "running"
  /\ UNCHANGED <<kind, call, frames, answer, lost>>

\* An event of the stream: a piece of text, the end of the run, or one that is damaged on its way.
Streams == At("stream") /\ Len(frames) < MaxFrames
Report(frame) == frames' = IF Streams THEN Append(frames, frame) ELSE frames

Progress ==
  /\ service = "running" /\ Streams /\ Report("delta")
  /\ UNCHANGED <<kind, call, service, answer, lost>>

EndRun(outcome, damaged) ==
  /\ service = "running" /\ service' = outcome
  /\ Report(IF damaged THEN "damaged" ELSE outcome)
  /\ UNCHANGED <<kind, call, answer, lost>>

\* What an answer of the service may say of the run: its status, or none.
Status == {service, "unknown"}
Answers == service \notin {"none", "posted"} /\ ~call.aborted

-----------------------------------------------------------------------------
(* The ways out.                                                           *)

\* errorResult, which says nothing of the run; Hermes is told to stop it if the signal is raised.
End == IF kind = "hermes" /\ call.named /\ call.aborted THEN "stop" ELSE "done"
Error ==
  /\ Move(End) /\ answer' = [given |-> End = "done", exit |-> 1, timedOut |-> FALSE, says |-> "unknown"]
  /\ UNCHANGED <<kind, service, frames, lost>>

\* The result by the last status that was heard.
Failed == call.state \in {"failed", "cancelled", "timeout"}
Exit == IF Failed \/ (kind = "hermes" /\ call.aborted) THEN 1 ELSE 0
TimedOut == CASE kind = "openclaw" -> call.state = "timeout"
              [] kind = "hermes" -> call.late /\ ~Failed
              [] kind = "cursor" -> call.aborted /\ ~call.by
FinishMutant ==
  /\ At("finish") /\ Move(End)
  /\ answer' = [given |-> End = "done", exit |-> Exit, timedOut |-> call.aborted /\ ~call.by, says |-> call.state]
  /\ UNCHANGED <<kind, service, frames, lost>>
Finish ==
  /\ At("finish") /\ Move(End)
  /\ answer' = [given |-> End = "done", exit |-> Exit, timedOut |-> TimedOut, says |-> call.state]
  /\ UNCHANGED <<kind, service, frames, lost>>

\* POST .../stop, whose failure is ignored.
Stop(arrives) ==
  /\ At("stop") /\ Move("done") /\ answer' = [answer EXCEPT !.given = TRUE]
  /\ service' = IF arrives /\ service = "running" THEN "cancelled" ELSE service
  /\ lost' = (lost \/ ~arrives)
  /\ UNCHANGED <<kind, frames>>

-----------------------------------------------------------------------------
(* Time and the caller.                                                    *)

\* The deadline of Hermes counts from the answer to its post, and its timer fires a little later;
\* OpenClaw waits for each frame as long.
Deadline ==
  /\ call.pc \in Open /\ ~call.late /\ kind # "openclaw" /\ (kind = "hermes" => call.named)
  /\ call' = [call EXCEPT !.late = TRUE]
  /\ UNCHANGED <<kind, service, frames, answer, lost>>
TimerFires ==
  /\ call.pc \in Open /\ call.late /\ ~call.aborted /\ call' = [call EXCEPT !.aborted = TRUE]
  /\ UNCHANGED <<kind, service, frames, answer, lost>>
RequestTimesOut == kind = "openclaw" /\ call.pc \in Open /\ Error

\* The signal of the caller: OpenClaw's closes the socket, and whoever waits for a frame goes on waiting.
Cancel ==
  /\ call.pc \notin {"done"} /\ ~call.by
  /\ call' = [call EXCEPT !.aborted = TRUE, !.by = TRUE]
  /\ UNCHANGED <<kind, service, frames, answer, lost>>

\* A request that is broken off, by the network or by the signal.
Breaks == call.pc \in {"start", "accept", "fetch"} /\ (kind = "openclaw" => At("start")) /\ Error

-----------------------------------------------------------------------------
(* OpenClaw: connect, challenge, hello, agent, agent.wait.                 *)

OpenSocket ==
  /\ kind = "openclaw" /\ At("start") /\ ~call.aborted /\ Move("challenge")
  /\ UNCHANGED <<kind, service, frames, answer, lost>>
ReceiveChallenge ==
  /\ At("challenge") /\ ~call.aborted /\ Move("hello")
  /\ UNCHANGED <<kind, service, frames, answer, lost>>
Hello(ok) ==
  /\ At("hello") /\ ~call.aborted
  /\ IF ok THEN Move("agent") /\ UNCHANGED <<kind, service, frames, answer, lost>> ELSE Error

\* The request for the run, of any driver.
Post ==
  /\ At(IF kind = "openclaw" THEN "agent" ELSE "start") /\ Move("accept")
  /\ service' = IF call.aborted THEN service ELSE "posted"
  /\ UNCHANGED <<kind, frames, answer, lost>>
Refuse ==
  /\ At("accept") /\ service = "posted" /\ ~call.aborted /\ service' = "none"
  /\ Move("done") /\ answer' = [answer EXCEPT !.given = TRUE]
  /\ UNCHANGED <<kind, frames, lost>>

\* Only a completed run need not be waited for.
Accepted ==
  /\ kind = "openclaw" /\ At("accept") /\ Answers
  /\ \E heard \in Status :
       call' = [call EXCEPT !.pc = IF heard = "completed" THEN "finish" ELSE "wait", !.state = heard, !.named = TRUE]
  /\ UNCHANGED <<kind, service, frames, answer, lost>>

\* The service waits as well, for as long; an answer without a status counts as a success.
Waited ==
  /\ At("wait") /\ Answers
  /\ \E heard \in IF service = "running" THEN {"timeout"} ELSE Status :
       call' = [call EXCEPT !.pc = "finish", !.state = heard]
  /\ UNCHANGED <<kind, service, frames, answer, lost>>

-----------------------------------------------------------------------------
(* Hermes: a stream of events, then polling.                               *)

Started ==
  /\ kind = "hermes" /\ At("accept") /\ Answers
  /\ \E heard \in Status :
       call' = [call EXCEPT !.pc = IF heard \in Ended THEN "finish" ELSE "stream", !.state = heard, !.named = TRUE]
  /\ UNCHANGED <<kind, service, frames, answer, lost>>
\* An answer without the id of the run, which nobody can stop.
NoRunId == kind = "hermes" /\ At("accept") /\ Answers /\ Error

ReadFrame ==
  /\ At("stream") /\ frames # <<>> /\ ~call.aborted /\ frames' = Tail(frames)
  /\ call' = IF Head(frames) \in Ended THEN [call EXCEPT !.pc = "finish", !.state = Head(frames)] ELSE call
  /\ UNCHANGED <<kind, service, answer, lost>>

\* The stream cannot be opened, ends, breaks or is given up.
EndStream ==
  /\ At("stream") /\ Move("poll") /\ frames' = <<>>
  /\ UNCHANGED <<kind, service, answer, lost>>

Over == CASE kind = "hermes" -> call.state \in Ended \/ call.late \/ call.aborted
          [] kind = "cursor" -> call.state \in Ended \cup {"unknown"}
Check ==
  /\ At("poll") /\ Move(IF Over THEN "finish" ELSE "fetch")
  /\ UNCHANGED <<kind, service, frames, answer, lost>>

\* A page of an error carries no status.
Fetch ==
  /\ At("fetch") /\ Answers
  /\ \E heard \in Status : call' = [call EXCEPT !.pc = "poll", !.state = heard]
  /\ UNCHANGED <<kind, service, frames, answer, lost>>

\* Cursor: without an address to ask, the first answer is the result.
Created(named) ==
  /\ kind = "cursor" /\ At("accept") /\ Answers
  /\ \E heard \in Status :
       call' = [call EXCEPT !.pc = IF named THEN "poll" ELSE "finish", !.state = heard, !.named = named]
  /\ UNCHANGED <<kind, service, frames, answer, lost>>

-----------------------------------------------------------------------------
Next ==
  \/ Accept \/ Progress \/ \E outcome \in Ended, damaged \in BOOLEAN : EndRun(outcome, damaged)
  \/ Finish \/ \E arrives \in BOOLEAN : Stop(arrives)
  \/ Deadline \/ TimerFires \/ RequestTimesOut \/ Cancel \/ Breaks
  \/ OpenSocket \/ ReceiveChallenge \/ Post \/ Refuse \/ Accepted \/ Waited
  \/ \E ok \in BOOLEAN : Hello(ok) \/ Created(ok)
  \/ Started \/ NoRunId \/ ReadFrame \/ EndStream \/ Check \/ Fetch
Spec == Init /\ [][Next]_vars

-----------------------------------------------------------------------------
(* Properties                                                              *)

\* OpenClaw and Cursor take an answer without a status for a success, Cursor also a first answer
\* that names no address.
Blind == kind # "hermes" /\ (call.state = "unknown" \/ ~call.named)

\* However frames, polls, the deadline and the caller's signal fall: a success is reported only of
\* a run that completed, another outcome only of one that ended so, and a call of Hermes that was
\* cut short leaves no run behind it unless the request to stop it was lost.
AnswerIsTrue ==
  answer.given =>
    /\ answer.exit = 0 /\ ~answer.timedOut => service = "completed" \/ Blind
    /\ answer.says \in Ended => service = answer.says
    /\ kind = "hermes" /\ call.named /\ call.aborted => service # "running" \/ lost
=============================================================================
