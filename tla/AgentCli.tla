------------------------------- MODULE AgentCli -------------------------------
(***************************************************************************)
(* The runs of agents' command lines by the drivers of workers: opencode's, *)
(* one after another in a process (serialize) and under a lock file between *)
(* processes (acquireLock), and those of the other drivers, through        *)
(* runProcess.  Each is streamed, may be timed out, aborted or cancelled,   *)
(* and ends with a result that lists the company actions its CLI took.      *)
(***************************************************************************)
EXTENDS Integers, Sequences

CONSTANTS
  Process,    \* worker processes
  Call,       \* calls of execute
  ProcessOf,  \* the process that makes a call
  Driver,     \* its driver and runtime: "opencode", "managed" (opencode in a runtime), "codex"
  Session,    \* CLI sessions
  SessionOf,  \* the session a call continues
  Id,         \* ids of company_action tool calls
  Nobody      \* no process, no call

VARIABLES
  alive,     \* the processes that run
  lockFile,  \* who the lock file names: Nobody when there is none, "stale" for a process that died
  lockLine,  \* lockChain of a process: the turns to come
  cliChain,  \* cliChain of a process: the CLI runs to come, the current one first
  sessions,  \* runningSessions: the call whose child a session is registered with
  call       \* the calls

vars == <<alive, lockFile, lockLine, cliChain, sessions, call>>

Range(s) == {s[n] : n \in DOMAIN s}
AtRest == [pc |-> "idle", turn |-> "none", stop |-> "none", timedOut |-> FALSE, dispatched |-> {},
           taken |-> <<>>, error |-> FALSE, buffer |-> <<>>, code |-> "none", completed |-> {}]

TypeOK ==
  /\ alive \in [Process -> BOOLEAN] /\ lockFile \in Process \cup {Nobody, "stale"}
  /\ \A p \in Process : Range(lockLine[p]) \cup Range(cliChain[p]) \subseteq Call
  /\ sessions \in [Session -> Call \cup {Nobody}]
  /\ \A c \in Call :
       /\ call[c].pc \in {"idle", "queued", "running", "release", "done", "threw", "lost"}
       /\ call[c].turn \in {"none", "waiting", "stealing", "held", "timeout"}
       /\ call[c].stop \in {"none", "timeout", "aborted"}
       /\ call[c].code \in {"none", "zero", "failed", "killed"}
       /\ call[c].dispatched \cup Range(call[c].taken) \cup call[c].completed \subseteq Id

Init ==
  /\ alive = [p \in Process |-> TRUE] /\ lockFile = Nobody
  /\ lockLine = [p \in Process |-> <<>>] /\ cliChain = [p \in Process |-> <<>>]
  /\ sessions = [s \in Session |-> Nobody] /\ call = [c \in Call |-> AtRest]

Opencode(c) == Driver[c] \in {"opencode", "managed"}
Own(c) == ProcessOf[c]
First(line, c) == line[Own(c)] # <<>> /\ Head(line[Own(c)]) = c
Leave(line, c) == [line EXCEPT ![Own(c)] = Tail(@)]
Set(c, fields) == call' = [call EXCEPT ![c] = [f \in DOMAIN @ |-> IF f \in DOMAIN fields THEN fields[f] ELSE @[f]]]

-----------------------------------------------------------------------------
(* acquireLock: the turns of a process follow one another; each looks at    *)
(* the file every 50 ms for at most 10 s.                                   *)

\* The caller is given the release and goes on: nothing waits for its turn.
Execute(c) ==
  /\ call[c].pc = "idle" /\ alive[Own(c)]
  /\ IF Opencode(c)
     THEN /\ Set(c, [pc |-> "queued", turn |-> "waiting"])
          /\ lockLine' = [lockLine EXCEPT ![Own(c)] = Append(@, c)]
          /\ cliChain' = [cliChain EXCEPT ![Own(c)] = Append(@, c)]
     ELSE Set(c, [pc |-> "running"]) /\ UNCHANGED <<lockLine, cliChain>>
  /\ UNCHANGED <<alive, lockFile, sessions>>

Turn(c, turn) == First(lockLine, c) /\ call[c].turn = turn

TakeLock(c) ==
  /\ Turn(c, "waiting") /\ lockFile = Nobody
  /\ lockFile' = Own(c) /\ Set(c, [turn |-> "held"]) /\ lockLine' = Leave(lockLine, c)
  /\ UNCHANGED <<alive, cliChain, sessions>>

\* The file names a process that does not run: it is to be removed.
ReadHolder(c) ==
  /\ Turn(c, "waiting") /\ lockFile = "stale"
  /\ Set(c, [turn |-> "stealing"])
  /\ UNCHANGED <<alive, lockFile, lockLine, cliChain, sessions>>

\* Another process may have replaced the file since.
Steal(c) ==
  /\ Turn(c, "stealing")
  /\ lockFile' = Nobody /\ Set(c, [turn |-> "waiting"])
  /\ UNCHANGED <<alive, lockLine, cliChain, sessions>>

LockTimeout(c) ==
  /\ Turn(c, "waiting")
  /\ Set(c, [turn |-> "timeout"]) /\ lockLine' = Leave(lockLine, c)
  /\ UNCHANGED <<alive, lockFile, cliChain, sessions>>

\* The release waits for the turn it belongs to, and throws when that timed out.
Release(c) ==
  /\ call[c].pc = "release" /\ call[c].turn \in {"held", "timeout"}
  /\ Set(c, [pc |-> IF call[c].turn = "timeout" \/ call[c].code = "none" THEN "threw" ELSE "done"])
  /\ lockFile' = IF call[c].turn = "held" /\ lockFile = Own(c) THEN Nobody ELSE lockFile
  /\ UNCHANGED <<alive, lockLine, cliChain, sessions>>

-----------------------------------------------------------------------------
(* The child of a call.                                                     *)

Spawn(c) ==
  /\ call[c].pc = "queued" /\ First(cliChain, c)
  /\ Set(c, [pc |-> "running"])
  /\ UNCHANGED <<alive, lockFile, lockLine, cliChain, sessions>>

\* The binary is missing: runOpencodeCli rejects.
SpawnError(c) ==
  /\ call[c].pc = "queued" /\ First(cliChain, c) /\ Driver[c] = "opencode"
  /\ Set(c, [pc |-> "release"]) /\ cliChain' = Leave(cliChain, c)
  /\ UNCHANGED <<alive, lockFile, lockLine, sessions>>

\* An event of a company_action: a call is dispatched when it is first heard of, and its
\* action is taken once, when the call is completed and its input holds one; an input
\* without a payload is passed over, a malformed one makes the run fail.
Handle(r, e) ==
  LET due == e.status = "completed" /\ e.id \notin Range(r.taken) IN
  [r EXCEPT !.dispatched = @ \cup {e.id},
            !.taken = IF due /\ e.input = "action" THEN Append(@, e.id) ELSE @,
            !.error = @ \/ (due /\ e.input = "malformed")]
HandleMutant(r, e) ==
  [r EXCEPT !.dispatched = @ \cup {e.id},
            !.taken = IF e.input = "action" /\ e.id \notin r.dispatched THEN Append(@, e.id) ELSE @]
HandleEvent(r, e) == Handle(r, e)

\* What the CLI did, for the properties.
Heard(r, e) ==
  [r EXCEPT !.completed = IF e.status = "completed" /\ e.input = "action" THEN @ \cup {e.id} ELSE @]

\* The CLI writes a line.  Some runtimes return its output only at the end.
Emit(c, e, streamed) ==
  /\ call[c].pc = "running" /\ Opencode(c) /\ call[c].code = "none"
  /\ streamed => call[c].buffer = <<>>
  /\ ~streamed => Driver[c] = "managed" /\ call[c].dispatched = {}
  /\ LET r == Heard(call[c], e) IN
     call' = [call EXCEPT ![c] = IF streamed THEN HandleEvent(r, e) ELSE [r EXCEPT !.buffer = Append(@, e)]]
  /\ sessions' = IF Driver[c] = "opencode" THEN [sessions EXCEPT ![SessionOf[c]] = c] ELSE sessions
  /\ UNCHANGED <<alive, lockFile, lockLine, cliChain>>

\* A child with its own timer is marked whenever that fires; runProcess keeps the first reason.
RunTimeout(c) ==
  /\ call[c].pc = "running" /\ ~call[c].timedOut
  /\ Driver[c] = "opencode" \/ call[c].stop = "none"
  /\ Set(c, [timedOut |-> TRUE, stop |-> IF call[c].stop = "none" THEN "timeout" ELSE call[c].stop])
  /\ UNCHANGED <<alive, lockFile, lockLine, cliChain, sessions>>

Signal(c) == Set(c, [stop |-> IF call[c].stop = "none" THEN "aborted" ELSE call[c].stop])

Abort(c) ==
  /\ call[c].pc = "running" /\ Signal(c)
  /\ UNCHANGED <<alive, lockFile, lockLine, cliChain, sessions>>

\* Codex is aborted when it is silent for too long; that counts as a timeout.
Inactive(c) ==
  /\ call[c].pc = "running" /\ Driver[c] = "codex"
  /\ Set(c, [timedOut |-> TRUE, stop |-> IF call[c].stop = "none" THEN "aborted" ELSE call[c].stop])
  /\ UNCHANGED <<alive, lockFile, lockLine, cliChain, sessions>>

\* Adapter.cancel sends a signal to the child of the session, if one is registered.
Cancel(s) ==
  /\ sessions[s] # Nobody /\ call[sessions[s]].pc = "running" /\ Signal(sessions[s])
  /\ UNCHANGED <<alive, lockFile, lockLine, cliChain, sessions>>

HandleAll(r, events) ==
  LET handled[n \in 0 .. Len(events)] ==
        IF n = 0 THEN r ELSE HandleEvent(handled[n - 1], events[n])
  IN handled[Len(events)]

\* What an exit is worth: runProcess has no exit code for a child it stopped, and an opencode
\* that reported an error has not succeeded.
ExitCode(c, r, exit) ==
  IF Driver[c] # "opencode" /\ r.stop # "none" THEN "killed"
  ELSE IF exit = "zero" /\ r.error THEN "failed" ELSE exit

\* The child is gone.  Its registration goes first; an unfinished last line is handled then,
\* and registers it again.
Close(c, exit, tail) ==
  /\ call[c].pc = "running" /\ Len(tail) <= 1
  /\ Opencode(c) \/ tail = <<>>
  /\ exit = "killed" => call[c].stop # "none"
  /\ LET buffered == HandleAll(call[c], call[c].buffer)
         r == IF tail = <<>> THEN buffered ELSE HandleEvent(Heard(buffered, tail[1]), tail[1]) IN
     call' = [call EXCEPT ![c] = [r EXCEPT !.code = ExitCode(c, r, exit), !.buffer = <<>>,
                                           !.pc = IF Opencode(c) THEN "release" ELSE "done"]]
  /\ cliChain' = IF Opencode(c) THEN Leave(cliChain, c) ELSE cliChain
  /\ sessions' =
       IF Driver[c] # "opencode" THEN sessions
       ELSE IF tail # <<>> THEN [sessions EXCEPT ![SessionOf[c]] = c]
       ELSE [sessions EXCEPT ![SessionOf[c]] = IF call[c].dispatched = {} THEN @ ELSE Nobody]
  /\ UNCHANGED <<alive, lockFile, lockLine>>

-----------------------------------------------------------------------------
(* The death of a process, and its replacement.                             *)

Die(p) ==
  /\ alive[p]
  /\ alive' = [alive EXCEPT ![p] = FALSE]
  /\ lockFile' = IF lockFile = p THEN "stale" ELSE lockFile
  /\ lockLine' = [lockLine EXCEPT ![p] = <<>>] /\ cliChain' = [cliChain EXCEPT ![p] = <<>>]
  /\ sessions' = [s \in Session |-> IF sessions[s] # Nobody /\ Own(sessions[s]) = p THEN Nobody ELSE sessions[s]]
  /\ call' = [c \in Call |-> IF Own(c) = p /\ call[c].pc \notin {"idle", "done", "threw"}
                             THEN [AtRest EXCEPT !.pc = "lost"] ELSE call[c]]

Restart(p) ==
  /\ ~alive[p] /\ alive' = [alive EXCEPT ![p] = TRUE]
  /\ UNCHANGED <<lockFile, lockLine, cliChain, sessions, call>>

-----------------------------------------------------------------------------
Event == [id : Id, status : {"running", "completed"}, input : {"action", "none", "malformed"}]
Lock(c) == TakeLock(c) \/ ReadHolder(c) \/ Steal(c) \/ LockTimeout(c) \/ Release(c)
Run(c) == \/ Spawn(c) \/ SpawnError(c) \/ RunTimeout(c) \/ Abort(c) \/ Inactive(c)
          \/ \E e \in Event, streamed \in BOOLEAN : Emit(c, e, streamed)
          \/ \E exit \in {"zero", "failed", "killed"} :
               Close(c, exit, <<>>) \/ \E e \in Event : Close(c, exit, <<e>>)
Next == \/ \E c \in Call : Execute(c) \/ Lock(c) \/ Run(c)
        \/ \E s \in Session : Cancel(s)
        \/ \E p \in Process : Die(p) \/ Restart(p)
Spec == Init /\ [][Next]_vars

-----------------------------------------------------------------------------
(* Properties.                                                              *)

\* The result of a run is true: it lists every company action the CLI completed exactly
\* once, in whatever events and however often it was told of them, and an agent that
\* runProcess stopped is not reported to have succeeded.
ResultIsTrue ==
  \A c \in Call : call[c].code # "none" =>
    /\ Range(call[c].taken) = call[c].completed
    /\ \A m, n \in DOMAIN call[c].taken : call[c].taken[m] = call[c].taken[n] => m = n
    /\ Driver[c] # "opencode" /\ call[c].stop # "none" => call[c].code # "zero"
=============================================================================
