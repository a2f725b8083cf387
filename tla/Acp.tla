--------------------------------- MODULE Acp ---------------------------------
(***************************************************************************)
(* Runs of agents over the Agent Client Protocol, in one process: the      *)
(* choice between the protocol and the command line, the pool of warm      *)
(* runtimes with its eviction, the session of a runtime, the turn with its *)
(* timeout and its cancellations, and the way back after an error.         *)
(* A runtime is named by the run that created it, its session with it.     *)
(***************************************************************************)
EXTENDS FiniteSets

CONSTANTS
  Run, Nobody,
  Key, KeyOf,     \* sessionKey: the agent, its directory and its configuration
  AskOf           \* what a run asks for and where it is run: a record of Asks

VARIABLES
  warm,     \* the pool: [runtime, idle, handle] of a key
  open,     \* the runtimes whose session the agent keeps
  active,   \* ACTIVE_ACP_RUNS: the runtime a cancellation of a key reaches
  run       \* the runs

vars == <<warm, open, active, run>>

Asks == [engine : {"auto", "acp", "cli"}, boundary : {"none", "local", "uncontrolled", "remote"},
         ready : BOOLEAN, warm : BOOLEAN, resume : BOOLEAN]

Empty == [runtime |-> Nobody, idle |-> FALSE, handle |-> Nobody]
NotStarted == [pc |-> "idle", todo |-> {}, evicts |-> Nobody, runtime |-> Nobody, handle |-> FALSE,
               aborted |-> FALSE, timedOut |-> FALSE, clear |-> FALSE, status |-> "none",
               result |-> "none"]

TypeOK ==
  /\ warm \in [Key -> [runtime : Run \cup {Nobody}, idle : BOOLEAN, handle : Run \cup {Nobody}]]
  /\ open \subseteq Run /\ active \in [Key -> Run \cup {Nobody}]
  /\ \A r \in Run :
       /\ run[r].pc \in {"idle", "evict", "dropIdle", "create", "ensure", "register", "turn", "end",
                         "drop", "log", "error", "dropError", "done", "cli"}
       /\ run[r].todo \subseteq Key /\ run[r].runtime \in Run \cup {Nobody}
       /\ run[r].status \in {"none", "completed", "cancelled", "failed"}
       /\ run[r].result \in {"none", "ok", "failed"}

Init ==
  /\ warm = [k \in Key |-> Empty] /\ open = {} /\ active = [k \in Key |-> Nobody]
  /\ run = [r \in Run |-> NotStarted]

Ask(r) == AskOf[r]
Pooled(k) == warm[k] # Empty
At(r, pc) == run[r].pc = pc
Set(r, fields) == run' = [run EXCEPT ![r] = [f \in DOMAIN @ |-> IF f \in DOMAIN fields THEN fields[f] ELSE @[f]]]

\* resultForError, whatever the family of the error.
Failure == [pc |-> "done", result |-> "failed"]

\* resolveAcpEngine: the command line where it is asked for, and without being asked where the
\* boundary or the installation cannot carry the protocol.
Engine(r) ==
  IF \/ Ask(r).engine = "cli"
     \/ Ask(r).engine = "auto" /\ (Ask(r).boundary \in {"uncontrolled", "remote"} \/ ~Ask(r).ready)
  THEN "cli" ELSE "acp"

-----------------------------------------------------------------------------
(* The runtime of a run.                                                   *)

Execute(r) ==
  /\ At(r, "idle")
  /\ IF Engine(r) = "cli" THEN Set(r, [pc |-> "cli"])
     ELSE IF Ask(r).boundary \in {"uncontrolled", "remote"} \/ ~Ask(r).ready
          THEN Set(r, Failure)
          ELSE Set(r, [pc |-> "evict", todo |-> IF Ask(r).warm THEN Key ELSE {}])
  /\ UNCHANGED <<warm, open, active>>

\* Every idle entry, the run's own one too, is closed, whoever uses its session ...
EvictIdle(r, k) ==
  /\ At(r, "evict") /\ k \in run[r].todo
  /\ IF Pooled(k) /\ warm[k].idle
     THEN /\ open' = open \ {warm[k].handle}
          /\ Set(r, [pc |-> "dropIdle", todo |-> run[r].todo \ {k}, evicts |-> k])
     ELSE Set(r, [todo |-> run[r].todo \ {k}]) /\ UNCHANGED open
  /\ UNCHANGED <<warm, active>>

\* ... and then the entry its key has by now is forgotten.
DropIdle(r) ==
  /\ At(r, "dropIdle") /\ warm' = [warm EXCEPT ![run[r].evicts] = Empty]
  /\ Set(r, [pc |-> "evict", evicts |-> Nobody])
  /\ UNCHANGED <<open, active>>

FindRuntime(r) ==
  /\ At(r, "evict") /\ run[r].todo = {}
  /\ IF Ask(r).warm /\ Pooled(KeyOf[r])
     THEN Set(r, [pc |-> "ensure", runtime |-> warm[KeyOf[r]].runtime])
     ELSE Set(r, [pc |-> "create"])
  /\ UNCHANGED <<warm, open, active>>

\* A run that found none replaces the runtime another one pooled meanwhile.
CreateRuntime(r) ==
  /\ At(r, "create")
  /\ \/ /\ Set(r, [pc |-> "ensure", runtime |-> r])
        /\ warm' = IF Ask(r).warm
                   THEN [warm EXCEPT ![KeyOf[r]] = [runtime |-> r, idle |-> FALSE, handle |-> Nobody]]
                   ELSE warm
     \/ Set(r, Failure) /\ UNCHANGED warm
  /\ UNCHANGED <<open, active>>

\* A session that cannot be resumed is started afresh, once.
EnsureSession(r) ==
  /\ At(r, "ensure")
  /\ \/ open' = open \cup {run[r].runtime} /\ Set(r, [pc |-> "register", handle |-> TRUE])
     \/ /\ IF Ask(r).resume /\ ~run[r].clear THEN Set(r, [clear |-> TRUE])
           ELSE Set(r, [pc |-> "error"])
        /\ UNCHANGED open
  /\ UNCHANGED <<warm, active>>

\* The settings of the session may be refused; an entry that was evicted since is missed.
Register(r) ==
  /\ At(r, "register")
  /\ LET k == KeyOf[r] IN
     \/ /\ Ask(r).warm => Pooled(k)
        /\ warm' = IF Ask(r).warm THEN [warm EXCEPT ![k].idle = FALSE, ![k].handle = run[r].runtime]
                   ELSE warm
        /\ active' = [active EXCEPT ![k] = run[r].runtime]
        /\ Set(r, [pc |-> "turn"])
     \/ Set(r, [pc |-> "error"]) /\ UNCHANGED <<warm, active>>
  /\ UNCHANGED open

-----------------------------------------------------------------------------
(* The turn.                                                               *)

TimeOut(r) ==
  /\ At(r, "turn") /\ ~run[r].timedOut /\ Set(r, [timedOut |-> TRUE, aborted |-> TRUE])
  /\ UNCHANGED <<warm, open, active>>

Abort(r) ==
  /\ run[r].pc \notin {"idle", "done", "cli"} /\ ~run[r].aborted /\ Set(r, [aborted |-> TRUE])
  /\ UNCHANGED <<warm, open, active>>

\* cancelAcpSession: the turn of whichever runtime is registered.
Cancel(k) ==
  /\ active[k] # Nobody
  /\ run' = [r \in Run |-> IF At(r, "turn") /\ run[r].runtime = active[k]
                           THEN [run[r] EXCEPT !.aborted = TRUE] ELSE run[r]]
  /\ UNCHANGED <<warm, open, active>>

\* What an agent answers: a turn completes in an open session only, an aborted one if it was
\* faster; the stream of its events may break as well.
EndTurn(r, status) ==
  /\ At(r, "turn")
  /\ status = "completed" => run[r].runtime \in open
  /\ status = "cancelled" => run[r].aborted
  /\ Set(r, [pc |-> "end", status |-> status])
  /\ UNCHANGED <<warm, open, active>>
BreakTurn(r) == At(r, "turn") /\ Set(r, [pc |-> "error"]) /\ UNCHANGED <<warm, open, active>>

UnsuccessfulMutant(r) == run[r].timedOut \/ run[r].status = "failed"
Unsuccessful(r) == run[r].timedOut \/ run[r].status # "completed"

\* A runtime is kept warm after a success only.
EndRun(r) ==
  /\ At(r, "end")
  /\ open' = IF ~Ask(r).warm \/ Unsuccessful(r) THEN open \ {run[r].runtime} ELSE open
  /\ Set(r, [pc |-> "drop"])
  /\ UNCHANGED <<warm, active>>

Forget(r) == active' = [active EXCEPT ![KeyOf[r]] = Nobody]

Drop(r) ==
  /\ At(r, "drop") /\ Forget(r)
  /\ warm' = IF ~Ask(r).warm \/ Unsuccessful(r) THEN [warm EXCEPT ![KeyOf[r]] = Empty] ELSE warm
  /\ Set(r, [pc |-> "log"])
  /\ UNCHANGED open

\* The result is logged; when that fails the run goes the way of an error.
LogResult(r) ==
  /\ At(r, "log")
  /\ \/ Set(r, [pc |-> "done", result |-> IF run[r].timedOut \/ run[r].status # "completed"
                                          THEN "failed" ELSE "ok"])
     \/ Set(r, [pc |-> "error"])
  /\ UNCHANGED <<warm, open, active>>

CloseAfterError(r) ==
  /\ At(r, "error") /\ open' = IF run[r].handle THEN open \ {run[r].runtime} ELSE open
  /\ Set(r, [pc |-> "dropError"])
  /\ UNCHANGED <<warm, active>>

DropAfterError(r) ==
  /\ At(r, "dropError")
  /\ IF run[r].handle THEN Forget(r) ELSE UNCHANGED active
  /\ warm' = [warm EXCEPT ![KeyOf[r]] = Empty]
  /\ Set(r, Failure)
  /\ UNCHANGED open

\* The entry was used longer ago than a run allows.
Idle(k) ==
  /\ Pooled(k) /\ ~warm[k].idle /\ warm' = [warm EXCEPT ![k].idle = TRUE]
  /\ UNCHANGED <<open, active, run>>

-----------------------------------------------------------------------------
Step(r) ==
  \/ Execute(r) \/ (\E k \in Key : EvictIdle(r, k)) \/ DropIdle(r) \/ FindRuntime(r)
  \/ CreateRuntime(r) \/ EnsureSession(r) \/ Register(r) \/ TimeOut(r) \/ Abort(r)
  \/ (\E status \in {"completed", "cancelled", "failed"} : EndTurn(r, status)) \/ BreakTurn(r)
  \/ EndRun(r) \/ Drop(r) \/ LogResult(r) \/ CloseAfterError(r) \/ DropAfterError(r)
Next == (\E r \in Run : Step(r)) \/ \E k \in Key : Idle(k) \/ Cancel(k)
Spec == Init /\ [][Next]_vars

-----------------------------------------------------------------------------
(* Properties                                                              *)

\* The pool hands on no runtime in which a run failed, was cancelled or timed out, however runs
\* of one key overlap and evict one another.
FailedRuntimesDropped ==
  \A r \in Run, k \in Key :
    run[r].result = "failed" /\ run[r].runtime # Nobody => warm[k].runtime # run[r].runtime
=============================================================================
