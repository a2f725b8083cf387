---------------------------- MODULE RemoteTarget ----------------------------
(***************************************************************************)
(* Runs on the machines of a provider: a run creates a machine or takes up *)
(* the one its target names, copies its worktree there, runs a command,    *)
(* brings the edits home and gives the machine back.  A docker run mounts  *)
(* the worktree instead, and one over ssh uses a directory of its host.    *)
(***************************************************************************)
EXTENDS Naturals, FiniteSets

CONSTANTS Run, Box, Nobody

VARIABLES
  provider,   \* of the targets of all runs here
  box,        \* machines (or directories of the ssh host) as the provider has them
  leases,     \* activeLeases of the provider's driver
  edits,      \* whose edits there are since the last baseline
  process,    \* whose commands live on a machine
  run,        \* calls of run(target, options)
  home        \* whose edits a run's worktree received

vars == <<provider, box, leases, edits, process, run, home>>

-----------------------------------------------------------------------------
(* What differs between providers.                                         *)
(*   setup   a failure after the creation leaves the machine, or removes   *)
(*           it ("none": there is no setup)                                *)
(*   bytes   writeFile keeps the bytes of an archive (others write text)   *)
(*   pause   release for reuse pauses a machine, its processes frozen or   *)
(*           stopped; pauses or kills it; or does nothing                  *)
(*   stop    an abort or a timeout ends the command, or only the wait for  *)
(*           it; "never": neither is looked at                             *)

E2b == [setup |-> "leaves", bytes |-> FALSE, pause |-> "freezes", stop |-> "waits no more"]
Novita == [setup |-> "leaves", bytes |-> FALSE, pause |-> "freezes", stop |-> "waits no more"]
Modal == [setup |-> "leaves", bytes |-> FALSE, pause |-> "nothing", stop |-> "waits no more"]
ExeDev == [setup |-> "leaves", bytes |-> FALSE, pause |-> "nothing", stop |-> "waits no more"]
Cloudflare == [setup |-> "none", bytes |-> FALSE, pause |-> "nothing", stop |-> "waits no more"]
Kubernetes == [setup |-> "leaves", bytes |-> FALSE, pause |-> "nothing", stop |-> "never"]
Daytona == [setup |-> "removes", bytes |-> TRUE, pause |-> "stops", stop |-> "terminates"]
Docker == [setup |-> "removes", bytes |-> TRUE, pause |-> "nothing", stop |-> "kills"]
Ssh == [setup |-> "none", bytes |-> TRUE, pause |-> "nothing", stop |-> "waits no more"]

Driver == [e2b |-> E2b, novita |-> Novita, modal |-> Modal, exe_dev |-> ExeDev, cloudflare |-> Cloudflare,
           kubernetes |-> Kubernetes, daytona |-> Daytona, docker |-> Docker, ssh |-> Ssh]
Is(feature, value) == Driver[provider][feature] = value
Leased == provider \notin {"docker", "ssh"}

-----------------------------------------------------------------------------
Fresh == [pc |-> "idle", box |-> Nobody, dir |-> FALSE, reuse |-> FALSE, prepared |-> FALSE,
          worked |-> FALSE, alone |-> FALSE, answer |-> "none"]

TypeOK ==
  /\ provider \in DOMAIN Driver /\ leases \subseteq Box
  /\ box \in [Box -> {"none", "running", "paused", "exited", "gone"}]
  /\ edits \in [Box -> SUBSET Run] /\ process \in [Box -> SUBSET Run] /\ home \in [Run -> SUBSET Run]
  /\ run \in [Run -> [pc : {"idle", "create", "resume", "setup", "prepare", "start", "command",
                            "restore", "release", "settle", "ended"},
                      box : Box \cup {Nobody}, dir : BOOLEAN, reuse : BOOLEAN, prepared : BOOLEAN,
                      worked : BOOLEAN, alone : BOOLEAN, answer : {"none", "ok", "stopped", "error"}]]

Init ==
  /\ provider \in DOMAIN Driver
  /\ box = [b \in Box |-> "none"] /\ leases = {}
  /\ edits = [b \in Box |-> {}] /\ process = [b \in Box |-> {}]
  /\ run = [r \in Run |-> Fresh] /\ home = [r \in Run |-> {}]

At(r, pc) == run[r].pc = pc
Of(r) == run[r].box
With(r, fields) == [f \in DOMAIN Fresh |-> IF f \in DOMAIN fields THEN fields[f] ELSE run[r][f]]
Set(r, fields) == run' = [run EXCEPT ![r] = With(r, fields)]
Fail(r, pc) == Set(r, [pc |-> pc, answer |-> "error"])
Inside(b) == {r \in Run : Of(r) = b /\ ~At(r, "ended")}

\* A machine's new state, and what of its processes is left then.
Becomes(b, state) ==
  /\ box' = [box EXCEPT ![b] = IF @ = "gone" THEN "gone" ELSE state]
  /\ process' = [process EXCEPT ![b] =
       IF state = "running" \/ (state = "paused" /\ Is("pause", "freezes")) THEN @ ELSE {}]

-----------------------------------------------------------------------------
(* A machine for the run.                                                  *)

\* A lease that the target's metadata names is taken up again.
Begin(r, dir, reuse, lease) ==
  /\ At(r, "idle") /\ (~Leased => lease = Nobody /\ ~reuse) /\ (~Leased => dir)
  /\ Set(r, [pc |-> IF lease = Nobody THEN "create" ELSE "resume", box |-> lease, dir |-> dir, reuse |-> reuse])
  /\ UNCHANGED <<provider, box, leases, edits, process, home>>

Create(r, b) ==
  /\ At(r, "create") /\ box[b] = "none"
  /\ box' = [box EXCEPT ![b] = "running"] /\ Set(r, [pc |-> "setup", box |-> b])
  /\ UNCHANGED <<provider, leases, edits, process, home>>

\* The answer of a creation is an error or lost: Daytona looks for what was made and deletes it.
CreateLost(r, b) ==
  /\ At(r, "create") /\ box[b] = "none" /\ Fail(r, "ended")
  /\ \E state \in {"none", "running"} \cup (IF Is("setup", "removes") THEN {"gone"} ELSE {}) :
       box' = [box EXCEPT ![b] = state]
  /\ UNCHANGED <<provider, leases, edits, process, home>>

\* The working directory of the new machine, tools, a first status.
SetUp(r) ==
  /\ At(r, "setup") /\ Set(r, [pc |-> "prepare"])
  /\ leases' = IF Leased THEN leases \cup {Of(r)} ELSE leases
  /\ UNCHANGED <<provider, box, edits, process, home>>

SetupFails(r) ==
  /\ At(r, "setup") /\ ~Is("setup", "none") /\ Fail(r, "ended")
  /\ \E state \in {"running"} \cup (IF Is("setup", "removes") THEN {"gone"} ELSE {}) : Becomes(Of(r), state)
  /\ UNCHANGED <<provider, leases, edits, home>>

\* Whoever else is on the machine stays there.
Resume(r) ==
  LET b == Of(r) IN
  /\ At(r, "resume") /\ box[b] \in {"running", "paused"}
  /\ box' = [box EXCEPT ![b] = "running"] /\ leases' = leases \cup {b}
  /\ run' = [q \in Run |-> IF q = r THEN With(r, [pc |-> "prepare"])
                           ELSE IF q \in Inside(b) THEN [run[q] EXCEPT !.alone = FALSE] ELSE run[q]]
  /\ UNCHANGED <<provider, edits, process, home>>

ResumeFails(r) ==
  /\ At(r, "resume") /\ Fail(r, "ended")
  /\ UNCHANGED <<provider, box, leases, edits, process, home>>

-----------------------------------------------------------------------------
(* The worktree, the command and the way back.                             *)

PrepareMutant(r) ==
  LET b == Of(r) IN
  /\ At(r, "prepare")
  /\ IF run[r].dir /\ provider # "docker"
     THEN box[b] = "running" /\ Is("bytes", TRUE) /\ UNCHANGED edits
     ELSE UNCHANGED edits
  /\ Set(r, [pc |-> "start", prepared |-> run[r].dir, alone |-> Inside(b) = {r} /\ process[b] = {}])
  /\ UNCHANGED <<provider, box, leases, process, home>>

\* The directory is emptied, filled from the archive and becomes the new baseline.
Prepare(r) ==
  LET b == Of(r) IN
  /\ At(r, "prepare")
  /\ IF run[r].dir /\ provider # "docker"
     THEN box[b] = "running" /\ Is("bytes", TRUE) /\ edits' = [edits EXCEPT ![b] = {}]
     ELSE UNCHANGED edits
  /\ Set(r, [pc |-> "start", prepared |-> run[r].dir, alone |-> Inside(b) = {r} /\ process[b] = {}])
  /\ UNCHANGED <<provider, box, leases, process, home>>

\* As it always does where the archive was written as text.  Ssh copies back what there is.
PrepareFails(r) ==
  LET b == Of(r) IN
  /\ At(r, "prepare") /\ run[r].dir /\ provider # "docker"
  /\ Fail(r, IF provider = "ssh" THEN "restore" ELSE "release")
  /\ \E wiped \in BOOLEAN : edits' = [edits EXCEPT ![b] = IF wiped THEN {} ELSE @]
  /\ UNCHANGED <<provider, box, leases, process, home>>

Start(r) ==
  /\ At(r, "start") /\ box[Of(r)] = "running" /\ Set(r, [pc |-> "command"])
  /\ process' = [process EXCEPT ![Of(r)] = @ \cup {r}]
  /\ UNCHANGED <<provider, box, leases, edits, home>>

\* A command edits its directory, also when nobody waits for it any more.
Edit(r) ==
  LET b == Of(r) IN
  /\ b # Nobody /\ r \in process[b] /\ box[b] = "running"
  /\ IF provider = "docker" THEN home' = [home EXCEPT ![r] = @ \cup {r}] /\ UNCHANGED edits
                            ELSE edits' = [edits EXCEPT ![b] = @ \cup {r}] /\ UNCHANGED home
  /\ Set(r, [worked |-> TRUE])
  /\ UNCHANGED <<provider, box, leases, process>>

Exit(r) ==
  /\ At(r, "command") /\ run[r].worked /\ box[Of(r)] = "running" /\ r \in process[Of(r)]
  /\ process' = [process EXCEPT ![Of(r)] = @ \ {r}]
  /\ Set(r, [pc |-> "restore", answer |-> "ok"])
  /\ UNCHANGED <<provider, box, leases, edits, home>>

\* An abort or a timeout.  A process may outlive TERM, or the wait for it.
Stop(r) ==
  LET b == Of(r) IN
  /\ At(r, "command") /\ ~Is("stop", "never") /\ Set(r, [pc |-> "restore", answer |-> "stopped"])
  /\ IF Is("stop", "kills") THEN Becomes(b, "exited")
     ELSE /\ UNCHANGED box
          /\ \E left \in SUBSET {r} : process' = [process EXCEPT ![b] = @ \ left]
  /\ UNCHANGED <<provider, leases, edits, home>>

\* The provider does not answer, or not well.
Throw(r) ==
  /\ run[r].pc \in {"start", "command"} /\ Fail(r, "restore")
  /\ UNCHANGED <<provider, box, leases, edits, process, home>>

\* The edits since the baseline are applied to the worktree all together.
Restore(r) ==
  /\ At(r, "restore") /\ Set(r, [pc |-> "release"])
  /\ IF run[r].dir /\ provider # "docker" /\ (run[r].prepared \/ provider = "ssh")
     THEN box[Of(r)] = "running" /\ home' = [home EXCEPT ![r] = @ \cup edits[Of(r)]]
     ELSE UNCHANGED home
  /\ UNCHANGED <<provider, box, leases, edits, process>>

\* Ssh ignores that nothing came home.
RestoreFails(r) ==
  /\ At(r, "restore") /\ run[r].dir /\ provider # "docker"
  /\ run[r].prepared \/ provider = "ssh"
  /\ IF provider = "ssh" THEN Set(r, [pc |-> "release"]) ELSE Fail(r, "release")
  /\ UNCHANGED <<provider, box, leases, edits, process, home>>

-----------------------------------------------------------------------------
(* The machine is given back.                                              *)

\* Who finds the lease gone leaves the machine to whoever took it.
Release(r) ==
  /\ At(r, "release")
  /\ Set(r, [pc |-> IF Leased /\ Of(r) \notin leases THEN "ended" ELSE "settle"])
  /\ leases' = leases \ {Of(r)}
  /\ UNCHANGED <<provider, box, edits, process, home>>

\* A pause that fails turns into a destruction, and a destruction that fails is ignored.
Pause(r) ==
  /\ At(r, "settle") /\ run[r].reuse /\ Set(r, [pc |-> "ended"])
  /\ IF Is("pause", "nothing") THEN UNCHANGED <<box, process>>
     ELSE \E state \in {"paused", "gone", "running"} : Becomes(Of(r), state)
  /\ UNCHANGED <<provider, leases, edits, home>>

Destroy(r) ==
  /\ At(r, "settle") /\ ~run[r].reuse /\ Set(r, [pc |-> "ended"]) /\ Becomes(Of(r), "gone")
  /\ UNCHANGED <<provider, leases, edits, home>>

\* Docker tries three times, and answers with the error then.
DestroyFails(r) ==
  /\ At(r, "settle") /\ ~run[r].reuse
  /\ IF provider = "docker" THEN Fail(r, "ended") ELSE Set(r, [pc |-> "ended"])
  /\ UNCHANGED <<provider, box, leases, edits, process, home>>

-----------------------------------------------------------------------------
\* A machine reaches the end of its lifetime.
Expire(b) ==
  /\ box[b] \in {"running", "paused"} /\ Becomes(b, "gone")
  /\ UNCHANGED <<provider, leases, edits, run, home>>

\* The process that waits dies, with its runs and its leases.
Die ==
  /\ \E r \in Run : run[r].pc \notin {"idle", "ended"}
  /\ leases' = {}
  /\ run' = [r \in Run |-> IF run[r].pc \in {"idle", "ended"} THEN run[r]
                           ELSE With(r, [pc |-> "ended", answer |-> "error"])]
  /\ UNCHANGED <<provider, box, edits, process, home>>

Next ==
  \/ \E r \in Run :
       \/ \E dir, reuse \in BOOLEAN, lease \in Box \cup {Nobody} : Begin(r, dir, reuse, lease)
       \/ \E b \in Box : Create(r, b) \/ CreateLost(r, b)
       \/ SetUp(r) \/ SetupFails(r) \/ Resume(r) \/ ResumeFails(r) \/ Prepare(r) \/ PrepareFails(r)
       \/ Start(r) \/ Edit(r) \/ Exit(r) \/ Stop(r) \/ Throw(r) \/ Restore(r) \/ RestoreFails(r)
       \/ Release(r) \/ Pause(r) \/ Destroy(r) \/ DestroyFails(r)
  \/ \E b \in Box : Expire(b)
  \/ Die
Spec == Init /\ [][Next]_vars

-----------------------------------------------------------------------------
\* A run that had its machine to itself brings home no edits but its own, and all of them when its
\* command ended well, whatever ran on the machine before (sdk-sandbox-target.ts,
\* workspace-roundtrip.ts).  Ssh does not promise it: it ignores a failed copy.
OwnWorkComesHome ==
  \A r \in Run :
    At(r, "ended") /\ run[r].dir /\ run[r].alone /\ provider # "ssh" =>
      home[r] \subseteq {r} /\ (run[r].answer = "ok" => home[r] = {r})
=============================================================================
