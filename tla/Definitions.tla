----------------------------- MODULE Definitions -----------------------------
(***************************************************************************)
(* The definitions that a process reads from files: agents, loops and      *)
(* knowledge.  A source holds what it loaded, watches the files, loads a   *)
(* definition again when one of its files changes, and scans all of them   *)
(* when it starts and every minute.  Loads and scans read one file after   *)
(* the other while the files change under them.  The worker subscribes to  *)
(* the changes and keeps what its scheduler runs (loops) or its company    *)
(* knows (agents); the API starts and stops one source in every request.   *)
(***************************************************************************)
EXTENDS Integers, Sequences, SequencesExt

CONSTANTS
  Definition,  \* directories of agents or loops, or files of concepts
  Builtin,     \* definitions that are loops the worker comes with
  Worker,      \* the worker
  Request      \* requests of the API, to a source of their own process

VARIABLES
  kind,      \* "agent", "loop" or "concept"
  disk,      \* the main file of a definition and one beside it: tools.yaml, gate.yaml
  watcher,   \* [open, ready, seen: files it knows, changed: files it has yet to report]
  watching,  \* the source was started
  cache,     \* what the source holds
  loads,     \* reports being handled: [def, at, main: what was read]
  scan,      \* the scan of a user: [on, todo, main, def, next]
  user,      \* worker and requests: [pc, joined: it found the source started, told]
  registry,  \* what the worker made of the definitions
  refresh,   \* changes it has yet to deal with, in order
  edits      \* how many edits were made, and what the properties below refer to:
             \* [made, clean: none since a scan began alone, missed: changes nobody was told of]

files == <<kind, disk>>
source == <<watcher, watching, cache, loads, scan>>
consumer == <<registry, refresh>>
vars == <<files, source, user, consumer, edits>>

User == {Worker} \cup Request
Part == {"main", "side"}
Nothing == [main |-> "none", side |-> "none"]
Present(content) == content.main # "none"
\* A definition is read whole or not at all.
Loaded(main, side) == IF main \in {"none", "bad"} THEN Nothing ELSE [main |-> main, side |-> side]
Defined == {d \in Definition : Present(cache[d])}
Files(d) == {<<d, p>> : p \in {q \in Part : disk[d][q] # "none"}}
AllFiles == UNION {Files(d) : d \in Definition}
Fallback(d) == IF kind = "loop" /\ d \in Builtin THEN [main |-> "builtin", side |-> "none"] ELSE Nothing
NoScan == [on |-> FALSE]

TypeOK ==
  /\ kind \in {"agent", "loop", "concept"}
  /\ disk \in [Definition -> [main : {"none", "v1", "v2", "bad"}, side : {"none", "v1"}]]
  /\ watcher.seen \cup watcher.changed \subseteq Definition \X Part
  /\ cache \in [Definition -> [main : {"none", "v1", "v2"}, side : {"none", "v1"}]]
  /\ registry \in [Definition -> [main : {"none", "v1", "v2", "builtin"}, side : {"none", "v1"}]]
  /\ \A u \in User : user[u].pc \in {"idle", "wait", "join", "scan", "scanning", "list", "reading", "look",
                                     "watching", "stop", "done"}
  /\ \A i \in DOMAIN refresh : refresh[i].def \in Definition

Init ==
  /\ kind \in {"agent", "loop", "concept"}
  /\ disk \in [Definition -> [main : {"none", "v1", "bad"}, side : {"none", "v1"}]]
  /\ \A d \in Definition : kind = "concept" \/ disk[d].main = "none" => disk[d].side = "none"
  /\ watcher = [open |-> FALSE, ready |-> FALSE, seen |-> {}, changed |-> {}] /\ watching = FALSE
  /\ cache = [d \in Definition |-> Nothing] /\ loads = {} /\ scan = [u \in User |-> NoScan]
  /\ user = [u \in User |-> [pc |-> "idle", joined |-> FALSE, told |-> "none"]]
  /\ registry = [d \in Definition |-> Fallback(d)] /\ refresh = <<>>
  /\ edits = [made |-> 0, clean |-> "no", missed |-> {}]

At(u, pc) == user[u].pc = pc
Goto(u, pc) == user' = [user EXCEPT ![u].pc = pc]
Begun(u) == Goto(u, IF u = Worker THEN "list" ELSE "look")

\* Somebody writes or removes a file.
Edit(d, part, text) ==
  /\ disk[d][part] # text /\ disk' = [disk EXCEPT ![d][part] = text]
  /\ watcher' = [watcher EXCEPT !.changed = IF watcher.open THEN @ \cup {<<d, part>>} ELSE @]
  /\ edits' = [edits EXCEPT !.made = @ + 1, !.clean = "no"]
  /\ UNCHANGED <<kind, watching, cache, loads, scan, user, consumer>>

-----------------------------------------------------------------------------
(* The callbacks of the source, in the same step as the change of what it  *)
(* holds.  Whether a loop is there is asked at once, the loop is fetched   *)
(* later; agents are all reconciled again, one reconciliation at a time.   *)

Subscribed == At(Worker, "watching") /\ kind # "concept"
Emit(ds, clean) ==
  /\ refresh' = IF Subscribed
                THEN refresh \o [i \in DOMAIN SetToSeq(ds) |->
                       [def |-> SetToSeq(ds)[i], has |-> Present(cache'[SetToSeq(ds)[i]]), listed |-> {}, asked |-> FALSE]]
                ELSE refresh
  /\ edits' = [edits EXCEPT !.clean = clean,
                            !.missed = IF ~Subscribed THEN @ \cup ds
                                       ELSE IF kind = "agent" /\ ds # {} THEN {} ELSE @ \ ds]

Next1 == refresh' = Tail(refresh)
\* The first listing asks when it comes to a loop.
RefreshFileLoop ==
  /\ kind = "loop" /\ refresh # <<>>
  /\ LET d == Head(refresh).def
         has == IF At(Worker, "reading") THEN Present(cache[d]) ELSE Head(refresh).has
     IN registry' = IF ~has THEN [registry EXCEPT ![d] = Fallback(d)]
                    ELSE IF Present(cache[d]) THEN [registry EXCEPT ![d] = cache[d]] ELSE registry
  /\ Next1 /\ UNCHANGED <<files, source, user, edits>>

ListAgents ==
  /\ kind = "agent" /\ refresh # <<>> /\ ~Head(refresh).asked
  /\ refresh' = [refresh EXCEPT ![1].listed = Defined, ![1].asked = TRUE]
  /\ UNCHANGED <<files, source, user, registry, edits>>
\* One that has gone in between makes the reconciliation fail, and the first one the worker's start.
ReconcileAgentDefinitions ==
  /\ kind = "agent" /\ refresh # <<>> /\ Head(refresh).asked
  /\ LET listed == Head(refresh).listed IN
       IF listed \subseteq Defined
       THEN /\ registry' = [d \in Definition |-> IF d \in listed THEN cache[d] ELSE Nothing]
            /\ UNCHANGED user
       ELSE UNCHANGED registry /\ IF At(Worker, "reading") THEN Goto(Worker, "done") ELSE UNCHANGED user
  /\ Next1 /\ UNCHANGED <<files, source, edits>>

-----------------------------------------------------------------------------
(* A file was reported: handleChange.                                      *)

\* The removal of any file of an agent or a loop takes the definition away.
Deliver(d, part) ==
  LET f == <<d, part>>  gone == disk[d][part] = "none" IN
  /\ watcher.open /\ f \in watcher.changed
  /\ watcher' = [watcher EXCEPT !.changed = @ \ {f}, !.seen = IF gone THEN @ \ {f} ELSE @ \cup {f}]
  /\ loads' = IF gone THEN loads ELSE loads \cup {[def |-> d, at |-> edits.made, part |-> part, main |-> "unread"]}
  /\ IF gone /\ f \in watcher.seen /\ Present(cache[d])
     THEN cache' = [cache EXCEPT ![d] = Nothing] /\ Emit({d}, edits.clean)
     ELSE UNCHANGED <<cache, refresh, edits>>
  /\ UNCHANGED <<files, watching, scan, user, registry>>

LoadMain(l) ==
  /\ l.main = "unread"
  /\ loads' = (loads \ {l}) \cup (IF disk[l.def].main = "none" THEN {} ELSE {[l EXCEPT !.main = disk[l.def].main]})
  /\ UNCHANGED <<files, watcher, watching, cache, scan, user, consumer, edits>>

\* A definition that cannot be read leaves what was held, except of a loop, which is disabled.
FinishLoad(l) ==
  LET d == l.def  content == Loaded(l.main, disk[d].side) IN
  /\ l.main # "unread" /\ loads' = loads \ {l}
  /\ IF Present(content) \/ (kind = "loop" /\ Present(cache[d]))
     THEN cache' = [cache EXCEPT ![d] = content] /\ Emit({d}, edits.clean)
     ELSE UNCHANGED <<cache, refresh, edits>>
  /\ UNCHANGED <<files, watcher, watching, scan, user, registry>>

-----------------------------------------------------------------------------
(* scanAll: at the start of the source and every minute.                   *)

CanScan(u) == At(u, "scan") \/ (u = Worker /\ user[u].pc \in {"list", "reading", "watching"})
BeginScan(u) ==
  /\ CanScan(u) /\ ~scan[u].on
  /\ scan' = [scan EXCEPT ![u] = [on |-> TRUE, todo |-> {d \in Definition : Files(d) # {}}, def |-> Worker,
                                  main |-> "none", next |-> [d \in Definition |-> Nothing]]]
  /\ user' = IF At(u, "scan") THEN [user EXCEPT ![u].pc = "scanning"] ELSE user
  /\ edits' = [edits EXCEPT !.clean = IF watcher.changed = {} /\ loads = {} /\ \A v \in User : ~scan[v].on
                                      THEN "scanned" ELSE "no"]
  /\ UNCHANGED <<files, watcher, watching, cache, loads, consumer>>

ScanMain(u, d) ==
  /\ scan[u].on /\ scan[u].def = Worker /\ d \in scan[u].todo
  /\ scan' = [scan EXCEPT ![u].def = d, ![u].main = disk[d].main]
  /\ UNCHANGED <<files, watcher, watching, cache, loads, user, consumer, edits>>
ScanSide(u) ==
  LET d == scan[u].def IN
  /\ scan[u].on /\ d # Worker
  /\ scan' = [scan EXCEPT ![u].def = Worker, ![u].todo = @ \ {d}, ![u].next[d] = Loaded(scan[u].main, disk[d].side)]
  /\ UNCHANGED <<files, watcher, watching, cache, loads, user, consumer, edits>>

\* What is there is an update even if nothing changed; a concept is compared by its hash.
ChangedMutant(next) == {d \in Definition : Present(next[d]) # Present(cache[d])}
Changed(next) == {d \in Definition : IF kind = "concept" THEN next[d] # cache[d] ELSE Present(next[d]) \/ Present(cache[d])}
EndScan(u) ==
  /\ scan[u].on /\ scan[u].todo = {}
  /\ cache' = scan[u].next
  /\ Emit(Changed(scan[u].next), IF edits.clean = "scanned" THEN "yes" ELSE edits.clean)
  /\ scan' = [scan EXCEPT ![u] = NoScan]
  /\ IF At(u, "scanning") THEN Begun(u) ELSE UNCHANGED user
  /\ UNCHANGED <<files, watcher, watching, loads, registry>>

-----------------------------------------------------------------------------
(* start and stop.                                                         *)

Starting == \E u \in User : user[u].pc \in {"wait", "scan", "scanning"}
Open == [open |-> TRUE, ready |-> FALSE, seen |-> {}, changed |-> AllFiles]

\* Who finds the source started goes on at once; of agents, when the start is over.
Start(u) ==
  /\ At(u, "idle") /\ watching' = TRUE
  /\ IF watching
     THEN /\ UNCHANGED watcher
          /\ user' = [user EXCEPT ![u] = [pc |-> IF kind = "agent" /\ Starting THEN "join"
                                               ELSE IF u = Worker THEN "list" ELSE "look",
                                        joined |-> TRUE, told |-> "none"]]
     ELSE /\ watcher' = IF watcher.open THEN watcher ELSE Open
          /\ Goto(u, IF watcher.open /\ watcher.ready THEN "scan" ELSE "wait")
  /\ UNCHANGED <<files, cache, loads, scan, consumer, edits>>

Joined(u) == /\ At(u, "join") /\ ~Starting /\ Begun(u)
             /\ UNCHANGED <<files, source, consumer, edits>>

\* The watcher has listed the directory.
Ready ==
  /\ watcher.open /\ ~watcher.ready /\ watcher' = [watcher EXCEPT !.ready = TRUE]
  /\ user' = [u \in User |-> IF At(u, "wait") THEN [user[u] EXCEPT !.pc = "scan"] ELSE user[u]]
  /\ UNCHANGED <<files, watching, cache, loads, scan, consumer, edits>>

\* The worker takes up what is there, and subscribes afterwards.
ListDefinitions ==
  /\ At(Worker, "list") /\ Goto(Worker, "reading")
  /\ LET present == SetToSeq(Defined)
         entry(d) == [def |-> d, has |-> TRUE, listed |-> {}, asked |-> FALSE]
     IN refresh' = CASE kind = "loop" -> [i \in DOMAIN present |-> entry(present[i])]
                     [] kind = "agent" -> <<entry(CHOOSE d \in Definition : TRUE)>>
                     [] OTHER -> <<>>
  /\ edits' = [edits EXCEPT !.missed = {}]
  /\ UNCHANGED <<files, source, registry>>
Watch == /\ At(Worker, "reading") /\ refresh = <<>> /\ Goto(Worker, "watching")
         /\ UNCHANGED <<files, source, consumer, edits>>

\* A request of the API looks for a definition and stops the source, also under the others.
Look(r, d) ==
  /\ r \in Request /\ At(r, "look")
  /\ user' = [user EXCEPT ![r].pc = "stop",
                          ![r].told = IF Present(cache[d]) THEN "found" ELSE IF Present(Loaded(disk[d].main, disk[d].side))
                                      THEN "missed" ELSE "missing"]
  /\ UNCHANGED <<files, source, consumer, edits>>
Stop(r) ==
  /\ At(r, "stop") /\ Goto(r, "done") /\ watching' = FALSE
  /\ watcher' = [watcher EXCEPT !.open = FALSE, !.ready = FALSE, !.changed = {}]
  /\ UNCHANGED <<files, cache, loads, scan, consumer, edits>>

-----------------------------------------------------------------------------
Next == \/ \E d \in Definition, text \in {"none", "v1", "v2", "bad"} : Edit(d, "main", text)
        \/ \E d \in Definition, text \in {"none", "v1"} : Edit(d, "side", text)
        \/ RefreshFileLoop \/ ListAgents \/ ReconcileAgentDefinitions
        \/ \E d \in Definition, p \in Part : Deliver(d, p)
        \/ \E l \in loads : LoadMain(l) \/ FinishLoad(l)
        \/ \E u \in User : \/ BeginScan(u) \/ ScanSide(u) \/ EndScan(u) \/ Start(u) \/ Joined(u)
                           \/ \E d \in Definition : ScanMain(u, d)
        \/ Ready \/ ListDefinitions \/ Watch
        \/ \E r \in Request : Stop(r) \/ \E d \in Definition : Look(r, d)
Spec == Init /\ [][Next]_vars

-----------------------------------------------------------------------------
(* Properties                                                              *)

\* However loads, scans and changes overlap: when every change it was told of is dealt with, the
\* worker runs what the source holds, except of a definition whose last change fell between the
\* first listing and the subscription.  A scan that begins when no report and no other scan is
\* outstanding, and under which nothing changes, leaves the source with what the files say.  Where
\* no file is edited, a request that started the source itself does not miss a definition that is
\* there; it waits for a watcher that was closed only when another request had found the source started.
DefinitionsKnown ==
  /\ Subscribed /\ refresh = <<>> =>
       \A d \in Definition \ edits.missed : registry[d] = IF Present(cache[d]) THEN cache[d] ELSE Fallback(d)
  /\ edits.clean = "yes" => \A d \in Definition : cache[d] = Loaded(disk[d].main, disk[d].side)
  /\ edits.made = 0 => \A r \in Request : user[r].told = "missed" => user[r].joined
  /\ (\E u \in User : At(u, "wait")) /\ ~watcher.open => \E r \in Request : user[r].joined
=============================================================================
