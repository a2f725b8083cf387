----------------------------- MODULE SessionImport -----------------------------
(***************************************************************************)
(* The telemetry of one session file that an agent's CLI appends to: the    *)
(* watchers that follow it (of the worker, of the API), the import by hand, *)
(* the import state they share, and the transcript rows and usage metrics   *)
(* they store.  A position in the file counts bytes.                        *)
(***************************************************************************)
EXTENDS Integers, FiniteSets

CONSTANTS
  Watcher,      \* processes with a TelemetryWatcher
  Last,         \* bound: lines the session writes
  Size, Chars,  \* of each line: its bytes, and the UTF-16 units they are read as
  Usage,        \* of each line: the request whose usage it reports, or None
  None,
  Backfill      \* whether watchers import what was there before them

VARIABLES
  written,  \* complete lines in the file
  partial,  \* whether an unfinished line follows them
  row,      \* telemetry_import_state of the file
  stored,   \* telemetry_logs: <<message index, line>>
  counted,  \* telemetry_metrics: requests whose usage was added, once or again
  watcher,  \* where a watcher stands
  hand,     \* where the import by hand stands
  skipped,  \* history: lines a watcher decided to skip
  byHand    \* history: whether there was an import by hand

vars == <<written, partial, row, stored, counted, watcher, hand, skipped, byHand>>
tables == <<row, stored, counted>>
history == <<skipped, byHand>>

Request == {Usage[n] : n \in 1 .. Last} \ {None}
NoRow == [offset |-> 0, index |-> 0, seen |-> {}, hash |-> -1, records |-> 0, status |-> "none"]
AtRest == [pc |-> "idle", old |-> NoRow, read |-> NoRow, rows |-> {}, fresh |-> {}, event |-> FALSE]

TypeOK ==
  /\ written \in 0 .. Last /\ partial \in BOOLEAN
  /\ row.offset >= 0 /\ row.index >= 0 /\ row.seen \subseteq Request
  /\ row.status \in {"none", "new", "current", "error"}
  /\ \A s \in stored : s[1] >= 0 /\ s[2] \in 1 .. Last
  /\ \A s, t \in stored : s[1] = t[1] => s = t
  /\ counted \subseteq Request
  /\ \A w \in Watcher : watcher[w].pc \in {"down", "scan", "idle", "parse", "commit"}
  /\ hand.pc \in {"idle", "parse", "commit"} /\ skipped \subseteq 1 .. Last /\ byHand \in BOOLEAN

Init ==
  /\ written = 0 /\ partial = FALSE /\ row = NoRow /\ stored = {} /\ counted = {}
  /\ watcher = [w \in Watcher |-> [AtRest EXCEPT !.pc = "down"]] /\ hand = AtRest
  /\ skipped = {} /\ byHand = FALSE

Start[n \in 1 .. Last + 1] == IF n = 1 THEN 0 ELSE Start[n - 1] + Size[n - 1]
Length[n \in 1 .. Last + 1] == IF n = 1 THEN 0 ELSE Length[n - 1] + Chars[n - 1]
FileSize == Start[written + 1] + (IF partial THEN 1 ELSE 0)
FileHash == 2 * written + (IF partial THEN 1 ELSE 0)
At(w, pc) == watcher[w].pc = pc

-----------------------------------------------------------------------------
(* The session: a change may or may not be told to a watcher that is up.    *)

Notice(told) == watcher' = [w \in Watcher |-> [watcher[w] EXCEPT !.event = @ \/ (w \in told /\ ~At(w, "down"))]]

WritePartial(told) ==
  /\ written < Last /\ ~partial
  /\ partial' = TRUE /\ Notice(told)
  /\ UNCHANGED <<written, tables, hand, history>>

WriteLine(told) ==
  /\ written < Last
  /\ written' = written + 1 /\ partial' = FALSE /\ Notice(told)
  /\ UNCHANGED <<tables, hand, history>>

-----------------------------------------------------------------------------
(* readIncrementalLines and parseIncremental, from the position and the     *)
(* parser's state of an import state.                                       *)

\* Lines that begin at or after a position are read whole; what is left of the one it falls
\* in is not a record, and is passed over.
Whole(o) == {n \in 1 .. written : Start[n] >= o}
Broken(o) == {n \in 1 .. written : Start[n] < o /\ o < Start[n + 1]}
Least(a, b) == IF a < b THEN a ELSE b

\* The position moves by what was read, measured in UTF-16 units; an unfinished line stays.
MovedMutant(o) ==
  LET rest == written - Cardinality(Whole(o)) IN
  Length[written + 1] - Length[rest + 1] + (IF partial THEN Size[written + 1] ELSE 0)
Moved(o) ==
  LET rest == written - Cardinality(Whole(o)) IN
  Length[written + 1] - Length[rest + 1]
    + (IF Broken(o) = {} THEN 0 ELSE Least(Chars[rest], Start[rest + 1] - o))

\* A file shorter than the position was truncated: it is read from its start.
Position(from) == IF from.offset > FileSize THEN 0 ELSE from.offset

\* What a read from an import state gives: the state to come, the rows of the transcript and
\* the requests whose usage is new to the parser.
Parsed(from) ==
  LET o == Position(from) lines == Whole(o) first == written + 1 - Cardinality(lines) IN
  [next |-> [from EXCEPT !.offset = o + Moved(o), !.index = @ + Cardinality(lines),
                         !.seen = @ \cup ({Usage[n] : n \in lines} \ {None}),
                         !.records = Cardinality(lines) + Cardinality(Broken(o))],
   rows |-> {<<from.index + n - first, n>> : n \in lines},
   fresh |-> {Usage[n] : n \in lines} \ ({None} \cup from.seen)]

\* An import state is continued from, unless its position is 0.
Continued(old) == IF old.offset > 0 THEN old ELSE NoRow

\* INSERT OR IGNORE: the unique key of a message is its index.  Metrics have no unique key.
Save(job) ==
  /\ stored' = stored \cup {s \in job.rows : \A t \in stored : t[1] # s[1]}
  /\ counted' = counted \cup job.fresh

-----------------------------------------------------------------------------
(* TelemetryWatcher.                                                        *)

Set(w, job) == watcher' = [watcher EXCEPT ![w] = [job EXCEPT !.event = watcher[w].event]]
Process(w, old) == Set(w, [AtRest EXCEPT !.pc = "parse", !.old = old])

\* A start scans the files that are there, ...
BeginScan(w) ==
  /\ At(w, "down") /\ FileSize > 0
  /\ Set(w, [AtRest EXCEPT !.pc = "scan", !.old = row])
  /\ UNCHANGED <<written, partial, tables, hand, history>>

BeginWithoutFile(w) ==
  /\ At(w, "down") /\ FileSize = 0
  /\ Set(w, AtRest)
  /\ UNCHANGED <<written, partial, tables, hand, history>>

\* ... and marks one as read that it should not import, or whose state has a hash but no
\* position; one that has grown is processed.
MarkRead(w, fields) ==
  /\ row' = fields
  /\ skipped' = skipped \cup 1 .. (written + (IF partial THEN 1 ELSE 0))
  /\ Set(w, AtRest) /\ UNCHANGED <<stored, counted, byHand>>

ScanFile(w) ==
  LET old == watcher[w].old IN
  /\ At(w, "scan")
  /\ CASE old.status = "none" /\ ~Backfill ->
            MarkRead(w, [(IF row.status = "none" THEN NoRow ELSE row) EXCEPT !.offset = FileSize, !.status = "new"])
       [] old.status # "none" /\ old.offset = 0 /\ old.hash # -1 ->
            MarkRead(w, [row EXCEPT !.offset = FileSize, !.status = "current"])
       [] old.offset > 0 /\ FileSize <= old.offset ->
            Set(w, AtRest) /\ UNCHANGED <<tables, history>>
       [] OTHER -> Process(w, old) /\ UNCHANGED <<tables, history>>
  /\ UNCHANGED <<written, partial, hand>>

\* A change, after its debounce: the file is processed without its import state.  It is
\* dropped while the file is being processed.
ProcessChange(w) ==
  /\ watcher[w].event /\ ~At(w, "down")
  /\ watcher' = [watcher EXCEPT ![w] = IF @.pc = "idle" THEN [AtRest EXCEPT !.pc = "parse"]
                                       ELSE [@ EXCEPT !.event = FALSE]]
  /\ UNCHANGED <<written, partial, tables, hand, history>>

\* The poll looks for files that have grown, among those with an import state.
Poll(w) ==
  /\ At(w, "idle") /\ row.status # "none" /\ FileSize > row.offset
  /\ Process(w, row)
  /\ UNCHANGED <<written, partial, tables, hand, history>>

Parse(w) ==
  LET p == Parsed(Continued(watcher[w].old)) IN
  /\ At(w, "parse")
  /\ Set(w, [watcher[w] EXCEPT !.pc = "commit", !.read = p.next, !.rows = p.rows, !.fresh = p.fresh])
  /\ UNCHANGED <<written, partial, tables, hand, history>>

\* commitWatchBatch: the rows and the import state in one transaction.
Commit(w) ==
  LET job == watcher[w] IN
  /\ At(w, "commit")
  /\ Save(job)
  /\ row' = [job.read EXCEPT !.hash = IF job.old.hash # -1 THEN job.old.hash ELSE FileHash,
                             !.records = job.old.records + @, !.status = "current"]
  /\ Set(w, AtRest)
  /\ UNCHANGED <<written, partial, hand, history>>

\* The file or the database cannot be read: the state goes back to what was known of it.
Fail(w) ==
  /\ watcher[w].pc \in {"parse", "commit"}
  /\ row' = [watcher[w].old EXCEPT !.status = "error"] /\ Set(w, AtRest)
  /\ UNCHANGED <<written, partial, stored, counted, hand, history>>

\* A stop, or the end of the process; what was not committed is gone.
Stop(w) ==
  /\ ~At(w, "down") /\ watcher' = [watcher EXCEPT ![w] = [AtRest EXCEPT !.pc = "down"]]
  /\ UNCHANGED <<written, partial, tables, hand, history>>

-----------------------------------------------------------------------------
(* importProviderFile.                                                      *)

\* A file whose content was imported is left alone.
BeginImport(force) ==
  /\ hand.pc = "idle" /\ FileSize > 0
  /\ force \/ row.hash # FileHash \/ row.records = 0
  /\ hand' = [AtRest EXCEPT !.pc = "parse", !.old = [row EXCEPT !.hash = FileHash]]
  /\ UNCHANGED <<written, partial, tables, watcher, history>>

\* The whole file, whatever was imported of it.
ParseAll ==
  LET p == Parsed(NoRow) IN
  /\ hand.pc = "parse"
  /\ hand' = [hand EXCEPT !.pc = "commit", !.read = p.next, !.rows = p.rows, !.fresh = p.fresh]
  /\ UNCHANGED <<written, partial, tables, watcher, history>>

\* The position moves by the number of messages, and the parser's state stays.
CommitImport ==
  LET from == Continued(hand.old) messages == Cardinality(hand.rows) IN
  /\ hand.pc = "commit"
  /\ Save(hand)
  /\ row' = [from EXCEPT !.offset = @ + messages, !.hash = hand.old.hash,
                         !.records = hand.old.records + hand.read.records, !.status = "current"]
  /\ hand' = AtRest /\ byHand' = TRUE
  /\ UNCHANGED <<written, partial, watcher, skipped>>

-----------------------------------------------------------------------------
Watch(w) == \/ BeginScan(w) \/ BeginWithoutFile(w) \/ ScanFile(w) \/ ProcessChange(w)
            \/ Poll(w) \/ Parse(w) \/ Commit(w) \/ Fail(w) \/ Stop(w)
Import == (\E force \in BOOLEAN : BeginImport(force)) \/ ParseAll \/ CommitImport
Next == \/ \E told \in SUBSET Watcher : WritePartial(told) \/ WriteLine(told)
        \/ \E w \in Watcher : Watch(w)
        \/ Import
Spec == Init /\ [][Next]_vars

-----------------------------------------------------------------------------
(* Properties.                                                              *)

\* What a watcher's position has passed is stored and its usage counted, whenever the
\* watcher was stopped, failed or raced with changes of the file, but for what it chose to
\* skip; imports by hand are set apart.
NoLineLost ==
  \A n \in 1 .. written : Start[n + 1] <= row.offset /\ n \notin skipped /\ ~byHand =>
    /\ \E s \in stored : s[2] = n
    /\ Usage[n] # None => Usage[n] \in counted
=============================================================================
