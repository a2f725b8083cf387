----------------------------- MODULE TelemetryStore -----------------------------
(***************************************************************************)
(* The tables of telemetry: exporters that post batches of logs, spans and *)
(* metrics and post them again when no answer came, the limit on their     *)
(* rate, deletion and retention, what is counted over the rows, and a      *)
(* reader that pages through a table while all of this goes on.            *)
(***************************************************************************)
EXTENDS Integers, FiniteSetsExt

CONSTANTS
  Batch, Records,   \* the records a batch carries: [kind, key, time, form]
  Batches,          \* which of them are posted in a behaviour: a set of sets
  Ids,              \* bound: the ids that rows may be given, in the order of their text
  Burst,            \* INGEST_BURST
  Limit             \* rows of a page

VARIABLES
  rows,       \* telemetry_logs, _spans and _metrics: [kind, key, time, id]
  tokens,     \* the bucket of the organization
  exporter,   \* the client that posts a batch: [pc, rejected, error]
  errors,     \* rows of telemetry_ingest_errors: the batches they are about
  pager,      \* a reader: [pc, kind, asc, from, cursor, seen, twice]
  steady,     \* history: rows the reader asks for that were there all the while
  overview,   \* a reader of traces: [shown, more]
  report      \* what a client was last told: [counts, cost]

vars == <<rows, tokens, exporter, errors, pager, steady, overview, report>>

Kind == {"log", "span", "metric"}
NoKey == "none"
Start == [time |-> 0, id |-> 0]
Row(record, id) == [kind |-> record.kind, key |-> record.key, time |-> record.time, id |-> id]
AllRecords == UNION {Records[b] : b \in Batch}

TypeOK ==
  /\ \A r \in rows : r.kind \in Kind /\ r.id \in Ids /\ \E w \in AllRecords : r = Row(w, r.id)
  /\ tokens \in 0 .. Burst /\ errors \subseteq Batch
  /\ exporter \in [Batch -> [pc : {"idle", "told"}, rejected : Nat, error : BOOLEAN]]
  /\ pager.pc \in {"idle", "paging", "done"} /\ steady \subseteq rows

Init ==
  /\ rows = {} /\ tokens = Burst /\ errors = {} /\ steady = {}
  /\ exporter \in {[b \in Batch |-> [pc |-> IF b \in s THEN "idle" ELSE "told", rejected |-> 0, error |-> FALSE]] :
                     s \in Batches}
  /\ pager = [pc |-> "idle", kind |-> "log", asc |-> FALSE, from |-> 0, cursor |-> Start, seen |-> {}, twice |-> FALSE]
  /\ overview = [shown |-> {}, more |-> TRUE] /\ report = [counts |-> [k \in Kind |-> 0], cost |-> 0]

-----------------------------------------------------------------------------
(* POST /v1/telemetry/logs, traces and metrics.                            *)

Refill == tokens < Burst /\ tokens' = tokens + 1 /\ UNCHANGED <<rows, exporter, errors, pager, steady, overview, report>>
TakeToken == tokens > 0 /\ tokens' = tokens - 1

\* convertLogs, convertTraces, convertMetrics: noise, spans without ids and metrics without a name
\* are passed over; an exported metric has no key.
ConvertedLogs(b) == {w \in Records[b] : w.kind = "log" /\ w.form # "noise"}
ConvertedSpans(b) == {w \in Records[b] : w.kind = "span" /\ w.form # "anonymous"}
ConvertedMetrics(b) == {w \in Records[b] : w.kind = "metric" /\ w.form # "anonymous"}
Decoded(b) == ConvertedLogs(b) \cup ConvertedSpans(b) \cup ConvertedMetrics(b)

\* INSERT OR IGNORE: logs once for a key, spans once for their ids.
Fresh(w) == w.key = NoKey \/ \A r \in rows : ~(r.kind = w.kind /\ r.key = w.key)
Inserted(b) == {w \in Decoded(b) : Fresh(w)}
FreeIds == Ids \ {r.id : r \in rows}
InsertBatch(b, id) == rows' = rows \cup {Row(w, id[w]) : w \in Inserted(b)}

\* Status 200 with what was rejected and an error, if there is one; the exporter is content.
Answer(b, rejected, error) ==
  exporter' = [exporter EXCEPT ![b] = [pc |-> "told", rejected |-> rejected, error |-> error]]

\* Duplicates are reported as rejected; without an answer the exporter posts the batch again.
Ingest(b, answered) ==
  /\ exporter[b].pc = "idle" /\ TakeToken
  /\ \E id \in [Inserted(b) -> FreeIds] :
       (\A v, w \in Inserted(b) : id[v] = id[w] => v = w) /\ InsertBatch(b, id)
  /\ IF answered THEN Answer(b, Cardinality(Decoded(b)) - Cardinality(Inserted(b)), FALSE)
     ELSE UNCHANGED exporter
  /\ UNCHANGED <<errors, pager, steady, overview, report>>

\* A batch that cannot be decoded or stored is noted and answered with status 200 as well.
IngestFails(b) ==
  /\ exporter[b].pc = "idle" /\ TakeToken
  /\ errors' = errors \cup {b}
  /\ Answer(b, 0, TRUE)
  /\ UNCHANGED <<rows, pager, steady, overview, report>>

-----------------------------------------------------------------------------
(* DELETE /v1/telemetry/data, and the retention of the worker.             *)

InRange(kinds, from, to) == {r \in rows : r.kind \in kinds /\ r.time >= from /\ r.time <= to}
DeleteInRange(kinds, from, to) ==
  /\ rows' = rows \ InRange(kinds, from, to) /\ steady' = steady \ InRange(kinds, from, to)
  /\ UNCHANGED <<tokens, exporter, errors, pager, overview, report>>
Retention(cutoff) == DeleteInRange(Kind, 0, cutoff)

-----------------------------------------------------------------------------
(* GET /v1/telemetry/logs, spans or metrics, page after page.              *)

Matches(r) == r.kind = pager.kind /\ r.time >= pager.from
Before(r, s) == r.time < s.time \/ (r.time = s.time /\ r.id < s.id)
\* cursorClause: rows beyond the cursor in the order of the pages.
BeyondMutant(r) == IF pager.asc THEN r.time > pager.cursor.time ELSE r.time < pager.cursor.time
Beyond(r) == IF pager.asc THEN Before(pager.cursor, r) ELSE Before(r, pager.cursor)
Found == {r \in rows : Matches(r) /\ (pager.cursor = Start \/ Beyond(r))}
Ahead(r, s) == IF pager.asc THEN Before(r, s) ELSE Before(s, r)
PageOf(found) == {r \in found : Cardinality({s \in found : Ahead(s, r)}) < Limit}
\* nextCursor: the last row of a full page.
LastOf(page) == CHOOSE r \in page : \A s \in page : s = r \/ Ahead(s, r)

BeginPaging(kind, asc, from) ==
  /\ pager.pc = "idle"
  /\ pager' = [pager EXCEPT !.pc = "paging", !.kind = kind, !.asc = asc, !.from = from]
  /\ steady' = {r \in rows : r.kind = kind /\ r.time >= from}
  /\ UNCHANGED <<rows, tokens, exporter, errors, overview, report>>

QueryPage ==
  /\ pager.pc = "paging"
  /\ LET page == PageOf(Found)
         next == [pager EXCEPT !.seen = @ \cup page, !.twice = @ \/ page \cap pager.seen # {}] IN
     pager' = IF Cardinality(page) < Limit THEN [next EXCEPT !.pc = "done"]
              ELSE [next EXCEPT !.cursor = [time |-> LastOf(page).time, id |-> LastOf(page).id]]
  /\ UNCHANGED <<rows, tokens, exporter, errors, steady, overview, report>>

\* The cursor of traces and of sessions is not one that decodeCursor takes: every page is the first.
Offset == 0
QueryTraces ==
  /\ overview.more
  /\ LET spans == {r \in rows : r.kind = "span"} IN
     \E page \in {s \in SUBSET spans : Cardinality(s) = Min({Limit, Cardinality(spans) - Offset})} :
       /\ \A r \in page, s \in spans \ page : r.time >= s.time
       /\ overview' = [shown |-> overview.shown \cup page, more |-> Offset + Limit < Cardinality(spans)]
  /\ UNCHANGED <<rows, tokens, exporter, errors, pager, steady, report>>

-----------------------------------------------------------------------------
(* What is counted over the rows.                                          *)

\* getStats: one count after the other, between which another process may write.
CountStats(k) ==
  /\ report' = [report EXCEPT !.counts[k] = Cardinality({r \in rows : r.kind = k})]
  /\ UNCHANGED <<rows, tokens, exporter, errors, pager, steady, overview>>

\* aggregateCosts: every row of a cost metric, whether or not it was posted twice.
AggregateCosts ==
  /\ report' = [report EXCEPT !.cost = Cardinality({r \in rows : r.kind = "metric"})]
  /\ UNCHANGED <<rows, tokens, exporter, errors, pager, steady, overview>>

-----------------------------------------------------------------------------
Times == {w.time : w \in AllRecords}
Next ==
  \/ Refill \/ QueryPage \/ QueryTraces \/ AggregateCosts \/ \E k \in Kind : CountStats(k)
  \/ \E b \in Batch : (\E answered \in BOOLEAN : Ingest(b, answered)) \/ IngestFails(b)
  \/ \E kinds \in SUBSET Kind, from, to \in Times : DeleteInRange(kinds, from, to)
  \/ \E cutoff \in Times : Retention(cutoff)
  \/ \E kind \in Kind, asc \in BOOLEAN, from \in Times \cup {0} : BeginPaging(kind, asc, from)
Spec == Init /\ [][Next]_vars

-----------------------------------------------------------------------------
(* Properties                                                              *)

\* A reader that got to the end saw every row it asked for that was there all the while, and
\* none twice, however many rows were added and deleted around its cursor.
PagesComplete == pager.pc = "done" => steady \subseteq pager.seen /\ ~pager.twice
=============================================================================
