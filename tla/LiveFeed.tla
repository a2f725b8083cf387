------------------------------- MODULE LiveFeed -------------------------------
(***************************************************************************)
(* The live feed of telemetry: events that are stored under growing ids    *)
(* and handed to the streams of the API's process, producers that only     *)
(* store them, clients that lose their connection and come back with the   *)
(* last id they saw, and the page that asks for the newest log.            *)
(***************************************************************************)
EXTENDS Integers, Sequences, FiniteSetsExt, Functions

CONSTANTS
  Client,
  Limit,       \* rows of one replay
  MaxQueue,    \* events a subscription may hold
  Last         \* bound: events stored

VARIABLES
  last,      \* the rows of telemetry_live_events: their ids are 1 .. last
  hub,       \* the subscription of a client: [active, queue]; 0 is an event without an id
  stream,    \* the response to a client: [open, sent, wire]
  client,    \* [known: the id it would come back with, got: the rows it saw]
  flooded,   \* history: clients whose stream drained its queue while more than Limit rows waited
  page       \* the observer page: [top: the log with the greatest id, shown]

vars == <<last, hub, stream, client, flooded, page>>

Unsubscribed == [active |-> FALSE, queue |-> <<>>]
Closed == [open |-> FALSE, sent |-> 0, wire |-> <<>>]

TypeOK ==
  /\ last \in 0 .. Last
  /\ \A c \in Client :
       /\ hub[c].active \in BOOLEAN /\ Len(hub[c].queue) <= MaxQueue
       /\ stream[c].sent \in 0 .. last /\ (stream[c] = Closed \/ stream[c].open)
       /\ client[c].known \in 0 .. last /\ client[c].got \subseteq 1 .. last
  /\ flooded \subseteq Client /\ page.shown \in 0 .. Last

Init ==
  /\ last = 0 /\ flooded = {} /\ page = [top |-> 0, shown |-> 0]
  /\ hub = [c \in Client |-> Unsubscribed] /\ stream = [c \in Client |-> Closed]
  /\ client = [c \in Client |-> [known |-> 0, got |-> {}]]

\* queryLiveEvents: the oldest rows after an id.
Replayed(after) == [i \in 1 .. Min({Limit, last - after}) |-> after + i]
UpTo(ids, n) == Max(Range(ids) \cup {n})

-----------------------------------------------------------------------------
(* Producers.                                                              *)

\* LiveHub.publish: every subscription that still has room; the others are dropped for good.
Offered(id) ==
  [c \in Client |-> CASE ~hub[c].active -> hub[c]
                      [] Len(hub[c].queue) >= MaxQueue -> [hub[c] EXCEPT !.active = FALSE]
                      [] OTHER -> [hub[c] EXCEPT !.queue = Append(@, id)]]

\* publishLive in the process of the API: stored and offered, or only offered when storing failed.
PublishLive(stored) ==
  /\ stored => last < Last
  /\ last' = IF stored THEN last + 1 ELSE last
  /\ hub' = Offered(IF stored THEN last + 1 ELSE 0)
  /\ UNCHANGED <<stream, client, flooded, page>>

\* The bridge of another process stores the event; no stream hears of it.
EmitNativeLine ==
  /\ last < Last /\ last' = last + 1
  /\ UNCHANGED <<hub, stream, client, flooded, page>>

-----------------------------------------------------------------------------
(* GET /v1/telemetry/stream.                                               *)

\* The client is subscribed and sent the first rows after the id it names.
Connect(c) ==
  /\ ~stream[c].open
  /\ LET rows == Replayed(client[c].known) IN
     stream' = [stream EXCEPT ![c] = [open |-> TRUE, sent |-> UpTo(rows, client[c].known),
                                      wire |-> rows]]
  /\ hub' = [hub EXCEPT ![c] = [active |-> TRUE, queue |-> <<>>]]
  /\ UNCHANGED <<last, client, flooded, page>>

\* A tick: rows not sent yet, then what the queue holds, which sends most rows twice.
TickMutant(c) ==
  /\ stream[c].open
  /\ LET queued == hub[c].queue
         drained == UpTo(queued, stream[c].sent)
         rows == Replayed(drained) IN
     /\ stream' = [stream EXCEPT ![c].sent = UpTo(rows, drained),
                                 ![c].wire = @ \o queued \o rows]
     /\ flooded' = IF queued # <<>> /\ last > stream[c].sent + Limit THEN flooded \cup {c} ELSE flooded
  /\ hub' = [hub EXCEPT ![c].queue = <<>>]
  /\ UNCHANGED <<last, client, page>>
Tick(c) ==
  /\ stream[c].open
  /\ LET rows == Replayed(stream[c].sent)  queued == hub[c].queue IN
     /\ stream' = [stream EXCEPT ![c].sent = UpTo(queued, UpTo(rows, @)),
                                 ![c].wire = @ \o rows \o queued]
     /\ flooded' = IF queued # <<>> /\ last > stream[c].sent + Limit THEN flooded \cup {c} ELSE flooded
  /\ hub' = [hub EXCEPT ![c].queue = <<>>]
  /\ UNCHANGED <<last, client, page>>

\* The client reads an event and remembers its id; what is not a number stands for the beginning.
Deliver(c) ==
  /\ stream[c].wire # <<>>
  /\ LET id == Head(stream[c].wire) IN
     client' = [client EXCEPT ![c] = [known |-> id, got |-> IF id = 0 THEN @.got ELSE @.got \cup {id}]]
  /\ stream' = [stream EXCEPT ![c].wire = Tail(@)]
  /\ UNCHANGED <<last, hub, flooded, page>>

\* The connection is lost with what is on its way: abort, cancel or a failed enqueue.
Disconnect(c) ==
  /\ stream[c].open
  /\ stream' = [stream EXCEPT ![c] = Closed] /\ hub' = [hub EXCEPT ![c] = Unsubscribed]
  /\ UNCHANGED <<last, client, flooded, page>>

Restart ==
  /\ stream' = [c \in Client |-> Closed] /\ hub' = [c \in Client |-> Unsubscribed]
  /\ UNCHANGED <<last, client, flooded, page>>

-----------------------------------------------------------------------------
(* The observer page: the ids of logs are random, so a new log need not be *)
(* the greatest.                                                           *)

InsertLog(n, greatest) ==
  /\ n > page.top /\ page' = [page EXCEPT !.top = IF greatest THEN n ELSE @]
  /\ UNCHANGED <<last, hub, stream, client, flooded>>

Poll ==
  /\ page' = [page EXCEPT !.shown = page.top]
  /\ UNCHANGED <<last, hub, stream, client, flooded>>

-----------------------------------------------------------------------------
Next == \/ EmitNativeLine \/ Restart \/ Poll
        \/ \E stored \in BOOLEAN : PublishLive(stored)
        \/ \E c \in Client : Connect(c) \/ Tick(c) \/ Deliver(c) \/ Disconnect(c)
        \/ \E n \in 1 .. Last, greatest \in BOOLEAN : InsertLog(n, greatest)
Spec == Init /\ [][Next]_vars

-----------------------------------------------------------------------------
(* Properties                                                              *)

\* Whatever connections were lost and whoever stored the events, a client misses none up to the
\* id it would come back with, unless more rows waited than one replay sends while its queue was
\* drained: then the stream goes on after the last queued event.
NoEventMissed == \A c \in Client \ flooded : 1 .. client[c].known \subseteq client[c].got
=============================================================================
