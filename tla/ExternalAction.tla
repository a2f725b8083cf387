---------------------------- MODULE ExternalAction ----------------------------
(***************************************************************************)
(* An external action of an approved work item: the row of one idempotency *)
(* key of one connector, and the API requests that claim it, call the      *)
(* connector and settle it.  A claim is a lease that the caller fences by  *)
(* its owner id; a request whose lease ran out may be replaced while it is *)
(* still waiting for its answer.                                           *)
(*                                                                         *)
(* One step is one statement of claimExternalAction, completeExternalAction *)
(* or of the route between them.  The requests may be served by several    *)
(* API processes on the same database.  Time is counted in units in which  *)
(* the lease (60 s), the fetch timeout (30 s) and the delay between the    *)
(* start of a claim and the call keep their order.                         *)
(***************************************************************************)
EXTENDS Naturals

CONSTANTS
  Request,    \* requests with the same connector and idempotency key
  Payload,    \* fingerprints of what they ask for
  Lease,      \* leaseMs of claimExternalAction
  Timeout,    \* AbortSignal.timeout of the call
  Delay,      \* the longest a prompt process takes from claim to call
  MaxTime,    \* bound: the time explored
  NoOne, NoPayload

ASSUME TimesAssumption ==
  /\ {Lease, Timeout, Delay, MaxTime} \subseteq Nat
  /\ Delay + Timeout < Lease
ASSUME NamesAssumption == NoOne \notin Request /\ NoPayload \notin Payload

VARIABLES
  row,      \* the row of the key: its status, claim_owner, lease and fingerprint
  request,  \* request[r]: where r stands and what it remembers
  now       \* the clock

vars == <<row, request, now>>

RowStatus == {"none", "running", "succeeded", "failed"}
PC == {"idle", "insert", "read", "takeOver", "reread", "call", "wait", "settle", "answered"}
Reply == {"none", "conflict", "replay", "in_progress", "succeeded", "failed", "lost"}

NoRow == [status |-> "none", owner |-> NoOne, lease |-> 0, payload |-> NoPayload]
\* at is claimedAt, sent the time of the call, outcome what the call returned
Idle == [pc |-> "idle", payload |-> NoPayload, at |-> 0, sent |-> 0,
         outcome |-> "failed", reply |-> "none"]

Init ==
  /\ row = NoRow
  /\ request = [r \in Request |-> Idle]
  /\ now = 0

At(r, pc) == request[r].pc = pc
Goto(r, pc) == request' = [request EXCEPT ![r].pc = pc]
Answer(r, reply) == request' = [request EXCEPT ![r].pc = "answered", ![r].reply = reply]

\* the claim r writes: its lease counts from claimedAt
ClaimOf(r) == [status |-> "running", owner |-> r, lease |-> request[r].at + Lease,
               payload |-> request[r].payload]

-----------------------------------------------------------------------------
(* claimExternalAction *)

Begin(r) ==
  /\ At(r, "idle")
  /\ \E payload \in Payload :
       request' = [request EXCEPT ![r] = [Idle EXCEPT !.pc = "insert", !.payload = payload,
                                                      !.at = now]]
  /\ UNCHANGED <<row, now>>

\* the insert fails on the unique index of the key
Insert(r) ==
  /\ At(r, "insert")
  /\ IF row.status = "none"
     THEN row' = ClaimOf(r) /\ Goto(r, "call")
     ELSE UNCHANGED row /\ Goto(r, "read")
  /\ UNCHANGED now

Read(r) ==
  /\ At(r, "read")
  /\ \/ row.payload # request[r].payload /\ Answer(r, "conflict")
     \/ /\ row.payload = request[r].payload
        /\ \/ row.status = "succeeded" /\ Answer(r, "replay")
           \/ row.status = "running" /\ row.lease > request[r].at /\ Answer(r, "in_progress")
           \/ row.status = "running" /\ row.lease <= request[r].at /\ Goto(r, "takeOver")
           \/ row.status = "failed" /\ Goto(r, "takeOver")
  /\ UNCHANGED <<row, now>>

\* the conditional update, on the row as it is now
StatusClaimable(r) == row.status \in {"failed", "running"}
LeaseClaimable(r) == row.lease <= request[r].at
Claimable(r) == \/ row.status = "failed"
                \/ row.status = "running" /\ row.lease <= request[r].at
TakeOver(r) ==
  /\ At(r, "takeOver")
  /\ IF Claimable(r)
     THEN row' = ClaimOf(r) /\ Goto(r, "call")
     ELSE UNCHANGED row /\ Goto(r, "reread")
  /\ UNCHANGED now

Reread(r) ==
  /\ At(r, "reread")
  /\ Answer(r, IF row.status = "succeeded" THEN "replay" ELSE "in_progress")
  /\ UNCHANGED <<row, now>>

-----------------------------------------------------------------------------
(* The route: the call of the connector *)

Call(r) ==
  /\ At(r, "call")
  /\ request' = [request EXCEPT ![r].pc = "wait", ![r].sent = now]
  /\ UNCHANGED <<row, now>>

\* the connector has no URL: settled as failed without a call
NotConfigured(r) ==
  /\ At(r, "call")
  /\ Goto(r, "settle")
  /\ UNCHANGED <<row, now>>

\* an answer, an error, or (only failed) the timeout
Returns(r) ==
  /\ At(r, "wait")
  /\ \E outcome \in {"succeeded", "failed"} :
       /\ now > request[r].sent + Timeout => outcome = "failed"
       /\ request' = [request EXCEPT ![r].pc = "settle", ![r].outcome = outcome]
  /\ UNCHANGED <<row, now>>

\* completeExternalAction: only for the owner of a running row, else it throws
OwnsIfRunning(r) == row.status = "running"
Owns(r) == row.status = "running" /\ row.owner = r
Settle(r) ==
  /\ At(r, "settle")
  /\ IF Owns(r)
     THEN /\ row' = [row EXCEPT !.status = request[r].outcome, !.owner = NoOne, !.lease = 0]
          /\ Answer(r, request[r].outcome)
     ELSE UNCHANGED row /\ Answer(r, "lost")
  /\ UNCHANGED now

\* the process that serves r dies
Crash(r) ==
  /\ request[r].pc \notin {"idle", "answered"}
  /\ Goto(r, "answered")
  /\ UNCHANGED <<row, now>>

Tick ==
  /\ now < MaxTime
  /\ now' = now + 1
  /\ UNCHANGED <<row, request>>

-----------------------------------------------------------------------------
Claim(r) == Begin(r) \/ Insert(r) \/ Read(r) \/ TakeOver(r) \/ Reread(r)
Route(r) == Call(r) \/ NotConfigured(r) \/ Returns(r) \/ Settle(r)
Step(r) == Claim(r) \/ Route(r) \/ Crash(r)

Next == (\E r \in Request : Step(r)) \/ Tick

Spec == Init /\ [][Next]_vars

-----------------------------------------------------------------------------
(* Properties *)

TypeOK ==
  /\ row \in [status : RowStatus, owner : Request \cup {NoOne}, lease : Nat,
              payload : Payload \cup {NoPayload}]
  /\ request \in [Request -> [pc : PC, payload : Payload \cup {NoPayload}, at : Nat, sent : Nat,
                              outcome : {"succeeded", "failed"}, reply : Reply]]
  /\ now \in Nat

(***************************************************************************)
(* Two requests never wait for the connector at once, as long as each      *)
(* called within Delay of its claim and is within its timeout: the lease   *)
(* of 60 s outlives a prompt call of 30 s, although it counts from a time  *)
(* that was read before the claim was written.                             *)
(***************************************************************************)
InFlight(r) == /\ At(r, "wait")
               /\ request[r].sent <= request[r].at + Delay
               /\ now <= request[r].sent + Timeout
OneSender == \A r, q \in Request : InFlight(r) /\ InFlight(q) => r = q

(***************************************************************************)
(* At most one request reports a fresh success, even when leases run out   *)
(* and a replaced request comes back late: its result is not recorded.     *)
(***************************************************************************)
Reports(r, reply) == At(r, "answered") /\ request[r].reply = reply
OneSuccess == \A r, q \in Request : Reports(r, "succeeded") /\ Reports(q, "succeeded") => r = q

(***************************************************************************)
(* What a request was told stays true: a success or a replay stands for a  *)
(* recorded success of the same payload, a conflict for another payload.   *)
(***************************************************************************)
RepliesAreTrue ==
  \A r \in Request :
    /\ Reports(r, "succeeded") \/ Reports(r, "replay") =>
         row.status = "succeeded" /\ row.payload = request[r].payload
    /\ Reports(r, "conflict") => row.payload \notin {NoPayload, request[r].payload}

\* the row implements the promise of an idempotency key
Credited == IF \E r \in Request : Reports(r, "succeeded")
            THEN CHOOSE r \in Request : Reports(r, "succeeded") ELSE NoOne
Effect == INSTANCE IdempotentEffect WITH
            bound <- row.payload,
            owner <- row.owner,
            done <- (row.status = "succeeded"),
            credit <- Credited

(***************************************************************************)
(* Every behaviour of the row is one of IdempotentEffect: the key keeps    *)
(* its payload, the one credited with the success held it when it was      *)
(* recorded, and a success is final.                                       *)
(***************************************************************************)
IsIdempotent == Effect!Spec
=============================================================================
