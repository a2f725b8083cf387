----------------------------- MODULE DeliveryClaim -----------------------------
(***************************************************************************)
(* The delivery of a completed work item as a pull request: the maker's    *)
(* commit evidence, the claim with its lease of a minute, the push and the *)
(* pull request at the Git host, and the settlement.  Requests overlap,    *)
(* outlive their lease, and die; the host may answer late or not at all.   *)
(***************************************************************************)
EXTENDS Integers, FiniteSets

CONSTANTS
  Request,
  Commit, NoCommit,
  MaxClaims          \* bound: claims of the delivery

VARIABLES
  delivery,   \* [status, owner, expired, claims] of the work item
  commit,     \* the maker's commit and whether the item is completed
  writer,     \* a maker that read the evidence before it writes its own
  request,    \* where a deliver request stands, and the claim it holds
  pulls,      \* pull requests of the branch at the host
  told        \* what a request was answered

vars == <<delivery, commit, writer, request, pulls, told>>

DeliveryStatus == {"pending", "ready", "delivering", "delivered", "failed"}
AtRest == [pc |-> "idle", owner |-> 0]

TypeOK ==
  /\ delivery \in [status : DeliveryStatus, owner : 0 .. MaxClaims, expired : BOOLEAN,
                   claims : 0 .. MaxClaims]
  /\ commit \in [sha : Commit \union {NoCommit}, completed : BOOLEAN]
  /\ writer \in Commit \union {NoCommit}
  /\ request \in [Request -> [pc : {"idle", "reread", "push", "find", "create", "succeed", "fail"},
                              owner : 0 .. MaxClaims]]
  /\ pulls \in Nat /\ told \in [Request -> {"nothing", "delivered", "failed"}]

Init ==
  /\ delivery = [status |-> "pending", owner |-> 0, expired |-> FALSE, claims |-> 0]
  /\ commit = [sha |-> NoCommit, completed |-> FALSE] /\ writer = NoCommit
  /\ request = [r \in Request |-> AtRest] /\ pulls = 0
  /\ told = [r \in Request |-> "nothing"]

At(r, pc) == request[r].pc = pc
Goto(r, pc) == request' = [request EXCEPT ![r].pc = pc]

-----------------------------------------------------------------------------
(* recordDeliveryCommit and finalizeWorkItem.                              *)

ReadEvidence(c) ==
  /\ writer = NoCommit /\ ~commit.completed /\ commit.sha \in {NoCommit, c}
  /\ writer' = c
  /\ UNCHANGED <<delivery, commit, request, pulls, told>>

\* Only where there is none: evidence is immutable.
RecordDeliveryCommit ==
  /\ writer # NoCommit
  /\ commit' = [commit EXCEPT !.sha = IF @ = NoCommit THEN writer ELSE @]
  /\ writer' = NoCommit
  /\ UNCHANGED <<delivery, request, pulls, told>>

FinalizeWorkItem ==
  /\ ~commit.completed /\ commit.sha # NoCommit
  /\ commit' = [commit EXCEPT !.completed = TRUE]
  /\ delivery' = [delivery EXCEPT !.status = "ready"]
  /\ UNCHANGED <<writer, request, pulls, told>>

-----------------------------------------------------------------------------
(* POST work-items/:id/deliver.                                            *)

Claimable == \/ delivery.status \in {"ready", "failed"}
             \/ delivery.status = "delivering" /\ delivery.expired

\* A compare-and-set with a new owner ...
ClaimDelivery(r) ==
  /\ At(r, "idle") /\ commit.completed /\ Claimable /\ delivery.claims < MaxClaims
  /\ delivery' = [status |-> "delivering", owner |-> delivery.claims + 1, expired |-> FALSE,
                  claims |-> delivery.claims + 1]
  /\ Goto(r, "reread")
  /\ UNCHANGED <<commit, writer, pulls, told>>

\* ... and the row is read again: the owner the request goes on with is the row's.
Reread(r) ==
  /\ At(r, "reread")
  /\ request' = [request EXCEPT ![r] = IF delivery.owner = 0 THEN AtRest
                                       ELSE [pc |-> "push", owner |-> delivery.owner]]
  /\ UNCHANGED <<delivery, commit, writer, pulls, told>>

\* The push names the recorded commit: another one of the same request changes nothing.
Push(r) ==
  /\ At(r, "push") /\ \E pc \in {"find", "fail"} : Goto(r, pc)
  /\ UNCHANGED <<delivery, commit, writer, pulls, told>>

FindPull(r) ==
  /\ At(r, "find")
  /\ \/ Goto(r, IF pulls > 0 THEN "succeed" ELSE "create")
     \/ Goto(r, "fail")
  /\ UNCHANGED <<delivery, commit, writer, pulls, told>>

\* The host has one open pull request for a branch: a second one is refused. The answer
\* to a request that was carried out may be lost.
CreatePull(r) ==
  /\ At(r, "create")
  /\ \/ pulls = 0 /\ pulls' = 1 /\ \E pc \in {"succeed", "fail"} : Goto(r, pc)
     \/ Goto(r, "fail") /\ UNCHANGED pulls
  /\ UNCHANGED <<delivery, commit, writer, told>>

OwnsMutant(r) == request[r].owner > 0
Owns(r) == delivery.status = "delivering" /\ delivery.owner = request[r].owner

\* A request that lost its claim is answered with an error.
CompleteDelivery(r) ==
  /\ request[r].pc \in {"succeed", "fail"}
  /\ LET outcome == IF At(r, "succeed") THEN "delivered" ELSE "failed" IN
     IF Owns(r)
     THEN /\ delivery' = [delivery EXCEPT !.status = outcome, !.owner = 0, !.expired = FALSE]
          /\ told' = [told EXCEPT ![r] = outcome]
          /\ request' = [request EXCEPT ![r] = AtRest]
     ELSE /\ request' = [request EXCEPT ![r] = IF At(r, "succeed")
                                               THEN [@ EXCEPT !.pc = "fail"] ELSE AtRest]
          /\ told' = [told EXCEPT ![r] = "failed"]
          /\ UNCHANGED delivery
  /\ UNCHANGED <<commit, writer, pulls>>

ExpireLease ==
  /\ delivery.status = "delivering" /\ ~delivery.expired
  /\ delivery' = [delivery EXCEPT !.expired = TRUE]
  /\ UNCHANGED <<commit, writer, request, pulls, told>>

Crash(r) ==
  /\ ~At(r, "idle") /\ request' = [request EXCEPT ![r] = AtRest]
  /\ UNCHANGED <<delivery, commit, writer, pulls, told>>

-----------------------------------------------------------------------------
Deliver(r) == \/ ClaimDelivery(r) \/ Reread(r) \/ Push(r) \/ FindPull(r) \/ CreatePull(r)
              \/ CompleteDelivery(r) \/ Crash(r)
Make == (\E c \in Commit : ReadEvidence(c)) \/ RecordDeliveryCommit \/ FinalizeWorkItem
Next == Make \/ ExpireLease \/ \E r \in Request : Deliver(r)
Spec == Init /\ [][Next]_vars

-----------------------------------------------------------------------------
(* Properties                                                              *)

\* A request that was told its item is delivered is right for good: the pull request
\* exists, and no request that lost its lease, answers late or starts again takes the
\* delivery back.
DeliveredStays ==
  (\E r \in Request : told[r] = "delivered") => delivery.status = "delivered" /\ pulls = 1
=============================================================================
