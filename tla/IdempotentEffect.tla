--------------------------- MODULE IdempotentEffect ---------------------------
(***************************************************************************)
(* What an idempotency key promises, whatever the statements behind it: a  *)
(* key is bound to one payload, at most one request holds it at a time,    *)
(* only its holder can settle it, and once it is done it stays done and    *)
(* nobody acquires it again.  A holder may be replaced at any time: that a *)
(* lease must have run out first is the business of the implementation.    *)
(***************************************************************************)
CONSTANTS Request, Payload, NoOne, NoPayload

VARIABLES
  bound,  \* the payload of the key
  owner,  \* the request that holds it
  done,   \* the effect is recorded as performed
  credit  \* the request that is told it performed it

vars == <<bound, owner, done, credit>>

Init == bound = NoPayload /\ owner = NoOne /\ done = FALSE /\ credit = NoOne

Acquire(r, payload) ==
  /\ ~done
  /\ bound \in {NoPayload, payload}
  /\ bound' = payload
  /\ owner' = r
  /\ UNCHANGED <<done, credit>>

Release(r) ==
  /\ owner = r
  /\ owner' = NoOne
  /\ UNCHANGED <<bound, done, credit>>

Perform(r) ==
  /\ owner = r
  /\ done' = TRUE
  /\ credit' = r
  /\ owner' = NoOne
  /\ UNCHANGED bound

Next == \E r \in Request :
          (\E payload \in Payload : Acquire(r, payload)) \/ Release(r) \/ Perform(r)

Spec == Init /\ [][Next]_vars
=============================================================================
