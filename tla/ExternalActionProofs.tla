------------------------- MODULE ExternalActionProofs -------------------------
(***************************************************************************)
(* Proofs about ExternalAction, for every number of requests and payloads  *)
(* and every lease longer than a prompt call: the inductive invariant,     *)
(* from it the safety properties, and the step simulation that makes the   *)
(* row an implementation of IdempotentEffect.                              *)
(*                                                                         *)
(* OneSuccess and RepliesAreTrue speak of answers given long ago, so the   *)
(* invariant says what stays true of the row since: it keeps its payload   *)
(* (Bound) and a success is final (Told).  OneSender compares two clocks,  *)
(* so the invariant says who may still believe to hold the row: its owner, *)
(* or a request whose own lease is over by now (Fenced, Clocked).          *)
(***************************************************************************)
EXTENDS ExternalAction, TLAPS

\* the row has a payload exactly when it exists, and whoever read it or wrote
\* it asks for that payload
Bound == /\ row.status = "none" <=> row.payload = NoPayload
         /\ \A r \in Request : request[r].pc # "idle" => request[r].payload \in Payload
         /\ \A r \in Request :
              request[r].pc \in {"takeOver", "reread", "call", "wait", "settle"} =>
                row.status # "none" /\ row.payload = request[r].payload
         /\ \A r \in Request : At(r, "read") => row.status # "none"

\* nobody was told anything before it is answered, and what it was told is true
Told == /\ \A r \in Request : ~At(r, "answered") => request[r].reply = "none"
        /\ OneSuccess
        /\ RepliesAreTrue

\* a request that waits called after its claim, and both are past
Clocked == \A r \in Request :
             /\ request[r].at <= now
             /\ At(r, "wait") => request[r].at <= request[r].sent /\ request[r].sent <= now

\* whoever acts as a holder owns the row, or its lease is over
Fenced == \A r \in Request :
            request[r].pc \in {"call", "wait", "settle"} =>
              \/ row = ClaimOf(r)
              \/ request[r].at + Lease <= now

IInv == TypeOK /\ Bound /\ Told /\ Clocked /\ Fenced

-----------------------------------------------------------------------------
(* The invariant is inductive *)

LEMMA InitInv == Init => IInv
<1> SUFFICES ASSUME Init PROVE IInv OBVIOUS
<1> USE DEF Init, NoRow, Idle
<1>1. TypeOK BY TimesAssumption DEF TypeOK, RowStatus, PC, Reply
<1>2. Bound BY DEF Bound, At
<1>3. Told BY DEF Told, OneSuccess, RepliesAreTrue, Reports, At
<1>4. Clocked
  <2>1. SUFFICES ASSUME NEW r \in Request PROVE request[r].at <= now /\ ~At(r, "wait")
    BY DEF Clocked
  <2>2. request[r].at = 0 /\ request[r].pc = "idle" /\ now = 0 OBVIOUS
  <2>3. 0 <= 0 OBVIOUS
  <2> HIDE DEF Init, Idle
  <2> QED BY <2>2, <2>3 DEF At
<1>5. Fenced BY DEF Fenced
<1> QED BY <1>1, <1>2, <1>3, <1>4, <1>5 DEF IInv

\* The records that rows and requests are made of.
RowRecord == [status : RowStatus, owner : Request \cup {NoOne}, lease : Nat,
              payload : Payload \cup {NoPayload}]
RequestRecord == [pc : PC, payload : Payload \cup {NoPayload}, at : Nat, sent : Nat,
                  outcome : {"succeeded", "failed"}, reply : Reply]

LEMMA PCs ==
  /\ "idle" \in PC /\ "insert" \in PC /\ "read" \in PC
  /\ "takeOver" \in PC /\ "reread" \in PC /\ "call" \in PC
  /\ "wait" \in PC /\ "settle" \in PC /\ "answered" \in PC
BY DEF PC

LEMMA Replies ==
  /\ "none" \in Reply /\ "conflict" \in Reply /\ "replay" \in Reply
  /\ "in_progress" \in Reply /\ "succeeded" \in Reply /\ "failed" \in Reply
  /\ "lost" \in Reply
BY DEF Reply

LEMMA Updates ==
  ASSUME TypeOK, NEW r \in Request
  PROVE  /\ ClaimOf(r) \in RowRecord
         /\ \A pc \in PC : [request EXCEPT ![r].pc = pc] \in [Request -> RequestRecord]
         /\ \A pc \in PC, reply \in Reply :
              [request EXCEPT ![r].pc = pc, ![r].reply = reply] \in [Request -> RequestRecord]
         /\ \A pc \in PC, sent \in Nat :
              [request EXCEPT ![r].pc = pc, ![r].sent = sent] \in [Request -> RequestRecord]
         /\ \A pc \in PC, outcome \in {"succeeded", "failed"} :
              [request EXCEPT ![r].pc = pc, ![r].outcome = outcome]
                \in [Request -> RequestRecord]
<1>1. request \in [Request -> RequestRecord] BY DEF TypeOK, RequestRecord
<1>2. request[r] \in RequestRecord BY <1>1
<1>3. ClaimOf(r) \in RowRecord
  <2> DEFINE lease == request[r].at + Lease
  <2>1. lease \in Nat BY <1>2, TimesAssumption DEF RequestRecord
  <2>2. request[r].payload \in Payload \cup {NoPayload} BY <1>2 DEF RequestRecord
  <2>3. "running" \in RowStatus BY DEF RowStatus
  <2> HIDE DEF lease
  <2>4. [status |-> "running", owner |-> r, lease |-> lease, payload |-> request[r].payload]
          \in RowRecord
    BY <2>1, <2>2, <2>3 DEF RowRecord
  <2> QED BY <2>4 DEF ClaimOf, lease
<1> QED BY <1>1, <1>2, <1>3 DEF RequestRecord

LEMMA GotoTypes ==
  ASSUME TypeOK, NEW r \in Request, NEW pc \in PC, Goto(r, pc)
  PROVE  request' \in [Request -> RequestRecord]
BY Updates DEF Goto

LEMMA AnswerTypes ==
  ASSUME TypeOK, NEW r \in Request, NEW reply \in Reply, Answer(r, reply)
  PROVE  request' \in [Request -> RequestRecord]
<1>1. "answered" \in PC BY PCs
<1> QED BY <1>1, Updates DEF Answer

LEMMA StepTypes ==
  ASSUME TypeOK, NEW r \in Request, Step(r) PROVE TypeOK'
<1>1. row \in RowRecord /\ request \in [Request -> RequestRecord] /\ now \in Nat
  BY DEF TypeOK, RowRecord, RequestRecord
<1>2. SUFFICES row' \in RowRecord /\ request' \in [Request -> RequestRecord] /\ now' \in Nat
  BY DEF TypeOK, RowRecord, RequestRecord
<1>3. now' = now
  BY DEF Step, Claim, Route, Begin, Insert, Read, TakeOver, Reread, Call, NotConfigured, Returns,
         Settle, Crash
<1>4. request[r] \in RequestRecord /\ request[r].outcome \in {"succeeded", "failed"}
  BY <1>1 DEF RequestRecord
<1>5. row' \in RowRecord
  <2>1. ASSUME Settle(r) PROVE row' \in RowRecord
    <3>1. request[r].outcome \in RowStatus BY <1>4 DEF RowStatus
    <3>2. [row EXCEPT !.status = request[r].outcome, !.owner = NoOne, !.lease = 0] \in RowRecord
      BY <1>1, <3>1 DEF RowRecord
    <3> QED BY <1>1, <2>1, <3>2 DEF Settle
  <2>2. row' = row \/ row' = ClaimOf(r) \/ Settle(r)
    BY DEF Step, Claim, Route, Begin, Insert, Read, TakeOver, Reread, Call, NotConfigured,
           Returns, Crash
  <2> QED BY <1>1, <2>1, <2>2, Updates
<1>6. request' \in [Request -> RequestRecord]
  <2>1. CASE Begin(r)
    <3>1. PICK payload \in Payload :
            request' = [request EXCEPT ![r] = [Idle EXCEPT !.pc = "insert", !.payload = payload,
                                                           !.at = now]]
      BY <2>1 DEF Begin
    <3>2. [pc |-> "insert", payload |-> payload, at |-> now, sent |-> 0, outcome |-> "failed",
           reply |-> "none"] \in RequestRecord
      BY <1>1, PCs, Replies DEF RequestRecord
    <3> QED BY <1>1, <3>1, <3>2 DEF Idle
  <2>2. CASE Insert(r) BY <2>2, GotoTypes, PCs DEF Insert
  <2>3. CASE Read(r) BY <2>3, GotoTypes, AnswerTypes, PCs, Replies DEF Read
  <2>4. CASE TakeOver(r) BY <2>4, GotoTypes, PCs DEF TakeOver
  <2>5. CASE Reread(r)
    <3>1. CASE row.status = "succeeded" BY <2>5, <3>1, AnswerTypes, Replies DEF Reread
    <3>2. CASE row.status # "succeeded" BY <2>5, <3>2, AnswerTypes, Replies DEF Reread
    <3> QED BY <3>1, <3>2
  <2>6. CASE Call(r) BY <2>6, <1>1, Updates, PCs DEF Call
  <2>7. CASE NotConfigured(r) BY <2>7, GotoTypes, PCs DEF NotConfigured
  <2>8. CASE Returns(r)
    <3>1. PICK outcome \in {"succeeded", "failed"} :
            request' = [request EXCEPT ![r].pc = "settle", ![r].outcome = outcome]
      BY <2>8 DEF Returns
    <3>2. "settle" \in PC BY PCs
    <3> QED BY <3>1, <3>2, Updates
  <2>9. CASE Settle(r)
    <3>1. request[r].outcome \in Reply BY <1>4, Replies
    <3> QED BY <2>9, <3>1, AnswerTypes, Replies DEF Settle
  <2>10. CASE Crash(r)
    <3>1. Goto(r, "answered") BY <2>10 DEF Crash
    <3> QED BY <3>1, GotoTypes, PCs
  <2> QED BY <2>1, <2>2, <2>3, <2>4, <2>5, <2>6, <2>7, <2>8, <2>9, <2>10 DEF Step, Claim, Route
<1> QED BY <1>1, <1>3, <1>5, <1>6

\* What a step of r leaves alone: the clock, the other requests, and, once it
\* began, its payload and the time of its claim.
LEMMA Frame ==
  ASSUME TypeOK, NEW r \in Request, Step(r)
  PROVE  /\ now' = now
         /\ \A q \in Request : q # r => request'[q] = request[q]
         /\ ~At(r, "idle") => /\ request'[r].payload = request[r].payload
                              /\ request'[r].at = request[r].at
                              /\ ClaimOf(r)' = ClaimOf(r)
         /\ \A q \in Request : q # r => ClaimOf(q)' = ClaimOf(q)
<1>1. request \in [Request -> RequestRecord] /\ request[r] \in RequestRecord
  BY DEF TypeOK, RequestRecord
<1>2. now' = now
  BY DEF Step, Claim, Route, Begin, Insert, Read, TakeOver, Reread, Call, NotConfigured, Returns,
         Settle, Crash
<1>3. \A q \in Request : q # r => request'[q] = request[q]
  BY <1>1 DEF Step, Claim, Route, Begin, Insert, Read, TakeOver, Reread, Call, NotConfigured,
              Returns, Settle, Crash, Goto, Answer
<1>4. ASSUME ~At(r, "idle")
      PROVE  request'[r].payload = request[r].payload /\ request'[r].at = request[r].at
  <2> DEFINE Same == request'[r].payload = request[r].payload /\ request'[r].at = request[r].at
  <2>1. CASE Begin(r) BY <1>4, <2>1 DEF Begin
  <2>2. \A pc \in PC : Goto(r, pc) => Same BY <1>1 DEF Goto, RequestRecord
  <2>3. \A reply \in Reply : Answer(r, reply) => Same BY <1>1 DEF Answer, RequestRecord
  <2>4. CASE Insert(r) BY <2>4, <2>2, PCs DEF Insert
  <2>5. CASE Read(r) BY <2>5, <2>2, <2>3, PCs, Replies DEF Read
  <2>6. CASE TakeOver(r) BY <2>6, <2>2, PCs DEF TakeOver
  <2>7. CASE Reread(r) BY <1>1, <2>7 DEF Reread, Answer, RequestRecord
  <2>8. CASE Call(r) BY <1>1, <2>8 DEF Call, RequestRecord
  <2>9. CASE NotConfigured(r) BY <2>9, <2>2, PCs DEF NotConfigured
  <2>10. CASE Returns(r) BY <1>1, <2>10 DEF Returns, RequestRecord
  <2>11. CASE Settle(r) BY <1>1, <2>11 DEF Settle, Answer, RequestRecord
  <2>12. CASE Crash(r) BY <1>1, <2>12 DEF Crash, Goto, RequestRecord
  <2> QED BY <2>1, <2>4, <2>5, <2>6, <2>7, <2>8, <2>9, <2>10, <2>11, <2>12
          DEF Step, Claim, Route
<1> QED BY <1>2, <1>3, <1>4 DEF ClaimOf

\* The row changes in two ways only: a request without a holder's rights takes
\* it, or its owner settles it.
Takes(r) == /\ \/ At(r, "insert") /\ row.status = "none"
               \/ At(r, "takeOver") /\ Claimable(r)
            /\ row' = ClaimOf(r)
            /\ At(r, "call")' /\ request'[r].reply = request[r].reply
Settles(r) == /\ At(r, "settle") /\ Owns(r)
              /\ row' = [row EXCEPT !.status = request[r].outcome, !.owner = NoOne, !.lease = 0]
              /\ At(r, "answered")' /\ request'[r].reply = request[r].outcome

\* Where r goes while the row stays, and what it may be told there.
Rests(r) ==
  /\ row' = row
  /\ \/ At(r, "idle") /\ At(r, "insert")' /\ request'[r].payload \in Payload
        /\ request'[r].at = now /\ request'[r].reply = "none"
     \/ At(r, "insert") /\ At(r, "read")' /\ row.status # "none"
        /\ request'[r].reply = request[r].reply
     \/ At(r, "read") /\ At(r, "takeOver")' /\ row.payload = request[r].payload
        /\ request'[r].reply = request[r].reply
     \/ At(r, "takeOver") /\ At(r, "reread")' /\ request'[r].reply = request[r].reply
     \/ At(r, "call") /\ At(r, "wait")' /\ request'[r].sent = now
        /\ request'[r].reply = request[r].reply
     \/ request[r].pc \in {"call", "wait"} /\ At(r, "settle")'
        /\ request'[r].reply = request[r].reply
     \/ ~At(r, "idle") /\ ~At(r, "answered") /\ At(r, "answered")'
        /\ \/ request'[r].reply \in {request[r].reply, "in_progress", "lost"}
           \/ At(r, "read") /\ request'[r].reply = "conflict" /\ row.payload # request[r].payload
           \/ request'[r].reply = "replay" /\ row.status = "succeeded"
              /\ row.payload = request[r].payload

LEMMA RequestMoves ==
  ASSUME TypeOK, Bound, NEW r \in Request, Step(r)
  PROVE  Rests(r) \/ Takes(r) \/ Settles(r)
<1>1. request \in [Request -> RequestRecord] /\ request[r] \in RequestRecord
  BY DEF TypeOK, RequestRecord
<1>2. CASE Begin(r) BY <1>1, <1>2 DEF Begin, Idle, Rests, At, RequestRecord
<1>3. CASE Insert(r) BY <1>1, <1>3 DEF Insert, Goto, Takes, Rests, At, RequestRecord
<1>4. CASE Read(r) BY <1>1, <1>4 DEF Read, Goto, Answer, Rests, At, RequestRecord
<1>5. CASE TakeOver(r) BY <1>1, <1>5 DEF TakeOver, Goto, Takes, Rests, At, RequestRecord
<1>6. CASE Reread(r)
  <2>1. row.payload = request[r].payload BY <1>6 DEF Reread, Bound, At
  <2> QED BY <1>1, <1>6, <2>1 DEF Reread, Answer, Rests, At, RequestRecord
<1>7. CASE Call(r) BY <1>1, <1>7 DEF Call, Rests, At, RequestRecord
<1>8. CASE NotConfigured(r) BY <1>1, <1>8 DEF NotConfigured, Goto, Rests, At, RequestRecord
<1>9. CASE Returns(r) BY <1>1, <1>9 DEF Returns, Rests, At, RequestRecord
<1>10. CASE Settle(r) BY <1>1, <1>10 DEF Settle, Answer, Settles, Rests, At, RequestRecord
<1>11. CASE Crash(r) BY <1>1, <1>11 DEF Crash, Goto, Rests, At, RequestRecord
<1> QED BY <1>2, <1>3, <1>4, <1>5, <1>6, <1>7, <1>8, <1>9, <1>10, <1>11 DEF Step, Claim, Route

-----------------------------------------------------------------------------
(* The invariant is inductive: each part over a step of a request *)

LEMMA StepBound ==
  ASSUME IInv, NEW r \in Request, Step(r) PROVE Bound'
<1>1. TypeOK /\ Bound BY DEF IInv
<1>2. /\ \A q \in Request : q # r => request'[q] = request[q]
      /\ ~At(r, "idle") => request'[r].payload = request[r].payload
  BY <1>1, Frame
<1>3. CASE Rests(r) BY <1>1, <1>2, <1>3 DEF Bound, Rests, At
<1>4. CASE Takes(r)
  <2>1. request[r].payload \in Payload /\ row' = ClaimOf(r)
    BY <1>1, <1>4 DEF Takes, At, Bound
  <2>2. row'.status = "running" /\ row'.payload = request[r].payload
    BY <2>1 DEF ClaimOf
  <2>3. row.status # "none" => row.payload = request[r].payload
    BY <1>1, <1>4 DEF Takes, Bound, At
  <2> QED BY <1>1, <1>2, <1>4, <2>1, <2>2, <2>3, NamesAssumption DEF Bound, Takes, At
<1>5. CASE Settles(r)
  <2>1. row'.status # "none" /\ row'.payload = row.payload /\ row.status # "none"
    BY <1>1, <1>5 DEF Settles, Owns, TypeOK
  <2> QED BY <1>1, <1>2, <1>5, <2>1 DEF Bound, Settles, At
<1> QED BY <1>1, <1>3, <1>4, <1>5, RequestMoves

LEMMA StepTold ==
  ASSUME IInv, NEW r \in Request, Step(r) PROVE Told'
<1>1. TypeOK /\ Bound /\ Told BY DEF IInv
<1>2. /\ \A q \in Request : q # r => request'[q] = request[q]
      /\ ~At(r, "idle") => request'[r].payload = request[r].payload
  BY <1>1, Frame
<1>3. CASE Rests(r)
  <2>1. \A q \in Request : ~At(q, "answered")' => request'[q].reply = "none"
    BY <1>1, <1>2, <1>3 DEF Told, Rests, At
  <2>2. RepliesAreTrue'
    BY <1>1, <1>2, <1>3 DEF Told, Bound, RepliesAreTrue, Reports, Rests, At
  <2>3. \A q \in Request : Reports(q, "succeeded")' => Reports(q, "succeeded")
    BY <1>1, <1>2, <1>3 DEF Told, Reports, Rests, At
  <2>4. OneSuccess' BY <1>1, <2>3 DEF Told, OneSuccess
  <2> QED BY <2>1, <2>2, <2>4 DEF Told
<1>4. CASE Takes(r)
  <2>1. row.status # "succeeded" /\ row'.payload = request[r].payload
    BY <1>4 DEF Takes, Claimable, ClaimOf
  <2>2. row.status # "none" => row.payload = request[r].payload
    BY <1>1, <1>4 DEF Takes, Bound, At
  <2>3. \A q \in Request : ~Reports(q, "succeeded") /\ ~Reports(q, "replay")
    BY <1>1, <2>1 DEF Told, RepliesAreTrue
  <2>4. \A q \in Request : Reports(q, "conflict") => row'.payload \notin {NoPayload, request[q].payload}
    BY <1>1, <1>4, <2>1, <2>2 DEF Told, RepliesAreTrue, Bound
  <2>5. \A q \in Request, reply \in Reply : Reports(q, reply)' => q # r /\ Reports(q, reply)
    BY <1>2, <1>4 DEF Takes, Reports, At
  <2>6. RepliesAreTrue' BY <1>2, <2>3, <2>4, <2>5, Replies DEF RepliesAreTrue
  <2>7. OneSuccess' BY <2>3, <2>5, Replies DEF OneSuccess
  <2>8. \A q \in Request : ~At(q, "answered")' => request'[q].reply = "none"
    BY <1>1, <1>2, <1>4 DEF Told, Takes, At
  <2> QED BY <2>6, <2>7, <2>8 DEF Told
<1>5. CASE Settles(r)
  <2>1. /\ row.status = "running" /\ row'.payload = row.payload
        /\ row'.status = request[r].outcome /\ row.payload = request[r].payload
        /\ request[r].outcome \in {"succeeded", "failed"}
    BY <1>1, <1>5 DEF Settles, Owns, TypeOK, Bound, At
  <2>2. \A q \in Request : ~Reports(q, "succeeded") /\ ~Reports(q, "replay")
    BY <1>1, <2>1 DEF Told, RepliesAreTrue
  <2>3. \A q \in Request, reply \in Reply : Reports(q, reply)' /\ q # r => Reports(q, reply)
    BY <1>2 DEF Reports, At
  <2>4. \A reply \in Reply : Reports(r, reply)' => reply = request[r].outcome
    BY <1>5 DEF Settles, Reports
  <2>5. request'[r].payload = request[r].payload
    BY <1>2, <1>5 DEF Settles, At
  <2>6. RepliesAreTrue'
    BY <1>1, <1>2, <2>1, <2>2, <2>3, <2>4, <2>5, Replies DEF Told, RepliesAreTrue
  <2>7. OneSuccess' BY <2>2, <2>3, Replies DEF OneSuccess
  <2>8. \A q \in Request : ~At(q, "answered")' => request'[q].reply = "none"
    BY <1>1, <1>2, <1>5 DEF Told, Settles, At
  <2> QED BY <2>6, <2>7, <2>8 DEF Told
<1> QED BY <1>1, <1>3, <1>4, <1>5, RequestMoves

LEMMA StepClocked ==
  ASSUME IInv, NEW r \in Request, Step(r) PROVE Clocked'
<1>1. TypeOK /\ Bound /\ Clocked BY DEF IInv
<1>2. /\ now' = now /\ now \in Nat
      /\ \A q \in Request : q # r => request'[q] = request[q]
      /\ ~At(r, "idle") => request'[r].at = request[r].at
  BY <1>1, Frame DEF TypeOK
<1>3. \A q \in Request : request[q].at \in Nat /\ request[q].sent \in Nat
  BY <1>1 DEF TypeOK
<1>4. request'[r].at <= now
  <2>1. CASE At(r, "idle")
    <3>1. request'[r].at = now
      BY <1>1, <2>1, RequestMoves DEF Rests, Takes, Settles, At
    <3> QED BY <1>2, <3>1
  <2>2. CASE ~At(r, "idle") BY <1>1, <1>2, <2>2 DEF Clocked
  <2> QED BY <2>1, <2>2
<1>5. At(r, "wait")' => request'[r].sent = now /\ ~At(r, "idle")
  BY <1>1, RequestMoves DEF Rests, Takes, Settles, At
<1>6. At(r, "wait")' => request'[r].at <= request'[r].sent /\ request'[r].sent <= now
  BY <1>2, <1>4, <1>5
<1> QED BY <1>1, <1>2, <1>3, <1>4, <1>6 DEF Clocked, At

LEMMA StepFenced ==
  ASSUME IInv, NEW r \in Request, Step(r) PROVE Fenced'
<1>1. TypeOK /\ Bound /\ Clocked /\ Fenced BY DEF IInv
<1>2. /\ now' = now /\ now \in Nat
      /\ \A q \in Request : q # r => request'[q] = request[q]
      /\ ~At(r, "idle") => request'[r].at = request[r].at /\ ClaimOf(r)' = ClaimOf(r)
      /\ \A q \in Request : q # r => ClaimOf(q)' = ClaimOf(q)
  BY <1>1, Frame DEF TypeOK
<1> DEFINE Holds(q) == request[q].pc \in {"call", "wait", "settle"}
           Over(q) == request[q].at + Lease <= now
<1>3. \A q \in Request : Holds(q) => row = ClaimOf(q) \/ Over(q) BY <1>1 DEF Fenced
<1>4. \A q \in Request : q # r => (Holds(q)' <=> Holds(q)) /\ (Over(q)' <=> Over(q))
  BY <1>2
<1>5. SUFFICES \A q \in Request : Holds(q)' => row' = ClaimOf(q)' \/ Over(q)'
  BY DEF Fenced
<1>6. CASE Rests(r)
  <2>1. row' = row /\ (Holds(r)' => Holds(r)) BY <1>6 DEF Rests, At
  <2>2. Holds(r) => ~At(r, "idle") BY DEF At
  <2> HIDE DEF Holds
  <2> QED BY <1>2, <1>3, <1>4, <2>1, <2>2
<1>7. CASE Takes(r)
  <2>1. row' = ClaimOf(r) /\ ~At(r, "idle") BY <1>7 DEF Takes, At
  <2>2. ASSUME NEW q \in Request, q # r, Holds(q) PROVE Over(q)
    <3>1. ~Over(q) => row = ClaimOf(q) BY <1>3, <2>2
    <3>2. row = ClaimOf(q) => row.status = "running" /\ row.lease = request[q].at + Lease
      BY DEF ClaimOf
    <3>3. row = ClaimOf(q) => row.lease <= request[r].at BY <1>7, <3>2 DEF Takes, Claimable
    <3>4. request[r].at <= now /\ request[r].at \in Nat /\ request[q].at \in Nat
      BY <1>1 DEF Clocked, TypeOK
    <3> QED BY <1>2, <3>1, <3>2, <3>3, <3>4, TimesAssumption
  <2> HIDE DEF Holds, Over
  <2> QED BY <1>2, <1>4, <2>1, <2>2
<1>8. CASE Settles(r)
  <2>1. ~Holds(r)' BY <1>8 DEF Settles, At
  <2>2. ASSUME NEW q \in Request, q # r, row = ClaimOf(q) PROVE FALSE
    BY <1>8, <2>2 DEF Settles, Owns, ClaimOf
  <2> HIDE DEF Holds, Over
  <2> QED BY <1>3, <1>4, <2>1, <2>2
<1> HIDE DEF Holds, Over
<1> QED BY <1>1, <1>6, <1>7, <1>8, RequestMoves

LEMMA NextInv == IInv /\ [Next]_vars => IInv'
<1> SUFFICES ASSUME IInv, [Next]_vars PROVE IInv' OBVIOUS
<1>1. ASSUME NEW r \in Request, Step(r) PROVE IInv'
  BY <1>1, StepTypes, StepBound, StepTold, StepClocked, StepFenced DEF IInv
<1>2. CASE Tick
  <2>1. now \in Nat /\ now' = now + 1 /\ row' = row /\ request' = request
    BY <1>2 DEF Tick, IInv, TypeOK
  <2>2. \A r \in Request : request[r].at \in Nat /\ request[r].sent \in Nat
    BY DEF IInv, TypeOK
  <2>3. TypeOK' BY <2>1 DEF IInv, TypeOK
  <2>4. Bound' BY <2>1 DEF IInv, Bound, At
  <2>5. Told' BY <2>1 DEF IInv, Told, OneSuccess, RepliesAreTrue, Reports, At
  <2>6. Clocked' BY <2>1, <2>2 DEF IInv, Clocked, At
  <2>7. Fenced'
    <3>1. \A r \in Request : request[r].at + Lease \in Nat BY <2>2, TimesAssumption
    <3>2. \A r \in Request : request[r].at + Lease <= now => request[r].at + Lease <= now'
      BY <2>1, <3>1
    <3> QED BY <2>1, <3>2 DEF IInv, Fenced, ClaimOf
  <2> QED BY <2>3, <2>4, <2>5, <2>6, <2>7 DEF IInv
<1>3. CASE UNCHANGED vars
  BY <1>3 DEF vars, IInv, TypeOK, Bound, Told, OneSuccess, RepliesAreTrue, Reports, Clocked,
              Fenced, ClaimOf, At
<1> QED BY <1>1, <1>2, <1>3 DEF Next

-----------------------------------------------------------------------------
(* Theorems *)

LEMMA Invariance == Spec => []IInv
BY InitInv, NextInv, PTL DEF Spec

(***************************************************************************)
(* Rows and requests keep their types for every number of requests and     *)
(* payloads and every length of the lease.                                 *)
(***************************************************************************)
THEOREM TypeCorrect == Spec => []TypeOK
<1>1. IInv => TypeOK BY DEF IInv
<1> QED BY <1>1, Invariance, PTL

(***************************************************************************)
(* Two prompt calls of the connector never overlap: claimExternalAction    *)
(* lets nobody in before the lease of a prompt holder is over.             *)
(***************************************************************************)
THEOREM OneSenderAlways == Spec => []OneSender
<1>1. IInv => OneSender
  <2> SUFFICES ASSUME IInv, NEW r \in Request, NEW q \in Request, InFlight(r), InFlight(q)
               PROVE  r = q
    BY DEF OneSender
  <2>1. ASSUME NEW p \in Request, InFlight(p) PROVE row = ClaimOf(p)
    <3>1. row = ClaimOf(p) \/ request[p].at + Lease <= now
      BY <2>1 DEF IInv, Fenced, InFlight, At
    <3>2. request[p].at \in Nat /\ request[p].sent \in Nat /\ now \in Nat
      BY DEF IInv, TypeOK
    <3>3. request[p].sent <= request[p].at + Delay /\ now <= request[p].sent + Timeout
      BY <2>1 DEF InFlight
    <3>4. ~(request[p].at + Lease <= now) BY <3>2, <3>3, TimesAssumption
    <3> QED BY <3>1, <3>4
  <2>2. row = ClaimOf(r) /\ row = ClaimOf(q) BY <2>1
  <2> QED BY <2>2 DEF ClaimOf
<1> QED BY <1>1, Invariance, PTL

(***************************************************************************)
(* Only one request of a key is told that it succeeded, however many lost  *)
(* their lease and came back late (completeExternalAction).                *)
(***************************************************************************)
THEOREM OneSuccessAlways == Spec => []OneSuccess
<1>1. IInv => OneSuccess BY DEF IInv, Told
<1> QED BY <1>1, Invariance, PTL

(***************************************************************************)
(* A success, a replay or a conflict that a request was told stays true of *)
(* the row for ever.                                                       *)
(***************************************************************************)
THEOREM RepliesStayTrue == Spec => []RepliesAreTrue
<1>1. IInv => RepliesAreTrue BY DEF IInv, Told
<1> QED BY <1>1, Invariance, PTL

\* Credited is the one request that was told of a success.
LEMMA CreditedOne ==
  ASSUME OneSuccess, NEW r \in Request, Reports(r, "succeeded")
  PROVE  Credited = r
<1>1. \E q \in Request : Reports(q, "succeeded") OBVIOUS
<1>2. Credited \in Request /\ Reports(Credited, "succeeded") BY <1>1 DEF Credited
<1> QED BY <1>2 DEF OneSuccess

LEMMA CreditedNone ==
  ASSUME \A r \in Request : ~Reports(r, "succeeded") PROVE Credited = NoOne
BY DEF Credited

\* While nobody is told of a success the credit stays where it is.
LEMMA CreditStays ==
  ASSUME IInv, IInv', \A q \in Request : Reports(q, "succeeded")' <=> Reports(q, "succeeded")
  PROVE  Credited' = Credited
<1>1. CASE \E q \in Request : Reports(q, "succeeded")
  <2>1. PICK q \in Request : Reports(q, "succeeded") BY <1>1
  <2>2. OneSuccess /\ OneSuccess' BY DEF IInv, Told
  <2>3. Credited = q BY <2>1, <2>2, CreditedOne
  <2>4. Reports(q, "succeeded")' BY <2>1
  <2>5. Credited' = q
    <3>1. Credited' \in Request /\ Reports(Credited, "succeeded")' BY <2>4 DEF Credited
    <3> QED BY <2>2, <2>4, <3>1 DEF OneSuccess
  <2> QED BY <2>3, <2>5
<1>2. CASE \A q \in Request : ~Reports(q, "succeeded")
  <2>1. Credited = NoOne BY <1>2, CreditedNone
  <2>2. \A q \in Request : ~Reports(q, "succeeded")' BY <1>2
  <2>3. Credited' = NoOne BY <2>2 DEF Credited
  <2> QED BY <2>1, <2>3
<1> QED BY <1>1, <1>2

\* Every step is one of IdempotentEffect or leaves its variables alone.
LEMMA StepRefines ==
  ASSUME IInv, IInv', NEW r \in Request, Step(r)
  PROVE  [Effect!Next]_(Effect!vars)
<1>1. TypeOK /\ Bound /\ Told BY DEF IInv
<1>2. \A q \in Request : q # r => request'[q] = request[q] BY <1>1, Frame
<1>3. CASE Rests(r)
  <2>1. \A q \in Request : Reports(q, "succeeded")' <=> Reports(q, "succeeded")
    BY <1>1, <1>2, <1>3, RequestMoves DEF Rests, Reports, Told, At
  <2>2. Credited' = Credited /\ row' = row BY <1>3, <2>1, CreditStays DEF Rests
  <2> QED BY <2>2 DEF Effect!vars
<1>4. CASE Takes(r)
  <2>1. \A q \in Request : Reports(q, "succeeded")' <=> Reports(q, "succeeded")
    BY <1>1, <1>2, <1>4 DEF Takes, Reports, Told, At
  <2>2. Credited' = Credited BY <2>1, CreditStays
  <2>3. row.status # "succeeded" /\ row'.status # "succeeded" /\ row'.owner = r
        /\ row'.payload = request[r].payload /\ request[r].payload \in Payload
    BY <1>1, <1>4 DEF Takes, Claimable, ClaimOf, Bound, At
  <2>4. row.payload \in {NoPayload, request[r].payload}
    BY <1>1, <1>4 DEF Takes, Bound, At
  <2>5. Effect!Acquire(r, request[r].payload) BY <2>2, <2>3, <2>4 DEF Effect!Acquire
  <2> QED BY <2>3, <2>5 DEF Effect!Next
<1>5. CASE Settles(r)
  <2>1. /\ row.status = "running" /\ row.owner = r /\ row'.owner = NoOne
        /\ row'.payload = row.payload /\ row'.status = request[r].outcome
        /\ request[r].outcome \in {"succeeded", "failed"}
    BY <1>1, <1>5 DEF Settles, Owns, TypeOK
  <2>2. CASE request[r].outcome = "succeeded"
    <3>1. Reports(r, "succeeded")' BY <1>5, <2>2 DEF Settles, Reports
    <3>2. Credited' = r
      <4>1. Credited' \in Request /\ Reports(Credited, "succeeded")' BY <3>1 DEF Credited
      <4>2. OneSuccess' BY DEF IInv, Told
      <4> QED BY <3>1, <4>1, <4>2 DEF OneSuccess
    <3>3. Effect!Perform(r) BY <2>1, <2>2, <3>2 DEF Effect!Perform
    <3> QED BY <3>3 DEF Effect!Next
  <2>3. CASE request[r].outcome = "failed"
    <3>1. \A q \in Request : Reports(q, "succeeded")' <=> Reports(q, "succeeded")
      BY <1>1, <1>2, <1>5, <2>3 DEF Settles, Reports, Told, At
    <3>2. Credited' = Credited BY <3>1, CreditStays
    <3>3. Effect!Release(r) BY <2>1, <2>3, <3>2 DEF Effect!Release
    <3> QED BY <3>3 DEF Effect!Next
  <2> QED BY <2>1, <2>2, <2>3
<1> QED BY <1>1, <1>3, <1>4, <1>5, RequestMoves

(***************************************************************************)
(* The row of an idempotency key, with its unique index, leases, fenced    *)
(* settlements, late answers and crashes, implements IdempotentEffect.     *)
(***************************************************************************)
THEOREM Refinement == Spec => IsIdempotent
<1>1. Init => Effect!Init
  <2> SUFFICES ASSUME Init PROVE Effect!Init OBVIOUS
  <2>1. \A r \in Request : ~Reports(r, "succeeded") BY DEF Init, Idle, Reports, At
  <2>2. Credited = NoOne BY <2>1, CreditedNone
  <2> QED BY <2>2 DEF Init, NoRow, Effect!Init
<1>2. IInv /\ IInv' /\ [Next]_vars => [Effect!Next]_(Effect!vars)
  <2> SUFFICES ASSUME IInv, IInv', [Next]_vars PROVE [Effect!Next]_(Effect!vars) OBVIOUS
  <2>1. ASSUME NEW r \in Request, Step(r) PROVE [Effect!Next]_(Effect!vars)
    BY <2>1, StepRefines
  <2>2. ASSUME UNCHANGED <<row, request>> PROVE [Effect!Next]_(Effect!vars)
    <3>1. Credited' = Credited BY <2>2 DEF Credited, Reports, At
    <3> QED BY <2>2, <3>1 DEF Effect!vars
  <2> QED BY <2>1, <2>2 DEF Next, Tick, vars
<1> QED BY <1>1, <1>2, Invariance, PTL DEF Spec, IsIdempotent, Effect!Spec
=============================================================================
