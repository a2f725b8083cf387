------------------------------ MODULE Knowledge ------------------------------
(***************************************************************************)
(* Learning from delivery: evaluations that turn causes (troubled          *)
(* projects, blocked or failed items, stale objectives) into memory and    *)
(* proposals, the proposals of verified items, and their reviews, each a   *)
(* call of a request or of the daemon.  Facts are left out: the program    *)
(* shows and imports them only.                                            *)
(***************************************************************************)
EXTENDS Naturals, FiniteSets

CONSTANTS
  Cause, Verified,      \* causes, and verified items that ask for a write-back
  PathOf,               \* the definition file a proposal is about
  TroublesOf,           \* the projects a stale objective puts at risk
  Caller, Nobody

VARIABLES
  cause,      \* the causes there are
  memory,     \* how many records hold a content
  proposal,   \* rows of knowledge_proposals: [status, reviewer]
  change,     \* rows of knowledge_change_requests: the reviewer who made one
  wake,       \* the proposals whose acceptance woke the operator
  caller

vars == <<cause, memory, proposal, change, wake, caller>>

Subject == Cause \cup Verified
Active == {"proposed", "under_review", "accepted"}
None == [status |-> "absent", reviewer |-> Nobody]
AtRest == [pc |-> "idle", todo |-> {}, paths |-> {}, on |-> Nobody]

TypeOK ==
  /\ cause \subseteq Cause /\ memory \in [Subject -> Nat]
  /\ proposal \in [Subject -> [status : {"proposed", "accepted"}, reviewer : Caller \cup {Nobody}]
                              \cup {None}]
  /\ change \in [Subject -> Caller \cup {Nobody}] /\ wake \subseteq Subject
  /\ \A c \in Caller : caller[c].pc \in {"idle", "list", "each", "ingest", "propose", "write",
                                         "record"}

Init ==
  /\ cause \in SUBSET Cause /\ memory = [x \in Subject |-> 0]
  /\ proposal = [x \in Subject |-> None] /\ change = [x \in Subject |-> Nobody]
  /\ wake = {} /\ caller = [c \in Caller |-> AtRest]

At(c, pc) == caller[c].pc = pc
Set(c, fields) ==
  caller' = [caller EXCEPT ![c] = [f \in DOMAIN @ |-> IF f \in DOMAIN fields THEN fields[f] ELSE @[f]]]

\* With an answer or an error.
End(c) == caller' = [caller EXCEPT ![c] = AtRest]

\* Work, projects and measurements move on.
Happen(x) ==
  /\ cause' = IF x \in cause THEN cause \ {x} ELSE cause \cup {x}
  /\ UNCHANGED <<memory, proposal, change, wake, caller>>

-----------------------------------------------------------------------------
(* Proposals.                                                              *)

\* The causes as they are now, the first fifty of them.
BeginEvaluate(c) ==
  /\ At(c, "idle") /\ Set(c, [pc |-> "list", todo |-> cause])
  /\ UNCHANGED <<cause, memory, proposal, change, wake>>

\* Projects of stale objectives are put at risk, a cause of the next evaluation.
ListProposals(c) ==
  /\ At(c, "list")
  /\ cause' = cause \cup UNION {TroublesOf[x] : x \in caller[c].todo}
  /\ Set(c, [pc |-> "each", paths |-> {PathOf[x] : x \in {y \in Subject : proposal[y].status \in Active}}])
  /\ UNCHANGED <<memory, proposal, change, wake>>

FindMemory(c, x) ==
  /\ At(c, "each") /\ x \in caller[c].todo
  /\ IF PathOf[x] \in caller[c].paths
     THEN Set(c, [todo |-> caller[c].todo \ {x}])
     ELSE Set(c, [pc |-> IF memory[x] > 0 THEN "propose" ELSE "ingest", on |-> x])
  /\ UNCHANGED <<cause, memory, proposal, change, wake>>

\* proposeKnowledgeWriteback, once for a verified item, whatever is proposed for its path already.
BeginWriteback(c, x) ==
  /\ At(c, "idle") /\ proposal[x] = None /\ \A d \in Caller : caller[d].on # x
  /\ Set(c, [pc |-> IF memory[x] > 0 THEN "propose" ELSE "ingest", on |-> x])
  /\ UNCHANGED <<cause, memory, proposal, change, wake>>

\* The content was looked for before: two calls may store it twice.
InsertMemory(c) ==
  /\ At(c, "ingest") /\ memory' = [memory EXCEPT ![caller[c].on] = @ + 1]
  /\ Set(c, [pc |-> "propose"])
  /\ UNCHANGED <<cause, proposal, change, wake>>

\* A proposal of a cause has the same id each time: a second insert ends the evaluation.
InsertProposal(c) ==
  /\ At(c, "propose")
  /\ LET x == caller[c].on IN
     IF proposal[x] # None THEN End(c) /\ UNCHANGED proposal
     ELSE /\ proposal' = [proposal EXCEPT ![x].status = "proposed"]
          /\ Set(c, [pc |-> "each", todo |-> caller[c].todo \ {x}, paths |-> caller[c].paths \cup {PathOf[x]},
                     on |-> Nobody])
  /\ UNCHANGED <<cause, memory, change, wake>>

EndEvaluate(c) ==
  /\ At(c, "each") /\ caller[c].todo = {} /\ End(c)
  /\ UNCHANGED <<cause, memory, proposal, change, wake>>

-----------------------------------------------------------------------------
(* Reviews.                                                                *)

\* A rejection or a withdrawal becomes a status no proposal may have ("reject", "withdraw"), and
\* is refused.
BeginReview(c, x, action) ==
  /\ At(c, "idle")
  /\ IF proposal[x].status \in {"proposed", "under_review"} /\ action = "accept"
     THEN Set(c, [pc |-> "write", on |-> x])
     ELSE UNCHANGED caller
  /\ UNCHANGED <<cause, memory, proposal, change, wake>>

\* One transaction, which a second change request of the proposal undoes.
WriteReviewMutant(c) ==
  LET x == caller[c].on IN
  /\ At(c, "write")
  /\ proposal' = [proposal EXCEPT ![x] = [status |-> "accepted", reviewer |-> c]]
  /\ change' = [change EXCEPT ![x] = IF @ = Nobody THEN c ELSE @]
  /\ Set(c, [pc |-> "record"])
  /\ UNCHANGED <<cause, memory, wake>>
WriteReview(c) ==
  LET x == caller[c].on IN
  /\ At(c, "write")
  /\ IF change[x] # Nobody THEN End(c) /\ UNCHANGED <<proposal, change>>
     ELSE /\ proposal' = [proposal EXCEPT ![x] = [status |-> "accepted", reviewer |-> c]]
          /\ change' = [change EXCEPT ![x] = c]
          /\ Set(c, [pc |-> "record"])
  /\ UNCHANGED <<cause, memory, wake>>

\* The event and the operator's wakeup, once for a proposal and an action.
RecordReview(c) ==
  /\ At(c, "record") /\ wake' = wake \cup {caller[c].on} /\ End(c)
  /\ UNCHANGED <<cause, memory, proposal, change>>

\* The process dies, or a statement fails.
Crash(c) ==
  /\ ~At(c, "idle") /\ End(c)
  /\ UNCHANGED <<cause, memory, proposal, change, wake>>

-----------------------------------------------------------------------------
Next ==
  \/ \E x \in Cause : Happen(x)
  \/ \E c \in Caller :
       \/ BeginEvaluate(c) \/ ListProposals(c) \/ InsertMemory(c) \/ InsertProposal(c)
       \/ EndEvaluate(c) \/ WriteReview(c) \/ RecordReview(c) \/ Crash(c)
       \/ \E x \in Subject : FindMemory(c, x)
       \/ \E x \in Verified : BeginWriteback(c, x)
       \/ \E x \in Subject, action \in {"accept", "reject", "withdraw"} : BeginReview(c, x, action)
Spec == Init /\ [][Next]_vars

-----------------------------------------------------------------------------
(* Properties                                                              *)

\* An accepted proposal names the reviewer whose acceptance made its change request, there is no
\* change request without one, and the operator is woken for accepted proposals only.
AcceptedOnce ==
  \A x \in Subject :
    /\ proposal[x].status = "accepted" <=> change[x] # Nobody
    /\ proposal[x].reviewer = change[x]
    /\ x \in wake => proposal[x].status = "accepted"
=============================================================================
