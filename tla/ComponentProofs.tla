--------------------------- MODULE ComponentProofs ---------------------------
(***************************************************************************)
(* Safety of components that MCSystems runs, proved for every value of     *)
(* their constants: an inductive invariant of each, and the property it    *)
(* implies.  SystemsProofs draws from them what the run checks.            *)
(***************************************************************************)
EXTENDS Integers, FiniteSets, Sequences, TLAPS, FiniteSetTheorems, WellFoundedInduction

CONSTANTS
  Nobody, Caller,
  Cause, Verified, PathOf, TroublesOf,                        \* Knowledge
  Run, Key, KeyOf, AskOf,                                     \* Acp
  Deliverer, Commit, MaxClaims,                               \* DeliveryClaim
  Agent, Boss, Asked, Wanted, Offered, Hierarchy, MaxPending, \* Authority
  Person, Department, Proposal, From, To, Bundle,             \* Directory
  Staff, Ceo, Founder, Goal, Project, Milestone, ProjectOf, Portfolios, MaxProjects, Share,
  ProcessRun,                                                 \* Portfolio
  Item, Order, Ticker, Adder, Edges, Deadlined, Concurrency, RunLimit, MaxTicks, \* DependencyScheduler
  Action, Setup, MaxActions, MaxAttempts,                     \* Delegation
  MaxMakers, File, Declared                                   \* AttemptEvidence

VARIABLES
  cause, memory, proposal, change, wake, learner,
  warm, open, active, client,
  delivery, commit, writer, deliverer, pulls, told,
  service, managed, intent, edge, route, delegation, work, escalation, router, setter, reconciler,
  manager, member, autonomy, carried, opened, level, clerk,
  company, objective, measured, portfolio, project, link, managerRow, share, milestone, verified,
  binding, processes, woken, commander,
  item, assigned, needs, overdue, later, runs, workflow, ticker, adder, completed, begun, known,
  setup, attempt, broker, request, applying, agent, child, callback, process, recorded, workspace, lock, settler,
  kind, deliveredBy, claim, judged, att, run, sess, ws, base, disk, rec

K == INSTANCE Knowledge WITH caller <- learner
T == INSTANCE Acp WITH run <- client
C == INSTANCE DeliveryClaim WITH Request <- Deliverer, NoCommit <- Nobody, request <- deliverer
A == INSTANCE Authority WITH NoAgent <- Nobody, Request <- Asked, caller <- router
D == INSTANCE Directory WITH NoPerson <- Nobody, proposal <- autonomy, request <- carried,
                             pulls <- opened, caller <- clerk
P == INSTANCE Portfolio WITH Agent <- Staff, Run <- ProcessRun, run <- processes, wake <- woken,
                             caller <- commander
S == INSTANCE DependencyScheduler WITH Offered <- Edges
M == INSTANCE Delegation
E == INSTANCE AttemptEvidence WITH delivery <- deliveredBy

-----------------------------------------------------------------------------
(* Knowledge: the reviews of proposals.                                     *)

\* What a review relies on: whoever holds a subject holds one, and a caller that has written its
\* review (and not yet its event) finds the change request it wrote.
LearnerShape ==
  /\ DOMAIN learner = Caller
  /\ \A c \in Caller : DOMAIN learner[c] = {"pc", "todo", "paths", "on"}
LearnerFits ==
  \A c \in Caller :
    /\ learner[c].pc \in {"ingest", "propose", "write", "record"} => learner[c].on \in K!Subject
    /\ learner[c].pc = "record" => change[learner[c].on] # Nobody
Rows ==
  /\ proposal \in [K!Subject -> [status : {"absent", "proposed", "accepted"},
                                 reviewer : Caller \cup {Nobody}]]
  /\ change \in [K!Subject -> Caller \cup {Nobody}]
KnowledgeInv == Nobody \notin Caller /\ LearnerShape /\ LearnerFits /\ Rows /\ K!AcceptedOnce

\* What Set does to its caller.
LEMMA LearnerSets ==
  ASSUME LearnerShape, NEW c \in Caller, NEW f, K!Set(c, f)
  PROVE  /\ LearnerShape'
         /\ \A d \in Caller \ {c} : learner'[d] = learner[d]
         /\ learner'[c].pc = IF "pc" \in DOMAIN f THEN f["pc"] ELSE learner[c].pc
         /\ learner'[c].on = IF "on" \in DOMAIN f THEN f["on"] ELSE learner[c].on
  BY DEF LearnerShape, K!Set

\* What an answer does to its caller.
LEMMA LearnerEnds ==
  ASSUME LearnerShape, NEW c \in Caller, K!End(c)
  PROVE  /\ LearnerShape'
         /\ \A d \in Caller \ {c} : learner'[d] = learner[d]
         /\ learner'[c].pc = "idle"
  BY DEF LearnerShape, K!End, K!AtRest

\* A step of one caller that leaves the tables alone.
LEMMA LearnerMoves ==
  ASSUME KnowledgeInv, NEW c \in Caller, LearnerShape', UNCHANGED <<proposal, change, wake>>,
         \A d \in Caller \ {c} : learner'[d] = learner[d],
         learner'[c].pc \in {"ingest", "propose", "write", "record"} => learner'[c].on \in K!Subject,
         learner'[c].pc # "record"
  PROVE  KnowledgeInv'
  <1>1. LearnerFits'
    BY DEF KnowledgeInv, LearnerFits
  <1> QED BY <1>1 DEF KnowledgeInv, Rows, K!AcceptedOnce

\* Every step of evaluations, writebacks and reviews keeps the invariant.
LEMMA KnowledgeNext ==
  KnowledgeInv /\ [K!Next]_(K!vars) => KnowledgeInv'
<1> SUFFICES ASSUME KnowledgeInv, [K!Next]_(K!vars) PROVE KnowledgeInv'
  OBVIOUS
<1> USE DEF KnowledgeInv
<1>1. CASE UNCHANGED K!vars
  BY <1>1 DEF K!vars, LearnerShape, LearnerFits, Rows, K!AcceptedOnce
<1>2. ASSUME NEW x \in Cause, K!Happen(x) PROVE KnowledgeInv'
  BY <1>2 DEF K!Happen, LearnerShape, LearnerFits, Rows, K!AcceptedOnce
<1>3. ASSUME NEW c \in Caller, K!BeginEvaluate(c) PROVE KnowledgeInv'
  <2>1. /\ LearnerShape' /\ UNCHANGED <<proposal, change, wake>>
        /\ \A d \in Caller \ {c} : learner'[d] = learner[d]
        /\ learner'[c].pc = "list"
    BY <1>3, LearnerSets DEF K!BeginEvaluate
  <2> QED BY <2>1, LearnerMoves
<1>4. ASSUME NEW c \in Caller, K!ListProposals(c) PROVE KnowledgeInv'
  <2>1. /\ LearnerShape' /\ UNCHANGED <<proposal, change, wake>>
        /\ \A d \in Caller \ {c} : learner'[d] = learner[d]
        /\ learner'[c].pc = "each"
    BY <1>4, LearnerSets DEF K!ListProposals
  <2> QED BY <2>1, LearnerMoves
<1>5. ASSUME NEW c \in Caller, NEW x \in K!Subject, K!FindMemory(c, x) PROVE KnowledgeInv'
  <2>1. CASE PathOf[x] \in learner[c].paths
    <3>1. /\ LearnerShape' /\ UNCHANGED <<proposal, change, wake>>
          /\ \A d \in Caller \ {c} : learner'[d] = learner[d]
          /\ learner'[c].pc = "each"
      BY <1>5, <2>1, LearnerSets DEF K!FindMemory, K!At
    <3> QED BY <3>1, LearnerMoves
  <2>2. CASE PathOf[x] \notin learner[c].paths
    <3>1. /\ LearnerShape' /\ UNCHANGED <<proposal, change, wake>>
          /\ \A d \in Caller \ {c} : learner'[d] = learner[d]
          /\ learner'[c].pc \in {"propose", "ingest"} /\ learner'[c].on = x
      BY <1>5, <2>2, LearnerSets DEF K!FindMemory
    <3> QED BY <3>1, LearnerMoves
  <2> QED BY <2>1, <2>2
<1>6. ASSUME NEW c \in Caller, NEW x \in Verified, K!BeginWriteback(c, x) PROVE KnowledgeInv'
  <2>1. /\ LearnerShape' /\ UNCHANGED <<proposal, change, wake>>
        /\ \A d \in Caller \ {c} : learner'[d] = learner[d]
        /\ learner'[c].pc \in {"propose", "ingest"} /\ learner'[c].on = x
    BY <1>6, LearnerSets DEF K!BeginWriteback
  <2> QED BY <2>1, LearnerMoves DEF K!Subject
<1>7. ASSUME NEW c \in Caller, K!InsertMemory(c) PROVE KnowledgeInv'
  <2>1. /\ LearnerShape' /\ UNCHANGED <<proposal, change, wake>>
        /\ \A d \in Caller \ {c} : learner'[d] = learner[d]
        /\ learner'[c].pc = "propose" /\ learner'[c].on = learner[c].on
    BY <1>7, LearnerSets DEF K!InsertMemory
  <2>2. learner[c].on \in K!Subject
    BY <1>7 DEF K!InsertMemory, K!At, LearnerFits
  <2> QED BY <2>1, <2>2, LearnerMoves
<1>8. ASSUME NEW c \in Caller, K!InsertProposal(c) PROVE KnowledgeInv'
  <2> DEFINE x == learner[c].on
  <2>1. x \in K!Subject /\ UNCHANGED <<change, wake>>
    BY <1>8 DEF K!InsertProposal, K!At, LearnerFits
  <2>2. CASE proposal[x] # K!None
    <3>1. K!End(c) /\ UNCHANGED proposal
      BY <1>8, <2>2 DEF K!InsertProposal
    <3> QED BY <3>1, <2>1, LearnerEnds, LearnerMoves
  <2>3. CASE proposal[x] = K!None
    <3>1. /\ proposal' = [proposal EXCEPT ![x].status = "proposed"]
          /\ LearnerShape'
          /\ \A d \in Caller \ {c} : learner'[d] = learner[d]
          /\ learner'[c].pc = "each"
      BY <1>8, <2>3, LearnerSets DEF K!InsertProposal
    <3>2. LearnerFits'
      BY <3>1, <2>1 DEF LearnerFits
    <3>3. Rows' /\ \A y \in K!Subject : proposal'[y] = IF y = x THEN [proposal[y] EXCEPT !.status = "proposed"] ELSE proposal[y]
      BY <3>1, <2>1 DEF Rows
    <3>4. K!AcceptedOnce'
      BY <3>3, <2>1, <2>3 DEF K!AcceptedOnce, K!None, Rows
    <3> QED BY <3>1, <3>2, <3>3, <3>4
  <2> QED BY <2>2, <2>3
<1>9. ASSUME NEW c \in Caller, K!EndEvaluate(c) \/ K!Crash(c) PROVE KnowledgeInv'
  <2>1. K!End(c) /\ UNCHANGED <<proposal, change, wake>>
    BY <1>9 DEF K!EndEvaluate, K!Crash
  <2> QED BY <2>1, LearnerEnds, LearnerMoves
<1>10. ASSUME NEW c \in Caller, NEW x \in K!Subject, NEW action, K!BeginReview(c, x, action) PROVE KnowledgeInv'
  <2>1. UNCHANGED <<proposal, change, wake>>
    BY <1>10 DEF K!BeginReview
  <2>2. CASE UNCHANGED learner
    BY <2>1, <2>2 DEF LearnerShape, LearnerFits, Rows, K!AcceptedOnce
  <2>3. CASE K!Set(c, [pc |-> "write", on |-> x])
    BY <2>1, <2>3, LearnerSets, LearnerMoves
  <2> QED BY <1>10, <2>2, <2>3 DEF K!BeginReview
<1>11. ASSUME NEW c \in Caller, K!WriteReview(c) PROVE KnowledgeInv'
  <2> DEFINE x == learner[c].on
  <2>1. x \in K!Subject /\ UNCHANGED wake
    BY <1>11 DEF K!WriteReview, K!At, LearnerFits
  <2>2. CASE change[x] # Nobody
    <3>1. K!End(c) /\ UNCHANGED <<proposal, change>>
      BY <1>11, <2>2 DEF K!WriteReview
    <3> QED BY <3>1, <2>1, LearnerEnds, LearnerMoves
  <2>3. CASE change[x] = Nobody
    <3>1. /\ proposal' = [proposal EXCEPT ![x] = [status |-> "accepted", reviewer |-> c]]
          /\ change' = [change EXCEPT ![x] = c]
          /\ LearnerShape'
          /\ \A d \in Caller \ {c} : learner'[d] = learner[d]
          /\ learner'[c].pc = "record" /\ learner'[c].on = x
      BY <1>11, <2>3, LearnerSets DEF K!WriteReview
    <3>2. Rows'
      BY <3>1, <2>1 DEF Rows
    <3>3. /\ proposal'[x] = [status |-> "accepted", reviewer |-> c] /\ change'[x] = c /\ c # Nobody
          /\ \A y \in K!Subject \ {x} : proposal'[y] = proposal[y] /\ change'[y] = change[y]
      BY <3>1, <2>1 DEF Rows
    <3>4. LearnerFits'
      BY <3>1, <3>3, <2>1 DEF LearnerFits
    <3>5. K!AcceptedOnce'
      BY <3>3, <2>1 DEF K!AcceptedOnce
    <3> QED BY <3>1, <3>2, <3>4, <3>5
  <2> QED BY <2>2, <2>3
<1>12. ASSUME NEW c \in Caller, K!RecordReview(c) PROVE KnowledgeInv'
  <2>1. K!End(c) /\ UNCHANGED <<proposal, change>> /\ wake' = wake \cup {learner[c].on}
    BY <1>12 DEF K!RecordReview
  <2>2. learner[c].on \in K!Subject /\ change[learner[c].on] # Nobody
    BY <1>12 DEF K!RecordReview, K!At, LearnerFits
  <2>3. LearnerFits'
    BY <2>1, LearnerEnds DEF LearnerFits
  <2>4. K!AcceptedOnce'
    BY <2>1, <2>2 DEF K!AcceptedOnce
  <2> QED BY <2>1, <2>3, <2>4, LearnerEnds DEF Rows
<1> QED BY <1>1, <1>2, <1>3, <1>4, <1>5, <1>6, <1>7, <1>8, <1>9, <1>10, <1>11, <1>12 DEF K!Next

\* It holds of empty tables.
LEMMA KnowledgeStarts == Nobody \notin Caller /\ K!Init => KnowledgeInv
  BY DEF K!Init, KnowledgeInv, LearnerShape, LearnerFits, Rows, K!AcceptedOnce, K!None, K!AtRest

\* Whatever reviews of a proposal race, die and repeat (reviewProposal, curator.ts), at most
\* one is accepted, and it is the one whose change request there is.
THEOREM ReviewsAccepted == Nobody \notin Caller => (K!Spec => []K!AcceptedOnce)
<1>1. KnowledgeInv => K!AcceptedOnce
  BY DEF KnowledgeInv
<1>2. SUFFICES ASSUME Nobody \notin Caller PROVE K!Spec => []K!AcceptedOnce
  OBVIOUS
<1> QED BY <1>1, <1>2, KnowledgeStarts, KnowledgeNext, PTL DEF K!Spec

-----------------------------------------------------------------------------
(* Acp: the pool of warm runtimes.                                          *)

ClientFields == {"pc", "todo", "evicts", "runtime", "handle", "aborted", "timedOut", "clear", "status", "result"}
ClientShape ==
  /\ DOMAIN client = Run
  /\ \A r \in Run : DOMAIN client[r] = ClientFields /\ client[r].runtime \in Run \cup {Nobody}
Pool == warm \in [Key -> [runtime : Run \cup {Nobody}, idle : BOOLEAN, handle : Run \cup {Nobody}]]

\* A runtime is named by the run that created it, which keeps it and has its key.
Origin ==
  /\ \A r \in Run : client[r].runtime # Nobody =>
       client[client[r].runtime].runtime = client[r].runtime /\ KeyOf[client[r].runtime] = KeyOf[r]
  /\ \A k \in Key : warm[k].runtime # Nobody =>
       client[warm[k].runtime].runtime = warm[k].runtime /\ KeyOf[warm[k].runtime] = k
Begun ==
  \A r \in Run : /\ client[r].pc \in {"idle", "evict", "dropIdle", "create", "cli"} => client[r].runtime = Nobody
                 /\ client[r].result = "failed" => client[r].pc = "done"
Over(r) == \/ client[r].result = "failed"
           \/ client[r].pc = "log" /\ T!Unsuccessful(r)
Gone == \A r \in Run, k \in Key : Over(r) /\ client[r].runtime # Nobody => warm[k].runtime # client[r].runtime
PoolInv == /\ Nobody \notin Run /\ KeyOf \in [Run -> Key]
           /\ ClientShape /\ Pool /\ Origin /\ Begun /\ Gone

\* What Set does to its run.
LEMMA ClientSets ==
  ASSUME ClientShape, NEW r \in Run, NEW f, T!Set(r, f)
  PROVE  /\ DOMAIN client' = Run
         /\ \A q \in Run \ {r} : client'[q] = client[q]
         /\ DOMAIN client'[r] = ClientFields
         /\ \A g \in ClientFields : client'[r][g] = IF g \in DOMAIN f THEN f[g] ELSE client[r][g]
  BY DEF ClientShape, T!Set

\* A step that changes neither the runtime of a run nor that of an entry.
LEMMA ClientMoves ==
  ASSUME PoolInv, NEW r \in Run, DOMAIN client' = Run,
         \A q \in Run \ {r} : client'[q] = client[q],
         DOMAIN client'[r] = ClientFields, client'[r].runtime = client[r].runtime,
         Pool', \A k \in Key : warm'[k].runtime \in {warm[k].runtime, Nobody},
         client'[r].pc \in {"idle", "evict", "dropIdle", "create", "cli"} => client[r].runtime = Nobody,
         client'[r].result = "failed" => client'[r].pc = "done",
         Over(r)' /\ client[r].runtime # Nobody => \A k \in Key : warm'[k].runtime # client[r].runtime
  PROVE  PoolInv'
  <1>1. ClientShape' /\ Begun'
    BY DEF PoolInv, ClientShape, Begun
  <1>2. \A q \in Run : client'[q].runtime = client[q].runtime
    OBVIOUS
  <1>3. Origin'
    BY <1>2 DEF PoolInv, Origin, Pool, ClientShape
  <1>4. Gone'
    BY <1>2 DEF PoolInv, Gone, Over, T!Unsuccessful
  <1> QED BY <1>1, <1>3, <1>4 DEF PoolInv

\* The same for a step that leaves the pool alone and ends nothing.
LEMMA ClientWaits ==
  ASSUME PoolInv, NEW r \in Run, NEW f, T!Set(r, f), warm' = warm,
         client'[r].runtime = client[r].runtime,
         client'[r].pc \in {"idle", "evict", "dropIdle", "create", "cli"} => client[r].runtime = Nobody,
         \/ client[r].runtime = Nobody /\ (client'[r].result = "failed" => client'[r].pc = "done")
         \/ client'[r].result # "failed" /\ client'[r].pc # "log"
  PROVE  PoolInv'
  <1>1. /\ DOMAIN client' = Run /\ \A q \in Run \ {r} : client'[q] = client[q]
        /\ DOMAIN client'[r] = ClientFields
    BY ClientSets DEF PoolInv
  <1>2. Pool' /\ \A k \in Key : warm'[k].runtime \in {warm[k].runtime, Nobody}
    BY DEF PoolInv, Pool
  <1>3. Over(r)' /\ client[r].runtime # Nobody => \A k \in Key : warm'[k].runtime # client[r].runtime
    BY DEF Over
  <1> QED BY <1>1, <1>2, <1>3, ClientMoves

\* Dropping the entry of a run's key drops the run's runtime.
LEMMA Dropped ==
  ASSUME PoolInv, NEW r \in Run, client[r].runtime # Nobody,
         warm' = [warm EXCEPT ![KeyOf[r]] = T!Empty]
  PROVE  \A k \in Key : warm'[k].runtime # client[r].runtime
  BY DEF PoolInv, Pool, Origin, T!Empty

\* An entry that is emptied brings no runtime in.
LEMMA Emptied ==
  ASSUME PoolInv, NEW k, warm' = [warm EXCEPT ![k] = T!Empty]
  PROVE  Pool' /\ \A q \in Key : warm'[q].runtime \in {warm[q].runtime, Nobody}
  BY DEF PoolInv, Pool, T!Empty

\* Every step of the runs, of idle timers and of cancellations keeps the invariant.
LEMMA PoolNext == PoolInv /\ [T!Next]_(T!vars) => PoolInv'
<1> SUFFICES ASSUME PoolInv, [T!Next]_(T!vars) PROVE PoolInv'
  OBVIOUS
<1>0. /\ ClientShape /\ Pool /\ Begun
      /\ \A r \in Run : "pc" \in ClientFields /\ "runtime" \in ClientFields /\ "result" \in ClientFields /\ "status" \in ClientFields /\ "timedOut" \in ClientFields
  BY DEF PoolInv, ClientFields
<1>1. CASE UNCHANGED T!vars
  BY <1>1 DEF T!vars, PoolInv, ClientShape, Pool, Origin, Begun, Gone, Over, T!Unsuccessful
<1>2. ASSUME NEW r \in Run, T!Execute(r) PROVE PoolInv'
  <2>1. client[r].runtime = Nobody /\ warm' = warm /\ client[r].result # "failed"
    BY <1>0, <1>2 DEF T!Execute, T!At, Begun
  <2>2. PICK f \in {[pc |-> "cli"], T!Failure, [pc |-> "evict", todo |-> IF T!Ask(r).warm THEN Key ELSE {}]} : T!Set(r, f)
    BY <1>2 DEF T!Execute
  <2>3. /\ client'[r].runtime = Nobody
        /\ client'[r].result = "failed" => client'[r].pc = "done"
    BY <1>0, <2>1, <2>2, ClientSets DEF T!Failure
  <2> QED BY <2>1, <2>2, <2>3, ClientWaits
<1>3. ASSUME NEW r \in Run, NEW k \in Key, T!EvictIdle(r, k) PROVE PoolInv'
  <2>1. client[r].runtime = Nobody /\ warm' = warm /\ client[r].result # "failed" /\ client[r].pc = "evict"
    BY <1>0, <1>3 DEF T!EvictIdle, T!At, Begun
  <2>2. PICK f \in {[pc |-> "dropIdle", todo |-> client[r].todo \ {k}, evicts |-> k], [todo |-> client[r].todo \ {k}]} : T!Set(r, f)
    BY <1>3 DEF T!EvictIdle
  <2>3. /\ client'[r].runtime = Nobody
        /\ client'[r].result # "failed"
    BY <1>0, <2>1, <2>2, ClientSets
  <2> QED BY <2>1, <2>2, <2>3, ClientWaits
<1>4. ASSUME NEW r \in Run, T!DropIdle(r) PROVE PoolInv'
  <2>1. client[r].runtime = Nobody /\ client[r].result # "failed"
    BY <1>0, <1>4 DEF T!DropIdle, T!At, Begun
  <2>2. T!Set(r, [pc |-> "evict", evicts |-> Nobody]) /\ warm' = [warm EXCEPT ![client[r].evicts] = T!Empty]
    BY <1>4 DEF T!DropIdle
  <2>3. /\ client'[r].runtime = Nobody
        /\ client'[r].result # "failed"
    BY <1>0, <2>1, <2>2, ClientSets
  <2>4. /\ DOMAIN client' = Run /\ \A q \in Run \ {r} : client'[q] = client[q]
        /\ DOMAIN client'[r] = ClientFields /\ client'[r].runtime = client[r].runtime
    BY <1>0, <2>1, <2>2, <2>3, ClientSets
  <2>5. Pool' /\ \A k \in Key : warm'[k].runtime \in {warm[k].runtime, Nobody}
    BY <2>2, Emptied
  <2> QED BY <2>1, <2>3, <2>4, <2>5, ClientMoves
<1>5. ASSUME NEW r \in Run, T!FindRuntime(r) PROVE PoolInv'
  <2>1. client[r].runtime = Nobody /\ warm' = warm /\ client[r].result # "failed" /\ KeyOf[r] \in Key
    BY <1>0, <1>5 DEF T!FindRuntime, T!At, Begun, PoolInv
  <2>2. CASE T!Set(r, [pc |-> "create"])
    <3>1. /\ client'[r].runtime = Nobody
          /\ client'[r].result # "failed"
      BY <1>0, <2>1, <2>2, ClientSets
    <3> QED BY <2>1, <2>2, <3>1, ClientWaits
  <2>3. CASE T!Set(r, [pc |-> "ensure", runtime |-> warm[KeyOf[r]].runtime])
    <3> DEFINE x == warm[KeyOf[r]].runtime
    <3>1. /\ client'[r].runtime = x /\ client'[r].pc = "ensure"
          /\ client'[r].result # "failed" /\ x \in Run \cup {Nobody}
      BY <1>0, <2>1, <2>3, ClientSets DEF Pool
    <3>2. ClientShape' /\ Pool' /\ Begun'
      BY <1>0, <2>1, <2>3, <3>1, ClientSets DEF ClientShape, Pool, Begun
    <3>3. x # Nobody => x # r /\ client[x].runtime = x /\ KeyOf[x] = KeyOf[r]
      BY <2>1 DEF PoolInv, Origin
    <3>4. \A q \in Run \ {r} : client'[q] = client[q]
      BY <1>0, <2>3, ClientSets
    <3>5. \A y \in Run : client[y].runtime = y => client'[y].runtime = y
      BY <2>1, <3>4 DEF PoolInv
    <3>6. Origin'
      <4>1. \A q \in Run : client'[q].runtime # Nobody =>
              client'[client'[q].runtime].runtime = client'[q].runtime /\ KeyOf[client'[q].runtime] = KeyOf[q]
        BY <3>1, <3>3, <3>4, <3>5 DEF PoolInv, Origin, ClientShape
      <4>2. \A k \in Key : warm'[k].runtime # Nobody => client'[warm'[k].runtime].runtime = warm'[k].runtime /\ KeyOf[warm'[k].runtime] = k
        BY <2>1, <3>5 DEF PoolInv, Origin, Pool
      <4> QED BY <4>1, <4>2 DEF Origin
    <3>7. Gone'
      BY <2>1, <3>1, <3>4 DEF PoolInv, Gone, Over, T!Unsuccessful
    <3> QED BY <3>2, <3>6, <3>7 DEF PoolInv
  <2> QED BY <1>5, <2>2, <2>3 DEF T!FindRuntime
<1>6. ASSUME NEW r \in Run, T!CreateRuntime(r) PROVE PoolInv'
  <2>1. client[r].runtime = Nobody /\ client[r].result # "failed" /\ KeyOf[r] \in Key /\ r # Nobody
    BY <1>0, <1>6 DEF T!CreateRuntime, T!At, Begun, PoolInv
  <2>2. CASE T!Set(r, T!Failure) /\ UNCHANGED warm
    <3>1. client'[r].runtime = Nobody /\ client'[r].pc = "done"
      BY <1>0, <2>1, <2>2, ClientSets DEF T!Failure
    <3> QED BY <2>1, <2>2, <3>1, ClientWaits
  <2>3. CASE /\ T!Set(r, [pc |-> "ensure", runtime |-> r])
             /\ warm' = IF T!Ask(r).warm
                        THEN [warm EXCEPT ![KeyOf[r]] = [runtime |-> r, idle |-> FALSE, handle |-> Nobody]]
                        ELSE warm
    <3>1. /\ client'[r].runtime = r /\ client'[r].pc = "ensure"
          /\ client'[r].result # "failed"
      BY <1>0, <2>1, <2>3, ClientSets
    <3>2. Pool' /\ \A k \in Key : \/ warm'[k].runtime = warm[k].runtime
                                  \/ k = KeyOf[r] /\ warm'[k].runtime = r
      BY <1>0, <2>1, <2>3 DEF Pool
    <3>3. ClientShape' /\ Begun'
      BY <1>0, <2>1, <2>3, <3>1, ClientSets DEF ClientShape, Begun
    <3>4. \A q \in Run \ {r} : client'[q] = client[q]
      BY <1>0, <2>3, ClientSets
    <3>5. \A y \in Run : client[y].runtime = y => client'[y].runtime = y
      BY <2>1, <3>4 DEF PoolInv
    <3>6. Origin'
      <4>1. \A q \in Run : client'[q].runtime # Nobody =>
              client'[client'[q].runtime].runtime = client'[q].runtime /\ KeyOf[client'[q].runtime] = KeyOf[q]
        BY <3>1, <3>1, <3>4, <3>5 DEF PoolInv, Origin, ClientShape
      <4>2. \A k \in Key : warm'[k].runtime # Nobody => client'[warm'[k].runtime].runtime = warm'[k].runtime /\ KeyOf[warm'[k].runtime] = k
        BY <3>2, <3>5, <3>1 DEF PoolInv, Origin, Pool
      <4> QED BY <4>1, <4>2 DEF Origin
    <3>7. Gone'
      <4>1. \A q \in Run : client[q].runtime # r
        BY <2>1 DEF PoolInv, Origin
      <4> QED BY <2>1, <3>1, <3>2, <3>4, <4>1 DEF PoolInv, Gone, Over, T!Unsuccessful
    <3> QED BY <3>2, <3>3, <3>6, <3>7 DEF PoolInv
  <2> QED BY <1>6, <2>2, <2>3 DEF T!CreateRuntime
<1>7. ASSUME NEW r \in Run, T!EnsureSession(r) PROVE PoolInv'
  <2>1. client[r].pc = "ensure" /\ warm' = warm /\ client[r].result # "failed"
    BY <1>0, <1>7 DEF T!EnsureSession, T!At, Begun
  <2>2. PICK f \in {[pc |-> "register", handle |-> TRUE], [clear |-> TRUE], [pc |-> "error"]} : T!Set(r, f)
    BY <1>7 DEF T!EnsureSession
  <2>3. /\ client'[r].runtime = client[r].runtime /\ client'[r].result # "failed"
        /\ client'[r].pc \in {"register", "ensure", "error"}
    BY <1>0, <2>1, <2>2, ClientSets
  <2> QED BY <2>1, <2>2, <2>3, ClientWaits
<1>8. ASSUME NEW r \in Run, T!Register(r) PROVE PoolInv'
  <2>1. client[r].pc = "register" /\ client[r].result # "failed"
    BY <1>0, <1>8 DEF T!Register, T!At, Begun
  <2>2. PICK f \in {[pc |-> "turn"], [pc |-> "error"]} : T!Set(r, f)
    BY <1>8 DEF T!Register
  <2>3. /\ client'[r].runtime = client[r].runtime /\ client'[r].result # "failed"
        /\ client'[r].pc \in {"turn", "error"}
    BY <1>0, <2>1, <2>2, ClientSets
  <2>4. Pool' /\ \A k \in Key : warm'[k].runtime \in {warm[k].runtime, Nobody}
    <3> DEFINE k == KeyOf[r]
    <3>0. k \in Key /\ client[r].runtime \in Run \cup {Nobody}
      BY DEF PoolInv, ClientShape
    <3>1. CASE UNCHANGED warm
      BY <1>0, <3>1 DEF Pool
    <3>2. CASE warm' = [warm EXCEPT ![k].idle = FALSE, ![k].handle = client[r].runtime]
      <4> DEFINE Entries == [Key -> [runtime : Run \cup {Nobody}, idle : BOOLEAN, handle : Run \cup {Nobody}]]
                 once == [warm EXCEPT ![k].idle = FALSE]
      <4>1. once \in Entries /\ \A q \in Key : once[q].runtime = warm[q].runtime
        BY <1>0, <3>0 DEF Pool
      <4>2. warm' = [once EXCEPT ![k].handle = client[r].runtime]
        BY <3>2
      <4> HIDE DEF once, k
      <4>3. warm' \in Entries /\ \A q \in Key : warm'[q].runtime = once[q].runtime
        BY <3>0, <4>1, <4>2
      <4> QED BY <4>1, <4>3 DEF Pool
    <3> QED BY <1>8, <3>1, <3>2 DEF T!Register
  <2> QED BY <1>0, <2>1, <2>2, <2>3, <2>4, ClientSets, ClientMoves DEF Over
<1>9. ASSUME NEW r \in Run, T!TimeOut(r) \/ T!Abort(r) PROVE PoolInv'
  <2>1. client[r].pc \notin {"idle", "done", "cli"} /\ warm' = warm /\ client[r].result # "failed"
    BY <1>0, <1>9 DEF T!TimeOut, T!Abort, T!At, Begun
  <2>2. \/ T!Set(r, [timedOut |-> TRUE, aborted |-> TRUE]) /\ client[r].pc = "turn"
        \/ T!Set(r, [aborted |-> TRUE])
    BY <1>9 DEF T!TimeOut, T!Abort, T!At
  <2>3. /\ client'[r].runtime = client[r].runtime /\ client'[r].result # "failed"
        /\ client'[r].pc = client[r].pc
        /\ client'[r].status = client[r].status
        /\ client'[r].timedOut = client[r].timedOut \/ client[r].pc = "turn"
    BY <1>0, <2>1, <2>2, ClientSets
  <2>4. client[r].pc \in {"idle", "evict", "dropIdle", "create", "cli"} => client[r].runtime = Nobody
    BY <1>0 DEF Begun
  <2>5. Over(r)' /\ client[r].runtime # Nobody => \A k \in Key : warm'[k].runtime # client[r].runtime
    BY <2>1, <2>3 DEF PoolInv, Gone, Over, T!Unsuccessful
  <2>6. Pool' /\ \A k \in Key : warm'[k].runtime \in {warm[k].runtime, Nobody}
    BY <1>0, <2>1 DEF Pool
  <2> QED BY <1>0, <2>2, <2>3, <2>4, <2>5, <2>6, ClientSets, ClientMoves
<1>10. ASSUME NEW r \in Run, NEW status, T!EndTurn(r, status) PROVE PoolInv'
  <2>1. client[r].pc = "turn" /\ warm' = warm /\ client[r].result # "failed"
    BY <1>0, <1>10 DEF T!EndTurn, T!At, Begun
  <2>2. T!Set(r, [pc |-> "end", status |-> status])
    BY <1>10 DEF T!EndTurn
  <2>3. /\ client'[r].runtime = client[r].runtime /\ client'[r].result # "failed"
        /\ client'[r].pc = "end"
    BY <1>0, <2>1, <2>2, ClientSets
  <2> QED BY <2>1, <2>2, <2>3, ClientWaits
<1>11. ASSUME NEW r \in Run, T!BreakTurn(r) \/ T!EndRun(r) \/ T!CloseAfterError(r) PROVE PoolInv'
  <2>1. client[r].pc \in {"turn", "end", "error"} /\ warm' = warm /\ client[r].result # "failed"
    BY <1>0, <1>11 DEF T!BreakTurn, T!EndRun, T!CloseAfterError, T!At, Begun
  <2>2. PICK f \in {[pc |-> "error"], [pc |-> "drop"], [pc |-> "dropError"]} : T!Set(r, f)
    BY <1>11 DEF T!BreakTurn, T!EndRun, T!CloseAfterError
  <2>3. /\ client'[r].runtime = client[r].runtime /\ client'[r].result # "failed"
        /\ client'[r].pc \in {"error", "drop", "dropError"}
    BY <1>0, <2>1, <2>2, ClientSets
  <2> QED BY <2>1, <2>2, <2>3, ClientWaits
<1>12. ASSUME NEW r \in Run, T!Drop(r) PROVE PoolInv'
  <2>1. client[r].pc = "drop" /\ client[r].result # "failed"
    BY <1>0, <1>12 DEF T!Drop, T!At, Begun
  <2>2. T!Set(r, [pc |-> "log"])
    BY <1>12 DEF T!Drop
  <2>3. /\ client'[r].runtime = client[r].runtime /\ client'[r].result = client[r].result
        /\ client'[r].pc = "log" /\ client'[r].timedOut = client[r].timedOut /\ client'[r].status = client[r].status
    BY <1>0, <2>1, <2>2, ClientSets
  <2>4. \/ ~T!Unsuccessful(r) /\ warm' = warm
        \/ warm' = [warm EXCEPT ![KeyOf[r]] = T!Empty]
    BY <1>12 DEF T!Drop
  <2>5. Pool' /\ \A k \in Key : warm'[k].runtime \in {warm[k].runtime, Nobody}
    BY <1>0, <2>4, Emptied DEF Pool
  <2>6. Over(r)' /\ client[r].runtime # Nobody => \A k \in Key : warm'[k].runtime # client[r].runtime
    BY <2>1, <2>3, <2>4, Dropped DEF Over, T!Unsuccessful
  <2> QED BY <1>0, <2>1, <2>2, <2>3, <2>5, <2>6, ClientSets, ClientMoves
<1>13. ASSUME NEW r \in Run, T!LogResult(r) PROVE PoolInv'
  <2>1. client[r].pc = "log" /\ warm' = warm
    BY <1>13 DEF T!LogResult, T!At
  <2>2. CASE T!Set(r, [pc |-> "error"])
    <3>1. /\ client'[r].runtime = client[r].runtime /\ client'[r].result = client[r].result
          /\ client'[r].pc = "error"
      BY <1>0, <2>2, ClientSets
    <3>2. client[r].result # "failed"
      BY <1>0, <2>1 DEF Begun
    <3> QED BY <2>1, <2>2, <3>1, <3>2, ClientWaits
  <2>3. CASE T!Set(r, [pc |-> "done", result |-> IF client[r].timedOut \/ client[r].status # "completed"
                                                  THEN "failed" ELSE "ok"])
    <3>1. /\ client'[r].runtime = client[r].runtime
          /\ client'[r].result = "failed" => T!Unsuccessful(r)
          /\ client'[r].pc = "done"
      BY <1>0, <2>3, ClientSets DEF T!Unsuccessful
    <3>2. Over(r)' /\ client[r].runtime # Nobody => \A k \in Key : warm'[k].runtime # client[r].runtime
      BY <2>1, <3>1 DEF PoolInv, Gone, Over
    <3>3. Pool' /\ \A k \in Key : warm'[k].runtime \in {warm[k].runtime, Nobody}
      BY <1>0, <2>1 DEF Pool
    <3> QED BY <1>0, <2>3, <3>1, <3>2, <3>3, ClientSets, ClientMoves
  <2> QED BY <1>13, <2>2, <2>3 DEF T!LogResult
<1>14. ASSUME NEW r \in Run, T!DropAfterError(r) PROVE PoolInv'
  <2>1. T!Set(r, T!Failure) /\ warm' = [warm EXCEPT ![KeyOf[r]] = T!Empty]
    BY <1>14 DEF T!DropAfterError
  <2>2. /\ client'[r].runtime = client[r].runtime /\ client'[r].pc = "done"
    BY <1>0, <2>1, ClientSets DEF T!Failure
  <2>3. Pool' /\ \A k \in Key : warm'[k].runtime \in {warm[k].runtime, Nobody}
    BY <2>1, Emptied
  <2> QED BY <1>0, <2>1, <2>2, <2>3, Dropped, ClientSets, ClientMoves
<1>15. ASSUME NEW k \in Key, T!Idle(k) PROVE PoolInv'
  <2>1. client' = client /\ Pool' /\ \A q \in Key : warm'[q].runtime = warm[q].runtime
    BY <1>0, <1>15 DEF T!Idle, Pool
  <2> QED BY <2>1 DEF PoolInv, ClientShape, Pool, Origin, Begun, Gone, Over, T!Unsuccessful
<1>16. ASSUME NEW k \in Key, T!Cancel(k) PROVE PoolInv'
  <2>1. warm' = warm /\ DOMAIN client' = Run
        /\ \A r \in Run : client'[r] \in {client[r], [client[r] EXCEPT !.aborted = TRUE]}
    BY <1>16 DEF T!Cancel
  <2>2. \A r \in Run : /\ DOMAIN client'[r] = ClientFields
                       /\ \A g \in ClientFields \ {"aborted"} : client'[r][g] = client[r][g]
    BY <1>0, <2>1 DEF ClientShape
  <2>3. \A r \in Run : /\ client'[r].runtime = client[r].runtime /\ client'[r].pc = client[r].pc
                       /\ client'[r].result = client[r].result /\ client'[r].status = client[r].status
                       /\ client'[r].timedOut = client[r].timedOut
    BY <2>2 DEF ClientFields
  <2>4. ClientShape' /\ Pool' /\ Begun'
    BY <1>0, <2>1, <2>2, <2>3 DEF ClientShape, Pool, Begun
  <2>5. Origin'
    BY <1>0, <2>1, <2>3 DEF PoolInv, Origin, ClientShape, Pool
  <2>6. Gone'
    BY <1>0, <2>1, <2>3 DEF PoolInv, Gone, Over, T!Unsuccessful
  <2> QED BY <2>4, <2>5, <2>6 DEF PoolInv
<1> QED BY <1>1, <1>2, <1>3, <1>4, <1>5, <1>6, <1>7, <1>8, <1>9, <1>10, <1>11, <1>12, <1>13, <1>14, <1>15, <1>16
        DEF T!Next, T!Step

\* It holds of an empty pool.
LEMMA PoolStarts == Nobody \notin Run /\ KeyOf \in [Run -> Key] /\ T!Init => PoolInv
  BY DEF T!Init, PoolInv, ClientShape, ClientFields, Pool, Origin, Begun, Gone, Over, T!Empty, T!NotStarted

\* The runtime of a failed run never is in the pool (shared/acp.ts), whatever runs of the
\* same key adopt, cancel, time out or drop in the meantime.
THEOREM RuntimesDropped ==
  Nobody \notin Run /\ KeyOf \in [Run -> Key] => (T!Spec => []T!FailedRuntimesDropped)
<1>1. PoolInv => T!FailedRuntimesDropped
  BY DEF PoolInv, Gone, Over, T!FailedRuntimesDropped
<1>2. SUFFICES ASSUME Nobody \notin Run, KeyOf \in [Run -> Key] PROVE T!Spec => []T!FailedRuntimesDropped
  OBVIOUS
<1> QED BY <1>1, <1>2, PoolStarts, PoolNext, PTL DEF T!Spec

-----------------------------------------------------------------------------
(* DeliveryClaim: the pull request of an attempt.                           *)

\* A delivery has an owner exactly while it is delivering, and begins after the attempt.
Delivery ==
  /\ delivery \in [status : C!DeliveryStatus, owner : Nat, expired : BOOLEAN, claims : Nat]
  /\ delivery.owner > 0 <=> delivery.status = "delivering"
  /\ ~commit.completed => delivery.status = "pending"
  /\ pulls \in {0, 1}
Deliverers ==
  /\ deliverer \in [Deliverer -> [pc : {"idle", "reread", "push", "find", "create", "succeed", "fail"}, owner : Nat]]
  /\ told \in [Deliverer -> {"nothing", "delivered", "failed"}]
  /\ commit \in [sha : Commit \cup {Nobody}, completed : BOOLEAN]
  /\ writer \in Commit \cup {Nobody}

\* Whoever delivers has an owner, and reports success with a pull request only.
Holds(r) == /\ deliverer[r].pc \in {"push", "find", "create", "succeed", "fail"} => deliverer[r].owner > 0
            /\ deliverer[r].pc = "succeed" => pulls = 1
DeliveryInv == Delivery /\ Deliverers /\ (\A r \in Deliverer : Holds(r)) /\ C!DeliveredStays

\* A deliverer that goes on, while the row and the answers stay.
LEMMA DelivererMoves ==
  ASSUME DeliveryInv, NEW r \in Deliverer, UNCHANGED <<delivery, commit, writer, told>>,
         NEW pc \in {"idle", "reread", "push", "find", "create", "succeed", "fail"}, NEW o \in Nat,
         deliverer' = [deliverer EXCEPT ![r] = [pc |-> pc, owner |-> o]],
         pulls' \in {pulls, 1},
         pc \in {"push", "find", "create", "succeed", "fail"} => o > 0,
         pc = "succeed" => pulls' = 1
  PROVE  DeliveryInv'
  <1>1. Deliverers'
    BY DEF DeliveryInv, Deliverers
  <1>2. Delivery' /\ C!DeliveredStays'
    BY DEF DeliveryInv, Delivery, C!DeliveredStays
  <1>3. ASSUME NEW q \in Deliverer PROVE Holds(q)'
    BY <1>2 DEF DeliveryInv, Deliverers, Holds, Delivery
  <1> QED BY <1>1, <1>2, <1>3 DEF DeliveryInv

\* Another place of the same delivery.
LEMMA DelivererWent ==
  ASSUME DeliveryInv, NEW r \in Deliverer, NEW pc, C!Goto(r, pc)
  PROVE  deliverer' = [deliverer EXCEPT ![r] = [pc |-> pc, owner |-> deliverer[r].owner]] /\ deliverer[r].owner \in Nat
  <1>1. [deliverer[r] EXCEPT !.pc = pc] = [pc |-> pc, owner |-> deliverer[r].owner]
    BY DEF DeliveryInv, Deliverers
  <1> QED BY <1>1 DEF DeliveryInv, Deliverers, C!Goto

\* Every step of attempts, deliveries and time keeps the invariant.
LEMMA DeliveryNext == DeliveryInv /\ [C!Next]_(C!vars) => DeliveryInv'
<1> SUFFICES ASSUME DeliveryInv, [C!Next]_(C!vars) PROVE DeliveryInv'
  OBVIOUS
<1>0. Delivery /\ Deliverers /\ C!DeliveredStays /\ \A r \in Deliverer : Holds(r)
  BY DEF DeliveryInv
<1>1. CASE UNCHANGED C!vars
  BY <1>0, <1>1 DEF C!vars, DeliveryInv, Delivery, Deliverers, Holds, C!DeliveredStays
<1>2. ASSUME NEW c \in Commit, C!ReadEvidence(c) PROVE DeliveryInv'
  BY <1>0, <1>2 DEF C!ReadEvidence, DeliveryInv, Delivery, Deliverers, Holds, C!DeliveredStays
<1>3. CASE C!RecordDeliveryCommit
  <2>1. commit' \in [sha : Commit \cup {Nobody}, completed : BOOLEAN] /\ commit'.completed = commit.completed
    BY <1>0, <1>3 DEF C!RecordDeliveryCommit, Deliverers
  <2> QED BY <1>0, <1>3, <2>1 DEF C!RecordDeliveryCommit, DeliveryInv, Delivery, Deliverers, Holds, C!DeliveredStays
<1>4. CASE C!FinalizeWorkItem
  <2>1. commit' \in [sha : Commit \cup {Nobody}, completed : BOOLEAN] /\ commit'.completed
    BY <1>0, <1>4 DEF C!FinalizeWorkItem, Deliverers
  <2>2. /\ delivery' \in [status : C!DeliveryStatus, owner : Nat, expired : BOOLEAN, claims : Nat]
        /\ delivery'.owner = delivery.owner /\ delivery'.status = "ready"
    BY <1>0, <1>4 DEF C!FinalizeWorkItem, Delivery, C!DeliveryStatus
  <2>3. delivery.status = "pending"
    BY <1>0, <1>4 DEF C!FinalizeWorkItem, Delivery
  <2>4. Delivery' /\ Deliverers'
    BY <1>0, <1>4, <2>1, <2>2, <2>3 DEF C!FinalizeWorkItem, Delivery, Deliverers
  <2>5. C!DeliveredStays' /\ \A r \in Deliverer : Holds(r)'
    BY <1>0, <1>4, <2>3 DEF C!FinalizeWorkItem, Holds, C!DeliveredStays
  <2> QED BY <2>4, <2>5 DEF DeliveryInv
<1>5. ASSUME NEW r \in Deliverer, C!ClaimDelivery(r) PROVE DeliveryInv'
  <2>1. /\ delivery.claims \in Nat /\ commit.completed /\ delivery.status # "delivered"
    BY <1>0, <1>5 DEF C!ClaimDelivery, C!Claimable, Delivery
  <2>2. /\ delivery' \in [status : C!DeliveryStatus, owner : Nat, expired : BOOLEAN, claims : Nat]
        /\ delivery'.owner > 0 /\ delivery'.status = "delivering"
    BY <1>5, <2>1 DEF C!ClaimDelivery, C!DeliveryStatus
  <2>3. /\ deliverer' = [deliverer EXCEPT ![r] = [pc |-> "reread", owner |-> deliverer[r].owner]]
        /\ deliverer[r].owner \in Nat
    BY <1>5, DelivererWent DEF C!ClaimDelivery
  <2>4. Delivery' /\ Deliverers'
    BY <1>0, <1>5, <2>1, <2>2, <2>3 DEF C!ClaimDelivery, Delivery, Deliverers
  <2>5. \A q \in Deliverer : Holds(q)'
    BY <1>0, <1>5, <2>3 DEF C!ClaimDelivery, Holds, Deliverers
  <2>6. C!DeliveredStays'
    BY <1>0, <1>5, <2>1 DEF C!ClaimDelivery, C!DeliveredStays
  <2> QED BY <2>4, <2>5, <2>6 DEF DeliveryInv
<1>6. ASSUME NEW r \in Deliverer, C!Reread(r) PROVE DeliveryInv'
  <2>1. UNCHANGED <<delivery, commit, writer, told, pulls>> /\ delivery.owner \in Nat
    BY <1>0, <1>6 DEF C!Reread, Delivery
  <2>2. CASE delivery.owner = 0
    <3>1. deliverer' = [deliverer EXCEPT ![r] = [pc |-> "idle", owner |-> 0]]
      BY <1>6, <2>2 DEF C!Reread, C!AtRest
    <3> QED BY <2>1, <3>1, DelivererMoves
  <2>3. CASE delivery.owner # 0
    <3>1. deliverer' = [deliverer EXCEPT ![r] = [pc |-> "push", owner |-> delivery.owner]]
      BY <1>6, <2>3 DEF C!Reread
    <3>2. delivery.owner > 0
      BY <2>1, <2>3
    <3> QED BY <2>1, <3>1, <3>2, DelivererMoves
  <2> QED BY <2>2, <2>3
<1>7. ASSUME NEW r \in Deliverer, C!Push(r) \/ C!FindPull(r) \/ C!CreatePull(r) PROVE DeliveryInv'
  <2>1. UNCHANGED <<delivery, commit, writer, told>> /\ deliverer[r].owner > 0 /\ pulls \in {0, 1}
    BY <1>0, <1>7 DEF C!Push, C!FindPull, C!CreatePull, C!At, Holds, Delivery
  <2>2. PICK pc \in {"find", "create", "succeed", "fail"} : C!Goto(r, pc) /\ (pc = "succeed" => pulls' = 1)
    BY <1>7, <2>1 DEF C!Push, C!FindPull, C!CreatePull
  <2>3. pulls' \in {pulls, 1}
    BY <1>7 DEF C!Push, C!FindPull, C!CreatePull
  <2> QED BY <2>1, <2>2, <2>3, DelivererWent, DelivererMoves
<1>8. ASSUME NEW r \in Deliverer, C!CompleteDelivery(r) PROVE DeliveryInv'
  <2>1. UNCHANGED <<commit, writer, pulls>> /\ deliverer[r].owner > 0 /\ deliverer[r].pc \in {"succeed", "fail"}
        /\ (deliverer[r].pc = "succeed" => pulls = 1)
    BY <1>0, <1>8 DEF C!CompleteDelivery, Holds
  <2>2. CASE C!Owns(r)
    <3> DEFINE outcome == IF C!At(r, "succeed") THEN "delivered" ELSE "failed"
    <3>1. /\ delivery' = [delivery EXCEPT !.status = outcome, !.owner = 0, !.expired = FALSE]
          /\ told' = [told EXCEPT ![r] = outcome]
          /\ deliverer' = [deliverer EXCEPT ![r] = [pc |-> "idle", owner |-> 0]]
      BY <1>8, <2>2 DEF C!CompleteDelivery, C!AtRest
    <3>2. outcome \in {"delivered", "failed"} /\ (outcome = "delivered" => pulls = 1)
      BY <2>1 DEF C!At
    <3> HIDE DEF outcome
    <3>3. /\ delivery' \in [status : C!DeliveryStatus, owner : Nat, expired : BOOLEAN, claims : Nat]
          /\ delivery'.owner = 0 /\ delivery'.status = outcome
      BY <1>0, <3>1, <3>2 DEF Delivery, C!DeliveryStatus
    <3>4. delivery.status = "delivering" /\ commit.completed
      BY <1>0, <2>2 DEF C!Owns, Delivery
    <3>5. Delivery' /\ Deliverers'
      BY <1>0, <2>1, <3>1, <3>2, <3>3, <3>4 DEF Delivery, Deliverers
    <3>6. \A q \in Deliverer : Holds(q)'
      BY <1>0, <2>1, <3>1 DEF Holds, Deliverers
    <3>7. C!DeliveredStays'
      BY <1>0, <2>1, <3>1, <3>2, <3>3, <3>4 DEF C!DeliveredStays, Deliverers
    <3> QED BY <3>5, <3>6, <3>7 DEF DeliveryInv
  <2>3. CASE ~C!Owns(r)
    <3>1. /\ UNCHANGED delivery /\ told' = [told EXCEPT ![r] = "failed"]
          /\ \/ deliverer' = [deliverer EXCEPT ![r] = [deliverer[r] EXCEPT !.pc = "fail"]]
             \/ deliverer' = [deliverer EXCEPT ![r] = [pc |-> "idle", owner |-> 0]]
      BY <1>8, <2>3 DEF C!CompleteDelivery, C!AtRest
    <3>2. [deliverer[r] EXCEPT !.pc = "fail"] = [pc |-> "fail", owner |-> deliverer[r].owner] /\ deliverer[r].owner \in Nat
      BY <1>0 DEF Deliverers
    <3>3. PICK e \in {[pc |-> "fail", owner |-> deliverer[r].owner], [pc |-> "idle", owner |-> 0]} :
            deliverer' = [deliverer EXCEPT ![r] = e]
      BY <3>1, <3>2
    <3>4. Deliverers'
      BY <1>0, <2>1, <3>1, <3>2, <3>3 DEF Deliverers
    <3>5. \A q \in Deliverer : Holds(q)'
      BY <1>0, <2>1, <3>2, <3>3 DEF Holds, Deliverers
    <3>6. Delivery' /\ C!DeliveredStays'
      BY <1>0, <2>1, <3>1 DEF Delivery, C!DeliveredStays, Deliverers
    <3> QED BY <3>4, <3>5, <3>6 DEF DeliveryInv
  <2> QED BY <2>2, <2>3
<1>9. CASE C!ExpireLease
  <2>1. /\ delivery' \in [status : C!DeliveryStatus, owner : Nat, expired : BOOLEAN, claims : Nat]
        /\ delivery'.owner = delivery.owner /\ delivery'.status = delivery.status
    BY <1>0, <1>9 DEF C!ExpireLease, Delivery
  <2>2. UNCHANGED <<commit, writer, deliverer, pulls, told>>
    BY <1>9 DEF C!ExpireLease
  <2> QED BY <1>0, <2>1, <2>2 DEF DeliveryInv, Delivery, Deliverers, Holds, C!DeliveredStays
<1>10. ASSUME NEW r \in Deliverer, C!Crash(r) PROVE DeliveryInv'
  <2>1. /\ UNCHANGED <<delivery, commit, writer, pulls, told>>
        /\ deliverer' = [deliverer EXCEPT ![r] = [pc |-> "idle", owner |-> 0]]
    BY <1>10 DEF C!Crash, C!AtRest
  <2> QED BY <2>1, DelivererMoves
<1> QED BY <1>1, <1>2, <1>3, <1>4, <1>5, <1>6, <1>7, <1>8, <1>9, <1>10 DEF C!Next, C!Make, C!Deliver

\* It holds before the first attempt.
LEMMA DeliveryStarts == C!Init => DeliveryInv
  BY DEF C!Init, DeliveryInv, Delivery, Deliverers, Holds, C!DeliveredStays, C!DeliveryStatus, C!AtRest

\* A delivery reported as delivered has its one pull request and is never claimed again
\* (claimDelivery and its settlement in the store), however leases end and deliveries race.
THEOREM DeliveriesStay == C!Spec => []C!DeliveredStays
<1>1. DeliveryInv => C!DeliveredStays
  BY DEF DeliveryInv
<1> QED BY <1>1, DeliveryStarts, DeliveryNext, PTL DEF C!Spec

-----------------------------------------------------------------------------
(* Authority: the assignee of a delegation.                                 *)

Decision == [status : A!RouteStatus, agent : Agent \cup {Nobody}]
Calls ==
  /\ router \in [Caller -> [pc : A!CallerPC, request : Asked \cup {A!AtRest.request}, seen : Decision]]
  /\ route \in [Asked -> Decision]
  /\ delegation \in [Asked -> [status : {"none", "created", "failed"}, agent : Agent \cup {Nobody}]]
  /\ work \in [Asked -> Agent \cup {Nobody}]

\* What is recorded of a key rests on its decision, which is that of no later call.
Agreed(r) ==
  /\ work[r] # Nobody => route[r] = [status |-> "routed", agent |-> work[r]]
  /\ delegation[r] # A!NoDelegation => route[r].status = "routed" /\ delegation[r].agent = route[r].agent

\* A call past its routing goes on with the stored decision.
Follows(c) ==
  /\ router[c].pc # "idle" => router[c].request \in Asked
  /\ router[c].pc \in {"create", "record"} =>
       route[router[c].request] = router[c].seen /\ router[c].seen.status = "routed"
AssigneeInv ==
  /\ Wanted \in [Asked -> SUBSET Agent]
  /\ Calls /\ (\A r \in Asked : Agreed(r)) /\ \A c \in Caller : Follows(c)

\* A call that goes on, without a row.
LEMMA RouterMoves ==
  ASSUME AssigneeInv, NEW c \in Caller, UNCHANGED <<route, delegation, work>>,
         NEW e \in [pc : A!CallerPC, request : Asked \cup {A!AtRest.request}, seen : Decision],
         router' = [router EXCEPT ![c] = e],
         e.pc # "idle" => e.request \in Asked,
         e.pc \in {"create", "record"} => route[e.request] = e.seen /\ e.seen.status = "routed"
  PROVE  AssigneeInv'
  <1>1. Calls'
    BY DEF AssigneeInv, Calls
  <1>2. \A r \in Asked : Agreed(r)'
    BY DEF AssigneeInv, Agreed
  <1>3. ASSUME NEW d \in Caller PROVE Follows(d)'
    BY DEF AssigneeInv, Follows, Calls
  <1> QED BY <1>1, <1>2, <1>3 DEF AssigneeInv

\* Another place of the same call is such an entry.
LEMMA RouterWent ==
  ASSUME AssigneeInv, NEW c \in Caller, NEW pc \in A!CallerPC
  PROVE  /\ [router[c] EXCEPT !.pc = pc] = [pc |-> pc, request |-> router[c].request, seen |-> router[c].seen]
         /\ [router[c] EXCEPT !.pc = pc] \in [pc : A!CallerPC, request : Asked \cup {A!AtRest.request}, seen : Decision]
  BY DEF AssigneeInv, Calls

\* Another place of the same call, with the decision it read.
LEMMA RouterWentWith ==
  ASSUME AssigneeInv, NEW c \in Caller, NEW pc \in A!CallerPC, NEW d \in Decision
  PROVE  /\ [[router[c] EXCEPT !.pc = pc] EXCEPT !.seen = d] = [pc |-> pc, request |-> router[c].request, seen |-> d]
         /\ [[router[c] EXCEPT !.seen = d] EXCEPT !.pc = pc] = [pc |-> pc, request |-> router[c].request, seen |-> d]
         /\ [pc |-> pc, request |-> router[c].request, seen |-> d] \in
              [pc : A!CallerPC, request : Asked \cup {A!AtRest.request}, seen : Decision]
         /\ router[c].request \in Asked \cup {A!AtRest.request}
  <1>1. PICK p, q, s : router[c] = [pc |-> p, request |-> q, seen |-> s] /\ q \in Asked \cup {A!AtRest.request}
    BY DEF AssigneeInv, Calls
  <1>2. [router[c] EXCEPT !.pc = pc] = [pc |-> pc, request |-> q, seen |-> s]
    BY <1>1
  <1>3. [router[c] EXCEPT !.seen = d] = [pc |-> p, request |-> q, seen |-> d]
    BY <1>1
  <1>4. /\ [[pc |-> pc, request |-> q, seen |-> s] EXCEPT !.seen = d] = [pc |-> pc, request |-> q, seen |-> d]
        /\ [[pc |-> p, request |-> q, seen |-> d] EXCEPT !.pc = pc] = [pc |-> pc, request |-> q, seen |-> d]
    OBVIOUS
  <1>5. router[c].request = q
    BY <1>1
  <1> QED BY <1>1, <1>2, <1>3, <1>4, <1>5

\* Every step of delegations, edges, reconciliations and agents keeps the invariant.
LEMMA AssigneeNext == AssigneeInv /\ [A!Next]_(A!vars) => AssigneeInv'
<1> SUFFICES ASSUME AssigneeInv, [A!Next]_(A!vars) PROVE AssigneeInv'
  OBVIOUS
<1> DEFINE Entry == [pc : A!CallerPC, request : Asked \cup {A!AtRest.request}, seen : Decision]
<1>0. Calls /\ (\A r \in Asked : Agreed(r)) /\ (\A c \in Caller : Follows(c)) /\ Wanted \in [Asked -> SUBSET Agent]
  BY DEF AssigneeInv
<1>1. ASSUME UNCHANGED <<route, delegation, work, router>> PROVE AssigneeInv'
  BY <1>0, <1>1 DEF AssigneeInv, Calls, Agreed, Follows
<1>2. CASE UNCHANGED A!vars
  BY <1>1, <1>2 DEF A!vars, A!requests
<1>3. CASE A!SetEdge
  BY <1>1, <1>3 DEF A!SetEdge, A!ReadEdges, A!InsertEdge, A!requests
<1>4. CASE A!Reconcile
  BY <1>1, <1>4 DEF A!Reconcile, A!BeginReconcile, A!Register, A!Retire, A!DropEdges, A!AddEdges, A!CrashReconcile, A!requests
<1>5. CASE A!Life
  BY <1>1, <1>5 DEF A!Life, A!RegisterServiceAgent, A!HeartbeatServiceAgent, A!ReconcileServiceAgents,
     A!TransitionServiceAgent, A!WriteService, A!requests
<1>6. ASSUME NEW r \in Asked, A!Answer(r) PROVE AssigneeInv'
  BY <1>1, <1>6 DEF A!Answer, A!AcknowledgeEscalation, A!ResolveEscalation
<1>7. ASSUME NEW c \in Caller, NEW r \in Asked, A!BeginDelegate(c, r) PROVE AssigneeInv'
  <2> DEFINE e == [A!AtRest EXCEPT !.pc = "find", !.request = r]
  <2>0. PICK x : A!AtRest = [pc |-> "idle", request |-> x, seen |-> A!NoRoute]
    BY Zenon DEF A!AtRest
  <2>1. e = [pc |-> "find", request |-> r, seen |-> A!NoRoute]
    <3>1. [A!AtRest EXCEPT !.pc = "find"] = [pc |-> "find", request |-> x, seen |-> A!NoRoute]
      BY <2>0
    <3>2. [[pc |-> "find", request |-> x, seen |-> A!NoRoute] EXCEPT !.request = r]
            = [pc |-> "find", request |-> r, seen |-> A!NoRoute]
      OBVIOUS
    <3>3. e = [[A!AtRest EXCEPT !.pc = "find"] EXCEPT !.request = r]
      OBVIOUS
    <3> QED BY <3>1, <3>2, <3>3
  <2> HIDE DEF e
  <2>2. e \in Entry
    BY <2>1 DEF A!CallerPC, Decision, A!NoRoute, A!RouteStatus
  <2>3. router' = [router EXCEPT ![c] = e] /\ UNCHANGED <<route, delegation, work>>
    BY <1>7 DEF A!BeginDelegate, e
  <2> QED BY <2>1, <2>2, <2>3, RouterMoves
<1>8. ASSUME NEW c \in Caller, A!CrashCall(c) PROVE AssigneeInv'
  <2>1. A!AtRest \in Entry /\ A!AtRest.pc = "idle"
    BY DEF A!AtRest, A!CallerPC, Decision, A!NoRoute, A!RouteStatus
  <2>2. router' = [router EXCEPT ![c] = A!AtRest] /\ UNCHANGED <<route, delegation, work>>
    BY <1>8 DEF A!CrashCall
  <2> QED BY <2>1, <2>2, RouterMoves
<1>9. ASSUME NEW c \in Caller, A!FindDelegation(c) \/ A!CreateEscalation(c) PROVE AssigneeInv'
  <2>1. PICK pc \in {"idle", "look", "persist"} : router' = [router EXCEPT ![c] = [router[c] EXCEPT !.pc = pc]]
    BY <1>9 DEF A!FindDelegation, A!CreateEscalation, A!Goto
  <2>2. UNCHANGED <<route, delegation, work>> /\ router[c].request \in Asked
    BY <1>0, <1>9 DEF A!FindDelegation, A!CreateEscalation, Follows
  <2>3. pc \in A!CallerPC
    BY DEF A!CallerPC
  <2> QED BY <2>1, <2>2, <2>3, RouterWent, RouterMoves
<1>10. ASSUME NEW c \in Caller, A!FindRoute(c) PROVE AssigneeInv'
  <2> DEFINE found == route[router[c].request]
  <2>1. UNCHANGED <<route, delegation, work>> /\ router[c].request \in Asked /\ found \in Decision
    BY <1>0, <1>10 DEF A!FindRoute, Follows, Calls
  <2>2. CASE found = A!NoRoute
    <3>1. router' = [router EXCEPT ![c] = [router[c] EXCEPT !.pc = "choose"]] /\ "choose" \in A!CallerPC
      BY <1>10, <2>2 DEF A!FindRoute, A!Goto, A!Key, A!CallerPC
    <3> QED BY <2>1, <3>1, RouterWent, RouterMoves
  <2>3. CASE found # A!NoRoute
    <3> DEFINE e == [pc |-> A!Follow(found), request |-> router[c].request, seen |-> found]
    <3>1. router' = [router EXCEPT ![c].seen = found, ![c].pc = A!Follow(found)]
      BY <1>10, <2>3 DEF A!FindRoute, A!Key
    <3>1a. A!Follow(found) \in A!CallerPC
      BY DEF A!Follow, A!CallerPC
    <3>2. [[router[c] EXCEPT !.seen = found] EXCEPT !.pc = A!Follow(found)] = e /\ e \in Entry
      BY <2>1, <3>1a, RouterWentWith
    <3>3. router' = [router EXCEPT ![c] = e]
      BY <1>0, <3>1, <3>2 DEF Calls
    <3> QED BY <2>1, <3>2, <3>3, RouterMoves DEF A!Follow
  <2> QED BY <2>2, <2>3
<1>11. ASSUME NEW c \in Caller, A!Choose(c) PROVE AssigneeInv'
  <2>1. UNCHANGED <<route, delegation, work>> /\ router[c].request \in Asked
    BY <1>0, <1>11 DEF A!Choose, Follows
  <2>2. PICK pc \in {"escalate", "persist"}, d \in Decision : router' = [router EXCEPT ![c].pc = pc, ![c].seen = d]
    <3>1. CASE A!Eligible(A!Key(c)) = {}
      <4>1. [status |-> "escalated", agent |-> Nobody] \in Decision
        BY DEF Decision, A!RouteStatus
      <4> QED BY <1>11, <3>1, <4>1 DEF A!Choose
    <3>2. CASE A!Eligible(A!Key(c)) # {}
      <4>1. PICK a \in A!Eligible(A!Key(c)) :
              router' = [router EXCEPT ![c].pc = IF A!Authorised(a) THEN "persist" ELSE "escalate",
                                       ![c].seen = IF A!Authorised(a) THEN [status |-> "routed", agent |-> a]
                                                   ELSE [status |-> "rejected", agent |-> Nobody]]
        BY <1>11, <3>2 DEF A!Choose
      <4>2. a \in Agent
        BY <1>0, <2>1, <4>1 DEF A!Eligible, A!Key
      <4>3. [status |-> "routed", agent |-> a] \in Decision /\ [status |-> "rejected", agent |-> Nobody] \in Decision
        BY <4>2 DEF Decision, A!RouteStatus
      <4>4. CASE A!Authorised(a)
        BY <4>1, <4>3, <4>4
      <4>5. CASE ~A!Authorised(a)
        BY <4>1, <4>3, <4>5
      <4> QED BY <4>4, <4>5
    <3> QED BY <3>1, <3>2
  <2> DEFINE e == [pc |-> pc, request |-> router[c].request, seen |-> d]
  <2>2a. pc \in A!CallerPC
    BY DEF A!CallerPC
  <2>3. [[router[c] EXCEPT !.pc = pc] EXCEPT !.seen = d] = e /\ e \in Entry
    BY <2>2a, RouterWentWith
  <2>4. router' = [router EXCEPT ![c] = e]
    BY <1>0, <2>2, <2>3 DEF Calls
  <2> QED BY <2>1, <2>3, <2>4, RouterMoves
<1>12. ASSUME NEW c \in Caller, A!PersistRoute(c) PROVE AssigneeInv'
  <2> DEFINE k == router[c].request
             d == A!Adopted(c)
             e == [pc |-> A!Follow(d), request |-> k, seen |-> d]
  <2>1. k \in Asked /\ UNCHANGED <<delegation, work>> /\ route' = [route EXCEPT ![k] = d]
    BY <1>0, <1>12 DEF A!PersistRoute, Follows, A!Key
  <2>2. d \in Decision /\ (route[k] # A!NoRoute => d = route[k])
    BY <1>0, <2>1 DEF A!Adopted, Calls, A!Key
  <2>3. router' = [router EXCEPT ![c].seen = d, ![c].pc = A!Follow(d)]
    BY <1>12 DEF A!PersistRoute
  <2>4. A!Follow(d) \in {"create", "idle"} /\ (A!Follow(d) = "create" => d.status = "routed")
    BY DEF A!Follow
  <2> HIDE DEF d
  <2>4a. A!Follow(d) \in A!CallerPC
    BY <2>4 DEF A!CallerPC
  <2>5. [[router[c] EXCEPT !.seen = d] EXCEPT !.pc = A!Follow(d)] = e /\ e \in Entry
    BY <2>2, <2>4a, RouterWentWith
  <2>6. router' = [router EXCEPT ![c] = e]
    BY <1>0, <2>3, <2>5 DEF Calls
  <2> HIDE DEF k, e
  <2>7. Calls'
    BY <1>0, <2>1, <2>2, <2>5, <2>6 DEF Calls
  <2>8. \A r \in Asked : route[r] # A!NoRoute => route'[r] = route[r]
    BY <1>0, <2>1, <2>2 DEF Calls
  <2>9. ASSUME NEW r \in Asked PROVE Agreed(r)'
    BY <1>0, <2>1, <2>8 DEF Agreed, A!NoRoute
  <2>10. ASSUME NEW q \in Caller PROVE Follows(q)'
    <3>1. CASE q = c
      <4>1. router'[q] = e /\ route'[k] = d
        BY <1>0, <2>1, <2>6, <3>1 DEF Calls
      <4> QED BY <4>1, <2>1, <2>4 DEF Follows, e
    <3>2. CASE q # c
      <4>1. router'[q] = router[q]
        BY <1>0, <2>6, <3>2 DEF Calls
      <4> QED BY <1>0, <2>8, <4>1 DEF Follows, A!NoRoute
    <3> QED BY <3>1, <3>2
  <2> QED BY <1>0, <2>7, <2>9, <2>10 DEF AssigneeInv
<1>13. ASSUME NEW c \in Caller, A!CreateWork(c) \/ A!RecordDelegation(c) PROVE AssigneeInv'
  <2> DEFINE k == router[c].request
             s == router[c].seen
  <2>1. k \in Asked /\ UNCHANGED route /\ route[k] = s /\ s.status = "routed" /\ s \in Decision
    BY <1>0, <1>13 DEF A!CreateWork, A!RecordDelegation, Follows, Calls
  <2>2. PICK pc \in {"record", "idle"} : /\ router' = [router EXCEPT ![c] = [router[c] EXCEPT !.pc = pc]]
                                         /\ pc = "record" => router[c].pc = "create"
    BY <1>13 DEF A!CreateWork, A!RecordDelegation, A!Goto
  <2>3. pc \in A!CallerPC
    BY DEF A!CallerPC
  <2>4. /\ router' = [router EXCEPT ![c] = [pc |-> pc, request |-> k, seen |-> s]]
        /\ [pc |-> pc, request |-> k, seen |-> s] \in Entry
    BY <2>2, <2>3, RouterWent
  <2>5. PICK status \in {"failed", "created"} :
          delegation' \in {delegation, [delegation EXCEPT ![k] =
            IF @ = A!NoDelegation THEN [status |-> status, agent |-> s.agent] ELSE @]}
    BY <1>13 DEF A!CreateWork, A!RecordDelegation, A!Key
  <2>6. work' \in {work, [work EXCEPT ![k] = IF @ = Nobody THEN s.agent ELSE @]}
    BY <1>13 DEF A!CreateWork, A!RecordDelegation, A!Key
  <2>6a. s = [status |-> "routed", agent |-> s.agent] /\ s.agent \in Agent \cup {Nobody}
    BY <2>1 DEF Decision
  <2> HIDE DEF s, k
  <2>7. /\ work' \in [Asked -> Agent \cup {Nobody}]
        /\ \A r \in Asked : work'[r] # work[r] => r = k /\ work'[r] = s.agent
    BY <1>0, <2>1, <2>6, <2>6a DEF Calls
  <2>8. /\ delegation' \in [Asked -> [status : {"none", "created", "failed"}, agent : Agent \cup {Nobody}]]
        /\ \A r \in Asked : delegation'[r] # delegation[r] => r = k /\ delegation'[r].agent = s.agent
    BY <1>0, <2>1, <2>5, <2>6a DEF Calls
  <2>9. Calls'
    BY <1>0, <2>1, <2>4, <2>7, <2>8 DEF Calls
  <2>10. ASSUME NEW r \in Asked PROVE Agreed(r)'
    BY <1>0, <2>1, <2>6a, <2>7, <2>8 DEF Agreed
  <2>11. ASSUME NEW q \in Caller PROVE Follows(q)'
    <3>1. CASE q = c
      BY <1>0, <2>1, <2>4, <3>1 DEF Follows, Calls
    <3>2. CASE q # c
      <4>1. router'[q] = router[q]
        BY <1>0, <2>4, <3>2 DEF Calls
      <4> QED BY <1>0, <2>1, <4>1 DEF Follows
    <3> QED BY <3>1, <3>2
  <2> QED BY <1>0, <2>9, <2>10, <2>11 DEF AssigneeInv
<1> QED BY <1>2, <1>3, <1>4, <1>5, <1>6, <1>7, <1>8, <1>9, <1>10, <1>11, <1>12, <1>13 DEF A!Next, A!Delegate

\* It holds before the first delegation.
LEMMA AssigneeStarts == Wanted \in [Asked -> SUBSET Agent] /\ A!Init => AssigneeInv
<1> SUFFICES ASSUME Wanted \in [Asked -> SUBSET Agent], A!Init PROVE AssigneeInv
  OBVIOUS
<1>1. A!NoRoute \in Decision
  BY DEF A!NoRoute, Decision, A!RouteStatus
<1>2. A!AtRest \in [pc : A!CallerPC, request : Asked \cup {A!AtRest.request}, seen : Decision] /\ A!AtRest.pc = "idle"
  BY <1>1 DEF A!AtRest, A!CallerPC
<1>3. Calls
  BY <1>1, <1>2 DEF A!Init, Calls, A!NoDelegation
<1> QED BY <1>2, <1>3 DEF A!Init, AssigneeInv, Agreed, Follows

\* The calls of one delegation key agree (delegate, control-plane.ts): work, delegation and
\* routing decision name the same agent, one of the wanted, however they race and die.
THEOREM AssigneesAgree == Wanted \in [Asked -> SUBSET Agent] => (A!Spec => []A!OneAssignee)
<1>1. AssigneeInv => A!OneAssignee
  BY DEF AssigneeInv, Agreed, A!OneAssignee
<1>2. SUFFICES ASSUME Wanted \in [Asked -> SUBSET Agent] PROVE A!Spec => []A!OneAssignee
  OBVIOUS
<1> QED BY <1>1, <1>2, AssigneeStarts, AssigneeNext, PTL DEF A!Spec

-----------------------------------------------------------------------------
(* Directory: the change requests of autonomy proposals.                    *)

Change == [op : {"find", "review", "insert", "commit", "open", "record"}, proposal : Proposal]
Clerks ==
  clerk \in [Caller -> {D!AtRest} \cup Change
               \cup [op : {"manager"}, department : Department, person : Person, joined : BOOLEAN]
               \cup [op : {"decide"}, proposal : Proposal, decision : {"approved", "rejected"}]]
Publishing == {"commit", "open", "record"}
Changes ==
  /\ carried \in [Proposal -> D!RequestStatus] /\ opened \in [Proposal -> {0, 1}]
  /\ \A p \in Proposal : /\ carried[p] = "none" => opened[p] = 0
                         /\ carried[p] = "published" => opened[p] = 1

\* The call that inserted the row is the only one that publishes.
Publisher(c) ==
  clerk[c].op \in Publishing =>
    /\ carried[clerk[c].proposal] = "preparing"
    /\ opened[clerk[c].proposal] = IF clerk[c].op = "record" THEN 1 ELSE 0
    /\ \A d \in Caller : clerk[d].op \in Publishing /\ clerk[d].proposal = clerk[c].proposal => d = c
ChangeInv == Clerks /\ Changes /\ \A c \in Caller : Publisher(c)

\* A call that is not publishing afterwards, while rows and pull requests stay.
LEMMA ClerkRests ==
  ASSUME ChangeInv, NEW c \in Caller, Clerks', clerk'[c].op \notin Publishing, UNCHANGED <<carried, opened>>,
         \A d \in Caller \ {c} : clerk'[d] = clerk[d]
  PROVE  ChangeInv'
  <1>1. ASSUME NEW d \in Caller PROVE Publisher(d)'
    BY <1>1 DEF ChangeInv, Publisher
  <1> QED BY <1>1 DEF ChangeInv, Changes

\* What the assignments to a call do.
LEMMA ClerkTurns ==
  ASSUME ChangeInv, NEW c \in Caller
  PROVE  /\ D!Rest(c) => /\ Clerks' /\ clerk'[c].op = "idle"
                         /\ \A d \in Caller \ {c} : clerk'[d] = clerk[d]
         /\ \A op \in {"find", "review", "insert", "commit", "open", "record"} :
              clerk[c] \in Change /\ D!Goto(c, op) =>
                /\ Clerks' /\ clerk'[c].op = op /\ clerk'[c].proposal = clerk[c].proposal
                /\ \A d \in Caller \ {c} : clerk'[d] = clerk[d]
  <1>1. D!Rest(c) => Clerks' /\ clerk'[c].op = "idle" /\ \A d \in Caller \ {c} : clerk'[d] = clerk[d]
    BY DEF ChangeInv, Clerks, D!Rest, D!AtRest
  <1>2. ASSUME NEW op \in {"find", "review", "insert", "commit", "open", "record"}, clerk[c] \in Change, D!Goto(c, op)
        PROVE /\ Clerks' /\ clerk'[c].op = op /\ clerk'[c].proposal = clerk[c].proposal
              /\ \A d \in Caller \ {c} : clerk'[d] = clerk[d]
    <2>1. [clerk[c] EXCEPT !.op = op] = [op |-> op, proposal |-> clerk[c].proposal] /\ clerk[c].proposal \in Proposal
      BY <1>2 DEF Change
    <2>2. clerk' = [clerk EXCEPT ![c] = [op |-> op, proposal |-> clerk[c].proposal]]
      BY <1>2, <2>1 DEF D!Goto, ChangeInv, Clerks
    <2>3. [op |-> op, proposal |-> clerk[c].proposal] \in Change
      BY <1>2, <2>1 DEF Change
    <2> QED BY <2>2, <2>3 DEF ChangeInv, Clerks
  <1> QED BY <1>1, <1>2

\* Who carries a proposal holds one.
LEMMA Changing ==
  ASSUME ChangeInv, NEW c \in Caller, clerk[c].op \in {"find", "review", "insert", "commit", "open", "record"}
  PROVE  clerk[c] \in Change /\ clerk[c].proposal \in Proposal
  BY DEF ChangeInv, Clerks, Change, D!AtRest

\* Every step of requests, decisions, merges and imports keeps the invariant.
LEMMA ChangeNext == ChangeInv /\ [D!Next]_(D!vars) => ChangeInv'
<1> SUFFICES ASSUME ChangeInv, [D!Next]_(D!vars) PROVE ChangeInv'
  OBVIOUS
<1>0. Clerks /\ Changes /\ \A c \in Caller : Publisher(c)
  BY DEF ChangeInv
<1>1. ASSUME UNCHANGED <<carried, opened, clerk>> PROVE ChangeInv'
  BY <1>0, <1>1 DEF ChangeInv, Clerks, Changes, Publisher
<1>2. CASE UNCHANGED D!vars
  BY <1>1, <1>2 DEF D!vars
<1>3. CASE D!Others
  BY <1>1, <1>3 DEF D!Others, D!CreateAutonomyProposal, D!Merge, D!ImportCompany
<1>4. ASSUME NEW c \in Caller, D!Crash(c) \/ D!FindChange(c) \/ D!ReviewChange(c) PROVE ChangeInv'
  <2>1. UNCHANGED <<carried, opened>>
    BY <1>4 DEF D!Crash, D!FindChange, D!ReviewChange
  <2>2. CASE D!Rest(c)
    BY <2>1, <2>2, ClerkTurns, ClerkRests DEF Publishing
  <2>3. CASE ~D!Rest(c)
    <3>1. PICK op \in {"review", "insert"} : D!Goto(c, op) /\ clerk[c].op \in {"find", "review"}
      BY <1>4, <2>3 DEF D!Crash, D!FindChange, D!ReviewChange
    <3>2. clerk[c] \in Change
      BY <3>1, Changing
    <3> QED BY <2>1, <3>1, <3>2, ClerkTurns, ClerkRests DEF Publishing
  <2> QED BY <2>2, <2>3
<1>5. ASSUME NEW c \in Caller, NEW p \in Proposal, D!BeginChange(c, p) PROVE ChangeInv'
  <2>1. /\ UNCHANGED <<carried, opened>>
        /\ clerk' = [clerk EXCEPT ![c] = [op |-> "find", proposal |-> p]]
    BY <1>5 DEF D!BeginChange
  <2>2. [op |-> "find", proposal |-> p] \in Change
    BY DEF Change
  <2>3. Clerks' /\ clerk'[c].op = "find" /\ \A d \in Caller \ {c} : clerk'[d] = clerk[d]
    BY <1>0, <2>1, <2>2 DEF Clerks
  <2> QED BY <2>1, <2>3, ClerkRests DEF Publishing
<1>6. ASSUME NEW c \in Caller, D!InsertChange(c) PROVE ChangeInv'
  <2> DEFINE p == clerk[c].proposal
  <2>1. clerk[c] \in Change /\ p \in Proposal /\ UNCHANGED opened
    BY <1>6, Changing DEF D!InsertChange
  <2>2. CASE carried[p] # "none"
    <3>1. D!Rest(c) /\ UNCHANGED carried
      BY <1>6, <2>2 DEF D!InsertChange, D!Asked
    <3> QED BY <2>1, <3>1, ClerkTurns, ClerkRests DEF Publishing
  <2>3. CASE carried[p] = "none"
    <3>1. carried' = [carried EXCEPT ![p] = "preparing"] /\ D!Goto(c, "commit")
      BY <1>6, <2>3 DEF D!InsertChange, D!Asked
    <3>2. /\ Clerks' /\ clerk'[c].op = "commit" /\ clerk'[c].proposal = p
          /\ \A d \in Caller \ {c} : clerk'[d] = clerk[d]
      BY <2>1, <3>1, ClerkTurns
    <3>3. opened[p] = 0 /\ \A d \in Caller : clerk[d].op \in Publishing => clerk[d].proposal # p
      BY <1>0, <2>1, <2>3 DEF Changes, Publisher
    <3>4. Changes'
      BY <1>0, <2>1, <3>1, <3>3 DEF Changes, D!RequestStatus
    <3>5. ASSUME NEW d \in Caller PROVE Publisher(d)'
      <4>1. CASE d = c
        BY <1>0, <2>1, <3>1, <3>2, <3>3, <4>1 DEF Publisher, Changes
      <4>2. CASE d # c
        <5>1. clerk[d].op \in Publishing => clerk[d].proposal \in Proposal
          BY Changing DEF Publishing
        <5> QED BY <1>0, <2>1, <3>1, <3>2, <3>3, <4>2, <5>1 DEF Publisher, Changes
      <4> QED BY <4>1, <4>2
    <3> QED BY <3>2, <3>4, <3>5 DEF ChangeInv
  <2> QED BY <2>2, <2>3
<1>7. ASSUME NEW c \in Caller, D!FailChange(c) \/ D!RecordChange(c) PROVE ChangeInv'
  <2> DEFINE p == clerk[c].proposal
  <2>1. clerk[c] \in Change /\ p \in Proposal /\ UNCHANGED opened /\ D!Rest(c)
    BY <1>7, Changing DEF D!FailChange, D!RecordChange
  <2>2. PICK s \in {"failed", "published"} : /\ carried' = [carried EXCEPT ![p] = s]
                                             /\ s = "published" => clerk[c].op = "record"
    BY <1>7 DEF D!FailChange, D!RecordChange, D!Asked
  <2>3. /\ Clerks' /\ clerk'[c].op = "idle"
        /\ \A d \in Caller \ {c} : clerk'[d] = clerk[d]
    BY <2>1, ClerkTurns
  <2>4. /\ s = "published" => opened[p] = 1
        /\ \A d \in Caller \ {c} : clerk[d].op \in Publishing => clerk[d].proposal # p
    BY <1>0, <1>7, <2>2 DEF Publisher, Publishing, D!FailChange, D!RecordChange
  <2>5. Changes'
    BY <1>0, <2>1, <2>2, <2>4 DEF Changes, D!RequestStatus
  <2>6. ASSUME NEW d \in Caller PROVE Publisher(d)'
    <3>1. CASE d = c
      BY <2>3, <3>1 DEF Publisher, Publishing
    <3>2. CASE d # c
      <4>1. clerk[d].op \in Publishing => clerk[d].proposal \in Proposal
        BY Changing DEF Publishing
      <4>2. clerk[d].op \in Publishing => carried'[clerk[d].proposal] = carried[clerk[d].proposal]
        BY <1>0, <2>2, <2>4, <3>2, <4>1 DEF Changes
      <4>3. clerk'[c].op \notin Publishing
        BY <2>3 DEF Publishing
      <4> QED BY <1>0, <2>1, <2>3, <3>2, <4>2, <4>3 DEF Publisher
    <3> QED BY <3>1, <3>2
  <2> QED BY <2>3, <2>5, <2>6 DEF ChangeInv
<1>8. ASSUME NEW c \in Caller, D!CommitAndPush(c) PROVE ChangeInv'
  <2>1. clerk[c] \in Change /\ clerk[c].op = "commit" /\ D!Goto(c, "open") /\ UNCHANGED <<carried, opened>>
    BY <1>8, Changing DEF D!CommitAndPush
  <2>2. /\ Clerks' /\ clerk'[c].op = "open" /\ clerk'[c].proposal = clerk[c].proposal
        /\ \A d \in Caller \ {c} : clerk'[d] = clerk[d]
    BY <2>1, ClerkTurns
  <2>3. ASSUME NEW d \in Caller PROVE Publisher(d)'
    BY <1>0, <2>1, <2>2 DEF Publisher, Publishing
  <2> QED BY <1>0, <2>1, <2>2, <2>3 DEF ChangeInv, Changes
<1>9. ASSUME NEW c \in Caller, D!OpenPullRequest(c) PROVE ChangeInv'
  <2> DEFINE p == clerk[c].proposal
  <2>1. clerk[c] \in Change /\ p \in Proposal /\ clerk[c].op = "open" /\ D!Goto(c, "record") /\ UNCHANGED carried
    BY <1>9, Changing DEF D!OpenPullRequest
  <2>2. opened' = [opened EXCEPT ![p] = opened[p] + 1]
    BY <1>9 DEF D!OpenPullRequest, D!Asked
  <2>3. /\ Clerks' /\ clerk'[c].op = "record" /\ clerk'[c].proposal = p
        /\ \A d \in Caller \ {c} : clerk'[d] = clerk[d]
    BY <2>1, ClerkTurns
  <2>4. /\ opened[p] = 0 /\ carried[p] = "preparing"
        /\ \A d \in Caller \ {c} : clerk[d].op \in Publishing => clerk[d].proposal # p
    BY <1>0, <2>1 DEF Publisher, Publishing
  <2>5. opened' = [opened EXCEPT ![p] = 1]
    BY <2>2, <2>4
  <2>6. Changes'
    BY <1>0, <2>1, <2>4, <2>5 DEF Changes
  <2>7. ASSUME NEW d \in Caller PROVE Publisher(d)'
    <3>1. CASE d = c
      BY <1>0, <2>1, <2>3, <2>4, <2>5, <3>1 DEF Publisher, Publishing, Changes
    <3>2. CASE d # c
      <4>1. clerk[d].op \in Publishing => clerk[d].proposal \in Proposal
        BY Changing DEF Publishing
      <4>2. clerk[d].op \in Publishing => opened'[clerk[d].proposal] = opened[clerk[d].proposal]
        BY <1>0, <2>4, <2>5, <3>2, <4>1 DEF Changes
      <4> QED BY <1>0, <2>1, <2>3, <2>4, <3>2, <4>2 DEF Publisher
    <3> QED BY <3>1, <3>2
  <2> QED BY <2>3, <2>6, <2>7 DEF ChangeInv
<1>10. ASSUME NEW c \in Caller, D!Organise(c) \/ D!Decide(c) PROVE ChangeInv'
  <2>1. UNCHANGED <<carried, opened>>
    BY <1>10 DEF D!Organise, D!Decide, D!CreateDepartment, D!SetDepartmentMember, D!PutManager,
       D!DecideAutonomyProposal, D!WriteDecision
  <2>2. CASE D!Rest(c)
    BY <2>1, <2>2, ClerkTurns, ClerkRests DEF Publishing
  <2>3. PICK e \in {D!AtRest} \cup [op : {"manager"}, department : Department, person : Person, joined : BOOLEAN]
                  \cup [op : {"decide"}, proposal : Proposal, decision : {"approved", "rejected"}] :
          clerk' = [clerk EXCEPT ![c] = e]
    <3>1. ASSUME NEW d \in Department, NEW p \in Person \cup {Nobody}, D!CreateDepartment(c, d, p)
          PROVE \E e \in {D!AtRest} \cup [op : {"manager"}, department : Department, person : Person, joined : BOOLEAN] :
                  clerk' = [clerk EXCEPT ![c] = e]
      <4>1. CASE p = Nobody
        BY <3>1, <4>1 DEF D!CreateDepartment
      <4>2. CASE p # Nobody
        <5>1. [op |-> "manager", department |-> d, person |-> p, joined |-> FALSE]
                \in [op : {"manager"}, department : Department, person : Person, joined : BOOLEAN]
          BY <4>2
        <5> QED BY <3>1, <4>2, <5>1 DEF D!CreateDepartment
      <4> QED BY <4>1, <4>2
    <3>2. ASSUME NEW d \in Department, NEW p \in Person, NEW role, D!SetDepartmentMember(c, d, p, role)
          PROVE \E e \in {D!AtRest} \cup [op : {"manager"}, department : Department, person : Person, joined : BOOLEAN] :
                  clerk' = [clerk EXCEPT ![c] = e]
      <4>1. CASE role = "member"
        BY <3>2, <4>1 DEF D!SetDepartmentMember
      <4>2. CASE role # "member"
        <5>1. [op |-> "manager", department |-> d, person |-> p, joined |-> TRUE]
                \in [op : {"manager"}, department : Department, person : Person, joined : BOOLEAN]
          OBVIOUS
        <5> QED BY <3>2, <4>2, <5>1 DEF D!SetDepartmentMember
      <4> QED BY <4>1, <4>2
    <3>3. ASSUME D!PutManager(c)
          PROVE \E e \in {D!AtRest} \cup [op : {"manager"}, department : Department, person : Person, joined : BOOLEAN] :
                  clerk' = [clerk EXCEPT ![c] = e]
      <4>1. CASE D!Rest(c)
        BY <4>1 DEF D!Rest
      <4>2. CASE ~D!Rest(c)
        <5>1. clerk' = [clerk EXCEPT ![c] = [clerk[c] EXCEPT !.joined = TRUE]] /\ clerk[c].op = "manager"
          BY <3>3, <4>2 DEF D!PutManager
        <5>2. clerk[c] \in [op : {"manager"}, department : Department, person : Person, joined : BOOLEAN]
          BY <1>0, <5>1 DEF Clerks, D!AtRest, Change
        <5>3. [clerk[c] EXCEPT !.joined = TRUE] \in [op : {"manager"}, department : Department, person : Person, joined : BOOLEAN]
          BY <5>2
        <5> QED BY <5>1, <5>3
      <4> QED BY <4>1, <4>2
    <3>4. ASSUME NEW p \in Proposal, NEW decision \in {"approved", "rejected"}, D!DecideAutonomyProposal(c, p, decision)
          PROVE \E e \in [op : {"decide"}, proposal : Proposal, decision : {"approved", "rejected"}] :
                  clerk' = [clerk EXCEPT ![c] = e]
      <4>1. [op |-> "decide", proposal |-> p, decision |-> decision]
              \in [op : {"decide"}, proposal : Proposal, decision : {"approved", "rejected"}]
        OBVIOUS
      <4> QED BY <3>4, <4>1 DEF D!DecideAutonomyProposal
    <3>5. ASSUME D!WriteDecision(c) PROVE clerk' = [clerk EXCEPT ![c] = D!AtRest]
      BY <3>5 DEF D!WriteDecision, D!Rest
    <3> QED BY <1>10, <3>1, <3>2, <3>3, <3>4, <3>5 DEF D!Organise, D!Decide
  <2>4. e.op \in {"idle", "manager", "decide"}
    BY <2>3 DEF D!AtRest
  <2>5. Clerks' /\ clerk'[c] = e /\ \A d \in Caller \ {c} : clerk'[d] = clerk[d]
    BY <1>0, <2>3 DEF Clerks
  <2> QED BY <2>1, <2>4, <2>5, ClerkRests DEF Publishing
<1> QED BY <1>2, <1>3, <1>4, <1>5, <1>6, <1>7, <1>8, <1>9, <1>10 DEF D!Next, D!Change

\* It holds before the first request.
LEMMA ChangeStarts == D!Init => ChangeInv
  BY DEF D!Init, ChangeInv, Clerks, Changes, Publisher, Publishing, D!RequestStatus, D!AtRest

\* However often a change request is asked for and its callers die, at most one pull request
\* is opened for a proposal (createAutonomyChangeRequest).
THEOREM ChangesCarriedOnce == D!Spec => []D!OnePullRequest
<1>1. ChangeInv => D!OnePullRequest
  BY DEF ChangeInv, Changes, D!OnePullRequest
<1> QED BY <1>1, ChangeStarts, ChangeNext, PTL DEF D!Spec

-----------------------------------------------------------------------------
(* Portfolio: the objectives of a project.                                  *)

PrimaryInv == DOMAIN link = Project \X Goal /\ P!OnePrimary

\* A project without a primary link gets one: no other link of it is primary.
LEMMA FirstPrimary ==
  ASSUME PrimaryInv, NEW p \in Project, ~P!HasPrimary(p), NEW g \in Goal
  PROVE  link[<<p, g>>] # "primary"
  BY DEF P!HasPrimary

\* Every command keeps the invariant: but for three, none changes a link.
LEMMA PrimaryNext == PrimaryInv /\ [P!Next]_(P!vars) => PrimaryInv'
<1> SUFFICES ASSUME PrimaryInv, [P!Next]_(P!vars) PROVE PrimaryInv'
  OBVIOUS
<1>1. ASSUME link' = link PROVE PrimaryInv'
  BY <1>1 DEF PrimaryInv, P!OnePrimary
<1>2. CASE UNCHANGED P!vars
  BY <1>1, <1>2 DEF P!vars, P!projectState
<1>3. ASSUME NEW c \in Caller, P!Read(c) \/ P!Abandon(c) PROVE PrimaryInv'
  <2>1. link' = link
    BY <1>3 DEF P!Read, P!Abandon, P!projectState, P!Checked, P!CheckSetup, P!CheckValidate,
       P!CheckDiscovery, P!CheckProposal, P!CheckActivate, P!CheckObjective, P!CheckProject,
       P!CheckLink, P!CheckAppoint, P!CheckAssign, P!CheckMilestone, P!CheckBind, P!CheckRun,
       P!CheckMeasure, P!CheckJudge, P!CheckEvaluateProject, P!CheckEvaluateObjective
  <2> QED BY <1>1, <2>1
<1>4. CASE P!Transition \/ P!World
  <2>1. link' = link
    BY <1>4 DEF P!Transition, P!World, P!TransitionCompany, P!TransitionProject, P!Verify, P!FinishRun,
       P!projectState
  <2> QED BY <1>1, <2>1
<1>5. ASSUME NEW c \in Caller, P!ActivateCompany(c) PROVE PrimaryInv'
  <2> DEFINE proposed == P!Cmd(c).projects
             For(p) == CHOOSE x \in proposed : x.project = p
             named == {x.project : x \in proposed}
             goal == [p \in Project |-> For(p).goal]
  <2>1. link' = [x \in Project \X Goal |->
                   IF x[1] \in named /\ For(x[1]).goal = x[2] /\ link[x] = "none" /\ ~P!HasPrimary(x[1])
                   THEN "primary" ELSE link[x]]
    BY <1>5 DEF P!ActivateCompany
  <2>0. \A p \in Project : goal[p] = For(p).goal
    OBVIOUS
  <2> HIDE DEF named, For, goal
  <2>2. ASSUME NEW p \in Project, NEW g \in Goal, link'[<<p, g>>] = "primary"
        PROVE \/ link[<<p, g>>] = "primary"
              \/ ~P!HasPrimary(p) /\ goal[p] = g
    BY <2>0, <2>1, <2>2
  <2>3. P!OnePrimary'
    BY <2>2, FirstPrimary DEF P!OnePrimary, PrimaryInv
  <2> QED BY <2>1, <2>3 DEF PrimaryInv
<1>6. ASSUME NEW c \in Caller, P!CreateProject(c) PROVE PrimaryInv'
  <2>1. PICK q, h :
          link' = [link EXCEPT ![<<q, h>>] = IF @ = "none" /\ ~P!HasPrimary(q) THEN "primary" ELSE @]
    BY <1>6 DEF P!CreateProject, P!Linked
  <2>2. ASSUME NEW p \in Project, NEW g \in Goal, link'[<<p, g>>] = "primary"
        PROVE \/ link[<<p, g>>] = "primary"
              \/ ~P!HasPrimary(p) /\ h = g
    BY <2>1, <2>2 DEF PrimaryInv
  <2>3. P!OnePrimary'
    BY <2>2, FirstPrimary DEF P!OnePrimary, PrimaryInv
  <2> QED BY <2>1, <2>3 DEF PrimaryInv
<1>7. ASSUME NEW c \in Caller, P!LinkProjectObjective(c) PROVE PrimaryInv'
  <2> DEFINE q == P!Cmd(c).project
             h == P!Cmd(c).goal
             primary == P!Cmd(c).primary
  <2>1. link' = [x \in Project \X Goal |->
                   IF x = <<q, h>> THEN IF primary THEN "primary" ELSE "linked"
                   ELSE IF x[1] = q /\ primary /\ link[x] = "primary" THEN "linked" ELSE link[x]]
    BY <1>7 DEF P!LinkProjectObjective
  <2> HIDE DEF q, h, primary
  <2>2. ASSUME NEW p \in Project, NEW g \in Goal, link'[<<p, g>>] = "primary"
        PROVE \/ link[<<p, g>>] = "primary" /\ ~(p = q /\ primary)
              \/ p = q /\ g = h /\ primary
    BY <2>1, <2>2
  <2>3. P!OnePrimary'
    BY <2>2 DEF P!OnePrimary, PrimaryInv
  <2> QED BY <2>1, <2>3 DEF PrimaryInv
<1>8. ASSUME NEW c \in Caller, P!Commit(c), ~P!ActivateCompany(c), ~P!CreateProject(c),
             ~P!LinkProjectObjective(c)
      PROVE PrimaryInv'
  <2>1. link' = link
    BY <1>8 DEF P!Commit, P!projectState, P!Setup, P!Validate, P!StartDiscovery,
       P!SubmitPortfolioProposal, P!CreateObjective, P!AppointManager, P!AssignAgent,
       P!CreateMilestone, P!BindProcess, P!StartProcessRun, P!RecordMeasurement,
       P!RecordMilestoneEvaluation, P!EvaluateProject, P!EvaluateObjective
  <2> QED BY <1>1, <2>1
<1> QED BY <1>2, <1>3, <1>4, <1>5, <1>6, <1>7, <1>8 DEF P!Next

\* It holds of a company without projects.
LEMMA PrimaryStarts == P!Init => PrimaryInv
  BY DEF P!Init, PrimaryInv, P!OnePrimary

\* However activations, creations and links of a company interleave and repeat (command-service.ts),
\* a project has at most one primary objective.
THEOREM OnePrimaryKept == P!Spec => []P!OnePrimary
<1>1. PrimaryInv => P!OnePrimary
  BY DEF PrimaryInv
<1> QED BY <1>1, PrimaryStarts, PrimaryNext, PTL DEF P!Spec

-----------------------------------------------------------------------------
(* DependencyScheduler: the order of a workflow.                            *)

\* What an item waits for was completed, as far as the dependency was there at the first tick.
Clear(i) == \A p \in known.needs : p[1] = i => p[2] \in completed
ItemRows ==
  /\ item \in [Item -> S!ItemStatus] /\ needs \subseteq Item \X Item
  /\ DOMAIN adder = Adder /\ \A a \in Adder : adder[a] = S!NoPair \/ adder[a] \in Item \X Item
  /\ known \in [ticks : Nat, needs : SUBSET (Item \X Item)]
  /\ known.needs \subseteq needs
  /\ known.ticks = 0 => known.needs = {} /\ begun = {} /\ \A i \in Item : item[i] = "proposed"

\* A tick that decides has read every such dependency, and never a completion too early.
Reads(r) ==
  /\ r.pc \in {"idle", "link", "judge", "dispatch"}
  /\ "pc" \in DOMAIN r /\ (r.pc \in {"link", "judge"} => {"status", "needs"} \subseteq DOMAIN r)
  /\ r.pc # "idle" => known.ticks # 0
  /\ r.pc \in {"link", "judge"} => /\ DOMAIN r.status = Item
                                   /\ \A i \in Item : r.status[i] = "completed" => i \in completed
  /\ r.pc = "judge" => known.needs \subseteq r.needs
Ticks == DOMAIN ticker = Ticker /\ \A t \in Ticker : Reads(ticker[t])
Sequenced ==
  \A i \in Item : /\ item[i] = "completed" => i \in completed
                  /\ item[i] \notin {"proposed", "blocked"} \/ i \in begun => Clear(i)
OrderInv == Edges \subseteq Item \X Item /\ ItemRows /\ Ticks /\ Sequenced

\* A tick that goes on, while items, dependencies and histories stay.
LEMMA TickMoves ==
  ASSUME OrderInv, NEW t \in Ticker, UNCHANGED <<item, needs, adder, completed, begun, known>>,
         NEW r, ticker' = [ticker EXCEPT ![t] = r], Reads(r)
  PROVE  OrderInv'
  <1>1. ItemRows' /\ Sequenced'
    BY DEF OrderInv, ItemRows, Sequenced, Clear
  <1>2. \A u \in Ticker : Reads(ticker[u])'
    BY DEF OrderInv, Ticks, Reads
  <1> QED BY <1>1, <1>2 DEF OrderInv, Ticks

\* A step of the others, which completes what was taken up or adds a dependency.
LEMMA ItemMoves ==
  ASSUME OrderInv, NEW i \in Item, NEW s \in S!ItemStatus, item' = [item EXCEPT ![i] = s],
         UNCHANGED <<needs, adder, ticker, known, begun>>,
         completed \subseteq completed', s = "completed" => i \in completed',
         item[i] \notin {"proposed", "blocked"}
  PROVE  OrderInv'
  <1>1. known.ticks # 0
    BY DEF OrderInv, ItemRows
  <1>2. ItemRows'
    BY <1>1 DEF OrderInv, ItemRows
  <1>3. Sequenced'
    BY DEF OrderInv, ItemRows, Sequenced, Clear
  <1>4. \A u \in Ticker : Reads(ticker[u])'
    BY DEF OrderInv, Ticks, Reads
  <1> QED BY <1>2, <1>3, <1>4 DEF OrderInv, Ticks

\* What passing to the next item makes of a tick.
LEMMA TickPasses ==
  ASSUME OrderInv, NEW t \in Ticker, S!Pass(t), ticker[t].pc # "idle"
  PROVE  \E r : ticker' = [ticker EXCEPT ![t] = r] /\ Reads(r)
<1>1. PICK rest, r : rest = Tail(ticker[t].left) /\ r = [ticker[t] EXCEPT !.left = rest]
  OBVIOUS
<1>2. ticker' = [ticker EXCEPT ![t] = r]
  BY <1>1 DEF S!Pass
<1>3. Reads(ticker[t])
  BY DEF OrderInv, Ticks
<1>4. DOMAIN r = DOMAIN ticker[t] /\ \A f \in DOMAIN r \ {"left"} : r[f] = ticker[t][f]
  BY <1>1
<1>5. Reads(r)
  BY <1>3, <1>4 DEF Reads
<1> QED BY <1>2, <1>5

\* Every step of ticks, attempts, requests and time keeps the invariant.
LEMMA OrderNext == OrderInv /\ [S!Next]_(S!vars) => OrderInv'
<1> SUFFICES ASSUME OrderInv, [S!Next]_(S!vars) PROVE OrderInv'
  OBVIOUS
<1>0. ItemRows /\ Ticks /\ Sequenced /\ Edges \subseteq Item \X Item
  BY DEF OrderInv
<1>1. ASSUME UNCHANGED <<item, needs, ticker, adder, completed, begun, known>> PROVE OrderInv'
  BY <1>0, <1>1 DEF OrderInv, ItemRows, Ticks, Reads, Sequenced, Clear
<1>2. CASE UNCHANGED S!vars
  BY <1>1, <1>2 DEF S!vars
<1>3. ASSUME NEW a \in Adder, S!Add(a) PROVE OrderInv'
  <2>1. /\ UNCHANGED <<item, ticker, completed, begun, known>> /\ needs \subseteq needs'
        /\ \E pair : /\ adder' = [adder EXCEPT ![a] = pair] /\ needs' \subseteq Item \X Item
                     /\ pair \in Item \X Item \/ pair = S!NoPair
    <3>1. CASE S!InsertDependency(a)
      <4>1. adder[a] \in Item \X Item
        BY <1>0, <3>1 DEF S!InsertDependency, ItemRows
      <4> QED BY <1>0, <3>1, <4>1 DEF S!InsertDependency, S!kept, ItemRows
    <3>2. ASSUME NEW pair \in Edges, S!CheckDependency(a, pair)
          PROVE UNCHANGED <<item, ticker, completed, begun, known, needs>> /\ adder' = [adder EXCEPT ![a] = pair]
      BY <3>2 DEF S!CheckDependency, S!kept
    <3> QED BY <1>0, <1>3, <3>1, <3>2 DEF S!Add, ItemRows
  <2> QED BY <1>0, <2>1 DEF OrderInv, ItemRows, Ticks, Reads, Sequenced, Clear
<1>4. ASSUME NEW i \in Item, S!DeadlinePasses(i) \/ S!RetryDue(i) PROVE OrderInv'
  BY <1>1, <1>4 DEF S!DeadlinePasses, S!RetryDue, S!kept
<1>5. ASSUME NEW i \in Item, S!Execute(i) PROVE OrderInv'
  <2>1. PICK s \in S!ItemStatus : item' = [item EXCEPT ![i] = s] /\ (s = "completed" => i \in completed')
    BY <1>0, <1>5 DEF S!Execute, S!StartAttempt, S!EndAttempt, S!Settle, S!ItemStatus
  <2>2. /\ UNCHANGED <<needs, adder, ticker, known, begun>> /\ completed \subseteq completed'
        /\ item[i] \notin {"proposed", "blocked"}
    BY <1>5 DEF S!Execute, S!StartAttempt, S!EndAttempt, S!Settle, S!kept
  <2> QED BY <2>1, <2>2, ItemMoves
<1>6. ASSUME NEW t \in Ticker, S!BeginTick(t) PROVE OrderInv'
  <2>1. /\ UNCHANGED <<item, needs, adder, completed, begun>>
        /\ known' = [ticks |-> known.ticks + 1, needs |-> IF known.ticks = 0 THEN needs ELSE known.needs]
    BY <1>6 DEF S!BeginTick
  <2>2. PICK r : /\ ticker' = [ticker EXCEPT ![t] = r]
                 /\ r = [pc |-> "link", status |-> item, late |-> overdue, left |-> Order, needs |-> {}]
    BY <1>6 DEF S!BeginTick
  <2>3. known'.ticks # 0 /\ known'.ticks \in Nat /\ known'.needs \subseteq needs /\ known'.needs \subseteq Item \X Item
    BY <1>0, <2>1 DEF ItemRows
  <2>4. ItemRows'
    BY <1>0, <2>1, <2>3 DEF ItemRows
  <2>5. Sequenced'
    <3>1. CASE known.ticks = 0
      BY <1>0, <2>1, <3>1 DEF ItemRows, Sequenced
    <3>2. CASE known.ticks # 0
      <4>1. known'.needs = known.needs
        BY <2>1, <3>2
      <4> QED BY <1>0, <2>1, <4>1 DEF Sequenced, Clear
    <3> QED BY <3>1, <3>2
  <2>6. ASSUME NEW u \in Ticker PROVE Reads(ticker[u])'
    <3>1. CASE u = t
      BY <1>0, <2>1, <2>2, <2>3, <3>1 DEF Ticks, Reads, ItemRows, Sequenced
    <3>2. CASE u # t
      <4>1. ticker'[u] = ticker[u] /\ (ticker[u].pc # "idle" => known'.needs = known.needs)
        BY <1>0, <2>1, <2>2, <3>2 DEF Ticks, Reads
      <4> QED BY <1>0, <2>1, <2>3, <4>1 DEF Ticks, Reads
    <3> QED BY <3>1, <3>2
  <2> QED BY <1>0, <2>1, <2>2, <2>4, <2>5, <2>6 DEF OrderInv, Ticks
<1>7. ASSUME NEW t \in Ticker, S!AssignAndLink(t) PROVE OrderInv'
  <2>1. UNCHANGED <<item, needs, adder, completed, begun, known>> /\ ticker[t].pc = "link"
    BY <1>7 DEF S!AssignAndLink, S!kept, S!At
  <2>2. PICK m, r : m = [ticker[t] EXCEPT !.pc = "judge"] /\ r = [m EXCEPT !.needs = needs]
    OBVIOUS
  <2>3. Reads(ticker[t]) /\ t \in DOMAIN ticker
    BY <1>0 DEF Ticks
  <2>4. /\ DOMAIN r = DOMAIN ticker[t] /\ r.pc = "judge" /\ r.needs = needs /\ r.status = ticker[t].status
    BY <2>1, <2>2, <2>3 DEF Reads
  <2>5. ticker' = [ticker EXCEPT ![t] = r]
    BY <1>7, <2>2, <2>3 DEF S!AssignAndLink
  <2>6. Reads(r)
    BY <1>0, <2>1, <2>3, <2>4 DEF Reads, ItemRows
  <2> QED BY <2>1, <2>5, <2>6, TickMoves
<1>8. ASSUME NEW t \in Ticker, S!CountActive(t) \/ S!EndTick(t) \/ S!CrashTick(t) PROVE OrderInv'
  <2>1. UNCHANGED <<item, needs, adder, completed, begun, known>> /\ ticker[t].pc # "idle"
    BY <1>8 DEF S!CountActive, S!EndTick, S!CrashTick, S!kept, S!At
  <2>2. PICK r : /\ ticker' = [ticker EXCEPT ![t] = r]
                 /\ r = [pc |-> "idle"] \/ \E left, running : r = [pc |-> "dispatch", left |-> left, running |-> running, dispatched |-> FALSE]
    BY <1>8 DEF S!CountActive, S!EndTick, S!CrashTick, S!AtRest
  <2>3. Reads(r)
    BY <1>0, <2>1, <2>2 DEF Ticks, Reads
  <2> QED BY <2>1, <2>2, <2>3, TickMoves
<1>9. ASSUME NEW t \in Ticker, S!Skip(t) PROVE OrderInv'
  <2>1. UNCHANGED <<item, needs, adder, completed, begun, known>> /\ ticker[t].pc # "idle" /\ S!Pass(t)
    BY <1>9 DEF S!Skip, S!Facing, S!kept, S!At
  <2>2. PICK r : ticker' = [ticker EXCEPT ![t] = r] /\ Reads(r)
    BY <2>1, TickPasses
  <2> QED BY <2>1, <2>2, TickMoves
<1>10. ASSUME NEW t \in Ticker, S!Judge(t) PROVE OrderInv'
  <2>1. UNCHANGED <<needs, adder, completed, begun, known>> /\ ticker[t].pc = "judge" /\ known.ticks # 0
    BY <1>0, <1>10 DEF S!Judge, S!Facing, S!At, S!kept, Ticks, Reads
  <2>2. Reads(ticker[t]) /\ t \in DOMAIN ticker
    BY <1>0 DEF Ticks
  <2>3. PICK i, v, rest, st, ne :
          /\ i = Head(ticker[t].left) /\ v = S!Verdict(t, i) /\ rest = Tail(ticker[t].left)
          /\ st = ticker[t].status /\ ne = ticker[t].needs
    OBVIOUS
  <2>4. CASE v = "leave"
    <3>1. UNCHANGED item /\ S!Pass(t)
      BY <1>10, <2>3, <2>4 DEF S!Judge
    <3>2. PICK r : ticker' = [ticker EXCEPT ![t] = r] /\ Reads(r)
      BY <2>1, <3>1, TickPasses
    <3> QED BY <2>1, <3>1, <3>2, TickMoves
  <2>5. CASE v # "leave"
    <3>1. /\ item' = [item EXCEPT ![i] = v]
          /\ ticker' = [ticker EXCEPT ![t].left = rest, ![t].status[i] = v]
      BY <1>10, <2>3, <2>5 DEF S!Judge
    <3>2. PICK m, s, r : m = [ticker[t] EXCEPT !.left = rest] /\ s = [st EXCEPT ![i] = v] /\ r = [m EXCEPT !.status = s]
      OBVIOUS
    <3>3. ticker' = [ticker EXCEPT ![t] = r]
      <4>1. PICK g : g = [ticker EXCEPT ![t].left = rest]
        OBVIOUS
      <4>2. g = [ticker EXCEPT ![t] = m]
        BY <3>2, <4>1
      <4>3. g[t] = m
        BY <2>2, <4>2
      <4>4. m.status = st
        BY <2>1, <2>2, <2>3, <3>2 DEF Reads
      <4>5. ticker' = [g EXCEPT ![t].status[i] = v]
        BY <3>1, <4>1
      <4>6. ticker' = [g EXCEPT ![t] = r]
        BY <3>2, <4>3, <4>4, <4>5
      <4> QED BY <4>2, <4>6
    <3>10. /\ DOMAIN r = DOMAIN ticker[t] /\ r.pc = "judge" /\ r.needs = ne /\ r.status = s
      BY <2>1, <2>2, <2>3, <3>2 DEF Reads
    <3>4. \/ v = "blocked"
          \/ /\ v = "ready" /\ st[i] = "proposed"
             /\ \A d \in Item : <<i, d>> \in ne => st[d] = "completed"
      BY <2>3, <2>5 DEF S!Verdict, S!Seen, S!DependsOn
    <3>5. /\ DOMAIN st = Item /\ known.needs \subseteq ne
          /\ \A d \in Item : st[d] = "completed" => d \in completed
      BY <2>1, <2>2, <2>3 DEF Reads
    <3>6. v = "ready" => Clear(i)
      BY <1>0, <3>4, <3>5 DEF Clear, ItemRows
    <3>7. ItemRows'
      BY <1>0, <2>1, <3>1, <3>4 DEF ItemRows, S!ItemStatus
    <3>8. Sequenced'
      BY <1>0, <2>1, <3>1, <3>4, <3>6 DEF Sequenced, Clear, ItemRows
    <3>9. Reads(r)
      BY <2>1, <2>2, <3>2, <3>4, <3>5, <3>10 DEF Reads
    <3>11. \A u \in Ticker : Reads(ticker[u])'
      BY <1>0, <2>1, <3>3, <3>9 DEF Ticks, Reads
    <3> QED BY <1>0, <2>1, <3>3, <3>7, <3>8, <3>11 DEF OrderInv, Ticks
  <2> QED BY <2>4, <2>5
<1>11. ASSUME NEW t \in Ticker, S!Dispatch(t) PROVE OrderInv'
  <2>1. UNCHANGED <<needs, adder, completed, known>> /\ ticker[t].pc = "dispatch" /\ known.ticks # 0
    BY <1>0, <1>11 DEF S!Dispatch, S!Facing, S!At, Ticks, Reads
  <2>2. Reads(ticker[t]) /\ t \in DOMAIN ticker
    BY <1>0 DEF Ticks
  <2>3. PICK i : i = Head(ticker[t].left) /\ item[i] = "ready"
    BY <1>11 DEF S!Dispatch, S!Ready
  <2>4. PICK r : ticker' = [ticker EXCEPT ![t] = r] /\ Reads(r)
    <3>1. CASE S!Pass(t)
      BY <2>1, <3>1, TickPasses
    <3>2. CASE ticker' = [ticker EXCEPT ![t].left = Tail(@), ![t].running = @ + 1, ![t].dispatched = TRUE]
      <4>1. /\ DOMAIN ticker' = Ticker /\ \A u \in Ticker \ {t} : ticker'[u] = ticker[u]
            /\ DOMAIN ticker'[t] = DOMAIN ticker[t] /\ ticker'[t].pc = ticker[t].pc
        BY <1>0, <2>2, <3>2 DEF Ticks, Reads
      <4>2. ticker' = [ticker EXCEPT ![t] = ticker'[t]]
        BY <3>2
      <4>3. PICK r : r = ticker'[t]
        OBVIOUS
      <4>4. Reads(r)
        BY <2>1, <4>1, <4>3, <2>2 DEF Reads
      <4> QED BY <4>2, <4>3, <4>4
    <3> QED BY <1>11, <3>1, <3>2 DEF S!Dispatch
  <2>5. /\ UNCHANGED item /\ begun' = begun
        \/ /\ item' = [item EXCEPT ![i] = "blocked"] /\ begun' = begun
        \/ /\ item' = [item EXCEPT ![i] = "claimed"] /\ begun' = begun \union {i}
    BY <1>11, <2>3 DEF S!Dispatch
  <2>6. ItemRows'
    BY <1>0, <2>1, <2>5 DEF ItemRows, S!ItemStatus
  <2>7. Sequenced'
    BY <1>0, <2>1, <2>3, <2>5 DEF Sequenced, Clear, ItemRows
  <2>8. \A u \in Ticker : Reads(ticker[u])'
    BY <1>0, <2>1, <2>4 DEF Ticks, Reads
  <2> QED BY <1>0, <2>1, <2>4, <2>5, <2>6, <2>7, <2>8 DEF OrderInv, Ticks
<1> QED BY <1>2, <1>3, <1>4, <1>5, <1>6, <1>7, <1>8, <1>9, <1>10, <1>11 DEF S!Next, S!Tick

\* It holds before the first tick.
LEMMA OrderStarts == Edges \subseteq Item \X Item /\ S!Init => OrderInv
  BY DEF S!Init, OrderInv, ItemRows, Ticks, Reads, Sequenced, S!ItemStatus, S!AtRest, S!NoPair

\* However ticks overlap, die and write what they read long before (dependency scheduler), an item
\* is taken up only after what it depended on at the workflow's first tick was completed.
THEOREM DependenciesKept == Edges \subseteq Item \X Item => (S!Spec => []S!DependenciesFirst)
<1>1. OrderInv => S!DependenciesFirst
  BY DEF OrderInv, ItemRows, Sequenced, Clear, S!DependenciesFirst
<1>2. SUFFICES ASSUME Edges \subseteq Item \X Item PROVE S!Spec => []S!DependenciesFirst
  OBVIOUS
<1> QED BY <1>1, <1>2, OrderStarts, OrderNext, PTL DEF S!Spec

-----------------------------------------------------------------------------
(* AttemptEvidence: what the attempts of an item leave behind.              *)

\* Where a run stands.
RunFields == {"pc", "wake", "id", "parent", "asked", "session", "linked", "out", "exit", "failed", "left", "copying"}
SessionFields == {"status", "provider", "parent", "named", "error"}
Unopened == {"none", "dispatched", "prepared", "read"}
Unrun == Unopened \cup {"opened", "linked"}
Past == {"closed", "done", "threw", "dead"}
InRun == {"opened", "linked", "executed", "copying", "persisted", "closed", "done"}

\* Rows and files keep their shape.
AttemptShape ==
  /\ kind \in {"found", "declared", "repository"} /\ deliveredBy \in {0} \cup E!Maker /\ judged \in {0} \cup E!Maker
  /\ DOMAIN run = E!Attempt /\ \A a \in E!Attempt : DOMAIN run[a] = RunFields
  /\ DOMAIN att = E!Attempt
  /\ DOMAIN sess = E!SessionId /\ \A s \in E!SessionId : DOMAIN sess[s] = SessionFields
FileShape ==
  /\ ws \in [E!Attempt -> [File -> Nat]] /\ base \in [E!Attempt -> [File -> Nat]]
  /\ disk \in [E!Attempt -> [File -> Nat]] /\ rec \in [E!Attempt -> [File -> Nat]]

\* An attempt has a session, which is its own or one that was queued for a maker.
SessionFits(a) ==
  /\ run[a].wake \in {0} \cup E!Maker /\ run[a].id \in {0} \cup E!Maker
  /\ run[a].session \in {0, E!Own(a)} \cup E!Maker
  /\ run[a].out \in {"none", "succeeded", "failed", "timed_out", "cancelled"}
  /\ run[a].out = "none" => run[a].pc \in Unrun \cup {"threw", "dead"}
  /\ run[a].pc \in Unopened => run[a].session = 0
  /\ run[a].pc \in InRun \/ run[a].linked => run[a].session # 0
  /\ run[a].session # 0 => sess[run[a].session].status \notin {"absent", "queued"}
  /\ sess[E!Own(a)].status # "absent" => run[a].session = E!Own(a)

\* What no run has taken has no provider session, and no two runs have taken the same.
Unused == \A s \in E!SessionId : sess[s].status \in {"absent", "queued"} => sess[s].provider = 0
Single == \A a, b \in E!Attempt : a # b /\ run[a].session # 0 => run[a].session # run[b].session
\* The provider session it was to continue.
Continued(a) == run[a].asked # 0 => sess[run[a].session].provider = run[a].asked
\* A clean exit is one of a run that continued what it was to continue.
Resumes(a) ==
  /\ run[a].pc \in {"opened", "linked"} => sess[run[a].session].provider = 0
  /\ run[a].out = "succeeded" => run[a].exit
  /\ run[a].exit => run[a].pc \notin Unrun /\ run[a].session # 0 /\ Continued(a)

\* What a checker got.
Handed ==
  \A f \in File : base[E!Checker][f] = IF E!Repository \/ f \in E!Artifacts(judged) THEN ws[judged][f] ELSE 0

\* What an attempt that succeeded leaves.
Complete(a) ==
  /\ \A f \in E!Artifacts(a) : ws[a][f] # 0 /\ rec[a][f] = ws[a][f]
  /\ E!IsMaker(a) /\ E!Repository => deliveredBy = a
  /\ ~E!IsMaker(a) => ws[a] = base[a] /\ Handed
  /\ run[a].session # 0 /\ Continued(a)

\* Of an artifact of the run nothing is recorded, its copy is about to be, or its workspace's content is.
Copies(a) ==
  /\ run[a].pc \in Unrun \cup {"executed"} => rec[a] = E!Blank /\ run[a].copying = {}
  /\ \A f \in File : rec[a][f] # 0 => f \in E!Artifacts(a)
  /\ run[a].pc = "copying" =>
       /\ run[a].left \subseteq E!Artifacts(a) /\ run[a].copying \subseteq E!Artifacts(a)
       /\ run[a].left \cap run[a].copying = {} /\ \A f, g \in run[a].copying : f = g
       /\ \A f \in run[a].left \cup run[a].copying : rec[a][f] = 0
       /\ \A f \in run[a].copying : disk[a][f] = ws[a][f]
       /\ ~E!IsMaker(a) => ws[a] = base[a]
       /\ run[a].exit => \A f \in E!Artifacts(a) \ run[a].left :
                            ws[a][f] # 0 /\ (f \in run[a].copying \/ rec[a][f] = ws[a][f])

\* Whatever says of an attempt that it succeeded says so of a run that is over and left everything.
Concludes(a) ==
  /\ run[a].pc \in {"persisted", "closed"} /\ run[a].exit /\ ~run[a].failed => Complete(a)
  /\ run[a].session # 0 /\ sess[run[a].session].status = "succeeded" => Complete(a) /\ run[a].pc \in Past
  /\ att[a] = "succeeded" => Complete(a) /\ run[a].pc \in Past
  /\ att[a] = "none" => run[a].pc = "none"

\* The checker judges a maker that succeeded.
Judges ==
  /\ att[E!Checker] # "none" => judged \in E!Maker /\ att[judged] = "succeeded"
  /\ run[E!Checker].pc \in {"prepared", "read"} \cup InRun => Handed

\* What a retry began with is what one earlier attempt recorded.
Inherits(m) == base[m] # E!Blank => \E p \in E!Maker : p < m /\ \A f \in E!Present(base[m]) : base[m][f] = rec[p][f]
\* The inductive invariant.
EvidenceInv ==
  /\ AttemptShape /\ FileShape /\ Unused /\ Single /\ Judges
  /\ \A a \in E!Attempt : SessionFits(a) /\ Resumes(a) /\ Copies(a) /\ Concludes(a)
  /\ \A m \in E!Maker : Inherits(m)

\* A number of makers, and the declared files among those of the workspace.
Evidenced == MaxMakers \in Nat \ {0} /\ Declared \subseteq File

\* A set of numbers has a least one.
LEMMA Least ==
  ASSUME NEW Some \in SUBSET Nat, Some # {}
  PROVE  \E m \in Some : \A k \in Some : m <= k
<1>1. PICK n \in Some : TRUE
  OBVIOUS
<1> DEFINE U == {1 .. k : k \in Some}
<1>2. IsWellFoundedOn(StrictSubsetOrdering(Nat), FiniteSubsetsOf(Nat))
  BY FS_StrictSubsetOrderingWellFounded
<1>3. \A k \in Some : IsFiniteSet(1 .. k)
  BY FS_Interval
<1>4. U \subseteq FiniteSubsetsOf(Nat)
  BY <1>3 DEF FiniteSubsetsOf
<1>5. U # {}
  BY <1>1
<1> HIDE DEF U
<1>6. PICK x \in U : \A y \in U : ~(<<y, x>> \in StrictSubsetOrdering(Nat))
  BY <1>2, <1>4, <1>5, WFMin
<1>7. PICK m \in Some : x = 1 .. m
  BY DEF U
<1>8. ASSUME NEW k \in Some, k < m PROVE FALSE
  <2>1. <<1 .. k, 1 .. m>> \in StrictSubsetOrdering(Nat)
    <3>1. 1 .. k \in SUBSET Nat /\ 1 .. m \in SUBSET Nat
      OBVIOUS
    <3>2. 1 .. k \subseteq 1 .. m
      BY <1>8
    <3>3. m \in 1 .. m /\ m \notin 1 .. k
      BY <1>8
    <3> QED BY <3>1, <3>2, <3>3 DEF StrictSubsetOrdering
  <2>2. 1 .. k \in U
    BY DEF U
  <2> QED BY <2>1, <2>2, <1>6, <1>7
<1> QED BY <1>8

\* The numbers of attempts and of the sessions they own.
LEMMA AttemptNumbers ==
  ASSUME Evidenced
  PROVE  /\ E!Maker \subseteq Nat \ {0} /\ E!Checker \in Nat \ {0} /\ E!Checker \notin E!Maker
         /\ E!Attempt \subseteq Nat \ {0} /\ E!Attempt = E!Maker \cup {E!Checker}
         /\ \A a \in E!Attempt : E!Own(a) \in Nat /\ E!Own(a) \notin E!Maker \cup {0} /\ E!Own(a) \in E!SessionId
         /\ \A a, b \in E!Attempt : E!Own(a) = E!Own(b) => a = b
         /\ E!Maker \subseteq E!SessionId /\ 0 \notin E!SessionId
         /\ \A s \in E!SessionId : s \in E!Maker \/ \E a \in E!Attempt : s = E!Own(a)
  BY DEF Evidenced, E!Maker, E!Checker, E!Attempt, E!Own, E!SessionId

\* What Set does to its attempt.
LEMMA AttemptSets ==
  ASSUME AttemptShape, NEW a \in E!Attempt, NEW f, E!Set(a, f)
  PROVE  /\ DOMAIN run' = E!Attempt /\ \A b \in E!Attempt : DOMAIN run'[b] = RunFields
         /\ \A b \in E!Attempt \ {a} : run'[b] = run[b]
         /\ \A x \in RunFields : run'[a][x] = IF x \in DOMAIN f THEN f[x] ELSE run[a][x]
  BY DEF AttemptShape, E!Set

\* A step of one attempt leaves to the others what they have.
LEMMA OthersKeep ==
  ASSUME Evidenced, EvidenceInv, NEW a \in E!Attempt,
         UNCHANGED kind, deliveredBy' = deliveredBy \/ (deliveredBy = 0 /\ deliveredBy' = a),
         \A b \in E!Attempt \ {a} :
           /\ run'[b] = run[b] /\ att'[b] = att[b] /\ ws'[b] = ws[b] /\ base'[b] = base[b]
           /\ disk'[b] = disk[b] /\ rec'[b] = rec[b],
         \A s \in E!SessionId : \/ sess'[s] = sess[s] \/ s = run'[a].session
                                \/ s \in E!Maker /\ sess[s].status = "absent",
         SessionFits(a)', Single', att[E!Checker] # "none" /\ Handed => Handed',
         NEW b \in E!Attempt, b # a
  PROVE  SessionFits(b)' /\ Resumes(b)' /\ Copies(b)' /\ Concludes(b)'
<1>1. /\ SessionFits(b) /\ Resumes(b) /\ Copies(b) /\ Concludes(b)
      /\ run'[b] = run[b] /\ att'[b] = att[b] /\ ws'[b] = ws[b] /\ base'[b] = base[b]
      /\ disk'[b] = disk[b] /\ rec'[b] = rec[b]
  BY DEF EvidenceInv
<1>2. run[b].session # 0 => sess'[run[b].session] = sess[run[b].session]
  <2> SUFFICES ASSUME run[b].session # 0 PROVE sess'[run[b].session] = sess[run[b].session]
    OBVIOUS
  <2>1. run[b].session \in E!SessionId /\ sess[run[b].session].status # "absent"
    BY <1>1, AttemptNumbers DEF SessionFits
  <2>2. run'[b].session # run'[a].session
    BY <1>1 DEF Single
  <2> QED BY <1>1, <2>1, <2>2
<1>3. sess'[E!Own(b)] = sess[E!Own(b)]
  <2>1. E!Own(b) \in E!SessionId /\ E!Own(b) \notin E!Maker /\ E!Own(b) # run'[a].session
    BY AttemptNumbers DEF SessionFits
  <2> QED BY <2>1
<1>4. SessionFits(b)'
  BY <1>1, <1>2, <1>3 DEF SessionFits
<1>5. Continued(b) /\ run[b].session # 0 => Continued(b)'
  BY <1>1, <1>2 DEF Continued
<1>6. Resumes(b)'
  <2>1. run[b].pc \in {"opened", "linked"} => run[b].session # 0
    BY <1>1 DEF SessionFits, InRun
  <2> QED BY <1>1, <1>2, <1>5, <2>1 DEF Resumes
<1>7. E!Artifacts(b)' = E!Artifacts(b)
  BY <1>1 DEF E!Artifacts, E!IsMaker, E!Present, E!Checker
<1>8. Copies(b)'
  BY <1>1, <1>7 DEF Copies, E!Blank, E!IsMaker, E!Checker
<1>9. ASSUME Complete(b), run[b].pc # "none" PROVE Complete(b)'
  <2>1. E!IsMaker(b) /\ E!Repository => deliveredBy' = b
    BY <1>9, AttemptNumbers DEF Complete, E!Repository
  <2>2. ~E!IsMaker(b) => Handed'
    BY <1>1, <1>9 DEF Complete, Concludes, E!IsMaker
  <2>3. run'[b].session # 0 /\ Continued(b)'
    BY <1>1, <1>5, <1>9 DEF Complete
  <2> QED BY <1>1, <1>7, <1>9, <2>1, <2>2, <2>3 DEF Complete, E!IsMaker, E!Repository, E!Checker
<1>10. Concludes(b)'
  BY <1>1, <1>2, <1>9 DEF Concludes, Past
<1> QED BY <1>4, <1>6, <1>8, <1>10

\* A step of one attempt that keeps its own part of the invariant.
LEMMA AttemptMoves ==
  ASSUME Evidenced, EvidenceInv, NEW a \in E!Attempt,
         UNCHANGED kind, deliveredBy' = deliveredBy \/ (deliveredBy = 0 /\ deliveredBy' = a),
         \A b \in E!Attempt \ {a} :
           /\ run'[b] = run[b] /\ att'[b] = att[b] /\ ws'[b] = ws[b] /\ base'[b] = base[b]
           /\ disk'[b] = disk[b] /\ rec'[b] = rec[b],
         \A s \in E!SessionId : \/ sess'[s] = sess[s] \/ s = run'[a].session
                                \/ s \in E!Maker /\ sess[s].status = "absent",
         att[E!Checker] # "none" /\ Handed => Handed',
         AttemptShape', FileShape', Unused', Single', Judges', \A m \in E!Maker : Inherits(m)',
         SessionFits(a)', Resumes(a)', Copies(a)', Concludes(a)'
  PROVE  EvidenceInv'
<1>1. \A b \in E!Attempt \ {a} : SessionFits(b)' /\ Resumes(b)' /\ Copies(b)' /\ Concludes(b)'
  BY OthersKeep
<1> QED BY <1>1 DEF EvidenceInv

\* One that touches neither sessions nor files.
LEMMA RunGoesOn ==
  ASSUME Evidenced, EvidenceInv, NEW a \in E!Attempt,
         UNCHANGED <<kind, deliveredBy, judged, sess, ws, base, disk, rec>>,
         DOMAIN run' = E!Attempt, \A b \in E!Attempt : DOMAIN run'[b] = RunFields,
         DOMAIN att' = E!Attempt,
         \A b \in E!Attempt \ {a} : run'[b] = run[b] /\ att'[b] = att[b],
         run'[a].session = run[a].session,
         att[a] = "succeeded" => att'[a] = "succeeded",
         att[a] = "none" => att'[a] = "none" \/ E!IsMaker(a),
         run'[a].pc \in {"prepared", "read"} \cup InRun => run[a].pc \in {"prepared", "read"} \cup InRun,
         SessionFits(a)', Resumes(a)', Copies(a)', Concludes(a)'
  PROVE  EvidenceInv'
<1>1. AttemptShape' /\ FileShape' /\ Unused'
  BY DEF EvidenceInv, AttemptShape, FileShape, Unused
<1>2. Single'
  BY DEF EvidenceInv, Single
<1>3. Handed => Handed'
  BY DEF Handed, E!Repository, E!Artifacts, E!Present, E!IsMaker, E!Checker
<1>4. Judges'
  <2>1. att'[E!Checker] # "none" => att[E!Checker] # "none"
    BY AttemptNumbers DEF E!IsMaker
  <2>2. run'[E!Checker].pc \in {"prepared", "read"} \cup InRun
         => run[E!Checker].pc \in {"prepared", "read"} \cup InRun
    BY AttemptNumbers
  <2>3. judged \in E!Maker /\ att[judged] = "succeeded" => att'[judged] = "succeeded"
    BY AttemptNumbers
  <2> QED BY <1>3, <2>1, <2>2, <2>3 DEF EvidenceInv, Judges
<1>5. \A m \in E!Maker : Inherits(m)'
  BY DEF EvidenceInv, Inherits, E!Blank, E!Present
<1> QED BY <1>1, <1>2, <1>3, <1>4, <1>5, AttemptMoves

\* One that ends a run, or fails its attempt.
LEMMA RunFails ==
  ASSUME Evidenced, EvidenceInv, NEW a \in E!Attempt,
         UNCHANGED <<kind, deliveredBy, judged, sess, ws, base, disk, rec>>,
         E!Fails(a) \/ (E!Set(a, [pc |-> "dead"]) /\ UNCHANGED att), run[a].pc # "none"
  PROVE  EvidenceInv'
<1>0. AttemptShape /\ SessionFits(a) /\ Resumes(a) /\ Copies(a) /\ Concludes(a)
  BY DEF EvidenceInv
<1>1. PICK pc \in {"threw", "dead"} : E!Set(a, [pc |-> pc])
  BY DEF E!Fails
<1>2. /\ DOMAIN run' = E!Attempt /\ \A b \in E!Attempt : DOMAIN run'[b] = RunFields
      /\ \A b \in E!Attempt \ {a} : run'[b] = run[b]
      /\ \A x \in RunFields : run'[a][x] = IF x = "pc" THEN pc ELSE run[a][x]
  BY <1>0, <1>1, AttemptSets
<1>3. /\ run'[a].pc \in {"threw", "dead"} /\ run'[a].wake = run[a].wake /\ run'[a].id = run[a].id
      /\ run'[a].session = run[a].session /\ run'[a].linked = run[a].linked /\ run'[a].out = run[a].out
      /\ run'[a].exit = run[a].exit /\ run'[a].asked = run[a].asked
  BY <1>2 DEF RunFields
<1>4. DOMAIN att' = E!Attempt /\ (\A b \in E!Attempt \ {a} : att'[b] = att[b])
      /\ (att'[a] = att[a] \/ (att[a] = "running" /\ att'[a] = "failed"))
  BY <1>0 DEF E!Fails, AttemptShape
<1>5. SessionFits(a)'
  BY <1>0, <1>3 DEF SessionFits, Unopened, InRun
<1>6. Continued(a) => Continued(a)'
  BY <1>3 DEF Continued
<1>7. Resumes(a)'
  BY <1>0, <1>3, <1>6 DEF Resumes, Unrun, Unopened
<1>8. E!Artifacts(a)' = E!Artifacts(a)
  BY DEF E!Artifacts, E!Present
<1>9. Copies(a)'
  BY <1>0, <1>3, <1>8 DEF Copies, Unrun, Unopened
<1>10. Complete(a) => Complete(a)'
  <2>1. Handed => Handed'
    BY DEF Handed, E!Repository, E!Artifacts, E!Present
  <2> QED BY <1>3, <1>6, <1>8, <2>1 DEF Complete, E!Repository
<1>11. Concludes(a)'
  BY <1>0, <1>3, <1>4, <1>10 DEF Concludes, Past
<1> QED BY <1>2, <1>3, <1>4, <1>5, <1>7, <1>9, <1>11, RunGoesOn DEF InRun

\* What the step of an attempt starts from.
LEMMA Attempted ==
  ASSUME EvidenceInv, NEW a \in E!Attempt
  PROVE  /\ AttemptShape /\ FileShape /\ DOMAIN run[a] = RunFields
         /\ SessionFits(a) /\ Resumes(a) /\ Copies(a) /\ Concludes(a)
  BY DEF EvidenceInv, AttemptShape

\* A session that is taken over is a maker's, and was never used.
LEMMA ResolvedSession ==
  ASSUME Evidenced, EvidenceInv, NEW id \in {0} \cup E!Maker, NEW parent
  PROVE  E!Resolved(id, parent).id \in {0} \cup E!Maker
  BY DEF E!Resolved

\* The wakeup of a maker's attempt.
LEMMA MakerDispatches ==
  ASSUME Evidenced, EvidenceInv, NEW a \in E!Maker, NEW w \in E!Maker, E!DispatchMaker(a, w)
  PROVE  EvidenceInv'
<1> DEFINE f == [pc |-> "dispatched", wake |-> w]
<1>1. a \in E!Attempt
  BY AttemptNumbers
<1>2. E!Set(a, f) /\ att[a] = "none" /\ att' = [att EXCEPT ![a] = "running"]
      /\ UNCHANGED <<kind, deliveredBy, judged, sess, ws, base, disk, rec>>
  BY DEF E!DispatchMaker, E!files4
<1>3. /\ DOMAIN run' = E!Attempt /\ \A b \in E!Attempt : DOMAIN run'[b] = RunFields
      /\ \A b \in E!Attempt \ {a} : run'[b] = run[b]
      /\ \A x \in RunFields : run'[a][x] = IF x \in DOMAIN f THEN f[x] ELSE run[a][x]
  BY <1>1, <1>2, Attempted, AttemptSets
<1>4. /\ run'[a].pc = "dispatched" /\ run'[a].wake = w /\ run'[a].id = run[a].id
      /\ run'[a].session = run[a].session /\ run'[a].linked = run[a].linked /\ run'[a].out = run[a].out
      /\ run'[a].exit = run[a].exit /\ run'[a].copying = run[a].copying /\ run'[a].asked = run[a].asked
  BY <1>3 DEF RunFields
<1>5. DOMAIN att' = E!Attempt /\ att'[a] = "running" /\ (\A b \in E!Attempt \ {a} : att'[b] = att[b])
  BY <1>1, <1>2, Attempted DEF AttemptShape
<1>6. run[a].pc = "none" /\ SessionFits(a) /\ Resumes(a) /\ Copies(a) /\ Concludes(a)
  BY <1>1, <1>2, Attempted DEF Concludes
<1>7. SessionFits(a)'
  BY <1>2, <1>4, <1>6 DEF SessionFits, Unopened, Unrun, InRun
<1>8. Resumes(a)'
  BY <1>2, <1>4, <1>6 DEF Resumes, Unrun, Unopened
<1>9. Copies(a)'
  <2>1. E!Artifacts(a)' = E!Artifacts(a)
    BY <1>2 DEF E!Artifacts, E!Present
  <2> QED BY <1>2, <1>4, <1>6, <2>1 DEF Copies, Unrun, Unopened
<1>10. Concludes(a)'
  BY <1>2, <1>4, <1>5, <1>6 DEF Concludes, SessionFits, Unopened
<1>11. E!IsMaker(a)
  BY AttemptNumbers DEF E!IsMaker
<1> QED BY <1>1, <1>2, <1>3, <1>4, <1>5, <1>7, <1>8, <1>9, <1>10, <1>11, RunGoesOn DEF InRun

\* The dispatch of the checker, of what a maker did that succeeded.
LEMMA CheckerDispatches ==
  ASSUME Evidenced, EvidenceInv, NEW m \in E!Maker, E!DispatchChecker(m)
  PROVE  EvidenceInv'
<1> DEFINE a == E!Checker
           f == [pc |-> "dispatched"]
<1>1. a \in E!Attempt /\ m \in E!Attempt /\ m # a
  BY AttemptNumbers
<1>2. E!Set(a, f) /\ att[a] = "none" /\ att' = [att EXCEPT ![a] = "running"] /\ judged' = m /\ att[m] = "succeeded"
      /\ UNCHANGED <<kind, deliveredBy, sess, ws, base, disk, rec>>
  BY DEF E!DispatchChecker, E!files4
<1>3. /\ DOMAIN run' = E!Attempt /\ \A b \in E!Attempt : DOMAIN run'[b] = RunFields
      /\ \A b \in E!Attempt \ {a} : run'[b] = run[b]
      /\ \A x \in RunFields : run'[a][x] = IF x \in DOMAIN f THEN f[x] ELSE run[a][x]
  BY <1>1, <1>2, Attempted, AttemptSets
<1> HIDE DEF a
<1>4. /\ run'[a].pc = "dispatched" /\ run'[a].wake = run[a].wake /\ run'[a].id = run[a].id
      /\ run'[a].session = run[a].session /\ run'[a].linked = run[a].linked /\ run'[a].out = run[a].out
      /\ run'[a].exit = run[a].exit /\ run'[a].copying = run[a].copying /\ run'[a].asked = run[a].asked
  BY <1>3 DEF RunFields
<1>5. DOMAIN att' = E!Attempt /\ att'[a] = "running" /\ (\A b \in E!Attempt \ {a} : att'[b] = att[b])
  BY <1>1, <1>2, Attempted DEF AttemptShape
<1>6. run[a].pc = "none" /\ SessionFits(a) /\ Resumes(a) /\ Copies(a) /\ Concludes(a)
  BY <1>1, <1>2, Attempted DEF Concludes
<1>7. SessionFits(a)'
  BY <1>2, <1>4, <1>6 DEF SessionFits, Unopened, Unrun, InRun
<1>8. Resumes(a)'
  BY <1>2, <1>4, <1>6 DEF Resumes, Unrun, Unopened
<1>9. Copies(a)'
  <2>1. E!Artifacts(a)' = E!Artifacts(a)
    BY <1>2 DEF E!Artifacts, E!Present
  <2> QED BY <1>2, <1>4, <1>6, <2>1 DEF Copies, Unrun, Unopened
<1>10. Concludes(a)'
  BY <1>2, <1>4, <1>5, <1>6 DEF Concludes, SessionFits, Unopened
<1>11. AttemptShape' /\ FileShape' /\ Unused' /\ Single'
  <2>1. AttemptShape'
    BY <1>2, <1>3, <1>5, Attempted, <1>1 DEF AttemptShape
  <2>2. FileShape' /\ Unused'
    BY <1>2 DEF EvidenceInv, FileShape, Unused
  <2>3. Single'
    BY <1>1, <1>3, <1>4 DEF EvidenceInv, Single
  <2> QED BY <2>1, <2>2, <2>3
<1>12. Judges'
  BY <1>1, <1>2, <1>4, <1>5 DEF Judges, a, InRun
<1>13. \A n \in E!Maker : Inherits(n)'
  BY <1>2 DEF EvidenceInv, Inherits, E!Blank, E!Present
<1> QED BY <1>1, <1>2, <1>3, <1>5, <1>7, <1>8, <1>9, <1>10, <1>11, <1>12, <1>13, AttemptMoves DEF a

\* The latest of the earlier attempts that recorded anything is one of them.
LEMMA LatestIsOne ==
  ASSUME Evidenced, NEW Early \in SUBSET E!Maker, Early # {}
  PROVE  (CHOOSE p \in Early : \A q \in Early : q <= p) \in Early
<1>1. PICK k \in {n \in Nat : \E p \in Early : n = MaxMakers - p} :
        \A n \in {n \in Nat : \E p \in Early : n = MaxMakers - p} : k <= n
  <2>1. \A p \in Early : p \in Nat /\ p <= MaxMakers /\ MaxMakers - p \in Nat
    BY DEF Evidenced, E!Maker
  <2>2. {n \in Nat : \E p \in Early : n = MaxMakers - p} # {}
    BY <2>1
  <2> QED BY <2>2, Least
<1>2. PICK p \in Early : k = MaxMakers - p
  OBVIOUS
<1>3. \A q \in Early : q <= p
  <2> TAKE q \in Early
  <2>1. MaxMakers - q \in Nat /\ q \in Nat /\ p \in Nat
    BY DEF Evidenced, E!Maker
  <2> QED BY <1>1, <1>2, <2>1 DEF Evidenced
<1> QED BY <1>3

\* The files of an attempt are laid out.
LEMMA WorkspaceIsSetUp ==
  ASSUME Evidenced, EvidenceInv, NEW a \in E!Attempt, E!Setup(a)
  PROVE  EvidenceInv'
<1>0. /\ AttemptShape /\ FileShape /\ DOMAIN run[a] = RunFields
      /\ SessionFits(a) /\ Resumes(a) /\ Copies(a) /\ Concludes(a)
  BY Attempted
<1> DEFINE start == E!Resolved(run[a].wake, 0)
           asked == IF run[a].wake # 0 /\ sess[run[a].wake].named # 0 THEN sess[run[a].wake].named ELSE start.resume
           f == [pc |-> "prepared", id |-> start.id, parent |-> start.parent, asked |-> asked]
<1>1. /\ E!Set(a, f) /\ run[a].pc = "dispatched" /\ (E!Repository /\ ~E!IsMaker(a) => deliveredBy # 0)
      /\ ws' = [ws EXCEPT ![a] = E!Workspace(a)] /\ base' = [base EXCEPT ![a] = E!Workspace(a)]
      /\ UNCHANGED <<kind, deliveredBy, judged, att, sess, disk, rec>>
  BY DEF E!Setup, E!At, E!item
<1>2. start.id \in {0} \cup E!Maker
  BY <1>0, ResolvedSession DEF SessionFits
<1> HIDE DEF start, asked
<1>3. /\ DOMAIN run' = E!Attempt /\ \A b \in E!Attempt : DOMAIN run'[b] = RunFields
      /\ \A b \in E!Attempt \ {a} : run'[b] = run[b]
      /\ \A x \in RunFields : run'[a][x] = IF x \in DOMAIN f THEN f[x] ELSE run[a][x]
  BY <1>0, <1>1, AttemptSets
<1>4. /\ run'[a].pc = "prepared" /\ run'[a].wake = run[a].wake /\ run'[a].id = start.id
      /\ run'[a].session = run[a].session /\ run'[a].linked = run[a].linked /\ run'[a].out = run[a].out
      /\ run'[a].exit = run[a].exit /\ run'[a].copying = run[a].copying
  BY <1>3 DEF RunFields
<1>5. SessionFits(a)'
  BY <1>0, <1>1, <1>2, <1>4 DEF SessionFits, Unopened, Unrun, InRun
<1>6. Resumes(a)'
  BY <1>0, <1>1, <1>4 DEF Resumes, Unrun, Unopened
<1>7. Copies(a)'
  BY <1>0, <1>1, <1>4 DEF Copies, Unrun, Unopened, E!Blank
<1>8. Concludes(a)'
  <2>1. att[a] # "none" /\ att[a] # "succeeded" /\ run[a].session = 0
    BY <1>0, <1>1 DEF Concludes, SessionFits, Past, Unopened
  <2> QED BY <1>1, <1>4, <2>1 DEF Concludes
<1>9. E!Workspace(a) \in [File -> Nat]
  <2>1. E!Blank \in [File -> Nat]
    BY DEF E!Blank
  <2>2. ~E!IsMaker(a) => att[E!Checker] # "none"
    BY <1>0, <1>1 DEF E!IsMaker, Concludes
  <2>3. ~E!IsMaker(a) => judged \in E!Attempt /\ (E!Repository => deliveredBy \in E!Attempt)
    BY <1>0, <1>1, <2>2, AttemptNumbers DEF EvidenceInv, Judges, AttemptShape
  <2>4. E!Restored(a) \in [File -> Nat]
    <3> DEFINE Early == {p \in E!Maker : p < a /\ rec[p] # E!Blank}
    <3>1. Early # {} => (CHOOSE p \in Early : \A q \in Early : q <= p) \in E!Attempt
      <4> HIDE DEF Early
      <4> SUFFICES ASSUME Early # {}, Early \subseteq E!Maker
                   PROVE  (CHOOSE p \in Early : \A q \in Early : q <= p) \in E!Attempt
        BY DEF Early
      <4> QED BY LatestIsOne, AttemptNumbers
    <3> QED BY <1>0, <2>1, <3>1 DEF E!Restored, FileShape
  <2> QED BY <1>0, <2>1, <2>3, <2>4 DEF E!Workspace, FileShape
<1>10. AttemptShape' /\ FileShape' /\ Unused' /\ Single'
  <2>1. AttemptShape'
    BY <1>0, <1>1, <1>3 DEF AttemptShape
  <2>2. FileShape'
    BY <1>0, <1>1, <1>9 DEF FileShape
  <2>3. Unused'
    BY <1>1 DEF EvidenceInv, Unused
  <2>4. Single'
    BY <1>3, <1>4 DEF EvidenceInv, Single
  <2> QED BY <2>1, <2>2, <2>3, <2>4
<1>11. ws'[a] = E!Workspace(a) /\ base'[a] = E!Workspace(a)
       /\ \A b \in E!Attempt \ {a} : ws'[b] = ws[b] /\ base'[b] = base[b]
  BY <1>0, <1>1 DEF FileShape

\* What was judged is not the attempt that is laid out.
<1>12. att[E!Checker] # "none" => /\ judged \in E!Maker /\ judged # a /\ ws'[judged] = ws[judged]
                                  /\ Complete(judged)
  <2> SUFFICES ASSUME att[E!Checker] # "none" PROVE /\ judged \in E!Maker /\ judged # a /\ ws'[judged] = ws[judged]
                                                    /\ Complete(judged)
    OBVIOUS
  <2>1. judged \in E!Maker /\ att[judged] = "succeeded"
    BY DEF EvidenceInv, Judges
  <2>2. Concludes(judged) /\ judged \in E!Attempt
    BY <2>1, AttemptNumbers DEF EvidenceInv
  <2>3. Complete(judged) /\ judged # a
    BY <1>1, <2>1, <2>2 DEF Concludes, Past
  <2> QED BY <1>11, <2>1, <2>2, <2>3
<1>13. a # E!Checker => (att[E!Checker] # "none" /\ Handed => Handed')
  <2> SUFFICES ASSUME a # E!Checker, att[E!Checker] # "none", Handed PROVE Handed'
    OBVIOUS
  <2>1. base'[E!Checker] = base[E!Checker]
    BY <1>11, AttemptNumbers
  <2>2. E!Artifacts(judged)' = E!Artifacts(judged)
    BY <1>1, <1>12 DEF E!Artifacts, E!Present
  <2> QED BY <1>1, <1>12, <2>1, <2>2 DEF Handed, E!Repository
<1>14. a = E!Checker => Handed'
  <2> SUFFICES ASSUME a = E!Checker PROVE Handed'
    OBVIOUS
  <2>1. att[E!Checker] # "none"
    BY <1>0, <1>1 DEF Concludes
  <2>2. base'[E!Checker] = IF E!Repository THEN ws[deliveredBy] ELSE rec[judged]
    BY <1>11 DEF E!Workspace, E!IsMaker
  <2>3. E!Artifacts(judged)' = E!Artifacts(judged) /\ E!Repository' = E!Repository /\ judged' = judged
    BY <1>1, <1>12, <2>1 DEF E!Artifacts, E!Present, E!Repository
  <2>4. judged \in E!Maker /\ E!IsMaker(judged) /\ Complete(judged) /\ Copies(judged) /\ ws'[judged] = ws[judged]
    BY <1>12, <2>1, AttemptNumbers DEF E!IsMaker, EvidenceInv
  <2>5. CASE E!Repository
    BY <2>2, <2>3, <2>4, <2>5 DEF Handed, Complete
  <2>6. CASE ~E!Repository
    BY <2>2, <2>3, <2>4, <2>6 DEF Handed, Complete, Copies
  <2> QED BY <2>5, <2>6
<1>15. Judges'
  <2>1. att'[E!Checker] # "none" => judged' \in E!Maker /\ att'[judged'] = "succeeded"
    BY <1>1 DEF EvidenceInv, Judges
  <2>2. a # E!Checker => run'[E!Checker] = run[E!Checker]
    BY <1>3, AttemptNumbers
  <2>3. run[E!Checker].pc \in {"prepared", "read"} \cup InRun => att[E!Checker] # "none"
    BY AttemptNumbers DEF EvidenceInv, Concludes, InRun
  <2> QED BY <1>13, <1>14, <2>1, <2>2, <2>3 DEF EvidenceInv, Judges
<1>16. att[E!Checker] # "none" /\ Handed => Handed'
  BY <1>13, <1>14
<1>17. ASSUME NEW m \in E!Maker PROVE Inherits(m)'
  <2>1. CASE m # a
    <3>1. base'[m] = base[m]
      BY <1>11, <2>1, AttemptNumbers
    <3> QED BY <1>1, <3>1 DEF EvidenceInv, Inherits, E!Blank, E!Present
  <2>2. CASE m = a
    <3> DEFINE Early == {p \in E!Maker : p < a /\ rec[p] # E!Blank}
               latest == CHOOSE p \in Early : \A q \in Early : q <= p
    <3>1. E!IsMaker(a)
      BY <2>2, AttemptNumbers DEF E!IsMaker
    <3>2. base'[m] # E!Blank => Early # {} /\ base'[m] = rec[latest]
      BY <1>11, <2>2, <3>1 DEF E!Workspace, E!Restored
    <3>3. Early # {} => latest \in Early
      <4> HIDE DEF Early
      <4> SUFFICES ASSUME Early # {}, Early \subseteq E!Maker
                   PROVE  (CHOOSE p \in Early : \A q \in Early : q <= p) \in Early
        BY DEF Early
      <4> QED BY LatestIsOne
    <3> HIDE DEF latest
    <3> QED BY <1>1, <2>2, <3>2, <3>3 DEF Inherits, E!Blank, E!Present
  <2> QED BY <2>1, <2>2
<1>18. \A b \in E!Attempt \ {a} : att'[b] = att[b] /\ disk'[b] = disk[b] /\ rec'[b] = rec[b]
  BY <1>1
<1> QED BY <1>1, <1>3, <1>5, <1>6, <1>7, <1>8, <1>10, <1>11, <1>15, <1>16, <1>17, <1>18, AttemptMoves

\* A run that throws, reports another identity, or dies.
LEMMA RunEnds ==
  ASSUME Evidenced, EvidenceInv, NEW a \in E!Attempt, E!Throw(a) \/ E!WrongIdentity(a) \/ E!Die(a)
  PROVE  EvidenceInv'
BY RunFails DEF E!Throw, E!WrongIdentity, E!Die, E!At, E!item, E!files4

\* The session of a run is resolved once more.
LEMMA SessionIsRead ==
  ASSUME Evidenced, EvidenceInv, NEW a \in E!Attempt, E!ReadSession(a)
  PROVE  EvidenceInv'
<1> DEFINE start == E!Resolved(run[a].id, run[a].parent)
           asked == IF run[a].asked # 0 THEN run[a].asked ELSE start.resume
           f == [pc |-> "read", id |-> start.id, parent |-> start.parent, asked |-> asked]
<1>0. AttemptShape /\ SessionFits(a) /\ Resumes(a) /\ Copies(a) /\ Concludes(a)
  BY Attempted
<1>1. /\ E!Set(a, f) /\ run[a].pc = "prepared"
      /\ UNCHANGED <<kind, deliveredBy, judged, att, sess, ws, base, disk, rec>>
  BY DEF E!ReadSession, E!At, E!item, E!files4
<1>2. start.id \in {0} \cup E!Maker
  BY <1>0, ResolvedSession DEF SessionFits
<1> HIDE DEF start, asked
<1>3. /\ DOMAIN run' = E!Attempt /\ \A b \in E!Attempt : DOMAIN run'[b] = RunFields
      /\ \A b \in E!Attempt \ {a} : run'[b] = run[b]
      /\ \A x \in RunFields : run'[a][x] = IF x \in DOMAIN f THEN f[x] ELSE run[a][x]
  BY <1>0, <1>1, AttemptSets
<1>4. /\ run'[a].pc = "read" /\ run'[a].wake = run[a].wake /\ run'[a].id = start.id
      /\ run'[a].session = run[a].session /\ run'[a].linked = run[a].linked /\ run'[a].out = run[a].out
      /\ run'[a].exit = run[a].exit /\ run'[a].copying = run[a].copying
  BY <1>3 DEF RunFields
<1>5. SessionFits(a)'
  BY <1>0, <1>1, <1>2, <1>4 DEF SessionFits, Unopened, Unrun, InRun
<1>6. Resumes(a)'
  BY <1>0, <1>1, <1>4 DEF Resumes, Unrun, Unopened
<1>7. Copies(a)'
  BY <1>0, <1>1, <1>4 DEF Copies, Unrun, Unopened, E!Blank
<1>8. Concludes(a)'
  <2>1. att[a] # "none" /\ att[a] # "succeeded" /\ run[a].session = 0
    BY <1>0, <1>1 DEF Concludes, SessionFits, Past, Unopened
  <2> QED BY <1>1, <1>4, <2>1 DEF Concludes
<1>9. DOMAIN att' = E!Attempt /\ \A b \in E!Attempt \ {a} : att'[b] = att[b]
  BY <1>0, <1>1 DEF AttemptShape
<1> QED BY <1>1, <1>3, <1>4, <1>5, <1>6, <1>7, <1>8, <1>9, RunGoesOn DEF InRun

\* The session of a run is opened, if nobody has taken it.
LEMMA SessionOpens ==
  ASSUME Evidenced, EvidenceInv, NEW a \in E!Attempt, E!OpenSession(a)
  PROVE  EvidenceInv'
<1> DEFINE s == IF run[a].id = 0 THEN E!Own(a) ELSE run[a].id
           f == [pc |-> "opened", session |-> s]
<1>0. AttemptShape /\ SessionFits(a) /\ Resumes(a) /\ Copies(a) /\ Concludes(a)
  BY Attempted
<1>1. run[a].pc = "read" /\ run[a].session = 0
  BY <1>0 DEF E!OpenSession, E!At, SessionFits, Unopened
<1>2. CASE E!Fails(a) /\ UNCHANGED <<kind, deliveredBy, judged, sess, ws, base, disk, rec>>
  BY <1>1, <1>2, RunFails
<1>3. CASE /\ s = E!Own(a) \/ sess[s].status = "queued"
           /\ sess' = [sess EXCEPT ![s] = [@ EXCEPT !.status = "running", !.parent = run[a].parent]]
           /\ E!Set(a, f) /\ UNCHANGED <<kind, deliveredBy, judged, att, ws, base, disk, rec>>
  <2>1. s \in {E!Own(a)} \cup E!Maker /\ s \in E!SessionId /\ s # 0
    BY <1>0, AttemptNumbers DEF SessionFits
  <2>2. sess[s].status \in {"absent", "queued"} /\ sess[s].provider = 0
    BY <1>0, <1>1, <1>3, <2>1, AttemptNumbers DEF SessionFits, EvidenceInv, Unused
  <2> HIDE DEF s
  <2>3. /\ DOMAIN run' = E!Attempt /\ \A b \in E!Attempt : DOMAIN run'[b] = RunFields
        /\ \A b \in E!Attempt \ {a} : run'[b] = run[b]
        /\ \A x \in RunFields : run'[a][x] = IF x \in DOMAIN f THEN f[x] ELSE run[a][x]
    BY <1>0, <1>3, AttemptSets
  <2>4. /\ run'[a].pc = "opened" /\ run'[a].wake = run[a].wake /\ run'[a].id = run[a].id
        /\ run'[a].session = s /\ run'[a].linked = run[a].linked /\ run'[a].out = run[a].out
        /\ run'[a].exit = run[a].exit /\ run'[a].copying = run[a].copying
    BY <2>3 DEF RunFields
  <2>5. /\ DOMAIN sess' = E!SessionId /\ \A x \in E!SessionId : DOMAIN sess'[x] = SessionFields
        /\ sess'[s].status = "running" /\ sess'[s].provider = 0
        /\ \A x \in E!SessionId \ {s} : sess'[x] = sess[x]
    BY <1>0, <1>3, <2>1, <2>2 DEF AttemptShape, SessionFields
  <2>6. SessionFits(a)'
    <3>1. sess'[E!Own(a)].status # "absent" => s = E!Own(a)
      BY <1>0, <1>1, <2>5, AttemptNumbers DEF SessionFits
    <3> QED BY <1>0, <1>1, <2>1, <2>4, <2>5, <3>1 DEF SessionFits, Unopened, Unrun, InRun
  <2>7. Resumes(a)'
    BY <1>0, <1>1, <2>4, <2>5 DEF Resumes, Unrun, Unopened
  <2>8. Copies(a)'
    BY <1>0, <1>1, <1>3, <2>4 DEF Copies, Unrun, Unopened, E!Blank
  <2>9. Concludes(a)'
    <3>1. att[a] # "none" /\ att[a] # "succeeded"
      BY <1>0, <1>1 DEF Concludes, Past
    <3> QED BY <1>3, <2>4, <2>5, <3>1 DEF Concludes
  <2>10. Single'
    <3>1. ASSUME NEW b \in E!Attempt \ {a} PROVE run[b].session # s
      <4>1. SessionFits(b)
        BY <3>1 DEF EvidenceInv
      <4> QED BY <2>1, <2>2, <4>1, <3>1, AttemptNumbers DEF SessionFits
    <3> QED BY <2>3, <2>4, <3>1 DEF EvidenceInv, Single
  <2>11. AttemptShape' /\ FileShape' /\ Unused'
    <3>1. AttemptShape'
      BY <1>0, <1>3, <2>3, <2>5 DEF AttemptShape
    <3>2. FileShape'
      BY <1>3 DEF EvidenceInv, FileShape
    <3>3. Unused'
      BY <2>5 DEF EvidenceInv, Unused
    <3> QED BY <3>1, <3>2, <3>3
  <2>12. Handed' = Handed
    BY <1>3 DEF Handed, E!Repository, E!Artifacts, E!Present
  <2>13. Judges'
    BY <1>1, <1>3, <2>3, <2>12, AttemptNumbers DEF EvidenceInv, Judges
  <2>14. \A m \in E!Maker : Inherits(m)'
    BY <1>3 DEF EvidenceInv, Inherits, E!Blank, E!Present
  <2>15. \A b \in E!Attempt \ {a} : att'[b] = att[b] /\ ws'[b] = ws[b] /\ base'[b] = base[b]
                                    /\ disk'[b] = disk[b] /\ rec'[b] = rec[b]
    BY <1>3
  <2>16. \A x \in E!SessionId : sess'[x] = sess[x] \/ x = run'[a].session
    BY <2>4, <2>5
  <2> QED BY <1>3, <2>3, <2>6, <2>7, <2>8, <2>9, <2>10, <2>11, <2>12, <2>13, <2>14, <2>15, <2>16, AttemptMoves
<1> QED BY <1>2, <1>3 DEF E!OpenSession, E!item, E!files4

\* A run is linked to its session, which nobody else is.
LEMMA SessionLinks ==
  ASSUME Evidenced, EvidenceInv, NEW a \in E!Attempt, E!Link(a)
  PROVE  EvidenceInv'
<1> DEFINE f == [pc |-> "linked", linked |-> TRUE]
<1>0. AttemptShape /\ SessionFits(a) /\ Resumes(a) /\ Copies(a) /\ Concludes(a)
  BY Attempted
<1>1. run[a].pc = "opened" /\ UNCHANGED <<kind, deliveredBy, judged, sess, ws, base, disk, rec>>
  BY DEF E!Link, E!At, E!item, E!files4
<1>2. CASE E!Fails(a)
  BY <1>1, <1>2, RunFails
<1>3. CASE E!Set(a, f) /\ UNCHANGED att
  <2>3. /\ DOMAIN run' = E!Attempt /\ \A b \in E!Attempt : DOMAIN run'[b] = RunFields
        /\ \A b \in E!Attempt \ {a} : run'[b] = run[b]
        /\ \A x \in RunFields : run'[a][x] = IF x \in DOMAIN f THEN f[x] ELSE run[a][x]
    BY <1>0, <1>3, AttemptSets
  <2>4. /\ run'[a].pc = "linked" /\ run'[a].wake = run[a].wake /\ run'[a].id = run[a].id
        /\ run'[a].session = run[a].session /\ run'[a].out = run[a].out
        /\ run'[a].exit = run[a].exit /\ run'[a].copying = run[a].copying
    BY <2>3 DEF RunFields
  <2>5. SessionFits(a)'
    BY <1>0, <1>1, <2>4 DEF SessionFits, Unopened, Unrun, InRun
  <2>6. Resumes(a)'
    BY <1>0, <1>1, <2>4 DEF Resumes, Unrun, Unopened
  <2>7. Copies(a)'
    BY <1>0, <1>1, <2>4 DEF Copies, Unrun, Unopened, E!Blank
  <2>8. Concludes(a)'
    BY <1>0, <1>1, <1>3, <2>4 DEF Concludes, Past
  <2>9. DOMAIN att' = E!Attempt /\ \A b \in E!Attempt \ {a} : att'[b] = att[b]
    BY <1>0, <1>3 DEF AttemptShape
  <2> QED BY <1>1, <1>3, <2>3, <2>4, <2>5, <2>6, <2>7, <2>8, <2>9, RunGoesOn DEF InRun
<1> QED BY <1>2, <1>3 DEF E!Link

\* The agent runs, in one provider session.
LEMMA AgentRuns ==
  ASSUME Evidenced, EvidenceInv, NEW a \in E!Attempt,
         NEW out \in {"returned", "timed_out", "cancelled"}, NEW clean \in BOOLEAN,
         NEW provider \in {a, run[a].asked} \ {0},
         NEW identified \in BOOLEAN, NEW files \in E!Written(a), E!Execute(a, out, clean, provider, identified, files)
  PROVE  EvidenceInv'
<1> DEFINE resumed == run[a].asked = 0 \/ provider = run[a].asked
           exit == clean /\ out \in {"returned", "cancelled"} /\ resumed /\ identified
           end == IF out # "returned" THEN out ELSE IF exit THEN "succeeded" ELSE "failed"
           f == [pc |-> "executed", exit |-> exit, out |-> end]
           s == run[a].session
<1>0. AttemptShape /\ FileShape /\ SessionFits(a) /\ Resumes(a) /\ Copies(a) /\ Concludes(a)
  BY Attempted
<1>1. /\ run[a].pc = "linked" /\ E!Set(a, f) /\ ws' = [ws EXCEPT ![a] = files]
      /\ sess' = [sess EXCEPT ![s].provider = IF @ = 0 THEN provider ELSE @]
      /\ UNCHANGED <<kind, deliveredBy, judged, att, base, disk, rec>>
  BY DEF E!Execute, E!At, E!item, E!Seen
<1>2. s \in E!SessionId /\ s # 0 /\ sess[s].provider = 0 /\ sess[s].status \notin {"absent", "queued"}
  BY <1>0, <1>1, AttemptNumbers DEF SessionFits, Resumes, InRun
<1>3. files \in [File -> Nat]
  BY <1>0, AttemptNumbers DEF E!Written, FileShape
<1>4. exit => clean /\ resumed
  OBVIOUS
<1>5. end \in {"succeeded", "failed", "timed_out", "cancelled"} /\ (end = "succeeded" => exit)
  OBVIOUS
<1> HIDE DEF exit, end, s
<1>6. /\ DOMAIN run' = E!Attempt /\ \A b \in E!Attempt : DOMAIN run'[b] = RunFields
      /\ \A b \in E!Attempt \ {a} : run'[b] = run[b]
      /\ \A x \in RunFields : run'[a][x] = IF x \in DOMAIN f THEN f[x] ELSE run[a][x]
  BY <1>0, <1>1, AttemptSets
<1>7. /\ run'[a].pc = "executed" /\ run'[a].wake = run[a].wake /\ run'[a].id = run[a].id
      /\ run'[a].session = s /\ run'[a].linked = run[a].linked /\ run'[a].out = end
      /\ run'[a].exit = exit /\ run'[a].copying = run[a].copying /\ run'[a].asked = run[a].asked
  BY <1>6 DEF RunFields, s
<1>8. /\ DOMAIN sess' = E!SessionId /\ \A x \in E!SessionId : DOMAIN sess'[x] = SessionFields
      /\ sess'[s].status = sess[s].status /\ sess'[s].provider = provider
      /\ \A x \in E!SessionId \ {s} : sess'[x] = sess[x]
  BY <1>0, <1>1, <1>2 DEF AttemptShape, SessionFields
<1>9. SessionFits(a)'
  <2>1. E!Own(a) \in E!SessionId
    BY AttemptNumbers
  <2>2. sess'[E!Own(a)].status = sess[E!Own(a)].status
    BY <1>8, <2>1
  <2> QED BY <1>0, <1>1, <1>2, <1>5, <1>7, <1>8, <2>2 DEF SessionFits, Unopened, Unrun, InRun, s
<1>10. Resumes(a)'
  <2>1. exit => Continued(a)'
    BY <1>4, <1>7, <1>8 DEF Continued
  <2> QED BY <1>2, <1>5, <1>7, <2>1 DEF Resumes, Unrun, Unopened
<1>11. Copies(a)'
  <2>1. rec'[a] = E!Blank /\ run'[a].copying = {}
    BY <1>0, <1>1, <1>7 DEF Copies, Unrun
  <2> QED BY <1>7, <2>1 DEF Copies, Unrun, Unopened, E!Blank
<1>12. att[a] \notin {"none", "succeeded"} /\ sess[s].status # "succeeded"
  BY <1>0, <1>1, <1>2 DEF Concludes, Past, s
<1>13. Concludes(a)'
  BY <1>1, <1>7, <1>8, <1>12 DEF Concludes
<1>14. AttemptShape' /\ FileShape' /\ Unused' /\ Single'
  <2>1. AttemptShape'
    BY <1>0, <1>1, <1>6, <1>8 DEF AttemptShape
  <2>2. FileShape'
    BY <1>0, <1>1, <1>3 DEF FileShape
  <2>3. Unused'
    BY <1>2, <1>8 DEF EvidenceInv, Unused
  <2>4. Single'
    BY <1>6, <1>7 DEF EvidenceInv, Single, s
  <2> QED BY <2>1, <2>2, <2>3, <2>4
<1>15. \A b \in E!Attempt \ {a} : ws'[b] = ws[b]
  BY <1>0, <1>1 DEF FileShape
<1>16. att[E!Checker] # "none" /\ Handed => Handed'
  <2> SUFFICES ASSUME att[E!Checker] # "none", Handed PROVE Handed'
    OBVIOUS
  <2>1. judged \in E!Attempt /\ judged # a
    BY <1>12, AttemptNumbers DEF EvidenceInv, Judges
  <2>2. ws'[judged] = ws[judged]
    BY <1>15, <2>1
  <2>3. E!Artifacts(judged)' = E!Artifacts(judged)
    BY <1>1, <2>2 DEF E!Artifacts, E!Present, E!IsMaker, E!Checker
  <2> QED BY <1>1, <2>2, <2>3 DEF Handed, E!Repository, E!Checker
<1>17. Judges'
  <2>1. run'[E!Checker].pc \in {"prepared", "read"} \cup InRun
         => run[E!Checker].pc \in {"prepared", "read"} \cup InRun
    BY <1>1, <1>6, AttemptNumbers DEF InRun
  <2>2. run[E!Checker].pc \in {"prepared", "read"} \cup InRun => att[E!Checker] # "none"
    BY AttemptNumbers DEF EvidenceInv, Concludes, InRun
  <2> QED BY <1>1, <1>16, <2>1, <2>2 DEF EvidenceInv, Judges
<1>18. \A m \in E!Maker : Inherits(m)'
  BY <1>1 DEF EvidenceInv, Inherits, E!Blank, E!Present
<1>19. \A b \in E!Attempt \ {a} : att'[b] = att[b] /\ base'[b] = base[b] /\ disk'[b] = disk[b] /\ rec'[b] = rec[b]
  BY <1>1
<1>20. \A x \in E!SessionId : sess'[x] = sess[x] \/ x = run'[a].session
  BY <1>7, <1>8
<1> QED BY <1>1, <1>6, <1>9, <1>10, <1>11, <1>13, <1>14, <1>15, <1>16, <1>17, <1>18, <1>19, <1>20, AttemptMoves

\* The evidence of a run is refused, whatever the state of its copies.
LEMMA EvidenceRefused ==
  ASSUME Evidenced, EvidenceInv, NEW a \in E!Attempt, run[a].pc \in {"executed", "copying", "persisted"},
         E!Set(a, [pc |-> "persisted", failed |-> TRUE]) \/ (run[a].pc = "persisted" /\ E!Set(a, [failed |-> TRUE])),
         UNCHANGED <<kind, deliveredBy, judged, att, sess, ws, base, disk, rec>>
  PROVE  EvidenceInv'
<1>0. AttemptShape /\ SessionFits(a) /\ Resumes(a) /\ Copies(a) /\ Concludes(a)
  BY Attempted
<1>3. /\ DOMAIN run' = E!Attempt /\ \A b \in E!Attempt : DOMAIN run'[b] = RunFields
      /\ \A b \in E!Attempt \ {a} : run'[b] = run[b]
      /\ \A x \in RunFields : run'[a][x]
           = IF x = "pc" THEN "persisted" ELSE IF x = "failed" THEN TRUE ELSE run[a][x]
  <2>1. CASE E!Set(a, [pc |-> "persisted", failed |-> TRUE])
    <3> DEFINE f == [pc |-> "persisted", failed |-> TRUE]
    <3>1. /\ DOMAIN run' = E!Attempt /\ \A b \in E!Attempt : DOMAIN run'[b] = RunFields
          /\ \A b \in E!Attempt \ {a} : run'[b] = run[b]
          /\ \A x \in RunFields : run'[a][x] = IF x \in DOMAIN f THEN f[x] ELSE run[a][x]
      BY <1>0, <2>1, AttemptSets
    <3> QED BY <3>1
  <2>2. CASE run[a].pc = "persisted" /\ E!Set(a, [failed |-> TRUE])
    <3> DEFINE f == [failed |-> TRUE]
    <3>1. /\ DOMAIN run' = E!Attempt /\ \A b \in E!Attempt : DOMAIN run'[b] = RunFields
          /\ \A b \in E!Attempt \ {a} : run'[b] = run[b]
          /\ \A x \in RunFields : run'[a][x] = IF x \in DOMAIN f THEN f[x] ELSE run[a][x]
      BY <1>0, <2>2, AttemptSets
    <3> QED BY <2>2, <3>1
  <2> QED BY <2>1, <2>2
<1>4. /\ run'[a].pc = "persisted" /\ run'[a].wake = run[a].wake /\ run'[a].id = run[a].id
      /\ run'[a].session = run[a].session /\ run'[a].linked = run[a].linked /\ run'[a].out = run[a].out
      /\ run'[a].exit = run[a].exit /\ run'[a].asked = run[a].asked /\ run'[a].failed = TRUE
  BY <1>3 DEF RunFields
<1>5. SessionFits(a)'
  BY <1>0, <1>4 DEF SessionFits, Unopened, Unrun, InRun
<1>6. Resumes(a)'
  <2>1. Continued(a) => Continued(a)'
    BY <1>4 DEF Continued
  <2> QED BY <1>0, <1>4, <2>1 DEF Resumes, Unrun, Unopened
<1>7. Copies(a)'
  <2>1. E!Artifacts(a)' = E!Artifacts(a)
    BY DEF E!Artifacts, E!Present
  <2> QED BY <1>0, <1>4, <2>1 DEF Copies, Unrun, Unopened
<1>8. Concludes(a)'
  BY <1>0, <1>4 DEF Concludes, Past, SessionFits, InRun
<1>9. DOMAIN att' = E!Attempt /\ \A b \in E!Attempt \ {a} : att'[b] = att[b]
  BY <1>0 DEF AttemptShape
<1> QED BY <1>3, <1>4, <1>5, <1>6, <1>7, <1>8, <1>9, RunGoesOn DEF InRun

\* The output of a run is checked.
LEMMA OutputIsChecked ==
  ASSUME Evidenced, EvidenceInv, NEW a \in E!Attempt, NEW refused \in BOOLEAN, E!CheckOutput(a, refused)
  PROVE  EvidenceInv'
<1> DEFINE f == [pc |-> "copying", left |-> E!Artifacts(a)]
<1>0. AttemptShape /\ FileShape /\ SessionFits(a) /\ Resumes(a) /\ Copies(a) /\ Concludes(a)
  BY Attempted
<1>1. run[a].pc = "executed" /\ UNCHANGED <<kind, deliveredBy, judged, att, sess, ws, base, disk, rec>>
  BY DEF E!CheckOutput, E!At, E!item, E!files4
<1>2. CASE E!Refuse(a)
  BY <1>1, <1>2, EvidenceRefused DEF E!Refuse
<1>3. CASE E!Set(a, f) /\ (~E!IsMaker(a) => E!Changed(a) = {})
  <2>3. /\ DOMAIN run' = E!Attempt /\ \A b \in E!Attempt : DOMAIN run'[b] = RunFields
        /\ \A b \in E!Attempt \ {a} : run'[b] = run[b]
        /\ \A x \in RunFields : run'[a][x] = IF x \in DOMAIN f THEN f[x] ELSE run[a][x]
    BY <1>0, <1>3, AttemptSets
  <2>4. /\ run'[a].pc = "copying" /\ run'[a].wake = run[a].wake /\ run'[a].id = run[a].id
        /\ run'[a].session = run[a].session /\ run'[a].linked = run[a].linked /\ run'[a].out = run[a].out
        /\ run'[a].exit = run[a].exit /\ run'[a].asked = run[a].asked
        /\ run'[a].left = E!Artifacts(a) /\ run'[a].copying = run[a].copying
    BY <2>3 DEF RunFields
  <2>5. SessionFits(a)'
    BY <1>0, <1>1, <2>4 DEF SessionFits, Unopened, Unrun, InRun
  <2>6. Resumes(a)'
    <3>1. Continued(a) => Continued(a)'
      BY <1>1, <2>4 DEF Continued
    <3> QED BY <1>0, <1>1, <2>4, <3>1 DEF Resumes, Unrun, Unopened
  <2>7. Copies(a)'
    <3>1. E!Artifacts(a)' = E!Artifacts(a)
      BY <1>1 DEF E!Artifacts, E!Present
    <3>2. rec[a] = E!Blank /\ run[a].copying = {}
      BY <1>0, <1>1 DEF Copies
    <3>3. ~E!IsMaker(a) => ws[a] = base[a]
      BY <1>0, <1>3 DEF E!Changed, FileShape
    <3>4. \A x \in File : rec'[a][x] = 0
      BY <1>1, <3>2 DEF E!Blank
    <3>5. E!Artifacts(a) \subseteq File
      BY DEF E!Artifacts, E!Present, Evidenced
    <3>6. E!IsMaker(a)' = E!IsMaker(a)
      BY DEF E!IsMaker, E!Checker
    <3> QED BY <1>1, <2>4, <3>1, <3>2, <3>3, <3>4, <3>5, <3>6 DEF Copies, Unrun, Unopened
  <2>8. Concludes(a)'
    BY <1>0, <1>1, <2>4 DEF Concludes, Past, SessionFits, InRun
  <2>9. DOMAIN att' = E!Attempt /\ \A b \in E!Attempt \ {a} : att'[b] = att[b]
    BY <1>0, <1>1 DEF AttemptShape
  <2> QED BY <1>1, <2>3, <2>4, <2>5, <2>6, <2>7, <2>8, <2>9, RunGoesOn DEF InRun
<1> QED BY <1>2, <1>3 DEF E!CheckOutput

\* One artifact of a run is copied.
LEMMA ArtifactIsCopied ==
  ASSUME Evidenced, EvidenceInv, NEW a \in E!Attempt, NEW f \in File, E!CopyArtifact(a, f)
  PROVE  EvidenceInv'
<1> DEFINE left == run[a].left \ {f}
<1>0. AttemptShape /\ FileShape /\ SessionFits(a) /\ Resumes(a) /\ Copies(a) /\ Concludes(a)
  BY Attempted
<1>1. /\ run[a].pc = "copying" /\ run[a].copying = {} /\ f \in run[a].left
      /\ UNCHANGED <<kind, deliveredBy, judged, att, sess, ws, base, rec>>
  BY DEF E!CopyArtifact, E!At, E!item
<1>2. CASE E!Refuse(a) /\ UNCHANGED disk
  BY <1>1, <1>2, EvidenceRefused DEF E!Refuse
<1>3. CASE \/ ~run[a].exit /\ E!Set(a, [left |-> left]) /\ UNCHANGED disk
           \/ /\ ws[a][f] # 0 /\ disk' = [disk EXCEPT ![a][f] = ws[a][f]]
              /\ E!Set(a, [left |-> left, copying |-> {f}])
  <2>1. PICK copying \in {{}, {f}} :
          /\ (copying = {} /\ ~run[a].exit /\ UNCHANGED disk)
             \/ (copying = {f} /\ ws[a][f] # 0 /\ disk' = [disk EXCEPT ![a][f] = ws[a][f]])
          /\ DOMAIN run' = E!Attempt /\ \A b \in E!Attempt : DOMAIN run'[b] = RunFields
          /\ \A b \in E!Attempt \ {a} : run'[b] = run[b]
          /\ \A x \in RunFields : run'[a][x]
               = IF x = "left" THEN left ELSE IF x = "copying" THEN copying ELSE run[a][x]
    <3>1. CASE ~run[a].exit /\ E!Set(a, [left |-> left]) /\ UNCHANGED disk
      <4> DEFINE g == [left |-> left]
      <4>1. /\ DOMAIN run' = E!Attempt /\ \A b \in E!Attempt : DOMAIN run'[b] = RunFields
            /\ \A b \in E!Attempt \ {a} : run'[b] = run[b]
            /\ \A x \in RunFields : run'[a][x] = IF x \in DOMAIN g THEN g[x] ELSE run[a][x]
        BY <1>0, <3>1, AttemptSets
      <4> HIDE DEF left
      <4>2. \A x \in RunFields : run'[a][x] = IF x = "left" THEN left ELSE IF x = "copying" THEN {} ELSE run[a][x]
        BY <1>1, <4>1
      <4> QED BY <3>1, <4>1, <4>2
    <3>2. CASE /\ ws[a][f] # 0 /\ disk' = [disk EXCEPT ![a][f] = ws[a][f]]
               /\ E!Set(a, [left |-> left, copying |-> {f}])
      <4> DEFINE g == [left |-> left, copying |-> {f}]
      <4>1. /\ DOMAIN run' = E!Attempt /\ \A b \in E!Attempt : DOMAIN run'[b] = RunFields
            /\ \A b \in E!Attempt \ {a} : run'[b] = run[b]
            /\ \A x \in RunFields : run'[a][x] = IF x \in DOMAIN g THEN g[x] ELSE run[a][x]
        BY <1>0, <3>2, AttemptSets
      <4> HIDE DEF left
      <4>2. \A x \in RunFields : run'[a][x] = IF x = "left" THEN left ELSE IF x = "copying" THEN {f} ELSE run[a][x]
        BY <4>1
      <4> QED BY <3>2, <4>1, <4>2
    <3> QED BY <1>3, <3>1, <3>2
  <2>2. /\ run'[a].pc = "copying" /\ run'[a].wake = run[a].wake /\ run'[a].id = run[a].id
        /\ run'[a].session = run[a].session /\ run'[a].linked = run[a].linked /\ run'[a].out = run[a].out
        /\ run'[a].exit = run[a].exit /\ run'[a].asked = run[a].asked
        /\ run'[a].left = left /\ run'[a].copying = copying
    BY <1>1, <2>1 DEF RunFields
  <2>3. /\ disk' \in [E!Attempt -> [File -> Nat]] /\ (copying = {f} => disk'[a][f] = ws[a][f])
        /\ \A b \in E!Attempt \ {a} : disk'[b] = disk[b]
    <3>1. CASE copying = {} /\ UNCHANGED disk
      BY <1>0, <3>1 DEF FileShape
    <3>2. CASE disk' = [disk EXCEPT ![a][f] = ws[a][f]]
      BY <1>0, <3>2 DEF FileShape
    <3> QED BY <2>1, <3>1, <3>2
  <2>4. SessionFits(a)'
    BY <1>0, <1>1, <2>2 DEF SessionFits, Unopened, Unrun, InRun
  <2>5. Resumes(a)'
    <3>1. Continued(a) => Continued(a)'
      BY <1>1, <2>2 DEF Continued
    <3> QED BY <1>0, <1>1, <2>2, <3>1 DEF Resumes, Unrun, Unopened
  <2>6. Copies(a)'
    <3>1. E!Artifacts(a)' = E!Artifacts(a) /\ E!IsMaker(a)' = E!IsMaker(a)
      BY <1>1 DEF E!Artifacts, E!Present, E!IsMaker, E!Checker
    <3>2. /\ run[a].left \subseteq E!Artifacts(a) /\ \A x \in run[a].left : rec[a][x] = 0
          /\ (~E!IsMaker(a) => ws[a] = base[a])
          /\ (run[a].exit => \A x \in E!Artifacts(a) \ run[a].left : ws[a][x] # 0 /\ rec[a][x] = ws[a][x])
          /\ \A x \in File : rec[a][x] # 0 => x \in E!Artifacts(a)
      BY <1>0, <1>1 DEF Copies
    <3>3. left \subseteq run[a].left /\ copying \subseteq run[a].left /\ left \cap copying = {}
          /\ \A x, y \in copying : x = y
      BY <1>1
    <3>4. \A x \in copying : disk'[a][x] = ws[a][x]
      BY <2>1, <2>3
    <3>5. run[a].exit => \A x \in E!Artifacts(a) \ left : ws[a][x] # 0 /\ (x \in copying \/ rec[a][x] = ws[a][x])
      BY <2>1, <3>2
    <3> HIDE DEF left
    <3> QED BY <1>1, <2>2, <3>1, <3>2, <3>3, <3>4, <3>5 DEF Copies, Unrun, Unopened
  <2>7. Concludes(a)'
    BY <1>0, <1>1, <2>2 DEF Concludes, Past, SessionFits, InRun
  <2>8. AttemptShape' /\ FileShape' /\ Unused' /\ Single'
    <3>1. AttemptShape'
      BY <1>0, <1>1, <2>1 DEF AttemptShape
    <3>2. FileShape'
      BY <1>0, <1>1, <2>3 DEF FileShape
    <3>3. Unused'
      BY <1>1 DEF EvidenceInv, Unused
    <3>4. Single'
      BY <2>1, <2>2 DEF EvidenceInv, Single
    <3> QED BY <3>1, <3>2, <3>3, <3>4
  <2>9. Handed' = Handed
    BY <1>1 DEF Handed, E!Repository, E!Artifacts, E!Present
  <2>10. Judges'
    BY <1>1, <2>1, <2>2, <2>9, AttemptNumbers DEF EvidenceInv, Judges, InRun
  <2>11. \A m \in E!Maker : Inherits(m)'
    BY <1>1 DEF EvidenceInv, Inherits, E!Blank, E!Present
  <2>12. \A b \in E!Attempt \ {a} : att'[b] = att[b] /\ ws'[b] = ws[b] /\ base'[b] = base[b] /\ rec'[b] = rec[b]
    BY <1>1
  <2>13. \A s \in E!SessionId : sess'[s] = sess[s]
    BY <1>1
  <2> QED BY <1>1, <2>1, <2>3, <2>4, <2>5, <2>6, <2>7, <2>8, <2>9, <2>10, <2>11, <2>12, <2>13, AttemptMoves
<1> QED BY <1>2, <1>3 DEF E!CopyArtifact, E!Successful

\* A copy is recorded with the hash of what was copied.
LEMMA ArtifactIsRecorded ==
  ASSUME Evidenced, EvidenceInv, NEW a \in E!Attempt, E!RecordArtifact(a)
  PROVE  EvidenceInv'
<1> DEFINE g == [copying |-> {}]
<1>0. AttemptShape /\ FileShape /\ SessionFits(a) /\ Resumes(a) /\ Copies(a) /\ Concludes(a)
  BY Attempted
<1>1. PICK f \in run[a].copying :
        /\ run[a].pc = "copying" /\ rec' = [rec EXCEPT ![a][f] = disk[a][f]] /\ E!Set(a, g)
        /\ UNCHANGED <<kind, deliveredBy, judged, att, sess, ws, base, disk>>
  BY DEF E!RecordArtifact, E!At, E!item
<1>2. /\ run[a].left \subseteq E!Artifacts(a) /\ run[a].copying = {f} /\ f \notin run[a].left /\ f \in E!Artifacts(a)
      /\ (\A x \in run[a].left : rec[a][x] = 0) /\ rec[a][f] = 0 /\ disk[a][f] = ws[a][f]
      /\ (~E!IsMaker(a) => ws[a] = base[a])
      /\ (run[a].exit => \A x \in E!Artifacts(a) \ run[a].left : ws[a][x] # 0 /\ (x = f \/ rec[a][x] = ws[a][x]))
      /\ \A x \in File : rec[a][x] # 0 => x \in E!Artifacts(a)
  BY <1>0, <1>1 DEF Copies
<1>3. E!Artifacts(a) \subseteq File
  BY DEF E!Artifacts, E!Present, Evidenced
<1>4. /\ rec' \in [E!Attempt -> [File -> Nat]] /\ rec'[a][f] = ws[a][f]
      /\ (\A x \in File \ {f} : rec'[a][x] = rec[a][x])
      /\ \A b \in E!Attempt \ {a} : rec'[b] = rec[b]
  BY <1>0, <1>1, <1>2, <1>3 DEF FileShape
<1>5. /\ DOMAIN run' = E!Attempt /\ \A b \in E!Attempt : DOMAIN run'[b] = RunFields
      /\ \A b \in E!Attempt \ {a} : run'[b] = run[b]
      /\ \A x \in RunFields : run'[a][x] = IF x \in DOMAIN g THEN g[x] ELSE run[a][x]
  BY <1>0, <1>1, AttemptSets
<1>6. /\ run'[a].pc = "copying" /\ run'[a].wake = run[a].wake /\ run'[a].id = run[a].id
      /\ run'[a].session = run[a].session /\ run'[a].linked = run[a].linked /\ run'[a].out = run[a].out
      /\ run'[a].exit = run[a].exit /\ run'[a].asked = run[a].asked
      /\ run'[a].left = run[a].left /\ run'[a].copying = {}
  BY <1>1, <1>5 DEF RunFields
<1>7. SessionFits(a)'
  BY <1>0, <1>1, <1>6 DEF SessionFits, Unopened, Unrun, InRun
<1>8. Resumes(a)'
  <2>1. Continued(a) => Continued(a)'
    BY <1>1, <1>6 DEF Continued
  <2> QED BY <1>0, <1>1, <1>6, <2>1 DEF Resumes, Unrun, Unopened
<1>9. Copies(a)'
  <2>1. E!Artifacts(a)' = E!Artifacts(a) /\ E!IsMaker(a)' = E!IsMaker(a)
    BY <1>1 DEF E!Artifacts, E!Present, E!IsMaker, E!Checker
  <2>2. \A x \in run[a].left : rec'[a][x] = 0
    BY <1>2, <1>3, <1>4
  <2>3. run[a].exit => \A x \in E!Artifacts(a) \ run[a].left : ws[a][x] # 0 /\ rec'[a][x] = ws[a][x]
    BY <1>2, <1>3, <1>4
  <2>4. \A x \in File : rec'[a][x] # 0 => x \in E!Artifacts(a)
    BY <1>2, <1>4
  <2> QED BY <1>1, <1>2, <1>6, <2>1, <2>2, <2>3, <2>4 DEF Copies, Unrun, Unopened
<1>10. Concludes(a)'
  BY <1>0, <1>1, <1>6 DEF Concludes, Past, SessionFits, InRun
<1>11. AttemptShape' /\ FileShape' /\ Unused' /\ Single'
  <2>1. AttemptShape'
    BY <1>0, <1>1, <1>5 DEF AttemptShape
  <2>2. FileShape'
    BY <1>0, <1>1, <1>4 DEF FileShape
  <2>3. Unused'
    BY <1>1 DEF EvidenceInv, Unused
  <2>4. Single'
    BY <1>5, <1>6 DEF EvidenceInv, Single
  <2> QED BY <2>1, <2>2, <2>3, <2>4
<1>12. Handed' = Handed
  BY <1>1 DEF Handed, E!Repository, E!Artifacts, E!Present
<1>13. Judges'
  BY <1>1, <1>5, <1>6, <1>12, AttemptNumbers DEF EvidenceInv, Judges, InRun

\* Nothing was inherited of a file before it was recorded.
<1>14. ASSUME NEW m \in E!Maker PROVE Inherits(m)'
  <2> SUFFICES ASSUME base[m] # E!Blank
               PROVE  \E p \in E!Maker : p < m /\ \A x \in E!Present(base[m]) : base[m][x] = rec'[p][x]
    BY <1>1 DEF Inherits, E!Blank, E!Present
  <2>1. PICK p \in E!Maker : p < m /\ \A x \in E!Present(base[m]) : base[m][x] = rec[p][x]
    BY DEF EvidenceInv, Inherits
  <2>2. CASE p # a
    BY <1>4, <2>1, <2>2, AttemptNumbers
  <2>3. CASE p = a
    BY <1>2, <1>4, <2>1, <2>3 DEF E!Present
  <2> QED BY <2>2, <2>3
<1>15. \A b \in E!Attempt \ {a} : att'[b] = att[b] /\ ws'[b] = ws[b] /\ base'[b] = base[b] /\ disk'[b] = disk[b]
  BY <1>1
<1>16. \A s \in E!SessionId : sess'[s] = sess[s]
  BY <1>1
<1> QED BY <1>1, <1>4, <1>5, <1>7, <1>8, <1>9, <1>10, <1>11, <1>12, <1>13, <1>14, <1>15, <1>16, AttemptMoves

\* Everything is copied and recorded; a repository maker's commit becomes the deliveredBy.
LEMMA CopyingFinishes ==
  ASSUME Evidenced, EvidenceInv, NEW a \in E!Attempt, E!FinishCopying(a)
  PROVE  EvidenceInv'
<1> DEFINE g == [pc |-> "persisted"]
<1>0. AttemptShape /\ FileShape /\ SessionFits(a) /\ Resumes(a) /\ Copies(a) /\ Concludes(a)
  BY Attempted
<1>1. /\ run[a].pc = "copying" /\ run[a].copying = {} /\ run[a].left = {}
      /\ UNCHANGED <<kind, judged, att, sess, ws, base, disk, rec>>
  BY DEF E!FinishCopying, E!At, E!files4
<1>2. CASE E!Refuse(a) /\ UNCHANGED deliveredBy
  BY <1>1, <1>2, EvidenceRefused DEF E!Refuse
<1>3. CASE /\ E!Set(a, g)
           /\ IF E!Repository /\ E!IsMaker(a) /\ run[a].exit
              THEN deliveredBy \in {0, a} /\ deliveredBy' = a ELSE deliveredBy' = deliveredBy
  <2>1. /\ DOMAIN run' = E!Attempt /\ \A b \in E!Attempt : DOMAIN run'[b] = RunFields
        /\ \A b \in E!Attempt \ {a} : run'[b] = run[b]
        /\ \A x \in RunFields : run'[a][x] = IF x \in DOMAIN g THEN g[x] ELSE run[a][x]
    BY <1>0, <1>3, AttemptSets
  <2>2. /\ run'[a].pc = "persisted" /\ run'[a].wake = run[a].wake /\ run'[a].id = run[a].id
        /\ run'[a].session = run[a].session /\ run'[a].linked = run[a].linked /\ run'[a].out = run[a].out
        /\ run'[a].exit = run[a].exit /\ run'[a].asked = run[a].asked
    BY <2>1 DEF RunFields
  <2>3. deliveredBy' = deliveredBy \/ (deliveredBy = 0 /\ deliveredBy' = a /\ E!IsMaker(a))
    BY <1>3
  <2>4. SessionFits(a)'
    BY <1>0, <1>1, <2>2 DEF SessionFits, Unopened, Unrun, InRun
  <2>5. Continued(a) => Continued(a)'
    BY <1>1, <2>2 DEF Continued
  <2>6. Resumes(a)'
    BY <1>0, <1>1, <2>2, <2>5 DEF Resumes, Unrun, Unopened
  <2>7. E!Artifacts(a)' = E!Artifacts(a) /\ E!IsMaker(a)' = E!IsMaker(a)
    BY <1>1 DEF E!Artifacts, E!Present, E!IsMaker, E!Checker
  <2>8. Copies(a)'
    BY <1>0, <1>1, <2>2, <2>7 DEF Copies, Unrun, Unopened
  <2>9. Handed' = Handed
    BY <1>1 DEF Handed, E!Repository, E!Artifacts, E!Present
  <2>10. run[a].exit => Complete(a)'
    <3> SUFFICES ASSUME run[a].exit PROVE Complete(a)'
      OBVIOUS
    <3>1. \A f \in E!Artifacts(a) : ws[a][f] # 0 /\ rec[a][f] = ws[a][f]
      BY <1>0, <1>1 DEF Copies
    <3>2. E!IsMaker(a) /\ E!Repository => deliveredBy' = a
      BY <1>3
    <3>3. ~E!IsMaker(a) => ws[a] = base[a] /\ Handed
      BY <1>0, <1>1 DEF Copies, E!IsMaker, EvidenceInv, Judges, InRun
    <3>4. run[a].session # 0 /\ Continued(a)
      BY <1>0 DEF Resumes
    <3> QED BY <1>1, <2>2, <2>5, <2>7, <2>9, <3>1, <3>2, <3>3, <3>4 DEF Complete, E!Repository
  <2>11. Concludes(a)'
    BY <1>0, <1>1, <2>2, <2>10 DEF Concludes, Past, SessionFits, InRun
  <2>12. AttemptShape' /\ FileShape' /\ Unused' /\ Single'
    <3>1. deliveredBy' \in {0} \cup E!Maker
      BY <1>0, <2>3, AttemptNumbers DEF AttemptShape, E!IsMaker
    <3>2. AttemptShape'
      BY <1>0, <1>1, <2>1, <3>1 DEF AttemptShape
    <3>3. FileShape'
      BY <1>0, <1>1 DEF FileShape
    <3>4. Unused'
      BY <1>1 DEF EvidenceInv, Unused
    <3>5. Single'
      BY <2>1, <2>2 DEF EvidenceInv, Single
    <3> QED BY <3>2, <3>3, <3>4, <3>5
  <2>13. Judges'
    BY <1>1, <2>1, <2>2, <2>9, AttemptNumbers DEF EvidenceInv, Judges, InRun
  <2>14. \A m \in E!Maker : Inherits(m)'
    BY <1>1 DEF EvidenceInv, Inherits, E!Blank, E!Present
  <2>15. \A b \in E!Attempt \ {a} : att'[b] = att[b] /\ ws'[b] = ws[b] /\ base'[b] = base[b]
                                    /\ disk'[b] = disk[b] /\ rec'[b] = rec[b]
    BY <1>1
  <2>16. \A s \in E!SessionId : sess'[s] = sess[s]
    BY <1>1
  <2> QED BY <1>1, <2>1, <2>3, <2>4, <2>6, <2>8, <2>9, <2>11, <2>12, <2>13, <2>14, <2>15, <2>16, AttemptMoves
<1> QED BY <1>2, <1>3 DEF E!FinishCopying, E!Successful

\* Copying that is given up, and actions that fail.
LEMMA EvidenceFails ==
  ASSUME Evidenced, EvidenceInv, NEW a \in E!Attempt, E!StopCopying(a) \/ E!ApplyActionsFails(a)
  PROVE  EvidenceInv'
BY EvidenceRefused DEF E!StopCopying, E!ApplyActionsFails, E!Refuse, E!At, E!item, E!files4

\* The session of a run is closed with the status of the run.
LEMMA SessionIsCompleted ==
  ASSUME Evidenced, EvidenceInv, NEW a \in E!Attempt, E!CompleteSession(a)
  PROVE  EvidenceInv'
<1> DEFINE g == [pc |-> "closed"]
           s == run[a].session
           status == E!Status(a)
<1>0. AttemptShape /\ FileShape /\ SessionFits(a) /\ Resumes(a) /\ Copies(a) /\ Concludes(a)
  BY Attempted
<1>1. /\ run[a].pc = "persisted" /\ E!Set(a, g)
      /\ sess' = [sess EXCEPT ![s].status = status, ![s].error = run[a].failed]
      /\ UNCHANGED <<kind, deliveredBy, judged, att, ws, base, disk, rec>>
  BY DEF E!CompleteSession, E!At, E!item, E!files4
<1>2. s \in E!SessionId /\ s # 0
  BY <1>0, <1>1, AttemptNumbers DEF SessionFits, InRun
<1>3. status \in {"succeeded", "failed", "timed_out", "cancelled"}
  BY <1>0, <1>1 DEF SessionFits, E!Status, Unrun, Unopened
<1>4. status = "succeeded" => Complete(a)
  BY <1>0, <1>1 DEF E!Status, Resumes, Concludes
<1> HIDE DEF s, status
<1>5. /\ DOMAIN run' = E!Attempt /\ \A b \in E!Attempt : DOMAIN run'[b] = RunFields
      /\ \A b \in E!Attempt \ {a} : run'[b] = run[b]
      /\ \A x \in RunFields : run'[a][x] = IF x \in DOMAIN g THEN g[x] ELSE run[a][x]
  BY <1>0, <1>1, AttemptSets
<1>6. /\ run'[a].pc = "closed" /\ run'[a].wake = run[a].wake /\ run'[a].id = run[a].id
      /\ run'[a].session = s /\ run'[a].linked = run[a].linked /\ run'[a].out = run[a].out
      /\ run'[a].exit = run[a].exit /\ run'[a].asked = run[a].asked /\ run'[a].failed = run[a].failed
  BY <1>5 DEF RunFields, s
<1>7. /\ DOMAIN sess' = E!SessionId /\ \A x \in E!SessionId : DOMAIN sess'[x] = SessionFields
      /\ sess'[s].status = status /\ sess'[s].provider = sess[s].provider
      /\ \A x \in E!SessionId \ {s} : sess'[x] = sess[x]
  BY <1>0, <1>1, <1>2 DEF AttemptShape, SessionFields
<1>8. SessionFits(a)'
  <2>1. sess'[E!Own(a)].status # "absent" => s = E!Own(a)
    BY <1>0, <1>7, AttemptNumbers DEF SessionFits, s
  <2> QED BY <1>0, <1>1, <1>2, <1>3, <1>6, <1>7, <2>1 DEF SessionFits, Unopened, Unrun, InRun, s
<1>9. Continued(a) => Continued(a)'
  BY <1>6, <1>7 DEF Continued, s
<1>10. Resumes(a)'
  BY <1>0, <1>1, <1>6, <1>9 DEF Resumes, Unrun, Unopened, s
<1>11. E!Artifacts(a)' = E!Artifacts(a) /\ Handed' = Handed
  BY <1>1 DEF E!Artifacts, E!Present, Handed, E!Repository
<1>12. Copies(a)'
  BY <1>0, <1>1, <1>6, <1>11 DEF Copies, Unrun, Unopened
<1>13. Complete(a) => Complete(a)'
  BY <1>1, <1>6, <1>9, <1>11 DEF Complete, E!Repository, s
<1>14. Concludes(a)'
  BY <1>0, <1>1, <1>4, <1>6, <1>7, <1>13 DEF Concludes, Past
<1>15. AttemptShape' /\ FileShape' /\ Unused' /\ Single'
  <2>1. AttemptShape'
    BY <1>0, <1>1, <1>5, <1>7 DEF AttemptShape
  <2>2. FileShape'
    BY <1>0, <1>1 DEF FileShape
  <2>3. Unused'
    BY <1>3, <1>7 DEF EvidenceInv, Unused
  <2>4. Single'
    BY <1>5, <1>6 DEF EvidenceInv, Single, s
  <2> QED BY <2>1, <2>2, <2>3, <2>4
<1>16. Judges'
  BY <1>1, <1>5, <1>6, <1>11, AttemptNumbers DEF EvidenceInv, Judges, InRun
<1>17. \A m \in E!Maker : Inherits(m)'
  BY <1>1 DEF EvidenceInv, Inherits, E!Blank, E!Present
<1>18. \A b \in E!Attempt \ {a} : att'[b] = att[b] /\ ws'[b] = ws[b] /\ base'[b] = base[b]
                                  /\ disk'[b] = disk[b] /\ rec'[b] = rec[b]
  BY <1>1
<1>19. \A x \in E!SessionId : sess'[x] = sess[x] \/ x = run'[a].session
  BY <1>6, <1>7
<1> QED BY <1>1, <1>5, <1>8, <1>10, <1>11, <1>12, <1>14, <1>15, <1>16, <1>17, <1>18, <1>19, AttemptMoves

\* The attempt of a run gets the status of the run, unless it is over.
LEMMA AttemptIsCompleted ==
  ASSUME Evidenced, EvidenceInv, NEW a \in E!Attempt, E!CompleteAttempt(a)
  PROVE  EvidenceInv'
<1> DEFINE g == [pc |-> "done"]
<1>0. AttemptShape /\ SessionFits(a) /\ Resumes(a) /\ Copies(a) /\ Concludes(a)
  BY Attempted
<1>1. run[a].pc = "closed" /\ UNCHANGED <<kind, deliveredBy, judged, sess, ws, base, disk, rec>>
  BY DEF E!CompleteAttempt, E!At, E!item, E!files4
<1>2. CASE E!Fails(a)
  BY <1>1, <1>2, RunFails
<1>3. CASE att[a] = "running" /\ att' = [att EXCEPT ![a] = E!Status(a)] /\ E!Set(a, g)
  <2>1. E!Status(a) # "none" /\ (E!Status(a) = "succeeded" => Complete(a))
    BY <1>0, <1>1 DEF E!Status, Resumes, Concludes, SessionFits, Unrun, Unopened
  <2>2. /\ DOMAIN run' = E!Attempt /\ \A b \in E!Attempt : DOMAIN run'[b] = RunFields
        /\ \A b \in E!Attempt \ {a} : run'[b] = run[b]
        /\ \A x \in RunFields : run'[a][x] = IF x \in DOMAIN g THEN g[x] ELSE run[a][x]
    BY <1>0, <1>3, AttemptSets
  <2>3. /\ run'[a].pc = "done" /\ run'[a].wake = run[a].wake /\ run'[a].id = run[a].id
        /\ run'[a].session = run[a].session /\ run'[a].linked = run[a].linked /\ run'[a].out = run[a].out
        /\ run'[a].exit = run[a].exit /\ run'[a].asked = run[a].asked
    BY <2>2 DEF RunFields
  <2>4. DOMAIN att' = E!Attempt /\ att'[a] = E!Status(a) /\ \A b \in E!Attempt \ {a} : att'[b] = att[b]
    BY <1>0, <1>3 DEF AttemptShape
  <2>5. SessionFits(a)'
    BY <1>0, <1>1, <2>3 DEF SessionFits, Unopened, Unrun, InRun
  <2>6. Continued(a) => Continued(a)'
    BY <1>1, <2>3 DEF Continued
  <2>7. Resumes(a)'
    BY <1>0, <1>1, <2>3, <2>6 DEF Resumes, Unrun, Unopened
  <2>8. E!Artifacts(a)' = E!Artifacts(a) /\ Handed' = Handed
    BY <1>1 DEF E!Artifacts, E!Present, Handed, E!Repository
  <2>9. Copies(a)'
    BY <1>0, <1>1, <2>3, <2>8 DEF Copies, Unrun, Unopened
  <2>10. Complete(a) => Complete(a)'
    BY <1>1, <2>3, <2>6, <2>8 DEF Complete, E!Repository
  <2>11. Concludes(a)'
    <3>1. att'[a] # "none" /\ (att'[a] = "succeeded" => Complete(a)')
      BY <2>1, <2>4, <2>10
    <3> QED BY <1>0, <1>1, <2>3, <2>10, <3>1 DEF Concludes, Past
  <2> QED BY <1>1, <1>3, <2>2, <2>3, <2>4, <2>5, <2>7, <2>9, <2>11, RunGoesOn DEF InRun
<1> QED BY <1>2, <1>3 DEF E!CompleteAttempt

\* An attempt whose lease ran out is lost; one whose session is over gets its status.
LEMMA AttemptIsLost ==
  ASSUME Evidenced, EvidenceInv, NEW a \in E!Attempt, E!Lose(a) \/ E!Reconcile(a)
  PROVE  EvidenceInv'
<1>0. AttemptShape /\ SessionFits(a) /\ Resumes(a) /\ Copies(a) /\ Concludes(a)
  BY Attempted
<1>1. PICK status :
        /\ att[a] = "running" /\ att' = [att EXCEPT ![a] = status] /\ status # "none"
        /\ status = "succeeded" => Complete(a) /\ run[a].pc \in Past
        /\ UNCHANGED <<kind, deliveredBy, judged, run, sess, ws, base, disk, rec>>
  <2>1. CASE E!Lose(a)
    BY <2>1 DEF E!Lose, E!item, E!files4
  <2>2. CASE E!Reconcile(a)
    BY <1>0, <2>2 DEF E!Reconcile, E!item, E!files4, E!Terminal, E!Retryable, Concludes, SessionFits
  <2> QED BY <2>1, <2>2
<1>2. DOMAIN att' = E!Attempt /\ att'[a] = status /\ \A b \in E!Attempt \ {a} : att'[b] = att[b]
  BY <1>0, <1>1 DEF AttemptShape
<1>3. SessionFits(a)' /\ Resumes(a)' /\ Copies(a)'
  BY <1>0, <1>1 DEF SessionFits, Resumes, Continued, Copies, E!Artifacts, E!Present, E!IsMaker, E!Checker, E!Blank
<1>4. Complete(a)' = Complete(a)
  BY <1>1 DEF Complete, Continued, Handed, E!Artifacts, E!Present, E!IsMaker, E!Checker, E!Repository
<1>5. Concludes(a)'
  BY <1>0, <1>1, <1>2, <1>4 DEF Concludes, Past
<1> QED BY <1>0, <1>1, <1>2, <1>3, <1>5, RunGoesOn DEF AttemptShape

\* The retry of an attempt is queued, with the session it will run as.
LEMMA RetryIsQueued ==
  ASSUME Evidenced, EvidenceInv, NEW a \in E!Maker, E!QueueRetry(a)
  PROVE  EvidenceInv'
<1> DEFINE parent == IF run[a].linked THEN run[a].session ELSE run[a].wake
           resume == run[a].linked /\ (att[a] # "failed" \/ sess[parent].error)
           named == IF resume THEN sess[parent].provider ELSE 0
<1>1. /\ sess' = [sess EXCEPT ![a + 1] = [E!NoSession EXCEPT !.status = "queued", !.parent = parent, !.named = named]]
      /\ a + 1 \in E!Maker /\ sess[a + 1].status = "absent"
      /\ UNCHANGED <<kind, deliveredBy, judged, att, run, ws, base, disk, rec>>
  BY DEF E!QueueRetry, E!item, E!files4, E!Maker, Evidenced
<1> HIDE DEF parent, named
<1>2. a \in E!Attempt /\ a + 1 \in E!SessionId
  BY <1>1, AttemptNumbers
<1>0. AttemptShape /\ FileShape /\ SessionFits(a) /\ Resumes(a) /\ Copies(a) /\ Concludes(a)
  BY <1>2, Attempted
<1>3. /\ DOMAIN sess' = E!SessionId /\ \A x \in E!SessionId : DOMAIN sess'[x] = SessionFields
      /\ sess'[a + 1].status = "queued" /\ sess'[a + 1].provider = 0
      /\ \A x \in E!SessionId \ {a + 1} : sess'[x] = sess[x]
  BY <1>0, <1>1, <1>2 DEF AttemptShape, SessionFields, E!NoSession
<1>4. (run[a].session # 0 => sess'[run[a].session] = sess[run[a].session]) /\ sess'[E!Own(a)] = sess[E!Own(a)]
  BY <1>0, <1>1, <1>2, <1>3, AttemptNumbers DEF SessionFits
<1>5. SessionFits(a)' /\ Copies(a)'
  <2>1. SessionFits(a)'
    BY <1>0, <1>1, <1>4 DEF SessionFits
  <2>2. Copies(a)'
    BY <1>0, <1>1 DEF Copies, E!Artifacts, E!Present, E!IsMaker, E!Checker, E!Blank
  <2> QED BY <2>1, <2>2
<1>6. run[a].session # 0 /\ Continued(a) => Continued(a)'
  BY <1>1, <1>4 DEF Continued
<1>7. Resumes(a)'
  <2>1. run[a].pc \in {"opened", "linked"} => run[a].session # 0
    BY <1>0 DEF SessionFits, InRun
  <2> QED BY <1>0, <1>1, <1>4, <1>6, <2>1 DEF Resumes
<1>8. Complete(a) => Complete(a)'
  BY <1>1, <1>6 DEF Complete, Handed, E!Artifacts, E!Present, E!IsMaker, E!Checker, E!Repository
<1>9. Concludes(a)'
  BY <1>0, <1>1, <1>4, <1>8 DEF Concludes
<1>10. AttemptShape' /\ FileShape' /\ Unused' /\ Single' /\ Judges' /\ Handed' = Handed
  <2>1. AttemptShape'
    BY <1>0, <1>1, <1>3 DEF AttemptShape
  <2>2. FileShape' /\ Single'
    BY <1>1 DEF EvidenceInv, FileShape, Single
  <2>3. Unused'
    BY <1>3 DEF EvidenceInv, Unused
  <2>4. Handed' = Handed
    BY <1>1 DEF Handed, E!Repository, E!Artifacts, E!Present, E!IsMaker, E!Checker
  <2>5. Judges'
    BY <1>1, <2>4 DEF EvidenceInv, Judges
  <2> QED BY <2>1, <2>2, <2>3, <2>4, <2>5
<1>11. \A m \in E!Maker : Inherits(m)'
  BY <1>1 DEF EvidenceInv, Inherits, E!Blank, E!Present
<1>12. \A b \in E!Attempt \ {a} :
         /\ run'[b] = run[b] /\ att'[b] = att[b] /\ ws'[b] = ws[b] /\ base'[b] = base[b]
         /\ disk'[b] = disk[b] /\ rec'[b] = rec[b]
  BY <1>1
<1>13. \A s \in E!SessionId : sess'[s] = sess[s] \/ (s \in E!Maker /\ sess[s].status = "absent")
  BY <1>1, <1>3
<1> QED BY <1>1, <1>2, <1>5, <1>7, <1>9, <1>10, <1>11, <1>12, <1>13, AttemptMoves

\* The inductive step of what the attempts leave.
LEMMA EvidenceNext ==
  ASSUME Evidenced, EvidenceInv, [E!Next]_E!vars
  PROVE  EvidenceInv'
<1>1. CASE UNCHANGED E!vars
  <2>1. /\ UNCHANGED <<kind, deliveredBy, judged, att, run, sess, ws, base, disk, rec>>
    BY <1>1 DEF E!vars
  <2>2. AttemptShape' /\ FileShape' /\ Unused' /\ Single' /\ Handed' = Handed
    BY <2>1 DEF EvidenceInv, AttemptShape, FileShape, Unused, Single, Handed, E!Repository, E!Artifacts, E!Present,
                E!IsMaker, E!Checker
  <2>3. Judges' /\ \A m \in E!Maker : Inherits(m)'
    BY <2>1, <2>2 DEF EvidenceInv, Judges, Inherits, E!Present, E!Blank
  <2>4. ASSUME NEW a \in E!Attempt PROVE SessionFits(a)' /\ Resumes(a)' /\ Copies(a)' /\ Concludes(a)'
    <3>1. Complete(a)' = Complete(a)
      BY <2>1, <2>2 DEF Complete, Continued, E!Artifacts, E!Present, E!IsMaker, E!Checker, E!Repository
    <3>2. SessionFits(a)' /\ Resumes(a)' /\ Concludes(a)'
      BY <2>1, <3>1 DEF EvidenceInv, SessionFits, Resumes, Continued, Concludes
    <3>3. Copies(a)'
      BY <2>1 DEF EvidenceInv, Copies, E!Artifacts, E!Present, E!IsMaker, E!Checker, E!Blank
    <3> QED BY <3>2, <3>3
  <2> QED BY <2>2, <2>3, <2>4 DEF EvidenceInv
<1>2. ASSUME NEW a \in E!Maker, E!Starts(a) \/ E!QueueRetry(a) PROVE EvidenceInv'
  BY <1>2, MakerDispatches, CheckerDispatches, RetryIsQueued DEF E!Starts
<1>3. ASSUME NEW a \in E!Attempt, E!Prepares(a) PROVE EvidenceInv'
  BY <1>3, WorkspaceIsSetUp, RunEnds, SessionIsRead, SessionOpens, SessionLinks DEF E!Prepares
<1>4. ASSUME NEW a \in E!Attempt, E!Runs(a) PROVE EvidenceInv'
  BY <1>4, AgentRuns, RunEnds DEF E!Runs
<1>5. ASSUME NEW a \in E!Attempt, E!Persists(a) PROVE EvidenceInv'
  BY <1>5, OutputIsChecked, ArtifactIsCopied, ArtifactIsRecorded, EvidenceFails, CopyingFinishes DEF E!Persists
<1>6. ASSUME NEW a \in E!Attempt, E!Ends(a) PROVE EvidenceInv'
  BY <1>6, EvidenceFails, SessionIsCompleted, AttemptIsCompleted, AttemptIsLost, RunEnds DEF E!Ends
<1> QED BY <1>1, <1>2, <1>3, <1>4, <1>5, <1>6 DEF E!Next

\* Nothing has run.
LEMMA EvidenceBegins ==
  ASSUME Evidenced, E!Init
  PROVE  EvidenceInv
<1>1. \A a \in E!Attempt : run[a] = E!NotStarted /\ att[a] = "none"
                           /\ ws[a] = E!Blank /\ base[a] = E!Blank /\ disk[a] = E!Blank /\ rec[a] = E!Blank
  BY DEF E!Init
<1>2. \A s \in E!SessionId : sess[s] = IF s = 1 THEN [E!NoSession EXCEPT !.status = "queued"] ELSE E!NoSession
  BY DEF E!Init
<1>3. \A s \in E!SessionId : DOMAIN sess[s] = SessionFields /\ sess[s].provider = 0
                             /\ (s # 1 => sess[s].status = "absent")
  BY <1>2 DEF E!NoSession, SessionFields
<1>4. AttemptShape
  BY <1>1, <1>3 DEF AttemptShape, E!Init, E!NotStarted, RunFields
<1>5. FileShape
  BY DEF E!Init, FileShape, E!Blank
<1>6. Unused /\ Single
  BY <1>1, <1>3 DEF Unused, Single, E!NotStarted
<1>7. Judges
  BY <1>1, AttemptNumbers DEF Judges, E!NotStarted, InRun
<1>8. ASSUME NEW a \in E!Attempt PROVE SessionFits(a) /\ Resumes(a) /\ Copies(a) /\ Concludes(a)
  <2>1. 1 \in E!Maker
    BY DEF E!Maker, Evidenced
  <2>2. sess[E!Own(a)].status = "absent"
    BY <1>3, <2>1, AttemptNumbers
  <2>3. run[a] = E!NotStarted /\ att[a] = "none" /\ rec[a] = E!Blank
    BY <1>1
  <2> QED BY <2>2, <2>3 DEF SessionFits, Resumes, Copies, Concludes, E!NotStarted, E!Blank, Unopened, Unrun, InRun
<1>9. \A m \in E!Maker : Inherits(m)
  BY <1>1, AttemptNumbers DEF Inherits
<1> QED BY <1>4, <1>5, <1>6, <1>7, <1>8, <1>9 DEF EvidenceInv

\* What the invariant says of an attempt that succeeded, of a retry, of a checker and of a session.
LEMMA EvidenceSuffices ==
  ASSUME Evidenced, EvidenceInv
  PROVE  E!EvidenceComplete
<1>1. \A a \in E!Attempt : att[a] = "succeeded" => Complete(a)
  BY DEF EvidenceInv, Concludes
<1>2. E!SucceededIsRecorded
  BY <1>1, AttemptNumbers DEF E!SucceededIsRecorded, Complete, E!IsMaker
<1>3. E!RetryFromOneAttempt
  BY DEF EvidenceInv, Inherits, E!RetryFromOneAttempt
<1>4. E!CheckedIsDelivered
  BY <1>1, AttemptNumbers DEF E!CheckedIsDelivered, Complete, Handed, E!IsMaker
<1>5. E!OneRunPerSession
  BY DEF EvidenceInv, Single, E!OneRunPerSession
<1>6. E!ResumedIsContinued
  BY <1>1, AttemptNumbers DEF E!ResumedIsContinued, Complete, Continued
<1> QED BY <1>2, <1>3, <1>4, <1>5, <1>6 DEF E!EvidenceComplete

\* EvidenceComplete holds in every behaviour: whoever else ran, was lost or died meanwhile, a maker
\* that succeeded has recorded what its workspace holds, a retry goes on from one attempt's work,
\* a checker judged what it was handed, and no two runs write one session.
THEOREM EvidencesComplete == Evidenced => (E!Spec => []E!EvidenceComplete)
<1> SUFFICES ASSUME Evidenced PROVE E!Spec => []E!EvidenceComplete
  OBVIOUS
<1>1. E!Init => EvidenceInv
  BY EvidenceBegins
<1>2. EvidenceInv /\ [E!Next]_E!vars => EvidenceInv'
  BY EvidenceNext
<1>3. EvidenceInv => E!EvidenceComplete
  BY EvidenceSuffices
<1> QED BY <1>1, <1>2, <1>3, PTL DEF E!Spec

-----------------------------------------------------------------------------
(* Delegation: the actions of a manager, their children and callbacks.     *)

\* What an agent, a child, its callback and a workspace come to, and the steps of an action.
Company == {"none", "partial", "defined", "hired"}
Stage == {"none", "ready"} \cup M!Terminal
Turn == {"none", "ready", "running", "done"}
Space == {"none", "ready", "dropped", "released", "pulled"}
Step == {"write", "register", "delegate", "queue", "milestone", "bind", "start", "record"}
\* Where a settler stands.
Resting == [pc : {"idle"}]
Calling == [pc : {"create", "enqueue"}, action : Action]
Releasing == [pc : {"scan", "release"}, workspace : M!Attempts, under : BOOLEAN]

\* The kinds of actions of a setup, and no action is named as the holders of a lock.
Setups ==
  /\ MaxAttempts \in Nat \ {0}
  /\ \A s \in Setup : /\ DOMAIN s.kind \subseteq Action /\ \A a \in DOMAIN s.kind : s.kind[a] \in M!Kind
                       /\ s.brokered \in BOOLEAN
  /\ Action \cap {"free", "worker", "recovery"} = {}

\* The attempt and what it applies keep their shape, as does what comes of it.
ManagerShape ==
  /\ setup \in Setup
  /\ attempt \in [number : M!Attempts, running : BOOLEAN, ok : BOOLEAN, kept : BOOLEAN, succeeded : BOOLEAN]
  /\ request \in [Action -> {"none", "queued", "applied"}]
  /\ applying = M!Idle \/ applying \in [step : Step, action : Action]
  /\ DOMAIN process = {"milestone", "bound", "run"}
WorkShape ==
  /\ agent \in [Action -> Company]
  /\ child \in [Action -> [status : Stage, made : {0, 1}, from : 0 .. MaxAttempts]]
  /\ callback \in [Action -> [status : Turn, queued : {0, 1}]]
  /\ workspace \in [M!Attempts -> Space]
  /\ lock \in [M!Attempts -> {"free", "worker", "recovery"} \cup Action]
  /\ settler \in [M!Settler -> Resting \cup Calling \cup Releasing]

\* What waits to be applied was posted by the attempt that runs.
Requested == \A a \in Action : request[a] = "queued" => attempt.running /\ a \in M!Used
\* An action is applied while the attempt runs, and each step follows the earlier ones.
Applying ==
  applying # M!Idle =>
    /\ attempt.running
    /\ applying.step \in {"delegate", "queue"} => agent[applying.action] = "hired"
    /\ applying.step = "queue" => child[applying.action].made = 1

\* A child is made for an agent that was hired, and knows the attempt that queued it.
Begotten(a) ==
  /\ child[a].made = 1 => agent[a] = "hired"
  /\ child[a].made = 0 => child[a].status = "none" /\ child[a].from = 0
  /\ child[a].from <= attempt.number

\* A callback follows the end of its child, and runs in the workspace whose lock it holds.
Resumed(a) ==
  /\ callback[a].status # "none" => child[a].status \in M!Terminal /\ child[a].from # 0
  /\ callback[a].status = "running" =>
       ~attempt.running /\ workspace[child[a].from] = "ready" /\ lock[child[a].from] = a

\* A settler holds the lock of what it is about to release, and saw that nothing needs it.
Settles(s) ==
  /\ settler[s].pc \in {"create", "enqueue"} =>
       child[settler[s].action].status \in M!Terminal /\ child[settler[s].action].from # 0
  /\ settler[s].pc \in {"scan", "release"} =>
       /\ lock[settler[s].workspace] = s /\ settler[s].workspace <= attempt.number
       /\ ~settler[s].under => process.bound # settler[s].workspace /\ ~M!Runs(settler[s].workspace)
  /\ settler[s].pc = "release" /\ ~settler[s].under =>
       \A a \in M!Related(settler[s].workspace) : child[a].status \in M!Terminal

\* Nothing that a workspace was kept for is open when it is gone.
Retained(n) ==
  /\ workspace[n] \in {"released", "dropped"} => n <= attempt.number /\ ~M!Runs(n)
  /\ workspace[n] = "released" => process.bound # n /\ \A a \in M!Related(n) : child[a].status \in M!Terminal
  /\ workspace[n] = "dropped" /\ setup.brokered => \A a \in Action : <<a, n>> \in recorded => ~M!Keeps(a)

\* What the broker recorded of an attempt that keeps its workspace keeps it.
Recorded ==
  /\ \A a \in Action, n \in M!Attempts : <<a, n>> \in recorded => n <= attempt.number
  /\ setup.brokered => \A a \in Action : <<a, attempt.number>> \in recorded /\ M!Keeps(a) => attempt.kept

\* The inductive invariant.
DelegationInv ==
  /\ ManagerShape /\ WorkShape /\ Requested /\ Applying /\ Recorded
  /\ \A a \in Action : Begotten(a) /\ Resumed(a)
  /\ \A s \in M!Settler : Settles(s)
  /\ \A n \in M!Attempts : Retained(n)

\* A manager begins so.
LEMMA DelegationBegins == Setups /\ M!Init => DelegationInv
<1> SUFFICES ASSUME Setups, M!Init PROVE DelegationInv
  OBVIOUS
<1>1. 1 \in M!Attempts /\ 0 \in 0 .. MaxAttempts
  BY DEF Setups, M!Attempts
<1>2. ManagerShape
  BY DEF M!Init, M!Begun, Setups, ManagerShape, M!Attempts
<1>3. WorkShape
  <2>1. agent \in [Action -> Company]
    BY DEF M!Init, Company
  <2>2. child \in [Action -> [status : Stage, made : {0, 1}, from : 0 .. MaxAttempts]]
    BY <1>1 DEF M!Init, Stage
  <2>3. callback \in [Action -> [status : Turn, queued : {0, 1}]]
    BY DEF M!Init, Turn
  <2>4. workspace \in [M!Attempts -> Space]
    BY DEF M!Init, Space
  <2>5. lock \in [M!Attempts -> {"free", "worker", "recovery"} \cup Action]
    BY DEF M!Init, M!Free
  <2>6. settler \in [M!Settler -> Resting \cup Calling \cup Releasing]
    BY DEF M!Init, Resting
  <2> QED BY <2>1, <2>2, <2>3, <2>4, <2>5, <2>6 DEF WorkShape
<1>4. Requested
  BY DEF M!Init, Requested
<1>5. Applying
  BY DEF M!Init, Applying
<1>6. Recorded
  BY DEF M!Init, Recorded
<1>7. \A a \in Action : Begotten(a)
  BY DEF M!Init, M!Begun, Begotten
<1>8. \A a \in Action : Resumed(a)
  BY DEF M!Init, Resumed
<1>9. \A s \in M!Settler : Settles(s)
  BY DEF M!Init, Settles
<1>10. \A n \in M!Attempts : Retained(n)
  BY DEF M!Init, Retained
<1> QED BY <1>2, <1>3, <1>4, <1>5, <1>6, <1>7, <1>8, <1>9, <1>10 DEF DelegationInv

\* Every step keeps the invariant.
LEMMA DelegationKeeps == Setups /\ DelegationInv /\ [M!Next]_(M!vars) => DelegationInv'
<1> SUFFICES ASSUME Setups, DelegationInv, [M!Next]_(M!vars) PROVE DelegationInv'
  OBVIOUS
<1>1. /\ ManagerShape /\ WorkShape /\ Requested /\ Applying /\ Recorded
      /\ \A a \in Action : Begotten(a) /\ Resumed(a)
      /\ \A s \in M!Settler : Settles(s)
      /\ \A n \in M!Attempts : Retained(n)
  BY DEF DelegationInv
<1>2. CASE UNCHANGED M!vars
  BY <1>2 DEF M!vars, M!managerState, M!companyState, M!spaces, DelegationInv, ManagerShape, WorkShape, Requested,
     Applying, Recorded, Begotten, Resumed, Settles, Retained, M!Attempts, Resting, Calling, Releasing,
     M!Used, M!Keeps, M!KindOf, M!Runs, M!Related
<1>3. ASSUME NEW x \in Action, M!Post(x) PROVE DelegationInv'
  <2>1. UNCHANGED <<setup, attempt, broker, applying, agent, child, callback, process, recorded,
        workspace, lock, settler>>
    BY <1>3 DEF M!Post, M!companyState, M!spaces
  <2>2. /\ WorkShape'
        /\ Applying'
        /\ Recorded'
        /\ \A a \in Action : Begotten(a)'
        /\ \A a \in Action : Resumed(a)'
        /\ \A s \in M!Settler : Settles(s)'
        /\ \A n \in M!Attempts : Retained(n)'
    BY <1>1, <2>1 DEF WorkShape, Releasing, Applying, M!Idle, Recorded, M!Keeps, M!KindOf, Begotten, Resumed,
       Settles, M!Runs, M!Related, Retained
  <2>3. ManagerShape'
    BY <1>1, <1>3, <2>1 DEF ManagerShape, M!Post
  <2>4. Requested'
    BY <1>1, <1>3 DEF Requested, M!Used, M!Post
  <2> QED BY <2>2, <2>3, <2>4 DEF DelegationInv
<1>4. ASSUME NEW ok \in BOOLEAN, NEW reported \in SUBSET Action, M!EndCli(ok, reported) PROVE
      DelegationInv'
  <2>1. UNCHANGED <<setup, applying, agent, child, callback, process, recorded, workspace, lock,
        settler>>
    BY <1>4 DEF M!EndCli, M!companyState, M!spaces
  <2>2. WorkShape'
    BY <1>1, <2>1 DEF WorkShape
  <2>3. ManagerShape'
    <3>1. attempt \in [number : M!Attempts, running : BOOLEAN, ok : BOOLEAN, kept : BOOLEAN, succeeded : BOOLEAN]
      BY <1>1 DEF ManagerShape
    <3>2. \E fine \in BOOLEAN : attempt' = [attempt EXCEPT !.ok = fine]
      <4> DEFINE fine == ok /\ (setup.brokered \/ M!Missing(reported) = {})
      <4>1. attempt' = [attempt EXCEPT !.ok = fine] /\ fine \in BOOLEAN
        BY <1>4 DEF M!EndCli
      <4> QED BY <4>1
    <3>3. (attempt \in [number : M!Attempts, running : BOOLEAN, ok : BOOLEAN, kept : BOOLEAN, succeeded : BOOLEAN])'
      BY <3>1, <3>2
    <3>4. (request \in [Action -> {"none", "queued", "applied"}])'
      BY <1>1, <1>4 DEF M!EndCli, ManagerShape
    <3>5. (applying = M!Idle \/ applying \in [step : Step, action : Action])'
      BY <1>1, <2>1 DEF ManagerShape
    <3> QED BY <1>1, <2>1, <3>3, <3>4 DEF ManagerShape
  <2>4. Requested'
    BY <1>1, <1>4 DEF Requested, M!Used, M!EndCli
  <2>5. Applying'
    BY <1>1, <1>4, <2>1 DEF Applying, M!EndCli
  <2>6. Recorded'
    BY <1>1, <1>4, <2>1 DEF Recorded, M!Keeps, M!KindOf, M!EndCli
  <2>7. \A a \in Action : Begotten(a)'
    BY <1>1, <1>4, <2>1 DEF Begotten, M!EndCli
  <2>8. \A a \in Action : Resumed(a)'
    BY <1>1, <1>4 DEF Resumed, M!EndCli
  <2>9. \A s \in M!Settler : Settles(s)'
    BY <1>1, <1>4, <2>1 DEF Settles, M!Runs, M!Related, M!EndCli
  <2>10. \A n \in M!Attempts : Retained(n)'
    BY <1>1, <1>4, <2>1 DEF Retained, M!Runs, M!Related, M!Keeps, M!KindOf, M!EndCli, M!Used, M!Missing
  <2> QED BY <2>2, <2>3, <2>4, <2>5, <2>6, <2>7, <2>8, <2>9, <2>10 DEF DelegationInv
<1>5. CASE M!EndAttempt
  <2>1. UNCHANGED <<setup, request, applying, agent, child, callback, process, recorded, lock,
        settler>>
    BY <1>5 DEF M!EndAttempt, M!companyState
  <2>2. ManagerShape'
    <3>1. attempt \in [number : M!Attempts, running : BOOLEAN, ok : BOOLEAN, kept : BOOLEAN, succeeded : BOOLEAN]
      BY <1>1 DEF ManagerShape
    <3>2. \E kept, succeeded \in BOOLEAN :
            attempt' = [attempt EXCEPT !.running = FALSE, !.kept = kept, !.succeeded = succeeded]
      <4> DEFINE kept == attempt.kept \/ (~setup.brokered /\ attempt.ok /\ \E a \in M!Applied : M!Keeps(a))
                 succeeded == attempt.ok /\ M!Missing(M!Applied) = {}
      <4>1. attempt' = [attempt EXCEPT !.running = FALSE, !.kept = kept, !.succeeded = succeeded]
        BY <1>5 DEF M!EndAttempt
      <4>2. kept \in BOOLEAN /\ succeeded \in BOOLEAN
        BY <3>1
      <4> QED BY <4>1, <4>2
    <3>3. (attempt \in [number : M!Attempts, running : BOOLEAN, ok : BOOLEAN, kept : BOOLEAN, succeeded : BOOLEAN])'
      BY <3>1, <3>2
    <3>4. (request \in [Action -> {"none", "queued", "applied"}])'
      BY <1>1, <2>1 DEF ManagerShape
    <3>5. (applying = M!Idle \/ applying \in [step : Step, action : Action])'
      BY <1>5 DEF M!EndAttempt
    <3> QED BY <1>1, <2>1, <3>3 DEF ManagerShape
  <2>3. WorkShape'
    BY <1>1, <1>5, <2>1 DEF Setups, WorkShape, M!Attempts, M!Settler, M!Terminal, Stage, Turn, Space, Company,
       Resting, Calling, Releasing, M!EndAttempt, M!Idle, M!Missing, M!TypeOf, M!KindOf, M!Applied, M!Keeps
  <2>4. Requested'
    BY <1>5 DEF Requested, M!EndAttempt
  <2>5. Applying'
    BY <1>5 DEF Applying, M!EndAttempt
  <2>6. Recorded'
    BY <1>1, <1>5, <2>1 DEF Setups, Recorded, M!Keeps, M!KindOf, M!EndAttempt, ManagerShape, WorkShape
  <2>7. \A a \in Action : Begotten(a)'
    BY <1>1, <1>5, <2>1 DEF Begotten, M!EndAttempt
  <2>8. \A a \in Action : Resumed(a)'
    BY <1>1, <1>5 DEF Resumed, M!EndAttempt
  <2>9. \A s \in M!Settler : Settles(s)'
    BY <1>1, <1>5, <2>1 DEF Settles, M!Runs, M!Related, M!EndAttempt
  <2>10. \A n \in M!Attempts : Retained(n)'
    BY <1>1, <1>5, <2>1 DEF Setups, Retained, M!Runs, M!Related, M!Keeps, M!KindOf, M!EndAttempt, M!Free,
       M!Settler, M!Attempts, M!Kind, Step, Applying, Recorded, Begotten
  <2> QED BY <2>2, <2>3, <2>4, <2>5, <2>6, <2>7, <2>8, <2>9, <2>10 DEF DelegationInv
<1>6. CASE M!LoseAttempt
  <2>1. UNCHANGED <<setup, agent, child, callback, process, recorded, workspace, lock, settler>>
    BY <1>6 DEF M!LoseAttempt, M!companyState, M!spaces
  <2>2. WorkShape'
    BY <1>1, <2>1 DEF WorkShape
  <2>3. ManagerShape'
    <3>1. attempt \in [number : M!Attempts, running : BOOLEAN, ok : BOOLEAN, kept : BOOLEAN, succeeded : BOOLEAN]
      BY <1>1 DEF ManagerShape
    <3>2. attempt' = [attempt EXCEPT !.running = FALSE]
      BY <1>6 DEF M!LoseAttempt
    <3>3. (attempt \in [number : M!Attempts, running : BOOLEAN, ok : BOOLEAN, kept : BOOLEAN, succeeded : BOOLEAN])'
      BY <3>1, <3>2
    <3>4. (request \in [Action -> {"none", "queued", "applied"}])'
      BY <1>6 DEF M!LoseAttempt
    <3>5. (applying = M!Idle \/ applying \in [step : Step, action : Action])'
      BY <1>6 DEF M!LoseAttempt
    <3> QED BY <1>1, <2>1, <3>3, <3>4, <3>5 DEF ManagerShape
  <2>4. Requested'
    BY <1>6 DEF Requested, M!LoseAttempt
  <2>5. Applying'
    BY <1>6 DEF Applying, M!LoseAttempt
  <2>6. Recorded'
    BY <1>1, <1>6, <2>1 DEF Recorded, M!Keeps, M!KindOf, M!LoseAttempt
  <2>7. \A a \in Action : Begotten(a)'
    BY <1>1, <1>6, <2>1 DEF Begotten, M!LoseAttempt
  <2>8. \A a \in Action : Resumed(a)'
    BY <1>1, <1>6 DEF Resumed, M!LoseAttempt
  <2>9. \A s \in M!Settler : Settles(s)'
    BY <1>1, <1>6, <2>1 DEF Settles, M!Runs, M!Related, M!LoseAttempt
  <2>10. \A n \in M!Attempts : Retained(n)'
    BY <1>1, <1>6, <2>1 DEF Retained, M!Runs, M!Related, M!Keeps, M!KindOf, M!LoseAttempt
  <2> QED BY <2>2, <2>3, <2>4, <2>5, <2>6, <2>7, <2>8, <2>9, <2>10 DEF DelegationInv
<1>7. CASE M!Retry
  <2>1. UNCHANGED <<setup, applying, agent, child, callback, process, recorded, lock, settler>>
    BY <1>7 DEF M!Retry, M!companyState
  <2>2. ManagerShape'
    BY <1>1, <1>7, <2>1 DEF Setups, ManagerShape, M!Attempts, M!Retry, M!Begun
  <2>3. WorkShape'
    BY <1>1, <1>7, <2>1 DEF Setups, WorkShape, M!Attempts, M!Settler, M!Terminal, Stage, Turn, Space, Company,
       Resting, Calling, Releasing, M!Retry, M!Begun, M!Busy
  <2>4. Requested'
    BY <1>7 DEF Requested, M!Retry
  <2>5. Applying'
    BY <1>1, <1>7 DEF Applying, M!Retry, M!Busy
  <2>6. Recorded'
    BY <1>1, <1>7, <2>1 DEF Setups, Recorded, M!Keeps, M!KindOf, M!Retry, M!Begun, M!Busy, M!Attempts, M!Kind,
       Step, Stage, Turn, ManagerShape, WorkShape, Requested, Applying, Begotten
  <2>7. \A a \in Action : Begotten(a)'
    BY <1>1, <1>7 DEF Begotten, M!Retry, M!Begun, M!Busy, M!managerState, M!companyState, M!Attempts, M!Kind,
       Step, Stage, Turn, ManagerShape, WorkShape, Requested, Applying, Recorded
  <2>8. \A a \in Action : Resumed(a)'
    BY <1>1, <1>7 DEF Resumed, M!Retry, M!Busy
  <2>9. \A s \in M!Settler : Settles(s)'
    BY <1>1, <1>7, <2>1 DEF Setups, Settles, M!Runs, M!Related, M!Retry, M!Begun, M!Busy, M!Attempts, M!Kind,
       Step, Stage, Turn, Space, Company, Resting, Calling, Releasing, ManagerShape, WorkShape, Requested,
       Applying, Recorded
  <2>10. \A n \in M!Attempts : Retained(n)'
    BY <1>1, <1>7, <2>1 DEF Setups, Retained, M!Runs, M!Related, M!Keeps, M!KindOf, M!Retry, M!Begun, M!Busy,
       M!managerState, M!companyState, M!spaces, M!At, M!To, M!This, M!Idle, M!Used, M!Attempts, M!Kind, Step,
       Stage, Turn, ManagerShape, WorkShape, Requested, Applying, Recorded
  <2> QED BY <2>2, <2>3, <2>4, <2>5, <2>6, <2>7, <2>8, <2>9, <2>10 DEF DelegationInv
<1>8. ASSUME NEW x \in Action, M!BeginApply(x) PROVE DelegationInv'
  <2>1. UNCHANGED <<setup, attempt, broker, request, agent, child, callback, process, recorded,
        workspace, lock, settler>>
    BY <1>8 DEF M!BeginApply, M!companyState, M!spaces
  <2>2. /\ WorkShape'
        /\ Requested'
        /\ Recorded'
        /\ \A a \in Action : Begotten(a)'
        /\ \A a \in Action : Resumed(a)'
        /\ \A s \in M!Settler : Settles(s)'
        /\ \A n \in M!Attempts : Retained(n)'
    BY <1>1, <2>1 DEF WorkShape, Requested, M!Used, Recorded, M!Keeps, M!KindOf, Begotten, Resumed, Settles,
       M!Runs, M!Related, Retained
  <2>3. ManagerShape'
    BY <1>1, <1>8, <2>1 DEF Setups, ManagerShape, M!Attempts, M!Idle, Step, M!BeginApply, M!KindOf, M!At,
       M!FirstStep, M!Kind, M!managerState, M!companyState, M!spaces, M!To, M!This, M!Keeps, M!Used,
       WorkShape, Requested, Applying, Recorded, Begotten
  <2>4. Applying'
    BY <1>1, <1>8, <2>1 DEF Setups, Applying, M!Idle, M!BeginApply, M!KindOf, M!At, M!FirstStep, M!This,
       M!Keeps, M!Used, M!Runs, M!Busy, ManagerShape, WorkShape, Requested, Recorded, Begotten
  <2> QED BY <2>2, <2>3, <2>4 DEF DelegationInv
<1>9. CASE M!FailAction
  <2>1. UNCHANGED <<setup, broker, agent, child, callback, process, recorded, workspace, lock,
        settler>>
    BY <1>9 DEF M!FailAction, M!companyState, M!spaces
  <2>2. WorkShape'
    BY <1>1, <2>1 DEF WorkShape
  <2>3. ManagerShape'
    <3>1. attempt \in [number : M!Attempts, running : BOOLEAN, ok : BOOLEAN, kept : BOOLEAN, succeeded : BOOLEAN]
      BY <1>1 DEF ManagerShape
    <3>2. \E fine \in BOOLEAN : attempt' = [attempt EXCEPT !.ok = fine]
      <4> DEFINE fine == attempt.ok /\ setup.brokered
      <4>1. attempt' = [attempt EXCEPT !.ok = fine] /\ fine \in BOOLEAN
        BY <1>9 DEF M!FailAction
      <4> QED BY <4>1
    <3>3. (attempt \in [number : M!Attempts, running : BOOLEAN, ok : BOOLEAN, kept : BOOLEAN, succeeded : BOOLEAN])'
      BY <3>1, <3>2
    <3>4. (request \in [Action -> {"none", "queued", "applied"}])'
      BY <1>1, <1>9 DEF M!FailAction, ManagerShape
    <3>5. (applying = M!Idle \/ applying \in [step : Step, action : Action])'
      BY <1>9 DEF M!FailAction
    <3> QED BY <1>1, <2>1, <3>3, <3>4, <3>5 DEF ManagerShape
  <2>4. Requested'
    BY <1>1, <1>9 DEF Requested, M!Used, M!FailAction
  <2>5. Applying'
    BY <1>9 DEF Applying, M!FailAction
  <2>6. Recorded'
    BY <1>1, <1>9, <2>1 DEF Recorded, M!Keeps, M!KindOf, M!FailAction
  <2>7. \A a \in Action : Begotten(a)'
    BY <1>1, <1>9, <2>1 DEF Begotten, M!FailAction
  <2>8. \A a \in Action : Resumed(a)'
    BY <1>1, <1>9, <2>1 DEF Resumed, M!FailAction
  <2>9. \A s \in M!Settler : Settles(s)'
    BY <1>1, <1>9, <2>1 DEF Settles, M!Runs, M!Related, M!FailAction
  <2>10. \A n \in M!Attempts : Retained(n)'
    BY <1>1, <1>9, <2>1 DEF Retained, M!Runs, M!Related, M!Keeps, M!KindOf, M!FailAction, M!Idle, M!At
  <2> QED BY <2>2, <2>3, <2>4, <2>5, <2>6, <2>7, <2>8, <2>9, <2>10 DEF DelegationInv
<1>10. CASE M!WritePart
  <2>1. UNCHANGED <<setup, attempt, broker, request, applying, child, callback, process, recorded,
        workspace, lock, settler>>
    BY <1>10 DEF M!WritePart, M!managerState, M!spaces
  <2>2. /\ ManagerShape'
        /\ Requested'
        /\ Recorded'
        /\ \A a \in Action : Resumed(a)'
        /\ \A s \in M!Settler : Settles(s)'
        /\ \A n \in M!Attempts : Retained(n)'
    BY <1>1, <2>1 DEF ManagerShape, M!Attempts, Requested, M!Used, Recorded, M!Keeps, M!KindOf, Resumed, Settles,
       M!Runs, M!Related, Retained
  <2>3. applying \in [step : Step, action : Action] /\ applying.step = "write" /\ attempt.running
   BY <1>1, <1>10 DEF M!WritePart, M!At, M!Idle, ManagerShape, Applying
  <2>4. WorkShape'
    <3>1. (agent \in [Action -> Company])'
      BY <1>1, <1>10, <2>3 DEF WorkShape, Company, M!WritePart, M!This
    <3> QED BY <1>1, <2>1, <3>1 DEF WorkShape
  <2>5. Applying'
    BY <2>1, <2>3 DEF Applying
  <2>6. \A a \in Action : Begotten(a)'
    BY <1>1, <1>10, <2>1 DEF Begotten, M!WritePart
  <2> QED BY <2>2, <2>4, <2>5, <2>6 DEF DelegationInv
<1>11. CASE M!WriteHiredAgent
  <2>1. UNCHANGED <<setup, attempt, broker, request, child, callback, process, recorded, workspace,
        lock, settler>>
    BY <1>11 DEF M!WriteHiredAgent, M!spaces
  <2>2. /\ Requested'
        /\ Recorded'
        /\ \A a \in Action : Resumed(a)'
        /\ \A s \in M!Settler : Settles(s)'
        /\ \A n \in M!Attempts : Retained(n)'
    BY <1>1, <2>1 DEF Requested, M!Used, Recorded, M!Keeps, M!KindOf, Resumed, Settles, M!Runs, M!Related,
       Retained
  <2>3. applying \in [step : Step, action : Action] /\ applying.step = "write" /\ attempt.running
   BY <1>1, <1>11 DEF M!WriteHiredAgent, M!At, M!Idle, ManagerShape, Applying
  <2>4. ManagerShape'
    <3>1. (applying = M!Idle \/ applying \in [step : Step, action : Action])'
      BY <1>1, <1>11 DEF ManagerShape, M!Idle, Step, M!WriteHiredAgent, M!At, M!To
    <3> QED BY <1>1, <2>1, <3>1 DEF ManagerShape
  <2>5. WorkShape'
    <3>1. (agent \in [Action -> Company])'
      BY <1>1, <1>11, <2>3 DEF WorkShape, Company, M!WriteHiredAgent, M!This
    <3> QED BY <1>1, <2>1, <3>1 DEF WorkShape
  <2>6. Applying'
    BY <1>1, <1>11 DEF Applying, M!Idle, M!WriteHiredAgent, M!At, M!To
  <2>7. \A a \in Action : Begotten(a)'
    BY <1>1, <1>11 DEF Begotten, M!WriteHiredAgent
  <2> QED BY <2>2, <2>4, <2>5, <2>6, <2>7 DEF DelegationInv
<1>12. CASE M!Register
  <2>1. UNCHANGED <<setup, attempt, broker, request, child, callback, process, recorded, workspace,
        lock, settler>>
    BY <1>12 DEF M!Register, M!spaces
  <2>2. /\ Requested'
        /\ Recorded'
        /\ \A a \in Action : Resumed(a)'
        /\ \A s \in M!Settler : Settles(s)'
        /\ \A n \in M!Attempts : Retained(n)'
    BY <1>1, <2>1 DEF Requested, M!Used, Recorded, M!Keeps, M!KindOf, Resumed, Settles, M!Runs, M!Related,
       Retained
  <2>3. applying \in [step : Step, action : Action] /\ applying.step = "register" /\ attempt.running
   BY <1>1, <1>12 DEF M!Register, M!At, M!Idle, ManagerShape, Applying
  <2>4. ManagerShape'
    <3>1. (applying = M!Idle \/ applying \in [step : Step, action : Action])'
      BY <1>12, <2>3 DEF Step, M!Register, M!To, M!This
    <3> QED BY <1>1, <2>1, <3>1 DEF ManagerShape
  <2>5. WorkShape'
    <3>1. (agent \in [Action -> Company])'
      BY <1>1, <1>12, <2>3 DEF WorkShape, Company, M!Register, M!This
    <3> QED BY <1>1, <2>1, <3>1 DEF WorkShape
  <2>6. Applying'
    BY <1>1, <1>12 DEF Applying, M!Idle, M!Register, M!KindOf, M!At, M!To, M!This, ManagerShape, WorkShape
  <2>7. \A a \in Action : Begotten(a)'
    BY <1>1, <1>12 DEF Begotten, M!Register
  <2> QED BY <2>2, <2>4, <2>5, <2>6, <2>7 DEF DelegationInv
<1>13. CASE M!Delegate
  <2>1. UNCHANGED <<setup, attempt, broker, request, agent, callback, process, recorded, workspace,
        lock, settler>>
    BY <1>13 DEF M!Delegate, M!companyState, M!spaces
  <2>2. /\ Requested'
        /\ Recorded'
    BY <1>1, <2>1 DEF Requested, M!Used, Recorded, M!Keeps, M!KindOf
  <2>3. applying \in [step : Step, action : Action] /\ applying.step = "delegate" /\ attempt.running
   BY <1>1, <1>13 DEF M!Delegate, M!At, M!Idle, ManagerShape, Applying
  <2>4. ManagerShape'
    <3>1. (applying = M!Idle \/ applying \in [step : Step, action : Action])'
      BY <1>1, <1>13 DEF ManagerShape, M!Idle, Step, M!Delegate, M!At, M!To
    <3> QED BY <1>1, <2>1, <3>1 DEF ManagerShape
  <2>5. WorkShape'
    <3>1. (child \in [Action -> [status : Stage, made : {0, 1}, from : 0 .. MaxAttempts]])'
      <4>1. child \in [Action -> [status : Stage, made : {0, 1}, from : 0 .. MaxAttempts]]
        BY <1>1 DEF WorkShape
      <4>2. [status |-> "ready", made |-> 1, from |-> 0] \in [status : Stage, made : {0, 1}, from : 0 .. MaxAttempts]
        BY DEF Setups, Stage
      <4>3. child' = child \/ child' = [child EXCEPT ![applying.action] = [status |-> "ready", made |-> 1, from |-> 0]]
        BY <1>13 DEF M!Delegate, M!This
      <4> QED BY <4>1, <4>2, <4>3
    <3> QED BY <1>1, <2>1, <3>1 DEF WorkShape
  <2>6. Applying'
    BY <1>1, <1>13, <2>1, <2>3 DEF Setups, Applying, M!Idle, M!Delegate, M!At, M!To, M!This, ManagerShape,
       WorkShape, Requested
  <2>7. \A a \in Action : Begotten(a)'
    BY <1>1, <1>13 DEF Setups, Begotten, M!Delegate, M!At, M!To, M!This, M!managerState, M!companyState,
       M!spaces, M!Idle, M!KindOf, ManagerShape, WorkShape, Requested, Applying, Recorded
  <2>8. \A a \in Action : Resumed(a)'
    BY <1>1, <1>13, <2>1, <2>3 DEF Setups, Resumed, M!Delegate, M!At, ManagerShape, WorkShape, Recorded,
       Begotten
  <2>9. \A s \in M!Settler : Settles(s)'
    BY <1>1, <1>13, <2>1, <2>3 DEF Setups, Settles, M!Runs, M!Related, M!Delegate, M!At, M!Attempts, M!Kind,
       Step, Stage, Turn, Space, Company, Resting, Calling, Releasing, ManagerShape, WorkShape, Requested,
       Applying, Recorded, Begotten, Resumed, Retained
  <2>10. \A n \in M!Attempts : Retained(n)'
    BY <1>1, <1>13, <2>1 DEF Setups, Retained, M!Runs, M!Related, M!Keeps, M!KindOf, M!Delegate, M!At,
       M!Settler, M!Attempts, M!Kind
  <2> QED BY <2>2, <2>4, <2>5, <2>6, <2>7, <2>8, <2>9, <2>10 DEF DelegationInv
<1>14. CASE M!QueueDelegatedWork
  <2>1. UNCHANGED <<setup, attempt, broker, request, agent, callback, process, recorded, workspace,
        lock, settler>>
    BY <1>14 DEF M!QueueDelegatedWork, M!companyState, M!spaces
  <2>2. /\ Requested'
        /\ Recorded'
    BY <1>1, <2>1 DEF Requested, M!Used, Recorded, M!Keeps, M!KindOf
  <2>3. applying \in [step : Step, action : Action] /\ applying.step = "queue" /\ attempt.running
   BY <1>1, <1>14 DEF M!QueueDelegatedWork, M!At, M!Idle, ManagerShape, Applying
  <2>4. ManagerShape'
    <3>1. (applying = M!Idle \/ applying \in [step : Step, action : Action])'
      BY <1>1, <1>14 DEF ManagerShape, M!Idle, Step, M!QueueDelegatedWork, M!At, M!To
    <3> QED BY <1>1, <2>1, <3>1 DEF ManagerShape
  <2>5. WorkShape'
    <3>1. (child \in [Action -> [status : Stage, made : {0, 1}, from : 0 .. MaxAttempts]])'
      <4>1. child \in [Action -> [status : Stage, made : {0, 1}, from : 0 .. MaxAttempts]]
        BY <1>1 DEF WorkShape
      <4>2. PICK n \in 0 .. MaxAttempts : child' = [child EXCEPT ![applying.action].from = n]
        <5> DEFINE n == IF child[applying.action].from = 0 THEN attempt.number ELSE child[applying.action].from
        <5>1. attempt.number \in 0 .. MaxAttempts
          BY <1>1 DEF ManagerShape, M!Attempts
        <5>2. n \in 0 .. MaxAttempts
          BY <4>1, <5>1, <2>3
        <5>3. child' = [child EXCEPT ![applying.action].from = n]
          BY <1>14 DEF M!QueueDelegatedWork, M!This
        <5> QED BY <5>2, <5>3
      <4>3. ASSUME NEW a \in Action PROVE child'[a] \in [status : Stage, made : {0, 1}, from : 0 .. MaxAttempts]
        BY <4>1, <4>2
      <4> QED BY <4>1, <4>2, <4>3
    <3> QED BY <1>1, <2>1, <3>1 DEF WorkShape
  <2>6. Applying'
    BY <1>1, <1>14 DEF Applying, M!Idle, M!QueueDelegatedWork, M!At, M!To
  <2>7. \A a \in Action : Begotten(a)'
    BY <1>1, <1>14 DEF Setups, Begotten, M!QueueDelegatedWork, M!At, M!To, M!This, M!managerState,
       M!companyState, M!spaces, M!Idle, M!KindOf, M!Settler, M!Attempts, M!Kind, Step, Stage, Releasing,
       ManagerShape, WorkShape, Requested, Applying
  <2>8. \A a \in Action : Resumed(a)'
    BY <1>1, <1>14, <2>3 DEF Resumed, M!QueueDelegatedWork
  <2>9. \A s \in M!Settler : Settles(s)'
    BY <1>1, <1>14, <2>1, <2>3 DEF Settles, M!Runs, M!Related, M!QueueDelegatedWork
  <2>10. \A n \in M!Attempts : Retained(n)'
    BY <1>1, <1>14, <2>1, <2>3 DEF Retained, M!Runs, M!Related, M!Keeps, M!KindOf, M!QueueDelegatedWork, M!At
  <2> QED BY <2>2, <2>4, <2>5, <2>6, <2>7, <2>8, <2>9, <2>10 DEF DelegationInv
<1>15. CASE M!CreateMilestone
  <2>1. UNCHANGED <<setup, attempt, broker, request, agent, child, callback, recorded, workspace,
        lock, settler>>
    BY <1>15 DEF M!CreateMilestone, M!spaces
  <2>2. /\ WorkShape'
        /\ Requested'
        /\ Recorded'
        /\ \A a \in Action : Begotten(a)'
        /\ \A a \in Action : Resumed(a)'
    BY <1>1, <2>1 DEF WorkShape, M!Attempts, Requested, M!Used, Recorded, M!Keeps, M!KindOf, Begotten, Resumed
  <2>3. applying \in [step : Step, action : Action] /\ applying.step = "milestone" /\
        attempt.running
   BY <1>1, <1>15 DEF M!CreateMilestone, M!At, M!Idle, ManagerShape, Applying
  <2>4. ManagerShape'
    <3>1. (applying = M!Idle \/ applying \in [step : Step, action : Action])'
      BY <1>1, <1>15 DEF ManagerShape, M!Idle, Step, M!CreateMilestone, M!At, M!To
    <3>2. (DOMAIN process = {"milestone", "bound", "run"})'
      BY <1>1, <1>15 DEF ManagerShape, M!CreateMilestone
    <3> QED BY <1>1, <2>1, <3>1, <3>2 DEF ManagerShape
  <2>5. Applying'
    BY <1>1, <1>15 DEF Applying, M!Idle, M!CreateMilestone, M!At, M!To
  <2>6. \A s \in M!Settler : Settles(s)'
    BY <1>1, <1>15, <2>1 DEF Settles, M!Runs, M!Related, M!CreateMilestone
  <2>7. \A n \in M!Attempts : Retained(n)'
    BY <1>1, <1>15, <2>1 DEF Retained, M!Runs, M!Related, M!Keeps, M!KindOf, M!CreateMilestone, M!At
  <2> QED BY <2>2, <2>4, <2>5, <2>6, <2>7 DEF DelegationInv
<1>16. CASE M!BindProcess
  <2>1. UNCHANGED <<setup, attempt, broker, request, agent, child, callback, recorded, workspace,
        lock, settler>>
    BY <1>16 DEF M!BindProcess, M!spaces
  <2>2. /\ WorkShape'
        /\ Requested'
        /\ Recorded'
        /\ \A a \in Action : Begotten(a)'
        /\ \A a \in Action : Resumed(a)'
    BY <1>1, <2>1 DEF WorkShape, M!Attempts, Requested, M!Used, Recorded, M!Keeps, M!KindOf, Begotten, Resumed
  <2>3. applying \in [step : Step, action : Action] /\ applying.step = "bind" /\ attempt.running
   BY <1>1, <1>16 DEF M!BindProcess, M!At, M!Idle, ManagerShape, Applying
  <2>4. ManagerShape'
    <3>1. (applying = M!Idle \/ applying \in [step : Step, action : Action])'
      BY <1>1, <1>16 DEF ManagerShape, M!Idle, Step, M!BindProcess, M!At, M!To
    <3>2. (DOMAIN process = {"milestone", "bound", "run"})'
      BY <1>1, <1>16 DEF ManagerShape, M!BindProcess
    <3> QED BY <1>1, <2>1, <3>1, <3>2 DEF ManagerShape
  <2>5. Applying'
    BY <1>1, <1>16 DEF Applying, M!Idle, M!BindProcess, M!At, M!To
  <2>6. \A s \in M!Settler : Settles(s)'
    BY <1>1, <1>16, <2>1, <2>3 DEF Settles, M!Runs, M!Related, M!BindProcess
  <2>7. \A n \in M!Attempts : Retained(n)'
    BY <1>1, <1>16, <2>1, <2>3 DEF Retained, M!Runs, M!Related, M!Keeps, M!KindOf, M!BindProcess, M!At
  <2> QED BY <2>2, <2>4, <2>5, <2>6, <2>7 DEF DelegationInv
<1>17. CASE M!StartProcessRun
  <2>1. UNCHANGED <<setup, attempt, broker, request, agent, child, callback, recorded, workspace,
        lock, settler>>
    BY <1>17 DEF M!StartProcessRun, M!spaces
  <2>2. /\ WorkShape'
        /\ Requested'
        /\ Recorded'
        /\ \A a \in Action : Begotten(a)'
        /\ \A a \in Action : Resumed(a)'
    BY <1>1, <2>1 DEF WorkShape, M!Attempts, Requested, M!Used, Recorded, M!Keeps, M!KindOf, Begotten, Resumed
  <2>3. applying \in [step : Step, action : Action] /\ applying.step = "start" /\ attempt.running
   BY <1>1, <1>17 DEF M!StartProcessRun, M!At, M!Idle, ManagerShape, Applying
  <2>4. ManagerShape'
    <3>1. (applying = M!Idle \/ applying \in [step : Step, action : Action])'
      BY <1>1, <1>17 DEF ManagerShape, M!Idle, Step, M!StartProcessRun, M!At, M!To
    <3>2. (DOMAIN process = {"milestone", "bound", "run"})'
      BY <1>1, <1>17 DEF ManagerShape, M!StartProcessRun
    <3> QED BY <1>1, <2>1, <3>1, <3>2 DEF ManagerShape
  <2>5. Applying'
    BY <1>1, <1>17 DEF Applying, M!Idle, M!StartProcessRun, M!At, M!To
  <2>6. \A s \in M!Settler : Settles(s)'
    BY <1>1, <1>17, <2>1 DEF Settles, M!Runs, M!Related, M!StartProcessRun
  <2>7. \A n \in M!Attempts : Retained(n)'
    BY <1>1, <1>17, <2>1 DEF Retained, M!Runs, M!Related, M!Keeps, M!KindOf, M!StartProcessRun, M!At
  <2> QED BY <2>2, <2>4, <2>5, <2>6, <2>7 DEF DelegationInv
<1>18. CASE M!RecordCompanyAction
  <2>1. UNCHANGED <<setup, broker, agent, child, callback, process, workspace, lock, settler>>
    BY <1>18 DEF M!RecordCompanyAction, M!spaces
  <2>2. WorkShape'
    BY <1>1, <2>1 DEF WorkShape
  <2>3. applying \in [step : Step, action : Action] /\ applying.step = "record" /\ attempt.running
   BY <1>1, <1>18 DEF M!RecordCompanyAction, M!At, M!Idle, ManagerShape, Applying
  <2>4. ManagerShape'
    <3>1. (attempt \in [number : M!Attempts, running : BOOLEAN, ok : BOOLEAN, kept : BOOLEAN, succeeded : BOOLEAN])'
      BY <1>1, <1>18, <2>3 DEF ManagerShape, M!RecordCompanyAction
    <3>2. (request \in [Action -> {"none", "queued", "applied"}])'
      BY <1>1, <1>18 DEF ManagerShape, M!RecordCompanyAction, M!Idle, M!At, M!This
    <3>3. (applying = M!Idle \/ applying \in [step : Step, action : Action])'
      BY <1>18 DEF M!RecordCompanyAction
    <3> QED BY <1>1, <2>1, <3>1, <3>2, <3>3 DEF ManagerShape
  <2>5. Requested'
    BY <1>1, <1>18 DEF Requested, M!Used, M!RecordCompanyAction
  <2>6. Applying'
    BY <1>18 DEF Applying, M!RecordCompanyAction
  <2>7. Recorded'
    BY <1>1, <1>18, <2>1, <2>3 DEF Setups, Recorded, M!Keeps, M!KindOf, M!RecordCompanyAction, M!Settler,
       M!Attempts, Step, ManagerShape, WorkShape, Requested
  <2>8. \A a \in Action : Begotten(a)'
    BY <1>1, <1>18 DEF Begotten, M!RecordCompanyAction
  <2>9. \A a \in Action : Resumed(a)'
    BY <1>1, <2>1, <2>3 DEF Resumed
  <2>10. \A s \in M!Settler : Settles(s)'
    BY <1>1, <1>18, <2>1 DEF Settles, M!Runs, M!Related, M!RecordCompanyAction, M!Idle
  <2>11. \A n \in M!Attempts : Retained(n)'
    BY <1>1, <1>18, <2>1, <2>3 DEF Retained, M!Runs, M!Related, M!Keeps, M!KindOf, M!RecordCompanyAction,
       M!Idle
  <2> QED BY <2>2, <2>4, <2>5, <2>6, <2>7, <2>8, <2>9, <2>10, <2>11 DEF DelegationInv
<1>19. ASSUME NEW x \in Action, M!ResumeManager(x) PROVE DelegationInv'
  <2>1. UNCHANGED <<setup, attempt, broker, request, applying, agent, child, process, recorded,
        workspace, settler>>
    BY <1>19 DEF M!ResumeManager, M!managerState, M!companyState
  <2>2. /\ ManagerShape'
        /\ Requested'
        /\ Applying'
        /\ Recorded'
        /\ \A a \in Action : Begotten(a)'
        /\ \A n \in M!Attempts : Retained(n)'
    BY <1>1, <2>1 DEF ManagerShape, M!Attempts, Requested, M!Used, Applying, Recorded, M!Keeps, M!KindOf,
       Begotten, Retained, M!Runs, M!Related
  <2>3. WorkShape'
    <3>1. (callback \in [Action -> [status : Turn, queued : {0, 1}]])'
      BY <1>1, <1>19 DEF WorkShape, Turn, M!ResumeManager
    <3>2. (lock \in [M!Attempts -> {"free", "worker", "recovery"} \cup Action])'
      BY <1>1, <1>19, <2>1 DEF WorkShape, M!Attempts, M!ResumeManager, M!Free, M!Busy
    <3> QED BY <1>1, <2>1, <3>1, <3>2 DEF WorkShape
  <2>4. \A a \in Action : Resumed(a)'
    BY <1>1, <1>19, <2>1 DEF Setups, Resumed, M!ResumeManager, M!Free, M!Busy, M!Settler, M!Attempts,
       WorkShape, Requested
  <2>5. \A s \in M!Settler : Settles(s)'
    BY <1>1, <1>19, <2>1 DEF Settles, M!Runs, M!Related, M!ResumeManager, M!Free, M!Settler, M!Attempts
  <2> QED BY <2>2, <2>3, <2>4, <2>5 DEF DelegationInv
<1>20. ASSUME NEW x \in Action, M!ResumeFails(x) PROVE DelegationInv'
  <2>1. UNCHANGED <<setup, attempt, broker, request, applying, agent, child, process, recorded,
        workspace, lock, settler>>
    BY <1>20 DEF M!ResumeFails, M!managerState, M!companyState, M!spaces
  <2>2. /\ ManagerShape'
        /\ Requested'
        /\ Applying'
        /\ Recorded'
        /\ \A a \in Action : Begotten(a)'
        /\ \A s \in M!Settler : Settles(s)'
        /\ \A n \in M!Attempts : Retained(n)'
    BY <1>1, <2>1 DEF ManagerShape, M!Attempts, Requested, M!Used, Applying, Recorded, M!Keeps, M!KindOf,
       Begotten, Settles, M!Runs, M!Related, Retained
  <2>3. WorkShape'
    <3>1. (callback \in [Action -> [status : Turn, queued : {0, 1}]])'
      <4>1. callback \in [Action -> [status : Turn, queued : {0, 1}]]
        BY <1>1 DEF WorkShape
      <4>2. callback' = [callback EXCEPT ![x].status = "done"]
        BY <1>20 DEF M!ResumeFails
      <4> QED BY <4>1, <4>2 DEF Turn
    <3> QED BY <1>1, <2>1, <3>1 DEF WorkShape
  <2>4. \A a \in Action : Resumed(a)'
    BY <1>1, <1>20 DEF Resumed, M!ResumeFails, M!Busy
  <2> QED BY <2>2, <2>3, <2>4 DEF DelegationInv
<1>21. ASSUME NEW x \in Action, M!EndCallback(x) PROVE DelegationInv'
  <2>1. UNCHANGED <<setup, attempt, broker, request, applying, agent, child, process, recorded,
        workspace, settler>>
    BY <1>21 DEF M!EndCallback, M!managerState, M!companyState
  <2>2. /\ ManagerShape'
        /\ Requested'
        /\ Applying'
        /\ Recorded'
        /\ \A a \in Action : Begotten(a)'
        /\ \A n \in M!Attempts : Retained(n)'
    BY <1>1, <2>1 DEF ManagerShape, M!Attempts, Requested, M!Used, Applying, Recorded, M!Keeps, M!KindOf,
       Begotten, Retained, M!Runs, M!Related
  <2>3. WorkShape'
    <3>1. (callback \in [Action -> [status : Turn, queued : {0, 1}]])'
      BY <1>1, <1>21, <2>1 DEF WorkShape, Turn, M!EndCallback, M!Attempts, M!Free, ManagerShape
    <3>2. (lock \in [M!Attempts -> {"free", "worker", "recovery"} \cup Action])'
      BY <1>1, <1>21 DEF WorkShape, M!EndCallback, M!Free
    <3> QED BY <1>1, <2>1, <3>1, <3>2 DEF WorkShape
  <2>4. \A a \in Action : Resumed(a)'
    BY <1>1, <1>21, <2>1 DEF Setups, Resumed, M!EndCallback, M!Attempts, M!Free, WorkShape
  <2>5. \A s \in M!Settler : Settles(s)'
    BY <1>1, <1>21, <2>1 DEF Setups, Settles, M!Runs, M!Related, M!EndCallback, M!Settler, M!Terminal,
       Resting, Calling, Releasing, ManagerShape, WorkShape, Requested
  <2> QED BY <2>2, <2>3, <2>4, <2>5 DEF DelegationInv
<1>22. ASSUME NEW x \in Action, M!LoseCallback(x) PROVE DelegationInv'
  <2>1. UNCHANGED <<setup, attempt, broker, request, applying, agent, child, process, recorded,
        workspace, lock, settler>>
    BY <1>22 DEF M!LoseCallback, M!managerState, M!companyState, M!spaces
  <2>2. /\ ManagerShape'
        /\ Requested'
        /\ Applying'
        /\ Recorded'
        /\ \A a \in Action : Begotten(a)'
        /\ \A s \in M!Settler : Settles(s)'
        /\ \A n \in M!Attempts : Retained(n)'
    BY <1>1, <2>1 DEF ManagerShape, M!Attempts, Requested, M!Used, Applying, Recorded, M!Keeps, M!KindOf,
       Begotten, Settles, M!Runs, M!Related, Retained
  <2>3. WorkShape'
    <3>1. (callback \in [Action -> [status : Turn, queued : {0, 1}]])'
      BY <1>1, <1>22 DEF WorkShape, Turn, M!LoseCallback
    <3> QED BY <1>1, <2>1, <3>1 DEF WorkShape
  <2>4. \A a \in Action : Resumed(a)'
    BY <1>1, <1>22, <2>1 DEF Resumed, M!LoseCallback
  <2> QED BY <2>2, <2>3, <2>4 DEF DelegationInv
<1>23. ASSUME NEW x \in Action, NEW outcome \in M!Terminal, M!EndChild(x, outcome) PROVE
      DelegationInv'
  <2>1. UNCHANGED <<setup, attempt, broker, request, applying, agent, callback, process, recorded,
        workspace, lock, settler>>
    BY <1>23 DEF M!EndChild, M!managerState, M!companyState, M!spaces
  <2>2. /\ ManagerShape'
        /\ Requested'
        /\ Recorded'
    BY <1>1, <2>1 DEF ManagerShape, Requested, M!Used, Recorded, M!Keeps, M!KindOf
  <2>3. WorkShape'
    <3>1. (child \in [Action -> [status : Stage, made : {0, 1}, from : 0 .. MaxAttempts]])'
      <4>1. child \in [Action -> [status : Stage, made : {0, 1}, from : 0 .. MaxAttempts]]
        BY <1>1 DEF WorkShape
      <4>2. child' = [child EXCEPT ![x].status = outcome] /\ outcome \in Stage
        BY <1>23 DEF M!EndChild, Stage
      <4> QED BY <4>1, <4>2
    <3> QED BY <1>1, <2>1, <3>1 DEF WorkShape
  <2>4. Applying'
    BY <1>1, <1>23, <2>1 DEF Applying, M!EndChild
  <2>5. \A a \in Action : Begotten(a)'
    BY <1>1, <1>23, <2>1 DEF Begotten, M!EndChild
  <2>6. \A a \in Action : Resumed(a)'
    BY <1>1, <1>23, <2>1 DEF Resumed, M!EndChild
  <2>7. \A s \in M!Settler : Settles(s)'
    BY <1>1, <1>23, <2>1 DEF Settles, M!Runs, M!Related, M!EndChild
  <2>8. \A n \in M!Attempts : Retained(n)'
    BY <1>1, <1>23, <2>1 DEF Retained, M!Runs, M!Related, M!Keeps, M!KindOf, M!EndChild
  <2> QED BY <2>2, <2>3, <2>4, <2>5, <2>6, <2>7, <2>8 DEF DelegationInv
<1>24. ASSUME NEW t \in M!Settler, NEW x \in Action, M!BeginCallback(t, x) PROVE DelegationInv'
  <2>1. UNCHANGED <<setup, attempt, broker, request, applying, agent, child, callback, process,
        recorded, workspace, lock>>
    BY <1>24 DEF M!BeginCallback, M!managerState, M!companyState, M!spaces
  <2>2. /\ ManagerShape'
        /\ Requested'
        /\ Applying'
        /\ Recorded'
        /\ \A a \in Action : Begotten(a)'
        /\ \A a \in Action : Resumed(a)'
        /\ \A n \in M!Attempts : Retained(n)'
    BY <1>1, <2>1 DEF ManagerShape, M!Attempts, Requested, M!Used, Applying, Recorded, M!Keeps, M!KindOf,
       Begotten, Resumed, Retained, M!Runs, M!Related
  <2>3. WorkShape'
    BY <1>1, <1>24, <2>1 DEF Setups, WorkShape, M!Attempts, Resting, Calling, Releasing, M!BeginCallback,
       M!Resting, M!Move
  <2>4. \A s \in M!Settler : Settles(s)'
    BY <1>1, <1>24, <2>1 DEF Settles, M!Runs, M!Related, M!BeginCallback, M!Move, M!Settler
  <2> QED BY <2>2, <2>3, <2>4 DEF DelegationInv
<1>25. ASSUME NEW t \in M!Settler, M!CreateCallbackWork(t) PROVE DelegationInv'
  <2>1. UNCHANGED <<setup, attempt, broker, request, applying, agent, child, process, recorded,
        workspace, lock>>
    BY <1>25 DEF M!CreateCallbackWork, M!managerState, M!companyState, M!spaces
  <2>2. /\ ManagerShape'
        /\ Requested'
        /\ Applying'
        /\ Recorded'
        /\ \A a \in Action : Begotten(a)'
        /\ \A n \in M!Attempts : Retained(n)'
    BY <1>1, <2>1 DEF ManagerShape, M!Attempts, Requested, M!Used, Applying, Recorded, M!Keeps, M!KindOf,
       Begotten, Retained, M!Runs, M!Related
  <2>3. settler[t] \in Calling /\ settler[t].pc = "create"
   BY <1>1, <1>25 DEF M!CreateCallbackWork, WorkShape, Resting, Releasing
  <2>4. WorkShape'
    <3>1. (callback \in [Action -> [status : Turn, queued : {0, 1}]])'
      <4>1. callback \in [Action -> [status : Turn, queued : {0, 1}]]
        BY <1>1 DEF WorkShape
      <4>2. PICK v \in Turn : callback' = [callback EXCEPT ![settler[t].action].status = v]
        <5> DEFINE v == IF callback[settler[t].action].status = "none" THEN "ready"
                        ELSE callback[settler[t].action].status
        <5>1. v \in Turn
          BY <4>1, <2>3 DEF Calling, Turn
        <5>2. callback' = [callback EXCEPT ![settler[t].action].status = v]
          BY <1>25 DEF M!CreateCallbackWork
        <5> QED BY <5>1, <5>2
      <4> QED BY <4>1, <4>2
    <3>2. (settler \in [M!Settler -> Resting \cup Calling \cup Releasing])'
      BY <1>1, <1>25, <2>1, <2>3 DEF WorkShape, M!Settler, Resting, Calling, Releasing, M!CreateCallbackWork,
         M!Move
    <3> QED BY <1>1, <2>1, <3>1, <3>2 DEF WorkShape
  <2>5. \A a \in Action : Resumed(a)'
    BY <1>1, <1>25, <2>1 DEF Setups, Resumed, M!CreateCallbackWork, M!Move, Settles, Retained
  <2>6. \A s \in M!Settler : Settles(s)'
    BY <1>1, <1>25, <2>1 DEF Settles, M!Runs, M!Related, M!CreateCallbackWork, M!Move, M!Settler, M!Attempts
  <2> QED BY <2>2, <2>4, <2>5, <2>6 DEF DelegationInv
<1>26. ASSUME NEW t \in M!Settler, M!EnqueueCallback(t) PROVE DelegationInv'
  <2>1. UNCHANGED <<setup, attempt, broker, request, applying, agent, child, process, recorded,
        workspace, lock>>
    BY <1>26 DEF M!EnqueueCallback, M!managerState, M!companyState, M!spaces
  <2>2. /\ ManagerShape'
        /\ Requested'
        /\ Applying'
        /\ Recorded'
        /\ \A a \in Action : Begotten(a)'
        /\ \A n \in M!Attempts : Retained(n)'
    BY <1>1, <2>1 DEF ManagerShape, M!Attempts, Requested, M!Used, Applying, Recorded, M!Keeps, M!KindOf,
       Begotten, Retained, M!Runs, M!Related
  <2>3. settler[t] \in Calling /\ settler[t].pc = "enqueue"
   BY <1>1, <1>26 DEF M!EnqueueCallback, WorkShape, Resting, Releasing
  <2>4. WorkShape'
    <3>1. (callback \in [Action -> [status : Turn, queued : {0, 1}]])'
      <4>1. callback \in [Action -> [status : Turn, queued : {0, 1}]]
        BY <1>1 DEF WorkShape
      <4>2. PICK v \in {0, 1} : callback' = [callback EXCEPT ![settler[t].action].queued = v]
        <5> DEFINE v == IF callback[settler[t].action].queued = 0 THEN 1 ELSE callback[settler[t].action].queued
        <5>1. v \in {0, 1}
          BY <4>1, <2>3 DEF Calling
        <5>2. callback' = [callback EXCEPT ![settler[t].action].queued = v]
          BY <1>26 DEF M!EnqueueCallback
        <5> QED BY <5>1, <5>2
      <4> QED BY <4>1, <4>2
    <3>2. (settler \in [M!Settler -> Resting \cup Calling \cup Releasing])'
      BY <1>1, <1>26 DEF WorkShape, Resting, M!EnqueueCallback, M!Move
    <3> QED BY <1>1, <2>1, <3>1, <3>2 DEF WorkShape
  <2>5. \A a \in Action : Resumed(a)'
    BY <1>1, <1>26, <2>1 DEF Resumed, M!EnqueueCallback
  <2>6. \A s \in M!Settler : Settles(s)'
    BY <1>1, <1>26, <2>1 DEF Settles, M!Runs, M!Related, M!EnqueueCallback, M!Move, M!Settler, M!Attempts
  <2> QED BY <2>2, <2>4, <2>5, <2>6 DEF DelegationInv
<1>27. ASSUME NEW t \in M!Settler, NEW m \in M!Attempts, M!BeginRelease(t, m) PROVE DelegationInv'
  <2>1. UNCHANGED <<setup, attempt, broker, request, applying, agent, child, callback, process,
        recorded, workspace>>
    BY <1>27 DEF M!BeginRelease, M!managerState, M!companyState
  <2>2. /\ ManagerShape'
        /\ Requested'
        /\ Applying'
        /\ Recorded'
        /\ \A a \in Action : Begotten(a)'
        /\ \A n \in M!Attempts : Retained(n)'
    BY <1>1, <2>1 DEF ManagerShape, M!Attempts, Requested, M!Used, Applying, Recorded, M!Keeps, M!KindOf,
       Begotten, Retained, M!Runs, M!Related
  <2>3. WorkShape'
    BY <1>1, <1>27, <2>1 DEF Setups, WorkShape, M!Attempts, M!Settler, M!Terminal, Releasing, M!BeginRelease,
       M!Free, M!Runs, M!Resting, M!Move
  <2>4. \A a \in Action : Resumed(a)'
    BY <1>1, <1>27, <2>1 DEF Setups, Resumed, M!BeginRelease, M!Free
  <2>5. \A s \in M!Settler : Settles(s)'
    BY <1>1, <1>27, <2>1 DEF Setups, Settles, M!Runs, M!Related, M!BeginRelease, M!Free, M!Resting, M!Move,
       M!Settler, Calling, Releasing, ManagerShape, WorkShape, Requested, Applying, Recorded, Begotten, Resumed
  <2> QED BY <2>2, <2>3, <2>4, <2>5 DEF DelegationInv
<1>28. ASSUME NEW t \in M!Settler, M!ScanRelated(t) PROVE DelegationInv'
  <2>1. UNCHANGED <<setup, attempt, broker, request, applying, agent, child, callback, process,
        recorded, workspace>>
    BY <1>28 DEF M!ScanRelated, M!managerState, M!companyState
  <2>2. /\ ManagerShape'
        /\ Requested'
        /\ Applying'
        /\ Recorded'
        /\ \A a \in Action : Begotten(a)'
        /\ \A n \in M!Attempts : Retained(n)'
    BY <1>1, <2>1 DEF ManagerShape, M!Attempts, Requested, M!Used, Applying, Recorded, M!Keeps, M!KindOf,
       Begotten, Retained, M!Runs, M!Related
  <2>3. settler[t] \in Releasing /\ settler[t].pc = "scan"
   BY <1>1, <1>28 DEF M!ScanRelated, WorkShape, Resting, Calling
  <2>4. WorkShape'
    <3>1. (lock \in [M!Attempts -> {"free", "worker", "recovery"} \cup Action])'
      BY <1>1, <1>28 DEF WorkShape, M!ScanRelated, M!Free
    <3>2. (settler \in [M!Settler -> Resting \cup Calling \cup Releasing])'
      <4>1. settler \in [M!Settler -> Resting \cup Calling \cup Releasing]
        BY <1>1 DEF WorkShape
      <4>2. [settler[t] EXCEPT !.pc = "release"] \in Releasing
        BY <2>3 DEF Releasing
      <4>3. [pc |-> "idle"] \in Resting
        BY DEF Resting
      <4>4. \E v \in Resting \cup Releasing : settler' = [settler EXCEPT ![t] = v]
        BY <4>2, <4>3, <1>28 DEF M!ScanRelated, M!Move
      <4> QED BY <4>1, <4>4
    <3> QED BY <1>1, <2>1, <3>1, <3>2 DEF WorkShape
  <2>5. \A a \in Action : Resumed(a)'
    BY <1>1, <1>28, <2>1, <2>3 DEF Setups, Resumed, M!ScanRelated, M!Free, M!Move, M!Settler, M!Attempts,
       Resting, WorkShape, Requested, Applying, Recorded, Begotten, Settles
  <2>6. \A s \in M!Settler : Settles(s)'
    <3>1. ASSUME NEW s \in M!Settler, s # t PROVE Settles(s)'
      <4>1. settler'[s] = settler[s]
        BY <1>1, <1>28, <3>1 DEF M!ScanRelated, M!Move, WorkShape
      <4>2. settler[s].pc \in {"scan", "release"} => settler[s].workspace # settler[t].workspace
        BY <1>1, <1>28, <3>1 DEF M!ScanRelated, Settles
      <4>3. settler[s].pc \in {"scan", "release"} => lock'[settler[s].workspace] = lock[settler[s].workspace]
        <5>1. settler[s].pc \in {"scan", "release"} => settler[s].workspace \in M!Attempts
          BY <1>1 DEF WorkShape, Resting, Calling, Releasing
        <5>2. lock' = lock \/ lock' = [lock EXCEPT ![settler[t].workspace] = M!Free]
          BY <1>28 DEF M!ScanRelated
        <5> QED BY <1>1, <4>2, <5>1, <5>2 DEF WorkShape
      <4> QED BY <1>1, <2>1, <4>1, <4>3 DEF Settles, M!Runs, M!Related
    <3>2. Settles(t)'
      <4>1. CASE M!Over(settler[t].workspace)
        <5>1. settler'[t] = [settler[t] EXCEPT !.pc = "release"] /\ lock' = lock
          BY <1>1, <1>28, <4>1 DEF M!ScanRelated, M!Move, WorkShape
        <5>2. /\ settler'[t].pc = "release" /\ settler'[t].workspace = settler[t].workspace
              /\ settler'[t].under = settler[t].under
          BY <5>1
        <5> QED BY <1>1, <2>1, <2>3, <4>1, <5>1 DEF Settles, M!Over, M!Runs, M!Related
      <4>2. CASE ~M!Over(settler[t].workspace)
        <5>1. settler'[t] = [pc |-> "idle"]
          BY <1>1, <1>28, <4>2 DEF M!ScanRelated, M!Move, WorkShape
        <5> QED BY <5>1 DEF Settles
      <4> QED BY <4>1, <4>2
    <3> QED BY <3>1, <3>2
  <2> QED BY <2>2, <2>4, <2>5, <2>6 DEF DelegationInv
<1>29. ASSUME NEW t \in M!Settler, M!ReleaseWorkspace(t) PROVE DelegationInv'
  <2>1. UNCHANGED <<setup, attempt, broker, request, applying, agent, child, callback, process,
        recorded>>
    BY <1>29 DEF M!ReleaseWorkspace, M!managerState, M!companyState
  <2>2. /\ ManagerShape'
        /\ Requested'
        /\ Applying'
        /\ Recorded'
        /\ \A a \in Action : Begotten(a)'
    BY <1>1, <2>1 DEF ManagerShape, Requested, M!Used, Applying, Recorded, M!Keeps, M!KindOf, Begotten
  <2>3. settler[t] \in Releasing /\ settler[t].pc = "release"
   BY <1>1, <1>29 DEF M!ReleaseWorkspace, WorkShape, Resting, Calling
  <2>4. WorkShape'
    <3>1. (workspace \in [M!Attempts -> Space])'
      BY <1>1, <1>29, <2>1, <2>3 DEF WorkShape, M!Attempts, Space, M!ReleaseWorkspace, M!Free, M!Move
    <3>2. (lock \in [M!Attempts -> {"free", "worker", "recovery"} \cup Action])'
      BY <1>1, <1>29, <2>1, <2>3 DEF WorkShape, M!Attempts, M!ReleaseWorkspace, M!Free, M!Move
    <3>3. (settler \in [M!Settler -> Resting \cup Calling \cup Releasing])'
      BY <1>1, <1>29 DEF WorkShape, Resting, M!ReleaseWorkspace, M!Move
    <3> QED BY <1>1, <2>1, <3>1, <3>2, <3>3 DEF WorkShape
  <2>5. \A a \in Action : Resumed(a)'
    BY <1>1, <1>29, <2>1, <2>3 DEF Setups, Resumed, M!ReleaseWorkspace, M!Free, M!Move, M!Settler, Begotten,
       Settles
  <2>6. \A s \in M!Settler : Settles(s)'
    BY <1>1, <1>29, <2>1 DEF Setups, Settles, M!Runs, M!Related, M!ReleaseWorkspace, M!Free, M!Move,
       M!Settler, WorkShape, Requested, Applying
  <2>7. \A n \in M!Attempts : Retained(n)'
    BY <1>1, <1>29, <2>1 DEF Retained, M!Runs, M!Related, M!Keeps, M!KindOf, M!ReleaseWorkspace, M!Free,
       Begotten, Resumed, Settles
  <2> QED BY <2>2, <2>4, <2>5, <2>6, <2>7 DEF DelegationInv
<1>30. ASSUME NEW t \in M!Settler, M!Die(t) PROVE DelegationInv'
  <2>1. UNCHANGED <<setup, attempt, broker, request, applying, agent, child, callback, process,
        recorded, workspace, lock>>
    BY <1>30 DEF M!Die, M!managerState, M!companyState, M!spaces
  <2>2. /\ ManagerShape'
        /\ Requested'
        /\ Applying'
        /\ Recorded'
        /\ \A a \in Action : Begotten(a)'
        /\ \A a \in Action : Resumed(a)'
        /\ \A n \in M!Attempts : Retained(n)'
    BY <1>1, <2>1 DEF ManagerShape, M!Attempts, Requested, M!Used, Applying, Recorded, M!Keeps, M!KindOf,
       Begotten, Resumed, Retained, M!Runs, M!Related
  <2>3. WorkShape'
    BY <1>1, <1>30, <2>1 DEF Setups, WorkShape, M!Attempts, Resting, Calling, Releasing, M!Die, M!Resting,
       M!Move
  <2>4. \A s \in M!Settler : Settles(s)'
    BY <1>1, <1>30, <2>1 DEF Settles, M!Runs, M!Related, M!Die, M!Move, M!Settler, M!Attempts
  <2> QED BY <2>2, <2>3, <2>4 DEF DelegationInv
<1>31. ASSUME NEW m \in M!Attempts, M!ExpireLock(m) PROVE DelegationInv'
  <2>1. UNCHANGED <<setup, attempt, broker, request, applying, agent, child, callback, process,
        recorded, workspace, settler>>
    BY <1>31 DEF M!ExpireLock, M!managerState, M!companyState
  <2>2. /\ ManagerShape'
        /\ Requested'
        /\ Applying'
        /\ Recorded'
        /\ \A a \in Action : Begotten(a)'
        /\ \A n \in M!Attempts : Retained(n)'
    BY <1>1, <2>1 DEF ManagerShape, M!Attempts, Requested, M!Used, Applying, Recorded, M!Keeps, M!KindOf,
       Begotten, Retained, M!Runs, M!Related
  <2>3. WorkShape'
    BY <1>1, <1>31, <2>1 DEF Setups, WorkShape, M!Attempts, Releasing, M!ExpireLock, M!Free
  <2>4. \A a \in Action : Resumed(a)'
    BY <1>1, <1>31, <2>1 DEF Setups, Resumed, M!ExpireLock, M!Settler
  <2>5. \A s \in M!Settler : Settles(s)'
    BY <1>1, <1>31, <2>1 DEF Settles, M!Runs, M!Related, M!ExpireLock
  <2> QED BY <2>2, <2>3, <2>4, <2>5 DEF DelegationInv
<1> QED BY <1>2, <1>3, <1>4, <1>5, <1>6, <1>7, <1>8, <1>9, <1>10, <1>11, <1>12, <1>13, <1>14, <1>15,
       <1>16, <1>17, <1>18, <1>19, <1>20, <1>21, <1>22, <1>23, <1>24, <1>25, <1>26, <1>27, <1>28,
       <1>29, <1>30, <1>31 DEF M!Next, M!Manager, M!Children, M!Settle

\* A delegation has one child and one callback, and its manager's workspace is kept for them (Delegation).
THEOREM DelegationsKept == Setups => (M!Spec => []M!DelegationKept)
<1>1. Setups /\ DelegationInv => M!DelegationKept
  BY DEF Setups, DelegationInv, WorkShape, Begotten, Resumed, Retained, M!DelegationKept
<1>2. SUFFICES ASSUME Setups PROVE M!Spec => []M!DelegationKept
  OBVIOUS
<1> QED BY <1>1, <1>2, DelegationBegins, DelegationKeeps, PTL DEF M!Spec
=============================================================================
