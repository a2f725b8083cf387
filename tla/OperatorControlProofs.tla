------------------------- MODULE OperatorControlProofs -------------------------
(***************************************************************************)
(* Proofs about OperatorControl: type correctness for every number of      *)
(* workers, steps, workflows and versions; the order of the steps and the  *)
(* finality of completed items as long as no tick outlives its lease; and, *)
(* for a process without a schedule, that a completed run is done.         *)
(***************************************************************************)
EXTENDS OperatorControl, TLAPS

-----------------------------------------------------------------------------
(* Type correctness.                                                       *)

TickingPC == TickPC \ {"unwind"}
Deciding == {"load", "bump", "mark", "effect", "block", "settle", "execute", "await"}
Sited == {"list", "promote", "propose", "load", "bump", "mark", "effect", "block", "settle",
          "execute", "await", "queue", "finalize", "review"}

\* A tick is entered only for a workflow the run points to.
Begun == \A w \in Worker : worker[w].pc \in TickingPC => run.flow # 0
\* Where a worker stands, it knows its workflow and the decision it is applying.
Placed == \A w \in Worker :
  /\ worker[w].pc \in Sited => worker[w].flow # 0
  /\ worker[w].pc \in Deciding => worker[w].seq <= LastVersion /\ ~Free(worker[w].seq)
\* The command that has passed its insert finds the start decision of its workflow.
StarterFit ==
  /\ starter.pc # "idle" => starter.flow # 0
  /\ starter.pc \in {"load", "bump", "mark"} => StartsOf(starter.flow) # {}

TypeInv == TypeOK /\ Begun /\ Placed /\ StarterFit

RunType == [status: RunStatus, version: 0 .. LastVersion, flow: 0 .. LastFlow,
            wakeAt: {"none", "later", "due"}]
DecisionType == [action: Action \union {"none"}, target: Step \union {Review},
                 flow: 0 .. LastFlow, status: {"none", "proposed", "applied"}]
ItemType == [status: ItemStatus, tries: 0 .. MaxAttempts]
WorkerType == [pc: PC, wake: Key, tries: 0 .. Tries, ver: 0 .. LastVersion,
               flow: 0 .. LastFlow, snap: SUBSET (Step \union {Review}),
               seq: 1 .. LastVersion + 1, plan: Action \X (Step \union {Review})]
LeaseType == [holder: Worker \union {NoWorker}, expired: BOOLEAN]
StarterType == [pc: StarterPC, flow: 0 .. LastFlow, ver: 0 .. LastVersion]

\* The bounds are positive numbers.
LEMMA Bounds ==
  LastFlow \in Nat \ {0} /\ LastVersion \in Nat \ {0} /\ MaxAttempts \in Nat \ {0} /\ Tries \in Nat \ {0}
BY BoundsAssumption

USE Bounds DEF Flow

\* A lease is free or held by a worker.
LEMMA LeaseTyped ==
  /\ [holder |-> NoWorker, expired |-> FALSE] \in LeaseType
  /\ \A w \in Worker : [holder |-> w, expired |-> FALSE] \in LeaseType
BY DEF LeaseType

\* The values the initial state is built from are of their types.
LEMMA AtRestTyped == AtRest \in WorkerType /\ NoDecision \in DecisionType
BY DEF AtRest, WorkerType, NoDecision, DecisionType, PC, TickPC, Key, Action

\* The initial state is well typed.
LEMMA TypeInit == Init => TypeInv
BY AtRestTyped DEF Init, TypeInv, TypeOK, Begun, Placed, StarterFit, AtRest, NoDecision,
   DecisionType, WorkerType, RunStatus, ItemStatus, WakeStatus, TickingPC, TickPC, Sited,
   Deciding, StarterPC, StartsOf, Free

\* No step takes a decision back: its action, target and workflow stay.
DecisionsKept ==
  \A n \in 1 .. LastVersion : decision[n] # NoDecision =>
    /\ decision'[n] # NoDecision
    /\ decision'[n].action = decision[n].action /\ decision'[n].target = decision[n].target
    /\ decision'[n].flow = decision[n].flow

\* A step that moves worker w alone and leaves the command where it is.
LEMMA WorkerMoves ==
  ASSUME TypeInv, NEW w \in Worker, NEW to \in WorkerType,
         worker' = [worker EXCEPT ![w] = to], starter' = starter, DecisionsKept,
         run'.flow = run.flow \/ run'.flow # 0,
         to.pc \in TickingPC => run'.flow # 0,
         to.pc \in Sited => to.flow # 0,
         to.pc \in Deciding => to.seq <= LastVersion /\ decision'[to.seq] # NoDecision
  PROVE  worker' \in [Worker -> WorkerType] /\ Begun' /\ Placed' /\ StarterFit'
<1>1. worker \in [Worker -> WorkerType]
  BY DEF TypeInv, TypeOK, WorkerType
<1>2. worker' \in [Worker -> WorkerType]
  BY <1>1
<1>3. \A v \in Worker : worker'[v] = IF v = w THEN to ELSE worker[v]
  BY <1>1
<1>4. Begun'
  BY <1>3 DEF TypeInv, Begun
<1>5. Placed'
  <2>1. \A v \in Worker : worker[v].seq \in 1 .. LastVersion + 1
    BY <1>1 DEF WorkerType
  <2> QED BY <1>3, <2>1 DEF TypeInv, Placed, Free, DecisionsKept
<1>6. StarterFit'
  <2>1. \A n \in StartsOf(starter.flow) : n \in StartsOf(starter.flow)'
    BY DEF StartsOf, DecisionsKept, NoDecision
  <2> QED BY <2>1 DEF TypeInv, StarterFit
<1> QED BY <1>2, <1>4, <1>5, <1>6

\* A step that only moves the program counter of worker w.
LEMMA WorkerGoes ==
  ASSUME TypeInv, NEW w \in Worker, NEW pc \in PC, Goto(w, pc), starter' = starter,
         DecisionsKept, run'.flow = run.flow \/ run'.flow # 0,
         pc \in TickingPC => run'.flow # 0,
         pc \in Sited => worker[w].flow # 0,
         pc \in Deciding => worker[w].seq <= LastVersion /\ decision'[worker[w].seq] # NoDecision
  PROVE  worker' \in [Worker -> WorkerType] /\ Begun' /\ Placed' /\ StarterFit'
<1> DEFINE to == [worker[w] EXCEPT !.pc = pc]
<1>1. worker[w] \in WorkerType
  BY DEF TypeInv, TypeOK, WorkerType
<1>2. to \in WorkerType /\ to.pc = pc /\ to.flow = worker[w].flow /\ to.seq = worker[w].seq
  BY <1>1 DEF WorkerType
<1>3. worker' = [worker EXCEPT ![w] = to]
  BY DEF Goto
<1> HIDE DEF to
<1> QED BY <1>2, <1>3, WorkerMoves

Items == [Flow -> [Step \union {Review} -> ItemType]]

\* SetItem writes the status of one item and nothing else.
LEMMA ItemSet ==
  ASSUME item \in Items, NEW f, NEW s, NEW status \in ItemStatus, SetItem(f, s, status)
  PROVE  /\ item' \in Items
         /\ \A g \in Flow, x \in Step \union {Review} :
              item'[g][x] = IF g = f /\ x = s THEN [item[g][x] EXCEPT !.status = status]
                            ELSE item[g][x]
<1>1. \A g \in Flow : item'[g] = IF g = f THEN [item[g] EXCEPT ![s].status = status] ELSE item[g]
  BY DEF Items, SetItem
<1>2. ASSUME NEW g \in Flow, NEW x \in Step \union {Review}
      PROVE  /\ item'[g][x] = IF g = f /\ x = s THEN [item[g][x] EXCEPT !.status = status]
                              ELSE item[g][x]
             /\ item'[g][x] \in ItemType
  <2>1. item[g] \in [Step \union {Review} -> ItemType]
    BY DEF Items
  <2>2. [item[g][x] EXCEPT !.status = status] \in ItemType
    BY <2>1 DEF ItemType
  <2> QED BY ZenonT(30), <1>1, <2>1, <2>2
<1>3. ASSUME NEW g \in Flow
      PROVE  item'[g] \in [Step \union {Review} -> ItemType]
  <2>1. item[g] \in [Step \union {Review} -> ItemType]
    BY DEF Items
  <2>2. DOMAIN item'[g] = Step \union {Review} /\ item'[g] = [x \in DOMAIN item'[g] |-> item'[g][x]]
    BY <1>1, <2>1
  <2> QED BY <1>2, <2>2
<1>4. item' \in Items
  BY <1>3 DEF Items, SetItem
<1> QED BY <1>2, <1>4

\* The rows of the database and the command are well typed.
Rows ==
  /\ run \in RunType /\ lease \in LeaseType /\ starter \in StarterType
  /\ decision \in [1 .. LastVersion -> DecisionType] /\ wake \in [Key -> WakeStatus]
  /\ item \in Items
  /\ escalated \subseteq Flow /\ accepted \subseteq Flow

\* TypeOK speaks of the rows and of the workers.
LEMMA TypeParts == TypeOK <=> Rows /\ worker \in [Worker -> WorkerType]
BY DEF TypeOK, Rows, RunType, LeaseType, StarterType, DecisionType, Items, ItemType,
   WorkerType

\* The actions of a tick keep TypeInv.
LEMMA TickTyped ==
  ASSUME TypeInv, NEW w \in Worker, Tick(w)
  PROVE  TypeInv'
<1>0. Rows /\ worker \in [Worker -> WorkerType] /\ worker[w] \in WorkerType
  BY TypeParts DEF TypeInv
<1>t. SUFFICES Rows' /\ worker' \in [Worker -> WorkerType] /\ Begun' /\ Placed' /\ StarterFit'
  BY DEF TypeInv, TypeOK, Rows, RunType, LeaseType, StarterType, DecisionType, Items, ItemType,
     WorkerType
<1>f. /\ worker[w].pc \in TickingPC => run.flow # 0
      /\ worker[w].pc \in Sited => worker[w].flow # 0
      /\ worker[w].pc \in Deciding => worker[w].seq <= LastVersion /\ ~Free(worker[w].seq)
  BY DEF TypeInv, Begun, Placed
<1>k. decision' = decision => DecisionsKept
  BY DEF DecisionsKept
<1>e. DOMAIN decision = 1 .. LastVersion /\ \A n \in 1 .. LastVersion : decision[n] \in DecisionType
  BY <1>0 DEF Rows
<1>p. {"idle", "enter", "read", "list", "promote", "propose", "load", "bump", "mark", "effect", "block",
        "settle", "unwind", "execute", "finalize", "finish"} \subseteq PC
  BY DEF PC, TickPC
<1>g. \A pc \in {"idle", "enter", "unwind", "finish"} :
        pc \notin TickingPC /\ pc \notin Sited /\ pc \notin Deciding
  BY DEF TickingPC, TickPC, Sited, Deciding
<1> USE DEF At
<1>1. CASE Enter(w)
  <2>1. worker[w].wake[1] # 0
    BY <1>0 DEF WorkerType, Key
  <2>2. lease' \in LeaseType
    BY <1>0, <1>1, LeaseTyped DEF Enter, Rows
  <2>3. Rows'
    BY <1>0, <1>1, <2>2 DEF Enter, Rows
  <2> QED BY <1>0, <1>1, <1>f, <1>p, <1>k, <2>1, <2>3, WorkerGoes DEF Enter, Throw, TickingPC,
             TickPC, Sited, Deciding
<1>2. CASE ReadRun(w)
  <2>1. Rows'
    BY <1>0, <1>2, LeaseTyped DEF ReadRun, Rows
  <2>2. CASE run.status \in Ended
    BY <1>2, <1>f, <1>p, <1>k, <2>1, <2>2, WorkerGoes DEF ReadRun, TickingPC, TickPC, Sited,
       Deciding
  <2>3. CASE run.status \notin Ended
    <3> DEFINE to == [worker[w] EXCEPT !.pc = "list", !.seq = run.version + 1, !.flow = run.flow]
    <3>0. run.version + 1 \in 1 .. LastVersion + 1 /\ run.flow \in 0 .. LastFlow
      BY <1>0 DEF Rows, RunType
    <3>1. to \in WorkerType
      BY <1>0, <1>p, <3>0 DEF WorkerType
    <3>2. worker' = [worker EXCEPT ![w] = to]
      BY <1>2, <2>3 DEF ReadRun
    <3>3. to.pc = "list" /\ to.flow = run.flow
      BY <1>0 DEF WorkerType
    <3> HIDE DEF to
    <3> QED BY <1>2, <1>f, <1>p, <1>k, <2>1, <3>1, <3>2, <3>3, WorkerMoves DEF ReadRun,
               TickingPC, TickPC, Sited, Deciding
  <2> QED BY <2>2, <2>3
<1>3. CASE ListItems(w)
  <2> DEFINE to == [worker[w] EXCEPT !.pc = "promote",
                      !.snap = {s \in StepsOf(worker[w].flow) : Ripe(worker[w].flow, s)}]
  <2>1. to \in WorkerType /\ to.pc = "promote" /\ to.flow = worker[w].flow
    BY <1>0, <1>p DEF StepsOf, WorkerType
  <2>2. worker' = [worker EXCEPT ![w] = to]
    BY <1>3 DEF ListItems
  <2> HIDE DEF to
  <2> QED BY ZenonT(30), <1>0, <1>3, <1>f, <1>p, <1>k, <2>1, <2>2, WorkerMoves DEF ListItems, Rows,
             TickingPC, TickPC, Sited, Deciding
<1>4. ASSUME NEW s \in Step \union {Review}, Promote(w, s)
      PROVE  Rows' /\ worker' \in [Worker -> WorkerType] /\ Begun' /\ Placed' /\ StarterFit'
  <2> DEFINE to == [worker[w] EXCEPT !.snap = @ \ {s}]
  <2>1. to \in WorkerType /\ to.pc = "promote" /\ to.flow = worker[w].flow
    BY <1>0, <1>p, <1>4 DEF Promote, WorkerType
  <2>2. worker' = [worker EXCEPT ![w] = to]
    BY <1>4 DEF Promote
  <2>3. item' \in Items
    BY <1>0, <1>4, ItemSet DEF Promote, Rows, ItemStatus
  <2>4. Rows'
    BY <1>0, <1>4, <2>3 DEF Promote, Rows
  <2> HIDE DEF to
  <2> QED BY <1>4, <1>f, <1>p, <1>k, <2>1, <2>2, <2>4, WorkerMoves DEF Promote, TickingPC,
             TickPC, Sited, Deciding
<1>5. CASE Decide(w)
  <2>1. PICK c \in Choices(worker[w].flow) :
          worker' = [worker EXCEPT ![w].pc = "propose", ![w].plan = c]
    BY <1>5 DEF Decide
  <2>2. c \in Action \X (Step \union {Review})
    BY DEF Choices, StepsOf, Action
  <2> DEFINE to == [worker[w] EXCEPT !.pc = "propose", !.plan = c]
  <2>3. to \in WorkerType /\ to.pc = "propose" /\ to.flow = worker[w].flow
    BY <1>0, <1>p, <2>2 DEF WorkerType
  <2>4. worker' = [worker EXCEPT ![w] = to]
    BY <2>1
  <2> HIDE DEF to
  <2> QED BY <1>0, <1>5, <1>f, <1>p, <1>k, <2>3, <2>4, WorkerMoves DEF Decide, Rows, TickingPC,
             TickPC, Sited, Deciding
<1>6. CASE Propose(w)
  <2> DEFINE n == worker[w].seq
             d == [action |-> worker[w].plan[1], target |-> worker[w].plan[2],
                   flow |-> worker[w].flow, status |-> "proposed"]
  <2>1. n \in 1 .. LastVersion /\ d \in DecisionType /\ d # NoDecision
    BY <1>0, <1>6 DEF Propose, WorkerType, DecisionType, NoDecision
  <2>2. decision' = IF Free(n) THEN [decision EXCEPT ![n] = d] ELSE decision
    BY <1>6 DEF Propose
  <2> HIDE DEF d
  <2>3. Rows' /\ DecisionsKept /\ decision'[n] # NoDecision
    BY <1>0, <1>6, <1>e, <2>1, <2>2 DEF Propose, Rows, DecisionsKept, Free
  <2> QED BY <1>6, <1>f, <1>p, <2>1, <2>3, WorkerGoes DEF Propose, TickingPC, TickPC, Sited,
             Deciding
<1>7. CASE Load(w)
  BY <1>0, <1>7, <1>f, <1>p, <1>k, WorkerGoes DEF Load, Rows, Free, TickingPC, TickPC, Sited,
     Deciding
<1>8. CASE Bump(w)
  <2>a. worker[w].seq \in 1 .. LastVersion /\ run \in RunType
    BY <1>0, <1>8, <1>f DEF Bump, Rows, WorkerType, Deciding
  <2>b. run.version = worker[w].seq - 1 => run.version + 1 \in 0 .. LastVersion
    BY <2>a DEF RunType
  <2>0. run' \in RunType /\ run'.flow = run.flow
    BY <1>8, <2>a, <2>b DEF Bump, RunType
  <2>1. Rows' /\ run'.flow = run.flow
    BY <1>0, <1>8, <2>0 DEF Bump, Rows
  <2> QED BY <1>8, <1>f, <1>p, <1>k, <2>1, WorkerGoes DEF Bump, Throw, Free, TickingPC, TickPC,
             Sited, Deciding
<1>9. CASE Mark(w)
  <2> DEFINE n == worker[w].seq
  <2>1. n \in 1 .. LastVersion /\ decision' = [decision EXCEPT ![n].status = "applied"]
    BY <1>0, <1>9, <1>f DEF Mark, WorkerType, Deciding
  <2>0. \A e \in DecisionType : [e EXCEPT !.status = "applied"] \in DecisionType
    BY DEF DecisionType
  <2>2. [decision[n] EXCEPT !.status = "applied"] \in DecisionType
    BY <1>e, <2>1, <2>0
  <2> DEFINE d == [decision[n] EXCEPT !.status = "applied"]
  <2>4. d # NoDecision /\ d.action = decision[n].action /\ d.target = decision[n].target
        /\ d.flow = decision[n].flow
    BY <1>e, <2>1 DEF DecisionType, NoDecision
  <2>5. decision' = [decision EXCEPT ![n] = d]
    BY <2>1
  <2> HIDE DEF d
  <2>3. Rows' /\ DecisionsKept
    BY <1>0, <1>9, <1>e, <2>1, <2>2, <2>4, <2>5 DEF Mark, Rows, DecisionsKept
  <2> QED BY <1>9, <1>f, <1>p, <2>1, <2>3, WorkerGoes DEF Mark, Free, DecisionsKept, TickingPC,
             TickPC, Sited, Deciding
<1>10. CASE Wait(w) \/ Complete(w) \/ Block(w)
  <2>1. Rows' /\ run'.flow = run.flow
    <3>1. run' \in RunType /\ run'.flow = run.flow
      BY <1>0, <1>10 DEF Wait, Complete, Block, Rows, RunType, RunStatus
    <3> QED BY <1>0, <1>10, <3>1 DEF Wait, Complete, Block, Rows
  <2> QED BY <1>10, <1>f, <1>p, <1>k, <2>1, WorkerGoes DEF Wait, Complete, Block, Free,
             TickingPC, TickPC, Sited, Deciding
<1>11. CASE CreateEscalation(w) \/ Dispatch(w)
  <2>1. Rows'
    <3>0. worker[w].pc = "effect" => worker[w].flow \in Flow
      BY <1>0, <1>f DEF WorkerType, Sited
    <3>1. escalated' \subseteq Flow
      BY <1>0, <1>11, <3>0 DEF CreateEscalation, Dispatch, Rows
    <3> QED BY <1>0, <1>11, <3>1 DEF CreateEscalation, Dispatch, Rows
  <2> QED BY <1>11, <1>f, <1>p, <1>k, <2>1, WorkerGoes DEF CreateEscalation, Dispatch, Free,
             TickingPC, TickPC, Sited, Deciding
<1>12. CASE Settle(w)
  <2>1. PICK pc \in {"execute", "finalize", "finish"} :
          pc = CASE Decided(w).action = "dispatch" -> "execute"
                 [] Decided(w).action = "complete" -> "finalize"
                 [] OTHER -> "finish"
    OBVIOUS
  <2> DEFINE to == [worker[w] EXCEPT !.ver = run.version, !.flow = run.flow, !.pc = pc]
  <2>2. to \in WorkerType /\ to.pc = pc /\ to.flow = run.flow /\ to.seq = worker[w].seq
    BY <1>0, <1>p DEF WorkerType, Rows, RunType
  <2>3. worker' = [worker EXCEPT ![w] = to]
    BY <1>12, <2>1 DEF Settle
  <2>4. Rows'
    BY <1>0, <1>12, LeaseTyped DEF Settle, Rows
  <2> HIDE DEF to
  <2>5. worker[w].pc = "settle" /\ UNCHANGED <<run, decision, starter>>
    BY <1>12 DEF Settle
  <2> QED BY <1>f, <1>p, <1>k, <2>2, <2>3, <2>4, <2>5, WorkerMoves DEF Free, TickingPC, TickPC,
             Sited, Deciding
<1>13. CASE Unwind(w)
  <2>1. PICK to \in WorkerType : worker' = [worker EXCEPT ![w] = to] /\ to.pc \in {"enter", "idle"}
    <3>1. CASE worker[w].tries < Tries
      <4> DEFINE to == [worker[w] EXCEPT !.pc = "enter", !.tries = @ + 1]
      <4>0. worker[w].tries + 1 \in 0 .. Tries
        BY <1>0, <3>1 DEF WorkerType
      <4>1. to \in WorkerType /\ to.pc = "enter"
        BY <1>0, <1>p, <4>0 DEF WorkerType
      <4>2. worker' = [worker EXCEPT ![w] = to]
        BY <1>13, <3>1 DEF Unwind
      <4> QED BY <4>1, <4>2
    <3>2. CASE ~(worker[w].tries < Tries)
      BY <1>13, <3>2, AtRestTyped DEF Unwind, AtRest
    <3> QED BY <3>1, <3>2
  <2>2. Rows'
    BY <1>0, <1>13, LeaseTyped DEF Unwind, Rows, WakeStatus
  <2> QED BY <1>13, <1>k, <2>1, <2>2, <1>p, <1>g, WorkerMoves DEF Unwind, TickingPC, TickPC,
             Sited, Deciding
<1> QED BY <1>1, <1>2, <1>3, <1>4, <1>5, <1>6, <1>7, <1>8, <1>9, <1>10, <1>11, <1>12, <1>13 DEF Tick

\* What a worker does after the tick, its polls and its death keep TypeInv.
LEMMA WorkTyped ==
  ASSUME TypeInv, NEW w \in Worker, Work(w) \/ Poll(w) \/ Crash(w)
  PROVE  TypeInv'
<1>0. Rows /\ worker \in [Worker -> WorkerType] /\ worker[w] \in WorkerType
  BY TypeParts DEF TypeInv
<1>t. SUFFICES Rows' /\ worker' \in [Worker -> WorkerType] /\ Begun' /\ Placed' /\ StarterFit'
  BY DEF TypeInv, TypeOK, Rows, RunType, LeaseType, StarterType, DecisionType, Items, ItemType,
         WorkerType
<1>f. /\ worker[w].pc \in Sited => worker[w].flow \in Flow
      /\ worker[w].pc \in Deciding => worker[w].seq <= LastVersion /\ ~Free(worker[w].seq)
  BY <1>0 DEF TypeInv, Placed, WorkerType
<1>k. decision' = decision => DecisionsKept
  BY DEF DecisionsKept
<1>p. {"idle", "enter", "unwind", "execute", "await", "queue", "finalize", "review", "finish"} \subseteq PC
  BY DEF PC, TickPC
<1>g. \A pc \in {"idle", "enter", "unwind", "finish"} :
        pc \notin TickingPC /\ pc \notin Sited /\ pc \notin Deciding
  BY DEF TickingPC, TickPC, Sited, Deciding
<1>s. /\ {"execute", "await"} \subseteq Deciding
      /\ {"execute", "await", "queue", "finalize", "review"} \subseteq Sited
      /\ \A pc \in {"execute", "await", "queue", "finalize", "review"} : pc \notin TickingPC
      /\ \A pc \in {"queue", "finalize", "review"} : pc \notin Deciding
  BY DEF TickingPC, TickPC, Sited, Deciding
<1>r. AtRest \in WorkerType /\ AtRest.pc = "idle"
  BY AtRestTyped DEF AtRest
<1> USE DEF At
<1>1. CASE Execute(w)
  <2> DEFINE f == worker[w].flow  s == Decided(w).target
  <2>1. CASE /\ item[f][s].tries < MaxAttempts
             /\ item' = [item EXCEPT ![f][s] = [status |-> "in_progress", tries |-> @.tries + 1]]
             /\ Goto(w, "await")
    <3>1. item' \in Items
      <4>1. ASSUME NEW g \in Flow PROVE item'[g] \in [Step \union {Review} -> ItemType]
        <5>1. item[g] \in [Step \union {Review} -> ItemType]
          BY <1>0 DEF Rows, Items
        <5>2. ASSUME g = f, s \in Step \union {Review}
              PROVE  [status |-> "in_progress", tries |-> item[g][s].tries + 1] \in ItemType
          <6>1. item[g][s].tries \in 0 .. MaxAttempts /\ item[g][s].tries < MaxAttempts
            BY <2>1, <5>1, <5>2 DEF ItemType
          <6> QED BY <6>1 DEF ItemType, ItemStatus
        <5>3. item'[g] = IF g = f THEN [item[g] EXCEPT
                       ![s] = [status |-> "in_progress", tries |-> item[g][s].tries + 1]] ELSE item[g]
          BY <1>0, <2>1 DEF Rows, Items
        <5> QED BY <5>1, <5>2, <5>3
      <4> QED BY <1>0, <2>1, <4>1 DEF Rows, Items
    <3>2. Rows'
      BY <1>0, <1>1, <3>1 DEF Execute, Rows
    <3> QED BY <1>1, <1>f, <1>k, <1>p, <1>s, <2>1, <3>2, WorkerGoes DEF Execute, Free
  <2>2. CASE Throw(w) /\ UNCHANGED item
    <3>1. Rows'
      BY <1>0, <1>1, <2>2 DEF Execute, Rows
    <3> QED BY <1>1, <1>k, <1>p, <1>g, <2>2, <3>1, WorkerGoes DEF Execute, Throw
  <2> QED BY <1>1, <2>1, <2>2 DEF Execute
<1>2. CASE Executed(w)
  <2>1. PICK o \in Outcomes(worker[w].flow, Decided(w).target) :
          SetItem(worker[w].flow, Decided(w).target, o)
    BY <1>2 DEF Executed
  <2>2. o \in ItemStatus
    BY DEF Outcomes, ItemStatus
  <2>3. Rows'
    BY <1>0, <1>2, <2>1, <2>2, ItemSet DEF Executed, Rows
  <2>4. Goto(w, "queue") \/ Goto(w, "unwind")
    BY <1>2 DEF Executed, Throw
  <2> QED BY <1>2, <1>f, <1>k, <1>p, <1>g, <1>s, <2>3, <2>4, WorkerGoes DEF Executed
<1>3. CASE Queue(w)
  <2>1. wake' \in [Key -> WakeStatus]
    BY <1>0, <1>3 DEF Queue, Enqueue, Rows, WakeStatus
  <2>2. Rows'
    BY <1>0, <1>3, <2>1 DEF Queue, Rows
  <2> QED BY <1>3, <1>k, <1>p, <1>g, <2>2, WorkerGoes DEF Queue
<1>4. CASE Finalize(w)
  <2>1. PICK pc \in {"finish", "review", "unwind"} : Goto(w, pc)
    BY <1>4 DEF Finalize, Throw
  <2>0. worker[w].flow \in Flow
    BY <1>4, <1>f, <1>s DEF Finalize
  <2>2. accepted' \subseteq Flow
    BY <1>0, <1>4, <2>0 DEF Finalize, Rows
  <2>3. Rows'
    BY <1>0, <1>4, <2>2 DEF Finalize, Rows
  <2> QED BY <1>4, <1>f, <1>k, <1>p, <1>g, <1>s, <2>1, <2>3, WorkerGoes DEF Finalize
<1>5. CASE ScheduleReview(w)
  <2> DEFINE f == worker[w].flow + 1
  <2>1. f \in Flow
    BY <1>5, <1>f, <1>s DEF ScheduleReview
  <2>2. run' = [run EXCEPT !.flow = f, !.status = "waiting", !.wakeAt = "later"]
    BY <1>5 DEF ScheduleReview
  <2> HIDE DEF f
  <2>3. run' \in RunType /\ run'.flow # 0
    <3>1. run \in RunType /\ f \in 0 .. LastFlow /\ f # 0
      BY <1>0, <2>1 DEF Rows
    <3> QED BY <2>2, <3>1 DEF RunType, RunStatus
  <2>4. item' \in Items
    <3>1. item \in Items /\ (item' = item \/ SetItem(f, Review, "proposed"))
      BY <1>0, <1>5 DEF ScheduleReview, Rows, f
    <3> QED BY <3>1, ItemSet DEF ItemStatus
  <2>5. Rows'
    BY <1>0, <1>5, <2>3, <2>4 DEF ScheduleReview, Rows
  <2> QED BY <1>5, <1>k, <1>p, <1>g, <2>3, <2>5, WorkerGoes DEF ScheduleReview
<1>6. CASE FinishWakeup(w)
  <2>1. wake' \in [Key -> WakeStatus]
    BY <1>0, <1>6 DEF FinishWakeup, Rows, WakeStatus
  <2>2. Rows'
    BY <1>0, <1>6, <2>1 DEF FinishWakeup, Rows
  <2> QED BY <1>6, <1>k, <1>g, <1>r, <2>2, WorkerMoves DEF FinishWakeup
<1>7. ASSUME NEW k \in Key, Claim(w, k)
      PROVE  Rows' /\ worker' \in [Worker -> WorkerType] /\ Begun' /\ Placed' /\ StarterFit'
  <2> DEFINE to == [AtRest EXCEPT !.pc = "enter", !.wake = k, !.tries = 1]
  <2>1. to \in WorkerType /\ to.pc = "enter"
    <3>1. 1 \in 0 .. Tries
      OBVIOUS
    <3> QED BY <1>p, <1>r, <3>1 DEF WorkerType
  <2>2. worker' = [worker EXCEPT ![w] = to]
    BY <1>7 DEF Claim
  <2>3. wake' \in [Key -> WakeStatus]
    BY <1>0, <1>7 DEF Claim, Rows, WakeStatus
  <2>4. Rows'
    BY <1>0, <1>7, <2>3 DEF Claim, Rows
  <2> HIDE DEF to
  <2> QED BY ZenonT(30), <1>7, <1>k, <1>g, <2>1, <2>2, <2>4, WorkerMoves DEF Claim
<1>8. ASSUME wake' \in [Key -> WakeStatus],
             UNCHANGED <<run, decision, lease, item, escalated, accepted, worker, starter>>
      PROVE  Rows' /\ worker' \in [Worker -> WorkerType] /\ Begun' /\ Placed' /\ StarterFit'
  BY <1>0, <1>8 DEF Rows, TypeInv, Begun, Placed, StarterFit, StartsOf, Free
<1>9. ASSUME NEW k \in Key, RecoverClaim(w, k)
      PROVE  Rows' /\ worker' \in [Worker -> WorkerType] /\ Begun' /\ Placed' /\ StarterFit'
  <2>1. wake' \in [Key -> WakeStatus]
    BY <1>0, <1>9 DEF RecoverClaim, Rows, WakeStatus
  <2> QED BY <1>8, <1>9, <2>1 DEF RecoverClaim
<1>10. CASE EnqueueDue(w)
  <2>1. wake' \in [Key -> WakeStatus]
    BY <1>0, <1>10 DEF EnqueueDue, Enqueue, Rows, WakeStatus
  <2> QED BY <1>8, <1>10, <2>1 DEF EnqueueDue
<1>11. CASE Crash(w)
  <2>1. starter' = starter \/ starter' = [starter EXCEPT !.pc = "idle"]
    BY <1>11 DEF Crash
  <2>2. worker' = [worker EXCEPT ![w] = AtRest]
    BY <1>11 DEF Crash
  <2>3. UNCHANGED <<run, decision, lease, item, wake, escalated, accepted>>
    BY <1>11 DEF Crash
  <2>4. starter' \in StarterType /\ (starter' = starter \/ starter'.pc = "idle")
    BY <1>0, <2>1 DEF Rows, StarterType, StarterPC
  <2>5. Rows'
    BY <1>0, <2>3, <2>4 DEF Rows
  <2>6. worker' \in [Worker -> WorkerType] /\ \A v \in Worker : worker'[v] = IF v = w THEN AtRest ELSE worker[v]
    BY <1>0, <1>r, <2>2
  <2>7. Begun' /\ Placed' /\ StarterFit'
    BY <1>g, <1>r, <2>3, <2>4, <2>6 DEF TypeInv, Begun, Placed, Free, StarterFit, StartsOf
  <2> QED BY <2>5, <2>6, <2>7
<1> QED BY <1>1, <1>2, <1>3, <1>4, <1>5, <1>6, <1>7, <1>9, <1>10, <1>11 DEF Work, Poll

\* A step that leaves the workers alone: the run keeps its workflow or gets one, no decision
\* is taken back, and the command finds what it needs.
LEMMA StarterMoves ==
  ASSUME TypeInv, UNCHANGED worker, DecisionsKept, run'.flow = run.flow \/ run'.flow # 0,
         \/ starter' = starter
         \/ /\ starter'.pc # "idle" => starter'.flow # 0
            /\ starter'.pc \in {"load", "bump", "mark"} =>
                 \/ StartsOf(starter'.flow) # {}
                 \/ \E n \in 1 .. LastVersion : /\ decision'[n].action = "start_process"
                                               /\ decision'[n].flow = starter'.flow
  PROVE  worker' \in [Worker -> WorkerType] /\ Begun' /\ Placed' /\ StarterFit'
<1>1. worker \in [Worker -> WorkerType]
  BY TypeParts DEF TypeInv
<1>2. Begun'
  BY DEF TypeInv, Begun
<1>3. Placed'
  <2>1. \A v \in Worker : worker[v].seq \in 1 .. LastVersion + 1
    BY <1>1 DEF WorkerType
  <2> QED BY <2>1 DEF TypeInv, Placed, Free, DecisionsKept
<1>4. \A f : StartsOf(f) # {} =>
         \E n \in 1 .. LastVersion : decision'[n].action = "start_process" /\ decision'[n].flow = f
  BY DEF StartsOf, DecisionsKept, NoDecision
<1>5. StarterFit'
  BY <1>4 DEF TypeInv, StarterFit, StartsOf
<1> QED BY <1>1, <1>2, <1>3, <1>5

\* The command and the steps of nobody keep TypeInv.
LEMMA StartTyped ==
  ASSUME TypeInv, Start \/ CrashStarter \/ Settlement \/ FallDue \/ ExpireLease \/ UNCHANGED vars
  PROVE  TypeInv'
<1>0. Rows /\ TypeOK
  BY TypeParts DEF TypeInv
<1>t. SUFFICES Rows' /\ worker' \in [Worker -> WorkerType] /\ Begun' /\ Placed' /\ StarterFit'
  BY DEF TypeInv, TypeOK, Rows, RunType, LeaseType, StarterType, DecisionType, Items, ItemType,
         WorkerType
<1>f. /\ starter.pc # "idle" => starter.flow \in Flow
      /\ starter.pc \in {"load", "bump", "mark"} => StartsOf(starter.flow) # {}
      /\ starter \in StarterType
  BY <1>0 DEF TypeInv, StarterFit, Rows, StarterType
<1>k. decision' = decision => DecisionsKept
  BY DEF DecisionsKept
<1>m. \A pc \in StarterPC : [starter EXCEPT !.pc = pc] \in StarterType
        /\ [starter EXCEPT !.pc = pc].pc = pc /\ [starter EXCEPT !.pc = pc].flow = starter.flow
  BY <1>f DEF StarterType
<1>p. {"idle", "compile", "point", "propose", "load", "bump", "mark", "announce", "done"} = StarterPC
  BY DEF StarterPC
<1>s. starter.pc \in {"load", "bump", "mark"} =>
        /\ StartSeq \in 1 .. LastVersion /\ decision[StartSeq].action = "start_process"
        /\ decision[StartSeq].flow = starter.flow
  BY <1>f DEF StartSeq, StartsOf
<1>e. DOMAIN decision = 1 .. LastVersion /\ \A n \in 1 .. LastVersion : decision[n] \in DecisionType
  BY <1>0 DEF Rows
<1>1. ASSUME NEW f \in Flow, BeginStart(f)
      PROVE  Rows' /\ worker' \in [Worker -> WorkerType] /\ Begun' /\ Placed' /\ StarterFit'
  <2>1. starter' = [pc |-> "compile", flow |-> f, ver |-> 0]
        /\ UNCHANGED <<run, decision, lease, item, wake, escalated, accepted, worker>>
    BY <1>1 DEF BeginStart
  <2>2. starter' \in StarterType
    BY <2>1 DEF StarterType, StarterPC
  <2> QED BY <1>0, <1>k, <2>1, <2>2, StarterMoves DEF Rows
<1>2. CASE Compile
  <2> DEFINE f == starter.flow
             new(s) == IF s \in Step /\ item[f][s].status = "none"
                       THEN [item[f][s] EXCEPT !.status = IF Needs(s) = {} THEN "ready" ELSE "proposed"]
                       ELSE item[f][s]
  <2>1. f \in Flow /\ item[f] \in [Step \union {Review} -> ItemType]
    BY <1>0, <1>2, <1>f DEF Compile, Rows, Items
  <2>2. item' = [item EXCEPT ![f] = [s \in Step \union {Review} |-> new(s)]]
    BY <1>2, <2>1 DEF Compile
  <2>3. ASSUME NEW s \in Step \union {Review} PROVE new(s) \in ItemType
    <3>1. item[f][s] \in ItemType
      BY <2>1
    <3> QED BY <3>1 DEF ItemType, ItemStatus
  <2>4. [s \in Step \union {Review} |-> new(s)] \in [Step \union {Review} -> ItemType]
    BY <2>3
  <2>5. item' \in Items
    BY <1>0, <2>1, <2>2, <2>4 DEF Rows, Items
  <2>6. starter' \in StarterType /\ starter'.pc = "point" /\ starter'.flow = f
    BY <1>2, <1>m, <1>p DEF Compile, MoveStarter
  <2>7. Rows'
    BY <1>0, <1>2, <2>5, <2>6 DEF Rows, Compile
  <2> QED BY <1>2, <1>k, <2>1, <2>6, <2>7, StarterMoves DEF Compile
<1>3. CASE Point
  <2>1. run' \in RunType /\ run'.flow = starter.flow /\ starter.flow \in Flow
    <3>1. run \in RunType /\ starter.flow \in Flow /\ starter.flow \in 0 .. LastFlow
      BY <1>0, <1>3, <1>f DEF Rows, Point
    <3> QED BY <1>3, <3>1 DEF Point, RunType, RunStatus
  <2>2. starter' \in StarterType /\ starter'.pc = "propose" /\ starter'.flow = starter.flow
    <3>1. run.version \in 0 .. LastVersion
      BY <1>0 DEF Rows, RunType
    <3> QED BY <1>3, <1>f, <1>p, <3>1 DEF Point, StarterType
  <2>3. Rows'
    BY <1>0, <1>3, <2>1, <2>2 DEF Rows, Point
  <2> QED BY <1>3, <1>k, <2>1, <2>2, <2>3, StarterMoves DEF Point
<1>4. CASE ProposeStart
  <2> DEFINE n == starter.ver + 1
             d == [NoDecision EXCEPT !.action = "start_process", !.flow = starter.flow, !.status = "proposed"]
  <2>0. n \in 1 .. LastVersion /\ starter.flow \in Flow /\ starter.flow \in 0 .. LastFlow
    BY <1>4, <1>f DEF ProposeStart, StarterType
  <2>1. d \in DecisionType /\ d # NoDecision /\ d.action = "start_process" /\ d.flow = starter.flow
    BY <2>0 DEF NoDecision, DecisionType, Action
  <2> HIDE DEF d, n
  <2>2. CASE StartsOf(starter.flow) # {} /\ MoveStarter("load") /\ UNCHANGED decision
    <3>1. starter' \in StarterType /\ starter'.pc = "load" /\ starter'.flow = starter.flow
      BY <2>2, <1>m, <1>p DEF MoveStarter
    <3>2. Rows'
      BY <1>0, <1>4, <2>2, <3>1 DEF Rows, ProposeStart
    <3> QED BY <1>4, <1>k, <2>0, <2>2, <3>1, <3>2, StarterMoves DEF ProposeStart
  <2>3. CASE Free(n) /\ MoveStarter("load") /\ decision' = [decision EXCEPT ![n] = d]
    <3>1. starter' \in StarterType /\ starter'.pc = "load" /\ starter'.flow = starter.flow
      BY <2>3, <1>m, <1>p DEF MoveStarter
    <3>2. Rows'
      BY <1>0, <1>4, <2>0, <2>1, <2>3, <3>1 DEF Rows, ProposeStart
    <3>3. DecisionsKept /\ decision'[n] = d
      BY <1>e, <2>0, <2>1, <2>3 DEF DecisionsKept, Free
    <3>4. run' = run /\ worker' = worker
      BY <1>4 DEF ProposeStart
    <3>5. \E m \in 1 .. LastVersion : decision'[m].action = "start_process"
                                     /\ decision'[m].flow = starter'.flow
      BY <2>0, <2>1, <3>1, <3>3
    <3> QED BY <2>0, <3>1, <3>2, <3>3, <3>4, <3>5, StarterMoves
  <2>4. CASE MoveStarter("idle") /\ UNCHANGED decision
    <3>1. starter' \in StarterType /\ starter'.pc = "idle"
      BY <2>4, <1>m, <1>p DEF MoveStarter
    <3>2. Rows'
      BY <1>0, <1>4, <2>4, <3>1 DEF Rows, ProposeStart
    <3> QED BY <1>4, <1>k, <2>4, <3>1, <3>2, StarterMoves DEF ProposeStart
  <2> QED BY <1>4, <2>2, <2>3, <2>4 DEF ProposeStart, d, n
<1>5. CASE LoadStart
  <2>1. starter' \in StarterType /\ starter'.pc \in {"announce", "bump"} /\ starter'.flow = starter.flow
    BY <1>5, <1>m, <1>p DEF LoadStart, MoveStarter
  <2>2. Rows'
    BY <1>0, <1>5, <2>1 DEF Rows, LoadStart
  <2>3. starter.pc = "load" /\ UNCHANGED <<run, decision, worker>>
    BY <1>5 DEF LoadStart
  <2> QED BY <1>f, <1>k, <2>1, <2>2, <2>3, StarterMoves
<1>6. CASE BumpStart
  <2>1. starter' \in StarterType /\ starter'.pc \in {"mark", "idle"} /\ starter'.flow = starter.flow
    <3>1. PICK pc \in {"mark", "idle"} : MoveStarter(pc)
      BY <1>6 DEF BumpStart
    <3> QED BY <3>1, <1>m, <1>p DEF MoveStarter
  <2>2. run' \in RunType /\ run'.flow = run.flow
    <3>1. run \in RunType /\ StartSeq \in 0 .. LastVersion
      BY <1>0, <1>6, <1>s DEF Rows, BumpStart
    <3>2. run' = run \/ run' = [run EXCEPT !.version = StartSeq]
      BY <1>6 DEF BumpStart
    <3> QED BY <3>1, <3>2 DEF RunType
  <2>3. Rows'
    BY <1>0, <1>6, <2>1, <2>2 DEF Rows, BumpStart
  <2> QED BY <1>6, <1>f, <1>k, <2>1, <2>2, <2>3, StarterMoves DEF BumpStart
<1>7. CASE MarkStart
  <2> DEFINE d == [decision[StartSeq] EXCEPT !.status = "applied"]
  <2>1. d \in DecisionType /\ d.action = "start_process" /\ d.flow = starter.flow
        /\ d.target = decision[StartSeq].target /\ StartSeq \in 1 .. LastVersion
    <3>1. decision[StartSeq] \in DecisionType
      BY <1>7, <1>e, <1>s DEF MarkStart
    <3>2. \A e \in DecisionType : LET m == [e EXCEPT !.status = "applied"] IN
            m \in DecisionType /\ m.action = e.action /\ m.flow = e.flow /\ m.target = e.target
      BY DEF DecisionType
    <3> QED BY <1>7, <1>s, <3>1, <3>2 DEF MarkStart
  <2>2. decision' = [decision EXCEPT ![StartSeq] = d]
    BY <1>7 DEF MarkStart
  <2>3. starter' \in StarterType /\ starter'.pc = "announce" /\ starter'.flow = starter.flow
    BY <1>7, <1>m, <1>p DEF MarkStart, MoveStarter
  <2>4. d # NoDecision
    BY <2>1 DEF NoDecision
  <2> HIDE DEF d
  <2>5. DecisionsKept
    BY <1>7, <1>e, <1>s, <2>1, <2>2, <2>4 DEF DecisionsKept, MarkStart
  <2>6. Rows'
    BY <1>0, <1>7, <2>1, <2>2, <2>3 DEF Rows, MarkStart
  <2> QED BY <1>7, <1>f, <2>3, <2>5, <2>6, StarterMoves DEF MarkStart
<1>8. CASE Announce
  <2>1. starter' \in StarterType /\ starter'.pc = "done" /\ starter'.flow = starter.flow
    BY <1>8, <1>m, <1>p DEF Announce, MoveStarter
  <2>2. wake' \in [Key -> WakeStatus]
    BY <1>0, <1>8 DEF Announce, Enqueue, Rows, WakeStatus
  <2>3. Rows'
    BY <1>0, <1>8, <2>1, <2>2 DEF Rows, Announce
  <2> QED BY <1>8, <1>f, <1>k, <2>1, <2>3, StarterMoves DEF Announce
<1>9. CASE CrashStarter
  <2>1. starter' \in StarterType /\ starter'.pc = "idle"
    BY <1>9, <1>m, <1>p DEF CrashStarter, MoveStarter
  <2>2. Rows'
    BY <1>0, <1>9, <2>1 DEF Rows, CrashStarter
  <2> QED BY <1>9, <1>k, <2>1, <2>2, StarterMoves DEF CrashStarter
<1>10. ASSUME NEW f \in Flow, NEW s \in Step, Decision(f, s)
       PROVE  Rows' /\ worker' \in [Worker -> WorkerType] /\ Begun' /\ Placed' /\ StarterFit'
  <2>1. item' \in Items
    BY <1>0, <1>10, ItemSet DEF Decision, Rows, ItemStatus
  <2>2. Rows'
    BY <1>0, <1>10, <2>1 DEF Rows, Decision
  <2> QED BY <1>10, <1>k, <2>2, StarterMoves DEF Decision
<1>11. CASE FallDue
  <2>1. run' \in RunType /\ run'.flow = run.flow
    BY <1>0, <1>11 DEF Rows, FallDue, RunType
  <2>2. Rows'
    BY <1>0, <1>11, <2>1 DEF Rows, FallDue
  <2> QED BY <1>11, <1>k, <2>1, <2>2, StarterMoves DEF FallDue
<1>12. CASE ExpireLease
  <2>1. lease' \in LeaseType
    BY <1>0, <1>12 DEF Rows, ExpireLease, LeaseType
  <2>2. Rows'
    BY <1>0, <1>12, <2>1 DEF Rows, ExpireLease
  <2> QED BY <1>12, <1>k, <2>2, StarterMoves DEF ExpireLease
<1>13. CASE UNCHANGED vars
  BY <1>0, <1>13, <1>k, StarterMoves DEF Rows, vars
<1> QED BY <1>1, <1>2, <1>3, <1>4, <1>5, <1>6, <1>7, <1>8, <1>9, <1>10, <1>11, <1>12, <1>13
       DEF Start, Settlement

\* Every step keeps TypeInv.
LEMMA TypeNext == TypeInv /\ [Next]_vars => TypeInv'
BY TickTyped, WorkTyped, StartTyped DEF Next

\* The rows, the workers and the command are well typed in every state, for every number of
\* workers, steps, workflows and versions.
THEOREM TypeCorrect == Spec => []TypeOK
<1>1. TypeInv => TypeOK
  BY DEF TypeInv
<1> QED BY TypeInit, TypeNext, <1>1, PTL DEF Spec

-----------------------------------------------------------------------------
(* The order of the steps, as long as no tick outlives its lease.          *)

\* What a tick does it does under the lease, which has not run out.
Held == \A w \in Worker : worker[w].pc \in TickingPC =>
  lease.holder = w /\ lease.expired = FALSE
\* What a tick is about to promote is still ripe.
Snap == \A w \in Worker : worker[w].pc = "promote" =>
  \A s \in worker[w].snap : s \in StepsOf(worker[w].flow) /\ Ripe(worker[w].flow, s)
\* A worker executes the item its decision names ...
Awaiting == \A w \in Worker : worker[w].pc = "await" =>
  Decided(w).flow = worker[w].flow /\ Status(worker[w].flow, Decided(w).target) = "in_progress"
\* ... and no other worker executes it.
Sole == \A v, w \in Worker :
  /\ worker[v].pc = "await" /\ worker[w].pc = "await"
  /\ worker[v].flow = worker[w].flow /\ Decided(v).target = Decided(w).target
  => v = w

OrderInv == ~Overruns /\ TypeInv /\ Held /\ Snap /\ Awaiting /\ Sole /\ StepsInOrder

\* No step takes a decision back.
LEMMA DecisionsNext == TypeInv /\ [Next]_vars => DecisionsKept
<1> SUFFICES ASSUME TypeInv, [Next]_vars PROVE DecisionsKept
  OBVIOUS
<1>1. decision \in [1 .. LastVersion -> DecisionType] /\ worker \in [Worker -> WorkerType]
  BY TypeParts DEF TypeInv, Rows
<1>2. ASSUME NEW n, decision' = [decision EXCEPT ![n].status = "applied"]
      PROVE  DecisionsKept
  <2>1. \A e \in DecisionType : LET m == [e EXCEPT !.status = "applied"] IN
          m # NoDecision /\ m.action = e.action /\ m.flow = e.flow /\ m.target = e.target
    BY DEF DecisionType, NoDecision
  <2>2. ASSUME NEW m \in 1 .. LastVersion
        PROVE  decision'[m] = IF m = n THEN [decision[m] EXCEPT !.status = "applied"] ELSE decision[m]
    BY <1>1, <1>2
  <2>3. \A m \in 1 .. LastVersion : decision[m] \in DecisionType
    BY <1>1
  <2> QED BY <2>1, <2>2, <2>3 DEF DecisionsKept
<1>3. ASSUME NEW n, NEW d, decision[n] = NoDecision, d # NoDecision,
             decision' = [decision EXCEPT ![n] = d]
      PROVE  DecisionsKept
  BY <1>1, <1>3 DEF DecisionsKept
<1>4. ASSUME UNCHANGED decision
      PROVE  DecisionsKept
  BY <1>4 DEF DecisionsKept
<1>5. ASSUME NEW w \in Worker, Propose(w)
      PROVE  DecisionsKept
  <2> DEFINE d == [action |-> worker[w].plan[1], target |-> worker[w].plan[2],
                   flow |-> worker[w].flow, status |-> "proposed"]
  <2>1. d # NoDecision
    BY DEF NoDecision
  <2>2. \/ Free(worker[w].seq) /\ decision' = [decision EXCEPT ![worker[w].seq] = d]
        \/ UNCHANGED decision
    BY <1>5 DEF Propose
  <2> HIDE DEF d
  <2> QED BY <1>3, <1>4, <2>1, <2>2 DEF Free
<1>6. CASE ProposeStart
  <2> DEFINE n == starter.ver + 1
             d == [NoDecision EXCEPT !.action = "start_process", !.flow = starter.flow, !.status = "proposed"]
  <2>1. d # NoDecision
    BY DEF NoDecision
  <2>2. (Free(n) /\ decision' = [decision EXCEPT ![n] = d]) \/ UNCHANGED decision
    BY <1>6 DEF ProposeStart
  <2> HIDE DEF d, n
  <2> QED BY <1>3, <1>4, <2>1, <2>2 DEF Free
<1>7. ASSUME NEW w \in Worker, Mark(w)
      PROVE  DecisionsKept
  BY <1>2, <1>7 DEF Mark
<1>8. CASE MarkStart
  BY <1>2, <1>8 DEF MarkStart
<1>9. ASSUME NEW w \in Worker, Tick(w), ~Propose(w), ~Mark(w)
      PROVE  UNCHANGED decision
  BY <1>9 DEF Tick, Enter, ReadRun, ListItems, Promote, Decide, Load, Bump, Wait, Complete,
     CreateEscalation, Block, Dispatch, Settle, Unwind
<1>10. ASSUME NEW w \in Worker, Work(w) \/ Poll(w) \/ Crash(w)
       PROVE  UNCHANGED decision
  BY <1>10 DEF Work, Poll, Crash, Execute, Executed, Queue, Finalize, ScheduleReview, FinishWakeup,
     Claim, RecoverClaim, EnqueueDue
<1>11. CASE Start \/ CrashStarter \/ Settlement \/ FallDue \/ ExpireLease
  <2>1. ProposeStart \/ MarkStart \/ UNCHANGED decision
    BY <1>11 DEF Start, BeginStart, Compile, Point, LoadStart, BumpStart, Announce, CrashStarter,
       Settlement, Decision, FallDue, ExpireLease
  <2> QED BY <1>4, <1>6, <1>8, <2>1
<1> QED BY <1>4, <1>5, <1>7, <1>9, <1>10, <1>11 DEF Next, vars

\* A step moves at most one worker.
LEMMA OneMoves ==
  ASSUME TypeInv, [Next]_vars
  PROVE  \/ UNCHANGED worker
         \/ \E w \in Worker : (Tick(w) \/ Work(w) \/ Poll(w) \/ Crash(w))
              /\ \A v \in Worker \ {w} : worker'[v] = worker[v]
<1>1. worker \in [Worker -> WorkerType]
  BY TypeParts DEF TypeInv
<1>2. ASSUME NEW w \in Worker, Tick(w)
      PROVE  UNCHANGED worker \/ \E to : worker' = [worker EXCEPT ![w] = to]
  BY <1>2 DEF Tick, Enter, ReadRun, ListItems, Promote, Decide, Propose, Load, Bump, Mark, Wait,
     Complete,
     CreateEscalation, Block, Dispatch, Settle, Unwind, Goto, Throw
<1>3. ASSUME NEW w \in Worker, Work(w) \/ Poll(w) \/ Crash(w)
      PROVE  UNCHANGED worker \/ \E to : worker' = [worker EXCEPT ![w] = to]
  BY <1>3 DEF Work, Poll, Crash, Execute, Executed, Queue, Finalize, ScheduleReview, FinishWakeup,
     Claim, RecoverClaim, EnqueueDue, Goto, Throw
<1>4. CASE Start \/ CrashStarter \/ Settlement \/ FallDue \/ ExpireLease \/ UNCHANGED vars
  BY <1>4 DEF Start, BeginStart, Compile, Point, ProposeStart, LoadStart, BumpStart, MarkStart,
     Announce,
     CrashStarter, Settlement, Decision, FallDue, ExpireLease, vars
<1> QED BY <1>1, <1>2, <1>3, <1>4 DEF Next

\* The lease is taken when nobody holds it or it ran out, and runs out only under a worker
\* that is not at a tick.
LEMMA HeldNext == ~Overruns /\ TypeInv /\ Held /\ [Next]_vars => Held'
<1> SUFFICES ASSUME ~Overruns, TypeInv, Held, [Next]_vars PROVE Held'
  OBVIOUS
<1>0. worker \in [Worker -> WorkerType] /\ lease \in LeaseType
  BY TypeParts DEF TypeInv, Rows
<1>1. ASSUME NEW w \in Worker, NEW pc, Goto(w, pc), pc \in TickingPC => worker[w].pc \in TickingPC,
             UNCHANGED lease
      PROVE  Held'
  <2>1. \A v \in Worker : worker'[v].pc = IF v = w THEN pc ELSE worker[v].pc
    BY <1>0, <1>1 DEF Goto, WorkerType
  <2> QED BY <1>1, <2>1 DEF Held
<1>2. ASSUME NEW w \in Worker, worker'[w].pc \in TickingPC => worker[w].pc \in TickingPC,
             \A v \in Worker \ {w} : worker'[v] = worker[v], UNCHANGED lease
      PROVE  Held'
  BY <1>2 DEF Held
<1>3. ASSUME NEW w \in Worker, worker'[w].pc \notin TickingPC,
             \A v \in Worker \ {w} : worker'[v] = worker[v],
             lease' = IF lease.holder = w THEN [holder |-> NoWorker, expired |-> FALSE] ELSE lease
      PROVE  Held'
  BY <1>3 DEF Held
<1>4. ASSUME NEW w \in Worker, Enter(w)
      PROVE  Held'
  <2>1. CASE (lease.holder = NoWorker \/ lease.expired) /\ Goto(w, "read")
             /\ lease' = [holder |-> w, expired |-> FALSE]
    <3>1. \A v \in Worker : worker[v].pc \notin TickingPC
      BY <2>1, NamesAssumption DEF Held
    <3>2. \A v \in Worker : worker'[v].pc = IF v = w THEN "read" ELSE worker[v].pc
      BY <1>0, <2>1 DEF Goto, WorkerType
    <3> QED BY <2>1, <3>1, <3>2 DEF Held
  <2>2. CASE (Goto(w, "finish") \/ Goto(w, "unwind")) /\ UNCHANGED lease
    <3>1. "finish" \notin TickingPC /\ "unwind" \notin TickingPC
      BY DEF TickingPC, TickPC
    <3> QED BY <1>1, <2>2, <3>1
  <2> QED BY <1>4, <2>1, <2>2 DEF Enter, Throw
<1>5. ASSUME NEW w \in Worker, Tick(w), ~Enter(w), \A v \in Worker \ {w} : worker'[v] = worker[v]
      PROVE  Held'
  <2>1. CASE ReadRun(w)
    <3>1. CASE run.status \in Ended
      <4>1. worker'[w].pc = "finish"
        BY <1>0, <2>1, <3>1 DEF ReadRun, Goto, WorkerType
      <4> QED BY <1>3, <1>5, <2>1, <3>1, <4>1 DEF ReadRun, TickingPC, TickPC
    <3>2. CASE run.status \notin Ended
      <4>1. worker[w].pc = "read" /\ UNCHANGED lease
        BY <2>1, <3>2 DEF ReadRun, At
      <4> QED BY <1>2, <1>5, <4>1 DEF TickingPC, TickPC
    <3> QED BY <3>1, <3>2
  <2>2. CASE Settle(w)
    <3>1. worker'[w].pc \in {"execute", "finalize", "finish"}
      BY <1>0, <2>2 DEF Settle, WorkerType
    <3> QED BY <1>3, <1>5, <2>2, <3>1 DEF Settle, TickingPC, TickPC
  <2>3. CASE Unwind(w)
    <3>1. worker'[w].pc \in {"enter", "idle"}
      BY <1>0, <2>3 DEF Unwind, WorkerType, AtRest
    <3> QED BY <1>3, <1>5, <2>3, <3>1 DEF Unwind, TickingPC, TickPC
  <2>4. CASE ~ReadRun(w) /\ ~Settle(w) /\ ~Unwind(w)
    <3>1. UNCHANGED lease /\ worker[w].pc \in TickingPC
      BY <1>5, <2>4 DEF Tick, ListItems, Promote, Decide, Propose, Load, Bump, Mark, Wait, Complete,
         CreateEscalation, Block, Dispatch, At, TickingPC, TickPC
    <3> QED BY <1>2, <1>5, <3>1
  <2> QED BY <2>1, <2>2, <2>3, <2>4
<1>6. CASE UNCHANGED <<worker, lease>>
  BY <1>6 DEF Held
<1>7. ASSUME NEW w \in Worker, Work(w) \/ Poll(w) \/ Crash(w), \A v \in Worker \ {w} : worker'[v] = worker[v]
      PROVE  Held'
  <2>1. UNCHANGED lease
    BY <1>7 DEF Work, Poll, Crash, Execute, Executed, Queue, Finalize, ScheduleReview, FinishWakeup,
       Claim, RecoverClaim, EnqueueDue
  <2> DEFINE After == {"idle", "enter", "await", "queue", "unwind", "finish", "review"}
  <2>2. CASE Execute(w) \/ Executed(w) \/ Queue(w) \/ Finalize(w) \/ ScheduleReview(w)
    <3>1. PICK pc \in After : Goto(w, pc)
      BY <2>2 DEF Execute, Executed, Queue, Finalize, ScheduleReview, Throw
    <3>2. worker'[w].pc = pc
      BY <1>0, <3>1 DEF Goto, WorkerType
    <3> QED BY <1>2, <1>7, <2>1, <3>1, <3>2 DEF TickingPC, TickPC
  <2>3. CASE FinishWakeup(w) \/ Crash(w)
    <3>1. worker'[w].pc = "idle"
      BY <1>0, <2>3 DEF FinishWakeup, Crash, AtRest
    <3> QED BY <1>2, <1>7, <2>1, <3>1 DEF TickingPC, TickPC
  <2>4. ASSUME NEW k \in Key, Claim(w, k)
        PROVE  Held'
    <3>1. worker'[w].pc = "enter"
      BY <1>0, <2>4 DEF Claim, AtRest
    <3> QED BY <1>2, <1>7, <2>1, <3>1 DEF TickingPC, TickPC
  <2>5. CASE EnqueueDue(w) \/ \E k \in Key : RecoverClaim(w, k)
    BY <1>6, <2>1, <2>5 DEF EnqueueDue, RecoverClaim
  <2> QED BY <1>7, <2>2, <2>3, <2>4, <2>5 DEF Work, Poll
<1>8. CASE ExpireLease
  <2>1. lease.holder \in Worker /\ worker[lease.holder].pc \notin TickingPC /\ UNCHANGED worker
    BY <1>0, <1>8 DEF ExpireLease, LeaseType, TickingPC
  <2> QED BY <2>1 DEF Held
<1>9. CASE Start \/ CrashStarter \/ Settlement \/ FallDue \/ UNCHANGED vars
  <2>1. UNCHANGED <<worker, lease>>
    BY <1>9 DEF Start, BeginStart, Compile, Point, ProposeStart, LoadStart, BumpStart, MarkStart,
       Announce,
       CrashStarter, Settlement, Decision, FallDue, vars
  <2> QED BY <1>6, <2>1
<1>10. ASSUME NEW w \in Worker, Tick(w) \/ Work(w) \/ Poll(w) \/ Crash(w),
              \A v \in Worker \ {w} : worker'[v] = worker[v]
       PROVE  Held'
  BY <1>4, <1>5, <1>7, <1>10
<1>11. ASSUME NEW w \in Worker, Tick(w) \/ Work(w) \/ Poll(w) \/ Crash(w), UNCHANGED worker
       PROVE  Held'
  BY <1>10, <1>11
<1> QED BY <1>8, <1>9, <1>10, <1>11, OneMoves DEF Next

\* How a step may change the status of one item, and which worker does it.
ItemMoves(f, s) ==
  LET old == item[f][s].status  new == item'[f][s].status IN
  \/ new = old
  \/ old = "none" /\ (new = "proposed" \/ (new = "ready" /\ Needs(s) = {}))
  \/ old = "proposed" /\ new = "ready"
     /\ \E w \in Worker : /\ worker[w].pc = "promote" /\ worker[w].flow = f /\ s \in worker[w].snap
                          /\ worker'[w].pc = "promote" /\ s \notin worker'[w].snap
  \/ old = "ready" /\ new = "in_progress"
  \/ old = "in_progress" /\ new \in {"ready", "awaiting", "completed", "failed"}
     /\ \E w \in Worker : /\ worker[w].pc = "await" /\ worker[w].flow = f /\ Decided(w).target = s
                          /\ worker'[w].pc # "await"
  \/ old = "awaiting" /\ new \in {"completed", "failed"}

\* Every step moves the items along this table.
LEMMA ItemSteps ==
  ASSUME TypeInv, Snap, Awaiting, [Next]_vars, NEW g \in Flow, NEW x \in Step \union {Review}
  PROVE  ItemMoves(g, x)
<1>0. item \in Items /\ worker \in [Worker -> WorkerType] /\ starter \in StarterType
  BY TypeParts DEF TypeInv, Rows
<1>1. ASSUME UNCHANGED item
      PROVE  ItemMoves(g, x)
  BY <1>1 DEF ItemMoves
<1>s. ASSUME NEW f, NEW s, NEW status \in ItemStatus, SetItem(f, s, status)
      PROVE  item'[g][x].status = IF g = f /\ x = s THEN status ELSE item[g][x].status
  <2>1. item'[g][x] = IF g = f /\ x = s THEN [item[g][x] EXCEPT !.status = status] ELSE item[g][x]
    BY <1>0, <1>s, ItemSet
  <2>2. item[g][x] \in ItemType
    BY <1>0 DEF Items
  <2> QED BY <2>1, <2>2 DEF ItemType
<1>2. CASE Compile
  <2>1. \/ item'[g][x] = item[g][x]
        \/ /\ item[g][x].status = "none"
           /\ item'[g][x] = [item[g][x] EXCEPT !.status = IF Needs(x) = {} THEN "ready" ELSE "proposed"]
    <3>1. DOMAIN item = Flow /\ DOMAIN item[g] = Step \union {Review}
      BY <1>0 DEF Items
    <3>2. item'[g] = IF g = starter.flow
             THEN [s \in Step \union {Review} |->
                     IF s \in Step /\ item[g][s].status = "none"
                     THEN [item[g][s] EXCEPT !.status = IF Needs(s) = {} THEN "ready" ELSE "proposed"]
                     ELSE item[g][s]]
             ELSE item[g]
      BY <1>2, <3>1 DEF Compile
    <3> QED BY <3>2
  <2>2. item[g][x] \in ItemType
    BY <1>0 DEF Items
  <2>3. \A st : [item[g][x] EXCEPT !.status = st].status = st
    BY <2>2 DEF ItemType
  <2>4. PICK st : st = IF Needs(x) = {} THEN "ready" ELSE "proposed"
    OBVIOUS
  <2>5. item'[g][x].status = item[g][x].status \/ (item[g][x].status = "none" /\ item'[g][x].status = st)
    BY <2>1, <2>3, <2>4
  <2> QED BY <2>4, <2>5 DEF ItemMoves
<1>3. ASSUME NEW w \in Worker, NEW s \in Step \union {Review}, Promote(w, s)
      PROVE  ItemMoves(g, x)
  <2>1. item'[g][x].status = IF g = worker[w].flow /\ x = s THEN "ready" ELSE item[g][x].status
    BY <1>3, <1>s DEF Promote, ItemStatus
  <2>2. worker[w].pc = "promote" /\ s \in worker[w].snap /\ Status(worker[w].flow, s) = "proposed"
    BY <1>3 DEF Promote, Snap, Ripe, At
  <2>3. worker'[w].pc = "promote" /\ worker'[w].snap = worker[w].snap \ {s}
    BY <1>0, <1>3, <2>2 DEF Promote, WorkerType
  <2> QED BY <2>1, <2>2, <2>3 DEF ItemMoves, Status
<1>4. ASSUME NEW w \in Worker, Execute(w)
      PROVE  ItemMoves(g, x)
  <2> DEFINE f == worker[w].flow  s == Decided(w).target
  <2>1. CASE Status(f, s) = "ready" /\
             item' = [item EXCEPT ![f][s] = [status |-> "in_progress", tries |-> @.tries + 1]]
    <3>1. item'[g][x] = item[g][x] \/ (g = f /\ x = s /\ item'[g][x].status = "in_progress")
      BY <1>0, <2>1 DEF Items
    <3> QED BY SMTT(30), <2>1, <3>1 DEF ItemMoves, Status
  <2>2. CASE UNCHANGED item
    BY <1>1, <2>2
  <2> QED BY <1>4, <2>1, <2>2 DEF Execute
<1>5. ASSUME NEW w \in Worker, Executed(w)
      PROVE  ItemMoves(g, x)
  <2> DEFINE f == worker[w].flow  s == Decided(w).target
  <2>1. PICK o \in Outcomes(f, s) : SetItem(f, s, o)
    BY <1>5 DEF Executed
  <2>2. o \in {"ready", "awaiting", "completed", "failed"} /\ o \in ItemStatus
    BY DEF Outcomes, ItemStatus
  <2>3. item'[g][x].status = IF g = f /\ x = s THEN o ELSE item[g][x].status
    BY <1>s, <2>1, <2>2
  <2>4. worker[w].pc = "await" /\ Status(f, s) = "in_progress"
    BY <1>5 DEF Executed, At, Awaiting
  <2>5. worker'[w].pc # "await"
    BY <1>0, <1>5 DEF Executed, Throw, Goto, WorkerType
  <2> QED BY <2>2, <2>3, <2>4, <2>5 DEF ItemMoves, Status
<1>6. ASSUME NEW f \in Flow, NEW s \in Step, Decision(f, s)
      PROVE  ItemMoves(g, x)
  <2>1. PICK o \in {"completed", "failed"} : SetItem(f, s, o)
    BY <1>6 DEF Decision
  <2>2. item'[g][x].status = IF g = f /\ x = s THEN o ELSE item[g][x].status
    BY <1>s, <2>1 DEF ItemStatus
  <2> QED BY <1>6, <2>1, <2>2 DEF ItemMoves, Status, Decision
<1>7. ASSUME NEW w \in Worker, ScheduleReview(w)
      PROVE  ItemMoves(g, x)
  <2> DEFINE f == worker[w].flow + 1
  <2>1. CASE Status(f, Review) = "none" /\ SetItem(f, Review, "proposed")
    <3>1. item'[g][x].status = IF g = f /\ x = Review THEN "proposed" ELSE item[g][x].status
      BY <1>s, <2>1 DEF ItemStatus
    <3>2. g = f /\ x = Review => item[g][x].status = "none"
      BY <2>1 DEF Status
    <3> HIDE DEF f
    <3> QED BY <3>1, <3>2 DEF ItemMoves
  <2>2. CASE UNCHANGED item
    BY <1>1, <2>2
  <2> QED BY <1>7, <2>1, <2>2 DEF ScheduleReview
<1>8. ASSUME NEW w \in Worker, Tick(w), \A s \in Step \union {Review} : ~Promote(w, s)
      PROVE  UNCHANGED item
  BY <1>8 DEF Tick, Enter, ReadRun, ListItems, Decide, Propose, Load, Bump, Mark, Wait, Complete,
     CreateEscalation, Block, Dispatch, Settle, Unwind
<1>9. ASSUME NEW w \in Worker, Work(w) \/ Poll(w) \/ Crash(w)
      PROVE  Execute(w) \/ Executed(w) \/ ScheduleReview(w) \/ UNCHANGED item
  BY <1>9 DEF Work, Poll, Crash, Queue, Finalize, FinishWakeup, Claim, RecoverClaim, EnqueueDue
<1>10. ASSUME Start \/ CrashStarter \/ FallDue \/ ExpireLease \/ UNCHANGED vars
       PROVE  Compile \/ UNCHANGED item
  BY <1>10 DEF Start, BeginStart, Point, ProposeStart, LoadStart, BumpStart, MarkStart, Announce,
     CrashStarter, FallDue, ExpireLease, vars
<1> QED BY <1>1, <1>2, <1>3, <1>4, <1>5, <1>6, <1>7, <1>8, <1>9, <1>10 DEF Next, Settlement

\* How a worker comes to promote or to await: it lists the ripe items of its workflow, and it
\* takes up the ready item its decision names.
WorkerMoved(w) ==
  /\ worker'[w].pc = "promote" =>
       \/ /\ worker[w].pc = "promote" /\ worker'[w].flow = worker[w].flow
          /\ worker'[w].snap \subseteq worker[w].snap
       \/ /\ UNCHANGED item
          /\ worker'[w].snap = {s \in StepsOf(worker'[w].flow) : Ripe(worker'[w].flow, s)}
  /\ worker'[w].pc = "await" =>
       /\ worker'[w].flow = worker[w].flow /\ worker'[w].seq = worker[w].seq
       /\ worker[w].seq <= LastVersion /\ ~Free(worker[w].seq)
       /\ \/ worker[w].pc = "await"
          \/ /\ worker[w].pc = "execute" /\ Decided(w).flow = worker[w].flow
             /\ Status(worker[w].flow, Decided(w).target) = "ready"
             /\ item'[worker[w].flow][Decided(w).target].status = "in_progress"

\* Every step moves the workers like this.
LEMMA WorkerSteps ==
  ASSUME TypeInv, [Next]_vars, NEW w \in Worker
  PROVE  WorkerMoved(w)
<1>0. item \in Items /\ worker \in [Worker -> WorkerType] /\ worker[w] \in WorkerType
  BY TypeParts DEF TypeInv, Rows
<1>d. worker[w].pc \in {"execute", "await"} => worker[w].seq <= LastVersion /\ ~Free(worker[w].seq)
  BY DEF TypeInv, Placed, Deciding
<1>1. ASSUME worker'[w] = worker[w]
      PROVE  WorkerMoved(w)
  BY <1>1, <1>d DEF WorkerMoved
<1>2. ASSUME worker'[w].pc \notin {"promote", "await"}
      PROVE  WorkerMoved(w)
  BY <1>2 DEF WorkerMoved
<1>3. CASE ListItems(w)
  <2>1. /\ worker'[w].pc = "promote" /\ worker'[w].flow = worker[w].flow /\ UNCHANGED item
        /\ worker'[w].snap = {s \in StepsOf(worker[w].flow) : Ripe(worker[w].flow, s)}
    BY <1>0, <1>3 DEF ListItems, WorkerType
  <2> QED BY <2>1 DEF WorkerMoved
<1>4. ASSUME NEW s \in Step \union {Review}, Promote(w, s)
      PROVE  WorkerMoved(w)
  <2>1. /\ worker[w].pc = "promote" /\ worker'[w].pc = "promote" /\ worker'[w].flow = worker[w].flow
        /\ worker'[w].snap = worker[w].snap \ {s}
    BY <1>0, <1>4 DEF Promote, WorkerType, At
  <2> QED BY <2>1 DEF WorkerMoved
<1>5. CASE Execute(w)
  <2> DEFINE f == worker[w].flow  s == Decided(w).target
  <2>1. CASE /\ Decided(w).flow = f /\ Status(f, s) = "ready"
             /\ item' = [item EXCEPT ![f][s] = [status |-> "in_progress", tries |-> @.tries + 1]]
             /\ Goto(w, "await")
    <3>1. f \in Flow /\ s \in Step \union {Review}
      <4>1. worker[w].seq \in 1 .. LastVersion /\ f \in Flow
        BY <1>0, <1>5, <1>d DEF Execute, At, WorkerType, TypeInv, Placed, Sited
      <4>2. decision[worker[w].seq] \in DecisionType
        BY <4>1, TypeParts DEF TypeInv, Rows
      <4> QED BY <4>1, <4>2 DEF Decided, DecisionType
    <3>2. item'[f][s].status = "in_progress"
      BY <1>0, <2>1, <3>1 DEF Items
    <3>3. /\ worker[w].pc = "execute" /\ worker'[w].pc = "await" /\ worker'[w].flow = f
          /\ worker'[w].seq = worker[w].seq
      BY <1>0, <1>5, <2>1 DEF Goto, WorkerType, Execute, At
    <3> QED BY <1>d, <2>1, <3>2, <3>3 DEF WorkerMoved
  <2>2. CASE Goto(w, "unwind")
    BY <1>0, <1>2, <2>2 DEF Goto, WorkerType
  <2> QED BY <1>5, <2>1, <2>2 DEF Execute, Throw
<1>6. CASE ReadRun(w) \/ Settle(w) \/ Unwind(w) \/ Decide(w)
  <2>1. worker'[w].pc \notin {"promote", "await"}
    BY <1>0, <1>6 DEF ReadRun, Settle, Unwind, Decide, Goto, AtRest, WorkerType
  <2> QED BY <1>2, <2>1
<1>7. ASSUME NEW pc, Goto(w, pc), pc \notin {"promote", "await"}
      PROVE  WorkerMoved(w)
  BY <1>0, <1>2, <1>7 DEF Goto, WorkerType
<1>8. CASE Tick(w)
  <2>1. CASE Enter(w) \/ Propose(w) \/ Load(w) \/ Bump(w) \/ Mark(w) \/ Wait(w) \/ Complete(w)
             \/ CreateEscalation(w) \/ Block(w) \/ Dispatch(w)
    BY <1>7, <2>1 DEF Enter, Propose, Load, Bump, Mark, Wait, Complete, CreateEscalation, Block,
       Dispatch, Throw
  <2> QED BY <1>3, <1>4, <1>6, <1>8, <2>1 DEF Tick
<1>9. CASE Work(w)
  <2>1. CASE Executed(w) \/ Queue(w) \/ Finalize(w) \/ ScheduleReview(w)
    BY <1>7, <2>1 DEF Executed, Queue, Finalize, ScheduleReview, Throw
  <2>2. CASE FinishWakeup(w)
    BY <1>0, <1>2, <2>2 DEF FinishWakeup, AtRest
  <2> QED BY <1>5, <1>9, <2>1, <2>2 DEF Work
<1>10. CASE Poll(w) \/ Crash(w)
  <2>1. ASSUME NEW k \in Key, Claim(w, k)
        PROVE  WorkerMoved(w)
    BY <1>0, <1>2, <2>1 DEF Claim, AtRest
  <2>2. CASE EnqueueDue(w) \/ \E k \in Key : RecoverClaim(w, k)
    BY <1>1, <2>2 DEF EnqueueDue, RecoverClaim
  <2>3. CASE Crash(w)
    BY <1>0, <1>2, <2>3 DEF Crash, AtRest
  <2> QED BY <1>10, <2>1, <2>2, <2>3 DEF Poll
<1> QED BY <1>1, <1>8, <1>9, <1>10, OneMoves

\* What is completed stays completed, and an item is executed until its worker is through.
LEMMA ItemsKept ==
  ASSUME TypeInv, Snap, Awaiting, [Next]_vars, NEW f \in Flow, NEW s \in Step \union {Review}
  PROVE  Status(f, s) = "completed" => item'[f][s].status = "completed"
BY ItemSteps DEF ItemMoves, Status

\* What a step depends on is another step of the definition.
LEMMA NeedsAreSteps ==
  \A f \in Flow : \A s \in StepsOf(f) : s \in Step \union {Review} /\ Needs(s) \subseteq Step
BY DependsAssumption DEF StepsOf, Needs

\* Promotion under the lease: nothing that a tick is about to promote is overtaken.
LEMMA SnapNext ==
  ASSUME OrderInv, [Next]_vars
  PROVE  Snap'
<1> SUFFICES ASSUME NEW w \in Worker, worker'[w].pc = "promote", NEW s \in worker'[w].snap,
                    NEW f, f = worker'[w].flow
             PROVE  s \in StepsOf(f) /\ Ripe(f, s)'
  BY DEF Snap, Ripe, Status
<1>0. worker[w].flow \in 0 .. LastFlow /\ TypeInv /\ Snap /\ Awaiting /\ Held
  BY TypeParts DEF OrderInv, TypeInv, WorkerType
<1>2. CASE UNCHANGED item /\ worker'[w].snap = {x \in StepsOf(f) : Ripe(f, x)}
  BY <1>2 DEF Ripe, Status
<1>3. CASE worker[w].pc = "promote" /\ f = worker[w].flow /\ worker'[w].snap \subseteq worker[w].snap
  <2>1. s \in StepsOf(f) /\ Ripe(f, s) /\ f \in Flow
    BY <1>0, <1>3 DEF Snap, TypeInv, Placed, Sited
  <2>2. s \in Step \union {Review} /\ Needs(s) \subseteq Step
    BY <2>1, NeedsAreSteps
  <2>3. \A d \in Needs(s) : item'[f][d].status = "completed"
    BY <1>0, <2>1, <2>2, ItemsKept DEF Ripe
  <2>4. item'[f][s].status = "proposed"
    <3>1. SUFFICES ASSUME NEW v \in Worker, worker[v].pc = "promote", worker'[v].pc = "promote",
                          s \notin worker'[v].snap
                   PROVE  FALSE
      BY <1>0, <2>1, <2>2, ItemSteps DEF ItemMoves, Ripe, Status
    <3>2. lease.holder = v /\ lease.holder = w
      BY <1>0, <1>3, <3>1 DEF Held, TickingPC, TickPC
    <3> QED BY <3>1, <3>2
  <2> QED BY <2>1, <2>3, <2>4 DEF Ripe, Status
<1> QED BY <1>0, <1>2, <1>3, WorkerSteps DEF WorkerMoved

\* A worker that awaits its item is alone with it.
LEMMA AwaitingNext ==
  ASSUME OrderInv, [Next]_vars
  PROVE  Awaiting' /\ Sole'
<1>0. TypeInv /\ Snap /\ Awaiting /\ Sole /\ worker \in [Worker -> WorkerType]
  BY TypeParts DEF OrderInv, TypeInv
<1> DEFINE Target(w) == decision[worker[w].seq].target
<1>1. ASSUME NEW w \in Worker, worker'[w].pc = "await"
      PROVE  /\ worker'[w].flow = worker[w].flow /\ worker[w].flow \in Flow
             /\ Target(w) \in Step \union {Review}
             /\ decision'[worker'[w].seq].target = Target(w)
             /\ decision'[worker'[w].seq].flow = worker[w].flow
             /\ item'[worker[w].flow][Target(w)].status = "in_progress"
             /\ \/ worker[w].pc = "await" /\ Status(worker[w].flow, Target(w)) = "in_progress"
                \/ worker[w].pc = "execute" /\ Status(worker[w].flow, Target(w)) = "ready"
  <2>1. /\ worker'[w].flow = worker[w].flow /\ worker'[w].seq = worker[w].seq
        /\ worker[w].pc \in {"await", "execute"} /\ worker[w].seq <= LastVersion /\ ~Free(worker[w].seq)
        /\ worker[w].pc = "execute" => /\ Decided(w).flow = worker[w].flow
                                       /\ Status(worker[w].flow, Decided(w).target) = "ready"
                                       /\ item'[worker[w].flow][Decided(w).target].status = "in_progress"
    BY <1>0, <1>1, WorkerSteps DEF WorkerMoved
  <2>2. worker[w].seq \in 1 .. LastVersion /\ worker[w].flow \in Flow
    BY <1>0, <2>1 DEF WorkerType, TypeInv, Placed, Sited
  <2>3. Target(w) \in Step \union {Review}
    BY <2>2, TypeParts DEF TypeInv, OrderInv, Rows, DecisionType
  <2>4. decision'[worker[w].seq].target = Target(w) /\ decision'[worker[w].seq].flow = Decided(w).flow
    BY <1>0, <2>1, <2>2, DecisionsNext DEF DecisionsKept, Free, Decided
  <2>5. CASE worker[w].pc = "execute"
    BY <2>1, <2>2, <2>3, <2>4, <2>5 DEF Decided
  <2>6. CASE worker[w].pc = "await"
    <3>1. Decided(w).flow = worker[w].flow /\ Status(worker[w].flow, Target(w)) = "in_progress"
      BY <1>0, <2>6 DEF Awaiting, Decided
    <3>2. item'[worker[w].flow][Target(w)].status = "in_progress"
      <4>1. SUFFICES ASSUME NEW v \in Worker, worker[v].pc = "await", worker[v].flow = worker[w].flow,
                            Decided(v).target = Target(w), worker'[v].pc # "await"
                     PROVE  FALSE
        BY <1>0, <2>2, <2>3, <3>1, ItemSteps DEF ItemMoves, Status
      <4>2. v = w
        BY <1>0, <2>6, <4>1 DEF Sole, Decided
      <4> QED BY <1>1, <4>1, <4>2
    <3> QED BY <2>1, <2>2, <2>3, <2>4, <2>6, <3>1, <3>2
  <2> QED BY <2>1, <2>5, <2>6
<1>2. Awaiting'
  BY <1>1 DEF Awaiting, Decided, Status
<1>3. ASSUME NEW v \in Worker, NEW w \in Worker, worker'[v].pc = "await", worker'[w].pc = "await",
             worker[v].flow = worker[w].flow, Target(v) = Target(w), v # w
      PROVE  FALSE
  <2>1. worker[v].pc = "await" /\ worker[w].pc = "await" => FALSE
    BY <1>0, <1>3 DEF Sole, Decided
  <2>2. worker[v].pc = "execute" /\ worker[w].pc = "execute" => FALSE
    BY <1>0, <1>3, OneMoves
  <2> QED BY <1>1, <1>3, <2>1, <2>2
<1>4. Sole'
  BY <1>1, <1>3 DEF Sole, Decided
<1> QED BY <1>2, <1>4

\* What a step moves into the hands of workers had all it depends on completed.
LEMMA StepsNext ==
  ASSUME OrderInv, [Next]_vars
  PROVE  StepsInOrder'
<1> SUFFICES ASSUME NEW f \in Flow, NEW s \in StepsOf(f), NEW d \in Needs(s),
                    item'[f][s].status \in {"ready", "in_progress", "awaiting", "completed"}
             PROVE  item'[f][d].status = "completed"
  BY DEF StepsInOrder, Status
<1>0. TypeInv /\ Snap /\ Awaiting /\ StepsInOrder
  BY DEF OrderInv
<1>1. s \in Step \union {Review} /\ d \in Step
  BY NeedsAreSteps
<1>2. Status(f, d) = "completed"
  <2>1. ItemMoves(f, s)
    BY <1>0, <1>1, ItemSteps
  <2>2. CASE Status(f, s) \in {"ready", "in_progress", "awaiting", "completed"}
    BY <1>0, <2>2 DEF StepsInOrder
  <2>3. CASE Status(f, s) = "proposed"
    BY <1>0, <2>1, <2>3 DEF ItemMoves, Status, Snap, Ripe
  <2> QED BY <2>1, <2>2, <2>3 DEF ItemMoves, Status
<1> QED BY <1>0, <1>1, <1>2, ItemsKept

\* At first nothing was taken up and nobody is at work.
LEMMA OrderInit == ~Overruns /\ Init => OrderInv
<1> SUFFICES ASSUME ~Overruns, Init PROVE OrderInv
  OBVIOUS
<1>1. \A w \in Worker : worker[w].pc = "idle"
  BY DEF Init, AtRest
<1>2. \A f \in Flow, s \in Step \union {Review} : Status(f, s) = "none"
  BY DEF Init, Status
<1>3. Held /\ Snap /\ Awaiting /\ Sole
  BY <1>1 DEF Held, Snap, Awaiting, Sole, TickingPC, TickPC
<1>4. StepsInOrder
  BY <1>2, NeedsAreSteps DEF StepsInOrder
<1> QED BY <1>3, <1>4, TypeInit DEF OrderInv

\* As long as no tick outlives its lease, every step keeps OrderInv.
LEMMA OrderNext == OrderInv /\ [Next]_vars => OrderInv'
BY TypeNext, HeldNext, SnapNext, AwaitingNext, StepsNext DEF OrderInv

\* As long as no tick outlives its lease: what is ready, at work, checked or completed had all it
\* depends on completed, however many workers tick and whatever dies in between.
THEOREM OrderKept == ~Overruns => (Spec => []StepsInOrder)
<1>1. OrderInv => StepsInOrder
  BY DEF OrderInv
<1> QED BY OrderInit, OrderNext, <1>1, PTL DEF Spec

\* As long as no tick outlives its lease: no promotion, execution or late decision reopens what
\* is completed.
THEOREM CompletedStays == ~Overruns => (Spec => CompletedItemsStay)
<1> DEFINE Final == \A f \in Flow : \A s \in StepsOf(f) :
                      Status(f, s) = "completed" => item'[f][s].status = "completed"
<1>1. OrderInv /\ [Next]_vars => [Final]_vars
  <2> SUFFICES ASSUME OrderInv, [Next]_vars PROVE Final
    OBVIOUS
  <2> QED BY ItemsKept, NeedsAreSteps DEF OrderInv
<1>2. [][Final]_vars => CompletedItemsStay
  BY DEF CompletedItemsStay
<1> HIDE DEF Final
<1> QED BY OrderInit, OrderNext, <1>1, <1>2, PTL DEF Spec

-----------------------------------------------------------------------------
(* A completed run has completed its items: for a process without a        *)
(* schedule, started by a command that waits for the end of the one before. *)

Undecided == {"none", "start_process"}
Front == {"list", "promote", "propose", "load", "bump"}
Back == {"mark", "effect", "block"}

\* No decision on the work is waiting to be applied.
NonePending == \A n \in 1 .. LastVersion : n > run.version => decision[n].action \in Undecided

\* Before its decision is applied, a tick looks at the workflow the run points to, for the
\* version that comes next or one that a start decision has taken; after that no decision is
\* pending. Neither goes on beside the end of the run.
TickFits(w) ==
  /\ worker[w].pc # "review"
  /\ worker[w].pc \in Front =>
       /\ worker[w].flow = run.flow /\ run.status \notin Ended
       /\ \/ worker[w].seq = run.version + 1
          \/ worker[w].seq <= run.version /\ Decided(w).action = "start_process"
  /\ worker[w].pc = "propose" =>
       /\ worker[w].plan[1] # "start_process"
       /\ worker[w].plan[1] = "complete" => AllCompleted(worker[w].flow)
  /\ worker[w].pc \in {"load", "bump"} => Decided(w).action # "start_process"
  /\ worker[w].pc = "mark" => worker[w].seq <= run.version
  /\ worker[w].pc \in Back => NonePending /\ run.status \notin Ended
  /\ worker[w].pc \in {"mark", "effect"} =>
       (Decided(w).action = "complete" => Decided(w).flow = run.flow)

\* A decision to complete was made when all was completed.
Truthful == \A n \in 1 .. LastVersion : decision[n].action = "complete" =>
  decision[n].flow \in Flow /\ AllCompleted(decision[n].flow)
\* At most the decision of the next version is pending, and it is about this workflow.
Pending == \A n \in 1 .. LastVersion : n > run.version =>
  \/ decision[n].action \in Undecided
  \/ n = run.version + 1 /\ (decision[n].action = "complete" => decision[n].flow = run.flow)
\* What was applied was applied to a version.
Applied == \A n \in 1 .. LastVersion : decision[n].status = "applied" =>
  n <= run.version \/ decision[n].action = "start_process"
\* The command moves the run to its workflow only from none or after the end.
Pointing ==
  /\ run.flow <= starter.flow
  /\ starter.pc \in {"compile", "point"} =>
       starter.flow = run.flow \/ run.flow = 0 \/ run.status \in Ended

RunFits == /\ Truthful /\ Pending /\ Applied /\ Pointing
           /\ run.status \in Ended => NonePending /\ run.flow # 0

DoneInv == /\ ~Recurring /\ ~Impatient /\ OrderInv
           /\ (\A w \in Worker : TickFits(w)) /\ RunFits /\ CompletedMeansDone

\* Completed workflows stay completed.
CompletedKept == \A f \in Flow : AllCompleted(f) => \A s \in StepsOf(f) : item'[f][s].status = "completed"

\* Every step keeps completed workflows.
LEMMA WorkflowsKept == OrderInv /\ [Next]_vars => CompletedKept
BY ItemsKept, NeedsAreSteps DEF CompletedKept, AllCompleted, OrderInv

\* What may happen to the run beside a tick: a start decision is inserted or applied, and
\* nothing else.
Beside ==
  /\ run'.flow = run.flow /\ run'.status \notin Ended
  /\ \/ run'.version = run.version
     \/ /\ run'.version = run.version + 1 /\ run'.version \in 1 .. LastVersion
        /\ decision[run'.version].action = "start_process"
  /\ \A n \in 1 .. LastVersion : decision'[n].action = decision[n].action \/ decision'[n].action = "start_process"

\* A tick that does not move stays fit beside such steps.
LEMMA TickKept ==
  ASSUME DoneInv, DecisionsKept, CompletedKept, NEW w \in Worker, worker'[w] = worker[w],
         worker[w].pc \in Front \union Back => Beside
  PROVE  TickFits(w)'
<1>0. TickFits(w) /\ TypeInv /\ worker[w] \in WorkerType /\ run \in RunType
  BY TypeParts DEF DoneInv, OrderInv, TypeInv, Rows
<1>1. CASE worker[w].pc \notin Front \union Back
  BY <1>0, <1>1 DEF TickFits, Front, Back
<1>2. CASE worker[w].pc \in Back
  <2>1. worker[w].seq \in 1 .. LastVersion /\ decision[worker[w].seq] # NoDecision
    BY <1>0, <1>2 DEF TypeInv, Placed, Deciding, Back, Free, WorkerType
  <2>2. NonePending'
    BY <1>0, <1>2 DEF TickFits, NonePending, Beside, Undecided, RunType
  <2>3. Beside /\ run'.version >= run.version
    BY <1>0, <1>2 DEF Beside, RunType
  <2>4. decision'[worker[w].seq].action = decision[worker[w].seq].action
        /\ decision'[worker[w].seq].flow = decision[worker[w].seq].flow
    BY <2>1 DEF DecisionsKept
  <2>5. worker[w].pc = "mark" => worker[w].seq <= run'.version
    BY <1>0, <2>1, <2>3 DEF TickFits, Beside, RunType
  <2> QED BY <1>0, <1>2, <2>2, <2>3, <2>4, <2>5 DEF TickFits, Front, Back, Decided, Beside
<1>3. CASE worker[w].pc \in Front
  <2>1. worker[w].seq \in 1 .. LastVersion + 1 /\ worker[w].flow \in Flow
    BY <1>0, <1>3 DEF TypeInv, Placed, Sited, Front, WorkerType
  <2>2. Beside
    BY <1>3
  <2>3. worker[w].pc \in {"load", "bump"} =>
          decision'[worker[w].seq].action = decision[worker[w].seq].action /\ worker[w].seq <= LastVersion
    BY <1>0, <2>1 DEF TypeInv, Placed, Deciding, Free, DecisionsKept
  <2>4. \/ worker[w].seq = run'.version + 1
        \/ worker[w].seq <= run'.version /\ decision'[worker[w].seq].action = "start_process"
    <3>1. CASE worker[w].seq <= run.version /\ Decided(w).action = "start_process"
      BY <1>0, <2>1, <2>2, <3>1 DEF Beside, RunType, Decided, Undecided
    <3>2. CASE worker[w].seq = run.version + 1
      BY <1>0, <2>1, <2>2, <3>2 DEF Beside, RunType
    <3> QED BY <1>0, <1>3, <3>1, <3>2 DEF TickFits
  <2>5. AllCompleted(worker[w].flow) => AllCompleted(worker[w].flow)'
    BY <2>1 DEF CompletedKept, AllCompleted, Status
  <2> QED BY <1>0, <1>3, <2>2, <2>3, <2>4, <2>5 DEF TickFits, Front, Back, Decided, Beside
<1> QED BY <1>1, <1>2, <1>3

\* A step that changes neither the run, but for the time it is due, nor the decisions.
LEMMA RunKept ==
  ASSUME DoneInv, CompletedKept, decision' = decision, starter' = starter,
         run'.flow = run.flow, run'.version = run.version, run'.status = run.status
  PROVE  RunFits' /\ CompletedMeansDone' /\ (run.status \notin Ended => Beside)
<1>0. RunFits /\ CompletedMeansDone /\ run \in RunType
  BY TypeParts DEF DoneInv, OrderInv, TypeInv, Rows
<1>1. \A f \in Flow : AllCompleted(f) => AllCompleted(f)'
  BY DEF CompletedKept, AllCompleted, Status
<1>2. NonePending' <=> NonePending
  BY DEF NonePending
<1>3. RunFits'
  BY <1>0, <1>1, <1>2 DEF RunFits, Truthful, Pending, Applied, Pointing
<1>4. CompletedMeansDone'
  <2>1. run.status = "completed" => AllCompleted(run.flow) /\ run.flow \in Flow
    BY <1>0 DEF RunFits, Ended, CompletedMeansDone, RunType
  <2>2. PICK f : f = run.flow
    OBVIOUS
  <2>3. run.status = "completed" => AllCompleted(f)'
    BY <1>1, <2>1, <2>2
  <2> QED BY <2>2, <2>3 DEF CompletedMeansDone, AllCompleted, Status
<1> QED BY <1>3, <1>4 DEF Beside

\* A step of worker w, beside which a tick of another worker stays fit.
LEMMA WorkerDone ==
  ASSUME DoneInv, [Next]_vars, NEW w \in Worker, \A v \in Worker \ {w} : worker'[v] = worker[v],
         TickFits(w)', RunFits', CompletedMeansDone',
         worker[w].pc \notin TickingPC => (run.status \notin Ended => Beside)
  PROVE  DoneInv'
<1>0. OrderInv' /\ DecisionsKept /\ CompletedKept
  BY OrderNext, DecisionsNext, WorkflowsKept DEF DoneInv, OrderInv
<1>1. ASSUME NEW v \in Worker \ {w}
      PROVE  TickFits(v)'
  <2>1. worker[v].pc \in Front \union Back => worker[v].pc \in TickingPC /\ run.status \notin Ended
    BY DEF DoneInv, TickFits, Front, Back, TickingPC, TickPC
  <2>2. worker[v].pc \in TickingPC => worker[w].pc \notin TickingPC
    BY <1>1 DEF DoneInv, OrderInv, Held
  <2> QED BY <1>0, <1>1, <2>1, <2>2, TickKept
<1> QED BY <1>0, <1>1 DEF DoneInv

\* The steps of a tick keep DoneInv.
LEMMA TickDone ==
  ASSUME DoneInv, [Next]_vars, NEW w \in Worker, Tick(w), \A v \in Worker \ {w} : worker'[v] = worker[v]
  PROVE  DoneInv'
<1>0. /\ worker \in [Worker -> WorkerType] /\ worker[w] \in WorkerType /\ run \in RunType
      /\ decision \in [1 .. LastVersion -> DecisionType]
      /\ RunFits /\ CompletedMeansDone /\ TickFits(w) /\ TypeInv
  BY TypeParts DEF DoneInv, OrderInv, TypeInv, Rows
<1>k. OrderInv /\ OrderInv' /\ DecisionsKept /\ CompletedKept
  BY OrderNext, DecisionsNext, WorkflowsKept DEF DoneInv, OrderInv
<1>c. \A f \in Flow : AllCompleted(f) => AllCompleted(f)'
  BY <1>k DEF CompletedKept, AllCompleted, Status
<1>1. ASSUME UNCHANGED <<run, decision, starter>>, TickFits(w)'
      PROVE  DoneInv'
  BY <1>1, <1>k, RunKept, WorkerDone
<1>2. ASSUME UNCHANGED <<run, decision, starter>>, worker'[w].pc \notin Front \union Back \union {"review"}
      PROVE  DoneInv'
  <2>1. TickFits(w)'
    BY <1>2 DEF TickFits, Front, Back
  <2> QED BY <1>1, <1>2, <2>1
<1>3. CASE Enter(w) \/ Dispatch(w) \/ Settle(w) \/ Unwind(w)
  <2>1. worker'[w].pc \in {"read", "finish", "unwind", "settle", "execute", "finalize", "enter", "idle"}
    BY <1>0, <1>3 DEF Enter, Dispatch, Settle, Unwind, Goto, Throw, WorkerType, AtRest
  <2>2. UNCHANGED <<run, decision, starter>>
    BY <1>3 DEF Enter, Dispatch, Settle, Unwind
  <2> QED BY <1>2, <2>1, <2>2 DEF Front, Back
<1>4. CASE ReadRun(w)
  <2>1. CASE run.status \in Ended
    <3>1. worker'[w].pc = "finish" /\ UNCHANGED <<run, decision, starter>>
      BY <1>0, <1>4, <2>1 DEF ReadRun, Goto, WorkerType
    <3> QED BY <1>2, <3>1 DEF Front, Back
  <2>2. CASE run.status \notin Ended
    <3>1. /\ worker'[w].pc = "list" /\ worker'[w].seq = run.version + 1 /\ worker'[w].flow = run.flow
          /\ UNCHANGED <<run, decision, starter>>
      BY <1>0, <1>4, <2>2 DEF ReadRun, WorkerType
    <3>2. TickFits(w)'
      BY <2>2, <3>1 DEF TickFits, Front, Back
    <3> QED BY <1>1, <3>1, <3>2
  <2> QED BY <2>1, <2>2
<1>5. CASE ListItems(w) \/ \E s \in Step \union {Review} : Promote(w, s)
  <2>1. /\ worker[w].pc \in {"list", "promote"} /\ worker'[w].pc = "promote"
        /\ worker'[w].flow = worker[w].flow /\ worker'[w].seq = worker[w].seq
        /\ UNCHANGED <<run, decision, starter>>
    BY <1>0, <1>5 DEF ListItems, Promote, At, WorkerType
  <2>2. TickFits(w)'
    BY <1>0, <2>1 DEF TickFits, Front, Back, Decided
  <2> QED BY <1>1, <2>1, <2>2
<1>6. CASE Decide(w)
  <2>1. PICK c \in Choices(worker[w].flow) : worker' = [worker EXCEPT ![w].pc = "propose", ![w].plan = c]
    BY <1>6 DEF Decide
  <2>2. c[1] # "start_process" /\ (c[1] = "complete" => AllCompleted(worker[w].flow))
    BY DEF Choices
  <2>3. /\ worker[w].pc = "promote" /\ worker'[w].pc = "propose" /\ worker'[w].plan = c
        /\ worker'[w].flow = worker[w].flow /\ worker'[w].seq = worker[w].seq
        /\ UNCHANGED <<run, decision, starter, item>>
    BY <1>0, <1>6, <2>1 DEF Decide, At, WorkerType
  <2>4. AllCompleted(worker[w].flow) => AllCompleted(worker[w].flow)'
    BY <2>3 DEF AllCompleted, Status
  <2>5. TickFits(w)'
    BY <1>0, <2>2, <2>3, <2>4 DEF TickFits, Front, Back, Decided, AllCompleted, Status
  <2> QED BY <1>1, <2>3, <2>5
<1>7. CASE Propose(w)
  <2> DEFINE n == worker[w].seq
             d == [action |-> worker[w].plan[1], target |-> worker[w].plan[2],
                   flow |-> worker[w].flow, status |-> "proposed"]
  <2>1. /\ n \in 1 .. LastVersion /\ worker[w].pc = "propose" /\ worker[w].flow \in Flow
        /\ worker[w].flow = run.flow /\ run.status \notin Ended
        /\ n = run.version + 1 \/ (n <= run.version /\ decision[n].action = "start_process")
    BY <1>0, <1>7 DEF Propose, At, WorkerType, TickFits, Front, Decided, TypeInv, Placed, Sited
  <2>2. UNCHANGED <<run, starter, item>>
    BY <1>7 DEF Propose
  <2>3. CASE decision[n].action = "start_process"
    <3>1. decision' = decision /\ worker'[w].pc = "unwind"
      BY <1>0, <1>7, <2>3 DEF Propose, Free, NoDecision, Goto, WorkerType
    <3> QED BY <1>2, <2>2, <3>1 DEF Front, Back
  <2>4. CASE decision[n].action # "start_process"
    <3>1. /\ n = run.version + 1 /\ worker'[w].pc = "load"
          /\ worker'[w].flow = worker[w].flow /\ worker'[w].seq = n
      BY <1>0, <1>7, <2>1, <2>4 DEF Propose, Goto, WorkerType
    <3>2. d.action # "start_process" /\ (d.action = "complete" => AllCompleted(worker[w].flow))
          /\ d.flow = run.flow /\ d.status = "proposed"
      BY <1>0, <2>1 DEF TickFits
    <3>3. decision' = decision \/ decision' = [decision EXCEPT ![n] = d]
      BY <1>7 DEF Propose
    <3> HIDE DEF d
    <3>4. \A m \in 1 .. LastVersion : decision'[m] = decision[m] \/ (m = n /\ decision'[m] = d)
      BY <1>0, <3>3
    <3>5. Truthful'
      <4>1. \A m \in 1 .. LastVersion : decision'[m].action = "complete" =>
              decision'[m].flow \in Flow /\ AllCompleted(decision'[m].flow)
        BY <1>0, <2>1, <3>2, <3>4 DEF RunFits, Truthful
      <4> QED BY <4>1, <2>2 DEF Truthful, AllCompleted, Status
    <3>6. Pending' /\ Applied' /\ Pointing'
      BY <1>0, <2>1, <2>2, <3>1, <3>2, <3>4 DEF RunFits, Pending, Applied, Pointing
    <3>7. RunFits' /\ CompletedMeansDone'
      BY <2>1, <2>2, <3>5, <3>6 DEF RunFits, CompletedMeansDone, Ended
    <3>8. TickFits(w)'
      BY <2>1, <2>2, <2>4, <3>1, <3>2, <3>4 DEF TickFits, Front, Back, Decided
    <3> QED BY <2>1, <3>7, <3>8, WorkerDone DEF TickingPC, TickPC
  <2> QED BY <2>3, <2>4
<1>8. CASE Load(w)
  <2>1. /\ worker[w].pc = "load" /\ worker[w].seq \in 1 .. LastVersion /\ UNCHANGED <<run, decision, starter>>
        /\ worker'[w].flow = worker[w].flow /\ worker'[w].seq = worker[w].seq
    BY <1>0, <1>8 DEF Load, At, WorkerType, Goto, TypeInv, Placed, Deciding
  <2>2. Decided(w).status # "applied"
    BY <1>0, <2>1 DEF TickFits, Front, RunFits, Applied, Decided, RunType
  <2>3. worker'[w].pc = "bump"
    BY <1>0, <1>8, <2>2 DEF Load, Goto, WorkerType
  <2>4. TickFits(w)'
    BY <1>0, <2>1, <2>3 DEF TickFits, Front, Back, Decided
  <2> QED BY <1>1, <2>1, <2>4
<1>9. CASE Bump(w)
  <2>1. CASE run.version = worker[w].seq - 1
    <3>1. /\ worker[w].pc = "bump" /\ worker[w].seq \in 1 .. LastVersion /\ worker[w].seq = run.version + 1
          /\ run.status \notin Ended /\ decision[worker[w].seq].action # "start_process"
      BY <1>0, <1>9, <2>1 DEF Bump, At, WorkerType, TypeInv, Placed, Deciding, TickFits, Front,
         Decided, RunType
    <3>2. /\ run'.version = worker[w].seq /\ run'.flow = run.flow /\ run'.status = run.status
          /\ UNCHANGED <<decision, starter, item>>
          /\ worker'[w].pc = "mark" /\ worker'[w].seq = worker[w].seq
      BY <1>0, <1>9, <2>1, <3>1 DEF Bump, RunType, WorkerType, Goto
    <3>3. NonePending'
      BY <1>0, <3>1, <3>2 DEF RunFits, Pending, NonePending, RunType
    <3>4. RunFits' /\ CompletedMeansDone'
      <4>1. Truthful'
        BY <1>0, <3>2 DEF RunFits, Truthful, AllCompleted, Status
      <4>2. Pending' /\ Applied' /\ Pointing'
        BY <1>0, <3>1, <3>2, <3>3 DEF RunFits, Pending, NonePending, Applied, Pointing, RunType
      <4> QED BY <3>1, <3>2, <4>1, <4>2 DEF RunFits, CompletedMeansDone, Ended
    <3>5. decision[worker[w].seq].action = "complete" => decision[worker[w].seq].flow = run.flow
      BY <1>0, <3>1 DEF RunFits, Pending, Undecided, RunType
    <3>6. TickFits(w)'
      BY <3>1, <3>2, <3>3, <3>5 DEF TickFits, Front, Back, Decided
    <3> QED BY <3>1, <3>4, <3>6, WorkerDone DEF TickingPC, TickPC
  <2>2. CASE run.version # worker[w].seq - 1
    <3>1. worker'[w].pc = "unwind" /\ UNCHANGED <<run, decision, starter>>
      BY <1>0, <1>9, <2>2 DEF Bump, Throw, Goto, WorkerType
    <3> QED BY <1>2, <3>1 DEF Front, Back
  <2> QED BY <2>1, <2>2
<1>10. CASE Mark(w)
  <2> DEFINE n == worker[w].seq
  <2>1. /\ n \in 1 .. LastVersion /\ worker[w].pc = "mark" /\ n <= run.version
        /\ worker'[w].pc = "effect" /\ worker'[w].seq = n
        /\ NonePending /\ run.status \notin Ended
        /\ UNCHANGED <<run, starter, item>>
    BY <1>0, <1>10 DEF Mark, At, WorkerType, Goto, TypeInv, Placed, Deciding, TickFits, Back
  <2>2. \A m \in 1 .. LastVersion : /\ decision'[m].action = decision[m].action
                                    /\ decision'[m].flow = decision[m].flow
                                    /\ m # n => decision'[m] = decision[m]
    <3>1. decision' = [decision EXCEPT ![n].status = "applied"]
      BY <1>10 DEF Mark
    <3>2. \A e \in DecisionType : LET m == [e EXCEPT !.status = "applied"] IN
            m.action = e.action /\ m.flow = e.flow
      BY DEF DecisionType
    <3>3. ASSUME NEW m \in 1 .. LastVersion
          PROVE  decision'[m] = IF m = n THEN [decision[m] EXCEPT !.status = "applied"] ELSE decision[m]
      BY <1>0, <3>1
    <3> QED BY <1>0, <3>2, <3>3
  <2>3. NonePending'
    BY <2>1, <2>2 DEF NonePending
  <2>4. Truthful'
    <3>1. \A m \in 1 .. LastVersion : decision'[m].action = "complete" =>
            decision'[m].flow \in Flow /\ AllCompleted(decision'[m].flow)
      BY <1>0, <2>2 DEF RunFits, Truthful
    <3> QED BY <2>1, <3>1 DEF Truthful, AllCompleted, Status
  <2>5. Pending' /\ Applied' /\ Pointing'
    BY <1>0, <2>1, <2>2, <2>3 DEF RunFits, Pending, NonePending, Applied, Pointing
  <2>6. RunFits' /\ CompletedMeansDone'
    BY <2>1, <2>4, <2>5 DEF RunFits, CompletedMeansDone, Ended
  <2>7. TickFits(w)'
    BY <1>0, <2>1, <2>2, <2>3 DEF TickFits, Front, Back, Decided
  <2> QED BY <2>1, <2>6, <2>7, WorkerDone DEF TickingPC, TickPC
<1>11. CASE CreateEscalation(w)
  <2>1. /\ worker[w].pc = "effect" /\ worker'[w].pc = "block" /\ UNCHANGED <<run, decision, starter>>
    BY <1>0, <1>11 DEF CreateEscalation, At, Goto, WorkerType
  <2>2. TickFits(w)'
    BY <1>0, <2>1 DEF TickFits, Front, Back, NonePending
  <2> QED BY <1>1, <2>1, <2>2
<1>12. CASE Wait(w) \/ Complete(w) \/ Block(w)
  <2>1. /\ worker[w].pc \in Back /\ worker[w].pc \in TickingPC /\ worker'[w].pc = "settle"
        /\ run'.flow = run.flow /\ run'.version = run.version
        /\ UNCHANGED <<decision, starter, item>>
    <3>1. worker[w].pc \in {"effect", "block"} /\ Goto(w, "settle") /\ UNCHANGED <<decision, starter, item>>
      BY <1>12 DEF Wait, Complete, Block, At
    <3>2. worker'[w].pc = "settle"
      BY <1>0, <3>1 DEF Goto, WorkerType
    <3>3. run'.flow = run.flow /\ run'.version = run.version
      BY <1>0, <1>12 DEF Wait, Complete, Block, RunType
    <3> QED BY <3>1, <3>2, <3>3 DEF Back, TickingPC, TickPC
  <2>2. NonePending' /\ run.status \notin Ended /\ run.flow # 0
    BY <1>0, <2>1 DEF TickFits, NonePending, TypeInv, Begun
  <2>3. run'.status = "completed" => AllCompleted(run.flow)
    <3>1. CASE Wait(w) \/ Block(w)
      BY <1>0, <3>1 DEF Wait, Block, RunType
    <3>2. CASE Complete(w)
      <4>1. worker[w].pc = "effect" /\ Decided(w).action = "complete" /\ worker[w].seq \in 1 .. LastVersion
        BY <1>0, <3>2 DEF Complete, At, TypeInv, Placed, Deciding, WorkerType
      <4> QED BY <1>0, <4>1 DEF TickFits, RunFits, Truthful, Decided
    <3> QED BY <1>12, <3>1, <3>2
  <2>4. RunFits'
    <3>1. Truthful'
      BY <1>0, <2>1 DEF RunFits, Truthful, AllCompleted, Status
    <3>2. Pending' /\ Applied' /\ Pointing'
      BY <1>0, <2>1, <2>2 DEF RunFits, Pending, NonePending, Applied, Pointing
    <3> QED BY <2>1, <2>2, <3>1, <3>2 DEF RunFits
  <2>5. CompletedMeansDone'
    BY <2>1, <2>3 DEF CompletedMeansDone, AllCompleted, Status
  <2>6. TickFits(w)'
    BY <2>1 DEF TickFits, Front, Back
  <2> QED BY <2>1, <2>4, <2>5, <2>6, WorkerDone
<1> QED BY <1>3, <1>4, <1>5, <1>6, <1>7, <1>8, <1>9, <1>10, <1>11, <1>12 DEF Tick

\* What a worker does after the tick, its polls and its death keep DoneInv.
LEMMA WorkDone ==
  ASSUME DoneInv, [Next]_vars, NEW w \in Worker, Work(w) \/ Poll(w) \/ Crash(w),
         \A v \in Worker \ {w} : worker'[v] = worker[v]
  PROVE  DoneInv'
<1>0. worker \in [Worker -> WorkerType] /\ worker[w] \in WorkerType /\ TickFits(w) /\ ~Recurring
  BY TypeParts DEF DoneInv, OrderInv, TypeInv
<1>k. CompletedKept
  BY WorkflowsKept DEF DoneInv
<1>1. ~ScheduleReview(w)
  BY <1>0 DEF ScheduleReview, At, TickFits
<1>2. UNCHANGED <<run, decision, starter>>
  BY <1>0, <1>1 DEF Work, Poll, Crash, Execute, Executed, Queue, Finalize, FinishWakeup, Claim,
     RecoverClaim,
     EnqueueDue
<1>3. worker'[w] = worker[w] \/ worker'[w].pc \notin Front \union Back \union {"review"}
  <2>1. ASSUME NEW pc \in {"await", "queue", "finish", "unwind"}, Goto(w, pc)
        PROVE  worker'[w].pc \notin Front \union Back \union {"review"}
    BY <1>0, <2>1 DEF Goto, WorkerType, Front, Back
  <2>2. CASE Execute(w) \/ Executed(w) \/ Queue(w) \/ Finalize(w)
    BY <1>0, <2>1, <2>2 DEF Execute, Executed, Queue, Finalize, Throw
  <2>3. CASE FinishWakeup(w) \/ Crash(w)
    BY <1>0, <2>3 DEF FinishWakeup, Crash, AtRest, Front, Back
  <2>4. ASSUME NEW k \in Key, Claim(w, k)
        PROVE  worker'[w].pc \notin Front \union Back \union {"review"}
    BY <1>0, <2>4 DEF Claim, AtRest, Front, Back
  <2>5. CASE EnqueueDue(w) \/ \E k \in Key : RecoverClaim(w, k)
    BY <2>5 DEF EnqueueDue, RecoverClaim
  <2> QED BY <1>1, <2>2, <2>3, <2>4, <2>5 DEF Work, Poll
<1>4. TickFits(w)'
  <2>1. CASE worker'[w] = worker[w]
    BY <1>0, <1>k, <1>2, <2>1, RunKept, TickKept, DecisionsNext DEF TickFits, DoneInv, OrderInv
  <2>2. CASE worker'[w].pc \notin Front \union Back \union {"review"}
    BY <2>2 DEF TickFits, Front, Back
  <2> QED BY <1>3, <2>1, <2>2
<1> QED BY <1>k, <1>2, <1>4, RunKept, WorkerDone

\* A step that moves no worker and beside which every tick stays fit.
LEMMA NobodyDone ==
  ASSUME DoneInv, [Next]_vars, UNCHANGED worker, RunFits', CompletedMeansDone',
         \A w \in Worker : worker[w].pc \in Front \union Back => Beside
  PROVE  DoneInv'
<1>1. OrderInv' /\ DecisionsKept /\ CompletedKept
  BY OrderNext, DecisionsNext, WorkflowsKept DEF DoneInv, OrderInv
<1> QED BY <1>1, TickKept DEF DoneInv

\* The command and the steps of nobody keep DoneInv.
LEMMA StartDone ==
  ASSUME DoneInv, [Next]_vars, Start \/ CrashStarter \/ Settlement \/ FallDue \/ ExpireLease \/ UNCHANGED vars
  PROVE  DoneInv'
<1>0. /\ starter \in StarterType /\ run \in RunType /\ decision \in [1 .. LastVersion -> DecisionType]
      /\ RunFits /\ CompletedMeansDone /\ TypeInv /\ ~Recurring /\ ~Impatient
  BY TypeParts DEF DoneInv, OrderInv, TypeInv, Rows
<1>k. CompletedKept /\ \A f \in Flow : AllCompleted(f) => AllCompleted(f)'
  BY WorkflowsKept DEF DoneInv, CompletedKept, AllCompleted, Status
<1>w. UNCHANGED worker
  BY DEF Start, BeginStart, Compile, Point, ProposeStart, LoadStart, BumpStart, MarkStart, Announce,
     CrashStarter, Settlement, Decision, FallDue, ExpireLease, vars
<1>f. \A w \in Worker : worker[w].pc \in Front \union Back =>
        worker[w].pc \in TickingPC /\ run.status \notin Ended /\ run.flow # 0
  BY <1>0 DEF DoneInv, TickFits, Front, Back, TickingPC, TickPC, TypeInv, Begun
<1>1. ASSUME Pointing', UNCHANGED decision, run'.flow = run.flow, run'.version = run.version,
             run'.status = run.status
      PROVE  DoneInv'
  <2>1. run'.status \notin Ended => Beside
    BY <1>1 DEF Beside
  <2>2. NonePending' <=> NonePending
    BY <1>1 DEF NonePending
  <2>3. RunFits'
    BY <1>0, <1>1, <1>k, <2>2 DEF RunFits, Truthful, Pending, Applied
  <2>4. CompletedMeansDone'
    <3>1. PICK f : f = run.flow
      OBVIOUS
    <3>2. run.status = "completed" => AllCompleted(f) /\ f \in Flow
      BY <1>0, <3>1 DEF RunFits, Ended, CompletedMeansDone, RunType
    <3> QED BY <1>1, <1>k, <3>1, <3>2 DEF CompletedMeansDone, AllCompleted, Status
  <2> QED BY <1>1, <1>f, <1>w, <2>1, <2>3, <2>4, NobodyDone
<1>2. ASSUME UNCHANGED <<decision, run>>, starter'.flow = starter.flow,
             starter'.pc \in {"compile", "point"} => starter.pc \in {"compile", "point"}
      PROVE  DoneInv'
  <2>1. Pointing'
    BY <1>0, <1>2 DEF RunFits, Pointing
  <2> QED BY <1>1, <1>2, <2>1
<1>m. \A pc : MoveStarter(pc) => starter'.pc = pc /\ starter'.flow = starter.flow
  BY <1>0 DEF MoveStarter, StarterType
<1>3. ASSUME NEW f \in Flow, BeginStart(f)
      PROVE  DoneInv'
  <2>1. /\ starter'.pc = "compile" /\ starter'.flow = f /\ UNCHANGED <<run, decision>>
        /\ starter.flow <= f /\ (f = 1 \/ run.flow = f \/ run.status \in Ended)
    BY <1>0, <1>3 DEF BeginStart, StarterType
  <2>2. Pointing'
    BY <1>0, <2>1 DEF RunFits, Pointing, StarterType, RunType
  <2> QED BY <1>1, <2>1, <2>2
<1>4. CASE Compile \/ LoadStart \/ Announce \/ CrashStarter
  <2>1. PICK pc \in {"point", "announce", "bump", "done", "idle"} : MoveStarter(pc)
    BY <1>4 DEF Compile, LoadStart, Announce, CrashStarter
  <2>2. pc = "point" => starter.pc \in {"compile", "point"}
    BY <1>4, <1>m, <2>1 DEF Compile, LoadStart, Announce, CrashStarter
  <2>3. UNCHANGED <<decision, run>>
    BY <1>4 DEF Compile, LoadStart, Announce, CrashStarter
  <2> QED BY <1>2, <1>m, <2>1, <2>2, <2>3
<1>5. CASE Settlement \/ FallDue \/ ExpireLease \/ UNCHANGED vars
  <2>1. UNCHANGED <<decision, starter>> /\ run'.flow = run.flow /\ run'.version = run.version
        /\ run'.status = run.status
    BY <1>0, <1>5 DEF Settlement, Decision, FallDue, ExpireLease, vars, RunType
  <2>2. Pointing'
    BY <1>0, <2>1 DEF RunFits, Pointing
  <2> QED BY <1>1, <2>1, <2>2
<1>6. CASE Point
  <2>1. /\ starter.pc = "point" /\ starter'.pc = "propose" /\ starter'.flow = starter.flow
        /\ run'.flow = starter.flow /\ run'.version = run.version /\ run'.status = "evaluating"
        /\ UNCHANGED <<decision, item>>
    BY <1>0, <1>6 DEF Point, StarterType, RunType
  <2>2. starter.flow = run.flow \/ run.flow = 0 \/ run.status \in Ended
    BY <1>0, <2>1 DEF RunFits, Pointing
  <2>3. starter.flow # run.flow =>
          \A n \in 1 .. LastVersion : n > run.version => decision[n].action \in Undecided \/ decision[n].action # "complete"
    BY <1>0, <2>2 DEF RunFits, Truthful, Pending, NonePending, Undecided
  <2>4. Truthful' /\ Applied' /\ Pointing'
    BY <1>0, <1>k, <2>1 DEF RunFits, Truthful, Applied, Pointing, StarterType
  <2>5. Pending'
    BY <1>0, <2>1, <2>3 DEF RunFits, Pending
  <2>6. RunFits' /\ CompletedMeansDone'
    BY <2>1, <2>4, <2>5 DEF RunFits, CompletedMeansDone, Ended
  <2>7. \A w \in Worker : worker[w].pc \in Front \union Back => Beside
    BY <1>f, <2>1, <2>2 DEF Beside, Ended
  <2> QED BY <1>w, <2>6, <2>7, NobodyDone
<1>7. CASE ProposeStart
  <2> DEFINE n == starter.ver + 1
             d == [NoDecision EXCEPT !.action = "start_process", !.flow = starter.flow, !.status = "proposed"]
  <2>1. d.action = "start_process"
    BY DEF NoDecision
  <2>2. UNCHANGED <<run, item>> /\ \E pc \in {"load", "idle"} : MoveStarter(pc)
    BY <1>7 DEF ProposeStart
  <2>3. (decision' = [decision EXCEPT ![n] = d]) \/ UNCHANGED decision
    BY <1>7 DEF ProposeStart
  <2> HIDE DEF d
  <2>4. \A m \in 1 .. LastVersion : decision'[m] = decision[m] \/ decision'[m].action = "start_process"
    BY <1>0, <2>1, <2>3
  <2>5. Truthful'
    BY <1>0, <1>k, <2>4 DEF RunFits, Truthful
  <2>6. Pending' /\ Applied' /\ (NonePending => NonePending')
    BY <1>0, <2>2, <2>4 DEF RunFits, Pending, Applied, Undecided, NonePending
  <2>7. Pointing'
    BY <1>0, <1>m, <2>2 DEF RunFits, Pointing
  <2>8. RunFits' /\ CompletedMeansDone'
    BY <1>0, <2>2, <2>5, <2>6, <2>7 DEF RunFits, CompletedMeansDone, AllCompleted, Status
  <2>9. \A w \in Worker : worker[w].pc \in Front \union Back => Beside
    BY <1>f, <2>2, <2>4 DEF Beside
  <2> QED BY <1>w, <2>8, <2>9, NobodyDone
<1>s. starter.pc \in {"load", "bump", "mark"} =>
        /\ StartSeq \in 1 .. LastVersion /\ decision[StartSeq].action = "start_process"
  BY <1>0 DEF StartSeq, StartsOf, TypeInv, StarterFit
<1>8. CASE BumpStart
  <2>1. CASE run.version # StartSeq - 1
    <3>1. MoveStarter("idle") /\ UNCHANGED <<decision, run>>
      BY <1>8, <2>1 DEF BumpStart
    <3> QED BY <1>2, <1>m, <3>1
  <2>2. CASE run.version = StartSeq - 1
    <3> DEFINE n == StartSeq
    <3>1. /\ n \in 1 .. LastVersion /\ n = run.version + 1 /\ decision[n].action = "start_process"
      BY <1>0, <1>8, <1>s, <2>2 DEF BumpStart, RunType
    <3>2. /\ run' = [run EXCEPT !.version = n] /\ MoveStarter("mark") /\ UNCHANGED <<decision, item>>
      BY <1>8, <2>2 DEF BumpStart
    <3> HIDE DEF n
    <3>3. run'.flow = run.flow /\ run'.status = run.status /\ run'.version = n
      BY <1>0, <3>2 DEF RunType
    <3>4. NonePending'
      BY <1>0, <3>1, <3>2, <3>3 DEF NonePending, RunFits, Pending, RunType
    <3>5. Truthful' /\ Pending' /\ Applied'
      BY <1>0, <1>k, <3>1, <3>2, <3>3, <3>4 DEF RunFits, Truthful, Pending, NonePending, Applied,
         RunType
    <3>6. Pointing'
      BY <1>0, <1>m, <3>2, <3>3 DEF RunFits, Pointing
    <3>7. RunFits' /\ CompletedMeansDone'
      BY <1>0, <3>2, <3>3, <3>4, <3>5, <3>6 DEF RunFits, CompletedMeansDone, AllCompleted, Status
    <3>8. \A w \in Worker : worker[w].pc \in Front \union Back => Beside
      BY <1>f, <3>1, <3>2, <3>3 DEF Beside
    <3> QED BY <1>w, <3>7, <3>8, NobodyDone
  <2> QED BY <2>1, <2>2
<1>9. CASE MarkStart
  <2> DEFINE n == StartSeq
  <2>1. /\ n \in 1 .. LastVersion /\ decision[n].action = "start_process"
    BY <1>9, <1>s DEF MarkStart
  <2>2. /\ decision' = [decision EXCEPT ![n].status = "applied"]
        /\ MoveStarter("announce") /\ UNCHANGED <<run, item>>
    BY <1>9 DEF MarkStart
  <2> HIDE DEF n
  <2>3. \A m \in 1 .. LastVersion : /\ decision'[m].action = decision[m].action
                                    /\ decision'[m].flow = decision[m].flow
                                    /\ m # n => decision'[m] = decision[m]
    <3>2. \A e \in DecisionType : LET m == [e EXCEPT !.status = "applied"] IN
            m.action = e.action /\ m.flow = e.flow
      BY DEF DecisionType
    <3>3. ASSUME NEW m \in 1 .. LastVersion
          PROVE  decision'[m] = IF m = n THEN [decision[m] EXCEPT !.status = "applied"] ELSE decision[m]
      BY <1>0, <2>2
    <3> QED BY <1>0, <3>2, <3>3
  <2>4. NonePending' <=> NonePending
    BY <2>2, <2>3 DEF NonePending
  <2>5. Truthful'
    <3>1. \A m \in 1 .. LastVersion : decision'[m].action = "complete" =>
            decision'[m].flow \in Flow /\ AllCompleted(decision'[m].flow)
      BY <1>0, <2>3 DEF RunFits, Truthful
    <3> QED BY <2>2, <3>1 DEF Truthful, AllCompleted, Status
  <2>6. Pending' /\ Applied' /\ Pointing'
    BY <1>0, <1>m, <2>1, <2>2, <2>3 DEF RunFits, Pending, Applied, Pointing
  <2>7. RunFits' /\ CompletedMeansDone'
    BY <1>0, <2>2, <2>4, <2>5, <2>6 DEF RunFits, CompletedMeansDone, AllCompleted, Status
  <2>8. \A w \in Worker : worker[w].pc \in Front \union Back => Beside
    BY <1>f, <2>2, <2>3 DEF Beside
  <2> QED BY <1>w, <2>7, <2>8, NobodyDone
<1> QED BY <1>3, <1>4, <1>5, <1>6, <1>7, <1>8, <1>9 DEF Start

\* At first the run points nowhere and no decision was made.
LEMMA DoneInit == ~Recurring /\ ~Impatient /\ ~Overruns /\ Init => DoneInv
<1> SUFFICES ASSUME ~Recurring, ~Impatient, ~Overruns, Init PROVE DoneInv
  OBVIOUS
<1>1. \A w \in Worker : worker[w].pc = "idle"
  BY DEF Init, AtRest
<1>2. \A n \in 1 .. LastVersion : decision[n].action = "none" /\ decision[n].status = "none"
  BY DEF Init, NoDecision
<1>3. run.flow = 0 /\ run.status = "idle" /\ starter.pc = "idle" /\ starter.flow = 0
  BY DEF Init
<1>4. RunFits
  BY <1>2, <1>3 DEF RunFits, Truthful, Pending, Applied, Pointing, Undecided, Ended
<1>5. \A w \in Worker : TickFits(w)
  BY <1>1 DEF TickFits, Front, Back
<1> QED BY <1>3, <1>4, <1>5, OrderInit DEF DoneInv, CompletedMeansDone

\* Every step keeps DoneInv.
LEMMA DoneNext == DoneInv /\ [Next]_vars => DoneInv'
<1> SUFFICES ASSUME DoneInv, [Next]_vars PROVE DoneInv'
  OBVIOUS
<1>1. ASSUME NEW w \in Worker, Tick(w) \/ Work(w) \/ Poll(w) \/ Crash(w),
             \A v \in Worker \ {w} : worker'[v] = worker[v]
      PROVE  DoneInv'
  BY <1>1, TickDone, WorkDone
<1>2. ASSUME NEW w \in Worker, Tick(w) \/ Work(w) \/ Poll(w) \/ Crash(w), UNCHANGED worker
      PROVE  DoneInv'
  BY <1>1, <1>2
<1>3. TypeInv
  BY DEF DoneInv, OrderInv
<1> QED BY <1>1, <1>2, <1>3, StartDone, OneMoves DEF Next

\* A process without a schedule, whose ticks keep to their lease and whose command waits for the
\* end of the one before: a completed run has completed all items of its workflow, although the
\* decision was made on an earlier reading, by a tick that may have died before it was applied.
THEOREM CompletedIsDone ==
  ~Recurring /\ ~Impatient /\ ~Overruns => (Spec => []CompletedMeansDone)
<1>1. DoneInv => CompletedMeansDone
  BY DEF DoneInv
<1> QED BY DoneInit, DoneNext, <1>1, PTL DEF Spec
====
