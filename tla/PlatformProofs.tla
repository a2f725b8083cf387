---------------------------- MODULE PlatformProofs ----------------------------
(***************************************************************************)
(* Safety of the loops, the live feed, the runs on remote machines, the    *)
(* upgrades of the database, the calls of gateways and of agents' command  *)
(* lines, the sessions and the sources of definitions, proved as in        *)
(* ComponentProofs for every value of their constants: an inductive        *)
(* invariant of each, and the property it implies.                         *)
(***************************************************************************)
EXTENDS Integers, FiniteSets, Sequences, TLAPS, FiniteSetTheorems, WellFoundedInduction

CONSTANTS
  Looper, Found, Intervals, Cap, Soft, Hard,                  \* LoopRun
  Client, Limit, MaxQueue, Last,                              \* LiveFeed
  Runner, Box, Nobody,                                        \* RemoteTarget
  Opener, Version,                                            \* Migrations
  Kind, MaxFrames,                                            \* Gateway
  Process, Call, ProcessOf, Driver, Session, SessionOf, Id,   \* AgentCli
  Request, ProcessFor, SessionFor, WakeupOf, Sender, MaxAttempts, MaxLines, \* Sessions
  Definition, Builtin, Worker, Reader                         \* Definitions

VARIABLES
  policy, now, paused, spent, occurred, newest, looper, jumped,
  last, hub, stream, client, flooded, page,
  provider, box, leases, edits, process, runner, home,
  tables, lacking, opener, item, action, events, project,
  kind, call, service, frames, answer, lost,
  alive, lockFile, lockLine, cliChain, sessions, cli,
  row, emitted, live, turn, other,
  disk, watcher, watching, cache, loads, scan, user, registry, refresh, edited

L == INSTANCE LoopRun WITH Worker <- Looper, Last <- Intervals, run <- occurred, worker <- looper
F == INSTANCE LiveFeed
R == INSTANCE RemoteTarget WITH Run <- Runner, run <- runner
V == INSTANCE Migrations WITH Process <- Opener, process <- opener
G == INSTANCE Gateway
H == INSTANCE AgentCli WITH call <- cli
Q == INSTANCE Sessions WITH ProcessOf <- ProcessFor, SessionOf <- SessionFor, Caller <- Sender,
                            events <- emitted, run <- turn, caller <- other
J == INSTANCE Definitions WITH Request <- Reader, edits <- edited

-----------------------------------------------------------------------------
(* LoopRun: the occurrences of a loop.                                      *)

Ran(t) == occurred[t].status # "none"
LoopShape ==
  /\ DOMAIN occurred = L!Trigger
  /\ \A t \in L!Trigger : DOMAIN occurred[t] = {"status", "item", "outputs"}
  /\ DOMAIN looper = Looper
  /\ \A w \in Looper : DOMAIN looper[w] = {"pc", "due", "left", "mode"}
Clock == /\ Intervals \in Nat /\ Cap \in Nat /\ now \in 1 .. Intervals /\ newest \in -1 .. Intervals

\* Occurrences that follow one another, up to now.
InOrder(due) ==
  /\ due \in Seq(Int) /\ Len(due) >= 1 /\ due[1] >= 1 /\ due[1] + Len(due) - 1 <= now
  /\ \A n \in 1 .. Len(due) : due[n] = due[1] + (n - 1)

\* A tick stands for a run by hand, or for such occurrences.
DueInOrder(w) ==
  looper[w].due = <<L!Hand>> \/ InOrder(looper[w].due)

\* Whether the property speaks of the loop.
CatchingUp == policy.catchUp /\ ~jumped /\ newest >= 0

\* A tick is past the creation of a run only when there is one, and before it every earlier one.
Standing(w) ==
  looper[w].pc # "idle" =>
    /\ DueInOrder(w)
    /\ looper[w].pc \notin {"find", "create"} => Ran(looper[w].due[1])
    /\ CatchingUp => \A t \in 1 .. looper[w].due[1] - 1 : Ran(t)
LoopInv ==
  /\ LoopShape /\ Clock
  /\ \A w \in Looper : Standing(w)
  /\ CatchingUp => \A t \in 1 .. newest : Ran(t)

\* The rest of such occurrences is in order too.
LEMMA OrderlyTail ==
  ASSUME now \in Nat, NEW due, InOrder(due), Tail(due) # <<>>
  PROVE  InOrder(Tail(due)) /\ Tail(due)[1] = due[1] + 1
  <1>1. /\ due \in Seq(Int) /\ Len(due) \in Nat /\ due[1] \in Int
        /\ \A n \in 1 .. Len(due) : due[n] = due[1] + (n - 1)
    BY DEF InOrder
  <1>2. /\ Tail(due) \in Seq(Int) /\ Len(Tail(due)) = Len(due) - 1 /\ Len(Tail(due)) >= 1
        /\ \A n \in 1 .. Len(Tail(due)) : Tail(due)[n] = due[n + 1]
    BY <1>1 DEF InOrder
  <1>3. \A n \in 1 .. Len(due) - 1 : Tail(due)[n] = due[1] + n
    <2>1. ASSUME NEW n \in 1 .. Len(due) - 1 PROVE Tail(due)[n] = due[1] + n
      <3>1. n + 1 \in 1 .. Len(due) /\ n \in Int /\ (n + 1) - 1 = n
        BY <1>1, <2>1
      <3> QED BY <1>1, <1>2, <3>1
    <2> QED BY <2>1
  <1>4. Tail(due)[1] = due[1] + 1
    BY <1>1, <1>2, <1>3
  <1>5. Tail(due)[1] >= 1 /\ Tail(due)[1] + Len(Tail(due)) - 1 <= now
    BY <1>1, <1>2, <1>4 DEF InOrder
  <1>6. \A n \in 1 .. Len(Tail(due)) : Tail(due)[n] = Tail(due)[1] + (n - 1)
    BY <1>1, <1>2, <1>3, <1>4
  <1> QED BY <1>2, <1>4, <1>5, <1>6 DEF InOrder

\* A step after which every run is still there, and each tick is where it was, further on
\* in the occurrence it was at, or at rest.
LEMMA LoopKeeps ==
  ASSUME LoopInv, LoopShape', Clock', now' >= now, policy' = policy, newest' = newest, jumped' = jumped,
         \A t \in L!Trigger : Ran(t) => Ran(t)',
         \A w \in Looper :
           \/ looper'[w].pc = "idle"
           \/ /\ looper[w].pc # "idle" /\ looper'[w].due = looper[w].due
              /\ looper'[w].pc \notin {"find", "create"} =>
                   looper[w].pc \notin {"find", "create"} \/ Ran(looper[w].due[1])
  PROVE  LoopInv'
  <1>1. ASSUME NEW w \in Looper, looper'[w].pc # "idle" PROVE Standing(w)'
    <2>1. DueInOrder(w) /\ looper'[w].due = looper[w].due
      BY <1>1 DEF LoopInv, Standing
    <2>2. DueInOrder(w)'
      <3>1. CASE looper[w].due = <<L!Hand>>
        BY <2>1, <3>1 DEF DueInOrder, InOrder, L!Hand
      <3>2. CASE looper[w].due # <<L!Hand>>
        BY <2>1, <3>2 DEF DueInOrder, InOrder, LoopInv, Clock
      <3> QED BY <3>1, <3>2
    <2>3. looper[w].due[1] \in L!Trigger
      BY <2>1 DEF DueInOrder, InOrder, L!Trigger, L!Hand, LoopInv, Clock
    <2>4. \A t \in 1 .. looper[w].due[1] - 1 : t \in L!Trigger
      BY <2>3 DEF L!Trigger, LoopInv, Clock
    <2> QED BY <1>1, <2>1, <2>2, <2>3, <2>4 DEF LoopInv, Standing, CatchingUp
  <1>2. \A t \in 1 .. newest : t \in L!Trigger
    BY DEF L!Trigger, LoopInv, Clock
  <1> QED BY <1>1, <1>2 DEF LoopInv, CatchingUp, Standing

RunFields == {"status", "item", "outputs"}
LooperFields == {"pc", "due", "left", "mode"}

\* No run is lost.
RunsKept ==
  /\ DOMAIN occurred' = L!Trigger
  /\ \A t \in L!Trigger : DOMAIN occurred'[t] = RunFields /\ (Ran(t) => occurred'[t].status # "none")

\* A step that writes one run and takes none away.
LEMMA RunKept ==
  ASSUME LoopShape, NEW t, NEW r, occurred' = [occurred EXCEPT ![t] = r],
         t \in L!Trigger => DOMAIN r = RunFields /\ (Ran(t) => r.status # "none")
  PROVE  RunsKept
  BY DEF LoopShape, RunsKept, Ran, RunFields

\* What the reconciliation of a run leaves alone.
LEMMA ReconciledRuns ==
  ASSUME NEW r, DOMAIN r = RunFields
  PROVE  DOMAIN L!Reconciled(r) = RunFields /\ (r.status # "none" => L!Reconciled(r).status # "none")
  BY DEF L!Reconciled, RunFields

\* A step of one tick that loses no run.
LEMMA LoopTurns ==
  ASSUME LoopInv, RunsKept, NEW w \in Looper, NEW v, looper' = [looper EXCEPT ![w] = v],
         DOMAIN v = LooperFields,
         \/ v.pc = "idle"
         \/ /\ looper[w].pc # "idle" /\ v.due = looper[w].due
            /\ v.pc \notin {"find", "create"} =>
                 looper[w].pc \notin {"find", "create"} \/ Ran(looper[w].due[1]),
         UNCHANGED <<policy, now, newest, jumped>>
  PROVE  LoopInv'
  <1>1. LoopShape' /\ Clock'
    BY DEF LoopInv, LoopShape, Clock, RunsKept, RunFields, LooperFields
  <1>2. \A u \in L!Trigger : Ran(u) => Ran(u)'
    BY DEF RunsKept, Ran
  <1>3. /\ now' >= now
        /\ \A x \in Looper : x # w => looper'[x] = looper[x]
        /\ looper'[w] = v
    BY DEF LoopInv, LoopShape, Clock
  <1> QED BY <1>1, <1>2, <1>3, LoopKeeps DEF LoopInv

\* The same for a step of nobody's.
LEMMA LoopStays ==
  ASSUME LoopInv, RunsKept, UNCHANGED <<policy, now, newest, jumped, looper>>
  PROVE  LoopInv'
  <1>1. LoopShape' /\ Clock' /\ now' >= now
    BY DEF LoopInv, LoopShape, Clock, RunsKept, RunFields
  <1>2. \A u \in L!Trigger : Ran(u) => Ran(u)'
    BY DEF RunsKept, Ran
  <1> QED BY <1>1, <1>2, LoopKeeps DEF LoopInv

\* A step that writes none.
LEMMA RunsUnchanged == ASSUME LoopShape, occurred' = occurred PROVE RunsKept
  BY DEF LoopShape, RunsKept, Ran, RunFields

\* A tick takes up occurrences, or the rest of them.
LEMMA LoopTakes ==
  ASSUME LoopInv, RunsKept, NEW w \in Looper, NEW due,
         looper' = [looper EXCEPT ![w] = [L!AtRest EXCEPT !.pc = "find", !.due = due]],
         \/ due = <<L!Hand>>
         \/ /\ due \in Seq(Int) /\ Len(due) >= 1 /\ due[1] >= 1 /\ due[1] + Len(due) - 1 <= now
            /\ \A n \in 1 .. Len(due) : due[n] = due[1] + (n - 1),
         CatchingUp => \A t \in 1 .. due[1] - 1 : Ran(t),
         UNCHANGED <<policy, now, newest, jumped>>
  PROVE  LoopInv'
  <1>1. LoopShape' /\ Clock' /\ looper'[w].due = due /\ looper'[w].pc = "find"
        /\ \A x \in Looper : x # w => looper'[x] = looper[x]
    BY DEF LoopInv, LoopShape, Clock, RunsKept, RunFields, LooperFields, L!AtRest
  <1>2. \A u \in L!Trigger : Ran(u) => Ran(u)'
    BY DEF RunsKept, Ran
  <1>3. ASSUME NEW x \in Looper, looper[x].pc # "idle" PROVE looper[x].due[1] \in L!Trigger
    BY <1>3 DEF LoopInv, Standing, DueInOrder, InOrder, L!Trigger, L!Hand, Clock
  <1>4. \A n \in L!Trigger : \A t \in 1 .. n - 1 : t \in L!Trigger
    BY DEF L!Trigger, LoopInv, Clock
  <1>5. Standing(w)'
    <2>1. due[1] \in L!Trigger
      BY DEF L!Trigger, L!Hand, LoopInv, Clock
    <2> QED BY <1>1, <1>2, <1>4, <2>1 DEF Standing, DueInOrder, InOrder, CatchingUp
  <1>6. ASSUME NEW x \in Looper, x # w PROVE Standing(x)'
    <2>1. (looper[x].pc # "idle" => DueInOrder(x)') /\ Standing(x)
      BY <1>1, <1>6 DEF LoopInv, Standing, DueInOrder, InOrder
    <2> QED BY <1>1, <1>2, <1>3, <1>4, <1>6, <2>1 DEF Standing, CatchingUp
  <1>7. \A t \in 1 .. newest : t \in L!Trigger
    BY DEF L!Trigger, LoopInv, Clock
  <1> QED BY <1>1, <1>2, <1>5, <1>6, <1>7 DEF LoopInv, CatchingUp

\* Every step of the ticks, and of everybody else, keeps the invariant.
LEMMA LoopKept == LoopInv /\ [L!Next]_(L!vars) => LoopInv'
<1> SUFFICES ASSUME LoopInv, [L!Next]_(L!vars) PROVE LoopInv'
  OBVIOUS
<1>1. /\ LoopShape /\ Clock
      /\ \A w \in Looper : looper[w].pc # "idle" => DueInOrder(w)
      /\ \A w \in Looper : looper[w].pc \notin {"idle", "find", "create"} => Ran(looper[w].due[1])
  BY DEF LoopInv, Standing
<1>2. ASSUME NEW w \in Looper, looper[w].pc # "idle"
      PROVE  L!Current(w) = looper[w].due[1] /\ L!Current(w) \in L!Trigger
  BY <1>1, <1>2 DEF DueInOrder, InOrder, L!Current, L!Trigger, L!Hand, Clock
<1>3. \A w \in Looper : DOMAIN looper[w] = LooperFields
  BY <1>1 DEF LoopShape, LooperFields
<1>4. \A t \in L!Trigger : DOMAIN occurred[t] = RunFields
  BY <1>1 DEF LoopShape, RunFields
<1>5. CASE UNCHANGED L!vars
  BY <1>1, <1>5, LoopStays, RunsUnchanged DEF L!vars
<1>6. CASE L!SetPaused(TRUE) \/ L!SetPaused(FALSE)
  BY <1>1, <1>6, LoopStays, RunsUnchanged DEF L!SetPaused, L!OfLoop
<1>7. CASE L!Pass
  <2>1. UNCHANGED <<policy, paused, spent, occurred, newest, looper, jumped>> /\ now' = now + 1 /\ now < Intervals
    BY <1>7 DEF L!Pass
  <2>2. LoopShape' /\ Clock' /\ now' >= now /\ \A t \in L!Trigger : Ran(t) => Ran(t)'
    BY <1>1, <2>1 DEF LoopShape, Clock, Ran
  <2> QED BY <2>1, <2>2, LoopKeeps
<1>8. ASSUME NEW w \in Looper, L!DueOccurrences(w) PROVE LoopInv'
  <2>1. PICK due : due = L!Occurrences
    OBVIOUS
  <2>2. /\ looper' = [looper EXCEPT ![w] = [L!AtRest EXCEPT !.pc = "find", !.due = due]]
        /\ due # <<>> /\ UNCHANGED <<policy, now, newest, jumped, occurred>>
    BY <1>8, <2>1 DEF L!DueOccurrences, L!OfLoop
  <2>3. CASE policy.catchUp /\ newest >= 0
    <3> DEFINE m == L!Least(Cap, now - newest)
    <3>1. m \in Int /\ newest + m <= now
      BY <1>1 DEF Clock, L!Least
    <3>2. due = [n \in 1 .. m |-> newest + n]
      BY <2>1, <2>3 DEF L!Occurrences
    <3>3. m >= 1
      <4>1. CASE m < 1
        <5>1. 1 .. m = {}
          BY <3>1, <4>1
        <5>2. [n \in 1 .. m |-> newest + n] = <<>>
          BY <5>1
        <5> QED BY <2>2, <3>2, <5>2
      <4> QED BY <3>1, <4>1
    <3> HIDE DEF m
    <3>4. /\ due \in Seq(Int) /\ Len(due) = m /\ due[1] = newest + 1
          /\ \A n \in 1 .. m : due[n] = newest + n
      BY <1>1, <3>1, <3>2, <3>3 DEF Clock
    <3>5. CatchingUp => \A t \in 1 .. newest : Ran(t)
      BY DEF LoopInv
    <3>6. /\ due \in Seq(Int) /\ Len(due) >= 1 /\ due[1] >= 1 /\ due[1] + Len(due) - 1 <= now
          /\ \A n \in 1 .. Len(due) : due[n] = due[1] + (n - 1)
      BY <1>1, <2>3, <3>1, <3>3, <3>4 DEF Clock
    <3>7. CatchingUp => \A t \in 1 .. due[1] - 1 : Ran(t)
      BY <1>1, <3>4, <3>5 DEF Clock
    <3> QED BY <1>1, <2>2, <3>6, <3>7, LoopTakes, RunsUnchanged
  <2>4. CASE ~(policy.catchUp /\ newest >= 0)
    <3>1. due = <<now>> /\ ~CatchingUp
      BY <2>1, <2>4 DEF L!Occurrences, CatchingUp
    <3>2. /\ due \in Seq(Int) /\ Len(due) >= 1 /\ due[1] >= 1 /\ due[1] + Len(due) - 1 <= now
          /\ \A n \in 1 .. Len(due) : due[n] = due[1] + (n - 1)
      BY <1>1, <3>1 DEF Clock
    <3> QED BY <1>1, <2>2, <3>1, <3>2, LoopTakes, RunsUnchanged
  <2> QED BY <2>3, <2>4
<1>9. ASSUME NEW w \in Looper, L!ExecuteWakeup(w) PROVE LoopInv'
  <2>1. PICK due : due = <<L!Hand>>
    OBVIOUS
  <2>2. /\ looper' = [looper EXCEPT ![w] = [L!AtRest EXCEPT !.pc = "find", !.due = due]]
        /\ UNCHANGED <<policy, now, newest, jumped, occurred>>
    BY <1>9, <2>1 DEF L!ExecuteWakeup, L!OfLoop
  <2>3. \A t \in 1 .. due[1] - 1 : Ran(t)
    BY <2>1 DEF L!Hand
  <2> QED BY <1>1, <2>1, <2>2, <2>3, LoopTakes, RunsUnchanged
<1>10. ASSUME NEW w \in Looper, L!FindRun(w) PROVE LoopInv'
  <2>1. looper[w].pc = "find" /\ looper' = [looper EXCEPT ![w] =
           [looper[w] EXCEPT !.pc = IF Ran(looper[w].due[1]) THEN "execute" ELSE "create"]]
        /\ UNCHANGED <<policy, now, newest, jumped, occurred>>
    BY <1>10, <1>2 DEF L!FindRun, L!At, L!Goto, L!OfLoop, Ran
  <2> QED BY <1>1, <1>3, <2>1, LoopTurns, RunsUnchanged DEF LooperFields
<1>11. ASSUME NEW w \in Looper, L!CreateRun(w) PROVE LoopInv'
  <2>1. PICK t : t = L!Current(w)
    OBVIOUS
  <2>2. looper[w].pc = "create" /\ UNCHANGED <<policy, now>> /\ t \in L!Trigger /\ t = looper[w].due[1]
    BY <1>11, <1>2, <2>1 DEF L!CreateRun, L!At, L!OfLoop
  <2>3. CASE Ran(t)
    <3>1. looper' = [looper EXCEPT ![w] = L!AtRest] /\ UNCHANGED <<occurred, newest, jumped>>
      BY <1>11, <2>1, <2>3 DEF L!CreateRun, Ran
    <3> QED BY <1>1, <2>2, <3>1, LoopTurns, RunsUnchanged DEF LooperFields, L!AtRest
  <2>4. CASE ~Ran(t)
    <3>1. /\ occurred' = [occurred EXCEPT ![t] = [occurred[t] EXCEPT !.status = "queued"]]
          /\ newest' = L!Newest(t) /\ jumped' = (jumped \/ t = L!Hand \/ newest = -1)
          /\ looper' = [looper EXCEPT ![w] = [looper[w] EXCEPT !.pc = "check"]]
      BY <1>11, <2>1, <2>4 DEF L!CreateRun, Ran, L!Goto
    <3>2. RunsKept /\ Ran(t)'
      BY <1>1, <1>4, <2>2, <3>1, RunKept DEF RunFields, Ran, LoopShape
    <3>3. \A x \in Looper : x # w => looper'[x] = looper[x]
      BY <1>1, <3>1 DEF LoopShape
    <3>4. looper'[w].pc = "check" /\ looper'[w].due = looper[w].due /\ LoopShape'
      BY <1>1, <1>3, <3>1, <3>2 DEF LoopShape, LooperFields, RunsKept, RunFields
    <3>5. t <= now
      BY <1>1, <2>2 DEF DueInOrder, InOrder, L!Hand, Clock
    <3>6. Clock'
      BY <1>1, <2>2, <3>1, <3>5 DEF Clock, L!Newest, L!Trigger, L!Hand
    <3>7. CatchingUp' => CatchingUp /\ newest' = t
      <4>1. CatchingUp' => policy.catchUp /\ ~jumped /\ t # L!Hand /\ newest # -1
        BY Zenon, <2>2, <3>1 DEF CatchingUp
      <4>2. newest # -1 => newest >= 0
        BY <1>1 DEF Clock
      <4>3. t # L!Hand => L!Newest(t) = t
        BY DEF L!Newest
      <4> QED BY <3>1, <4>1, <4>2, <4>3 DEF CatchingUp
    <3>8. \A u \in L!Trigger : Ran(u) => Ran(u)'
      BY <3>2 DEF RunsKept, Ran
    <3>9. \A n \in L!Trigger : \A u \in 1 .. n - 1 : u \in L!Trigger
      BY <1>1 DEF L!Trigger, Clock
    <3>10. CatchingUp => \A u \in 1 .. t - 1 : Ran(u)
      BY <2>2 DEF LoopInv, Standing
    <3>11. CatchingUp' => \A u \in 1 .. newest' : Ran(u)'
      <4>1. ASSUME CatchingUp', NEW u \in 1 .. newest' PROVE Ran(u)'
        <5>1. u \in 1 .. t - 1 \/ u = t
          BY <2>2, <3>7, <4>1 DEF L!Trigger
        <5> QED BY <2>2, <3>2, <3>7, <3>8, <3>9, <3>10, <4>1, <5>1
      <4> QED BY <4>1
    <3>12. ASSUME NEW x \in Looper PROVE Standing(x)'
      <4>1. Standing(x) /\ looper'[x].due = looper[x].due
        BY <3>3, <3>4 DEF LoopInv
      <4>2. looper'[x].pc # "idle" => looper[x].pc # "idle"
        BY <2>2, <3>3, <3>4
      <4>3. looper'[x].pc # "idle" => DueInOrder(x)' /\ looper[x].due[1] \in L!Trigger
        BY <1>1, <1>2, <2>2, <4>1, <4>2 DEF DueInOrder, InOrder
      <4>4. looper'[x].pc \notin {"idle", "find", "create"} => occurred'[looper'[x].due[1]].status # "none"
        BY <1>1, <2>2, <3>2, <3>3, <3>4, <3>8, <4>1, <4>3 DEF Ran
      <4> QED BY <3>7, <3>8, <3>9, <4>1, <4>2, <4>3, <4>4 DEF Standing, Ran
    <3> QED BY <3>4, <3>6, <3>11, <3>12 DEF LoopInv
  <2> QED BY <2>3, <2>4
<1>12. ASSUME NEW w \in Looper, looper[w].pc \notin {"idle", "find", "create"},
             NEW v, looper' = [looper EXCEPT ![w] = v], DOMAIN v = LooperFields,
             v.pc = "idle" \/ v.due = looper[w].due, RunsKept, UNCHANGED <<policy, now, newest, jumped>>
      PROVE  LoopInv'
  BY <1>1, <1>12, LoopTurns
<1>13. ASSUME NEW t \in L!Trigger, NEW r, DOMAIN r = RunFields, Ran(t) => r.status # "none",
              NEW q \in {r, L!Reconciled(r)}, occurred' = [occurred EXCEPT ![t] = q]
       PROVE  RunsKept
  BY <1>1, <1>13, RunKept, ReconciledRuns
<1>14. ASSUME NEW w \in Looper, L!CheckPaused(w) PROVE LoopInv'
  <2>1. PICK t, r, v :
          /\ t = L!Current(w) /\ r = [occurred[t] EXCEPT !.status =
                                              IF paused THEN "cancelled" ELSE occurred[t].status]
          /\ v = [looper[w] EXCEPT !.pc = IF paused THEN "execute" ELSE "view"]
          /\ occurred' = [occurred EXCEPT ![t] = r] /\ looper' = [looper EXCEPT ![w] = v]
    BY <1>14 DEF L!CheckPaused, L!Goto
  <2>2. looper[w].pc = "check" /\ UNCHANGED <<policy, now, newest, jumped>>
    BY <1>14 DEF L!CheckPaused, L!At, L!OfLoop
  <2>3. t \in L!Trigger /\ Ran(t)
    BY <1>1, <1>2, <2>1, <2>2
  <2>4. RunsKept
    <3>1. DOMAIN r = RunFields /\ r.status # "none"
      BY <1>4, <2>1, <2>3 DEF RunFields, Ran
    <3> QED BY <1>13, <2>1, <2>3, <3>1
  <2>5. DOMAIN v = LooperFields /\ v.due = looper[w].due
    BY <1>3, <2>1 DEF LooperFields
  <2> QED BY <1>12, <2>1, <2>2, <2>4, <2>5
<1>15. ASSUME NEW w \in Looper, L!View(w) PROVE LoopInv'
  <2>1. PICK v :
          /\ v = [looper[w] EXCEPT !.mode = L!DailyBudgetMode, !.left = Found,
                                   !.pc = IF L!DailyBudgetMode = "kill_switch" THEN "trip" ELSE "decide"]
          /\ looper' = [looper EXCEPT ![w] = v]
    BY <1>15 DEF L!View
  <2>2. looper[w].pc = "view" /\ UNCHANGED <<policy, now, newest, jumped, occurred>>
    BY <1>15 DEF L!View, L!At, L!OfLoop
  <2>3. DOMAIN v = LooperFields /\ v.due = looper[w].due
    BY <1>3, <2>1 DEF LooperFields
  <2> QED BY <1>1, <1>12, <2>1, <2>2, <2>3, RunsUnchanged
<1>16. ASSUME NEW w \in Looper, L!Trip(w) PROVE LoopInv'
  <2>1. PICK v : v = [looper[w] EXCEPT !.pc = "decide"] /\ looper' = [looper EXCEPT ![w] = v]
    BY <1>16 DEF L!Trip, L!Goto
  <2>2. looper[w].pc = "trip" /\ UNCHANGED <<policy, now, newest, jumped, occurred>>
    BY <1>16 DEF L!Trip, L!At, L!OfLoop
  <2>3. DOMAIN v = LooperFields /\ v.due = looper[w].due
    BY <1>3, <2>1 DEF LooperFields
  <2> QED BY <1>1, <1>12, <2>1, <2>2, <2>3, RunsUnchanged
<1>17. ASSUME NEW w \in Looper, NEW decision, L!Decide(w, decision) PROVE LoopInv'
  <2>1. PICK t, ref : t = L!Current(w) /\ ref = Head(looper[w].left)
    OBVIOUS
  <2>2. PICK v : v = [looper[w] EXCEPT !.left = Tail(looper[w].left)] /\ looper' = [looper EXCEPT ![w] = v]
    BY <1>17 DEF L!Decide
  <2>3. looper[w].pc = "decide" /\ UNCHANGED <<policy, now, newest, jumped>>
    BY <1>17 DEF L!Decide, L!At, L!OfLoop
  <2>4. t \in L!Trigger /\ Ran(t)
    BY <1>1, <1>2, <2>1, <2>3
  <2>5. RunsKept
    <3>1. ASSUME NEW i, occurred' = [occurred EXCEPT ![t] = [occurred[t] EXCEPT !.item = i]] PROVE RunsKept
      <4>1. PICK r : r = [occurred[t] EXCEPT !.item = i]
        OBVIOUS
      <4>2. DOMAIN r = RunFields /\ r.status # "none" /\ occurred' = [occurred EXCEPT ![t] = r]
        BY <1>4, <2>4, <3>1, <4>1 DEF RunFields, Ran
      <4> QED BY <1>13, <2>4, <4>2
    <3>2. ASSUME NEW i, occurred' = [occurred EXCEPT ![t] = [occurred[t] EXCEPT !.outputs = i]] PROVE RunsKept
      <4>1. PICK r : r = [occurred[t] EXCEPT !.outputs = i]
        OBVIOUS
      <4>2. DOMAIN r = RunFields /\ r.status # "none" /\ occurred' = [occurred EXCEPT ![t] = r]
        BY <1>4, <2>4, <3>2, <4>1 DEF RunFields, Ran
      <4> QED BY <1>13, <2>4, <4>2
    <3>3. \/ occurred' = [occurred EXCEPT ![t].item[ref] =
             IF occurred[t].item[ref] = "none" THEN "open" ELSE occurred[t].item[ref]]
          \/ occurred' = occurred
          \/ occurred' = [occurred EXCEPT ![t].outputs = occurred[t].outputs \union {ref}]
      BY <1>17, <2>1 DEF L!Decide
    <3> QED BY <1>1, <3>1, <3>2, <3>3, RunsUnchanged
  <2>6. DOMAIN v = LooperFields /\ v.due = looper[w].due
    BY <1>3, <2>2 DEF LooperFields
  <2> QED BY <1>12, <2>2, <2>3, <2>5, <2>6
<1>18. ASSUME NEW w \in Looper, L!FailRun(w) PROVE LoopInv'
  <2>1. PICK t, r :
          /\ t = L!Current(w) /\ r = [occurred[t] EXCEPT !.status = "failed"]
          /\ occurred' = [occurred EXCEPT ![t] = r] /\ looper' = [looper EXCEPT ![w] = L!AtRest]
    BY <1>18 DEF L!FailRun
  <2>2. looper[w].pc = "decide" /\ UNCHANGED <<policy, now, newest, jumped>>
    BY <1>18 DEF L!FailRun, L!At, L!OfLoop
  <2>3. t \in L!Trigger /\ Ran(t)
    BY <1>1, <1>2, <2>1, <2>2
  <2>4. RunsKept
    <3>1. DOMAIN r = RunFields /\ r.status # "none"
      BY <1>4, <2>1, <2>3 DEF RunFields, Ran
    <3> QED BY <1>13, <2>1, <2>3, <3>1
  <2> QED BY <1>12, <2>1, <2>2, <2>4 DEF L!AtRest, LooperFields
<1>19. ASSUME NEW w \in Looper, L!EndRun(w) PROVE LoopInv'
  <2>1. PICK t, status, r, v :
          /\ t = L!Current(w)
          /\ status = IF \A q \in L!Ref : occurred[t].item[q] = "none" THEN "succeeded" ELSE occurred[t].status
          /\ r = [occurred[t] EXCEPT !.status = status] /\ v = [looper[w] EXCEPT !.pc = "execute"]
          /\ occurred' = [occurred EXCEPT ![t] = r] /\ looper' = [looper EXCEPT ![w] = v]
    BY <1>19 DEF L!EndRun, L!Goto
  <2>2. looper[w].pc = "decide" /\ UNCHANGED <<policy, now, newest, jumped>>
    BY <1>19 DEF L!EndRun, L!At, L!OfLoop
  <2>3. t \in L!Trigger /\ Ran(t)
    BY <1>1, <1>2, <2>1, <2>2
  <2>4. RunsKept
    <3>1. DOMAIN r = RunFields /\ r.status # "none"
      BY <1>4, <2>1, <2>3 DEF RunFields, Ran
    <3> QED BY <1>13, <2>1, <2>3, <3>1
  <2>5. DOMAIN v = LooperFields /\ v.due = looper[w].due
    BY <1>3, <2>1 DEF LooperFields
  <2> QED BY <1>12, <2>1, <2>2, <2>4, <2>5
<1>20. ASSUME NEW t \in L!Trigger, NEW outcome, NEW r, r = [occurred[t] EXCEPT !.item = outcome]
       PROVE  DOMAIN r = RunFields /\ (Ran(t) => r.status # "none")
  BY <1>4, <1>20 DEF RunFields, Ran
<1>21. ASSUME NEW w \in Looper, NEW ref \in L!Ref, L!Dispatch(w, ref) PROVE LoopInv'
  <2>1. PICK t : t = L!Current(w)
    OBVIOUS
  <2>2. looper[w].pc = "execute" /\ UNCHANGED <<policy, now, newest, jumped>>
    BY <1>21 DEF L!Dispatch, L!At, L!OfLoop
  <2>3. t \in L!Trigger /\ Ran(t)
    BY <1>1, <1>2, <2>1, <2>2
  <2>4. CASE spent < Hard
    <3>1. PICK r, v :
            /\ r = [occurred[t] EXCEPT !.item[ref] = "running", !.status = IF @ = "queued" THEN "running" ELSE @]
            /\ v = [looper[w] EXCEPT !.pc = "work", !.left = <<ref>>]
      OBVIOUS
    <3>2. occurred' = [occurred EXCEPT ![t] = r]
      BY <1>21, <2>1, <2>4, <3>1 DEF L!Dispatch
    <3>3. looper' = [looper EXCEPT ![w] = v]
      BY <1>21, <2>4, <3>1 DEF L!Dispatch
    <3>4. DOMAIN r = RunFields /\ r.status # "none"
      BY <1>4, <2>3, <3>1 DEF RunFields, Ran
    <3>5. RunsKept
      BY <1>13, <2>3, <3>2, <3>4
    <3>6. DOMAIN v = LooperFields /\ v.due = looper[w].due
      BY <1>3, <3>1 DEF LooperFields
    <3> QED BY <1>12, <2>2, <3>1, <3>3, <3>5, <3>6
  <2>5. CASE ~(spent < Hard)
    <3>1. PICK outcome, r :
            /\ outcome = [occurred[t].item EXCEPT ![ref] = "failed"] /\ r = [occurred[t] EXCEPT !.item = outcome]
            /\ occurred' = [occurred EXCEPT ![t] = L!Reconciled(r)] /\ looper' = looper
      BY <1>21, <2>1, <2>5 DEF L!Dispatch
    <3>2. RunsKept
      BY <1>13, <1>20, <2>3, <3>1
    <3> QED BY <2>2, <3>1, <3>2, LoopStays
  <2> QED BY <2>4, <2>5
<1>22. ASSUME NEW w \in Looper, NEW to, L!EndItem(w, to) PROVE LoopInv'
  <2>1. PICK t : t = L!Current(w)
    OBVIOUS
  <2>2. PICK outcome, r :
          /\ r = [occurred[t] EXCEPT !.item = outcome]
          /\ occurred' = [occurred EXCEPT ![t] = L!Reconciled(r)]
    BY <1>22, <2>1 DEF L!EndItem
  <2>3. PICK v : v = [looper[w] EXCEPT !.pc = "execute", !.left = <<>>] /\ looper' = [looper EXCEPT ![w] = v]
    BY <1>22 DEF L!EndItem
  <2>4. looper[w].pc = "work" /\ UNCHANGED <<policy, now, newest, jumped>>
    BY <1>22 DEF L!EndItem, L!At, L!OfLoop
  <2>5. t \in L!Trigger /\ Ran(t)
    BY <1>1, <1>2, <2>1, <2>4
  <2>6. RunsKept
    BY <1>13, <1>20, <2>2, <2>5
  <2>7. DOMAIN v = LooperFields /\ v.due = looper[w].due
    BY <1>3, <2>3 DEF LooperFields
  <2> QED BY <1>12, <2>3, <2>4, <2>6, <2>7
<1>23. ASSUME NEW w \in Looper, L!NextOccurrence(w) PROVE LoopInv'
  <2>1. PICK t, r, due : t = L!Current(w) /\ r = occurred[t] /\ due = Tail(looper[w].due)
    OBVIOUS
  <2>2. /\ looper[w].pc = "execute" /\ UNCHANGED <<policy, now, newest, jumped>>
        /\ occurred' = [occurred EXCEPT ![t] = L!Reconciled(r)]
        /\ looper' = [looper EXCEPT ![w] =
                       IF due = <<>> THEN L!AtRest ELSE [L!AtRest EXCEPT !.pc = "find", !.due = due]]
    BY <1>23, <2>1 DEF L!NextOccurrence, L!At, L!OfLoop
  <2>3. t \in L!Trigger /\ Ran(t) /\ t = looper[w].due[1] /\ DueInOrder(w)
    BY <1>1, <1>2, <2>1, <2>2
  <2>4. RunsKept
    BY <1>4, <1>13, <2>1, <2>2, <2>3 DEF Ran
  <2>5. CASE due = <<>>
    <3>1. looper' = [looper EXCEPT ![w] = L!AtRest]
      BY <2>2, <2>5
    <3> QED BY <1>12, <2>2, <2>4, <3>1 DEF L!AtRest, LooperFields
  <2>6. CASE due # <<>>
    <3>1. looper[w].due # <<L!Hand>>
      <4>1. Tail(<<L!Hand>>) = <<>>
        OBVIOUS
      <4> QED BY <2>1, <2>6, <4>1
    <3>2. InOrder(looper[w].due)
      BY <2>3, <3>1 DEF DueInOrder, InOrder
    <3>3. InOrder(due) /\ due[1] = looper[w].due[1] + 1
      BY <1>1, <2>1, <2>6, <3>2, OrderlyTail DEF Clock
    <3>4. CatchingUp => \A u \in 1 .. t - 1 : Ran(u)
      BY <2>2, <2>3 DEF LoopInv, Standing
    <3>5. CatchingUp => \A u \in 1 .. due[1] - 1 : Ran(u)
      <4>1. \A u \in 1 .. due[1] - 1 : u \in 1 .. t - 1 \/ u = t
        BY <2>3, <3>3 DEF L!Trigger
      <4> QED BY <2>3, <3>4, <4>1
    <3>6. looper' = [looper EXCEPT ![w] = [L!AtRest EXCEPT !.pc = "find", !.due = due]]
      BY <2>2, <2>6
    <3> QED BY <2>2, <2>4, <3>3, <3>5, <3>6, LoopTakes DEF InOrder
  <2> QED BY <2>5, <2>6
<1>24. ASSUME NEW w \in Looper, L!Crash(w) PROVE LoopInv'
  BY <1>1, <1>24, LoopTurns, RunsUnchanged DEF L!Crash, L!AtRest, L!OfLoop, LooperFields
<1>25. ASSUME NEW t \in L!Trigger, NEW ref \in L!Ref, NEW to,
              L!Recover(t, ref) \/ L!Settle(t, ref, to)
       PROVE  LoopInv'
  <2>1. PICK outcome, r :
          /\ r = [occurred[t] EXCEPT !.item = outcome]
          /\ occurred' = [occurred EXCEPT ![t] = L!Reconciled(r)]
    <3>1. CASE L!Recover(t, ref)
      BY <3>1 DEF L!Recover
    <3>2. CASE L!Settle(t, ref, to)
      BY <3>2 DEF L!Settle
    <3> QED BY <1>25, <3>1, <3>2
  <2>2. UNCHANGED <<policy, now, newest, jumped, looper>>
    BY <1>25 DEF L!Recover, L!Settle, L!OfLoop
  <2>3. RunsKept
    BY <1>13, <1>20, <2>1
  <2> QED BY <2>2, <2>3, LoopStays
<1>26. ASSUME NEW w \in Looper, L!Step(w) PROVE LoopInv'
  BY <1>8, <1>9, <1>10, <1>11, <1>14, <1>15, <1>16, <1>17, <1>18, <1>19, <1>21, <1>22, <1>23, <1>24, <1>26
     DEF L!Step
<1> QED BY <1>5, <1>6, <1>7, <1>25, <1>26 DEF L!Next, L!Others

\* It holds of a loop that has not run, and of one that has run once.
LEMMA LoopBegins == Intervals \in Nat \ {0} /\ Cap \in Nat /\ L!Init => LoopInv
  BY DEF L!Init, LoopInv, LoopShape, Clock, Standing, CatchingUp, L!AtRest, Ran

\* However many ticks of a loop overlap, die and catch up (dueOccurrences, scheduler.ts; run,
\* loop-runner.ts), every interval up to the newest run has a run of its own.
THEOREM OccurrencesKept ==
  Intervals \in Nat \ {0} /\ Cap \in Nat => (L!Spec => []L!NoOccurrenceLost)
<1>1. LoopInv => L!NoOccurrenceLost
  <2>1. ASSUME LoopInv, ~(newest >= 0) PROVE 1 .. newest = {}
    BY <2>1 DEF LoopInv, Clock
  <2> QED BY <2>1 DEF LoopInv, CatchingUp, L!NoOccurrenceLost, Ran
<1>2. SUFFICES ASSUME Intervals \in Nat \ {0}, Cap \in Nat PROVE L!Spec => []L!NoOccurrenceLost
  OBVIOUS
<1> QED BY <1>1, <1>2, LoopBegins, LoopKept, PTL DEF L!Spec

-----------------------------------------------------------------------------
(* LiveFeed: what a client has seen.                                        *)

FeedShape ==
  /\ Limit \in Nat /\ last \in Nat
  /\ DOMAIN hub = Client /\ DOMAIN stream = Client /\ DOMAIN client = Client
  /\ \A c \in Client : /\ DOMAIN hub[c] = {"active", "queue"} /\ DOMAIN stream[c] = {"open", "sent", "wire"}
                       /\ DOMAIN client[c] = {"known", "got"}
                       /\ hub[c].queue \in Seq(Nat)
                       /\ \A i \in 1 .. Len(hub[c].queue) : hub[c].queue[i] <= last

\* Everything up to n was seen, or is at one of the first k places of the wire.
Covered(got, wire, n, k) == \A u \in 1 .. n : u \in got \/ \E j \in 1 .. k : wire[j] = u
SeenBy(known, got, sent, wire, top) ==
  /\ known \in 0 .. top /\ sent \in 0 .. top /\ wire \in Seq(Nat)
  /\ \A i \in 1 .. Len(wire) : wire[i] <= top /\ Covered(got, wire, wire[i], i)
  /\ Covered(got, wire, sent, Len(wire))
  /\ 1 .. known \subseteq got
Seen(c) == SeenBy(client[c].known, client[c].got, stream[c].sent, stream[c].wire, last)
FeedInv == FeedShape /\ \A c \in Client \ flooded : Seen(c)

\* The greatest of some ids and a number none of them exceeds.
LEMMA UpToBound ==
  ASSUME NEW ids \in Seq(Nat), NEW n \in Nat, \A i \in 1 .. Len(ids) : ids[i] <= n
  PROVE  F!UpTo(ids, n) = n
  <1>1. \A x \in F!Range(ids) \cup {n} : x \in Nat /\ x <= n
    BY DEF F!Range
  <1>2. n \in F!Range(ids) \cup {n}
    OBVIOUS
  <1> HIDE DEF F!Range
  <1> QED BY <1>1, <1>2 DEF F!UpTo, F!Max

\* The rows of a replay follow the id it was asked for, and reach the last one if the limit allows it.
LEMMA ReplayedRows ==
  ASSUME FeedShape, NEW after \in 0 .. last
  PROVE  \E m \in Nat : /\ F!Replayed(after) = [i \in 1 .. m |-> after + i]
                        /\ after + m <= last /\ (last <= after + Limit => after + m = last)
                        /\ F!UpTo(F!Replayed(after), after) = after + m
  <1> DEFINE m == F!Min({Limit, last - after})
  <1>1. Limit \in Nat /\ last - after \in Nat /\ last \in Nat /\ after \in Nat
    BY DEF FeedShape
  <1>2. m = IF Limit <= last - after THEN Limit ELSE last - after
    BY <1>1 DEF F!Min
  <1>3. F!Replayed(after) = [i \in 1 .. m |-> after + i]
    BY DEF F!Replayed
  <1> HIDE DEF m
  <1>4. m \in Nat /\ after + m <= last /\ (last <= after + Limit => after + m = last)
    BY <1>1, <1>2
  <1>5. F!UpTo(F!Replayed(after), after) = after + m
    <2> DEFINE S == F!Range(F!Replayed(after)) \cup {after}
    <2>1. \A x \in S : x \in Nat /\ x <= after + m
      BY <1>4, <1>3 DEF F!Range
    <2>2. after + m \in S
      <3>1. CASE m = 0
        BY <3>1
      <3>2. CASE m # 0
        <4>1. m \in DOMAIN F!Replayed(after) /\ F!Replayed(after)[m] = after + m
          BY <1>4, <1>3, <3>2
        <4> QED BY <4>1 DEF F!Range
      <3> QED BY <3>1, <3>2
    <2>3. F!UpTo(F!Replayed(after), after) = F!Max(S)
      BY DEF F!UpTo
    <2> HIDE DEF S
    <2> QED BY <2>1, <2>2, <2>3 DEF F!Max
  <1> QED BY <1>4, <1>3, <1>5

\* The concatenation of two sequences of numbers.
LEMMA Joined ==
  ASSUME NEW s \in Seq(Nat), NEW t \in Seq(Nat)
  PROVE  /\ s \o t \in Seq(Nat) /\ Len(s \o t) = Len(s) + Len(t)
         /\ \A i \in 1 .. Len(s) : (s \o t)[i] = s[i]
         /\ \A i \in 1 .. Len(t) : (s \o t)[Len(s) + i] = t[i]
  OBVIOUS

\* A wire that is prolonged by a replay up to sent + m, and by ids that are no greater.
LEMMA WireGrows ==
  ASSUME NEW got, NEW known, NEW sent \in Nat, NEW wire \in Seq(Nat), NEW top \in Nat,
         SeenBy(known, got, sent, wire, top),
         NEW m \in Nat, sent + m <= top, NEW rows, rows = [i \in 1 .. m |-> sent + i],
         NEW queued \in Seq(Nat), \A i \in 1 .. Len(queued) : queued[i] <= sent + m
  PROVE  SeenBy(known, got, sent + m, wire \o rows \o queued, top)
  <1>1. rows \in Seq(Nat) /\ Len(rows) = m /\ \A i \in 1 .. m : rows[i] = sent + i
    OBVIOUS
  <1>2. PICK n \in Nat : n = Len(wire)
    OBVIOUS
  <1>3. PICK l \in Nat : l = Len(queued)
    OBVIOUS
  <1>4. PICK w : w = wire \o rows \o queued
    OBVIOUS
  <1>5. /\ w \in Seq(Nat) /\ Len(w) = n + m + l
        /\ \A i \in 1 .. n : w[i] = wire[i]
        /\ \A i \in 1 .. m : w[n + i] = sent + i
        /\ \A i \in 1 .. l : w[n + m + i] = queued[i]
    <2>1. PICK a : a = wire \o rows
      OBVIOUS
    <2>2. /\ a \in Seq(Nat) /\ Len(a) = n + m
          /\ \A i \in 1 .. n : a[i] = wire[i]
          /\ \A i \in 1 .. m : a[n + i] = rows[i]
      BY <1>1, <1>2, <2>1, Joined
    <2>3. w = a \o queued
      BY <1>4, <2>1
    <2>4. /\ w \in Seq(Nat) /\ Len(w) = n + m + l
          /\ \A i \in 1 .. n + m : w[i] = a[i]
          /\ \A i \in 1 .. l : w[n + m + i] = queued[i]
      <3>1. /\ w \in Seq(Nat) /\ Len(w) = Len(a) + l
            /\ \A i \in 1 .. Len(a) : w[i] = a[i]
            /\ \A i \in 1 .. l : w[Len(a) + i] = queued[i]
        BY <1>3, <2>2, <2>3, Joined
      <3> QED BY <2>2, <3>1
    <2>5. \A i \in 1 .. m : w[n + i] = sent + i
      BY <1>1, <2>2, <2>4
    <2> QED BY <2>2, <2>4, <2>5
  <1>6. ASSUME NEW u \in 1 .. sent PROVE u \in got \/ \E j \in 1 .. n : w[j] = u
    BY <1>2, <1>5, <1>6 DEF SeenBy, Covered
  <1>7. ASSUME NEW k \in 0 .. m, NEW i \in Nat, i >= n + k, NEW x \in Nat, x <= sent + k
        PROVE  Covered(got, w, x, i)
    <2>1. ASSUME NEW u \in 1 .. x PROVE u \in got \/ \E j \in 1 .. i : w[j] = u
      <3>1. CASE u <= sent
        BY <1>6, <1>7, <2>1, <3>1
      <3>2. CASE u > sent
        <4>1. PICK d \in 1 .. m : d = u - sent
          BY <1>7, <2>1, <3>2
        <4>2. d <= k
          BY <1>7, <2>1, <4>1
        <4>3. n + d \in 1 .. i
          BY <1>7, <4>1, <4>2
        <4>4. w[n + d] = sent + d
          BY <1>5
        <4>5. sent + d = u
          BY <4>1
        <4> QED BY <4>3, <4>4, <4>5
      <3> QED BY <3>1, <3>2
    <2> QED BY <2>1 DEF Covered
  <1>8. ASSUME NEW i \in 1 .. Len(w) PROVE w[i] <= top /\ Covered(got, w, w[i], i)
    <2>1. CASE i <= n
      <3>1. i \in 1 .. n /\ w[i] = wire[i] /\ \A j \in 1 .. i : w[j] = wire[j]
        BY <1>5, <1>8, <2>1
      <3>2. wire[i] <= top /\ Covered(got, wire, wire[i], i)
        BY <1>2, <3>1 DEF SeenBy
      <3> QED BY <3>1, <3>2 DEF Covered
    <2>2. CASE i > n /\ i <= n + m
      <3>1. PICK k \in 1 .. m : k = i - n
        BY <1>5, <1>8, <2>2
      <3>2. i = n + k
        BY <3>1
      <3>3. w[i] = sent + k
        BY <1>5, <3>2
      <3>4. k \in 0 .. m /\ i \in Nat /\ i >= n + k /\ sent + k \in Nat /\ sent + k <= sent + k /\ sent + k <= top
        BY <1>5, <1>8, <3>1, <3>2
      <3> QED BY <1>7, <3>3, <3>4
    <2>3. CASE i > n + m
      <3>1. PICK k \in 1 .. l : k = i - (n + m)
        BY <1>5, <1>8, <2>3
      <3>2. i = n + m + k
        BY <3>1
      <3>3. w[i] = queued[k] /\ queued[k] \in Nat /\ queued[k] <= sent + m
        BY <1>3, <1>5, <3>1, <3>2
      <3>4. m \in 0 .. m /\ i \in Nat /\ i >= n + m /\ queued[k] <= top
        BY <1>5, <1>8, <2>3, <3>3
      <3> QED BY <1>7, <3>3, <3>4
    <2> QED BY <1>5, <1>8, <2>1, <2>2, <2>3
  <1>9. Covered(got, w, sent + m, Len(w))
    <2>1. m \in 0 .. m /\ Len(w) \in Nat /\ Len(w) >= n + m /\ sent + m \in Nat /\ sent + m <= sent + m
      BY <1>5
    <2> QED BY <1>7, <2>1
  <1>10. known \in 0 .. top /\ 1 .. known \subseteq got /\ sent + m \in 0 .. top
    BY DEF SeenBy
  <1> QED BY <1>4, <1>5, <1>8, <1>9, <1>10 DEF SeenBy

\* A client reads the first event of its wire.
LEMMA WireRead ==
  ASSUME NEW got, NEW known, NEW sent \in Nat, NEW wire \in Seq(Nat), wire # <<>>, NEW top \in Nat,
         SeenBy(known, got, sent, wire, top), NEW all, all = IF wire[1] = 0 THEN got ELSE got \cup {wire[1]}
  PROVE  SeenBy(wire[1], all, sent, Tail(wire), top)
  <1>1. PICK n \in Nat : n = Len(wire) /\ n >= 1
    OBVIOUS
  <1>2. PICK w : w = Tail(wire)
    OBVIOUS
  <1>3. w \in Seq(Nat) /\ Len(w) = n - 1 /\ \A i \in 1 .. n - 1 : w[i] = wire[i + 1]
    BY <1>1, <1>2
  <1>4. wire[1] \in Nat /\ wire[1] <= top /\ \A u \in Nat \ {0} : u = wire[1] => u \in all
    BY <1>1 DEF SeenBy
  <1>5. ASSUME NEW k \in 1 .. n, NEW x \in Nat, Covered(got, wire, x, k)
        PROVE  Covered(all, w, x, k - 1)
    <2>1. ASSUME NEW u \in 1 .. x PROVE u \in all \/ \E j \in 1 .. k - 1 : w[j] = u
      <3>1. u \in got \/ \E j \in 1 .. k : wire[j] = u
        BY <1>5, <2>1 DEF Covered
      <3>2. ASSUME NEW j \in 1 .. k, wire[j] = u PROVE u \in all \/ \E i \in 1 .. k - 1 : w[i] = u
        <4>1. CASE j = 1
          BY <1>4, <2>1, <3>2, <4>1
        <4>2. CASE j # 1
          <5>1. j - 1 \in 1 .. k - 1 /\ j - 1 \in 1 .. n - 1 /\ (j - 1) + 1 = j
            BY <1>5, <3>2, <4>2
          <5>2. w[j - 1] = u
            BY <1>3, <3>2, <5>1
          <5> QED BY <5>1, <5>2
        <4> QED BY <4>1, <4>2
      <3> QED BY <3>1, <3>2
    <2> QED BY <2>1 DEF Covered
  <1>6. ASSUME NEW i \in 1 .. Len(w) PROVE w[i] <= top /\ Covered(all, w, w[i], i)
    <2>1. i + 1 \in 1 .. n /\ (i + 1) - 1 = i /\ w[i] = wire[i + 1] /\ wire[i + 1] \in Nat
      BY <1>1, <1>3, <1>6
    <2>2. wire[i + 1] <= top /\ Covered(got, wire, wire[i + 1], i + 1)
      BY <1>1, <2>1 DEF SeenBy
    <2> QED BY <1>5, <2>1, <2>2
  <1>7. Covered(all, w, sent, Len(w))
    <2>1. n \in 1 .. n /\ Covered(got, wire, sent, n) /\ Len(w) = n - 1
      BY <1>1, <1>3 DEF SeenBy
    <2> QED BY <1>5, <2>1
  <1>8. 1 .. wire[1] \subseteq all
    <2>1. Covered(got, wire, wire[1], 1)
      BY <1>1 DEF SeenBy
    <2> QED BY <1>1, <1>4, <1>5, <2>1 DEF Covered
  <1>9. wire[1] \in 0 .. top /\ sent \in 0 .. top
    BY <1>4 DEF SeenBy
  <1> QED BY <1>2, <1>3, <1>6, <1>7, <1>8, <1>9 DEF SeenBy

\* Every step keeps the invariant.
LEMMA FeedKept == FeedInv /\ [F!Next]_(F!vars) => FeedInv'
<1> SUFFICES ASSUME FeedInv, [F!Next]_(F!vars) PROVE FeedInv'
  OBVIOUS
<1>1. FeedShape /\ \A c \in Client \ flooded : Seen(c)
  BY DEF FeedInv
<1>2. ASSUME NEW c \in Client \ flooded, last' \in Nat, last' >= last, client' = client, stream' = stream
      PROVE  Seen(c)'
  BY <1>1, <1>2 DEF Seen, SeenBy, FeedShape
<1>3. CASE UNCHANGED F!vars
  BY <1>1, <1>3, <1>2 DEF F!vars, FeedInv, FeedShape
<1>4. CASE F!EmitNativeLine \/ F!Poll \/ \E n \in 1 .. Last, greatest \in BOOLEAN : F!InsertLog(n, greatest)
  <2>1. last' \in {last, last + 1} /\ UNCHANGED <<hub, stream, client, flooded>>
    BY <1>4 DEF F!EmitNativeLine, F!Poll, F!InsertLog
  <2>2. last' \in Nat /\ last' >= last /\ last \in Nat
    BY <1>1, <2>1 DEF FeedShape
  <2>3. FeedShape'
    BY <1>1, <2>1, <2>2 DEF FeedShape
  <2> QED BY <1>2, <2>1, <2>2, <2>3 DEF FeedInv
<1>5. ASSUME NEW stored \in BOOLEAN, F!PublishLive(stored) PROVE FeedInv'
  <2>1. PICK id : id = IF stored THEN last + 1 ELSE 0
    OBVIOUS
  <2>2. /\ last' = IF stored THEN last + 1 ELSE last
        /\ hub' = F!Offered(id) /\ UNCHANGED <<stream, client, flooded>>
    BY <1>5, <2>1 DEF F!PublishLive
  <2>3. last' \in Nat /\ last' >= last /\ last \in Nat /\ id \in Nat /\ id <= last'
    BY <1>1, <2>1, <2>2 DEF FeedShape
  <2>4. ASSUME NEW c \in Client
        PROVE  /\ DOMAIN hub'[c] = {"active", "queue"} /\ hub'[c].queue \in Seq(Nat)
               /\ \A i \in 1 .. Len(hub'[c].queue) : hub'[c].queue[i] <= last'
    <3>1. hub'[c] \in {hub[c], [hub[c] EXCEPT !.active = FALSE], [hub[c] EXCEPT !.queue = Append(@, id)]}
      BY <2>2 DEF F!Offered
    <3>2. PICK q : q = hub[c].queue
      OBVIOUS
    <3>3. q \in Seq(Nat) /\ \A i \in 1 .. Len(q) : q[i] <= last
      BY <1>1, <3>2 DEF FeedShape
    <3>4. hub'[c].queue \in {q, Append(q, id)} /\ DOMAIN hub'[c] = {"active", "queue"}
      BY <1>1, <3>1, <3>2 DEF FeedShape
    <3>5. \A i \in 1 .. Len(q) : q[i] <= last'
      BY <2>3, <3>3
    <3>6. Append(q, id) \in Seq(Nat) /\ \A i \in 1 .. Len(Append(q, id)) : Append(q, id)[i] <= last'
      BY <2>3, <3>3, <3>5
    <3> QED BY <3>3, <3>4, <3>5, <3>6
  <2>5. DOMAIN hub' = Client
    BY <2>2 DEF F!Offered
  <2>6. FeedShape'
    BY <1>1, <2>2, <2>3, <2>4, <2>5 DEF FeedShape
  <2> QED BY <1>2, <2>2, <2>3, <2>6 DEF FeedInv
<1>6. ASSUME NEW c \in Client \ flooded, stream'[c] = F!Closed, client'[c] = client[c], last' = last
      PROVE  Seen(c)'
  <2>1. /\ last \in Nat /\ client[c].known \in 0 .. last /\ 1 .. client[c].known \subseteq client[c].got
    BY <1>1 DEF Seen, SeenBy, FeedShape
  <2>2. stream'[c].sent = 0 /\ stream'[c].wire = <<>>
    BY <1>6 DEF F!Closed
  <2> QED BY <1>6, <2>1, <2>2 DEF Seen, SeenBy, Covered
<1>7. ASSUME NEW c \in Client, F!Disconnect(c) PROVE FeedInv'
  <2>1. /\ stream' = [stream EXCEPT ![c] = F!Closed] /\ hub' = [hub EXCEPT ![c] = F!Unsubscribed]
        /\ UNCHANGED <<last, client, flooded>>
    BY <1>7 DEF F!Disconnect
  <2>2. FeedShape'
    BY <1>1, <2>1 DEF FeedShape, F!Closed, F!Unsubscribed
  <2>3. ASSUME NEW d \in Client \ flooded PROVE Seen(d)'
    <3>1. CASE d = c
      BY <1>1, <1>6, <2>1, <3>1 DEF FeedShape
    <3>2. CASE d # c
      BY <1>1, <2>1, <3>2 DEF Seen, FeedShape
    <3> QED BY <3>1, <3>2
  <2> QED BY <2>1, <2>2, <2>3 DEF FeedInv
<1>8. CASE F!Restart
  <2>1. /\ stream' = [c \in Client |-> F!Closed] /\ hub' = [c \in Client |-> F!Unsubscribed]
        /\ UNCHANGED <<last, client, flooded>>
    BY <1>8 DEF F!Restart
  <2>2. /\ DOMAIN hub' = Client /\ DOMAIN stream' = Client
        /\ \A c \in Client : /\ DOMAIN hub'[c] = {"active", "queue"} /\ hub'[c].queue = <<>>
                             /\ DOMAIN stream'[c] = {"open", "sent", "wire"}
    BY <2>1 DEF F!Closed, F!Unsubscribed
  <2>3. FeedShape'
    <3>1. ASSUME NEW c \in Client
          PROVE  hub'[c].queue \in Seq(Nat) /\ \A i \in 1 .. Len(hub'[c].queue) : hub'[c].queue[i] <= last'
      <4>1. PICK q : q = hub'[c].queue
        OBVIOUS
      <4>2. q = <<>>
        BY <2>2, <4>1
      <4>3. q \in Seq(Nat) /\ \A i \in 1 .. Len(q) : q[i] <= last'
        BY <4>2
      <4> QED BY <4>1, <4>3
    <3> QED BY <1>1, <2>1, <2>2, <3>1 DEF FeedShape
  <2> QED BY <1>6, <2>1, <2>3 DEF FeedInv
<1>9. ASSUME NEW c \in Client, F!Connect(c) PROVE FeedInv'
  <2>1. PICK rows, sent : rows = F!Replayed(client[c].known) /\ sent = F!UpTo(rows, client[c].known)
    OBVIOUS
  <2>2. /\ stream' = [stream EXCEPT ![c] = [open |-> TRUE, sent |-> sent, wire |-> rows]]
        /\ hub' = [hub EXCEPT ![c] = [active |-> TRUE, queue |-> <<>>]] /\ UNCHANGED <<last, client, flooded>>
    BY <1>9, <2>1 DEF F!Connect
  <2>3. FeedShape'
    BY <1>1, <2>2 DEF FeedShape
  <2>4. ASSUME c \notin flooded PROVE Seen(c)'
    <3>1. PICK known, got : known = client[c].known /\ got = client[c].got
      OBVIOUS
    <3>2. known \in 0 .. last /\ 1 .. known \subseteq got /\ last \in Nat
      BY <1>1, <2>4, <3>1 DEF Seen, SeenBy, FeedShape
    <3>3. PICK m \in Nat : rows = [i \in 1 .. m |-> known + i] /\ known + m <= last /\ sent = known + m
      BY <1>1, <2>1, <3>1, <3>2, ReplayedRows
    <3>4. SeenBy(known, got, known, <<>>, last)
      BY <3>2 DEF SeenBy, Covered
    <3>5. SeenBy(known, got, known + m, <<>> \o rows \o <<>>, last)
      <4>1. /\ known \in Nat /\ known + m <= last /\ rows = [i \in 1 .. m |-> known + i]
            /\ <<>> \in Seq(Nat) /\ \A i \in 1 .. Len(<<>>) : <<>>[i] <= known + m
        BY <3>2, <3>3
      <4> QED BY <3>2, <3>4, <4>1, WireGrows
    <3>6. <<>> \o rows \o <<>> = rows
      BY <3>2, <3>3
    <3>7. stream'[c].sent = sent /\ stream'[c].wire = rows
      BY <1>1, <2>2 DEF FeedShape
    <3> QED BY <2>2, <3>1, <3>3, <3>5, <3>6, <3>7 DEF Seen
  <2>5. ASSUME NEW d \in Client \ flooded, d # c PROVE Seen(d)'
    BY <1>1, <2>2, <2>5 DEF Seen, FeedShape
  <2> QED BY <2>2, <2>3, <2>4, <2>5 DEF FeedInv
<1>10. ASSUME NEW c \in Client, F!Tick(c) PROVE FeedInv'
  <2>1. PICK rows, queued, sent, wire :
          /\ rows = F!Replayed(stream[c].sent) /\ queued = hub[c].queue
          /\ sent = F!UpTo(queued, F!UpTo(rows, stream[c].sent)) /\ wire = stream[c].wire \o rows \o queued
    OBVIOUS
  <2>2. /\ stream' = [stream EXCEPT ![c].sent = sent, ![c].wire = wire]
        /\ flooded' = IF queued # <<>> /\ last > stream[c].sent + Limit THEN flooded \cup {c} ELSE flooded
        /\ hub' = [hub EXCEPT ![c].queue = <<>>] /\ UNCHANGED <<last, client>>
    BY <1>10, <2>1 DEF F!Tick
  <2>3. stream'[c].sent = sent /\ stream'[c].wire = wire /\ \A d \in Client \ {c} : stream'[d] = stream[d]
    BY <1>1, <2>2 DEF FeedShape
  <2>4. FeedShape'
    BY <1>1, <2>2 DEF FeedShape
  <2>5. ASSUME c \notin flooded' PROVE Seen(c)'
    <3>1. c \notin flooded /\ (queued = <<>> \/ ~(last > stream[c].sent + Limit))
      BY <2>2, <2>5
    <3>2. PICK old, was : old = stream[c].sent /\ was = stream[c].wire
      OBVIOUS
    <3>3. old \in 0 .. last /\ was \in Seq(Nat) /\ last \in Nat /\ queued \in Seq(Nat) /\ Limit \in Nat
          /\ \A i \in 1 .. Len(queued) : queued[i] <= last
      BY <1>1, <2>1, <3>1, <3>2 DEF Seen, SeenBy, FeedShape
    <3>4. PICK m \in Nat : /\ rows = [i \in 1 .. m |-> old + i] /\ old + m <= last
                           /\ last <= old + Limit => old + m = last
                           /\ F!UpTo(rows, old) = old + m
      BY <1>1, <2>1, <3>2, <3>3, ReplayedRows
    <3>5. \A i \in 1 .. Len(queued) : queued[i] <= old + m
      <4>1. CASE queued = <<>>
        BY <4>1
      <4>2. CASE ~(last > old + Limit)
        <5>1. last = old + m
          BY <3>3, <3>4, <4>2
        <5> QED BY <3>3, <5>1
      <4> QED BY <3>1, <3>2, <4>1, <4>2
    <3>6. old \in Nat /\ old + m \in Nat
      BY <3>3
    <3>7. sent = old + m
      <4>1. F!UpTo(queued, old + m) = old + m
        BY <3>3, <3>5, <3>6, UpToBound
      <4> QED BY <2>1, <3>2, <3>4, <4>1
    <3>8. SeenBy(client[c].known, client[c].got, old, was, last)
      BY <1>1, <3>1, <3>2 DEF Seen
    <3>9. SeenBy(client[c].known, client[c].got, old + m, was \o rows \o queued, last)
      <4>1. rows = [i \in 1 .. m |-> old + i] /\ old + m <= last
        BY <3>4
      <4> QED BY <3>3, <3>5, <3>8, <3>6, <4>1, WireGrows
    <3> QED BY <2>1, <2>2, <2>3, <3>2, <3>7, <3>9 DEF Seen
  <2>6. ASSUME NEW d \in Client \ flooded, d # c PROVE Seen(d)'
    BY <1>1, <2>2, <2>3, <2>6 DEF Seen
  <2> QED BY <2>2, <2>4, <2>5, <2>6 DEF FeedInv
<1>11. ASSUME NEW c \in Client, F!Deliver(c) PROVE FeedInv'
  <2>1. PICK id, rest, all :
          id = Head(stream[c].wire) /\ rest = Tail(stream[c].wire)
          /\ all = IF id = 0 THEN client[c].got ELSE client[c].got \cup {id}
    OBVIOUS
  <2>2. /\ stream[c].wire # <<>> /\ client' = [client EXCEPT ![c] = [known |-> id, got |-> all]]
        /\ stream' = [stream EXCEPT ![c].wire = rest] /\ UNCHANGED <<last, hub, flooded>>
    BY <1>11, <2>1 DEF F!Deliver
  <2>3. FeedShape'
    BY <1>1, <2>2 DEF FeedShape
  <2>4. ASSUME c \notin flooded PROVE Seen(c)'
    <3>1. PICK wire, sent, got, known :
            wire = stream[c].wire /\ sent = stream[c].sent /\ got = client[c].got /\ known = client[c].known
      OBVIOUS
    <3>2. SeenBy(known, got, sent, wire, last) /\ wire \in Seq(Nat) /\ sent \in Nat /\ last \in Nat /\ wire # <<>>
      BY <1>1, <2>2, <2>4, <3>1 DEF Seen, SeenBy, FeedShape
    <3>3. id = wire[1] /\ rest = Tail(wire) /\ all = IF wire[1] = 0 THEN got ELSE got \cup {wire[1]}
      BY <2>1, <3>1, <3>2
    <3>4. SeenBy(wire[1], all, sent, Tail(wire), last)
      BY <3>2, <3>3, WireRead
    <3>5. /\ client'[c].known = id /\ client'[c].got = all
          /\ stream'[c].sent = sent /\ stream'[c].wire = rest
      BY <1>1, <2>2, <3>1 DEF FeedShape
    <3> QED BY <2>2, <3>3, <3>4, <3>5 DEF Seen
  <2>5. ASSUME NEW d \in Client \ flooded, d # c PROVE Seen(d)'
    BY <1>1, <2>2, <2>5 DEF Seen, FeedShape
  <2> QED BY <2>2, <2>3, <2>4, <2>5 DEF FeedInv
<1> QED BY <1>3, <1>4, <1>5, <1>7, <1>8, <1>9, <1>10, <1>11 DEF F!Next

\* It holds when nothing was stored.
LEMMA FeedBegins == Limit \in Nat /\ F!Init => FeedInv
<1> SUFFICES ASSUME Limit \in Nat, F!Init PROVE FeedInv
  OBVIOUS
<1>1. /\ last = 0 /\ DOMAIN hub = Client /\ DOMAIN stream = Client /\ DOMAIN client = Client
      /\ \A c \in Client : /\ DOMAIN hub[c] = {"active", "queue"} /\ hub[c].queue = <<>>
                           /\ DOMAIN stream[c] = {"open", "sent", "wire"} /\ stream[c].sent = 0
                           /\ stream[c].wire = <<>>
                           /\ DOMAIN client[c] = {"known", "got"} /\ client[c].known = 0
  BY DEF F!Init, F!Unsubscribed, F!Closed
<1>2. ASSUME NEW c \in Client
      PROVE  hub[c].queue \in Seq(Nat) /\ \A i \in 1 .. Len(hub[c].queue) : hub[c].queue[i] <= last
  <2>1. PICK q : q = hub[c].queue
    OBVIOUS
  <2>2. q = <<>>
    BY <1>1, <2>1
  <2>3. q \in Seq(Nat) /\ \A i \in 1 .. Len(q) : q[i] <= last
    BY <2>2
  <2> QED BY <2>1, <2>3
<1>3. ASSUME NEW c \in Client PROVE Seen(c)
  <2>1. SeenBy(0, client[c].got, 0, <<>>, 0)
    BY DEF SeenBy, Covered
  <2> QED BY <1>1, <2>1 DEF Seen
<1> QED BY <1>1, <1>2, <1>3 DEF FeedInv, FeedShape

\* Whatever connections were lost and whoever stored the events (stream, telemetry routes),
\* a client misses no event up to the last id it saw.
THEOREM EventsSeen == Limit \in Nat => (F!Spec => []F!NoEventMissed)
<1>1. FeedInv => F!NoEventMissed
  BY DEF FeedInv, F!NoEventMissed, Seen, SeenBy
<1>2. SUFFICES ASSUME Limit \in Nat PROVE F!Spec => []F!NoEventMissed
  OBVIOUS
<1> QED BY <1>1, <1>2, FeedBegins, FeedKept, PTL DEF F!Spec

-----------------------------------------------------------------------------
(* RemoteTarget: the edits of a run.                                        *)

Before == {"idle", "create", "resume", "setup", "prepare"}
Working == {"start", "command", "restore"}
After == {"release", "settle", "ended"}
Fields == {"pc", "box", "dir", "reuse", "prepared", "worked", "alone", "answer"}

\* The machine of a run past its creation is one that was made; a run that is at its beginning has
\* not worked, and never alone; an answer that all is well is that of a run that did work.
Placed(r) ==
  /\ runner[r].pc \in Before \cup Working \cup After
  /\ runner[r].box \in Box \cup {Nobody}
  /\ runner[r].pc \in {"setup", "prepare"} \cup Working => runner[r].box \in Box /\ box[runner[r].box] # "none"
  /\ runner[r].pc = "resume" => runner[r].box \in Box
  /\ runner[r].pc \in {"idle", "create"} => runner[r].box = Nobody
  /\ runner[r].pc \in Before =>
       ~runner[r].worked /\ ~runner[r].alone /\ \A b \in Box : r \notin process[b]
  /\ \A b \in Box : r \in process[b] => runner[r].box = b
  /\ runner[r].answer = "ok" => runner[r].worked

\* A machine that a run has to itself holds its edits only, and only its command.
Alone(r) ==
  runner[r].pc \in Working /\ runner[r].alone /\ runner[r].dir /\ provider # "docker" =>
    /\ runner[r].prepared
    /\ edits[runner[r].box] \subseteq {r} /\ process[runner[r].box] \subseteq {r}
    /\ runner[r].worked => r \in edits[runner[r].box]
    /\ \A q \in Runner \ {r} : runner[q].box = runner[r].box => runner[q].pc \in {"resume", "ended"}

\* What its worktree received: with docker what its command wrote, otherwise nothing before the end.
Received(r) ==
  /\ provider = "docker" => home[r] \subseteq {r} /\ (runner[r].worked => r \in home[r])
  /\ provider # "docker" /\ runner[r].pc \notin After => home[r] = {}
  /\ runner[r].pc \in After /\ runner[r].alone /\ runner[r].dir /\ provider # "ssh" =>
       home[r] \subseteq {r} /\ (runner[r].answer = "ok" => r \in home[r])
Table ==
  /\ DOMAIN runner = Runner /\ DOMAIN box = Box /\ DOMAIN edits = Box /\ DOMAIN process = Box
  /\ DOMAIN home = Runner
  /\ \A r \in Runner : DOMAIN runner[r] = Fields
RemoteInv == Table /\ \A r \in Runner : Placed(r) /\ Alone(r) /\ Received(r)

LEMMA FreshFields == DOMAIN R!Fresh = Fields
  BY DEF R!Fresh, Fields

LEMMA RemoteBegins == R!Init => RemoteInv
  BY DEF R!Init, RemoteInv, Table, Placed, Alone, Received, R!Fresh, Fields, Before, Working, After

\* What a step writes of a run.
LEMMA Written ==
  ASSUME Table, NEW r \in Runner, NEW fields, R!Set(r, fields)
  PROVE  /\ DOMAIN runner' = Runner
         /\ \A q \in Runner \ {r} : runner'[q] = runner[q]
         /\ DOMAIN runner'[r] = Fields
         /\ \A f \in Fields : runner'[r][f] = IF f \in DOMAIN fields THEN fields[f] ELSE runner[r][f]
  BY FreshFields DEF Table, R!Set, R!With

\* A step of run q leaves the other runs what they have: it changes edits and processes only where it
\* is itself, and comes only to a machine that nobody has to himself.
LEMMA OthersKeep ==
  ASSUME RemoteInv, provider' = provider, NEW q \in Runner,
         \A r \in Runner \ {q} :
           /\ \A f \in Fields \ {"alone"} : runner'[r][f] = runner[r][f]
           /\ runner'[r].alone => runner[r].alone
           /\ home'[r] = home[r],
         \A b \in Box : box[b] # "none" => box'[b] # "none",
         \A b \in Box : process'[b] \subseteq process[b] \cup {q},
         \A b \in Box :
           \/ edits'[b] = edits[b] /\ process'[b] \subseteq process[b]
           \/ b = runner[q].box /\ runner[q].pc \notin {"resume", "ended"}
           \/ q \in process[b],
         \/ runner'[q].pc \in {"resume", "ended"}
         \/ runner'[q].box = runner[q].box /\ runner[q].pc \notin {"resume", "ended"}
         \/ runner'[q].box \in Box /\ box[runner'[q].box] = "none"
         \/ runner'[q].box \notin Box
         \/ \A r \in Runner \ {q} : runner[r].box = runner'[q].box => ~runner'[r].alone
                                     \/ runner[r].pc \notin Working,
         NEW r \in Runner \ {q}
  PROVE  Placed(r)' /\ Alone(r)' /\ Received(r)'
  <1>1. \A x \in Runner \ {q} :
          /\ runner'[x].pc = runner[x].pc /\ runner'[x].box = runner[x].box /\ runner'[x].dir = runner[x].dir
          /\ runner'[x].prepared = runner[x].prepared /\ runner'[x].worked = runner[x].worked
          /\ runner'[x].answer = runner[x].answer
    BY DEF Fields
  <1>2. Placed(r) /\ Alone(r) /\ Received(r)
    BY DEF RemoteInv
  <1>3. Placed(r)'
    BY <1>1, <1>2 DEF Placed, Working
  <1>4. Received(r)'
    BY <1>1, <1>2 DEF Received
  <1>5. Alone(r)'
    <2>1. SUFFICES ASSUME runner'[r].pc \in Working, runner'[r].alone, runner'[r].dir, provider' # "docker"
                 PROVE  /\ runner'[r].prepared
                        /\ edits'[runner'[r].box] \subseteq {r} /\ process'[runner'[r].box] \subseteq {r}
                        /\ runner'[r].worked => r \in edits'[runner'[r].box]
                        /\ \A x \in Runner \ {r} : runner'[x].box = runner'[r].box =>
                                                      runner'[x].pc \in {"resume", "ended"}
      BY DEF Alone
    <2>2. PICK b \in Box : b = runner[r].box /\ box[b] # "none"
      BY <1>1, <1>2, <2>1 DEF Placed
    <2>3. /\ runner[r].prepared /\ edits[b] \subseteq {r} /\ process[b] \subseteq {r}
          /\ runner[r].worked => r \in edits[b]
          /\ \A x \in Runner \ {r} : runner[x].box = b => runner[x].pc \in {"resume", "ended"}
      BY <1>1, <1>2, <2>1, <2>2 DEF Alone
    <2>4. edits'[b] = edits[b] /\ process'[b] \subseteq process[b]
      BY <2>3
    <2>5. runner'[q].box = b => runner'[q].pc \in {"resume", "ended"}
      BY <1>1, <2>1, <2>2, <2>3
    <2> QED BY <1>1, <2>2, <2>3, <2>4, <2>5
  <1> QED BY <1>3, <1>4, <1>5

\* Every step keeps the invariant.
LEMMA RemoteKept == Nobody \notin Box /\ RemoteInv /\ [R!Next]_(R!vars) => RemoteInv'
<1> SUFFICES ASSUME Nobody \notin Box, RemoteInv, [R!Next]_(R!vars) PROVE RemoteInv'
  OBVIOUS
<1>1. Table /\ \A r \in Runner : Placed(r) /\ Alone(r) /\ Received(r)
  BY DEF RemoteInv
<1>2. CASE UNCHANGED R!vars
  BY <1>2 DEF R!vars, RemoteInv, Table, Placed, Alone, Received
<1>3. ASSUME NEW q \in Runner, NEW dir, NEW reuse, NEW lease \in Box \cup {Nobody}, R!Begin(q, dir, reuse, lease)
      PROVE  RemoteInv'
  <2>1. runner[q].pc = "idle" /\ R!Set(q, [pc |-> IF lease = Nobody THEN "create" ELSE "resume",
           box |-> lease, dir |-> dir, reuse |-> reuse]) /\ UNCHANGED <<provider, box, leases, edits, process, home>>
    BY <1>3 DEF R!Begin, R!At
  <2>2. /\ DOMAIN runner' = Runner /\ \A x \in Runner \ {q} : runner'[x] = runner[x]
        /\ DOMAIN runner'[q] = Fields
        /\ runner'[q].pc = (IF lease = Nobody THEN "create" ELSE "resume") /\ runner'[q].box = lease
        /\ runner'[q].worked = runner[q].worked /\ runner'[q].alone = runner[q].alone
        /\ runner'[q].answer = runner[q].answer
    BY <1>1, <2>1, Written DEF Fields
  <2>3. Table'
    BY <1>1, <2>1, <2>2 DEF Table
  <2>4. Placed(q)' /\ Alone(q)' /\ Received(q)'
    BY <1>1, <2>1, <2>2 DEF Placed, Alone, Received, Before, Working, After
  <2>5. \A r \in Runner \ {q} : Placed(r)' /\ Alone(r)' /\ Received(r)'
    BY <2>1, <2>2, OthersKeep
  <2> QED BY <2>3, <2>4, <2>5 DEF RemoteInv
<1>4. ASSUME NEW q \in Runner, NEW b \in Box, R!Create(q, b) PROVE RemoteInv'
  <2>1. /\ runner[q].pc = "create" /\ box[b] = "none" /\ R!Set(q, [pc |-> "setup", box |-> b])
        /\ box' = [box EXCEPT ![b] = "running"] /\ UNCHANGED <<provider, edits, process, home>>
    BY <1>4 DEF R!Create, R!At, R!Of, R!Fail
  <2>2. R!Set(q, [pc |-> "setup", box |-> b])
    BY <2>1
  <2>3. /\ DOMAIN runner' = Runner /\ \A x \in Runner \ {q} : runner'[x] = runner[x]
        /\ DOMAIN runner'[q] = Fields
        /\ runner'[q].pc = "setup" /\ runner'[q].box = b
        /\ runner'[q].dir = runner[q].dir /\ runner'[q].prepared = runner[q].prepared
        /\ runner'[q].worked = runner[q].worked /\ runner'[q].alone = runner[q].alone
        /\ runner'[q].answer = runner[q].answer
    BY <1>1, <2>2, Written DEF Fields
  <2>4. Table'
    BY <1>1, <2>1, <2>3 DEF Table
  <2>5. Placed(q)' /\ Alone(q)' /\ Received(q)'
    BY <1>1, <2>1, <2>3 DEF Placed, Alone, Received, Before, Working, After, Table
  <2>6. \A r \in Runner \ {q} : Placed(r)' /\ Alone(r)' /\ Received(r)'
    BY <1>1, <2>1, <2>3, OthersKeep DEF Placed, Working, Table
  <2> QED BY <2>4, <2>5, <2>6 DEF RemoteInv
<1>5. ASSUME NEW q \in Runner, NEW b \in Box, R!CreateLost(q, b) PROVE RemoteInv'
  <2>1. /\ runner[q].pc = "create" /\ box[b] = "none" /\ R!Set(q, [pc |-> "ended", answer |-> "error"])
        /\ \E state \in {"none", "running", "gone"} : box' = [box EXCEPT ![b] = state]
        /\ UNCHANGED <<provider, edits, process, home>>
    BY <1>5 DEF R!CreateLost, R!At, R!Of, R!Fail
  <2>2. R!Set(q, [pc |-> "ended", answer |-> "error"])
    BY <2>1
  <2>3. /\ DOMAIN runner' = Runner /\ \A x \in Runner \ {q} : runner'[x] = runner[x]
        /\ DOMAIN runner'[q] = Fields
        /\ runner'[q].pc = "ended" /\ runner'[q].answer = "error"
        /\ runner'[q].box = runner[q].box /\ runner'[q].dir = runner[q].dir
        /\ runner'[q].prepared = runner[q].prepared /\ runner'[q].worked = runner[q].worked
        /\ runner'[q].alone = runner[q].alone
    BY <1>1, <2>2, Written DEF Fields
  <2>4. Table'
    BY <1>1, <2>1, <2>3 DEF Table
  <2>5. Placed(q)' /\ Alone(q)' /\ Received(q)'
    BY <1>1, <2>1, <2>3 DEF Placed, Alone, Received, Before, Working, After, Table
  <2>6. \A r \in Runner \ {q} : Placed(r)' /\ Alone(r)' /\ Received(r)'
    BY <1>1, <2>1, <2>3, OthersKeep DEF Placed, Working, Table
  <2> QED BY <2>4, <2>5, <2>6 DEF RemoteInv
<1>6. ASSUME NEW q \in Runner, R!SetUp(q) PROVE RemoteInv'
  <2>1. /\ runner[q].pc = "setup" /\ R!Set(q, [pc |-> "prepare"])
        /\ UNCHANGED <<provider, box, edits, process, home>>
    BY <1>6 DEF R!SetUp, R!At, R!Of, R!Fail
  <2>2. R!Set(q, [pc |-> "prepare"])
    BY <2>1
  <2>3. /\ DOMAIN runner' = Runner /\ \A x \in Runner \ {q} : runner'[x] = runner[x]
        /\ DOMAIN runner'[q] = Fields
        /\ runner'[q].pc = "prepare"
        /\ runner'[q].box = runner[q].box /\ runner'[q].dir = runner[q].dir
        /\ runner'[q].prepared = runner[q].prepared /\ runner'[q].worked = runner[q].worked
        /\ runner'[q].alone = runner[q].alone /\ runner'[q].answer = runner[q].answer
    BY <1>1, <2>2, Written DEF Fields
  <2>4. Table'
    BY <1>1, <2>1, <2>3 DEF Table
  <2>5. Placed(q)' /\ Alone(q)' /\ Received(q)'
    BY <1>1, <2>1, <2>3 DEF Placed, Alone, Received, Before, Working, After, Table
  <2>6. \A r \in Runner \ {q} : Placed(r)' /\ Alone(r)' /\ Received(r)'
    BY <1>1, <2>1, <2>3, OthersKeep DEF Placed, Working, Table
  <2> QED BY <2>4, <2>5, <2>6 DEF RemoteInv
<1>7. ASSUME NEW q \in Runner, R!SetupFails(q) PROVE RemoteInv'
  <2>1. /\ runner[q].pc = "setup" /\ R!Set(q, [pc |-> "ended", answer |-> "error"])
        /\ \E state \in {"running", "gone"} : R!Becomes(runner[q].box, state)
        /\ UNCHANGED <<provider, edits, home>>
    BY <1>7 DEF R!SetupFails, R!At, R!Of, R!Fail
  <2>2. R!Set(q, [pc |-> "ended", answer |-> "error"])
    BY <2>1
  <2>3. /\ DOMAIN runner' = Runner /\ \A x \in Runner \ {q} : runner'[x] = runner[x]
        /\ DOMAIN runner'[q] = Fields
        /\ runner'[q].pc = "ended" /\ runner'[q].answer = "error"
        /\ runner'[q].box = runner[q].box /\ runner'[q].dir = runner[q].dir
        /\ runner'[q].prepared = runner[q].prepared /\ runner'[q].worked = runner[q].worked
        /\ runner'[q].alone = runner[q].alone
    BY <1>1, <2>2, Written DEF Fields
  <2>4. /\ DOMAIN box' = Box /\ DOMAIN process' = Box
        /\ \A b \in Box : process'[b] \subseteq process[b] /\ (box[b] # "none" => box'[b] # "none")
    BY <1>1, <2>1 DEF Table, R!Becomes
  <2>5. Table'
    BY <1>1, <2>1, <2>3, <2>4 DEF Table
  <2>6. Placed(q)' /\ Alone(q)' /\ Received(q)'
    BY <1>1, <2>1, <2>3, <2>4 DEF Placed, Alone, Received, Before, Working, After, Table
  <2>7. \A r \in Runner \ {q} : Placed(r)' /\ Alone(r)' /\ Received(r)'
    BY <1>1, <2>1, <2>3, <2>4, OthersKeep DEF Placed, Working, Table
  <2> QED BY <2>5, <2>6, <2>7 DEF RemoteInv
<1>8. ASSUME NEW q \in Runner, R!Resume(q) PROVE RemoteInv'
  <2>1. PICK b : /\ b = runner[q].box /\ runner[q].pc = "resume" /\ box[b] \in {"running", "paused"}
                /\ box' = [box EXCEPT ![b] = "running"] /\ UNCHANGED <<provider, edits, process, home>>
                /\ runner' = [x \in Runner |-> IF x = q THEN R!With(q, [pc |-> "prepare"])
                                ELSE IF x \in R!Inside(b) THEN [runner[x] EXCEPT !.alone = FALSE] ELSE runner[x]]
    BY <1>8 DEF R!Resume, R!At, R!Of
  <2>2. UNCHANGED <<provider, edits, process, home>>
    BY <2>1
  <2>3. /\ DOMAIN runner' = Runner /\ DOMAIN runner'[q] = Fields
        /\ runner'[q].pc = "prepare" /\ runner'[q].box = b
        /\ runner'[q].worked = runner[q].worked /\ runner'[q].alone = runner[q].alone
        /\ runner'[q].answer = runner[q].answer
    BY <1>1, <2>1, FreshFields DEF R!With, Fields
  <2>4. ASSUME NEW x \in Runner \ {q}
        PROVE  /\ DOMAIN runner'[x] = Fields
               /\ \A f \in Fields \ {"alone"} : runner'[x][f] = runner[x][f]
               /\ runner'[x].alone => runner[x].alone
               /\ runner[x].box = b =>
                                         ~runner'[x].alone \/ runner[x].pc \notin Working
    <3>1. CASE x \in R!Inside(b)
      <4>1. runner'[x] = [runner[x] EXCEPT !.alone = FALSE] /\ DOMAIN runner[x] = Fields
        BY <1>1, <2>1, <3>1 DEF Table
      <4> QED BY <4>1 DEF Fields
    <3>2. CASE x \notin R!Inside(b)
      <4>1. runner'[x] = runner[x] /\ DOMAIN runner[x] = Fields
        BY <1>1, <2>1, <3>2 DEF Table
      <4>2. runner[x].box = b => runner[x].pc = "ended"
        BY <3>2 DEF R!Inside, R!Of, R!At
      <4> QED BY <4>1, <4>2 DEF Working
    <3> QED BY <3>1, <3>2
  <2>5. /\ DOMAIN box' = Box /\ \A x \in Box : box[x] # "none" => box'[x] # "none"
    BY <1>1, <2>1 DEF Table
  <2>6. Table'
    BY <1>1, <2>1, <2>3, <2>4, <2>5 DEF Table
  <2>7. b \in Box /\ box'[b] # "none"
    BY <1>1, <2>1 DEF Placed, Table
  <2>8. Placed(q)' /\ Alone(q)' /\ Received(q)'
    BY <1>1, <2>1, <2>3, <2>7 DEF Placed, Alone, Received, Before, Working, After
  <2>9. \A r \in Runner \ {q} : Placed(r)' /\ Alone(r)' /\ Received(r)'
    <3>1. /\ provider' = provider
          /\ \A x \in Runner \ {q} : runner[x].box = runner'[q].box =>
                                         ~runner'[x].alone \/ runner[x].pc \notin Working
          /\ \A x \in Runner \ {q} : home'[x] = home[x]
          /\ \A x \in Box : process'[x] \subseteq process[x] \cup {q}
          /\ \A x \in Box : edits'[x] = edits[x] /\ process'[x] \subseteq process[x]
      BY <2>2, <2>3, <2>4
    <3> QED BY <3>1, <2>4, <2>5, OthersKeep
  <2> QED BY <2>6, <2>8, <2>9 DEF RemoteInv
<1>9. ASSUME NEW q \in Runner, R!ResumeFails(q) PROVE RemoteInv'
  <2>1. /\ runner[q].pc = "resume" /\ R!Set(q, [pc |-> "ended", answer |-> "error"])
        /\ UNCHANGED <<provider, box, edits, process, home>>
    BY <1>9 DEF R!ResumeFails, R!At, R!Of, R!Fail
  <2>2. R!Set(q, [pc |-> "ended", answer |-> "error"])
    BY <2>1
  <2>3. /\ DOMAIN runner' = Runner /\ \A x \in Runner \ {q} : runner'[x] = runner[x]
        /\ DOMAIN runner'[q] = Fields
        /\ runner'[q].pc = "ended" /\ runner'[q].answer = "error"
        /\ runner'[q].box = runner[q].box /\ runner'[q].dir = runner[q].dir
        /\ runner'[q].prepared = runner[q].prepared /\ runner'[q].worked = runner[q].worked
        /\ runner'[q].alone = runner[q].alone
    BY <1>1, <2>2, Written DEF Fields
  <2>4. Table'
    BY <1>1, <2>1, <2>3 DEF Table
  <2>5. Placed(q)' /\ Alone(q)' /\ Received(q)'
    BY <1>1, <2>1, <2>3 DEF Placed, Alone, Received, Before, Working, After, Table
  <2>6. \A r \in Runner \ {q} : Placed(r)' /\ Alone(r)' /\ Received(r)'
    BY <1>1, <2>1, <2>3, OthersKeep DEF Placed, Working, Table
  <2> QED BY <2>4, <2>5, <2>6 DEF RemoteInv
<1>10. ASSUME NEW q \in Runner, R!Prepare(q) PROVE RemoteInv'
  <2>1. /\ runner[q].pc = "prepare"
        /\ R!Set(q, [pc |-> "start", prepared |-> runner[q].dir,
                     alone |-> R!Inside(runner[q].box) = {q} /\ process[runner[q].box] = {}])
        /\ IF runner[q].dir /\ provider # "docker"
           THEN edits' = [edits EXCEPT ![runner[q].box] = {}] ELSE UNCHANGED edits
        /\ UNCHANGED <<provider, box, process, home>>
    BY <1>10 DEF R!Prepare, R!At, R!Of, R!Fail
  <2>2. R!Set(q, [pc |-> "start", prepared |-> runner[q].dir,
                     alone |-> R!Inside(runner[q].box) = {q} /\ process[runner[q].box] = {}])
    BY <2>1
  <2>3. /\ DOMAIN runner' = Runner /\ \A x \in Runner \ {q} : runner'[x] = runner[x]
        /\ DOMAIN runner'[q] = Fields
        /\ runner'[q].pc = "start" /\ runner'[q].prepared = runner[q].dir
        /\ runner'[q].alone = (R!Inside(runner[q].box) = {q} /\ process[runner[q].box] = {})
        /\ runner'[q].box = runner[q].box /\ runner'[q].dir = runner[q].dir
        /\ runner'[q].worked = runner[q].worked /\ runner'[q].answer = runner[q].answer
    BY <1>1, <2>2, Written DEF Fields
  <2>4. /\ runner[q].box \in Box /\ DOMAIN edits' = Box
        /\ runner[q].dir /\ provider # "docker" => edits'[runner[q].box] = {}
        /\ \A b \in Box \ {runner[q].box} : edits'[b] = edits[b]
    BY <1>1, <2>1 DEF Placed, Table
  <2>5. runner'[q].alone => /\ process[runner[q].box] = {}
                            /\ \A x \in Runner \ {q} : runner[x].box = runner[q].box => runner[x].pc = "ended"
    BY <2>3 DEF R!Inside, R!Of, R!At
  <2>6. Table'
    BY <1>1, <2>1, <2>3, <2>4, <2>5 DEF Table
  <2>7. Placed(q)' /\ Alone(q)' /\ Received(q)'
    BY <1>1, <2>1, <2>3, <2>4, <2>5 DEF Placed, Alone, Received, Before, Working, After, Table
  <2>8. \A r \in Runner \ {q} : Placed(r)' /\ Alone(r)' /\ Received(r)'
    BY <1>1, <2>1, <2>3, <2>4, <2>5, OthersKeep DEF Placed, Working, Table
  <2> QED BY <2>6, <2>7, <2>8 DEF RemoteInv
<1>11. ASSUME NEW q \in Runner, R!PrepareFails(q) PROVE RemoteInv'
  <2>1. /\ runner[q].pc = "prepare" /\ runner[q].dir /\ provider # "docker"
        /\ R!Set(q, [pc |-> IF provider = "ssh" THEN "restore" ELSE "release", answer |-> "error"])
        /\ (\E wiped \in BOOLEAN : edits' = [edits EXCEPT ![runner[q].box] = IF wiped THEN {} ELSE @])
        /\ UNCHANGED <<provider, box, process, home>>
    BY <1>11 DEF R!PrepareFails, R!At, R!Of, R!Fail
  <2>2. R!Set(q, [pc |-> IF provider = "ssh" THEN "restore" ELSE "release", answer |-> "error"])
    BY <2>1
  <2>3. /\ DOMAIN runner' = Runner /\ \A x \in Runner \ {q} : runner'[x] = runner[x]
        /\ DOMAIN runner'[q] = Fields
        /\ runner'[q].pc = (IF provider = "ssh" THEN "restore" ELSE "release") /\ runner'[q].answer = "error"
        /\ runner'[q].box = runner[q].box /\ runner'[q].dir = runner[q].dir
        /\ runner'[q].prepared = runner[q].prepared /\ runner'[q].worked = runner[q].worked
        /\ runner'[q].alone = runner[q].alone
    BY <1>1, <2>2, Written DEF Fields
  <2>4. /\ runner[q].box \in Box /\ DOMAIN edits' = Box
        /\ \A b \in Box \ {runner[q].box} : edits'[b] = edits[b]
    BY <1>1, <2>1 DEF Placed, Table
  <2>5. Table'
    BY <1>1, <2>1, <2>3, <2>4 DEF Table
  <2>6. Placed(q)' /\ Alone(q)' /\ Received(q)'
    BY <1>1, <2>1, <2>3, <2>4 DEF Placed, Alone, Received, Before, Working, After, Table
  <2>7. \A r \in Runner \ {q} : Placed(r)' /\ Alone(r)' /\ Received(r)'
    BY <1>1, <2>1, <2>3, <2>4, OthersKeep DEF Placed, Working, Table
  <2> QED BY <2>5, <2>6, <2>7 DEF RemoteInv
<1>12. ASSUME NEW q \in Runner, R!Start(q) PROVE RemoteInv'
  <2>1. /\ runner[q].pc = "start" /\ R!Set(q, [pc |-> "command"])
        /\ process' = [process EXCEPT ![runner[q].box] = @ \cup {q}]
        /\ UNCHANGED <<provider, box, edits, home>>
    BY <1>12 DEF R!Start, R!At, R!Of, R!Fail
  <2>2. R!Set(q, [pc |-> "command"])
    BY <2>1
  <2>3. /\ DOMAIN runner' = Runner /\ \A x \in Runner \ {q} : runner'[x] = runner[x]
        /\ DOMAIN runner'[q] = Fields
        /\ runner'[q].pc = "command"
        /\ runner'[q].box = runner[q].box /\ runner'[q].dir = runner[q].dir
        /\ runner'[q].prepared = runner[q].prepared /\ runner'[q].worked = runner[q].worked
        /\ runner'[q].alone = runner[q].alone /\ runner'[q].answer = runner[q].answer
    BY <1>1, <2>2, Written DEF Fields
  <2>4. /\ runner[q].box \in Box /\ DOMAIN process' = Box
        /\ \A b \in Box \ {runner[q].box} : process'[b] = process[b]
        /\ process'[runner[q].box] \subseteq process[runner[q].box] \cup {q}
    BY <1>1, <2>1 DEF Placed, Working, Table
  <2>5. Table'
    BY <1>1, <2>1, <2>3, <2>4 DEF Table
  <2>6. Placed(q)' /\ Alone(q)' /\ Received(q)'
    BY <1>1, <2>1, <2>3, <2>4 DEF Placed, Alone, Received, Before, Working, After, Table
  <2>7. \A r \in Runner \ {q} : Placed(r)' /\ Alone(r)' /\ Received(r)'
    BY <1>1, <2>1, <2>3, <2>4, OthersKeep DEF Placed, Working, Table
  <2> QED BY <2>5, <2>6, <2>7 DEF RemoteInv
<1>13. ASSUME NEW q \in Runner, R!Edit(q) PROVE RemoteInv'
  <2>1. /\ runner[q].box # Nobody /\ q \in process[runner[q].box] /\ R!Set(q, [worked |-> TRUE])
        /\ (IF provider = "docker" THEN home' = [home EXCEPT ![q] = @ \cup {q}] /\ UNCHANGED edits
              ELSE edits' = [edits EXCEPT ![runner[q].box] = @ \cup {q}] /\ UNCHANGED home)
        /\ UNCHANGED <<provider, box, process>>
    BY <1>13 DEF R!Edit, R!At, R!Of, R!Fail
  <2>2. R!Set(q, [worked |-> TRUE])
    BY <2>1
  <2>3. /\ DOMAIN runner' = Runner /\ \A x \in Runner \ {q} : runner'[x] = runner[x]
        /\ DOMAIN runner'[q] = Fields
        /\ runner'[q].worked = TRUE
        /\ runner'[q].pc = runner[q].pc /\ runner'[q].box = runner[q].box
        /\ runner'[q].dir = runner[q].dir /\ runner'[q].prepared = runner[q].prepared
        /\ runner'[q].alone = runner[q].alone /\ runner'[q].answer = runner[q].answer
    BY <1>1, <2>2, Written DEF Fields
  <2>4. /\ runner[q].box \in Box /\ DOMAIN edits' = Box /\ DOMAIN home' = Runner
        /\ \A b \in Box \ {runner[q].box} : edits'[b] = edits[b]
        /\ \A x \in Runner \ {q} : home'[x] = home[x]
        /\ home'[q] = IF provider = "docker" THEN home[q] \cup {q} ELSE home[q]
        /\ edits'[runner[q].box] = IF provider = "docker" THEN edits[runner[q].box] ELSE edits[runner[q].box] \cup {q}
    BY <1>1, <2>1 DEF Placed, Table
  <2>5. Table'
    BY <1>1, <2>1, <2>3, <2>4 DEF Table
  <2>6. Placed(q)' /\ Alone(q)' /\ Received(q)'
    BY <1>1, <2>1, <2>3, <2>4 DEF Placed, Alone, Received, Before, Working, After, Table
  <2>7. \A r \in Runner \ {q} : Placed(r)' /\ Alone(r)' /\ Received(r)'
    BY <1>1, <2>1, <2>3, <2>4, OthersKeep DEF Placed, Working, Table
  <2> QED BY <2>5, <2>6, <2>7 DEF RemoteInv
<1>14. ASSUME NEW q \in Runner, R!Exit(q) PROVE RemoteInv'
  <2>1. /\ runner[q].pc = "command" /\ runner[q].worked /\ R!Set(q, [pc |-> "restore", answer |-> "ok"])
        /\ process' = [process EXCEPT ![runner[q].box] = @ \ {q}]
        /\ UNCHANGED <<provider, box, edits, home>>
    BY <1>14 DEF R!Exit, R!At, R!Of, R!Fail
  <2>2. R!Set(q, [pc |-> "restore", answer |-> "ok"])
    BY <2>1
  <2>3. /\ DOMAIN runner' = Runner /\ \A x \in Runner \ {q} : runner'[x] = runner[x]
        /\ DOMAIN runner'[q] = Fields
        /\ runner'[q].pc = "restore" /\ runner'[q].answer = "ok"
        /\ runner'[q].box = runner[q].box /\ runner'[q].dir = runner[q].dir
        /\ runner'[q].prepared = runner[q].prepared /\ runner'[q].worked = runner[q].worked
        /\ runner'[q].alone = runner[q].alone
    BY <1>1, <2>2, Written DEF Fields
  <2>4. /\ runner[q].box \in Box /\ DOMAIN process' = Box
        /\ \A b \in Box \ {runner[q].box} : process'[b] = process[b]
        /\ process'[runner[q].box] \subseteq process[runner[q].box] \cup {q}
    BY <1>1, <2>1 DEF Placed, Working, Table
  <2>5. Table'
    BY <1>1, <2>1, <2>3, <2>4 DEF Table
  <2>6. Placed(q)' /\ Alone(q)' /\ Received(q)'
    BY <1>1, <2>1, <2>3, <2>4 DEF Placed, Alone, Received, Before, Working, After, Table
  <2>7. \A r \in Runner \ {q} : Placed(r)' /\ Alone(r)' /\ Received(r)'
    BY <1>1, <2>1, <2>3, <2>4, OthersKeep DEF Placed, Working, Table
  <2> QED BY <2>5, <2>6, <2>7 DEF RemoteInv
<1>15. ASSUME NEW q \in Runner, R!Stop(q) PROVE RemoteInv'
  <2>1. /\ runner[q].pc = "command" /\ R!Set(q, [pc |-> "restore", answer |-> "stopped"])
        /\ (\/ R!Becomes(runner[q].box, "exited")
            \/ UNCHANGED box /\ \E left \in SUBSET {q} : process' = [process EXCEPT ![runner[q].box] = @ \ left])
        /\ UNCHANGED <<provider, edits, home>>
    BY <1>15 DEF R!Stop, R!At, R!Of, R!Fail
  <2>2. R!Set(q, [pc |-> "restore", answer |-> "stopped"])
    BY <2>1
  <2>3. /\ DOMAIN runner' = Runner /\ \A x \in Runner \ {q} : runner'[x] = runner[x]
        /\ DOMAIN runner'[q] = Fields
        /\ runner'[q].pc = "restore" /\ runner'[q].answer = "stopped"
        /\ runner'[q].box = runner[q].box /\ runner'[q].dir = runner[q].dir
        /\ runner'[q].prepared = runner[q].prepared /\ runner'[q].worked = runner[q].worked
        /\ runner'[q].alone = runner[q].alone
    BY <1>1, <2>2, Written DEF Fields
  <2>4. /\ DOMAIN box' = Box /\ DOMAIN process' = Box
        /\ \A b \in Box : process'[b] \subseteq process[b] /\ (box[b] # "none" => box'[b] # "none")
    BY <1>1, <2>1 DEF Table, Placed, Working, R!Becomes
  <2>5. Table'
    BY <1>1, <2>1, <2>3, <2>4 DEF Table
  <2>6. Placed(q)' /\ Alone(q)' /\ Received(q)'
    BY <1>1, <2>1, <2>3, <2>4 DEF Placed, Alone, Received, Before, Working, After, Table
  <2>7. \A r \in Runner \ {q} : Placed(r)' /\ Alone(r)' /\ Received(r)'
    BY <1>1, <2>1, <2>3, <2>4, OthersKeep DEF Placed, Working, Table
  <2> QED BY <2>5, <2>6, <2>7 DEF RemoteInv
<1>16. ASSUME NEW q \in Runner, R!Throw(q) PROVE RemoteInv'
  <2>1. /\ runner[q].pc \in {"start", "command"} /\ R!Set(q, [pc |-> "restore", answer |-> "error"])
        /\ UNCHANGED <<provider, box, edits, process, home>>
    BY <1>16 DEF R!Throw, R!At, R!Of, R!Fail
  <2>2. R!Set(q, [pc |-> "restore", answer |-> "error"])
    BY <2>1
  <2>3. /\ DOMAIN runner' = Runner /\ \A x \in Runner \ {q} : runner'[x] = runner[x]
        /\ DOMAIN runner'[q] = Fields
        /\ runner'[q].pc = "restore" /\ runner'[q].answer = "error"
        /\ runner'[q].box = runner[q].box /\ runner'[q].dir = runner[q].dir
        /\ runner'[q].prepared = runner[q].prepared /\ runner'[q].worked = runner[q].worked
        /\ runner'[q].alone = runner[q].alone
    BY <1>1, <2>2, Written DEF Fields
  <2>4. Table'
    BY <1>1, <2>1, <2>3 DEF Table
  <2>5. Placed(q)' /\ Alone(q)' /\ Received(q)'
    BY <1>1, <2>1, <2>3 DEF Placed, Alone, Received, Before, Working, After, Table
  <2>6. \A r \in Runner \ {q} : Placed(r)' /\ Alone(r)' /\ Received(r)'
    BY <1>1, <2>1, <2>3, OthersKeep DEF Placed, Working, Table
  <2> QED BY <2>4, <2>5, <2>6 DEF RemoteInv
<1>17. ASSUME NEW q \in Runner, R!Restore(q) PROVE RemoteInv'
  <2>1. /\ runner[q].pc = "restore" /\ R!Set(q, [pc |-> "release"])
        /\ (IF runner[q].dir /\ provider # "docker" /\ (runner[q].prepared \/ provider = "ssh")
            THEN home' = [home EXCEPT ![q] = @ \cup edits[runner[q].box]] ELSE UNCHANGED home)
        /\ UNCHANGED <<provider, box, edits, process>>
    BY <1>17 DEF R!Restore, R!At, R!Of, R!Fail
  <2>2. R!Set(q, [pc |-> "release"])
    BY <2>1
  <2>3. /\ DOMAIN runner' = Runner /\ \A x \in Runner \ {q} : runner'[x] = runner[x]
        /\ DOMAIN runner'[q] = Fields
        /\ runner'[q].pc = "release"
        /\ runner'[q].box = runner[q].box /\ runner'[q].dir = runner[q].dir
        /\ runner'[q].prepared = runner[q].prepared /\ runner'[q].worked = runner[q].worked
        /\ runner'[q].alone = runner[q].alone /\ runner'[q].answer = runner[q].answer
    BY <1>1, <2>2, Written DEF Fields
  <2>4. /\ DOMAIN home' = Runner /\ \A x \in Runner \ {q} : home'[x] = home[x]
        /\ home'[q] = IF runner[q].dir /\ provider # "docker" /\ (runner[q].prepared \/ provider = "ssh")
                      THEN home[q] \cup edits[runner[q].box] ELSE home[q]
    BY <1>1, <2>1 DEF Table
  <2>5. Table'
    BY <1>1, <2>1, <2>3, <2>4 DEF Table
  <2>6. Placed(q)' /\ Alone(q)' /\ Received(q)'
    BY <1>1, <2>1, <2>3, <2>4 DEF Placed, Alone, Received, Before, Working, After, Table
  <2>7. \A r \in Runner \ {q} : Placed(r)' /\ Alone(r)' /\ Received(r)'
    BY <1>1, <2>1, <2>3, <2>4, OthersKeep DEF Placed, Working, Table
  <2> QED BY <2>5, <2>6, <2>7 DEF RemoteInv
<1>18. ASSUME NEW q \in Runner, R!RestoreFails(q) PROVE RemoteInv'
  <2>1. /\ runner[q].pc = "restore" /\ UNCHANGED <<provider, box, edits, process, home>>
        /\ \/ provider = "ssh" /\ R!Set(q, [pc |-> "release"])
           \/ R!Set(q, [pc |-> "release", answer |-> "error"])
    BY <1>18 DEF R!RestoreFails, R!At, R!Fail
  <2>2. /\ DOMAIN runner' = Runner /\ \A x \in Runner \ {q} : runner'[x] = runner[x]
        /\ DOMAIN runner'[q] = Fields /\ runner'[q].pc = "release"
        /\ (provider = "ssh" /\ runner'[q].answer = runner[q].answer) \/ runner'[q].answer = "error"
        /\ runner'[q].box = runner[q].box /\ runner'[q].dir = runner[q].dir
        /\ runner'[q].worked = runner[q].worked /\ runner'[q].alone = runner[q].alone
    <3>1. CASE R!Set(q, [pc |-> "release"]) /\ provider = "ssh"
      BY <1>1, <3>1, Written DEF Fields
    <3>2. CASE R!Set(q, [pc |-> "release", answer |-> "error"])
      BY <1>1, <3>2, Written DEF Fields
    <3> QED BY <2>1, <3>1, <3>2
  <2>3. Table'
    BY <1>1, <2>1, <2>2 DEF Table
  <2>4. Placed(q)' /\ Alone(q)' /\ Received(q)'
    BY <1>1, <2>1, <2>2 DEF Placed, Alone, Received, Before, Working, After
  <2>5. \A r \in Runner \ {q} : Placed(r)' /\ Alone(r)' /\ Received(r)'
    BY <1>1, <2>1, <2>2, OthersKeep
  <2> QED BY <2>3, <2>4, <2>5 DEF RemoteInv
<1>19. ASSUME NEW q \in Runner, R!Release(q) PROVE RemoteInv'
  <2>1. /\ runner[q].pc = "release"
        /\ R!Set(q, [pc |-> IF R!Leased /\ runner[q].box \notin leases THEN "ended" ELSE "settle"])
        /\ UNCHANGED <<provider, box, edits, process, home>>
    BY <1>19 DEF R!Release, R!At, R!Of, R!Fail
  <2>2. R!Set(q, [pc |-> IF R!Leased /\ runner[q].box \notin leases THEN "ended" ELSE "settle"])
    BY <2>1
  <2>3. /\ DOMAIN runner' = Runner /\ \A x \in Runner \ {q} : runner'[x] = runner[x]
        /\ DOMAIN runner'[q] = Fields
        /\ runner'[q].pc = (IF R!Leased /\ runner[q].box \notin leases THEN "ended" ELSE "settle")
        /\ runner'[q].box = runner[q].box /\ runner'[q].dir = runner[q].dir
        /\ runner'[q].prepared = runner[q].prepared /\ runner'[q].worked = runner[q].worked
        /\ runner'[q].alone = runner[q].alone /\ runner'[q].answer = runner[q].answer
    BY <1>1, <2>2, Written DEF Fields
  <2>4. Table'
    BY <1>1, <2>1, <2>3 DEF Table
  <2>5. Placed(q)' /\ Alone(q)' /\ Received(q)'
    BY <1>1, <2>1, <2>3 DEF Placed, Alone, Received, Before, Working, After, Table
  <2>6. \A r \in Runner \ {q} : Placed(r)' /\ Alone(r)' /\ Received(r)'
    BY <1>1, <2>1, <2>3, OthersKeep DEF Placed, Working, Table
  <2> QED BY <2>4, <2>5, <2>6 DEF RemoteInv
<1>20. ASSUME NEW q \in Runner, R!Pause(q) PROVE RemoteInv'
  <2>1. /\ runner[q].pc = "settle" /\ R!Set(q, [pc |-> "ended"])
        /\ \/ UNCHANGED <<box, process>>
           \/ \E state \in {"paused", "gone", "running"} : R!Becomes(runner[q].box, state)
        /\ UNCHANGED <<provider, edits, home>>
    BY <1>20 DEF R!Pause, R!At, R!Of, R!Fail
  <2>2. R!Set(q, [pc |-> "ended"])
    BY <2>1
  <2>3. /\ DOMAIN runner' = Runner /\ \A x \in Runner \ {q} : runner'[x] = runner[x]
        /\ DOMAIN runner'[q] = Fields
        /\ runner'[q].pc = "ended"
        /\ runner'[q].box = runner[q].box /\ runner'[q].dir = runner[q].dir
        /\ runner'[q].prepared = runner[q].prepared /\ runner'[q].worked = runner[q].worked
        /\ runner'[q].alone = runner[q].alone /\ runner'[q].answer = runner[q].answer
    BY <1>1, <2>2, Written DEF Fields
  <2>4. /\ DOMAIN box' = Box /\ DOMAIN process' = Box
        /\ \A b \in Box : process'[b] \subseteq process[b] /\ (box[b] # "none" => box'[b] # "none")
    BY <1>1, <2>1 DEF Table, R!Becomes
  <2>5. Table'
    BY <1>1, <2>1, <2>3, <2>4 DEF Table
  <2>6. Placed(q)' /\ Alone(q)' /\ Received(q)'
    BY <1>1, <2>1, <2>3, <2>4 DEF Placed, Alone, Received, Before, Working, After, Table
  <2>7. \A r \in Runner \ {q} : Placed(r)' /\ Alone(r)' /\ Received(r)'
    BY <1>1, <2>1, <2>3, <2>4, OthersKeep DEF Placed, Working, Table
  <2> QED BY <2>5, <2>6, <2>7 DEF RemoteInv
<1>21. ASSUME NEW q \in Runner, R!Destroy(q) PROVE RemoteInv'
  <2>1. /\ runner[q].pc = "settle" /\ R!Set(q, [pc |-> "ended"])
        /\ R!Becomes(runner[q].box, "gone")
        /\ UNCHANGED <<provider, edits, home>>
    BY <1>21 DEF R!Destroy, R!At, R!Of, R!Fail
  <2>2. R!Set(q, [pc |-> "ended"])
    BY <2>1
  <2>3. /\ DOMAIN runner' = Runner /\ \A x \in Runner \ {q} : runner'[x] = runner[x]
        /\ DOMAIN runner'[q] = Fields
        /\ runner'[q].pc = "ended"
        /\ runner'[q].box = runner[q].box /\ runner'[q].dir = runner[q].dir
        /\ runner'[q].prepared = runner[q].prepared /\ runner'[q].worked = runner[q].worked
        /\ runner'[q].alone = runner[q].alone /\ runner'[q].answer = runner[q].answer
    BY <1>1, <2>2, Written DEF Fields
  <2>4. /\ DOMAIN box' = Box /\ DOMAIN process' = Box
        /\ \A b \in Box : process'[b] \subseteq process[b] /\ (box[b] # "none" => box'[b] # "none")
    BY <1>1, <2>1 DEF Table, R!Becomes
  <2>5. Table'
    BY <1>1, <2>1, <2>3, <2>4 DEF Table
  <2>6. Placed(q)' /\ Alone(q)' /\ Received(q)'
    BY <1>1, <2>1, <2>3, <2>4 DEF Placed, Alone, Received, Before, Working, After, Table
  <2>7. \A r \in Runner \ {q} : Placed(r)' /\ Alone(r)' /\ Received(r)'
    BY <1>1, <2>1, <2>3, <2>4, OthersKeep DEF Placed, Working, Table
  <2> QED BY <2>5, <2>6, <2>7 DEF RemoteInv
<1>22. ASSUME NEW q \in Runner, R!DestroyFails(q) PROVE RemoteInv'
  <2>1. /\ runner[q].pc = "settle" /\ UNCHANGED <<provider, box, edits, process, home>>
        /\ \/ R!Set(q, [pc |-> "ended"])
           \/ R!Set(q, [pc |-> "ended", answer |-> "error"])
    BY <1>22 DEF R!DestroyFails, R!At, R!Fail
  <2>2. /\ DOMAIN runner' = Runner /\ \A x \in Runner \ {q} : runner'[x] = runner[x]
        /\ DOMAIN runner'[q] = Fields /\ runner'[q].pc = "ended"
        /\ runner'[q].answer = runner[q].answer \/ runner'[q].answer = "error"
        /\ runner'[q].box = runner[q].box /\ runner'[q].dir = runner[q].dir
        /\ runner'[q].worked = runner[q].worked /\ runner'[q].alone = runner[q].alone
    <3>1. CASE R!Set(q, [pc |-> "ended"])
      BY <1>1, <3>1, Written DEF Fields
    <3>2. CASE R!Set(q, [pc |-> "ended", answer |-> "error"])
      BY <1>1, <3>2, Written DEF Fields
    <3> QED BY <2>1, <3>1, <3>2
  <2>3. Table'
    BY <1>1, <2>1, <2>2 DEF Table
  <2>4. Placed(q)' /\ Alone(q)' /\ Received(q)'
    BY <1>1, <2>1, <2>2 DEF Placed, Alone, Received, Before, Working, After
  <2>5. \A r \in Runner \ {q} : Placed(r)' /\ Alone(r)' /\ Received(r)'
    BY <1>1, <2>1, <2>2, OthersKeep
  <2> QED BY <2>3, <2>4, <2>5 DEF RemoteInv
<1>23. ASSUME NEW b \in Box, R!Expire(b) PROVE RemoteInv'
  <2>1. R!Becomes(b, "gone") /\ UNCHANGED <<provider, edits, runner, home>>
    BY <1>23 DEF R!Expire
  <2>2. /\ DOMAIN box' = Box /\ DOMAIN process' = Box
        /\ \A x \in Box : process'[x] \subseteq process[x] /\ (box[x] # "none" => box'[x] # "none")
    BY <1>1, <2>1 DEF Table, R!Becomes
  <2>3. Table' /\ \A r \in Runner : Placed(r)' /\ Received(r)'
    BY <1>1, <2>1, <2>2 DEF Table, Placed, Received
  <2>4. ASSUME NEW r \in Runner PROVE Alone(r)'
    BY <1>1, <2>1, <2>2 DEF Alone, Placed
  <2> QED BY <2>3, <2>4 DEF RemoteInv
<1>24. CASE R!Die
  <2>1. /\ UNCHANGED <<provider, box, edits, process, home>>
        /\ runner' = [r \in Runner |-> IF runner[r].pc \in {"idle", "ended"} THEN runner[r]
                                       ELSE R!With(r, [pc |-> "ended", answer |-> "error"])]
    BY <1>24 DEF R!Die
  <2>2. ASSUME NEW r \in Runner
        PROVE  /\ DOMAIN runner'[r] = Fields /\ runner'[r].box = runner[r].box /\ runner'[r].dir = runner[r].dir
               /\ runner'[r].alone = runner[r].alone /\ runner'[r].worked = runner[r].worked
               /\ \/ /\ runner'[r].pc = runner[r].pc /\ runner[r].pc \in {"idle", "ended"}
                     /\ runner'[r].answer = runner[r].answer
                  \/ runner'[r].pc = "ended" /\ runner'[r].answer = "error"
    BY <1>1, <2>1, FreshFields DEF R!With, Fields, Table
  <2>3. Table' /\ \A r \in Runner : Placed(r)' /\ Alone(r)' /\ Received(r)'
    <3>1. Table'
      BY <1>1, <2>1, <2>2 DEF Table
    <3>2. UNCHANGED <<provider, box, edits, process, home>>
      BY <2>1
    <3>3. ASSUME NEW r \in Runner PROVE Placed(r)' /\ Alone(r)' /\ Received(r)'
      BY <1>1, <2>2, <3>2 DEF Placed, Alone, Received, Before, Working, After
    <3> QED BY <3>1, <3>3
  <2> QED BY <2>3 DEF RemoteInv
<1> QED
  BY <1>2, <1>3, <1>4, <1>5, <1>6, <1>7, <1>8, <1>9, <1>10, <1>11, <1>12, <1>13, <1>14, <1>15, <1>16,
     <1>17, <1>18, <1>19, <1>20, <1>21, <1>22, <1>23, <1>24 DEF R!Next

\* A run that had its machine to itself brings home its own edits, and all of them if it ended well
\* (withSdkSandbox, sdk-sandbox-target.ts; restoreWorkspace, workspace-roundtrip.ts).
THEOREM OwnWorkRestored == Nobody \notin Box => (R!Spec => []R!OwnWorkComesHome)
<1>1. RemoteInv => R!OwnWorkComesHome
  BY DEF RemoteInv, Received, After, R!OwnWorkComesHome, R!At
<1>2. SUFFICES ASSUME Nobody \notin Box PROVE R!Spec => []R!OwnWorkComesHome
  OBVIOUS
<1> QED BY <1>1, <1>2, RemoteBegins, RemoteKept, PTL DEF R!Spec

-----------------------------------------------------------------------------
(* Migrations: what a process finds that is past them, and what it loses.   *)

ItemFields == {"status", "mode", "delivery", "commit", "live"}
ActionFields == {"status", "owner", "live"}
Columns == UNION {V!Evolution[k] : k \in 1 .. 5}

Created(p) == opener[p].pc \in {"check", "alter", "normalize", "telemetry", "ready"}
Altered(p) == opener[p].pc \in {"normalize", "telemetry", "ready"}
Beyond(p, k) == opener[p].pc \in {"telemetry", "ready"} \/ (opener[p].pc = "normalize" /\ opener[p].n > k)

AllCreated == \A k \in 1 .. 10 : V!Creation[k] \subseteq tables
Numbered == \A e \in 1 .. Len(events) : events[e] = e
NotLegacy == item # V!None => ~V!Legacy(item)

\* What a process left behind: tables, columns, an objective, numbers and no legacy item.
Left(p) ==
  /\ opener[p].pc \in {"idle", "create", "check", "alter", "normalize", "telemetry", "ready", "threw"}
  /\ opener[p].pc = "create" =>
       opener[p].n \in 1 .. 10 /\ \A k \in 1 .. opener[p].n - 1 : V!Creation[k] \subseteq tables
  /\ Created(p) => AllCreated
  /\ opener[p].pc \in {"check", "alter"} =>
       opener[p].n \in 1 .. 5 /\ \A k \in 1 .. opener[p].n - 1 : lacking \cap V!Evolution[k] = {}
  /\ opener[p].pc = "alter" => lacking \cap V!Evolution[opener[p].n] \subseteq opener[p].missing
  /\ Altered(p) => lacking = {}
  /\ opener[p].pc = "normalize" => opener[p].n \in 1 .. 5
  /\ Beyond(p, 1) => project # "none"
  /\ Beyond(p, 2) => Numbered
  /\ Beyond(p, 3) => NotLegacy
  /\ opener[p].pc = "ready" => V!TelemetryTables \subseteq tables

\* A live item is never a legacy one; a live action is either claimed or done.
Rows ==
  /\ item # V!None => DOMAIN item = ItemFields
  /\ item # V!None /\ item.live => ~V!Legacy(item)
  /\ action # V!None => DOMAIN action = ActionFields
  /\ action # V!None /\ action.live =>
       action.owner = "live" \/ (action.owner = "none" /\ action.status \in {"succeeded", "failed"})
  /\ events \in Seq(Nat) /\ \A e \in 1 .. Len(events) : events[e] \in {0, e}
Schema ==
  /\ tables \subseteq V!Tables /\ lacking \subseteq Columns
  /\ DOMAIN opener = Opener /\ \A p \in Opener : DOMAIN opener[p] = {"pc", "n", "missing"}
UpgradeInv == Schema /\ Rows /\ \A p \in Opener : Left(p)

\* The databases an upgrade may begin with: nobody works on one.
Versions ==
  \A v \in Version :
    /\ v.groups \in 0 .. 10 /\ v.lacking \subseteq Columns
    /\ v.item = V!None \/ (v.item \in V!Item /\ ~v.item.live)
    /\ v.action = V!None \/ (v.action \in V!Action /\ ~v.action.live)
    /\ v.events \in Seq(Nat) /\ \A e \in 1 .. Len(v.events) : v.events[e] \in {0, e}

\* The groups of tables and of columns.
LEMMA Groups ==
  /\ DOMAIN V!Creation = 1 .. 10 /\ Len(V!Creation) = 10 /\ Len(V!Evolution) = 5 /\ DOMAIN V!Evolution = 1 .. 5
  BY DEF V!Creation, V!Evolution

\* A column that a new table still lacks is one that some statement adds.
LEMMA NewColumns == V!NotCreated \subseteq Columns
<1>1. /\ V!StrategicColumns \subseteq Columns /\ V!LineageColumns \subseteq Columns
      /\ V!DeliveryColumns \subseteq Columns
  <2>1. V!Evolution[1] = V!StrategicColumns /\ V!Evolution[2] = V!LineageColumns /\ V!Evolution[3] = V!DeliveryColumns
    BY DEF V!Evolution
  <2> QED BY <2>1 DEF Columns
<1>2. V!Of("execution_work_items", {"milestone_id", "process_binding_id", "parent_work_item_id", "assigned_agent_id",
                                    "alignment_rationale"}) \subseteq V!LineageColumns
  BY DEF V!Of, V!LineageColumns
<1>3. V!Of("execution_work_items", {"delivery_claim_owner", "delivery_lease_expires_at"}) \subseteq V!DeliveryColumns
  BY DEF V!Of, V!DeliveryColumns
<1>4. V!Of("workflow_runs", {"process_definition_hash", "state_version"}) \subseteq V!LineageColumns
  BY DEF V!Of, V!LineageColumns
<1>5. V!NotCreated = V!StrategicColumns
        \cup V!Of("execution_work_items", {"milestone_id", "process_binding_id", "parent_work_item_id",
                                           "assigned_agent_id", "alignment_rationale"})
        \cup V!Of("execution_work_items", {"delivery_claim_owner", "delivery_lease_expires_at"})
        \cup V!Of("workflow_runs", {"process_definition_hash", "state_version"})
  BY DEF V!NotCreated, V!Of
<1> QED BY <1>1, <1>2, <1>3, <1>4, <1>5

\* Every table is one of a group.
LEMMA AllTables ==
  /\ \A k \in 1 .. 10 : V!Creation[k] \subseteq V!Tables
  /\ V!TelemetryTables \subseteq V!Tables
  /\ \A t \in V!Tables : t \in V!TelemetryTables \/ \E k \in 1 .. 10 : t \in V!Creation[k]
<1>1. V!Tables = (UNION {V!Creation[k] : k \in 1 .. 10}) \cup V!TelemetryTables
  BY Groups DEF V!Tables
<1>2. ASSUME NEW k \in 1 .. 10, NEW t \in V!Creation[k] PROVE t \in V!Tables
  BY <1>1
<1>3. ASSUME NEW t \in V!Tables, t \notin V!TelemetryTables PROVE \E k \in 1 .. 10 : t \in V!Creation[k]
  BY <1>1, <1>3
<1>4. V!TelemetryTables \subseteq V!Tables
  BY <1>1
<1> QED BY <1>2, <1>3, <1>4

\* A sequence that is prolonged.
LEMMA Prolonged ==
  ASSUME NEW s \in Seq(Nat), NEW x \in Nat
  PROVE  /\ Append(s, x) \in Seq(Nat) /\ Len(Append(s, x)) = Len(s) + 1
         /\ \A e \in 1 .. Len(s) : Append(s, x)[e] = s[e]
         /\ Append(s, x)[Len(s) + 1] = x
  OBVIOUS

\* The greatest number of some events is how many they are, if they are numbered.
Greatest(s) == IF s = <<>> THEN 0 ELSE CHOOSE x \in {s[e] : e \in DOMAIN s} : \A e \in DOMAIN s : s[e] <= x
LEMMA GreatestNumber ==
  ASSUME NEW s \in Seq(Nat), \A e \in 1 .. Len(s) : s[e] = e
  PROVE  Greatest(s) = Len(s)
<1>1. PICK m \in Nat : m = Len(s)
  OBVIOUS
<1>2. CASE s = <<>>
  BY <1>2 DEF Greatest
<1>3. CASE s # <<>>
  <2> DEFINE S == {s[e] : e \in DOMAIN s}
             P(x) == \A e \in DOMAIN s : s[e] <= x
  <2>1. m > 0 /\ DOMAIN s = 1 .. m /\ s[m] = m
    BY <1>1, <1>3
  <2>2. \A x \in S : P(x) <=> x = m
    BY <1>1, <2>1
  <2>3. m \in S
    BY <1>1, <2>1
  <2>4. Greatest(s) = CHOOSE x \in S : P(x)
    BY <1>3 DEF Greatest
  <2> HIDE DEF S, P
  <2> QED BY <1>1, <2>2, <2>3, <2>4
<1> QED BY <1>2, <1>3

\* An upgrade begins with such a database.
LEMMA UpgradeBegins == Versions /\ V!Init => UpgradeInv
<1> SUFFICES ASSUME Versions, V!Init PROVE UpgradeInv
  OBVIOUS
<1>1. PICK v \in Version :
        /\ tables = UNION {V!Creation[n] : n \in 1 .. v.groups} /\ lacking = v.lacking
        /\ item = v.item /\ action = v.action /\ events = v.events
  BY DEF V!Init
<1>2. /\ v.groups \in 0 .. 10 /\ v.lacking \subseteq Columns
      /\ v.item = V!None \/ (v.item \in V!Item /\ ~v.item.live)
      /\ v.action = V!None \/ (v.action \in V!Action /\ ~v.action.live)
      /\ v.events \in Seq(Nat) /\ \A e \in 1 .. Len(v.events) : v.events[e] \in {0, e}
  BY DEF Versions
<1>3. opener = [p \in Opener |-> V!Idle]
  BY DEF V!Init
<1>4. Schema
  <2>1. tables \subseteq V!Tables
    <3>1. ASSUME NEW t \in tables PROVE t \in V!Tables
      <4>1. PICK k \in 1 .. v.groups : t \in V!Creation[k]
        BY <1>1, <3>1
      <4>2. k \in 1 .. 10
        BY <1>2, <4>1
      <4> QED BY <4>1, <4>2, AllTables
    <3> QED BY <3>1
  <2>2. DOMAIN opener = Opener /\ \A p \in Opener : DOMAIN opener[p] = {"pc", "n", "missing"}
    BY <1>3 DEF V!Idle
  <2> QED BY <1>1, <1>2, <2>1, <2>2 DEF Schema
<1>5. Rows
  <2>1. (item # V!None => item \in V!Item /\ ~item.live) /\ (action # V!None => action \in V!Action /\ ~action.live)
    BY <1>1, <1>2
  <2>2. (item # V!None => DOMAIN item = ItemFields) /\ (action # V!None => DOMAIN action = ActionFields)
    BY <2>1 DEF V!Item, V!Action, ItemFields, ActionFields
  <2> QED BY <1>1, <1>2, <2>1, <2>2 DEF Rows
<1>6. ASSUME NEW p \in Opener PROVE Left(p)
  BY <1>3 DEF Left, V!Idle, Created, Altered, Beyond
<1> QED BY <1>4, <1>5, <1>6 DEF UpgradeInv

\* What one process left behind is not taken away by a step of another.
LEMMA LeftStays ==
  ASSUME UpgradeInv, NEW p \in Opener, opener'[p] = opener[p], tables \subseteq tables',
         AllCreated => lacking' \subseteq lacking, project # "none" => project' # "none",
         Numbered => Numbered', NotLegacy => NotLegacy'
  PROVE  Left(p)'
  <1>1. Left(p)
    BY DEF UpgradeInv
  <1>2. AllCreated => AllCreated'
    BY DEF AllCreated
  <1>3. Created(p) => AllCreated /\ lacking' \subseteq lacking
    BY <1>1 DEF Left
  <1>4. Altered(p) => lacking' = {}
    BY <1>1, <1>3 DEF Left, Altered, Created
  <1>5. opener[p].pc \in {"check", "alter"} => \A k \in 1 .. opener[p].n - 1 : lacking' \cap V!Evolution[k] = {}
    BY <1>1, <1>3 DEF Left, Created
  <1>6. opener[p].pc = "alter" => lacking' \cap V!Evolution[opener[p].n] \subseteq opener[p].missing
    BY <1>1, <1>3 DEF Left, Created
  <1>7. opener[p].pc = "create" => \A k \in 1 .. opener[p].n - 1 : V!Creation[k] \subseteq tables'
    BY <1>1 DEF Left
  <1> QED BY <1>1, <1>2, <1>4, <1>5, <1>6, <1>7 DEF Left, Created, Altered, Beyond

\* Where a process goes.
LEMMA Goes ==
  ASSUME Schema, NEW p \in Opener, NEW pc, NEW n, V!Goto(p, pc, n)
  PROVE  /\ DOMAIN opener' = Opener /\ \A q \in Opener \ {p} : opener'[q] = opener[q]
         /\ DOMAIN opener'[p] = {"pc", "n", "missing"}
         /\ opener'[p].pc = pc /\ opener'[p].n = n /\ opener'[p].missing = {}
  BY DEF Schema, V!Goto

\* A step that moves one process.
LEMMA UpgradeTurns ==
  ASSUME UpgradeInv, NEW p \in Opener,
         DOMAIN opener' = Opener, \A q \in Opener \ {p} : opener'[q] = opener[q],
         DOMAIN opener'[p] = {"pc", "n", "missing"},
         tables' \subseteq V!Tables, lacking' \subseteq Columns, Rows', Left(p)',
         tables \subseteq tables', AllCreated => lacking' \subseteq lacking, project # "none" => project' # "none",
         Numbered => Numbered', NotLegacy => NotLegacy'
  PROVE  UpgradeInv'
  <1>1. Schema'
    BY DEF Schema, UpgradeInv
  <1> QED BY <1>1, LeftStays DEF UpgradeInv

\* A step of a process that is past its migrations.
LEMMA UpgradeStays ==
  ASSUME UpgradeInv, UNCHANGED <<tables, lacking, opener>>, Rows', project # "none" => project' # "none",
         Numbered => Numbered', NotLegacy => NotLegacy'
  PROVE  UpgradeInv'
  <1>1. Schema'
    BY DEF Schema, UpgradeInv
  <1> QED BY <1>1, LeftStays DEF UpgradeInv

\* Every step keeps the invariant.
LEMMA UpgradeKept == UpgradeInv /\ [V!Next]_(V!vars) => UpgradeInv'
<1> SUFFICES ASSUME UpgradeInv, [V!Next]_(V!vars) PROVE UpgradeInv'
  OBVIOUS
<1>1. Schema /\ Rows /\ \A p \in Opener : Left(p)
  BY DEF UpgradeInv
<1>2. CASE UNCHANGED V!vars
  <2>1. UNCHANGED <<tables, lacking, opener, item, action, events, project>>
    BY <1>2 DEF V!vars
  <2>2. Rows' /\ (Numbered => Numbered') /\ (NotLegacy => NotLegacy')
    BY <1>1, <2>1 DEF Rows, Numbered, NotLegacy, V!Legacy
  <2> QED BY <2>1, <2>2, UpgradeStays
<1>3. ASSUME NEW p \in Opener, NEW pc \in {"idle", "create"}, V!Goto(p, pc, 1),
             UNCHANGED <<tables, lacking, V!rows>>
      PROVE  UpgradeInv'
  <2>1. UNCHANGED <<tables, lacking, item, action, events, project>>
    BY <1>3 DEF V!rows
  <2>2. Rows' /\ (Numbered => Numbered') /\ (NotLegacy => NotLegacy')
    BY <1>1, <2>1 DEF Rows, Numbered, NotLegacy, V!Legacy
  <2>3. /\ DOMAIN opener' = Opener /\ \A q \in Opener \ {p} : opener'[q] = opener[q]
        /\ DOMAIN opener'[p] = {"pc", "n", "missing"}
        /\ opener'[p].pc = pc /\ opener'[p].n = 1 /\ opener'[p].missing = {}
    BY <1>1, <1>3, Goes
  <2>4. Left(p)'
    BY <1>3, <2>3 DEF Left, Created, Altered, Beyond
  <2> QED BY <1>1, <2>1, <2>2, <2>3, <2>4, UpgradeTurns DEF Schema
<1>4. ASSUME NEW p \in Opener, V!Create(p) PROVE UpgradeInv'
  <2>1. UNCHANGED <<item, action, events, project>> /\ opener[p].pc = "create"
    BY <1>4 DEF V!Create, V!rows, V!At
  <2>2. Rows' /\ (Numbered => Numbered') /\ (NotLegacy => NotLegacy')
    BY <1>1, <2>1 DEF Rows, Numbered, NotLegacy, V!Legacy
  <2>3. CASE V!Goto(p, "threw", 1) /\ UNCHANGED <<tables, lacking>>
    <3>1. /\ DOMAIN opener' = Opener /\ \A q \in Opener \ {p} : opener'[q] = opener[q]
          /\ DOMAIN opener'[p] = {"pc", "n", "missing"} /\ opener'[p].pc = "threw"
      BY <1>1, <2>3, Goes
    <3>2. Left(p)'
      BY <3>1 DEF Left, Created, Altered, Beyond
    <3> QED BY <1>1, <2>1, <2>2, <2>3, <3>1, <3>2, UpgradeTurns DEF Schema
  <2>4. ASSUME NEW group, NEW added, NEW n \in 1 .. 10, n = opener[p].n, group = V!Creation[n],
               added = {c \in V!NotCreated : c[1] \in group \ tables},
               tables' = tables \cup group, lacking' = lacking \cup added, V!Onward(p, 10, "check")
        PROVE  UpgradeInv'
    <3>1. \/ n < 10 /\ V!Goto(p, "create", n + 1)
          \/ n = 10 /\ V!Goto(p, "check", 1)
      BY <2>1, <2>4 DEF V!Onward
    <3>2. /\ DOMAIN opener' = Opener /\ \A q \in Opener \ {p} : opener'[q] = opener[q]
          /\ DOMAIN opener'[p] = {"pc", "n", "missing"}
          /\ \/ n < 10 /\ opener'[p].pc = "create" /\ opener'[p].n = n + 1
             \/ n = 10 /\ opener'[p].pc = "check" /\ opener'[p].n = 1
      BY <1>1, <3>1, Goes
    <3>3. tables' \subseteq V!Tables /\ lacking' \subseteq Columns
      BY <1>1, <2>4, AllTables, NewColumns DEF Schema
    <3>4. AllCreated => lacking' \subseteq lacking
      BY <2>4 DEF AllCreated
    <3>5. \A k \in 1 .. n : V!Creation[k] \subseteq tables'
      BY <1>1, <2>1, <2>4 DEF Left
    <3>6. Left(p)'
      <4>1. CASE n < 10
        BY <3>2, <3>5, <4>1 DEF Left, Created, Altered, Beyond
      <4>2. CASE n = 10
        <5>1. AllCreated'
          BY <3>5, <4>2 DEF AllCreated
        <5> QED BY <3>2, <4>2, <5>1 DEF Left, Created, Altered, Beyond
      <4> QED BY <3>2, <4>1, <4>2
    <3> QED BY <2>1, <2>2, <2>4, <3>2, <3>3, <3>4, <3>6, UpgradeTurns
  <2>5. PICK n \in 1 .. 10 : n = opener[p].n
    BY <1>1, <2>1 DEF Left
  <2>6. CASE tables' = tables \cup V!Creation[n]
    <3>1. CASE V!Goto(p, "threw", 1) /\ UNCHANGED <<tables, lacking>>
      BY <2>3, <3>1
    <3>2. CASE ~(V!Goto(p, "threw", 1) /\ UNCHANGED <<tables, lacking>>)
      BY <1>4, <2>4, <2>5, <3>2, Groups DEF V!Create
    <3> QED BY <3>1, <3>2
  <2> QED BY <1>4, <2>3, <2>5, <2>6 DEF V!Create
<1>5. ASSUME NEW p \in Opener, V!Check(p) PROVE UpgradeInv'
  <2>1. UNCHANGED <<tables, lacking, item, action, events, project>> /\ opener[p].pc = "check"
    BY <1>5 DEF V!Check, V!rows, V!At
  <2>2. Rows' /\ (Numbered => Numbered') /\ (NotLegacy => NotLegacy')
    BY <1>1, <2>1 DEF Rows, Numbered, NotLegacy, V!Legacy
  <2>3. /\ DOMAIN opener' = Opener /\ \A q \in Opener \ {p} : opener'[q] = opener[q]
        /\ DOMAIN opener'[p] = {"pc", "n", "missing"}
        /\ opener'[p].pc = "alter" /\ opener'[p].n = opener[p].n
        /\ opener'[p].missing = lacking \cap V!Evolution[opener[p].n]
    BY <1>1, <1>5 DEF V!Check, Schema
  <2>4. Left(p)'
    <3>1. Created(p) /\ AllCreated'
      BY <1>1, <2>1 DEF Left, Created, AllCreated
    <3> QED BY <1>1, <2>1, <2>3, <3>1 DEF Left, Created, Altered, Beyond
  <2> QED BY <1>1, <2>1, <2>2, <2>3, <2>4, UpgradeTurns DEF Schema
<1>6. ASSUME NEW p \in Opener, V!Alter(p) PROVE UpgradeInv'
  <2>1. /\ UNCHANGED <<tables, item, action, events, project>> /\ opener[p].pc = "alter"
        /\ lacking' = lacking \ opener[p].missing
    BY <1>6 DEF V!Alter, V!rows, V!At
  <2>2. Rows' /\ (Numbered => Numbered') /\ (NotLegacy => NotLegacy')
    BY <1>1, <2>1 DEF Rows, Numbered, NotLegacy, V!Legacy
  <2>3. PICK n \in 1 .. 5 : n = opener[p].n
    BY <1>1, <2>1 DEF Left
  <2>4. \/ n < 5 /\ V!Goto(p, "check", n + 1)
        \/ n = 5 /\ V!Goto(p, "normalize", 1)
    BY <1>6, <2>3, Groups DEF V!Alter
  <2>5. /\ DOMAIN opener' = Opener /\ \A q \in Opener \ {p} : opener'[q] = opener[q]
        /\ DOMAIN opener'[p] = {"pc", "n", "missing"}
        /\ \/ n < 5 /\ opener'[p].pc = "check" /\ opener'[p].n = n + 1
           \/ n = 5 /\ opener'[p].pc = "normalize" /\ opener'[p].n = 1
    BY <1>1, <2>4, Goes
  <2>6. \A k \in 1 .. n : lacking' \cap V!Evolution[k] = {}
    BY <1>1, <2>1, <2>3 DEF Left
  <2>7. Left(p)'
    <3>1. Created(p) /\ AllCreated'
      BY <1>1, <2>1 DEF Left, Created, AllCreated
    <3>2. CASE n < 5
      BY <2>5, <2>6, <3>1, <3>2 DEF Left, Created, Altered, Beyond
    <3>3. CASE n = 5
      <4>1. lacking' = {}
        BY <1>1, <2>1, <2>6, <3>3 DEF Schema, Columns
      <4> QED BY <2>5, <3>1, <3>3, <4>1 DEF Left, Created, Altered, Beyond
    <3> QED BY <2>5, <3>2, <3>3
  <2>8. lacking' \subseteq Columns
    BY <1>1, <2>1 DEF Schema
  <2> QED BY <1>1, <2>1, <2>2, <2>5, <2>7, <2>8, UpgradeTurns DEF Schema
<1>7. ASSUME NEW p \in Opener, V!Normalize(p) PROVE UpgradeInv'
  <2>1. UNCHANGED <<tables, lacking>> /\ opener[p].pc = "normalize"
    BY <1>7 DEF V!Normalize, V!At
  <2>2. PICK n \in 1 .. 5 : n = opener[p].n
    BY <1>1, <2>1 DEF Left
  <2>3. /\ n = 1 => V!LinkPrimary /\ UNCHANGED <<item, action, events>>
        /\ n = 2 => V!NumberEvents /\ UNCHANGED <<item, action, project>>
        /\ n = 3 => V!BlockLegacy /\ UNCHANGED <<action, events, project>>
        /\ n = 4 => V!LeaseLegacy /\ UNCHANGED <<item, events, project>>
        /\ n = 5 => V!Settle /\ UNCHANGED <<action, events, project>>
    BY <1>7, <2>2 DEF V!Normalize
  <2>4. \/ n < 5 /\ V!Goto(p, "normalize", n + 1)
        \/ n = 5 /\ V!Goto(p, "telemetry", 1)
    BY <1>7, <2>1, <2>2 DEF V!Normalize, V!Onward
  <2>5. /\ DOMAIN opener' = Opener /\ \A q \in Opener \ {p} : opener'[q] = opener[q]
        /\ DOMAIN opener'[p] = {"pc", "n", "missing"}
        /\ \/ n < 5 /\ opener'[p].pc = "normalize" /\ opener'[p].n = n + 1
           \/ n = 5 /\ opener'[p].pc = "telemetry" /\ opener'[p].n = 1
    BY <1>1, <2>4, Goes
  <2>6. (project # "none" => project' # "none") /\ (n = 1 => project' # "none")
    BY <2>2, <2>3 DEF V!LinkPrimary
  <2>7. /\ Numbered => Numbered'
        /\ n = 2 => Numbered'
        /\ events' \in Seq(Nat) /\ \A e \in 1 .. Len(events') : events'[e] \in {0, e}
    <3>1. CASE n = 2
      <4>1. PICK m \in Nat : m = Len(events) /\ DOMAIN events = 1 .. m /\ \A e \in 1 .. m : events[e] \in {0, e}
        BY <1>1 DEF Rows
      <4>2. events' = [e \in 1 .. m |-> e]
        BY <2>3, <3>1, <4>1 DEF V!NumberEvents
      <4>3. events' \in Seq(Nat) /\ Len(events') = m /\ \A e \in 1 .. m : events'[e] = e
        BY <4>2
      <4> QED BY <4>3 DEF Numbered
    <3>2. CASE n # 2
      <4>1. events' = events
        BY <2>2, <2>3, <3>2
      <4> QED BY <1>1, <3>2, <4>1 DEF Rows, Numbered
    <3> QED BY <3>1, <3>2
  <2>8. /\ NotLegacy => NotLegacy'
        /\ n = 3 => NotLegacy'
        /\ item' # V!None => DOMAIN item' = ItemFields
        /\ item' # V!None /\ item'.live => ~V!Legacy(item)'
    <3>1. CASE n = 3
      <4>1. CASE item # V!None /\ V!Legacy(item)
        <5>1. /\ item' = [item EXCEPT !.status = "blocked", !.delivery = "failed"]
              /\ DOMAIN item = ItemFields /\ ~item.live
          BY <1>1, <2>3, <3>1, <4>1 DEF V!BlockLegacy, Rows
        <5>2. /\ DOMAIN item' = ItemFields /\ item'.status = "blocked" /\ item'.delivery = "failed"
              /\ item'.live = item.live
          BY <5>1 DEF ItemFields
        <5> QED BY <5>1, <5>2 DEF NotLegacy, V!Legacy
      <4>2. CASE ~(item # V!None /\ V!Legacy(item))
        <5>1. item' = item
          BY <2>3, <3>1, <4>2 DEF V!BlockLegacy
        <5> QED BY <1>1, <4>2, <5>1 DEF Rows, NotLegacy, V!Legacy
      <4> QED BY <4>1, <4>2
    <3>2. CASE n # 3 /\ item' # item
      <4>1. item # V!None /\ item' = [item EXCEPT !.delivery = "delivered"] /\ DOMAIN item = ItemFields
        BY <1>1, <2>2, <2>3, <3>2 DEF V!Settle, Rows
      <4>2. /\ DOMAIN item' = ItemFields /\ item'.status = item.status /\ item'.delivery = "delivered"
            /\ item'.live = item.live
            /\ item'.mode = item.mode /\ item'.commit = item.commit
        BY <4>1 DEF ItemFields
      <4> QED BY <1>1, <3>2, <4>1, <4>2 DEF Rows, NotLegacy, V!Legacy
    <3>3. CASE n # 3 /\ item' = item
      BY <1>1, <3>3 DEF Rows, NotLegacy, V!Legacy
    <3> QED BY <3>1, <3>2, <3>3
  <2>9. /\ action' # V!None => DOMAIN action' = ActionFields
        /\ action' # V!None /\ action'.live =>
             action'.owner = "live" \/ (action'.owner = "none" /\ action'.status \in {"succeeded", "failed"})
    <3>1. CASE action' # action
      <4>1. /\ action # V!None /\ action.status \in {"pending", "running"} /\ action.owner = "none"
            /\ action' = [action EXCEPT !.status = "running", !.owner = "legacy"] /\ DOMAIN action = ActionFields
        BY <1>1, <2>2, <2>3, <3>1 DEF V!LeaseLegacy, Rows
      <4>2. DOMAIN action' = ActionFields /\ action'.live = action.live
        BY <4>1 DEF ActionFields
      <4> QED BY <1>1, <4>1, <4>2 DEF Rows
    <3>2. CASE action' = action
      BY <1>1, <3>2 DEF Rows
    <3> QED BY <3>1, <3>2
  <2>10. Rows'
    BY <2>7, <2>8, <2>9 DEF Rows
  <2>11. Left(p)'
    <3>1. AllCreated' /\ lacking' = {} /\ Left(p) /\ UNCHANGED tables
      BY <1>1, <2>1 DEF Left, Created, Altered, AllCreated
    <3>2. Beyond(p, 1)' => project' # "none"
      BY <2>1, <2>2, <2>5, <2>6, <3>1 DEF Left, Beyond
    <3>3. Beyond(p, 2)' => Numbered'
      BY <2>1, <2>2, <2>5, <2>7, <3>1 DEF Left, Beyond
    <3>4. Beyond(p, 3)' => NotLegacy'
      BY <2>1, <2>2, <2>5, <2>8, <3>1 DEF Left, Beyond
    <3> QED BY <2>5, <3>1, <3>2, <3>3, <3>4 DEF Left
  <2> QED BY <1>1, <2>1, <2>5, <2>6, <2>7, <2>8, <2>10, <2>11, UpgradeTurns DEF Schema
<1>8. ASSUME NEW p \in Opener, V!CreateTelemetry(p) PROVE UpgradeInv'
  <2>1. /\ UNCHANGED <<lacking, item, action, events, project>> /\ opener[p].pc = "telemetry"
        /\ tables' = tables \cup V!TelemetryTables /\ V!Goto(p, "ready", 1)
    BY <1>8 DEF V!CreateTelemetry, V!rows, V!At
  <2>2. Rows' /\ (Numbered => Numbered') /\ (NotLegacy => NotLegacy')
    BY <1>1, <2>1 DEF Rows, Numbered, NotLegacy, V!Legacy
  <2>3. /\ DOMAIN opener' = Opener /\ \A q \in Opener \ {p} : opener'[q] = opener[q]
        /\ DOMAIN opener'[p] = {"pc", "n", "missing"} /\ opener'[p].pc = "ready"
    BY <1>1, <2>1, Goes
  <2>4. Left(p)'
    <3>1. AllCreated' /\ lacking = {} /\ project # "none" /\ Numbered /\ NotLegacy
      BY <1>1, <2>1 DEF Left, Created, Altered, AllCreated, Beyond
    <3> QED BY <2>1, <2>2, <2>3, <3>1 DEF Left
  <2>5. tables' \subseteq V!Tables
    BY <1>1, <2>1, AllTables DEF Schema
  <2> QED BY <1>1, <2>1, <2>2, <2>3, <2>4, <2>5, UpgradeTurns DEF Schema
<1>9. ASSUME NEW p \in Opener, V!Ready(p) PROVE UNCHANGED <<tables, lacking, opener>> /\ Numbered /\ NotLegacy
  BY <1>1, <1>9 DEF V!Ready, V!At, Left, Beyond

\* A step that writes the item.
<1>10. ASSUME NEW p \in Opener, V!Ready(p), UNCHANGED <<action, events, project>>,
              item' # V!None => DOMAIN item' = ItemFields /\ ~V!Legacy(item)'
       PROVE  UpgradeInv'
  <2>1. Rows' /\ (Numbered => Numbered') /\ (NotLegacy => NotLegacy')
    BY <1>1, <1>10 DEF Rows, Numbered, NotLegacy
  <2> QED BY <1>9, <1>10, <2>1, UpgradeStays
<1>11. ASSUME NEW p \in Opener, NEW mode, V!StartWork(p, mode) PROVE UpgradeInv'
  <2>1. V!Ready(p) /\ UNCHANGED <<action, events, project>>
    BY <1>11 DEF V!StartWork
  <2>2. CASE item' = [status |-> "in_progress", mode |-> mode, delivery |-> "pending", commit |-> FALSE,
                      live |-> TRUE]
    <3>1. DOMAIN item' = ItemFields /\ ~V!Legacy(item)'
      BY <2>2 DEF ItemFields, V!Legacy
    <3> QED BY <1>10, <2>1, <3>1
  <2>3. CASE item # V!None /\ item' = [item EXCEPT !.status = "in_progress", !.live = TRUE]
    <3>1. DOMAIN item = ItemFields /\ ~V!Legacy(item)
      BY <1>1, <1>9, <2>1, <2>3 DEF Rows, NotLegacy
    <3>2. DOMAIN item' = ItemFields /\ ~V!Legacy(item)'
      BY <2>3, <3>1 DEF ItemFields, V!Legacy
    <3> QED BY <1>10, <2>1, <3>2
  <2> QED BY <1>11, <2>2, <2>3 DEF V!StartWork
<1>12. ASSUME NEW p \in Opener, V!RecordDeliveryCommit(p) PROVE UpgradeInv'
  <2>1. /\ V!Ready(p) /\ UNCHANGED <<action, events, project>> /\ item # V!None
        /\ item.status = "in_progress"
        /\ item' = [item EXCEPT !.commit = TRUE]
    BY <1>12 DEF V!RecordDeliveryCommit, V!Evidenced
  <2>2. DOMAIN item = ItemFields /\ ~V!Legacy(item)
    BY <1>1, <1>9, <2>1 DEF Rows, NotLegacy
  <2>3. DOMAIN item' = ItemFields /\ ~V!Legacy(item)'
    BY <2>1, <2>2 DEF ItemFields, V!Legacy
  <2> QED BY <1>10, <2>1, <2>3
<1>13. ASSUME NEW p \in Opener, V!AwaitEvidence(p) PROVE UpgradeInv'
  <2>1. /\ V!Ready(p) /\ UNCHANGED <<action, events, project>> /\ item # V!None
        /\ item.mode = "none" \/ item.commit
        /\ item' = [item EXCEPT !.status = "awaiting"]
    BY <1>13 DEF V!AwaitEvidence, V!Evidenced
  <2>2. DOMAIN item = ItemFields /\ ~V!Legacy(item)
    BY <1>1, <1>9, <2>1 DEF Rows, NotLegacy
  <2>3. DOMAIN item' = ItemFields /\ ~V!Legacy(item)'
    BY <2>1, <2>2 DEF ItemFields, V!Legacy
  <2> QED BY <1>10, <2>1, <2>3
<1>14. ASSUME NEW p \in Opener, V!FinalizeWorkItem(p) PROVE UpgradeInv'
  <2>1. /\ V!Ready(p) /\ UNCHANGED <<action, events, project>> /\ item # V!None
        /\ item.mode = "none" \/ item.commit
        /\ item' = [item EXCEPT !.status = "completed",
                                !.delivery = IF item.mode = "pull_request" THEN "ready" ELSE "delivered"]
    BY <1>14 DEF V!FinalizeWorkItem, V!Evidenced
  <2>2. DOMAIN item = ItemFields /\ ~V!Legacy(item)
    BY <1>1, <1>9, <2>1 DEF Rows, NotLegacy
  <2>3. DOMAIN item' = ItemFields /\ ~V!Legacy(item)'
    BY <2>1, <2>2 DEF ItemFields, V!Legacy
  <2> QED BY <1>10, <2>1, <2>3
<1>15. ASSUME NEW p \in Opener, V!ClaimDelivery(p) PROVE UpgradeInv'
  <2>1. /\ V!Ready(p) /\ UNCHANGED <<action, events, project>> /\ item # V!None
        /\ item.status = "completed" /\ item.commit
        /\ item' = [item EXCEPT !.delivery = "delivering"]
    BY <1>15 DEF V!ClaimDelivery, V!Evidenced
  <2>2. DOMAIN item = ItemFields /\ ~V!Legacy(item)
    BY <1>1, <1>9, <2>1 DEF Rows, NotLegacy
  <2>3. DOMAIN item' = ItemFields /\ ~V!Legacy(item)'
    BY <2>1, <2>2 DEF ItemFields, V!Legacy
  <2> QED BY <1>10, <2>1, <2>3
<1>16. ASSUME NEW p \in Opener, NEW status \in {"delivered", "failed"}, V!CompleteDelivery(p, status)
       PROVE  UpgradeInv'
  <2>1. /\ V!Ready(p) /\ UNCHANGED <<action, events, project>> /\ item # V!None
        /\ item.delivery = "delivering"
        /\ item' = [item EXCEPT !.delivery = status]
    BY <1>16 DEF V!CompleteDelivery, V!Evidenced
  <2>2. DOMAIN item = ItemFields /\ ~V!Legacy(item)
    BY <1>1, <1>9, <2>1 DEF Rows, NotLegacy
  <2>3. DOMAIN item' = ItemFields /\ ~V!Legacy(item)'
    BY <2>1, <2>2 DEF ItemFields, V!Legacy
  <2> QED BY <1>10, <2>1, <2>3
<1>17. ASSUME NEW p \in Opener, V!Ready(p), UNCHANGED <<item, events, project>>, DOMAIN action' = ActionFields,
              action'.owner = "live" \/ (action'.owner = "none" /\ action'.status \in {"succeeded", "failed"})
       PROVE  UpgradeInv'
  <2>1. Rows' /\ (Numbered => Numbered') /\ (NotLegacy => NotLegacy')
    BY <1>1, <1>17 DEF Rows, Numbered, NotLegacy, V!Legacy
  <2> QED BY <1>9, <1>17, <2>1, UpgradeStays
<1>18. ASSUME NEW p \in Opener, V!ClaimExternalAction(p) PROVE UpgradeInv'
  <2>1. /\ V!Ready(p) /\ UNCHANGED <<item, events, project>>
        /\ action' = [status |-> "running", owner |-> "live", live |-> TRUE]
    BY <1>18 DEF V!ClaimExternalAction
  <2>2. DOMAIN action' = ActionFields /\ action'.owner = "live"
    BY <2>1 DEF ActionFields
  <2> QED BY <1>17, <2>1, <2>2
<1>19. ASSUME NEW p \in Opener, NEW status \in {"succeeded", "failed"}, V!CompleteExternalAction(p, status)
       PROVE  UpgradeInv'
  <2>1. /\ V!Ready(p) /\ UNCHANGED <<item, events, project>> /\ action # V!None
        /\ action' = [action EXCEPT !.status = status, !.owner = "none"]
    BY <1>19 DEF V!CompleteExternalAction
  <2>2. DOMAIN action' = ActionFields /\ action'.owner = "none" /\ action'.status = status
    BY <1>1, <2>1 DEF Rows, ActionFields
  <2> QED BY <1>17, <2>1, <2>2
<1>20. ASSUME NEW p \in Opener, NEW most, V!WriteEvent(p, most) PROVE UpgradeInv'
  <2>1. V!Ready(p) /\ UNCHANGED <<item, action, project>> /\ Numbered
    BY <1>9, <1>20 DEF V!WriteEvent
  <2>2. events \in Seq(Nat) /\ \A e \in 1 .. Len(events) : events[e] = e
    BY <1>1, <2>1 DEF Rows, Numbered
  <2>3. events' = Append(events, 1 + Greatest(events)) /\ Greatest(events) = Len(events)
    BY <1>20, <2>2, GreatestNumber DEF V!WriteEvent, Greatest
  <2>4. PICK x \in Nat : x = 1 + Len(events) /\ events' = Append(events, x)
    BY <2>2, <2>3
  <2>5. events' \in Seq(Nat) /\ Numbered'
    BY <2>2, <2>4, Prolonged DEF Numbered
  <2>6. Rows' /\ Numbered' /\ (NotLegacy => NotLegacy')
    BY <1>1, <2>1, <2>5 DEF Rows, Numbered, NotLegacy, V!Legacy
  <2> QED BY <1>9, <2>1, <2>6, UpgradeStays
<1>21. ASSUME NEW p \in Opener, V!CreateProject(p) PROVE UpgradeInv'
  <2>1. V!Ready(p) /\ UNCHANGED <<item, action, events>> /\ project' # "none"
    BY <1>21 DEF V!CreateProject
  <2>2. Rows' /\ (Numbered => Numbered') /\ (NotLegacy => NotLegacy')
    BY <1>1, <2>1 DEF Rows, Numbered, NotLegacy, V!Legacy
  <2> QED BY <1>9, <2>1, <2>2, UpgradeStays
<1> QED
  BY <1>2, <1>3, <1>4, <1>5, <1>6, <1>7, <1>8, <1>11, <1>12, <1>13, <1>14, <1>15, <1>16, <1>18, <1>19,
     <1>20, <1>21 DEF V!Next, V!Begin, V!Stop, V!vars

\* Whatever database an upgrade begins with and whoever upgrades it beside the work of others
\* (runMigrations, migrations.ts), the upgrade takes nothing from that work.
THEOREM UpgradesKeepWork == Versions => (V!Spec => []V!UpgradeKeepsWork)
<1>1. UpgradeInv => V!UpgradeKeepsWork
  <2> SUFFICES ASSUME UpgradeInv PROVE V!UpgradeKeepsWork
    OBVIOUS
  <2>1. Schema /\ Rows /\ \A p \in Opener : Left(p)
    BY DEF UpgradeInv
  <2>2. ASSUME NEW p \in Opener, opener[p].pc = "ready"
        PROVE  /\ tables = V!Tables /\ lacking = {} /\ project # "none"
               /\ \A d, e \in DOMAIN events : d < e => events[d] < events[e]
    <3>1. AllCreated /\ V!TelemetryTables \subseteq tables /\ lacking = {} /\ project # "none" /\ Numbered
      BY <2>1, <2>2 DEF Left, Created, Altered, Beyond
    <3>2. tables = V!Tables
      BY <2>1, <3>1, AllTables DEF Schema, AllCreated
    <3>3. DOMAIN events = 1 .. Len(events)
      BY <2>1 DEF Rows
    <3> QED BY <3>1, <3>2, <3>3 DEF Numbered
  <2> QED BY <2>1, <2>2 DEF Rows, V!UpgradeKeepsWork, V!At
<1>2. SUFFICES ASSUME Versions PROVE V!Spec => []V!UpgradeKeepsWork
  OBVIOUS
<1> QED BY <1>1, <1>2, UpgradeBegins, UpgradeKept, PTL DEF V!Spec

-----------------------------------------------------------------------------
(* Gateway: a call of a remote agent over its gateway.                     *)

\* Before the service has the run.
Unposted == {"start", "challenge", "hello", "agent"}
Events == {"delta", "damaged"} \cup G!Ended
CallShape ==
  /\ kind \in {"openclaw", "hermes", "cursor"}
  /\ DOMAIN call = {"pc", "state", "late", "aborted", "by", "named"} /\ call.state \in G!Heard
  /\ DOMAIN answer = {"given", "exit", "timedOut", "says"}
  /\ frames \in Seq(Events) /\ service \in {"none", "posted", "running"} \cup G!Ended
  /\ call.pc \in {"stream", "poll", "fetch"} => kind # "openclaw"
  /\ call.pc = "wait" => kind = "openclaw"

\* Nothing is heard of a run that the service was not sent.
Unheard ==
  /\ call.pc \in Unposted => service = "none"
  /\ call.pc \in Unposted \cup {"accept"} => call.state = "unknown" /\ ~call.named
  /\ call.named => service \notin {"none", "posted"}

\* What was heard of the end of a run is how it ended, and what is on its way says the same.
HeardTruly ==
  /\ call.state \in G!Ended => service = call.state
  /\ \A n \in DOMAIN frames : frames[n] \in G!Ended => service = frames[n]

\* A call ends by what it heard last.
AtFinish ==
  call.pc = "finish" =>
    /\ kind = "openclaw" => call.state # "running"
    /\ kind = "hermes" => call.state \in G!Ended \/ call.late \/ call.aborted
    /\ kind = "cursor" => call.state \in G!Ended \cup {"unknown"} \/ ~call.named

\* The answer holds from the moment it is made, although it is given later.
AnswerHolds ==
  /\ answer.given => call.pc = "done"
  /\ call.pc \notin {"stop", "done"} => answer.exit = 1 /\ answer.says = "unknown"
  /\ call.pc \in {"stop", "done"} =>
       /\ answer.exit = 0 /\ ~answer.timedOut => service = "completed" \/ G!Blind
       /\ answer.says \in G!Ended => service = answer.says
  /\ call.pc = "done" /\ kind = "hermes" /\ call.named /\ call.aborted => service # "running" \/ lost
CallInv == CallShape /\ Unheard /\ HeardTruly /\ AtFinish /\ AnswerHolds

\* It holds before the call.
LEMMA CallStarts == Kind \subseteq {"openclaw", "hermes", "cursor"} /\ G!Init => CallInv
  BY DEF G!Init, CallInv, CallShape, Unheard, HeardTruly, AtFinish, AnswerHolds, G!Ended, G!Heard

\* What an error does.
LEMMA ErrorMoves ==
  ASSUME CallShape, G!Error
  PROVE  /\ call' = [call EXCEPT !.pc = call'.pc] /\ call'.pc \in {"stop", "done"}
         /\ (kind = "hermes" /\ call.named /\ call.aborted => call'.pc = "stop")
         /\ answer' = [given |-> call'.pc = "done", exit |-> 1, timedOut |-> FALSE, says |-> "unknown"]
         /\ UNCHANGED <<kind, service, frames, lost>>
  BY DEF G!Error, G!Move, G!End

\* An error says nothing of the run.
LEMMA ErrorKeeps ==
  ASSUME CallInv, G!Error, call.pc # "done"
  PROVE  CallInv'
<1>1. CallShape
  BY DEF CallInv
<1>2. CallShape'
  BY <1>1, ErrorMoves DEF CallShape, G!Heard
<1>3. Unheard'
  BY <1>1, ErrorMoves DEF CallInv, CallShape, Unheard, Unposted
<1>4. HeardTruly'
  BY <1>1, ErrorMoves DEF CallInv, CallShape, HeardTruly
<1>5. AtFinish'
  <2>1. call'.pc # "finish"
    BY DEF G!Error, G!Move, G!End
  <2> QED BY <2>1 DEF AtFinish
<1>6. AnswerHolds'
  <2>1. /\ call'.pc \in {"stop", "done"} /\ answer'.exit = 1 /\ answer'.says = "unknown"
        /\ answer'.given => call'.pc = "done"
        /\ call'.pc = "done" => ~(kind' = "hermes" /\ call'.named /\ call'.aborted)
    BY <1>1 DEF G!Error, CallShape, G!Move, G!End
  <2> QED BY <2>1 DEF AnswerHolds, G!Ended
<1> QED BY <1>2, <1>3, <1>4, <1>5, <1>6 DEF CallInv

\* The inductive step: whatever the service, the clock, the caller and the driver do.
LEMMA CallNext == CallInv /\ [G!Next]_(G!vars) => CallInv'
<1> SUFFICES ASSUME CallInv, [G!Next]_(G!vars) PROVE CallInv'
  OBVIOUS
<1>1. CASE UNCHANGED G!vars
  BY <1>1 DEF G!vars, CallInv, CallShape, Unheard, HeardTruly, AtFinish, AnswerHolds, G!Blind
<1>2. CASE G!RequestTimesOut \/ G!Breaks \/ G!NoRunId \/ (\E ok \in BOOLEAN : G!Hello(ok) /\ G!Error)
  BY <1>2, ErrorKeeps DEF G!RequestTimesOut, G!Breaks, G!NoRunId, G!Hello, G!At, G!Open
<1>3. CASE G!Accept
  <2>1. CallShape'
    BY <1>3 DEF CallInv, CallShape, G!Accept
  <2>2. Unheard'
    BY <1>3 DEF CallInv, Unheard, G!Accept
  <2>3. HeardTruly'
    BY <1>3 DEF CallInv, HeardTruly, G!Ended, G!Accept
  <2>4. AtFinish'
    BY <1>3 DEF CallInv, AtFinish, G!Accept
  <2>5. AnswerHolds'
    BY <1>3 DEF CallInv, Unheard, AnswerHolds, G!Ended, G!Blind, G!Accept
  <2> QED BY <2>1, <2>2, <2>3, <2>4, <2>5 DEF CallInv
<1>4. CASE G!Progress
  <2>1. CallShape'
    BY <1>4 DEF CallInv, CallShape, Events, G!Report, G!Progress
  <2>2. Unheard'
    BY <1>4 DEF Unheard, Unposted, G!At, G!Streams, G!Progress
  <2>3. HeardTruly'
    BY <1>4 DEF CallInv, HeardTruly, G!Ended, G!Report, G!Progress
  <2>4. AtFinish'
    BY <1>4 DEF AtFinish, G!At, G!Streams, G!Progress
  <2>5. AnswerHolds'
    BY <1>4 DEF CallInv, AnswerHolds, G!At, G!Streams, G!Progress
  <2> QED BY <2>1, <2>2, <2>3, <2>4, <2>5 DEF CallInv
<1>5. ASSUME NEW outcome \in G!Ended, NEW damaged \in BOOLEAN, G!EndRun(outcome, damaged) PROVE CallInv'
  <2>1. CallShape'
    BY <1>5 DEF CallInv, CallShape, Events, G!Report, G!EndRun
  <2>2. Unheard'
    BY <1>5 DEF CallInv, Unheard, G!Ended, G!EndRun
  <2>3. HeardTruly'
    BY <1>5 DEF CallInv, HeardTruly, G!Ended, G!Report, G!EndRun
  <2>4. AtFinish'
    BY <1>5 DEF CallInv, AtFinish, G!EndRun
  <2>5. AnswerHolds'
    BY <1>5 DEF CallInv, AnswerHolds, G!Ended, G!Blind, G!EndRun
  <2> QED BY <2>1, <2>2, <2>3, <2>4, <2>5 DEF CallInv
<1>6. CASE G!Finish
  <2>1. CallShape'
    BY <1>6 DEF CallInv, CallShape, G!Move, G!End, G!Finish
  <2>2. Unheard'
    BY <1>6 DEF CallInv, Unheard, Unposted, G!Move, G!End, G!Finish
  <2>3. HeardTruly'
    BY <1>6 DEF CallInv, HeardTruly, G!Move, G!Finish
  <2>4. AtFinish'
    BY <1>6 DEF AtFinish, G!Move, G!End, G!Finish
  <2>5. AnswerHolds'
    <3>1. /\ call.pc = "finish" /\ call' = [call EXCEPT !.pc = G!End]
          /\ answer' = [given |-> G!End = "done", exit |-> G!Exit, timedOut |-> G!TimedOut, says |-> call.state]
          /\ UNCHANGED <<kind, service, frames, lost>>
      BY <1>6 DEF G!Finish, G!At, G!Move
    <3>2. G!Exit = 0 /\ ~G!TimedOut => service = "completed" \/ G!Blind
      <4>1. /\ kind \in {"openclaw", "hermes", "cursor"} /\ call.state \in G!Heard
            /\ call.state \in G!Ended => service = call.state
        BY <1>6 DEF CallInv, CallShape, HeardTruly
      <4>2. CASE kind = "openclaw"
        BY <3>1, <4>1, <4>2 DEF CallInv, AtFinish, G!Ended, G!Heard, G!Failed, G!Exit, G!Blind
      <4>3. CASE kind = "hermes"
        BY <3>1, <4>1, <4>3 DEF CallInv, AtFinish, G!Ended, G!Failed, G!Exit, G!TimedOut
      <4>4. CASE kind = "cursor"
        BY <3>1, <4>1, <4>4 DEF CallInv, AtFinish, G!Ended, G!Failed, G!Exit, G!Blind
      <4> QED BY <4>1, <4>2, <4>3, <4>4
    <3>3. G!Blind' = G!Blind
      BY <3>1 DEF G!Blind
    <3> QED BY <3>1, <3>2, <3>3 DEF CallInv, CallShape, HeardTruly, AnswerHolds, G!End
  <2> QED BY <2>1, <2>2, <2>3, <2>4, <2>5 DEF CallInv
<1>7. ASSUME NEW arrives \in BOOLEAN, G!Stop(arrives) PROVE CallInv'
  <2>1. CallShape'
    BY <1>7 DEF CallInv, CallShape, G!Ended, G!Move, G!Stop
  <2>2. Unheard'
    BY <1>7 DEF CallInv, Unheard, Unposted, G!Move, G!Stop
  <2>3. HeardTruly'
    BY <1>7 DEF CallInv, HeardTruly, G!Ended, G!Move, G!Stop
  <2>4. AtFinish'
    BY <1>7 DEF AtFinish, G!Move, G!Stop
  <2>5. AnswerHolds'
    BY <1>7 DEF CallInv, CallShape, AnswerHolds, G!Ended, G!Blind, G!At, G!Move, G!Stop
  <2> QED BY <2>1, <2>2, <2>3, <2>4, <2>5 DEF CallInv
<1>8. CASE G!Deadline
  <2>1. CallShape'
    BY <1>8 DEF CallInv, CallShape, G!Deadline
  <2>2. Unheard'
    BY <1>8 DEF CallInv, Unheard, G!Deadline
  <2>3. HeardTruly'
    BY <1>8 DEF CallInv, HeardTruly, G!Deadline
  <2>4. AtFinish'
    BY <1>8 DEF AtFinish, G!Open, G!Deadline
  <2>5. AnswerHolds'
    BY <1>8 DEF CallInv, AnswerHolds, G!Blind, G!Deadline
  <2> QED BY <2>1, <2>2, <2>3, <2>4, <2>5 DEF CallInv
<1>9. CASE G!TimerFires
  <2>1. CallShape'
    BY <1>9 DEF CallInv, CallShape, G!TimerFires
  <2>2. Unheard'
    BY <1>9 DEF CallInv, Unheard, G!TimerFires
  <2>3. HeardTruly'
    BY <1>9 DEF CallInv, HeardTruly, G!TimerFires
  <2>4. AtFinish'
    BY <1>9 DEF AtFinish, G!Open, G!TimerFires
  <2>5. AnswerHolds'
    BY <1>9 DEF CallInv, AnswerHolds, G!Open, G!TimerFires
  <2> QED BY <2>1, <2>2, <2>3, <2>4, <2>5 DEF CallInv
<1>10. CASE G!Cancel
  <2>1. CallShape'
    BY <1>10 DEF CallInv, CallShape, G!Cancel
  <2>2. Unheard'
    BY <1>10 DEF CallInv, Unheard, G!Cancel
  <2>3. HeardTruly'
    BY <1>10 DEF CallInv, HeardTruly, G!Cancel
  <2>4. AtFinish'
    BY <1>10 DEF CallInv, AtFinish, G!Cancel
  <2>5. AnswerHolds'
    BY <1>10 DEF CallInv, AnswerHolds, G!Blind, G!Cancel
  <2> QED BY <2>1, <2>2, <2>3, <2>4, <2>5 DEF CallInv
<1>11. CASE G!OpenSocket
  <2>1. CallShape'
    BY <1>11 DEF CallInv, CallShape, G!Move, G!OpenSocket
  <2>2. Unheard'
    BY <1>11 DEF CallInv, Unheard, Unposted, G!At, G!Move, G!OpenSocket
  <2>3. HeardTruly'
    BY <1>11 DEF CallInv, HeardTruly, G!Move, G!OpenSocket
  <2>4. AtFinish'
    BY <1>11 DEF AtFinish, G!Move, G!OpenSocket
  <2>5. AnswerHolds'
    BY <1>11 DEF CallInv, AnswerHolds, G!At, G!Move, G!OpenSocket
  <2> QED BY <2>1, <2>2, <2>3, <2>4, <2>5 DEF CallInv
<1>12. CASE G!ReceiveChallenge
  <2>1. CallShape'
    BY <1>12 DEF CallInv, CallShape, G!Move, G!ReceiveChallenge
  <2>2. Unheard'
    BY <1>12 DEF CallInv, Unheard, Unposted, G!At, G!Move, G!ReceiveChallenge
  <2>3. HeardTruly'
    BY <1>12 DEF CallInv, HeardTruly, G!Move, G!ReceiveChallenge
  <2>4. AtFinish'
    BY <1>12 DEF AtFinish, G!Move, G!ReceiveChallenge
  <2>5. AnswerHolds'
    BY <1>12 DEF CallInv, AnswerHolds, G!At, G!Move, G!ReceiveChallenge
  <2> QED BY <2>1, <2>2, <2>3, <2>4, <2>5 DEF CallInv
<1>13. ASSUME NEW ok \in BOOLEAN, G!Hello(ok), ~G!Error PROVE CallInv'
  <2>1. CallShape'
    BY <1>13 DEF CallInv, CallShape, G!At, G!Move, G!Hello
  <2>2. Unheard'
    BY <1>13 DEF CallInv, CallShape, Unheard, Unposted, G!At, G!Move, G!Hello
  <2>3. HeardTruly'
    BY <1>13 DEF CallInv, CallShape, HeardTruly, G!At, G!Move, G!Hello
  <2>4. AtFinish'
    BY <1>13 DEF CallInv, CallShape, AtFinish, G!At, G!Move, G!Hello
  <2>5. AnswerHolds'
    BY <1>13 DEF CallInv, CallShape, AnswerHolds, G!At, G!Move, G!Hello
  <2> QED BY <2>1, <2>2, <2>3, <2>4, <2>5 DEF CallInv
<1>14. CASE G!Post
  <2>1. CallShape'
    BY <1>14 DEF CallInv, CallShape, G!Move, G!Post
  <2>2. Unheard'
    BY <1>14 DEF CallInv, Unheard, Unposted, G!At, G!Move, G!Post
  <2>3. HeardTruly'
    BY <1>14 DEF CallInv, Unheard, HeardTruly, Unposted, G!Ended, G!At, G!Move, G!Post
  <2>4. AtFinish'
    BY <1>14 DEF AtFinish, G!Move, G!Post
  <2>5. AnswerHolds'
    BY <1>14 DEF CallInv, AnswerHolds, G!At, G!Move, G!Post
  <2> QED BY <2>1, <2>2, <2>3, <2>4, <2>5 DEF CallInv
<1>15. CASE G!Refuse
  <2>1. CallShape'
    BY <1>15 DEF CallInv, CallShape, G!Move, G!Refuse
  <2>2. Unheard'
    BY <1>15 DEF CallInv, Unheard, G!At, G!Move, G!Refuse
  <2>3. HeardTruly'
    BY <1>15 DEF CallInv, HeardTruly, G!Ended, G!Move, G!Refuse
  <2>4. AtFinish'
    BY <1>15 DEF AtFinish, G!Move, G!Refuse
  <2>5. AnswerHolds'
    BY <1>15 DEF CallInv, AnswerHolds, G!Ended, G!At, G!Move, G!Refuse
  <2> QED BY <2>1, <2>2, <2>3, <2>4, <2>5 DEF CallInv
<1>16. CASE G!Accepted
  <2>1. CallShape'
    BY <1>16 DEF CallInv, CallShape, G!Heard, G!Status, G!Answers, G!Accepted
  <2>2. Unheard'
    BY <1>16 DEF Unheard, Unposted, G!Answers, G!Accepted
  <2>3. HeardTruly'
    BY <1>16 DEF CallInv, HeardTruly, G!Ended, G!Status, G!Accepted
  <2>4. AtFinish'
    BY <1>16 DEF AtFinish, G!Accepted
  <2>5. AnswerHolds'
    BY <1>16 DEF CallInv, AnswerHolds, G!At, G!Accepted
  <2> QED BY <2>1, <2>2, <2>3, <2>4, <2>5 DEF CallInv
<1>17. CASE G!Waited
  <2>1. CallShape'
    BY <1>17 DEF CallInv, CallShape, G!Heard, G!Status, G!Answers, G!Waited
  <2>2. Unheard'
    BY <1>17 DEF Unheard, Unposted, G!Answers, G!Waited
  <2>3. HeardTruly'
    BY <1>17 DEF CallInv, HeardTruly, G!Ended, G!Status, G!Waited
  <2>4. AtFinish'
    BY <1>17 DEF CallInv, CallShape, AtFinish, G!At, G!Status, G!Waited
  <2>5. AnswerHolds'
    BY <1>17 DEF CallInv, AnswerHolds, G!At, G!Waited
  <2> QED BY <2>1, <2>2, <2>3, <2>4, <2>5 DEF CallInv
<1>18. CASE G!Started
  <2>1. CallShape'
    BY <1>18 DEF CallInv, CallShape, G!Heard, G!Status, G!Answers, G!Started
  <2>2. Unheard'
    BY <1>18 DEF Unheard, Unposted, G!Answers, G!Started
  <2>3. HeardTruly'
    BY <1>18 DEF CallInv, HeardTruly, G!Ended, G!Status, G!Started
  <2>4. AtFinish'
    BY <1>18 DEF AtFinish, G!Started
  <2>5. AnswerHolds'
    BY <1>18 DEF CallInv, AnswerHolds, G!At, G!Started
  <2> QED BY <2>1, <2>2, <2>3, <2>4, <2>5 DEF CallInv
<1>19. CASE G!ReadFrame
  <2>1. CallShape'
    BY <1>19 DEF CallInv, CallShape, G!Heard, G!ReadFrame
  <2>2. Unheard'
    BY <1>19 DEF CallInv, Unheard, Unposted, G!ReadFrame
  <2>3. HeardTruly'
    <3>1. frames \in Seq(Events) /\ frames # <<>> /\ frames' = Tail(frames) /\ service' = service
      BY <1>19 DEF CallInv, CallShape, G!ReadFrame
    <3>2. \A n \in DOMAIN frames' : n + 1 \in DOMAIN frames /\ frames'[n] = frames[n + 1]
      BY <3>1
    <3>3. Head(frames) = frames[1] /\ 1 \in DOMAIN frames
      BY <3>1
    <3>4. call'.state = IF Head(frames) \in G!Ended THEN Head(frames) ELSE call.state
      BY <1>19 DEF CallInv, CallShape, G!ReadFrame
    <3> QED BY <3>1, <3>2, <3>3, <3>4 DEF CallInv, HeardTruly
  <2>4. AtFinish'
    BY <1>19 DEF AtFinish, G!Ended, G!At, G!ReadFrame
  <2>5. AnswerHolds'
    BY <1>19 DEF CallInv, AnswerHolds, G!At, G!ReadFrame
  <2> QED BY <2>1, <2>2, <2>3, <2>4, <2>5 DEF CallInv
<1>20. CASE G!EndStream
  <2>1. CallShape'
    BY <1>20 DEF CallInv, CallShape, G!At, G!Move, G!EndStream
  <2>2. Unheard'
    BY <1>20 DEF CallInv, Unheard, Unposted, G!Move, G!EndStream
  <2>3. HeardTruly'
    BY <1>20 DEF CallInv, HeardTruly, G!Move, G!EndStream
  <2>4. AtFinish'
    BY <1>20 DEF AtFinish, G!Move, G!EndStream
  <2>5. AnswerHolds'
    BY <1>20 DEF CallInv, AnswerHolds, G!At, G!Move, G!EndStream
  <2> QED BY <2>1, <2>2, <2>3, <2>4, <2>5 DEF CallInv
<1>21. CASE G!Check
  <2>1. CallShape'
    BY <1>21 DEF CallInv, CallShape, G!At, G!Move, G!Check
  <2>2. Unheard'
    BY <1>21 DEF CallInv, Unheard, Unposted, G!Move, G!Check
  <2>3. HeardTruly'
    BY <1>21 DEF CallInv, HeardTruly, G!Move, G!Check
  <2>4. AtFinish'
    BY <1>21 DEF CallInv, CallShape, AtFinish, G!At, G!Move, G!Over, G!Check
  <2>5. AnswerHolds'
    BY <1>21 DEF CallInv, AnswerHolds, G!At, G!Move, G!Check
  <2> QED BY <2>1, <2>2, <2>3, <2>4, <2>5 DEF CallInv
<1>22. CASE G!Fetch
  <2>1. CallShape'
    BY <1>22 DEF CallInv, CallShape, G!Heard, G!At, G!Status, G!Answers, G!Fetch
  <2>2. Unheard'
    BY <1>22 DEF Unheard, Unposted, G!Answers, G!Fetch
  <2>3. HeardTruly'
    BY <1>22 DEF CallInv, HeardTruly, G!Ended, G!Status, G!Fetch
  <2>4. AtFinish'
    BY <1>22 DEF AtFinish, G!Fetch
  <2>5. AnswerHolds'
    BY <1>22 DEF CallInv, AnswerHolds, G!At, G!Fetch
  <2> QED BY <2>1, <2>2, <2>3, <2>4, <2>5 DEF CallInv
<1>23. ASSUME NEW ok \in BOOLEAN, G!Created(ok) PROVE CallInv'
  <2>1. CallShape'
    BY <1>23 DEF CallInv, CallShape, G!Heard, G!Status, G!Answers, G!Created
  <2>2. Unheard'
    BY <1>23 DEF Unheard, Unposted, G!Answers, G!Created
  <2>3. HeardTruly'
    BY <1>23 DEF CallInv, HeardTruly, G!Ended, G!Status, G!Created
  <2>4. AtFinish'
    BY <1>23 DEF AtFinish, G!Created
  <2>5. AnswerHolds'
    BY <1>23 DEF CallInv, AnswerHolds, G!At, G!Created
  <2> QED BY <2>1, <2>2, <2>3, <2>4, <2>5 DEF CallInv
<1> QED BY <1>1, <1>2, <1>3, <1>4, <1>5, <1>6, <1>7, <1>8, <1>9, <1>10, <1>11, <1>12,
          <1>13, <1>14, <1>15, <1>16, <1>17, <1>18, <1>19, <1>20, <1>21, <1>22, <1>23 DEF G!Next

\* However frames, polls, the deadline and the caller's signal fall (Gateway), the answer is true of
\* the run: a success of one that completed, another outcome of one that ended so.
THEOREM AnswersTrue == Kind \subseteq {"openclaw", "hermes", "cursor"} => (G!Spec => []G!AnswerIsTrue)
<1>1. CallInv => G!AnswerIsTrue
  BY DEF CallInv, AnswerHolds, G!AnswerIsTrue
<1> QED BY <1>1, CallStarts, CallNext, PTL DEF G!Spec

-----------------------------------------------------------------------------
(* AgentCli: the calls of agents' command lines.                           *)

\* A set of numbers has a least one.
LEMMA Least ==
  ASSUME NEW Some \in SUBSET Nat, Some # {}
  PROVE  \E m \in Some : \A k \in Some : m <= k
<1>1. PICK n \in Some : TRUE
  OBVIOUS
<1> DEFINE U == {1 .. k : k \in Some}
<1>2. IsWellFoundedOn(StrictSubsetOrdering(Nat), FiniteSubsetsOf(Nat))
  BY FS_StrictSubsetOrderingWellFounded
<1>3. \A k \in Some : IsFiniteSet(1 .. k)
  BY FS_Interval
<1>4. U \subseteq FiniteSubsetsOf(Nat)
  BY <1>3 DEF FiniteSubsetsOf
<1>5. U # {}
  BY <1>1
<1> HIDE DEF U
<1>6. PICK x \in U : \A y \in U : ~(<<y, x>> \in StrictSubsetOrdering(Nat))
  BY <1>2, <1>4, <1>5, WFMin
<1>7. PICK m \in Some : x = 1 .. m
  BY DEF U
<1>8. ASSUME NEW k \in Some, k < m PROVE FALSE
  <2>1. <<1 .. k, 1 .. m>> \in StrictSubsetOrdering(Nat)
    <3>1. 1 .. k \in SUBSET Nat /\ 1 .. m \in SUBSET Nat
      OBVIOUS
    <3>2. 1 .. k \subseteq 1 .. m
      BY <1>8
    <3>3. m \in 1 .. m /\ m \notin 1 .. k
      BY <1>8
    <3> QED BY <3>1, <3>2, <3>3 DEF StrictSubsetOrdering
  <2>2. 1 .. k \in U
    BY DEF U
  <2> QED BY <2>1, <2>2, <1>6, <1>7
<1> QED BY <1>8

\* What holds of 0 and, with a number, of the next holds of all.
LEMMA Induction ==
  ASSUME NEW S, 0 \in S, \A n \in Nat : n \in S => n + 1 \in S
  PROVE  Nat \subseteq S
<1> SUFFICES ASSUME Nat \ S # {} PROVE FALSE
  OBVIOUS
<1>1. PICK m \in Nat \ S : \A k \in Nat \ S : m <= k
  BY Least
<1>2. m # 0 /\ m - 1 \in Nat
  BY <1>1
<1>3. m - 1 \in S
  BY <1>1, <1>2
<1> QED BY <1>1, <1>2, <1>3

\* What a process knows of a call.
CliFields == {"pc", "turn", "stop", "timedOut", "dispatched", "taken", "error", "buffer", "code", "completed"}
\* No element twice.
Once(s) == \A m, n \in DOMAIN s : s[m] = s[n] => m = n
\* Whether a line reports an action that is complete, and the actions that the first lines report.
Due(e) == e.status = "completed" /\ e.input = "action"
Dues(es, n) == {es[m].id : m \in {k \in 1 .. n : Due(es[k])}}
\* Handling a line changes what was taken and dispatched, and nothing else of the call.
Kept(r, q) == /\ DOMAIN q = CliFields /\ q.taken \in Seq(Id) /\ Once(q.taken)
              /\ \A f \in CliFields \ {"dispatched", "taken", "error"} : q[f] = r[f]

\* A line that is handled adds the action it reports, if it was not taken before.
LEMMA HandleOne ==
  ASSUME NEW r, DOMAIN r = CliFields, r.taken \in Seq(Id), Once(r.taken), NEW e \in H!Event
  PROVE  /\ Kept(r, H!HandleEvent(r, e))
         /\ H!Range(H!HandleEvent(r, e).taken) = H!Range(r.taken) \cup (IF Due(e) THEN {e.id} ELSE {})
<1> DEFINE q == H!HandleEvent(r, e)
           due == e.status = "completed" /\ e.id \notin H!Range(r.taken)
<1>0. e.id \in Id
  BY DEF H!Event
<1>1. /\ DOMAIN q = CliFields /\ \A f \in CliFields \ {"dispatched", "taken", "error"} : q[f] = r[f]
      /\ q.taken = IF due /\ e.input = "action" THEN Append(r.taken, e.id) ELSE r.taken
  BY DEF H!HandleEvent, H!Handle, CliFields
<1>2. CASE due /\ e.input = "action"
  <2>1. q.taken = Append(r.taken, e.id)
    BY <1>1, <1>2
  <2>2. q.taken \in Seq(Id) /\ Len(q.taken) = Len(r.taken) + 1 /\ q.taken[Len(r.taken) + 1] = e.id
    BY <2>1, <1>0
  <2>3. \A n \in 1 .. Len(r.taken) : q.taken[n] = r.taken[n]
    BY <2>1, <1>0
  <2>4. DOMAIN q.taken = 1 .. Len(r.taken) + 1 /\ DOMAIN r.taken = 1 .. Len(r.taken)
    BY <2>2
  <2>5. Once(q.taken)
    <3> SUFFICES ASSUME NEW m \in DOMAIN q.taken, NEW n \in DOMAIN q.taken, q.taken[m] = q.taken[n] PROVE m = n
      BY DEF Once
    <3>1. e.id \notin {r.taken[k] : k \in 1 .. Len(r.taken)}
      BY <1>2, <2>4 DEF H!Range
    <3>2. m \in 1 .. Len(r.taken) /\ n \in 1 .. Len(r.taken) => m = n
      BY <2>3, <2>4 DEF Once
    <3>3. \A k \in 1 .. Len(r.taken) : q.taken[k] # e.id
      BY <2>3, <3>1
    <3>4. \A k \in DOMAIN q.taken : k \in 1 .. Len(r.taken) \/ (k = Len(r.taken) + 1 /\ q.taken[k] = e.id)
      BY <2>2, <2>4
    <3>5. ASSUME m \notin 1 .. Len(r.taken) PROVE m = n
      <4>1. m = Len(r.taken) + 1 /\ q.taken[n] = e.id
        BY <3>4, <3>5
      <4> QED BY <3>3, <3>4, <4>1
    <3>6. ASSUME n \notin 1 .. Len(r.taken) PROVE m = n
      <4>1. n = Len(r.taken) + 1 /\ q.taken[m] = e.id
        BY <3>4, <3>6
      <4> QED BY <3>3, <3>4, <4>1
    <3> QED BY <3>2, <3>5, <3>6
  <2>6. H!Range(q.taken) = H!Range(r.taken) \cup {e.id}
    <3>1. 1 .. Len(r.taken) + 1 = (1 .. Len(r.taken)) \cup {Len(r.taken) + 1}
      <4>1. Len(r.taken) \in Nat
        OBVIOUS
      <4> QED BY <4>1
    <3>2. H!Range(q.taken) = {q.taken[n] : n \in 1 .. Len(r.taken)} \cup {q.taken[Len(r.taken) + 1]}
      BY <2>4, <3>1 DEF H!Range
    <3>3. {q.taken[n] : n \in 1 .. Len(r.taken)} = {r.taken[n] : n \in 1 .. Len(r.taken)}
      BY <2>3
    <3> QED BY <2>2, <2>4, <3>2, <3>3 DEF H!Range
  <2> QED BY <1>1, <1>2, <2>2, <2>5, <2>6 DEF Kept, Due
<1>3. CASE ~(due /\ e.input = "action")
  BY <1>1, <1>3 DEF Kept, Due
<1> QED BY <1>2, <1>3

\* The lines of a buffer are handled one after the other.
LEMMA HandleMany ==
  ASSUME NEW r, DOMAIN r = CliFields, r.taken \in Seq(Id), Once(r.taken), NEW es \in Seq(H!Event)
  PROVE  /\ Kept(r, H!HandleAll(r, es))
         /\ H!Range(H!HandleAll(r, es).taken) = H!Range(r.taken) \cup Dues(es, Len(es))
<1> DEFINE Begun(n, g) == g = [m \in 0 .. n |-> IF m = 0 THEN r ELSE H!HandleEvent(g[m - 1], es[m])]
           handled == CHOOSE g : Begun(Len(es), g)
           S == {n \in Nat : \E g : Begun(n, g)}
           Some == {n \in Nat : n <= Len(es) =>
                   /\ Kept(r, handled[n])
                   /\ H!Range(handled[n].taken) = H!Range(r.taken) \cup Dues(es, n)}
<1>1. H!HandleAll(r, es) = handled[Len(es)]
  BY DEF H!HandleAll
<1>2. 0 \in S
  <2>1. Begun(0, [m \in 0 .. 0 |-> r])
    OBVIOUS
  <2> QED BY <2>1
<1>3. \A n \in Nat : n \in S => n + 1 \in S
  <2> SUFFICES ASSUME NEW n \in Nat, n \in S PROVE n + 1 \in S
    OBVIOUS
  <2>1. PICK g : Begun(n, g)
    OBVIOUS
  <2> DEFINE h == [m \in 0 .. n + 1 |-> IF m = n + 1 THEN H!HandleEvent(g[n], es[n + 1]) ELSE g[m]]
  <2>2. ASSUME NEW m \in 0 .. n + 1
        PROVE  h[m] = IF m = 0 THEN r ELSE H!HandleEvent(h[m - 1], es[m])
    <3>1. CASE m = n + 1
      BY <3>1
    <3>2. CASE m # n + 1
      <4>1. m \in 0 .. n /\ (m # 0 => m - 1 \in 0 .. n)
        BY <3>2
      <4>2. g[m] = IF m = 0 THEN r ELSE H!HandleEvent(g[m - 1], es[m])
        BY <2>1, <4>1
      <4>3. h[m] = g[m] /\ (m # 0 => h[m - 1] = g[m - 1])
        BY <3>2, <4>1
      <4> QED BY <4>2, <4>3
    <3> QED BY <3>1, <3>2
  <2>3. h = [m \in 0 .. n + 1 |-> IF m = 0 THEN r ELSE H!HandleEvent(h[m - 1], es[m])]
    BY <2>2
  <2>4. \E f : Begun(n + 1, f)
    <3>1. Begun(n + 1, h)
      BY <2>3
    <3> HIDE DEF Begun, h
    <3> QED BY <3>1
  <2> HIDE DEF Begun
  <2> QED BY <2>4
<1> HIDE DEF S
<1>9. Nat \subseteq S
  BY <1>2, <1>3, Induction
<1>4. Begun(Len(es), handled)
  <2>1. \E g : Begun(Len(es), g)
    BY <1>9 DEF S
  <2> HIDE DEF Begun
  <2> QED BY <2>1
<1> HIDE DEF handled
<1>5. /\ handled[0] = r
      /\ \A n \in 1 .. Len(es) : handled[n] = H!HandleEvent(handled[n - 1], es[n])
  BY <1>4
<1>6. 0 \in Some
  BY <1>5 DEF Kept, Dues
<1>7. \A n \in Nat : n \in Some => n + 1 \in Some
  <2> SUFFICES ASSUME NEW n \in Nat, n \in Some, n + 1 <= Len(es)
               PROVE  /\ Kept(r, handled[n + 1])
                      /\ H!Range(handled[n + 1].taken) = H!Range(r.taken) \cup Dues(es, n + 1)
    OBVIOUS
  <2>1. Kept(r, handled[n]) /\ H!Range(handled[n].taken) = H!Range(r.taken) \cup Dues(es, n)
    OBVIOUS
  <2>2. es[n + 1] \in H!Event /\ handled[n + 1] = H!HandleEvent(handled[n], es[n + 1])
    BY <1>5
  <2>3. /\ Kept(handled[n], handled[n + 1])
        /\ H!Range(handled[n + 1].taken) =
             H!Range(handled[n].taken) \cup (IF Due(es[n + 1]) THEN {es[n + 1].id} ELSE {})
    <3>1. DOMAIN handled[n] = CliFields /\ handled[n].taken \in Seq(Id) /\ Once(handled[n].taken)
      BY <2>1 DEF Kept
    <3> QED BY <2>2, <3>1, HandleOne
  <2>4. Dues(es, n + 1) = Dues(es, n) \cup (IF Due(es[n + 1]) THEN {es[n + 1].id} ELSE {})
    BY DEF Dues
  <2> QED BY <2>1, <2>3, <2>4 DEF Kept
<1> HIDE DEF Some
<1>8. Nat \subseteq Some
  BY <1>6, <1>7, Induction
<1> QED BY <1>1, <1>8 DEF Some

\* What was completed was taken or waits in the buffer; an exit code comes with an empty buffer.
Told(c) ==
  /\ DOMAIN cli[c] = CliFields
  /\ cli[c].taken \in Seq(Id) /\ Once(cli[c].taken) /\ cli[c].buffer \in Seq(H!Event)
  /\ cli[c].completed = H!Range(cli[c].taken) \cup Dues(cli[c].buffer, Len(cli[c].buffer))
  /\ cli[c].code # "none" =>
       /\ cli[c].pc \in {"release", "done", "threw"} /\ cli[c].buffer = <<>>
       /\ Driver[c] # "opencode" /\ cli[c].stop # "none" => cli[c].code # "zero"

\* The inductive invariant.
CliInv == DOMAIN cli = Call /\ \A c \in Call : Told(c)

\* What concerns neither the actions nor the exit code of a cli changes nothing of this.
LEMMA CliMoves ==
  ASSUME CliInv, NEW c, NEW f, H!Set(c, f), DOMAIN f \subseteq {"pc", "turn", "stop", "timedOut"},
         \/ c \in Call => cli[c].code = "none"
         \/ DOMAIN f = {"turn"}
         \/ DOMAIN f = {"pc"} /\ f.pc \in {"release", "done", "threw"}
  PROVE  CliInv'
<1>1. DOMAIN cli' = Call
  BY DEF CliInv, H!Set
<1>2. ASSUME NEW d \in Call, d # c PROVE Told(d)'
  <2>1. cli'[d] = cli[d]
    BY <1>2 DEF CliInv, H!Set
  <2> QED BY <2>1 DEF CliInv, Told
<1>3. ASSUME c \in Call PROVE Told(c)'
  <2>1. Told(c) /\ DOMAIN cli[c] = CliFields
    BY <1>3 DEF CliInv, Told
  <2>2. cli'[c] = [x \in CliFields |-> IF x \in DOMAIN f THEN f[x] ELSE cli[c][x]]
    BY <1>3, <2>1 DEF CliInv, H!Set
  <2>3. /\ DOMAIN cli'[c] = CliFields
        /\ \A x \in {"taken", "buffer", "completed", "code"} : cli'[c][x] = cli[c][x]
    BY <2>2 DEF CliFields
  <2>4. cli'[c].taken = cli[c].taken /\ cli'[c].buffer = cli[c].buffer
        /\ cli'[c].completed = cli[c].completed /\ cli'[c].code = cli[c].code
    BY <2>3
  <2>5. cli[c].code # "none" =>
          cli'[c].stop = cli[c].stop /\ cli'[c].pc \in {"release", "done", "threw"}
    BY <1>3, <2>1, <2>2 DEF CliFields, Told
  <2> QED BY <2>1, <2>3, <2>4, <2>5 DEF Told
<1> QED BY <1>1, <1>2, <1>3 DEF CliInv

\* Another record for one cli.
LEMMA CliTurns ==
  ASSUME CliInv, NEW c \in Call, NEW q, cli' = [cli EXCEPT ![c] = q],
         /\ DOMAIN q = CliFields
         /\ q.taken \in Seq(Id) /\ Once(q.taken) /\ q.buffer \in Seq(H!Event)
         /\ q.completed = H!Range(q.taken) \cup Dues(q.buffer, Len(q.buffer))
         /\ q.code # "none" =>
              /\ q.pc \in {"release", "done", "threw"} /\ q.buffer = <<>>
              /\ Driver[c] # "opencode" /\ q.stop # "none" => q.code # "zero"
  PROVE  CliInv'
<1>1. DOMAIN cli' = Call /\ cli'[c] = q
  BY DEF CliInv
<1>2. ASSUME NEW d \in Call, d # c PROVE Told(d)'
  <2>1. cli'[d] = cli[d]
    BY <1>2 DEF CliInv
  <2> QED BY <2>1 DEF CliInv, Told
<1>3. Told(c)'
  BY <1>1 DEF Told
<1> QED BY <1>1, <1>2, <1>3 DEF CliInv

\* Every step keeps the invariant.
LEMMA CliNext == CliInv /\ [H!Next]_(H!vars) => CliInv'
<1> SUFFICES ASSUME CliInv, [H!Next]_(H!vars) PROVE CliInv'
  OBVIOUS
<1>0. ASSUME NEW c \in Call PROVE
        /\ Told(c) /\ DOMAIN cli[c] = CliFields
        /\ cli[c].pc \in {"idle", "queued", "running"} => cli[c].code = "none"
  BY DEF CliInv, Told
<1>1. CASE UNCHANGED H!vars
  BY <1>1 DEF H!vars, CliInv, Told
<1>2. ASSUME NEW c \in Call, H!Execute(c) PROVE CliInv'
  <2>1. PICK f : H!Set(c, f) /\ DOMAIN f \subseteq {"pc", "turn"}
    BY <1>2 DEF H!Execute
  <2>2. cli[c].code = "none"
    BY <1>0, <1>2 DEF H!Execute
  <2> QED BY <2>1, <2>2, CliMoves
<1>3. ASSUME NEW c \in Call, H!TakeLock(c) \/ H!ReadHolder(c) \/ H!Steal(c) \/ H!LockTimeout(c) PROVE CliInv'
  <2>1. \E t : H!Set(c, [turn |-> t])
    BY <1>3 DEF H!TakeLock, H!ReadHolder, H!Steal, H!LockTimeout
  <2> QED BY <2>1, CliMoves
<1>4. ASSUME NEW c \in Call, H!Release(c) PROVE CliInv'
  <2>1. \E pc \in {"threw", "done"} : H!Set(c, [pc |-> pc])
    BY <1>4 DEF H!Release
  <2> QED BY <2>1, CliMoves
<1>5. ASSUME NEW c \in Call, H!Spawn(c) \/ H!SpawnError(c) PROVE CliInv'
  <2>1. cli[c].code = "none" /\ \E pc : H!Set(c, [pc |-> pc])
    BY <1>0, <1>5 DEF H!Spawn, H!SpawnError
  <2> QED BY <2>1, CliMoves
<1>6. ASSUME NEW c \in Call, H!RunTimeout(c) \/ H!Abort(c) \/ H!Inactive(c) PROVE CliInv'
  <2>1. cli[c].code = "none" /\ \E f : H!Set(c, f) /\ DOMAIN f \subseteq {"stop", "timedOut"}
    BY <1>0, <1>6 DEF H!RunTimeout, H!Abort, H!Inactive, H!Signal
  <2> QED BY <2>1, CliMoves
<1>7. ASSUME NEW s \in Session, H!Cancel(s) PROVE CliInv'
  <2>1. /\ sessions[s] \in Call => cli[sessions[s]].code = "none"
        /\ \E f : H!Set(sessions[s], f) /\ DOMAIN f = {"stop"}
    BY <1>0, <1>7 DEF H!Cancel, H!Signal
  <2> QED BY <2>1, CliMoves
<1>8. ASSUME NEW c \in Call, NEW e \in H!Event, NEW streamed \in BOOLEAN, H!Emit(c, e, streamed) PROVE CliInv'
  <2> DEFINE r == H!Heard(cli[c], e)
  <2>1. /\ cli[c].code = "none" /\ Told(c)
        /\ DOMAIN r = CliFields /\ r.taken = cli[c].taken /\ r.buffer = cli[c].buffer /\ r.code = "none"
        /\ r.completed = cli[c].completed \cup (IF Due(e) THEN {e.id} ELSE {})
    BY <1>0, <1>8 DEF H!Emit, H!Heard, CliFields, Due
  <2>2. CASE streamed
    <3>1. cli[c].buffer = <<>> /\ cli' = [cli EXCEPT ![c] = H!HandleEvent(r, e)]
      BY <1>8, <2>2 DEF H!Emit
    <3>2. /\ Kept(r, H!HandleEvent(r, e))
          /\ H!Range(H!HandleEvent(r, e).taken) = H!Range(r.taken) \cup (IF Due(e) THEN {e.id} ELSE {})
      BY <2>1, HandleOne DEF Told
    <3> DEFINE q == H!HandleEvent(r, e)
    <3>3. /\ DOMAIN q = CliFields /\ q.taken \in Seq(Id) /\ Once(q.taken)
          /\ q.buffer = <<>> /\ q.code = "none" /\ q.completed = r.completed
      BY <2>1, <3>1, <3>2 DEF Kept, CliFields
    <3>4. Dues(<<>>, Len(<<>>)) = {} /\ <<>> \in Seq(H!Event)
      BY DEF Dues
    <3>5. q.completed = H!Range(q.taken) \cup Dues(q.buffer, Len(q.buffer))
      BY <2>1, <3>1, <3>2, <3>3, <3>4 DEF Told
    <3> HIDE DEF q
    <3> QED BY <3>1, <3>3, <3>4, <3>5, CliTurns DEF q
  <2>3. CASE ~streamed
    <3> DEFINE q == [r EXCEPT !.buffer = Append(r.buffer, e)]
    <3>1. cli' = [cli EXCEPT ![c] = q]
      BY <1>8, <2>3 DEF H!Emit
    <3>2. /\ cli[c].buffer \in Seq(H!Event)
          /\ cli[c].completed = H!Range(cli[c].taken) \cup Dues(cli[c].buffer, Len(cli[c].buffer))
      BY <2>1 DEF Told
    <3>3. /\ DOMAIN q = CliFields /\ q.taken = cli[c].taken /\ q.buffer = Append(cli[c].buffer, e)
          /\ q.code = "none" /\ q.completed = r.completed
      BY <2>1 DEF CliFields
    <3>4. Dues(q.buffer, Len(q.buffer)) =
            Dues(cli[c].buffer, Len(cli[c].buffer)) \cup (IF Due(e) THEN {e.id} ELSE {})
      BY <3>2, <3>3 DEF Dues
    <3>5. /\ q.taken \in Seq(Id) /\ Once(q.taken) /\ q.buffer \in Seq(H!Event)
          /\ q.completed = H!Range(q.taken) \cup Dues(q.buffer, Len(q.buffer))
      BY <2>1, <3>2, <3>3, <3>4 DEF Told
    <3> HIDE DEF q
    <3> QED BY <3>1, <3>3, <3>5, CliTurns
  <2> QED BY <2>2, <2>3
<1>9. ASSUME NEW c \in Call, NEW exit \in {"zero", "failed", "killed"}, NEW tail,
             tail = <<>> \/ \E e \in H!Event : tail = <<e>>, H!Close(c, exit, tail)
      PROVE  CliInv'
  <2> DEFINE b == H!HandleAll(cli[c], cli[c].buffer)
             r == IF tail = <<>> THEN b ELSE H!HandleEvent(H!Heard(b, tail[1]), tail[1])
             q == [r EXCEPT !.code = H!ExitCode(c, r, exit), !.buffer = <<>>,
                            !.pc = IF H!Opencode(c) THEN "release" ELSE "done"]
  <2>1. cli' = [cli EXCEPT ![c] = q] /\ Told(c)
    BY <1>0, <1>9 DEF H!Close
  <2>2. Kept(cli[c], b) /\ H!Range(b.taken) = cli[c].completed
    <3>1. /\ DOMAIN cli[c] = CliFields /\ cli[c].taken \in Seq(Id) /\ Once(cli[c].taken)
          /\ cli[c].buffer \in Seq(H!Event)
          /\ cli[c].completed = H!Range(cli[c].taken) \cup Dues(cli[c].buffer, Len(cli[c].buffer))
      BY <2>1 DEF Told
    <3>2. /\ Kept(cli[c], H!HandleAll(cli[c], cli[c].buffer))
          /\ H!Range(H!HandleAll(cli[c], cli[c].buffer).taken) =
               H!Range(cli[c].taken) \cup Dues(cli[c].buffer, Len(cli[c].buffer))
      BY <3>1, HandleMany
    <3> QED BY <3>1, <3>2
  <2> HIDE DEF b
  <2>3. /\ DOMAIN b = CliFields /\ b.taken \in Seq(Id) /\ Once(b.taken)
        /\ b.completed = H!Range(b.taken) /\ b.stop = cli[c].stop
    BY <2>2 DEF Kept, CliFields
  <2>4. /\ DOMAIN r = CliFields /\ r.taken \in Seq(Id) /\ Once(r.taken) /\ r.completed = H!Range(r.taken)
    <3>1. CASE tail = <<>>
      BY <2>3, <3>1
    <3>2. ASSUME NEW e \in H!Event, tail = <<e>> PROVE <2>4!1
      <4> DEFINE h == H!Heard(b, e)
      <4>1. /\ DOMAIN h = CliFields /\ h.taken = b.taken
            /\ h.completed = b.completed \cup (IF Due(e) THEN {e.id} ELSE {})
        BY <2>3 DEF H!Heard, CliFields, Due
      <4> HIDE DEF h
      <4>2. /\ Kept(h, H!HandleEvent(h, e))
            /\ H!Range(H!HandleEvent(h, e).taken) = H!Range(h.taken) \cup (IF Due(e) THEN {e.id} ELSE {})
        BY <2>3, <4>1, HandleOne
      <4>3. r = H!HandleEvent(h, e)
        BY <3>2 DEF h
      <4>4. H!HandleEvent(h, e).completed = h.completed
        BY <4>2 DEF Kept, CliFields
      <4> QED BY <2>3, <4>1, <4>2, <4>3, <4>4 DEF Kept
    <3> QED BY <1>9, <3>1, <3>2
  <2> HIDE DEF r
  <2>5. /\ DOMAIN q = CliFields /\ q.taken = r.taken /\ q.completed = r.completed /\ q.buffer = <<>>
        /\ q.pc \in {"release", "done"} /\ q.stop = r.stop /\ q.code = H!ExitCode(c, r, exit)
    BY <2>4 DEF CliFields
  <2>6. Driver[c] # "opencode" /\ q.stop # "none" => q.code # "zero"
    BY <2>5 DEF H!ExitCode
  <2>7. Dues(<<>>, Len(<<>>)) = {} /\ <<>> \in Seq(H!Event)
    BY DEF Dues
  <2>8. q.completed = H!Range(q.taken) \cup Dues(q.buffer, Len(q.buffer))
    BY <2>4, <2>5, <2>7
  <2> HIDE DEF q
  <2> QED BY <2>1, <2>4, <2>5, <2>6, <2>7, <2>8, CliTurns
<1>10. ASSUME NEW p \in Process, H!Die(p) PROVE CliInv'
  <2>1. DOMAIN cli' = Call
    BY <1>10 DEF H!Die
  <2>2. ASSUME NEW c \in Call PROVE Told(c)'
    <3>1. cli'[c] = cli[c] \/ cli'[c] = [H!AtRest EXCEPT !.pc = "lost"]
      BY <1>10 DEF H!Die
    <3>2. CASE cli'[c] = [H!AtRest EXCEPT !.pc = "lost"]
      <4>1. /\ DOMAIN cli'[c] = CliFields /\ cli'[c].taken = <<>> /\ cli'[c].buffer = <<>>
            /\ cli'[c].completed = {} /\ cli'[c].code = "none"
        BY <3>2 DEF H!AtRest, CliFields
      <4>2. /\ <<>> \in Seq(Id) /\ <<>> \in Seq(H!Event) /\ Once(<<>>)
            /\ {} = H!Range(<<>>) \cup Dues(<<>>, Len(<<>>))
        BY DEF H!Range, Dues, Once
      <4> QED BY <4>1, <4>2 DEF Told
    <3>3. CASE cli'[c] = cli[c]
      BY <1>0, <3>3 DEF Told
    <3> QED BY <3>1, <3>2, <3>3
  <2> QED BY <2>1, <2>2 DEF CliInv
<1>11. ASSUME NEW p \in Process, H!Restart(p) PROVE CliInv'
  BY <1>11 DEF H!Restart, CliInv, Told
<1> QED BY <1>1, <1>2, <1>3, <1>4, <1>5, <1>6, <1>7, <1>8, <1>9, <1>10, <1>11 DEF H!Next, H!Lock, H!Run

\* Calls begin so.
LEMMA CliStarts == H!Init => CliInv
<1> SUFFICES ASSUME H!Init, NEW c \in Call PROVE Told(c)
  BY DEF H!Init, CliInv
<1>1. /\ DOMAIN cli[c] = CliFields /\ cli[c].taken = <<>> /\ cli[c].buffer = <<>>
      /\ cli[c].completed = {} /\ cli[c].code = "none"
  BY DEF H!Init, H!AtRest, CliFields
<1>2. /\ <<>> \in Seq(Id) /\ <<>> \in Seq(H!Event) /\ Once(<<>>)
      /\ {} = H!Range(<<>>) \cup Dues(<<>>, Len(<<>>))
  BY DEF H!Range, Dues, Once
<1> QED BY <1>1, <1>2 DEF Told

\* A call that ended took each completed action once, and a call that was stopped did not end well (AgentCli).
THEOREM ResultsTrue == H!Spec => []H!ResultIsTrue
<1>1. CliInv => H!ResultIsTrue
  <2> SUFFICES ASSUME CliInv, NEW c \in Call, cli[c].code # "none"
               PROVE  /\ H!Range(cli[c].taken) = cli[c].completed /\ Once(cli[c].taken)
                      /\ Driver[c] # "opencode" /\ cli[c].stop # "none" => cli[c].code # "zero"
    BY DEF H!ResultIsTrue, Once
  <2>1. Dues(<<>>, Len(<<>>)) = {}
    BY DEF Dues
  <2> QED BY <2>1 DEF CliInv, Told
<1> QED BY <1>1, CliStarts, CliNext, PTL DEF H!Spec

-----------------------------------------------------------------------------
(* Sessions: the runs of sessions and their transcripts.                   *)

\* The lines of a turn that are stored.
Stored(r) == {e \in emitted[SessionFor[r]] : e.by = r}
\* Where a run stands.
TurnFields == {"pc", "found", "seq", "lines", "lost", "aborted", "attempt", "status", "again"}
\* A turn that lost no line has stored each, and one that succeeded lost none and emits no more.
Transcribed(r) ==
  /\ DOMAIN turn[r] = TurnFields
  /\ ~turn[r].lost => IsFiniteSet(Stored(r)) /\ Cardinality(Stored(r)) = turn[r].lines
  /\ turn[r].pc \in {"idle", "write", "register", "number"} => turn[r].status = "none"
  /\ turn[r].pc = "run" => turn[r].status # "succeeded"
  /\ turn[r].pc = "backoff" => turn[r].status = "failed"
  /\ turn[r].pc = "record" /\ turn[r].again => turn[r].status = "failed"
  /\ turn[r].status = "succeeded" => ~turn[r].lost

\* A number of a session is one event.
OnePerNumber == \A s \in Session : \A d, e \in emitted[s] : d.seq = e.seq => d = e
\* The inductive invariant.
SessionInv ==
  /\ DOMAIN turn = Request /\ DOMAIN emitted = Session /\ OnePerNumber
  /\ \A r \in Request : Transcribed(r)

\* Calls of execute are none of the others, and each runs as a session.
Sessioned == Request \cap Sender = {} /\ SessionFor \in [Request -> Session]

\* What Set does to its turn.
LEMMA TurnSets ==
  ASSUME SessionInv, NEW r \in Request, NEW f, Q!Set(r, f)
  PROVE  /\ DOMAIN turn' = Request /\ DOMAIN turn'[r] = TurnFields
         /\ \A q \in Request \ {r} : turn'[q] = turn[q]
         /\ \A x \in TurnFields : turn'[r][x] = IF x \in DOMAIN f THEN f[x] ELSE turn[r][x]
  BY DEF SessionInv, Transcribed, Q!Set

\* A step of one turn that stores no event.
LEMMA TurnMoves ==
  ASSUME SessionInv, NEW r \in Request, UNCHANGED emitted, DOMAIN turn' = Request,
         \A q \in Request \ {r} : turn'[q] = turn[q],
         DOMAIN turn'[r] = TurnFields, turn'[r].lost = turn[r].lost, turn'[r].lines = turn[r].lines,
         turn'[r].pc \in {"idle", "write", "register", "number"} => turn'[r].status = "none",
         turn'[r].pc = "run" => turn'[r].status # "succeeded",
         turn'[r].pc = "backoff" => turn'[r].status = "failed",
         turn'[r].pc = "record" /\ turn'[r].again => turn'[r].status = "failed",
         turn'[r].status = "succeeded" => ~turn'[r].lost
  PROVE  SessionInv'
<1>1. \A q \in Request : Stored(q)' = Stored(q)
  BY DEF Stored
<1>2. Transcribed(r)'
  BY <1>1 DEF SessionInv, Transcribed
<1>3. \A q \in Request \ {r} : Transcribed(q)'
  BY <1>1 DEF SessionInv, Transcribed
<1> QED BY <1>2, <1>3 DEF SessionInv, OnePerNumber

\* A step of one turn that changes no more than its place and what it knows of itself.
LEMMA TurnGoes ==
  ASSUME SessionInv, NEW r \in Request, NEW f, Q!Set(r, f), UNCHANGED emitted,
         DOMAIN f \subseteq {"pc", "found", "seq", "aborted", "attempt"}, "pc" \in DOMAIN f,
         f.pc \in {"write", "register", "number"} => turn[r].status = "none",
         f.pc = "run" => turn[r].status # "succeeded",
         f.pc = "backoff" => turn[r].status = "failed",
         f.pc \notin {"idle", "record"}
  PROVE  SessionInv'
<1>1. /\ DOMAIN turn' = Request /\ DOMAIN turn'[r] = TurnFields
      /\ \A q \in Request \ {r} : turn'[q] = turn[q]
      /\ \A x \in TurnFields : turn'[r][x] = IF x \in DOMAIN f THEN f[x] ELSE turn[r][x]
  BY TurnSets
<1>2. /\ turn'[r].pc = f.pc /\ turn'[r].lost = turn[r].lost /\ turn'[r].lines = turn[r].lines
      /\ turn'[r].status = turn[r].status /\ turn'[r].again = turn[r].again
  <2>1. \A x \in {"lost", "lines", "status", "again"} : turn'[r][x] = turn[r][x]
    BY <1>1 DEF TurnFields
  <2> QED BY <1>1, <2>1 DEF TurnFields
<1> QED BY <1>1, <1>2, TurnMoves DEF SessionInv, Transcribed

\* Every step keeps the invariant: only a run stores its lines, each under a number of its own.
LEMMA SessionNext == Sessioned /\ SessionInv /\ [Q!Next]_(Q!vars) => SessionInv'
<1> SUFFICES ASSUME Sessioned, SessionInv, [Q!Next]_(Q!vars) PROVE SessionInv'
  OBVIOUS
<1>0. \A r \in Request : Transcribed(r)
  BY DEF SessionInv
<1>1. CASE UNCHANGED <<emitted, turn>>
  BY <1>1 DEF SessionInv, OnePerNumber, Transcribed, Stored
<1>2. ASSUME NEW r \in Request, Q!FindRow(r) PROVE SessionInv'
  <2>1. \E f : /\ Q!Set(r, f) /\ "pc" \in DOMAIN f /\ DOMAIN f \subseteq {"pc", "found"}
               /\ f.pc \in {"threw", "write"} /\ UNCHANGED emitted /\ turn[r].pc = "idle"
    BY <1>2 DEF Q!FindRow
  <2> QED BY <1>0, <2>1, TurnGoes DEF Transcribed
<1>3. ASSUME NEW r \in Request, Q!WriteRow(r) PROVE SessionInv'
  <2>1. \E f : /\ Q!Set(r, f) /\ DOMAIN f = {"pc"} /\ f.pc \in {"threw", "register"}
               /\ UNCHANGED emitted /\ turn[r].pc = "write"
    BY <1>3 DEF Q!WriteRow
  <2> QED BY <1>0, <2>1, TurnGoes DEF Transcribed
<1>4. ASSUME NEW r \in Request, Q!Register(r) PROVE SessionInv'
  <2>1. \E f : /\ Q!Set(r, f) /\ DOMAIN f = {"pc"} /\ f.pc = "number"
               /\ UNCHANGED emitted /\ turn[r].pc = "register"
    BY <1>4 DEF Q!Register
  <2> QED BY <1>0, <2>1, TurnGoes DEF Transcribed
<1>5. ASSUME NEW r \in Request, NEW stored \in BOOLEAN, Q!Emit(r, stored) PROVE SessionInv'
  <2> DEFINE n == turn[r].seq + 1
             s == SessionFor[r]
             kept == stored /\ n \notin Q!Taken(s)
             line == [seq |-> n, by |-> r]
             f == [seq |-> n, lines |-> turn[r].lines + 1, lost |-> turn[r].lost \/ ~kept]
  <2>1. /\ Q!Set(r, f) /\ turn[r].pc = "run"
        /\ emitted' = [emitted EXCEPT ![s] = IF kept THEN @ \cup {line} ELSE @]
    BY <1>5 DEF Q!Emit, Q!StoreLine
  <2>2. /\ DOMAIN turn' = Request /\ DOMAIN turn'[r] = TurnFields
        /\ \A q \in Request \ {r} : turn'[q] = turn[q]
        /\ \A x \in TurnFields : turn'[r][x] = IF x \in DOMAIN f THEN f[x] ELSE turn[r][x]
    BY <2>1, TurnSets
  <2>3. /\ DOMAIN emitted' = Session
        /\ \A t \in Session : emitted'[t] = IF t = s /\ kept THEN emitted[t] \cup {line} ELSE emitted[t]
    BY <2>1 DEF SessionInv
  <2>4. OnePerNumber'
    <3>1. kept => \A e \in emitted[s] : e.seq # line.seq
      BY DEF Q!Taken
    <3> QED BY <2>3, <3>1 DEF SessionInv, OnePerNumber
  <2>5. ASSUME NEW q \in Request, q # r PROVE Transcribed(q)'
    <3>1. Stored(q)' = Stored(q)
      BY <2>3, <2>5 DEF Stored, Sessioned
    <3> QED BY <1>0, <2>2, <2>5, <3>1 DEF Transcribed
  <2>6. Transcribed(r)'
    <3>1. /\ turn'[r].pc = "run" /\ turn'[r].status = turn[r].status /\ turn'[r].lines = turn[r].lines + 1
          /\ turn'[r].lost = (turn[r].lost \/ ~kept)
      BY <2>1, <2>2 DEF TurnFields
    <3>2. ASSUME ~turn'[r].lost PROVE IsFiniteSet(Stored(r)') /\ Cardinality(Stored(r)') = turn[r].lines + 1
      <4>1. kept /\ ~turn[r].lost
        BY <3>1, <3>2
      <4>2. IsFiniteSet(Stored(r)) /\ Cardinality(Stored(r)) = turn[r].lines
        BY <1>0, <4>1 DEF Transcribed
      <4>3. Stored(r)' = Stored(r) \cup {line}
        BY <2>3, <4>1 DEF Stored, Sessioned
      <4>4. line \notin Stored(r)
        BY <4>1 DEF Stored, Q!Taken
      <4> HIDE DEF line
      <4> QED BY <4>2, <4>3, <4>4, FS_AddElement
    <3> QED BY <1>0, <2>1, <2>2, <3>1, <3>2 DEF Transcribed
  <2> QED BY <2>2, <2>3, <2>4, <2>5, <2>6 DEF SessionInv
<1>6. ASSUME NEW r \in Request, NEW outcome, NEW transient, NEW overBudget,
             Q!Return(r, outcome, transient, overBudget)
      PROVE  SessionInv'
  <2> DEFINE status == Q!StatusOf(r, outcome, overBudget)
             again == status = "failed" /\ transient /\ ~overBudget /\ turn[r].attempt < MaxAttempts
             f == [pc |-> "record", status |-> status, again |-> again]
  <2>1. Q!Set(r, f) /\ UNCHANGED emitted
    BY <1>6 DEF Q!Return
  <2>2. status = "succeeded" => ~turn[r].lost
    BY DEF Q!StatusOf
  <2>3. again => status = "failed"
    OBVIOUS
  <2> HIDE DEF status, again
  <2>4. /\ DOMAIN turn' = Request /\ DOMAIN turn'[r] = TurnFields
        /\ \A q \in Request \ {r} : turn'[q] = turn[q]
        /\ \A x \in TurnFields : turn'[r][x] = IF x \in DOMAIN f THEN f[x] ELSE turn[r][x]
    BY <2>1, TurnSets
  <2>5. /\ turn'[r].pc = "record" /\ turn'[r].lost = turn[r].lost /\ turn'[r].lines = turn[r].lines
        /\ turn'[r].status = status /\ turn'[r].again = again
    BY <2>4 DEF TurnFields
  <2> QED BY <2>1, <2>2, <2>3, <2>4, <2>5, TurnMoves
<1>7. ASSUME NEW r \in Request, Q!Record(r) PROVE SessionInv'
  <2>1. \E f : /\ Q!Set(r, f) /\ DOMAIN f = {"pc"} /\ f.pc = (IF turn[r].again THEN "backoff" ELSE "done")
               /\ UNCHANGED emitted /\ turn[r].pc = "record"
    BY <1>7 DEF Q!Record
  <2> QED BY <1>0, <2>1, TurnGoes DEF Transcribed
<1>8. ASSUME NEW r \in Request, Q!Retry(r) PROVE SessionInv'
  <2>1. \E f : /\ Q!Set(r, f) /\ DOMAIN f = {"pc", "attempt"} /\ f.pc = "run"
               /\ UNCHANGED emitted /\ turn[r].pc = "backoff"
    BY <1>8 DEF Q!Retry
  <2> QED BY <1>0, <2>1, TurnGoes DEF Transcribed
<1>9. ASSUME NEW r \in Request, NEW transient, Q!Throw(r, transient) PROVE SessionInv'
  <2>1. \E f : Q!Set(r, f) /\ DOMAIN f = {"pc"} /\ f.pc \in {"leave", "fail"} /\ UNCHANGED emitted
    BY <1>9 DEF Q!Throw
  <2> QED BY <2>1, TurnGoes
<1>10. ASSUME NEW r \in Request, Q!RecordFailure(r) PROVE SessionInv'
  <2> DEFINE f == [pc |-> "done", status |-> "failed"]
  <2>1. Q!Set(r, f) /\ UNCHANGED emitted
    BY <1>10 DEF Q!RecordFailure
  <2>2. /\ DOMAIN turn' = Request /\ DOMAIN turn'[r] = TurnFields
        /\ \A q \in Request \ {r} : turn'[q] = turn[q]
        /\ \A x \in TurnFields : turn'[r][x] = IF x \in DOMAIN f THEN f[x] ELSE turn[r][x]
    BY <2>1, TurnSets
  <2>3. /\ turn'[r].pc = "done" /\ turn'[r].lost = turn[r].lost /\ turn'[r].lines = turn[r].lines
        /\ turn'[r].status = "failed"
    BY <2>2 DEF TurnFields
  <2> QED BY <2>1, <2>2, <2>3, TurnMoves
<1>11. ASSUME NEW r \in Request, Q!Leave(r) PROVE SessionInv'
  <2>1. \E f : Q!Set(r, f) /\ DOMAIN f = {"pc"} /\ f.pc \in {"threw", "done"} /\ UNCHANGED emitted
    BY <1>11 DEF Q!Leave
  <2> QED BY <2>1, TurnGoes
<1>12. ASSUME NEW p \in Process, Q!Die(p) PROVE SessionInv'
  <2>1. UNCHANGED emitted /\ DOMAIN turn' = Request
    BY <1>12 DEF Q!Die
  <2>2. ASSUME NEW r \in Request PROVE Transcribed(r)'
    <3>1. Stored(r)' = Stored(r)
      BY <2>1 DEF Stored
    <3>2. turn'[r] = turn[r] \/ turn'[r] = [turn[r] EXCEPT !.pc = "dead"]
      BY <1>12 DEF Q!Die
    <3> QED BY <1>0, <3>1, <3>2 DEF Transcribed, TurnFields
  <2> QED BY <2>1, <2>2 DEF SessionInv, OnePerNumber
<1>13. ASSUME NEW c \in Sender, NEW p \in Process, NEW s \in Session, Q!Cancel(c, p, s) PROVE SessionInv'
  <2>1. UNCHANGED emitted /\ DOMAIN turn' = Request
    BY <1>13 DEF Q!Cancel, SessionInv
  <2>2. ASSUME NEW r \in Request PROVE Transcribed(r)'
    <3>1. Stored(r)' = Stored(r)
      BY <2>1 DEF Stored
    <3>2. turn'[r] = turn[r] \/ turn'[r] = [turn[r] EXCEPT !.aborted = TRUE]
      BY <1>13 DEF Q!Cancel, SessionInv
    <3> QED BY <1>0, <3>1, <3>2 DEF Transcribed, TurnFields
  <2> QED BY <2>1, <2>2 DEF SessionInv, OnePerNumber
<1>14. ASSUME NEW c \in Sender, Q!AppendEvent(c) PROVE SessionInv'
  <2> DEFINE n == other[c].seq
             s == other[c].session
             line == [seq |-> n, by |-> c]
  <2>1. UNCHANGED turn /\ emitted' = [emitted EXCEPT ![s] = IF n \in Q!Taken(s) THEN @ ELSE @ \cup {line}]
    BY <1>14 DEF Q!AppendEvent
  <2>2. /\ DOMAIN emitted' = Session
        /\ \A t \in Session :
             emitted'[t] = IF t = s /\ n \notin Q!Taken(s) THEN emitted[t] \cup {line} ELSE emitted[t]
    BY <2>1 DEF SessionInv
  <2>3. OnePerNumber'
    <3>1. n \notin Q!Taken(s) => \A e \in emitted[s] : e.seq # line.seq
      BY DEF Q!Taken
    <3> QED BY <2>2, <3>1 DEF SessionInv, OnePerNumber
  <2>4. ASSUME NEW r \in Request PROVE Transcribed(r)'
    <3>1. r # c
      BY DEF Sessioned
    <3>2. Stored(r)' = Stored(r)
      BY <2>2, <3>1 DEF Stored, Sessioned
    <3> QED BY <1>0, <2>1, <3>2 DEF Transcribed
  <2> QED BY <2>1, <2>2, <2>3, <2>4 DEF SessionInv
<1>15. ASSUME NEW r \in Request, Q!ReadSeq(r) PROVE SessionInv'
  <2>1. \E f : /\ Q!Set(r, f) /\ DOMAIN f = {"pc", "seq", "attempt"} /\ f.pc = "run"
               /\ UNCHANGED emitted /\ turn[r].pc = "number"
    BY <1>15 DEF Q!ReadSeq
  <2> QED BY <1>0, <2>1, TurnGoes DEF Transcribed
<1> QED BY <1>1, <1>2, <1>3, <1>4, <1>5, <1>6, <1>7, <1>8, <1>9, <1>10, <1>11, <1>12, <1>13, <1>14,
           <1>15
        DEF Q!Next, Q!Execute, Q!Others, Q!vars, Q!NumberEvent, Q!EndCancel, Q!Stop, Q!Pause, Q!Resume

\* Sessions begin so.
LEMMA SessionBegins == Sessioned /\ Q!Init => SessionInv
<1> SUFFICES ASSUME Sessioned, Q!Init PROVE SessionInv
  OBVIOUS
<1>1. ASSUME NEW r \in Request PROVE Transcribed(r)
  <2>1. Stored(r) = {}
    BY DEF Sessioned, Q!Init, Stored
  <2> QED BY <2>1, FS_EmptySet DEF Q!Init, Q!NotStarted, Transcribed, TurnFields
<1> QED BY <1>1 DEF Q!Init, SessionInv, OnePerNumber

\* A run that succeeded has an event in its session for each line, under a number of its own (Sessions).
THEOREM TranscriptsComplete == Sessioned => (Q!Spec => []Q!EvidenceComplete)
<1>1. SessionInv => Q!EvidenceComplete
  <2> SUFFICES ASSUME SessionInv PROVE Q!EvidenceComplete
    OBVIOUS
  <2>1. \A r \in Request :
          turn[r].pc = "done" /\ turn[r].status = "succeeded" =>
            Cardinality({e \in emitted[SessionFor[r]] : e.by = r}) = turn[r].lines
    <3> SUFFICES ASSUME NEW r \in Request, turn[r].pc = "done", turn[r].status = "succeeded"
                 PROVE  Cardinality({e \in emitted[SessionFor[r]] : e.by = r}) = turn[r].lines
      OBVIOUS
    <3>1. Cardinality(Stored(r)) = turn[r].lines
      BY DEF SessionInv, Transcribed
    <3> QED BY <3>1 DEF Stored
  <2>2. OnePerNumber
    BY DEF SessionInv
  <2> QED BY <2>1, <2>2 DEF OnePerNumber, Q!EvidenceComplete, Q!Cardinality, Cardinality
<1>2. SUFFICES ASSUME Sessioned PROVE Q!Spec => []Q!EvidenceComplete
  OBVIOUS
<1> QED BY <1>1, <1>2, SessionBegins, SessionNext, PTL DEF Q!Spec

-----------------------------------------------------------------------------
(* Definitions: the source of definitions and who uses it.                 *)

\* Definitions are files of a disk, and a definition, the worker and the requests are told apart.
Sources == IsFiniteSet(Definition) /\ Definition # {} /\ Worker \notin Definition /\ Worker \notin Reader

Text == {"none", "v1", "v2", "bad", "builtin"}
\* What a source holds of a definition: nothing at all, or a main file.
Content == {c \in [main : Text, side : Text] : c.main = "none" => c = J!Nothing}
Reports == Definition \X J!Part
Entry == [def : Definition, has : BOOLEAN, listed : SUBSET Definition, asked : BOOLEAN]
Scanning == [on : {TRUE}, todo : SUBSET Definition, def : Definition \cup {Worker}, main : Text,
             next : [Definition -> Content]]
Stages == {"idle", "wait", "join", "scan", "scanning", "list", "reading", "look", "watching", "stop", "done"}
Watchers == [open : BOOLEAN, ready : BOOLEAN, seen : SUBSET Reports, changed : SUBSET Reports]
Loading == [def : Definition, at : Nat, part : J!Part, main : Text \cup {"unread"}]
Users == [J!User -> [pc : Stages, joined : BOOLEAN, told : {"none", "found", "missed", "missing"}]]
Editing == [made : Nat, clean : {"no", "scanned", "yes"}, missed : SUBSET Definition]
DefShape ==
  /\ kind \in {"agent", "loop", "concept"}
  /\ disk \in [Definition -> [main : Text, side : Text]]
  /\ watcher \in Watchers
  /\ watching \in BOOLEAN
  /\ cache \in [Definition -> Content]
  /\ loads \subseteq Loading
  /\ scan \in [J!User -> Scanning \cup {J!NoScan}]
  /\ user \in Users
  /\ registry \in [Definition -> [main : Text, side : Text]]
  /\ refresh \in Seq(Entry)
  /\ edited \in Editing

\* A user that waits for the watcher started the source, one that waits for another did not.
Staged == \A u \in J!User : /\ user[u].pc \in {"idle", "wait"} => ~user[u].joined
                            /\ user[u].pc = "join" => user[u].joined
                            /\ u = Worker => user[u].pc \notin {"look", "stop"}

\* What the worker should make of a definition, and whether a change of it is yet to be dealt with.
Target(d) == IF J!Present(cache[d]) THEN cache[d] ELSE J!Fallback(d)
Unqueued(d) == \A i \in 1 .. Len(refresh) : refresh[i].def # d
LastOf(i) == \A j \in 1 .. Len(refresh) : refresh[j].def = refresh[i].def => j <= i
Early == user[Worker].pc \in {"idle", "wait", "join", "scan", "scanning", "list"}
Reading == user[Worker].pc = "reading"
Watching == user[Worker].pc = "watching"

\* The last entry of a loop tells whether it is there.
LoopsKnown ==
  kind = "loop" =>
    /\ Early => registry = [d \in Definition |-> J!Fallback(d)]
    /\ Reading \/ Watching => \A d \in Definition \ edited.missed : Unqueued(d) => registry[d] = Target(d)
    /\ Watching => \A i \in 1 .. Len(refresh) : LastOf(i) => refresh[i].has = J!Present(cache[refresh[i].def])

\* The last reconciliation knows which agents are there.
AgentsKnown ==
  kind = "agent" =>
    /\ (Reading \/ Watching) /\ refresh = <<>> => \A d \in Definition \ edited.missed : registry[d] = Target(d)
    /\ (Reading \/ Watching) /\ Len(refresh) = 1 /\ refresh[1].asked =>
         \A d \in Definition \ edited.missed : d \in refresh[1].listed <=> J!Present(cache[d])
    /\ Reading => Len(refresh) <= 1
    /\ Watching => /\ refresh # <<>> => edited.missed = {}
                   /\ \A i \in 2 .. Len(refresh) : ~refresh[i].asked
Known == LoopsKnown /\ AgentsKnown /\ (Early => refresh = <<>>)

\* What was reported or read of the files is what they say.
Truthful == /\ \A f \in watcher.changed : disk[f[1]][f[2]] # "none"
            /\ \A l \in loads : l.main \in {"unread", disk[l.def].main}
OnDisk(d) == J!Loaded(disk[d].main, disk[d].side)
InStep == \A d \in Definition : cache[d] = OnDisk(d)
ScanTrue(u) ==
  /\ scan[u].def # Worker => scan[u].def \in scan[u].todo /\ scan[u].main = disk[scan[u].def].main
  /\ \A d \in Definition \ scan[u].todo : scan[u].next[d] = OnDisk(d)
ScansAlone(u) == \A v \in J!User \ {u} : ~scan[v].on
CleanScans ==
  /\ edited.clean # "no" => Truthful
  /\ edited.clean = "scanned" => \E u \in J!User : scan[u].on /\ ScanTrue(u) /\ ScansAlone(u)
  /\ edited.clean = "yes" => InStep /\ \A u \in J!User : ~scan[u].on

\* Where nothing was edited, who started the source and is past its scan finds what the files say.
Past == {"list", "reading", "watching", "look", "stop", "done"}
Unedited ==
  edited.made = 0 =>
    /\ Truthful
    /\ \A u \in J!User : scan[u].on => ScanTrue(u)
    /\ \A u \in J!User : user[u].pc \in Past /\ ~user[u].joined => InStep
    /\ \A r \in Reader : user[r].told = "missed" => user[r].joined

\* While no request found the source started, one user at most did start it and uses it.
Using(u) == user[u].pc \notin {"idle", "done"} /\ ~user[u].joined
Waiting ==
  (\A r \in Reader : ~user[r].joined) =>
    /\ \A u \in J!User : user[u].pc = "wait" => watcher.open
    /\ \A u \in J!User : Using(u) => watching
    /\ \A u, v \in J!User : Using(u) /\ Using(v) => u = v

DefInv == DefShape /\ Staged /\ Known /\ CleanScans /\ Unedited /\ Waiting

\* What is read of a definition is nothing, or has a main file.
LEMMA LoadedContent ==
  \A main, side \in Text : J!Loaded(main, side) \in Content
BY DEF J!Loaded, J!Nothing, Content, Text

\* The order the callbacks take up a set of definitions in has each of them.
LEMMA InSomeOrder ==
  ASSUME NEW ds, IsFiniteSet(ds)
  PROVE  /\ J!SetToSeq(ds) \in Seq(ds)
         /\ Len(J!SetToSeq(ds)) = Cardinality(ds)
         /\ DOMAIN J!SetToSeq(ds) = 1 .. Len(J!SetToSeq(ds))
         /\ \A d \in ds : \E i \in 1 .. Len(J!SetToSeq(ds)) : J!SetToSeq(ds)[i] = d
<1> DEFINE n == Cardinality(ds)
           f == J!SetToSeq(ds)
<1>1. n \in Nat /\ Bijection(1 .. n, ds) # {}
  BY FS_CardinalityType DEF ExistsBijection
<1>2. \E g \in [1 .. n -> ds] : J!IsInjective(g)
  BY <1>1 DEF Bijection, Injection, IsInjective, J!IsInjective
<1>3. f \in [1 .. n -> ds] /\ J!IsInjective(f)
  BY <1>2 DEF J!SetToSeq, J!Cardinality, Cardinality
<1>4. IsFiniteSet(1 .. n) /\ Cardinality(1 .. n) = n
  BY <1>1, FS_Interval
<1> HIDE DEF f
<1>5. f \in Injection(1 .. n, ds)
  BY <1>3 DEF Injection, IsInjective, J!IsInjective
<1>6. f \in Surjection(1 .. n, ds)
  BY <1>4, <1>5, FS_Injection
<1>7. \A d \in ds : \E i \in 1 .. n : f[i] = d
  BY <1>6 DEF Surjection
<1>8. f \in Seq(ds) /\ Len(f) = n /\ DOMAIN f = 1 .. Len(f)
  BY <1>1, <1>3
<1> QED BY <1>7, <1>8 DEF f

\* What two sequences one after the other are.
LEMMA OneAfterOther ==
  ASSUME NEW S, NEW s \in Seq(S), NEW t \in Seq(S)
  PROVE  /\ s \o t \in Seq(S) /\ Len(s \o t) = Len(s) + Len(t)
         /\ \A i \in 1 .. Len(s) : (s \o t)[i] = s[i]
         /\ \A i \in 1 .. Len(s \o t) : i > Len(s) => i - Len(s) \in 1 .. Len(t) /\ (s \o t)[i] = t[i - Len(s)]
<1>1. s \o t \in Seq(S) /\ Len(s \o t) = Len(s) + Len(t)
  OBVIOUS
<1>2. ASSUME NEW i \in 1 .. Len(s) PROVE (s \o t)[i] = s[i]
  OBVIOUS
<1>3. ASSUME NEW i \in 1 .. Len(s \o t), i > Len(s)
      PROVE  i - Len(s) \in 1 .. Len(t) /\ (s \o t)[i] = t[i - Len(s)]
  BY <1>1, <1>3
<1> QED BY <1>1, <1>2, <1>3

\* What an emission does to the changes the worker has yet to deal with.
ToldOf(ds) ==
  /\ Len(refresh) <= Len(refresh')
  /\ \A i \in 1 .. Len(refresh) : refresh'[i] = refresh[i]
  /\ \A i \in 1 .. Len(refresh') : i > Len(refresh) =>
       refresh'[i].def \in ds /\ refresh'[i].has = J!Present(cache'[refresh'[i].def]) /\ ~refresh'[i].asked
  /\ \A d \in ds : \E i \in 1 .. Len(refresh') : i > Len(refresh) /\ refresh'[i].def = d
  /\ edited'.missed = IF kind = "agent" /\ ds # {} THEN {} ELSE edited.missed \ ds
Emitted(ds, clean) ==
  /\ refresh' \in Seq(Entry)
  /\ edited' \in Editing
  /\ edited'.made = edited.made /\ edited'.clean = clean
  /\ J!Subscribed => ToldOf(ds)
  /\ ~J!Subscribed => refresh' = refresh /\ edited'.missed = edited.missed \cup ds
LEMMA Emission ==
  ASSUME DefShape, Sources, NEW ds \in SUBSET Definition, NEW clean \in {"no", "scanned", "yes"}, J!Emit(ds, clean)
  PROVE  Emitted(ds, clean)
<1>1. edited' \in Editing
  <2>1. edited \in Editing /\ edited' = [edited EXCEPT !.clean = clean, !.missed = edited'.missed]
    BY DEF DefShape, Editing, J!Emit
  <2>2. edited'.missed \in SUBSET Definition
    BY DEF DefShape, Editing, J!Emit
  <2> QED BY <2>1, <2>2 DEF Editing
<1>2. edited'.made = edited.made /\ edited'.clean = clean
  BY DEF DefShape, J!Emit
<1>3. CASE ~J!Subscribed
  <2>1. refresh' = refresh /\ edited'.missed = edited.missed \cup ds
    BY <1>3 DEF DefShape, J!Emit
  <2> QED BY <1>1, <1>2, <1>3, <2>1 DEF Emitted, DefShape
<1>4. CASE J!Subscribed
  <2> DEFINE q == J!SetToSeq(ds)
             added == [i \in DOMAIN q |-> [def |-> q[i], has |-> J!Present(cache'[q[i]]), listed |-> {}, asked |-> FALSE]]
  <2>1. IsFiniteSet(ds)
    BY FS_Subset DEF Sources
  <2>2. /\ q \in Seq(ds) /\ DOMAIN q = 1 .. Len(q)
        /\ \A d \in ds : \E i \in 1 .. Len(q) : q[i] = d
    BY <2>1, InSomeOrder
  <2>3. refresh' = refresh \o added
    BY <1>4 DEF J!Emit
  <2> HIDE DEF q
  <2>4. added \in Seq(Entry) /\ Len(added) = Len(q)
    BY <2>2 DEF Entry, J!Present
  <2>5. \A i \in 1 .. Len(q) : added[i].def = q[i] /\ added[i].has = J!Present(cache'[q[i]]) /\ ~added[i].asked
    BY <2>2
  <2> HIDE DEF added
  <2>6. refresh \in Seq(Entry)
    BY DEF DefShape
  <2>7. /\ refresh' \in Seq(Entry) /\ Len(refresh') = Len(refresh) + Len(q)
        /\ \A i \in 1 .. Len(refresh) : refresh'[i] = refresh[i]
        /\ \A i \in 1 .. Len(refresh') : i > Len(refresh) =>
             i - Len(refresh) \in 1 .. Len(q) /\ refresh'[i] = added[i - Len(refresh)]
    <3>1. /\ refresh \o added \in Seq(Entry) /\ Len(refresh \o added) = Len(refresh) + Len(added)
          /\ \A i \in 1 .. Len(refresh) : (refresh \o added)[i] = refresh[i]
          /\ \A i \in 1 .. Len(refresh \o added) : i > Len(refresh) =>
               i - Len(refresh) \in 1 .. Len(added) /\ (refresh \o added)[i] = added[i - Len(refresh)]
      BY <2>4, <2>6, OneAfterOther
    <3> QED BY <2>3, <2>4, <3>1
  <2>8. \A i \in 1 .. Len(refresh') : i > Len(refresh) =>
          refresh'[i].def \in ds /\ refresh'[i].has = J!Present(cache'[refresh'[i].def]) /\ ~refresh'[i].asked
    BY <2>2, <2>5, <2>7
  <2>9. ASSUME NEW d \in ds PROVE \E i \in 1 .. Len(refresh') : i > Len(refresh) /\ refresh'[i].def = d
    <3>1. PICK i \in 1 .. Len(q) : q[i] = d
      BY <2>2
    <3>2. /\ i + Len(refresh) \in 1 .. Len(refresh') /\ i + Len(refresh) > Len(refresh)
          /\ (i + Len(refresh)) - Len(refresh) = i
      BY <2>2, <2>6, <2>7
    <3> QED BY <2>5, <2>7, <3>1, <3>2
  <2>10. edited'.missed = IF kind = "agent" /\ ds # {} THEN {} ELSE edited.missed \ ds
    BY <1>4 DEF DefShape, J!Emit
  <2>11. ToldOf(ds)
    BY <2>2, <2>6, <2>7, <2>8, <2>9, <2>10 DEF ToldOf
  <2> QED BY <1>1, <1>2, <1>4, <2>7, <2>11 DEF Emitted
<1> QED BY <1>3, <1>4

\* The first listing: an entry for each loop that is there, one for all agents.
Listed ==
  /\ refresh' \in Seq(Entry)
  /\ kind = "loop" => \A d \in J!Defined : \E i \in 1 .. Len(refresh') : refresh'[i].def = d
  /\ kind = "agent" => Len(refresh') = 1 /\ ~refresh'[1].asked
LEMMA Listing ==
  ASSUME DefShape, Sources, J!ListDefinitions
  PROVE  Listed
<1> DEFINE present == J!SetToSeq(J!Defined)
           entry(d) == [def |-> d, has |-> TRUE, listed |-> {}, asked |-> FALSE]
<1>1. J!Defined \subseteq Definition
  BY DEF J!Defined
<1>2. IsFiniteSet(J!Defined)
  BY <1>1, FS_Subset DEF Sources
<1>3. /\ present \in Seq(J!Defined) /\ DOMAIN present = 1 .. Len(present)
      /\ \A d \in J!Defined : \E i \in 1 .. Len(present) : present[i] = d
  BY <1>2, InSomeOrder
<1>4. /\ kind = "loop" => refresh' = [i \in DOMAIN present |-> entry(present[i])]
      /\ kind = "agent" => \E d \in Definition : refresh' = <<entry(d)>>
      /\ kind = "concept" => refresh' = <<>>
  <2>1. kind = "agent" => refresh' = <<entry(CHOOSE d \in Definition : TRUE)>>
    BY DEF J!ListDefinitions
  <2>2. (CHOOSE d \in Definition : TRUE) \in Definition
    BY DEF Sources
  <2> QED BY <2>1, <2>2 DEF J!ListDefinitions
<1> HIDE DEF present
<1>5. ASSUME kind = "loop" PROVE Listed
  <2>1. refresh' \in Seq(Entry) /\ Len(refresh') = Len(present) /\ \A i \in 1 .. Len(present) : refresh'[i].def = present[i]
    <3>1. refresh' = [i \in 1 .. Len(present) |-> entry(present[i])] /\ Len(present) \in Nat
      BY <1>3, <1>4, <1>5
    <3>2. \A i \in 1 .. Len(present) : entry(present[i]) \in Entry
      BY <1>1, <1>3 DEF Entry
    <3> QED BY <3>1, <3>2
  <2> QED BY <1>3, <1>5, <2>1 DEF Listed
<1>6. ASSUME kind = "agent" PROVE Listed
  <2>1. PICK d \in Definition : refresh' = <<entry(d)>>
    BY <1>4, <1>6
  <2> QED BY <1>6, <2>1 DEF Listed, Entry
<1>7. ASSUME kind = "concept" PROVE Listed
  BY <1>4, <1>7 DEF Listed
<1> QED BY <1>5, <1>6, <1>7 DEF DefShape

\* A user that goes on to another stage.
LEMMA GoesOn ==
  ASSUME user \in Users, NEW u \in J!User, NEW pc \in Stages
  PROVE  [user EXCEPT ![u].pc = pc] \in Users
BY DEF Users

LEMMA Went ==
  ASSUME user \in Users, NEW u \in J!User, NEW pc, J!Goto(u, pc)
  PROVE  /\ user'[u].pc = pc
         /\ \A v \in J!User : /\ v # u => user'[v] = user[v]
                              /\ user'[v].joined = user[v].joined /\ user'[v].told = user[v].told
BY DEF Users, J!Goto

\* A scan that is on has a list of what to read.
LEMMA ScanIsOn ==
  ASSUME DefShape, NEW u \in J!User, scan[u].on
  PROVE  scan[u] \in Scanning
<1>1. scan[u] \in Scanning \cup {J!NoScan}
  BY DEF DefShape
<1>2. scan[u] # J!NoScan
  BY DEF J!NoScan
<1> QED BY <1>1, <1>2

\* The values stay what they can be.
LEMMA ShapeNext == DefShape /\ Sources /\ J!Next => DefShape'
<1> SUFFICES ASSUME DefShape, Sources, J!Next PROVE DefShape'
  OBVIOUS
<1> USE DEF J!files, J!source, J!consumer
<1>a. /\ disk \in [Definition -> [main : Text, side : Text]] /\ watcher \in Watchers /\ cache \in [Definition -> Content]
      /\ loads \subseteq Loading /\ scan \in [J!User -> Scanning \cup {J!NoScan}] /\ user \in Users
      /\ registry \in [Definition -> [main : Text, side : Text]] /\ refresh \in Seq(Entry) /\ edited \in Editing
  BY DEF DefShape
<1>b. \A c \in Content : c \in [main : Text, side : Text]
  BY DEF Content
<1>c. J!Nothing \in Content /\ \A d \in Definition : J!Fallback(d) \in [main : Text, side : Text]
  BY DEF Content, Text, J!Nothing, J!Fallback
<1>d. {"list", "look", "scan", "scanning", "wait", "join", "reading", "watching", "stop", "done"} \subseteq Stages
  BY DEF Stages
<1>e. \A pc \in Stages, u \in J!User : J!Goto(u, pc) => user' \in Users
  BY <1>a, GoesOn DEF J!Goto
<1>f. Reader \subseteq J!User /\ Worker \in J!User
  BY DEF J!User
<1>1. ASSUME NEW d \in Definition, NEW part \in J!Part, NEW text \in Text, J!Edit(d, part, text) PROVE DefShape'
  <2>1. <<d, part>> \in Reports
    BY DEF Reports
  <2>2. watcher' \in Watchers
    BY <1>1, <1>a, <2>1 DEF Watchers, J!Edit
  <2>3. edited' \in Editing
    <3>1. edited' = [edited EXCEPT !.made = edited.made + 1, !.clean = "no"]
      BY <1>1 DEF J!Edit
    <3>2. edited.made + 1 \in Nat
      BY <1>a DEF Editing
    <3> QED BY <1>a, <3>1, <3>2 DEF Editing
  <2>4. disk' \in [Definition -> [main : Text, side : Text]]
    BY <1>1, <1>a DEF J!Part, J!Edit
  <2> QED BY <1>1, <2>2, <2>3, <2>4 DEF DefShape, J!Edit
<1>2. CASE J!RefreshFileLoop
  <2>1. refresh # <<>> /\ refresh' = Tail(refresh)
    BY <1>2 DEF J!RefreshFileLoop, J!Next1
  <2>2. refresh' \in Seq(Entry) /\ refresh[1] \in Entry /\ Head(refresh) = refresh[1]
    BY <1>a, <2>1
  <2>3. Head(refresh).def \in Definition
    BY <2>2 DEF Entry
  <2>4. registry' \in [Definition -> [main : Text, side : Text]]
    <3>1. \A d \in Definition : cache[d] \in [main : Text, side : Text]
      BY <1>a, <1>b
    <3> QED BY <1>2, <1>a, <1>c, <2>3, <3>1 DEF J!RefreshFileLoop
  <2> QED BY <1>2, <2>2, <2>4 DEF DefShape, J!RefreshFileLoop
<1>3. CASE J!ListAgents
  <2>1. refresh # <<>> /\ J!Defined \subseteq Definition
    BY <1>3 DEF J!ListAgents, J!Defined
  <2>2. refresh' = [refresh EXCEPT ![1] = [refresh[1] EXCEPT !.listed = J!Defined, !.asked = TRUE]]
    BY <1>3, <1>a, <2>1 DEF J!ListAgents
  <2>3. [refresh[1] EXCEPT !.listed = J!Defined, !.asked = TRUE] \in Entry
    <3>1. refresh[1] \in Entry
      BY <1>a, <2>1
    <3> QED BY <2>1, <3>1 DEF Entry
  <2>4. refresh' \in Seq(Entry)
    BY <1>a, <2>1, <2>2, <2>3
  <2> QED BY <1>3, <2>4 DEF DefShape, J!ListAgents
<1>4. CASE J!ReconcileAgentDefinitions
  <2>1. refresh # <<>> /\ refresh' = Tail(refresh)
    BY <1>4 DEF J!ReconcileAgentDefinitions, J!Next1
  <2>2. refresh' \in Seq(Entry)
    BY <1>a, <2>1
  <2>3. registry' \in [Definition -> [main : Text, side : Text]]
    BY <1>4, <1>a, <1>b, <1>c DEF J!ReconcileAgentDefinitions
  <2>4. user' \in Users
    BY <1>4, <1>a, <1>d, <1>e, <1>f DEF J!ReconcileAgentDefinitions
  <2> QED BY <1>4, <2>2, <2>3, <2>4 DEF DefShape, J!ReconcileAgentDefinitions
<1>5. ASSUME NEW d \in Definition, NEW p \in J!Part, J!Deliver(d, p) PROVE DefShape'
  <2>1. <<d, p>> \in Reports
    BY DEF Reports
  <2>2. watcher' \in Watchers
    BY <1>5, <1>a, <2>1 DEF Watchers, J!Deliver
  <2>3. loads' \subseteq Loading
    <3>1. [def |-> d, at |-> edited.made, part |-> p, main |-> "unread"] \in Loading
      BY <1>a DEF Loading, Editing
    <3> QED BY <1>5, <1>a, <3>1 DEF J!Deliver
  <2>4. cache' \in [Definition -> Content]
    BY <1>5, <1>a, <1>c DEF J!Deliver
  <2>5. refresh' \in Seq(Entry) /\ edited' \in Editing
    <3>1. J!Emit({d}, edited.clean) \/ UNCHANGED <<refresh, edited>>
      BY <1>5 DEF J!Deliver
    <3>2. {d} \in SUBSET Definition /\ edited.clean \in {"no", "scanned", "yes"}
      BY <1>a DEF Editing
    <3>3. J!Emit({d}, edited.clean) => Emitted({d}, edited.clean)
      BY <3>2, Emission
    <3> QED BY <1>a, <3>1, <3>3 DEF Emitted
  <2> QED BY <1>5, <2>2, <2>3, <2>4, <2>5 DEF DefShape, J!Deliver
<1>6. ASSUME NEW l \in loads, J!LoadMain(l) PROVE DefShape'
  <2>1. l \in Loading /\ disk[l.def].main \in Text
    BY <1>a DEF Loading
  <2>2. [l EXCEPT !.main = disk[l.def].main] \in Loading
    BY <2>1 DEF Loading
  <2>3. loads' \subseteq Loading
    BY <1>6, <1>a, <2>2 DEF J!LoadMain
  <2> QED BY <1>6, <2>3 DEF DefShape, J!LoadMain
<1>7. ASSUME NEW l \in loads, J!FinishLoad(l) PROVE DefShape'
  <2>1. l.def \in Definition /\ l.main \in Text
    BY <1>7, <1>a DEF Loading, J!FinishLoad
  <2>2. J!Loaded(l.main, disk[l.def].side) \in Content
    BY <1>a, <2>1, LoadedContent
  <2>3. cache' \in [Definition -> Content] /\ loads' \subseteq Loading
    BY <1>7, <1>a, <2>2 DEF J!FinishLoad
  <2>4. refresh' \in Seq(Entry) /\ edited' \in Editing
    <3>1. J!Emit({l.def}, edited.clean) \/ UNCHANGED <<refresh, edited>>
      BY <1>7 DEF J!FinishLoad
    <3>2. {l.def} \in SUBSET Definition /\ edited.clean \in {"no", "scanned", "yes"}
      BY <1>a, <2>1 DEF Editing
    <3>3. J!Emit({l.def}, edited.clean) => Emitted({l.def}, edited.clean)
      BY <3>2, Emission
    <3> QED BY <1>a, <3>1, <3>3 DEF Emitted
  <2> QED BY <1>7, <2>3, <2>4 DEF DefShape, J!FinishLoad
<1>8. ASSUME NEW u \in J!User, J!BeginScan(u) PROVE DefShape'
  <2> DEFINE begun == [on |-> TRUE, todo |-> {d \in Definition : J!Files(d) # {}}, def |-> Worker,
                       main |-> "none", next |-> [d \in Definition |-> J!Nothing]]
  <2>1. begun \in Scanning
    BY <1>c DEF Scanning, Text
  <2>2. scan' = [scan EXCEPT ![u] = begun]
    BY <1>8 DEF J!BeginScan
  <2> HIDE DEF begun
  <2>3. scan' \in [J!User -> Scanning \cup {J!NoScan}]
    BY <1>a, <2>1, <2>2
  <2>4. user' \in Users
    BY <1>8, <1>a, <1>d, GoesOn DEF J!BeginScan
  <2>5. edited' \in Editing
    BY <1>8, <1>a DEF Editing, J!BeginScan
  <2> QED BY <1>8, <2>3, <2>4, <2>5 DEF DefShape, J!BeginScan
<1>9. ASSUME NEW u \in J!User, J!ScanSide(u) PROVE DefShape'
  <2> DEFINE d == scan[u].def
             content == J!Loaded(scan[u].main, disk[d].side)
             read == [scan[u] EXCEPT !.def = Worker, !.todo = @ \ {d}, !.next[d] = content]
  <2>1. scan[u] \in Scanning /\ d # Worker
    BY <1>9, ScanIsOn DEF J!ScanSide
  <2>2. d \in Definition /\ scan[u].main \in Text
    BY <2>1 DEF Scanning
  <2>3. content \in Content
    BY <1>a, <2>2, LoadedContent
  <2>4. scan' = [scan EXCEPT ![u] = read]
    BY <1>9, <1>a, <2>1 DEF Scanning, J!ScanSide
  <2> HIDE DEF content
  <2>5. read \in Scanning
    BY <2>1, <2>2, <2>3 DEF Scanning
  <2> HIDE DEF read
  <2>6. scan' \in [J!User -> Scanning \cup {J!NoScan}]
    BY <1>a, <2>4, <2>5
  <2> QED BY <1>9, <2>6 DEF DefShape, J!ScanSide
<1>10. ASSUME NEW u \in J!User, J!EndScan(u) PROVE DefShape'
  <2>1. scan[u] \in Scanning
    BY <1>10, ScanIsOn DEF J!EndScan
  <2>2. cache' \in [Definition -> Content]
    BY <1>10, <2>1 DEF Scanning, J!EndScan
  <2>3. scan' \in [J!User -> Scanning \cup {J!NoScan}]
    BY <1>10, <1>a DEF J!EndScan
  <2>4. user' \in Users
    BY <1>10, <1>a, <1>d, <1>e DEF J!Begun, J!EndScan
  <2>5. refresh' \in Seq(Entry) /\ edited' \in Editing
    <3> DEFINE ds == J!Changed(scan[u].next)
               clean == IF edited.clean = "scanned" THEN "yes" ELSE edited.clean
    <3>1. J!Emit(ds, clean)
      BY <1>10 DEF J!EndScan
    <3>2. ds \in SUBSET Definition /\ clean \in {"no", "scanned", "yes"}
      BY <1>a DEF Editing, J!Changed
    <3> HIDE DEF ds, clean
    <3>3. Emitted(ds, clean)
      BY <3>1, <3>2, Emission
    <3> QED BY <3>3 DEF Emitted
  <2> QED BY <1>10, <2>2, <2>3, <2>4, <2>5 DEF DefShape, J!EndScan
<1>11. ASSUME NEW u \in J!User, J!Start(u) PROVE DefShape'
  <2>1. J!AllFiles \in SUBSET Reports
    BY DEF Reports, J!AllFiles, J!Files
  <2>2. J!Open \in Watchers
    BY <2>1 DEF Watchers, J!Open
  <2>3. watcher' \in Watchers
    BY <1>11, <1>a, <2>2 DEF J!Start
  <2>4. user' \in Users
    <3>1. CASE watching
      <4> DEFINE pc == IF kind = "agent" /\ J!Starting THEN "join" ELSE IF u = Worker THEN "list" ELSE "look"
      <4>1. user' = [user EXCEPT ![u] = [pc |-> pc, joined |-> TRUE, told |-> "none"]] /\ pc \in Stages
        BY <1>11, <1>d, <3>1 DEF J!Start
      <4> QED BY <1>a, <4>1 DEF Users
    <3>2. CASE ~watching
      BY <1>11, <1>a, <1>d, <1>e, <3>2 DEF J!Start
    <3> QED BY <3>1, <3>2
  <2> QED BY <1>11, <2>3, <2>4 DEF DefShape, J!Start
<1>12. ASSUME NEW u \in J!User, J!Joined(u) PROVE DefShape'
  <2>1. user' \in Users
    BY <1>12, <1>d, <1>e DEF J!Begun, J!Joined
  <2> QED BY <1>12, <2>1 DEF DefShape, J!Joined
<1>13. ASSUME NEW u \in J!User, NEW d \in Definition, J!ScanMain(u, d) PROVE DefShape'
  <2> DEFINE read == [scan[u] EXCEPT !.def = d, !.main = disk[d].main]
  <2>1. scan[u] \in Scanning
    BY <1>13, ScanIsOn DEF J!ScanMain
  <2>2. read \in Scanning
    BY <1>a, <2>1 DEF Scanning
  <2>3. scan' = [scan EXCEPT ![u] = read]
    BY <1>13, <1>a, <2>1 DEF Scanning, J!ScanMain
  <2> HIDE DEF read
  <2>4. scan' \in [J!User -> Scanning \cup {J!NoScan}]
    BY <1>a, <2>2, <2>3
  <2> QED BY <1>13, <2>4 DEF DefShape, J!ScanMain
<1>14. CASE J!Ready
  <2>1. watcher' \in Watchers
    BY <1>14, <1>a DEF Watchers, J!Ready
  <2>2. user' \in Users
    BY <1>14, <1>a, <1>d DEF Users, J!Ready
  <2> QED BY <1>14, <2>1, <2>2 DEF DefShape, J!Ready
<1>15. CASE J!ListDefinitions
  <2>1. user' \in Users
    BY <1>15, <1>d, <1>e, <1>f DEF J!ListDefinitions
  <2>2. edited' \in Editing
    BY <1>15, <1>a DEF Editing, J!ListDefinitions
  <2>3. refresh' \in Seq(Entry)
    BY <1>15, Listing DEF Listed
  <2> QED BY <1>15, <2>1, <2>2, <2>3 DEF DefShape, J!ListDefinitions
<1>16. CASE J!Watch
  <2>1. user' \in Users
    BY <1>16, <1>d, <1>e, <1>f DEF J!Watch
  <2> QED BY <1>16, <2>1 DEF DefShape, J!Watch
<1>17. ASSUME NEW r \in Reader, NEW d \in Definition, J!Look(r, d) PROVE DefShape'
  <2>1. user' \in Users
    BY <1>17, <1>a, <1>d, <1>f DEF Users, J!Look
  <2> QED BY <1>17, <2>1 DEF DefShape, J!Look
<1>18. ASSUME NEW r \in Reader, J!Stop(r) PROVE DefShape'
  <2>1. user' \in Users
    BY <1>18, <1>d, <1>e, <1>f DEF J!Stop
  <2>2. watcher' \in Watchers
    BY <1>18, <1>a DEF Watchers, J!Stop
  <2> QED BY <1>18, <2>1, <2>2 DEF DefShape, J!Stop
<1>19. /\ \A d \in Definition, text \in {"none", "v1", "v2", "bad"} : J!Edit(d, "main", text) => DefShape'
       /\ \A d \in Definition, text \in {"none", "v1"} : J!Edit(d, "side", text) => DefShape'
  BY <1>1 DEF J!Part, Text
<1> QED BY <1>2, <1>3, <1>4, <1>5, <1>6, <1>7, <1>8, <1>9, <1>10, <1>11, <1>12, <1>13, <1>14, <1>15, <1>16, <1>17,
           <1>18, <1>19 DEF J!Next

\* Users go from stage to stage as they started.
LEMMA StagedNext == DefShape /\ Sources /\ Staged /\ J!Next => Staged'
<1> SUFFICES ASSUME DefShape, Sources, Staged, J!Next PROVE Staged'
  OBVIOUS
<1>a. user \in Users /\ Worker \in J!User /\ Worker \notin Reader /\ Reader \subseteq J!User
  BY DEF DefShape, Sources, J!User
<1>1. ASSUME NEW u \in J!User, NEW pc \in {"scanning", "list", "reading", "look", "watching", "stop", "done"}, J!Goto(u, pc),
             u = Worker => pc \notin {"look", "stop"}
      PROVE  Staged'
  BY <1>1, <1>a, Went DEF Staged
<1>2. ASSUME user' = user PROVE Staged'
  BY <1>2 DEF Staged
<1>3. ASSUME NEW u \in J!User, J!Begun(u) PROVE Staged'
  BY <1>1, <1>3 DEF J!Begun
<1>4. CASE J!ReconcileAgentDefinitions
  BY <1>1, <1>2, <1>4, <1>a DEF J!ReconcileAgentDefinitions
<1>5. ASSUME NEW u \in J!User, J!BeginScan(u) PROVE Staged'
  BY <1>1, <1>2, <1>5 DEF J!Goto, J!BeginScan
<1>6. ASSUME NEW u \in J!User, J!EndScan(u) PROVE Staged'
  BY <1>2, <1>3, <1>6 DEF J!EndScan
<1>7. ASSUME NEW u \in J!User, J!Start(u) PROVE Staged'
  <2>1. CASE watching
    <3> DEFINE pc == IF kind = "agent" /\ J!Starting THEN "join" ELSE IF u = Worker THEN "list" ELSE "look"
    <3>1. user' = [user EXCEPT ![u] = [pc |-> pc, joined |-> TRUE, told |-> "none"]]
      BY <1>7, <2>1 DEF J!Start
    <3> QED BY <1>a, <3>1 DEF Staged, Users
  <2>2. CASE ~watching
    <3>1. \E pc \in {"scan", "wait"} : J!Goto(u, pc)
      BY <1>7, <2>2 DEF J!Start
    <3>2. user[u].pc = "idle"
      BY <1>7 DEF J!Start, J!At
    <3> QED BY <1>a, <3>1, <3>2, Went DEF Staged
  <2> QED BY <2>1, <2>2
<1>8. ASSUME NEW u \in J!User, J!Joined(u) PROVE Staged'
  BY <1>3, <1>8 DEF J!Joined
<1>9. CASE J!Ready
  BY <1>9, <1>a DEF Staged, Users, J!At, J!Ready
<1>10. CASE J!ListDefinitions \/ J!Watch
  BY <1>1, <1>10, <1>a DEF J!ListDefinitions, J!Watch
<1>11. ASSUME NEW r \in Reader, NEW d \in Definition, J!Look(r, d) PROVE Staged'
  BY <1>11, <1>a DEF Staged, Users, J!Look
<1>12. ASSUME NEW r \in Reader, J!Stop(r) PROVE Staged'
  BY <1>1, <1>12, <1>a DEF J!Stop
<1> QED BY <1>2, <1>4, <1>5, <1>6, <1>7, <1>8, <1>9, <1>10, <1>11, <1>12
        DEF J!Next, J!Edit, J!RefreshFileLoop, J!ListAgents, J!Deliver, J!LoadMain, J!FinishLoad, J!ScanSide, J!ScanMain

\* While no request found the source started, it is used by who started it, and watched while it waits.
LEMMA WaitingNext == DefShape /\ Sources /\ Staged /\ Waiting /\ J!Next => Waiting'
<1> SUFFICES ASSUME DefShape, Sources, Staged, Waiting, J!Next, \A r \in Reader : ~user'[r].joined
             PROVE  /\ \A u \in J!User : user'[u].pc = "wait" => watcher'.open
                    /\ \A u \in J!User : Using(u)' => watching'
                    /\ \A u, v \in J!User : Using(u)' /\ Using(v)' => u = v
  BY DEF Waiting
<1> USE DEF J!files, J!source, J!consumer
<1> DEFINE Goal == /\ \A u \in J!User : user'[u].pc = "wait" => watcher'.open
                   /\ \A u \in J!User : Using(u)' => watching'
                   /\ \A u, v \in J!User : Using(u)' /\ Using(v)' => u = v
<1>a. user \in Users /\ Worker \in J!User /\ Worker \notin Reader /\ Reader \subseteq J!User
  BY DEF DefShape, Sources, J!User
<1>1. ASSUME watcher'.open = watcher.open, watching' = watching,
             \A u \in J!User : /\ user'[u].joined = user[u].joined
                               /\ user'[u].pc = "wait" => user[u].pc = "wait"
                               /\ user'[u].pc \notin {"idle", "done"} => user[u].pc \notin {"idle", "done"}
      PROVE  Goal
  <2>1. \A r \in Reader : ~user[r].joined
    BY <1>1, <1>a
  <2>2. \A u \in J!User : Using(u)' => Using(u)
    BY <1>1 DEF Using
  <2> QED BY <1>1, <2>1, <2>2 DEF Waiting
<1>2. ASSUME watcher'.open = watcher.open, watching' = watching, NEW u \in J!User, NEW pc, pc # "wait",
             user[u].pc \notin {"idle", "done"}, J!Goto(u, pc)
      PROVE  Goal
  BY <1>1, <1>2, <1>a, Went
<1>3. ASSUME NEW u \in J!User, J!Start(u) PROVE Goal
  <2>1. user[u].pc = "idle" /\ ~user[u].joined /\ watching'
    BY <1>3 DEF Staged, J!Start, J!At
  <2>2. CASE watching
    <3> DEFINE pc == IF kind = "agent" /\ J!Starting THEN "join" ELSE IF u = Worker THEN "list" ELSE "look"
    <3>1. user' = [user EXCEPT ![u] = [pc |-> pc, joined |-> TRUE, told |-> "none"]] /\ watcher' = watcher
      BY <1>3, <2>2 DEF J!Start
    <3>2. /\ user'[u].joined /\ user'[u].pc # "wait"
          /\ \A v \in J!User : v # u => user'[v] = user[v]
      BY <1>a, <3>1 DEF Users
    <3>3. \A r \in Reader : ~user[r].joined
      BY <1>a, <2>1, <3>2
    <3> QED BY <2>1, <3>1, <3>2, <3>3 DEF Waiting, Using
  <2>3. CASE ~watching
    <3>1. \E pc \in {"scan", "wait"} : J!Goto(u, pc)
      BY <1>3, <2>3 DEF J!Start
    <3>2. /\ \A v \in J!User : v # u => user'[v] = user[v]
          /\ user'[u].joined = user[u].joined
      BY <1>a, <3>1, Went
    <3>3. \A r \in Reader : ~user[r].joined
      BY <1>a, <2>1, <3>2
    <3>4. \A v \in J!User : ~Using(v)
      BY <2>3, <3>3 DEF Waiting
    <3>5. watcher'.open
      BY <1>3, <2>3 DEF J!Start, J!Open
    <3> QED BY <2>1, <3>2, <3>4, <3>5 DEF Using
  <2> QED BY <2>2, <2>3
<1>4. ASSUME NEW r \in Reader, J!Stop(r) PROVE Goal
  <2>1. /\ user[r].pc = "stop" /\ user'[r].pc = "done"
        /\ \A v \in J!User : /\ v # r => user'[v] = user[v]
                             /\ user'[v].joined = user[v].joined
    BY <1>4, <1>a, Went DEF J!Stop, J!At
  <2>2. \A q \in Reader : ~user[q].joined
    BY <1>a, <2>1
  <2>3. \A v \in J!User : Using(v) => v = r
    BY <1>a, <2>1, <2>2 DEF Waiting, Using
  <2>4. \A v \in J!User : ~Using(v)'
    BY <2>1, <2>3 DEF Using
  <2>5. \A v \in J!User : user'[v].pc # "wait"
    BY <1>a, <2>1, <2>3 DEF Staged, Using
  <2> QED BY <2>4, <2>5
<1>5. CASE J!ReconcileAgentDefinitions
  BY <1>1, <1>2, <1>5, <1>a DEF J!At, J!ReconcileAgentDefinitions
<1>6. ASSUME NEW u \in J!User, J!BeginScan(u) PROVE Goal
  BY <1>1, <1>2, <1>6 DEF J!At, J!Goto, J!BeginScan
<1>7. ASSUME NEW u \in J!User, J!EndScan(u) \/ J!Joined(u) PROVE Goal
  BY <1>1, <1>2, <1>7 DEF J!At, J!Begun, J!EndScan, J!Joined
<1>8. CASE J!Ready
  <2>1. watcher'.open = watcher.open
    BY <1>8 DEF DefShape, Watchers, J!Ready
  <2> QED BY <1>1, <1>8, <1>a, <2>1 DEF Users, J!At, J!Ready
<1>9. CASE J!ListDefinitions \/ J!Watch
  BY <1>2, <1>9, <1>a DEF J!At, J!ListDefinitions, J!Watch
<1>10. ASSUME NEW r \in Reader, NEW d \in Definition, J!Look(r, d) PROVE Goal
  BY <1>1, <1>10, <1>a DEF Users, J!At, J!Look
<1>11. ASSUME NEW d \in Definition, NEW part, NEW text, J!Edit(d, part, text) PROVE Goal
  <2>1. watcher'.open = watcher.open
    BY <1>11 DEF DefShape, Watchers, J!Edit
  <2> QED BY <1>1, <1>11, <2>1 DEF J!Edit
<1>12. ASSUME NEW d \in Definition, NEW p, J!Deliver(d, p) PROVE Goal
  <2>1. watcher'.open = watcher.open
    BY <1>12 DEF DefShape, Watchers, J!Deliver
  <2> QED BY <1>1, <1>12, <2>1 DEF J!Deliver
<1>13. ASSUME user' = user, watcher' = watcher, watching' = watching PROVE Goal
  BY <1>1, <1>13
<1> QED BY <1>3, <1>4, <1>5, <1>6, <1>7, <1>8, <1>9, <1>10, <1>11, <1>12, <1>13
        DEF J!Next, J!RefreshFileLoop, J!ListAgents, J!LoadMain, J!FinishLoad, J!ScanSide, J!ScanMain

\* A step that neither changes what is held nor what the worker made of it leaves it known.
LEMMA KnownStays ==
  ASSUME Known, kind' = kind, cache' = cache, refresh' = refresh, registry' = registry, edited'.missed = edited.missed,
         user'[Worker].pc = user[Worker].pc \/ (Early /\ Early')
  PROVE  Known'
<1>1. (Early' => Early) /\ (Reading' => Reading) /\ (Watching' => Watching)
  BY DEF Early, Reading, Watching
<1>2. \A d : Target(d)' = Target(d) /\ Unqueued(d)' = Unqueued(d)
  BY DEF Target, Unqueued, J!Present, J!Fallback
<1>3. \A i : LastOf(i)' = LastOf(i)
  BY DEF LastOf
<1>4. LoopsKnown'
  BY <1>1, <1>2, <1>3 DEF Known, LoopsKnown, J!Present, J!Fallback
<1>5. AgentsKnown'
  BY <1>1, <1>2 DEF Known, AgentsKnown, J!Present
<1> QED BY <1>1, <1>4, <1>5 DEF Known

\* Nor does one that tells of what it changes.
LEMMA KnownEmits ==
  ASSUME DefShape, DefShape', Known, kind' = kind, registry' = registry,
         NEW ds \in SUBSET Definition, NEW clean, Emitted(ds, clean), \A d \in Definition \ ds : cache'[d] = cache[d],
         user'[Worker].pc = user[Worker].pc \/ (Early /\ Early')
  PROVE  Known'
<1>a. /\ refresh \in Seq(Entry) /\ Len(refresh) \in Nat /\ refresh' \in Seq(Entry) /\ Len(refresh') \in Nat
      /\ edited.missed \subseteq Definition /\ kind \in {"agent", "loop", "concept"}
  BY DEF DefShape, Editing
<1>b. \A d \in Definition \ ds : Target(d)' = Target(d) /\ J!Present(cache[d])' = J!Present(cache[d])
  BY DEF Target, J!Present, J!Fallback
<1>1. CASE ~J!Subscribed
  <2>1. refresh' = refresh /\ edited'.missed = edited.missed \cup ds
    BY <1>1 DEF Emitted
  <2>2. (Early' => Early) /\ (Reading' => Reading) /\ (kind # "concept" => ~Watching')
    BY <1>1 DEF J!Subscribed, J!At, Early, Reading, Watching
  <2>3. \A d : Unqueued(d)' = Unqueued(d)
    BY <2>1 DEF Unqueued
  <2>4. LoopsKnown'
    BY <1>b, <2>1, <2>2, <2>3 DEF Known, LoopsKnown, J!Fallback
  <2>5. AgentsKnown'
    BY <1>b, <2>1, <2>2 DEF Known, AgentsKnown
  <2> QED BY <2>1, <2>2, <2>4, <2>5 DEF Known
<1>2. CASE J!Subscribed
  <2>1. Watching /\ Watching' /\ ~Early' /\ ~Reading'
    BY <1>2 DEF J!Subscribed, J!At, Early, Reading, Watching
  <2>2. ToldOf(ds)
    BY <1>2 DEF Emitted
  <2>3. ASSUME kind = "loop" PROVE LoopsKnown'
    <3>1. edited'.missed = edited.missed \ ds
      BY <2>2, <2>3 DEF ToldOf
    <3>2. ASSUME NEW d \in Definition \ edited'.missed, Unqueued(d)' PROVE registry'[d] = Target(d)'
      <4>1. d \notin ds
        BY <2>2, <3>2 DEF ToldOf, Unqueued
      <4>2. Unqueued(d)
        BY <1>a, <2>2, <3>2 DEF ToldOf, Unqueued
      <4> QED BY <1>b, <2>1, <2>3, <3>1, <3>2, <4>1, <4>2 DEF Known, LoopsKnown
    <3>3. ASSUME NEW i \in 1 .. Len(refresh'), LastOf(i)' PROVE refresh'[i].has = J!Present(cache'[refresh'[i].def])
      <4>1. CASE i > Len(refresh)
        BY <2>2, <4>1 DEF ToldOf
      <4>2. CASE i <= Len(refresh)
        <5>1. i \in 1 .. Len(refresh) /\ refresh'[i] = refresh[i] /\ refresh[i] \in Entry
          BY <1>a, <2>2, <4>2 DEF ToldOf
        <5>2. refresh[i].def \in Definition \ ds
          <6>1. ASSUME refresh[i].def \in ds PROVE FALSE
            <7>1. PICK j \in 1 .. Len(refresh') : j > Len(refresh) /\ refresh'[j].def = refresh[i].def
              BY <2>2, <6>1 DEF ToldOf
            <7>2. j <= i
              BY <3>3, <5>1, <7>1 DEF LastOf
            <7> QED BY <1>a, <4>2, <7>1, <7>2
          <6> QED BY <5>1, <6>1 DEF Entry
        <5>3. LastOf(i)
          BY <1>a, <2>2, <3>3, <5>1 DEF ToldOf, LastOf
        <5> QED BY <1>b, <2>1, <2>3, <5>1, <5>2, <5>3 DEF Known, LoopsKnown
      <4> QED BY <1>a, <4>1, <4>2
    <3> QED BY <2>1, <3>2, <3>3 DEF LoopsKnown
  <2>4. ASSUME kind = "agent" PROVE AgentsKnown'
    <3>1. CASE ds = {}
      <4>1. Len(refresh') = Len(refresh) /\ edited'.missed = edited.missed
        <5>1. ASSUME Len(refresh') > Len(refresh) PROVE FALSE
          <6>1. Len(refresh') \in 1 .. Len(refresh')
            BY <1>a, <5>1
          <6> QED BY <2>2, <3>1, <5>1, <6>1 DEF ToldOf
        <5>2. Len(refresh') >= Len(refresh) /\ edited'.missed = edited.missed
          BY <2>2, <3>1 DEF ToldOf
        <5> QED BY <1>a, <5>1, <5>2
      <4>2. refresh' = refresh
        BY <1>a, <2>2, <4>1 DEF ToldOf
      <4> QED BY <1>b, <2>1, <2>4, <3>1, <4>1, <4>2 DEF Known, AgentsKnown
    <3>2. CASE ds # {}
      <4>1. edited'.missed = {} /\ Len(refresh') > Len(refresh)
        BY <1>a, <2>2, <2>4, <3>2 DEF ToldOf
      <4>2. refresh' # <<>>
        BY <1>a, <4>1
      <4>3. \A i \in 2 .. Len(refresh') : ~refresh'[i].asked
        BY <1>a, <2>1, <2>2, <2>4 DEF ToldOf, Known, AgentsKnown
      <4>4. Len(refresh') = 1 => ~refresh'[1].asked
        BY <1>a, <2>2, <4>1 DEF ToldOf
      <4> QED BY <2>1, <4>1, <4>2, <4>3, <4>4 DEF AgentsKnown
    <3> QED BY <3>1, <3>2
  <2>5. kind # "loop" => LoopsKnown'
    BY DEF LoopsKnown
  <2>6. kind # "agent" => AgentsKnown'
    BY DEF AgentsKnown
  <2> QED BY <2>1, <2>3, <2>4, <2>5, <2>6 DEF Known
<1> QED BY <1>1, <1>2

\* The worker takes up the first change: of a loop, ...
LEMMA KnownLoop ==
  ASSUME DefShape, Known, J!RefreshFileLoop
  PROVE  Known'
<1>a. /\ refresh \in Seq(Entry) /\ Len(refresh) \in Nat /\ refresh # <<>> /\ refresh' = Tail(refresh)
      /\ registry \in [Definition -> [main : Text, side : Text]] /\ kind = "loop"
      /\ cache' = cache /\ user' = user /\ edited' = edited /\ kind' = kind
  BY DEF DefShape, J!RefreshFileLoop, J!Next1, J!files, J!source
<1>b. /\ Len(refresh') = Len(refresh) - 1 /\ Len(refresh) >= 1
      /\ \A i \in 1 .. Len(refresh') : i + 1 \in 1 .. Len(refresh) /\ refresh'[i] = refresh[i + 1]
      /\ Head(refresh) = refresh[1] /\ refresh[1] \in Entry
  BY <1>a
<1>c. ~Early /\ ~Early' /\ Reading' = Reading /\ Watching' = Watching
  BY <1>a DEF Known, Early, Reading, Watching
<1>d. \A d : Target(d)' = Target(d)
  BY <1>a DEF Target, J!Present, J!Fallback
<1> DEFINE e == refresh[1].def
<1>1. e \in Definition /\ \A d \in Definition : d # e => registry'[d] = registry[d]
  BY <1>a, <1>b DEF Entry, J!RefreshFileLoop
<1>2. ASSUME NEW d \in Definition, d # e, Unqueued(d)' PROVE Unqueued(d)
  <2>1. ASSUME NEW i \in 1 .. Len(refresh) PROVE refresh[i].def # d
    <3>1. CASE i = 1
      BY <1>2, <3>1
    <3>2. CASE i # 1
      <4>1. i - 1 \in 1 .. Len(refresh') /\ (i - 1) + 1 = i
        BY <1>a, <1>b, <3>2
      <4> QED BY <1>2, <1>b, <4>1 DEF Unqueued
    <3> QED BY <3>1, <3>2
  <2> QED BY <2>1 DEF Unqueued
<1>3. ASSUME NEW d \in Definition, d = e, Unqueued(d)', Reading \/ Watching PROVE registry'[d] = Target(d)
  <2>1. LastOf(1)
    <3>1. ASSUME NEW j \in 1 .. Len(refresh), refresh[j].def = e PROVE j <= 1
      <4>1. CASE j # 1
        <5>1. j - 1 \in 1 .. Len(refresh') /\ (j - 1) + 1 = j
          BY <1>a, <1>b, <4>1
        <5> QED BY <1>3, <1>b, <3>1, <5>1 DEF Unqueued
      <4> QED BY <4>1
    <3> QED BY <3>1 DEF LastOf
  <2>2. Watching => refresh[1].has = J!Present(cache[e])
    BY <1>a, <1>b, <2>1 DEF Known, LoopsKnown
  <2>3. registry' = IF ~J!Present(cache[e]) THEN [registry EXCEPT ![e] = J!Fallback(e)]
                    ELSE [registry EXCEPT ![e] = cache[e]]
    BY <1>3, <1>b, <2>2 DEF J!RefreshFileLoop, J!At, Reading, Watching
  <2> QED BY <1>3, <1>a, <1>1, <2>3 DEF Target
<1>4. ASSUME NEW i \in 1 .. Len(refresh'), LastOf(i)', Watching
      PROVE  refresh'[i].has = J!Present(cache'[refresh'[i].def])
  <2>1. LastOf(i + 1)
    <3>1. ASSUME NEW j \in 1 .. Len(refresh), refresh[j].def = refresh[i + 1].def PROVE j <= i + 1
      <4>1. CASE j # 1
        <5>1. j - 1 \in 1 .. Len(refresh') /\ (j - 1) + 1 = j
          BY <1>a, <1>b, <4>1
        <5>2. j - 1 <= i
          BY <1>4, <1>b, <3>1, <5>1 DEF LastOf
        <5> QED BY <5>1, <5>2
      <4> QED BY <4>1
    <3> QED BY <3>1 DEF LastOf
  <2> QED BY <1>4, <1>a, <1>b, <2>1 DEF Known, LoopsKnown
<1>5. ASSUME NEW d \in Definition \ edited.missed, Unqueued(d)', Reading \/ Watching PROVE registry'[d] = Target(d)'
  <2>1. CASE d = e
    BY <1>3, <1>5, <1>d, <2>1
  <2>2. CASE d # e
    <3>1. Unqueued(d) /\ registry'[d] = registry[d]
      BY <1>1, <1>2, <1>5, <2>2
    <3> QED BY <1>5, <1>a, <1>d, <3>1 DEF Known, LoopsKnown
  <2> QED BY <2>1, <2>2
<1>6. LoopsKnown'
  BY <1>4, <1>5, <1>a, <1>c DEF LoopsKnown
<1>7. AgentsKnown'
  BY <1>a DEF AgentsKnown
<1> QED BY <1>6, <1>7, <1>c DEF Known

\* ... or of an agent: it lists them, ...
LEMMA KnownList ==
  ASSUME DefShape, Known, J!ListAgents
  PROVE  Known'
<1>a. /\ refresh \in Seq(Entry) /\ refresh # <<>> /\ kind = "agent" /\ kind' = kind /\ cache' = cache
      /\ registry' = registry /\ user' = user /\ edited' = edited
  BY DEF DefShape, J!ListAgents, J!files, J!source
<1>1. refresh' = [refresh EXCEPT ![1] = [refresh[1] EXCEPT !.listed = J!Defined, !.asked = TRUE]]
  BY <1>a DEF J!ListAgents
<1>2. refresh[1] \in Entry /\ Len(refresh) \in Nat /\ Len(refresh) >= 1 /\ Len(refresh') = Len(refresh)
  BY <1>1, <1>a
<1>3. /\ refresh'[1].listed = J!Defined /\ \A i \in 2 .. Len(refresh) : refresh'[i] = refresh[i]
      /\ refresh' # <<>>
  BY <1>1, <1>2, <1>a DEF Entry
<1>4. ~Early /\ ~Early' /\ Reading' = Reading /\ Watching' = Watching
  BY <1>a DEF Known, Early, Reading, Watching
<1>5. \A d \in Definition : d \in refresh'[1].listed <=> J!Present(cache'[d])
  BY <1>3, <1>a DEF J!Defined
<1>6. AgentsKnown'
  BY <1>2, <1>3, <1>4, <1>5, <1>a DEF Known, AgentsKnown
<1> QED BY <1>4, <1>6, <1>a DEF Known, LoopsKnown

\* ... and makes of them what it finds of those it listed.
LEMMA KnownReconcile ==
  ASSUME DefShape, DefShape', Known, J!ReconcileAgentDefinitions
  PROVE  Known'
<1>a. /\ refresh \in Seq(Entry) /\ refresh # <<>> /\ refresh' = Tail(refresh) /\ kind = "agent" /\ kind' = kind
      /\ cache' = cache /\ edited' = edited /\ registry \in [Definition -> [main : Text, side : Text]]
      /\ cache \in [Definition -> Content] /\ user \in Users /\ Head(refresh) = refresh[1] /\ refresh[1].asked
  BY DEF DefShape, J!ReconcileAgentDefinitions, J!Next1, J!files, J!source
<1>b. /\ refresh[1] \in Entry /\ Len(refresh) \in Nat /\ Len(refresh) >= 1 /\ Len(refresh') = Len(refresh) - 1
      /\ \A i \in 1 .. Len(refresh') : i + 1 \in 1 .. Len(refresh) /\ refresh'[i] = refresh[i + 1]
      /\ refresh' = <<>> => Len(refresh) = 1
  <2>1. refresh[1] \in Entry /\ Len(refresh) \in Nat /\ Len(refresh) >= 1 /\ Len(refresh') = Len(refresh) - 1
    BY <1>a
  <2>2. \A i \in 1 .. Len(refresh') : i + 1 \in 1 .. Len(refresh) /\ refresh'[i] = refresh[i + 1]
    BY <1>a, <2>1
  <2>3. refresh' = <<>> => Len(refresh) = 1
    BY <2>1
  <2> QED BY <2>1, <2>2, <2>3
<1>c. \A d \in Definition : Target(d) = IF J!Present(cache[d]) THEN cache[d] ELSE J!Nothing
  BY <1>a DEF Target, J!Fallback
<1>d. \A d : Target(d)' = Target(d)
  BY <1>a DEF Target, J!Present, J!Fallback
<1>e. ~Early
  BY <1>a DEF Known
<1> DEFINE listed == refresh[1].listed
<1>f. listed \subseteq Definition
  BY <1>b DEF Entry
<1>1. CASE listed \subseteq J!Defined
  <2>1. registry' = [d \in Definition |-> IF d \in listed THEN cache[d] ELSE J!Nothing] /\ user' = user
    BY <1>1, <1>a DEF J!ReconcileAgentDefinitions
  <2>2. ~Early' /\ Reading' = Reading /\ Watching' = Watching
    BY <1>e, <2>1 DEF Early, Reading, Watching
  <2>3. ASSUME Reading \/ Watching, refresh' = <<>>, NEW d \in Definition \ edited.missed
        PROVE  registry'[d] = Target(d)
    <3>1. d \in listed <=> J!Present(cache[d])
      BY <1>a, <1>b, <2>3 DEF Known, AgentsKnown
    <3> QED BY <1>c, <2>1, <3>1
  <2>4. ASSUME Reading \/ Watching, Len(refresh') = 1 PROVE ~refresh'[1].asked
    <3>1. Len(refresh) = 2 /\ 1 \in 1 .. Len(refresh') /\ 1 + 1 = 2
      <4>1. Len(refresh) \in Nat /\ Len(refresh') = Len(refresh) - 1
        BY <1>b
      <4>2. Len(refresh') = 1
        BY <2>4
      <4>3. \A m \in Nat : 1 = m - 1 => m = 2
        OBVIOUS
      <4>4. Len(refresh) = 2
        BY <4>1, <4>2, <4>3
      <4> QED BY <4>2, <4>4
    <3>2. refresh'[1] = refresh[2]
      BY <1>b, <3>1
    <3>3. Watching
      BY <1>a, <2>4, <3>1 DEF Known, AgentsKnown
    <3> QED BY <1>a, <3>1, <3>2, <3>3 DEF Known, AgentsKnown
  <2>5. Reading => Len(refresh') <= 1
    BY <1>a, <1>b DEF Known, AgentsKnown
  <2>6. Watching => edited.missed = {} /\ \A i \in 2 .. Len(refresh') : ~refresh'[i].asked
    BY <1>a, <1>b DEF Known, AgentsKnown
  <2>7. AgentsKnown'
    BY <1>a, <1>d, <2>2, <2>3, <2>4, <2>5, <2>6 DEF AgentsKnown
  <2> QED BY <1>a, <2>2, <2>7 DEF Known, LoopsKnown
<1>2. CASE ~(listed \subseteq J!Defined)
  <2>1. registry' = registry
    BY <1>2, <1>a DEF J!ReconcileAgentDefinitions
  <2>2. CASE Reading
    <3>1. user'[Worker].pc = "done"
      BY <1>2, <1>a, <2>2 DEF J!ReconcileAgentDefinitions, J!At, J!Goto, J!User, Users, Reading
    <3>2. ~Early' /\ ~Reading' /\ ~Watching'
      BY <3>1 DEF Early, Reading, Watching
    <3> QED BY <1>a, <3>2 DEF Known, LoopsKnown, AgentsKnown
  <2>3. CASE ~Reading
    <3>1. user' = user
      BY <1>2, <1>a, <2>3 DEF J!ReconcileAgentDefinitions, J!At, Reading
    <3>2. ~Early' /\ ~Reading' /\ Watching' = Watching
      BY <1>e, <2>3, <3>1 DEF Early, Reading, Watching
    <3>3. Watching => edited.missed = {} /\ \A i \in 2 .. Len(refresh) : ~refresh[i].asked
      BY <1>a DEF Known, AgentsKnown
    <3>4. Watching => Len(refresh) # 1
      <4>1. ASSUME Watching, Len(refresh) = 1 PROVE FALSE
        <5>1. \A d \in Definition : d \in listed <=> J!Present(cache[d])
          BY <1>a, <3>3, <4>1 DEF Known, AgentsKnown
        <5> QED BY <1>2, <1>f, <5>1 DEF J!Defined
      <4> QED BY <4>1
    <3>5. Watching => /\ refresh' # <<>>
                      /\ Len(refresh') = 1 => ~refresh'[1].asked
                      /\ \A i \in 2 .. Len(refresh') : ~refresh'[i].asked
      BY <1>b, <3>3, <3>4
    <3>6. AgentsKnown'
      BY <1>a, <3>2, <3>3, <3>5 DEF AgentsKnown
    <3> QED BY <1>a, <3>2, <3>6 DEF Known, LoopsKnown
  <2> QED BY <2>2, <2>3
<1> QED BY <1>1, <1>2

\* It lists what is there at first, and subscribes when it is through.
LEMMA KnownAtFirst ==
  ASSUME DefShape, DefShape', Sources, Known, J!ListDefinitions
  PROVE  Known'
<1>a. /\ refresh' \in Seq(Entry) /\ Len(refresh') \in Nat /\ kind' = kind /\ cache' = cache /\ registry' = registry
      /\ edited'.missed = {} /\ Listed
  BY Listing DEF DefShape, Editing, J!ListDefinitions, J!files, J!source
<1>b. user[Worker].pc = "list" /\ user'[Worker].pc = "reading"
  BY DEF DefShape, Users, J!User, J!At, J!Goto, J!ListDefinitions
<1>c. Early /\ ~Early' /\ Reading' /\ ~Watching'
  BY <1>b DEF Early, Reading, Watching
<1>1. ASSUME kind = "loop" PROVE LoopsKnown'
  <2>1. ASSUME NEW d \in Definition, Unqueued(d)' PROVE registry'[d] = Target(d)'
    <3>1. d \notin J!Defined
      BY <1>1, <1>a, <2>1 DEF Listed, Unqueued
    <3>2. Target(d)' = J!Fallback(d)
      BY <1>a, <3>1 DEF Target, J!Defined, J!Present, J!Fallback
    <3>3. registry[d] = J!Fallback(d)
      BY <1>1, <1>c DEF Known, LoopsKnown
    <3> QED BY <1>a, <3>2, <3>3
  <2> QED BY <1>c, <2>1 DEF LoopsKnown
<1>2. ASSUME kind = "agent" PROVE AgentsKnown'
  <2>1. Len(refresh') = 1 /\ ~refresh'[1].asked /\ refresh' # <<>>
    BY <1>2, <1>a DEF Listed
  <2> QED BY <1>c, <2>1 DEF AgentsKnown
<1>3. (kind # "loop" => LoopsKnown') /\ (kind # "agent" => AgentsKnown')
  BY <1>a DEF LoopsKnown, AgentsKnown
<1> QED BY <1>1, <1>2, <1>3, <1>c DEF Known

LEMMA KnownWatch ==
  ASSUME DefShape, Known, J!Watch
  PROVE  Known'
<1>a. /\ refresh = <<>> /\ refresh' = refresh /\ kind' = kind /\ cache' = cache /\ registry' = registry /\ edited' = edited
  BY DEF J!Watch, J!files, J!source, J!consumer
<1>b. user[Worker].pc = "reading" /\ user'[Worker].pc = "watching"
  BY DEF DefShape, Users, J!User, J!At, J!Goto, J!Watch
<1>c. Reading /\ ~Early' /\ ~Reading' /\ Watching'
  BY <1>b DEF Early, Reading, Watching
<1>d. \A d : Target(d)' = Target(d) /\ Unqueued(d)' = Unqueued(d)
  BY <1>a DEF Target, Unqueued, J!Present, J!Fallback
<1>e. Len(refresh') = 0
  BY <1>a
<1>1. LoopsKnown'
  BY <1>a, <1>c, <1>d, <1>e DEF Known, LoopsKnown
<1>2. AgentsKnown'
  BY <1>a, <1>c, <1>d, <1>e DEF Known, AgentsKnown
<1> QED BY <1>1, <1>2, <1>c DEF Known

\* Whatever step is made, the worker knows the definitions.
LEMMA KnownNext == DefShape /\ DefShape' /\ Sources /\ Known /\ J!Next => Known'
<1> SUFFICES ASSUME DefShape, DefShape', Sources, Known, J!Next PROVE Known'
  OBVIOUS
<1> USE DEF J!files, J!source, J!consumer
<1>a. user \in Users /\ Worker \in J!User /\ Worker \notin Reader /\ Reader \subseteq J!User /\ edited \in Editing
  BY DEF DefShape, Sources, J!User
<1>b. edited.clean \in {"no", "scanned", "yes"}
  BY <1>a DEF Editing
<1>1. ASSUME kind' = kind, cache' = cache, refresh' = refresh, registry' = registry, edited'.missed = edited.missed,
             user'[Worker].pc = user[Worker].pc
      PROVE  Known'
  BY <1>1, KnownStays
<1>2. ASSUME NEW u \in J!User, NEW pc \in {"scanning", "list", "look"}, J!Goto(u, pc),
             user[u].pc \in {"scan", "scanning", "join"}, u = Worker => pc # "look"
      PROVE  user'[Worker].pc = user[Worker].pc \/ (Early /\ Early')
  BY <1>2, <1>a, Went DEF Early
<1>3. ASSUME NEW d \in Definition, NEW part, NEW text, J!Edit(d, part, text) PROVE Known'
  BY <1>1, <1>3, <1>a DEF Editing, J!Edit
<1>4. ASSUME NEW d \in Definition, NEW p \in J!Part, J!Deliver(d, p) PROVE Known'
  <2>1. CASE UNCHANGED <<cache, refresh, edited>>
    BY <1>1, <1>4, <2>1 DEF J!Deliver
  <2>2. CASE cache' = [cache EXCEPT ![d] = J!Nothing] /\ J!Emit({d}, edited.clean)
    <3>1. Emitted({d}, edited.clean)
      BY <1>b, <2>2, Emission
    <3>2. \A e \in Definition \ {d} : cache'[e] = cache[e]
      BY <2>2 DEF DefShape
    <3>3. kind' = kind /\ registry' = registry /\ user' = user
      BY <1>4 DEF J!Deliver
    <3> QED BY <3>1, <3>2, <3>3, KnownEmits
  <2> QED BY <1>4, <2>1, <2>2 DEF J!Deliver
<1>5. ASSUME NEW l \in loads, J!FinishLoad(l) PROVE Known'
  <2>1. CASE UNCHANGED <<cache, refresh, edited>>
    BY <1>1, <1>5, <2>1 DEF J!FinishLoad
  <2>2. CASE /\ cache' = [cache EXCEPT ![l.def] = J!Loaded(l.main, disk[l.def].side)]
             /\ J!Emit({l.def}, edited.clean)
    <3>1. l.def \in Definition
      BY DEF DefShape, Loading
    <3>2. Emitted({l.def}, edited.clean)
      BY <1>b, <2>2, <3>1, Emission
    <3>3. \A e \in Definition \ {l.def} : cache'[e] = cache[e]
      BY <2>2 DEF DefShape
    <3>4. kind' = kind /\ registry' = registry /\ user' = user
      BY <1>5 DEF J!FinishLoad
    <3> QED BY <3>1, <3>2, <3>3, <3>4, KnownEmits
  <2> QED BY <1>5, <2>1, <2>2 DEF J!FinishLoad
<1>6. ASSUME NEW u \in J!User, J!BeginScan(u) PROVE Known'
  <2>1. edited'.missed = edited.missed
    BY <1>6, <1>a DEF Editing, J!BeginScan
  <2>2. user' = user \/ (user[u].pc = "scan" /\ J!Goto(u, "scanning"))
    BY <1>6 DEF J!At, J!Goto, J!BeginScan
  <2>3. user'[Worker].pc = user[Worker].pc \/ (Early /\ Early')
    BY <1>2, <2>2
  <2> QED BY <1>6, <2>1, <2>3, KnownStays DEF J!BeginScan
<1>7. ASSUME NEW u \in J!User, J!EndScan(u) PROVE Known'
  <2> DEFINE ds == J!Changed(scan[u].next)
             clean == IF edited.clean = "scanned" THEN "yes" ELSE edited.clean
  <2>1. J!Emit(ds, clean) /\ cache' = scan[u].next /\ kind' = kind /\ registry' = registry
    BY <1>7 DEF J!EndScan
  <2>2. ds \in SUBSET Definition /\ clean \in {"no", "scanned", "yes"}
    BY <1>b DEF J!Changed
  <2>3. \A d \in Definition \ ds : cache'[d] = cache[d]
    <3>1. \A d \in Definition : cache[d] \in Content /\ cache'[d] \in Content
      BY DEF DefShape
    <3> QED BY <2>1, <3>1 DEF Content, J!Changed, J!Present
  <2>4. user'[Worker].pc = user[Worker].pc \/ (Early /\ Early')
    <3>1. user' = user \/ (user[u].pc = "scanning" /\ J!Goto(u, IF u = Worker THEN "list" ELSE "look"))
      BY <1>7 DEF J!At, J!Begun, J!EndScan
    <3> QED BY <1>2, <3>1
  <2> HIDE DEF ds, clean
  <2>5. Emitted(ds, clean)
    BY <2>1, <2>2, Emission
  <2> QED BY <2>1, <2>2, <2>3, <2>4, <2>5, KnownEmits
<1>8. ASSUME NEW u \in J!User, J!Start(u) PROVE Known'
  <2>1. user[u].pc = "idle" /\ \A v \in J!User : v # u => user'[v] = user[v]
    BY <1>8, <1>a DEF Users, J!At, J!Goto, J!Start
  <2>2. u = Worker => user'[u].pc \in {"wait", "scan", "join", "list"}
    BY <1>8, <1>a DEF Users, J!Goto, J!Start
  <2>3. user'[Worker].pc = user[Worker].pc \/ (Early /\ Early')
    BY <1>a, <2>1, <2>2 DEF Early
  <2> QED BY <1>8, <2>3, KnownStays DEF J!Start
<1>9. ASSUME NEW u \in J!User, J!Joined(u) PROVE Known'
  <2>1. user'[Worker].pc = user[Worker].pc \/ (Early /\ Early')
    BY <1>2, <1>9 DEF J!At, J!Begun, J!Joined
  <2> QED BY <1>9, <2>1, KnownStays DEF J!Joined
<1>10. CASE J!Ready
  <2>1. user'[Worker].pc = user[Worker].pc \/ (Early /\ Early')
    BY <1>10, <1>a DEF Users, Early, J!At, J!Ready
  <2> QED BY <1>10, <2>1, KnownStays DEF J!Ready
<1>11. ASSUME NEW r \in Reader, NEW d \in Definition, J!Look(r, d) PROVE Known'
  <2>1. user'[Worker] = user[Worker]
    BY <1>11, <1>a DEF Users, J!Look
  <2> QED BY <1>1, <1>11, <2>1 DEF J!Look
<1>12. ASSUME NEW r \in Reader, J!Stop(r) PROVE Known'
  <2>1. user'[Worker] = user[Worker]
    BY <1>12, <1>a DEF Users, J!Goto, J!Stop
  <2> QED BY <1>1, <1>12, <2>1 DEF J!Stop
<1>13. ASSUME UNCHANGED <<kind, cache, refresh, registry, edited, user>> PROVE Known'
  BY <1>1, <1>13
<1> QED BY <1>3, <1>4, <1>5, <1>6, <1>7, <1>8, <1>9, <1>10, <1>11, <1>12, <1>13,
           KnownLoop, KnownList, KnownReconcile, KnownAtFirst, KnownWatch DEF J!Next, J!LoadMain, J!ScanMain, J!ScanSide

\* What an edit does, and what leaves the files and the marks of a scan alone.
LEMMA EditOrNot ==
  ASSUME DefShape, Sources, J!Next
  PROVE  \/ edited'.made > 0 /\ edited'.clean = "no"
         \/ /\ disk' = disk /\ edited'.made = edited.made
            /\ \/ \E u \in J!User : J!BeginScan(u) \/ J!EndScan(u)
               \/ edited'.clean = edited.clean /\ \A u \in J!User : scan'[u].on = scan[u].on
<1> DEFINE Edited == edited'.made > 0 /\ edited'.clean = "no"
           Same == disk' = disk /\ edited'.made = edited.made
           MarksKept == edited'.clean = edited.clean /\ \A u \in J!User : scan'[u].on = scan[u].on
<1> USE DEF J!files, J!source, J!consumer
<1>a. edited \in Editing
  BY DEF DefShape
<1>1. ASSUME NEW d \in Definition, NEW part, NEW text, J!Edit(d, part, text) PROVE Edited
  <2>1. edited' = [edited EXCEPT !.made = edited.made + 1, !.clean = "no"] /\ edited.made \in Nat
    BY <1>1, <1>a DEF Editing, J!Edit
  <2>2. edited'.made = edited.made + 1 /\ edited'.clean = "no"
    BY <1>a, <2>1 DEF Editing
  <2> QED BY <2>1, <2>2
<1>b. ASSUME NEW ds \in SUBSET Definition, NEW clean \in {"no", "scanned", "yes"}, J!Emit(ds, clean)
      PROVE  edited'.made = edited.made /\ edited'.clean = clean
  BY <1>b, Emission DEF Emitted
<1>c. edited.clean \in {"no", "scanned", "yes"}
  BY <1>a DEF Editing
<1>2. ASSUME NEW d \in Definition, NEW p \in J!Part, J!Deliver(d, p) PROVE Same /\ MarksKept
  <2>1. J!Emit({d}, edited.clean) \/ edited' = edited
    BY <1>2 DEF J!Deliver
  <2>2. disk' = disk /\ scan' = scan
    BY <1>2 DEF J!Deliver
  <2> QED BY <1>b, <1>c, <2>1, <2>2
<1>3. ASSUME NEW l \in loads, J!FinishLoad(l) PROVE Same /\ MarksKept
  <2>1. J!Emit({l.def}, edited.clean) \/ edited' = edited
    BY <1>3 DEF J!FinishLoad
  <2>2. disk' = disk /\ scan' = scan /\ l.def \in Definition
    BY <1>3 DEF DefShape, Loading, J!FinishLoad
  <2> QED BY <1>b, <1>c, <2>1, <2>2
<1>4. ASSUME NEW u \in J!User, J!BeginScan(u) PROVE Same
  BY <1>4, <1>a DEF Editing, J!BeginScan
<1>5. ASSUME NEW u \in J!User, J!EndScan(u) PROVE Same
  <2>1. disk' = disk /\ J!Changed(scan[u].next) \in SUBSET Definition
    BY <1>5 DEF J!EndScan, J!Changed
  <2> QED BY <1>5, <1>b, <1>c, <2>1 DEF J!EndScan
<1>6. ASSUME NEW u \in J!User, NEW d, J!ScanMain(u, d) \/ J!ScanSide(u) PROVE Same /\ MarksKept
  <2>1. scan[u] \in Scanning /\ scan \in [J!User -> Scanning \cup {J!NoScan}]
    BY <1>6, ScanIsOn DEF DefShape, J!ScanMain, J!ScanSide
  <2>2. \A v \in J!User : scan'[v].on = scan[v].on
    BY <1>6, <2>1 DEF Scanning, J!ScanMain, J!ScanSide
  <2> QED BY <1>6, <2>2 DEF J!ScanMain, J!ScanSide
<1>7. CASE J!ListDefinitions
  BY <1>7, <1>a DEF Editing, J!ListDefinitions
<1>8. ASSUME UNCHANGED <<disk, edited, scan>> PROVE Same /\ MarksKept
  BY <1>8
<1> HIDE DEF Edited, Same, MarksKept
<1>9. Edited \/ (Same /\ ((\E u \in J!User : J!BeginScan(u) \/ J!EndScan(u)) \/ MarksKept))
  <2>1. J!ListDefinitions => Same /\ MarksKept
    BY <1>7 DEF Same, MarksKept, J!ListDefinitions
  <2> QED BY <1>1, <1>2, <1>3, <1>4, <1>5, <1>6, <1>8, <2>1
             DEF J!Next, J!RefreshFileLoop, J!ListAgents, J!ReconcileAgentDefinitions, J!LoadMain, J!Start, J!Joined,
                 J!Ready, J!Watch, J!Look, J!Stop
<1> QED BY <1>9 DEF Edited, Same, MarksKept

\* Where no file is edited, what was read of them stays what they say: of reports, ...
LEMMA ReportsTrue ==
  ASSUME DefShape, Sources, Truthful, J!Next, disk' = disk
  PROVE  Truthful'
<1> USE DEF J!files, J!source, J!consumer
<1>1. ASSUME watcher'.changed \subseteq watcher.changed \cup J!AllFiles,
             \A l \in loads' : l \in loads \/ l.main \in {"unread", disk[l.def].main}
      PROVE  Truthful'
  <2>1. \A f \in J!AllFiles : disk[f[1]][f[2]] # "none"
    BY DEF J!AllFiles, J!Files
  <2> QED BY <1>1, <2>1 DEF Truthful
<1>2. ASSUME NEW d \in Definition, NEW part, NEW text, J!Edit(d, part, text), part \in J!Part PROVE FALSE
  BY <1>2 DEF DefShape, J!Part, J!Edit
<1>3. ASSUME NEW d \in Definition, NEW p \in J!Part, J!Deliver(d, p) PROVE Truthful'
  <2>1. watcher'.changed \subseteq watcher.changed
    BY <1>3 DEF DefShape, Watchers, J!Deliver
  <2> QED BY <1>1, <1>3, <2>1 DEF J!Deliver
<1>4. ASSUME NEW l \in loads, J!LoadMain(l) PROVE Truthful'
  <2>1. l \in Loading
    BY DEF DefShape
  <2>2. [l EXCEPT !.main = disk[l.def].main].main = disk[l.def].main /\ [l EXCEPT !.main = disk[l.def].main].def = l.def
    BY <2>1 DEF Loading
  <2> QED BY <1>1, <1>4, <2>2 DEF J!LoadMain
<1>5. ASSUME NEW l \in loads, J!FinishLoad(l) PROVE Truthful'
  BY <1>1, <1>5 DEF J!FinishLoad
<1>6. ASSUME NEW u \in J!User, J!Start(u) PROVE Truthful'
  BY <1>1, <1>6 DEF J!Open, J!Start
<1>7. CASE J!Ready
  <2>1. watcher'.changed = watcher.changed
    BY <1>7 DEF DefShape, Watchers, J!Ready
  <2> QED BY <1>1, <1>7, <2>1 DEF J!Ready
<1>8. ASSUME NEW r \in Reader, J!Stop(r) PROVE Truthful'
  <2>1. watcher'.changed = {}
    BY <1>8 DEF DefShape, Watchers, J!Stop
  <2> QED BY <1>1, <1>8, <2>1 DEF J!Stop
<1>9. ASSUME UNCHANGED <<watcher, loads>> PROVE Truthful'
  BY <1>1, <1>9
<1> QED BY <1>2, <1>3, <1>4, <1>5, <1>6, <1>7, <1>8, <1>9
        DEF J!Next, J!Part, J!RefreshFileLoop, J!ListAgents, J!ReconcileAgentDefinitions, J!BeginScan, J!ScanSide, J!EndScan,
            J!Joined, J!ScanMain, J!ListDefinitions, J!Watch, J!Look

\* ... of scans, ...
LEMMA ScansTrue ==
  ASSUME DefShape, Sources, J!Next, disk' = disk, NEW u \in J!User, scan[u].on => ScanTrue(u), scan'[u].on
  PROVE  ScanTrue(u)'
<1> USE DEF J!files, J!source, J!consumer
<1>a. scan \in [J!User -> Scanning \cup {J!NoScan}] /\ Worker \notin Definition
  BY DEF DefShape, Sources
<1>1. ASSUME scan'[u] = scan[u] PROVE ScanTrue(u)'
  BY <1>1 DEF ScanTrue, OnDisk, J!Loaded, J!Nothing
<1>2. ASSUME NEW v \in J!User, J!BeginScan(v) PROVE ScanTrue(u)'
  <2>1. CASE v # u
    BY <1>1, <1>2, <1>a, <2>1 DEF J!BeginScan
  <2>2. CASE v = u
    <3> DEFINE begun == [on |-> TRUE, todo |-> {d \in Definition : J!Files(d) # {}}, def |-> Worker,
                         main |-> "none", next |-> [d \in Definition |-> J!Nothing]]
    <3>1. scan'[u] = begun
      BY <1>2, <1>a, <2>2 DEF J!BeginScan
    <3>2. ASSUME NEW d \in Definition, J!Files(d) = {} PROVE OnDisk(d) = J!Nothing
      BY <3>2 DEF OnDisk, J!Files, J!Part, J!Loaded
    <3>3. \A d \in Definition : OnDisk(d)' = OnDisk(d)
      BY DEF OnDisk, J!Loaded, J!Nothing
    <3> QED BY <3>1, <3>2, <3>3 DEF ScanTrue
  <2> QED BY <2>1, <2>2
<1>3. ASSUME NEW v \in J!User, NEW d \in Definition, J!ScanMain(v, d) PROVE ScanTrue(u)'
  <2>1. CASE v # u
    BY <1>1, <1>3, <1>a, <2>1 DEF J!ScanMain
  <2>2. CASE v = u
    <3>1. scan[u] \in Scanning
      BY <1>3, <2>2, ScanIsOn DEF J!ScanMain
    <3>2. /\ scan'[u].def = d /\ scan'[u].main = disk[d].main
          /\ scan'[u].todo = scan[u].todo /\ scan'[u].next = scan[u].next
      BY <1>3, <1>a, <2>2, <3>1 DEF Scanning, J!ScanMain
    <3>3. d \in scan[u].todo /\ ScanTrue(u)
      BY <1>3, <2>2 DEF J!ScanMain
    <3>4. \A e \in Definition : OnDisk(e)' = OnDisk(e)
      BY DEF OnDisk, J!Loaded, J!Nothing
    <3> QED BY <3>2, <3>3, <3>4 DEF ScanTrue
  <2> QED BY <2>1, <2>2
<1>4. ASSUME NEW v \in J!User, J!ScanSide(v) PROVE ScanTrue(u)'
  <2>1. CASE v # u
    BY <1>1, <1>4, <1>a, <2>1 DEF J!ScanSide
  <2>2. CASE v = u
    <3> DEFINE d == scan[u].def
    <3>1. scan[u] \in Scanning /\ scan[u].on
      BY <1>4, <2>2, ScanIsOn DEF J!ScanSide
    <3>2. d \in Definition /\ ScanTrue(u)
      BY <1>4, <2>2, <3>1 DEF Scanning, J!ScanSide
    <3>3. /\ scan'[u].def = Worker /\ scan'[u].todo = scan[u].todo \ {d}
          /\ scan'[u].next = [scan[u].next EXCEPT ![d] = J!Loaded(scan[u].main, disk[d].side)]
      BY <1>4, <1>a, <2>2, <3>1 DEF Scanning, J!ScanSide
    <3>4. scan'[u].next[d] = OnDisk(d) /\ \A e \in Definition \ {d} : scan'[u].next[e] = scan[u].next[e]
      BY <1>a, <3>1, <3>2, <3>3 DEF Scanning, ScanTrue, OnDisk
    <3>5. \A e \in Definition : OnDisk(e)' = OnDisk(e)
      BY DEF OnDisk, J!Loaded, J!Nothing
    <3>6. \A e \in Definition \ scan'[u].todo : scan'[u].next[e] = OnDisk(e)'
      BY <3>2, <3>3, <3>4, <3>5 DEF ScanTrue
    <3> QED BY <3>3, <3>6 DEF ScanTrue
  <2> QED BY <2>1, <2>2
<1>5. ASSUME NEW v \in J!User, J!EndScan(v) PROVE ScanTrue(u)'
  <2>1. v # u
    BY <1>5, <1>a DEF J!NoScan, J!EndScan
  <2> QED BY <1>1, <1>5, <1>a, <2>1 DEF J!EndScan
<1>6. ASSUME scan' = scan PROVE ScanTrue(u)'
  BY <1>1, <1>6
<1> QED BY <1>2, <1>3, <1>4, <1>5, <1>6
        DEF J!Next, J!Edit, J!RefreshFileLoop, J!ListAgents, J!ReconcileAgentDefinitions, J!Deliver,
            J!LoadMain, J!FinishLoad,
            J!Start, J!Joined, J!Ready, J!ListDefinitions, J!Watch, J!Look, J!Stop

\* ... and of what the source holds, which a scan brings in step.
LEMMA ScanEndsInStep ==
  ASSUME NEW u \in J!User, J!EndScan(u), ScanTrue(u)
  PROVE  InStep'
<1>1. disk' = disk /\ cache' = scan[u].next /\ scan[u].todo = {}
  BY DEF J!EndScan, J!files
<1>2. \A d \in Definition : cache'[d] = OnDisk(d)
  BY <1>1 DEF ScanTrue
<1>3. \A d \in Definition : OnDisk(d)' = OnDisk(d)
  BY <1>1 DEF OnDisk, J!Loaded, J!Nothing
<1> QED BY <1>2, <1>3 DEF InStep

LEMMA StaysInStep ==
  ASSUME DefShape, Sources, Truthful, InStep, J!Next, disk' = disk, \A u \in J!User : J!EndScan(u) => ScanTrue(u)
  PROVE  InStep'
<1> USE DEF J!files, J!source, J!consumer
<1>a. \A d \in Definition : OnDisk(d)' = OnDisk(d)
  BY DEF OnDisk, J!Loaded, J!Nothing
<1>1. ASSUME cache' = cache PROVE InStep'
  BY <1>1, <1>a DEF InStep
<1>2. ASSUME NEW d \in Definition, NEW p \in J!Part, J!Deliver(d, p) PROVE InStep'
  <2>1. disk[d][p] # "none"
    BY <1>2 DEF Truthful, J!Deliver
  <2> QED BY <1>1, <1>2, <2>1 DEF J!Deliver
<1>3. ASSUME NEW l \in loads, J!FinishLoad(l) PROVE InStep'
  <2>1. l.main = disk[l.def].main /\ l.def \in Definition
    BY <1>3 DEF Truthful, DefShape, Loading, J!FinishLoad
  <2>2. cache' = cache \/ cache' = [cache EXCEPT ![l.def] = OnDisk(l.def)]
    BY <1>3, <2>1 DEF OnDisk, J!FinishLoad
  <2>3. cache' = cache
    BY <2>1, <2>2 DEF DefShape, InStep
  <2> QED BY <1>1, <2>3
<1>4. ASSUME NEW u \in J!User, J!EndScan(u) PROVE InStep'
  BY <1>4, ScanEndsInStep
<1> QED BY <1>1, <1>2, <1>3, <1>4
        DEF J!Next, J!Edit, J!RefreshFileLoop, J!ListAgents, J!ReconcileAgentDefinitions, J!LoadMain,
            J!BeginScan, J!ScanMain,
            J!ScanSide, J!Start, J!Joined, J!Ready, J!ListDefinitions, J!Watch, J!Look, J!Stop

\* A scan that began alone, with no report outstanding, and under which nothing was edited.
LEMMA CleanNext == DefShape /\ Sources /\ CleanScans /\ J!Next => CleanScans'
<1> SUFFICES ASSUME DefShape, Sources, CleanScans, J!Next PROVE CleanScans'
  OBVIOUS
<1>a. scan \in [J!User -> Scanning \cup {J!NoScan}] /\ edited \in Editing
  BY DEF DefShape
<1>b. edited.clean \in {"no", "scanned", "yes"}
  BY <1>a DEF Editing
<1>1. CASE edited'.clean = "no"
  BY <1>1 DEF CleanScans
<1>2. ASSUME disk' = disk, edited'.clean = edited.clean, \A u \in J!User : scan'[u].on = scan[u].on PROVE CleanScans'
  <2>1. CASE edited.clean = "scanned"
    <3>1. PICK u \in J!User : scan[u].on /\ ScanTrue(u) /\ ScansAlone(u)
      BY <2>1 DEF CleanScans
    <3>2. ScanTrue(u)'
      BY <1>2, <3>1, ScansTrue
    <3>3. ScansAlone(u)'
      BY <1>2, <3>1 DEF ScansAlone
    <3>4. Truthful'
      BY <1>2, <2>1, ReportsTrue DEF CleanScans
    <3> QED BY <1>2, <2>1, <3>1, <3>2, <3>3, <3>4 DEF CleanScans
  <2>2. CASE edited.clean = "yes"
    <3>1. \A u \in J!User : ~J!EndScan(u)
      BY <2>2 DEF CleanScans, J!EndScan
    <3>2. InStep'
      BY <1>2, <2>2, <3>1, StaysInStep DEF CleanScans
    <3>3. Truthful'
      BY <1>2, <2>2, ReportsTrue DEF CleanScans
    <3> QED BY <1>2, <2>2, <3>2, <3>3 DEF CleanScans
  <2> QED BY <1>1, <1>2, <1>b, <2>1, <2>2
<1>3. ASSUME NEW u \in J!User, J!BeginScan(u), edited'.clean # "no" PROVE CleanScans'
  <2>1. edited'.clean = "scanned" /\ watcher.changed = {} /\ loads = {} /\ \A v \in J!User : ~scan[v].on
    BY <1>3, <1>a DEF Editing, J!BeginScan
  <2>2. disk' = disk /\ scan'[u].on /\ \A v \in J!User \ {u} : scan'[v] = scan[v]
    BY <1>3, <1>a DEF J!BeginScan, J!files
  <2>3. ScanTrue(u)'
    BY <2>1, <2>2, ScansTrue
  <2>4. ScansAlone(u)'
    BY <2>1, <2>2 DEF ScansAlone
  <2>5. Truthful'
    BY <1>3, <2>1 DEF Truthful, J!BeginScan
  <2> QED BY <2>1, <2>2, <2>3, <2>4, <2>5 DEF CleanScans
<1>4. ASSUME NEW u \in J!User, J!EndScan(u), edited'.clean # "no" PROVE CleanScans'
  <2>1. edited'.clean = IF edited.clean = "scanned" THEN "yes" ELSE edited.clean
    BY <1>4, <1>a DEF Editing, J!Emit, J!EndScan
  <2>2. edited.clean = "scanned" /\ edited'.clean = "yes"
    BY <1>4, <1>b, <2>1 DEF CleanScans, J!EndScan
  <2>3. ScanTrue(u) /\ ScansAlone(u)
    BY <1>4, <2>2 DEF CleanScans, ScansAlone, J!EndScan
  <2>4. InStep'
    BY <1>4, <2>3, ScanEndsInStep
  <2>5. disk' = disk /\ \A v \in J!User : ~scan'[v].on
    BY <1>4, <1>a, <2>3 DEF ScansAlone, J!EndScan, J!NoScan, J!files
  <2>6. Truthful'
    BY <2>2, <2>5, ReportsTrue DEF CleanScans
  <2> QED BY <2>2, <2>4, <2>5, <2>6 DEF CleanScans
<1> QED BY <1>1, <1>2, <1>3, <1>4, EditOrNot

\* Who is past the scan at the start of a source that it started finds what the files say.
LEMMA UneditedNext == DefShape /\ Sources /\ Staged /\ Unedited /\ J!Next => Unedited'
<1> SUFFICES ASSUME DefShape, Sources, Staged, Unedited, J!Next, edited'.made = 0 PROVE Unedited'
  BY DEF Unedited
<1> USE DEF J!files, J!source, J!consumer
<1>a. user \in Users /\ Worker \in J!User /\ Worker \notin Reader /\ Reader \subseteq J!User
  BY DEF DefShape, Sources, J!User
<1>b. disk' = disk /\ edited.made = 0
  BY EditOrNot
<1>c. Truthful /\ \A u \in J!User : scan[u].on => ScanTrue(u)
  BY <1>b DEF Unedited
<1>1. Truthful' /\ \A u \in J!User : scan'[u].on => ScanTrue(u)'
  BY <1>b, <1>c, ReportsTrue, ScansTrue
<1>2. InStep => InStep'
  BY <1>b, <1>c, StaysInStep DEF J!EndScan
<1> DEFINE Truly == /\ \A u \in J!User : user'[u].pc \in Past /\ ~user'[u].joined => InStep'
                    /\ \A r \in Reader : user'[r].told = "missed" => user'[r].joined
<1>3. ASSUME \A u \in J!User : /\ user'[u].pc \in Past /\ ~user'[u].joined => InStep' \/ (user[u].pc \in Past /\ ~user[u].joined)
                               /\ user'[u].told = "missed" /\ ~user'[u].joined => user[u].told = "missed" /\ ~user[u].joined
      PROVE  Truly
  BY <1>3, <1>2, <1>a, <1>b DEF Unedited
<1>4. ASSUME NEW u \in J!User, NEW pc, J!Goto(u, pc), pc \in Past /\ ~user[u].joined => InStep' \/ user[u].pc \in Past
      PROVE  Truly
  BY <1>3, <1>4, <1>a, Went
<1>5. ASSUME J!ReconcileAgentDefinitions PROVE Truly
  <2>1. user' = user \/ (user[Worker].pc = "reading" /\ J!Goto(Worker, "done"))
    BY <1>5 DEF J!At, J!ReconcileAgentDefinitions
  <2> QED BY <1>3, <1>4, <1>a, <2>1 DEF Past
<1>6. ASSUME NEW u \in J!User, J!BeginScan(u) PROVE Truly
  <2>1. user' = user \/ J!Goto(u, "scanning")
    BY <1>6 DEF J!Goto, J!BeginScan
  <2> QED BY <1>3, <1>4, <2>1 DEF Past
<1>7. ASSUME NEW u \in J!User, J!EndScan(u) PROVE Truly
  <2>1. InStep'
    BY <1>7, <1>c, ScanEndsInStep DEF J!EndScan
  <2>2. user' = user \/ \E pc : J!Goto(u, pc)
    BY <1>7 DEF J!Begun, J!EndScan
  <2> QED BY <1>3, <1>4, <2>1, <2>2
<1>8. ASSUME NEW u \in J!User, J!Start(u) PROVE Truly
  <2>1. CASE watching
    <3> DEFINE pc == IF kind = "agent" /\ J!Starting THEN "join" ELSE IF u = Worker THEN "list" ELSE "look"
    <3>1. user' = [user EXCEPT ![u] = [pc |-> pc, joined |-> TRUE, told |-> "none"]]
      BY <1>8, <2>1 DEF J!Start
    <3>2. user'[u].joined /\ \A v \in J!User : v # u => user'[v] = user[v]
      BY <1>a, <3>1 DEF Users
    <3> QED BY <1>3, <3>2
  <2>2. CASE ~watching
    <3>1. \E pc \in {"scan", "wait"} : J!Goto(u, pc)
      BY <1>8, <2>2 DEF J!Start
    <3> QED BY <1>4, <3>1 DEF Past
  <2> QED BY <2>1, <2>2
<1>9. ASSUME NEW u \in J!User, J!Joined(u) PROVE Truly
  <2>1. user[u].joined /\ \E pc : J!Goto(u, pc)
    BY <1>9 DEF Staged, J!At, J!Begun, J!Joined
  <2> QED BY <1>4, <2>1
<1>10. ASSUME J!Ready PROVE Truly
  <2>1. \A u \in J!User : /\ user'[u].joined = user[u].joined /\ user'[u].told = user[u].told
                          /\ user'[u].pc \in Past => user[u].pc \in Past
    BY <1>10, <1>a DEF Users, Past, J!At, J!Ready
  <2> QED BY <1>3, <2>1
<1>11. ASSUME J!ListDefinitions \/ J!Watch PROVE Truly
  <2>1. user[Worker].pc \in Past /\ \E pc : J!Goto(Worker, pc)
    BY <1>11 DEF Past, J!At, J!ListDefinitions, J!Watch
  <2> QED BY <1>4, <1>a, <2>1
<1>12. ASSUME NEW r \in Reader, NEW d \in Definition, J!Look(r, d) PROVE Truly
  <2>1. /\ user[r].pc = "look" /\ cache' = cache /\ user'[r].joined = user[r].joined
        /\ user'[r].told = "missed" => ~J!Present(cache[d]) /\ J!Present(OnDisk(d))
        /\ \A v \in J!User : v # r => user'[v] = user[v]
    BY <1>12, <1>a DEF Users, OnDisk, J!At, J!Look
  <2>2. ~user[r].joined => InStep
    BY <1>a, <1>b, <2>1 DEF Unedited, Past
  <2>3. user'[r].told = "missed" => user[r].joined
    BY <2>1, <2>2 DEF InStep
  <2>4. user[r].pc \in Past
    BY <2>1 DEF Past
  <2> QED BY <1>3, <2>1, <2>3, <2>4
<1>13. ASSUME NEW r \in Reader, J!Stop(r) PROVE Truly
  <2>1. user[r].pc \in Past /\ J!Goto(r, "done")
    BY <1>13 DEF Past, J!At, J!Stop
  <2> QED BY <1>4, <1>a, <2>1
<1>14. ASSUME user' = user PROVE Truly
  BY <1>3, <1>14
<1> HIDE DEF Truly
<1>15. Truly
  BY <1>5, <1>6, <1>7, <1>8, <1>9, <1>10, <1>11, <1>12, <1>13, <1>14
     DEF J!Next, J!Edit, J!RefreshFileLoop, J!ListAgents, J!Deliver, J!LoadMain, J!FinishLoad, J!ScanSide, J!ScanMain
<1> QED BY <1>1, <1>15 DEF Truly, Unedited

LEMMA DefStarts == J!Init /\ Sources => DefInv
<1> SUFFICES ASSUME J!Init, Sources PROVE DefInv
  OBVIOUS
<1>a. Worker \in J!User /\ \A u \in J!User : user[u] = [pc |-> "idle", joined |-> FALSE, told |-> "none"]
  BY DEF J!User, J!Init
<1>b. Early /\ ~Reading /\ ~Watching
  BY <1>a DEF Early, Reading, Watching
<1>1. DefShape
  <2>1. /\ disk \in [Definition -> [main : Text, side : Text]] /\ watcher \in Watchers /\ loads \subseteq Loading
        /\ cache \in [Definition -> Content] /\ edited \in Editing
    BY DEF Text, Watchers, Content, Editing, J!Nothing, J!Init
  <2>2. scan \in [J!User -> Scanning \cup {J!NoScan}] /\ user \in Users
    BY DEF Users, Stages, J!Init
  <2>3. registry \in [Definition -> [main : Text, side : Text]] /\ refresh \in Seq(Entry)
    BY DEF Text, J!Nothing, J!Fallback, J!Init
  <2> QED BY <2>1, <2>2, <2>3 DEF DefShape, J!Init
<1>2. Staged
  BY <1>a DEF Staged
<1>3. Known
  BY <1>b DEF Known, LoopsKnown, AgentsKnown, J!Init
<1>4. CleanScans
  BY DEF CleanScans, J!Init
<1>5. Unedited
  BY <1>a DEF Unedited, Truthful, Past, J!User, J!NoScan, J!Init
<1>6. Waiting
  BY <1>a DEF Waiting, Using
<1> QED BY <1>1, <1>2, <1>3, <1>4, <1>5, <1>6 DEF DefInv

LEMMA DefNext == DefInv /\ Sources /\ [J!Next]_J!vars => DefInv'
<1>1. DefInv /\ Sources /\ J!Next => DefInv'
  BY ShapeNext, StagedNext, KnownNext, CleanNext, UneditedNext, WaitingNext DEF DefInv
<1>2. DefInv /\ UNCHANGED J!vars => DefInv'
  <2> SUFFICES ASSUME DefInv, UNCHANGED J!vars PROVE DefInv'
    OBVIOUS
  <2>1. /\ kind' = kind /\ disk' = disk /\ watcher' = watcher /\ watching' = watching /\ cache' = cache /\ loads' = loads
        /\ scan' = scan /\ user' = user /\ registry' = registry /\ refresh' = refresh /\ edited' = edited
    BY DEF J!vars, J!files, J!source, J!consumer
  <2>2. DefShape' /\ Staged' /\ Waiting'
    BY <2>1 DEF DefInv, DefShape, Staged, Waiting, Using
  <2>3. Known'
    BY <2>1, KnownStays DEF DefInv
  <2>4. /\ \A d \in Definition : OnDisk(d)' = OnDisk(d)
        /\ Truthful' = Truthful
    BY <2>1 DEF OnDisk, Truthful, J!Loaded, J!Nothing
  <2>5. InStep' = InStep /\ \A u \in J!User : ScanTrue(u)' = ScanTrue(u) /\ ScansAlone(u)' = ScansAlone(u)
    BY <2>1, <2>4 DEF InStep, ScanTrue, ScansAlone
  <2>6. CleanScans' /\ Unedited'
    BY <2>1, <2>4, <2>5 DEF DefInv, CleanScans, Unedited
  <2> QED BY <2>2, <2>3, <2>6 DEF DefInv
<1> QED BY <1>1, <1>2

\* However loads, scans, changes and requests overlap (Definitions), the worker comes to know the
\* definitions it was told of, and a source what the files say.
THEOREM DefinitionsLearned == Sources => (J!Spec => []J!DefinitionsKnown)
<1>1. DefInv => J!DefinitionsKnown
  <2> SUFFICES ASSUME DefInv PROVE J!DefinitionsKnown
    OBVIOUS
  <2>1. ASSUME J!Subscribed, refresh = <<>>, NEW d \in Definition \ edited.missed
        PROVE  registry[d] = IF J!Present(cache[d]) THEN cache[d] ELSE J!Fallback(d)
    <3>1. Watching /\ kind \in {"loop", "agent"}
      BY <2>1 DEF DefInv, DefShape, Watching, J!Subscribed, J!At
    <3>2. Unqueued(d)
      BY <2>1 DEF Unqueued
    <3> QED BY <2>1, <3>1, <3>2 DEF DefInv, Known, LoopsKnown, AgentsKnown, Target
  <2>2. edited.clean = "yes" => \A d \in Definition : cache[d] = J!Loaded(disk[d].main, disk[d].side)
    BY DEF DefInv, CleanScans, InStep, OnDisk
  <2>3. edited.made = 0 => \A r \in Reader : user[r].told = "missed" => user[r].joined
    BY DEF DefInv, Unedited
  <2>4. (\E u \in J!User : J!At(u, "wait")) /\ ~watcher.open => \E r \in Reader : user[r].joined
    BY DEF DefInv, Waiting, J!At
  <2> QED BY <2>1, <2>2, <2>3, <2>4 DEF J!DefinitionsKnown
<1>2. SUFFICES ASSUME Sources PROVE J!Spec => []J!DefinitionsKnown
  OBVIOUS
<1> QED BY <1>1, <1>2, DefStarts, DefNext, PTL DEF J!Spec
=============================================================================
