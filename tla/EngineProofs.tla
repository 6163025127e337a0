----------------------------- MODULE EngineProofs -----------------------------
(***************************************************************************)
(* Types and safety of Engine, for any number of tasks, providers,         *)
(* engines, runs and requests, through edits, manual starts, crashes and   *)
(* restarts.                                                               *)
(*                                                                         *)
(* Engine's variables keep to the values the program can hold: the first   *)
(* part is about the operators the actions are built from, the second has  *)
(* one lemma per group of actions; TypeInv is the strengthening of TypeOK  *)
(* that is inductive.  Then: a task has one run at a time in an engine, a  *)
(* session is only ever continued on the provider that issued it, and the  *)
(* concurrency counters are exact, so that a task that runs alone runs     *)
(* alone.                                                                  *)
(***************************************************************************)
EXTENDS Engine, SequenceTheorems, WellFoundedInduction, FiniteSetTheorems, TLAPS

\* A function on an initial segment of the naturals is a sequence.
LEMMA FunctionIsSeq ==
  ASSUME NEW S, NEW n \in Nat, NEW f \in [1..n -> S]
  PROVE  f \in Seq(S)
OBVIOUS

\* AppendRun leaves a history of run records.
LEMMA HistPutType ==
  ASSUME NEW h \in Seq(RunRecord), NEW rec \in RunRecord
  PROVE  HistPut(h, rec) \in Seq(RunRecord)
<1>1. [i \in 1..Len(h) |-> IF h[i].run = rec.run THEN rec ELSE h[i]] \in [1..Len(h) -> RunRecord]
  OBVIOUS
<1> QED BY <1>1, FunctionIsSeq DEF HistPut

\* So does reconciling it at a daemon's start,
LEMMA ReconcileType ==
  ASSUME NEW h \in Seq(RunRecord)
  PROVE  Reconcile(h) \in Seq(RunRecord)
<1>1. \A x \in RunRecord : [x EXCEPT !.status = "failed"] \in RunRecord
  BY DEF RunRecord, Statuses
<1>2. [i \in 1..Len(h) |->
        IF h[i].status = "running" THEN [h[i] EXCEPT !.status = "failed"] ELSE h[i]]
        \in [1..Len(h) -> RunRecord]
  BY <1>1
<1> QED BY <1>2, FunctionIsSeq DEF Reconcile

\* and pruning it to its limit.
LEMMA PruneType ==
  ASSUME NEW h \in Seq(RunRecord)
  PROVE  Prune(h) \in Seq(RunRecord)
<1>1. CASE Len(h) <= HistoryLimit  BY <1>1 DEF Prune
<1>2. CASE Len(h) > HistoryLimit
  <2> DEFINE m == Len(h) - HistoryLimit + 1
  <2>1. m \in Int /\ \A i \in m .. Len(h) : h[i] \in RunRecord
    BY <1>2, BoundsAssumption
  <2>2. SubSeq(h, m, Len(h)) \in Seq(RunRecord)
    BY <2>1, SubSeqProperties
  <2> QED  BY <2>2, <1>2, BoundsAssumption DEF Prune
<1> QED BY <1>1, <1>2, BoundsAssumption

\* A set of naturals has a least element: the nearest usable hop of a fallback
\* chain is well defined.
LEMMA SmallestElement ==
  ASSUME NEW T, T \subseteq Nat, T # {}
  PROVE  \E x \in T : \A y \in T : x <= y
<1> DEFINE R == OpToRel(<, Nat)
<1>1. IsWellFoundedOn(R, Nat)
  BY NatLessThanWellFounded
<1>2. PICK x \in T : \A y \in T : ~(<<y, x>> \in R)
  <2> HIDE DEF R
  <2> QED BY <1>1, WFMin
<1>3. \A y \in T : ~(y < x)
  BY <1>2 DEF OpToRel
<1> QED  BY <1>3

\* A task is only ever given a configured provider, or none if it is a script.
LEMMA ResolveType ==
  ASSUME NEW p \in Providers \cup {NoProvider}, NEW closed, NEW usable
  PROVE  Resolve(p, closed, usable) \in Providers \cup {NoProvider}
<1> DEFINE open == {i \in 1..Len(Fallback[p]) : Fallback[p][i] \in usable \ closed}
<1>1. CASE p = NoProvider \/ p \notin closed \/ open = {}
  BY <1>1 DEF Resolve
<1>2. CASE p # NoProvider /\ p \in closed /\ open # {}
  <2>1. Fallback[p] \in Seq(Providers)
    BY <1>2, ProvidersAssumption
  <2>2. open \subseteq Nat
    BY <2>1
  <2>3. PICK i \in open : \A j \in open : i <= j
    BY <2>2, <1>2, SmallestElement
  <2>4. Fallback[p][CHOOSE k \in open : \A j \in open : k <= j] \in Providers
    <3> DEFINE least == CHOOSE k \in open : \A j \in open : k <= j
    <3>1. open \subseteq 1..Len(Fallback[p])
      OBVIOUS
    <3> HIDE DEF open
    <3>2. least \in open
      BY <2>3, Zenon
    <3> HIDE DEF least
    <3>3. Fallback[p][least] \in Providers
      BY <2>1, <3>1, <3>2
    <3> QED  BY <3>3 DEF least
  <2> QED  BY <2>4, <1>2 DEF Resolve
<1> QED  BY <1>1, <1>2
-----------------------------------------------------------------------------
\* Taking an element out of a queue of tasks leaves a queue of tasks.
LEMMA RemoveAtType ==
  ASSUME NEW q \in Seq(Tasks), NEW k \in 1..Len(q)
  PROVE  RemoveAt(q, k) \in Seq(Tasks) /\ Len(RemoveAt(q, k)) = Len(q) - 1
<1> DEFINE s1 == SubSeq(q, 1, k - 1)
           s2 == SubSeq(q, k + 1, Len(q))
<1>1. s1 \in Seq(Tasks) /\ Len(s1) = k - 1
  <2>1. \A i \in 1..(k - 1) : q[i] \in Tasks  OBVIOUS
  <2> QED  BY <2>1, SubSeqProperties
<1>2. s2 \in Seq(Tasks) /\ Len(s2) = Len(q) - k
  <2>1. \A i \in (k + 1)..Len(q) : q[i] \in Tasks  OBVIOUS
  <2> QED  BY <2>1, SubSeqProperties
<1>3. RemoveAt(q, k) = s1 \o s2
  BY DEF RemoveAt
<1> HIDE DEF s1, s2
<1>4. s1 \o s2 \in Seq(Tasks) /\ Len(s1 \o s2) = Len(s1) + Len(s2)
  BY <1>1, <1>2, ConcatProperties
<1> QED  BY <1>1, <1>2, <1>3, <1>4

\* So does taking a task out by its id, whether it is queued or not,
LEMMA WithoutType ==
  ASSUME NEW q \in Seq(Tasks), NEW t
  PROVE  /\ Without(q, t) \in Seq(Tasks)
         /\ t \in Range(q) => Len(Without(q, t)) = Len(q) - 1
<1>1. CASE \E i \in 1..Len(q) : q[i] = t
  BY <1>1, RemoveAtType DEF Without
<1>2. CASE ~ \E i \in 1..Len(q) : q[i] = t
  BY <1>2 DEF Without, Range
<1> QED  BY <1>1, <1>2

\* and so does putting it back at a place the queue has.
LEMMA InsertAtType ==
  ASSUME NEW q \in Seq(Tasks), NEW t \in Tasks, NEW i \in 1..(Len(q) + 1)
  PROVE  InsertAt(q, i, t) \in Seq(Tasks)
<1>1. SubSeq(q, 1, i - 1) \in Seq(Tasks)
  BY SubSeqProperties
<1>2. SubSeq(q, i, Len(q)) \in Seq(Tasks)
  BY SubSeqProperties
<1>3. <<t>> \in Seq(Tasks)
  OBVIOUS
<1> QED  BY <1>1, <1>2, <1>3 DEF InsertAt

\* What is queued is a task.
LEMMA QueuedType ==
  ASSUME NEW q \in Seq(Tasks)
  PROVE  Range(q) \subseteq Tasks
BY DEF Range

\* TypeOK is not inductive: a launch uses the waiting sessions the tick saw,
\* and a request the run it was made for.
TickWaits ==
  tick.pc \in {"locked", "launching"} => tick.waiting \in [Tasks -> PendingResume]

RequestRuns ==
  \A q \in request : q.kind \in {"retire", "unqueue", "record"} => q.run \in DOMAIN run

TypeInv == TypeOK /\ TickWaits /\ RequestRuns

\* A run that has not been started has the next id.
LEMMA LaunchType ==
  ASSUME TypeInv, NEW e \in Engines, NEW t \in Tasks, NEW d \in Definition,
         NEW p \in Providers \cup {NoProvider}, NEW waiting \in PendingResume,
         NEW manual \in BOOLEAN, Len(run) < MaxRuns,
         Launch(e, t, d, p, waiting, manual)
  PROVE  /\ RunsOK' /\ hist' \in Seq(RunRecord)
         /\ active' \in [Engines -> SUBSET Tasks]
         /\ slots' \in [Engines -> [parallel : Int, exclusive : Int]]
         /\ DOMAIN run \subseteq DOMAIN run'
<1> DEFINE r == Len(run) + 1
           start == [phase |-> "executing", engine |-> e, task |-> t, def |-> d,
                     provider |-> p, session |-> SessionFor(r, p, waiting),
                     resumed |-> ContinuesSession(p, waiting), manual |-> manual,
                     canceled |-> FALSE, status |-> "running"]
<1>1. r \in RunIds
  BY BoundsAssumption DEF TypeInv, TypeOK, RunsOK, RunIds
<1>2. SessionFor(r, p, waiting) \in Sessions
  BY <1>1 DEF SessionFor, Sessions, PendingResume
<1>3. start \in RunType
  <2>1. ContinuesSession(p, waiting) \in BOOLEAN
    BY DEF ContinuesSession
  <2> QED  BY <1>2, <2>1 DEF RunType, Phases, Statuses
<1>4. RunsOK' /\ DOMAIN run \subseteq DOMAIN run'
  <2>1. run \in Seq(RunType) /\ run' = Append(run, start)
    BY DEF TypeInv, TypeOK, RunsOK, Launch
  <2> HIDE DEF start
  <2> QED  BY <1>3, <2>1, BoundsAssumption DEF RunsOK
<1>5. hist' \in Seq(RunRecord)
  <2>1. [run |-> r, task |-> t, status |-> "running", session |-> start.session] \in RunRecord
    BY <1>1, <1>2 DEF RunRecord, Statuses
  <2> QED  BY <2>1, HistPutType DEF TypeInv, TypeOK, Launch
<1>6. /\ active' \in [Engines -> SUBSET Tasks]
      /\ slots' \in [Engines -> [parallel : Int, exclusive : Int]]
  BY DEF TypeInv, TypeOK, EnginesOK, Launch, CountSlot
<1> QED  BY <1>4, <1>5, <1>6

\* Every run has the fields of a run, and an id within the bound.
LEMMA RunElement ==
  ASSUME RunsOK, NEW r \in DOMAIN run
  PROVE  run[r] \in RunType /\ r \in RunIds
BY BoundsAssumption DEF RunsOK, RunIds

\* A run that moves on is still a run.
LEMMA RunMoves ==
  ASSUME NEW x \in RunType, NEW phase \in Phases, NEW status \in Statuses
  PROVE  /\ [x EXCEPT !.phase = phase] \in RunType
         /\ [x EXCEPT !.phase = phase, !.status = status] \in RunType
         /\ [x EXCEPT !.canceled = TRUE] \in RunType
BY DEF RunType

\* A step of one run changes no other, and starts none.
LEMMA RunChange ==
  ASSUME RunsOK, NEW r \in DOMAIN run, NEW x \in RunType, run' = [run EXCEPT ![r] = x]
  PROVE  RunsOK' /\ DOMAIN run' = DOMAIN run
BY ExceptSeq DEF RunsOK

\* The counters stay integers; that they stay exact is another matter.
LEMMA CountSlotType ==
  ASSUME EnginesOK, NEW e \in Engines, NEW d, NEW by \in Int, CountSlot(e, d, by)
  PROVE  slots' \in [Engines -> [parallel : Int, exclusive : Int]]
BY DEF EnginesOK, CountSlot

\* A request is counted, up to the bound.
LEMMA AskedType ==
  ASSUME OperatorOK, NEW kind, Asked(kind)
  PROVE  requests' \in 0..MaxRequests
BY BoundsAssumption DEF OperatorOK, Asked

\* Everything starts out typed.
LEMMA InitType == Init => TypeInv
<1> SUFFICES ASSUME Init PROVE TypeInv
  OBVIOUS
<1> USE DEF Init
<1>1. ConfigOK /\ StateOK /\ hist \in Seq(RunRecord)
  <2>1. ConfigOK /\ hist \in Seq(RunRecord)
    <3>1. queue \in Seq(Tasks) /\ def \in [Tasks -> Definition] /\ paused \in BOOLEAN
      BY TasksAssumption
    <3>2. hist \in Seq(RunRecord)
      BY EmptySeq
    <3> QED  BY <3>1, <3>2 DEF ConfigOK
  <2>2. NothingPending \in PendingResume
    BY DEF NothingPending, PendingResume, Sessions
  <2> QED  BY <2>1, <2>2 DEF StateOK
<1>2. EnginesOK /\ RunsOK /\ OperatorOK
  BY BoundsAssumption DEF EnginesOK, RunsOK, OperatorOK
<1>3. TickWaits /\ RequestRuns
  BY DEF TickWaits, RequestRuns, NoTick
<1> QED  BY <1>1, <1>2, <1>3 DEF TypeInv, TypeOK

\* The steps of time keep the types.
LEMMA TimeTypes ==
  ASSUME TypeInv
  PROVE  /\ \A t \in Tasks : TriggerComes(t) => TypeInv'
         /\ \A e \in Engines, p \in Providers : GateReopens(e, p) => TypeInv'
<1> USE DEF TypeInv, TypeOK, ConfigOK, RunsOK, OperatorOK, TickWaits, RequestRuns,
            disk, memory, operator, config, state
<1>1. ASSUME NEW t \in Tasks, TriggerComes(t)  PROVE TypeInv'
  BY <1>1 DEF TriggerComes, StateOK, EnginesOK
<1>2. ASSUME NEW e \in Engines, NEW p \in Providers, GateReopens(e, p)  PROVE TypeInv'
  BY <1>2 DEF GateReopens, StateOK, EnginesOK
<1> QED  BY <1>1, <1>2

\* The steps of a tick keep the types: a launch uses the waiting sessions that
\* TickLock put into the tick.
LEMMA TickTypes == TypeInv /\ Tick => TypeInv'
<1> SUFFICES ASSUME TypeInv, Tick  PROVE TypeInv'
  OBVIOUS
<1> USE DEF TypeInv, TypeOK
<1> DEFINE Frame == /\ ConfigOK' /\ StateOK' /\ (hist \in Seq(RunRecord))'
                    /\ EnginesOK' /\ RunsOK' /\ (now \subseteq NowType)' /\ OperatorOK'
                    /\ RequestRuns'
<1>f. UNCHANGED <<disk, stage, active, slots, limited, now, run, operator>> => Frame
  BY DEF disk, operator, config, state, ConfigOK, StateOK, EnginesOK, RunsOK, OperatorOK,
         RequestRuns
<1>n. NoTick.pc = "idle" /\ (tick.pc # "idle" => tick \in TickType)
  BY DEF NoTick, TickType
<1>1. CASE TickBegin
  <2>1. PICK usable \in Verdicts :
          tick' = IF paused \/ (Assigned(usable) = {} /\ NewCronTasks(queue, def) = {})
                  THEN NoTick
                  ELSE [NoTick EXCEPT
                          !.pc = "probing", !.began = Len(run),
                          !.queue = queue, !.def = def,
                          !.assigned = Assigned(usable),
                          !.target = [t \in Tasks |-> IF t \in Assigned(usable)
                                                      THEN Target(usable)[t]
                                                      ELSE NoProvider]]
    BY <1>1 DEF TickBegin
  <2> DEFINE given == [t \in Tasks |-> IF t \in Assigned(usable)
                                       THEN Target(usable)[t] ELSE NoProvider]
  <2>2. Assigned(usable) \subseteq Tasks
    BY QueuedType DEF ConfigOK, Queued, Assigned, DueTasks
  <2>3. given \in [Tasks -> Providers \cup {NoProvider}]
    <3>1. \A t \in Tasks : def[t].provider \in Providers \cup {NoProvider}
      BY DEF ConfigOK, Definition
    <3> QED  BY <3>1, ResolveType DEF Target
  <2>4. tick' \in TickType \cup {NoTick} /\ TickWaits'
    <3>1. CASE tick' = NoTick
      BY <3>1 DEF NoTick, TickWaits
    <3>2. CASE tick' = [NoTick EXCEPT !.pc = "probing", !.began = Len(run),
                                      !.queue = queue, !.def = def,
                                      !.assigned = Assigned(usable), !.target = given]
      <4>1. tick' = [pc |-> "probing", began |-> Len(run), queue |-> queue, def |-> def,
                     assigned |-> Assigned(usable), target |-> given,
                     starts |-> {}, waiting |-> <<>>]
        BY <3>2 DEF NoTick
      <4> HIDE DEF given
      <4>2. tick' \in TickType
        <5>1. Len(run) \in 0..MaxRuns
          BY BoundsAssumption DEF RunsOK
        <5> QED  BY <4>1, <5>1, <2>2, <2>3 DEF TickType, ConfigOK
      <4> QED  BY <4>1, <4>2 DEF TickWaits
    <3> QED  BY <2>1, <3>1, <3>2
  <2> QED  BY <1>1, <1>f, <2>4, SMTT(60) DEF TickBegin
<1>2. CASE TickAbandoned
  BY <1>2, <1>f, <1>n DEF TickAbandoned, TickWaits
<1>3. CASE TickLock
  <2>1. tick \in TickType
    BY <1>3, <1>n DEF TickLock
  <2>2. PICK starts :
          /\ starts \subseteq tick.assigned
          /\ \/ tick' = NoTick
             \/ tick' = [tick EXCEPT !.pc = "locked", !.assigned = {},
                                     !.starts = starts, !.waiting = pending]
    BY <1>3 DEF TickLock, Select
  <2>3. starts \subseteq Tasks /\ pending \in [Tasks -> PendingResume]
    BY <2>1, <2>2 DEF TickType, StateOK
  <2>4. tick' \in TickType \cup {NoTick} /\ TickWaits'
    <3>1. CASE tick' = NoTick
      BY <3>1 DEF NoTick, TickWaits
    <3>2. CASE tick' = [tick EXCEPT !.pc = "locked", !.assigned = {},
                                    !.starts = starts, !.waiting = pending]
      BY <3>2, <2>1, <2>3 DEF TickType, TickWaits
    <3> QED  BY <2>2, <3>1, <3>2
  <2> QED  BY <1>3, <1>f, <2>4 DEF TickLock
<1>4. CASE TickRecord
  <2> DEFINE S == tick.starts \cup NewCronTasks(tick.queue, tick.def)
  <2>1. tick \in TickType
    BY <1>4, <1>n DEF TickRecord
  <2>2. S \subseteq Tasks
    BY <2>1, QueuedType DEF NewCronTasks, TickType
  <2>3. RecordStart(S) /\ UNCHANGED <<completed, pending>>
    BY <1>4 DEF TickRecord
  <2>4. StateOK'
    <3> HIDE DEF S
    <3> QED  BY <2>2, <2>3 DEF StateOK, RecordStart
  <2>5. tick' \in TickType \cup {NoTick} /\ TickWaits'
    BY <1>4, <2>1 DEF TickRecord, TickType, NoTick, TickWaits
  <2> QED  BY <1>4, <2>4, <2>5
           DEF TickRecord, ConfigOK, EnginesOK, RunsOK, OperatorOK, RequestRuns, config, operator
<1>5. ASSUME NEW t \in Tasks, TickLaunch(t)  PROVE TypeInv'
  <2>1. /\ tick \in TickType /\ tick.pc = "launching"
        /\ tick.waiting \in [Tasks -> PendingResume]
    BY <1>5, <1>n DEF TickLaunch, NextStart, TickWaits
  <2>2. /\ tick.def[t] \in Definition /\ tick.target[t] \in Providers \cup {NoProvider}
        /\ tick.waiting[t] \in PendingResume
    BY <2>1 DEF TickType
  <2>3. /\ RunsOK' /\ (hist \in Seq(RunRecord))' /\ DOMAIN run \subseteq DOMAIN run'
        /\ active' \in [Engines -> SUBSET Tasks]
        /\ slots' \in [Engines -> [parallel : Int, exclusive : Int]]
    BY <1>5, <2>2, LaunchType, EnginesAssumption DEF TickLaunch
  <2>4. tick' \in TickType \cup {NoTick} /\ TickWaits'
    BY <1>5, <2>1 DEF TickLaunch, Launched, TickType, NoTick, TickWaits
  <2> QED  BY <1>5, <2>3, <2>4
           DEF TickLaunch, ConfigOK, StateOK, EnginesOK, OperatorOK, RequestRuns,
               config, state, operator
<1>6. ASSUME NEW t \in Tasks, TickLaunchFails(t)  PROVE TypeInv'
  <2>1. OperatorOK' /\ RequestRuns' /\ RunsOK'
    <3>1. requests' \in 0..MaxRequests
      BY <1>6, AskedType DEF TickLaunchFails, OperatorOK
    <3> QED  BY <1>6, <3>1 DEF TickLaunchFails, OperatorOK, RequestRuns, RunsOK
  <2>2. TickWaits' /\ EnginesOK'
    BY <1>6, <1>n DEF TickLaunchFails, TickWaits, EnginesOK
  <2> QED  BY <1>6, <2>1, <2>2
           DEF TickLaunchFails, disk, config, state, ConfigOK, StateOK
<1> QED  BY <1>1, <1>2, <1>3, <1>4, <1>5, <1>6 DEF Tick

\* So do those of a manual start,
LEMMA ManualTypes == TypeInv /\ Manual => TypeInv'
<1> SUFFICES ASSUME TypeInv, Manual  PROVE TypeInv'
  OBVIOUS
<1> USE DEF TypeInv, TypeOK
<1>1. ASSUME NEW e \in Engines, NEW t \in Tasks, NowBegin(e, t)  PROVE TypeInv'
  <2>1. EnginesOK' /\ requests' \in 0..MaxRequests
    BY <1>1, AskedType DEF NowBegin, EnginesOK
  <2>2. PICK usable \in Verdicts :
          now' = now \cup
            {[engine |-> e, task |-> t, def |-> def[t], waiting |-> pending[t],
              provider |-> Resolve(def[t].provider, limited'[e], usable)]}
    BY <1>1 DEF NowBegin
  <2>3. Resolve(def[t].provider, limited'[e], usable) \in Providers \cup {NoProvider}
    <3>1. def[t].provider \in Providers \cup {NoProvider}
      BY DEF ConfigOK, Definition
    <3> QED  BY <3>1, ResolveType
  <2>4. (now \subseteq NowType)'
    BY <2>2, <2>3 DEF NowType, ConfigOK, StateOK
  <2> QED  BY <1>1, <2>1, <2>4
           DEF NowBegin, disk, config, state, ConfigOK, StateOK, RunsOK, OperatorOK,
               TickWaits, RequestRuns
<1>2. ASSUME NEW n \in now, NowRefused(n)  PROVE TypeInv'
  BY <1>2 DEF NowRefused, disk, operator, config, state, ConfigOK, StateOK, EnginesOK, RunsOK,
              OperatorOK, TickWaits, RequestRuns
<1>3. ASSUME NEW n \in now, NowStart(n)  PROVE TypeInv'
  <2>1. n \in NowType
    OBVIOUS
  <2>2. /\ RunsOK' /\ (hist \in Seq(RunRecord))' /\ DOMAIN run \subseteq DOMAIN run'
        /\ active' \in [Engines -> SUBSET Tasks]
        /\ slots' \in [Engines -> [parallel : Int, exclusive : Int]]
    <3>1. /\ n.engine \in Engines /\ n.task \in Tasks /\ n.def \in Definition
          /\ n.waiting \in PendingResume /\ n.provider \in Providers \cup {NoProvider}
      BY <2>1 DEF NowType
    <3> QED  BY <1>3, <3>1, LaunchType DEF NowStart
  <2>3. StateOK'
    BY <1>3, <2>1 DEF NowStart, RecordStart, StateOK, NowType
  <2> QED  BY <1>3, <2>2, <2>3
           DEF NowStart, config, operator, ConfigOK, EnginesOK, OperatorOK, TickWaits,
               RequestRuns
<1> QED  BY <1>1, <1>2, <1>3 DEF Manual

\* the end of a process,
LEMMA ExitTypes ==
  ASSUME TypeInv, NEW r \in DOMAIN run,
         NEW outcome \in {"success", "failed", "rate_limited"}, RunExits(r, outcome)
  PROVE  TypeInv'
<1> USE DEF TypeInv, TypeOK
<1>1. RunsOK' /\ DOMAIN run' = DOMAIN run
  <2> DEFINE x == [run[r] EXCEPT !.phase = "exited", !.status = outcome]
  <2>1. x \in RunType
    BY RunElement, RunMoves DEF Phases, Statuses
  <2>2. run' = [run EXCEPT ![r] = x]
    BY DEF RunExits
  <2> HIDE DEF x
  <2> QED  BY <2>1, <2>2, RunChange
<1>2. OperatorOK'
  <2>1. limits' \in 0..MaxLimits
    BY BoundsAssumption DEF RunExits, OperatorOK
  <2> QED  BY <2>1 DEF RunExits, OperatorOK
<1> QED  BY <1>1, <1>2
         DEF RunExits, disk, config, state, ConfigOK, StateOK, EnginesOK, TickWaits, RequestRuns

\* the steps of finish,
LEMMA FinishTypes ==
  ASSUME TypeInv, NEW r \in DOMAIN run, Finish(r)
  PROVE  TypeInv'
<1> USE DEF TypeInv, TypeOK
<1>1. run[r] \in RunType /\ run[r].engine \in Engines /\ run[r].task \in Tasks
  BY RunElement DEF RunType
<1>p. ASSUME NEW phase \in Phases, NEW status \in Statuses,
             \/ run' = [run EXCEPT ![r].phase = phase]
             \/ run' = [run EXCEPT ![r].phase = phase, ![r].status = status]
      PROVE  RunsOK' /\ DOMAIN run' = DOMAIN run
  <2>1. PICK x \in RunType : run' = [run EXCEPT ![r] = x]
    BY <1>p, <1>1, RunMoves
  <2> QED  BY <2>1, RunChange
<1>h. ASSUME RunsOK', DOMAIN run' = DOMAIN run, UNCHANGED <<tick, now, operator>>
      PROVE  RunsOK' /\ OperatorOK' /\ TickWaits' /\ RequestRuns'
             /\ (tick \in TickType \cup {NoTick})' /\ (now \subseteq NowType)'
  BY <1>h DEF operator, OperatorOK, TickWaits, RequestRuns
<1>2. CASE FinishLock(r)
  <2>1. FinishStatus(r) \in Statuses
    BY <1>1 DEF RunType, Statuses, FinishStatus
  <2>2. RunsOK' /\ DOMAIN run' = DOMAIN run
    BY <1>2, <1>p, <2>1 DEF FinishLock, Phases
  <2>3. EnginesOK'
    <3>1. slots' \in [Engines -> [parallel : Int, exclusive : Int]]
      BY <1>1, <1>2, CountSlotType DEF FinishLock
    <3> QED  BY <1>2, <3>1 DEF FinishLock, EnginesOK
  <2> QED  BY <1>2, <1>h, <2>2, <2>3
           DEF FinishLock, disk, config, state, ConfigOK, StateOK
<1>3. CASE FinishLimited(r)
  <2>1. RunsOK' /\ DOMAIN run' = DOMAIN run
    BY <1>3, <1>p DEF FinishLimited, Phases, Statuses
  <2>2. [session |-> run[r].session, provider |-> run[r].provider] \in PendingResume
    BY <1>1 DEF RunType, PendingResume
  <2>3. StateOK' /\ EnginesOK'
    BY <1>1, <1>3, <2>2 DEF FinishLimited, StateOK, EnginesOK, RunType
  <2> QED  BY <1>3, <1>h, <2>1, <2>3 DEF FinishLimited, config, ConfigOK
<1>4. CASE FinishRetire(r)
  <2>1. RunsOK' /\ DOMAIN run' = DOMAIN run
    BY <1>4, <1>p DEF FinishRetire, Phases, Statuses
  <2>2. NothingPending \in PendingResume
    BY DEF NothingPending, PendingResume, Sessions
  <2>3. StateOK'
    BY <1>1, <1>4, <2>2 DEF FinishRetire, Retire, StateOK
  <2> QED  BY <1>4, <1>h, <2>1, <2>3 DEF FinishRetire, config, ConfigOK, EnginesOK
<1>5. CASE FinishUnqueue(r)
  <2>1. RunsOK' /\ DOMAIN run' = DOMAIN run
    BY <1>5, <1>p DEF FinishUnqueue, Phases, Statuses
  <2>2. ConfigOK'
    BY <1>5, WithoutType DEF FinishUnqueue, ConfigOK
  <2> QED  BY <1>5, <1>h, <2>1, <2>2 DEF FinishUnqueue, state, StateOK, EnginesOK
<1>6. CASE FinishDeactivate(r)
  <2>1. RunsOK' /\ DOMAIN run' = DOMAIN run
    BY <1>6, <1>p DEF FinishDeactivate, Phases, Statuses
  <2> QED  BY <1>6, <1>h, <2>1
           DEF FinishDeactivate, disk, config, state, ConfigOK, StateOK, EnginesOK
<1>7. CASE FinishRecord(r)
  <2>1. RunsOK' /\ DOMAIN run' = DOMAIN run
    BY <1>7, <1>p DEF FinishRecord, Phases, Statuses
  <2>2. Record(r) \in RunRecord
    BY <1>1, RunElement DEF Record, RunRecord, RunType
  <2>3. (hist \in Seq(RunRecord))'
    BY <1>7, <2>2, HistPutType, PruneType DEF FinishRecord
  <2> QED  BY <1>7, <1>h, <2>1, <2>3
           DEF FinishRecord, config, state, ConfigOK, StateOK, EnginesOK
<1> QED  BY <1>2, <1>3, <1>4, <1>5, <1>6, <1>7 DEF Finish

\* A recorded run's entry is a run record.
LEMMA EntryType ==
  ASSUME hist \in Seq(RunRecord), NEW r, InHistory(r)
  PROVE  Entry(r) \in RunRecord
BY DEF InHistory, Entry

\* the requests about runs,
LEMMA RunRequestTypes == TypeInv /\ RunRequest => TypeInv'
<1> SUFFICES ASSUME TypeInv, RunRequest  PROVE TypeInv'
  OBVIOUS
<1> USE DEF TypeInv, TypeOK, TickWaits
<1>a. \A kind : Asked(kind) => requests' \in 0..MaxRequests
  BY AskedType
<1>c. ASSUME NEW r \in DOMAIN run, run' = [run EXCEPT ![r].canceled = TRUE]
      PROVE  RunsOK' /\ DOMAIN run' = DOMAIN run
  <2>1. run[r] \in RunType
    BY RunElement
  <2>2. [run[r] EXCEPT !.canceled = TRUE] \in RunType
    BY <2>1 DEF RunType
  <2>3. PICK x \in RunType : run' = [run EXCEPT ![r] = x]
    BY <1>c, <2>2
  <2> QED  BY <2>3, RunChange
<1>s. \A r \in DOMAIN run : run[r].session \in Sessions /\ r \in RunIds /\ run[r].task \in Tasks
  BY RunElement DEF RunType
<1>1. ASSUME NEW r \in DOMAIN run, CancelRun(r)  PROVE TypeInv'
  <2>1. RunsOK' /\ DOMAIN run' = DOMAIN run
    BY <1>1, <1>c DEF CancelRun
  <2> QED  BY <1>1, <1>a, <2>1
           DEF CancelRun, disk, config, state, ConfigOK, StateOK, EnginesOK, OperatorOK,
               RequestRuns
<1>2. ASSUME NEW r \in DOMAIN run, TakeOverRun(r)  PROVE TypeInv'
  <2>1. RunsOK' /\ DOMAIN run' = DOMAIN run
    BY <1>2, <1>c DEF TakeOverRun
  <2>2. OperatorOK' /\ RequestRuns'
    BY <1>2, <1>a, <1>s, <2>1 DEF TakeOverRun, OperatorOK, RequestRuns
  <2> QED  BY <1>2, <2>1, <2>2
           DEF TakeOverRun, disk, config, state, ConfigOK, StateOK, EnginesOK
<1> USE DEF disk, memory, config, state, ConfigOK, StateOK, EnginesOK, RunsOK, OperatorOK
<1>3. ASSUME NEW r \in DOMAIN run, TakeOverAnswered(r) \/ TakeOverTimesOut(r)  PROVE TypeInv'
  <2>1. takers' \subseteq RunIds /\ byHand' \subseteq RunIds /\ requests' \in 0..MaxRequests
    BY <1>3, <1>a, <1>s DEF TakeOverAnswered, TakeOverTimesOut, Sessions
  <2> QED  BY <1>3, <2>1 DEF TakeOverAnswered, TakeOverTimesOut, RequestRuns
<1>4. ASSUME NEW r \in DOMAIN run, ContinueFinished(r)  PROVE TypeInv'
  <2>1. Entry(r).session \in RunIds
    BY <1>4, EntryType DEF ContinueFinished, RunRecord, Sessions
  <2> QED  BY <1>4, <1>a, <2>1 DEF ContinueFinished, RequestRuns
<1>5. ASSUME NEW s \in Sessions, CloseTerminal(s)  PROVE TypeInv'
  BY <1>5 DEF CloseTerminal, RequestRuns
<1>6. ASSUME NEW r \in DOMAIN run, CancelResume(r)  PROVE TypeInv'
  <2>1. request' \subseteq [kind : {"retire", "unqueue", "record", "add", "forget"},
                            run : 0..MaxRuns, task : Tasks]
    <3>1. r \in 0..MaxRuns /\ run[r].task \in Tasks
      BY <1>s, BoundsAssumption DEF RunIds
    <3>2. request' = {[kind |-> "retire", run |-> r, task |-> run[r].task]}
      BY <1>6 DEF CancelResume
    <3> QED  BY <3>1, <3>2
  <2>2. RequestRuns'
    <3>1. request' = {[kind |-> "retire", run |-> r, task |-> run[r].task]} /\ run' = run
      BY <1>6 DEF CancelResume
    <3> QED  BY <3>1 DEF RequestRuns
  <2> QED  BY <1>6, <1>a, <2>1, <2>2 DEF CancelResume
<1>7. ASSUME NEW q \in request, CancelResumeRetire(q)  PROVE TypeInv'
  <2>1. /\ q \in [kind : {"retire", "unqueue", "record", "add", "forget"},
                  run : 0..MaxRuns, task : Tasks]
        /\ q.kind = "retire" /\ q.run \in DOMAIN run
    BY <1>7 DEF CancelResumeRetire, RequestRuns
  <2>2. NothingPending \in PendingResume
    BY DEF NothingPending, PendingResume, Sessions
  <2> DEFINE oneShot == OneShot(IF q.task \in Queued THEN def[q.task] ELSE run[q.run].def)
  <2>3. /\ Retire(q.task, oneShot)
        /\ request' = {[q EXCEPT !.kind = IF oneShot THEN "unqueue" ELSE "record"]}
    BY <1>7 DEF CancelResumeRetire
  <2> HIDE DEF oneShot
  <2>4. StateOK'
    BY <1>7, <2>1, <2>2, <2>3 DEF CancelResumeRetire, Retire
  <2>5. OperatorOK' /\ RequestRuns'
    BY <1>7, <2>1, <2>3 DEF CancelResumeRetire, RequestRuns
  <2> QED  BY <1>7, <2>4, <2>5 DEF CancelResumeRetire
<1>8. ASSUME NEW q \in request, CancelResumeUnqueue(q)  PROVE TypeInv'
  <2>1. /\ q \in [kind : {"retire", "unqueue", "record", "add", "forget"},
                  run : 0..MaxRuns, task : Tasks]
        /\ q.kind = "unqueue" /\ q.run \in DOMAIN run
    BY <1>8 DEF CancelResumeUnqueue, RequestRuns
  <2>2. queue' \in Seq(Tasks)
    BY <1>8, <2>1, WithoutType DEF CancelResumeUnqueue
  <2>3. OperatorOK' /\ RequestRuns'
    BY <1>8, <2>1 DEF CancelResumeUnqueue, RequestRuns
  <2> QED  BY <1>8, <2>2, <2>3 DEF CancelResumeUnqueue
<1>9. ASSUME NEW q \in request, CancelResumeRecord(q)  PROVE TypeInv'
  <2>1. q.kind = "record" /\ q.run \in DOMAIN run /\ q.task \in Tasks
    BY <1>9 DEF CancelResumeRecord, RequestRuns
  <2>2. [run |-> q.run, task |-> q.task, status |-> "canceled",
         session |-> run[q.run].session] \in RunRecord
    BY <2>1, <1>s DEF RunRecord, Statuses
  <2>3. (hist \in Seq(RunRecord))'
    BY <1>9, <2>2, HistPutType DEF CancelResumeRecord
  <2> QED  BY <1>9, <2>3 DEF CancelResumeRecord, RequestRuns
<1> QED  BY <1>1, <1>2, <1>3, <1>4, <1>5, <1>6, <1>7, <1>8, <1>9 DEF RunRequest

\* the requests about the queue,
LEMMA QueueRequestTypes == TypeInv /\ QueueRequest => TypeInv'
<1> SUFFICES ASSUME TypeInv, QueueRequest  PROVE TypeInv'
  OBVIOUS
<1> USE DEF TypeInv, TypeOK, TickWaits, RequestRuns, disk, memory, config, state,
            EnginesOK, RunsOK
<1>a. \A kind : Asked(kind) => requests' \in 0..MaxRequests
  BY AskedType
<1>q. Queued \subseteq Tasks
  BY QueuedType DEF ConfigOK, Queued
<1>t. ASSUME NEW t \in Tasks, NEW d, TriggerMoves(t, d)  PROVE (ripe \subseteq Tasks)'
  BY <1>t DEF TriggerMoves, StateOK
<1>1. ASSUME NEW t \in Tasks, AddTask(t)  PROVE TypeInv'
  <2>1. OperatorOK'
    BY <1>1, <1>a, BoundsAssumption DEF AddTask, OperatorOK
  <2> QED  BY <1>1, <2>1 DEF AddTask, ConfigOK, StateOK
<1>2. ASSUME NEW t \in Tasks, RemoveTask(t)  PROVE TypeInv'
  <2>1. OperatorOK'
    BY <1>2, <1>a, BoundsAssumption DEF RemoveTask, OperatorOK
  <2>2. ConfigOK'
    BY <1>2, WithoutType DEF RemoveTask, ConfigOK
  <2> QED  BY <1>2, <2>1, <2>2 DEF RemoveTask, StateOK
<1>3. ASSUME NEW q \in request, ForgetTask(q)  PROVE TypeInv'
  <2>1. NothingPending \in PendingResume
    BY DEF NothingPending, PendingResume, Sessions
  <2>2. StateOK' /\ OperatorOK'
    BY <1>3, <2>1 DEF ForgetTask, StateOK, OperatorOK
  <2> QED  BY <1>3, <2>2 DEF ForgetTask, ConfigOK
<1>4. ASSUME NEW q \in request, NEW d \in Definitions[q.task], AddTaskCommit(q, d)
      PROVE  TypeInv'
  <2>1. q.task \in Tasks /\ d \in Definition
    BY TasksAssumption DEF OperatorOK
  <2>2. (ripe \subseteq Tasks)'
    BY <1>4, <1>t, <2>1 DEF AddTaskCommit, StateOK
  <2>3. ConfigOK'
    <3>1. paused' = paused
          /\ \/ queue' = queue /\ def' = def
             \/ queue' = Append(queue, q.task) /\ def' = [def EXCEPT ![q.task] = d]
      BY <1>4 DEF AddTaskCommit
    <3>2. queue \in Seq(Tasks) /\ def \in [Tasks -> Definition] /\ paused \in BOOLEAN
      BY DEF ConfigOK
    <3>3. Append(queue, q.task) \in Seq(Tasks)
      BY <2>1, <3>2
    <3>4. [def EXCEPT ![q.task] = d] \in [Tasks -> Definition]
      BY <2>1, <3>2
    <3> QED  BY <3>1, <3>2, <3>3, <3>4 DEF ConfigOK
  <2> QED  BY <1>4, <2>2, <2>3 DEF AddTaskCommit, StateOK, OperatorOK
<1>5. ASSUME NEW t \in Tasks, NEW d \in Definitions[t], EditTask(t, d)  PROVE TypeInv'
  <2>1. d \in Definition
    BY TasksAssumption
  <2>2. (ripe \subseteq Tasks)'
    BY <1>5, <1>t DEF EditTask, StateOK
  <2>3. ConfigOK'
    <3>1. queue' = queue /\ paused' = paused /\ def' = [def EXCEPT ![t] = d]
      BY <1>5 DEF EditTask
    <3> QED  BY <2>1, <3>1 DEF ConfigOK
  <2>4. OperatorOK'
    BY <1>5, <1>a DEF EditTask, OperatorOK
  <2> QED  BY <1>5, <2>2, <2>3, <2>4 DEF EditTask, StateOK
<1>6. ASSUME NEW t \in Tasks, NEW to \in 1..Len(queue), Move(t, to)  PROVE TypeInv'
  <2>1. Without(queue, t) \in Seq(Tasks) /\ Len(Without(queue, t)) = Len(queue) - 1
    BY <1>6, WithoutType DEF Move, Queued, ConfigOK
  <2>2. to \in 1..(Len(Without(queue, t)) + 1)
    BY <2>1 DEF ConfigOK
  <2>3. queue' \in Seq(Tasks)
    BY <1>6, <2>1, <2>2, InsertAtType DEF Move
  <2> QED  BY <1>6, <1>a, <2>3 DEF Move, ConfigOK, StateOK, OperatorOK
<1>7. CASE SetPaused
  BY <1>7, <1>a DEF SetPaused, ConfigOK, StateOK, OperatorOK
<1> QED  BY <1>1, <1>2, <1>3, <1>4, <1>5, <1>6, <1>7 DEF QueueRequest

\* and the daemon's own end and restart.
LEMMA DaemonTypes == TypeInv /\ (Stop \/ Exit \/ Crash \/ Restart) => TypeInv'
<1> SUFFICES ASSUME TypeInv, Stop \/ Exit \/ Crash \/ Restart  PROVE TypeInv'
  OBVIOUS
<1> USE DEF TypeInv, TypeOK, disk, config, state, ConfigOK, StateOK, OperatorOK
<1>a. \A kind : Asked(kind) => requests' \in 0..MaxRequests
  BY AskedType
<1>g. ASSUME DaemonGone
      PROVE  /\ EnginesOK' /\ (tick \in TickType \cup {NoTick})' /\ (now \subseteq NowType)'
             /\ TickWaits' /\ RequestRuns' /\ request' = {} /\ takers' = {}
  <2> USE <1>g DEF DaemonGone
  <2>1. EnginesOK'
    BY EnginesAssumption DEF EnginesOK
  <2>2. TickWaits' /\ (tick \in TickType \cup {NoTick})'
    BY DEF TickWaits, NoTick
  <2>3. (now \subseteq NowType)' /\ RequestRuns'
    BY DEF RequestRuns
  <2> QED  BY <2>1, <2>2, <2>3
<1>1. CASE Stop
  BY <1>1, <1>a DEF Stop, EnginesOK, RunsOK, TickWaits, RequestRuns
<1>2. CASE Exit
  BY <1>2, <1>g DEF Exit, RunsOK
<1>3. CASE Crash
  <2>1. RunsOK'
    <3> DEFINE lost(x) == IF x.engine = Daemon /\ x.phase \in Unfinished
                          THEN [x EXCEPT !.phase = "lost"] ELSE x
    <3>1. \A x \in RunType : lost(x) \in RunType
      <4> SUFFICES ASSUME NEW x \in RunType PROVE [x EXCEPT !.phase = "lost"] \in RunType
        OBVIOUS
      <4>1. "lost" \in Phases
        BY DEF Phases
      <4> QED  BY <4>1 DEF RunType
    <3>2. run \in [1..Len(run) -> RunType] /\ Len(run) \in Nat /\ DOMAIN run = 1..Len(run)
      BY DEF RunsOK
    <3>3. run' = [r \in 1..Len(run) |-> lost(run[r])]
      BY <1>3, <3>2 DEF Crash
    <3> HIDE DEF lost
    <3>4. run' \in [1..Len(run) -> RunType]
      BY <3>1, <3>2, <3>3
    <3>5. run' \in Seq(RunType)
      BY <3>2, <3>4, FunctionIsSeq
    <3>6. Len(run') = Len(run)
      BY <3>2, <3>3, <3>5
    <3> QED  BY <3>5, <3>6 DEF RunsOK
  <2> QED  BY <1>3, <1>a, <1>g, <2>1 DEF Crash
<1>4. CASE Restart
  <2>1. (hist \in Seq(RunRecord))'
    BY <1>4, ReconcileType, PruneType DEF Restart
  <2> QED  BY <1>4, <2>1 DEF Restart, operator, EnginesOK, RunsOK, TickWaits, RequestRuns
<1> QED  BY <1>1, <1>2, <1>3, <1>4

\* TypeInv is inductive.
LEMMA TypeStep == TypeInv /\ [Next]_vars => TypeInv'
<1>1. TypeInv /\ UNCHANGED vars => TypeInv'
  BY DEF TypeInv, TypeOK, ConfigOK, StateOK, EnginesOK, RunsOK, OperatorOK, TickWaits,
         RequestRuns, vars, disk, memory, operator, config, state
<1>2. TypeInv /\ Next => TypeInv'
  BY TimeTypes, TickTypes, ManualTypes, ExitTypes, FinishTypes, RunRequestTypes,
     QueueRequestTypes, DaemonTypes DEF Next
<1> QED  BY <1>1, <1>2

\* Every variable keeps to the values the program can hold, whatever happens.
THEOREM TypeCorrect == Spec => []TypeOK
<1>1. TypeInv => TypeOK
  BY DEF TypeInv
<1> QED  BY InitType, TypeStep, <1>1, PTL DEF Spec

-----------------------------------------------------------------------------
\* The run a launch adds is the only new one, and is what it was launched as.
LEMMA LaunchAdds ==
  ASSUME TypeInv, NEW e, NEW t, NEW d, NEW p, NEW waiting, NEW manual \in BOOLEAN,
         Launch(e, t, d, p, waiting, manual)
  PROVE  LET r == Len(run) + 1
         IN /\ r \notin DOMAIN run /\ DOMAIN run' = DOMAIN run \cup {r}
            /\ run'[r].engine = e /\ run'[r].task = t /\ run'[r].def = d /\ run'[r].provider = p
            /\ run'[r].session = SessionFor(r, p, waiting)
            /\ run'[r].resumed = ContinuesSession(p, waiting)
            /\ (run'[r].manual <=> manual) /\ ~run'[r].canceled
            /\ run'[r].phase = "executing" /\ run'[r].status = "running"
            /\ \A s \in DOMAIN run : run'[s] = run[s]
<1> DEFINE r == Len(run) + 1
<1>1. run \in Seq(RunType) /\ Len(run) \in Nat /\ DOMAIN run = 1..Len(run)
  BY DEF TypeInv, TypeOK, RunsOK
<1>2. PICK start :
        /\ run' = Append(run, start) /\ start.engine = e /\ start.task = t /\ start.def = d
        /\ start.provider = p /\ start.session = SessionFor(r, p, waiting)
        /\ start.resumed = ContinuesSession(p, waiting)
        /\ (start.manual <=> manual) /\ ~start.canceled
        /\ start.phase = "executing" /\ start.status = "running"
  BY DEF Launch
<1>3. /\ DOMAIN run' = DOMAIN run \cup {r} /\ r \notin DOMAIN run
      /\ run'[r] = start /\ \A s \in DOMAIN run : run'[s] = run[s]
  BY <1>1, <1>2
<1> HIDE DEF r
<1>4. r = Len(run) + 1
  BY DEF r
<1> QED  BY <1>2, <1>3, <1>4

\* Who a run is, from its launch on.
SameRun(x, y) ==
  /\ y.engine = x.engine /\ y.task = x.task /\ y.def = x.def /\ y.provider = x.provider
  /\ y.session = x.session /\ y.resumed = x.resumed /\ y.manual = x.manual

\* A phase is left for good.
MovesOn(from, to) ==
  /\ to \in Holding => from \in Holding
  /\ to \in Occupying => from \in Occupying
  /\ to \in Unfinished => from \in Unfinished

\* What a step that starts no run leaves as it is in the runs there are: who a
\* run is does not change, and no run comes back to life.
SameRuns ==
  /\ DOMAIN run' = DOMAIN run
  /\ \A r \in DOMAIN run :
       SameRun(run[r], run'[r]) /\ MovesOn(run[r].phase, run'[r].phase)

\* A run that moves on, or is asked to stop, stays the run it is.
LEMMA OneRunMoves ==
  ASSUME TypeInv, NEW r \in DOMAIN run, NEW phase \in Phases, NEW status \in Statuses,
         \/ run' = [run EXCEPT ![r].phase = phase]
         \/ run' = [run EXCEPT ![r].phase = phase, ![r].status = status]
         \/ run' = [run EXCEPT ![r].canceled = TRUE],
         MovesOn(run[r].phase, run'[r].phase)
  PROVE  SameRuns
<1>1. DOMAIN run' = DOMAIN run
  OBVIOUS
<1>2. run[r] \in RunType
  BY RunElement DEF TypeInv, TypeOK
<1>3. \A s \in DOMAIN run : s # r => run'[s] = run[s]
  OBVIOUS
<1>4. SameRun(run[r], run'[r])
  BY <1>2 DEF RunType, SameRun
<1> QED  BY <1>1, <1>3, <1>4 DEF SameRuns, SameRun, MovesOn

\* Every step but a launch leaves the runs as they are in that sense.
LEMMA StepKeepsRuns ==
  ASSUME TypeInv, [Next]_vars
  PROVE  \/ SameRuns
         \/ \E t \in Tasks : TickLaunch(t)
         \/ \E n \in now : NowStart(n)
<1> USE DEF vars, disk, memory, operator, config, state
<1>u. ASSUME run' = run  PROVE SameRuns
  BY <1>u DEF SameRuns, SameRun, MovesOn
<1>1. ASSUME UNCHANGED vars  PROVE SameRuns
  BY <1>1, <1>u
<1>2. ASSUME NEW t \in Tasks, TriggerComes(t)  PROVE SameRuns
  BY <1>2, <1>u DEF TriggerComes
<1>3. ASSUME NEW e \in Engines, NEW p \in Providers, GateReopens(e, p)  PROVE SameRuns
  BY <1>3, <1>u, SMTT(60) DEF GateReopens
<1>4. ASSUME Tick, \A t \in Tasks : ~TickLaunch(t)  PROVE SameRuns
  BY <1>4, <1>u DEF Tick, TickBegin, TickAbandoned, TickLock, TickRecord, TickLaunchFails
<1>5. ASSUME NEW r \in DOMAIN run, Finish(r)  PROVE SameRuns
  <2>1. run[r] \in RunType /\ FinishStatus(r) \in Statuses
    BY RunElement DEF TypeInv, TypeOK, FinishStatus, RunType, Statuses
  <2>p. ASSUME NEW from, NEW to \in Phases, NEW status \in Statuses,
               run[r].phase = from, MovesOn(from, to),
               \/ run' = [run EXCEPT ![r].phase = to]
               \/ run' = [run EXCEPT ![r].phase = to, ![r].status = status]
        PROVE  SameRuns
    <3>1. run'[r].phase = to
      BY <2>1, <2>p DEF RunType
    <3> QED  BY <2>p, <3>1, OneRunMoves
  <2>m. /\ MovesOn("exited", "released") /\ MovesOn("released", "settled")
        /\ MovesOn("released", "retiring") /\ MovesOn("retiring", "settled")
        /\ MovesOn("settled", "inactive") /\ MovesOn("inactive", "done")
    BY DEF MovesOn, Holding, Occupying, Unfinished
  <2>s. "running" \in Statuses /\ \A p \in {"released", "retiring", "settled", "inactive", "done"} :
                                    p \in Phases
    BY DEF Statuses, Phases
  <2>2. CASE FinishLock(r)
    <3>1. /\ run[r].phase = "exited"
          /\ run' = [run EXCEPT ![r].phase = "released", ![r].status = FinishStatus(r)]
      BY <2>2 DEF FinishLock
    <3> QED  BY <2>1, <2>p, <2>m, <2>s, <3>1
  <2>3. CASE FinishLimited(r)
    BY <2>3, <2>p, <2>m, <2>s DEF FinishLimited
  <2>4. CASE FinishRetire(r)
    BY <2>4, <2>p, <2>m, <2>s DEF FinishRetire
  <2>5. CASE FinishUnqueue(r)
    BY <2>5, <2>p, <2>m, <2>s DEF FinishUnqueue
  <2>6. CASE FinishDeactivate(r)
    BY <2>6, <2>p, <2>m, <2>s DEF FinishDeactivate
  <2>7. CASE FinishRecord(r)
    BY <2>7, <2>p, <2>m, <2>s DEF FinishRecord
  <2> QED  BY <1>5, <2>2, <2>3, <2>4, <2>5, <2>6, <2>7 DEF Finish
<1>6. ASSUME NEW r \in DOMAIN run, NEW outcome \in {"success", "failed", "rate_limited"},
             RunExits(r, outcome)
      PROVE  SameRuns
  <2>1. /\ run[r].phase = "executing" /\ "exited" \in Phases /\ outcome \in Statuses
        /\ run' = [run EXCEPT ![r].phase = "exited", ![r].status = outcome]
    BY <1>6 DEF RunExits, Phases, Statuses
  <2>2. run'[r].phase = "exited"
    BY <2>1, RunElement DEF TypeInv, TypeOK, RunType
  <2>3. MovesOn(run[r].phase, run'[r].phase)
    BY <2>1, <2>2 DEF MovesOn, Holding, Occupying, Unfinished
  <2> QED  BY <2>1, <2>3, OneRunMoves
<1>7. ASSUME Manual, \A n \in now : ~NowStart(n)  PROVE SameRuns
  BY <1>7, <1>u DEF Manual, NowBegin, NowRefused
<1>8. ASSUME RunRequest  PROVE SameRuns
  <2>1. ASSUME NEW r \in DOMAIN run, CancelRun(r) \/ TakeOverRun(r)  PROVE SameRuns
    <3>1. run' = [run EXCEPT ![r].canceled = TRUE]
      BY <2>1 DEF CancelRun, TakeOverRun
    <3>2. run'[r].phase = run[r].phase
      BY <3>1, RunElement DEF TypeInv, TypeOK, RunType
    <3> QED  BY <3>1, <3>2, OneRunMoves DEF Phases, Statuses, MovesOn
  <2>2. CASE \E r \in DOMAIN run : CancelRun(r) \/ TakeOverRun(r)
    BY <2>1, <2>2
  <2>3. CASE ~ \E r \in DOMAIN run : CancelRun(r) \/ TakeOverRun(r)
    BY <1>8, <1>u, <2>3
       DEF RunRequest, TakeOverAnswered, TakeOverTimesOut, ContinueFinished, CancelResume,
           CloseTerminal, CancelResumeRetire, CancelResumeUnqueue, CancelResumeRecord
  <2> QED  BY <2>2, <2>3
<1>9. ASSUME QueueRequest  PROVE SameRuns
  BY <1>9, <1>u
     DEF QueueRequest, AddTask, AddTaskCommit, RemoveTask, ForgetTask, EditTask, SetPaused, Move
<1>10. ASSUME Stop \/ Exit \/ Restart  PROVE SameRuns
  BY <1>10, <1>u DEF Stop, Exit, Restart
<1>11. ASSUME Crash  PROVE SameRuns
  <2>1. /\ DOMAIN run' = DOMAIN run
        /\ \A r \in DOMAIN run : run'[r] = IF run[r].engine = Daemon /\ run[r].phase \in Unfinished
                                           THEN [run[r] EXCEPT !.phase = "lost"] ELSE run[r]
    BY <1>11 DEF Crash
  <2>2. \A x \in RunType : LET y == [x EXCEPT !.phase = "lost"] IN
          SameRun(x, y) /\ y.phase = "lost"
    BY DEF RunType, SameRun
  <2>3. \A r \in DOMAIN run : run[r] \in RunType
    BY RunElement DEF TypeInv, TypeOK
  <2>4. "lost" \notin Unfinished /\ "lost" \notin Occupying /\ "lost" \notin Holding
    BY DEF Unfinished, Occupying, Holding
  <2>5. ASSUME NEW r \in DOMAIN run
        PROVE  SameRun(run[r], run'[r]) /\ MovesOn(run[r].phase, run'[r].phase)
    <3>1. CASE run'[r] = run[r]
      BY <3>1 DEF SameRun, MovesOn
    <3>2. CASE run'[r] = [run[r] EXCEPT !.phase = "lost"]
      BY <2>2, <2>3, <2>4, <3>2 DEF MovesOn
    <3> QED  BY <2>1, <3>1, <3>2
  <2> QED  BY <2>1, <2>5 DEF SameRuns
<1> QED  BY <1>1, <1>2, <1>3, <1>4, <1>5, <1>6, <1>7, <1>8, <1>9, <1>10, <1>11 DEF Next

-----------------------------------------------------------------------------
\* One run per task.

\* A run whose outcome is not on disk yet keeps its task in the running set.
ActiveRuns ==
  \A r \in DOMAIN run : run[r].phase \in Occupying => run[r].task \in active[run[r].engine]

\* Between its second look and its last launch, no task a tick is about to
\* start is running: the tick holds Engine.mu.
StartsFree ==
  tick.pc \in {"locked", "launching"} => tick.starts \cap active[Daemon] = {}

RunInv == OneRunPerTask /\ ActiveRuns /\ StartsFree

\* A step that starts no run and takes no task out of the running set of runs
\* that need it there keeps the invariant.
LEMMA NoLaunchKeepsRunInv ==
  ASSUME RunInv, SameRuns,
         \A r \in DOMAIN run : run'[r].phase \in Occupying
                               => run[r].task \in active'[run[r].engine],
         StartsFree'
  PROVE  RunInv'
BY DEF RunInv, OneRunPerTask, ActiveRuns, SameRuns, SameRun, MovesOn

\* A launch of a task that is not running keeps one run per task.
LEMMA LaunchKeepsRunInv ==
  ASSUME TypeInv, RunInv, NEW e \in Engines, NEW t \in Tasks, NEW d,
         NEW p, NEW waiting, NEW manual, t \notin active[e],
         Launch(e, t, d, p, waiting, manual)
  PROVE  OneRunPerTask' /\ ActiveRuns'
<1> DEFINE r == Len(run) + 1
<1>1. /\ run \in Seq(RunType) /\ Len(run) \in Nat /\ DOMAIN run = 1..Len(run)
      /\ active \in [Engines -> SUBSET Tasks]
  BY DEF TypeInv, TypeOK, RunsOK, EnginesOK
<1>2. PICK start : run' = Append(run, start) /\ start.engine = e /\ start.task = t
  BY DEF Launch
<1>3. /\ DOMAIN run' = DOMAIN run \cup {r} /\ r \notin DOMAIN run
      /\ run'[r] = start /\ \A s \in DOMAIN run : run'[s] = run[s]
  BY <1>1, <1>2
<1>4. active' = [active EXCEPT ![e] = @ \cup {t}]
  BY DEF Launch
<1>5. \A s \in DOMAIN run : run[s].engine \in Engines
  BY RunElement DEF TypeInv, TypeOK, RunType
<1> HIDE DEF r
<1>6. ActiveRuns'
  BY <1>1, <1>2, <1>3, <1>4, <1>5 DEF RunInv, ActiveRuns
<1>7. \A s \in DOMAIN run : run[s].phase \in Occupying /\ run[s].engine = e
                            => run[s].task # t
  BY DEF RunInv, ActiveRuns
<1>8. OneRunPerTask'
  BY <1>2, <1>3, <1>7 DEF RunInv, OneRunPerTask
<1> QED  BY <1>6, <1>8

\* The running set only changes when a run leaves it or the daemon dies.
LEMMA StepKeepsActive ==
  ASSUME TypeInv, [Next]_vars,
         \A t \in Tasks : ~TickLaunch(t), \A n \in now : ~NowStart(n)
  PROVE  \/ active' = active
         \/ \E r \in DOMAIN run : FinishDeactivate(r)
         \/ DaemonGone /\ (Exit \/ Crash)
<1> USE DEF vars, disk, memory, operator, config, state
<1>1. ASSUME NEW r \in DOMAIN run, Finish(r), ~FinishDeactivate(r)  PROVE active' = active
  BY <1>1 DEF Finish, FinishLock, FinishLimited, FinishRetire, FinishUnqueue, FinishRecord
<1>2. ASSUME Tick  PROVE active' = active
  BY <1>2 DEF Tick, TickBegin, TickAbandoned, TickLock, TickRecord, TickLaunchFails
<1>3. ASSUME RunRequest  PROVE active' = active
  BY <1>3 DEF RunRequest, CancelRun, TakeOverRun, TakeOverAnswered, TakeOverTimesOut,
              ContinueFinished, CancelResume, CloseTerminal, CancelResumeRetire,
              CancelResumeUnqueue, CancelResumeRecord
<1>4. ASSUME QueueRequest  PROVE active' = active
  BY <1>4 DEF QueueRequest, AddTask, AddTaskCommit, RemoveTask, ForgetTask, EditTask,
              SetPaused, Move
<1>5. ASSUME Manual  PROVE active' = active
  BY <1>5 DEF Manual, NowBegin, NowRefused
<1>6. ASSUME Next, ~Exit, ~Crash, \A r \in DOMAIN run : ~FinishDeactivate(r)
      PROVE  active' = active
  <2>1. ASSUME NEW r \in DOMAIN run, NEW o \in {"success", "failed", "rate_limited"},
               RunExits(r, o)
        PROVE  active' = active
    BY <2>1 DEF RunExits
  <2>2. ASSUME NEW t \in Tasks, TriggerComes(t)  PROVE active' = active
    BY <2>2 DEF TriggerComes
  <2>3. ASSUME NEW e \in Engines, NEW p \in Providers, GateReopens(e, p)
        PROVE  active' = active
    BY <2>3 DEF GateReopens
  <2>4. ASSUME Stop \/ Restart  PROVE active' = active
    BY <2>4 DEF Stop, Restart
  <2> QED  BY <1>1, <1>2, <1>3, <1>4, <1>5, <1>6, <2>1, <2>2, <2>3, <2>4 DEF Next
<1> QED  BY <1>6 DEF Exit, Crash

\* Under Engine.mu the tick's starts only shrink, and are settled by TickLock.
LEMMA StepKeepsStarts ==
  ASSUME TypeInv, [Next]_vars, tick'.pc \in {"locked", "launching"}
  PROVE  \/ tick' = tick
         \/ TickLock
         \/ TickRecord
         \/ \E t \in Tasks : TickLaunch(t)
<1> USE DEF vars, disk, memory, operator, config, state
<1>n. NoTick.pc = "idle"
  BY DEF NoTick
<1>1. ASSUME Tick, ~TickLock, ~TickRecord, \A t \in Tasks : ~TickLaunch(t)
      PROVE  FALSE
  <2>1. TickBegin \/ TickAbandoned \/ \E t \in Tasks : TickLaunchFails(t)
    BY <1>1 DEF Tick
  <2>2. tick' = NoTick \/ tick'.pc = "probing"
    BY <2>1 DEF TickBegin, TickAbandoned, TickLaunchFails, NoTick
  <2> QED  BY <1>n, <2>2
<1>2. ASSUME RunRequest \/ QueueRequest \/ Manual  PROVE tick' = tick
  BY <1>2 DEF RunRequest, CancelRun, TakeOverRun, TakeOverAnswered, TakeOverTimesOut,
              ContinueFinished, CancelResume, CloseTerminal, CancelResumeRetire,
              CancelResumeUnqueue, CancelResumeRecord,
              QueueRequest, AddTask, AddTaskCommit, RemoveTask, ForgetTask, EditTask,
              SetPaused, Move, Manual, NowBegin, NowRefused, NowStart
<1>3. ASSUME NEW r \in DOMAIN run, Finish(r)  PROVE tick' = tick
  BY <1>3 DEF Finish, FinishLock, FinishLimited, FinishRetire, FinishUnqueue,
              FinishDeactivate, FinishRecord
<1>4. ASSUME NEW r \in DOMAIN run, NEW o \in {"success", "failed", "rate_limited"},
             RunExits(r, o)
      PROVE  tick' = tick
  BY <1>4 DEF RunExits
<1>5. ASSUME NEW t \in Tasks, TriggerComes(t)  PROVE tick' = tick
  BY <1>5 DEF TriggerComes
<1>6. ASSUME NEW e \in Engines, NEW p \in Providers, GateReopens(e, p)  PROVE tick' = tick
  BY <1>6 DEF GateReopens
<1>7. ASSUME Stop \/ Restart \/ UNCHANGED vars  PROVE tick' = tick
  BY <1>7 DEF Stop, Restart
<1>8. ~Exit /\ ~Crash
  BY <1>n DEF Exit, Crash, DaemonGone
<1> QED  BY <1>1, <1>2, <1>3, <1>4, <1>5, <1>6, <1>7, <1>8 DEF Next

\* No run, nothing to keep apart.
LEMMA RunInvInit == Init => RunInv
BY DEF Init, RunInv, OneRunPerTask, ActiveRuns, StartsFree, NoTick

\* RunInv is inductive, given the types.
LEMMA RunInvStep ==
  ASSUME TypeInv, TypeInv', RunInv, [Next]_vars
  PROVE  RunInv'
<1> USE DEF vars, disk, memory, operator, config, state
<1>n. NoTick.pc = "idle" /\ (tick.pc # "idle" => tick \in TickType)
  BY DEF NoTick, TickType, TypeInv, TypeOK
<1>a. active \in [Engines -> SUBSET Tasks]
  BY DEF TypeInv, TypeOK, EnginesOK
<1>1. ASSUME NEW t \in Tasks, TickLaunch(t)  PROVE RunInv'
  <2>1. /\ tick.pc = "launching" /\ t \in tick.starts /\ tick \in TickType
        /\ Launch(Daemon, t, tick.def[t], tick.target[t], tick.waiting[t], FALSE)
        /\ tick' = Launched(t)
    BY <1>1, <1>n DEF TickLaunch, NextStart
  <2>2. tick.starts \cap active[Daemon] = {}
    BY <2>1 DEF RunInv, StartsFree
  <2>3. OneRunPerTask' /\ ActiveRuns'
    BY <2>1, <2>2, EnginesAssumption, LaunchKeepsRunInv
  <2>4. StartsFree'
    <3>1. active'[Daemon] = active[Daemon] \cup {t}
      BY <1>a, <2>1, EnginesAssumption DEF Launch
    <3>2. tick' = NoTick \/ tick'.starts = tick.starts \ {t}
      BY <2>1 DEF Launched, TickType
    <3> QED  BY <1>n, <2>2, <3>1, <3>2 DEF StartsFree
  <2> QED  BY <2>3, <2>4 DEF RunInv
<1>2. ASSUME NEW n \in now, NowStart(n)  PROVE RunInv'
  <2>1. /\ n.engine \in Engines /\ n.task \in Tasks /\ n.task \notin active[n.engine]
        /\ Launch(n.engine, n.task, n.def, n.provider, n.waiting, TRUE)
    BY <1>2 DEF NowStart, NowType, TypeInv, TypeOK
  <2>2. OneRunPerTask' /\ ActiveRuns'
    BY <2>1, LaunchKeepsRunInv
  <2>3. StartsFree'
    <3>1. tick' = tick /\ active' = [active EXCEPT ![n.engine] = @ \cup {n.task}]
      BY <1>2 DEF NowStart, Launch
    <3>2. CASE n.engine = Daemon
      BY <1>2, <3>1, <3>2 DEF NowStart, MuFree, StartsFree
    <3>3. CASE n.engine # Daemon
      BY <1>a, <3>1, <3>3, EnginesAssumption DEF RunInv, StartsFree
    <3> QED  BY <3>2, <3>3
  <2> QED  BY <2>2, <2>3 DEF RunInv
<1>3. ASSUME \A t \in Tasks : ~TickLaunch(t), \A n \in now : ~NowStart(n)  PROVE RunInv'
  <2>1. SameRuns
    BY <1>3, StepKeepsRuns
  <2>2. \A e \in Engines : active'[e] \subseteq active[e]
    <3>1. CASE active' = active
      BY <3>1
    <3>2. ASSUME NEW r \in DOMAIN run, FinishDeactivate(r)
          PROVE  \A e \in Engines : active'[e] \subseteq active[e]
      BY <1>a, <3>2 DEF FinishDeactivate
    <3>3. CASE DaemonGone
      BY <1>a, <3>3 DEF DaemonGone
    <3> QED  BY <1>3, <3>1, <3>2, <3>3, StepKeepsActive
  <2>3. \A r \in DOMAIN run : run'[r].phase \in Occupying
                               => run[r].task \in active'[run[r].engine]
    <3>1. SUFFICES ASSUME NEW r \in DOMAIN run, run'[r].phase \in Occupying
                   PROVE  run[r].task \in active'[run[r].engine]
      OBVIOUS
    <3>2. /\ run[r].phase \in Occupying /\ run[r].task \in active[run[r].engine]
          /\ run[r] \in RunType /\ run[r].engine \in Engines
      BY <2>1, <3>1, RunElement DEF SameRuns, SameRun, MovesOn, RunInv, ActiveRuns, TypeInv, TypeOK, RunType
    <3>3. CASE active' = active
      BY <3>2, <3>3
    <3>4. ASSUME NEW s \in DOMAIN run, FinishDeactivate(s)
          PROVE  run[r].task \in active'[run[r].engine]
      <4>1. /\ run[s] \in RunType /\ run[s].phase \in Occupying
            /\ run'[s].phase = "inactive"
        BY <3>4, RunElement DEF FinishDeactivate, TypeInv, TypeOK, RunType, Occupying
      <4>2. r # s
        BY <3>1, <4>1 DEF Occupying, Holding
      <4>3. ~(run[r].engine = run[s].engine /\ run[r].task = run[s].task)
        BY <3>2, <4>1, <4>2 DEF RunInv, OneRunPerTask
      <4> QED  BY <1>a, <3>2, <3>4, <4>3 DEF FinishDeactivate
    <3>5. ASSUME DaemonGone, Exit \/ Crash
          PROVE  run[r].task \in active'[run[r].engine]
      <4>1. run[r].engine # Daemon
        <5>1. CASE Exit
          BY <3>2, <5>1 DEF Exit, Unfinished
        <5>2. CASE Crash
          <6>1. run'[r] = IF run[r].engine = Daemon /\ run[r].phase \in Unfinished
                          THEN [run[r] EXCEPT !.phase = "lost"] ELSE run[r]
            BY <5>2 DEF Crash
          <6>2. [run[r] EXCEPT !.phase = "lost"].phase = "lost"
            BY <3>2 DEF RunType
          <6> QED  BY <3>1, <3>2, <6>1, <6>2 DEF Unfinished, Occupying, Holding
        <5> QED  BY <3>5, <5>1, <5>2
      <4> QED  BY <1>a, <3>2, <3>5, <4>1 DEF DaemonGone
    <3> QED  BY <1>3, <3>3, <3>4, <3>5, StepKeepsActive
  <2>4. StartsFree'
    <3>1. SUFFICES ASSUME tick'.pc \in {"locked", "launching"}
                   PROVE  tick'.starts \cap active'[Daemon] = {}
      BY DEF StartsFree
    <3>2. CASE tick' = tick
      BY <2>2, <3>1, <3>2, EnginesAssumption DEF RunInv, StartsFree
    <3>3. CASE TickLock
      <4>1. PICK starts :
              /\ \A t \in starts : t \notin active[Daemon]
              /\ \/ tick' = NoTick
                 \/ tick' = [tick EXCEPT !.pc = "locked", !.assigned = {},
                                         !.starts = starts, !.waiting = pending]
        BY <3>3 DEF TickLock, Select, IsDue, Due
      <4>2. tick'.starts = starts
        BY <1>n, <3>1, <3>3, <4>1 DEF TickLock, TickType
      <4> QED  BY <2>2, <4>1, <4>2, EnginesAssumption
    <3>4. CASE TickRecord
      <4>1. tick.pc = "locked" /\ tick'.starts = tick.starts
        BY <1>n, <3>1, <3>4 DEF TickRecord, TickType
      <4> QED  BY <2>2, <4>1, EnginesAssumption DEF RunInv, StartsFree
    <3> QED  BY <1>3, <3>1, <3>2, <3>3, <3>4, StepKeepsStarts
  <2> QED  BY <2>1, <2>3, <2>4, NoLaunchKeepsRunInv
<1> QED  BY <1>1, <1>2, <1>3

\* A task never has two runs at once in one engine: the tick holds Engine.mu
\* from the second look at the running set to the last launch, and a run keeps
\* its task in the set until its outcome is on disk.
THEOREM OneRun == Spec => []OneRunPerTask
<1>1. Init => TypeInv /\ RunInv
  BY InitType, RunInvInit
<1>2. (TypeInv /\ RunInv) /\ [Next]_vars => (TypeInv /\ RunInv)'
  BY TypeStep, RunInvStep
<1>3. RunInv => OneRunPerTask
  BY DEF RunInv
<1> QED  BY <1>1, <1>2, <1>3, PTL DEF Spec

-----------------------------------------------------------------------------
\* Sessions stay with their provider.

\* A session is named after the run that opened it, on that run's provider.
Owned(runs, session, provider) ==
  session # NoSession => session \in DOMAIN runs /\ runs[session].provider = provider

RunsOwn ==
  \A r \in DOMAIN run : /\ Owned(run, run[r].session, run[r].provider)
                        /\ run[r].resumed => run[r].session \in 1..(r - 1)

PendingOwn == \A t \in Tasks : Owned(run, pending[t].session, pending[t].provider)

\* The waiting sessions a tick and a manual start have read.
TickOwn ==
  tick.pc \in {"locked", "launching"} =>
    \A t \in Tasks : Owned(run, tick.waiting[t].session, tick.waiting[t].provider)

NowOwn == \A n \in now : Owned(run, n.waiting.session, n.waiting.provider)

SessionInv == RunsOwn /\ PendingOwn /\ TickOwn /\ NowOwn

\* No step takes a session from its provider: runs are only added.
LEMMA OwnedStays ==
  ASSUME TypeInv, [Next]_vars, NEW session, NEW provider, Owned(run, session, provider)
  PROVE  Owned(run', session, provider)
<1>0. run \in Seq(RunType)
  BY DEF TypeInv, TypeOK, RunsOK
<1>1. CASE SameRuns
  BY <1>1 DEF SameRuns, SameRun, Owned
<1>2. ASSUME NEW start, run' = Append(run, start)  PROVE Owned(run', session, provider)
  BY <1>0, <1>2 DEF Owned
<1>3. CASE \E t \in Tasks : TickLaunch(t)
  BY <1>2, <1>3 DEF TickLaunch, Launch
<1>4. CASE \E n \in now : NowStart(n)
  BY <1>2, <1>4 DEF NowStart, Launch
<1> QED  BY <1>1, <1>3, <1>4, StepKeepsRuns

\* The session a launch continues belongs to the provider it runs on; a session
\* it opens is its own.
LEMMA LaunchKeepsRunsOwn ==
  ASSUME TypeInv, [Next]_vars, SessionInv, NEW e, NEW t, NEW d, NEW p,
         NEW waiting \in PendingResume, NEW manual,
         Owned(run, waiting.session, waiting.provider),
         Launch(e, t, d, p, waiting, manual)
  PROVE  RunsOwn'
<1> DEFINE r == Len(run) + 1
<1>1. run \in Seq(RunType) /\ Len(run) \in Nat /\ DOMAIN run = 1..Len(run)
  BY DEF TypeInv, TypeOK, RunsOK
<1>2. PICK start :
        /\ run' = Append(run, start) /\ start.provider = p
        /\ start.session = SessionFor(r, p, waiting)
        /\ start.resumed = ContinuesSession(p, waiting)
  BY DEF Launch
<1>3. /\ DOMAIN run' = DOMAIN run \cup {r} /\ run'[r] = start
      /\ \A s \in DOMAIN run : run'[s] = run[s]
  BY <1>1, <1>2
<1>4. ASSUME NEW s \in DOMAIN run
      PROVE  /\ Owned(run', run[s].session, run[s].provider)
             /\ run'[s].resumed => run'[s].session \in 1..(s - 1)
  <2>1. Owned(run, run[s].session, run[s].provider)
    BY DEF SessionInv, RunsOwn
  <2>2. run[s].session # NoSession =>
          run[s].session \in DOMAIN run /\ run[run[s].session].provider = run[s].provider
    BY <2>1 DEF Owned
  <2> QED  BY <1>3, <2>2 DEF Owned, SessionInv, RunsOwn
<1>5. Owned(run', start.session, p) /\ (start.resumed => start.session \in 1..(r - 1))
  <2>1. CASE ContinuesSession(p, waiting)
    <3>1. /\ start.session = waiting.session /\ waiting.provider = p
          /\ waiting.session \in DOMAIN run /\ run[waiting.session].provider = p
      BY <1>2, <2>1 DEF SessionFor, ContinuesSession, Owned
    <3> QED  BY <1>1, <1>3, <3>1 DEF Owned
  <2>2. CASE ~ContinuesSession(p, waiting)
    <3>1. ~start.resumed /\ start.session \in {r, NoSession}
      BY <1>2, <2>2 DEF SessionFor
    <3> QED  BY <1>2, <1>3, <3>1 DEF Owned
  <2> QED  BY <2>1, <2>2
<1> HIDE DEF r
<1> QED  BY <1>2, <1>3, <1>4, <1>5 DEF RunsOwn, Owned

\* A session is only put aside by a run that hit a rate limit.
LEMMA StepKeepsPending ==
  ASSUME TypeInv, [Next]_vars
  PROVE  \/ pending' = pending
         \/ \E t \in Tasks : pending' = [pending EXCEPT ![t] = NothingPending]
         \/ \E r \in DOMAIN run : FinishLimited(r)
<1> USE DEF vars, disk, memory, operator, config, state
<1> DEFINE Forgotten == \E t \in Tasks : pending' = [pending EXCEPT ![t] = NothingPending]
<1>1. ASSUME NEW r \in DOMAIN run, Finish(r), ~FinishLimited(r)
      PROVE  pending' = pending \/ Forgotten
  <2>1. run[r].task \in Tasks
    BY RunElement DEF TypeInv, TypeOK, RunType
  <2> QED  BY <1>1, <2>1 DEF Finish, FinishLock, FinishRetire, FinishUnqueue,
                             FinishDeactivate, FinishRecord, Retire
<1>2. ASSUME RunRequest  PROVE pending' = pending \/ Forgotten
  <2>1. ASSUME NEW q \in request, CancelResumeRetire(q)  PROVE Forgotten
    <3>1. q.task \in Tasks
      BY DEF TypeInv, TypeOK, OperatorOK
    <3> QED  BY <2>1, <3>1 DEF CancelResumeRetire, Retire
  <2> QED  BY <1>2, <2>1
           DEF RunRequest, CancelRun, TakeOverRun, TakeOverAnswered, TakeOverTimesOut,
               ContinueFinished, CancelResume, CloseTerminal, CancelResumeUnqueue,
               CancelResumeRecord
<1>3. ASSUME QueueRequest  PROVE pending' = pending \/ Forgotten
  <2>1. ASSUME NEW q \in request, ForgetTask(q)  PROVE Forgotten
    <3>1. q.task \in Tasks
      BY DEF TypeInv, TypeOK, OperatorOK
    <3> QED  BY <2>1, <3>1 DEF ForgetTask
  <2> QED  BY <1>3, <2>1
           DEF QueueRequest, AddTask, AddTaskCommit, RemoveTask, EditTask, SetPaused, Move
<1>4. ASSUME Tick \/ Manual \/ Stop \/ Exit \/ Crash \/ Restart \/ UNCHANGED vars
      PROVE  pending' = pending
  BY <1>4 DEF Tick, TickBegin, TickAbandoned, TickLock, TickRecord, TickLaunch, TickLaunchFails,
              Manual, NowBegin, NowRefused, NowStart, Stop, Exit, Crash, Restart
<1>5. ASSUME NEW t \in Tasks, TriggerComes(t)  PROVE pending' = pending
  BY <1>5 DEF TriggerComes
<1>6. ASSUME NEW e \in Engines, NEW p \in Providers, GateReopens(e, p)
      PROVE  pending' = pending
  BY <1>6 DEF GateReopens
<1>7. ASSUME NEW r \in DOMAIN run, NEW o \in {"success", "failed", "rate_limited"},
             RunExits(r, o)
      PROVE  pending' = pending
  BY <1>7 DEF RunExits
<1> QED  BY <1>1, <1>2, <1>3, <1>4, <1>5, <1>6, <1>7 DEF Next

\* A manual start is given what is pending when it begins.
LEMMA StepKeepsNow ==
  ASSUME TypeInv, [Next]_vars
  PROVE  \A n \in now' : n \in now \/ \E t \in Tasks : n.waiting = pending[t]
<1> USE DEF vars, disk, memory, operator, config, state
<1>1. ASSUME Manual  PROVE \A n \in now' : n \in now \/ \E t \in Tasks : n.waiting = pending[t]
  <2>1. ASSUME NEW e \in Engines, NEW t \in Tasks, NowBegin(e, t)
        PROVE  \A n \in now' : n \in now \/ n.waiting = pending[t]
    <3>1. PICK p : now' = now \cup {[engine |-> e, task |-> t, def |-> def[t],
                                     waiting |-> pending[t], provider |-> p]}
      BY <2>1 DEF NowBegin
    <3> QED  BY <3>1
  <2>2. ASSUME NEW n \in now, NowRefused(n) \/ NowStart(n)  PROVE now' \subseteq now
    BY <2>2 DEF NowRefused, NowStart
  <2> QED  BY <1>1, <2>1, <2>2 DEF Manual
<1>2. ASSUME NEW r \in DOMAIN run, Finish(r)  PROVE now' = now
  BY <1>2 DEF Finish, FinishLock, FinishLimited, FinishRetire, FinishUnqueue,
              FinishDeactivate, FinishRecord
<1>3. ASSUME RunRequest \/ QueueRequest  PROVE now' = now
  BY <1>3 DEF RunRequest, CancelRun, TakeOverRun, TakeOverAnswered, TakeOverTimesOut,
              ContinueFinished, CancelResume, CloseTerminal, CancelResumeRetire,
              CancelResumeUnqueue, CancelResumeRecord, QueueRequest, AddTask, AddTaskCommit,
              RemoveTask, ForgetTask, EditTask, SetPaused, Move
<1>4. ASSUME Tick \/ Stop \/ Exit \/ Crash \/ Restart \/ UNCHANGED vars  PROVE now' \subseteq now
  BY <1>4 DEF Tick, TickBegin, TickAbandoned, TickLock, TickRecord, TickLaunch, TickLaunchFails,
              Stop, Exit, Crash, DaemonGone, Restart
<1>5. ASSUME NEW t \in Tasks, TriggerComes(t)  PROVE now' = now
  BY <1>5 DEF TriggerComes
<1>6. ASSUME NEW e \in Engines, NEW p \in Providers, GateReopens(e, p)  PROVE now' = now
  BY <1>6 DEF GateReopens
<1>7. ASSUME NEW r \in DOMAIN run, NEW o \in {"success", "failed", "rate_limited"},
             RunExits(r, o)
      PROVE  now' = now
  BY <1>7 DEF RunExits
<1> QED  BY <1>1, <1>2, <1>3, <1>4, <1>5, <1>6, <1>7 DEF Next

\* There is no session at the start.
LEMMA SessionInvInit == Init => SessionInv
<1> SUFFICES ASSUME Init  PROVE SessionInv
  OBVIOUS
<1>1. RunsOwn /\ TickOwn /\ NowOwn
  BY DEF Init, RunsOwn, TickOwn, NowOwn, NoTick
<1>2. PendingOwn
  BY DEF Init, PendingOwn, Owned, NothingPending
<1> QED  BY <1>1, <1>2 DEF SessionInv

\* SessionInv is inductive, given the types.
LEMMA SessionInvStep ==
  ASSUME TypeInv, SessionInv, [Next]_vars
  PROVE  SessionInv'
<1>o. \A s, p : Owned(run, s, p) => Owned(run', s, p)
  BY OwnedStays
<1>n. NoTick.pc = "idle" /\ (tick.pc # "idle" => tick \in TickType)
  BY DEF NoTick, TickType, TypeInv, TypeOK
<1>1. RunsOwn'
  <2>1. CASE SameRuns
    <3>1. SUFFICES ASSUME NEW r \in DOMAIN run'
                   PROVE  /\ Owned(run', run'[r].session, run'[r].provider)
                          /\ run'[r].resumed => run'[r].session \in 1..(r - 1)
      BY DEF RunsOwn
    <3>2. /\ r \in DOMAIN run /\ run'[r].session = run[r].session
          /\ run'[r].provider = run[r].provider /\ run'[r].resumed = run[r].resumed
      BY <2>1, <3>1 DEF SameRuns, SameRun
    <3> QED  BY <1>o, <3>2 DEF SessionInv, RunsOwn
  <2>2. ASSUME NEW t \in Tasks, TickLaunch(t)  PROVE RunsOwn'
    <3>1. /\ tick.waiting[t] \in PendingResume
          /\ Owned(run, tick.waiting[t].session, tick.waiting[t].provider)
          /\ Launch(Daemon, t, tick.def[t], tick.target[t], tick.waiting[t], FALSE)
      BY <2>2 DEF TickLaunch, NextStart, TypeInv, TickWaits, SessionInv, TickOwn
    <3> QED  BY <3>1, LaunchKeepsRunsOwn
  <2>3. ASSUME NEW n \in now, NowStart(n)  PROVE RunsOwn'
    <3>1. /\ n.waiting \in PendingResume
          /\ Owned(run, n.waiting.session, n.waiting.provider)
          /\ Launch(n.engine, n.task, n.def, n.provider, n.waiting, TRUE)
      BY <2>3 DEF NowStart, NowType, TypeInv, TypeOK, SessionInv, NowOwn
    <3> QED  BY <3>1, LaunchKeepsRunsOwn
  <2> QED  BY <2>1, <2>2, <2>3, StepKeepsRuns
<1>2. PendingOwn'
  <2>1. SUFFICES ASSUME NEW t \in Tasks
                 PROVE  Owned(run', pending'[t].session, pending'[t].provider)
    BY DEF PendingOwn
  <2>2. Owned(run, pending[t].session, pending[t].provider)
        /\ pending \in [Tasks -> PendingResume]
    BY DEF SessionInv, PendingOwn, TypeInv, TypeOK, StateOK
  <2>3. CASE pending'[t] = pending[t]
    BY <1>o, <2>2, <2>3
  <2>4. CASE pending'[t] = NothingPending
    BY <2>4 DEF NothingPending, Owned
  <2>5. ASSUME NEW r \in DOMAIN run, FinishLimited(r), pending'[t] # pending[t]
        PROVE  Owned(run', pending'[t].session, pending'[t].provider)
    <3>1. pending'[t] = [session |-> run[r].session, provider |-> run[r].provider]
      BY <2>2, <2>5 DEF FinishLimited
    <3>2. Owned(run, run[r].session, run[r].provider)
      BY DEF SessionInv, RunsOwn
    <3> QED  BY <1>o, <3>1, <3>2
  <2> QED  BY <2>2, <2>3, <2>4, <2>5, StepKeepsPending
<1>3. TickOwn'
  <2>1. SUFFICES ASSUME tick'.pc \in {"locked", "launching"}, NEW t \in Tasks
                 PROVE  Owned(run', tick'.waiting[t].session, tick'.waiting[t].provider)
    BY DEF TickOwn
  <2>2. CASE TickLock
    <3>1. tick'.waiting = pending
      BY <1>n, <2>1, <2>2 DEF TickLock, TickType
    <3> QED  BY <1>o, <3>1 DEF SessionInv, PendingOwn
  <2>3. CASE tick' = tick \/ TickRecord \/ \E u \in Tasks : TickLaunch(u)
    <3>1. tick'.waiting = tick.waiting /\ tick.pc \in {"locked", "launching"}
      BY <1>n, <2>1, <2>3 DEF TickRecord, TickLaunch, NextStart, Launched, TickType
    <3> QED  BY <1>o, <3>1 DEF SessionInv, TickOwn
  <2> QED  BY <2>1, <2>2, <2>3, StepKeepsStarts
<1>4. NowOwn'
  <2>1. SUFFICES ASSUME NEW n \in now'
                 PROVE  Owned(run', n.waiting.session, n.waiting.provider)
    BY DEF NowOwn
  <2> QED  BY <1>o, <2>1, StepKeepsNow DEF SessionInv, NowOwn, PendingOwn
<1> QED  BY <1>1, <1>2, <1>3, <1>4 DEF SessionInv

\* A session is only ever continued on the provider that issued it, whatever
\* the task, the fallback or the operator has changed since: sessionFor compares
\* the provider the run is given with the one the session was put aside with.
THEOREM SessionsKeepTheirOwner == Spec => []SessionOwner
<1>1. Init => TypeInv /\ SessionInv
  BY InitType, SessionInvInit
<1>2. (TypeInv /\ SessionInv) /\ [Next]_vars => (TypeInv /\ SessionInv)'
  BY TypeStep, SessionInvStep
<1>3. SessionInv => SessionOwner
  BY DEF SessionInv, RunsOwn, Owned, SessionOwner, NoSession
<1> QED  BY <1>1, <1>2, <1>3, PTL DEF Spec

-----------------------------------------------------------------------------
(* The concurrency counters.                                                *)

\* The runs that hold a slot of an engine, by the counter they are in.
Holders(e)   == {r \in DOMAIN run : run[r].engine = e /\ run[r].phase \in Holding}
Parallel(e)  == {r \in Holders(e) : run[r].def.parallel}
Exclusive(e) == {r \in Holders(e) : ~run[r].def.parallel}

Counted(e) == /\ slots[e].parallel  = Cardinality(Parallel(e))
              /\ slots[e].exclusive = Cardinality(Exclusive(e))

\* What CountersExact says of each engine.
LEMMA CountersAreCounts == CountersExact <=> \A e \in Engines : Counted(e)
BY DEF CountersExact, Counted, Holders, Parallel, Exclusive

\* There are finitely many runs to count.
LEMMA HoldersFinite ==
  ASSUME TypeInv, NEW e
  PROVE  /\ IsFiniteSet(Parallel(e)) /\ IsFiniteSet(Exclusive(e))
         /\ Cardinality(Parallel(e)) \in Nat /\ Cardinality(Exclusive(e)) \in Nat
<1>1. run \in Seq(RunType) /\ Len(run) \in Nat /\ DOMAIN run = 1..Len(run)
  BY DEF TypeInv, TypeOK, RunsOK
<1>2. IsFiniteSet(DOMAIN run)
  BY <1>1, FS_Interval
<1>3. Parallel(e) \subseteq DOMAIN run /\ Exclusive(e) \subseteq DOMAIN run
  BY DEF Parallel, Exclusive, Holders
<1>4. IsFiniteSet(Parallel(e)) /\ IsFiniteSet(Exclusive(e))
  BY <1>2, <1>3, FS_Subset
<1> QED  BY <1>4, FS_CardinalityType

\* What a step leaves alone that takes and gives back no slot.
SameHolders ==
  /\ slots' = slots /\ DOMAIN run' = DOMAIN run
  /\ \A r \in DOMAIN run :
       /\ run'[r].engine = run[r].engine /\ run'[r].def = run[r].def
       /\ run'[r].phase \in Holding <=> run[r].phase \in Holding

\* Slots are taken by a launch and given back by the first section of finish;
\* the daemon's own end is the only other step that touches them.
LEMMA StepKeepsHolders ==
  ASSUME TypeInv, [Next]_vars
  PROVE  \/ SameHolders
         \/ \E t \in Tasks : TickLaunch(t)
         \/ \E n \in now : NowStart(n)
         \/ \E r \in DOMAIN run : FinishLock(r)
         \/ Exit \/ Crash
<1> USE DEF vars, disk, memory, operator, config, state
<1>u. ASSUME UNCHANGED <<slots, run>>  PROVE SameHolders
  BY <1>u DEF SameHolders
<1>m. ASSUME NEW r \in DOMAIN run, NEW from, NEW to, NEW status,
             run[r].phase = from, from \in Holding <=> to \in Holding, slots' = slots,
             \/ run' = [run EXCEPT ![r].phase = to]
             \/ run' = [run EXCEPT ![r].phase = to, ![r].status = status]
             \/ run' = [run EXCEPT ![r].canceled = TRUE]
      PROVE  SameHolders
  <2>1. run[r] \in RunType
    BY RunElement DEF TypeInv, TypeOK
  <2>2. /\ DOMAIN run' = DOMAIN run /\ \A s \in DOMAIN run : s # r => run'[s] = run[s]
        /\ run'[r].engine = run[r].engine /\ run'[r].def = run[r].def
        /\ run'[r].phase \in {from, to}
    BY <1>m, <2>1 DEF RunType
  <2> QED  BY <1>m, <2>2 DEF SameHolders
<1>h. /\ "executing" \in Holding /\ "exited" \in Holding
      /\ \A p \in {"released", "retiring", "settled", "inactive", "done"} : p \notin Holding
  BY SMTT(60) DEF Holding
<1>1. ASSUME Tick, \A t \in Tasks : ~TickLaunch(t)  PROVE SameHolders
  BY <1>1, <1>u DEF Tick, TickBegin, TickAbandoned, TickLock, TickRecord, TickLaunchFails
<1>2. ASSUME NEW r \in DOMAIN run, Finish(r), ~FinishLock(r)  PROVE SameHolders
  <2>1. CASE FinishLimited(r)
    BY <2>1, <1>m, <1>h DEF FinishLimited
  <2>2. CASE FinishRetire(r)
    BY <2>2, <1>m, <1>h DEF FinishRetire
  <2>3. CASE FinishUnqueue(r)
    BY <2>3, <1>m, <1>h DEF FinishUnqueue
  <2>4. CASE FinishDeactivate(r)
    BY <2>4, <1>m, <1>h DEF FinishDeactivate
  <2>5. CASE FinishRecord(r)
    BY <2>5, <1>m, <1>h DEF FinishRecord
  <2> QED  BY <1>2, <2>1, <2>2, <2>3, <2>4, <2>5 DEF Finish
<1>3. ASSUME NEW r \in DOMAIN run, NEW o \in {"success", "failed", "rate_limited"},
             RunExits(r, o)
      PROVE  SameHolders
  BY <1>3, <1>m, <1>h DEF RunExits
<1>4. ASSUME Manual, \A n \in now : ~NowStart(n)  PROVE SameHolders
  BY <1>4, <1>u DEF Manual, NowBegin, NowRefused
<1>5. ASSUME RunRequest  PROVE SameHolders
  <2>1. ASSUME NEW r \in DOMAIN run, CancelRun(r) \/ TakeOverRun(r)  PROVE SameHolders
    <3>1. slots' = slots /\ run' = [run EXCEPT ![r].canceled = TRUE]
      BY <2>1 DEF CancelRun, TakeOverRun
    <3> QED  BY <3>1, <1>m
  <2>2. CASE \E r \in DOMAIN run : CancelRun(r) \/ TakeOverRun(r)
    BY <2>1, <2>2
  <2>3. CASE ~ \E r \in DOMAIN run : CancelRun(r) \/ TakeOverRun(r)
    BY <1>5, <1>u, <2>3
       DEF RunRequest, TakeOverAnswered, TakeOverTimesOut, ContinueFinished, CancelResume,
           CloseTerminal, CancelResumeRetire, CancelResumeUnqueue, CancelResumeRecord
  <2> QED  BY <2>2, <2>3
<1>6. ASSUME QueueRequest  PROVE SameHolders
  BY <1>6, <1>u
     DEF QueueRequest, AddTask, AddTaskCommit, RemoveTask, ForgetTask, EditTask, SetPaused, Move
<1>7. ASSUME Stop \/ Restart \/ UNCHANGED vars  PROVE SameHolders
  BY <1>7, <1>u DEF Stop, Restart
<1>8. ASSUME NEW t \in Tasks, TriggerComes(t)  PROVE SameHolders
  BY <1>8, <1>u DEF TriggerComes
<1>9. ASSUME NEW e \in Engines, NEW p \in Providers, GateReopens(e, p)  PROVE SameHolders
  BY <1>9, <1>u DEF GateReopens
<1> QED  BY <1>1, <1>2, <1>3, <1>4, <1>5, <1>6, <1>7, <1>8, <1>9 DEF Next

\* A launch adds its run to the holders of its engine, and counts it.
LEMMA LaunchCounts ==
  ASSUME TypeInv, CountersExact, NEW e \in Engines, NEW t, NEW d, NEW p,
         NEW waiting, NEW manual, Launch(e, t, d, p, waiting, manual)
  PROVE  CountersExact'
<1> DEFINE r == Len(run) + 1
<1>1. /\ run \in Seq(RunType) /\ Len(run) \in Nat /\ DOMAIN run = 1..Len(run)
      /\ slots \in [Engines -> [parallel : Int, exclusive : Int]]
  BY DEF TypeInv, TypeOK, RunsOK, EnginesOK
<1>2. PICK start : /\ run' = Append(run, start) /\ start.engine = e /\ start.def = d
                   /\ start.phase = "executing"
  BY DEF Launch
<1>3. /\ DOMAIN run' = DOMAIN run \cup {r} /\ r \notin DOMAIN run
      /\ run'[r] = start /\ \A s \in DOMAIN run : run'[s] = run[s]
  BY <1>1, <1>2
<1> HIDE DEF r
<1>4. ASSUME NEW f \in Engines
      PROVE  /\ Parallel(f)' = IF f = e /\ d.parallel THEN Parallel(f) \cup {r} ELSE Parallel(f)
             /\ Exclusive(f)' = IF f = e /\ ~d.parallel THEN Exclusive(f) \cup {r} ELSE Exclusive(f)
             /\ r \notin Parallel(f) /\ r \notin Exclusive(f)
  BY <1>2, <1>3 DEF Parallel, Exclusive, Holders, Holding
<1>5. ASSUME NEW f \in Engines  PROVE Counted(f)'
  <2>1. /\ IsFiniteSet(Parallel(f)) /\ IsFiniteSet(Exclusive(f))
        /\ Cardinality(Parallel(f) \cup {r}) = Cardinality(Parallel(f)) + 1
        /\ Cardinality(Exclusive(f) \cup {r}) = Cardinality(Exclusive(f)) + 1
    BY <1>4, HoldersFinite, FS_AddElement
  <2>2. Counted(f)
    BY CountersAreCounts
  <2>3. /\ slots'[f].parallel = IF f = e /\ d.parallel THEN slots[f].parallel + 1 ELSE slots[f].parallel
        /\ slots'[f].exclusive = IF f = e /\ ~d.parallel THEN slots[f].exclusive + 1 ELSE slots[f].exclusive
    BY <1>1 DEF Launch, CountSlot
  <2>4. slots'[f].parallel = Cardinality(Parallel(f)')
    BY <1>4, <2>1, <2>2, <2>3 DEF Counted
  <2>5. slots'[f].exclusive = Cardinality(Exclusive(f)')
    BY <1>4, <2>1, <2>2, <2>3 DEF Counted
  <2> QED  BY <2>4, <2>5 DEF Counted
<1>6. CountersExact' <=> \A f \in Engines : Counted(f)'
  BY DEF CountersExact, Counted, Holders, Parallel, Exclusive
<1> QED  BY <1>5, <1>6

\* The first section of finish takes the run out of the holders of its engine,
\* from the counter its own definition names.
LEMMA FinishCounts ==
  ASSUME TypeInv, CountersExact, NEW r \in DOMAIN run, FinishLock(r)
  PROVE  CountersExact'
<1> DEFINE e == run[r].engine
           d == run[r].def
<1>1. /\ run[r] \in RunType /\ e \in Engines
      /\ slots \in [Engines -> [parallel : Int, exclusive : Int]]
  BY RunElement DEF TypeInv, TypeOK, RunType, EnginesOK
<1>2. /\ run' = [run EXCEPT ![r].phase = "released", ![r].status = FinishStatus(r)]
      /\ run[r].phase = "exited" /\ CountSlot(e, d, -1)
  BY DEF FinishLock
<1>3. /\ DOMAIN run' = DOMAIN run /\ run'[r].phase = "released"
      /\ \A s \in DOMAIN run : s # r => run'[s] = run[s]
  BY <1>1, <1>2 DEF RunType
<1> HIDE DEF e, d
<1>4. ASSUME NEW f \in Engines
      PROVE  /\ Parallel(f)' = IF f = e /\ d.parallel THEN Parallel(f) \ {r} ELSE Parallel(f)
             /\ Exclusive(f)' = IF f = e /\ ~d.parallel THEN Exclusive(f) \ {r} ELSE Exclusive(f)
             /\ f = e /\ d.parallel => r \in Parallel(f)
             /\ f = e /\ ~d.parallel => r \in Exclusive(f)
  BY <1>2, <1>3 DEF Parallel, Exclusive, Holders, Holding, e, d
<1>5. ASSUME NEW f \in Engines  PROVE Counted(f)'
  <2>1. /\ IsFiniteSet(Parallel(f)) /\ IsFiniteSet(Exclusive(f))
        /\ r \in Parallel(f) => Cardinality(Parallel(f) \ {r}) = Cardinality(Parallel(f)) - 1
        /\ r \in Exclusive(f) => Cardinality(Exclusive(f) \ {r}) = Cardinality(Exclusive(f)) - 1
    BY HoldersFinite, FS_RemoveElement
  <2>2. Counted(f)
    BY CountersAreCounts
  <2>3. /\ slots'[f].parallel = IF f = e /\ d.parallel THEN slots[f].parallel - 1 ELSE slots[f].parallel
        /\ slots'[f].exclusive = IF f = e /\ ~d.parallel THEN slots[f].exclusive - 1 ELSE slots[f].exclusive
    BY <1>1, <1>2 DEF CountSlot
  <2>4. slots'[f].parallel = Cardinality(Parallel(f)')
    BY <1>4, <2>1, <2>2, <2>3 DEF Counted
  <2>5. slots'[f].exclusive = Cardinality(Exclusive(f)')
    BY <1>4, <2>1, <2>2, <2>3 DEF Counted
  <2> QED  BY <2>4, <2>5 DEF Counted
<1>6. CountersExact' <=> \A f \in Engines : Counted(f)'
  BY DEF CountersExact, Counted, Holders, Parallel, Exclusive
<1> QED  BY <1>5, <1>6

\* A daemon that is gone has no runs, and its counters start again from zero.
LEMMA DaemonGoneCounts ==
  ASSUME TypeInv, CountersExact, Exit \/ Crash
  PROVE  CountersExact'
<1>1. slots \in [Engines -> [parallel : Int, exclusive : Int]]
  BY DEF TypeInv, TypeOK, EnginesOK
<1>2. slots' = [slots EXCEPT ![Daemon] = [parallel |-> 0, exclusive |-> 0]]
  BY DEF Exit, Crash, DaemonGone
<1>h. "lost" \notin Holding /\ Holding \subseteq Unfinished
  BY DEF Holding, Unfinished, Occupying
<1>3. /\ DOMAIN run' = DOMAIN run
      /\ \A r \in DOMAIN run : run[r].engine # Daemon => run'[r] = run[r]
      /\ \A r \in DOMAIN run : run[r].engine = Daemon =>
           run'[r].engine = Daemon /\ run'[r].phase \notin Holding
  <2>1. CASE Exit
    BY <2>1, <1>h DEF Exit
  <2>2. CASE Crash
    <3>1. \A x \in RunType : [x EXCEPT !.phase = "lost"].engine = x.engine
                            /\ [x EXCEPT !.phase = "lost"].phase = "lost"
      BY DEF RunType
    <3>2. \A r \in DOMAIN run : run[r] \in RunType
      BY RunElement DEF TypeInv, TypeOK
    <3>3. /\ DOMAIN run' = DOMAIN run
          /\ \A r \in DOMAIN run : run'[r] = IF run[r].engine = Daemon /\ run[r].phase \in Unfinished
                                             THEN [run[r] EXCEPT !.phase = "lost"] ELSE run[r]
      BY <2>2 DEF Crash
    <3> QED  BY <1>h, <3>1, <3>2, <3>3
  <2> QED  BY <2>1, <2>2
<1>4. ASSUME NEW f \in Engines, f # Daemon  PROVE Counted(f)'
  <2>1. Parallel(f)' = Parallel(f) /\ Exclusive(f)' = Exclusive(f) /\ slots'[f] = slots[f]
    BY <1>1, <1>2, <1>3, <1>4 DEF Parallel, Exclusive, Holders
  <2>2. Counted(f)
    BY CountersAreCounts
  <2> QED  BY <2>1, <2>2 DEF Counted
<1>5. Counted(Daemon)'
  <2>1. Parallel(Daemon)' = {} /\ Exclusive(Daemon)' = {}
    BY <1>3 DEF Parallel, Exclusive, Holders
  <2>2. slots'[Daemon] = [parallel |-> 0, exclusive |-> 0]
    BY <1>1, <1>2, EnginesAssumption
  <2> QED  BY <2>1, <2>2, FS_EmptySet DEF Counted
<1>6. CountersExact' <=> \A f \in Engines : Counted(f)'
  BY DEF CountersExact, Counted, Holders, Parallel, Exclusive
<1> QED  BY <1>4, <1>5, <1>6

\* No run, nothing to count.
LEMMA CountersInit == Init => CountersExact
<1> SUFFICES ASSUME Init, NEW e \in Engines  PROVE Counted(e)
  BY CountersAreCounts
<1>1. Parallel(e) = {} /\ Exclusive(e) = {} /\ slots[e] = [parallel |-> 0, exclusive |-> 0]
  BY DEF Init, Parallel, Exclusive, Holders
<1> QED  BY <1>1, FS_EmptySet DEF Counted

\* CountersExact is inductive, given the types.
LEMMA CountersStep ==
  ASSUME TypeInv, CountersExact, [Next]_vars
  PROVE  CountersExact'
<1>1. CASE SameHolders
  <2>1. \A e \in Engines : Parallel(e)' = Parallel(e) /\ Exclusive(e)' = Exclusive(e)
    BY <1>1 DEF SameHolders, Parallel, Exclusive, Holders
  <2>2. \A e \in Engines : Counted(e)'
    BY <1>1, <2>1, CountersAreCounts DEF SameHolders, Counted
  <2>3. CountersExact' <=> \A f \in Engines : Counted(f)'
    BY DEF CountersExact, Counted, Holders, Parallel, Exclusive
  <2> QED  BY <2>2, <2>3
<1>2. ASSUME NEW t \in Tasks, TickLaunch(t)  PROVE CountersExact'
  BY <1>2, LaunchCounts, EnginesAssumption DEF TickLaunch
<1>3. ASSUME NEW n \in now, NowStart(n)  PROVE CountersExact'
  <2>1. n.engine \in Engines
    BY DEF NowType, TypeInv, TypeOK
  <2> QED  BY <1>3, <2>1, LaunchCounts DEF NowStart
<1> QED  BY <1>1, <1>2, <1>3, StepKeepsHolders, FinishCounts, DaemonGoneCounts

\* The counters of parallel and exclusive runs are exactly the runs that hold a
\* slot: the definition a run started with, not the one the operator has edited
\* since, names the counter finish gives back.
THEOREM CountersCount == Spec => []CountersExact
<1>1. Init => TypeInv /\ CountersExact
  BY InitType, CountersInit
<1>2. (TypeInv /\ CountersExact) /\ [Next]_vars => (TypeInv /\ CountersExact)'
  BY TypeStep, CountersStep
<1> QED  BY <1>1, <1>2, PTL DEF Spec

-----------------------------------------------------------------------------
\* Runs alone.

\* Of any two tasks in a queue one is ahead.
LEMMA OneIsAhead ==
  ASSUME NEW order \in Seq(Tasks), NEW t \in Range(order), NEW u \in Range(order), t # u
  PROVE  Ahead(order, t, u) \/ Ahead(order, u, t)
<1>1. PICK i \in 1..Len(order) : order[i] = t
  BY DEF Range
<1>2. PICK j \in 1..Len(order) : order[j] = u
  BY DEF Range
<1>3. i < j \/ j < i
  BY <1>1, <1>2
<1> QED  BY <1>1, <1>2, <1>3 DEF Ahead

\* Select never picks an exclusive task next to another, nor next to a run.
LEMMA SelectTogether ==
  ASSUME NEW order \in Seq(Tasks), NEW due \in SUBSET Range(order), NEW parallel, NEW running,
         NEW t \in Select(due, order, parallel, running)
  PROVE  /\ t \in due /\ ~running.nonParallel
         /\ running.parallel => parallel[t]
         /\ \A u \in Select(due, order, parallel, running) :
              u # t => parallel[t] /\ parallel[u]
<1>1. t \in due /\ ~running.nonParallel /\ (running.parallel => parallel[t])
  BY DEF Select
<1>2. ASSUME NEW u \in Select(due, order, parallel, running), u # t
      PROVE  parallel[t] /\ parallel[u]
  <2>1. u \in due /\ t \in due
    BY DEF Select
  <2>2. CASE Ahead(order, t, u)
    BY <2>1, <2>2 DEF Select
  <2>3. CASE Ahead(order, u, t)
    BY <2>1, <2>3 DEF Select
  <2> QED  BY <1>2, <2>1, <2>2, <2>3, OneIsAhead
<1> QED  BY <1>1, <1>2

\* Only the daemon's tick starts runs nobody asked for.
TickRunsHere == \A r \in DOMAIN run : ~run[r].manual => run[r].engine = Daemon

\* What is assigned comes from the queue the tick has read.
AssignedQueued == tick.pc = "probing" => tick.assigned \subseteq Range(tick.queue)

\* What a tick is about to launch may run together, and next to what holds a
\* slot: nothing else starts or ends meanwhile, the tick holds Engine.mu.
StartsTogether ==
  tick.pc \in {"locked", "launching"} =>
    /\ \A t, u \in tick.starts : t # u => tick.def[t].parallel /\ tick.def[u].parallel
    /\ \A t \in tick.starts, r \in Holders(Daemon) : tick.def[t].parallel /\ run[r].def.parallel

AloneInv == CountersExact /\ TickRunsHere /\ AssignedQueued /\ StartsTogether /\ ExclusiveAlone

\* There is nothing to start and nothing running at first.
LEMMA AloneInit == Init => AloneInv
<1> SUFFICES ASSUME Init  PROVE AloneInv
  OBVIOUS
<1>1. NoTick.pc = "idle"
  BY DEF NoTick
<1> QED  BY <1>1, CountersInit
         DEF Init, AloneInv, TickRunsHere, AssignedQueued, StartsTogether, ExclusiveAlone

\* A step that starts no run adds none to the holders of the daemon.
LEMMA HoldersShrink ==
  ASSUME TypeInv, SameRuns
  PROVE  /\ Holders(Daemon)' \subseteq Holders(Daemon)
         /\ \A r \in Holders(Daemon)' : run'[r].def = run[r].def
         /\ TickRunsHere => TickRunsHere'
         /\ ExclusiveAlone => ExclusiveAlone'
<1>1. \A r \in DOMAIN run' :
        /\ r \in DOMAIN run /\ run'[r].engine = run[r].engine
        /\ run'[r].def = run[r].def /\ run'[r].manual = run[r].manual
        /\ run'[r].phase \in Holding => run[r].phase \in Holding
  BY DEF SameRuns, SameRun, MovesOn, Holding
<1>2. /\ Holders(Daemon)' \subseteq Holders(Daemon)
      /\ \A r \in Holders(Daemon)' : run'[r].def = run[r].def
  BY <1>1 DEF Holders, Holding
<1>3. TickRunsHere => TickRunsHere'
  BY <1>1 DEF TickRunsHere
<1>4. ExclusiveAlone => ExclusiveAlone'
  BY <1>1 DEF ExclusiveAlone, Holding
<1> QED  BY <1>2, <1>3, <1>4

\* What the tick selects may start next to what is running: the counters it
\* asks are the runs.
LEMMA LockStartsTogether ==
  ASSUME TypeInv, CountersExact, AssignedQueued, TickLock
  PROVE  StartsTogether'
<1>1. tick.pc = "probing" /\ tick \in TickType
  BY DEF TickLock, NoTick, TypeInv, TypeOK
<1>2. PICK ready \in Verdicts :
        LET stillDue == {t \in tick.assigned :
                           IsDue(t, tick.def[t],
                                 HasCome(t, tick.def[t]) \/ tick.def[t].trigger = "fixed",
                                 TRUE)}
            runnable == {t \in stillDue : tick.target[t] \in ready \cup {NoProvider}}
            starts   == Select(runnable, tick.queue,
                               [t \in Tasks |-> tick.def[t].parallel],
                               RunningState(Daemon))
        IN tick' = IF starts = {} /\ NewCronTasks(tick.queue, tick.def) = {}
                   THEN NoTick
                   ELSE [tick EXCEPT !.pc = "locked", !.assigned = {},
                                     !.starts = starts, !.waiting = pending]
  BY DEF TickLock
<1> DEFINE stillDue == {t \in tick.assigned :
                          IsDue(t, tick.def[t],
                                HasCome(t, tick.def[t]) \/ tick.def[t].trigger = "fixed", TRUE)}
           runnable == {t \in stillDue : tick.target[t] \in ready \cup {NoProvider}}
           parallel == [t \in Tasks |-> tick.def[t].parallel]
           starts   == Select(runnable, tick.queue, parallel, RunningState(Daemon))
<1>3. \/ tick' = NoTick
      \/ tick' = [tick EXCEPT !.pc = "locked", !.assigned = {},
                              !.starts = starts, !.waiting = pending]
  BY <1>2
<1>4. runnable \in SUBSET Range(tick.queue) /\ tick.queue \in Seq(Tasks)
  BY <1>1 DEF AssignedQueued, TickType
<1>5. \A t \in starts :
        /\ t \in Tasks /\ ~RunningState(Daemon).nonParallel
        /\ RunningState(Daemon).parallel => parallel[t]
        /\ \A u \in starts : u # t => parallel[t] /\ parallel[u]
  <2> HIDE DEF runnable, parallel
  <2> QED  BY <1>4, SelectTogether, QueuedType
<1>6. UNCHANGED <<run, slots>>
  BY DEF TickLock
<1> HIDE DEF starts
<1>7. ASSUME NEW t \in starts, NEW r \in Holders(Daemon)
      PROVE  tick.def[t].parallel /\ run[r].def.parallel
  <2>1. /\ IsFiniteSet(Parallel(Daemon)) /\ IsFiniteSet(Exclusive(Daemon))
        /\ Cardinality(Parallel(Daemon)) \in Nat /\ Cardinality(Exclusive(Daemon)) \in Nat
    BY HoldersFinite
  <2>2. Counted(Daemon)
    BY CountersAreCounts, EnginesAssumption
  <2>3. Exclusive(Daemon) = {}
    <3>1. ~(slots[Daemon].exclusive > 0)
      BY <1>5 DEF RunningState
    <3>2. Cardinality(Exclusive(Daemon)) = 0
      BY <2>1, <2>2, <3>1 DEF Counted
    <3> QED  BY <2>1, <3>2, FS_EmptySet
  <2>4. run[r].def.parallel /\ r \in Parallel(Daemon)
    BY <2>3 DEF Exclusive, Parallel
  <2>5. slots[Daemon].parallel > 0
    <3>1. Cardinality(Parallel(Daemon)) # 0
      BY <2>1, <2>4, FS_EmptySet
    <3> QED  BY <2>1, <2>2, <3>1 DEF Counted
  <2>6. tick.def[t].parallel
    BY <1>5, <2>5 DEF RunningState
  <2> QED  BY <2>4, <2>6
<1>8. CASE tick' = NoTick
  BY <1>8 DEF StartsTogether, NoTick
<1>9. CASE tick' = [tick EXCEPT !.pc = "locked", !.assigned = {},
                                !.starts = starts, !.waiting = pending]
  <2>1. tick'.starts = starts /\ tick'.def = tick.def
    BY <1>1, <1>9 DEF TickType
  <2>2. Holders(Daemon)' = Holders(Daemon)
    BY <1>6 DEF Holders
  <2> QED  BY <1>5, <1>6, <1>7, <2>1, <2>2 DEF StartsTogether
<1> QED  BY <1>3, <1>8, <1>9

\* A tick under way has read its queue at the beginning.
LEMMA AssignedStep ==
  ASSUME TypeInv, AssignedQueued, [Next]_vars
  PROVE  AssignedQueued'
<1> USE DEF vars, disk, memory, operator, config, state
<1>n. NoTick.pc = "idle" /\ (tick.pc # "idle" => tick \in TickType)
  BY DEF NoTick, TickType, TypeInv, TypeOK
<1>1. CASE tick'.pc # "probing"
  BY <1>1 DEF AssignedQueued
<1>2. CASE tick' = tick
  BY <1>2 DEF AssignedQueued
<1>3. ASSUME TickBegin, tick'.pc = "probing"  PROVE AssignedQueued'
  <2>1. PICK usable, target :
          tick' = [NoTick EXCEPT !.pc = "probing", !.began = Len(run),
                                 !.queue = queue, !.def = def,
                                 !.assigned = Assigned(usable), !.target = target]
    BY <1>n, <1>3 DEF TickBegin
  <2>2. tick'.assigned = Assigned(usable) /\ tick'.queue = queue
    BY <2>1 DEF NoTick
  <2> QED  BY <2>2 DEF AssignedQueued, Assigned, DueTasks, Queued
<1>4. ASSUME Tick, ~TickBegin  PROVE tick'.pc # "probing"
  <2>1. CASE TickAbandoned \/ \E t \in Tasks : TickLaunchFails(t)
    BY <1>n, <2>1 DEF TickAbandoned, TickLaunchFails
  <2>2. CASE TickLock
    <3>1. tick \in TickType /\ (tick' = NoTick \/ \E S, w : tick' = [tick EXCEPT
            !.pc = "locked", !.assigned = {}, !.starts = S, !.waiting = w])
      BY <1>n, <2>2 DEF TickLock
    <3> QED  BY <1>n, <3>1 DEF TickType
  <2>3. CASE TickRecord
    BY <1>n, <2>3 DEF TickRecord, TickType
  <2>4. ASSUME NEW t \in Tasks, TickLaunch(t)  PROVE tick'.pc # "probing"
    BY <1>n, <2>4 DEF TickLaunch, NextStart, Launched, TickType
  <2> QED  BY <1>4, <2>1, <2>2, <2>3, <2>4 DEF Tick
<1>5. ASSUME RunRequest \/ QueueRequest \/ Manual  PROVE tick' = tick
  BY <1>5 DEF RunRequest, CancelRun, TakeOverRun, TakeOverAnswered, TakeOverTimesOut,
              ContinueFinished, CancelResume, CloseTerminal, CancelResumeRetire,
              CancelResumeUnqueue, CancelResumeRecord,
              QueueRequest, AddTask, AddTaskCommit, RemoveTask, ForgetTask, EditTask,
              SetPaused, Move, Manual, NowBegin, NowRefused, NowStart
<1>6. ASSUME NEW r \in DOMAIN run, Finish(r)  PROVE tick' = tick
  BY <1>6 DEF Finish, FinishLock, FinishLimited, FinishRetire, FinishUnqueue,
              FinishDeactivate, FinishRecord
<1>7. ASSUME NEW r \in DOMAIN run, NEW o \in {"success", "failed", "rate_limited"},
             RunExits(r, o)
      PROVE  tick' = tick
  BY <1>7 DEF RunExits
<1>8. ASSUME NEW t \in Tasks, TriggerComes(t)  PROVE tick' = tick
  BY <1>8 DEF TriggerComes
<1>9. ASSUME NEW e \in Engines, NEW p \in Providers, GateReopens(e, p)  PROVE tick' = tick
  BY <1>9 DEF GateReopens
<1>10. ASSUME Stop \/ Restart \/ UNCHANGED vars  PROVE tick' = tick
  BY <1>10 DEF Stop, Restart
<1>11. ASSUME Exit \/ Crash  PROVE tick'.pc # "probing"
  BY <1>n, <1>11 DEF Exit, Crash, DaemonGone
<1> QED  BY <1>1, <1>2, <1>3, <1>4, <1>5, <1>6, <1>7, <1>8, <1>9, <1>10, <1>11 DEF Next

\* AloneInv is inductive, given the types.
LEMMA AloneStep ==
  ASSUME TypeInv, AloneInv, [Next]_vars
  PROVE  AloneInv'
<1> USE DEF AloneInv
<1>n. NoTick.pc = "idle" /\ (tick.pc # "idle" => tick \in TickType)
  BY DEF NoTick, TickType, TypeInv, TypeOK
<1>1. CountersExact' /\ AssignedQueued'
  BY CountersStep, AssignedStep
<1>2. CASE SameRuns
  <2>1. TickRunsHere' /\ ExclusiveAlone'
    BY <1>2, HoldersShrink
  <2>2. StartsTogether'
    <3>1. SUFFICES ASSUME tick'.pc \in {"locked", "launching"}  PROVE StartsTogether'
      BY DEF StartsTogether
    <3>2. CASE TickLock
      BY <3>2, LockStartsTogether
    <3>3. CASE tick' = tick \/ TickRecord \/ \E t \in Tasks : TickLaunch(t)
      <4>1. /\ tick.pc \in {"locked", "launching"} /\ tick'.def = tick.def
            /\ tick'.starts \subseteq tick.starts
        BY <1>n, <3>1, <3>3, ZenonT(60) DEF TickRecord, TickLaunch, NextStart, Launched, TickType
      <4> QED  BY <1>2, <4>1, HoldersShrink DEF StartsTogether
    <3> QED  BY <3>1, <3>2, <3>3, StepKeepsStarts
  <2> QED  BY <1>1, <2>1, <2>2
<1>3. ASSUME NEW t \in Tasks, TickLaunch(t)  PROVE AloneInv'
  <2>1. /\ tick.pc = "launching" /\ t \in tick.starts /\ tick \in TickType
        /\ Launch(Daemon, t, tick.def[t], tick.target[t], tick.waiting[t], FALSE)
        /\ tick' = Launched(t)
    BY <1>3, <1>n DEF TickLaunch, NextStart
  <2>2. PICK r : /\ r \notin DOMAIN run /\ DOMAIN run' = DOMAIN run \cup {r}
                 /\ run'[r].engine = Daemon /\ run'[r].def = tick.def[t] /\ ~run'[r].manual
                 /\ \A s \in DOMAIN run : run'[s] = run[s]
    BY <2>1, LaunchAdds, ZenonT(60)
  <2>3. TickRunsHere'
    BY <2>2 DEF TickRunsHere
  <2>4. ExclusiveAlone'
    <3>1. \A s \in Holders(Daemon) : tick.def[t].parallel /\ run[s].def.parallel
      BY <2>1 DEF StartsTogether
    <3>2. \A s \in DOMAIN run : run'[s].engine = Daemon /\ run'[s].phase \in Holding
                                => run'[s].def.parallel /\ run'[r].def.parallel
      BY <2>2, <3>1 DEF Holders
    <3>3. ASSUME NEW x \in DOMAIN run', NEW y \in DOMAIN run',
                 x # y, ~run'[x].manual, ~run'[y].manual, run'[x].engine = run'[y].engine,
                 run'[x].phase \in Holding, run'[y].phase \in Holding
          PROVE  run'[x].def.parallel /\ run'[y].def.parallel
      <4>1. CASE x \in DOMAIN run /\ y \in DOMAIN run
        BY <2>2, <3>3, <4>1 DEF ExclusiveAlone
      <4>2. CASE x = r
        BY <2>2, <3>2, <3>3, <4>2
      <4>3. CASE y = r
        BY <2>2, <3>2, <3>3, <4>3
      <4> QED  BY <2>2, <4>1, <4>2, <4>3
    <3> QED  BY <3>3 DEF ExclusiveAlone, Holding
  <2>5. StartsTogether'
    <3>1. CASE tick' = NoTick
      BY <1>n, <3>1 DEF StartsTogether
    <3>2. CASE tick' # NoTick
      <4>1. /\ tick.starts # {t} /\ tick'.starts = tick.starts \ {t} /\ tick'.def = tick.def
        BY <2>1, <3>2 DEF Launched, TickType
      <4>2. \A u \in tick'.starts : tick.def[u].parallel /\ tick.def[t].parallel
        BY <2>1, <4>1 DEF StartsTogether
      <4>3. \A s \in Holders(Daemon)' : s = r \/ s \in Holders(Daemon)
        BY <2>2 DEF Holders, Holding
      <4>4. \A s \in Holders(Daemon) : s \in DOMAIN run /\ run'[s] = run[s]
        BY <2>2 DEF Holders
      <4> QED  BY <2>1, <2>2, <4>1, <4>2, <4>3, <4>4 DEF StartsTogether
    <3> QED  BY <3>1, <3>2
  <2> QED  BY <1>1, <2>3, <2>4, <2>5
<1>4. ASSUME NEW n \in now, NowStart(n)  PROVE AloneInv'
  <2>1. /\ Launch(n.engine, n.task, n.def, n.provider, n.waiting, TRUE)
        /\ MuFree(n.engine) /\ tick' = tick
    BY <1>4 DEF NowStart
  <2>2. PICK r : /\ r \notin DOMAIN run /\ DOMAIN run' = DOMAIN run \cup {r}
                 /\ run'[r].engine = n.engine /\ run'[r].manual
                 /\ \A s \in DOMAIN run : run'[s] = run[s]
    BY <2>1, LaunchAdds
  <2>3. TickRunsHere' /\ ExclusiveAlone'
    <3>1. TickRunsHere'
      BY <2>2 DEF TickRunsHere
    <3>2. ASSUME NEW x \in DOMAIN run', NEW y \in DOMAIN run',
                 x # y, ~run'[x].manual, ~run'[y].manual, run'[x].engine = run'[y].engine,
                 run'[x].phase \in Holding, run'[y].phase \in Holding
          PROVE  run'[x].def.parallel /\ run'[y].def.parallel
      <4>1. x \in DOMAIN run /\ y \in DOMAIN run
        BY <2>2, <3>2
      <4> QED  BY <2>2, <3>2, <4>1 DEF ExclusiveAlone
    <3> QED  BY <3>1, <3>2 DEF ExclusiveAlone, Holding
  <2>4. StartsTogether'
    <3>1. SUFFICES ASSUME tick.pc \in {"locked", "launching"}  PROVE StartsTogether'
      BY <2>1 DEF StartsTogether
    <3>2. n.engine # Daemon
      BY <2>1, <3>1 DEF MuFree
    <3>3. Holders(Daemon)' = Holders(Daemon) /\ \A s \in Holders(Daemon) : run'[s] = run[s]
      BY <2>2, <3>2 DEF Holders, Holding
    <3> QED  BY <2>1, <3>3 DEF StartsTogether
  <2> QED  BY <1>1, <2>3, <2>4
<1> QED  BY <1>2, <1>3, <1>4, StepKeepsRuns

\* Of the runs the scheduler started, a task that runs alone shares the machine
\* with no other: what a tick selects fits with what the counters say is
\* running, and Engine.mu keeps that so until the last of them is launched.
THEOREM AloneMeansAlone == Spec => []ExclusiveAlone
<1>1. Init => TypeInv /\ AloneInv
  BY InitType, AloneInit
<1>2. (TypeInv /\ AloneInv) /\ [Next]_vars => (TypeInv /\ AloneInv)'
  BY TypeStep, AloneStep
<1>3. AloneInv => ExclusiveAlone
  BY DEF AloneInv
<1> QED  BY <1>1, <1>2, <1>3, PTL DEF Spec

===============================================================================
