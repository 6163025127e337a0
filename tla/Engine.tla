------------------------------- MODULE Engine -------------------------------
(***************************************************************************)
(* The life of a queued task: the scheduler's tick, the runs it starts,    *)
(* what a run leaves behind when it ends, and everything an operator can   *)
(* do to the queue meanwhile (internal/engine, internal/app and the task   *)
(* and run handlers of internal/api), over the files of internal/store.    *)
(*                                                                         *)
(* One step is what happens between two points where somebody else may     *)
(* act: a section of Engine.mu, one read-modify-write of config.toml or    *)
(* state.json (Store.UpdateConfig, UpdateState), one append to the run     *)
(* history.  A tick takes four of them, a finishing run five.              *)
(*                                                                         *)
(* An engine is one process.  The daemon is one; "dispatchq run-now" makes *)
(* another, with running set and gates of its own, on the same files.      *)
(*                                                                         *)
(* Left to other modules: pools, backfill and the order of one pass        *)
(* (Planning), groups and editing (Queue), readings of the allowance       *)
(* (Readings), notifications (Announce, Providers), wake-ups (Wakes), the  *)
(* files of the store (Store).  Session ids are run ids: the run that      *)
(* opened the session.                                                     *)
(*                                                                         *)
(* An operator whose name adds a deviation to the name of the one it       *)
(* stands before (FinishLockByQueue, FinishLock) is a bug the properties   *)
(* have to notice; the specification uses none of them.                    *)
(***************************************************************************)
EXTENDS Schedule, Workflow, SequencesExt

CONSTANTS
  Tasks,        \* task ids
  Providers,    \* configured provider instances
  NoProvider,   \* the provider of a script job
  Engines,      \* engine processes
  Daemon,       \* the one that ticks and serves the API
  Definitions,  \* Definitions[t]: the ways the operator may define task t
  DependsOn,    \* DependsOn[t]: the jobs t waits for
  Fallback,     \* Fallback[p]: the chain of providers behind p, nearest first
  Flaky,        \* the providers whose readiness probe may fail
  Requests,     \* which operator requests and accidents happen
  InitialQueue, \* the queue at the start, highest priority first
  HistoryLimit, \* how many runs the history keeps
  MaxRuns,      \* bound: runs ever started
  MaxLimits,    \* bound: rate limits ever hit
  MaxRequests   \* bound: operator requests and accidents

ASSUME EnginesAssumption == Daemon \in Engines
ASSUME ProvidersAssumption ==
  /\ NoProvider \notin Providers
  /\ Flaky \subseteq Providers
  /\ Fallback \in [Providers -> Seq(Providers)]
ASSUME BoundsAssumption ==
  /\ HistoryLimit \in Nat \ {0}
  /\ MaxRuns \in Nat /\ MaxLimits \in Nat /\ MaxRequests \in Nat

Definition == [trigger : {"asap", "fixed", "cron"}, parallel : BOOLEAN,
               quiet : BOOLEAN, enabled : BOOLEAN,
               provider : Providers \cup {NoProvider}]

ASSUME TasksAssumption ==
  /\ Definitions \in [Tasks -> SUBSET Definition]
  /\ \A t \in Tasks : Definitions[t] # {}
  /\ DependsOn \in [Tasks -> SUBSET Tasks]
  /\ InitialQueue \in Seq(Tasks)

RunIds    == 1..MaxRuns
NoSession == 0
Sessions  == {NoSession} \cup RunIds

\* A session a task is to continue, and the provider that issued it.
PendingResume == [session : Sessions, provider : Providers \cup {NoProvider}]
NothingPending == [session |-> NoSession, provider |-> NoProvider]

Statuses  == {"running", "success", "failed", "rate_limited", "canceled"}
RunRecord == [run : RunIds, task : Tasks, status : Statuses, session : Sessions]

-----------------------------------------------------------------------------
VARIABLES
  \* config.toml
  queue,        \* the queued tasks, highest priority first
  def,          \* how each task is defined
  paused,       \* the global pause switch
  \* state.json
  anchored,     \* tasks with a LastStarted entry
  ripe,         \* tasks whose trigger time has come (see Schedule)
  completed,    \* CompletedOnce
  pending,      \* PendingResumes
  \* history.jsonl
  hist,         \* as Store.Runs collapses it
  \* the engines
  stage,        \* the daemon: "up", "draining" on shutdown, "down"
  active,       \* active[e]: the tasks e has running
  slots,        \* slots[e]: e's counters of parallel and exclusive runs
  limited,      \* limited[e]: the providers whose gate is closed in e
  tick,         \* the daemon's tick in progress
  now,          \* now[e]: a manual start in progress
  run,          \* every run ever started, by run id
  \* the operator
  request,      \* a request that takes several steps
  takers,       \* runs somebody waits for, to continue them by hand
  byHand,       \* sessions continued by hand in a terminal
  limits,       \* rate limits hit so far
  requests      \* requests and accidents so far

config   == <<queue, def, paused>>
state    == <<anchored, ripe, completed, pending>>
disk     == <<config, state, hist>>
memory   == <<stage, active, slots, limited, tick, now, run>>
operator == <<request, takers, byHand, limits, requests>>
vars     == <<disk, memory, operator>>

-----------------------------------------------------------------------------
\* Helpers on the queue and the history.

Queued == Range(queue)

Without(q, t) ==
  IF \E i \in 1..Len(q) : q[i] = t
  THEN RemoveAt(q, CHOOSE i \in 1..Len(q) : q[i] = t)
  ELSE q

\* AppendRun as Runs collapses it: a later event of a run supersedes the
\* earlier one in its place, a run not recorded yet goes to the end.
HistPut(h, rec) ==
  IF \E i \in 1..Len(h) : h[i].run = rec.run
  THEN [i \in 1..Len(h) |-> IF h[i].run = rec.run THEN rec ELSE h[i]]
  ELSE Append(h, rec)

\* PruneHistory: only the most recent runs are kept, whatever their status.
Prune(h) ==
  IF Len(h) <= HistoryLimit THEN h
  ELSE SubSeq(h, Len(h) - HistoryLimit + 1, Len(h))

\* ReconcileRunningRuns: what is still recorded as running has failed.
ReconcileLast(h) ==
  [i \in 1..Len(h) |->
     IF i = Len(h) /\ h[i].status = "running"
     THEN [h[i] EXCEPT !.status = "failed"] ELSE h[i]]

ReconcileUnlessSuccess(h) ==
  [i \in 1..Len(h) |->
     IF h[i].status # "success" THEN [h[i] EXCEPT !.status = "failed"] ELSE h[i]]

Reconcile(h) ==
  [i \in 1..Len(h) |->
     IF h[i].status = "running" THEN [h[i] EXCEPT !.status = "failed"] ELSE h[i]]

-----------------------------------------------------------------------------
\* The runs.

\* Where a run is: "executing" until its process is gone, then through
\* Engine.finish: its slot is "released", its outcome is being written
\* ("retiring" a one-shot takes two writes), "settled" once it is, "inactive"
\* when its task has left the running set, "done" when it is recorded.
\* A daemon that dies leaves its unfinished runs "lost".
Phases == {"executing", "exited", "released", "retiring",
           "settled", "inactive", "done", "lost"}

Holding   == {"executing", "exited"}                    \* occupies a slot
Occupying == Holding \cup {"released", "retiring", "settled"} \* its task is active
Unfinished == Occupying \cup {"inactive"}

RunType == [phase : Phases, engine : Engines, task : Tasks, def : Definition,
            provider : Providers \cup {NoProvider}, session : Sessions,
            resumed : BOOLEAN, manual : BOOLEAN, canceled : BOOLEAN,
            status : Statuses]

Record(r) == [run |-> r, task |-> run[r].task, status |-> run[r].status,
              session |-> run[r].session]

\* Engine.mu: a tick holds it from its second look at the state to its last
\* launch; every other section is a single step.
MuFree(e) == e = Daemon => tick.pc \notin {"locked", "launching"}

Alive(e) == e = Daemon => stage # "down"

\* runningState: what a new start has to share the machine with.
RunningState(e) == [nonParallel |-> slots[e].exclusive > 0,
                    parallel    |-> slots[e].parallel > 0]

\* A cron task without an anchor is given one of now: its time has not come.
HasCome(t, d) == t \in ripe /\ (d.trigger = "cron" => t \in anchored)

\* isDue for a definition the tick read.
IsDue(t, d, hasCome, dependenciesMet) ==
  Due(d, t \in active[Daemon], t \in completed, hasCome, dependenciesMet)

\* ResolveAvailable for a task that names an instance: the nearest usable hop
\* with allowance left, or the instance itself when it is open or no hop is.
Resolve(p, closed, usable) ==
  IF p = NoProvider \/ p \notin closed THEN p
  ELSE LET open == {i \in 1..Len(Fallback[p]) : Fallback[p][i] \in usable \ closed}
       IN IF open = {} THEN p
          ELSE Fallback[p][CHOOSE i \in open : \A j \in open : i <= j]

\* A readiness verdict on every provider; only a flaky one may fail it.
Verdicts == {ready \in SUBSET Providers : Providers \ Flaky \subseteq ready}

\* sessionFor: a waiting session is continued only by the provider that issued
\* it; a script has none.
ContinuesAnySession(p, waiting) == p # NoProvider /\ waiting.session # NoSession

ContinuesSession(p, waiting) ==
  p # NoProvider /\ waiting.session # NoSession /\ waiting.provider = p

SessionFor(r, p, waiting) ==
  IF p = NoProvider THEN NoSession
  ELSE IF ContinuesSession(p, waiting) THEN waiting.session ELSE r

\* RecordStart: the anchor of the next occurrence moves to now.
RecordStart(ts) ==
  /\ anchored' = anchored \cup ts
  /\ ripe' = {t \in ripe : ~(t \in ts /\ def[t].trigger = "cron")}

\* The counter a run of definition d occupies goes up by one or down by one.
CountSlot(e, d, by) ==
  slots' = IF d.parallel THEN [slots EXCEPT ![e].parallel = @ + by]
           ELSE [slots EXCEPT ![e].exclusive = @ + by]

\* launchTask: a run of t under definition d on provider p, as the next run.
\* A quiet task's run is not recorded while it runs.
Launch(e, t, d, p, waiting, manual) ==
  LET r == Len(run) + 1
      start == [phase |-> "executing", engine |-> e, task |-> t, def |-> d,
                provider |-> p, session |-> SessionFor(r, p, waiting),
                resumed |-> ContinuesSession(p, waiting), manual |-> manual,
                canceled |-> FALSE, status |-> "running"]
  IN /\ run' = Append(run, start)
     /\ hist' = IF d.quiet THEN hist
                ELSE HistPut(hist, [run |-> r, task |-> t, status |-> "running",
                                    session |-> start.session])
     /\ active' = [active EXCEPT ![e] = @ \cup {t}]
     /\ CountSlot(e, d, 1)

-----------------------------------------------------------------------------
\* What several steps are made of.

NoTick == [pc |-> "idle", began |-> 0, queue |-> <<>>, def |-> <<>>,
           assigned |-> {}, target |-> <<>>, starts |-> {}, waiting |-> <<>>]

\* An operator request, a limit or an accident counts against its bound.
Asked(kind) ==
  /\ kind \in Requests
  /\ requests < MaxRequests
  /\ requests' = requests + 1

Init ==
  /\ queue = InitialQueue
  /\ def \in [Tasks -> Definition] /\ \A t \in Tasks : def[t] \in Definitions[t]
  /\ paused = FALSE
  /\ anchored = {} /\ ripe = {} /\ completed = {}
  /\ pending = [t \in Tasks |-> NothingPending]
  /\ hist = <<>>
  /\ stage = "up"
  /\ active = [e \in Engines |-> {}]
  /\ slots = [e \in Engines |-> [parallel |-> 0, exclusive |-> 0]]
  /\ limited = [e \in Engines |-> {}]
  /\ tick = NoTick
  /\ now = {} /\ run = <<>>
  /\ request = {} /\ takers = {} /\ byHand = {} /\ limits = 0 /\ requests = 0

-----------------------------------------------------------------------------
\* Time.

\* A start time passes: a fixed one, or the next occurrence after an anchor.
TriggerComes(t) ==
  /\ t \notin ripe
  /\ def[t].trigger = "fixed" \/ (def[t].trigger = "cron" /\ t \in anchored)
  /\ ripe' = ripe \cup {t}
  /\ UNCHANGED <<config, anchored, completed, pending, hist, memory, operator>>

\* A provider's rate-limit gate reopens.
GateReopens(e, p) ==
  /\ p \in limited[e]
  /\ limited' = [limited EXCEPT ![e] = @ \ {p}]
  /\ UNCHANGED <<disk, stage, active, slots, tick, now, run, operator>>

-----------------------------------------------------------------------------
\* Engine.Tick.

\* seedCronAnchors: the cron tasks of a queue that have no anchor yet.
NewCronTasks(q, defs) ==
  {t \in Range(q) : defs[t].trigger = "cron" /\ t \notin anchored}

\* dependencyState: what a waiting task waits for, from the run history.
DependenciesMet(t) == Ready(DependsOn[t], Queued, hist)

\* dueTasks: the first look, which only decides what is worth probing.
DueTasks ==
  {t \in Queued : IsDue(t, def[t], HasCome(t, def[t]), DependenciesMet(t))}

\* assign: each due task is given the provider it would run on; a task whose
\* gate is closed, and every fallback behind it, is dropped.
Target(usable) == [t \in Tasks |-> Resolve(def[t].provider, limited[Daemon], usable)]

Assigned(usable) == {t \in DueTasks : Target(usable)[t] \notin limited[Daemon]}

\* The configuration is read and the due tasks are assigned; their harnesses
\* are then probed, outside the lock.  "began" is not in the code: which runs
\* had been started by then.  While the queue is paused, and when
\* there is nothing to do, a tick changes nothing.
TickBegin ==
  /\ stage = "up" /\ tick.pc = "idle"
  /\ \E usable \in Verdicts :
       tick' = IF paused \/ (Assigned(usable) = {} /\ NewCronTasks(queue, def) = {})
               THEN NoTick
               ELSE [NoTick EXCEPT
                       !.pc = "probing", !.began = Len(run),
                       !.queue = queue, !.def = def,
                       !.assigned = Assigned(usable),
                       !.target = [t \in Tasks |-> IF t \in Assigned(usable)
                                                   THEN Target(usable)[t] ELSE NoProvider]]
  /\ UNCHANGED <<disk, stage, active, slots, limited, now, run, operator>>

\* A daemon that is stopping trusts no probe and starts nothing.
TickAbandoned ==
  /\ stage = "draining" /\ tick.pc = "probing"
  /\ tick' = NoTick
  /\ UNCHANGED <<disk, stage, active, slots, limited, now, run, operator>>

\* Under the lock the scheduling state is read again, the tasks are judged
\* again by it (not their dependencies), and the ones to start are selected.
\* The shutdown check comes before the lock, so a stop may fall in between.
TickLock ==
  /\ stage # "down" /\ tick.pc = "probing"
  /\ \E ready \in Verdicts :
       LET stillDue == {t \in tick.assigned :
                          IsDue(t, tick.def[t],
                                HasCome(t, tick.def[t]) \/ tick.def[t].trigger = "fixed",
                                TRUE)}
           runnable == {t \in stillDue : tick.target[t] \in ready \cup {NoProvider}}
           starts   == Select(runnable, tick.queue,
                              [t \in Tasks |-> tick.def[t].parallel],
                              RunningState(Daemon))
       IN tick' = IF starts = {} /\ NewCronTasks(tick.queue, tick.def) = {}
                  THEN NoTick
                  ELSE [tick EXCEPT !.pc = "locked", !.assigned = {},
                                    !.starts = starts, !.waiting = pending]
  /\ UNCHANGED <<disk, stage, active, slots, limited, now, run, operator>>

\* The starts are recorded in state.json, together with an anchor for every
\* cron task that has none yet.
TickRecord ==
  /\ stage # "down" /\ tick.pc = "locked"
  /\ RecordStart(tick.starts \cup NewCronTasks(tick.queue, tick.def))
  /\ tick' = IF tick.starts = {} THEN NoTick ELSE [tick EXCEPT !.pc = "launching"]
  /\ UNCHANGED <<config, completed, pending, hist,
                 stage, active, slots, limited, now, run, operator>>

\* The selected tasks are launched one by one, in priority order.
NextStart(t) ==
  /\ stage # "down" /\ tick.pc = "launching"
  /\ t \in tick.starts
  /\ \A u \in tick.starts : ~Ahead(tick.queue, u, t)

Launched(t) ==
  IF tick.starts = {t} THEN NoTick ELSE [tick EXCEPT !.starts = @ \ {t}]

TickLaunch(t) ==
  /\ NextStart(t)
  /\ Len(run) < MaxRuns
  /\ Launch(Daemon, t, tick.def[t], tick.target[t], tick.waiting[t], FALSE)
  /\ tick' = Launched(t)
  /\ UNCHANGED <<config, state, stage, limited, now, operator>>

\* launchTask cannot create the run's log or record its start: the tick fails,
\* the loop ends, and the daemon exits once the runs in flight have finished.
\* At the bound on runs every launch fails like this.
TickLaunchFails(t) ==
  /\ NextStart(t)
  /\ IF Len(run) = MaxRuns THEN UNCHANGED requests ELSE Asked("launch fails")
  /\ tick' = NoTick
  /\ stage' = "draining"
  /\ UNCHANGED <<disk, active, slots, limited, now, run,
                 request, takers, byHand, limits>>

-----------------------------------------------------------------------------
\* Engine.RunTaskNow: the operator overrides the schedule.

\* The configuration and the state are read and the provider is probed,
\* without the lock.  A run-now on the command line is a process of its own,
\* whose gates are all open.
NowBegin(e, t) ==
  /\ Asked(IF e = Daemon THEN "now" ELSE "now from the CLI")
  /\ Alive(e) /\ ~paused /\ t \in Queued
  /\ e # Daemon => active[e] = {} /\ \A n \in now : n.engine # e
  /\ limited' = IF e = Daemon THEN limited ELSE [limited EXCEPT ![e] = {}]
  /\ \E usable \in Verdicts :
       now' = now \cup
         {[engine |-> e, task |-> t, def |-> def[t], waiting |-> pending[t],
           provider |-> Resolve(def[t].provider, limited'[e], usable)]}
  /\ UNCHANGED <<disk, stage, active, slots, tick, run,
                 request, takers, byHand, limits>>

\* The probe fails, or the task is running by now: the start is refused.
NowRefused(n) ==
  /\ n \in now
  /\ n.provider \in Flaky \/ n.task \in active[n.engine] \/ Len(run) = MaxRuns
  /\ now' = now \ {n}
  /\ UNCHANGED <<disk, stage, active, slots, limited, tick, run, operator>>

\* Under the lock, the task starts with what was read before the probe.
NowStart(n) ==
  /\ n \in now
  /\ Alive(n.engine) /\ MuFree(n.engine)
  /\ n.task \notin active[n.engine]
  /\ Len(run) < MaxRuns
  /\ RecordStart({n.task})
  /\ Launch(n.engine, n.task, n.def, n.provider, n.waiting, TRUE)
  /\ now' = now \ {n}
  /\ UNCHANGED <<config, completed, pending, stage, limited, tick, operator>>

-----------------------------------------------------------------------------
\* Executor.Run and Engine.finish.

\* The process ends, with the outcome the executor makes of its output.
RunExits(r, outcome) ==
  /\ run[r].phase = "executing"
  /\ IF outcome = "rate_limited"
     THEN run[r].provider # NoProvider /\ limits < MaxLimits /\ limits' = limits + 1
     ELSE UNCHANGED limits
  /\ run' = [run EXCEPT ![r].phase = "exited", ![r].status = outcome]
  /\ UNCHANGED <<disk, stage, active, slots, limited, tick, now,
                 request, takers, byHand, requests>>

\* First section of finish: the slot is given back, and a run the user stopped
\* is canceled unless it succeeded before the kill landed.
FinishStatus(r) ==
  IF run[r].canceled /\ run[r].status # "success" THEN "canceled" ELSE run[r].status

FinishLockByQueue(r) ==
  /\ run[r].phase = "exited"
  /\ MuFree(run[r].engine)
  /\ CountSlot(run[r].engine, def[run[r].task], -1)
  /\ run' = [run EXCEPT ![r].phase = "released", ![r].status = FinishStatus(r)]
  /\ UNCHANGED <<disk, stage, active, limited, tick, now, operator>>

FinishLockParallelOnly(r) ==
  /\ run[r].phase = "exited"
  /\ MuFree(run[r].engine)
  /\ slots' = [slots EXCEPT ![run[r].engine].parallel = @ - 1]
  /\ run' = [run EXCEPT ![r].phase = "released", ![r].status = FinishStatus(r)]
  /\ UNCHANGED <<disk, stage, active, limited, tick, now, operator>>

FinishLock(r) ==
  /\ run[r].phase = "exited"
  /\ MuFree(run[r].engine)
  /\ CountSlot(run[r].engine, run[r].def, -1)
  /\ run' = [run EXCEPT ![r].phase = "released", ![r].status = FinishStatus(r)]
  /\ UNCHANGED <<disk, stage, active, limited, tick, now, operator>>

\* retire's first write: the pending session is forgotten, and a one-shot is
\* marked completed.
RetireWithoutClearing(t, oneShot) ==
  /\ completed' = IF oneShot THEN completed \cup {t} ELSE completed
  /\ UNCHANGED pending

RetireWithoutCompleting(t, oneShot) ==
  /\ pending' = [pending EXCEPT ![t] = NothingPending]
  /\ UNCHANGED completed

Retire(t, oneShot) ==
  /\ pending' = [pending EXCEPT ![t] = NothingPending]
  /\ completed' = IF oneShot THEN completed \cup {t} ELSE completed

\* A rate limit closes the provider's gate and keeps the session for later.
FinishLimited(r) ==
  LET e == run[r].engine IN
  /\ run[r].phase = "released" /\ run[r].status = "rate_limited"
  /\ limited' = [limited EXCEPT ![e] = @ \cup {run[r].provider}]
  /\ pending' = [pending EXCEPT ![run[r].task] =
                   [session |-> run[r].session, provider |-> run[r].provider]]
  /\ run' = [run EXCEPT ![r].phase = "settled"]
  /\ UNCHANGED <<config, anchored, ripe, completed, hist,
                 stage, active, slots, tick, now, operator>>

\* Any other outcome retires the task, a one-shot by the definition the run
\* started with; taking it out of the queue is another write, to another file.
FinishRetireUnlessCanceled(r) ==
  LET oneShot == OneShot(run[r].def) /\ run[r].status # "canceled" IN
  /\ run[r].phase = "released" /\ run[r].status # "rate_limited"
  /\ IF run[r].status = "canceled" THEN UNCHANGED <<pending, completed>>
     ELSE Retire(run[r].task, oneShot)
  /\ run' = [run EXCEPT ![r].phase = IF oneShot THEN "retiring" ELSE "settled"]
  /\ UNCHANGED <<config, anchored, ripe, hist,
                 stage, active, slots, limited, tick, now, operator>>

FinishRetire(r) ==
  LET oneShot == OneShot(run[r].def) IN
  /\ run[r].phase = "released" /\ run[r].status # "rate_limited"
  /\ Retire(run[r].task, oneShot)
  /\ run' = [run EXCEPT ![r].phase = IF oneShot THEN "retiring" ELSE "settled"]
  /\ UNCHANGED <<config, anchored, ripe, hist,
                 stage, active, slots, limited, tick, now, operator>>

FinishUnqueue(r) ==
  /\ run[r].phase = "retiring"
  /\ queue' = Without(queue, run[r].task)
  /\ run' = [run EXCEPT ![r].phase = "settled"]
  /\ UNCHANGED <<def, paused, state, hist,
                 stage, active, slots, limited, tick, now, operator>>

\* Only then does the task leave the running set.
FinishDeactivate(r) ==
  LET e == run[r].engine IN
  /\ run[r].phase = "settled"
  /\ MuFree(e)
  /\ active' = [active EXCEPT ![e] = @ \ {run[r].task}]
  /\ run' = [run EXCEPT ![r].phase = "inactive"]
  /\ UNCHANGED <<disk, stage, slots, limited, tick, now, operator>>

\* The outcome goes into the history; a quiet task's success leaves no trace.
FinishRecord(r) ==
  /\ run[r].phase = "inactive"
  /\ hist' = IF run[r].def.quiet /\ run[r].status = "success" THEN hist
             ELSE Prune(HistPut(hist, Record(r)))
  /\ run' = [run EXCEPT ![r].phase = "done"]
  /\ UNCHANGED <<config, state, stage, active, slots, limited, tick, now, operator>>

-----------------------------------------------------------------------------
\* Stopping, resuming and continuing runs.

InHistory(r) == \E i \in 1..Len(hist) : hist[i].run = r
Entry(r)     == hist[CHOOSE i \in 1..Len(hist) : hist[i].run = r]

\* The daemon has the run in Engine.cancels.
Cancelable(r) == run[r].engine = Daemon /\ run[r].phase \in Holding

\* CancelRun of a run in flight.
CancelRun(r) ==
  /\ Asked("cancel")
  /\ Cancelable(r) /\ MuFree(Daemon)
  /\ ~run[r].canceled
  /\ run' = [run EXCEPT ![r].canceled = TRUE]
  /\ UNCHANGED <<disk, stage, active, slots, limited, tick, now,
                 request, takers, byHand, limits>>

\* continueRun of a run in flight: TakeOverRun stops it and waits for its record.
TakeOverRun(r) ==
  /\ Asked("continue")
  /\ InHistory(r) /\ Entry(r).status = "running"
  /\ Cancelable(r) /\ MuFree(Daemon)
  /\ ~run[r].canceled
  /\ run' = [run EXCEPT ![r].canceled = TRUE]
  /\ takers' = takers \cup {r}
  /\ UNCHANGED <<disk, stage, active, slots, limited, tick, now,
                 request, byHand, limits>>

\* The record is there: the terminal opens on the session it names.
TakeOverAnsweredEarly(r) ==
  /\ r \in takers
  /\ takers' = takers \ {r}
  /\ byHand' = byHand \cup ({run[r].session} \ {NoSession})
  /\ UNCHANGED <<disk, memory, request, limits, requests>>

TakeOverAnsweredIfCanceled(r) ==
  /\ r \in takers /\ run[r].phase = "done" /\ run[r].status = "canceled"
  /\ takers' = takers \ {r}
  /\ byHand' = byHand \cup ({run[r].session} \ {NoSession})
  /\ UNCHANGED <<disk, memory, request, limits, requests>>

TakeOverAnswered(r) ==
  /\ r \in takers /\ run[r].phase = "done"
  /\ takers' = takers \ {r}
  /\ byHand' = byHand \cup ({run[r].session} \ {NoSession})
  /\ UNCHANGED <<disk, memory, request, limits, requests>>

\* The request gives up after a minute; the run is stopped all the same.
TakeOverTimesOut(r) ==
  /\ Asked("take-over times out")
  /\ r \in takers /\ run[r].phase # "done"
  /\ takers' = takers \ {r}
  /\ UNCHANGED <<disk, memory, request, byHand, limits>>

\* continueRun of a finished run opens a terminal right away.
ContinueAnyFinished(r) ==
  /\ Asked("continue")
  /\ stage # "down"
  /\ InHistory(r) /\ Terminal(Entry(r).status)
  /\ Entry(r).session \notin byHand
  /\ byHand' = byHand \cup {Entry(r).session}
  /\ UNCHANGED <<disk, memory, request, takers, limits>>

ContinueFinished(r) ==
  /\ Asked("continue")
  /\ stage # "down"
  /\ InHistory(r) /\ Terminal(Entry(r).status)
  /\ Entry(r).session \notin byHand \cup {NoSession}
  /\ byHand' = byHand \cup {Entry(r).session}
  /\ UNCHANGED <<disk, memory, request, takers, limits>>

CloseTerminal(s) ==
  /\ s \in byHand
  /\ byHand' = byHand \ {s}
  /\ UNCHANGED <<disk, memory, request, takers, limits, requests>>

\* cancelResume: the run is not in flight but waits to resume.  Its history
\* entry, the running set and the pending session are checked ...
CancelResume(r) ==
  /\ Asked("cancel resume")
  /\ request = {} /\ stage # "down" /\ MuFree(Daemon)
  /\ ~Cancelable(r)
  /\ InHistory(r) /\ Entry(r).status = "rate_limited"
  /\ run[r].task \notin active[Daemon]
  /\ pending[run[r].task].session = Entry(r).session
  /\ Entry(r).session # NoSession
  /\ request' = {[kind |-> "retire", run |-> r, task |-> run[r].task]}
  /\ UNCHANGED <<disk, memory, takers, byHand, limits>>

\* ... then the task is retired, a one-shot by the definition in the queue or
\* else the run's own ...
CancelResumeRetire(q) ==
  LET t == q.task
      oneShot == OneShot(IF t \in Queued THEN def[t] ELSE run[q.run].def)
  IN /\ q \in request /\ q.kind = "retire"
     /\ Retire(t, oneShot)
     /\ request' = {[q EXCEPT !.kind = IF oneShot THEN "unqueue" ELSE "record"]}
     /\ UNCHANGED <<config, anchored, ripe, hist, memory,
                    takers, byHand, limits, requests>>

CancelResumeUnqueue(q) ==
  /\ q \in request /\ q.kind = "unqueue"
  /\ queue' = Without(queue, q.task)
  /\ request' = {[q EXCEPT !.kind = "record"]}
  /\ UNCHANGED <<def, paused, state, hist, memory, takers, byHand, limits, requests>>

\* ... and the run is recorded as canceled.
CancelResumeRecord(q) ==
  /\ q \in request /\ q.kind = "record"
  /\ hist' = HistPut(hist, [run |-> q.run, task |-> q.task, status |-> "canceled",
                            session |-> run[q.run].session])
  /\ request' = {}
  /\ UNCHANGED <<config, state, memory, takers, byHand, limits, requests>>

-----------------------------------------------------------------------------
\* internal/app: what the operator, or a running job, does to the queue.

\* checkDependencies: a job may wait for one that is queued and not recurring,
\* or that has run.
DependenciesKnown(t) ==
  \A u \in DependsOn[t] :
     IF u \in Queued THEN def[u].trigger # "cron" ELSE RunsOfTask(u, hist) # {}

\* Editing a trigger may move its time to the past or to the future.
TriggerMoves(t, d) ==
  ripe' \in {ripe \ {t}} \cup
            (IF d.trigger = "fixed" \/ (d.trigger = "cron" /\ t \in anchored)
             THEN {ripe \cup {t}} ELSE {})

\* AddTask looks the dependencies up first ...
AddTask(t) ==
  /\ Asked("add")
  /\ request = {} /\ DependenciesKnown(t)
  /\ request' = {[kind |-> "add", run |-> 0, task |-> t]}
  /\ UNCHANGED <<disk, memory, takers, byHand, limits>>

\* ... and appends the task in one update; an id already queued is refused.
AddTaskCommit(q, d) ==
  LET t == q.task IN
  /\ q \in request /\ q.kind = "add"
  /\ d \in Definitions[t]
  /\ IF t \in Queued THEN UNCHANGED <<queue, def, ripe>>
     ELSE /\ queue' = Append(queue, t)
          /\ def' = [def EXCEPT ![t] = d]
          /\ TriggerMoves(t, d)
  /\ request' = {}
  /\ UNCHANGED <<paused, anchored, completed, pending, hist, memory,
                 takers, byHand, limits, requests>>

\* RemoveTask takes the task out of the queue ...
RemoveTask(t) ==
  /\ Asked("remove")
  /\ request = {} /\ t \in Queued
  /\ queue' = Without(queue, t)
  /\ request' = {[kind |-> "forget", run |-> 0, task |-> t]}
  /\ UNCHANGED <<def, paused, state, hist, memory, takers, byHand, limits>>

\* ... and then forgets its scheduling state, so that the id can be reused.
ForgetTask(q) ==
  /\ q \in request /\ q.kind = "forget"
  /\ anchored' = anchored \ {q.task}
  /\ ripe' = {t \in ripe : ~(t = q.task /\ def[t].trigger = "cron")}
  /\ completed' = completed \ {q.task}
  /\ pending' = [pending EXCEPT ![q.task] = NothingPending]
  /\ request' = {}
  /\ UNCHANGED <<config, hist, memory, takers, byHand, limits, requests>>

\* EditTask, updateTask, SetEnabled: the definition changes, whatever is running.
EditTask(t, d) ==
  /\ Asked("edit")
  /\ t \in Queued /\ d \in Definitions[t] \ {def[t]}
  /\ def' = [def EXCEPT ![t] = d]
  /\ IF d.trigger = def[t].trigger THEN UNCHANGED ripe ELSE TriggerMoves(t, d)
  /\ UNCHANGED <<queue, paused, anchored, completed, pending, hist, memory,
                 request, takers, byHand, limits>>

SetPaused ==
  /\ Asked("pause")
  /\ paused' = ~paused
  /\ UNCHANGED <<queue, def, state, hist, memory, request, takers, byHand, limits>>

\* Move: the place in the queue is the priority.
Move(t, to) ==
  /\ Asked("move")
  /\ t \in Queued /\ to \in 1..Len(queue) /\ queue[to] # t
  /\ queue' = InsertAt(Without(queue, t), to, t)
  /\ UNCHANGED <<def, paused, state, hist, memory, request, takers, byHand, limits>>

-----------------------------------------------------------------------------
\* The daemon stops, dies and starts again.

\* SIGTERM: the loop starts no further tick and drains.
Stop ==
  /\ Asked("stop")
  /\ stage = "up"
  /\ stage' = "draining"
  /\ UNCHANGED <<disk, active, slots, limited, tick, now, run,
                 request, takers, byHand, limits>>

\* The daemon is gone, with everything it kept in memory.
DaemonGone ==
  /\ stage' = "down"
  /\ tick' = NoTick
  /\ now' = {n \in now : n.engine # Daemon}
  /\ active' = [active EXCEPT ![Daemon] = {}]
  /\ slots' = [slots EXCEPT ![Daemon] = [parallel |-> 0, exclusive |-> 0]]
  /\ limited' = [limited EXCEPT ![Daemon] = {}]
  /\ request' = {} /\ takers' = {}

\* Loop returns once no run is in flight; after the grace period the processes
\* that are left have been killed, which ends their runs as failed.
Exit ==
  /\ stage = "draining" /\ tick.pc = "idle"
  /\ \A r \in DOMAIN run : run[r].engine = Daemon => run[r].phase \notin Unfinished
  /\ DaemonGone
  /\ run' = run
  /\ UNCHANGED <<disk, byHand, limits, requests>>

\* A crash, a power loss or a SIGKILL: the runs go with the daemon.
Crash ==
  /\ Asked("crash")
  /\ stage # "down"
  /\ DaemonGone
  /\ run' = [r \in DOMAIN run |->
               IF run[r].engine = Daemon /\ run[r].phase \in Unfinished
               THEN [run[r] EXCEPT !.phase = "lost"] ELSE run[r]]
  /\ UNCHANGED <<disk, byHand, limits>>

\* dispatchqd run: the history is reconciled and pruned before the first tick.
Restart ==
  /\ stage = "down"
  /\ stage' = "up"
  /\ hist' = Prune(Reconcile(hist))
  /\ UNCHANGED <<config, state, active, slots, limited, tick, now, run, operator>>

-----------------------------------------------------------------------------
Tick ==
  \/ TickBegin \/ TickAbandoned \/ TickLock \/ TickRecord
  \/ \E t \in Tasks : TickLaunch(t) \/ TickLaunchFails(t)

Finish(r) ==
  \/ FinishLock(r) \/ FinishLimited(r) \/ FinishRetire(r)
  \/ FinishUnqueue(r) \/ FinishDeactivate(r) \/ FinishRecord(r)

Manual ==
  \/ \E e \in Engines, t \in Tasks : NowBegin(e, t)
  \/ \E n \in now : NowRefused(n) \/ NowStart(n)

RunRequest ==
  \/ \E r \in DOMAIN run :
        CancelRun(r) \/ TakeOverRun(r) \/ TakeOverAnswered(r)
        \/ TakeOverTimesOut(r) \/ ContinueFinished(r) \/ CancelResume(r)
  \/ \E s \in Sessions : CloseTerminal(s)
  \/ \E q \in request :
        CancelResumeRetire(q) \/ CancelResumeUnqueue(q) \/ CancelResumeRecord(q)

QueueRequest ==
  \/ \E t \in Tasks : AddTask(t) \/ RemoveTask(t)
  \/ \E q \in request : ForgetTask(q) \/ \E d \in Definitions[q.task] : AddTaskCommit(q, d)
  \/ \E t \in Tasks : \E d \in Definitions[t] : EditTask(t, d)
  \/ \E t \in Tasks : \E to \in 1..Len(queue) : Move(t, to)
  \/ SetPaused

Next ==
  \/ \E t \in Tasks : TriggerComes(t)
  \/ \E e \in Engines, p \in Providers : GateReopens(e, p)
  \/ Tick
  \/ \E r \in DOMAIN run : Finish(r)
  \/ \E r \in DOMAIN run : \E outcome \in {"success", "failed", "rate_limited"} :
        RunExits(r, outcome)
  \/ Manual \/ RunRequest \/ QueueRequest
  \/ Stop \/ Exit \/ Crash \/ Restart

Spec == Init /\ [][Next]_vars

\* What goes on by itself: the loop keeps ticking, time passes, gates reopen,
\* a process ends (the idle timeout kills a hung one), finish and a handler once
\* begun run through, and launchd restarts the daemon.  Nobody has to ask for
\* anything.
Fairness ==
  /\ WF_vars(Tick)
  /\ \A t \in Tasks : WF_vars(TriggerComes(t))
  /\ \A e \in Engines, p \in Providers : WF_vars(GateReopens(e, p))
  /\ \A r \in RunIds :
       /\ WF_vars(r \in DOMAIN run /\ Finish(r))
       /\ WF_vars(r \in DOMAIN run /\ \E outcome \in {"success", "failed"} :
                                        RunExits(r, outcome))
       /\ WF_vars(r \in DOMAIN run /\ TakeOverAnswered(r))
  /\ WF_vars(\E q \in request :
       CancelResumeRetire(q) \/ CancelResumeUnqueue(q) \/ CancelResumeRecord(q))
  /\ WF_vars(Exit) /\ WF_vars(Restart)

FairSpec == Spec /\ Fairness

-----------------------------------------------------------------------------
\* Properties.

TickType ==
  [pc : {"probing", "locked", "launching"}, began : 0..MaxRuns, queue : Seq(Tasks),
   def : [Tasks -> Definition], assigned : SUBSET Tasks,
   target : [Tasks -> Providers \cup {NoProvider}], starts : SUBSET Tasks,
   waiting : [Tasks -> PendingResume] \cup {<<>>}]

NowType == [engine : Engines, task : Tasks, def : Definition,
            waiting : PendingResume, provider : Providers \cup {NoProvider}]

ConfigOK ==
  queue \in Seq(Tasks) /\ def \in [Tasks -> Definition] /\ paused \in BOOLEAN

StateOK ==
  /\ anchored \subseteq Tasks /\ ripe \subseteq Tasks /\ completed \subseteq Tasks
  /\ pending \in [Tasks -> PendingResume]

EnginesOK ==
  /\ stage \in {"up", "draining", "down"}
  /\ active \in [Engines -> SUBSET Tasks]
  /\ slots \in [Engines -> [parallel : Int, exclusive : Int]]
  /\ limited \in [Engines -> SUBSET (Providers \cup {NoProvider})]

RunsOK == run \in Seq(RunType) /\ Len(run) <= MaxRuns

OperatorOK ==
  /\ request \subseteq [kind : {"retire", "unqueue", "record", "add", "forget"},
                        run : 0..MaxRuns, task : Tasks]
  /\ takers \subseteq RunIds /\ byHand \subseteq RunIds
  /\ limits \in 0..MaxLimits /\ requests \in 0..MaxRequests

\* Every variable keeps to the values the program can hold.
TypeOK ==
  /\ ConfigOK /\ StateOK /\ hist \in Seq(RunRecord)
  /\ EnginesOK /\ RunsOK
  /\ tick \in TickType \cup {NoTick} /\ now \subseteq NowType
  /\ OperatorOK

\* A task never has two runs at once in one engine, from the launch of a run
\* until its outcome is on disk (Inputs.Running, the active map).
OneRunPerTask ==
  \A r, s \in DOMAIN run :
     /\ r # s /\ run[r].engine = run[s].engine
     /\ run[r].phase \in Occupying /\ run[s].phase \in Occupying
     => run[r].task # run[s].task

\* The concurrency counters are exactly the runs that hold a slot, whatever is
\* edited while they run: finish gives back the slot launchTask took.
CountersExact ==
  \A e \in Engines :
     LET holders == {r \in DOMAIN run : run[r].engine = e /\ run[r].phase \in Holding}
     IN /\ slots[e].parallel  = Cardinality({r \in holders : run[r].def.parallel})
        /\ slots[e].exclusive = Cardinality({r \in holders : ~run[r].def.parallel})

\* A task that runs alone runs alone: of the runs the scheduler started, an
\* exclusive one shares the machine with no other (schedule.Select).
ExclusiveAlone ==
  \A r, s \in DOMAIN run :
     /\ r # s /\ ~run[r].manual /\ ~run[s].manual
     /\ run[r].engine = run[s].engine
     /\ run[r].phase \in Holding /\ run[s].phase \in Holding
     => run[r].def.parallel /\ run[s].def.parallel

\* A session is only ever continued on the provider that issued it, whatever
\* the task or the fallback says by then (sessionFor).
SessionOwner ==
  \A r \in DOMAIN run :
     run[r].resumed => /\ run[r].session \in 1..(r - 1)
                       /\ run[run[r].session].provider = run[r].provider

\* Two processes never write to one session: neither two runs, nor a run and a
\* terminal the operator continues it in (TakeOverRun).
SessionNotShared ==
  \A r \in DOMAIN run :
     run[r].phase = "executing" /\ run[r].session # NoSession
     => /\ run[r].session \notin byHand
        /\ \A s \in DOMAIN run : s # r /\ run[s].phase = "executing"
                                 => run[s].session # run[r].session

\* A run of a one-shot is never started by a tick after one has completed, even
\* though the tick looked at the queue before the completion was written.
LaunchedByTick(r) == r \notin DOMAIN run /\ r \in DOMAIN run' /\ ~run'[r].manual

OneShotRunsOnce ==
  [][\A r \in RunIds : LaunchedByTick(r) /\ OneShot(run'[r].def)
       => run'[r].task \notin completed]_vars

\* A session the operator stopped is not continued by the queue: a canceled
\* run's session never comes back as a resume.
StoppedStaysStopped ==
  [][\A r \in RunIds : LaunchedByTick(r) /\ run'[r].resumed
       => \A i \in 1..Len(hist) :
            hist[i].status = "canceled" => hist[i].session # run'[r].session]_vars

\* No task is lost: a one-shot that is in the queue stays there until a run of
\* it has completed, through crashes and restarts.
NoTaskLost ==
  \A i \in 1..Len(InitialQueue) :
     InitialQueue[i] \in Queued \cup completed

\* A recorded outcome is final: no later event changes it, it can only be
\* pruned (AppendRun, Runs, ReconcileRunningRuns).
OutcomeIsFinal ==
  [][\A i \in 1..Len(hist) : Terminal(hist[i].status) =>
       \A j \in 1..Len(hist') : hist'[j].run = hist[i].run => hist'[j] = hist[i]]_vars

\* What the history calls running is running: a restarted daemon leaves no
\* entry behind that waits for good (ReconcileRunningRuns).
RunningIsRunning ==
  stage # "down" =>
    \A i \in 1..Len(hist) : hist[i].status = "running"
                            => run[hist[i].run].phase \in Unfinished

\* What a job that others wait for leaves behind: a final outcome on record, or
\* the ruins of a crash.
Ended(s) == \/ run[s].phase = "done" /\ Terminal(run[s].status)
            \/ run[s].phase = "lost"

\* The departure: src/README.md (1324-1327) says a job paused by a rate limit
\* has not finished, and the join keeps waiting; workflow.Resolve (82) lets it go.
PausesOnLimit(s) == run[s].phase = "done" /\ run[s].status = "rate_limited"

\* The runs of a task there were when the tick in progress looked.
RunsAtTheLook(u) == {s \in 1..tick.began : run[s].task = u}

\* A join is started by a tick only when the latest run of each of its
\* dependencies was over when the tick looked, however long it probed since: no
\* older run stands in for one that still executes.  Or a dependency is gone for
\* good, never run.  Two runs are excepted by name: one paused by a rate limit,
\* and one of a quiet task, which nothing records until it ends.
JoinComesLast ==
  [][\A r \in RunIds : LaunchedByTick(r) =>
       \A u \in DependsOn[run'[r].task] :
          \/ RunsAtTheLook(u) = {} /\ u \notin Queued
          \/ \E s \in RunsAtTheLook(u) :
               /\ \A q \in RunsAtTheLook(u) : q <= s
               /\ Ended(s) \/ PausesOnLimit(s) \/ run[s].def.quiet]_vars

\* Every queued task is run to its end and leaves the queue, though runs fail,
\* hit rate limits and move to fallbacks, and exclusive tasks wait for others.
EveryTaskFinishes ==
  \A t \in Tasks : t \in Queued ~> t \notin Queued

\* A session waiting for a rate limit to pass is picked up again.
WaitingSessionResumes ==
  \A t \in Tasks : pending[t].session # NoSession ~> pending[t].session = NoSession

\* Whoever takes a run over gets an answer, once it is gone.
EveryTakerAnswered ==
  \A r \in RunIds : r \in takers ~> r \notin takers
=============================================================================
