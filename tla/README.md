# DispatchQ (claudeq) in TLA+

DispatchQ is a queue of unattended jobs for AI coding harnesses (Claude Code,
Codex, OpenCode) and for scripts. A daemon ticks every few seconds, starts what
is due, waits out rate limits and resumes the interrupted sessions; the operator
works on the queue and on the running jobs through a dashboard and a command
line, and a running job may queue further jobs. Everything is kept in files of
one data directory: `config.toml` (settings, providers and the queue, in priority
order), `state.json` (what has been started, completed, read and announced, and
which session waits for which task), `history.jsonl` (one event per change of a
run) and the lists of artifacts, messages and notifications.

This directory models that program, checks the models with TLC and proves parts
of them with TLAPS. Paths are relative to `src/`.

## 1. Inventory

| Component | State it keeps | Operations | What makes it correct |
|---|---|---|---|
| `internal/engine` | running set, two concurrency counters, runs that can be cancelled, take-overs waiting for an answer (all under `Engine.mu`); gates | `Tick`, `RunTaskNow`, `launchTask`, `finish`, `CancelRun`, `TakeOverRun`, `cancelResume`, `Loop`, `drain` | one run per task; counters equal to the runs that hold a slot; a one-shot runs once; no task is lost; a session has one writer and stays with its provider; everything queued ends |
| `internal/schedule` | none | `Due`, `Select`, `Held` | exclusivity and strict priority; true reasons |
| `internal/workflow` | none | `Resolve`, `Ready`, `Context` | a join comes after what it waits for, and never waits for good |
| `internal/app` | none (the files) | add, queue, import, remove, edit, enable, move, groups, folds, settings | one atomic update per operation; groups stay together; nobody is promoted unasked; nobody's change is lost |
| `internal/provider`: resolution, pools | none | `Resolve`, `ResolveAvailable`, `RankPool`, `checkSpare` | work goes where it can run, is spread, and backfill yields |
| `internal/provider`: configuration (`app/provider.go`, `pool.go`) | `config.toml` | add, edit, switch, remove, default, pools | the file holds as a whole; targets exist |
| `internal/provider`: checker, limit monitor | verdicts and readings, by id and settings | `Check`, `CheckFresh`, `get`, `RefreshAll`, `Forget` | nobody gets an answer about another account or a stale one |
| `internal/provider`: adapters, collector | what a run has said | the parsers, `Add`, `Result` | a limit is recognised as one, with the right waiting time |
| `internal/limit` | the time each gate reopens | `Block`, `Open` | one account's limit holds up no other |
| `internal/executor` | one process | `Run`, `runScript`, the idle watchdog | every run ends, with the right outcome |
| `internal/store` | the files, a mutex per process, a file lock | `UpdateConfig`, `UpdateState`, `AppendRun`, `Runs`, `PruneHistory`, `ReconcileRunningRuns`, `LockDaemon`, `DefaultHome` | whole changes, in order, kept once acknowledged; one daemon; one data directory |
| notifications, inbox, artifacts | lists, the outbox, read marks | publish, notify, announce, read, open, delete | nothing announced twice, out of a muted time, or never; what is listed opens |
| `internal/wake` | the wake it believes registered | `planWake`, `Update` | the machine is awake when work starts |
| `internal/update`, `cmd/dispatchqd install`, `packaging` | cached releases, the installed app, agents of launchd | check, offer, dismiss, download, install, relaunch | what opens is what was offered; the new daemon takes over, and the data moves under nobody |
| prompt review | reviews in flight, the check after the rename | review, start, dismiss, apply | the newest review counts; a rewrite undoes no edit |
| `internal/api`, `cmd/dispatchq`, `cmd/dispatchqd` | requests in progress | the handlers | the operations above, with what they check before and do after |
| assistant, feedback, bundles' format, sleep guard, the window's web view, the dashboard | caches, forms | | see section 8 |

How they interact. The daemon's loop calls `Tick`, which reads the configuration
and the history, asks the gates and the readiness checks, takes `Engine.mu`,
selects and launches. Each run is a goroutine around `Executor.Run` that ends in
`finish`. After the tick the loop plans a wake and announces what is new. API
handlers call the engine and the app operations concurrently, in the same
process; the command line changes the same files from other processes, and
`dispatchq run-now` even runs an engine of its own on them. Files are protected
by a lock for the length of one read-modify-write and no longer.

What is hard. A tick looks at the world three times (configuration; the due
tasks; again under the lock, after probes that take seconds) and others act in
between. A finishing run takes five steps over three files and one in-memory set,
in an order on which single properties depend. A crash can fall between any two.
Requests check first and act later; forms are loaded once and written back whole.
Definitions and providers are edited while runs, probes and reviews of them are
in flight. What was announced, read, registered or answered is remembered in a
second place that a restart forgets. During an update three kinds of processes
start and stop daemons at once. `PROJECT.json` lists these hazards at their lines,
with the properties that would notice them going wrong.

Hazards of the same kind that no property covers and that are listed here only:
a task removed while it runs and added again under its id (app.go:89), the anchor
of a cron task moved before a launch that a crash prevents (engine.go:318), a cron
task whose session waits for the next occurrence (schedule.go:52), the pending
session a manual start read before its probe (engine.go:1590), two terminals on
one session (api.go:862), running entries dropped by pruning (store.go:457), a torn
line of the history (store.go:284), dropped errors of `retire` (engine.go:1085),
dependencies unchecked in `updateTask` (api.go:615), a quiet dependency that leaves
before its record (engine.go:1266), a CLI run reconciled by a starting daemon
(dispatchqd/main.go:135), `run-now` after the grace period (engine.go:1505) and two
limits with different times (limit.go:34).

## 2. Modules

| Module | What it is | Checked in |
|---|---|---|
| `Schedule`, `Workflow` | when a task is due, which due tasks start, when a join may | `Engine`, `Planning` |
| `Engine` | the life of a queued task: engine, task and run handlers, over the files | `engine_*`, `cancel_resume` |
| `Resolution` | providers, fallbacks, pools, urgency of an account | `Planning` |
| `Planning` | one pass of the scheduler: placing and selecting | `planning` |
| `Collector`, `Adapters` | what the lines of a run add up to; what the three parsers read in a line | `Executor` |
| `Executor` | one call of `Executor.Run` or `runScript` | `executor` |
| `Clients` | who changes `config.toml`: a command or a request, at one operation each | `Configuration` |
| `Queue` | the queue as it is arranged: tasks, groups, folds, forms, settings | `Configuration` |
| `Providers` | the providers, pools and targets, and what is announced about them | `Configuration` |
| `Configuration` | the two above on one file | `configuration`, `settings_lost_update` |
| `Announce` | artifacts, outbox, inbox, read marks | `announce` |
| `Readings` | the caches of the checker and the limit monitor | `Services` |
| `Updates` | releases: checked, offered, downloaded | `Services` |
| `Wakes` | the wake registered with pmset | `Services` |
| `Reviews` | reviews of drafts, and the check of prompts after the rename | `Services` |
| `Services` | the four above, one at a time | `services` |
| `AtomicStore` | what the data directory promises | `Store` |
| `Store` | locks, temporary files and processes that implement it | `DataDirectory` |
| `Handover`, `Installer` | daemons, launchd, the data of ClaudeQ; `dispatchqd install` and the package around it | `DataDirectory` |
| `DataDirectory` | shared, or handed over | `data_directory` |
| `EngineProofs` | typing of `Engine`; one run per task, a session's provider, the counters, exclusive tasks | TLAPS |
| `EngineHistoryProofs` | what the run history says is true, and final; queued one-shots, joins, stopped sessions, one writer per session | TLAPS |
| `PlanningProofs` | a pass of the scheduler: the order of the queue, and where the work goes | TLAPS |
| `ExecutorProofs` | a run's limit, its waiting time and its answer are kept | TLAPS |
| `DataDirectoryProofs` | `Store` implements `AtomicStore`; the hand-over of the data | TLAPS |
| `ServicesProofs`, `AnnounceProofs`, `ConfigurationProofs` | the safety properties of the runs `services`, `announce`, `configuration` | TLAPS |
| `MC*` | instances for TLC | |

`Services`, `Configuration` and `DataDirectory` put parts side by side that share
no state (or none that both write): a behaviour chooses one part and the others
stand still. Their interleavings would multiply the states and show nothing more.
Parts that do interact are in one module.

Operators whose name adds a deviation to the name of the one they stand before
(`NowStart`, `NowStartUnchecked`) are plausible bugs. No specification uses them;
every property is tried on one and must notice it.

### Engine and the code

State. `queue`, `def`, `paused` are `config.toml`; `anchored`, `ripe`,
`completed`, `pending` are `state.json` (`LastStarted`, `CompletedOnce`,
`PendingResumes`); `hist` is `history.jsonl` as `Store.Runs` collapses it.
`active`, `slots`, `limited` are the running set, the counters and the gates of
each engine process; `tick` is a daemon's tick in progress with what it has read;
`now` the manual starts in progress; `run` every run ever started, with its place
in `finish` (`phase`), its definition at the start and its outcome. `request`,
`takers`, `byHand` are what the operator is doing. `limits` and `requests` only
count towards bounds.

One action is what happens between two points where somebody else can act: a
section of `Engine.mu`, one read-modify-write of a file, one append.

| Action | Code |
|---|---|
| `TickBegin`, `TickAbandoned`, `TickLock`, `TickRecord`, `TickLaunch`, `TickLaunchFails` | `Tick`: read and assign, (stopping), second look under the lock and `Select`, persist the starts, launch one by one. From `TickLock` to the last launch the tick holds `Engine.mu` (`MuFree`) |
| `NowBegin`, `NowRefused`, `NowStart` | `RunTaskNow`, in the daemon or from the command line |
| `RunExits` | `Executor.Run` returns |
| `FinishLock`, `FinishLimited` or `FinishRetire` and `FinishUnqueue`, `FinishDeactivate`, `FinishRecord` | `finish`: slot back, gate and pending session or `retire`'s two writes, out of the running set, into the history |
| `CancelRun`, `TakeOverRun`, `TakeOverAnswered`, `TakeOverTimesOut`, `ContinueFinished` | `CancelRun`, `TakeOverRun`, `continueRun` |
| `CancelResume`, `CancelResumeRetire`, `CancelResumeUnqueue`, `CancelResumeRecord` | `cancelResume` |
| `AddTask`, `AddTaskCommit`, `RemoveTask`, `ForgetTask`, `EditTask`, `SetPaused`, `Move` | `internal/app`, as far as the scheduler sees it |
| `Stop`, `Exit`, `Crash`, `Restart` | SIGTERM and `drain`, `Loop` returning, SIGKILL or power loss, `cmdRun` with `ReconcileRunningRuns` and `PruneHistory` |
| `TriggerComes`, `GateReopens` | time |

Abstractions: trigger times are one bit per task, `ripe` (a fixed time has passed,
or an occurrence of the cron expression lies between the anchor and now; starting
a cron task moves its anchor, which clears the bit). A session is named after the
run that opened it. `failed` also stands for an authentication error. A readiness
probe is a verdict out of the blue, for the providers in `Flaky`. `TickBegin`
reads configuration, history, state and gates in one step, and so does `NowBegin`;
`NowStart` merges the record of the start and the launch, both under `Engine.mu`;
`FinishRecord` merges the append with the pruning after it. `tick.began` is history:
how many runs there had been when the tick looked. One request of the
operator that takes several steps is in progress at a time. Failing writes are
modelled where they end the loop (`TickLaunchFails`) and nowhere else.

### Planning, Resolution and the code

`Resolution` has `Set.Resolve`, `ResolveAvailable`, `ResolvePool`, `RankPool`
(`Score`, `Before`, `Best`) and `checkSpare` (`HasSpare`) as operators of what they
are given. Shares are tenths, times quarters of an hour, an urgency a fraction and the
threshold for backfill tenths (the default is 15), so comparisons are exact. `Planning!Tick` is what a pass makes of the due tasks: the
stable sort that puts backfill last, `assign` one by one with the counts of what it
has planned (`Placed`), the gates and probes, `Select`. A behaviour makes one more
task due at a time, in every world of the instance; `place` and `starts` are what
the pass has decided. Engine itself is given the choice of provider with fewer
data (`Fallback`), because its subject is the order of steps.

### Executor, Adapters and the code

`Executor` is what lies behind the single step `RunExits` of `Engine`. The process
is `harness` and its `exit` code; `holder` is a descendant that the kill does not
reach and that keeps the output open. `pipe` is the output between the process and
the reader, whose copying belongs to `os/exec`. `reader`, `canceler`, `watchdog`
and `main` are the four goroutines: the scanner, exec's wait for the context,
`idleWatch`, and `Run` itself. A line is the set of signs a parser looks for in it
(`Adapters!Signs`); the parsers of the three harnesses, with what they remember,
feed `Collector`, whose status and waiting time end the run.

| Action | Code |
|---|---|
| `Start`, `StartFails` | `adapterFor`, `Command`, `cmd.Start`, the watchdog started |
| `ReadLine`, `ScanFails`, `Drain`, `ReaderEnds` | the scanning goroutine, with the stop on a completed limit and the drain |
| `TimePasses`, `WatchdogFires` | `idleStep`, `idleWatch` |
| `OperatorStops`, `Kill` | the caller's context; `cmd.Cancel` with `killTree` |
| `Reap`, `CopyEnds`, `WaitEnds`, `WaitGivesUp` | `cmd.Wait`: the process, then the copying, for at most `WaitDelay` |
| `Return` | what `Run` and `runScript` make of it |

What `os/exec` does is taken from how this code uses it: an exit code other than
zero outranks a cancelled context, which outranks the grace period; a context
cancelled after the process has been waited for has no effect; a signal to a
process that has exited but has not been waited for may count as sent or not. Two
assumptions about time: a killed process is dead before the grace period ends, and
what the harness had written is read before it ends.

### Configuration and the code

A client is a command or a request; a locked read-change-write is one action, what
is read before it and written after it are others. `ops` is where each client
stands, `left` the bound. Operations of one step need no client.

- `Queue`: `tasks` is the stored list. `AddCommand`, `AddRequest`, `QueueCommand`
  check dependencies before the lock and write in `AddWrite`; `EditFlags`,
  `EditorOpen`/`EditorSave` and `FormOpen`/`FormReceived`/`FormWrite` are the three
  ways of editing; `Move`, `MoveToGroup`, `MoveGroup`, `RenameGroup`/`RenameFold`
  arrange; `PruneLook`/`PruneWrite` is `pruneGroupState`; `SettingsLoad`/
  `SettingsSave` is `putSettings`; `DaemonRetires` takes a finished one-shot off.
  The lists these make (`GroupedOrder`, `Renamed`, `BlockMoved`, `MovedTo`) are
  stable sorts (`ByRank`) by the place where a task's section begins, which is
  the list the code's loops build; so they can be reasoned about without
  following the loops. A task is its id, group, switch and dependencies;
  the switch stands for every setting a form shows. `owed`, `known`, `lost`,
  `back`, `imported` are history variables for the properties.
- `Providers`: `config` has providers, pools, the default and each task's target.
  Every command guards its own part, `Saved` is the check on saving. `CheckTarget`/
  `FileTask` is filing a task, or moving it, with a target that is asked for;
  `KeepTarget`/`FileTask` a form that leaves the target alone; `ApplyEditedDoc` the
  editor of `dispatchq edit`, which asks nobody. `SettingsFormLoads`/
  `SettingsFormSaves` is `putSettings` again, as a stale copy of the providers.
  `RemoveProvider`/`ForgetProvider` is the removal in two files. `looks` are ticks
  looking at providers: `LookBegin`, `Note` (the memo in memory), `Record`
  (state.json), `Tell`, `LookEnd`. `Tell` only hands the word to a goroutine
  (`sending`); `Deliver` and `DeliveryFails` end it, in any order, and `Restart`
  takes down those still under way. Looks of manual starts and of run-now are in the
  module for other instances; `configuration` has the tick's.

### Announce and the code

`arts` and `files` are the artifact list and the copies, `state` the read and
notified ids of `state.json`, `outbox`, `inbox` the lists. `PublishBegin`,
`PublishCopy`, `PublishRecord` are one `dispatchq publish`; `LoopLook`, `LoopTake`,
`LoopSend` are `notifyArtifacts` with `takeUnnotified`; `LoopOutbox` takes the
messages of `dispatchq notify`, setting a damaged file aside; `SenderStep` is a
goroutine that writes the inbox entry; `RunEnds` the outcome of a run. `ReadBegin`,
`ReadMark`, `CarryLook`, `CarryWrite` mark a thing read and then its notification;
`DeleteBegin`, `DeleteFiles`, `DeleteForget` are `DeleteArtifact`; `OpenFind`,
`OpenServe` the file handler. The daemon crashes anywhere; the `dispatchq`
processes survive it and may be killed themselves.

### Services and the code

- `Readings`: a caller asks with the instance it has read (`AskCheck`, `AskFresh`,
  `AskLimits`, `AskNewLimits`, `RefreshID`), looks into the cache (`CheckLook`) or
  takes the lock of the instance (`ReadLock`), and stores what the harness answers
  (`ProbeEnds`, `ReadEnds`) or not, when it was cut short (`ProbeCut`). The operator
  edits the instance meanwhile. Settings are an account and a switch: the
  fingerprint of the code.
- `Updates`: `CheckAsked` to `CheckFails` are `CheckNow` under its mutex by the
  worker and a request; `GetUpdate` is the status a page shows, `AskDownload`,
  `AskReinstall`, `DownloadBegins`, `DownloadEnds` the download, `InstallerRuns`,
  `RelaunchUpdate`, `DaemonRestarts` what replaces the daemon. Releases are numbers
  and are published in any order; none is withdrawn.
- `Wakes`: `PlanWake` is `planWake` with the candidates and `Scheduler.Update`, that
  is `LeaveIt` or `Replace` (cancel, register; pmset may refuse either). An instant
  is as long as the tolerance.
- `Reviews`: `StartRead`, `StartRenameCheck`, `LaunchReview`, `ReviewEnds`,
  `PublishCheck` are the check of the prompts and its workers, `ApplyRead`,
  `ApplyWrite`, `ApplyTail`, `ApplyMark` the request that applies rewrites,
  `BeginReview`, `DraftAnswered`, `RetireReview` the review of a draft.

### DataDirectory and the code

`Store` is `UpdateConfig`, `UpdateState` and the like as they are carried out: the
mutex of the process, the file lock, load, temporary file, rename, unlock; and
`AppendRun` and `PruneHistory` under the history mutex only. Processes are killed
anywhere, writes fail. A document is the list of changes it has been through.
`AtomicStore` knows only documents, acknowledged changes and the history; the
refinement maps a missing file to the empty document and is checked as the
property `KeepsItsPromise` (`INSTANCE AtomicStore WITH ...`).

`Handover` has the daemons (`LookHome`, `LookLegacy`, `Move`, `Link`, `MoveFails`,
`Open` are `DefaultHome`; `LockDaemon`, `LockTimesOut`, `Startup`, `Serve`, `Drained`,
which closes the listener, and `Released`, which ends the process, the life of
`dispatchqd run`), launchd and the window; `Installer` has `cmdInstall`
(`BootOutClaudeQ`, `StopStrays`, `PortIsFree`, `DataMoved`, `BootOutOwn`, `Bootstrap`)
and postinstall (`TakeOver`, `Sweep`, `Settled`, `Retry`), whose `Pkill` by name ends
the other installer too. `agents` are what launchd keeps alive, `plists` what it loads
at the next `Login`. Every step of launchctl may fail: a `bootout` that is refused
leaves the agent loaded and its error is dropped (`BootOutRefused`,
`BootOutOwnRefused`, some or all of those in `TakeOver`), so a later `bootstrap` may
find it loaded (`AlreadyLoaded`); a plist may not be removable (`BootOutFails`,
`TakeOverFails`); `bootstrap` may fail, or `kickstart` after it, with the agent loaded
by then (`BootstrapFails`). A bootout that is refused and a plist that cannot be
removed in the same call of `Agent.Uninstall` are two actions of which the model has
one at a time. `refused` and `errored` are history: that launchd refused an
installation its bootout of ClaudeQ, and which installations have had one end in an
error since they began.

## 3. Runs

TLC with two workers; every run ends within four minutes. The instances of
`Engine` have two tasks and two providers, `p2` being the fallback of `p1`.

| Run | Question | Bounds | Distinct states |
|---|---|---|---|
| `engine_core` | Do runs, sessions and joins stay consistent when the operator stops, takes over, continues, pauses and reorders while limits are hit? | 3 runs, 2 limits, 2 requests, history of 2 | 0.57 million |
| `engine_operator` | Do the running set and the counters stay right when a cron task and a fixed one are edited, removed, added and started by hand, also from the command line? | 2 runs, 2 requests, history of 1 | 1.71 million |
| `engine_crash` | Does a daemon that dies or fails to launch, at any step, lose a task, run it twice or falsify the history? | 3 runs, 1 limit, 2 accidents or requests, history of 2 | 1.68 million |
| `engine_live` | Does everything that must happen happen? | 3 runs, 1 limit; the daemon stopped, a session continued or a resume cancelled | 7 thousand |
| `planning` | Does a pass keep the order of the queue, and place work where it belongs? | 3 due tasks of 4 mixes, 3 accounts in every state, readings at every edge | 0.15 million |
| `executor` | Does one run return, with the right outcome and waiting time, whoever stops it and whatever it says and leaves behind? | 2 lines of any of three harnesses or a script, 1 of its leftover, with the watchdog or without | 0.55 million |
| `announce` | Is everything announced once, in its time, and openable while listed? | 2 things of 4 casts, 1 crash, 1 switch, inbox of 2 | 0.39 million |
| `configuration` | Do the queue, the providers and the memory of announcements survive two clients and the daemon at once? | 3 ids in 2 groups with 3 changes, or 3 ids of providers and pools with 4 changes, looks, failures and lost words, one harness broken from the start | 1.07 million |
| `services` | Do the services answer from what they were asked about? | 2 callers on 2 accounts; 3 releases; 9 instants; 3 drafts, 2 prompts | 0.57 million |
| `data_directory` | Does the store keep `AtomicStore`'s promise, and does an update hand the directory over? | 3 goroutines of 2 processes, 3 operations, 1 kill; 2 daemons, 2 installers and 2 events | 0.13 million |
| `cancel_resume`, `settings_lost_update` | violated, see section 4 | | |

Why the bounds are enough for the interesting cases. Two tasks are what
exclusivity, priority and a join need; three due tasks give a backfill task others
to yield to, and a pool more tasks than members. Three runs allow a run to be
limited, resumed and limited again. Two requests allow every pair: stop and
continue, edit and run now, crash and stop. A history of one or two forces
pruning. At the bound on runs every launch fails, which the code also knows: the
daemon drains and is restarted, so the bound creates no deadlock the code would
not have. Two lines are what a limit before, in or after the completing line
needs, and a block after a timing. Three ids can tear a group of two apart; three
providers make a chain with a pool; four events are a failure, a look, a restart
and another look. Three releases are one running, one offered and one published
meanwhile. Three goroutines of two processes contend for both locks at once. Two
events of a hand-over are a refusal and a crash, or two installations at once; three
were checked once, with 0.85 million states and the same result.
Deadlock is checked in every run but `configuration`, `services` and
`data_directory`, where a behaviour ends once its operations are used up.
Symmetry is used for clients, callers, accounts and prompts, in runs whose
properties are invariants and action properties.

What the properties say:

- `OneRunPerTask`: within an engine a task has one run at a time, counted until
  its outcome is on disk. `CountersExact`: the counters are exactly the runs that
  hold a slot, whatever is edited meanwhile. `ExclusiveAlone`: of the scheduler's
  own starts, an exclusive one shares the machine with nobody.
- `OneShotRunsOnce`: no tick starts a one-shot that has completed. `JoinComesLast`:
  a tick starts a join only if, at its look, the latest run of each job it waits for
  was over, or the job had left without one. Two kinds of runs are excepted by name:
  paused on a rate limit (section 4), and quiet, which nothing records at the start.
- `SessionOwner`: a session is continued only on the provider that issued it.
  `SessionNotShared`: no two processes write to one session, runs or terminals.
  `StoppedStaysStopped`: the queue does not resume a session its operator stopped.
- `NoTaskLost`: a queued one-shot stays in the queue until it has completed.
  `RunningIsRunning`: what the history calls running is. `OutcomeIsFinal`: a final
  outcome never changes.
- `EveryTaskFinishes`, `WaitingSessionResumes`, `EveryTakerAnswered`: liveness.
- `QueueOrderHolds` = the scan of the code agrees with the rule `Engine` uses
  (`SelectAgrees`), nothing passes an exclusive task that waits, and `Held`'s
  reasons are the true ones. `PlacementHolds` = what starts may run where it is
  placed and what waits has no stand-in (`WorkGoesWhereItCan`), a pool spreads its
  work (`PoolSpreads`), and backfill leaves nothing else waiting (`BackfillYields`).
  Which account may take work is said there of the configuration as a whole
  (`Reachable` is a closure over fallbacks), not of the walk the code makes.
- `LimitIsKept` = a limit the harness ended on is resumed, whoever stops the run
  (`LimitSurvives`), after the time it was told (`WaitIsKnown`). `AnswerKept`: an
  answer given before a regular exit is a success, though the output be held open,
  the operator stop the run or the watchdog fire after that. One case is excepted
  by name (`HungInGrace`, section 4): the watchdog fires and the output is let go
  within the grace period.
  `EveryRunReturns`: no run hangs in `Wait`, in the pipe or on a leftover.
- `GroupsTogether`, `PriorityKept`: groups stay blocks, and only a move changes who
  comes first. `QueueIsOwed`: what was queued is there until it is removed or
  finished. `ConfigHolds`: the file as a whole is sound although every command
  guards a part. `TargetsStand`: a task names something configured, unless
  it went away while the task was being filed (`late`) or was typed in the editor
  (`typed`). `MemoIsTrue`: no condition is sent twice (`NotToldTwice`), and of a provider
  held unready the newest word says so (`SilenceIsKnown`): the operator has heard it,
  or it is on its way, or it failed, went down with the daemon or was overtaken by
  an older one, which the memo does not know.
- `ListedCanBeOpened`, `AnnouncedOnce`, `QuietStaysQuiet`, `NothingStuck`: what is
  listed has its file; one announcement each; none for a muted or an older
  artifact; nothing undelivered for good.
- `AnswersFit`: an answer is about the settings it was asked for, and as fresh.
  `OpensWhatWasOffered`: the installer that opens is of no older release than was
  offered. `WokenInTime`: after a plan without error a wake is registered in time.
  `EditKept`: no rewrite undoes an edit. `OnlyNewestReviewRuns`: one draft review.
- `KeepsItsPromise`: `Store` implements `AtomicStore`. `UpdatesReturn`: every update
  returns. `DataIsOne`: the data is in one place. `MovedAlone`: an
  installer moves it under no daemon of ClaudeQ that still listens. `NewTakesOver`:
  after an installation the new release serves, or an installation has ended in an
  error since that one began. Both are about installations that launchd let unload
  ClaudeQ (section 4).

Fairness, and what in the code justifies it. In `Engine`: the loop ticks for ever,
time passes, so triggers come and gates reopen; a run's process ends, with an
outcome other than a limit if it is to end for good, because the idle watchdog
kills a hung one; `finish` is a straight line in a goroutine, and so is a handler
that has begun to cancel a resume; launchd restarts a daemon. In `Executor` the
goroutines of the daemon run on and time passes; its processes owe nothing. In
`Announce` the loop and the sending goroutines run and launchd restarts the
daemon. In `Store` a goroutine that can step does (a killed process has none). In
`Handover` and `Installer` programs run on; launchd starts the process of a loaded
agent, with strong fairness, because the slots for processes, which the model
bounds, are taken and freed again while it waits. Everything else is weak. No
fairness is assumed of anything the operator begins, nor of limits, failures or
crashes, whose number is bounded.

## 4. Findings and departures

Two are runs TLC finds violated, against a line the repository itself says:

- `cancel_resume`: `cancelResume` checks the running set, lets `Engine.mu` go and
  retires later. A tick in between resumes the session: it goes on running, and
  for a one-shot the queue entry is gone under it.
- `settings_lost_update`: `putSettings` loads the configuration and saves all of it
  later, so a task added meanwhile is dropped and one removed is revived.

Seen while modelling; the models do what the code does, and the properties except
these cases by name or their runs avoid them:

*Engine.* The session of a rate-limited run is kept before the run is recorded; a
crash in between leaves a session both the queue and the operator may continue
(engine.go:1252). `finish` decides by the trigger the run started with, so a one-shot
made recurring while it runs leaves the queue (1257). After a crash between
`retire`'s two writes a completed one-shot stays in the queue, never due (1095).
The documentation says a join waits for a job paused on a limit; `workflow.Resolve`
lets it go (workflow.go:82, where a comment says why; `PausesOnLimit` in
`JoinComesLast`). A tick and a manual start
that look at a provider at once may both announce it; `run-now` on the command line
notes a change and tells nobody. That a pool or the default has recovered is never
announced.

*Executor and parsers.* `Run` means to spare a harness that had exited before the
watchdog fired, but recognises one only by `ErrWaitDelay`, which `Wait` returns for
exit code 0 and an output held to the end of the grace period; otherwise the run is
reported as hung (executor.go:443), against the comment above it, which says that a
harness that exited by itself was not (441; `HungInGrace` in `AnswerKept`). A Claude organisation block after a limit
without a time gets no hour. A Codex limit at `turn.failed` followed by a hang ends
as failed.

*Queue and configuration.* Reusing an id can close a circle of dependencies.
`ImportTask` appends without `GroupedOrder`. The editor drops dependencies and
origin. Moving the first task of a block to another group promotes that group.
The form's PUT writes a stale switch. A daemon's retirement prunes no fold state,
and pruning may forget the fold of a group that has just come back.
`settings --default-provider` names a provider without asking whether it is on.
Providers of the prompt review and the assistant are not counted as in use. The
target of a task is checked before the lock, and in the editor not at all
(cmd/dispatchq/edit.go:528). `putSettings` may write back providers and targets that
are stale; the file still holds as a whole, since it did when it was loaded.

*Notifications and store.* A word about a provider is sent once, on a goroutine of its
own (engine.go:776): when the channel fails that is logged (1389) while the memo and
`state.json` have it as said, and two words may reach the operator the wrong way
round. Deleting an artifact while it is announced leaves its id
in `state.json`, or lets it be announced again. A crash between `state.json` and the
inbox loses an alert. `PruneHistory` holds no lock other processes see: a record a
CLI run appends meanwhile is lost; the model's recorders are of one process. `Store` is about updates under the
lock; `putSettings`, which writes without it, is a writer of `Queue` and `Providers`
and not of `Store`, where it would break the promise (`settings_lost_update`).

*Services.* A wake cancelled for one pmset refuses is believed in until another
time is wanted. The rename check's tail may drop the findings of a newer check.
A download takes the latest release, whatever its page showed; were a release
withdrawn between the check and the download, the data floor would not be asked
again.

*Hand-over.* `killStrayDaemons` kills after three seconds, so the grace of the runs
is not waited for. A command of the CLI, or a daemon the window starts, may move
ClaudeQ's data under a running `claudeqd`. A ClaudeQ on its old port is not seen
by the wait for the port (`SharedPort = FALSE`), and the wait is for the port, not for
the process: a daemon past its listener may still be there when the data moves. The
error of `launchctl bootout` is dropped (launchd.go:119 and 137, postinstall:202): if
ClaudeQ stays loaded, launchd starts it again during the move, and the installation
may report that it is done while ClaudeQ runs. A relaunch installs in a detached
process nobody reads the errors of; an installation that `pkill` ends says nothing.

## 5. Proofs

The theorems hold for any sets of tasks, providers, engines, clients, processes
and so on, any definitions, dependencies and fallback chains, and any bounds. They
rest on the named assumptions of the modules only, which say what the constants
are (`EnginesAssumption`, `ProvidersAssumption`, `BoundsAssumption`,
`TasksAssumption`, `StoreAssumption`, `HandoverAssumption`, `ReadingsAssumption`,
`UpdatesAssumption`, `ReviewsAssumption`, `WakesAssumption`, `AnnounceAssumption`,
`QueueAssumption`, `DefinitionsAssumption`, `LinesAssumption`, `ThresholdAssumption`) and
what is in the operator's files (`InitialConfigsAssumption`: a configuration the
program would save; `InitialQueuesAssumption`: a list of different ids, groups
together; `WorldsAssumption`: pools that pass `ValidatePool`, and readings that are
shares of a whole). `ModelsAssumption` is the one the program does not see to: a
model is of the kind of the provider it is named for, in a task and in a fallback.
Without it, no placement could promise a model the account knows. TLC evaluates
them in every run. A theorem that needs more names it as its hypothesis.

*`EngineProofs`.* `TypeCorrect == Spec => []TypeOK`. `TypeOK` alone is not
inductive: a launch uses the waiting sessions the tick read under the lock, and a
request about a run needs that run. `TypeInv` adds both (`TickWaits`, `RequestRuns`).
Then, without hypotheses:

- `OneRun` (`OneRunPerTask`), by `RunInv`: every run that has not left the running
  set has its task there (`ActiveRuns`), and what a tick has selected under the
  lock is not running (`StartsFree`). The last is why the second look under
  `Engine.mu` matters.
- `SessionsKeepTheirOwner` (`SessionOwner`), by `SessionInv`: every session written
  down anywhere, in a run, among the pending ones, in what a tick or a manual start
  has read, was opened by an earlier run on the provider written next to it. That
  it covers stale copies is the point.
- `CountersCount` (`CountersExact`): each counter is the cardinality of a set of
  runs, and a step adds one run to it or takes one away. It is inductive as it
  stands because a run remembers the definition it was started with.
- `AloneMeansAlone` (`ExclusiveAlone`), by `AloneInv`: the counters, and that what a
  tick has still to launch fits together and with what runs (`StartsTogether`).

*`EngineHistoryProofs`.*

- `RunningIsTrue` (`RunningIsRunning`), by `HistInv`: every entry is of a run that
  was started, a run whose process is gone has an outcome, and an entry `running`,
  which no quiet task has, is of a live run.
- `OutcomesAreFinal` (`OutcomeIsFinal`), by `FinalInv`, which knows one entry per run
  and what a cancelled resume holds. Hypothesis: no run from the command line.

What the queue is owed follows under hypotheses that leave out requests of the
operator:

| Theorem | Property | Left out | Without it, TLC shows it false with |
|---|---|---|---|
| `NothingIsLost` | `NoTaskLost` | `remove` | (removing is what a task may be lost by) |
| `CompletedStaysDone` | `OneShotRunsOnce` | `now from the CLI`, `cancel resume` | either |
| `JoinsComeLast` | `JoinComesLast` | `now from the CLI`, `add`; quiet tasks and a history shorter than all runs | the first and a crash; `add` and `remove` |
| `StoppedSessionsStay` | `StoppedStaysStopped` | `now`, `now from the CLI`, `cancel resume` | `now` and `cancel`; the second and `cancel`; the third |
| `OneWriter` | `SessionNotShared` | these and `crash` | `crash` and `continue`; `now`, `cancel` and `continue`; `now from the CLI`; `cancel resume` and `continue` |

(`OutcomeIsFinal` likewise is false with `now from the CLI` and a crash. That no task
is quiet and nothing is pruned is the proof's of `JoinsComeLast`: `engine_core` has
both, and the property holds there.) The others are
not accidents of the model: a manual start acts on what it read before its probe,
`cancelResume` between two locks, and after a crash the operator may continue what
the daemon will start again. The runs check the properties under the requests
their configurations name. The invariants: `OwedInv` relates the queue, the
completed tasks and where a run is in `finish`; `StartsOwed` says that what a tick
is about to launch has not completed; for joins, `FinalInv` and that what
a tick has read of the dependencies stays true of the runs there were at its look
(`WaitsOver`), for which the history has to be a log of all runs (`HistIsLog`:
nothing quiet, nothing pruned); `StopInv` says that
the sessions of stopped runs are nowhere to be resumed from; `SharedInv` adds what
a terminal is opened on.

*`DataDirectoryProofs`.* `StoreKeepsItsPromise` is the refinement, step by step: every
step of `Store` is a step of `AtomicStore` or changes nothing it knows. `StoreInv`: who
is between load and rename holds the file lock, is alone in that, and has loaded
what is still on the disk. Hypothesis: one process records runs
(`OneHistorian`), because `PruneHistory` is known to lose what another one appends
(section 4). `DataStaysTogether` (`DataIsOne`) and `DataMovesAlone` (`MovedAlone`) are by
`HandoverInv`: which of the two directories exists at each step of a move, and who
may then be running. `MovedAlone` needs that, from the installer's bootout to its move,
ClaudeQ's agent is not loaded and nobody can start its daemon (`ClaudeQAlone`,
`ClaudeQGone`, `StaysGone`); so whoever of ClaudeQ is left when the port is free has
closed its listener.

*`ServicesProofs`.* `AnswersFitQuestions` by `ReadingsInv` (every answer stored or on its
way carries the settings it is about and its time). `EditsAreKept` by `EditsInv`
(`EditKept` itself: a request compares under the lock, and replaces what was reviewed). `NewestReviewRuns`
by `DraftsInv`. `OffersAreKept` by `UpdatesInv` (what a check has seen only grows).
`WakesInTime` by `WakesInv`: what is believed registered is, or its time has come,
unless the scheduler itself has withdrawn it.

*`AnnounceProofs`.* `ListedIsWhole` by `FilesInv`: who holds a copy that is not listed yet,
and what is being unlinked. `NothingIsToldTwice` and `SilenceIsKept` by `SentInv`: a
thing is in one place on its way to the inbox, and the disk knows of it before
it is told.

*`ConfigurationProofs`*, for any number of clients.

- `FileHolds` (`ConfigHolds`) and `WorkHasAPlace` (`TargetsStand`) by `FileInv`: the guards
  of each command imply the part of the check on saving it may disturb. That
  chains of fallbacks end is by well-founded induction over their length. A copy of
  the providers that a form has loaded holds as it did when it was loaded.
- `WordIsKept` (`MemoIsTrue`) by `NewsInv` and, for the words under way, `SentInv`: the
  newest of an id is the last in its queue and says what was said last; under the hypothesis that the ticks alone
  look (`Lookers = {Tick}`), as in the run: manual looks may both announce
  (section 4).
- `ListIsGrouped` (`GroupsTogether`), `NothingIsLost` (`QueueIsOwed`) and `OrderIsPriority`
  (`PriorityKept`), by `QueueInv`: the stored list is a list of different ids, grouped
  as long as nothing has been imported; and what a client holds in hand is still
  fit to be written (`HandsInv`), so a list read for a save of the settings is
  itself grouped although it is old. The lemmas say what a stable sort by rank
  keeps, groups and puts where (`SortKeeps`, `SortGroups`, `SortKeepsOrder`), and what
  each operation does to the order of two tasks.

*`PlanningProofs`.* `OrderIsKept` (`QueueOrderHolds`), for lists of due tasks of any
length and whatever the providers answer, by `PassInv`: the due tasks are different,
and what starts is the scan of those that may run. `ScanFacts` says of the scan of
the code, a recursion, what it starts in terms of places in the list: parallel
tasks that have only parallel ones ahead, or an exclusive head when nothing runs.
That the scan agrees with `Engine`'s rule, that nothing passes a waiting exclusive
task, and what the queue says of those left behind are read off that.

`WorkIsPlacedWell` (`PlacementHolds`), for any accounts, pools, fallbacks, readings
and due tasks, by `PlacementInv`: besides `PassInv`, there is a count of runs per
account for every place in the sorted list, the first as the world has it, each
next one as the task between them changes it, and each task is placed by what it
is answered under the count before it (`Plan`). That a task is placed among the
tasks placed before it is all the code does; the promises are about the pass as a
whole. They take three lines of argument:

- *Ranking.* `ScoreShape` brings the tiers, urgencies and weights of a member to four
  cases. `RankingIsAnOrder`: the comparison `RankPool` sorts with is transitive and
  irreflexive, its ties carry on, and tiers come first (`FractionsCompare`: urgencies
  are fractions and are compared by cross multiplication). So a finite pool has a
  first member (`MinimalScore`, `BestFacts`), which may take the work if any may
  (`PoolOutcome`). One run more puts a member behind its equals (`MoreRuns`), so the
  counts of two members that stand alike never differ by two (`EvenCounts`), and
  what a pool takes in a pass is even (`SpreadHolds`, with `PutCounts` from the counts
  to sets of tasks). One run more also leaves no more to spare (`LessSpare`); backfill
  comes last in the list (`BackfillLast`), so what it is placed on has something to
  spare beside all other work of the pass (`YieldsHolds`).
- *Fallbacks.* `ChainIsReachable`: the walk of the code, which stops at a provider it
  has met, meets exactly what can be reached over fallbacks, in cycles and for
  broken ends as well. A walk of as many hops as there are providers has ended,
  as it meets nobody twice (`HopLinks`, `ChainFacts`), and what it ended on is closed
  (`ReachableCloses` for the closure). The one it resolves to is the first open one
  (`NamedOutcome`), so a task that waits at home has no stand-in.
- *Models.* What a task asks for, what stands in for it on a fallback and what the
  account runs by itself fit the account (`ModelFits`, `FallbackFits`).

*`ExecutorProofs`*, for any lines, any number of them, and any descendant.
`LimitsAreKept` (`LimitIsKept`) and `AnswersAreKept` (`AnswerKept`) are by `RunInv`, whose
heart is `ProgressInv`: for some `k` the reader has heard exactly the first `k` lines
the harness has written, none before the last of them was a limit to end on, and
while it scans the pipe holds the other lines in their order, interleaved with
those of the descendant (`Woven`); it stops at such a limit, at a line too long, or
at the end. `PhasesInv` ties what `Wait` returns to how the process ended, so a
success that was said is not lost to an exit code nobody saw. `HeardIsTrue` is what
a parser and the collector know after `k` lines, in terms of the signs in them. The
lines of a descendant bear no sign a parser looks for, and teach it nothing
(`NoiseIsNothing`).

The proofs are laid out alike: what a kind of step leaves alone (lemmas), one step
per action that may disturb the invariant, and a last step by temporal logic.

What the proofs changed. `MemoIsTrue`'s history variables missed an announcement
after six events, further than TLC's instances reach; they were corrected. The
lists of `Queue` became sorts, the removal in `Announce`, the selection from a list
(`Only`), `AddAll` and `Heard` recursive functions, and `Providers` got its set
of configurations, in order to be reasoned about; `LinesAssumption` now says that a
line is a set of signs and only Claude Code's lines name a block of the
organisation. `PoolSpreads` was false for what the instance of TLC does not have:
with several pools that share members, where work of one pool is placed between
the tasks of another, and for a session that waits on an account that has since
left the pool. It is now about one pool at a time and about sessions that wait on
a member, as the code promises. `Score` and `Best` are of a reading and a list of
members, and the walks over fallbacks are functions on as many steps as they take.
The runs and mutants of these modules are as before.

Recursive functions. The library's induction theorems take an operator, which no
prover here can instantiate. `Recursion` replaces them in `PlanningProofs` and
`ExecutorProofs`: by the least element of a set of naturals
(`NatLessThanWellFounded`), a chain of stages exists for any first value and any
functions between them, which is what a recursive definition over a list needs to
be unfolded; what holds of the first stage and is handed on then holds of the last
(`UpTo`).

Only model-checked. Liveness is out of the prover's reach here (the three of
`engine_live`, `EveryRunReturns`, `NothingStuck`, `UpdatesReturn`, `NewTakesOver`). Every
invariant and every other action property of a run is stated by a theorem, under
the hypotheses given above.

## 6. Plan

The hazards of section 1 without a property, first the identity of a removed task
and recurring tasks under rate limits; then a pass of `Planning` inside `Engine`, so
that what a tick places is placed under the gates as they move.

## 7. How to run

    tlc -workers 2 -config engine_core.cfg MCEngine      # engine_*, cancel_resume
    tlc -workers 2 -config planning.cfg MCPlanning
    tlc -workers 2 -config executor.cfg MCExecutor
    tlc -workers 2 -config announce.cfg MCAnnounce
    tlc -workers 2 -config configuration.cfg MCConfiguration
    tlc -workers 2 -config services.cfg MCServices
    tlc -workers 2 -config data_directory.cfg MCDataDirectory
    tlapm EngineProofs.tla            # and each of the other proof modules:
    tlapm EngineHistoryProofs.tla
    tlapm PlanningProofs.tla
    tlapm ExecutorProofs.tla
    tlapm DataDirectoryProofs.tla
    tlapm ServicesProofs.tla
    tlapm AnnounceProofs.tla
    tlapm ConfigurationProofs.tla

## 8. Not modelled

Command lines, environments, logs, models, metrics and the wording of messages;
cron arithmetic; validation of what a form carries; the channels behind the inbox
(macOS, Pushover); the bytes of the files (torn lines, damaged TOML) except the
outbox; the format of bundles and exporting; the assistant and feedback (questions
to a harness outside the queue, which change nothing); the sleep guard; statistics;
uninstalling; the window's web view and the dashboard, which are clients of the
API. A crash of the command line while it runs a task, a pending session written
before sessions carried a provider, and failing writes of `retire` and `finish` are
left out of `Engine`; which of two blocks of one gate wins is left out with the
times.
