----------------------------- MODULE Providers -----------------------------
(***************************************************************************)
(* What config.toml says about the harnesses tasks run on -- the provider  *)
(* instances with their rate-limit fallbacks, the pools, the default, and  *)
(* the provider or pool every task names -- and what the operator is told  *)
(* when one of them cannot run, or can again.                              *)
(*                                                                         *)
(* A change is a locked read-change-write of the whole file (see Store),   *)
(* so it is one action; only the dashboard's settings form reads and       *)
(* writes the file in two, without the lock.  Each command guards only the *)
(* part of the file it has in its hands, and saving guards the providers   *)
(* once more; nothing ever looks at the file as a whole.  Filing a task is *)
(* two actions: its target is checked without the lock -- or, in the       *)
(* editor, not at all.                                                     *)
(*                                                                         *)
(* The announcements follow the scheduler's looks at the providers of the  *)
(* tasks that are due.  What was announced is remembered twice: in the     *)
(* memory of the process and in state.json, for the time after a restart.  *)
(* The words themselves leave on goroutines of their own: they may         *)
(* overtake each other, fail, or go down with the daemon.                  *)
(* `dispatchq run-now` looks too, in a process of its own that notifies    *)
(* nobody.                                                                 *)
(*                                                                         *)
(* Paths, names, models and weights are left out: nothing here reads them. *)
(* An operator that stands right before another of the same stem is a bug  *)
(* the properties have to notice.                                          *)
(***************************************************************************)
EXTENDS Clients, SequencesExt, FiniteSetsExt, TLC

CONSTANTS
    ProviderIds,  \* ids of providers and of pools
    Kinds,     \* the registered adapters
    Tasks,     \* ids of tasks
    None,      \* the empty string: no fallback, no provider, no pool
    Tick, Manual, RunNow,  \* who looks: the scheduler, a start from the
                           \* dashboard, `dispatchq run-now`
    Lookers,   \* those of them that do
    InitialConfigs,
    BrokenAtFirst  \* the providers whose harness cannot run at the start

ASSUME ProvidersAssumption ==
    None \notin ProviderIds /\ Cardinality({Tick, Manual, RunNow}) = 3

VARIABLES
    config,    \* config.toml
    late,      \* history: the tasks written after their target had gone
    typed,     \* history: the tasks whose target was typed in the editor
               \* when it was not there
    forced,    \* history: the settings command last named the default
    broken,    \* the providers whose harness cannot run
    memo,      \* Engine.providerHealth of the daemon
    noted,     \* State.NotifiedProviderHealth
    looks,     \* the look each of them is in the middle of
    said,      \* history: what was last handed over to be sent of an id
    sending,   \* the words of an id still on their goroutines, oldest first
    told,      \* history: what the operator heard last of an id
    fate,      \* history: what has become of the newest word of an id
    renewed,   \* history: the ids forgotten since what was last announced of
               \* them was recorded
    again,     \* history: the ids of which the same was said twice
    unsaid     \* history: the ids whose last announcement a crash swallowed

marks    == <<late, typed, forced>>
delivery == <<sending, told, fate>>
alerts   == <<broken, memo, noted, looks, said, delivery, renewed, again, unsaid>>
providersVars == <<config, ops, left, marks, alerts>>

Provider == [kind : Kinds, on : BOOLEAN, fallback : ProviderIds \union {None}]

\* A task names a provider or a pool, or neither, which is the default.
Target == [provider : ProviderIds \union {None}, pool : {None}]
            \union [provider : {None}, pool : ProviderIds]

MemberLists == BoundedSeq(ProviderIds, 2)

Maps(S, T) == UNION {[D -> T] : D \in SUBSET S}
Config == [providers : Maps(ProviderIds, Provider),
           pools     : Maps(ProviderIds, MemberLists),
           default   : ProviderIds,
           tasks     : [Tasks -> Target]]

Asked == ProviderIds \union {None}
Unheard == [id \in Asked |-> "never"]

Known(c)  == DOMAIN c.providers
Pooled(c) == DOMAIN c.pools

ProvidersInit ==
    /\ config \in InitialConfigs
    /\ late = {} /\ typed = {} /\ forced = FALSE
    /\ broken = BrokenAtFirst \intersect Known(config) /\ noted = Unheard /\ said = Unheard
    /\ memo = Unheard /\ looks = [l \in Lookers |-> Idle]
    /\ sending = [id \in Asked |-> <<>>] /\ told = Unheard
    /\ fate = [id \in Asked |-> "none"]
    /\ renewed = {} /\ again = {} /\ unsaid = {}

-----------------------------------------------------------------------------
(* What is checked on every save of the file, and with every pool.         *)

\* The providers that come after id when every account in turn has run out.
Behind(ps, id) ==
    LET Step(S) == S \union ({ps[i].fallback : i \in S \intersect DOMAIN ps} \ {None})
        reach[n \in 0..Cardinality(DOMAIN ps)] ==
            IF n = 0 THEN {ps[id].fallback} \ {None} ELSE Step(reach[n - 1])
    IN reach[Cardinality(DOMAIN ps)]

FallbacksHold(ps) ==
    \A id \in DOMAIN ps : Behind(ps, id) \subseteq DOMAIN ps /\ id \notin Behind(ps, id)

ProvidersHold(c) == c.default \in Known(c) /\ FallbacksHold(c.providers)

PoolHolds(c, id, members) ==
    /\ id \notin Known(c)
    /\ members # <<>> /\ ToSet(members) \subseteq Known(c)
    /\ IsInjective(members)
    /\ Cardinality({c.providers[m].kind : m \in ToSet(members)}) = 1

\* The file as a whole.
Holds(c) ==
    /\ Known(c) \intersect Pooled(c) = {}
    /\ ProvidersHold(c)
    /\ \A p \in Pooled(c) : PoolHolds(c, p, c.pools[p])

Configured(c, target) ==
    /\ target.pool # None => target.pool \in Pooled(c)
    /\ target.provider # None => target.provider \in Known(c)

\* What is there when the commands begin holds, and the tasks can run.
ASSUME InitialConfigsAssumption ==
    \A c \in InitialConfigs :
        /\ c \in Config /\ Holds(c) /\ c.providers[c.default].on
        /\ \A t \in Tasks : Configured(c, c.tasks[t])

\* SaveConfig refuses a file whose providers do not hold.
Saved(c) == ProvidersHold(c) /\ config' = c

\* An operation of one step is over before it can be in anybody's way.
AtOnce == OneEvent /\ UNCHANGED <<ops, late, typed, alerts>>

-----------------------------------------------------------------------------
(* Provider instances.                                                     *)

AddProvider(id, inst) ==
    /\ id \notin Known(config) \union Pooled(config)
    /\ Saved([config EXCEPT !.providers =
                [i \in Known(config) \union {id} |->
                    IF i = id THEN inst ELSE config.providers[i]]])

AddProviderRequest(id) ==
    /\ AtOnce /\ UNCHANGED forced
    /\ \E inst \in Provider : AddProvider(id, inst)
AddProviderCommand(id) ==
    /\ AtOnce /\ UNCHANGED forced
    /\ \E inst \in [kind : Kinds, on : {TRUE}, fallback : ProviderIds \union {None}] :
         AddProvider(id, inst)

DefaultStaysUsable(id, on) == on \/ config.default # id

EditProvider(id, inst) ==
    /\ id \in Known(config)
    /\ DefaultStaysUsable(id, inst.on)
    /\ Saved([config EXCEPT !.providers[id] = inst])

\* The kind of an instance is fixed: the request refuses another one and the
\* command has no flag for it.
EditProviderRequest(id) ==
    /\ AtOnce /\ UNCHANGED forced
    /\ \E fallback \in ProviderIds \union {None}, on \in BOOLEAN : id \in Known(config)
         /\ EditProvider(id, [config.providers[id] EXCEPT !.fallback = fallback, !.on = on])
EditProviderCommand(id) ==
    /\ AtOnce /\ UNCHANGED forced
    /\ \E fallback \in ProviderIds \union {None} : id \in Known(config)
         /\ EditProvider(id, [config.providers[id] EXCEPT !.fallback = fallback])

SetProviderEnabled(id) ==
    /\ AtOnce /\ UNCHANGED forced
    /\ \E on \in BOOLEAN :
         /\ id \in Known(config) /\ DefaultStaysUsable(id, on)
         /\ Saved([config EXCEPT !.providers[id].on = on])

\* Everything that names a provider; the settings of the prompt review and of
\* the assistant name one too, but are not asked.
InUseByTasksOnly(cfg, id) ==
    cfg.default = id \/ \E t \in Tasks : cfg.tasks[t].provider = id
InUse(cfg, id) ==
    \/ cfg.default = id
    \/ \E p \in Known(cfg) : cfg.providers[p].fallback = id
    \/ \E p \in Pooled(cfg) : Contains(cfg.pools[p], id)
    \/ \E t \in Tasks : cfg.tasks[t].provider = id

RemoveProvider(c, id) ==
    /\ Begin(c)
    /\ id \in Known(config) /\ Cardinality(Known(config)) > 1
    /\ ~InUse(config, id)
    /\ Saved([config EXCEPT !.providers =
                [i \in Known(config) \ {id} |-> config.providers[i]]])
    /\ ops' = [ops EXCEPT ![c] = [pc |-> "forget", id |-> id]]
    /\ UNCHANGED <<marks, alerts>>

\* State.ForgetProvider: an instance added later under the id is a new one.
ForgetProvider(c) ==
    /\ ops[c].pc = "forget"
    /\ noted' = [noted EXCEPT ![ops[c].id] = "never"]
    /\ renewed' = renewed \union {ops[c].id}
    /\ ops' = [ops EXCEPT ![c] = Idle]
    /\ UNCHANGED <<config, left, marks, broken, memo, looks, said, delivery, again, unsaid>>

SetDefaultProvider(id) ==
    /\ AtOnce
    /\ id \in Known(config) /\ config.providers[id].on
    /\ Saved([config EXCEPT !.default = id])
    /\ forced' = FALSE

\* `dispatchq settings --default-provider`: only the save checks the id.
SettingsDefault(id) ==
    /\ AtOnce
    /\ Saved([config EXCEPT !.default = id])
    /\ forced' = TRUE

\* putSettings: the form's save reads the file, works on it, and writes it back
\* as a whole without the lock, with the default the file named when it was
\* read.  What had been done to the providers, the pools and the tasks in
\* between is undone, and with it what is remembered of them here.
SettingsFormLoads(c) ==
    /\ Begin(c)
    /\ ops' = [ops EXCEPT ![c] = [pc |-> "put", cfg |-> config, late |-> late,
                                  typed |-> typed, forced |-> forced]]
    /\ UNCHANGED <<config, marks, alerts>>

SettingsFormSaves(c) ==
    /\ ops[c].pc = "put"
    /\ Saved(ops[c].cfg)
    /\ late' = ops[c].late /\ typed' = ops[c].typed /\ forced' = ops[c].forced
    /\ ops' = [ops EXCEPT ![c] = Idle]
    /\ UNCHANGED <<left, alerts>>

-----------------------------------------------------------------------------
(* Pools.                                                                  *)

AddPool(id) ==
    /\ AtOnce /\ UNCHANGED forced
    /\ id \notin Pooled(config)
    /\ \E members \in MemberLists :
         /\ PoolHolds(config, id, members)
         /\ Saved([config EXCEPT !.pools = [p \in Pooled(config) \union {id} |->
                IF p = id THEN members ELSE config.pools[p]]])

EditPool(id) ==
    /\ AtOnce /\ UNCHANGED forced
    /\ id \in Pooled(config)
    /\ \E members \in MemberLists :
         /\ PoolHolds(config, id, members)
         /\ Saved([config EXCEPT !.pools[id] = members])

RemovePool(id) ==
    /\ AtOnce /\ UNCHANGED forced
    /\ id \in Pooled(config)
    /\ \A t \in Tasks : config.tasks[t].pool # id
    /\ Saved([config EXCEPT !.pools = [p \in Pooled(config) \ {id} |-> config.pools[p]]])

-----------------------------------------------------------------------------
(* The tasks that name them.  A task off the queue is one that names       *)
(* nothing: which tasks there are is Queue's.                              *)

\* EnsureRunnable, EnsurePoolRunnable: configured, switched on, and -- for all
\* the checker knows -- able to run; a pool needs one such member.
RunnableProvider(cfg, id) == id \in Known(cfg) /\ cfg.providers[id].on
RunnablePool(cfg, id) ==
    id \in Pooled(cfg) /\ \E m \in ToSet(cfg.pools[id]) : RunnableProvider(cfg, m)
EnsureTaskTargetUnchecked(target) == TRUE
EnsureTaskTarget(target) ==
    IF target.pool # None THEN RunnablePool(config, target.pool)
    ELSE RunnableProvider(config,
            IF target.provider = None THEN config.default ELSE target.provider)

\* add, queue, import and an edit that moves the task: checked first ...
Filing(t, target) == [pc |-> "file", task |-> t, target |-> target,
                      seen |-> Configured(config, target) \/ t \in late \union typed]
CheckTarget(c, t) ==
    /\ Begin(c)
    /\ \E target \in Target :
         /\ EnsureTaskTarget(target)
         /\ ops' = [ops EXCEPT ![c] = Filing(t, target)]
    /\ UNCHANGED <<config, marks, alerts>>

\* ... but the target the task already has is not, in a form that keeps it ...
KeepTarget(c, t) ==
    /\ Begin(c)
    /\ ops' = [ops EXCEPT ![c] = Filing(t, config.tasks[t])]
    /\ UNCHANGED <<config, marks, alerts>>

\* ... and written under the lock, which asks for the providers no more.
FileTask(c) ==
    /\ ops[c].pc = "file"
    /\ LET op == ops[c] IN
         /\ Saved([config EXCEPT !.tasks[op.task] = op.target])
         /\ late' = IF op.seen /\ ~Configured(config, op.target)
                    THEN late \union {op.task} ELSE late \ {op.task}
         /\ typed' = typed \ {op.task}
    /\ ops' = [ops EXCEPT ![c] = Idle]
    /\ UNCHANGED <<left, forced, alerts>>

\* applyEditedDoc: what was typed in the editor is written as it is, if the task
\* is still what the editor was opened on.
ApplyEditedDoc(t) ==
    /\ OneEvent
    /\ \E target \in Target :
         /\ Saved([config EXCEPT !.tasks[t] = target])
         /\ typed' = IF Configured(config, target) THEN typed \ {t} ELSE typed \union {t}
    /\ late' = late \ {t}
    /\ UNCHANGED <<ops, forced, alerts>>

\* The task is removed, or finishes and is taken off the queue.
TaskLeaves(t) ==
    /\ config.tasks[t] # [provider |-> None, pool |-> None]
    /\ Saved([config EXCEPT !.tasks[t] = [provider |-> None, pool |-> None]])
    /\ late' = late \ {t} /\ typed' = typed \ {t}
    /\ UNCHANGED <<ops, left, forced, alerts>>

-----------------------------------------------------------------------------
(* What the operator is told.                                              *)

\* The harness of a provider stops working, or works again.
HarnessChanges(id) ==
    /\ OneEvent
    /\ id \in Known(config)
    /\ broken' = SymDiff(broken, {id})
    /\ UNCHANGED <<config, ops, marks, memo, noted, looks, said, delivery, renewed, again, unsaid>>

\* What a look finds for a target: the id the finding is filed under, and the
\* state.  An id that nothing runnable answers to is reported as it was asked
\* for; otherwise the provider that takes the run is probed.
Found(id) == [id |-> id, state |-> IF id \in broken THEN "unready" ELSE "ready"]
Findings(cfg, target) ==
    LET asked == IF target.pool # None THEN target.pool ELSE target.provider
        takes == IF target.pool # None
                 THEN IF target.pool \in Pooled(cfg) THEN ToSet(cfg.pools[target.pool]) ELSE {}
                 ELSE {IF target.provider = None THEN cfg.default ELSE target.provider}
        able  == {id \in takes : RunnableProvider(cfg, id)}
    IN IF able = {} THEN {[id |-> asked, state |-> "invalid"]}
       ELSE {Found(id) : id \in able}

\* refreshProviderHealth in a tick, resolveRunnable in a manual start: the
\* configuration and state.json are read first.  A manual start whose target
\* cannot be resolved is refused without a note.
LookBegin(l, t) ==
    /\ OneEvent
    /\ looks[l] = Idle
    /\ l # Tick => \A f \in Findings(config, config.tasks[t]) : f.state # "invalid"
    /\ looks' = [looks EXCEPT ![l] = [pc |-> "note", cfg |-> config, st |-> noted,
                                      target |-> config.tasks[t]]]
    /\ UNCHANGED <<config, ops, marks, broken, memo, noted, said, delivery, renewed, again, unsaid>>

\* noteProviderHealth: the memo decides, under its lock, whether this is news.
\* A run-now has nothing in its memory yet.
Previous(l, f) ==
    IF l # RunNow /\ memo[f.id] # "never" THEN memo[f.id] ELSE looks[l].st[f.id]
Note(l) ==
    /\ looks[l].pc = "note"
    /\ \E f \in Findings(looks[l].cfg, looks[l].target) :
         /\ memo' = IF l = RunNow THEN memo ELSE [memo EXCEPT ![f.id] = f.state]
         /\ looks' = [looks EXCEPT ![l] =
                [pc |-> IF Previous(l, f) = f.state THEN "end" ELSE "record",
                 cfg |-> @.cfg, target |-> @.target,
                 found |-> f, previous |-> Previous(l, f)]]
    /\ UNCHANGED <<config, ops, left, marks, broken, noted, said, delivery, renewed, again, unsaid>>

Record(l) ==
    /\ looks[l].pc = "record"
    /\ noted' = [noted EXCEPT ![looks[l].found.id] = looks[l].found.state]
    /\ looks' = [looks EXCEPT ![l].pc = "tell"]
    /\ UNCHANGED <<config, ops, left, marks, broken, memo, said, delivery, renewed, again, unsaid>>

\* A run-now has no notifier; and that a provider works is no news the first
\* time.
NoNewsAtFirst(l) == l = RunNow \/ looks[l].previous = "never"
NoNews(l) ==
    l = RunNow \/ (looks[l].found.state = "ready" /\ looks[l].previous = "never")
Tell(l) ==
    /\ looks[l].pc = "tell"
    /\ LET f == looks[l].found
       IN IF NoNews(l) THEN UNCHANGED <<said, sending, fate, renewed, again, unsaid>>
          ELSE /\ said' = [said EXCEPT ![f.id] = f.state]
               /\ sending' = [sending EXCEPT ![f.id] = Append(@, f.state)]
               /\ fate' = [fate EXCEPT ![f.id] = "under way"]
               /\ renewed' = IF noted[f.id] = "never" THEN renewed ELSE renewed \ {f.id}
               /\ unsaid' = unsaid \ {f.id}
               /\ again' = IF said[f.id] = f.state /\ f.id \notin renewed \union unsaid
                           THEN again \union {f.id} ELSE again
    /\ looks' = [looks EXCEPT ![l].pc = "end"]
    /\ UNCHANGED <<config, ops, left, marks, broken, memo, noted, told>>

\* send, on the goroutine of each word: it reaches the operator, in no order, or
\* the channel fails, which is logged and no more.
Newest(id, i) == fate[id] = "under way" /\ i = Len(sending[id])
Gone(id, i) == sending' = [sending EXCEPT ![id] = RemoveAt(@, i)]
Deliver(id, i) ==
    /\ told' = [told EXCEPT ![id] = sending[id][i]]
    /\ fate' = [fate EXCEPT ![id] = IF Newest(id, i) THEN "heard"
                                    ELSE IF @ = "heard" THEN "overtaken" ELSE @]
    /\ Gone(id, i)
    /\ UNCHANGED <<config, ops, left, marks, broken, memo, noted, looks, said, renewed,
                   again, unsaid>>
DeliveryFails(id, i) ==
    /\ OneEvent
    /\ fate' = [fate EXCEPT ![id] = IF Newest(id, i) THEN "lost" ELSE @]
    /\ Gone(id, i)
    /\ UNCHANGED <<config, ops, marks, broken, memo, noted, looks, said, told, renewed,
                   again, unsaid>>

\* A tick forgets the ids that are neither configured nor asked for.
LookEnd(l) ==
    /\ looks[l].pc = "end"
    /\ LET target == looks[l].target
           known == Known(looks[l].cfg) \union
                    {IF target.pool # None THEN target.pool ELSE target.provider}
       IN memo' = IF l # Tick THEN memo
                  ELSE [id \in Asked |-> IF id \in known THEN memo[id] ELSE "never"]
    /\ looks' = [looks EXCEPT ![l] = Idle]
    /\ UNCHANGED <<config, ops, left, marks, broken, noted, said, delivery, renewed, again, unsaid>>

\* The daemon goes down, at any point, and comes up again.  The words that had
\* not left are lost.
Restart ==
    /\ OneEvent
    /\ memo' = Unheard
    /\ looks' = [l \in Lookers |-> IF l = RunNow THEN looks[l] ELSE Idle]
    /\ unsaid' = unsaid \union {looks[l].found.id :
                    l \in {l \in Lookers \ {RunNow} : looks[l].pc = "tell"}}
    /\ sending' = [id \in Asked |-> <<>>]
    /\ fate' = [id \in Asked |-> IF fate[id] = "under way" THEN "lost" ELSE fate[id]]
    /\ UNCHANGED <<config, ops, marks, broken, noted, said, told, renewed, again>>

-----------------------------------------------------------------------------
ProvidersNext ==
    \/ \E id \in ProviderIds :
         \/ AddProviderRequest(id) \/ AddProviderCommand(id)
         \/ EditProviderRequest(id) \/ EditProviderCommand(id)
         \/ SetProviderEnabled(id) \/ SetDefaultProvider(id) \/ SettingsDefault(id)
         \/ AddPool(id) \/ EditPool(id) \/ RemovePool(id)
         \/ HarnessChanges(id) \/ \E c \in Clients : RemoveProvider(c, id)
    \/ \E c \in Clients :
         \/ FileTask(c) \/ ForgetProvider(c) \/ SettingsFormLoads(c) \/ SettingsFormSaves(c)
         \/ \E t \in Tasks : CheckTarget(c, t) \/ KeepTarget(c, t)
    \/ \E t \in Tasks :
         ApplyEditedDoc(t) \/ TaskLeaves(t) \/ \E l \in Lookers : LookBegin(l, t)
    \/ \E l \in Lookers : Note(l) \/ Record(l) \/ Tell(l) \/ LookEnd(l)
    \/ \E id \in Asked : \E i \in 1..Len(sending[id]) : Deliver(id, i) \/ DeliveryFails(id, i)
    \/ Restart

-----------------------------------------------------------------------------
(* Properties                                                              *)

\* The file as a whole holds after every change, although each command looks
\* at its own part: an id means one thing, the default exists, every chain of
\* fallbacks ends, and every pool has members, all configured and of one kind.
ConfigHolds == Holds(config)

\* Work never stands behind something that is not there or switched off by
\* accident.  What a task names is configured, with two exceptions: it went away
\* between the look of a filing and its write (EnsureRunnable's "an id nothing is
\* configured under"), or it was typed in the editor, which checks no target.
\* And the default, on which the tasks run that name nothing, is on, unless the
\* settings command named it without asking.
TargetsStand ==
    /\ \A t \in Tasks : ~Configured(config, config.tasks[t]) => t \in late \union typed
    /\ ~config.providers[config.default].on => forced

\* A condition the operator was told of is not announced again, wherever the
\* daemon is restarted ("so a restart does not re-announce a condition the
\* operator already knows about"), as long as it alone looks, in its ticks;
\* unless the condition had changed in between and the daemon went down with
\* the word of it.
NotToldTwice == again = {}

\* What the daemon takes for known was really said, and said last: of a provider
\* it holds unready the newest word is that it cannot run, unless the daemon
\* went down between the record and the word.  The operator has heard so when
\* that word was delivered -- but a word is sent once: one that failed, went down
\* with the daemon or was overtaken by an older one ("lost", "overtaken") leaves
\* the operator with another, and the memo does not know.
Telling(id) == \E l \in Lookers : looks[l].pc \in {"record", "tell"} /\ looks[l].found.id = id
SilenceIsKnown ==
    \A id \in ProviderIds : memo[id] = "unready" /\ ~Telling(id) =>
        \/ id \in unsaid
        \/ /\ said[id] = "unready"
           /\ fate[id] \in {"under way", "lost", "overtaken"} \/ told[id] = "unready"

\* The announcements of providers going down and coming back are remembered as
\* they were made, over crashes, restarts and deliveries that fail or come late.
MemoIsTrue == NotToldTwice /\ SilenceIsKnown
=============================================================================
