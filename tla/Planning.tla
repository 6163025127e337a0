------------------------------ MODULE Planning ------------------------------
(***************************************************************************)
(* One pass of the scheduler as a function of what it reads: which of the  *)
(* due tasks start, on which providers, and what the queue says about the  *)
(* ones that wait (Engine.Tick, Engine.assign, schedule.Select and Held).  *)
(* Every pass looks at a queue that grew by one due task, in every world   *)
(* an instance names.                                                      *)
(***************************************************************************)
EXTENDS Schedule, Resolution

CONSTANTS
  Tasks,
  Definitions,  \* what the tasks may be: target, model, parallel, backfill
  Worlds,       \* configurations with the allowances and the readiness of a moment
  Threshold,    \* Settings.BackfillUrgency, in tenths
  ModelKind     \* the kind of provider a model belongs to

ASSUME DefinitionsAssumption ==
  \A d \in Definitions, t \in Tasks : {d[t].parallel, d[t].backfill, d[t].script} \subseteq BOOLEAN

ASSUME ThresholdAssumption == Threshold \in Nat

\* A configuration the program stores, and a moment of it.
ASSUME WorldsAssumption ==
  \A w \in Worlds :
    LET ids == DOMAIN w.set.instances
    IN /\ IsFiniteSet(ids) /\ None \notin ids
       /\ \A p \in ids : w.set.instances[p].enabled \in BOOLEAN
       /\ \A pool \in DOMAIN w.set.pools : ValidPool(ids, w.set.pools[pool])
       /\ ValidMoment(ids, w.av)

\* What a task or a provider names as a model is known where it is meant for.
\* The program does not check that: a name that is wrong at home is wrong
\* wherever the work goes.
Fits(w, model, id) ==
  id \in DOMAIN w.set.instances /\ model # None => ModelKind[model] = w.set.instances[id].kind
ASSUME ModelsAssumption ==
  \A w \in Worlds :
    /\ \A p \in DOMAIN w.set.instances :
         LET instance == w.set.instances[p]
         IN Fits(w, instance.model, p) /\ Fits(w, instance.fallbackModel, instance.fallback)
    /\ \A d \in Definitions, t \in Tasks :
         IF d[t].pool # None
         THEN d[t].pool \in DOMAIN w.set.pools =>
                \A m \in ToSet(w.set.pools[d[t].pool]) : Fits(w, d[t].model, m.id)
         ELSE Fits(w, d[t].model, IF d[t].provider = None THEN w.set.default ELSE d[t].provider)

VARIABLES
  due,      \* the due tasks, highest priority first
  task,     \* their definitions
  world,    \* what the pass finds
  running,  \* what runs already
  place,    \* what the pass makes of them: where every due task would go,
  starts    \* and which of them start

vars == <<due, task, world, running, place, starts>>

-----------------------------------------------------------------------------
(* The pass.                                                               *)

\* Backfill work goes behind everything else, whatever its place.
Sorted(q) == Only(q, {t \in Tasks : ~task[t].backfill})
             \o Only(q, {t \in Tasks : task[t].backfill})

\* selectionFor: a pool task asks for the member that holds its session.
Selection(t) ==
  [provider |-> task[t].provider, pool |-> task[t].pool, model |-> task[t].model,
   backfill |-> task[t].backfill, threshold |-> Threshold,
   prefer |-> IF task[t].pool = None THEN None ELSE world.holder]

\* assign: one task after another, each seeing the runs planned before it.
Placed(q) ==
  LET Pass[i \in 0..Len(q)] ==
        IF i = 0 THEN [on |-> <<>>, planned |-> world.av.running]
        ELSE LET before == Pass[i - 1]
                 av  == [world.av EXCEPT !.running = before.planned]
                 res == ResolveAvailable(world.set, av, Selection(q[i]))
             IN IF task[q[i]].script
                THEN [before EXCEPT !.on = Append(@, Goes(None, None))]
                ELSE [on |-> Append(before.on, res),
                      planned |-> IF res.on = None \/ res.on \in av.blocked
                                  THEN before.planned
                                  ELSE [before.planned EXCEPT ![res.on] = @ + 1]]
      on == Pass[Len(q)].on
  IN [t \in ToSet(q) |-> on[CHOOSE i \in DOMAIN q : q[i] = t]]

\* Held back for its allowance, refused by its target, or not ready right now.
GateHolds(p, t) == p[t].on \in world.av.blocked
Probed(p, t) == p[t].on # None /\ p[t].on \notin world.down \union world.av.unready

RunnableNow(q, p) ==
  Only(q, {t \in ToSet(q) : task[t].script \/ (Probed(p, t) /\ ~GateHolds(p, t))})
Parallel == [t \in Tasks |-> task[t].parallel]

Tick(q) ==
  /\ place' = Placed(q)
  /\ starts' = SelectScan(RunnableNow(q, place'), Parallel, running)
  /\ UNCHANGED <<task, world, running>>

-----------------------------------------------------------------------------
(* What a tick may find.                                                   *)

Init ==
  /\ due = <<>>
  /\ task \in Definitions
  /\ world \in Worlds
  /\ running \in [nonParallel : BOOLEAN, parallel : BOOLEAN]
  /\ place = <<>> /\ starts = {}

\* One more task is due, behind the others.
AnotherIsDue(t) ==
  /\ t \notin ToSet(due)
  /\ due' = Append(due, t)
  /\ Tick(Sorted(due'))

\* The next tick finds nothing due.
NothingIsDue ==
  /\ due # <<>>
  /\ due' = <<>>
  /\ Tick(<<>>)

Next == NothingIsDue \/ \E t \in Tasks : AnotherIsDue(t)
Spec == Init /\ [][Next]_vars

-----------------------------------------------------------------------------
(* Properties                                                              *)

\* What the last pass could have started.
Runnable == RunnableNow(Sorted(due), place)

\* The scan of the code and the rule Engine uses choose the same tasks: what
\* is proved about the one holds for the other (schedule.Select).
SelectAgrees ==
  starts = Select(ToSet(Runnable), Runnable, Parallel, running)

\* "We never start a lower-priority task ahead of a higher-priority due task
\* that is merely waiting for exclusivity", although parallel tasks behind it
\* could run (schedule.Select).
NeverPassesExclusive ==
  LET runnable == Runnable IN
  \A t, u \in ToSet(runnable) :
     Ahead(runnable, u, t) /\ ~Parallel[u] /\ u \notin starts => t \notin starts

\* The queue gives a reason for exactly the runnable tasks that stay behind,
\* and the reason is the true one (schedule.Held against schedule.Select).
HeldIsTrue ==
  LET runnable == Runnable
      held == Held(runnable, Parallel, running) IN
  /\ DOMAIN held = ToSet(runnable) \ starts
  /\ \A t \in DOMAIN held :
       /\ held[t] = "runs alone" =>
            /\ ~Parallel[t] /\ ~running.nonParallel
            /\ running.parallel \/ \E u \in starts : Ahead(runnable, u, t)
            /\ \A u \in ToSet(runnable) : Ahead(runnable, u, t) => Parallel[u]
       /\ held[t] = "behind an exclusive task" =>
            \E u \in ToSet(runnable) : Ahead(runnable, u, t) /\ ~Parallel[u]

\* The order of the queue is kept: everything a pass starts, passes over and
\* says of what it leaves behind agrees with the list and the parallel flags.
QueueOrderHolds == SelectAgrees /\ NeverPassesExclusive /\ HeldIsTrue

\* Backfill work only soaks up allowance nothing else wants: it starts on an
\* account whose allowance is at risk, also with the work that starts beside it
\* counted, and never in a pass that leaves runnable work that is not backfill
\* waiting (Engine.Tick, Set.checkSpare).
BackfillYields ==
  \A t \in starts : task[t].backfill /\ ~task[t].script =>
    /\ \A u \in ToSet(Runnable) : ~task[u].backfill => u \in starts
    /\ LET on == place[t].on
           beside == {u \in ToSet(due) : ~task[u].backfill /\ ~task[u].script
                                         /\ place[u].on = on}
           av == [world.av EXCEPT !.running[on] = @ + Cardinality(beside)]
       IN HasSpare(world.set, av, on, Threshold)

\* Work goes where it may and waits only when it must.  What starts runs on an
\* account that is switched on, has allowance and is ready; away from the
\* provider it names only when that one is out of allowance; and with a model of
\* that kind.  What waits for an allowance has no stand-in that could take it:
\* nobody reachable over fallbacks or in the pool is open, on and fit.
Reachable(set, id) ==
  LET Step(S) == S \union ({set.instances[p].fallback : p \in S} \intersect DOMAIN set.instances)
      size == Cardinality(DOMAIN set.instances)
      Closure[n \in 0..size] == IF n = 0 THEN {id} ELSE Step(Closure[n - 1])
  IN Closure[size]
Named(t) == IF task[t].provider = None THEN world.set.default ELSE task[t].provider
WorkGoesWhereItCan ==
  LET set == world.set
  IN \A t \in {u \in ToSet(due) : ~task[u].script} :
       LET at == place[t]
           candidates == IF task[t].pool # None
                         THEN {m.id : m \in ToSet(set.pools[task[t].pool])}
                         ELSE Reachable(set, Named(t))
       IN /\ t \in starts =>
               /\ at.on \in candidates /\ set.instances[at.on].enabled
               /\ at.on \notin world.av.blocked \union world.down
               /\ task[t].pool = None /\ at.on # Named(t) => Named(t) \in world.av.blocked
               /\ at.model # None => ModelKind[at.model] = set.instances[at.on].kind
          /\ at.on # None /\ GateHolds(place, t) =>
               \A p \in candidates : ~MayTake(set, world.av, p)

\* A pool spreads its work: of two members that stand alike, the tasks of one
\* pass do not pile up on one ("so two pool tasks due in the same tick do not
\* both pick the same account"); and a session is continued where it waits, as
\* long as that is a member that has allowance.
PoolSpreads ==
  LET Load(p) == Cardinality({t \in ToSet(due) : ~task[t].script /\ place[t].on = p})
                 + world.av.running[p]
      Members(pool) == ToSet(world.set.pools[pool])
      Alike(p, q) == /\ world.av.limits[p] = world.av.limits[q]
                     /\ MayTake(world.set, world.av, p) /\ MayTake(world.set, world.av, q)
                     /\ world.av.running[p] = world.av.running[q]
  IN \A pool \in DOMAIN world.set.pools :
     /\ \A t \in ToSet(due) : /\ ~task[t].script /\ task[t].pool = pool /\ pool # None
                              /\ \E m \in Members(pool) : m.id = world.holder
                              /\ MayTake(world.set, world.av, world.holder)
                              /\ ~task[t].backfill
                              => place[t].on = world.holder
     /\ /\ world.holder = None /\ pool # None
        /\ \A t \in ToSet(due) : task[t].script \/ (task[t].pool = pool /\ place[t].on # None)
        => \A m, n \in Members(pool) :
             Alike(m.id, n.id) /\ m.weight = n.weight => Load(m.id) - Load(n.id) <= 1

\* Work is placed well: on an account that may take it, spread over a pool, and
\* backfill only where nothing else wants the allowance.
PlacementHolds == WorkGoesWhereItCan /\ PoolSpreads /\ BackfillYields
=============================================================================
