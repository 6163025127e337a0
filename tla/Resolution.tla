----------------------------- MODULE Resolution -----------------------------
(***************************************************************************)
(* Where a task may run: internal/provider's resolution table, the walk    *)
(* along the fallbacks of a provider that is out of allowance, and the     *)
(* ranking of the members of a pool.                                       *)
(*                                                                         *)
(* A set is [instances, default, pools]: for every configured provider its *)
(* kind, switch, own model and fallback; for every pool its members in     *)
(* order.  What the resolution asks about the moment is an availability:   *)
(* the providers out of allowance, the ones known not to be ready, the     *)
(* readings of their limits, and the runs each has.                        *)
(*                                                                         *)
(* Times are in quarters of an hour, shares in tenths; an urgency is the   *)
(* fraction [n, d].  What the messages say is left out.  ChainOfTwo stands *)
(* for a bug the properties have to notice.                                *)
(***************************************************************************)
EXTENDS Integers, Sequences, FiniteSets, SequencesExt, FiniteSetsExt

CONSTANTS None  \* no provider, no pool, no model

NoReset == -1   \* a window that does not say when it resets

Refused(why) == [on |-> None, why |-> why, model |-> None, from |-> None]
Goes(id, model) == [on |-> id, why |-> "named", model |-> model, from |-> None]

\* The entries of a list that are in a set, in the order of the list.
Only(q, kept) ==
    LET only[n \in 0..Len(q)] ==
          IF n = 0 THEN <<>>
          ELSE IF q[n] \in kept THEN Append(only[n - 1], q[n]) ELSE only[n - 1]
    IN only[Len(q)]

\* The first of them.
FirstOf(q, kept) ==
    q[CHOOSE i \in 1..Len(q) : q[i] \in kept /\ \A j \in 1..i - 1 : q[j] \notin kept]

Configured(set, id) == id \in DOMAIN set.instances
ModelOn(set, id, want) == IF want = None THEN set.instances[id].model ELSE want

\* Set.Resolve for a selection that names no pool.
Resolve(set, sel) ==
    LET id == IF sel.provider = None THEN set.default ELSE sel.provider IN
    IF id = None \/ ~Configured(set, id) THEN Refused("unknown")
    ELSE IF ~set.instances[id].enabled THEN Refused("switched off")
    ELSE Goes(id, ModelOn(set, id, sel.model))

CanTake(set, av, id) == set.instances[id].enabled /\ id \notin av.unready
MayTake(set, av, id) == CanTake(set, av, id) /\ id \notin av.blocked

-----------------------------------------------------------------------------
(* How urgently an account wants work.                                     *)

\* What may be known of accounts at a moment.  Time left is 0 once a window has
\* started over; a share over the whole counts as the whole.
WindowKinds == {"week", "day", "five_hour"}
ValidReading(reading) ==
    /\ DOMAIN reading.windows \subseteq WindowKinds /\ reading.capacity \in Nat
    /\ \A w \in DOMAIN reading.windows :
         /\ reading.windows[w].used \in 0..10
         /\ reading.windows[w].left \in Int /\ reading.windows[w].left >= NoReset
ValidMoment(ids, av) ==
    /\ DOMAIN av = {"blocked", "unready", "limits", "running"}
    /\ av.running \in [ids -> Nat]
    /\ \A p \in ids : ValidReading(av.limits[p])

Length(window) == CASE window = "week" -> 672 [] window = "day" -> 96
                    [] window = "five_hour" -> 20

\* The long window is the week, or else the one that resets last, or else the
\* only one there is.
LongWindow(ws) ==
    LET others == {w \in DOMAIN ws \ {"five_hour"} : ws[w].left # NoReset} IN
    IF "week" \in DOMAIN ws THEN "week"
    ELSE IF others # {} THEN CHOOSE w \in others : \A v \in others : ws[w].left >= ws[v].left
    ELSE IF "five_hour" \in DOMAIN ws THEN "five_hour" ELSE None

Unscored(tier, running) ==
    [tier |-> tier, urgency |-> [n |-> 0, d |-> 1], weight |-> 1, running |-> running]

Score(reading, weight, usable, running) ==
    LET ws   == reading.windows
        long == LongWindow(ws)
        over == ws[long].left = 0
        used == IF over THEN 0 ELSE ws[long].used
        left == IF over \/ ws[long].left = NoReset THEN Length(long) ELSE ws[long].left
        tight == /\ "five_hour" \in DOMAIN ws \ {long}
                 /\ ws["five_hour"].left # 0 /\ ws["five_hour"].used >= 9
    IN IF ~usable THEN Unscored(3, running)
       ELSE IF long = None THEN Unscored(1, running)
       ELSE [tier    |-> IF used = 10 \/ tight THEN 2 ELSE 0,
             urgency |-> [n |-> (10 - used) * Length(long),
                          d |-> 10 * left * (1 + running)],
             weight  |-> IF weight > 0 THEN weight
                         ELSE IF reading.capacity > 0 THEN reading.capacity ELSE 1,
             running |-> running]

\* The allowance is at risk of going unused: room in both windows, and more
\* urgent than the threshold, which is given in tenths.
Spare(score, threshold) == score.tier = 0 /\ 10 * score.urgency.n > threshold * score.urgency.d
HasSpare(set, av, id, threshold) ==
    Spare(Score(av.limits[id], 1, MayTake(set, av, id), av.running[id]), threshold)

\* The order of RankPool: tier, then urgency times weight, then fewer runs.
Before(s, t) ==
    LET ns == s.urgency.n * s.weight * t.urgency.d
        nt == t.urgency.n * t.weight * s.urgency.d
    IN \/ s.tier < t.tier
       \/ s.tier = t.tier /\ ns > nt
       \/ s.tier = t.tier /\ ns = nt /\ s.running < t.running

-----------------------------------------------------------------------------
(* Pools.                                                                  *)

\* ValidatePool: every member of a pool is configured and named once, and no
\* weight is negative.
ValidPool(ids, pool) ==
    /\ pool \in Seq([id : ids, weight : Nat])
    /\ \A i, j \in DOMAIN pool : pool[i].id = pool[j].id => i = j

\* Backfill work wants spare allowance, other work only some.
Usable(set, av, sel, id) ==
    IF sel.backfill THEN HasSpare(set, av, id, sel.threshold) ELSE MayTake(set, av, id)
MemberScore(set, av, sel, m) ==
    Score(av.limits[m.id], m.weight, Usable(set, av, sel, m.id), av.running[m.id])

\* The best of the members that can take work; the first of them in a tie.
Best(set, av, sel, members) ==
    FirstOf(members, {m \in ToSet(members) : ~\E o \in ToSet(members) :
                        Before(MemberScore(set, av, sel, o), MemberScore(set, av, sel, m))})

ResolvePool(set, av, sel) ==
    LET listed  == set.pools[sel.pool]
        members == Only(listed, {m \in ToSet(listed) : Configured(set, m.id)})
        enabled == Only(members, {m \in ToSet(members) : set.instances[m.id].enabled})
        best    == Best(set, av, sel, members)
        On(id) == [Goes(id, ModelOn(set, id, sel.model)) EXCEPT !.why = "pool"]
    IN IF sel.pool \notin DOMAIN set.pools THEN Refused("unknown")
       ELSE IF enabled = <<>> THEN Refused("switched off")
       ELSE IF \E m \in ToSet(enabled) : m.id = sel.prefer /\ Usable(set, av, sel, m.id)
            THEN On(sel.prefer)
       ELSE IF MemberScore(set, av, sel, best).tier < 3 THEN On(best.id)
       ELSE IF sel.backfill THEN Refused("no spare")
       ELSE IF \E m \in ToSet(enabled) : m.id \in av.blocked
            THEN On(FirstOf(enabled, {m \in ToSet(enabled) : m.id \in av.blocked}).id)
       ELSE On(enabled[1].id)

-----------------------------------------------------------------------------
(* Fallbacks.                                                              *)

ChainOfTwo(set, origin) ==
    LET next == set.instances[origin].fallback IN
    IF Configured(set, next) THEN <<origin, next>> ELSE <<origin>>
\* The providers along the fallbacks, each once.
Chain(set, origin) ==
    LET size == Cardinality(DOMAIN set.instances)
        Walk[n \in 0..size] ==
          IF n = 0 THEN <<origin>>
          ELSE LET next == set.instances[Last(Walk[n - 1])].fallback IN
               IF Configured(set, next) /\ ~Contains(Walk[n - 1], next)
               THEN Append(Walk[n - 1], next) ELSE Walk[n - 1]
    IN Walk[size]

\* Whoever hands the work on may name the model; a name travels within a kind.
FallbackModel(set, origin, from, next, want) ==
    IF set.instances[from].fallbackModel # None THEN set.instances[from].fallbackModel
    ELSE IF want # None /\ set.instances[next].kind = set.instances[origin].kind THEN want
    ELSE set.instances[next].model

\* Set.ResolveAvailable: only a provider out of allowance hands work on, to the
\* first hop that can take it, and never backfill work.
ResolveAvailable(set, av, sel) ==
    LET res   == Resolve(set, sel)
        chain == Chain(set, res.on)
        hops  == {i \in 2..Len(chain) : MayTake(set, av, chain[i])}
        hop   == Min(hops)
    IN IF sel.pool # None THEN ResolvePool(set, av, sel)
       ELSE IF res.on = None THEN res
       ELSE IF sel.backfill
            THEN IF HasSpare(set, av, res.on, sel.threshold) THEN res ELSE Refused("no spare")
       ELSE IF res.on \notin av.blocked \/ hops = {} THEN res
       ELSE [on    |-> chain[hop], why |-> "fallback", from |-> res.on,
             model |-> FallbackModel(set, res.on, chain[hop - 1], chain[hop], sel.model)]
=============================================================================
