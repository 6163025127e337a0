----------------------------- MODULE MCPlanning -----------------------------
(***************************************************************************)
(* Planning on three accounts: two of one kind, which form a pool and back *)
(* each other up, and one of another kind at the end of the fallbacks.     *)
(***************************************************************************)
EXTENDS Planning

CONSTANTS t1, t2, t3, p1, p2, p3, pool, m1, m3

Accounts == {p1, p2, p3}
Kinds == [m \in {m1, m3} |-> IF m = m3 THEN "codex" ELSE "claude"]

-----------------------------------------------------------------------------
(* The tasks.                                                              *)

On(provider, at, model) ==
  [provider |-> provider, pool |-> at, model |-> model, script |-> FALSE,
   backfill |-> FALSE, parallel |-> TRUE]
Alone(t) == [t EXCEPT !.parallel = FALSE]
Backfill(t) == [t EXCEPT !.backfill = TRUE]
Script(t) == [t EXCEPT !.script = TRUE]
Three(a, b, c) == [t \in Tasks |-> CASE t = t1 -> a [] t = t2 -> b [] t = t3 -> c]

SomeDefinitions ==
  {Three(On(None, pool, m1), Alone(On(None, pool, None)), Alone(On(p1, None, m1))),
   Three(On(None, pool, None), Backfill(On(None, pool, None)), Alone(On(None, None, m1))),
   Three(Backfill(Alone(On(p1, None, None))), On(p1, None, m1), Script(On(None, None, None))),
   Three(Backfill(On(p2, None, None)), Alone(On(p2, None, m1)), On(None, pool, None))}

-----------------------------------------------------------------------------
(* The worlds.                                                             *)

Window(used, left) == [used |-> used, left |-> left]
Reading(windows) == [windows |-> windows, capacity |-> 0]
Unread  == Reading(<<>>)
Even    == Reading([w \in {"week"} |-> Window(5, 336)])
Urgent  == Reading([w \in {"week", "five_hour"} |->
                      IF w = "week" THEN Window(9, 4) ELSE Window(1, 8)])
Tight   == Reading([w \in {"week", "five_hour"} |->
                      IF w = "week" THEN Window(5, 40) ELSE Window(9, 8)])
UsedUp  == Reading([w \in {"day"} |-> Window(10, 40)])
Renewed == Reading([w \in {"week", "five_hour"} |->
                      IF w = "week" THEN Window(10, 0) ELSE Window(9, 0)])
Readings == {Unread, Even, Urgent, Tight, UsedUp, Renewed}
Larger  == [Urgent EXCEPT !.capacity = 5]

Fallback == [p \in Accounts |-> IF p = p1 THEN p2 ELSE IF p = p2 THEN p3 ELSE None]
World(state, r1, r2, busy, holder, named) ==
  [set |-> [instances |-> [p \in Accounts |->
              [kind |-> IF p = p3 THEN "codex" ELSE "claude",
               enabled |-> state[p] # "off",
               model |-> IF p = p3 THEN m3 ELSE None,
               fallback |-> Fallback[p],
               fallbackModel |-> IF p = p2 THEN named ELSE None]],
            default |-> p1,
            pools |-> [q \in {pool} |-> <<[id |-> p1, weight |-> 0], [id |-> p2, weight |-> 0]>>]],
   av |-> [blocked |-> {p \in Accounts : state[p] = "blocked"},
           unready |-> {p \in Accounts : state[p] = "unready"},
           limits |-> [p \in Accounts |-> IF p = p1 THEN r1 ELSE IF p = p2 THEN r2 ELSE Unread],
           running |-> [p \in Accounts |-> IF p = p1 THEN busy ELSE 0]],
   down |-> {p \in Accounts : state[p] = "down"},
   holder |-> holder]

States == [Accounts -> {"open", "blocked", "off", "unready", "down"}]
AllOpen == [p \in Accounts |-> "open"]
SomeWorlds ==
  {World(s, Even, Even, 0, h, n) : s \in States, h \in {None, p2}, n \in {None, m3}}
  \union {World(AllOpen, r1, r2, busy, None, None) :
            r1 \in Readings \union {Larger}, r2 \in Readings, busy \in {0, 1}}
  \union {World([AllOpen EXCEPT ![p1] = "blocked"], r, Urgent, 0, None, None) : r \in Readings}
=============================================================================
