------------------------------ MODULE Schedule ------------------------------
(***************************************************************************)
(* The pure scheduling rules of internal/schedule: when a task is due, and *)
(* which of the due tasks a tick may start.                                *)
(*                                                                         *)
(* A task definition is a record with (at least) the fields                *)
(*    trigger   "asap", "fixed" or "cron"                                  *)
(*    parallel  may run next to other parallel tasks                       *)
(*    enabled   switched on                                                *)
(* Trigger times are abstracted to one fact per task, "ripe": the start    *)
(* time of a fixed task has passed, or an occurrence of a cron task lies   *)
(* between its anchor (its last start) and now.                            *)
(*                                                                         *)
(* An operator whose name adds a deviation to the name of the one it stands *)
(* before (DueThoughRunning, Due) is a bug the properties have to notice;  *)
(* the specification uses none of them.                                    *)
(***************************************************************************)
EXTENDS Naturals, Sequences

\* A task that runs once: finishing takes it out of the queue.
OneShot(d) == d.trigger \in {"asap", "fixed"}

\* Due(t, Inputs): the switch, the running guard and the dependencies come
\* first; the trigger decides the rest.
DueThoughRunning(d, running, completedOnce, ripe, dependenciesMet) ==
  /\ d.enabled
  /\ dependenciesMet
  /\ \/ d.trigger = "asap"  /\ ~completedOnce
     \/ d.trigger = "fixed" /\ ~completedOnce /\ ripe
     \/ d.trigger = "cron"  /\ ripe

DueThoughCompleted(d, running, completedOnce, ripe, dependenciesMet) ==
  /\ d.enabled
  /\ ~running
  /\ dependenciesMet
  /\ d.trigger = "asap" \/ ripe

Due(d, running, completedOnce, ripe, dependenciesMet) ==
  /\ d.enabled
  /\ ~running
  /\ dependenciesMet
  /\ \/ d.trigger = "asap"  /\ ~completedOnce
     \/ d.trigger = "fixed" /\ ~completedOnce /\ ripe
     \/ d.trigger = "cron"  /\ ripe

-----------------------------------------------------------------------------
(***************************************************************************)
(* Select as the code computes it: a scan of the due tasks, highest        *)
(* priority first, that may stop early.  Picked[i] is what the scan has    *)
(* chosen from the first i tasks and whether it has stopped.               *)
(***************************************************************************)
SelectScanSkipping(due, parallel, running) ==
  LET Picked[i \in 0..Len(due)] ==
        IF i = 0 THEN {}
        ELSE IF parallel[due[i]] \/ (~running.parallel /\ Picked[i - 1] = {})
             THEN Picked[i - 1] \cup {due[i]} ELSE Picked[i - 1]
  IN IF running.nonParallel THEN {} ELSE Picked[Len(due)]

SelectScan(due, parallel, running) ==
  LET Picked[i \in 0..Len(due)] ==
        IF i = 0 THEN [start |-> {}, stopped |-> running.nonParallel]
        ELSE LET before == Picked[i - 1] IN
             IF before.stopped THEN before
             ELSE IF parallel[due[i]]
                  THEN [before EXCEPT !.start = @ \cup {due[i]}]
             ELSE IF running.parallel \/ before.start # {}
                  THEN [before EXCEPT !.stopped = TRUE]
             ELSE [start |-> {due[i]}, stopped |-> TRUE]
  IN Picked[Len(due)].start

(***************************************************************************)
(* The same choice said without the scan, which is the form Engine uses.   *)
(* A parallel candidate starts unless an exclusive one waits ahead of it;  *)
(* an exclusive one starts only at the head, with nothing running.         *)
(***************************************************************************)
Ahead(order, u, t) ==
  \E i, j \in 1..Len(order) : i < j /\ order[i] = u /\ order[j] = t

SelectBesideParallel(due, order, parallel, running) ==
  IF running.nonParallel THEN {}
  ELSE {t \in due :
          IF parallel[t]
          THEN \A u \in due : Ahead(order, u, t) => parallel[u]
          ELSE \A u \in due : ~Ahead(order, u, t)}

Select(due, order, parallel, running) ==
  IF running.nonParallel THEN {}
  ELSE {t \in due :
          IF parallel[t]
          THEN \A u \in due : Ahead(order, u, t) => parallel[u]
          ELSE ~running.parallel /\ \A u \in due : ~Ahead(order, u, t)}

(***************************************************************************)
(* Held: the reason the queue shows for every due task Select leaves out.  *)
(***************************************************************************)

Held(due, parallel, running) ==
  LET chosen == SelectScan(due, parallel, running)
      waits  == {i \in 1..Len(due) : due[i] \notin chosen}
      Reason(i) ==
        IF running.nonParallel THEN "an exclusive task is running"
        ELSE IF \E j \in 1..(i - 1) : ~parallel[due[j]]
             THEN "behind an exclusive task"
        ELSE "runs alone"
  IN [t \in {due[i] : i \in waits} |->
        Reason(CHOOSE i \in waits : due[i] = t)]
=============================================================================
