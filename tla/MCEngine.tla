------------------------------ MODULE MCEngine ------------------------------
(***************************************************************************)
(* Instances of Engine for TLC: the definitions of the tasks, the fallback *)
(* chains and the request sets the configurations choose from.             *)
(***************************************************************************)
EXTENDS Engine

CONSTANTS a, b, p1, p2

Def(trigger, parallel, quiet, provider) ==
  [trigger |-> trigger, parallel |-> parallel, quiet |-> quiet,
   enabled |-> TRUE, provider |-> provider]

Asap(parallel, provider)  == Def("asap", parallel, FALSE, provider)
Quiet(parallel, provider) == Def("asap", parallel, TRUE, provider)

QueueAB == <<a, b>>
NoDependencies == [t \in Tasks |-> {}]
BWaitsForA     == [t \in Tasks |-> IF t = b THEN {a} ELSE {}]
P2BehindP1     == [p \in Providers |-> IF p = p1 THEN <<p2>> ELSE <<>>]

\* Two one-shots on the same account, one of them quiet; b waits for a.
CoreDefinitions ==
  [t \in Tasks |-> IF t = a THEN {Asap(TRUE, p1), Quiet(FALSE, p1)}
                   ELSE {Asap(TRUE, p1), Asap(FALSE, NoProvider)}]

\* Two one-shots of which at least one runs alone, for the crashes.
CrashDefinitions ==
  [t \in Tasks |-> IF t = a THEN {Asap(TRUE, p1), Quiet(FALSE, p1)}
                   ELSE {Asap(FALSE, NoProvider)}]

\* An exclusive cron task and a fixed one.
MixedDefinitions ==
  [t \in Tasks |-> IF t = a THEN {Def("cron", FALSE, FALSE, p1)}
                   ELSE {Def("fixed", TRUE, FALSE, p1), Asap(FALSE, p2)}]

\* An exclusive one-shot and a parallel one.
LiveDefinitions ==
  [t \in Tasks |-> {IF t = a THEN Asap(FALSE, p1) ELSE Asap(TRUE, p1)}]
=============================================================================
