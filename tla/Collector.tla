----------------------------- MODULE Collector -----------------------------
(***************************************************************************)
(* How the events of a run become its outcome (internal/provider,          *)
(* collect.go), and how long the account is left alone when that outcome   *)
(* is a limit.  Texts, models and metrics are left out: they change        *)
(* neither.                                                                *)
(***************************************************************************)
EXTENDS Integers, Sequences

\* An event has a type and, if it is a limit, the delay and whether there is a
\* reset time it was reported with.
EventTypes == {"completed", "completed with an error", "rate limited",
               "auth failed", "model rejected", "failed"}
Delays == {"none", "backoff", "hour"}
Event  == [type : EventTypes, retry : Delays, reset : BOOLEAN]
Plainly(type) == [type |-> type, retry |-> "none", reset |-> FALSE]

\* A collector is the set of its flags that are up, and the timing of a limit.
NewCollector == [up |-> {}, retry |-> "none", reset |-> FALSE]

Raised(ev) ==
  CASE ev.type = "rate limited"   -> {"rateLimited"}
    [] ev.type = "auth failed"    -> {"authFailed"}
    [] ev.type = "model rejected" -> {"modelReject"}
    [] ev.type = "failed"         -> {"failed"}
    [] ev.type = "completed"      -> {"completed"}
    [] ev.type = "completed with an error" -> {"completed", "completedErr"}

\* Of two completions the later one counts; a completion takes back no limit,
\* and a limit without a timing takes back none that is known.
Add(c, ev) ==
  [up    |-> (IF ev.type = "completed" THEN c.up \ {"completedErr"} ELSE c.up)
             \cup Raised(ev),
   retry |-> IF ev.retry # "none" THEN ev.retry ELSE c.retry,
   reset |-> c.reset \/ ev.reset]

AddAll(c, evs) ==
  LET after[n \in 0..Len(evs)] == IF n = 0 THEN c ELSE Add(after[n - 1], evs[n])
  IN  after[Len(evs)]

\* The order of the cases matters: a login problem outranks everything, a limit
\* a failed or missing result, but not one that succeeded.
Limited(c) ==
  "rateLimited" \in c.up /\ ("completed" \notin c.up \/ "completedErr" \in c.up)
Succeeded(c) == "completed" \in c.up /\ "completedErr" \notin c.up

Status(c, exit) ==
  IF "authFailed" \in c.up THEN "auth_error"
  ELSE IF "modelReject" \in c.up THEN "failed"
  ELSE IF Limited(c) THEN "rate_limited"
  ELSE IF Succeeded(c) /\ exit = 0 THEN "success"
  ELSE "failed"

\* The engine waits for the reset time if one was reported, for the delay
\* otherwise, and without either for a delay of its own.
Waits == Delays \cup {"window"}
Wait(c) == IF c.reset THEN "window" ELSE c.retry

\* A limit the run itself ended on, as opposed to one a subagent met.
CompletedRateLimit(c) == "completed" \in c.up /\ Status(c, 0) = "rate_limited"
=============================================================================
