------------------------------ MODULE Workflow ------------------------------
(***************************************************************************)
(* internal/workflow: may a job that waits for others start yet?           *)
(*                                                                         *)
(* hist is the run history as Store.Runs returns it: one entry per run,    *)
(* in the order the runs were first recorded, each with (at least) the     *)
(* fields task and status.                                                 *)
(*                                                                         *)
(* DependencyHasRun is a bug the properties have to notice; the            *)
(* specification does not use it.                                          *)
(***************************************************************************)
EXTENDS Naturals, Sequences

\* RunStatus.Terminal: a final outcome.  "failed" also stands for auth_error.
Terminal(status) == status \in {"success", "failed", "canceled"}

RunsOfTask(t, hist) == {i \in 1..Len(hist) : hist[i].task = t}

\* The most recent run of a task: the last of its entries, since history is
\* appended to in start order.
LatestRun(t, hist) ==
  hist[CHOOSE i \in RunsOfTask(t, hist) :
         \A j \in RunsOfTask(t, hist) : j <= i]

\* Dependency.Missing: neither a run nor a place in the queue.
Missing(t, queued, hist) == RunsOfTask(t, hist) = {} /\ t \notin queued

\* Dependency.Done as Resolve computes it: a recorded run decides, and a
\* pause on a rate limit counts; a job that is only queued is not done.
DependencyHasRun(t, queued, hist) ==
  RunsOfTask(t, hist) # {} \/ Missing(t, queued, hist)

DependencyDone(t, queued, hist) ==
  IF RunsOfTask(t, hist) # {}
  THEN LET status == LatestRun(t, hist).status
       IN Terminal(status) \/ status = "rate_limited"
  ELSE Missing(t, queued, hist)

\* Ready: nothing is left to wait for.
Ready(dependsOn, queued, hist) ==
  \A t \in dependsOn : DependencyDone(t, queued, hist)

=============================================================================
