------------------------------- MODULE Wakes -------------------------------
(***************************************************************************)
(* Waking the machine for the work to come.  After every tick the engine   *)
(* works out when the machine is wanted next and registers that with       *)
(* pmset, in the place of what it registered before; a wake that is about  *)
(* the one it believes registered is left alone.  pmset may refuse, for it *)
(* needs root; the daemon may be restarted, and then knows of no wake.     *)
(*                                                                         *)
(* An instant is as long as MinReschedule, the tolerance.                  *)
(*                                                                         *)
(* An operator that stands right before another of the same stem is a bug  *)
(* the properties have to notice.                                          *)
(***************************************************************************)
EXTENDS Integers, FiniteSets, FiniteSetsExt

CONSTANTS
  FixedTasks, CronTasks,  \* tasks with a fixed start, and with a cron trigger
  Period,     \* of the cron expressions
  Heartbeat,  \* Settings.HeartbeatOrDefault
  Horizon,    \* bound: the last instant
  MaxTurns    \* bound: what happens besides ticks and time

ASSUME WakesAssumption ==
  {Period, Heartbeat, Horizon, MaxTurns} \subseteq Nat \ {0}

VARIABLES
  time,
  plans,         \* the tasks: enabled, and when they start or last started
  pausedNow,     \* Settings.Paused
  blockedUntil,  \* the first of the rate-limit gates to open again
  registered,    \* the wakes pmset knows
  last,          \* Scheduler.last; Unknown without hasLast
  wakeErr,       \* Engine.wakeErr
  withdrawn,     \* history: last was cancelled, and nothing took its place
  turns          \* how many of the bounded things happened

wakes == <<time, plans, pausedNow, blockedUntil, registered, last, wakeErr, withdrawn, turns>>

Unknown == -1
Gone    == 0  \* a fixed start that is completed; a cron task never started
MinReschedule == 1

Fixed(t) == t \in FixedTasks
Instants == 1..Horizon

\* sched.Next(anchor)
NextStart(anchor) == (anchor \div Period + 1) * Period

\* wakeCandidates.  A cron task that was never started counts from now.
WakeCandidates ==
  {plans[t].at : t \in {t \in FixedTasks : plans[t].enabled /\ plans[t].at > time}}
  \cup {NextStart(IF plans[t].at = Gone THEN time ELSE plans[t].at) :
          t \in {t \in CronTasks : plans[t].enabled}}

\* NextWakeTime of planWake: nothing is worth waking for while all is paused,
\* except to notice that it is over.
Wanted ==
  LET concrete == IF pausedNow THEN {} ELSE WakeCandidates \cup {blockedUntil}
  IN  Min({c \in concrete : c > time} \cup {time + Heartbeat})

-----------------------------------------------------------------------------

Within(a, b) == a - b <= MinReschedule /\ b - a <= MinReschedule

\* Schedule, when the wake is about the one that is known.
LeaveIt ==
  /\ last # Unknown /\ Within(Wanted, last)
  /\ wakeErr' = FALSE
  /\ UNCHANGED <<registered, last, withdrawn>>

KnownAnyway(ok) == Wanted
Known(ok) == IF ok THEN Wanted ELSE last

\* Schedule: the old wake is cancelled, whether that works or not, and the new
\* one registered, if that works.
Replace ==
  /\ ~(last # Unknown /\ Within(Wanted, last))
  /\ \E cancels, ok \in BOOLEAN :
       LET kept == IF cancels THEN registered \ {last} ELSE registered IN
         /\ registered' = IF ok THEN kept \cup {Wanted} ELSE kept
         /\ last' = Known(ok)
         /\ withdrawn' = (~ok /\ (withdrawn \/ (cancels /\ last # Unknown)))
         /\ wakeErr' = ~ok

\* planWake in Loop.
PlanWake ==
  /\ LeaveIt \/ Replace
  /\ UNCHANGED <<time, plans, pausedNow, blockedUntil, turns>>

\* A wake that has come is no longer registered; a gate opens by itself.
TimeGoesOn ==
  /\ time < Horizon /\ time' = time + 1
  /\ registered' = {w \in registered : w > time'}
  /\ blockedUntil' = IF blockedUntil <= time' THEN Gone ELSE blockedUntil
  /\ UNCHANGED <<plans, pausedNow, last, wakeErr, withdrawn, turns>>

-----------------------------------------------------------------------------
Turn == turns < MaxTurns /\ turns' = turns + 1

\* A run starts, when it is due or, of a cron task, by hand: a fixed start is
\* completed, a cron task counts from now.
RunStarts(t) ==
  /\ Turn /\ plans[t].enabled
  /\ Fixed(t) => plans[t].at # Gone /\ plans[t].at <= time
  /\ plans' = [plans EXCEPT ![t].at = IF Fixed(t) THEN Gone ELSE time]
  /\ UNCHANGED <<time, pausedNow, blockedUntil, registered, last, wakeErr, withdrawn>>

\* The operator gives a task another start, or takes it out or back.
EditTask(t) ==
  /\ Turn
  /\ \/ Fixed(t) /\ \E at \in Instants : plans' = [plans EXCEPT ![t].at = at]
     \/ plans' = [plans EXCEPT ![t].enabled = ~@]
  /\ UNCHANGED <<time, pausedNow, blockedUntil, registered, last, wakeErr, withdrawn>>

SetPaused ==
  /\ Turn /\ pausedNow' = ~pausedNow
  /\ UNCHANGED <<time, plans, blockedUntil, registered, last, wakeErr, withdrawn>>

\* A run hits the limit of its provider.
LimitHits ==
  /\ Turn /\ blockedUntil = Gone
  /\ \E t \in Instants : t > time /\ blockedUntil' = t
  /\ UNCHANGED <<time, plans, pausedNow, registered, last, wakeErr, withdrawn>>

\* What the daemon knew is gone; what pmset knows is not.
Restart ==
  /\ Turn
  /\ last' = Unknown /\ wakeErr' = FALSE /\ withdrawn' = FALSE
  /\ blockedUntil' = Gone
  /\ UNCHANGED <<time, plans, pausedNow, registered>>

WakesInit ==
  /\ time = 1
  /\ plans = [t \in FixedTasks \cup CronTasks |-> [enabled |-> TRUE, at |-> Gone]]
  /\ pausedNow = FALSE /\ blockedUntil = Gone
  /\ registered = {} /\ last = Unknown /\ wakeErr = FALSE /\ withdrawn = FALSE
  /\ turns = 0

WakesNext ==
  \/ PlanWake \/ TimeGoesOn \/ SetPaused \/ LimitHits \/ Restart
  \/ \E t \in FixedTasks \cup CronTasks : RunStarts(t) \/ EditTask(t)

-----------------------------------------------------------------------------

\* The machine can go to sleep after a plan that reports no error: it will be
\* woken by the time something is wanted, give or take the tolerance, whatever
\* was planned before, withdrawn, or forgotten in a restart.  A wake that was
\* cancelled for one that pmset then refused is the exception: the Scheduler
\* goes on believing in it until another time is wanted.
WokenInTime ==
  [][PlanWake /\ ~wakeErr' /\ ~withdrawn'
       => \/ Wanted <= time + MinReschedule
          \/ \E w \in registered' : w <= Wanted + MinReschedule]_wakes
=============================================================================
