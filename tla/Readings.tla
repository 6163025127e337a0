------------------------------ MODULE Readings ------------------------------
(***************************************************************************)
(* The two memories of what a provider answered: the Checker's, whether it *)
(* can run a job, and the LimitMonitor's, how much of its allowance is     *)
(* left.  The scheduler, the dashboard, a run that has just ended and the  *)
(* timer ask at the same time, while the operator edits the instance.      *)
(*                                                                         *)
(* A caller asks with the instance it has read from the configuration,     *)
(* which may be another by the time it is answered; the settings of an     *)
(* instance are its fingerprint.  Asking a harness takes time.  What it    *)
(* answers is left out: a verdict and a reading are the time they are of.  *)
(* A caller that goes away cuts its question short.                        *)
(*                                                                         *)
(* An operator that stands right before another of the same stem is a bug  *)
(* the properties have to notice.                                          *)
(***************************************************************************)
EXTENDS Integers, FiniteSets

CONSTANTS
    Ids,        \* the configured instances
    Accounts,   \* kinds, binaries and configuration directories
    Callers,    \* requests and background jobs at work at a time
    Nobody,     \* the holder of a free lock
    TTL, MinAge,  \* how long a verdict and a reading are reused
    MaxClock,   \* bound: the last instant
    MaxAsks,    \* bound: how many questions are asked
    MaxEdits    \* bound: how many edits are made

ASSUME ReadingsAssumption ==
    /\ {MaxClock, MaxAsks, MaxEdits} \subseteq Nat
    /\ {TTL, MinAge} \subseteq Nat \ {0}
    /\ Nobody \notin Callers

VARIABLES
    settings,   \* the instances as config.toml has them
    clock,
    cached,     \* Checker.cached
    entries,    \* LimitMonitor.entries
    reading,    \* LimitMonitor.reading: who holds the lock of an instance
    ops,        \* what every caller is in the middle of
    asks, edits \* how many questions and edits there were

readings == <<settings, clock, cached, entries, reading, ops, asks, edits>>

Settings == [account : Accounts, on : BOOLEAN]
Idle == [pc |-> "idle"]
Never == -1

\* Nothing is remembered: no settings have this fingerprint.
NoVerdict == [of |-> Nobody, at |-> Never]
NoLimits  == [of |-> Nobody, state |-> "none", windows |-> Never, checked |-> Never]

ReadingsInit ==
    /\ settings \in [Ids -> {s \in Settings : s.on}]
    /\ clock = 0 /\ asks = 0 /\ edits = 0
    /\ cached = [id \in Ids |-> NoVerdict]
    /\ entries = [id \in Ids |-> NoLimits]
    /\ reading = [id \in Ids |-> Nobody]
    /\ ops = [c \in Callers |-> Idle]

Goto(c, op) == ops' = [ops EXCEPT ![c] = op]

\* A question is asked with the instance as it is configured now.
Ask(c, id, pc, fresh, force) ==
    /\ ops[c] = Idle /\ asks < MaxAsks /\ asks' = asks + 1
    /\ Goto(c, [pc |-> pc, about |-> IF pc = "check" THEN "verdict" ELSE "limits",
                id |-> id, inst |-> settings[id], fresh |-> fresh, force |-> force,
                asked |-> clock, start |-> Never, prev |-> NoLimits,
                answer |-> NoVerdict, cut |-> FALSE])
    /\ UNCHANGED <<settings, clock, cached, entries, reading, edits>>

Answered(c, answer) ==
    Goto(c, [ops[c] EXCEPT !.pc = "answered", !.answer = answer])

-----------------------------------------------------------------------------
(* Can this instance run a job right now?                                  *)

\* Check: a verdict given within the TTL on the same settings is used again.
FitsWithoutSettings(op) == clock - cached[op.id].at < TTL
Fits(op) == cached[op.id].of = op.inst /\ clock - cached[op.id].at < TTL

AskCheck(c, id) == Ask(c, id, "check", FALSE, FALSE)
AskFresh(c, id) == Ask(c, id, "check", TRUE, FALSE)

CheckLook(c) ==
    /\ ops[c].pc = "check"
    /\ IF ~ops[c].fresh /\ cached[ops[c].id] # NoVerdict /\ Fits(ops[c])
       THEN Answered(c, cached[ops[c].id])
       ELSE Goto(c, [ops[c] EXCEPT !.pc = "probe", !.start = clock])
    /\ UNCHANGED <<settings, clock, cached, entries, reading, asks, edits>>

\* CheckFresh: the verdict is of the moment its probe began, and is stored.
ProbeEnds(c) ==
    /\ ops[c].pc = "probe"
    /\ LET verdict == [of |-> ops[c].inst, at |-> ops[c].start] IN
         /\ cached' = [cached EXCEPT ![ops[c].id] = verdict]
         /\ Answered(c, verdict)
    /\ UNCHANGED <<settings, clock, entries, reading, asks, edits>>

\* A probe cut short is no verdict: lastKnown answers, or what there is of it.
ProbeCut(c) ==
    /\ ops[c].pc = "probe"
    /\ LET op == ops[c]
           last == IF cached[op.id].of = op.inst THEN cached[op.id]
                   ELSE [of |-> op.inst, at |-> op.start]
       IN Goto(c, [op EXCEPT !.pc = "answered", !.cut = TRUE, !.answer = last])
    /\ UNCHANGED <<settings, clock, cached, entries, reading, asks, edits>>

-----------------------------------------------------------------------------
(* How much of its allowance is left?                                      *)

\* Get with and without "fresh", and RefreshID after a run, which insists.
AskLimits(c, id)     == Ask(c, id, "lock", FALSE, FALSE)
AskNewLimits(c, id)  == Ask(c, id, "lock", TRUE, FALSE)
RefreshID(c, id)     == Ask(c, id, "lock", TRUE, TRUE)

Remembered(op) == entries[op.id].of = op.inst
Enough(op) ==
    /\ Remembered(op)
    /\ ~op.fresh \/ (~op.force /\ clock - entries[op.id].checked < MinAge)

\* get takes the lock of the instance, and looks only then.
Free(id) == reading[id] = Nobody
ReadLock(c) ==
    /\ ops[c].pc = "lock" /\ Free(ops[c].id)
    /\ IF Enough(ops[c])
       THEN Answered(c, entries[ops[c].id]) /\ UNCHANGED reading
       ELSE /\ Goto(c, [ops[c] EXCEPT !.pc = "read", !.start = clock,
                 !.prev = IF Remembered(ops[c]) THEN entries[ops[c].id] ELSE NoLimits])
            /\ reading' = [reading EXCEPT ![ops[c].id] = c]
    /\ UNCHANGED <<settings, clock, cached, entries, asks, edits>>

\* read: a success is of the moment it began; a failure keeps the windows that
\* are known; an account without a plan, and an instance that is off, have none.
Outcomes(op) ==
    LET Of(state, windows) ==
          [of |-> op.inst, state |-> state, windows |-> windows, checked |-> op.start]
    IN IF op.inst.on
       THEN {Of("ok", op.start), Of("unavailable", op.prev.windows), Of("unsupported", Never)}
       ELSE {Of("disabled", Never)}

Stored(cut, l) == ~(cut /\ l.state = "unavailable")

\* The lock is held until what was read is stored; a failure that is only the
\* caller going away is not.
ReadEnds(c) ==
    /\ ops[c].pc = "read"
    /\ \E l \in Outcomes(ops[c]), cut \in BOOLEAN :
         /\ entries' = IF Stored(cut, l) THEN [entries EXCEPT ![ops[c].id] = l] ELSE entries
         /\ Goto(c, [ops[c] EXCEPT !.pc = "answered", !.cut = cut, !.answer = l])
    /\ reading' = [reading EXCEPT ![ops[c].id] = Nobody]
    /\ UNCHANGED <<settings, clock, cached, asks, edits>>

-----------------------------------------------------------------------------
(* The world around the two.                                               *)

\* A command edits the file; a request also drops the verdict afterwards.
EditCommand(id) ==
    /\ edits < MaxEdits /\ edits' = edits + 1
    /\ \E s \in Settings \ {settings[id]} : settings' = [settings EXCEPT ![id] = s]
    /\ UNCHANGED <<clock, cached, entries, reading, ops, asks>>
EditRequest(c, id) ==
    /\ edits < MaxEdits /\ edits' = edits + 1
    /\ ops[c] = Idle /\ Goto(c, [pc |-> "forget", id |-> id])
    /\ \E s \in Settings \ {settings[id]} : settings' = [settings EXCEPT ![id] = s]
    /\ UNCHANGED <<clock, cached, entries, reading, asks>>
Forget(c) ==
    /\ ops[c].pc = "forget"
    /\ cached' = [cached EXCEPT ![ops[c].id] = NoVerdict]
    /\ Goto(c, Idle)
    /\ UNCHANGED <<settings, clock, entries, reading, asks, edits>>

TakeAnswer(c) ==
    /\ ops[c].pc = "answered" /\ Goto(c, Idle)
    /\ UNCHANGED <<settings, clock, cached, entries, reading, asks, edits>>

TimePasses ==
    /\ clock < MaxClock /\ clock' = clock + 1
    /\ UNCHANGED <<settings, cached, entries, reading, ops, asks, edits>>

ReadingsNext ==
    \/ \E c \in Callers, id \in Ids :
         \/ AskCheck(c, id) \/ AskFresh(c, id) \/ EditRequest(c, id)
         \/ AskLimits(c, id) \/ AskNewLimits(c, id) \/ RefreshID(c, id)
    \/ \E c \in Callers :
         \/ CheckLook(c) \/ ProbeEnds(c) \/ ProbeCut(c) \/ ReadLock(c) \/ ReadEnds(c)
         \/ Forget(c) \/ TakeAnswer(c)
    \/ \E id \in Ids : EditCommand(id)
    \/ TimePasses

-----------------------------------------------------------------------------
(* Properties                                                              *)

\* Nobody is told of another account, nor of too long ago: an answer belongs
\* to the settings it was asked with; a verdict is at most the TTL older than
\* the question, a reading asked for fresh at most MinAge, and the one a
\* finished run asks for began after the run had ended.
AnswersFit ==
    \A c \in Callers : ops[c].pc = "answered" =>
      LET op == ops[c] IN
        /\ op.answer.of = op.inst
        /\ op.about = "verdict" /\ ~op.cut =>
             op.answer.at > op.asked - (IF op.fresh THEN 1 ELSE TTL)
        /\ op.about = "limits" /\ op.fresh =>
             op.answer.checked > op.asked - (IF op.force THEN 1 ELSE MinAge)
=============================================================================
