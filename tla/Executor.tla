------------------------------ MODULE Executor ------------------------------
(***************************************************************************)
(* One call of Executor.Run or runScript (internal/executor): the harness  *)
(* process, whatever it leaves behind that holds its output open, the      *)
(* copying and the context goroutine of os/exec, the goroutine that reads  *)
(* the output, the idle watchdog, and the caller that waits for them all   *)
(* and makes a result of what they found.                                  *)
(*                                                                         *)
(* A line of output is what the parser of the harness reads out of it (see *)
(* Adapters); TooLong is one the scanner refuses.  Time is what the        *)
(* watchdog makes of it: idle says that more than the timeout has passed   *)
(* since the last activity, time asleep not counted (idleStep).  What is   *)
(* in the pipe when the harness is gone is read within the grace period.   *)
(***************************************************************************)
EXTENDS Adapters

CONSTANTS
  Jobs,      \* the kinds of harness, and "script"
  Lines,     \* what each of them may write; only Claude Code knows of a block
  TooLong,   \* a line longer than the scanner's buffer
  MaxLines,  \* bound: lines a harness writes
  MaxNoise   \* bound: lines its descendant writes

ASSUME LinesAssumption ==
  /\ Jobs \subseteq Kinds \cup {"script"}
  /\ Lines \in [Jobs -> SUBSET SUBSET Signs] /\ \A line \in SUBSET Signs : line # TooLong
  /\ \A j \in Jobs \ {"claude-code"} : \A line \in Lines[j] : "block" \notin line
  /\ {MaxLines, MaxNoise} \subseteq Nat

VARIABLES
  job,        \* the kind of the harness, or "script"
  harness,    \* the process: "none" yet, "running" or "exited"
  exit,       \* its exit code; -1 once it was killed
  holder,     \* a descendant out of reach holds the output open
  said,       \* the lines the harness has written
  noise,      \* how many lines the descendant has written
  pipe,       \* the lines not yet read
  copying,    \* exec copies the output
  reader,     \* the goroutine that scans it
  found,      \* its parser and collector
  scanErr,    \* it met a line too long
  stop,       \* runCtx is cancelled
  canceler,   \* exec's goroutine that waits for runCtx
  watchdog,   \* "off", "on", or "fired" (idleKilled)
  idle,
  main,       \* Run itself: at its start, in Process.Wait, in the rest of
              \* Wait, past it, or "returned"
  waitErr,    \* what Wait returns
  result

process == <<harness, exit, holder, said, noise>>
scan    == <<reader, found, scanErr>>
control == <<stop, canceler, watchdog, idle>>
caller  == <<main, waitErr, result>>
vars    == <<job, process, pipe, copying, scan, control, caller>>

Outcome(status, hung, wait) == [status |-> status, hung |-> hung, wait |-> wait]
NoResult == Outcome("none", FALSE, "none")

Init ==
  /\ job \in Jobs
  /\ watchdog \in {"on", "off"}
  /\ holder \in BOOLEAN
  /\ harness = "none" /\ exit = 0 /\ said = <<>> /\ noise = 0
  /\ pipe = <<>> /\ copying = TRUE
  /\ reader = IF job = "script" THEN "done" ELSE "scanning"
  /\ found = NewReading /\ scanErr = FALSE
  /\ stop = FALSE /\ canceler = "armed" /\ idle = FALSE
  /\ main = "start" /\ waitErr = "none" /\ result = NoResult

-----------------------------------------------------------------------------
\* The processes.

\* A script's output goes straight to the log, where every write is activity.
Written(line) ==
  IF job = "script" THEN idle' = FALSE /\ UNCHANGED pipe
                    ELSE pipe' = Append(pipe, line) /\ UNCHANGED idle

HarnessWrites(line) ==
  /\ harness = "running" /\ Len(said) < MaxLines
  /\ job = "script" => line # TooLong
  /\ said' = Append(said, line)
  /\ Written(line)
  /\ UNCHANGED <<job, harness, exit, holder, noise, copying, scan,
                 stop, canceler, watchdog, caller>>

HarnessExits(code) ==
  /\ harness = "running"
  /\ harness' = "exited" /\ exit' = code
  /\ UNCHANGED <<job, holder, said, noise, pipe, copying, scan, control, caller>>

HolderWrites ==
  /\ harness # "none" /\ holder /\ copying /\ noise < MaxNoise
  /\ noise' = noise + 1
  /\ Written(Noise)
  /\ UNCHANGED <<job, harness, exit, holder, said, copying, scan,
                 stop, canceler, watchdog, caller>>

HolderEnds ==
  /\ harness # "none" /\ holder
  /\ holder' = FALSE
  /\ UNCHANGED <<job, harness, exit, said, noise, pipe, copying, scan, control, caller>>

-----------------------------------------------------------------------------
\* Who stops a run: the operator or the daemon's shutdown, the watchdog, and
\* the reader that has seen a limit (ReadLine).

OperatorStops ==
  /\ ~stop /\ main # "returned"
  /\ stop' = TRUE
  /\ UNCHANGED <<job, process, pipe, copying, scan, canceler, watchdog, idle, caller>>

TimePasses ==
  /\ ~idle /\ main \notin {"start", "returned"}
  /\ idle' = TRUE
  /\ UNCHANGED <<job, process, pipe, copying, scan, stop, canceler, watchdog, caller>>

\* idleWatch: it lives until Run returns.
WatchdogFires ==
  /\ watchdog = "on" /\ idle /\ main # "returned"
  /\ watchdog' = "fired" /\ stop' = TRUE
  /\ UNCHANGED <<job, process, pipe, copying, scan, canceler, idle, caller>>

\* cmd.Cancel, called while exec still waits for the process: the whole tree is
\* killed, as far as it is found.  A process that has just exited by itself may
\* or may not take the signal.
Kill ==
  /\ stop /\ canceler = "armed" /\ main = "process"
  /\ harness' = "exited"
  /\ \/ harness = "running" /\ exit' = -1 /\ canceler' = "killed"
     \/ harness = "exited" /\ exit' = exit /\ canceler' \in {"killed", "late"}
  /\ holder' \in {FALSE, holder}
  /\ UNCHANGED <<job, said, noise, pipe, copying, scan, stop, watchdog, idle, caller>>

-----------------------------------------------------------------------------
\* The goroutine that reads the output of an agent.

\* One line: it is activity, it is logged and classified.  A limit the run ended
\* on stops the harness, which may stay alive with children of its own.
ReadLine ==
  /\ reader = "scanning" /\ pipe # <<>> /\ Head(pipe) # TooLong
  /\ pipe' = Tail(pipe)
  /\ idle' = FALSE
  /\ found' = Take(job, found, Head(pipe))
  /\ IF CompletedRateLimit(found'.collector) THEN stop' = TRUE /\ reader' = "draining"
                                       ELSE UNCHANGED <<stop, reader>>
  /\ UNCHANGED <<job, process, copying, scanErr, canceler, watchdog, caller>>

ScanFails ==
  /\ reader = "scanning" /\ pipe # <<>> /\ Head(pipe) = TooLong
  /\ scanErr' = TRUE /\ reader' = "draining"
  /\ UNCHANGED <<job, process, pipe, copying, found, control, caller>>

\* What follows is not read but drained, so that the copying does not block.
Drain ==
  /\ reader = "draining" /\ pipe # <<>>
  /\ pipe' = Tail(pipe)
  /\ UNCHANGED <<job, process, copying, scan, control, caller>>

\* Run closes its end of the pipe when Wait has returned.
ReaderEnds ==
  /\ reader # "done" /\ pipe = <<>> /\ main = "waited"
  /\ reader' = "done"
  /\ UNCHANGED <<job, process, pipe, copying, found, scanErr, control, caller>>

-----------------------------------------------------------------------------
\* cmd.Start, cmd.Wait, and Run after it.

Plain(status) == Outcome(status, FALSE, "none")
Error == Plain("error")   \* Run returns an error
Hung  == Outcome("failed", TRUE, "none")
ExitCode == IF waitErr = "exit" THEN exit ELSE 0
Collected == Outcome(Status(found.collector, ExitCode), FALSE, Wait(found.collector))

Start ==
  /\ main = "start" /\ ~stop
  /\ main' = "process" /\ harness' = "running"
  /\ UNCHANGED <<job, exit, holder, said, noise, pipe, copying, scan, control, waitErr, result>>

\* There is no adapter or no program, or the run was stopped before it began.
StartFails ==
  /\ main = "start"
  /\ main' = "returned" /\ result' = Error
  /\ UNCHANGED <<job, process, pipe, copying, scan, control, waitErr>>

\* The copying ends by itself when nobody holds the output open any more ...
CopyEnds ==
  /\ copying /\ pipe = <<>> /\ harness = "exited" /\ ~holder
  /\ copying' = FALSE
  /\ UNCHANGED <<job, process, pipe, scan, control, caller>>

\* Process.Wait has returned, and the context goroutine has been heard.
Reap ==
  /\ main = "process" /\ harness = "exited"
  /\ main' = "copy" /\ canceler' = IF canceler = "armed" THEN "gone" ELSE canceler
  /\ waitErr' = IF exit # 0 THEN "exit"
                ELSE IF canceler = "killed" THEN "context" ELSE "none"
  /\ UNCHANGED <<job, process, pipe, copying, scan, stop, watchdog, idle, result>>

WaitEnds ==
  /\ main = "copy" /\ ~copying
  /\ main' = "waited"
  /\ UNCHANGED <<job, process, pipe, copying, scan, control, waitErr, result>>

\* ... or is cut off after WaitDelay.
WaitNeverGivesUp == FALSE /\ UNCHANGED vars
WaitGivesUp ==
  /\ main = "copy" /\ copying
  /\ \A i \in 1..Len(pipe) : pipe[i] = Noise
  /\ main' = "waited" /\ copying' = FALSE /\ pipe' = <<>>
  /\ waitErr' = IF waitErr = "none" THEN "delay" ELSE waitErr
  /\ UNCHANGED <<job, process, scan, control, result>>

AgentResultDelayIsHung ==
  LET limited == CompletedRateLimit(found.collector)
  IN IF waitErr = "context" /\ watchdog # "fired" /\ ~limited THEN Error
     ELSE IF watchdog = "fired" /\ ~limited THEN Hung
     ELSE IF scanErr THEN Error
     ELSE Collected

AgentResultHungFirst ==
  LET limited == CompletedRateLimit(found.collector)
  IN IF waitErr = "context" /\ watchdog # "fired" /\ ~limited THEN Error
     ELSE IF watchdog = "fired" /\ waitErr # "delay" THEN Hung
     ELSE IF scanErr THEN Error
     ELSE Collected

\* Run: a killed harness is an answer if the watchdog or a limit had it killed;
\* a harness the watchdog killed looked hung, unless it ended on a limit or had
\* exited before the grace period ran out.
AgentResult ==
  LET limited == CompletedRateLimit(found.collector)
  IN IF waitErr = "context" /\ watchdog # "fired" /\ ~limited THEN Error
     ELSE IF watchdog = "fired" /\ ~limited /\ waitErr # "delay" THEN Hung
     ELSE IF scanErr THEN Error
     ELSE Collected

\* runScript: the exit code is the answer.
ScriptResult ==
  IF waitErr = "context" /\ watchdog # "fired" THEN Error
  ELSE IF watchdog = "fired" /\ waitErr # "delay" THEN Hung
  ELSE Plain(IF ExitCode = 0 THEN "success" ELSE "failed")

Return ==
  /\ main = "waited" /\ reader = "done"
  /\ main' = "returned"
  /\ result' = IF job = "script" THEN ScriptResult ELSE AgentResult
  /\ UNCHANGED <<job, process, pipe, copying, scan, control, waitErr>>

\* Run has returned; its processes may live on.
Returned ==
  /\ main = "returned"
  /\ UNCHANGED vars

-----------------------------------------------------------------------------
Processes ==
  \/ \E line \in Lines[job] \cup {TooLong} : HarnessWrites(line)
  \/ \E code \in {0, 1} : HarnessExits(code)
  \/ HolderWrites \/ HolderEnds

Reader == ReadLine \/ ScanFails \/ Drain \/ ReaderEnds
Caller == Start \/ StartFails \/ Reap \/ WaitEnds \/ WaitGivesUp \/ Return

Next ==
  \/ Processes \/ OperatorStops \/ TimePasses \/ WatchdogFires \/ Kill
  \/ Reader \/ CopyEnds \/ Caller \/ Returned

Spec == Init /\ [][Next]_vars

\* The daemon's own goroutines run on and its clocks tick; the processes owe
\* nobody anything.
Fairness ==
  WF_vars(TimePasses) /\ WF_vars(WatchdogFires) /\ WF_vars(Kill)
  /\ WF_vars(Reader) /\ WF_vars(CopyEnds) /\ WF_vars(Caller)

FairSpec == Spec /\ Fairness

-----------------------------------------------------------------------------
Readable(n) == \A i \in 1..n : said[i] # TooLong
HeardOf(kind, lines, n) ==
  LET reading[m \in 0..n] ==
        IF m = 0 THEN NewReading ELSE Take(kind, reading[m - 1], lines[m])
  IN  reading[n]
Heard(n) == HeardOf(job, said, n)
LimitedAfter(n) == Readable(n) /\ CompletedRateLimit(Heard(n).collector)
Agent == job # "script"

\* A limit the harness ended on is resumed and not lost as a failure, whoever
\* stops the run then: the operator, the watchdog, the reader itself, or nobody;
\* and a block of the organisation, which looks like a login problem, is none.
LimitSurvives ==
  main = "returned" /\ Agent =>
    /\ \A n \in 0..Len(said) : LimitedAfter(n) => result.status = "rate_limited"
    /\ result.status = "auth_error" =>
         \E i \in 1..Len(said) : "auth" \in said[i] /\ "block" \notin said[i]

\* Nothing that was said of a limit before the run ended is lost, whatever the
\* order of the lines: the account is left alone until the reset time, for want
\* of one for the delay that was named, and for an hour when its organisation
\* has blocked it -- however short a delay some other error has named.  (After
\* a limit that names no time, a block no longer gets its hour.)
Signed(n) == UNION {said[i] : i \in 1..n}
Told(signs) ==
  IF "limit" \in signs /\ "reset" \in signs THEN {"window"}
  ELSE IF "limit" \in signs /\ "retry" \in signs THEN {"backoff"}
  ELSE (IF "block" \in signs THEN {"hour"} ELSE {"none"})
       \cup (IF {"block", "limit"} \subseteq signs THEN {"none"} ELSE {})
WaitIsKnown ==
  main = "returned" /\ job = "claude-code" /\ result.status = "rate_limited" =>
    \E n \in 0..Len(said) :
      /\ \A m \in 0..n - 1 : ~LimitedAfter(m)
      /\ LimitedAfter(n) \/ n = Len(said)
      /\ result.wait \in Told(Signed(n))

\* What a run says of a limit decides how it ends and how long its account
\* rests, whoever else ends the run at the same moment.
LimitIsKept == LimitSurvives /\ WaitIsKnown

\* An agent that has said its answer and exited by itself has succeeded, even if
\* something it started keeps the output open until Wait gives up on it, even if
\* the operator stops the run or the watchdog fires once the process has been
\* waited for, and even if one of its subagents met a limit on the way.  The one
\* exception: the watchdog fires while the output is held open, and the output
\* is let go before the grace period is over.  Wait then returns no error, and
\* the run is called hung although the harness had exited by itself.
HungInGrace == watchdog = "fired" /\ waitErr # "delay"
AnswerKept ==
  main = "returned" /\ harness = "exited" /\ exit = 0 /\ canceler # "killed"
  /\ Agent /\ Readable(Len(said))
  /\ (\A n \in 0..Len(said) : ~LimitedAfter(n))
  /\ Status(Heard(Len(said)).collector, 0) = "success"
  => result.status = "success" \/ (HungInGrace /\ result = Hung)

\* Once a run is stopped it returns, whatever its processes do; and with the
\* watchdog every run does: one that hangs, and one whose descendants hold the
\* output open for good.
EveryRunReturns == stop \/ watchdog = "on" ~> main = "returned"
=============================================================================
