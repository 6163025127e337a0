------------------------------ MODULE Adapters ------------------------------
(***************************************************************************)
(* What the parsers of the three harnesses (internal/provider/claudecode,  *)
(* codex, opencode) read out of a line of output.  A parser lives as long  *)
(* as its run and remembers what earlier lines said.                       *)
(*                                                                         *)
(* A line is what the parser looks at in it: the signs of a limit, of an   *)
(* organisation's block, of a login problem, of a timing, and the final    *)
(* result.  The words of the messages are left out.                        *)
(***************************************************************************)
EXTENDS Collector

Kinds == {"claude-code", "codex", "opencode"}

\* A line that is not JSON, or of a type nobody reads.
Noise == {}

\* The other lines are sets of signs:
\*   limit          a 429, the error "rate_limit", or a request rejected
\*   block          the organisation does not allow the subscription
\*   auth           a 401, or the error "authentication_failed"
\*   retry, reset   a retry delay, the reset time of the allowance
\*   ok, error      the run's own final result; a subagent's is none
\*   model          the model is not accepted
\*   failed         a problem of no known kind
\*   end            the turn is over (codex): completed with "ok"
Signs == {"limit", "block", "auth", "retry", "reset", "ok", "error", "model", "failed", "end"}

\* What a parser remembers: Claude Code's sees pauses and timings, codex's the
\* last problem it was told.
NewParser == [seen |-> {}, problem |-> {}]

-----------------------------------------------------------------------------
(* Claude Code.                                                            *)

\* The block comes as a 401 or a 403, and is no login problem.
IsAuthFailure(line) == "auth" \in line /\ "block" \notin line

\* The pause a line reports.  The block names no window, so it is an hour unless
\* the account has met a limit too, whose timing then counts.
Pause(seen) ==
  IF "block" \in seen /\ "limit" \notin seen
  THEN [type |-> "rate limited", retry |-> "hour", reset |-> FALSE]
  ELSE [type |-> "rate limited", retry |-> IF "retry" \in seen THEN "backoff" ELSE "none",
        reset |-> "reset" \in seen]

\* A timing is news when it comes after the pause it belongs to.
Pauses(p, line) ==
  \/ line \cap {"limit", "block"} # {}
  \/ p.seen \cap {"limit", "block"} # {} /\ (line \ p.seen) \cap {"retry", "reset"} # {}

ParseClaude(p, line) ==
  LET seen == p.seen \cup (line \cap {"limit", "block", "retry", "reset"}) IN
  [parser |-> [p EXCEPT !.seen = seen],
   events |->
     (IF IsAuthFailure(line) THEN <<Plainly("auth failed")>> ELSE <<>>)
     \o (IF Pauses(p, line) THEN <<Pause(seen)>> ELSE <<>>)
     \o (IF "ok" \in line THEN <<Plainly("completed")>>
         ELSE IF "error" \in line THEN <<Plainly("completed with an error")>> ELSE <<>>)]

-----------------------------------------------------------------------------
(* Codex.                                                                  *)

\* The last problem told explains a turn that failed.
Problems == {"auth", "limit", "model", "failed"}
Noted(p, line) ==
  IF line \cap Problems # {} THEN line \cap (Problems \cup {"reset"}) ELSE p.problem

\* A login problem outranks a limit, and a limit everything else.
TerminalFailure(problem) ==
  IF "auth" \in problem THEN Plainly("auth failed")
  ELSE IF "limit" \in problem
       THEN [type |-> "rate limited", retry |-> "none", reset |-> "reset" \in problem]
  ELSE IF "model" \in problem THEN Plainly("model rejected")
  ELSE Plainly("failed")

ParseCodex(p, line) ==
  [parser |-> [p EXCEPT !.problem = Noted(p, line)],
   events |-> IF "end" \notin line THEN <<>>
              ELSE IF "ok" \in line THEN <<Plainly("completed")>>
              ELSE <<TerminalFailure(Noted(p, line))>>]

-----------------------------------------------------------------------------
(* opencode: a step that ends with "stop" ends the run, and every error is *)
(* just that.                                                              *)

ParseOpencode(p, line) ==
  [parser |-> p,
   events |-> IF "ok" \in line THEN <<Plainly("completed")>>
              ELSE IF "error" \in line THEN <<Plainly("failed")>> ELSE <<>>]

-----------------------------------------------------------------------------
Parse(kind, p, line) ==
  CASE kind = "claude-code" -> ParseClaude(p, line)
    [] kind = "codex"       -> ParseCodex(p, line)
    [] kind = "opencode"    -> ParseOpencode(p, line)

\* A run's parser and collector, and what one more line makes of them.
NewReading == [parser |-> NewParser, collector |-> NewCollector]
Take(kind, reading, line) ==
  LET parsed == Parse(kind, reading.parser, line) IN
  [parser |-> parsed.parser, collector |-> AddAll(reading.collector, parsed.events)]
=============================================================================
