----------------------------- MODULE MCExecutor -----------------------------
(***************************************************************************)
(* Executor for TLC: what each harness may say.                            *)
(***************************************************************************)
EXTENDS Executor

\* Claude Code may meet a limit on its own account, in a subagent only, or in
\* the line that ends it, before and after its timing is told; it may be blocked
\* as an organisation, and its login may fail.  Codex explains the end of a turn
\* before it comes or with it.  A script says what it likes.
HarnessLines ==
  [j \in Jobs |->
     CASE j = "claude-code" ->
            {Noise, {"limit"}, {"reset"}, {"retry"}, {"ok"}, {"limit", "reset", "error"},
             {"block", "auth", "error"}, {"auth"}}
       [] j = "codex" ->
            {{"limit", "reset"}, {"auth", "limit"}, {"model"}, {"end"}, {"end", "limit"},
             {"end", "ok"}}
       [] j = "opencode" -> {Noise, {"ok"}, {"error"}}
       [] j = "script" -> {Noise}]
=============================================================================
