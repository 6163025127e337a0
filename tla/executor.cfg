SPECIFICATION FairSpec
CONSTANTS
  TooLong = TooLong
  Jobs = {"claude-code", "codex", "opencode", "script"}
  Lines <- HarnessLines
  MaxLines = 2
  MaxNoise = 1
INVARIANTS
  LimitIsKept
  AnswerKept
PROPERTIES
  EveryRunReturns
