SPECIFICATION Spec
CONSTANTS
  Ids = {p}
  Accounts = {mine, theirs}
  Callers = {app, timer}
  Nobody = nobody
  TTL = 2
  MinAge = 2
  MaxClock = 2
  MaxAsks = 2
  MaxEdits = 1
  MaxPromptEdits = 1
  Releases = {1, 2, 3}
  WithoutPackage = {}
  DataFloor = 2
  MaxDownloads = 1
  Prompts = {t1, t2}
  RenameCheckParallel = 1
  MaxChecks = 2
  MaxDrafts = 3
  FixedTasks = {f}
  CronTasks = {c}
  Period = 4
  Heartbeat = 6
  Horizon = 9
  MaxTurns = 3
SYMMETRY Alike
INVARIANTS
  AnswersFit
  EditKept
  OnlyNewestReviewRuns
PROPERTIES
  OpensWhatWasOffered
  WokenInTime
CHECK_DEADLOCK FALSE
