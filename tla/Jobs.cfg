SPECIFICATION JobsSpec
CONSTANTS
  Interactions = {1, 2}
  Managers = {m1}
  Supervisers = {s1, s2}
  NoOne = nobody
  Stages = {"signing", "done"}
  Terminal = {"done"}
  Signing = "signing"
  Edges <- ShortEdges
  NoStage = "NULL"
  BranchStart = "transfer"
  University <- OwnUniversity
  Author <- SameAuthor
  Limits = {0, 1}
  StartLed = TRUE
  Kinds = {"create", "assign", "accept", "decline", "close", "reopen", "pause", "limit", "team", "leave"}
  Strands <- OneEach
  Resumers = {w1, w2}
  Stops = 1
  HoldScenarios <- Pausing
  Executors = {w1, w2}
  NoExecutor = nobody
  UnitAttempts = 2
  ImportScenarios <- Imported
  Jobs = {1, 2}
  Runners = {r1, r2}
  NoRunner = nobody
  PoolSize = 1
  ParallelLimit = 1
  ExportScenarios <- Exported
  LastNote = 3
  SyncPage = 2
  Breaks = 2
  NoticeScenarios <- Notified
  Watched = {1, 2}
  Watchers = {w1, w2}
  StallDays = 1
  Warn = {1, 2}
  QuietDays = 1
  LastDay = 3
  Restarts = 1
  WatchScenarios <- Watching
INVARIANTS
  InReach
  ResultsTell
  PoolsRespected
  OfferedIsThere
  OneNotice
PROPERTIES
  TermsEnd
  BranchTermsEnd
  NothingUnseen
  JobsEnd
  EveryoneLearns
  NoFalseAlarm
  EveryReasonTold
CHECK_DEADLOCK FALSE
