SPECIFICATION Spec
CONSTANTS
  Interactions = {1}
  Managers = {m1, m2}
  Supervisers = {s1, s2}
  NoOne = nobody
  Stages = {"meeting", "documents", "correction", "signing", "done"}
  Terminal = {"done"}
  Signing = "signing"
  Edges <- UniversityEdges
  NoStage = "NULL"
  BranchStart = "transfer"
  University <- OneUniversity
  Author <- SameAuthor
  Limits = {1}
  StartLed = TRUE
  Kinds = {"create", "assign", "decline", "accept", "move", "rollback", "contract", "close", "reopen", "ask", "team", "leave", "workload"}
INVARIANTS
  NothingLeftBehind
PROPERTIES
  NoSkippedApproval
  NoWayBack
SYMMETRY Clerks
CHECK_DEADLOCK FALSE
