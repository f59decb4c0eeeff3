SPECIFICATION Spec
CONSTANTS
  Interactions = {1}
  Managers = {m1}
  Supervisers = {s1}
  NoOne = nobody
  Stages = {"meeting", "documents", "correction", "signing", "done"}
  Terminal = {"done"}
  Signing = "signing"
  Edges <- UniversityEdges
  NoStage = "NULL"
  BranchStart = "transfer"
  University <- OneUniversity
  Author <- SameAuthor
  Limits = {1}
  StartLed = TRUE
  Kinds = {"create", "assign", "accept", "move", "contract", "close", "reopen", "ask"}
PROPERTIES
  SignedStaysPut
CHECK_DEADLOCK FALSE
