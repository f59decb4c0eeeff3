SPECIFICATION Spec
CONSTANTS
  Interactions = {1, 2}
  Managers = {m1, m2}
  Supervisers = {s1}
  NoOne = nobody
  Stages = {"signing", "done"}
  Terminal = {"done"}
  Signing = "signing"
  Edges <- ShortEdges
  NoStage = "NULL"
  BranchStart = "transfer"
  University <- OwnUniversity
  Author <- SameAuthor
  Limits = {0, 1}
  StartLed = FALSE
  Kinds = {"create", "assign", "accept", "move", "contract", "close", "reopen", "pause", "slot", "team", "limit"}
PROPERTIES
  ImplementsPortfolio
SYMMETRY Clerks
CHECK_DEADLOCK FALSE
