SPECIFICATION FairSpec
CONSTANTS
  Interactions = {1}
  Managers = {11, 12}
  Supervisers = {21}
  Admins = {31}
  NoOne = 0
  Txns = {t1, t2}
  Kinds = {"assign", "close", "unpause", "expire"}
  Limits = {1}
  StartPhases = {"PAUSED_TIMED"}
  Author <- AllFirst
  MaxAttempts = 2
  MaxTeam = 2
PROPERTIES
  EveryTransactionEnds
