SPECIFICATION ContestSpec
CONSTANTS
  Interactions = {1, 2}
  Managers = {11, 12}
  Supervisers = {21}
  Admins = {31}
  NoOne = 0
  Txns = {t1, t2}
  Kinds <- AllKinds
  Limits = {1}
  StartPhases = {"DRAFT", "PAUSED_TIMED", "CLOSED"}
  Author <- AllFirst
  MaxAttempts = 1
  MaxTeam = 2
PROPERTIES
  NoOverfill
  ImplementsPortfolio
  WorkOnlyForTheWilling
SYMMETRY Sessions
