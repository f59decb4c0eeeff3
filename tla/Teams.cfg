SPECIFICATION Spec
CONSTANTS
  Interactions = {1}
  Managers = {11, 12}
  Supervisers = {21, 22}
  Admins = {31}
  NoOne = 0
  Txns = {t1, t2}
  Kinds = {"assign", "recruit", "release", "transfer", "deactivate"}
  Limits = {1}
  StartPhases = {"ACTIVE"}
  Author <- AllFirst
  MaxAttempts = 1
  MaxTeam = 1
INVARIANTS
  OwnersLed
  TeamsWithinQuota
  SomebodyCapable
SYMMETRY Sessions
PROPERTIES
  ActorStillCapable
