SPECIFICATION Spec
CONSTANTS
  Users = {u1}
  Workers = {w1, w2}
  NoWorker = nobody
  Scenarios <- Everyday
  MaxAttempts = 2
INVARIANTS
  PendingHasTask
  OffboardingMatches
PROPERTIES
  RoleChangesClean
  LetGoOnlyWhenGone
