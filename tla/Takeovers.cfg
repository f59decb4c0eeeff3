SPECIFICATION Spec
CONSTANTS
  Users = {u1}
  Workers = {w1}
  NoWorker = nobody
  Scenarios <- Dying
  MaxAttempts = 2
INVARIANTS
  TakeoversEnd
