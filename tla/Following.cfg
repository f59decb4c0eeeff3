SPECIFICATION FairSpec
CONSTANTS
  Users = {u1}
  Workers = {w1}
  NoWorker = nobody
  Scenarios <- OneByOne
  MaxAttempts = 2
PROPERTIES
  NobodyBlockedForever
  SeatFreed
  Converges
