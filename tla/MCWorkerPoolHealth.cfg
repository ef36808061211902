SPECIFICATION Spec
CONSTANTS
  Size = 2
  Requests = {q1}
  NoWorker = NoWorker
  Counts = {1, 2}
  MaxAttempts = 1
  MaxLaunches = 2
  MaxSpawns = 3
  MaxCrashes = 0
  CleanupFaults = FALSE
  HealthCalls = FALSE
INVARIANTS
  StatusSpeaksOfTheReplica
CHECK_DEADLOCK FALSE
