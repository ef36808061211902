SPECIFICATION Spec
CONSTANTS
  Size = 2
  Requests = {q1, q2}
  NoWorker = NoWorker
  Counts = {1, 2}
  MaxAttempts = 1
  MaxLaunches = 2
  MaxSpawns = 3
  MaxCrashes = 1
  CleanupFaults = TRUE
  HealthCalls = TRUE
SYMMETRY Symmetry
INVARIANTS
  TypeOK
  LeasesAreExclusive
  NoLostProcess
PROPERTIES
  OnlyTheDeadAreReplaced
CHECK_DEADLOCK FALSE
