SPECIFICATION Spec
CONSTANTS
  Jobs = {j1, j2}
  Refs = {r1}
  NoJob = NoJob
  NoRef = NoRef
  Replicas = 1
  MaxRestarts = 1
  StorageFaults = FALSE
INVARIANT ValidatedIsOnDisk
CHECK_DEADLOCK FALSE
