SPECIFICATION FairSpec
CONSTANTS
  Jobs = {j1, j2}
  Refs = {}
  NoJob = NoJob
  NoRef = NoRef
  Replicas = 1
  MaxRestarts = 1
  StorageFaults = TRUE
PROPERTIES
  EveryJobEnds
CHECK_DEADLOCK FALSE
