SPECIFICATION FairSpec
CONSTANTS
  Jobs = {j1}
  Refs = {r1}
  NoJob = NoJob
  NoRef = NoRef
  Replicas = 1
  MaxRestarts = 1
  StorageFaults = FALSE
PROPERTIES
  RecoveryFinishes
CHECK_DEADLOCK FALSE
