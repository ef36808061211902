SPECIFICATION FairSpec
CONSTANTS
  Downloads = {d1, d2}
  Repos = {r1}
  Jobs = {j1}
  NoModel = NoModel
  NoRepo = NoRepo
  MaxCrashes = 2
  MaxTries = 2
  StorageFaults = TRUE
INVARIANTS
  TypeOK
  InstalledHasFiles
  NoStrandedDownload
  CancelledNeverInstalls
PROPERTIES
  ModelInWorkStays
  RecoveryReconciles
  
CHECK_DEADLOCK FALSE
