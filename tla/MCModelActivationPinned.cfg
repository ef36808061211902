SPECIFICATION Spec
CONSTANTS
  Downloads = {d1}
  Repos = {r1}
  Jobs = {j1}
  NoModel = NoModel
  NoRepo = NoRepo
  MaxCrashes = 1
  MaxTries = 1
  StorageFaults = FALSE
PROPERTY PinnedModelStays
CHECK_DEADLOCK FALSE
