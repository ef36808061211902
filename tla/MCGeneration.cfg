SPECIFICATION Spec
CONSTANTS
  Jobs = {j1, j2}
  Refs = {r1}
  NoJob = NoJob
  NoRef = NoRef
  Replicas = 1
  MaxRestarts = 2
  StorageFaults = TRUE
SYMMETRY Symmetry
INVARIANTS
  TypeOK
  AudioDurable
  NoPartialArtifactForVoices
  NoStrandedJob
  CancelledNeverCompletes
  EveryRecordingIsOwned
  AttemptsNeverOverlap
PROPERTIES
  TerminalIsFinal
  LifecycleHolds
CHECK_DEADLOCK FALSE
