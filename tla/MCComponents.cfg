SPECIFICATION ComponentsSpec
CONSTANTS
  Listeners = {c1, c2}
  MaxChunks = 3
  Widths = {1, 2}
  Budget = 2
  QueueSize = 2
  ReplayBytes = 3
  Streams = {s1, s2}
  All = All
  Feeds = {f1}
  Window = 2
  Batch = 2
  MaxEvents = 4
  MaxOpens = 2
  Commands = {k1, k2}
  Nobody = Nobody
  Upgrades = {u1, u2}
  EngineCount = 2
  GenerationIds = {g1, g2}
  NoId = NoId
  References = {r1}
  Voices = {v1}
  Nothing = Nothing
  MaxKills = 1
  Jobs = {j1}
  Requests = {q1, q2}
  Replicas = 2
  NoJob = NoJob
  MaxCrashes = 1
  Downloads = {d1, d2}
  Workers = {w1}
  Handles = {1, 2}
  Absent = Absent
  None = None
  Synths = {y1}
  Pieces = 2
  MaxLate = 1
  Blank = Blank
  Launches = {n1}
  Pids = {p1, p2}
  Stranger = Stranger
  Unused = Unused
  Readers = {a1}
  FileSize = 3
  ChunkBytes = 2
  Calls = {o1, o2}
  PoolThreads = 1
  Artifacts = {x1, x2}
  Deleters = {z1, z2}
  NoArtifact = NoArtifact
  Profiles = {i1}
  Works = {b1, b2}
  NoProfile = NoProfile
  Files = {t1, t2, t3}
  Required = {t1, t2}
  PieceCount = 2
  MaxChanges = 2
INVARIANTS
  ComponentsTypeOK
  ChunksArriveInOrder
  NothingSkipped
  OwnerIsNamed
  PointerNamesWhole
  RowsAgreeWithFiles
  NoAlignmentIsLost
  ModelsAreGenuine
  LeaseReturnsQuiet
  GroupKeepsItsRecord
  ReadsAreClean
  NoRequestIsForgotten
  ServiceCanBeRemoved
  RowsAndFilesGoTogether
  ProfileOutlivesItsJobs
PROPERTIES
  EveryListenerEnds
  WorkersLetGo
  
CHECK_DEADLOCK FALSE
