SPECIFICATION JobsSpec
CONSTANTS
  Viewer = {v1, v2}
  MaxDownloads = 1
  RenderRetries = 1
  MaxCancels = 1
  PlanEnd = 4
  MaxSegments = 3
  Restorer = {w1, w2}
  NoRestorer = NoRestorer
  RestoreRetries = 1
  MaxRestores = 1
  MaxRestoreFaults = 3
  Set = {b1, b2}
  Repository = {r1, r2}
  Credential = {c1}
  NoCredential = NoCredential
  MasterKey = {k1, k2}
  BackupRetries = 1
  MaxUpdates = 1
  MaxVerifies = 1
INVARIANTS PlanIsExact NothingTornServed BackupRecordsTrue
PROPERTIES ShareHonoured JobsEnd
CHECK_DEADLOCK FALSE
