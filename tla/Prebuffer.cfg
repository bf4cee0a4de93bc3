SPECIFICATION Spec
CONSTANTS
  w1 = w1
  w2 = w2
  NFrags = 2
  Triggers <- OneTrigger
  Workers <- TwoWorkers
  PromoteRetries = 1
  GcRetries = 1
  ScanRetries = 0
  Scenarios <- SharedOrAlone
CHECK_DEADLOCK FALSE
INVARIANT AloneNothingIsLost
PROPERTIES GcKeepsRequired PublishedCopyStays
SYMMETRY WorkerSymmetry
