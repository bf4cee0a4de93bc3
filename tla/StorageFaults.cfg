CONSTANTS
  s1 = s1
  r1 = r1
  w1 = w1
  w2 = w2
  Segments <- OneSegment
  Remotes <- OneRemote
  Workers <- TwoWorkers
  Expendable = {}
  Mismatched = {}
  Environment = {"detach", "loss", "target"}
  MaxPending = 1
  MaxCrashes = 1
SPECIFICATION FairSpec
INVARIANT RemoteAvailableIsReal
PROPERTY ArchivingResolves
CHECK_DEADLOCK FALSE
