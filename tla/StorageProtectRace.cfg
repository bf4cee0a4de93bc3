CONSTANTS
  s1 = s1
  r1 = r1
  w1 = w1
  w2 = w2
  Segments <- OneSegment
  Remotes <- OneRemote
  Workers <- TwoWorkers
  Expendable = {}
  Mismatched = {}
  Environment = {"protect"}
  MaxPending = 1
  MaxCrashes = 0
SPECIFICATION Spec
PROPERTY ProtectedFootageKept
CHECK_DEADLOCK FALSE
