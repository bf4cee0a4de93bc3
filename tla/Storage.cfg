CONSTANTS
  s1 = s1
  r1 = r1
  w1 = w1
  w2 = w2
  Segments <- OneSegment
  Remotes <- OneRemote
  Workers <- TwoWorkers
  Expendable = {s1}
  Mismatched = {}
  Environment = {"horizon", "policy", "pressure", "protect"}
  MaxPending = 1
  MaxCrashes = 1
SPECIFICATION Spec
INVARIANTS DeletedMeansGone FootageSurvives
PROPERTIES CopiesSpec
CHECK_DEADLOCK FALSE
SYMMETRY WorkerSymmetry
