CONSTANTS
  NFiles = 3
  MaxTime = 5
  MaxGens = 2
  MaxIds = 3
  Handlers = {h1}
  Scenarios = {{"stop"}}
SPECIFICATION Spec
INVARIANT NormalizedTimingIsTrue
CHECK_DEADLOCK FALSE
