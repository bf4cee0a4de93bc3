CONSTANTS
  h1 = h1
  h2 = h2
  NFiles = 3
  MaxTime = 5
  MaxGens = 2
  MaxIds = 3
  Handlers <- TwoHandlers
  Scenarios <- FourScenarios
SPECIFICATION Spec
INVARIANTS CalmTimingIsTrue GenerationsStaySplit SerialOneTail
PROPERTY SerialFinalIsStable
CHECK_DEADLOCK FALSE
SYMMETRY HandlerSymmetry
