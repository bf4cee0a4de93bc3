SPECIFICATION FairSpec
CONSTANTS
  w1 = w1
  w2 = w2
  NFrags = 2
  Triggers <- OneTrigger
  Workers = {w1}
  PromoteRetries = 1
  GcRetries = 1
  ScanRetries = 1
  Scenarios = {{"many"}}
CHECK_DEADLOCK FALSE
PROPERTY RequiredPromoted
