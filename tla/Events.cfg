SPECIFICATION EventsSpec
CONSTANTS
  HoursPerDay = 4
  FrigateEvent = {e1}
  LookbackPeriods = 2
  MaxPeriod = 3
  MaxIngestFaults = 2
  MaxPuts = 2
  MaxChanges = 3
  MaxConfigs = 2
  MaxDrops = 1
  MaxEvent = 2
  MaxTransitions = 3
  MaxEdits = 1
  MaxTrouble = 1
  Cooldown = 1
  Retries = 1
INVARIANTS AlertsFollowHealth EventRowsTrue SentOnceUnlessUnsure
PROPERTIES EventsSettle
CHECK_DEADLOCK FALSE
