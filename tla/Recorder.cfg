SPECIFICATION RuntimeSpec
CONSTANTS
  Worker = {w1}
  Profile = {main, sub}
  NoProfile = NoProfile
  Policies <- PolicySet
  MaxChanges = 2
  MaxCalmChanges = 3
  MaxFaults = 1
  MaxTries = 1
  MaxQueue = 2
  Days = 2
  Hours = 3
  Schedules <- SmallSchedules
  Horizon = 18
  File = {f1, f2}
  Overlap = 3
  Lookback = 4
  Settle = 1
  MaxScan = 2
  Never = Never
  MaxTime = 8
INVARIANTS WrongRecorderHasTask ScheduleFollowedUnlessCarried NoGapBetweenScans
PROPERTIES RecorderSettles
CHECK_DEADLOCK FALSE
