SPECIFICATION SettingsSpec
CONSTANTS
  High = high
  Low = low
  MaxAddress = 2
  MaxDeviceChanges = 1
  MaxRequests = 2
  MaxSlips = 1
  Disk = {d1, d2}
  Cam = {c1, c2}
  MaxEdits = 2
  Runner = {j1, j2}
  MaxTargetFaults = 1
  MaxSecrets = 4
  MaxEdit = 5
  Users = {u1, u2}
  MaxSessions = 2
  MaxResets = 1
  MaxServed = 6
  MaxEra = 2
  Identifiers = {i1, i2}
  Threads = {t1, t2}
  Window = 2
  Lockout = 2
  PairLimit = 2
  IpLimit = 3
  MaxTick = 6
  MaxGroups = 3
  Cameras = {c1}
  MaxGroupEdits = 4
  Revisions = {1, 2}
  SchemaOf <- Schemas
  Keys = {1, 2}
  MaxCommands = 3
  MaxAborts = 2
INVARIANTS ProxyFollowsConfig RecordersFollowRoute ReferencesResolve
  AdministratorRemains SessionsFollowAccount GuessesBounded NeverStranded
  SecretsReadable
PROPERTIES ProbesStayTrue GroupsStaySound
CHECK_DEADLOCK FALSE
