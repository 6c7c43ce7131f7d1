SPECIFICATION Spec
CONSTANTS
  Sessions = {s1, s2}
  Identities = {x, y}
  MaxEntities = 2
  EntityIds = {e1, e2, e3}
  Externals = {x1, x2}
  RelTypes = {t1}
  MaxRels = 2
  MaxMaps = 3
  MaxPublish = 3
  MaxFaults = 1
  Callers = {c1, c2}
  ObservationIds = {i1, i2}
  ForwarderKinds = {"sync", "async", "task"}
  MaxIngests = 3
  Created = {"none", "ok"}
  Times = {50, 70}
  Interval = 15
  MaxTimeline = 2
  DbSessions = {d1, d2}
  RowIds = {r1}
  MaxRowWrites = 3
  MaxManagers = 3
  MaxSessions = 2
  Upgraders = {u1, u2}
  MaxRetries = 1
  MaxLocks = 1
  MaxCrashes = 1
  MaxMishaps = 1
  MaxResends = 1
  MaxFileSize = 2
  Digests = {g1, g2}
  MaxChanges = 1
  FeedEvents = {1, 2, 3, 4}
  Alarming = {2, 4}
  PageLimit = 2
  TailBatch = 2
  MaxDeletes = 1
  MaxLost = 1
INVARIANTS TypeOK IntelligenceIsConsistent StoreIsConsistent OperatorSeesTruly
PROPERTIES RecordsProgress
CHECK_DEADLOCK FALSE
