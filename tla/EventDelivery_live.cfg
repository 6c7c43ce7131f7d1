\* Traffic never ends: e2 is handed in again and again.
SPECIFICATION TrafficSpec
CONSTANTS
  None = None
  Events = {e1, e2}
  Consumers = {c1}
  Optional = {}
  Redelivered = {e2}
  Procs = {p1}
  MaxAttempts = 2
  BatchLimit = 1
  AdminActs = {}
  MaxCrashes = 1
  AttemptCap = 3
  CallCap = 4
PROPERTIES OwedIsSettled
CHECK_DEADLOCK FALSE
