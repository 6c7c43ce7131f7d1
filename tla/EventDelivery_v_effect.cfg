\* Two processes: a seq collision is taken for a duplicate.
SPECIFICATION Spec
CONSTANTS
  None = None
  Events = {e1, e2}
  Consumers = {c1}
  Optional = {}
  Redelivered = {}
  Procs = {p1, p2}
  MaxAttempts = 2
  BatchLimit = 2
  AdminActs = {}
  MaxCrashes = 0
  AttemptCap = 3
  CallCap = 4
INVARIANTS CommitBeforeEffect
CHECK_DEADLOCK FALSE
