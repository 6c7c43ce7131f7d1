\* One process owns the database and no event is handed in twice; a consumer
\* comes and goes, an administrator requeues, a call may be cut short.
SPECIFICATION Spec
CONSTANTS
  None = None
  Events = {e1, e2}
  Consumers = {c1, c2}
  Optional = {c2}
  Redelivered = {}
  Procs = {p1}
  MaxAttempts = 1
  BatchLimit = 2
  AdminActs = {"requeue"}
  MaxCrashes = 1
  AttemptCap = 3
  CallCap = 1
INVARIANTS AttemptsBounded CommitBeforeEffect FailedIsRetryable InFlightIsHeld
PROPERTIES SettledIsFinal ImplementsContract
CHECK_DEADLOCK FALSE
