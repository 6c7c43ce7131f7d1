\* Two processes over one database; e1 is handed in again and again.
SPECIFICATION Spec
CONSTANTS
  None = None
  Events = {e1, e2}
  Consumers = {c1}
  Optional = {}
  Redelivered = {e1}
  Procs = {p1, p2}
  MaxAttempts = 1
  BatchLimit = 2
  AdminActs = {"dead_letter"}
  MaxCrashes = 1
  AttemptCap = 2
  CallCap = 4
INVARIANTS TypeOK OutboxComplete DeliveredMeansHandled
  InvocationsBounded
PROPERTIES SeqFollowsCommitOrder
SYMMETRY ProcSymmetry
CHECK_DEADLOCK FALSE
