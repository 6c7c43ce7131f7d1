SPECIFICATION FairSpec
CONSTANTS
  p1 = p1
  p2 = p2
  a = a
  b = b
  k = k
  l = l
  None = None
  Procs = {p1, p2}
  Events <- MCEvents
  Environments <- MCEnvironments
  MaxCrashes = 1
  MaxRepeats = 1
INVARIANTS TypeOK RecoveryIsTrue EntitiesFollowLog
PROPERTIES TerminalStates CommittedIsProjected
CHECK_DEADLOCK FALSE
