\* Two control threads with every call, automatic restarts, and threads that may outlive their join.
SPECIFICATION FairSpec
CONSTANTS
  None = None
  Callers = {c1, c2}
  Threads = {t1, t2, t3}
  Ops = {"start", "stop", "restart"}
  MaxStarts = 2
  MaxRestarts = 1
  SlowThreads = TRUE
INVARIANTS TypeOK ActiveIsServed AdapterIsOwned BudgetHolds
PROPERTIES StopQuiesces StartingEnds
CHECK_DEADLOCK FALSE
