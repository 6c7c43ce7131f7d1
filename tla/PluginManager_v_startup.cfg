\* startup_all with two loaded plugins.
SPECIFICATION Spec
CONSTANTS
  Plugins = {p, q}
  MaxInstances = 2
  MaxStarts = 1
INVARIANTS AllAreStarted
CHECK_DEADLOCK FALSE
