SPECIFICATION Spec
CONSTANTS
  f1 = f1
  f2 = f2
  None = None
  Flows = {f1, f2}
  MaxFlows = 1
  Modulus = 8
  First = 6
  Window = 3
  Numbers = {5, 6, 7, 8, 9}
  Ssrcs = {1, 2}
  MaxBlocks = 4
  PreRoll = 1
  PostRoll = 3
  MinSpeech = 2
  SilenceTimeout = 1
  MaxSegment = 6
  SttQueueMax = 1
  MaxFrames = 8
  MaxStops = 1
  Items = {i1, i2}
  Threads = {t1, t2}
  Controls = {c1, c2}
  QueueMax = 1
  MaxJobs = 2
  Nobody = Nobody
  RecvThreads = {r1, r2, r3}
  Callers = {c1, c2}
  NoThread = NoThread
  Energies = {0, 10, 40, 60}
  RatioNum = 5
  AbsoluteMin = 15
  HistoryFrames = 4
  Percentile = 20
  InitialFloor = 10
  StabilityWindow = 2
  StabilityTolerance = 15
  StableFrames = 3
  MaxRun = 5
  Clients = {q1, q2}
INVARIANTS TypeOK AudioIsAccounted WorkersAreSafe
PROPERTIES AudioIsServed
CHECK_DEADLOCK FALSE
