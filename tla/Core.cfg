SPECIFICATION Spec
CONSTANTS
  MaxRuns = 1
  Subscribers = {s1, s2}
  Nobody = Nobody
  MaxSubs = 3
  Messages = {m1, m2, m3}
  Workers = {w1, w2}
  MaxQueue = 3
  MaxStarts = 2
  SubscriberIds = {i1, i2}
  PluginIds = {p1}
  HandlerIds = {"g", "h"}
  Types = {a, b}
  MaxOps = 3
  EventTypes = {"x", "y"}
  MaxSize = 2
  MaxAdds = 4
  HookIds = {h1, h2}
  Phases = {"before", "after"}
  MaxCalls2 = 3
  Deliverers = {"d1", "d2"}
  EventIds = {"e1"}
  PluginOrder <- SomePlugins
  MaxDeliveries = 3
  ManagedPlugins = {"p", "q"}
  MaxInstances = 3
  MaxStartups = 2
  MaxTransitions = 4
  Trees <- SomeTrees
  ManifestIds = {1, 2}
  MaxLoads = 3
  Runs = {1, 2}
  MaxChecks = 2
  MaxRestarts = 2
  Threads = {"t1", "t2"}
  Catalogues <- SomeCatalogues
  SourceNames = {"radio", "signal", "telegram", "whatsapp", "x"}
  MaxCalls = 4
  Payloads <- Delivered
  MaxIngests = 2
  MaxStops = 1
INVARIANTS TypeOK EventsAreCarried SubscribersAreServed PluginsAreRun SourcesAreSafe
PROPERTIES CoreProgresses
CHECK_DEADLOCK FALSE
