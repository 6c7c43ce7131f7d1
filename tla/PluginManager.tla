---------------------------- MODULE PluginManager -----------------------------
(***************************************************************************)
(* PluginManager and its registry: loading, registering, unregistering and *)
(* hot-reloading plugins, starting and stopping them.  The manager's lock  *)
(* makes every call but startup_all one step; startup_all starts a thread  *)
(* per plugin, and the threads call the variable of its loop, not the      *)
(* plugin it stood for when they were made.  Instances are numbered.       *)
(***************************************************************************)
EXTENDS Integers, Sequences, FiniteSets, Functions

CONSTANTS
  Plugins,      \* plugin ids
  MaxInstances, \* bound on instances
  MaxStarts     \* bound on calls of startup_all

VARIABLES
  registry,   \* in order of registration: [id, status, inst]
  executors,  \* ids in _executors
  cell,       \* per call of startup_all: the instance its loop variable stands for
  toStart,    \* entries the running startup_all has still to visit
  starting,   \* threads that have not called on_start: set of [call, inst], inst as intended
  onStart,    \* ghost: instances on whose behalf a thread has run, with what it called
  reloaded,   \* ghost: instances that came from a hot reload
  instances   \* number of instances made

vars == <<registry, executors, cell, toStart, starting, onStart, reloaded, instances>>

Init ==
  /\ registry = <<>> /\ executors = {} /\ cell = <<>> /\ toStart = <<>>
  /\ starting = {} /\ onStart = {} /\ reloaded = {} /\ instances = 0

States == {"LOADED", "RUNNING", "STOPPED", "FAILED"}

TypeOK ==
  /\ \A e \in Range(registry) : e.id \in Plugins /\ e.status \in States /\ e.inst \in 1 .. instances
  /\ executors \subseteq Plugins /\ Len(cell) <= MaxStarts

Ids == {e.id : e \in Range(registry)}
Entry(id) == CHOOSE e \in Range(registry) : e.id = id
Free == toStart = <<>>  \* the manager's lock

\* PluginRegistry.add: a known id keeps its place.
Added(e) ==
  IF e.id \in Ids THEN [k \in DOMAIN registry |-> IF registry[k].id = e.id THEN e ELSE registry[k]]
  ELSE Append(registry, e)
\* update_status and update_error; a replaced entry's status is not written.
Updated(id, s) ==
  [k \in DOMAIN registry |-> IF registry[k].id = id THEN [registry[k] EXCEPT !.status = s] ELSE registry[k]]

\* PluginRegistry.remove: the others keep their order.
Removed(id) ==
  LET at == CHOOSE k \in DOMAIN registry : registry[k].id = id
  IN [k \in 1 .. Len(registry) - 1 |-> registry[IF k < at THEN k ELSE k + 1]]

\* load_plugin_from_candidate: whatever fails before the registration leaves no trace; a
\* failing initialize() or register() leaves the entry, FAILED, in place of an older one.
Load(id, fails) ==
  /\ Free /\ instances < MaxInstances /\ instances' = instances + 1
  /\ registry' = Added([id |-> id, status |-> IF fails THEN "FAILED" ELSE "LOADED", inst |-> instances + 1])
  /\ UNCHANGED <<executors, cell, toStart, starting, onStart, reloaded>>

\* register_plugin refuses a known id, and adds nothing when the plugin raises.
Register(id) ==
  /\ Free /\ id \notin Ids /\ instances < MaxInstances /\ instances' = instances + 1
  /\ registry' = Added([id |-> id, status |-> "LOADED", inst |-> instances + 1])
  /\ UNCHANGED <<executors, cell, toStart, starting, onStart, reloaded>>

\* unregister_plugin removes the entry whether or not the plugin raises; the executor stays.
Unregister(id) ==
  /\ Free /\ id \in Ids /\ registry' = Removed(id)
  /\ UNCHANGED <<executors, cell, toStart, starting, onStart, reloaded, instances>>

\* The hot reload's snapshot and rollback: a new instance replaces the old one and is RUNNING,
\* whatever the status was; on any failure the old entry is kept as it was.
HotReloaded(id) == Added([id |-> id, status |-> "RUNNING", inst |-> instances + 1])

\* reload_plugin refuses an unknown id.
Reload(id, succeeds) ==
  /\ Free /\ id \in Ids /\ instances < MaxInstances
  /\ instances' = (IF succeeds THEN instances + 1 ELSE instances)
  /\ registry' = (IF succeeds THEN HotReloaded(id) ELSE registry)
  /\ reloaded' = (IF succeeds THEN reloaded \cup {instances + 1} ELSE reloaded)
  /\ UNCHANGED <<executors, cell, toStart, starting, onStart>>

\* startup_all goes over a copy of the registry, whatever the status of the entries.
StartAll ==
  /\ Free /\ registry # <<>> /\ Len(cell) < MaxStarts
  /\ cell' = Append(cell, 0) /\ toStart' = registry
  /\ UNCHANGED <<registry, executors, starting, onStart, reloaded, instances>>

\* The loop variable takes the next entry; its executor starts a thread, or fails.
StartNext(ok) ==
  /\ toStart # <<>>
  /\ LET e == Head(toStart) IN
     /\ toStart' = Tail(toStart) /\ cell' = [cell EXCEPT ![Len(cell)] = e.inst]
     /\ starting' = (IF ok THEN starting \cup {[call |-> Len(cell), inst |-> e.inst]} ELSE starting)
     /\ executors' = (IF ok THEN executors \cup {e.id} ELSE executors)
     /\ registry' = Updated(e.id, IF ok THEN "RUNNING" ELSE "FAILED")
  /\ UNCHANGED <<onStart, reloaded, instances>>

\* The thread calls on_start of the plugin the loop variable stands for by then.
ThreadRuns(t) ==
  /\ t \in starting /\ starting' = starting \ {t}
  /\ onStart' = onStart \cup {[call |-> t.call, inst |-> t.inst, called |-> cell[t.call]]}
  /\ UNCHANGED <<registry, executors, cell, toStart, reloaded, instances>>

\* shutdown_all: every executor is stopped and forgotten, a RUNNING entry becomes STOPPED.
ShutdownAll ==
  /\ Free /\ executors # {} /\ executors' = {}
  /\ registry' = [k \in DOMAIN registry |->
                    IF registry[k].id \in executors /\ registry[k].status = "RUNNING"
                    THEN [registry[k] EXCEPT !.status = "STOPPED"] ELSE registry[k]]
  /\ UNCHANGED <<cell, toStart, starting, onStart, reloaded, instances>>

Next ==
  \/ \E id \in Plugins : \/ \E b \in BOOLEAN : Load(id, b) \/ Reload(id, b)
                         \/ Register(id) \/ Unregister(id)
  \/ StartAll \/ (\E b \in BOOLEAN : StartNext(b)) \/ ShutdownAll
  \/ \E t \in starting : ThreadRuns(t)

Spec == Init /\ [][Next]_vars

(***************************************************************************)
(* Properties.                                                             *)
(***************************************************************************)

\* An id has one entry, and an instance belongs to one.
OneEntryPerId ==
  \A j, k \in DOMAIN registry :
    (registry[j].id = registry[k].id \/ registry[j].inst = registry[k].inst) => j = k

\* Every plugin a thread was started for is called for, once per call of startup_all, and
\* what is called is it or an entry visited after it; the last one of a call is not lost.
StartsAreCalls ==
  /\ \A c, d \in onStart : c.call = d.call /\ c.inst = d.inst => c = d
  /\ \A c \in onStart : c.called >= 1 /\ c.called <= instances
  /\ Free => \A t \in starting : cell[t.call] # 0
  /\ \A c \in onStart : c.inst # c.called => cell[c.call] # c.inst

\* What is RUNNING has an executor, so that shutdown_all stops it, unless it became RUNNING
\* in a hot reload, which makes none.
RunningIsExecuted ==
  \A e \in Range(registry) : e.status = "RUNNING" => e.id \in executors \/ e.inst \in reloaded
\* startup_all: "Start all loaded plugins using PluginExecutor."
AllAreStarted == \A c \in onStart : c.called = c.inst
=============================================================================
