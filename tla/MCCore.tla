-------- MODULE MCCore --------
(***************************************************************************)
(* The event core, its plugins and its sources, each component on its own: *)
(* the pipeline of EventEngine, the event bus and its queue, the registry  *)
(* and its dispatcher, the history and the hooks; the manager, the         *)
(* deliveries, the life cycle, the loading, the health and the execution   *)
(* of plugins; the control of the sources and their adapters.              *)
(***************************************************************************)
EXTENDS Integers, Sequences, TLC, FiniteSetTheorems, TLAPS

CONSTANTS MaxRuns, Subscribers, Nobody, MaxSubs, Messages, Workers, MaxQueue, MaxStarts,
  SubscriberIds, PluginIds, HandlerIds, Types, MaxOps, EventTypes, MaxSize, MaxAdds, HookIds, Phases, MaxCalls2,
  Deliverers, EventIds, PluginOrder, MaxDeliveries,
  ManagedPlugins, MaxInstances, MaxStartups, MaxTransitions, Trees, ManifestIds, MaxLoads, Runs, MaxChecks, MaxRestarts,
  Threads, Catalogues, SourceNames, MaxCalls, Payloads, MaxIngests, MaxStops

VARIABLES
  part, \* which of the components the behaviour is of
  stages, enabled, rank, idx, walked, input, ctx, results, row, runs, changes, disturbed,
  typed, wild, delivery, subCalls,
  heap, running, wst, stopper, unsent, published, lost, dropped, starts, late,
  subs, plugins, index, handlers, handlerIndex, dispatch, ops, removed,
  events, byType, typeKeys, added, droppedCount, replay,
  hooks, off, count, trig, hookCalls, cleared,
  registry, executors, cell, toStart, starting, onStart, reloaded, instances,
  ledger, active, job, ran, cuts, crossed, deliveries,
  current, attempts, reached,
  tree, found, loads, modules, registered,
  checks, status, failures, run, lastReport, log,
  catalogue, known, validated, table, state, started, call, calls, overlapped,
  isUp, queue, drained, storedEvents, transport, ingested, halts, admitted, forwarded, refused,
  isRunning, stopEvent, generation, sandbox, target, heart, cancelled, stopping, gaveUp

\* Five of the engine's stages; the others join them with add_stage.
Built == <<"validation", "enrichment", "persistence", "history", "broadcast">>

\* A directory without a fault, and its variants with one.
Good(r, n) ==
  [root |-> r, name |-> n, manifest |-> "full", id |-> 1, source |-> "fine", runs |-> "ok",
   class |-> "plugin", made |-> TRUE, hooks |-> TRUE]

Variants(d) ==
  {d} \cup {[d EXCEPT !.manifest = m] : m \in {"none", "partial", "broken"}} \cup {[d EXCEPT !.id = 2]}
      \cup {[d EXCEPT !.source = s] : s \in {"none", "forbidden", "unparsable"}}
      \cup {[d EXCEPT !.manifest = "none", !.source = "none"]}
      \cup {[d EXCEPT !.runs = s] : s \in {"raises", "importError"}}
      \cup {[d EXCEPT !.class = s] : s \in {"absent", "foreign"}}
      \cup {[d EXCEPT !.made = FALSE], [d EXCEPT !.hooks = FALSE]}

\* Two directories under the first root, and one of the first's name under the second.
SomeTrees ==
  {{a, b, c} : a \in Variants(Good(1, 1)), b \in Variants(Good(1, 2)),
               c \in {Good(2, 1), [Good(2, 1) EXCEPT !.manifest = "none"]}}

\* Catalogues with a disabled source and one of an unknown type, and with a name used twice.
Source(n, t, e) == [name |-> n, type |-> t, enabled |-> e]
SomeCatalogues ==
  {<<Source("radio", "radio", TRUE), Source("signal", "signal", FALSE), Source("x", "x", TRUE)>>,
   <<Source("radio", "radio", TRUE), Source("radio", "multicast_audio", TRUE)>>}

\* Payloads that share an identity and differ in their body or their time, and a faulty one.
Payload(s, a, b, c, t) ==
  [source |-> s, a |-> a, b |-> b, odd |-> FALSE, body |-> c, time |-> t]
Delivered ==
  {Payload("atak", "u", "type", c, "number") : c \in {"here", "there"}}
  \cup {Payload("telegram", "5", "1", "x", "number"), Payload("telegram", "5", "2", "x", "huge")}
  \cup {Payload("signal", "5", n, "x", "text") : n \in {"1", "2"}}
  \cup {Payload("mqtt", "t", "v", "x", w) : w \in {"number", "text"}}
  \cup {Payload("radio", "unreadable", "c", "x", "number")}

\* Two plugins.
SomePlugins == <<"p", "q">>

P == INSTANCE CorePipeline WITH Present <- Built, MaxChanges <- 2
B == INSTANCE CoreBus
Q == INSTANCE CoreBusQueue
R == INSTANCE CoreRegistry WITH Ids <- SubscriberIds
H == INSTANCE CoreHistory
K == INSTANCE CoreHooks
A == INSTANCE PluginManager WITH Plugins <- ManagedPlugins, MaxStarts <- MaxStartups
D == INSTANCE PluginDelivery
L == INSTANCE SdkLifecycle
O == INSTANCE PluginLoading WITH Ids <- ManifestIds
N == INSTANCE SdkHealth
C == INSTANCE SourceControl WITH Names <- SourceNames
E == INSTANCE SourceAdapters
X == INSTANCE PluginExecutor

ASSUME NamesOK ==
  /\ P!PresentOK /\ B!BoundOK /\ Q!MessagesOK
  /\ R!DistinctNames /\ H!HistoryOK /\ D!OrderOK /\ C!NamesOK /\ E!PayloadsOK /\ O!TreesOK

\* The bounds that the types name are numbers.
ASSUME BoundsOK ==
  /\ MaxStartups \in Nat /\ MaxTransitions \in Nat /\ MaxChecks \in Nat /\ MaxCalls \in Nat
  /\ MaxIngests \in Nat /\ MaxStops \in Nat

\* One component runs; the others stay in an initial state.
Init ==
  /\ part \in {"pipeline", "bus", "queue", "registry", "history", "hooks", "manager", "delivery", "lifecycle", "loading", "sdkhealth", "control", "adapters", "executor"}
  /\ P!Init /\ B!Init /\ Q!Init /\ R!Init /\ H!Init /\ K!Init /\ A!Init /\ D!Init /\ L!Init /\ N!Init /\ E!Init /\ X!Init
  /\ O!Init /\ (part # "loading" => tree = CHOOSE t \in Trees : TRUE)
  /\ C!Init /\ (part # "control" => catalogue[1].type = "telegram")

PVars == <<stages, enabled, rank, idx, walked, input, ctx, results, row, runs, changes, disturbed>>

BVars == <<typed, wild, delivery, subCalls>>

QVars == <<heap, running, wst, stopper, unsent, published, lost, dropped, starts, late>>

RVars == <<subs, plugins, index, handlers, handlerIndex, dispatch, ops, removed>>

HVars == <<events, byType, typeKeys, added, droppedCount, replay>>

KVars == <<hooks, off, count, trig, hookCalls, cleared>>

AVars == <<registry, executors, cell, toStart, starting, onStart, reloaded, instances>>

DVars == <<ledger, active, job, ran, cuts, crossed, deliveries>>

LVars == <<current, attempts, reached>>

OVars == <<tree, found, loads, modules, registered>>

NVars == <<checks, status, failures, run, lastReport, log>>

CVars == <<catalogue, known, validated, table, state, started, call, calls, overlapped>>

EVars == <<isUp, queue, drained, storedEvents, transport, ingested, halts, admitted, forwarded, refused>>

XVars == <<isRunning, stopEvent, generation, sandbox, target, heart, cancelled, stopping, gaveUp>>

Next ==
  \/ part = "pipeline" /\ P!Next /\ UNCHANGED <<part, BVars, QVars, RVars, HVars, KVars, AVars, DVars, LVars, OVars, NVars, CVars, EVars, XVars>>
  \/ part = "bus" /\ B!Next /\ UNCHANGED <<part, PVars, QVars, RVars, HVars, KVars, AVars, DVars, LVars, OVars, NVars, CVars, EVars, XVars>>
  \/ part = "queue" /\ Q!Next /\ UNCHANGED <<part, PVars, BVars, RVars, HVars, KVars, AVars, DVars, LVars, OVars, NVars, CVars, EVars, XVars>>
  \/ part = "registry" /\ R!Next /\ UNCHANGED <<part, PVars, BVars, QVars, HVars, KVars, AVars, DVars, LVars, OVars, NVars, CVars, EVars, XVars>>
  \/ part = "history" /\ H!Next /\ UNCHANGED <<part, PVars, BVars, QVars, RVars, KVars, AVars, DVars, LVars, OVars, NVars, CVars, EVars, XVars>>
  \/ part = "hooks" /\ K!Next /\ UNCHANGED <<part, PVars, BVars, QVars, RVars, HVars, AVars, DVars, LVars, OVars, NVars, CVars, EVars, XVars>>
  \/ part = "manager" /\ A!Next /\ UNCHANGED <<part, PVars, BVars, QVars, RVars, HVars, KVars, DVars, LVars, OVars, NVars, CVars, EVars, XVars>>
  \/ part = "delivery" /\ D!Next /\ UNCHANGED <<part, PVars, BVars, QVars, RVars, HVars, KVars, AVars, LVars, OVars, NVars, CVars, EVars, XVars>>
  \/ part = "lifecycle" /\ L!Next /\ UNCHANGED <<part, PVars, BVars, QVars, RVars, HVars, KVars, AVars, DVars, OVars, NVars, CVars, EVars, XVars>>
  \/ part = "loading" /\ O!Next /\ UNCHANGED <<part, PVars, BVars, QVars, RVars, HVars, KVars, AVars, DVars, LVars, NVars, CVars, EVars, XVars>>
  \/ part = "sdkhealth" /\ N!Next /\ UNCHANGED <<part, PVars, BVars, QVars, RVars, HVars, KVars, AVars, DVars, LVars, OVars, CVars, EVars, XVars>>
  \/ part = "control" /\ C!Next /\ UNCHANGED <<part, PVars, BVars, QVars, RVars, HVars, KVars, AVars, DVars, LVars, OVars, NVars, EVars, XVars>>
  \/ part = "adapters" /\ E!Next /\ UNCHANGED <<part, PVars, BVars, QVars, RVars, HVars, KVars, AVars, DVars, LVars, OVars, NVars, CVars, XVars>>
  \/ part = "executor" /\ X!Next /\ UNCHANGED <<part, PVars, BVars, QVars, RVars, HVars, KVars, AVars, DVars, LVars, OVars, NVars, CVars, EVars>>

vars == <<part, PVars, BVars, QVars, RVars, HVars, KVars, AVars, DVars, LVars, OVars, NVars, CVars, EVars, XVars>>
Spec == Init /\ [][Next]_vars /\ Q!Fairness /\ X!Fairness

\* Every variable of every component keeps its type.
TypeOK ==
  /\ P!TypeOK
  /\ B!TypeOK
  /\ Q!TypeOK
  /\ R!TypeOK
  /\ H!TypeOK
  /\ K!TypeOK
  /\ A!TypeOK
  /\ D!TypeOK
  /\ L!TypeOK
  /\ O!TypeOK
  /\ N!TypeOK
  /\ C!TypeOK
  /\ E!TypeOK
  /\ X!TypeOK

\* An event on its way: every stage runs once and in rank order, what the pipeline reports is what
\* was stored, each subscription is called once, and no queued message is lost or published twice.
EventsAreCarried ==
  /\ P!EveryStageOnce /\ P!SaveIsReported /\ P!ReportedIdIsStored /\ P!RanksAscend
  /\ B!EachSubscriptionOnce /\ Q!MessagesConserved /\ Q!OneBusWorker

\* Those who follow the events: the registry's index is exact and everyone in it is called, the
\* history answers and replays from what it holds, and hooks pass the event on.
SubscribersAreServed ==
  /\ R!IndexIsExact /\ R!EveryoneIsCalled /\ R!OneResultEach /\ H!IndexCoversBuffer
  /\ H!SearchFindsAll /\ H!ReplayIsInOrder /\ K!HookIdsUnique /\ K!EventPassesThrough

\* Plugins: one entry per id, what is called running is executed, one target at a time; what the
\* ledger records has run; a candidate is validated before it is imported and entered as loaded last.
PluginsAreRun ==
  /\ A!OneEntryPerId /\ A!StartsAreCalls /\ A!RunningIsExecuted /\ X!OneTargetRuns
  /\ X!NoOldWatchdog /\ D!RecordedHasRun /\ D!RunsAreAccounted /\ L!HistoryIsAPath
  /\ L!RunsOnlyLoaded /\ O!FirstRootWins /\ O!ValidatedBeforeImport /\ O!EntryIsLastLoaded
  /\ N!FailuresAreConsecutive

\* Sources: what runs is supervised and enabled and the health reported is the worst, what an adapter
\* accepts is accounted for, a redelivery is one event, and a transport that is called started is up.
SourcesAreSafe ==
  /\ C!RunningIsSupervised /\ C!RegisteredIsEnabled /\ C!ReportIsWorst
  /\ E!AcceptedIsAccounted /\ E!RedeliveryIsOneEvent /\ E!StartedTransportIsUp

\* A queued message is published while a worker is started again and again, the end of a plugin's
\* target is noticed, and a plugin's health becomes healthy only by its checks; a stop of the runtime
\* leaves no source running, and two messages become one event only for a reason.
CoreProgresses ==
  /\ C!StopLeavesNothing /\ E!MergedIsExplained /\ Q!QueuedIsPublished /\ X!EndIsNoticed
  /\ N!HealthyIsEarned

(***************************************************************************)
(* Both hold for any number of deliverers, events, plugins and deliveries. *)
(***************************************************************************)

\* Jobs, counts, and what the ledger and the steps under way know of a pair.
JobTyped ==
  /\ job \in [Deliverers -> [pc : {"idle", "visit", "run", "record"},
                             event : EventIds \cup {""}, rest : Seq(D!PluginSet)]]
  /\ \A d \in Deliverers : job[d].pc # "idle" => job[d].event \in EventIds /\ job[d].rest # <<>>
Counts == ran \in [D!Pairs -> Nat] /\ cuts \in [D!Pairs -> Nat] /\ ledger \subseteq D!Pairs
JobsOK == JobTyped /\ Counts

\* A pair under record has run.
RecordHasRun ==
  /\ D!RecordedHasRun
  /\ \A d \in Deliverers : job[d].pc = "record" => ran[D!Pair(d)] > 0

\* Two deliverers on one pair have crossed.
Crossing ==
  \A d, o \in Deliverers : D!Busy(d) /\ D!Busy(o) /\ D!Pair(d) = D!Pair(o) /\ d # o => D!Pair(d) \in crossed

LEMMA PairOK ==
  ASSUME JobsOK, NEW d \in Deliverers, job[d].pc # "idle"
  PROVE  D!Pair(d) \in D!Pairs
<1>1. job[d].rest \in Seq(D!PluginSet) /\ job[d].rest # <<>> /\ job[d].event \in EventIds
  BY DEF JobsOK, JobTyped
<1>2. Head(job[d].rest) \in D!PluginSet
  BY <1>1
<1> QED
  BY <1>1, <1>2 DEF D!Pair, D!Pairs

\* What follows a plugin is idle or the visit of the next one.
LEMMA NextPluginOK ==
  ASSUME JobsOK, NEW d \in Deliverers, job[d].pc # "idle", job' = D!NextPlugin(d)
  PROVE  /\ JobTyped'
         /\ job'[d].pc \in {"idle", "visit"}
         /\ \A o \in Deliverers \ {d} : job'[o] = job[o]
<1>1. job[d].rest \in Seq(D!PluginSet) /\ job[d].rest # <<>> /\ job[d].event \in EventIds
  BY DEF JobsOK, JobTyped
<1>2. Tail(job[d].rest) \in Seq(D!PluginSet)
  BY <1>1
<1>3. <<>> \in Seq(D!PluginSet)
  OBVIOUS
<1> QED
  BY <1>1, <1>2, <1>3 DEF JobsOK, JobTyped, D!NextPlugin, D!NoJob

LEMMA InitJobsOK ==
  ASSUME D!Init
  PROVE  JobsOK
<1>1. JobTyped
  <2>1. <<>> \in Seq(D!PluginSet)
    OBVIOUS
  <2> QED
    BY <2>1 DEF D!Init, D!NoJob, JobTyped
<1>2. Counts
  BY DEF D!Init, Counts
<1> QED
  BY <1>1, <1>2 DEF JobsOK

\* A step is one of these for one deliverer, or stops a plugin.
LEMMA JobsStep ==
  ASSUME D!OrderOK, JobsOK, [D!Next]_D!vars
  PROVE  JobsOK'
<1>1. ASSUME NEW d \in Deliverers, NEW e \in EventIds, D!Deliver(d, e)
      PROVE  JobsOK'
  BY <1>1 DEF D!Deliver, JobsOK, JobTyped, Counts, D!OrderOK
<1>2. ASSUME NEW d \in Deliverers, job[d].pc # "idle", job' = D!NextPlugin(d)
      PROVE  JobTyped'
  BY <1>2, NextPluginOK
<1>3. ASSUME NEW d \in Deliverers, NEW pc \in {"run", "record"}, job[d].pc # "idle",
             job' = D!Goto(d, pc)
      PROVE  JobTyped'
  BY <1>3 DEF JobsOK, JobTyped, D!Goto
<1>4. ASSUME NEW d \in Deliverers, D!Visit(d)
      PROVE  JobsOK'
  BY <1>2, <1>3, <1>4 DEF D!Visit, JobsOK, Counts
<1>5. ASSUME NEW d \in Deliverers, NEW b \in BOOLEAN, D!RunPlugin(d, b)
      PROVE  JobsOK'
  <2>1. D!Pair(d) \in D!Pairs
    BY <1>5, PairOK DEF D!RunPlugin
  <2>2. Counts'
    BY <1>5, <2>1 DEF D!RunPlugin, JobsOK, Counts
  <2> QED
    BY <1>2, <1>3, <1>5, <2>2 DEF D!RunPlugin, JobsOK
<1>6. ASSUME NEW d \in Deliverers, NEW b \in BOOLEAN, D!Record(d, b)
      PROVE  JobsOK'
  <2>1. D!Pair(d) \in D!Pairs
    BY <1>6, PairOK DEF D!Record
  <2>2. Counts'
    BY <1>6, <2>1 DEF D!Record, JobsOK, Counts
  <2> QED
    BY <1>2, <1>6, <2>2 DEF D!Record, JobsOK
<1>7. ASSUME NEW d \in Deliverers, D!CrashDeliverer(d)
      PROVE  JobsOK'
  <2>1. D!Pair(d) \in D!Pairs
    BY <1>7, PairOK DEF D!CrashDeliverer
  <2>2. Counts'
    BY <1>7, <2>1 DEF D!CrashDeliverer, JobsOK, Counts
  <2>3. <<>> \in Seq(D!PluginSet)
    OBVIOUS
  <2> QED
    BY <1>7, <2>2, <2>3 DEF D!CrashDeliverer, JobsOK, JobTyped, D!NoJob
<1>8. CASE UNCHANGED <<job, ran, cuts, ledger>>
  BY <1>8 DEF JobsOK, JobTyped, Counts
<1> QED
  BY <1>1, <1>4, <1>5, <1>6, <1>7, <1>8 DEF D!Next, D!StopPlugin, D!vars

LEMMA RecordHasRunStep ==
  ASSUME JobsOK, RecordHasRun, [D!Next]_D!vars
  PROVE  RecordHasRun'
<1>1. ASSUME NEW d \in Deliverers, NEW e \in EventIds, D!Deliver(d, e)
      PROVE  RecordHasRun'
  BY <1>1 DEF D!Deliver, JobsOK, JobTyped, Counts, RecordHasRun, D!RecordedHasRun, D!Pair
<1>2. ASSUME NEW d \in Deliverers, job[d].pc # "idle", job' = D!NextPlugin(d),
             D!RecordedHasRun', UNCHANGED ran
      PROVE  RecordHasRun'
  BY <1>2, NextPluginOK DEF RecordHasRun, D!Pair
<1>3. ASSUME NEW d \in Deliverers, D!Visit(d)
      PROVE  RecordHasRun'
  <2>1. CASE job' = D!Goto(d, "run")
    BY <1>3, <2>1 DEF D!Visit, D!Goto, JobsOK, JobTyped, Counts, RecordHasRun, D!RecordedHasRun, D!Pair
  <2>2. CASE job' = D!NextPlugin(d)
    BY <1>2, <1>3, <2>2 DEF D!Visit, RecordHasRun, D!RecordedHasRun
  <2> QED
    BY <1>3, <2>1, <2>2 DEF D!Visit
<1>4. ASSUME NEW d \in Deliverers, NEW b \in BOOLEAN, D!RunPlugin(d, b)
      PROVE  RecordHasRun'
  <2>1. CASE b
    BY <1>2, <1>4, <2>1 DEF D!RunPlugin, RecordHasRun, D!RecordedHasRun
  <2>2. CASE ~b
    <3> DEFINE q == D!Pair(d)
    <3>1. q \in D!Pairs
      BY <1>4, PairOK DEF D!RunPlugin
    <3>a. ran' = [ran EXCEPT ![q] = @ + 1]
      BY <1>4, <2>2 DEF D!RunPlugin
    <3>b. ran \in [D!Pairs -> Nat]
      BY DEF JobsOK, Counts
    <3> HIDE DEF q
    <3>2. \A p \in D!Pairs : ran'[p] >= ran[p] /\ ran[p] \in Nat /\ ran'[p] \in Nat
      BY <3>1, <3>a, <3>b
    <3>3. ran'[q] > 0
      BY <3>1, <3>a, <3>b
    <3>4. \A o \in Deliverers : D!Pair(o)' = D!Pair(o) /\ (o # d => job'[o] = job[o])
      <4>1. job' = [job EXCEPT ![d].pc = "record"]
        BY <1>4, <2>2 DEF D!RunPlugin, D!Goto
      <4>2. \A o \in Deliverers :
              job'[o].event = job[o].event /\ job'[o].rest = job[o].rest /\ (o # d => job'[o] = job[o])
        BY <4>1 DEF JobsOK, JobTyped
      <4> QED
        BY <4>2 DEF D!Pair
    <3>5. D!RecordedHasRun'
      BY <1>4, <3>2 DEF D!RunPlugin, RecordHasRun, D!RecordedHasRun, JobsOK, Counts
    <3>6. ASSUME NEW o \in Deliverers, job'[o].pc = "record"
          PROVE  ran'[D!Pair(o)] > 0
      <4>1. CASE o = d
        BY <3>3, <4>1 DEF q
      <4>2. CASE o # d
        <5>1. job[o].pc = "record" /\ D!Pair(o) \in D!Pairs
          BY <3>4, <3>6, <4>2, PairOK
        <5> QED
          BY <3>2, <5>1 DEF RecordHasRun
      <4> QED
        BY <4>1, <4>2
    <3> QED
      BY <3>4, <3>5, <3>6 DEF RecordHasRun
  <2> QED
    BY <2>1, <2>2
<1>5. ASSUME NEW d \in Deliverers, NEW b \in BOOLEAN, D!Record(d, b)
      PROVE  RecordHasRun'
  BY <1>2, <1>5 DEF D!Record, RecordHasRun, D!RecordedHasRun
<1>6. ASSUME NEW d \in Deliverers, D!CrashDeliverer(d)
      PROVE  RecordHasRun'
  BY <1>6 DEF D!CrashDeliverer, JobsOK, JobTyped, Counts, D!NoJob, RecordHasRun, D!RecordedHasRun, D!Pair
<1>7. CASE UNCHANGED <<job, ran, ledger>>
  BY <1>7 DEF RecordHasRun, D!RecordedHasRun, D!Pair
<1> QED
  BY <1>1, <1>3, <1>4, <1>5, <1>6, <1>7 DEF D!Next, D!StopPlugin, D!vars

\* The moves of a job: one deliverer's changes, and how.
LEMMA Moves ==
  ASSUME JobsOK, NEW d \in Deliverers, NEW pc \in {"run", "record"},
         job[d].pc # "idle", job' = D!Goto(d, pc) \/ job' = D!NextPlugin(d)
  PROVE  /\ \A o \in Deliverers \ {d} : job'[o] = job[o] /\ D!Pair(o)' = D!Pair(o)
         /\ job' = D!Goto(d, pc) => job'[d].pc = pc /\ D!Pair(d)' = D!Pair(d)
         /\ job' = D!NextPlugin(d) => ~D!Busy(d)' /\ job'[d].pc \in {"idle", "visit"}
<1>1. CASE job' = D!NextPlugin(d)
  <2>1. D!Goto(d, pc) # D!NextPlugin(d)
    <3>1. D!Goto(d, pc)[d].pc = pc
      BY DEF D!Goto, JobsOK, JobTyped
    <3>2. job'[d].pc \in {"idle", "visit"}
      BY <1>1, NextPluginOK
    <3> QED
      BY <1>1, <3>1, <3>2
  <2> QED
    BY <1>1, <2>1, NextPluginOK DEF D!Busy, D!Pair
<1>2. CASE job' = D!Goto(d, pc) /\ job' # D!NextPlugin(d)
  <2>1. job' = [job EXCEPT ![d].pc = pc]
    BY <1>2 DEF D!Goto
  <2>2. \A o \in Deliverers :
          job'[o].event = job[o].event /\ job'[o].rest = job[o].rest /\ (o # d => job'[o] = job[o])
    BY <2>1 DEF JobsOK, JobTyped
  <2>3. job'[d].pc = pc
    BY <2>1 DEF JobsOK, JobTyped
  <2> QED
    BY <1>2, <2>2, <2>3 DEF D!Pair
<1> QED
  BY <1>1, <1>2

\* Who is busy with a pair beside another has crossed it.
LEMMA CrossingStep ==
  ASSUME JobsOK, Crossing, [D!Next]_D!vars
  PROVE  Crossing'
<1>1. ASSUME NEW d \in Deliverers, NEW e \in EventIds, D!Deliver(d, e)
      PROVE  Crossing'
  <2>1. job'[d].pc = "visit" /\ crossed' = crossed /\ \A o \in Deliverers \ {d} : job'[o] = job[o]
    BY <1>1 DEF D!Deliver, JobsOK, JobTyped
  <2> QED
    BY <2>1 DEF Crossing, D!Busy, D!Pair
<1>2. ASSUME NEW d \in Deliverers, D!Visit(d)
      PROVE  Crossing'
  <2>1. CASE job' = D!Goto(d, "run")
    <3>1. /\ \A o \in Deliverers : D!Pair(o)' = D!Pair(o)
          /\ \A o \in Deliverers \ {d} : job'[o] = job[o]
      BY <1>2, <2>1, Moves DEF D!Visit
    <3>2. crossed \subseteq crossed'
      BY <1>2 DEF D!Visit
    <3>3. ASSUME NEW o \in Deliverers \ {d}, D!Busy(o), D!Pair(o) = D!Pair(d)
          PROVE  D!Pair(d) \in crossed'
      BY <1>2, <3>3 DEF D!Visit
    <3> QED
      BY <3>1, <3>2, <3>3 DEF Crossing, D!Busy
  <2>2. CASE job' = D!NextPlugin(d)
    <3>1. ~D!Busy(d)' /\ \A o \in Deliverers \ {d} : job'[o] = job[o] /\ D!Pair(o)' = D!Pair(o)
      BY <1>2, <2>2, Moves DEF D!Visit
    <3>2. crossed \subseteq crossed'
      BY <1>2 DEF D!Visit
    <3> QED
      BY <3>1, <3>2 DEF Crossing, D!Busy
  <2> QED
    BY <1>2, <2>1, <2>2 DEF D!Visit
<1>3. ASSUME NEW d \in Deliverers, job[d].pc # "idle", job' = D!NextPlugin(d) \/ job' = [job EXCEPT ![d] = D!NoJob],
             UNCHANGED crossed
      PROVE  Crossing'
  <2>1. ~D!Busy(d)' /\ \A o \in Deliverers \ {d} : job'[o] = job[o]
    <3>1. CASE job' = D!NextPlugin(d)
      BY <1>3, <3>1, NextPluginOK DEF D!Busy
    <3>2. CASE job' = [job EXCEPT ![d] = D!NoJob]
      BY <3>2 DEF D!Busy, D!NoJob, JobsOK, JobTyped
    <3> QED
      BY <1>3, <3>1, <3>2
  <2> QED
    BY <1>3, <2>1 DEF Crossing, D!Busy, D!Pair
<1>4. ASSUME NEW d \in Deliverers, NEW b \in BOOLEAN, D!RunPlugin(d, b)
      PROVE  Crossing'
  <2>1. CASE b
    BY <1>3, <1>4, <2>1 DEF D!RunPlugin
  <2>2. CASE ~b
    <3>1. /\ job[d].pc = "run" /\ job'[d].pc = "record"
          /\ \A o \in Deliverers : D!Pair(o)' = D!Pair(o)
          /\ \A o \in Deliverers \ {d} : job'[o] = job[o]
      BY <1>4, <2>2, Moves DEF D!RunPlugin
    <3>2. crossed' = crossed /\ \A o \in Deliverers : D!Busy(o)' = D!Busy(o)
      BY <1>4, <3>1 DEF D!RunPlugin, D!Busy
    <3> QED
      BY <3>1, <3>2 DEF Crossing
  <2> QED
    BY <2>1, <2>2
<1>5. ASSUME NEW d \in Deliverers, D!CrashDeliverer(d) \/ D!Record(d, TRUE) \/ D!Record(d, FALSE)
      PROVE  Crossing'
  BY <1>3, <1>5 DEF D!CrashDeliverer, D!Record
<1>6. CASE UNCHANGED <<job, crossed>>
  BY <1>6 DEF Crossing, D!Busy, D!Pair
<1> QED
  BY <1>1, <1>2, <1>4, <1>5, <1>6 DEF D!Next, D!StopPlugin, D!vars

\* The accounts of a pair that is not crossed: about to run, or neither recorded nor about
\* to be, it has not run but for the cuts.
AccountOf(p) ==
  /\ ran[p] <= 1 + cuts[p]
  /\ \A d \in Deliverers : job[d].pc = "run" /\ D!Pair(d) = p => ran[p] <= cuts[p]
  /\ p \notin ledger /\ (\A d \in Deliverers : job[d].pc = "record" => D!Pair(d) # p)
       => ran[p] <= cuts[p]

LEMMA AccountStep ==
  ASSUME JobsOK, Crossing, [D!Next]_D!vars, NEW p \in D!Pairs, p \notin crossed', AccountOf(p)
  PROVE  AccountOf(p)'
<1> USE DEF AccountOf
<1>0. ran[p] \in Nat /\ cuts[p] \in Nat
  BY DEF JobsOK, Counts
<1>1. ASSUME NEW d \in Deliverers, NEW e \in EventIds, D!Deliver(d, e)
      PROVE  AccountOf(p)'
  <2>1. /\ job[d].pc = "idle" /\ job'[d].pc = "visit" /\ UNCHANGED <<ledger, ran, cuts>>
        /\ \A o \in Deliverers \ {d} : job'[o] = job[o]
    BY <1>1 DEF D!Deliver, JobsOK, JobTyped
  <2> QED
    BY <2>1 DEF D!Pair
<1>2. ASSUME NEW d \in Deliverers, D!Visit(d)
      PROVE  AccountOf(p)'
  <2>1. UNCHANGED <<ledger, ran, cuts>> /\ job[d].pc = "visit"
    BY <1>2 DEF D!Visit
  <2>2. CASE job' = D!Goto(d, "run") /\ D!Pair(d) \notin ledger
    <3>1. /\ \A o \in Deliverers : D!Pair(o)' = D!Pair(o)
          /\ \A o \in Deliverers \ {d} : job'[o] = job[o]
          /\ job'[d].pc = "run"
      BY <2>1, <2>2, Moves
    <3>2. CASE D!Pair(d) = p
      <4>1. \A o \in Deliverers : D!Busy(o) => D!Pair(o) # p
        BY <1>2, <2>1, <3>2 DEF D!Visit, D!Busy
      <4>2. ran[p] <= cuts[p]
        BY <2>2, <3>2, <4>1 DEF D!Busy
      <4> QED
        BY <1>0, <2>1, <4>2
    <3>3. CASE D!Pair(d) # p
      BY <2>1, <3>1, <3>3
    <3> QED
      BY <3>2, <3>3
  <2>3. CASE job' = D!NextPlugin(d)
    <3>1. /\ \A o \in Deliverers \ {d} : job'[o] = job[o] /\ D!Pair(o)' = D!Pair(o)
          /\ job'[d].pc \in {"idle", "visit"}
      BY <2>1, <2>3, Moves
    <3> QED
      BY <2>1, <3>1
  <2> QED
    BY <1>2, <2>2, <2>3 DEF D!Visit
<1>3. ASSUME NEW d \in Deliverers, NEW b \in BOOLEAN, D!RunPlugin(d, b)
      PROVE  AccountOf(p)'
  <2>1. job[d].pc = "run" /\ UNCHANGED <<ledger, cuts, crossed>>
    BY <1>3 DEF D!RunPlugin
  <2>2. CASE b
    <3>1. /\ \A o \in Deliverers \ {d} : job'[o] = job[o] /\ D!Pair(o)' = D!Pair(o)
          /\ job'[d].pc \in {"idle", "visit"} /\ ran' = ran
      BY <1>3, <2>1, <2>2, Moves DEF D!RunPlugin
    <3> QED
      BY <2>1, <3>1
  <2>3. CASE ~b
    <3>1. /\ \A o \in Deliverers : D!Pair(o)' = D!Pair(o)
          /\ \A o \in Deliverers \ {d} : job'[o] = job[o]
          /\ job'[d].pc = "record"
      BY <1>3, <2>1, <2>3, Moves DEF D!RunPlugin
    <3> DEFINE q == D!Pair(d)
    <3>2. ran' = [ran EXCEPT ![q] = @ + 1] /\ ran \in [D!Pairs -> Nat]
      BY <1>3, <2>3 DEF D!RunPlugin, JobsOK, Counts
    <3> HIDE DEF q
    <3>3. CASE q = p
      <4>1. ran[p] <= cuts[p]
        BY <2>1, <3>3 DEF q
      <4>2. ran'[p] <= 1 + cuts'[p]
        BY <1>0, <2>1, <3>2, <3>3, <4>1
      <4>3. \A o \in Deliverers \ {d} : D!Busy(o) => D!Pair(o) # p
        BY <2>1, <3>3 DEF q, Crossing, D!Busy
      <4> QED
        BY <2>1, <3>1, <3>3, <4>2, <4>3 DEF q, D!Busy
    <3>4. CASE q # p
      <4>1. ran'[p] = ran[p]
        BY <3>2, <3>4
      <4> QED
        BY <2>1, <3>1, <3>4, <4>1 DEF q
    <3> QED
      BY <3>3, <3>4
  <2> QED
    BY <2>2, <2>3
<1>4. ASSUME NEW d \in Deliverers, NEW b \in BOOLEAN, D!Record(d, b)
      PROVE  AccountOf(p)'
  <2>1. /\ \A o \in Deliverers \ {d} : job'[o] = job[o] /\ D!Pair(o)' = D!Pair(o)
        /\ job'[d].pc \in {"idle", "visit"} /\ UNCHANGED <<ran, crossed>> /\ job[d].pc = "record"
    BY <1>4, Moves DEF D!Record
  <2> DEFINE q == D!Pair(d)
  <2>2. /\ ledger' = IF b THEN ledger ELSE ledger \cup {q}
        /\ cuts' = IF b THEN [cuts EXCEPT ![q] = @ + 1] ELSE cuts
        /\ cuts \in [D!Pairs -> Nat]
    BY <1>4 DEF D!Record, JobsOK, Counts
  <2>3. q = p => \A o \in Deliverers \ {d} : D!Busy(o) => D!Pair(o) # p
    BY <2>1 DEF Crossing, D!Busy
  <2>4. q # p => \A o \in Deliverers : job[o].pc = "record" /\ D!Pair(o) = p => o # d
    OBVIOUS
  <2> HIDE DEF q
  <2>5. cuts'[p] = IF b /\ q = p THEN cuts[p] + 1 ELSE cuts[p]
    BY <2>2
  <2>6. p \in ledger' <=> p \in ledger \/ (~b /\ q = p)
    BY <2>2
  <2>7. CASE q = p
    <3>1. ran'[p] <= 1 + cuts'[p]
      BY <1>0, <2>1, <2>5
    <3>2. \A o \in Deliverers : job'[o].pc = "run" => D!Pair(o)' # p
      BY <2>1, <2>3, <2>7 DEF D!Busy
    <3>3. p \notin ledger' => ran'[p] <= cuts'[p]
      BY <1>0, <2>1, <2>5, <2>6, <2>7
    <3> QED
      BY <3>1, <3>2, <3>3
  <2>8. CASE q # p
    <3>1. ran'[p] = ran[p] /\ cuts'[p] = cuts[p] /\ (p \in ledger' <=> p \in ledger)
      BY <2>1, <2>5, <2>6, <2>8
    <3> QED
      BY <2>1, <2>4, <2>8, <3>1
  <2> QED
    BY <2>7, <2>8
<1>5. ASSUME NEW d \in Deliverers, D!CrashDeliverer(d)
      PROVE  AccountOf(p)'
  <2>1. /\ \A o \in Deliverers \ {d} : job'[o] = job[o] /\ D!Pair(o)' = D!Pair(o)
        /\ job'[d].pc = "idle" /\ UNCHANGED <<ran, crossed, ledger>>
    BY <1>5 DEF D!CrashDeliverer, D!NoJob, JobsOK, JobTyped, D!Pair
  <2> DEFINE q == D!Pair(d)
  <2>2. /\ cuts' = IF job[d].pc = "record" THEN [cuts EXCEPT ![q] = @ + 1] ELSE cuts
        /\ cuts \in [D!Pairs -> Nat]
    BY <1>5 DEF D!CrashDeliverer, JobsOK, Counts
  <2>3. job[d].pc # "record" \/ q # p =>
          \A o \in Deliverers : job[o].pc = "record" /\ D!Pair(o) = p => o # d
    OBVIOUS
  <2> HIDE DEF q
  <2>4. cuts'[p] = IF job[d].pc = "record" /\ q = p THEN cuts[p] + 1 ELSE cuts[p]
    BY <2>2
  <2>5. CASE job[d].pc = "record" /\ q = p
    <3>1. ran'[p] <= cuts'[p]
      BY <1>0, <2>1, <2>4, <2>5
    <3>2. cuts'[p] \in Nat /\ ran'[p] \in Nat
      BY <1>0, <2>1, <2>4
    <3> QED
      BY <3>1, <3>2
  <2>6. CASE ~(job[d].pc = "record" /\ q = p)
    <3>1. cuts'[p] = cuts[p]
      BY <2>4, <2>6
    <3> QED
      BY <2>1, <2>3, <2>6, <3>1
  <2> QED
    BY <2>5, <2>6
<1>6. CASE UNCHANGED <<job, ran, cuts, ledger>>
  BY <1>6 DEF D!Pair
<1> QED
  BY <1>1, <1>2, <1>3, <1>4, <1>5, <1>6 DEF D!Next, D!StopPlugin, D!vars

\* What is known of the deliveries.
AllAccounts == \A p \in D!Pairs \ crossed : AccountOf(p)
DeliveryInv == JobsOK /\ RecordHasRun /\ Crossing /\ AllAccounts

LEMMA DeliveryInit == D!Init => DeliveryInv
<1> SUFFICES ASSUME D!Init PROVE DeliveryInv
  OBVIOUS
<1>1. ledger = {} /\ \A d \in Deliverers : job[d].pc = "idle"
  BY DEF D!Init, D!NoJob
<1>2. \A p \in D!Pairs : ran[p] = 0 /\ cuts[p] = 0
  BY DEF D!Init
<1>3. ASSUME NEW p \in D!Pairs PROVE AccountOf(p)
  BY <1>1, <1>2 DEF AccountOf
<1>4. RecordHasRun
  BY <1>1 DEF RecordHasRun, D!RecordedHasRun
<1> QED
  BY <1>1, <1>3, <1>4, InitJobsOK DEF DeliveryInv, Crossing, AllAccounts, D!Busy

LEMMA DeliveryStep == D!OrderOK /\ DeliveryInv /\ [D!Next]_D!vars => DeliveryInv'
<1> SUFFICES ASSUME D!OrderOK, DeliveryInv, [D!Next]_D!vars PROVE DeliveryInv'
  OBVIOUS
<1> USE DEF DeliveryInv
<1>1. crossed \subseteq crossed'
  BY DEF D!Next, D!Deliver, D!Visit, D!RunPlugin, D!Record, D!CrashDeliverer, D!StopPlugin, D!vars
<1>2. D!Pairs' = D!Pairs
  BY DEF D!Pairs
<1>3. AllAccounts'
  BY <1>1, <1>2, AccountStep DEF AllAccounts
<1> QED
  BY <1>3, JobsStep, RecordHasRunStep, CrossingStep

\* What is suppressed was handled, for every interleaving, crash and fault.
THEOREM RecordedHasRunHolds == D!OrderOK /\ D!Spec => []D!RecordedHasRun
<1>1. DeliveryInv => D!RecordedHasRun
  BY DEF DeliveryInv, RecordHasRun
<1>2. SUFFICES ASSUME D!OrderOK PROVE D!Spec => []D!RecordedHasRun
  OBVIOUS
<1> QED
  BY <1>1, <1>2, DeliveryInit, DeliveryStep, PTL DEF D!Spec

\* At most one run per event and plugin, but for the cuts, of what was not crossed.
THEOREM RunsAreAccountedHolds == D!OrderOK /\ D!Spec => []D!RunsAreAccounted
<1>1. DeliveryInv => D!RunsAreAccounted
  BY DEF DeliveryInv, AllAccounts, AccountOf, D!RunsAreAccounted
<1>2. SUFFICES ASSUME D!OrderOK PROVE D!Spec => []D!RunsAreAccounted
  OBVIOUS
<1> QED
  BY <1>1, <1>2, DeliveryInit, DeliveryStep, PTL DEF D!Spec

(***************************************************************************)
(* The executor, for any number of starts.                                 *)
(***************************************************************************)

\* Threads and targets, and what a start must find: unless a join gave up, only the newest sandbox
\* thread is alive, it has its target in view, and an executor that is not running has none.
ExecutorTyped ==
  /\ generation \in Nat /\ isRunning \in BOOLEAN /\ gaveUp \in BOOLEAN
  /\ sandbox \in [X!Generations -> {"new", "watch", "join", "gone"}]
  /\ target \in [X!Generations -> {"none", "runs", "done"}]
  /\ isRunning => stopping = "no"
TargetIsWatched == \A g \in X!Generations : target[g] = "runs" => sandbox[g] \in {"watch", "join"}
AtRestIsGone == stopping = "no" /\ ~isRunning => \A g \in X!Generations : sandbox[g] = "gone"
ExecutorInv == ExecutorTyped /\ (~gaveUp => TargetIsWatched /\ AtRestIsGone) /\ X!NoOldWatchdog

LEMMA ExecutorInit == X!Init => ExecutorInv
<1> SUFFICES ASSUME X!Init PROVE ExecutorInv
  OBVIOUS
<1>1. /\ generation = 0 /\ isRunning = FALSE /\ gaveUp = FALSE /\ \A g \in X!Generations : sandbox[g] = "gone" /\ target[g] = "none"
  BY DEF X!Init
<1>2. ExecutorTyped
  BY DEF X!Init, ExecutorTyped
<1> QED
  BY <1>1, <1>2 DEF ExecutorInv, TargetIsWatched, AtRestIsGone, X!NoOldWatchdog

LEMMA ExecutorStep == ExecutorInv /\ [X!Next]_X!vars => ExecutorInv'
<1> SUFFICES ASSUME ExecutorInv, [X!Next]_X!vars PROVE ExecutorInv'
  OBVIOUS
<1> USE DEF ExecutorInv, ExecutorTyped, TargetIsWatched, AtRestIsGone, X!NoOldWatchdog
<1> QED
  <2>1. CASE X!Start
    <3>1. /\ generation' = generation + 1 /\ gaveUp' = gaveUp /\ target' = target /\ isRunning' = TRUE
          /\ sandbox' = [sandbox EXCEPT ![generation + 1] = "new"] /\ stopping' = "no"
      BY <2>1 DEF X!Start
    <3>2. ~gaveUp => \A g \in X!Generations : sandbox[g] = "gone" /\ target[g] # "runs"
      BY <2>1 DEF X!Start
    <3>3. sandbox' \in [X!Generations -> {"new", "watch", "join", "gone"}]
      BY <3>1
    <3>6. generation' \in Nat /\ target' \in [X!Generations -> {"none", "runs", "done"}]
      BY <3>1
    <3>7. isRunning' \in BOOLEAN /\ gaveUp' \in BOOLEAN
      BY <3>1
    <3>5. ExecutorTyped'
      BY <3>1, <3>3, <3>6, <3>7
    <3>4. \A g \in X!Generations : g # generation' => sandbox'[g] = sandbox[g]
      BY <3>1
    <3> QED
      BY <3>1, <3>2, <3>4, <3>5
  <2>2. CASE X!StopBegins
    BY <2>2 DEF X!StopBegins
  <2>3. ASSUME NEW b \in BOOLEAN, X!StopSignals(b) PROVE ExecutorInv'
    BY <2>3 DEF X!StopSignals
  <2>4. ASSUME NEW b \in BOOLEAN, X!StopEnds(b) PROVE ExecutorInv'
    <3>1. /\ (gaveUp' <=> gaveUp \/ b) /\ (b \/ sandbox[generation] = "gone") /\ gaveUp' \in BOOLEAN
          /\ stopping' = "no" /\ UNCHANGED <<isRunning, generation, sandbox, target>>
      BY <2>4 DEF X!StopEnds
    <3>2. ~gaveUp' => ~gaveUp /\ \A g \in X!Generations : sandbox[g] = "gone"
      BY <3>1
    <3> QED
      BY <3>1, <3>2
  <2>5. ASSUME NEW g \in X!Generations, X!WatchEnds(g) PROVE ExecutorInv'
    BY <2>5 DEF X!WatchEnds
  <2>6. ASSUME NEW g \in X!Generations, X!Beat(g) PROVE ExecutorInv'
    <3>1. /\ UNCHANGED <<generation, sandbox, target, stopping, gaveUp>>
          /\ isRunning' = isRunning \/ (isRunning' = FALSE /\ sandbox[generation] = "gone")
      BY <2>6 DEF X!Beat
    <3>2. CASE isRunning' = isRunning
      BY <3>1, <3>2
    <3>3. CASE isRunning' = FALSE /\ sandbox[generation] = "gone"
      BY <3>1, <3>3
    <3> QED
      BY <3>1, <3>2, <3>3
  <2>7. ASSUME NEW g \in X!Generations, NEW b \in BOOLEAN, X!SandboxBegins(g, b) PROVE ExecutorInv'
    BY <2>7 DEF X!SandboxBegins
  <2>8. ASSUME NEW g \in X!Generations, NEW b \in BOOLEAN, X!TargetEnds(g, b) PROVE ExecutorInv'
    BY <2>8 DEF X!TargetEnds
  <2>9. ASSUME NEW g \in X!Generations, NEW b \in BOOLEAN, X!WatchStops(g, b) PROVE ExecutorInv'
    BY <2>9 DEF X!WatchStops
  <2>10. ASSUME NEW g \in X!Generations, NEW b \in BOOLEAN, X!WatchLeaves(g, b) PROVE ExecutorInv'
    BY <2>10 DEF X!WatchLeaves
  <2>11. CASE UNCHANGED X!vars
    BY <2>11 DEF X!vars
  <2> QED
    BY <2>1, <2>2, <2>3, <2>4, <2>5, <2>6, <2>7, <2>8, <2>9, <2>10, <2>11 DEF X!Next

LEMMA ExecutorSafe == ExecutorInv => X!OneTargetRuns /\ X!NoOldWatchdog
BY DEF ExecutorInv, ExecutorTyped, TargetIsWatched, AtRestIsGone, X!NoOldWatchdog, X!OneTargetRuns

(***************************************************************************)
(* The manager, for any plugins, instances and calls of startup_all.       *)
(***************************************************************************)

Entries == [id : ManagedPlugins, status : A!States, inst : Nat]
ManagerTyped ==
  /\ registry \in Seq(Entries) /\ toStart \in Seq(Entries) /\ cell \in Seq(Nat) /\ instances \in Nat
  /\ starting \subseteq [call : Nat, inst : Nat] /\ onStart \subseteq [call : Nat, inst : Nat, called : Nat]
  /\ \A k \in DOMAIN registry : registry[k].inst \in 1 .. instances
  /\ \A k \in DOMAIN toStart : toStart[k].inst \in 1 .. instances
  /\ \A k \in DOMAIN cell : cell[k] <= instances
\* What a startup_all has still to visit it has not started a thread for.
LoopIsFresh ==
  toStart # <<>> =>
    /\ Len(cell) >= 1
    /\ \A j, k \in DOMAIN toStart : toStart[j].inst = toStart[k].inst => j = k
    /\ \A k \in DOMAIN toStart : \A t \in starting \cup onStart : t.call = Len(cell) => t.inst # toStart[k].inst
ThreadsKnown ==
  /\ \A t \in starting \cup onStart : t.call \in DOMAIN cell /\ cell[t.call] >= 1
  /\ \A t \in starting, c \in onStart : t.call = c.call => t.inst # c.inst
ManagerInv == ManagerTyped /\ LoopIsFresh /\ ThreadsKnown /\ A!OneEntryPerId /\ A!StartsAreCalls /\ A!RunningIsExecuted

LEMMA SameLength ==
  ASSUME NEW S, NEW T, NEW s \in Seq(S), NEW t \in [DOMAIN s -> T]
  PROVE  t \in Seq(T) /\ Len(t) = Len(s) /\ DOMAIN t = DOMAIN s
OBVIOUS

LEMMA ManagerInit == A!Init => ManagerInv
BY DEF A!Init, ManagerInv, ManagerTyped, LoopIsFresh, ThreadsKnown, A!OneEntryPerId, A!StartsAreCalls, A!RunningIsExecuted, A!Range, A!Free

\* An entry that is added takes its id's place or the last.
LEMMA AddedOK ==
  ASSUME ManagerTyped, A!OneEntryPerId, NEW id \in ManagedPlugins, NEW s \in A!States,
         NEW e, e = [id |-> id, status |-> s, inst |-> instances + 1]
  PROVE  /\ A!Added(e) \in Seq(Entries)
         /\ \A k \in DOMAIN A!Added(e) :
              A!Added(e)[k] = e \/ \E j \in DOMAIN registry : A!Added(e)[k] = registry[j]
         /\ \A k \in DOMAIN A!Added(e) : A!Added(e)[k].inst \in 1 .. instances + 1
         /\ \A j, k \in DOMAIN A!Added(e) :
              (A!Added(e)[j].id = A!Added(e)[k].id \/ A!Added(e)[j].inst = A!Added(e)[k].inst) => j = k
<1>1. e \in Entries /\ e.id = id /\ e.inst = instances + 1 /\ instances \in Nat
  BY DEF Entries, ManagerTyped
<1>2. \A k \in DOMAIN registry : registry[k] \in Entries /\ registry[k].inst \in 1 .. instances
  BY DEF ManagerTyped
<1>3. CASE id \in A!Ids
  <2>1. A!Added(e) = [k \in DOMAIN registry |-> IF registry[k].id = id THEN e ELSE registry[k]]
    BY <1>1, <1>3 DEF A!Added
  <2>2. A!Added(e) \in [DOMAIN registry -> Entries]
    BY <1>1, <1>2, <2>1
  <2>3. A!Added(e) \in Seq(Entries) /\ DOMAIN A!Added(e) = DOMAIN registry
    BY <2>2, SameLength DEF ManagerTyped
  <2> DEFINE new == A!Added(e)
  <2>4. \A k \in DOMAIN registry : new[k] = IF registry[k].id = id THEN e ELSE registry[k]
    BY <2>1
  <2> HIDE DEF new
  <2>5. \A k \in DOMAIN registry : new[k].id = registry[k].id
    BY <1>1, <2>4
  <2>6. ASSUME NEW j \in DOMAIN registry, NEW k \in DOMAIN registry, new[j].id = new[k].id \/ new[j].inst = new[k].inst
        PROVE  j = k
    BY <1>1, <1>2, <2>4, <2>5, <2>6 DEF A!OneEntryPerId
  <2>7. \A k \in DOMAIN registry : new[k].inst \in 1 .. instances + 1
    BY <1>1, <1>2, <2>4
  <2> QED
    BY <2>3, <2>4, <2>6, <2>7 DEF new
<1>4. CASE id \notin A!Ids
  <2>1. A!Added(e) = Append(registry, e)
    BY <1>1, <1>4 DEF A!Added
  <2>2. \A k \in DOMAIN registry : registry[k].id # id
    BY <1>4 DEF A!Ids, A!Range
  <2>3. registry \in Seq(Entries)
    BY DEF ManagerTyped
  <2> DEFINE new == A!Added(e)
  <2>4. new \in Seq(Entries) /\ Len(new) = Len(registry) + 1
    BY <1>1, <2>1, <2>3
  <2>5. \A k \in DOMAIN new : IF k = Len(registry) + 1 THEN new[k] = e ELSE k \in DOMAIN registry /\ new[k] = registry[k]
    BY <1>1, <2>1, <2>3
  <2> HIDE DEF new
  <2>6. ASSUME NEW j \in DOMAIN new, NEW k \in DOMAIN new, new[j].id = new[k].id \/ new[j].inst = new[k].inst
        PROVE  j = k
    BY <1>1, <1>2, <2>2, <2>5, <2>6 DEF A!OneEntryPerId
  <2>7. \A k \in DOMAIN new : new[k].inst \in 1 .. instances + 1
    BY <1>1, <1>2, <2>5
  <2> QED
    BY <2>4, <2>5, <2>6, <2>7 DEF new
<1> QED
  BY <1>3, <1>4

\* The entries whose status changes stay who they are.
LEMMA UpdatedOK ==
  ASSUME ManagerTyped, NEW id, NEW s \in A!States
  PROVE  /\ A!Updated(id, s) \in Seq(Entries) /\ DOMAIN A!Updated(id, s) = DOMAIN registry
         /\ \A k \in DOMAIN registry :
              /\ A!Updated(id, s)[k].id = registry[k].id /\ A!Updated(id, s)[k].inst = registry[k].inst
              /\ A!Updated(id, s)[k].status = IF registry[k].id = id THEN s ELSE registry[k].status
<1>1. registry \in Seq(Entries) /\ \A k \in DOMAIN registry : registry[k] \in Entries
  BY DEF ManagerTyped
<1>2. \A k \in DOMAIN registry : [registry[k] EXCEPT !.status = s] \in Entries
  BY <1>1 DEF Entries
<1>3. A!Updated(id, s) \in [DOMAIN registry -> Entries]
  BY <1>1, <1>2 DEF A!Updated
<1>4. A!Updated(id, s) \in Seq(Entries) /\ DOMAIN A!Updated(id, s) = DOMAIN registry
  BY <1>1, <1>3, SameLength
<1> QED
  BY <1>1, <1>4 DEF A!Updated, Entries

\* What is left of the registry keeps its order.
LEMMA RemovedOK ==
  ASSUME ManagerTyped, NEW id \in A!Ids
  PROVE  /\ A!Removed(id) \in Seq(Entries)
         /\ \A k \in DOMAIN A!Removed(id) :
              \E j \in DOMAIN registry : A!Removed(id)[k] = registry[j]
         /\ A!OneEntryPerId => \A j, k \in DOMAIN A!Removed(id) :
              (A!Removed(id)[j].id = A!Removed(id)[k].id \/ A!Removed(id)[j].inst = A!Removed(id)[k].inst) => j = k
<1> DEFINE at == CHOOSE k \in DOMAIN registry : registry[k].id = id
           From(k) == IF k < at THEN k ELSE k + 1
<1>1. registry \in Seq(Entries) /\ at \in DOMAIN registry
  BY DEF ManagerTyped, A!Ids, A!Range
<1>2. at \in Nat /\ Len(registry) \in Nat /\ DOMAIN registry = 1 .. Len(registry) /\ Len(registry) >= 1
  BY <1>1
<1>3. A!Removed(id) = [k \in 1 .. Len(registry) - 1 |-> registry[From(k)]]
  BY DEF A!Removed
<1> HIDE DEF at
<1>4. \A k \in 1 .. Len(registry) - 1 : From(k) \in DOMAIN registry
  BY <1>2
<1>5. \A j, k \in 1 .. Len(registry) - 1 : From(j) = From(k) => j = k
  BY <1>2
<1>6. A!Removed(id) \in [1 .. Len(registry) - 1 -> Entries]
  BY <1>1, <1>3, <1>4
<1>7. A!Removed(id) \in Seq(Entries) /\ DOMAIN A!Removed(id) = 1 .. Len(registry) - 1
  BY <1>2, <1>6
<1>8. \A k \in DOMAIN A!Removed(id) : A!Removed(id)[k] = registry[From(k)]
  BY <1>3, <1>7
<1> HIDE DEF From
<1> QED
  BY <1>4, <1>5, <1>7, <1>8 DEF A!OneEntryPerId

\* Registry and counter change, nothing else: what is known of the threads stays.
LEMMA RegistryMoves ==
  ASSUME ManagerInv, A!Free, registry' \in Seq(Entries), instances' \in Nat, instances' >= instances,
         \A k \in DOMAIN registry' : registry'[k].inst \in 1 .. instances',
         A!OneEntryPerId', A!RunningIsExecuted', UNCHANGED <<cell, toStart, starting, onStart>>
  PROVE  ManagerInv'
<1>1. ManagerTyped'
  <2>1. \A k \in DOMAIN toStart : toStart[k].inst \in 1 .. instances'
    BY DEF ManagerInv, ManagerTyped, Entries
  <2>2. \A k \in DOMAIN cell : cell[k] <= instances'
    BY DEF ManagerInv, ManagerTyped
  <2> QED
    BY <2>1, <2>2 DEF ManagerInv, ManagerTyped
<1>2. A!StartsAreCalls'
  <2>1. \A c \in onStart : c.called >= 1 /\ c.called <= instances'
    BY DEF ManagerInv, ManagerTyped, A!StartsAreCalls
  <2> QED
    BY <2>1 DEF ManagerInv, A!StartsAreCalls, A!Free
<1> QED
  BY <1>1, <1>2 DEF ManagerInv, LoopIsFresh, ThreadsKnown

LEMMA ManagerStep == ManagerInv /\ [A!Next]_A!vars => ManagerInv'
<1> SUFFICES ASSUME ManagerInv, [A!Next]_A!vars PROVE ManagerInv'
  OBVIOUS
<1>1. ManagerTyped /\ instances \in Nat
  BY DEF ManagerInv, ManagerTyped
<1>2. ASSUME NEW id \in ManagedPlugins, NEW s \in A!States, registry' = A!Added([id |-> id, status |-> s, inst |-> instances + 1]),
             instances' = instances + 1, A!Free, UNCHANGED <<cell, toStart, starting, onStart>>, executors' = executors,
             \/ s # "RUNNING" /\ reloaded' = reloaded
             \/ reloaded' = reloaded \cup {instances + 1}
      PROVE  ManagerInv'
  <2> DEFINE e == [id |-> id, status |-> s, inst |-> instances + 1]
  <2>1. /\ registry' \in Seq(Entries) /\ \A k \in DOMAIN registry' : registry'[k].inst \in 1 .. instances'
        /\ A!OneEntryPerId' /\ \A k \in DOMAIN registry' : registry'[k] = e \/ \E j \in DOMAIN registry : registry'[k] = registry[j]
    BY <1>1, <1>2, AddedOK DEF ManagerInv, A!OneEntryPerId
  <2>2. A!RunningIsExecuted'
    <3> SUFFICES ASSUME NEW k \in DOMAIN registry', registry'[k].status = "RUNNING"
                 PROVE  registry'[k].id \in executors' \/ registry'[k].inst \in reloaded'
      BY DEF A!RunningIsExecuted, A!Range
    <3>1. CASE registry'[k] = e
      BY <1>2, <3>1
    <3>2. ASSUME NEW j \in DOMAIN registry, registry'[k] = registry[j] PROVE registry'[k].id \in executors' \/ registry'[k].inst \in reloaded'
      BY <1>2, <3>2 DEF ManagerInv, A!RunningIsExecuted, A!Range
    <3> QED
      BY <2>1, <3>1, <3>2
  <2> QED
    BY <1>1, <1>2, <2>1, <2>2, RegistryMoves
<1>3. ASSUME NEW id \in ManagedPlugins, NEW b \in BOOLEAN, A!Load(id, b) PROVE ManagerInv'
  BY <1>2, <1>3 DEF A!Load, A!States
<1>4. ASSUME NEW id \in ManagedPlugins, A!Register(id) PROVE ManagerInv'
  BY <1>2, <1>4 DEF A!Register, A!States
<1>5. ASSUME NEW id \in ManagedPlugins, NEW b \in BOOLEAN, A!Reload(id, b) PROVE ManagerInv'
  <2>1. CASE b
    BY <1>2, <1>5, <2>1 DEF A!Reload, A!States, A!HotReloaded
  <2>2. CASE ~b
    <3>1. UNCHANGED A!vars
      BY <1>5, <2>2 DEF A!Reload, A!vars
    <3> QED
      BY <3>1 DEF A!vars, ManagerInv, ManagerTyped, LoopIsFresh, ThreadsKnown, A!OneEntryPerId, A!StartsAreCalls, A!RunningIsExecuted, A!Free
  <2> QED
    BY <2>1, <2>2
<1>6. ASSUME NEW id \in ManagedPlugins, A!Unregister(id) PROVE ManagerInv'
  <2>1. /\ registry' = A!Removed(id) /\ id \in A!Ids /\ A!Free /\ instances' = instances
        /\ UNCHANGED <<cell, toStart, starting, onStart, executors, reloaded>>
    BY <1>6 DEF A!Unregister
  <2>2. /\ registry' \in Seq(Entries) /\ A!OneEntryPerId'
        /\ \A k \in DOMAIN registry' : \E j \in DOMAIN registry : registry'[k] = registry[j]
    BY <1>1, <2>1, RemovedOK DEF ManagerInv, A!OneEntryPerId
  <2>3. A!RunningIsExecuted'
    BY <2>1, <2>2 DEF ManagerInv, A!RunningIsExecuted, A!Range
  <2>4. \A k \in DOMAIN registry' : registry'[k].inst \in 1 .. instances'
    BY <1>1, <2>1, <2>2 DEF ManagerTyped
  <2> QED
    BY <1>1, <2>1, <2>2, <2>3, <2>4, RegistryMoves
<1>7. CASE A!ShutdownAll
  <2>1. /\ A!Free /\ executors' = {} /\ UNCHANGED <<cell, toStart, starting, onStart, reloaded, instances>>
        /\ registry' = [k \in DOMAIN registry |->
                    IF registry[k].id \in executors /\ registry[k].status = "RUNNING"
                    THEN [registry[k] EXCEPT !.status = "STOPPED"] ELSE registry[k]]
    BY <1>7 DEF A!ShutdownAll
  <2>9. registry \in Seq(Entries) /\ \A k \in DOMAIN registry : registry[k] \in Entries
    BY <1>1 DEF ManagerTyped
  <2>2. \A k \in DOMAIN registry : [registry[k] EXCEPT !.status = "STOPPED"] \in Entries
    BY <2>9 DEF Entries, A!States
  <2>3. registry' \in [DOMAIN registry -> Entries]
    BY <2>1, <2>2, <2>9
  <2>4. registry' \in Seq(Entries) /\ DOMAIN registry' = DOMAIN registry
    BY <2>3, <2>9, SameLength
  <2>5. \A k \in DOMAIN registry :
          /\ registry'[k].id = registry[k].id /\ registry'[k].inst = registry[k].inst
          /\ registry'[k].status = "RUNNING" => registry[k].status = "RUNNING" /\ registry[k].id \notin executors
    BY <2>1, <2>9 DEF Entries
  <2>6. A!RunningIsExecuted'
    <3> SUFFICES ASSUME NEW k \in DOMAIN registry, registry'[k].status = "RUNNING"
                 PROVE  registry'[k].inst \in reloaded'
      BY <2>4 DEF A!RunningIsExecuted, A!Range
    <3> QED
      BY <2>1, <2>5 DEF ManagerInv, A!RunningIsExecuted, A!Range
  <2>7. A!OneEntryPerId'
    BY <2>4, <2>5 DEF ManagerInv, A!OneEntryPerId
  <2>8. \A k \in DOMAIN registry' : registry'[k].inst \in 1 .. instances'
    BY <1>1, <2>1, <2>4, <2>5 DEF ManagerTyped
  <2> QED
    BY <1>1, <2>1, <2>4, <2>6, <2>7, <2>8, RegistryMoves
<1>8. CASE A!StartAll
  <2>1. /\ cell' = Append(cell, 0) /\ toStart' = registry /\ toStart = <<>> /\ registry # <<>>
        /\ UNCHANGED <<registry, executors, starting, onStart, reloaded, instances>>
    BY <1>8 DEF A!StartAll, A!Free
  <2>2. cell \in Seq(Nat)
    BY <1>1 DEF ManagerTyped
  <2>3. /\ cell' \in Seq(Nat) /\ Len(cell') = Len(cell) + 1 /\ Len(cell) \in Nat
        /\ \A k \in DOMAIN cell : k \in DOMAIN cell' /\ cell'[k] = cell[k] /\ k # Len(cell')
        /\ \A k \in DOMAIN cell' : k \in DOMAIN cell \/ cell'[k] = 0
    BY <2>1, <2>2
  <2>4. ManagerTyped'
    BY <1>1, <2>1, <2>3 DEF ManagerTyped
  <2>5. LoopIsFresh' /\ ThreadsKnown'
    BY <1>1, <2>1, <2>3 DEF ManagerInv, LoopIsFresh, ThreadsKnown, A!OneEntryPerId
  <2>6. A!StartsAreCalls'
    BY <2>1, <2>3 DEF ManagerInv, A!StartsAreCalls, ThreadsKnown, A!Free
  <2> QED
    BY <2>1, <2>4, <2>5, <2>6 DEF ManagerInv, A!OneEntryPerId, A!RunningIsExecuted
<1>9. ASSUME NEW ok \in BOOLEAN, A!StartNext(ok) PROVE ManagerInv'
  <2> DEFINE e == Head(toStart)
             n == Len(cell)
             t == [call |-> n, inst |-> e.inst]
  <2>1. /\ toStart # <<>> /\ toStart' = Tail(toStart) /\ cell' = [cell EXCEPT ![n] = e.inst]
        /\ starting' = (IF ok THEN starting \cup {t} ELSE starting)
        /\ executors' = (IF ok THEN executors \cup {e.id} ELSE executors)
        /\ registry' = A!Updated(e.id, IF ok THEN "RUNNING" ELSE "FAILED")
        /\ UNCHANGED <<onStart, reloaded, instances>>
    BY <1>9 DEF A!StartNext
  <2>2. /\ toStart \in Seq(Entries) /\ cell \in Seq(Nat) /\ n \in Nat /\ n >= 1 /\ n \in DOMAIN cell
    BY <1>1, <2>1 DEF ManagerTyped, ManagerInv, LoopIsFresh
  <2>3. e = toStart[1] /\ 1 \in DOMAIN toStart /\ e.inst \in Nat /\ e.inst >= 1 /\ e.inst <= instances
    BY <1>1, <2>1, <2>2 DEF ManagerTyped
  <2>4. /\ toStart' \in Seq(Entries)
        /\ \A k \in DOMAIN toStart' : k + 1 \in DOMAIN toStart /\ toStart'[k] = toStart[k + 1] /\ k + 1 # 1 /\ k \in Nat
    BY <2>1, <2>2
  <2>5. /\ cell' \in Seq(Nat) /\ Len(cell') = n /\ DOMAIN cell' = DOMAIN cell /\ cell'[n] = e.inst
        /\ \A k \in DOMAIN cell : k # n => cell'[k] = cell[k]
    BY <2>1, <2>2, <2>3
  <2>6. t \in [call : Nat, inst : Nat] /\ t.call = n /\ t.inst = e.inst
    BY <2>2, <2>3
  <2>7. /\ registry' \in Seq(Entries) /\ DOMAIN registry' = DOMAIN registry
        /\ \A k \in DOMAIN registry :
              /\ registry'[k].id = registry[k].id /\ registry'[k].inst = registry[k].inst
              /\ registry'[k].status = IF registry[k].id = e.id THEN (IF ok THEN "RUNNING" ELSE "FAILED") ELSE registry[k].status
    BY <1>1, <2>1, UpdatedOK DEF A!States
  <2> HIDE DEF e, n, t
  <2>8. ManagerTyped'
    <3>1. starting' \subseteq [call : Nat, inst : Nat]
      BY <1>1, <2>1, <2>6 DEF ManagerTyped
    <3>2. \A k \in DOMAIN registry' : registry'[k].inst \in 1 .. instances'
      BY <1>1, <2>1, <2>7 DEF ManagerTyped
    <3>3. \A k \in DOMAIN toStart' : toStart'[k].inst \in 1 .. instances'
      BY <1>1, <2>1, <2>4 DEF ManagerTyped
    <3>4. \A k \in DOMAIN cell' : cell'[k] <= instances'
      BY <1>1, <2>1, <2>3, <2>5 DEF ManagerTyped
    <3> QED
      BY <1>1, <2>1, <2>4, <2>5, <2>7, <3>1, <3>2, <3>3, <3>4 DEF ManagerTyped
  <2>9. \A k \in DOMAIN toStart' : toStart'[k].inst # e.inst
    BY <2>1, <2>3, <2>4 DEF ManagerInv, LoopIsFresh
  <2>10. \A u \in starting' \cup onStart' : u = t \/ u \in starting \cup onStart
    BY <2>1
  <2>11. \A u \in starting \cup onStart : u.call = n => u.inst # e.inst
    BY <2>1, <2>3 DEF ManagerInv, LoopIsFresh, n
  <2>12. LoopIsFresh'
    <3>1. ASSUME NEW j \in DOMAIN toStart', NEW k \in DOMAIN toStart', toStart'[j].inst = toStart'[k].inst PROVE j = k
      <4>1. j + 1 = k + 1
        BY <2>1, <2>4, <3>1 DEF ManagerInv, LoopIsFresh
      <4> QED
        BY <2>4, <4>1
    <3>2. ASSUME NEW k \in DOMAIN toStart', NEW u \in starting' \cup onStart', u.call = n PROVE u.inst # toStart'[k].inst
      BY <2>1, <2>4, <2>6, <2>9, <2>10, <3>2 DEF ManagerInv, LoopIsFresh, n
    <3> QED
      BY <2>2, <2>5, <3>1, <3>2 DEF LoopIsFresh
  <2>13. ThreadsKnown'
    <3>1. \A u \in starting' \cup onStart' : u.call \in DOMAIN cell' /\ cell'[u.call] >= 1
      BY <2>2, <2>3, <2>5, <2>6, <2>10 DEF ManagerInv, ThreadsKnown
    <3>2. \A u \in starting', c \in onStart' : u.call = c.call => u.inst # c.inst
      BY <2>1, <2>6, <2>11 DEF ManagerInv, ThreadsKnown
    <3> QED
      BY <3>1, <3>2 DEF ThreadsKnown
  <2>14. A!StartsAreCalls'
    <3>1. \A c \in onStart : c.inst # c.called => cell'[c.call] # c.inst
      BY <2>5, <2>11 DEF ManagerInv, A!StartsAreCalls, ThreadsKnown
    <3>2. A!Free' => \A u \in starting' : cell'[u.call] # 0
      BY <2>13 DEF ThreadsKnown
    <3> QED
      BY <2>1, <3>1, <3>2 DEF ManagerInv, A!StartsAreCalls
  <2>15. A!RunningIsExecuted'
    BY <2>1, <2>7 DEF ManagerInv, A!RunningIsExecuted, A!Range
  <2>16. A!OneEntryPerId'
    BY <2>7 DEF ManagerInv, A!OneEntryPerId
  <2> QED
    BY <2>8, <2>12, <2>13, <2>14, <2>15, <2>16 DEF ManagerInv
<1>10. ASSUME NEW t \in starting, A!ThreadRuns(t) PROVE ManagerInv'
  <2> DEFINE c == [call |-> t.call, inst |-> t.inst, called |-> cell[t.call]]
  <2>1. /\ starting' = starting \ {t} /\ onStart' = onStart \cup {c}
        /\ UNCHANGED <<registry, executors, cell, toStart, reloaded, instances>>
    BY <1>10 DEF A!ThreadRuns
  <2>2. c.call = t.call /\ c.inst = t.inst /\ c.called = cell[t.call]
    OBVIOUS
  <2> HIDE DEF c
  <2>3. t.call \in DOMAIN cell /\ cell[t.call] >= 1 /\ cell[t.call] <= instances
    BY <1>1 DEF ManagerInv, ManagerTyped, ThreadsKnown
  <2>10. c \in [call : Nat, inst : Nat, called : Nat]
    BY <1>1, <2>3 DEF ManagerTyped, c
  <2>4. ManagerTyped'
    BY <1>1, <2>1, <2>10 DEF ManagerTyped
  <2>5. \A u \in starting' : u.call = t.call => u.inst # t.inst
    <3> SUFFICES ASSUME NEW u \in starting, u # t, u.call = t.call, u.inst = t.inst PROVE FALSE
      BY <2>1
    <3>1. u \in [call : Nat, inst : Nat] /\ t \in [call : Nat, inst : Nat]
      BY <1>1 DEF ManagerTyped
    <3> QED
      BY <3>1
  <2>6. \A u \in onStart : u.call = t.call => u.inst # t.inst
    BY DEF ManagerInv, ThreadsKnown
  <2>7. ThreadsKnown'
    BY <2>1, <2>2, <2>3, <2>5 DEF ManagerInv, ThreadsKnown
  <2>8. LoopIsFresh'
    BY <2>1, <2>2 DEF ManagerInv, LoopIsFresh
  <2>9. A!StartsAreCalls'
    BY <2>1, <2>2, <2>3, <2>6 DEF ManagerInv, A!StartsAreCalls, A!Free
  <2> QED
    BY <2>1, <2>4, <2>7, <2>8, <2>9 DEF ManagerInv, A!RunningIsExecuted, A!OneEntryPerId
<1>11. CASE UNCHANGED A!vars
  BY <1>11 DEF A!vars, ManagerInv, ManagerTyped, LoopIsFresh, ThreadsKnown, A!OneEntryPerId, A!StartsAreCalls, A!RunningIsExecuted, A!Free
<1> QED
  BY <1>3, <1>4, <1>5, <1>6, <1>7, <1>8, <1>9, <1>10, <1>11 DEF A!Next

(***************************************************************************)
(* The life cycle.                                                         *)
(***************************************************************************)

Attempts == [from : L!States, to : L!States, success : BOOLEAN]
\* What a plugin has been through when it was started, unless it failed on the way.
Prepared ==
  /\ "loaded" \in reached => "validated" \in reached
  /\ reached \cap {"initialized", "running", "stopped"} # {} =>
       {"validated", "loaded", "initialized"} \subseteq reached \/ "failed" \in reached
LifecycleInv ==
  /\ current \in L!States /\ reached \subseteq L!States /\ current \in reached /\ attempts \in Seq(Attempts)
  /\ Prepared /\ L!RunsOnlyLoaded /\ L!HistoryIsAPath

LEMMA LifecycleInit == L!Init => LifecycleInv
BY DEF L!Init, LifecycleInv, L!States, Attempts, Prepared, L!RunsOnlyLoaded, L!HistoryIsAPath, L!Before

\* A transition that is allowed keeps what is known of the states reached.
LEMMA ReachedStep ==
  ASSUME LifecycleInv, NEW to \in L!Allowed(current), reached' = reached \cup {to}, current' = to
  PROVE  to \in L!States /\ Prepared' /\ L!RunsOnlyLoaded'
<1>1. current \in L!States /\ current \in reached /\ Prepared /\ L!RunsOnlyLoaded
  BY DEF LifecycleInv
<1>2. to \in L!States
  BY <1>1 DEF L!Allowed, L!States
<1>3. Prepared'
  BY <1>1, <1>2 DEF L!Allowed, L!States, Prepared
<1>4. L!RunsOnlyLoaded'
  BY <1>1, <1>2, <1>3 DEF L!Allowed, L!States, L!RunsOnlyLoaded, Prepared
<1> QED
  BY <1>2, <1>3, <1>4

\* One attempt more.
PathTo(q, c) == (\A k \in DOMAIN q : q[k].from = L!Before(q, k)) /\ c = L!Before(q, Len(q) + 1)
LEMMA AttemptStep ==
  ASSUME NEW q \in Seq(Attempts), NEW a \in Attempts, PathTo(q, a.from)
  PROVE  Append(q, a) \in Seq(Attempts) /\ PathTo(Append(q, a), IF a.success THEN a.to ELSE a.from)
<1> DEFINE r == Append(q, a)
<1>1. /\ Len(q) \in Nat /\ DOMAIN q = 1 .. Len(q) /\ r \in Seq(Attempts) /\ Len(r) = Len(q) + 1
      /\ r[Len(q) + 1] = a /\ DOMAIN r = 1 .. Len(q) + 1 /\ \A k \in DOMAIN q : r[k] = q[k]
  OBVIOUS
<1> HIDE DEF r
<1>2. \A k \in 1 .. Len(q) + 1 : L!Before(r, k) = L!Before(q, k)
  BY <1>1 DEF L!Before
<1>3. \A k \in DOMAIN r : r[k].from = L!Before(r, k)
  BY <1>1, <1>2 DEF PathTo
<1>4. L!Before(r, Len(r) + 1) = IF a.success THEN a.to ELSE a.from
  BY <1>1 DEF L!Before
<1> QED
  BY <1>1, <1>3, <1>4 DEF PathTo, r

\* Of start_sequence the first transition is allowed or not; the others always are.
LEMMA SequenceRuns ==
  ASSUME current \in L!States, NEW n \in 0 .. 4, L!Passes(n) /\ (n = 4 \/ ~L!Passes(n + 1))
  PROVE  /\ n = 0 \/ n = 4
         /\ n = 4 => "validated" \in L!Allowed(current)
         /\ n = 0 => "validated" \notin L!Allowed(current)
<1>1. /\ L!Sequence[1] = "validated" /\ L!Sequence[2] = "loaded" /\ L!Sequence[3] = "initialized" /\ L!Sequence[4] = "running"
  BY DEF L!Sequence
<1>2. L!Sequence[2] \in L!Allowed(L!Sequence[1]) /\ L!Sequence[3] \in L!Allowed(L!Sequence[2]) /\ L!Sequence[4] \in L!Allowed(L!Sequence[3])
  BY <1>1 DEF L!Allowed
<1>3. CASE "validated" \in L!Allowed(current)
  <2>1. \A m \in 1 .. 4 : L!Passes(m)
    BY <1>1, <1>2, <1>3 DEF L!Passes
  <2> QED
    BY <1>3, <2>1
<1>4. CASE "validated" \notin L!Allowed(current)
  <2>1. \A m \in 1 .. 4 : ~L!Passes(m)
    BY <1>1, <1>4 DEF L!Passes
  <2> QED
    BY <1>4, <2>1
<1> QED
  BY <1>3, <1>4

LEMMA OneMore == ASSUME NEW S, NEW q \in Seq(S), NEW a \in S PROVE q \o <<a>> = Append(q, a)
OBVIOUS

\* Four appended one by one or together.
LEMMA FourMore ==
  ASSUME NEW S, NEW q \in Seq(S), NEW a \in S, NEW b \in S, NEW c \in S, NEW d \in S
  PROVE  q \o <<a, b, c, d>> = Append(Append(Append(Append(q, a), b), c), d)
<1> DEFINE n == Len(q)
           r == q \o <<a, b, c, d>>
           q1 == Append(q, a)
           q2 == Append(q1, b)
           q3 == Append(q2, c)
           q4 == Append(q3, d)
<1>1. n \in Nat /\ q1 \in Seq(S) /\ Len(q1) = n + 1 /\ q1[n + 1] = a /\ \A k \in 1 .. n : q1[k] = q[k]
  OBVIOUS
<1>2. r \in Seq(S) /\ Len(r) = n + 4 /\ r[n + 1] = a /\ r[n + 2] = b /\ r[n + 3] = c /\ r[n + 4] = d /\ \A k \in 1 .. n : r[k] = q[k]
  OBVIOUS
<1> HIDE DEF q1, n, r
<1>3. q2 \in Seq(S) /\ Len(q2) = n + 2 /\ q2[n + 2] = b /\ \A k \in 1 .. n + 1 : q2[k] = q1[k]
  BY <1>1
<1> HIDE DEF q2
<1>4. q3 \in Seq(S) /\ Len(q3) = n + 3 /\ q3[n + 3] = c /\ \A k \in 1 .. n + 2 : q3[k] = q2[k]
  BY <1>1, <1>3
<1> HIDE DEF q3
<1>5. q4 \in Seq(S) /\ Len(q4) = n + 4 /\ q4[n + 4] = d /\ \A k \in 1 .. n + 3 : q4[k] = q3[k]
  BY <1>1, <1>4
<1> HIDE DEF q4
<1>6. \A k \in 1 .. n + 4 : r[k] = q4[k]
  BY <1>1, <1>2, <1>3, <1>4, <1>5
<1>7. r = q4
  BY <1>1, <1>2, <1>5, <1>6
<1> QED
  BY <1>7 DEF r, q4, q3, q2, q1

LEMMA LifecycleStep == LifecycleInv /\ [L!Next]_L!vars => LifecycleInv'
<1> SUFFICES ASSUME LifecycleInv, [L!Next]_L!vars PROVE LifecycleInv'
  OBVIOUS
<1>1. current \in L!States /\ attempts \in Seq(Attempts) /\ PathTo(attempts, current)
  BY DEF LifecycleInv, L!HistoryIsAPath, PathTo
<1>2. \A s, t \in L!States : L!Entry(s, t) \in Attempts /\ L!Entry(s, t).from = s /\ L!Entry(s, t).to = t /\ (L!Entry(s, t).success <=> t \in L!Allowed(s))
  <2> SUFFICES ASSUME NEW s \in L!States, NEW t \in L!States
               PROVE  L!Entry(s, t) \in Attempts /\ L!Entry(s, t).from = s /\ L!Entry(s, t).to = t /\ (L!Entry(s, t).success <=> t \in L!Allowed(s))
    OBVIOUS
  <2>1. (t \in L!Allowed(s)) \in BOOLEAN
    OBVIOUS
  <2>2. L!Entry(s, t) = [from |-> s, to |-> t, success |-> t \in L!Allowed(s)]
    BY DEF L!Entry
  <2>3. L!Entry(s, t) \in Attempts
    BY <2>1, <2>2 DEF Attempts
  <2>4. L!Entry(s, t).from = s /\ L!Entry(s, t).to = t
    BY <2>2
  <2>5. L!Entry(s, t).success <=> t \in L!Allowed(s)
    <3>1. L!Entry(s, t).success = (t \in L!Allowed(s))
      BY <2>2
    <3> QED
      BY <3>1
  <2> QED
    BY <2>3, <2>4, <2>5
<1>3. ASSUME NEW to \in L!States, L!Transition(to) PROVE LifecycleInv'
  <2>1. attempts' = Append(attempts, L!Entry(current, to)) /\ reached' = reached \cup {current'}
        /\ current' = IF to \in L!Allowed(current) THEN to ELSE current
    BY <1>3 DEF L!Transition
  <2>2. attempts' \in Seq(Attempts) /\ PathTo(attempts', current')
    BY <1>1, <1>2, <2>1, AttemptStep
  <2>3. CASE to \in L!Allowed(current)
    BY <2>1, <2>2, <2>3, ReachedStep DEF LifecycleInv, L!HistoryIsAPath, PathTo
  <2>4. CASE to \notin L!Allowed(current)
    <3>1. reached' = reached /\ current' = current
      BY <2>1, <2>4 DEF LifecycleInv
    <3> QED
      BY <2>2, <3>1 DEF LifecycleInv, L!HistoryIsAPath, PathTo, Prepared, L!RunsOnlyLoaded
  <2> QED
    BY <2>3, <2>4
<1>4. CASE L!ToUnknown
  <2> DEFINE a == [from |-> current, to |-> "discovered", success |-> FALSE]
  <2>1. attempts' = Append(attempts, a) /\ UNCHANGED <<current, reached>>
    BY <1>4 DEF L!ToUnknown
  <2>2. a \in Attempts /\ a.from = current /\ a.success = FALSE
    BY <1>1 DEF Attempts, L!States
  <2>3. attempts' \in Seq(Attempts) /\ PathTo(attempts', current')
    BY <1>1, <2>1, <2>2, AttemptStep
  <2> QED
    BY <2>1, <2>3 DEF LifecycleInv, L!HistoryIsAPath, PathTo, Prepared, L!RunsOnlyLoaded
<1>5. CASE L!StartSequence
  <2> DEFINE n == CHOOSE n \in 0 .. 4 : L!Passes(n) /\ (n = 4 \/ ~L!Passes(n + 1))
             At(k) == IF k = 0 THEN current ELSE L!Sequence[k]
             tried == [k \in 1 .. (IF n = 4 THEN 4 ELSE n + 1) |-> L!Entry(At(k - 1), L!Sequence[k])]
  <2>1. attempts' = attempts \o tried /\ current' = At(n) /\ reached' = reached \cup {At(k) : k \in 0 .. n}
    BY <1>5 DEF L!StartSequence
  <2>2. /\ L!Sequence[1] = "validated" /\ L!Sequence[2] = "loaded" /\ L!Sequence[3] = "initialized" /\ L!Sequence[4] = "running"
    BY DEF L!Sequence
  <2>3. L!Passes(0) /\ \E m \in 0 .. 4 : L!Passes(m) /\ (m = 4 \/ ~L!Passes(m + 1))
    BY DEF L!Passes
  <2>4. n \in 0 .. 4 /\ L!Passes(n) /\ (n = 4 \/ ~L!Passes(n + 1))
    BY <2>3
  <2> HIDE DEF n
  <2>5. n \in {0, 4} /\ (n = 4 => "validated" \in L!Allowed(current)) /\ (n = 0 => "validated" \notin L!Allowed(current))
    BY <1>1, <2>4, SequenceRuns
  <2>6. CASE n = 0
    <3> DEFINE a == L!Entry(current, "validated")
    <3>5. At(0) = current /\ L!Sequence[1] = "validated"
      BY <2>2
    <3>6. tried = [k \in 1 .. 1 |-> a]
      BY <2>6, <3>5
    <3>1. tried = <<a>> /\ current' = current /\ a \in Attempts
      BY <1>1, <1>2, <2>1, <2>6, <3>6 DEF L!States
    <3>7. attempts' = attempts \o <<a>>
      BY <2>1, <3>1
    <3>2. attempts' = Append(attempts, a)
      BY <1>1, <3>1, <3>7, OneMore
    <3>3. attempts' \in Seq(Attempts) /\ PathTo(attempts', current')
      BY <1>1, <1>2, <2>5, <2>6, <3>1, <3>2, AttemptStep DEF L!States
    <3>4. reached' = reached
      BY <1>1, <2>1, <2>6 DEF LifecycleInv
    <3> QED
      BY <3>1, <3>3, <3>4 DEF LifecycleInv, L!HistoryIsAPath, PathTo, Prepared, L!RunsOnlyLoaded
  <2>7. CASE n = 4
    <3> DEFINE a == L!Entry(current, "validated")
               b == L!Entry("validated", "loaded")
               c == L!Entry("loaded", "initialized")
               d == L!Entry("initialized", "running")
    <3>1. tried = <<a, b, c, d>> /\ current' = "running"
      BY <2>1, <2>2, <2>7
    <3>2. /\ a \in Attempts /\ b \in Attempts /\ c \in Attempts /\ d \in Attempts
          /\ a.from = current /\ b.from = "validated" /\ c.from = "loaded" /\ d.from = "initialized"
          /\ a.to = "validated" /\ b.to = "loaded" /\ c.to = "initialized" /\ d.to = "running"
      BY <1>1, <1>2 DEF L!States
    <3>3. a.success /\ b.success /\ c.success /\ d.success
      BY <1>1, <1>2, <2>5, <2>7 DEF L!Allowed, L!States
    <3> HIDE DEF a, b, c, d
    <3> DEFINE q1 == Append(attempts, a)
               q2 == Append(q1, b)
               q3 == Append(q2, c)
               q4 == Append(q3, d)
    <3>4. q1 \in Seq(Attempts) /\ PathTo(q1, "validated")
      BY <1>1, <3>2, <3>3, AttemptStep
    <3>5. q2 \in Seq(Attempts) /\ PathTo(q2, "loaded")
      <4> HIDE DEF q1
      <4> QED BY <3>2, <3>3, <3>4, AttemptStep
    <3>6. q3 \in Seq(Attempts) /\ PathTo(q3, "initialized")
      <4> HIDE DEF q2
      <4> QED BY <3>2, <3>3, <3>5, AttemptStep
    <3>7. q4 \in Seq(Attempts) /\ PathTo(q4, "running")
      <4> HIDE DEF q3
      <4> QED BY <3>2, <3>3, <3>6, AttemptStep
    <3>11. attempts' = attempts \o <<a, b, c, d>>
      BY <2>1, <3>1
    <3>8. attempts' = q4
      BY <1>1, <3>2, <3>11, FourMore
    <3>9. reached' = reached \cup {current, "validated", "loaded", "initialized", "running"}
      <4>1. 0 .. n = {0, 1, 2, 3, 4}
        BY <2>7
      <4>2. At(0) = current /\ At(1) = "validated" /\ At(2) = "loaded" /\ At(3) = "initialized" /\ At(4) = "running"
        BY <2>2
      <4> HIDE DEF At
      <4>3. {At(k) : k \in {0, 1, 2, 3, 4}} = {current, "validated", "loaded", "initialized", "running"}
        BY <4>2
      <4> QED
        BY <2>1, <4>1, <4>3
    <3>10. Prepared' /\ L!RunsOnlyLoaded'
      <4>1. current # "uninstalled"
        BY <2>5, <2>7 DEF L!Allowed
      <4> QED
        BY <1>1, <3>1, <3>9, <4>1 DEF LifecycleInv, Prepared, L!RunsOnlyLoaded
    <3> QED
      BY <1>1, <3>1, <3>7, <3>8, <3>9, <3>10 DEF LifecycleInv, L!HistoryIsAPath, PathTo, L!States
  <2> QED
    BY <2>5, <2>6, <2>7
<1>6. CASE UNCHANGED L!vars
  BY <1>6 DEF L!vars, LifecycleInv, L!HistoryIsAPath, Prepared, L!RunsOnlyLoaded
<1> QED
  BY <1>3, <1>4, <1>5, <1>6 DEF L!Next

(***************************************************************************)
(* Discovery and loading, for any directories.                             *)
(***************************************************************************)

\* Discovery's listing, and what is known of each load.
IsListing(q) ==
  /\ DOMAIN q \subseteq Int /\ O!Range(q) = O!Discovered
  /\ \A j, k \in DOMAIN q : j < k => O!Precedes(q[j], q[k])
LoadingTyped ==
  /\ tree \in Trees /\ (found = <<>> \/ IsListing(found))
  /\ loads \in Seq([dir : tree, result : O!Results]) /\ \A k \in DOMAIN loads : loads[k].result = O!Result(loads[k].dir)
LoadingInv == LoadingTyped /\ O!ValidatedBeforeImport /\ O!EntryIsLastLoaded

LEMMA LoadingInit == O!Init => LoadingInv
<1> SUFFICES ASSUME O!Init PROVE LoadingInv
  OBVIOUS
<1>1. <<>> \in Seq([dir : tree, result : O!Results])
  OBVIOUS
<1> QED
  BY <1>1 DEF O!Init, LoadingInv, LoadingTyped, O!ValidatedBeforeImport, O!EntryIsLastLoaded, O!Range

LEMMA ResultOK ==
  ASSUME NEW d
  PROVE  /\ O!Result(d) \in O!Results
         /\ O!Entered(d) <=> O!Result(d) \in {"loaded", "failed"}
         /\ O!Entered(d) => O!Executed(d) /\ O!ClassFine(d) /\ (O!Result(d) = "loaded" <=> d.hooks)
         /\ O!Executed(d) => O!ManifestFine(d) /\ O!SourceFine(d)
BY DEF O!Result, O!Results, O!Entered, O!Executed, O!Validated

LEMMA LoadStep ==
  ASSUME LoadingInv, NEW d \in tree, O!Load(d)
  PROVE  LoadingInv'
<1> DEFINE l == [dir |-> d, result |-> O!Result(d)]
           e == [dir |-> d, status |-> IF d.hooks THEN "LOADED" ELSE "FAILED"]
           n == Len(loads)
<1>1. /\ loads' = Append(loads, l) /\ UNCHANGED <<tree, found>>
      /\ modules' = (IF O!Executed(d) THEN O!Put(modules, d.name, d) ELSE modules)
      /\ registered' = (IF O!Entered(d) THEN O!Put(registered, O!Metadata(d), e) ELSE registered)
  BY DEF O!Load
<1>2. l.dir = d /\ l.result = O!Result(d) /\ l \in [dir : tree, result : O!Results]
  BY ResultOK
<1>3. e.dir = d /\ (e.status = "LOADED" <=> d.hooks)
  OBVIOUS
<1>4. loads \in Seq([dir : tree, result : O!Results])
  BY DEF LoadingInv, LoadingTyped
<1> HIDE DEF l, e
<1>5. /\ n \in Nat /\ loads' \in Seq([dir : tree, result : O!Results]) /\ Len(loads') = n + 1
      /\ DOMAIN loads = 1 .. n /\ DOMAIN loads' = 1 .. n + 1 /\ loads'[n + 1] = l
      /\ \A k \in 1 .. n : loads'[k] = loads[k]
  BY <1>1, <1>2, <1>4
<1> HIDE DEF n
<1>6. LoadingTyped'
  BY <1>1, <1>2, <1>5 DEF LoadingInv, LoadingTyped, IsListing, O!Discovered, O!Seen
<1>7. O!ValidatedBeforeImport'
  <2>1. \A m \in DOMAIN modules' : O!ManifestFine(modules'[m]) /\ O!SourceFine(modules'[m]) /\ modules'[m].name = m
    BY <1>1, ResultOK DEF O!Put, LoadingInv, O!ValidatedBeforeImport
  <2>2. \A i \in DOMAIN registered' : O!SourceFine(registered'[i].dir) /\ O!ClassFine(registered'[i].dir)
    BY <1>1, <1>3, ResultOK DEF O!Put, LoadingInv, O!ValidatedBeforeImport
  <2> QED
    BY <2>1, <2>2 DEF O!ValidatedBeforeImport
<1>8. O!EntryIsLastLoaded'
  <2>1. ASSUME NEW i \in DOMAIN registered'
        PROVE  \E k \in DOMAIN loads' :
                 /\ loads'[k].dir = registered'[i].dir /\ O!Metadata(registered'[i].dir) = i
                 /\ (loads'[k].result = "loaded") = (registered'[i].status = "LOADED")
                 /\ \A j \in k + 1 .. Len(loads') :
                      O!Metadata(loads'[j].dir) = i => loads'[j].result \in {"refused", "raised"}
    <3>1. CASE O!Entered(d) /\ i = O!Metadata(d)
      <4>1. registered'[i] = e
        BY <1>1, <3>1 DEF O!Put
      <4>2. (l.result = "loaded") = (e.status = "LOADED")
        BY <1>2, <1>3, <3>1, ResultOK
      <4> QED
        BY <1>2, <1>3, <1>5, <3>1, <4>1, <4>2
    <3>2. CASE ~(O!Entered(d) /\ i = O!Metadata(d))
      <4>1. i \in DOMAIN registered /\ registered'[i] = registered[i]
        BY <1>1, <3>2 DEF O!Put
      <4>2. PICK k \in DOMAIN loads :
              /\ loads[k].dir = registered[i].dir /\ O!Metadata(registered[i].dir) = i
              /\ (loads[k].result = "loaded") = (registered[i].status = "LOADED")
              /\ \A j \in k + 1 .. n :
                   O!Metadata(loads[j].dir) = i => loads[j].result \in {"refused", "raised"}
        BY <4>1 DEF LoadingInv, O!EntryIsLastLoaded, n
      <4>3. O!Metadata(d) = i => l.result \in {"refused", "raised"}
        BY <1>2, <3>2, ResultOK DEF O!Results
      <4>4. \A j \in k + 1 .. n + 1 : O!Metadata(loads'[j].dir) = i => loads'[j].result \in {"refused", "raised"}
        BY <1>2, <1>5, <4>2, <4>3
      <4> QED
        BY <1>5, <4>1, <4>2, <4>4
    <3> QED
      BY <3>1, <3>2
  <2>2. ASSUME NEW k \in DOMAIN loads', loads'[k].result = "loaded"
        PROVE  loads'[k].dir.name \in DOMAIN modules' /\ O!Metadata(loads'[k].dir) \in DOMAIN registered'
    <3>1. CASE k = n + 1
      BY <1>1, <1>2, <1>5, <2>2, <3>1, ResultOK DEF O!Put
    <3>2. CASE k \in 1 .. n
      <4>1. loads[k].dir.name \in DOMAIN modules /\ O!Metadata(loads[k].dir) \in DOMAIN registered
        BY <1>5, <2>2, <3>2 DEF LoadingInv, O!EntryIsLastLoaded, O!Range
      <4> QED
        BY <1>1, <1>5, <3>2, <4>1 DEF O!Put
    <3> QED
      BY <1>5, <3>1, <3>2
  <2> QED
    BY <2>1, <2>2 DEF O!EntryIsLastLoaded, O!Range
<1> QED
  BY <1>6, <1>7, <1>8 DEF LoadingInv

LEMMA LoadingStep == LoadingInv /\ [O!Next]_O!vars => LoadingInv'
<1> SUFFICES ASSUME LoadingInv, [O!Next]_O!vars PROVE LoadingInv'
  OBVIOUS
<1>1. CASE O!Discover
  <2>1. IsListing(found')
    BY <1>1 DEF O!Discover, IsListing, O!Range
  <2>2. LoadingTyped'
    BY <1>1, <2>1 DEF O!Discover, LoadingInv, LoadingTyped, IsListing, O!Discovered, O!Seen
  <2> QED
    BY <1>1, <2>2 DEF O!Discover, LoadingInv, O!ValidatedBeforeImport, O!EntryIsLastLoaded
<1>2. CASE UNCHANGED O!vars
  BY <1>2 DEF O!vars, LoadingInv, LoadingTyped, IsListing, O!Discovered, O!Seen, O!ValidatedBeforeImport, O!EntryIsLastLoaded
<1> QED
  BY <1>1, <1>2, LoadStep DEF O!Next

LEMMA LoadingSafe == O!TreesOK /\ LoadingInv => O!FirstRootWins /\ O!ValidatedBeforeImport /\ O!EntryIsLastLoaded
<1> SUFFICES ASSUME O!TreesOK, LoadingInv, found # <<>> PROVE O!FirstRootWins
  BY DEF LoadingInv, O!FirstRootWins
<1>1. /\ DOMAIN found \subseteq Int /\ O!Range(found) = O!Discovered
      /\ \A j, k \in DOMAIN found : j < k => O!Precedes(found[j], found[k])
  BY DEF LoadingInv, LoadingTyped, IsListing
<1>2. \A d, e \in tree : /\ d.root \in {1, 2} /\ d.name \in Int
                         /\ d.root = e.root /\ d.name = e.name => d = e
  BY DEF O!TreesOK, LoadingInv, LoadingTyped
<1>3. \A k \in DOMAIN found : found[k] \in O!Discovered
  BY <1>1 DEF O!Range
<1>4. \A d, e \in O!Discovered : d.name = e.name => ~O!Precedes(d, e)
  BY <1>2 DEF O!Discovered, O!Seen, O!Precedes
<1>5. ASSUME NEW j \in DOMAIN found, NEW k \in DOMAIN found, found[j].name = found[k].name
      PROVE  j = k
  BY <1>1, <1>3, <1>4, <1>5
<1>6. ASSUME NEW d \in tree, O!IsCandidate(d)
      PROVE  \E e \in O!Range(found) : e.name = d.name /\ (e = d \/ e.root < d.root)
  <2>1. CASE O!Seen(d)
    <3>1. PICK e \in tree : O!IsCandidate(e) /\ e.root < d.root /\ e.name = d.name
      BY <2>1 DEF O!Seen
    <3>2. ~O!Seen(e)
      BY <1>2, <3>1 DEF O!Seen
    <3> QED
      BY <1>1, <3>1, <3>2 DEF O!Discovered
  <2>2. CASE ~O!Seen(d)
    BY <1>1, <1>6, <2>2 DEF O!Discovered
  <2> QED
    BY <2>1, <2>2
<1> QED
  BY <1>5, <1>6 DEF O!FirstRootWins

(***************************************************************************)
(* Health, for any number of checks and runs.                              *)
(***************************************************************************)

\* The last healthy report of a log; the reports since.
IsLast(q, k) == k \in DOMAIN q /\ q[k] = "healthy" /\ \A j \in k + 1 .. Len(q) : q[j] # "healthy"
Since(q, n) ==
  \/ (\A k \in DOMAIN q : q[k] # "healthy") /\ n = Len(q)
  \/ \E k \in DOMAIN q : IsLast(q, k) /\ n = Len(q) - k
HealthInv ==
  /\ status \in N!Statuses /\ log \in Seq(N!Statuses) /\ Since(log, failures)
  /\ run \in [Runs -> [pc : {"idle", "runs", "done"}, results : Seq(BOOLEAN)]]

LEMMA ReportAppended ==
  ASSUME NEW q \in Seq(N!Statuses), NEW s \in N!Statuses, NEW n, Since(q, n)
  PROVE  Append(q, s) \in Seq(N!Statuses) /\ Since(Append(q, s), IF s = "healthy" THEN 0 ELSE n + 1)
<1> DEFINE r == Append(q, s)
<1>1. /\ Len(q) \in Nat /\ Len(r) = Len(q) + 1 /\ DOMAIN r = 1 .. Len(q) + 1 /\ DOMAIN q = 1 .. Len(q)
      /\ r[Len(q) + 1] = s /\ \A k \in 1 .. Len(q) : r[k] = q[k]
  OBVIOUS
<1>2. r \in Seq(N!Statuses)
  OBVIOUS
<1> HIDE DEF r
<1>3. CASE s = "healthy"
  <2>1. IsLast(r, Len(q) + 1)
    BY <1>1, <1>3 DEF IsLast
  <2> QED
    BY <1>1, <1>2, <1>3, <2>1 DEF Since, r
<1>4. CASE s # "healthy" /\ (\A k \in DOMAIN q : q[k] # "healthy") /\ n = Len(q)
  BY <1>1, <1>2, <1>4 DEF Since, r
<1>5. ASSUME s # "healthy", NEW k \in DOMAIN q, IsLast(q, k), n = Len(q) - k
      PROVE  Since(Append(q, s), n + 1)
  <2>1. IsLast(r, k) /\ k \in DOMAIN r /\ n + 1 = Len(r) - k
    BY <1>1, <1>5 DEF IsLast
  <2> QED
    BY <2>1 DEF Since, r
<1> QED
  BY <1>2, <1>3, <1>4, <1>5 DEF Since, r

LEMMA HealthInit == N!Init => HealthInv
BY DEF N!Init, HealthInv, N!Statuses, Since

LEMMA HealthStep == HealthInv /\ [N!Next]_N!vars => HealthInv'
<1> SUFFICES ASSUME HealthInv, [N!Next]_N!vars PROVE HealthInv'
  OBVIOUS
<1>1. ASSUME NEW r \in Runs, N!End(r) PROVE HealthInv'
  <2> DEFINE res == run[r].results
  <2>1. /\ status' = N!Overall(res) /\ failures' = N!Failures(res) /\ run' = [run EXCEPT ![r].pc = "done"]
        /\ log' = (IF res = <<>> THEN log ELSE Append(log, N!Overall(res)))
    BY <1>1 DEF N!End
  <2>2. status \in N!Statuses /\ res \in Seq(BOOLEAN) /\ log \in Seq(N!Statuses) /\ Since(log, failures)
    BY DEF HealthInv
  <2>3. run' \in [Runs -> [pc : {"idle", "runs", "done"}, results : Seq(BOOLEAN)]]
    BY <2>1 DEF HealthInv
  <2> HIDE DEF res
  <2>4. N!Overall(res) \in N!Statuses
    BY <2>2 DEF N!Overall, N!Statuses
  <2>5. CASE res = <<>>
    <3>1. N!Overall(res) = status /\ N!Failures(res) = failures
      BY <2>5 DEF N!Overall, N!Failures
    <3> QED
      BY <2>1, <2>2, <2>3, <2>5, <3>1 DEF HealthInv
  <2>6. CASE res # <<>>
    <3>1. 1 \in DOMAIN res
      BY <2>2, <2>6
    <3>2. N!Failures(res) = IF N!Overall(res) = "healthy" THEN 0 ELSE failures + 1
      <4>1. CASE \A k \in DOMAIN res : res[k]
        <5>1. N!Overall(res) = "healthy" /\ N!Failures(res) = 0
          BY <2>6, <3>1, <4>1 DEF N!Overall, N!Failures
        <5> QED
          BY <5>1
      <4>2. CASE ~ \A k \in DOMAIN res : res[k]
        <5>1. N!Overall(res) # "healthy"
          BY <2>6, <4>2 DEF N!Overall
        <5>2. N!Failures(res) = failures + 1
          BY <2>6, <4>2 DEF N!Failures
        <5> QED
          BY <5>1, <5>2
      <4> QED
        BY <4>1, <4>2
    <3>3. log' = Append(log, N!Overall(res))
      BY <2>1, <2>6
    <3>4. log' \in Seq(N!Statuses) /\ Since(log', failures')
      BY <2>1, <2>2, <2>4, <3>2, <3>3, ReportAppended
    <3> QED
      BY <2>1, <2>3, <2>4, <3>4 DEF HealthInv
  <2> QED
    BY <2>5, <2>6
<1>2. ASSUME NEW s \in N!Statuses, N!SetStatus(s) PROVE HealthInv'
  BY <1>2 DEF N!SetStatus, HealthInv
<1>3. ASSUME NEW r \in Runs, N!Begin(r) PROVE HealthInv'
  BY <1>3 DEF N!Begin, HealthInv
<1>4. ASSUME NEW r \in Runs, NEW b \in BOOLEAN, N!RunCheck(r, b) PROVE HealthInv'
  <2>1. run' = [run EXCEPT ![r].results = Append(run[r].results, b)] /\ UNCHANGED <<status, failures, log>>
    BY <1>4 DEF N!RunCheck
  <2>2. Append(run[r].results, b) \in Seq(BOOLEAN)
    BY DEF HealthInv
  <2>3. run' \in [Runs -> [pc : {"idle", "runs", "done"}, results : Seq(BOOLEAN)]]
    BY <2>1, <2>2 DEF HealthInv
  <2> QED
    BY <2>1, <2>3 DEF HealthInv
<1>5. CASE N!AddCheck \/ UNCHANGED N!vars
  BY <1>5 DEF N!AddCheck, N!vars, HealthInv
<1> QED
  BY <1>1, <1>2, <1>3, <1>4, <1>5 DEF N!Next

LEMMA HealthSafe == HealthInv => N!FailuresAreConsecutive
<1> SUFFICES ASSUME HealthInv PROVE N!FailuresAreConsecutive
  OBVIOUS
<1>1. log \in Seq(N!Statuses) /\ Since(log, failures)
  BY DEF HealthInv
<1>2. CASE \A k \in DOMAIN log : log[k] # "healthy"
  BY <1>1, <1>2 DEF Since, N!FailuresAreConsecutive, IsLast
<1>3. ASSUME NEW k \in DOMAIN log, IsLast(log, k), failures = Len(log) - k PROVE N!FailuresAreConsecutive
  <2>1. \A j \in DOMAIN log : IsLast(log, j) => j = k
    BY <1>1, <1>3 DEF IsLast
  <2>2. (CHOOSE j \in DOMAIN log : log[j] = "healthy" /\ \A i \in j + 1 .. Len(log) : log[i] # "healthy") = k
    BY <1>3, <2>1 DEF IsLast
  <2> QED
    BY <1>3, <2>2 DEF IsLast, N!FailuresAreConsecutive
<1> QED
  BY <1>1, <1>2, <1>3 DEF Since

\* A run that ends healthy has been so.
LEMMA HealthyStep ==
  ASSUME HealthInv, NEW r \in Runs, [N!Next]_N!vars, run[r].pc = "runs", run'[r].pc = "done", status' = "healthy", status # "healthy"
  PROVE  \A k \in DOMAIN run[r].results : run[r].results[k]
<1>1. run \in [Runs -> [pc : {"idle", "runs", "done"}, results : Seq(BOOLEAN)]]
  BY DEF HealthInv
<1>2. ASSUME NEW q \in Runs, N!End(q) PROVE \A k \in DOMAIN run[r].results : run[r].results[k]
  <2>1. q = r
    BY <1>1, <1>2 DEF N!End
  <2>2. N!Overall(run[r].results) = "healthy"
    BY <1>2, <2>1 DEF N!End
  <2> QED
    BY <2>2 DEF N!Overall
<1>3. ASSUME NEW q \in Runs, N!Begin(q) PROVE FALSE
  BY <1>1, <1>3 DEF N!Begin
<1>4. ASSUME NEW q \in Runs, NEW b \in BOOLEAN, N!RunCheck(q, b) PROVE FALSE
  BY <1>1, <1>4 DEF N!RunCheck
<1> QED
  BY <1>2, <1>3, <1>4 DEF N!Next, N!AddCheck, N!SetStatus, N!vars

(***************************************************************************)
(* The sources: their control by any number of threads, over any           *)
(* catalogue, and their adapters, for any payloads.                        *)
(***************************************************************************)

\* The calls a thread may be in.
Working == [op : {"start", "startOne", "stop", "stopOne"}, todo : SUBSET SourceNames]
Asking == [op : {"health", "report"}, todo : SUBSET SourceNames, seen : SUBSET [name : SourceNames, state : C!States],
           flag : BOOLEAN]
ControlTyped ==
  /\ state \in [SourceNames -> C!States] /\ table \subseteq SourceNames /\ started \in BOOLEAN
  /\ call \in [Threads -> {C!Away} \cup Working \cup Asking]
  /\ \A i \in DOMAIN catalogue : i \in Nat /\ catalogue[i].name \in SourceNames
ControlInv == ControlTyped /\ C!RunningIsSupervised /\ C!RegisteredIsEnabled

\* The shape of a call follows from its operation.
LEMMA CallShape ==
  ASSUME ControlTyped, NEW t \in Threads
  PROVE  /\ call[t].op \in {"start", "startOne", "stop", "stopOne"} => call[t] \in Working
         /\ call[t].op \in {"health", "report"} => call[t] \in Asking
         /\ call[t].op = "none" => call[t] = C!Away
BY DEF ControlTyped, Working, Asking, C!Away

\* A call begins: the others go on, and what ended was no removal.
LEMMA EnterStep ==
  ASSUME ControlTyped, NEW t \in Threads, NEW c \in {C!Away} \cup Working \cup Asking, C!Enter(t, c)
  PROVE  /\ call' \in [Threads -> {C!Away} \cup Working \cup Asking] /\ call'[t] = c
         /\ \A u \in Threads \ {t} : call'[u] = call[u]
         /\ call[t].op \in {"none", "report"}
BY DEF C!Enter, ControlTyped

LEMMA LeaveStep ==
  ASSUME ControlTyped, NEW t \in Threads, C!Leave(t)
  PROVE  /\ call' \in [Threads -> {C!Away} \cup Working \cup Asking] /\ call'[t] = C!Away
         /\ \A u \in Threads \ {t} : call'[u] = call[u]
BY DEF C!Leave, ControlTyped

\* A call goes on with one source fewer.
LEMMA WorkStep ==
  ASSUME ControlTyped, NEW t \in Threads, NEW n, call[t] \in Working,
         call' = [call EXCEPT ![t].todo = call[t].todo \ {n}]
  PROVE  /\ call' \in [Threads -> {C!Away} \cup Working \cup Asking]
         /\ call'[t].op = call[t].op /\ call'[t].todo = call[t].todo \ {n}
         /\ \A u \in Threads \ {t} : call'[u] = call[u]
<1>1. call'[t] = [op |-> call[t].op, todo |-> call[t].todo \ {n}]
  BY DEF ControlTyped, Working
<1>2. call'[t] \in Working
  BY <1>1 DEF Working
<1>3. call' \in [Threads -> {C!Away} \cup Working \cup Asking]
  BY <1>2 DEF ControlTyped
<1> QED
  BY <1>1, <1>3 DEF ControlTyped

LEMMA ControlStep ==
  ASSUME ControlInv, [C!Next]_C!controlVars
  PROVE  ControlInv'
<1> USE DEF ControlInv
<1> DEFINE Ending(n) == \E t \in Threads : call[t].op = "stopOne" /\ n \in call[t].todo
           Supervised(n) == state[n] \in C!Active => n \in table \cup overlapped \/ Ending(n)
           Enabled(n) == validated /\ \E i \in DOMAIN catalogue : catalogue[i].name = n /\ catalogue[i].enabled /\ catalogue[i].type \in known
           Typed == call' \in [Threads -> {C!Away} \cup Working \cup Asking]
<1>1. \A n \in SourceNames : Supervised(n)
  BY DEF C!RunningIsSupervised
<1>2. \A n \in table : Enabled(n)
  BY DEF C!RegisteredIsEnabled
<1>3. ASSUME \A n \in SourceNames : Supervised(n)' PROVE C!RunningIsSupervised'
  BY <1>3 DEF C!RunningIsSupervised
<1>4. ASSUME \A n \in table' : Enabled(n)' PROVE C!RegisteredIsEnabled'
  BY <1>4 DEF C!RegisteredIsEnabled
<1>5. C!Away \in {C!Away} \cup Working \cup Asking
  OBVIOUS
\* A thread that is in no removal enters or leaves a call, or goes on with it.
<1>6. ASSUME NEW t \in Threads, call[t].op # "stopOne", \A u \in Threads \ {t} : call'[u] = call[u]
      PROVE  \A n \in SourceNames : Ending(n) => Ending(n)'
  BY <1>6
<1>7. ASSUME NEW t \in Threads, C!Load(t)
      PROVE  ControlInv'
  <2>1. /\ Typed /\ call[t].op # "stopOne" /\ \A u \in Threads \ {t} : call'[u] = call[u]
    BY <1>5, <1>7, EnterStep DEF C!Load
  <2>2. validated => validated'
    BY <1>7 DEF C!Load
  <2> QED
    BY <1>1, <1>2, <1>3, <1>4, <1>6, <1>7, <2>1, <2>2 DEF C!Load, ControlTyped
<1>8. ASSUME NEW t \in Threads, C!Register(t)
      PROVE  ControlInv'
  <2>1. /\ Typed /\ call[t].op # "stopOne" /\ \A u \in Threads \ {t} : call'[u] = call[u]
    BY <1>5, <1>8, EnterStep DEF C!Register
  <2>2. table \subseteq table' /\ UNCHANGED <<catalogue, known, validated, state, started, overlapped>>
    BY <1>8 DEF C!Register
  <2>3. ASSUME NEW n \in table', n \notin table
        PROVE  \E i \in DOMAIN catalogue : validated /\ catalogue[i].name = n /\ catalogue[i].enabled /\ catalogue[i].type \in known
    <3>1. PICK i \in C!Configured :
            /\ catalogue[i].name = n
            /\ \A j \in {j \in C!Configured : catalogue[j].type \notin known \/ catalogue[j].name \in table} : i < j
      BY <1>8, <2>3 DEF C!Register
    <3>2. i \in DOMAIN catalogue /\ validated /\ catalogue[i].enabled /\ i \in Nat
      BY <3>1 DEF C!Configured, ControlTyped
    <3>3. ~(i < i)
      BY <3>2
    <3>4. catalogue[i].type \in known
      BY <3>1, <3>3
    <3> QED
      BY <3>1, <3>2, <3>4
  <2>4. \A n \in table' : Enabled(n)' /\ n \in SourceNames
    BY <1>2, <2>2, <2>3 DEF ControlTyped
  <2> QED
    BY <1>1, <1>3, <1>4, <1>6, <2>1, <2>2, <2>4 DEF ControlTyped
<1>9. ASSUME NEW t \in Threads, NEW c \in {C!Away} \cup Working \cup Asking, C!Enter(t, c),
             UNCHANGED <<catalogue, known, validated, table, state, started, overlapped>>
      PROVE  ControlInv'
  <2>1. /\ Typed /\ call[t].op # "stopOne" /\ \A u \in Threads \ {t} : call'[u] = call[u]
    BY <1>9, EnterStep
  <2> QED
    BY <1>1, <1>2, <1>3, <1>4, <1>6, <1>9, <2>1 DEF ControlTyped
<1>10. ASSUME NEW t \in Threads, C!Start(t) \/ C!Stop(t) \/ C!Health(t) \/ \E n \in SourceNames : C!StartSource(t, n)
       PROVE  ControlInv'
  <2>1. [op |-> "start", todo |-> table] \in Working /\ [op |-> "stop", todo |-> table] \in Working
    BY DEF Working, ControlTyped
  <2>2. [op |-> "health", todo |-> table, seen |-> {}, flag |-> started] \in Asking
    BY DEF Asking, ControlTyped
  <2>3. \A n \in SourceNames : [op |-> "startOne", todo |-> {n}] \in Working
    BY DEF Working
  <2>4. CASE C!Start(t)
    BY <1>5, <1>9, <2>1, <2>4 DEF C!Start
  <2>5. CASE C!Stop(t)
    BY <1>9, <2>1, <2>5 DEF C!Stop
  <2>6. CASE C!Health(t)
    BY <1>9, <2>2, <2>6 DEF C!Health
  <2>7. CASE \E n \in SourceNames : C!StartSource(t, n)
    BY <1>9, <2>3, <2>7 DEF C!StartSource
  <2> QED
    BY <1>10, <2>4, <2>5, <2>6, <2>7
<1>11. ASSUME NEW t \in Threads, C!StartNext(t)
       PROVE  ControlInv'
  <2>1. call[t] \in Working /\ call[t].op # "stopOne" /\ UNCHANGED <<catalogue, known, validated, table>>
    BY <1>11, CallShape DEF C!StartNext
  <2>2. CASE call[t].todo = {}
    <3>1. C!Leave(t) /\ UNCHANGED <<state, overlapped>> /\ started' \in BOOLEAN
      BY <1>11, <2>2 DEF C!StartNext
    <3>2. Typed /\ \A u \in Threads \ {t} : call'[u] = call[u]
      BY <3>1, LeaveStep
    <3> QED
      BY <1>1, <1>2, <1>3, <1>4, <1>6, <2>1, <3>1, <3>2 DEF ControlTyped
  <2>3. CASE call[t].todo # {}
    <3>1. PICK n \in call[t].todo, s \in {"running", "failed"} :
            /\ state' = (IF state[n] \in C!Active THEN state ELSE [state EXCEPT ![n] = s])
            /\ overlapped' = (IF n \in table THEN overlapped ELSE overlapped \cup {n})
            /\ call' = [call EXCEPT ![t].todo = call[t].todo \ {n}] /\ started' = started
      BY <1>11, <2>3 DEF C!StartNext
    <3>2. Typed /\ \A u \in Threads \ {t} : call'[u] = call[u]
      BY <2>1, <3>1, WorkStep
    <3>3. n \in table \cup overlapped' /\ overlapped \subseteq overlapped'
      BY <3>1
    <3>4. \A m \in SourceNames : m # n => state'[m] = state[m]
      BY <3>1 DEF ControlTyped
    <3>5. state' \in [SourceNames -> C!States]
      BY <3>1 DEF ControlTyped, C!States
    <3>6. \A m \in SourceNames : Supervised(m)'
      BY <1>1, <1>6, <2>1, <3>2, <3>3, <3>4
    <3> QED
      BY <1>2, <1>3, <1>4, <2>1, <3>1, <3>2, <3>5, <3>6 DEF ControlTyped
  <2> QED
    BY <2>2, <2>3
<1>12. ASSUME NEW t \in Threads, C!StopNext(t)
       PROVE  ControlInv'
  <2>1. call[t] \in Working /\ call[t].op # "stopOne" /\ UNCHANGED <<catalogue, known, validated>>
    BY <1>12, CallShape DEF C!StopNext
  <2>2. CASE call[t].todo = {}
    <3>1. /\ C!Leave(t) /\ state' = state /\ started' = FALSE /\ table' = {}
          /\ overlapped' = overlapped \cup {n \in table : state[n] \in C!Active}
      BY <1>12, <2>2 DEF C!StopNext
    <3>2. Typed /\ \A u \in Threads \ {t} : call'[u] = call[u]
      BY <3>1, LeaveStep
    <3>3. \A n \in SourceNames : Supervised(n)'
      BY <1>1, <1>6, <2>1, <3>1, <3>2
    <3> QED
      BY <1>3, <1>4, <2>1, <3>1, <3>2, <3>3 DEF ControlTyped
  <2>3. CASE call[t].todo # {}
    <3>1. PICK n \in call[t].todo :
            /\ state' = [state EXCEPT ![n] = "stopped"] /\ call' = [call EXCEPT ![t].todo = call[t].todo \ {n}]
            /\ UNCHANGED <<table, started, overlapped>>
      BY <1>12, <2>3 DEF C!StopNext
    <3>2. Typed /\ \A u \in Threads \ {t} : call'[u] = call[u]
      BY <2>1, <3>1, WorkStep
    <3>3. \A m \in SourceNames : state'[m] = state[m] \/ state'[m] = "stopped"
      BY <3>1 DEF ControlTyped
    <3>4. state' \in [SourceNames -> C!States]
      BY <3>1 DEF ControlTyped, C!States
    <3>5. \A m \in SourceNames : Supervised(m)'
      BY <1>1, <1>6, <2>1, <3>1, <3>2, <3>3 DEF C!Active
    <3> QED
      BY <1>2, <1>3, <1>4, <2>1, <3>1, <3>2, <3>4, <3>5 DEF ControlTyped
  <2> QED
    BY <2>2, <2>3
<1>13. ASSUME NEW t \in Threads, NEW n \in SourceNames, C!StopSource(t, n)
       PROVE  ControlInv'
  <2>1. /\ Typed /\ call[t].op # "stopOne" /\ \A u \in Threads \ {t} : call'[u] = call[u]
    BY <1>5, <1>13, EnterStep DEF C!StopSource
  <2>2. state' = [state EXCEPT ![n] = "stopped"] /\ UNCHANGED <<catalogue, known, validated, table, started, overlapped>>
    BY <1>13 DEF C!StopSource
  <2>3. state' \in [SourceNames -> C!States] /\ \A m \in SourceNames : state'[m] = state[m] \/ state'[m] = "stopped"
    BY <2>2 DEF ControlTyped, C!States
  <2>4. \A m \in SourceNames : Supervised(m)'
    BY <1>1, <1>6, <2>1, <2>2, <2>3 DEF C!Active
  <2> QED
    BY <1>2, <1>3, <1>4, <2>1, <2>2, <2>3, <2>4 DEF ControlTyped
<1>14. ASSUME NEW t \in Threads, NEW n \in SourceNames, C!Remove(t, n)
       PROVE  ControlInv'
  <2>1. [op |-> "stopOne", todo |-> {n}] \in Working
    BY DEF Working
  <2>2. /\ Typed /\ call[t].op # "stopOne" /\ \A u \in Threads \ {t} : call'[u] = call[u]
        /\ call'[t] = [op |-> "stopOne", todo |-> {n}]
    BY <1>14, <2>1, EnterStep DEF C!Remove
  <2>3. table' = table \ {n} /\ UNCHANGED <<catalogue, known, validated, state, started, overlapped>>
    BY <1>14 DEF C!Remove
  <2>4. Ending(n)'
    BY <2>2
  <2>5. \A m \in SourceNames : Supervised(m)'
    BY <1>1, <1>6, <2>2, <2>3, <2>4
  <2> QED
    BY <1>2, <1>3, <1>4, <2>2, <2>3, <2>5 DEF ControlTyped
<1>15. ASSUME NEW t \in Threads, C!RemoveEnds(t)
       PROVE  ControlInv'
  <2>1. /\ C!Leave(t) /\ UNCHANGED <<catalogue, known, validated, table, started, overlapped>>
        /\ state' = [n \in SourceNames |-> IF n \in call[t].todo THEN "stopped" ELSE state[n]]
    BY <1>15 DEF C!RemoveEnds
  <2>2. Typed /\ \A u \in Threads \ {t} : call'[u] = call[u]
    BY <2>1, LeaveStep
  <2>3. state' \in [SourceNames -> C!States]
    BY <2>1 DEF ControlTyped, C!States
  <2>4. ASSUME NEW n \in SourceNames, state'[n] \in C!Active
        PROVE  n \in table \cup overlapped \/ Ending(n)'
    <3>1. n \notin call[t].todo /\ state[n] \in C!Active
      BY <2>1, <2>4 DEF C!Active
    <3> QED
      BY <1>1, <2>2, <3>1
  <2> QED
    BY <1>2, <1>3, <1>4, <2>1, <2>2, <2>3, <2>4 DEF ControlTyped
<1>16. ASSUME NEW n \in SourceNames, NEW s \in C!States, C!Change(n, s)
       PROVE  ControlInv'
  <2>1. /\ state[n] \in C!Active /\ state' = [state EXCEPT ![n] = s]
        /\ UNCHANGED <<catalogue, known, validated, table, started, call, overlapped>>
    BY <1>16 DEF C!Change
  <2>2. state' \in [SourceNames -> C!States] /\ \A m \in SourceNames : m # n => state'[m] = state[m]
    BY <2>1 DEF ControlTyped
  <2>3. \A m \in SourceNames : Supervised(m)'
    BY <1>1, <2>1, <2>2
  <2> QED
    BY <1>2, <1>3, <1>4, <2>1, <2>2, <2>3 DEF ControlTyped
<1>17. ASSUME NEW t \in Threads, C!HealthNext(t)
       PROVE  ControlInv'
  <2>1. call[t] \in Asking /\ call[t].op = "health" /\ UNCHANGED <<catalogue, known, validated, table, state, started, overlapped>>
    BY <1>17, CallShape DEF C!HealthNext
  <2>2. Typed /\ \A u \in Threads \ {t} : call'[u] = call[u]
    <3>1. CASE C!Leave(t)
      BY <3>1, LeaveStep
    <3>2. CASE call' = [call EXCEPT ![t].op = "report"]
      <4>1. call'[t] = [call[t] EXCEPT !.op = "report"]
        BY <3>2 DEF ControlTyped
      <4>2. call'[t] \in Asking
        BY <2>1, <4>1 DEF Asking
      <4> QED
        BY <3>2, <4>2 DEF ControlTyped
    <3>3. CASE \E n \in call[t].todo :
                 call' = [call EXCEPT ![t].todo = @ \ {n}, ![t].seen = @ \cup {[name |-> n, state |-> state[n]]}]
      <4>1. PICK n \in call[t].todo :
              call' = [call EXCEPT ![t].todo = @ \ {n}, ![t].seen = @ \cup {[name |-> n, state |-> state[n]]}]
        BY <3>3
      <4>2. n \in SourceNames /\ state[n] \in C!States
        BY <2>1 DEF Asking, ControlTyped
      <4>3. call'[t] = [call[t] EXCEPT !.todo = call[t].todo \ {n}, !.seen = call[t].seen \cup {[name |-> n, state |-> state[n]]}]
        BY <2>1, <4>1 DEF ControlTyped, Asking
      <4>4. call'[t] = [op |-> "health", todo |-> call[t].todo \ {n},
                        seen |-> call[t].seen \cup {[name |-> n, state |-> state[n]]}, flag |-> call[t].flag]
        BY <2>1, <4>3 DEF Asking
      <4>5. call[t].todo \ {n} \subseteq SourceNames /\ call[t].flag \in BOOLEAN
        BY <2>1 DEF Asking
      <4>6. call[t].seen \cup {[name |-> n, state |-> state[n]]} \subseteq [name : SourceNames, state : C!States]
        BY <2>1, <4>2 DEF Asking
      <4>7. call'[t] \in Asking
        BY <4>4, <4>5, <4>6 DEF Asking
      <4> QED
        BY <4>1, <4>7 DEF ControlTyped
    <3> QED
      BY <1>17, <3>1, <3>2, <3>3 DEF C!HealthNext
  <2> QED
    BY <1>1, <1>2, <1>3, <1>4, <1>6, <2>1, <2>2 DEF ControlTyped
<1>18. CASE UNCHANGED C!controlVars
  BY <1>1, <1>2, <1>3, <1>4, <1>18 DEF C!controlVars, ControlTyped
<1> QED
  BY <1>7, <1>8, <1>10, <1>11, <1>12, <1>13, <1>14, <1>15, <1>16, <1>17, <1>18 DEF C!Next

LEMMA ControlInit ==
  ASSUME C!NamesOK, C!Init
  PROVE  ControlInv
<1>1. \A i \in DOMAIN catalogue : i \in Nat /\ catalogue[i].name \in SourceNames
  BY DEF C!Init, C!NamesOK
<1>2. ControlTyped
  BY <1>1 DEF C!Init, ControlTyped, C!States
<1>3. C!RunningIsSupervised /\ C!RegisteredIsEnabled
  BY DEF C!Init, C!RunningIsSupervised, C!RegisteredIsEnabled, C!Active
<1> QED
  BY <1>2, <1>3 DEF ControlInv

\* What a report has seen are states; healthy is what is left when none of them is bad.
LEMMA ReportHolds ==
  ASSUME ControlTyped
  PROVE  C!ReportIsWorst
<1> SUFFICES ASSUME NEW t \in Threads, call[t].op = "report"
             PROVE  /\ call[t].flag /\ (\E r \in call[t].seen : r.state = "failed") => C!Aggregate(call[t]) = "failed"
                    /\ C!Aggregate(call[t]) = "healthy" => \A r \in call[t].seen : r.state = "running"
  BY DEF C!ReportIsWorst
<1>1. call[t].flag \in BOOLEAN /\ \A r \in call[t].seen : r.state \in C!States
  BY CallShape DEF Asking
<1>2. ASSUME call[t].flag, NEW r \in call[t].seen, r.state = "failed"
      PROVE  C!Aggregate(call[t]) = "failed"
  BY <1>2 DEF C!Aggregate
<1>3. ASSUME C!Aggregate(call[t]) = "healthy", NEW r \in call[t].seen
      PROVE  r.state = "running"
  BY <1>1, <1>3 DEF C!Aggregate, C!States
<1> QED
  BY <1>2, <1>3

\* A thread's stop returns: the table is empty, and the others are where they were.
LEMMA StopReturns ==
  ASSUME ControlTyped, [C!Next]_C!controlVars, NEW t \in Threads, call[t].op = "stop", call'[t] = C!Away
  PROVE  table' = {} /\ \A u \in Threads \ {t} : call'[u] = call[u]
<1>1. call'[t] # call[t] /\ call[t] \in Working
  BY CallShape DEF C!Away
<1>2. ASSUME NEW u \in Threads, NEW c, C!Enter(u, c)
      PROVE  FALSE
  BY <1>1, <1>2 DEF C!Enter, ControlTyped
<1>3. ASSUME NEW u \in Threads, C!Leave(u)
      PROVE  u = t /\ \A v \in Threads \ {t} : call'[v] = call[v]
  BY <1>1, <1>3 DEF C!Leave, ControlTyped
<1>4. ASSUME NEW u \in Threads, C!StopNext(u)
      PROVE  table' = {} /\ \A v \in Threads \ {t} : call'[v] = call[v]
  <2>1. CASE call[u].todo = {}
    BY <1>3, <1>4, <2>1 DEF C!StopNext
  <2>2. CASE call[u].todo # {}
    <3>1. PICK n \in call[u].todo : call' = [call EXCEPT ![u].todo = call[u].todo \ {n}]
      BY <1>4, <2>2 DEF C!StopNext
    <3>2. call[u] \in Working /\ u = t
      BY <1>1, <1>4, <3>1, CallShape DEF C!StopNext, ControlTyped
    <3>3. call'[t].op = "stop"
      BY <3>1, <3>2, WorkStep
    <3> QED
      BY <3>3 DEF C!Away
  <2> QED
    BY <2>1, <2>2
<1>5. ASSUME NEW u \in Threads, C!StartNext(u) \/ C!RemoveEnds(u) \/ C!HealthNext(u)
      PROVE  FALSE
  <2>1. u # t
    BY <1>5 DEF C!StartNext, C!RemoveEnds, C!HealthNext
  <2>2. call'[t] = call[t]
    BY <1>3, <1>5, <2>1 DEF C!StartNext, C!RemoveEnds, C!HealthNext, ControlTyped
  <2> QED
    BY <1>1, <2>2
<1>6. CASE UNCHANGED call
  BY <1>1, <1>6
<1> QED
  BY <1>2, <1>4, <1>5, <1>6 DEF C!Next, C!controlVars, C!Load, C!Register, C!Start, C!Stop, C!StartSource,
     C!StopSource, C!Remove, C!Health, C!Change

\* stop leaves no source running, when no other call overlaps it.
LEMMA StopLeavesNothingStep ==
  ASSUME ControlInv, [C!Next]_C!controlVars, NEW t \in Threads, call[t].op = "stop", call'[t] = C!Away,
         overlapped' = {}, \A u \in Threads \ {t} : call[u] = C!Away
  PROVE  \A n \in SourceNames : state'[n] \notin C!Active
<1>1. C!RunningIsSupervised'
  BY ControlStep DEF ControlInv
<1>2. table' = {} /\ \A u \in Threads : call'[u] = C!Away
  BY StopReturns DEF ControlInv
<1>3. \A u \in Threads : call'[u].op = "none"
  BY <1>2 DEF C!Away
<1> QED
  BY <1>1, <1>2, <1>3 DEF C!RunningIsSupervised

\* The adapters' queues and counts.
AdaptersTyped ==
  /\ queue \in [E!Sources -> Seq(Payloads)] /\ drained \in [E!Sources -> Seq(Payloads)]
  /\ admitted \in [E!Sources -> Nat] /\ forwarded \in [E!Sources -> Nat] /\ refused \in [E!Sources -> Nat]
  /\ transport \in [started : BOOLEAN, up : BOOLEAN] /\ storedEvents \subseteq Payloads
\* An identity is stored once.
StoredOnce == \A p, q \in storedEvents : E!Identity(p) = E!Identity(q) => p = q
AdaptersInv == AdaptersTyped /\ StoredOnce /\ E!AcceptedIsAccounted /\ E!StartedTransportIsUp

LEMMA AdaptersStep ==
  ASSUME E!PayloadsOK, AdaptersInv, [E!Next]_E!adapterVars
  PROVE  AdaptersInv'
<1> USE DEF AdaptersInv
<1> DEFINE Sum(s) == Len(queue[s]) + Len(drained[s]) + forwarded[s] + refused[s]
<1>1. \A s \in E!Sources : admitted[s] = Sum(s)
  BY DEF E!AcceptedIsAccounted
<1>2. ASSUME \A s \in E!Sources : admitted'[s] = Sum(s)' PROVE E!AcceptedIsAccounted'
  BY <1>2 DEF E!AcceptedIsAccounted
<1>3. ASSUME NEW p \in Payloads, E!Ingest(p)
      PROVE  AdaptersInv'
  <2>1. p.source \in E!Sources /\ UNCHANGED <<drained, storedEvents, transport, forwarded, refused>>
    BY <1>3 DEF E!PayloadsOK, E!Ingest
  <2>2. CASE E!Fine(p)
    <3> DEFINE q == p.source
    <3>1. queue' = [queue EXCEPT ![q] = Append(queue[q], p)] /\ admitted' = [admitted EXCEPT ![q] = admitted[q] + 1]
      BY <1>3, <2>2 DEF E!Ingest
    <3>2. queue' \in [E!Sources -> Seq(Payloads)] /\ admitted' \in [E!Sources -> Nat]
      BY <2>1, <3>1 DEF AdaptersTyped
    <3> HIDE DEF q
    <3>3. \A s \in E!Sources : s # q => queue'[s] = queue[s] /\ admitted'[s] = admitted[s]
      BY <3>1 DEF AdaptersTyped
    <3>4. Len(queue'[q]) = Len(queue[q]) + 1 /\ admitted'[q] = admitted[q] + 1 /\ Len(queue[q]) \in Nat
      BY <2>1, <3>1 DEF AdaptersTyped, q
    <3>5. q \in E!Sources /\ \A s \in E!Sources : Len(queue[s]) \in Nat /\ Len(drained[s]) \in Nat
      BY <2>1 DEF AdaptersTyped, q
    <3>6. admitted'[q] = Sum(q)'
      BY <1>1, <2>1, <3>4, <3>5 DEF AdaptersTyped
    <3>7. ASSUME NEW s \in E!Sources, s # q PROVE admitted'[s] = Sum(s)'
      BY <1>1, <2>1, <3>3, <3>7
    <3>8. \A s \in E!Sources : admitted'[s] = Sum(s)'
      BY <3>6, <3>7
    <3> QED
      BY <1>2, <2>1, <3>2, <3>8 DEF AdaptersTyped, StoredOnce, E!StartedTransportIsUp
  <2>3. CASE ~E!Fine(p)
    <3>1. UNCHANGED <<queue, admitted>>
      BY <1>3, <2>3 DEF E!Ingest
    <3> QED
      BY <1>1, <1>2, <2>1, <3>1 DEF AdaptersTyped, StoredOnce, E!StartedTransportIsUp
  <2> QED
    BY <2>2, <2>3
<1>4. ASSUME NEW s \in E!Sources, E!ReadEvents(s)
      PROVE  AdaptersInv'
  <2>1. /\ drained' = [drained EXCEPT ![s] = queue[s]] /\ queue' = [queue EXCEPT ![s] = <<>>] /\ drained[s] = <<>>
        /\ UNCHANGED <<storedEvents, transport, admitted, forwarded, refused>>
    BY <1>4 DEF E!ReadEvents
  <2>2. drained' \in [E!Sources -> Seq(Payloads)] /\ queue' \in [E!Sources -> Seq(Payloads)]
    BY <2>1 DEF AdaptersTyped
  <2>3. \A q \in E!Sources : q # s => queue'[q] = queue[q] /\ drained'[q] = drained[q]
    BY <2>1 DEF AdaptersTyped
  <2>4. queue'[s] = <<>> /\ drained'[s] = queue[s] /\ Len(queue[s]) \in Nat
    BY <2>1 DEF AdaptersTyped
  <2>5. Len(queue'[s]) = 0 /\ Len(drained[s]) = 0 /\ Len(drained'[s]) = Len(queue[s])
    BY <2>1, <2>4
  <2>6. \A q \in E!Sources : admitted'[q] = Sum(q)'
    BY <1>1, <2>1, <2>3, <2>4, <2>5 DEF AdaptersTyped
  <2> QED
    BY <1>2, <2>1, <2>2, <2>6 DEF AdaptersTyped, StoredOnce, E!StartedTransportIsUp
<1>5. ASSUME NEW s \in E!Sources, E!Forward(s)
      PROVE  AdaptersInv'
  <2> DEFINE p == Head(drained[s])
  <2>1. /\ drained[s] # <<>> /\ drained' = [drained EXCEPT ![s] = Tail(drained[s])]
        /\ UNCHANGED <<queue, transport, admitted>>
    BY <1>5 DEF E!Forward
  <2>2. drained[s] \in Seq(Payloads)
    BY DEF AdaptersTyped
  <2>3. p \in Payloads /\ Tail(drained[s]) \in Seq(Payloads) /\ Len(Tail(drained[s])) = Len(drained[s]) - 1
        /\ Len(drained[s]) \in Nat /\ Len(drained[s]) > 0
    BY <2>1, <2>2
  <2>4. drained' \in [E!Sources -> Seq(Payloads)] /\ drained'[s] = Tail(drained[s])
        /\ \A q \in E!Sources : q # s => drained'[q] = drained[q]
    BY <2>1, <2>3 DEF AdaptersTyped
  <2>5. \A q \in E!Sources : Len(drained'[q]) = IF q = s THEN Len(drained[q]) - 1 ELSE Len(drained[q])
    BY <2>3, <2>4
  <2>6. \A q \in E!Sources : Len(queue[q]) \in Nat /\ Len(drained[q]) \in Nat
    BY DEF AdaptersTyped
  \* Of the source's payloads one leaves its hand: it is forwarded or refused.
  <2>9. ASSUME \/ forwarded'[s] = forwarded[s] + 1 /\ refused'[s] = refused[s]
               \/ forwarded'[s] = forwarded[s] /\ refused'[s] = refused[s] + 1,
               \A q \in E!Sources : q # s => forwarded'[q] = forwarded[q] /\ refused'[q] = refused[q]
        PROVE  \A q \in E!Sources : admitted'[q] = Sum(q)'
    <3>1. ASSUME NEW q \in E!Sources, q # s PROVE admitted'[q] = Sum(q)'
      BY <1>1, <2>1, <2>4, <2>9, <3>1
    <3>2. admitted'[s] = Sum(s)'
      <4> DEFINE a == Len(queue[s])  h == Len(drained[s])  f == forwarded[s]  r == refused[s]
      <4>1. a \in Nat /\ h \in Nat /\ f \in Nat /\ r \in Nat
        BY <2>6 DEF AdaptersTyped
      <4>2. admitted[s] = a + h + f + r /\ admitted'[s] = admitted[s]
        BY <1>1, <2>1
      <4>3. Len(queue'[s]) = a /\ Len(drained'[s]) = h - 1
        BY <2>1, <2>5
      <4>4. forwarded'[s] + refused'[s] = f + r + 1 /\ forwarded'[s] \in Nat /\ refused'[s] \in Nat
        BY <2>9, <4>1
      <4> HIDE DEF a, h, f, r
      <4>5. a + h + f + r = a + (h - 1) + forwarded'[s] + refused'[s]
        BY <4>1, <4>4
      <4> QED
        BY <4>2, <4>3, <4>5
    <3> QED
      BY <3>1, <3>2
  <2>7. CASE E!Timed(p)
    <3>1. /\ storedEvents' = (IF \E r \in storedEvents : E!Identity(r) = E!Identity(p) THEN storedEvents
                                                                                    ELSE storedEvents \cup {p})
          /\ forwarded' = [forwarded EXCEPT ![s] = forwarded[s] + 1] /\ refused' = refused
      BY <1>5, <2>7 DEF E!Forward
    <3>2. storedEvents' \subseteq Payloads /\ StoredOnce'
      BY <2>3, <3>1 DEF AdaptersTyped, StoredOnce
    <3>3. /\ forwarded' \in [E!Sources -> Nat] /\ forwarded'[s] = forwarded[s] + 1
          /\ \A q \in E!Sources : q # s => forwarded'[q] = forwarded[q]
      BY <3>1 DEF AdaptersTyped
    <3>5. /\ forwarded'[s] = forwarded[s] + 1 /\ refused'[s] = refused[s]
          /\ \A q \in E!Sources : q # s => forwarded'[q] = forwarded[q] /\ refused'[q] = refused[q]
      BY <3>1, <3>3
    <3> HIDE DEF Sum
    <3>4. \A q \in E!Sources : admitted'[q] = Sum(q)'
      BY <2>9, <3>5
    <3> QED
      BY <1>2, <2>1, <2>4, <3>1, <3>2, <3>3, <3>4 DEF AdaptersTyped, E!StartedTransportIsUp
  <2>8. CASE ~E!Timed(p)
    <3>1. refused' = [refused EXCEPT ![s] = refused[s] + 1] /\ UNCHANGED <<storedEvents, forwarded>>
      BY <1>5, <2>8 DEF E!Forward
    <3>2. /\ refused' \in [E!Sources -> Nat] /\ refused'[s] = refused[s] + 1
          /\ \A q \in E!Sources : q # s => refused'[q] = refused[q]
      BY <3>1 DEF AdaptersTyped
    <3>5. /\ forwarded'[s] = forwarded[s] /\ refused'[s] = refused[s] + 1
          /\ \A q \in E!Sources : q # s => forwarded'[q] = forwarded[q] /\ refused'[q] = refused[q]
      BY <3>1, <3>2
    <3> HIDE DEF Sum
    <3>3. \A q \in E!Sources : admitted'[q] = Sum(q)'
      BY <2>9, <3>5
    <3> QED
      BY <1>2, <2>1, <2>4, <3>1, <3>2, <3>3 DEF AdaptersTyped, StoredOnce, E!StartedTransportIsUp
  <2> QED
    BY <2>7, <2>8
<1>6. ASSUME NEW b \in BOOLEAN, E!StartSignal(b)
      PROVE  AdaptersInv'
  <2>1. /\ transport' \in [started : BOOLEAN, up : BOOLEAN] /\ (transport'.started => transport'.up)
        /\ UNCHANGED <<queue, drained, storedEvents, admitted, forwarded, refused>>
    BY <1>6 DEF E!StartSignal, AdaptersTyped, E!StartedTransportIsUp
  <2> QED
    BY <1>1, <1>2, <2>1 DEF AdaptersTyped, StoredOnce, E!StartedTransportIsUp
<1>7. ASSUME NEW s \in E!Sources, NEW up \in BOOLEAN, E!Stop(s, up)
      PROVE  AdaptersInv'
  <2>1. /\ refused' = [refused EXCEPT ![s] = refused[s] + Len(queue[s]) + Len(drained[s])]
        /\ queue' = [queue EXCEPT ![s] = <<>>] /\ drained' = [drained EXCEPT ![s] = <<>>]
        /\ UNCHANGED <<storedEvents, admitted, forwarded>>
    BY <1>7 DEF E!Stop
  <2>2. transport' \in [started : BOOLEAN, up : BOOLEAN] /\ (transport'.started => transport'.up)
    <3>1. transport' = transport \/ transport' = [started |-> FALSE, up |-> up]
      BY <1>7 DEF E!Stop, E!StopTransport
    <3>2. [started |-> FALSE, up |-> up] \in [started : BOOLEAN, up : BOOLEAN]
      OBVIOUS
    <3>3. transport \in [started : BOOLEAN, up : BOOLEAN] /\ (transport.started => transport.up)
      BY DEF AdaptersTyped, E!StartedTransportIsUp
    <3>4. CASE transport' = transport
      BY <3>3, <3>4
    <3>5. CASE transport' = [started |-> FALSE, up |-> up]
      BY <3>2, <3>5
    <3> QED
      BY <3>1, <3>4, <3>5
  <2>3. \A q \in E!Sources : Len(queue[q]) \in Nat /\ Len(drained[q]) \in Nat
    BY DEF AdaptersTyped
  <2>4. /\ queue' \in [E!Sources -> Seq(Payloads)] /\ drained' \in [E!Sources -> Seq(Payloads)]
        /\ queue'[s] = <<>> /\ drained'[s] = <<>>
        /\ \A q \in E!Sources : q # s => queue'[q] = queue[q] /\ drained'[q] = drained[q]
    BY <2>1 DEF AdaptersTyped
  <2>5. /\ refused' \in [E!Sources -> Nat] /\ refused'[s] = refused[s] + Len(queue[s]) + Len(drained[s])
        /\ \A q \in E!Sources : q # s => refused'[q] = refused[q]
    BY <2>1, <2>3 DEF AdaptersTyped
  <2>6. Len(queue'[s]) = 0 /\ Len(drained'[s]) = 0
    BY <2>4
  <2>7. \A q \in E!Sources : admitted'[q] = Sum(q)'
    BY <1>1, <2>1, <2>3, <2>4, <2>5, <2>6 DEF AdaptersTyped
  <2> QED
    BY <1>2, <2>1, <2>2, <2>4, <2>5, <2>7 DEF AdaptersTyped, StoredOnce, E!StartedTransportIsUp
<1>8. CASE UNCHANGED <<queue, drained, storedEvents, transport, admitted, forwarded, refused>>
  BY <1>1, <1>2, <1>8 DEF AdaptersTyped, StoredOnce, E!StartedTransportIsUp
<1>9. \A b \in BOOLEAN, s \in E!Sources : (b /\ s = "signal" /\ transport.up) \in BOOLEAN
  OBVIOUS
<1> QED
  BY <1>3, <1>4, <1>5, <1>6, <1>7, <1>8, <1>9 DEF E!Next, E!StartAdapter, E!adapterVars

LEMMA AdaptersInit == E!Init => AdaptersInv
<1> SUFFICES ASSUME E!Init PROVE AdaptersInv
  OBVIOUS
<1>1. <<>> \in Seq(Payloads) /\ Len(<<>>) = 0
  OBVIOUS
<1>2. AdaptersTyped
  BY <1>1 DEF E!Init, AdaptersTyped
<1>3. E!AcceptedIsAccounted
  BY <1>1 DEF E!Init, E!AcceptedIsAccounted
<1> QED
  BY <1>2, <1>3 DEF E!Init, AdaptersInv, StoredOnce, E!StartedTransportIsUp

\* A message delivered twice has one identity; the converse holds but for the two messengers.
LEMMA IdentityOfMessage ==
  ASSUME NEW p, NEW q, E!SameMessage(p, q)
  PROVE  E!Identity(p) = E!Identity(q)
BY DEF E!SameMessage, E!Identity
LEMMA MessageOfIdentity ==
  ASSUME E!PayloadsOK, NEW r \in Payloads, NEW p \in Payloads, E!Identity(r) = E!Identity(p)
  PROVE  E!SameMessage(r, p) \/ ({r.source, p.source} = {"telegram", "signal"} /\ r.a = p.a /\ r.b = p.b)
BY DEF E!PayloadsOK, E!Sources, E!SameMessage, E!Identity

LEMMA RedeliveryHolds ==
  ASSUME StoredOnce
  PROVE  E!RedeliveryIsOneEvent
BY IdentityOfMessage DEF StoredOnce, E!RedeliveryIsOneEvent

\* What is forwarded becomes an event, or there is one of its identity.
LEMMA MergedStep ==
  ASSUME E!PayloadsOK, AdaptersInv, [E!Next]_E!adapterVars, NEW s \in E!Sources, forwarded'[s] > forwarded[s]
  PROVE  LET p == Head(drained[s]) IN
         \E r \in storedEvents' : E!SameMessage(r, p) \/ ({r.source, p.source} = {"telegram", "signal"} /\ r.a = p.a /\ r.b = p.b)
<1> DEFINE p == Head(drained[s])
<1>1. ASSUME NEW q \in E!Sources, E!Forward(q)
      PROVE  q = s /\ p \in Payloads /\ \E r \in storedEvents' \cap Payloads : E!Identity(r) = E!Identity(p)
  <2>1. q = s
    <3>1. ASSUME q # s PROVE forwarded'[s] = forwarded[s]
      BY <1>1, <3>1 DEF E!Forward, AdaptersInv, AdaptersTyped
    <3> QED
      BY <3>1 DEF AdaptersInv, AdaptersTyped
  <2>2. drained[s] # <<>> /\ drained[s] \in Seq(Payloads)
    BY <1>1, <2>1 DEF E!Forward, AdaptersInv, AdaptersTyped
  <2>3. p \in Payloads
    BY <2>2
  <2>4. E!Timed(p)
    <3>1. ASSUME ~E!Timed(p) PROVE forwarded' = forwarded
      BY <1>1, <2>1, <3>1 DEF E!Forward
    <3> QED
      BY <3>1 DEF AdaptersInv, AdaptersTyped
  <2>5. storedEvents' = (IF \E r \in storedEvents : E!Identity(r) = E!Identity(p) THEN storedEvents
                                                                                ELSE storedEvents \cup {p})
    BY <1>1, <2>1, <2>4 DEF E!Forward
  <2>6. storedEvents \subseteq Payloads
    BY DEF AdaptersInv, AdaptersTyped
  <2> HIDE DEF p
  <2>7. CASE \E r \in storedEvents : E!Identity(r) = E!Identity(p)
    BY <2>1, <2>3, <2>5, <2>6, <2>7
  <2>8. CASE ~\E r \in storedEvents : E!Identity(r) = E!Identity(p)
    BY <2>1, <2>3, <2>5, <2>8
  <2> QED
    BY <2>7, <2>8
<1>2. CASE UNCHANGED forwarded
  BY <1>2 DEF AdaptersInv, AdaptersTyped
<1>3. CASE \E q \in E!Sources : E!Forward(q)
  <2>1. p \in Payloads /\ \E r \in storedEvents' \cap Payloads : E!Identity(r) = E!Identity(p)
    BY <1>1, <1>3
  <2> HIDE DEF p
  <2>2. \E r \in storedEvents' : E!SameMessage(r, p) \/ ({r.source, p.source} = {"telegram", "signal"} /\ r.a = p.a /\ r.b = p.b)
    BY <2>1, MessageOfIdentity
  <2> QED
    BY <2>2 DEF p
<1>4. ASSUME NEW q, E!ReadEvents(q) \/ E!StartAdapter(q) \/ E!Ingest(q) \/ E!StartSignal(q)
      PROVE  UNCHANGED forwarded
  BY <1>4 DEF E!ReadEvents, E!StartAdapter, E!Ingest, E!StartSignal
<1>5. ASSUME NEW q, NEW up, E!Stop(q, up)
      PROVE  UNCHANGED forwarded
  BY <1>5 DEF E!Stop
<1> QED
  BY <1>2, <1>3, <1>4, <1>5 DEF E!Next, E!adapterVars

(***************************************************************************)
(* The pipeline, for any number of publishes, its list and flags changed   *)
(* between any two stages.                                                 *)
(***************************************************************************)

\* A context, and what a stage leaves behind.
Marks == {"saved", "history", "broadcast", "ai", "plugins", "cancelled"}
Contexts ==
  [id : {"none", "given", "made"}, dataId : {"none", "given", "enriched"}, errors : SUBSET P!Known, meta : SUBSET Marks]
StageResults == [stage : P!Known, ok : BOOLEAN, fatal : BOOLEAN]
PipeTyped ==
  /\ stages \in Seq(P!Known) /\ walked \in Seq(P!Known) /\ enabled \subseteq P!Known /\ rank \in [P!Known -> Int] /\ idx \in Nat
  /\ input \in [valid : BOOLEAN, id : {"given", "none"}] /\ ctx \in Contexts /\ results \in Seq(StageResults)
  /\ row \in {"none", "given", "enriched", "fresh"} /\ disturbed \in BOOLEAN
\* Lists without repetition, and stages in the order of their ranks.
InOrder(q, r) == \A i, j \in DOMAIN q : i < j => r[q[i]] <= r[q[j]]
ListsOK == P!IsInjective(stages) /\ P!IsInjective(walked) /\ InOrder(stages, rank)
\* The stages behind the running execute() are those that ran, in order.
RanBehind ==
  /\ \A r \in DOMAIN results :
       \E a \in DOMAIN P!Iterated : a < idx /\ P!Iterated[a] = results[r].stage /\ P!Iterated[a] \in enabled
  /\ \A a \in DOMAIN P!Iterated :
       a < idx /\ P!Iterated[a] \in enabled => \E r \in DOMAIN results : results[r].stage = P!Iterated[a]
  /\ \A j, k \in DOMAIN results : j < k =>
       \E a, b \in DOMAIN P!Iterated : a < b /\ P!Iterated[a] = results[j].stage /\ P!Iterated[b] = results[k].stage
RunsOK == idx > 0 /\ ~disturbed => RanBehind
\* Persistence that is still to come has left no trace.
SaveAhead ==
  idx > 0 /\ ~disturbed =>
    \A i \in DOMAIN P!Iterated : i >= idx /\ P!Iterated[i] = "persistence" => row = "none" /\ "persistence" \notin ctx.errors
\* The id that was given is the one the context and the row have.
IdsOK ==
  input.id = "given" => /\ idx > 0 => ctx.id = "given" /\ ctx.dataId = "given"
                        /\ row # "none" => row = "given" /\ ctx.id = "given"

PipeInv == PipeTyped /\ ListsOK /\ RunsOK /\ SaveAhead /\ P!SaveIsReported /\ IdsOK

\* What reorder() numbers a stage.
Place(q, t, m) == CHOOSE i \in 0 .. m - 1 : q[i + 1] = t

\* A list with an element more, with one less, and with one moved to the front.
InsertedAt(q, s, p) == [i \in 1 .. Len(q) + 1 |-> IF i < p THEN q[i] ELSE IF i = p THEN s ELSE q[i - 1]]
RemovedAt(q, at) == [i \in 1 .. Len(q) - 1 |-> IF i < at THEN q[i] ELSE q[i + 1]]
FrontedAt(q, at) == [i \in DOMAIN q |-> IF i = 1 THEN q[at] ELSE IF i <= at THEN q[i - 1] ELSE q[i]]

\* An append keeps what was there.
LEMMA PipeAppended ==
  ASSUME NEW S, NEW q \in Seq(S), NEW m \in S
  PROVE  /\ Append(q, m) \in Seq(S) /\ DOMAIN q = 1 .. Len(q) /\ DOMAIN Append(q, m) = 1 .. Len(q) + 1 /\ Len(q) \in Nat
         /\ Append(q, m)[Len(q) + 1] = m /\ \A i \in DOMAIN q : Append(q, m)[i] = q[i]
  OBVIOUS

\* A list that takes distinct positions of another one has nothing twice, and keeps its order if they ascend.
LEMMA PipePicked ==
  ASSUME NEW q, NEW n, NEW h, NEW r, P!IsInjective(q),
         \A i \in DOMAIN n : h[i] \in DOMAIN q /\ n[i] = q[h[i]],
         \A i, j \in DOMAIN n : h[i] = h[j] => i = j
  PROVE  /\ P!IsInjective(n) /\ P!Range(n) \subseteq P!Range(q)
         /\ (\A i, j \in DOMAIN n : i < j => h[i] < h[j]) /\ InOrder(q, r) => InOrder(n, r)
  BY DEF P!IsInjective, P!Range, InOrder

\* A stage is put where its rank belongs.
LEMMA PipeInserted ==
  ASSUME NEW q \in Seq(P!Known), NEW r \in [P!Known -> Int], NEW s \in P!Known, s \notin P!Range(q),
         NEW p \in 1 .. Len(q) + 1, NEW at \in Int,
         \A i \in DOMAIN q : i < p <=> r[q[i]] < r[s] \/ (r[q[i]] = r[s] /\ i < at),
         P!IsInjective(q), InOrder(q, r)
  PROVE  LET n == InsertedAt(q, s, p) IN n \in Seq(P!Known) /\ P!IsInjective(n) /\ InOrder(n, r)
<1> DEFINE From(i) == IF i < p THEN i ELSE i - 1
           m == Len(q)
           n == InsertedAt(q, s, p)
<1>1. m \in Nat /\ DOMAIN q = 1 .. m /\ (\A i \in 1 .. m : q[i] \in P!Known /\ q[i] # s) /\ p \in Nat
  BY DEF P!Range
<1>2. \A i \in 1 .. m + 1 : i # p => From(i) \in 1 .. m
  BY <1>1
<1>3. /\ \A i \in 1 .. m + 1 : i # p => n[i] = q[From(i)]
      /\ n[p] = s /\ DOMAIN n = 1 .. m + 1
  BY <1>1 DEF InsertedAt
<1>4. \A i \in 1 .. m + 1 : n[i] \in P!Known
  BY <1>1, <1>2, <1>3
<1>5. n \in Seq(P!Known)
  <2>1. n \in [1 .. m + 1 -> P!Known] /\ m + 1 \in Nat
    BY <1>1, <1>4 DEF InsertedAt
  <2> QED
    BY <2>1
<1>6. \A i, j \in 1 .. m + 1 : i # p /\ j # p /\ i < j => From(i) < From(j)
  BY <1>1
<1>7. \A i \in 1 .. m + 1 : /\ i < p => From(i) < p
                            /\ i > p => ~(From(i) < p)
  BY <1>1
<1> HIDE DEF n
<1>10. \A a, b \in 1 .. m : a < b => q[a] # q[b] /\ r[q[a]] <= r[q[b]]
  BY <1>1 DEF InOrder, P!IsInjective
<1>8. ASSUME NEW i \in 1 .. m + 1, NEW j \in 1 .. m + 1, i < j PROVE n[i] # n[j] /\ r[n[i]] <= r[n[j]]
  <2> HIDE DEF From, m
  <2>1. CASE i = p
    <3>1. j # p /\ j > p
      BY <1>1, <1>8, <2>1
    <3>2. ~(r[q[From(j)]] < r[s]) /\ From(j) \in 1 .. m
      BY <3>1, <1>1, <1>2, <1>7
    <3>3. r[s] \in Int /\ r[q[From(j)]] \in Int
      BY <3>2, <1>1
    <3>4. n[i] = s /\ n[j] = q[From(j)] /\ q[From(j)] # s
      BY <2>1, <3>1, <3>2, <1>1, <1>3
    <3> QED
      BY <3>2, <3>3, <3>4
  <2>2. CASE j = p
    <3>1. i # p /\ i < p
      BY <1>1, <1>8, <2>2
    <3>2. (r[q[From(i)]] < r[s] \/ r[q[From(i)]] = r[s]) /\ From(i) \in 1 .. m
      BY <3>1, <1>1, <1>2, <1>7
    <3>3. r[s] \in Int /\ r[q[From(i)]] \in Int
      BY <3>2, <1>1
    <3>4. n[j] = s /\ n[i] = q[From(i)] /\ q[From(i)] # s
      BY <2>2, <3>1, <3>2, <1>1, <1>3
    <3> QED
      BY <3>2, <3>3, <3>4
  <2>3. CASE i # p /\ j # p
    <3>1. From(i) \in 1 .. m /\ From(j) \in 1 .. m /\ From(i) < From(j)
      BY <2>3, <1>2, <1>6, <1>8
    <3>2. n[i] = q[From(i)] /\ n[j] = q[From(j)]
      BY <2>3, <1>3
    <3> QED
      BY <3>1, <3>2, <1>10
  <2> QED
    BY <2>1, <2>2, <2>3
<1>9. P!IsInjective(n)
  <2> SUFFICES ASSUME NEW i \in 1 .. m + 1, NEW j \in 1 .. m + 1, n[i] = n[j] PROVE i = j
    BY <1>3 DEF P!IsInjective
  <2>1. i < j \/ j < i \/ i = j
    BY <1>1
  <2> QED
    BY <2>1, <1>8
<1> QED
  BY <1>3, <1>5, <1>8, <1>9 DEF InOrder, n

LEMMA PipeRemoved ==
  ASSUME NEW q \in Seq(P!Known), NEW r, NEW at \in DOMAIN q, P!IsInjective(q), InOrder(q, r)
  PROVE  LET n == RemovedAt(q, at) IN n \in Seq(P!Known) /\ P!IsInjective(n) /\ InOrder(n, r)
<1> DEFINE h == [i \in 1 .. Len(q) - 1 |-> IF i < at THEN i ELSE i + 1]
           m == Len(q)
           n == RemovedAt(q, at)
<1>1. m \in Nat /\ m >= 1 /\ DOMAIN q = 1 .. m /\ (\A i \in 1 .. m : q[i] \in P!Known) /\ at \in 1 .. m
  OBVIOUS
<1>2. \A i \in 1 .. m - 1 : h[i] \in 1 .. m
  BY <1>1
<1>3. DOMAIN n = 1 .. m - 1 /\ \A i \in 1 .. m - 1 : n[i] = q[h[i]]
  BY <1>1 DEF RemovedAt
<1>4. n \in Seq(P!Known)
  <2>1. n \in [1 .. m - 1 -> P!Known] /\ m - 1 \in Nat
    BY <1>1, <1>2, <1>3 DEF RemovedAt
  <2> QED
    BY <2>1
<1>5. \A i, j \in 1 .. m - 1 : (i < j => h[i] < h[j]) /\ (h[i] = h[j] => i = j)
  BY <1>1
<1> HIDE DEF h, m, n
<1> QED
  BY <1>1, <1>2, <1>3, <1>4, <1>5, PipePicked DEF n

\* A list with one of its elements moved to the front has the same elements, each once.
LEMMA PipeFronted ==
  ASSUME NEW q \in Seq(P!Known), NEW at \in DOMAIN q, P!IsInjective(q)
  PROVE  LET n == FrontedAt(q, at) IN n \in Seq(P!Known) /\ Len(n) = Len(q) /\ P!IsInjective(n) /\ P!Range(n) = P!Range(q)
<1> DEFINE h == [i \in DOMAIN q |-> IF i = 1 THEN at ELSE IF i <= at THEN i - 1 ELSE i]
           m == Len(q)
           n == FrontedAt(q, at)
<1>1. m \in Nat /\ DOMAIN q = 1 .. m /\ (\A i \in 1 .. m : q[i] \in P!Known) /\ at \in 1 .. m
  OBVIOUS
<1>2. \A i \in 1 .. m : h[i] \in 1 .. m
  BY <1>1
<1>3. DOMAIN n = 1 .. m /\ \A i \in 1 .. m : n[i] = q[h[i]]
  BY <1>1 DEF FrontedAt
<1>4. n \in Seq(P!Known) /\ Len(n) = m
  <2>1. n \in [1 .. m -> P!Known] /\ m \in Nat
    BY <1>1, <1>2, <1>3 DEF FrontedAt
  <2> QED
    BY <2>1
<1>5. \A i, j \in 1 .. m : h[i] = h[j] => i = j
  BY <1>1
<1> HIDE DEF h, n
<1>6. P!IsInjective(n) /\ P!Range(n) \subseteq P!Range(q)
  <2>1. \A i \in DOMAIN n : h[i] \in DOMAIN q /\ n[i] = q[h[i]]
    BY <1>1, <1>2, <1>3
  <2>2. \A i, j \in DOMAIN n : h[i] = h[j] => i = j
    BY <1>3, <1>5
  <2> QED
    BY <2>1, <2>2, PipePicked
<1>7. P!Range(q) \subseteq P!Range(n)
  <2> SUFFICES \A k \in DOMAIN q : \E i \in DOMAIN n : n[i] = q[k]
    BY DEF P!Range
  <2> SUFFICES ASSUME NEW k \in 1 .. m PROVE \E i \in 1 .. m : n[i] = q[k]
    BY <1>1, <1>3
  <2>1. \E i \in 1 .. m : h[i] = k
    <3>1. CASE k = at
      BY <1>1, <3>1 DEF h
    <3>2. CASE k < at
      <4>1. k + 1 \in 1 .. m /\ h[k + 1] = k
        BY <1>1, <3>2 DEF h
      <4> QED
        BY <4>1
    <3>3. CASE k > at
      <4>1. h[k] = k
        BY <1>1, <3>3 DEF h
      <4> QED
        BY <4>1
    <3> QED
      BY <1>1, <3>1, <3>2, <3>3
  <2> QED
    BY <2>1, <1>3
<1> QED
  BY <1>4, <1>6, <1>7 DEF n

\* What a stage does to the context and the row; only persistence touches the row.
LEMMA OutcomeOK ==
  ASSUME PipeTyped, NEW s \in P!Known, NEW o \in P!Outcomes(s)
  PROVE  /\ o.ctx \in Contexts /\ o.ok \in BOOLEAN /\ o.fatal \in BOOLEAN /\ o.ctx.id = ctx.id
         /\ o.ctx.dataId = ctx.dataId \/ ctx.dataId = "none"
         /\ o.row \in {"none", "given", "enriched", "fresh"}
         /\ s # "persistence" =>
              /\ o.row = row /\ ("saved" \in o.ctx.meta <=> "saved" \in ctx.meta)
              /\ "persistence" \in o.ctx.errors <=> "persistence" \in ctx.errors
         /\ s = "persistence" =>
              \/ o.row = P!StoredId /\ "saved" \in o.ctx.meta /\ o.ctx.errors = ctx.errors
              \/ o.row = row /\ o.ctx.meta = ctx.meta
<1>0. ctx \in Contexts /\ input.valid \in BOOLEAN /\ row \in {"none", "given", "enriched", "fresh"}
  BY DEF PipeTyped
<1> DEFINE Marked(m) == [ctx EXCEPT !.meta = @ \cup {m}]
           Blamed(t) == [ctx EXCEPT !.errors = @ \cup {t}]
<1>1. ASSUME NEW m \in Marks
      PROVE  /\ Marked(m) \in Contexts /\ Marked(m).id = ctx.id /\ Marked(m).dataId = ctx.dataId
             /\ Marked(m).errors = ctx.errors /\ Marked(m).meta = ctx.meta \cup {m}
  BY <1>0 DEF Contexts
<1>2. ASSUME NEW t \in P!Known
      PROVE  /\ Blamed(t) \in Contexts /\ Blamed(t).id = ctx.id /\ Blamed(t).dataId = ctx.dataId
             /\ Blamed(t).errors = ctx.errors \cup {t} /\ Blamed(t).meta = ctx.meta
  BY <1>0 DEF Contexts
<1>3. \A c, r : \A ok, f \in BOOLEAN : /\ P!Outcome(c, ok, f, r).ctx = c /\ P!Outcome(c, ok, f, r).row = r
                                      /\ P!Outcome(c, ok, f, r).ok \in BOOLEAN /\ P!Outcome(c, ok, f, r).fatal \in BOOLEAN
  BY DEF P!Outcome
<1>4. \A c : P!Fine(c).ctx = c /\ P!Fine(c).ok \in BOOLEAN /\ P!Fine(c).fatal \in BOOLEAN /\ P!Fine(c).row = row
  BY DEF P!Fine, P!Outcome
<1>5. \A t : P!Noted(t) = P!Fine(Blamed(t))
  BY DEF P!Noted
<1> HIDE DEF Marked, Blamed
<1> DEFINE OK == /\ o.ctx \in Contexts /\ o.ctx.id = ctx.id
                 /\ o.ctx.dataId = ctx.dataId \/ ctx.dataId = "none"
                 /\ o.row = row /\ ("saved" \in o.ctx.meta <=> "saved" \in ctx.meta)
                 /\ ("persistence" \in o.ctx.errors <=> "persistence" \in ctx.errors)
<1>6. ASSUME NEW t \in P!Known, t # "persistence", o = P!Fine(Blamed(t)) PROVE OK
  BY <1>2, <1>4, <1>6
<1>7. ASSUME NEW m \in Marks, m # "saved", o = P!Fine(Marked(m)) PROVE OK
  BY <1>1, <1>4, <1>7
<1>8. ASSUME o = P!Fine(ctx) PROVE OK
  BY <1>0, <1>4, <1>8
<1>12. o.ok \in BOOLEAN /\ o.fatal \in BOOLEAN
  <2>1. \A c : o = P!Fine(c) => o.ok \in BOOLEAN /\ o.fatal \in BOOLEAN
    BY <1>4
  <2>2. \A c, r : \A ok, f \in BOOLEAN : o = P!Outcome(c, ok, f, r) => o.ok \in BOOLEAN /\ o.fatal \in BOOLEAN
    BY <1>3
  <2>3. (\E c : o = P!Fine(c)) \/ \E c, r : \E ok, f \in BOOLEAN : o = P!Outcome(c, ok, f, r)
    <3>1. s # "persistence" /\ s # "custom" => \E c : o = P!Fine(c)
      BY DEF P!Outcomes, P!Known, P!Validation, P!Enrichment, P!History, P!Broadcast, P!AI, P!Plugins, P!Noted
    <3>2. s = "persistence" => (\E c : o = P!Fine(c)) \/ \E c, r : o = P!Outcome(c, TRUE, FALSE, r)
      BY DEF P!Outcomes, P!Persistence, P!Noted
    <3>3. s = "custom" => (\E c : o = P!Fine(c)) \/ \E c, r : o = P!Outcome(c, FALSE, TRUE, r)
      BY DEF P!Outcomes, P!Custom
    <3> QED
      BY <3>1, <3>2, <3>3
  <2> QED
    BY <2>1, <2>2, <2>3
<1>9. CASE s = "persistence"
  <2>1. P!StoredId \in {"none", "given", "enriched", "fresh"}
    BY <1>0 DEF P!StoredId, Contexts
  <2>2. o = P!Outcome(Marked("saved"), TRUE, FALSE, P!StoredId) \/ o = P!Fine(Blamed("persistence"))
    BY <1>5, <1>9 DEF P!Outcomes, P!Persistence, Marked
  <2>3. CASE o = P!Outcome(Marked("saved"), TRUE, FALSE, P!StoredId)
    <3>1. o.ctx = Marked("saved") /\ o.row = P!StoredId
      BY <2>3 DEF P!Outcome
    <3>2. Marked("saved").id = ctx.id /\ Marked("saved").dataId = ctx.dataId /\ Marked("saved").errors = ctx.errors
          /\ "saved" \in Marked("saved").meta /\ Marked("saved") \in Contexts
      <4>1. "saved" \in Marks
        BY DEF Marks
      <4> QED
        BY <4>1, <1>1
    <3> QED
      BY <1>9, <1>12, <2>1, <3>1, <3>2
  <2>4. CASE o = P!Fine(Blamed("persistence"))
    BY <1>0, <1>2, <1>4, <1>9, <1>12, <2>4 DEF P!Known
  <2> QED
    BY <2>2, <2>3, <2>4
<1>10. ASSUME s # "persistence" PROVE OK
  <2>0. /\ "validation" \in P!Known /\ "broadcast" \in P!Known /\ "ai" \in P!Known
        /\ "validation" # "persistence" /\ "broadcast" # "persistence" /\ "ai" # "persistence"
        /\ "history" # "saved" /\ "broadcast" # "saved" /\ "ai" # "saved" /\ "plugins" # "saved"
        /\ "history" \in Marks /\ "broadcast" \in Marks /\ "ai" \in Marks /\ "plugins" \in Marks
    BY DEF P!Known, Marks
  <2> HIDE DEF OK
  <2>1. CASE s = "validation"
    <3>1. o = P!Fine(ctx) \/ o = P!Fine(Blamed("validation"))
      BY <1>5, <2>1 DEF P!Outcomes, P!Validation
    <3> QED
      BY <1>6, <1>8, <2>0, <3>1
  <2>2. CASE s = "enrichment"
    <3>1. PICK c : o = P!Fine(c) /\ c = [ctx EXCEPT !.dataId = IF @ = "none" THEN "enriched" ELSE @]
      BY <2>2 DEF P!Outcomes, P!Enrichment
    <3>2. c \in Contexts /\ c.id = ctx.id /\ c.meta = ctx.meta /\ c.errors = ctx.errors
          /\ (c.dataId = ctx.dataId \/ ctx.dataId = "none")
      BY <1>0, <3>1 DEF Contexts
    <3> QED
      BY <1>0, <1>4, <1>10, <3>1, <3>2 DEF OK
  <2>3. CASE s = "history"
    <3>1. o = P!Fine(Marked("history"))
      BY <2>3 DEF P!Outcomes, P!History, Marked
    <3> QED
      BY <1>7, <2>0, <3>1
  <2>4. CASE s = "broadcast"
    <3>1. o = P!Fine(Marked("broadcast")) \/ o = P!Fine(Blamed("broadcast"))
      BY <1>5, <2>4 DEF P!Outcomes, P!Broadcast, Marked
    <3> QED
      BY <1>6, <1>7, <2>0, <3>1
  <2>5. CASE s = "ai"
    <3>1. o = P!Fine(ctx) \/ o = P!Fine(Marked("ai")) \/ o = P!Fine(Blamed("ai"))
      BY <1>5, <2>5 DEF P!Outcomes, P!AI, Marked
    <3> QED
      BY <1>6, <1>7, <1>8, <2>0, <3>1
  <2>6. CASE s = "plugins"
    <3>1. o = P!Fine(Marked("plugins"))
      BY <2>6 DEF P!Outcomes, P!Plugins, Marked
    <3> QED
      BY <1>7, <2>0, <3>1
  <2>7. CASE s = "custom"
    <3>1. o = P!Fine(ctx) \/ o = P!Outcome(ctx, FALSE, TRUE, row)
      BY <2>7 DEF P!Outcomes, P!Custom
    <3> QED
      BY <1>0, <1>8, <1>10, <3>1 DEF OK, P!Outcome
  <2> QED
    BY <1>10, <2>1, <2>2, <2>3, <2>4, <2>5, <2>6, <2>7 DEF P!Known
<1>11. CASE s # "persistence"
  <2>1. OK
    BY <1>10, <1>11
  <2>2. o.row = row /\ o.row \in {"none", "given", "enriched", "fresh"}
    BY <1>0, <2>1
  <2> QED
    BY <1>11, <1>12, <2>1, <2>2
<1> QED
  BY <1>9, <1>11

LEMMA PipeInit == P!PresentOK /\ P!Init => PipeInv
<1> SUFFICES ASSUME P!PresentOK, P!Init PROVE PipeInv
  OBVIOUS
<1>1. stages = Built /\ walked = <<>> /\ enabled = P!Known /\ rank = P!DefaultRank /\ idx = 0 /\ row = "none" /\ results = <<>>
      /\ input = [valid |-> TRUE, id |-> "given"] /\ ctx = P!NoContext
  BY DEF P!Init
<1>2. disturbed \in BOOLEAN
  BY DEF P!Init
<1>3. stages \in Seq(P!Known) /\ walked \in Seq(P!Known) /\ results \in Seq(StageResults)
  BY <1>1 DEF P!PresentOK
<1>4. P!DefaultRank \in [P!Known -> Int]
  BY DEF P!DefaultRank, P!Known
<1>5. ctx \in Contexts /\ input \in [valid : BOOLEAN, id : {"given", "none"}]
  BY <1>1 DEF Contexts, P!NoContext
<1>6. PipeTyped
  BY <1>1, <1>2, <1>3, <1>4, <1>5 DEF PipeTyped
<1>7. ListsOK
  BY <1>1, <1>4, <1>3 DEF ListsOK, InOrder, P!PresentOK, P!IsInjective
<1>8. RunsOK /\ SaveAhead /\ IdsOK
  BY <1>1 DEF RunsOK, SaveAhead, IdsOK
<1>9. P!SaveIsReported
  BY <1>1 DEF P!SaveIsReported, P!NoContext
<1> QED
  BY <1>6, <1>7, <1>8, <1>9 DEF PipeInv

\* A turn of the loop that runs a stage.
LEMMA PipeRuns == PipeInv /\ P!StageRuns => PipeInv'
<1> SUFFICES ASSUME PipeInv, P!StageRuns PROVE PipeInv'
  OBVIOUS
<1> DEFINE s == P!Iterated[idx]
           It == P!Iterated
<1>1. /\ PipeTyped /\ ListsOK /\ RunsOK /\ SaveAhead /\ P!SaveIsReported /\ IdsOK
      /\ ctx \in Contexts /\ idx \in Nat /\ results \in Seq(StageResults)
  BY DEF PipeInv, PipeTyped
<1>2. It \in Seq(P!Known) /\ P!IsInjective(It)
  BY <1>1 DEF P!Iterated, PipeTyped, ListsOK
<1>3. idx \in DOMAIN It /\ idx > 0 /\ s \in P!Known /\ s \in enabled
  BY <1>1, <1>2 DEF P!StageRuns
<1>4. PICK o \in P!Outcomes(s) :
        /\ ctx' = (IF o.fatal THEN [o.ctx EXCEPT !.meta = @ \cup {"cancelled"}] ELSE o.ctx)
        /\ row' = o.row
        /\ results' = Append(results, [stage |-> s, ok |-> o.ok, fatal |-> o.fatal])
  BY DEF P!StageRuns
<1>5. /\ idx' = idx + 1 /\ stages' = stages /\ enabled' = enabled /\ rank' = rank /\ walked' = walked /\ input' = input
  BY DEF P!StageRuns
<1>6. disturbed' = disturbed
  BY DEF P!StageRuns
<1>7. It' = It
  BY <1>5 DEF P!Iterated
<1>8. /\ o.ctx \in Contexts /\ o.ok \in BOOLEAN /\ o.fatal \in BOOLEAN /\ o.ctx.id = ctx.id
      /\ o.ctx.dataId = ctx.dataId \/ ctx.dataId = "none"
      /\ o.row \in {"none", "given", "enriched", "fresh"}
  BY <1>1, <1>3, <1>4, OutcomeOK
<1>9. s # "persistence" => /\ o.row = row /\ ("saved" \in o.ctx.meta <=> "saved" \in ctx.meta)
                           /\ "persistence" \in o.ctx.errors <=> "persistence" \in ctx.errors
  BY <1>1, <1>3, <1>4, OutcomeOK
<1>10. s = "persistence" => \/ o.row = P!StoredId /\ "saved" \in o.ctx.meta /\ o.ctx.errors = ctx.errors
                            \/ o.row = row /\ o.ctx.meta = ctx.meta
  BY <1>1, <1>3, <1>4, OutcomeOK
<1>11. /\ ctx' \in Contexts /\ ctx'.id = o.ctx.id /\ ctx'.dataId = o.ctx.dataId /\ ctx'.errors = o.ctx.errors
       /\ "saved" \in ctx'.meta <=> "saved" \in o.ctx.meta
  <2>1. CASE o.fatal
    BY <1>4, <1>8, <2>1 DEF Contexts, Marks
  <2>2. CASE ~o.fatal
    BY <1>4, <1>8, <2>2
  <2> QED
    BY <2>1, <2>2
<1> DEFINE res == [stage |-> s, ok |-> o.ok, fatal |-> o.fatal]
<1>12. res \in StageResults /\ res.stage = s
  BY <1>3, <1>8 DEF StageResults
<1>13. results' = Append(results, res)
  BY <1>4
<1> HIDE DEF res, s, It
<1>14. /\ results' \in Seq(StageResults) /\ DOMAIN results = 1 .. Len(results) /\ Len(results) \in Nat
       /\ DOMAIN results' = 1 .. Len(results) + 1
       /\ results'[Len(results) + 1] = res /\ \A i \in DOMAIN results : results'[i] = results[i]
  BY <1>1, <1>12, <1>13, PipeAppended
<1>15. PipeTyped'
  <2>1. stages \in Seq(P!Known) /\ walked \in Seq(P!Known) /\ enabled \subseteq P!Known /\ rank \in [P!Known -> Int]
        /\ input \in [valid : BOOLEAN, id : {"given", "none"}]
    BY <1>1 DEF PipeTyped
  <2>2. disturbed' \in BOOLEAN
    BY <1>1, <1>6 DEF PipeTyped
  <2>3. idx' \in Nat /\ row' \in {"none", "given", "enriched", "fresh"}
    BY <1>1, <1>4, <1>5, <1>8
  <2> QED
    BY <1>5, <1>11, <1>14, <2>1, <2>2, <2>3 DEF PipeTyped
<1>16. ListsOK'
  BY <1>1, <1>5 DEF ListsOK
<1>17. RunsOK'
  <2> SUFFICES ASSUME ~disturbed
               PROVE  /\ \A r \in DOMAIN results' : \E a \in DOMAIN It : a < idx + 1 /\ It[a] = results'[r].stage /\ It[a] \in enabled
                      /\ \A a \in DOMAIN It : a < idx + 1 /\ It[a] \in enabled => \E r \in DOMAIN results' : results'[r].stage = It[a]
                      /\ \A j, k \in DOMAIN results' : j < k =>
                           \E a, b \in DOMAIN It : a < b /\ It[a] = results'[j].stage /\ It[b] = results'[k].stage
    BY <1>5, <1>6, <1>7 DEF RunsOK, RanBehind, It
  <2>1. /\ \A r \in DOMAIN results : \E a \in DOMAIN It : a < idx /\ It[a] = results[r].stage /\ It[a] \in enabled
        /\ \A a \in DOMAIN It : a < idx /\ It[a] \in enabled => \E r \in DOMAIN results : results[r].stage = It[a]
        /\ \A j, k \in DOMAIN results : j < k =>
             \E a, b \in DOMAIN It : a < b /\ It[a] = results[j].stage /\ It[b] = results[k].stage
    BY <1>1, <1>3 DEF RunsOK, RanBehind, It
  <2>2. DOMAIN It \subseteq Nat /\ idx \in Nat /\ s = It[idx] /\ results'[Len(results) + 1].stage = s
    BY <1>1, <1>2, <1>12, <1>14 DEF s, It
  <2>3. ASSUME NEW r \in DOMAIN results' PROVE \E a \in DOMAIN It : a < idx + 1 /\ It[a] = results'[r].stage /\ It[a] \in enabled
    <3>1. CASE r \in DOMAIN results
      <4>1. PICK a \in DOMAIN It : a < idx /\ It[a] = results[r].stage /\ It[a] \in enabled
        BY <2>1, <3>1
      <4> QED
        BY <4>1, <3>1, <2>2, <1>14
    <3>2. CASE r = Len(results) + 1
      <4>1. idx < idx + 1
        BY <2>2
      <4> QED
        BY <3>2, <4>1, <2>2, <1>3
    <3> QED
      BY <3>1, <3>2, <1>14
  <2>4. ASSUME NEW a \in DOMAIN It, a < idx + 1, It[a] \in enabled PROVE \E r \in DOMAIN results' : results'[r].stage = It[a]
    <3>1. CASE a < idx
      <4>1. PICK r \in DOMAIN results : results[r].stage = It[a]
        BY <2>1, <2>4, <3>1
      <4>2. r \in DOMAIN results' /\ results'[r] = results[r]
        BY <1>14
      <4> QED
        BY <4>1, <4>2
    <3>2. CASE a = idx
      <4>1. Len(results) + 1 \in DOMAIN results'
        BY <1>14
      <4> QED
        BY <3>2, <4>1, <2>2
    <3> QED
      BY <3>1, <3>2, <2>2, <2>4
  <2>5. ASSUME NEW j \in DOMAIN results', NEW k \in DOMAIN results', j < k
        PROVE  \E a, b \in DOMAIN It : a < b /\ It[a] = results'[j].stage /\ It[b] = results'[k].stage
    <3>1. j \in DOMAIN results
      BY <1>14, <2>5
    <3>2. CASE k \in DOMAIN results
      <4>1. results'[j] = results[j] /\ results'[k] = results[k]
        BY <3>1, <3>2, <1>14
      <4> QED
        BY <4>1, <3>1, <3>2, <2>1, <2>5
    <3>3. CASE k = Len(results) + 1
      <4>1. PICK a \in DOMAIN It : a < idx /\ It[a] = results[j].stage
        BY <3>1, <2>1
      <4> QED
        BY <4>1, <3>1, <3>3, <2>2, <1>3, <1>14
    <3> QED
      BY <3>2, <3>3, <1>14
  <2> QED
    BY <2>3, <2>4, <2>5
<1>18. \A i \in DOMAIN It : i >= idx + 1 /\ It[i] = "persistence" => i >= idx /\ s # "persistence"
  <2> SUFFICES ASSUME NEW i \in DOMAIN It, i >= idx + 1, It[i] = "persistence" PROVE i >= idx /\ s # "persistence"
    OBVIOUS
  <2>1. i >= idx /\ i # idx
    BY <1>1, <1>2
  <2> QED
    BY <2>1, <1>2, <1>3 DEF s, It, P!IsInjective
<1>19. SaveAhead'
  <2> SUFFICES ASSUME ~disturbed, NEW i \in DOMAIN It, i >= idx + 1, It[i] = "persistence"
               PROVE  row' = "none" /\ "persistence" \notin ctx'.errors
    BY <1>5, <1>6, <1>7 DEF SaveAhead, It
  <2>1. i >= idx /\ s # "persistence"
    BY <1>18
  <2>2. row = "none" /\ "persistence" \notin ctx.errors
    BY <1>1, <1>3, <2>1 DEF SaveAhead, It
  <2> QED
    BY <1>4, <1>9, <1>11, <2>1, <2>2
<1>20. P!StoredId # "none" /\ (ctx.dataId = "given" => P!StoredId = "given")
  BY DEF P!StoredId
<1>21. P!SaveIsReported'
  <2> SUFFICES ASSUME ~disturbed PROVE ("saved" \in ctx'.meta <=> row' # "none") /\ ("persistence" \in ctx'.errors => row' = "none")
    BY <1>6 DEF P!SaveIsReported
  <2>1. ("saved" \in ctx.meta <=> row # "none") /\ ("persistence" \in ctx.errors => row = "none")
    BY <1>1 DEF P!SaveIsReported
  <2>2. CASE s # "persistence"
    BY <1>4, <1>9, <1>11, <2>1, <2>2
  <2>3. CASE s = "persistence"
    <3>1. row = "none" /\ "persistence" \notin ctx.errors
      <4>1. idx >= idx
        BY <1>1
      <4> QED
        BY <1>1, <1>3, <2>3, <4>1 DEF SaveAhead, s, It
    <3> QED
      BY <1>4, <1>10, <1>11, <1>20, <2>1, <2>3, <3>1
  <2> QED
    BY <2>2, <2>3
<1>22. IdsOK'
  <2> SUFFICES ASSUME input.id = "given"
               PROVE  ctx'.id = "given" /\ ctx'.dataId = "given" /\ (row' # "none" => row' = "given")
    BY <1>5 DEF IdsOK
  <2>1. ctx.id = "given" /\ ctx.dataId = "given" /\ (row # "none" => row = "given")
    BY <1>1, <1>3 DEF IdsOK
  <2>2. row' = row \/ row' = P!StoredId
    BY <1>4, <1>9, <1>10
  <2> QED
    BY <1>8, <1>11, <1>20, <2>1, <2>2
<1> QED
  BY <1>15, <1>16, <1>17, <1>19, <1>21, <1>22 DEF PipeInv

\* A change of the list or of a flag: nothing is claimed of a run it disturbs.
LEMMA PipeStep == PipeInv /\ [P!Next]_P!vars => PipeInv'
<1> SUFFICES ASSUME PipeInv, [P!Next]_P!vars PROVE PipeInv'
  OBVIOUS
<1>1. /\ PipeTyped /\ ListsOK /\ RunsOK /\ SaveAhead /\ P!SaveIsReported /\ IdsOK
      /\ stages \in Seq(P!Known) /\ P!IsInjective(stages) /\ InOrder(stages, rank) /\ rank \in [P!Known -> Int] /\ idx \in Nat
  BY DEF PipeInv, PipeTyped, ListsOK
<1>2. ASSUME UNCHANGED <<idx, input, ctx, results, row>>, stages' \in Seq(P!Known), walked' \in Seq(P!Known),
             enabled' \subseteq P!Known, rank' \in [P!Known -> Int], disturbed' \in BOOLEAN, ListsOK',
             ~disturbed' => ~disturbed /\ (idx > 0 => P!Iterated' = P!Iterated /\ enabled' = enabled)
      PROVE  PipeInv'
  <2>1. PipeTyped'
    BY <1>1, <1>2 DEF PipeTyped
  <2>2. RunsOK'
    <3> SUFFICES ASSUME idx > 0, ~disturbed' PROVE RunsOK'
      BY <1>2 DEF RunsOK
    <3> QED
      BY <1>1, <1>2 DEF RunsOK, RanBehind
  <2>3. SaveAhead'
    <3> SUFFICES ASSUME idx > 0, ~disturbed' PROVE SaveAhead'
      BY <1>2 DEF SaveAhead
    <3> QED
      BY <1>1, <1>2 DEF SaveAhead
  <2>4. P!SaveIsReported' /\ IdsOK'
    BY <1>1, <1>2 DEF P!SaveIsReported, IdsOK
  <2> QED
    BY <1>2, <2>1, <2>2, <2>3, <2>4 DEF PipeInv
<1>3. ASSUME NEW v \in BOOLEAN, NEW i \in {"given", "none"}, P!Publish(v, i) PROVE PipeInv'
  <2>1. /\ stages' = stages /\ enabled' = enabled /\ rank' = rank /\ idx' = 1 /\ walked' = <<>> /\ results' = <<>> /\ row' = "none"
        /\ input' = [valid |-> v, id |-> i]
        /\ ctx' = [P!NoContext EXCEPT !.id = IF i = "given" THEN "given" ELSE "made", !.dataId = i]
    BY <1>3 DEF P!Publish
  <2>2. disturbed' \in BOOLEAN
    BY <1>3 DEF P!Publish
  <2>3. ctx' \in Contexts /\ ctx'.errors = {} /\ ctx'.meta = {} /\ (i = "given" => ctx'.id = "given" /\ ctx'.dataId = "given")
    BY <2>1 DEF Contexts, P!NoContext
  <2>4. input' \in [valid : BOOLEAN, id : {"given", "none"}] /\ input'.id = i
    BY <2>1
  <2>5. PipeTyped'
    BY <1>1, <2>1, <2>2, <2>3, <2>4 DEF PipeTyped
  <2>6. ListsOK'
    BY <1>1, <2>1 DEF ListsOK, P!IsInjective
  <2>7. RunsOK'
    <3>1. DOMAIN results' = {}
      BY <2>1
    <3>2. P!Iterated' \in Seq(P!Known)
      BY <1>1, <2>1 DEF P!Iterated
    <3>3. \A a \in DOMAIN P!Iterated' : ~(a < idx')
      BY <3>2, <2>1
    <3> QED
      BY <3>1, <3>3 DEF RunsOK, RanBehind
  <2>8. SaveAhead' /\ IdsOK'
    BY <2>1, <2>3, <2>4 DEF SaveAhead, IdsOK
  <2>9. P!SaveIsReported'
    BY <2>1, <2>3 DEF P!SaveIsReported
  <2> QED
    BY <2>5, <2>6, <2>7, <2>8, <2>9 DEF PipeInv
<1>4. CASE P!StageRuns
  BY <1>4, PipeRuns
<1>5. CASE P!StageDisabled \/ P!Return
  <2>1. UNCHANGED <<stages, enabled, rank, walked, input, ctx, results, row>> /\ P!Iterated' = P!Iterated
    BY <1>5 DEF P!StageDisabled, P!Return, P!Iterated
  <2>2. disturbed' = disturbed
    BY <1>5 DEF P!StageDisabled, P!Return
  <2>3. idx' \in Nat /\ ((idx' = idx + 1 /\ idx > 0 /\ P!Iterated[idx] \notin enabled) \/ idx' = 0)
    BY <1>1, <1>5 DEF P!StageDisabled, P!Return
  <2>4. PipeTyped'
    BY <1>1, <2>1, <2>2, <2>3 DEF PipeTyped
  <2>5. ListsOK' /\ IdsOK'
    BY <1>1, <2>1, <2>3 DEF ListsOK, IdsOK
  <2>6. P!SaveIsReported'
    BY <1>1, <2>1, <2>2 DEF P!SaveIsReported
  <2>7. CASE idx' = 0
    BY <2>4, <2>5, <2>6, <2>7 DEF PipeInv, RunsOK, SaveAhead
  <2>8. CASE idx' = idx + 1 /\ idx > 0 /\ P!Iterated[idx] \notin enabled
    <3>1. P!Iterated \in Seq(P!Known)
      BY <1>1 DEF P!Iterated, PipeTyped
    <3>2. \A a \in DOMAIN P!Iterated : /\ a < idx + 1 /\ P!Iterated[a] \in enabled => a < idx
                                       /\ a < idx => a < idx + 1
                                       /\ a >= idx + 1 => a >= idx
      BY <1>1, <2>8, <3>1
    <3>3. SaveAhead'
      BY <1>1, <2>1, <2>2, <2>8, <3>2 DEF SaveAhead
    <3>4. RunsOK'
      <4> SUFFICES ASSUME ~disturbed PROVE RunsOK'
        BY <2>2 DEF RunsOK
      <4>1. RanBehind
        BY <1>1, <2>8 DEF RunsOK
      <4>2. RanBehind'
        BY <4>1, <3>2, <2>1, <2>8 DEF RanBehind
      <4> QED
        BY <4>2 DEF RunsOK
    <3> QED
      BY <2>4, <2>5, <2>6, <3>3, <3>4 DEF PipeInv
  <2> QED
    BY <2>3, <2>7, <2>8
<1>6. ASSUME NEW s \in P!Known, P!Toggle(s) PROVE PipeInv'
  <2>1. UNCHANGED <<idx, input, ctx, results, row, stages, rank, walked>> /\ enabled' \subseteq P!Known
    BY <1>1, <1>6 DEF P!Toggle, P!Changing, PipeTyped
  <2>2. disturbed' \in BOOLEAN /\ (~disturbed' => ~disturbed /\ ~(idx > 0))
    BY <1>6 DEF P!Toggle
  <2>3. ListsOK' /\ walked' \in Seq(P!Known)
    BY <1>1, <2>1 DEF ListsOK, PipeTyped
  <2> QED
    BY <1>1, <1>2, <2>1, <2>2, <2>3
<1>7. ASSUME NEW s \in P!Known, NEW at \in {1, Len(stages) + 1}, P!AddStage(s, at) PROVE PipeInv'
  <2>1. UNCHANGED <<idx, input, ctx, results, row, enabled, rank, walked>> /\ s \notin P!Range(stages)
    BY <1>7 DEF P!AddStage, P!Changing
  <2>2. PICK p \in 1 .. Len(stages) + 1 :
          /\ \A i \in DOMAIN stages : i < p <=> rank[stages[i]] < rank[s] \/ (rank[stages[i]] = rank[s] /\ i < at)
          /\ stages' = InsertedAt(stages, s, p)
    BY <1>7 DEF P!AddStage, InsertedAt
  <2>3. disturbed' \in BOOLEAN /\ (~disturbed' => ~disturbed /\ (idx > 0 => walked # <<>>))
    BY <1>7 DEF P!AddStage
  <2>4. at \in Int
    BY <1>1
  <2>5. stages' \in Seq(P!Known) /\ P!IsInjective(stages') /\ InOrder(stages', rank)
    BY <1>1, <2>1, <2>2, <2>4, PipeInserted
  <2>6. ListsOK' /\ walked' \in Seq(P!Known) /\ enabled' \subseteq P!Known
    BY <1>1, <2>1, <2>5 DEF ListsOK, PipeTyped
  <2>7. walked # <<>> => P!Iterated' = P!Iterated
    BY <2>1 DEF P!Iterated
  <2> QED
    BY <1>1, <1>2, <2>1, <2>3, <2>5, <2>6, <2>7
<1>8. ASSUME NEW s \in P!Known, P!RemoveStage(s) PROVE PipeInv'
  <2>1. UNCHANGED <<idx, input, ctx, results, row, enabled, rank, walked>> /\ s \in P!Range(stages)
        /\ stages' = RemovedAt(stages, P!Position(s))
    BY <1>8 DEF P!RemoveStage, P!Changing, RemovedAt
  <2>2. P!Position(s) \in DOMAIN stages
    BY <2>1 DEF P!Position, P!Range
  <2>3. disturbed' \in BOOLEAN /\ (~disturbed' => ~disturbed /\ (idx > 0 => walked # <<>>))
    BY <1>8 DEF P!RemoveStage
  <2>5. stages' \in Seq(P!Known) /\ P!IsInjective(stages') /\ InOrder(stages', rank)
    BY <1>1, <2>1, <2>2, PipeRemoved
  <2>6. ListsOK' /\ walked' \in Seq(P!Known) /\ enabled' \subseteq P!Known
    BY <1>1, <2>1, <2>5 DEF ListsOK, PipeTyped
  <2>7. walked # <<>> => P!Iterated' = P!Iterated
    BY <2>1 DEF P!Iterated
  <2> QED
    BY <1>1, <1>2, <2>1, <2>3, <2>5, <2>6, <2>7
<1>9. ASSUME NEW s \in P!Known, P!Reorder(s) PROVE PipeInv'
  <2>1. UNCHANGED <<idx, input, ctx, results, row, enabled>> /\ s \in P!Range(stages)
        /\ walked' = IF idx > 0 /\ walked = <<>> THEN stages ELSE walked
    BY <1>9 DEF P!Reorder, P!Changing
  <2>0. rank' = [t \in P!Known |-> IF t \in P!Range(stages) THEN Place(stages', t, Len(stages)) ELSE rank[t]]
    BY <1>9, Zenon DEF P!Reorder, Place
  <2>2. P!Position(s) \in DOMAIN stages /\ stages[P!Position(s)] = s
    BY <2>1 DEF P!Position, P!Range
  <2>3. stages' = FrontedAt(stages, P!Position(s))
    BY <1>9, <2>2 DEF P!Reorder, FrontedAt
  <2>4. disturbed' \in BOOLEAN /\ (~disturbed' => ~disturbed)
    BY <1>1, <1>9 DEF P!Reorder, PipeTyped
  <2>5. stages' \in Seq(P!Known) /\ Len(stages') = Len(stages) /\ P!IsInjective(stages') /\ P!Range(stages') = P!Range(stages)
    BY <1>1, <2>2, <2>3, PipeFronted
  <2>6. Len(stages) \in Nat /\ DOMAIN stages' = 1 .. Len(stages) /\ DOMAIN stages = 1 .. Len(stages)
    BY <1>1, <2>5
  <2>7. ASSUME NEW k \in 1 .. Len(stages)
        PROVE  Place(stages', stages'[k], Len(stages)) = k - 1
    <3>1. k - 1 \in 0 .. Len(stages) - 1 /\ stages'[(k - 1) + 1] = stages'[k]
      BY <2>6
    <3>2. \A i \in 0 .. Len(stages) - 1 : stages'[i + 1] = stages'[k] => i = k - 1
      BY <2>5, <2>6 DEF P!IsInjective
    <3> QED
      BY <3>1, <3>2 DEF Place
  <2>8. \A k \in 1 .. Len(stages) : stages'[k] \in P!Known /\ rank'[stages'[k]] = k - 1
    <3> SUFFICES ASSUME NEW k \in 1 .. Len(stages) PROVE stages'[k] \in P!Known /\ rank'[stages'[k]] = k - 1
      OBVIOUS
    <3>0. stages'[k] \in P!Range(stages')
      BY <2>6 DEF P!Range
    <3>1. stages'[k] \in P!Known /\ stages'[k] \in P!Range(stages)
      BY <3>0, <2>5, <2>6
    <3>2. rank'[stages'[k]] = Place(stages', stages'[k], Len(stages))
      BY <2>0, <3>1
    <3> QED
      BY <2>7, <3>1, <3>2
  <2>9. rank' \in [P!Known -> Int]
    <3>1. \A t \in P!Known : rank'[t] \in Int
      <4> SUFFICES ASSUME NEW t \in P!Known PROVE rank'[t] \in Int
        OBVIOUS
      <4>1. CASE t \in P!Range(stages)
        <5>1. PICK k \in 1 .. Len(stages) : stages'[k] = t
          BY <4>1, <2>5, <2>6 DEF P!Range
        <5> QED
          BY <5>1, <2>6, <2>8
      <4>2. CASE t \notin P!Range(stages)
        BY <4>2, <2>0, <1>1
      <4> QED
        BY <4>1, <4>2
    <3>2. DOMAIN rank' = P!Known /\ rank' = [t \in P!Known |-> rank'[t]]
      BY <2>0
    <3> QED
      BY <3>1, <3>2
  <2>10. InOrder(stages', rank')
    BY <2>6, <2>8 DEF InOrder
  <2>11. walked' \in Seq(P!Known) /\ P!IsInjective(walked')
    BY <1>1, <2>1 DEF ListsOK, PipeTyped
  <2>12. ListsOK'
    BY <2>5, <2>10, <2>11 DEF ListsOK
  <2>13. idx > 0 => P!Iterated' = P!Iterated
    <3>1. stages # <<>>
      BY <2>1 DEF P!Range
    <3> QED
      BY <2>1, <3>1 DEF P!Iterated
  <2>14. enabled' \subseteq P!Known /\ enabled' = enabled
    BY <1>1, <2>1 DEF PipeTyped
  <2> QED
    BY <1>2, <2>1, <2>4, <2>5, <2>9, <2>11, <2>12, <2>13, <2>14
<1>10. CASE UNCHANGED P!vars
  BY <1>1, <1>10 DEF P!vars, PipeInv, PipeTyped, ListsOK, RunsOK, RanBehind, SaveAhead, P!SaveIsReported, IdsOK, P!Iterated
<1> QED
  BY <1>3, <1>4, <1>5, <1>6, <1>7, <1>8, <1>9, <1>10 DEF P!Next

LEMMA PipeSafe == PipeInv => P!EveryStageOnce /\ P!SaveIsReported /\ P!ReportedIdIsStored /\ P!RanksAscend
<1> SUFFICES ASSUME PipeInv PROVE P!EveryStageOnce /\ P!SaveIsReported /\ P!ReportedIdIsStored /\ P!RanksAscend
  OBVIOUS
<1>1. /\ PipeTyped /\ ListsOK /\ RunsOK /\ P!SaveIsReported /\ IdsOK
      /\ stages \in Seq(P!Known) /\ results \in Seq(StageResults) /\ idx \in Nat
  BY DEF PipeInv, PipeTyped
<1>2. P!EveryStageOnce
  <2> SUFFICES ASSUME idx > Len(P!Iterated), ~disturbed
               PROVE /\ P!Range(P!Ran) = P!Range(P!Iterated) \cap enabled /\ P!IsInjective(P!Iterated) /\ P!IsInjective(P!Ran)
                     /\ \A j, k \in DOMAIN P!Ran : j < k =>
                          \E a, b \in DOMAIN P!Iterated : a < b /\ P!Iterated[a] = P!Ran[j] /\ P!Iterated[b] = P!Ran[k]
    BY DEF P!EveryStageOnce, P!Finished
  <2>1. P!Iterated \in Seq(P!Known) /\ P!IsInjective(P!Iterated)
    BY <1>1 DEF P!Iterated, PipeTyped, ListsOK
  <2>2. idx > 0 /\ \A a \in DOMAIN P!Iterated : a < idx
    BY <1>1, <2>1
  <2>3. RanBehind
    BY <1>1, <2>2 DEF RunsOK
  <2>4. DOMAIN P!Ran = DOMAIN results /\ \A r \in DOMAIN results : P!Ran[r] = results[r].stage
    BY DEF P!Ran
  <2>5. P!Range(P!Ran) = P!Range(P!Iterated) \cap enabled
    BY <2>2, <2>3, <2>4 DEF P!Range, RanBehind
  <2>6. \A j, k \in DOMAIN P!Ran : j < k =>
          \E a, b \in DOMAIN P!Iterated : a < b /\ P!Iterated[a] = P!Ran[j] /\ P!Iterated[b] = P!Ran[k]
    BY <2>3, <2>4 DEF RanBehind
  <2>7. \A j, k \in DOMAIN P!Ran : j < k => P!Ran[j] # P!Ran[k]
    <3> SUFFICES ASSUME NEW j \in DOMAIN P!Ran, NEW k \in DOMAIN P!Ran, j < k PROVE P!Ran[j] # P!Ran[k]
      OBVIOUS
    <3>1. PICK a \in DOMAIN P!Iterated, b \in DOMAIN P!Iterated : a < b /\ P!Iterated[a] = P!Ran[j] /\ P!Iterated[b] = P!Ran[k]
      BY <2>6
    <3>2. a # b
      BY <3>1, <2>1
    <3> QED
      BY <3>1, <3>2, <2>1 DEF P!IsInjective
  <2>8. P!IsInjective(P!Ran)
    <3>1. \A j, k \in DOMAIN P!Ran : j < k \/ k < j \/ j = k
      BY <1>1, <2>4
    <3> QED
      BY <3>1, <2>7 DEF P!IsInjective
  <2> QED
    BY <2>1, <2>5, <2>6, <2>8
<1>3. P!ReportedIdIsStored
  BY <1>1 DEF P!ReportedIdIsStored, IdsOK
<1>4. P!RanksAscend
  <2>1. \A i \in 1 .. Len(stages) - 1 : i \in DOMAIN stages /\ i + 1 \in DOMAIN stages /\ i < i + 1
    BY <1>1
  <2> QED
    BY <1>1, <2>1 DEF P!RanksAscend, ListsOK, InOrder
<1> QED
  BY <1>1, <1>2, <1>3, <1>4

(***************************************************************************)
(* The bus, for any subscribers and any number of their calls.             *)
(***************************************************************************)

\* A delivery: those called and those still to call are those who were due, each once, by priority.
Subscription == [who : Subscribers, prio : Int, call : Nat]
Called(d) ==
  /\ d \in [todo : Seq(Subscription), done : Seq(Subscription), due : SUBSET Subscription]
  /\ B!Range(d.done) \cup B!Range(d.todo) = d.due /\ B!Range(d.done) \cap B!Range(d.todo) = {}
  /\ B!IsInjective(d.done) /\ B!IsInjective(d.todo)
  /\ \A i, j \in DOMAIN d.done : i < j => d.done[i].prio >= d.done[j].prio
  /\ \A i, j \in DOMAIN d.todo : i < j => d.todo[i].prio >= d.todo[j].prio
  /\ \A i \in DOMAIN d.done, j \in DOMAIN d.todo : d.done[i].prio >= d.todo[j].prio

BusInv ==
  /\ typed \in Seq(Subscription) /\ wild \in Seq(Subscription) /\ subCalls \in Nat
  /\ B!TypeOK /\ (delivery = Nobody \/ Called(delivery))

LEMMA BusAppended ==
  ASSUME NEW S, NEW q \in Seq(S), NEW m \in S
  PROVE  /\ Append(q, m) \in Seq(S) /\ DOMAIN q = 1 .. Len(q) /\ DOMAIN Append(q, m) = 1 .. Len(q) + 1
         /\ Append(q, m)[Len(q) + 1] = m /\ \A i \in DOMAIN q : Append(q, m)[i] = q[i]
         /\ B!Range(Append(q, m)) = B!Range(q) \cup {m}
         /\ B!IsInjective(q) /\ m \notin B!Range(q) => B!IsInjective(Append(q, m))
<1> DEFINE r == Append(q, m)
<1>1. /\ r \in Seq(S) /\ Len(q) \in Nat /\ Len(r) = Len(q) + 1 /\ DOMAIN q = 1 .. Len(q) /\ DOMAIN r = 1 .. Len(q) + 1
      /\ r[Len(q) + 1] = m /\ \A i \in DOMAIN q : r[i] = q[i]
  OBVIOUS
<1> HIDE DEF r
<1>2. B!Range(r) = B!Range(q) \cup {m}
  BY <1>1 DEF B!Range
<1>3. B!IsInjective(q) /\ m \notin B!Range(q) => B!IsInjective(r)
  BY <1>1 DEF B!IsInjective, B!Range
<1> QED
  BY <1>1, <1>2, <1>3 DEF r

LEMMA RankedOK ==
  ASSUME NEW S, NEW list \in Seq(S), NEW s \in S, NEW q \in B!Ranked(list, s)
  PROVE  q \in Seq(S) /\ B!Range(q) \subseteq B!Range(list) \cup {s}
<1>1. PICK p \in 1 .. Len(list) + 1 : q = B!Inserted(list, s, p)
  BY DEF B!Ranked
<1>2. Len(list) \in Nat /\ DOMAIN list = 1 .. Len(list) /\ \A i \in 1 .. Len(list) : list[i] \in S
  OBVIOUS
<1>3. \A i \in 1 .. Len(list) + 1 : (i < p => i \in 1 .. Len(list)) /\ (~(i < p) /\ i # p => i - 1 \in 1 .. Len(list))
  BY <1>2
<1>4. q = [i \in 1 .. Len(list) + 1 |-> IF i < p THEN list[i] ELSE IF i = p THEN s ELSE list[i - 1]]
  BY <1>1 DEF B!Inserted
<1>5. \A i \in 1 .. Len(list) + 1 : q[i] \in S /\ q[i] \in B!Range(list) \cup {s}
  BY <1>2, <1>3, <1>4 DEF B!Range
<1>6. q \in [1 .. Len(list) + 1 -> S] /\ Len(list) + 1 \in Nat
  BY <1>2, <1>4, <1>5
<1> QED
  BY <1>4, <1>5, <1>6 DEF B!Range

LEMMA UnlistedOK ==
  ASSUME NEW S, NEW list \in Seq(S), NEW w
  PROVE  B!Removed(list, w) \in Seq(S) /\ B!Range(B!Removed(list, w)) \subseteq B!Range(list)
<1> DEFINE q == B!Removed(list, w)
           at == CHOOSE i \in DOMAIN list : list[i].who = w
<1>1. CASE w \notin B!Names(list)
  BY <1>1 DEF B!Removed
<1>2. CASE w \in B!Names(list)
  <2>1. Len(list) \in Nat /\ DOMAIN list = 1 .. Len(list) /\ \A i \in 1 .. Len(list) : list[i] \in S
    OBVIOUS
  <2>2. at \in 1 .. Len(list)
    BY <1>2, <2>1 DEF B!Names
  <2>3. q = [i \in 1 .. Len(list) - 1 |-> IF i < at THEN list[i] ELSE list[i + 1]]
    BY <1>2 DEF B!Removed
  <2> HIDE DEF q, at
  <2>4. \A i \in 1 .. Len(list) - 1 : i \in 1 .. Len(list) /\ i + 1 \in 1 .. Len(list)
    BY <2>1
  <2>5. \A i \in 1 .. Len(list) - 1 : q[i] \in S /\ q[i] \in B!Range(list)
    BY <2>1, <2>3, <2>4 DEF B!Range
  <2>6. q \in [1 .. Len(list) - 1 -> S] /\ Len(list) - 1 \in Nat
    BY <2>1, <2>2, <2>3, <2>5
  <2>7. q \in Seq(S) /\ B!Range(q) \subseteq B!Range(list)
    BY <2>3, <2>5, <2>6 DEF B!Range
  <2> QED
    BY <2>7 DEF q
<1> QED
  BY <1>1, <1>2

\* A listing by priority and position has nothing twice.
LEMMA MatchingOK ==
  ASSUME typed \in Seq(Subscription), wild \in Seq(Subscription), NEW q \in B!Matching
  PROVE  /\ q \in Seq(Subscription) /\ B!Range(q) = B!Range(typed) \cup B!Range(wild) /\ B!IsInjective(q)
         /\ \A i, j \in DOMAIN q : i < j => q[i].prio >= q[j].prio
<1>1. /\ B!All \in Seq(Subscription) /\ Len(B!All) \in Nat /\ DOMAIN B!All = 1 .. Len(B!All)
      /\ B!Range(B!All) = B!Range(typed) \cup B!Range(wild) /\ B!Range(B!All) \subseteq Subscription
  <2>1. /\ B!All \in Seq(Subscription) /\ Len(B!All) = Len(typed) + Len(wild)
        /\ \A i \in 1 .. Len(typed) + Len(wild) : B!All[i] = IF i <= Len(typed) THEN typed[i] ELSE wild[i - Len(typed)]
    BY DEF B!All
  <2>2. Len(typed) \in Nat /\ DOMAIN typed = 1 .. Len(typed) /\ Len(wild) \in Nat /\ DOMAIN wild = 1 .. Len(wild)
    OBVIOUS
  <2>3. DOMAIN B!All = 1 .. Len(typed) + Len(wild) /\ B!Range(B!All) \subseteq Subscription
    BY <2>1 DEF B!Range
  <2>4. ASSUME NEW i \in DOMAIN typed PROVE typed[i] \in B!Range(B!All)
    <3>1. i \in DOMAIN B!All /\ B!All[i] = typed[i]
      BY <2>1, <2>2, <2>3
    <3> QED
      BY <3>1 DEF B!Range
  <2>5. ASSUME NEW i \in DOMAIN wild PROVE wild[i] \in B!Range(B!All)
    <3>1. i + Len(typed) \in DOMAIN B!All /\ ~(i + Len(typed) <= Len(typed)) /\ (i + Len(typed)) - Len(typed) = i
      BY <2>2, <2>3
    <3>2. B!All[i + Len(typed)] = wild[i]
      BY <3>1, <2>1, <2>3
    <3> QED
      BY <3>1, <3>2 DEF B!Range
  <2>6. ASSUME NEW i \in DOMAIN B!All PROVE B!All[i] \in B!Range(typed) \cup B!Range(wild)
    <3>1. i <= Len(typed) => i \in DOMAIN typed
      BY <2>2, <2>3
    <3>2. ~(i <= Len(typed)) => i - Len(typed) \in DOMAIN wild
      BY <2>2, <2>3
    <3> QED
      BY <3>1, <3>2, <2>1, <2>3 DEF B!Range
  <2>7. B!Range(B!All) = B!Range(typed) \cup B!Range(wild)
    BY <2>4, <2>5, <2>6 DEF B!Range
  <2> QED
    BY <2>1, <2>2, <2>3, <2>7
<1> HIDE DEF B!All
<1>2. PICK n \in 0 .. Len(B!All) : q \in [1 .. n -> B!Range(B!All)]
  BY DEF B!Matching
<1>3. B!Range(q) = B!Range(B!All) /\ \A j, k \in DOMAIN q : j < k => B!Before(q[j], q[k])
  BY DEF B!Matching
<1>4. n \in Nat /\ q \in [1 .. n -> Subscription] /\ DOMAIN q = 1 .. n
  BY <1>1, <1>2
<1>5. q \in Seq(Subscription)
  BY <1>4
<1>6. \A s \in Subscription : ~B!Before(s, s)
  BY <1>1 DEF B!Before, Subscription
<1>7. \A i, j \in DOMAIN q : i < j => q[i] # q[j] /\ q[i].prio >= q[j].prio
  <2> SUFFICES ASSUME NEW i \in DOMAIN q, NEW j \in DOMAIN q, i < j PROVE q[i] # q[j] /\ q[i].prio >= q[j].prio
    OBVIOUS
  <2>1. q[i] \in Subscription /\ q[j] \in Subscription /\ B!Before(q[i], q[j])
    BY <1>3, <1>4
  <2>2. q[i].prio \in Int /\ q[j].prio \in Int
    BY <2>1 DEF Subscription
  <2>3. q[i].prio > q[j].prio \/ q[i].prio = q[j].prio
    BY <2>1 DEF B!Before
  <2> QED
    BY <2>1, <2>2, <2>3, <1>6
<1>8. B!IsInjective(q)
  <2> SUFFICES ASSUME NEW i \in DOMAIN q, NEW j \in DOMAIN q, q[i] = q[j] PROVE i = j
    BY DEF B!IsInjective
  <2>1. i < j \/ j < i \/ i = j
    BY <1>4
  <2> QED
    BY <2>1, <1>7
<1> QED
  BY <1>1, <1>3, <1>5, <1>7, <1>8

LEMMA BusInit == B!BoundOK /\ B!Init => BusInv
  BY DEF B!Init, BusInv, B!TypeOK, B!BoundOK, B!Range

LEMMA BusStep == B!BoundOK /\ BusInv /\ [B!Next]_B!vars => BusInv'
<1> SUFFICES ASSUME B!BoundOK, BusInv, [B!Next]_B!vars PROVE BusInv'
  OBVIOUS
<1>0. /\ typed \in Seq(Subscription) /\ wild \in Seq(Subscription) /\ subCalls \in Nat
      /\ B!TypeOK /\ (delivery = Nobody \/ Called(delivery))
  BY DEF BusInv
<1>1. ASSUME NEW w \in Subscribers, NEW p \in {0, 1}, NEW kinds, B!Subscribe(w, p, kinds) PROVE BusInv'
  <2> DEFINE s == [who |-> w, prio |-> p, call |-> subCalls]
  <2>1. s \in Subscription /\ s.who = w /\ s.call = subCalls
    BY <1>0 DEF Subscription
  <2>2. /\ (typed' \in B!Ranked(typed, s) \/ typed' = typed) /\ (wild' \in B!Ranked(wild, s) \/ wild' = wild)
        /\ subCalls < MaxSubs /\ subCalls' = subCalls + 1 /\ delivery' = delivery
    BY <1>1 DEF B!Subscribe
  <2> HIDE DEF s
  <2>3. typed' \in Seq(Subscription) /\ B!Range(typed') \subseteq B!Range(typed) \cup {s}
    BY <2>1, <2>2, <1>0, RankedOK
  <2>4. wild' \in Seq(Subscription) /\ B!Range(wild') \subseteq B!Range(wild) \cup {s}
    BY <2>1, <2>2, <1>0, RankedOK
  <2>5. subCalls' \in Nat /\ subCalls' <= MaxSubs
    BY <2>2, <1>0 DEF B!TypeOK, B!BoundOK
  <2>6. \A x \in B!Range(typed') \cup B!Range(wild') : x.who \in Subscribers /\ x.call < subCalls'
    <3> SUFFICES ASSUME NEW x \in B!Range(typed') \cup B!Range(wild') PROVE x.who \in Subscribers /\ x.call < subCalls'
      OBVIOUS
    <3>1. CASE x = s
      BY <3>1, <2>1, <2>2, <1>0
    <3>2. CASE x \in B!Range(typed) \cup B!Range(wild)
      <4>1. x \in Subscription
        BY <3>2, <1>0 DEF B!Range
      <4> QED
        BY <3>2, <4>1, <2>2, <1>0 DEF B!TypeOK, Subscription
    <3> QED
      BY <2>3, <2>4, <3>1, <3>2
  <2> QED
    BY <1>0, <2>2, <2>3, <2>4, <2>5, <2>6 DEF BusInv, B!TypeOK
<1>2. ASSUME NEW w \in Subscribers, B!Unsubscribe(w) PROVE BusInv'
  <2>2. /\ typed' = B!Removed(typed, w) /\ wild' = B!Removed(wild, w)
        /\ subCalls < MaxSubs /\ subCalls' = subCalls + 1 /\ delivery' = delivery
    BY <1>2 DEF B!Unsubscribe
  <2>3. typed' \in Seq(Subscription) /\ B!Range(typed') \subseteq B!Range(typed)
    BY <2>2, <1>0, UnlistedOK
  <2>4. wild' \in Seq(Subscription) /\ B!Range(wild') \subseteq B!Range(wild)
    BY <2>2, <1>0, UnlistedOK
  <2>5. subCalls' \in Nat /\ subCalls' <= MaxSubs
    BY <2>2, <1>0 DEF B!TypeOK, B!BoundOK
  <2>6. \A x \in B!Range(typed') \cup B!Range(wild') : x.who \in Subscribers /\ x.call < subCalls'
    <3> SUFFICES ASSUME NEW x \in B!Range(typed) \cup B!Range(wild) PROVE x.who \in Subscribers /\ x.call < subCalls'
      BY <2>3, <2>4
    <3>1. x \in Subscription
      BY <1>0 DEF B!Range
    <3> QED
      BY <3>1, <2>2, <1>0 DEF B!TypeOK, Subscription
  <2> QED
    BY <1>0, <2>2, <2>3, <2>4, <2>5, <2>6 DEF BusInv, B!TypeOK
<1>3. CASE B!Publish
  <2>1. PICK q \in B!Matching : delivery' = [todo |-> q, done |-> <<>>, due |-> B!Range(typed) \cup B!Range(wild)]
    BY <1>3 DEF B!Publish
  <2>2. UNCHANGED <<typed, wild, subCalls>>
    BY <1>3 DEF B!Publish
  <2>3. /\ q \in Seq(Subscription) /\ B!Range(q) = B!Range(typed) \cup B!Range(wild) /\ B!IsInjective(q)
        /\ \A i, j \in DOMAIN q : i < j => q[i].prio >= q[j].prio
    BY <1>0, MatchingOK
  <2>4. <<>> \in Seq(Subscription) /\ DOMAIN <<>> = {} /\ B!Range(<<>>) = {} /\ B!IsInjective(<<>>)
    BY DEF B!Range, B!IsInjective
  <2>5. B!Range(typed) \cup B!Range(wild) \in SUBSET Subscription
    BY <1>0 DEF B!Range
  <2>6. Called(delivery')
    BY <2>1, <2>3, <2>4, <2>5 DEF Called
  <2> QED
    BY <1>0, <2>2, <2>6 DEF BusInv, B!TypeOK
<1>4. CASE B!Handle
  <2> DEFINE d == delivery
             e == delivery'
             h == Head(d.todo)
  <2>1. /\ UNCHANGED <<typed, wild, subCalls>> /\ Called(d) /\ d.todo # <<>>
        /\ e = [d EXCEPT !.todo = Tail(@), !.done = Append(@, Head(d.todo))]
    BY <1>0, <1>4 DEF B!Handle
  <2>2. d \in [todo : Seq(Subscription), done : Seq(Subscription), due : SUBSET Subscription]
    BY <2>1 DEF Called
  <2>3. e.todo = Tail(d.todo) /\ e.done = Append(d.done, h) /\ e.due = d.due
    BY <2>1, <2>2
  <2>4. /\ h \in Subscription /\ h = d.todo[1] /\ 1 \in DOMAIN d.todo /\ Tail(d.todo) \in Seq(Subscription)
        /\ DOMAIN d.todo = 1 .. Len(d.todo) /\ DOMAIN Tail(d.todo) = 1 .. Len(d.todo) - 1 /\ Len(d.todo) \in Nat
        /\ \A i \in 1 .. Len(d.todo) - 1 : Tail(d.todo)[i] = d.todo[i + 1]
    BY <2>1, <2>2
  <2>5. e \in [todo : Seq(Subscription), done : Seq(Subscription), due : SUBSET Subscription]
    <3>1. Append(d.done, h) \in Seq(Subscription) /\ Tail(d.todo) \in Seq(Subscription)
      BY <2>2, <2>4
    <3> QED
      BY <2>1, <2>2, <3>1
  <2> DEFINE t == d.todo
             u == Tail(d.todo)
  <2>6. /\ B!Range(t) = {h} \cup B!Range(u) /\ (B!IsInjective(t) => h \notin B!Range(u) /\ B!IsInjective(u))
    <3> HIDE DEF t, u, h
    <3>1. /\ h = t[1] /\ DOMAIN t = 1 .. Len(t) /\ DOMAIN u = 1 .. Len(t) - 1 /\ Len(t) \in Nat /\ 1 \in DOMAIN t
          /\ \A i \in 1 .. Len(t) - 1 : u[i] = t[i + 1]
      BY <2>4 DEF t, u, h
    <3>2. \A i \in DOMAIN t : i = 1 \/ (i - 1 \in DOMAIN u /\ u[i - 1] = t[i])
      BY <3>1
    <3>3. \A i \in DOMAIN u : i + 1 \in DOMAIN t /\ i + 1 # 1 /\ u[i] = t[i + 1]
      BY <3>1
    <3>4. B!Range(t) = {h} \cup B!Range(u)
      BY <3>1, <3>2, <3>3 DEF B!Range
    <3>5. \A i, j \in DOMAIN u : i + 1 = j + 1 => i = j
      BY <3>1
    <3>6. ASSUME B!IsInjective(t) PROVE h \notin B!Range(u) /\ B!IsInjective(u)
      <4>1. \A i, j \in DOMAIN t : t[i] = t[j] => i = j
        BY <3>6 DEF B!IsInjective
      <4>2. \A i \in DOMAIN u : u[i] # h
        BY <4>1, <3>1, <3>3
      <4>3. B!IsInjective(u)
        BY <4>1, <3>3, <3>5 DEF B!IsInjective
      <4> QED
        BY <4>2, <4>3 DEF B!Range
    <3> QED
      BY <3>4, <3>6
  <2>7. /\ B!Range(d.done) \cup B!Range(t) = d.due /\ B!Range(d.done) \cap B!Range(t) = {}
        /\ B!IsInjective(d.done) /\ B!IsInjective(t)
        /\ \A i, j \in DOMAIN d.done : i < j => d.done[i].prio >= d.done[j].prio
        /\ \A i, j \in DOMAIN t : i < j => t[i].prio >= t[j].prio
        /\ \A i \in DOMAIN d.done, j \in DOMAIN t : d.done[i].prio >= t[j].prio
    BY <2>1 DEF Called
  <2>8. /\ B!Range(e.done) = B!Range(d.done) \cup {h} /\ (h \notin B!Range(d.done) => B!IsInjective(e.done))
        /\ DOMAIN d.done = 1 .. Len(d.done) /\ DOMAIN e.done = 1 .. Len(d.done) + 1 /\ Len(d.done) \in Nat
        /\ e.done[Len(d.done) + 1] = h /\ \A i \in DOMAIN d.done : e.done[i] = d.done[i]
    BY <2>2, <2>3, <2>4, <2>7, BusAppended
  <2>9. \A i, j \in DOMAIN e.done : i < j => e.done[i].prio >= e.done[j].prio
    <3> HIDE DEF t, u, h, d, e
    <3> SUFFICES ASSUME NEW i \in DOMAIN e.done, NEW j \in DOMAIN e.done, i < j PROVE e.done[i].prio >= e.done[j].prio
      OBVIOUS
    <3>1. i \in DOMAIN d.done
      BY <2>8
    <3>2. CASE j \in DOMAIN d.done
      BY <3>1, <3>2, <2>7, <2>8
    <3>3. CASE j = Len(d.done) + 1
      BY <3>1, <3>3, <2>4, <2>7, <2>8 DEF t
    <3> QED
      BY <3>2, <3>3, <2>8
  <2>10. \A i \in DOMAIN u : i + 1 \in DOMAIN t /\ u[i] = t[i + 1] /\ 1 < i + 1 /\ i \in Nat
    BY <2>4
  <2>11. /\ \A i, j \in DOMAIN u : i < j => u[i].prio >= u[j].prio
         /\ \A i \in DOMAIN e.done, j \in DOMAIN u : e.done[i].prio >= u[j].prio
    <3>1. 1 \in DOMAIN t /\ h = t[1]
      BY <2>4
    <3> HIDE DEF t, u, h, d, e
    <3>2. \A i, j \in DOMAIN u : i < j => u[i].prio >= u[j].prio
      <4> SUFFICES ASSUME NEW i \in DOMAIN u, NEW j \in DOMAIN u, i < j PROVE u[i].prio >= u[j].prio
        OBVIOUS
      <4>1. i + 1 < j + 1
        BY <2>10
      <4> QED
        BY <4>1, <2>7, <2>10
    <3>3. ASSUME NEW i \in DOMAIN e.done, NEW j \in DOMAIN u PROVE e.done[i].prio >= u[j].prio
      <4>1. CASE i \in DOMAIN d.done
        BY <4>1, <2>7, <2>8, <2>10
      <4>2. CASE i = Len(d.done) + 1
        BY <4>2, <3>1, <2>7, <2>8, <2>10
      <4> QED
        BY <4>1, <4>2, <2>8
    <3> QED
      BY <3>2, <3>3
  <2>12. Called(e)
    BY <2>3, <2>5, <2>6, <2>7, <2>8, <2>9, <2>11 DEF Called
  <2> QED
    BY <1>0, <2>1, <2>12 DEF BusInv, B!TypeOK
<1>5. CASE B!PublishEnds
  BY <1>0, <1>5 DEF B!PublishEnds, BusInv, B!TypeOK
<1>6. CASE UNCHANGED B!vars
  BY <1>0, <1>6 DEF B!vars, BusInv, B!TypeOK
<1> QED
  BY <1>1, <1>2, <1>3, <1>4, <1>5, <1>6 DEF B!Next

LEMMA BusSafe == BusInv => B!EachSubscriptionOnce
<1> SUFFICES ASSUME BusInv, delivery # Nobody, delivery.todo = <<>>
             PROVE  /\ B!Range(delivery.done) = delivery.due /\ B!IsInjective(delivery.done)
                    /\ \A i \in 1 .. Len(delivery.done) - 1 : delivery.done[i].prio >= delivery.done[i + 1].prio
  BY DEF B!EachSubscriptionOnce
<1>1. Called(delivery) /\ B!Range(<<>>) = {}
  BY DEF BusInv, B!Range
<1>2. delivery.done \in Seq(Subscription)
  BY <1>1 DEF Called
<1>3. \A i \in 1 .. Len(delivery.done) - 1 : i \in DOMAIN delivery.done /\ i + 1 \in DOMAIN delivery.done /\ i < i + 1
  BY <1>2
<1> QED
  BY <1>1, <1>3 DEF Called

(***************************************************************************)
(* The queue, for any messages, workers, bound and number of starts.       *)
(***************************************************************************)

\* Messages in their places; a bus that was stopped in time has no worker.
Sound ==
  /\ heap \in Seq(Messages) /\ published \in Seq(Messages)
  /\ wst \in [Workers -> {"off", "top", "get"} \cup Messages]
  /\ unsent \subseteq Messages /\ lost \subseteq Messages /\ dropped \subseteq Messages
QueueTyped == Sound /\ Len(heap) <= MaxQueue /\ running \in BOOLEAN /\ stopper \in BOOLEAN /\ late \in BOOLEAN

QueueInv ==
  /\ QueueTyped /\ Q!MessagesConserved /\ Q!OneBusWorker
  /\ running => ~stopper
  /\ ~late /\ ~running /\ ~stopper => \A t \in Workers : wst[t] = "off"

\* A message that is appended is in the list once more; one that is taken, once less.
LEMMA QueueAppended ==
  ASSUME NEW S, NEW q \in Seq(S), NEW m \in S
  PROVE  /\ Append(q, m) \in Seq(S) /\ Len(Append(q, m)) = Len(q) + 1
         /\ Q!Range(Append(q, m)) = Q!Range(q) \cup {m}
         /\ Q!IsInjective(q) /\ m \notin Q!Range(q) => Q!IsInjective(Append(q, m))
<1> DEFINE r == Append(q, m)
<1>1. /\ r \in Seq(S) /\ Len(q) \in Nat /\ Len(r) = Len(q) + 1 /\ DOMAIN q = 1 .. Len(q) /\ DOMAIN r = 1 .. Len(q) + 1
      /\ r[Len(q) + 1] = m /\ \A i \in DOMAIN q : r[i] = q[i]
  OBVIOUS
<1> HIDE DEF r
<1>2. Q!Range(r) = Q!Range(q) \cup {m}
  BY <1>1 DEF Q!Range
<1>3. Q!IsInjective(q) /\ m \notin Q!Range(q) => Q!IsInjective(r)
  BY <1>1 DEF Q!IsInjective, Q!Range
<1> QED
  BY <1>1, <1>2, <1>3 DEF r

\* What is left of the heap is the heap without its first message, in whatever order.
LEMMA QueuePopped ==
  ASSUME NEW S, NEW q \in Seq(S), q # <<>>
  PROVE  /\ Q!Popped(q).rest \in Seq(S) /\ Len(Q!Popped(q).rest) = Len(q) - 1 /\ Q!Popped(q).got \in BOOLEAN /\ Head(q) \in S
         /\ Q!Range(q) = Q!Range(Q!Popped(q).rest) \cup {Head(q)}
         /\ Q!IsInjective(q) => Q!IsInjective(Q!Popped(q).rest) /\ Head(q) \notin Q!Range(Q!Popped(q).rest)
<1> DEFINE r == Q!Popped(q).rest
           n == Len(q)
           From(k) == IF n <= 3 THEN k + 1 ELSE IF k = 1 THEN n ELSE k
<1>1. n \in Nat /\ n >= 1 /\ DOMAIN q = 1 .. n /\ Head(q) = q[1] /\ \A i \in 1 .. n : q[i] \in S
  OBVIOUS
<1>2. /\ Tail(q) \in Seq(S) /\ Len(Tail(q)) = n - 1 /\ \A k \in 1 .. n - 1 : Tail(q)[k] = q[k + 1]
  OBVIOUS
<1>3. r = IF n <= 3 THEN Tail(q) ELSE [k \in 1 .. n - 1 |-> IF k = 1 THEN q[n] ELSE q[k]]
  BY DEF Q!Popped
<1>4. Q!Popped(q).got \in BOOLEAN
  BY <1>1 DEF Q!Popped
<1>0. Len(q) = n
  OBVIOUS
<1> HIDE DEF n, r
<1>5. /\ r \in Seq(S) /\ Len(r) = n - 1
      /\ \A k \in 1 .. n - 1 : r[k] = q[From(k)]
  <2>1. CASE n <= 3
    BY <1>1, <1>2, <1>3, <2>1
  <2>2. CASE n > 3
    <3>1. \A k \in 1 .. n - 1 : (IF k = 1 THEN q[n] ELSE q[k]) \in S
      BY <1>1, <2>2
    <3>2. r = [k \in 1 .. n - 1 |-> IF k = 1 THEN q[n] ELSE q[k]] /\ ~(n <= 3) /\ n - 1 \in Nat
      BY <1>1, <1>3, <2>2
    <3>3. r \in Seq(S) /\ Len(r) = n - 1
      BY <3>1, <3>2
    <3>4. \A k \in 1 .. n - 1 : r[k] = IF k = 1 THEN q[n] ELSE q[k]
      BY <3>2
    <3> QED
      BY <3>2, <3>3, <3>4
  <2> QED
    BY <2>1, <2>2, <1>1
<1>6. \A k \in 1 .. n - 1 : From(k) \in 2 .. n
  BY <1>1
<1>7. \A j, k \in 1 .. n - 1 : From(j) = From(k) => j = k
  BY <1>1
<1>8. ASSUME NEW i \in 2 .. n PROVE \E k \in 1 .. n - 1 : From(k) = i
  <2>1. CASE n <= 3
    <3>1. i - 1 \in 1 .. n - 1 /\ From(i - 1) = i
      BY <2>1, <1>1
    <3> QED
      BY <3>1
  <2>2. CASE n > 3 /\ i = n
    <3>1. 1 \in 1 .. n - 1 /\ From(1) = i
      BY <2>2, <1>1
    <3> QED
      BY <3>1
  <2>3. CASE n > 3 /\ i # n
    <3>1. i \in 1 .. n - 1 /\ From(i) = i
      BY <2>3, <1>1
    <3> QED
      BY <3>1
  <2> QED
    BY <2>1, <2>2, <2>3, <1>1
<1>9. DOMAIN r = 1 .. n - 1
  BY <1>5
<1> HIDE DEF From
<1>10. (1 \in 1 .. n /\ \A i \in 1 .. n : i = 1 \/ i \in 2 .. n) /\ \A i \in 2 .. n : i \in 1 .. n /\ i # 1
  BY <1>1
<1>11. \A k \in 1 .. n - 1 : From(k) \in DOMAIN q /\ From(k) # 1
  BY <1>1, <1>6, <1>10
<1>12. Q!Range(q) = Q!Range(r) \cup {q[1]}
  <2>1. ASSUME NEW i \in DOMAIN q, i # 1 PROVE q[i] \in Q!Range(r)
    <3>1. PICK k \in 1 .. n - 1 : From(k) = i
      BY <2>1, <1>1, <1>8, <1>10
    <3> QED
      BY <3>1, <1>5, <1>9 DEF Q!Range
  <2>2. ASSUME NEW k \in DOMAIN r PROVE r[k] \in Q!Range(q)
    BY <2>2, <1>5, <1>9, <1>11 DEF Q!Range
  <2> QED
    BY <2>1, <2>2, <1>1, <1>10 DEF Q!Range
<1>13. Q!IsInjective(q) => Q!IsInjective(r) /\ q[1] \notin Q!Range(r)
  BY <1>1, <1>5, <1>7, <1>9, <1>10, <1>11 DEF Q!Range, Q!IsInjective
<1> QED
  BY <1>0, <1>1, <1>4, <1>5, <1>12, <1>13 DEF r

LEMMA QueueInit == Q!MessagesOK /\ Q!Init => QueueInv
<1> SUFFICES ASSUME Q!MessagesOK, Q!Init PROVE QueueInv
  OBVIOUS
<1>1. Q!Range(heap) = {} /\ Q!Range(published) = {} /\ Q!Held = {} /\ Q!IsInjective(heap) /\ Q!IsInjective(published)
  BY DEF Q!Init, Q!Range, Q!Held, Q!MessagesOK, Q!IsInjective
<1>2. Q!MessagesConserved
  BY <1>1 DEF Q!Init, Q!MessagesConserved, Q!MessagesOK
<1>3. heap \in Seq(Messages) /\ published \in Seq(Messages) /\ Len(heap) = 0 /\ Len(heap) <= MaxQueue
  BY DEF Q!Init, Q!MessagesOK
<1>4. wst \in [Workers -> {"off", "top", "get"} \cup Messages]
  BY DEF Q!Init
<1>5. running \in BOOLEAN /\ stopper \in BOOLEAN /\ late \in BOOLEAN /\ ~running
  BY DEF Q!Init
<1> QED
  BY <1>2, <1>3, <1>4, <1>5 DEF Q!Init, QueueInv, QueueTyped, Sound, Q!OneBusWorker, Q!MessagesOK

\* A step moves one message, or none.
LEMMA QueueStep == Q!MessagesOK /\ QueueInv /\ [Q!Next]_Q!vars => QueueInv'
<1> SUFFICES ASSUME Q!MessagesOK, QueueInv, [Q!Next]_Q!vars PROVE QueueInv'
  OBVIOUS
<1> USE DEF QueueInv, QueueTyped, Sound
<1>0. /\ Messages = unsent \cup Q!Range(heap) \cup Q!Held \cup Q!Range(published) \cup lost \cup dropped
      /\ unsent \cap (Q!Range(heap) \cup Q!Held \cup Q!Range(published) \cup lost \cup dropped) = {}
      /\ Q!Range(heap) \cap (Q!Held \cup Q!Range(published) \cup lost \cup dropped) = {}
      /\ Q!Held \cap (Q!Range(published) \cup lost \cup dropped) = {} /\ Q!Range(published) \cap (lost \cup dropped) = {}
      /\ lost \cap dropped = {} /\ Q!IsInjective(heap) /\ Q!IsInjective(published)
      /\ \A t, u \in Workers : wst[t] = wst[u] /\ wst[t] \in Messages => t = u
  BY DEF Q!MessagesConserved
<1>1. ASSUME NEW m \in Messages, Q!PublishAsync(m) PROVE QueueInv'
  <2>1. m \in unsent /\ unsent' = unsent \ {m}
    BY <1>1 DEF Q!PublishAsync
  <2>2. UNCHANGED <<running, wst, stopper, published, lost, late, starts>> /\ Q!Held' = Q!Held
    BY <1>1 DEF Q!PublishAsync, Q!Held
  <2>3. CASE heap' = Append(heap, m) /\ dropped' = dropped /\ ~(Len(heap) >= MaxQueue)
    <3>1. /\ heap' \in Seq(Messages) /\ Len(heap') = Len(heap) + 1 /\ Q!Range(heap') = Q!Range(heap) \cup {m}
          /\ Q!IsInjective(heap')
      BY <2>1, <2>3, <1>0, QueueAppended
    <3>2. Q!MessagesConserved'
      BY <3>1, <2>1, <2>2, <2>3, <1>0 DEF Q!MessagesConserved
    <3>3. Len(heap') <= MaxQueue
      BY <3>1, <2>3 DEF Q!MessagesOK
    <3> QED
      BY <3>1, <3>2, <3>3, <2>1, <2>2, <2>3 DEF Q!OneBusWorker
  <2>4. CASE heap' = heap /\ dropped' = dropped \cup {m}
    <3>1. Q!MessagesConserved'
      BY <2>1, <2>2, <2>4, <1>0 DEF Q!MessagesConserved
    <3> QED
      BY <3>1, <2>1, <2>2, <2>4 DEF Q!OneBusWorker
  <2> QED
    BY <1>1, <2>3, <2>4 DEF Q!PublishAsync, Q!Put
<1>2. ASSUME NEW t \in Workers, Q!StartProcessing(t) PROVE QueueInv'
  <2>1. UNCHANGED <<heap, stopper, unsent, published, lost, dropped, late>> /\ running' = TRUE /\ wst' = [wst EXCEPT ![t] = "top"]
        /\ wst[t] = "off" /\ ~running /\ ~stopper
    BY <1>2 DEF Q!StartProcessing
  <2>2. Q!Held' = Q!Held /\ \A u, v \in Workers : wst'[u] = wst'[v] /\ wst'[u] \in Messages => u = v
    BY <2>1, <1>0 DEF Q!Held, Q!MessagesOK
  <2>3. Q!MessagesConserved'
    BY <2>1, <2>2, <1>0 DEF Q!MessagesConserved
  <2> QED
    BY <2>1, <2>3 DEF Q!OneBusWorker
<1>3. CASE Q!StopBegin
  <2>1. UNCHANGED <<heap, wst, unsent, published, lost, dropped, late>> /\ running' = FALSE /\ stopper' = TRUE
    BY <1>3 DEF Q!StopBegin
  <2>2. Q!MessagesConserved' /\ Q!OneBusWorker'
    BY <2>1 DEF Q!MessagesConserved, Q!Held, Q!OneBusWorker
  <2> QED
    BY <2>1, <2>2
<1>4. CASE Q!StopEnd
  <2>1. UNCHANGED <<heap, wst, running, unsent, published, lost, dropped>> /\ stopper' = FALSE /\ stopper
    BY <1>4 DEF Q!StopEnd
  <2>3. late' \in BOOLEAN /\ (late => late') /\ (~late' => \A t \in Workers : wst[t] = "off")
    <3>1. late' = (late \/ \E t \in Workers : wst[t] # "off")
      BY <1>4 DEF Q!StopEnd
    <3> QED
      BY <3>1
  <2>2. Q!MessagesConserved' /\ Q!OneBusWorker'
    BY <2>1, <2>3 DEF Q!MessagesConserved, Q!Held, Q!OneBusWorker
  <2> QED
    BY <2>1, <2>2, <2>3
<1>5. ASSUME NEW t \in Workers, Q!LoopTest(t) PROVE QueueInv'
  <2>1. UNCHANGED <<heap, stopper, running, unsent, published, lost, dropped, late>> /\ wst[t] = "top"
        /\ wst' = [wst EXCEPT ![t] = IF running THEN "get" ELSE "off"]
    BY <1>5 DEF Q!LoopTest
  <2>2. Q!Held' = Q!Held /\ \A u, v \in Workers : wst'[u] = wst'[v] /\ wst'[u] \in Messages => u = v
    BY <2>1, <1>0 DEF Q!Held, Q!MessagesOK
  <2>3. Q!MessagesConserved'
    BY <2>1, <2>2, <1>0 DEF Q!MessagesConserved
  <2> QED
    BY <2>1, <2>3 DEF Q!OneBusWorker
<1>6. ASSUME NEW t \in Workers, Q!Get(t) PROVE QueueInv'
  <2>1. UNCHANGED <<stopper, running, unsent, published, dropped, late>> /\ wst[t] = "get"
    BY <1>6 DEF Q!Get
  <2>2. CASE heap = <<>>
    <3>1. wst' = [wst EXCEPT ![t] = "top"] /\ UNCHANGED <<heap, lost>>
      BY <1>6, <2>2 DEF Q!Get
    <3>2. Q!Held' = Q!Held /\ \A u, v \in Workers : wst'[u] = wst'[v] /\ wst'[u] \in Messages => u = v
      BY <2>1, <3>1, <1>0 DEF Q!Held, Q!MessagesOK
    <3>3. Q!MessagesConserved'
      BY <2>1, <3>1, <3>2, <1>0 DEF Q!MessagesConserved
    <3> QED
      BY <2>1, <3>1, <3>3 DEF Q!OneBusWorker
  <2>3. CASE heap # <<>>
    <3> DEFINE m == Head(heap)
    <3>1. /\ heap' = Q!Popped(heap).rest
          /\ IF Q!Popped(heap).got
             THEN wst' = [wst EXCEPT ![t] = m] /\ UNCHANGED lost
             ELSE wst' = [wst EXCEPT ![t] = "top"] /\ lost' = lost \cup {m}
      BY <1>6, <2>3 DEF Q!Get
    <3>2. /\ heap' \in Seq(Messages) /\ Len(heap') = Len(heap) - 1 /\ m \in Messages
          /\ Q!Range(heap) = Q!Range(heap') \cup {m} /\ Q!IsInjective(heap') /\ m \notin Q!Range(heap')
      BY <2>3, <3>1, <1>0, QueuePopped
    <3> HIDE DEF m
    <3>6. m \notin {"off", "top", "get"}
      BY <3>2 DEF Q!MessagesOK
    <3>3. CASE wst' = [wst EXCEPT ![t] = m] /\ UNCHANGED lost
      <4>1. Q!Held' = Q!Held \cup {m}
        BY <2>1, <3>2, <3>3, <3>6 DEF Q!Held, Q!MessagesOK
      <4>2. \A u, v \in Workers : wst'[u] = wst'[v] /\ wst'[u] \in Messages => u = v
        <5>1. \A u \in Workers : wst[u] # m
          BY <3>2, <1>0 DEF Q!Held
        <5> QED
          BY <5>1, <3>3, <1>0
      <4>3. Q!MessagesConserved'
        BY <4>1, <4>2, <2>1, <3>2, <3>3, <1>0 DEF Q!MessagesConserved
      <4> QED
        BY <2>1, <3>2, <3>3, <4>3, <3>6 DEF Q!OneBusWorker, Q!MessagesOK
    <3>4. CASE wst' = [wst EXCEPT ![t] = "top"] /\ lost' = lost \cup {m}
      <4>1. Q!Held' = Q!Held /\ \A u, v \in Workers : wst'[u] = wst'[v] /\ wst'[u] \in Messages => u = v
        BY <2>1, <3>4, <1>0 DEF Q!Held, Q!MessagesOK
      <4>2. Q!MessagesConserved'
        BY <4>1, <2>1, <3>2, <3>4, <1>0 DEF Q!MessagesConserved
      <4> QED
        BY <2>1, <3>2, <3>4, <4>2 DEF Q!OneBusWorker, Q!MessagesOK
    <3> QED
      BY <3>1, <3>3, <3>4
  <2> QED
    BY <2>2, <2>3
<1>7. ASSUME NEW t \in Workers, Q!WorkerPublishes(t) PROVE QueueInv'
  <2> DEFINE m == wst[t]
  <2>1. /\ UNCHANGED <<heap, running, stopper, unsent, lost, dropped, late, starts>>
        /\ m \in Messages /\ published' = Append(published, m) /\ wst' = [wst EXCEPT ![t] = "top"]
    BY <1>7 DEF Q!WorkerPublishes
  <2>2. m \in Q!Held /\ Q!Held' = Q!Held \ {m} /\ m \notin {"off", "top", "get"}
    BY <2>1, <1>0 DEF Q!Held, Q!MessagesOK
  <2>3. \A u, v \in Workers : wst'[u] = wst'[v] /\ wst'[u] \in Messages => u = v
    BY <2>1, <1>0 DEF Q!MessagesOK
  <2>4. /\ published' \in Seq(Messages) /\ Q!Range(published') = Q!Range(published) \cup {m} /\ Q!IsInjective(published')
    BY <2>1, <2>2, <1>0, QueueAppended
  <2>6. wst' \in [Workers -> {"off", "top", "get"} \cup Messages] /\ Q!OneBusWorker' /\ ~(~late' /\ ~running' /\ ~stopper')
    BY <2>1, <2>2 DEF Q!OneBusWorker
  <2> HIDE DEF m
  <2>5. Q!MessagesConserved'
    BY <2>1, <2>2, <2>3, <2>4, <1>0 DEF Q!MessagesConserved
  <2> QED
    BY <2>1, <2>4, <2>5, <2>6
<1>8. CASE UNCHANGED Q!vars
  <2>1. Q!MessagesConserved' /\ Q!OneBusWorker'
    BY <1>8 DEF Q!MessagesConserved, Q!Held, Q!OneBusWorker, Q!vars
  <2> QED
    BY <1>8, <2>1 DEF Q!vars
<1> QED
  BY <1>1, <1>2, <1>3, <1>4, <1>5, <1>6, <1>7, <1>8 DEF Q!Next

(***************************************************************************)
(* The registry and its dispatcher, for any names, plugins, types and calls. *)
(***************************************************************************)

\* A dispatch: those called and those still to call are those found, each once; while nobody was
\* unregistered they are registered, each call has its result, and a sequential one goes by priority.
Names == SubscriberIds \cup HandlerIds
Dispatched ==
  [type : Types, mode : {"parallel", "sequential", "handlers"}, snap : SUBSET Names, todo : Seq(Names), called : Seq(Names),
   results : Seq([who : Names, ok : BOOLEAN]), ended : {"no", "raised"}]
HalfCalled(d) ==
  /\ R!IsInjective(d.called) /\ R!IsInjective(d.todo)
  /\ R!Range(d.called) \cap R!Range(d.todo) = {} /\ R!Range(d.called) \cup R!Range(d.todo) = d.snap
  /\ d.ended = "raised" => d.mode = "sequential" /\ removed # {}
Booked(d) ==
  /\ d.snap \subseteq DOMAIN subs /\ Len(d.results) = Len(d.called)
  /\ \A k \in DOMAIN d.results : d.results[k].who = d.called[k]
ByPriority(d) ==
  /\ \A j, k \in DOMAIN d.called : j < k => subs[d.called[j]].prio >= subs[d.called[k]].prio
  /\ \A j, k \in DOMAIN d.todo : j < k => subs[d.todo[j]].prio >= subs[d.todo[k]].prio
  /\ \A j \in DOMAIN d.called, k \in DOMAIN d.todo : subs[d.called[j]].prio >= subs[d.todo[k]].prio
Underway(d) ==
  /\ d \in Dispatched /\ HalfCalled(d)
  /\ d.mode # "handlers" /\ removed = {} => Booked(d)
  /\ d.mode = "sequential" /\ removed = {} => ByPriority(d)
RegistryTyped ==
  /\ DOMAIN subs \subseteq SubscriberIds /\ DOMAIN plugins \subseteq PluginIds /\ DOMAIN handlers \subseteq HandlerIds
  /\ index \in [Types -> SUBSET (SubscriberIds \cup PluginIds)] /\ handlerIndex \in [Types -> SUBSET HandlerIds]
RegistryInv ==
  /\ RegistryTyped /\ R!IndexIsExact
  /\ dispatch = <<>> \/ Underway(dispatch)

LEMMA CallAppended ==
  ASSUME NEW S, NEW q \in Seq(S), NEW m \in S
  PROVE  /\ Append(q, m) \in Seq(S) /\ DOMAIN q = 1 .. Len(q) /\ DOMAIN Append(q, m) = 1 .. Len(q) + 1
         /\ Len(Append(q, m)) = Len(q) + 1
         /\ Append(q, m)[Len(q) + 1] = m /\ \A i \in DOMAIN q : Append(q, m)[i] = q[i]
         /\ R!Range(Append(q, m)) = R!Range(q) \cup {m}
         /\ R!IsInjective(q) /\ m \notin R!Range(q) => R!IsInjective(Append(q, m))
<1> DEFINE r == Append(q, m)
<1>1. /\ r \in Seq(S) /\ Len(q) \in Nat /\ Len(r) = Len(q) + 1 /\ DOMAIN q = 1 .. Len(q) /\ DOMAIN r = 1 .. Len(q) + 1
      /\ r[Len(q) + 1] = m /\ \A i \in DOMAIN q : r[i] = q[i]
  OBVIOUS
<1> HIDE DEF r
<1>2. R!Range(r) = R!Range(q) \cup {m}
  BY <1>1 DEF R!Range
<1>3. R!IsInjective(q) /\ m \notin R!Range(q) => R!IsInjective(r)
  BY <1>1 DEF R!IsInjective, R!Range
<1> QED
  BY <1>1, <1>2, <1>3 DEF r

\* A list without repetition, and the one that has all of it but one place.
AllBut(at, q, n, h) ==
  /\ \A i \in DOMAIN n : h[i] \in DOMAIN q /\ h[i] # at /\ n[i] = q[h[i]]
  /\ \A i, j \in DOMAIN n : h[i] = h[j] => i = j
  /\ \A j \in DOMAIN q : j # at => \E i \in DOMAIN n : h[i] = j
LEMMA CallPicked ==
  ASSUME NEW q, NEW n, NEW h, NEW at \in DOMAIN q, R!IsInjective(q), AllBut(at, q, n, h)
  PROVE  R!IsInjective(n) /\ R!Range(n) = R!Range(q) \ {q[at]}
<1>1. R!IsInjective(n)
  BY DEF R!IsInjective, AllBut
<1>2. \A x \in R!Range(n) : x \in R!Range(q) \ {q[at]}
  BY DEF R!IsInjective, R!Range, AllBut
<1>3. \A x \in R!Range(q) \ {q[at]} : x \in R!Range(n)
  <2> TAKE x \in R!Range(q) \ {q[at]}
  <2>1. PICK j \in DOMAIN q : q[j] = x /\ j # at
    BY DEF R!Range
  <2>2. PICK i \in DOMAIN n : h[i] = j
    BY <2>1 DEF AllBut
  <2> QED
    BY <2>1, <2>2 DEF R!Range, AllBut
<1> QED
  BY <1>1, <1>2, <1>3

\* One is taken from a list without repetition, at its head or elsewhere.
Taken(q, at) == [k \in 1 .. Len(q) - 1 |-> IF k < at THEN q[k] ELSE q[k + 1]]
LEMMA CallTaken ==
  ASSUME NEW S, NEW q \in Seq(S), NEW at \in DOMAIN q, NEW n, n = Taken(q, at), R!IsInjective(q)
  PROVE  /\ n \in Seq(S) /\ R!IsInjective(n) /\ R!Range(n) = R!Range(q) \ {q[at]}
         /\ q[at] \in S /\ q[at] \in R!Range(q)
<1> DEFINE m == Len(q)
           h == [k \in 1 .. m - 1 |-> IF k < at THEN k ELSE k + 1]
<1>1. m \in Nat /\ DOMAIN q = 1 .. m /\ (\A k \in 1 .. m : q[k] \in S) /\ at \in 1 .. m
  OBVIOUS
<1>2. DOMAIN n = 1 .. m - 1 /\ \A k \in 1 .. m - 1 : n[k] = q[h[k]]
  BY <1>1 DEF Taken
<1>3. \A k \in 1 .. m - 1 : h[k] \in 1 .. m /\ h[k] # at
  BY <1>1
<1>4. \A j, k \in 1 .. m - 1 : h[j] = h[k] => j = k
  BY <1>1
<1>5. \A j \in 1 .. m : j # at => \E k \in 1 .. m - 1 : h[k] = j
  <2> TAKE j \in 1 .. m
  <2>1. CASE j < at
    BY <1>1, <2>1
  <2>2. CASE j > at
    <3>1. j - 1 \in 1 .. m - 1 /\ h[j - 1] = j
      BY <1>1, <2>2
    <3> QED
      BY <3>1
  <2> QED
    BY <1>1, <2>1, <2>2
<1>7. n \in [1 .. m - 1 -> S] /\ m - 1 \in Nat
  BY <1>1 DEF Taken
<1>8. n \in Seq(S)
  BY <1>7
<1> HIDE DEF m, h
<1>9. R!IsInjective(n) /\ R!Range(n) = R!Range(q) \ {q[at]}
  <2>1. AllBut(at, q, n, h)
    BY <1>1, <1>2, <1>3, <1>4, <1>5 DEF AllBut
  <2> QED
    BY <2>1, CallPicked
<1>10. q[at] \in S /\ q[at] \in R!Range(q)
  BY <1>1 DEF R!Range
<1> QED
  BY <1>8, <1>9, <1>10

LEMMA CallNext ==
  ASSUME NEW S, NEW q \in Seq(S), q # <<>>
  PROVE  /\ Tail(q) \in Seq(S) /\ Head(q) \in S /\ Head(q) = q[1] /\ 1 \in DOMAIN q
         /\ R!IsInjective(q) => R!IsInjective(Tail(q)) /\ R!Range(Tail(q)) = R!Range(q) \ {Head(q)}
         /\ \A k \in DOMAIN Tail(q) : k + 1 \in DOMAIN q /\ Tail(q)[k] = q[k + 1] /\ k \in Nat /\ k >= 1
<1> DEFINE m == Len(q)
           r == Tail(q)
           h == [k \in 1 .. m - 1 |-> k + 1]
<1>1. /\ m \in Nat /\ m >= 1 /\ DOMAIN q = 1 .. m /\ Head(q) = q[1] /\ q[1] \in S /\ 1 \in 1 .. m
      /\ r \in Seq(S) /\ DOMAIN r = 1 .. m - 1 /\ \A k \in 1 .. m - 1 : r[k] = q[k + 1]
  OBVIOUS
<1> HIDE DEF m, r
<1>2. \A k \in 1 .. m - 1 : h[k] = k + 1 /\ k + 1 \in 1 .. m /\ k \in Nat /\ k >= 1
  BY <1>1
<1>3. \A j \in 1 .. m : j # 1 => j - 1 \in 1 .. m - 1 /\ h[j - 1] = j
  BY <1>1
<1>4. \A j, k \in 1 .. m - 1 : h[j] = h[k] => j = k
  BY <1>1
<1> HIDE DEF h
<1>5. R!IsInjective(q) => R!IsInjective(r) /\ R!Range(r) = R!Range(q) \ {q[1]}
  <2> SUFFICES ASSUME R!IsInjective(q) PROVE R!IsInjective(r) /\ R!Range(r) = R!Range(q) \ {q[1]}
    OBVIOUS
  <2>1. \A k \in DOMAIN r : h[k] \in DOMAIN q /\ h[k] # 1 /\ r[k] = q[h[k]]
    BY <1>1, <1>2
  <2>2. \A j \in DOMAIN q : j # 1 => \E k \in DOMAIN r : h[k] = j
    BY <1>1, <1>3
  <2>3. \A j, k \in DOMAIN r : h[j] = h[k] => j = k
    BY <1>1, <1>4
  <2>4. 1 \in DOMAIN q
    BY <1>1
  <2> QED
    <3>1. AllBut(1, q, r, h)
      BY <2>1, <2>2, <2>3 DEF AllBut
    <3> QED
      BY <3>1, <2>4, CallPicked
<1>6. \A k \in DOMAIN r : k + 1 \in DOMAIN q /\ r[k] = q[k + 1] /\ k \in Nat /\ k >= 1
  BY <1>1, <1>2
<1> QED
  BY <1>1, <1>5, <1>6 DEF r

LEMMA RanksOK ==
  ASSUME NEW ids, NEW ranks, NEW q \in R!Ranked(ids, ranks)
  PROVE  /\ q \in Seq(ids) /\ R!IsInjective(q) /\ R!Range(q) = ids
         /\ \A j, k \in DOMAIN q : j < k => ranks[q[j]].prio >= ranks[q[k]].prio
<1>1. PICK n \in 0 .. R!Cardinality(ids) : q \in [1 .. n -> ids]
  BY DEF R!Ranked
<1>2. q \in Seq(ids)
  BY <1>1
<1> QED
  BY <1>2 DEF R!Ranked

LEMMA UnderwayKept ==
  ASSUME Underway(dispatch), dispatch' = dispatch, removed # {} => removed' # {},
         removed' = {} => /\ DOMAIN subs \subseteq DOMAIN subs' /\ \A i \in DOMAIN subs : subs'[i] = subs[i]
  PROVE  Underway(dispatch)'
<1>1. dispatch \in Dispatched /\ HalfCalled(dispatch)'
  BY DEF Underway, HalfCalled
<1>2. ASSUME dispatch.mode # "handlers", removed' = {} PROVE Booked(dispatch)'
  BY <1>2 DEF Underway, Booked
<1>3. ASSUME dispatch.mode = "sequential", removed' = {} PROVE ByPriority(dispatch)'
  <2>1. ByPriority(dispatch) /\ dispatch.snap \subseteq DOMAIN subs
    BY <1>3 DEF Underway, Booked
  <2>2. \A j \in DOMAIN dispatch.called : dispatch.called[j] \in DOMAIN subs
    BY <1>1, <2>1 DEF Underway, HalfCalled, R!Range
  <2>3. \A j \in DOMAIN dispatch.todo : dispatch.todo[j] \in DOMAIN subs
    BY <1>1, <2>1 DEF Underway, HalfCalled, R!Range
  <2>4. \A i \in DOMAIN subs : subs'[i] = subs[i]
    BY <1>3
  <2> QED
    BY <2>1, <2>2, <2>3, <2>4 DEF ByPriority
<1> QED
  BY <1>1, <1>2, <1>3 DEF Underway

\* A dispatch of those who are found begins.
LEMMA BegunOK ==
  ASSUME NEW t \in Types, NEW mode \in {"parallel", "sequential", "handlers"}, NEW these \in Seq(Names), R!IsInjective(these),
         removed' = {}, subs' = subs, dispatch' = R!Begun(t, mode, these),
         mode # "handlers" => /\ R!Range(these) \subseteq DOMAIN subs
                              /\ \A j, k \in DOMAIN these : j < k => subs[these[j]].prio >= subs[these[k]].prio
  PROVE  Underway(dispatch)'
<1> DEFINE d == dispatch'
<1>1. /\ d.type = t /\ d.mode = mode /\ d.snap = R!Range(these) /\ d.todo = these /\ d.called = <<>> /\ d.results = <<>>
      /\ d.ended = "no"
  BY DEF R!Begun
<1>2. d \in Dispatched
  <2>1. R!Range(these) \subseteq Names
    BY DEF R!Range
  <2>2. <<>> \in Seq(Names) /\ <<>> \in Seq([who : Names, ok : BOOLEAN])
    OBVIOUS
  <2> QED
    BY <2>1, <2>2 DEF R!Begun, Dispatched
<1> HIDE DEF d
<1>3. DOMAIN <<>> = {} /\ Len(<<>>) = 0 /\ R!Range(<<>>) = {} /\ R!IsInjective(<<>>)
  BY DEF R!Range, R!IsInjective
<1>4. HalfCalled(dispatch)'
  BY <1>1, <1>3 DEF HalfCalled, d
<1>5. mode # "handlers" => Booked(dispatch)' /\ ByPriority(dispatch)'
  BY <1>1, <1>3 DEF Booked, ByPriority, d
<1> QED
  BY <1>1, <1>2, <1>4, <1>5 DEF Underway, d

\* One of those who are still to be called is called.
LEMMA OneCalled ==
  ASSUME Underway(dispatch), NEW i \in R!Range(dispatch.todo), i \in Names,
         dispatch'.called = Append(dispatch.called, i), dispatch'.snap = dispatch.snap,
         R!IsInjective(dispatch'.todo), R!Range(dispatch'.todo) = R!Range(dispatch.todo) \ {i},
         dispatch'.ended = "raised" => dispatch'.mode = "sequential" /\ removed' # {}
  PROVE  HalfCalled(dispatch)'
<1>1. dispatch.called \in Seq(Names)
  BY DEF Underway, Dispatched
<1>2. i \notin R!Range(dispatch.called)
  BY DEF Underway, HalfCalled
<1>3. R!Range(dispatch'.called) = R!Range(dispatch.called) \cup {i} /\ R!IsInjective(dispatch'.called)
  BY <1>1, <1>2, CallAppended DEF Underway, HalfCalled
<1> QED
  BY <1>3 DEF Underway, HalfCalled

LEMMA OneBooked ==
  ASSUME Underway(dispatch), NEW i \in Names, NEW ok \in BOOLEAN, removed = {}, dispatch.mode # "handlers",
         dispatch'.called = Append(dispatch.called, i), dispatch'.snap = dispatch.snap,
         dispatch'.results = Append(dispatch.results, R!Result(i, ok)), subs' = subs
  PROVE  Booked(dispatch)'
<1>1. dispatch.called \in Seq(Names) /\ dispatch.results \in Seq([who : Names, ok : BOOLEAN]) /\ Booked(dispatch)
  BY DEF Underway, Dispatched
<1>2. R!Result(i, ok) \in [who : Names, ok : BOOLEAN] /\ R!Result(i, ok).who = i
  BY DEF R!Result
<1> DEFINE n == Len(dispatch.called)
<1>3. /\ Len(dispatch'.called) = n + 1 /\ dispatch'.called[n + 1] = i /\ DOMAIN dispatch.called = 1 .. n
      /\ \A k \in 1 .. n : dispatch'.called[k] = dispatch.called[k]
  BY <1>1, CallAppended
<1>4. Len(dispatch.results) = n
  BY <1>1 DEF Booked
<1>5. /\ Len(dispatch'.results) = n + 1 /\ dispatch'.results[n + 1] = R!Result(i, ok) /\ DOMAIN dispatch.results = 1 .. n
      /\ DOMAIN dispatch'.results = 1 .. n + 1 /\ \A k \in 1 .. n : dispatch'.results[k] = dispatch.results[k]
  BY <1>1, <1>2, <1>4, CallAppended
<1>6. n \in Nat
  BY <1>1
<1> HIDE DEF n
<1>7. \A k \in 1 .. n + 1 : k \in 1 .. n \/ k = n + 1
  BY <1>6
<1>8. \A k \in 1 .. n : dispatch.results[k].who = dispatch.called[k]
  BY <1>1, <1>5 DEF Booked
<1>9. \A k \in DOMAIN dispatch'.results : dispatch'.results[k].who = dispatch'.called[k]
  BY <1>2, <1>3, <1>5, <1>7, <1>8
<1> QED
  BY <1>1, <1>3, <1>5, <1>9 DEF Booked

LEMMA OneByPriority ==
  ASSUME Underway(dispatch), removed = {}, dispatch.mode = "sequential", dispatch.todo # <<>>, subs' = subs,
         dispatch'.called = Append(dispatch.called, Head(dispatch.todo)), dispatch'.todo = Tail(dispatch.todo)
  PROVE  ByPriority(dispatch)'
<1> DEFINE d == dispatch
           n == Len(d.called)
<1>1. d.called \in Seq(Names) /\ d.todo \in Seq(Names) /\ ByPriority(d)
  BY DEF Underway, Dispatched
<1>2. /\ Head(d.todo) = d.todo[1] /\ 1 \in DOMAIN d.todo /\ Head(d.todo) \in Names
      /\ \A k \in DOMAIN dispatch'.todo : k + 1 \in DOMAIN d.todo /\ dispatch'.todo[k] = d.todo[k + 1] /\ k \in Nat /\ k >= 1
  BY <1>1, CallNext
<1>3. /\ DOMAIN d.called = 1 .. n /\ DOMAIN dispatch'.called = 1 .. n + 1 /\ dispatch'.called[n + 1] = d.todo[1]
      /\ \A k \in 1 .. n : dispatch'.called[k] = d.called[k]
  BY <1>1, <1>2, CallAppended
<1>4. n \in Nat
  BY <1>1
<1> HIDE DEF n
<1>5. \A k \in 1 .. n + 1 : k \in 1 .. n \/ k = n + 1
  BY <1>4
<1>6. \A j, k \in DOMAIN dispatch'.called : j < k => subs[dispatch'.called[j]].prio >= subs[dispatch'.called[k]].prio
  <2> SUFFICES ASSUME NEW j \in 1 .. n + 1, NEW k \in 1 .. n + 1, j < k
               PROVE  subs[dispatch'.called[j]].prio >= subs[dispatch'.called[k]].prio
    BY <1>3
  <2>1. j \in 1 .. n
    BY <1>4
  <2>2. CASE k \in 1 .. n
    BY <2>1, <2>2, <1>1, <1>3 DEF ByPriority
  <2>3. CASE k = n + 1
    BY <2>1, <2>3, <1>1, <1>2, <1>3 DEF ByPriority
  <2> QED
    BY <1>5, <2>2, <2>3
<1>7. \A j, k \in DOMAIN dispatch'.todo : j < k => subs[dispatch'.todo[j]].prio >= subs[dispatch'.todo[k]].prio
  <2> SUFFICES ASSUME NEW j \in DOMAIN dispatch'.todo, NEW k \in DOMAIN dispatch'.todo, j < k
               PROVE  subs[dispatch'.todo[j]].prio >= subs[dispatch'.todo[k]].prio
    OBVIOUS
  <2>1. j + 1 \in DOMAIN d.todo /\ k + 1 \in DOMAIN d.todo /\ j + 1 < k + 1
    BY <1>2
  <2> QED
    BY <2>1, <1>1, <1>2 DEF ByPriority
<1>8. \A j \in DOMAIN dispatch'.called, k \in DOMAIN dispatch'.todo : subs[dispatch'.called[j]].prio >= subs[dispatch'.todo[k]].prio
  <2> SUFFICES ASSUME NEW j \in 1 .. n + 1, NEW k \in DOMAIN dispatch'.todo
               PROVE  subs[dispatch'.called[j]].prio >= subs[dispatch'.todo[k]].prio
    BY <1>3
  <2>1. k + 1 \in DOMAIN d.todo /\ 1 < k + 1 /\ dispatch'.todo[k] = d.todo[k + 1]
    BY <1>2
  <2>2. CASE j \in 1 .. n
    BY <2>1, <2>2, <1>1, <1>3 DEF ByPriority
  <2>3. CASE j = n + 1
    BY <2>1, <2>3, <1>1, <1>2, <1>3 DEF ByPriority
  <2> QED
    BY <1>5, <2>2, <2>3
<1> QED
  BY <1>6, <1>7, <1>8 DEF ByPriority

LEMMA RegistryInit == R!Init => RegistryInv
  BY DEF R!Init, R!Empty, RegistryInv, RegistryTyped, R!IndexIsExact, R!PluginsFor

\* The index after a name has come or gone.
LEMMA IndexStep ==
  ASSUME R!DistinctNames, RegistryTyped, R!IndexIsExact, NEW i, NEW ts \in SUBSET Types, UNCHANGED R!handlerVars,
         \/ /\ i \in PluginIds /\ i \notin DOMAIN plugins /\ plugins' = R!With(plugins, i, ts) /\ index' = R!Indexed(i, ts) /\ subs' = subs
         \/ /\ i \in DOMAIN plugins /\ plugins' = R!Without(plugins, i) /\ index' = R!Dropped(i, plugins[i]) /\ subs' = subs
         \/ /\ i \in SubscriberIds /\ i \notin DOMAIN subs /\ index' = R!Indexed(i, ts) /\ plugins' = plugins
            /\ \E any, p : subs' = R!With(subs, i, [types |-> ts, any |-> any, prio |-> p])
         \/ /\ i \in DOMAIN subs /\ subs' = R!Without(subs, i) /\ index' = R!Dropped(i, subs[i].types) /\ plugins' = plugins
  PROVE  RegistryTyped' /\ R!IndexIsExact'
<1> USE DEF RegistryTyped, R!IndexIsExact, R!PluginsFor, R!handlerVars
<1>1. CASE i \in PluginIds /\ i \notin DOMAIN plugins /\ plugins' = R!With(plugins, i, ts) /\ index' = R!Indexed(i, ts) /\ subs' = subs
  BY <1>1 DEF R!With, R!Indexed, R!DistinctNames
<1>2. CASE i \in DOMAIN plugins /\ plugins' = R!Without(plugins, i) /\ index' = R!Dropped(i, plugins[i]) /\ subs' = subs
  BY <1>2 DEF R!Without, R!Dropped, R!DistinctNames
<1>3. CASE /\ i \in SubscriberIds /\ i \notin DOMAIN subs /\ index' = R!Indexed(i, ts) /\ plugins' = plugins
           /\ \E any, p : subs' = R!With(subs, i, [types |-> ts, any |-> any, prio |-> p])
  BY <1>3 DEF R!With, R!Indexed, R!DistinctNames
<1>4. CASE i \in DOMAIN subs /\ subs' = R!Without(subs, i) /\ index' = R!Dropped(i, subs[i].types) /\ plugins' = plugins
  BY <1>4 DEF R!Without, R!Dropped, R!DistinctNames
<1> QED
  BY <1>1, <1>2, <1>3, <1>4

LEMMA DispatchBegins ==
  ASSUME RegistryInv, NEW t \in Types, (\E parallel \in BOOLEAN : R!Dispatch(t, parallel)) \/ R!DispatchToHandlers(t)
  PROVE  RegistryInv'
<1>1. RegistryTyped' /\ R!IndexIsExact' /\ removed' = {} /\ subs' = subs
  BY DEF RegistryInv, RegistryTyped, R!IndexIsExact, R!PluginsFor, R!handlerVars, R!Dispatch, R!DispatchToHandlers
<1>2. ASSUME NEW parallel \in BOOLEAN, R!Dispatch(t, parallel) PROVE Underway(dispatch)'
  <2>1. PICK these \in R!ForEvent(t), mode \in {"parallel", "sequential"} : dispatch' = R!Begun(t, mode, these)
    BY <1>2 DEF R!Dispatch
  <2> DEFINE ids == {i \in DOMAIN subs : i \in index[t] \/ subs[i].any}
  <2>2. these \in R!Ranked(ids, subs)
    BY DEF R!ForEvent
  <2> HIDE DEF ids
  <2>3. /\ these \in Seq(ids) /\ R!IsInjective(these) /\ R!Range(these) = ids
        /\ \A j, k \in DOMAIN these : j < k => subs[these[j]].prio >= subs[these[k]].prio
    BY <2>2, RanksOK
  <2>4. ids \subseteq DOMAIN subs /\ ids \subseteq Names
    BY DEF ids, RegistryInv, RegistryTyped, Names
  <2>5. these \in Seq(Names)
    BY <2>3, <2>4
  <2> QED
    BY <1>1, <2>1, <2>3, <2>4, <2>5, BegunOK
<1>3. ASSUME R!DispatchToHandlers(t) PROVE Underway(dispatch)'
  <2>1. PICK these \in R!HandlersFor(t) : dispatch' = R!Begun(t, "handlers", these)
    BY <1>3 DEF R!DispatchToHandlers
  <2> DEFINE ids == handlerIndex[t] \cap DOMAIN handlers
  <2>2. these \in R!Ranked(ids, handlers)
    BY DEF R!HandlersFor
  <2> HIDE DEF ids
  <2>3. these \in Seq(ids) /\ R!IsInjective(these)
    BY <2>2, RanksOK
  <2>4. ids \subseteq Names
    BY DEF ids, RegistryInv, RegistryTyped, Names
  <2>5. these \in Seq(Names)
    BY <2>3, <2>4
  <2> QED
    BY <1>1, <2>1, <2>3, <2>5, BegunOK
<1> QED
  BY <1>1, <1>2, <1>3 DEF RegistryInv

LEMMA DispatchGoesOn ==
  ASSUME RegistryInv, R!Sequential \/ R!Parallel \/ R!CallHandler
  PROVE  RegistryInv'
<1>1. RegistryTyped' /\ R!IndexIsExact' /\ removed' = removed /\ subs' = subs /\ dispatch # <<>>
  <2>1. /\ UNCHANGED <<subs, plugins, index, handlers, handlerIndex, removed>> /\ dispatch # <<>>
    BY DEF R!handlerVars, R!Sequential, R!Parallel, R!CallHandler
  <2> QED
    BY <2>1 DEF RegistryInv, RegistryTyped, R!IndexIsExact, R!PluginsFor
<1>2. Underway(dispatch)
  BY <1>1 DEF RegistryInv
<1>3. /\ dispatch \in Dispatched /\ dispatch.todo \in Seq(Names) /\ dispatch.called \in Seq(Names) /\ R!IsInjective(dispatch.todo)
      /\ dispatch.results \in Seq([who : Names, ok : BOOLEAN]) /\ dispatch.snap \subseteq Names
      /\ dispatch.type \in Types
  BY <1>2 DEF Underway, HalfCalled, Dispatched
<1>4. \A i \in Names, ok \in BOOLEAN : R!Result(i, ok) \in [who : Names, ok : BOOLEAN]
  BY DEF R!Result
<1>11. \A i \in Names : R!Result(i, TRUE) \in [who : Names, ok : BOOLEAN] /\ R!Result(i, FALSE) \in [who : Names, ok : BOOLEAN]
  BY <1>4
<1>5. ASSUME R!Sequential PROVE Underway(dispatch)'
  <2> DEFINE i == Head(dispatch.todo)
  <2>1. dispatch.todo # <<>> /\ dispatch.mode = "sequential"
    BY <1>5 DEF R!Sequential
  <2>2. /\ Tail(dispatch.todo) \in Seq(Names) /\ i \in Names /\ i = dispatch.todo[1] /\ 1 \in DOMAIN dispatch.todo
        /\ R!IsInjective(Tail(dispatch.todo)) /\ R!Range(Tail(dispatch.todo)) = R!Range(dispatch.todo) \ {i}
    BY <1>3, <2>1, CallNext
  <2>3. i \in R!Range(dispatch.todo)
    BY <2>2 DEF R!Range
  <2>4. Append(dispatch.called, i) \in Seq(Names)
    BY <1>3, <2>2
  <2>5. PICK ok \in BOOLEAN :
          LET d == [dispatch EXCEPT !.todo = Tail(@), !.called = Append(@, i)]
          IN dispatch' = IF i \in DOMAIN subs THEN [d EXCEPT !.results = Append(@, R!Result(i, ok))] ELSE [d EXCEPT !.ended = "raised"]
    BY <1>5 DEF R!Sequential
  <2>6. Append(dispatch.results, R!Result(i, ok)) \in Seq([who : Names, ok : BOOLEAN])
    BY <1>3, <1>4, <2>2
  <2> HIDE DEF i
  <2>7. dispatch' \in Dispatched
    BY <1>3, <2>2, <2>4, <2>5, <2>6 DEF Dispatched
  <2>8. /\ dispatch'.todo = Tail(dispatch.todo) /\ dispatch'.called = Append(dispatch.called, i) /\ dispatch'.snap = dispatch.snap
        /\ dispatch'.mode = dispatch.mode
        /\ i \in DOMAIN subs => dispatch'.ended = dispatch.ended /\ dispatch'.results = Append(dispatch.results, R!Result(i, ok))
    BY <1>3, <2>5 DEF Dispatched
  <2>9. removed = {} => i \in DOMAIN subs
    BY <1>2, <2>1, <2>3 DEF Underway, HalfCalled, Booked
  <2>10. HalfCalled(dispatch)'
    <3>1. dispatch'.ended = "raised" => dispatch'.mode = "sequential" /\ removed' # {}
      BY <1>1, <1>2, <2>1, <2>8, <2>9 DEF Underway, HalfCalled
    <3> QED
      BY <1>2, <2>2, <2>3, <2>8, <3>1, OneCalled
  <2>11. removed = {} => Booked(dispatch)'
    BY <1>1, <1>2, <2>1, <2>2, <2>8, <2>9, OneBooked
  <2>12. removed = {} => ByPriority(dispatch)'
    BY <1>1, <1>2, <2>1, <2>8, OneByPriority DEF i
  <2> QED
    BY <1>1, <2>7, <2>10, <2>11, <2>12 DEF Underway
<1>6. ASSUME R!Parallel PROVE Underway(dispatch)'
  <2>0. dispatch.mode = "parallel"
    BY <1>6 DEF R!Parallel
  <2>1. PICK at \in DOMAIN dispatch.todo, ok \in BOOLEAN :
          LET i == dispatch.todo[at]
              booked == Append(dispatch.results, R!Result(i, ok))
          IN dispatch' = [dispatch EXCEPT
               !.todo = [k \in 1 .. Len(@) - 1 |-> IF k < at THEN @[k] ELSE @[k + 1]],
               !.called = Append(@, i),
               !.results = IF i \in DOMAIN subs THEN booked ELSE Append(booked, R!Result(i, FALSE))]
    BY <1>6 DEF R!Parallel
  <2> DEFINE i == dispatch.todo[at]
             booked == Append(dispatch.results, R!Result(i, ok))
             rest == [k \in 1 .. Len(dispatch.todo) - 1 |-> IF k < at THEN dispatch.todo[k] ELSE dispatch.todo[k + 1]]
  <2>2. /\ rest \in Seq(Names) /\ R!IsInjective(rest) /\ R!Range(rest) = R!Range(dispatch.todo) \ {i}
        /\ i \in Names /\ i \in R!Range(dispatch.todo)
    <3>1. rest = Taken(dispatch.todo, at)
      BY DEF Taken
    <3> HIDE DEF rest
    <3> QED
      BY <1>3, <3>1, CallTaken
  <2>3. dispatch' = [dispatch EXCEPT !.todo = rest, !.called = Append(dispatch.called, i),
                       !.results = IF i \in DOMAIN subs THEN booked ELSE Append(booked, R!Result(i, FALSE))]
    BY <2>1
  <2> HIDE DEF rest
  <2>4. Append(dispatch.called, i) \in Seq(Names)
    BY <1>3, <2>2
  <2>5. booked \in Seq([who : Names, ok : BOOLEAN])
    BY <1>3, <1>4, <2>2
  <2>6. Append(booked, R!Result(i, FALSE)) \in Seq([who : Names, ok : BOOLEAN])
    <3> DEFINE x == R!Result(i, FALSE)
    <3>1. x \in [who : Names, ok : BOOLEAN]
      BY <1>11, <2>2
    <3> HIDE DEF x, booked
    <3>2. Append(booked, x) \in Seq([who : Names, ok : BOOLEAN])
      BY <2>5, <3>1
    <3> QED
      BY <3>2 DEF x
  <2>9. removed = {} => i \in DOMAIN subs
    BY <1>2, <2>0, <2>2 DEF Underway, HalfCalled, Booked
  <2> HIDE DEF i
  <2>8. /\ dispatch'.todo = rest /\ dispatch'.called = Append(dispatch.called, i) /\ dispatch'.snap = dispatch.snap
        /\ dispatch'.mode = dispatch.mode /\ dispatch'.ended = dispatch.ended
        /\ i \in DOMAIN subs => dispatch'.results = Append(dispatch.results, R!Result(i, ok))
    BY <1>3, <2>3 DEF Dispatched
  <2> HIDE DEF booked
  <2>7. dispatch' \in Dispatched
    BY <1>3, <2>2, <2>3, <2>4, <2>5, <2>6 DEF Dispatched
  <2>10. HalfCalled(dispatch)'
    <3>1. dispatch'.ended # "raised"
      BY <1>2, <2>0, <2>8 DEF Underway, HalfCalled
    <3> QED
      BY <1>2, <2>2, <2>8, <3>1, OneCalled
  <2>11. removed = {} => Booked(dispatch)'
    BY <1>1, <1>2, <2>0, <2>2, <2>8, <2>9, OneBooked
  <2> QED
    BY <1>1, <2>0, <2>7, <2>8, <2>10, <2>11 DEF Underway
<1>7. ASSUME R!CallHandler PROVE Underway(dispatch)'
  <2> DEFINE i == Head(dispatch.todo)
  <2>1. dispatch.todo # <<>> /\ dispatch.mode = "handlers"
    BY <1>7 DEF R!CallHandler
  <2>2. /\ Tail(dispatch.todo) \in Seq(Names) /\ i \in Names /\ i = dispatch.todo[1] /\ 1 \in DOMAIN dispatch.todo
        /\ R!IsInjective(Tail(dispatch.todo)) /\ R!Range(Tail(dispatch.todo)) = R!Range(dispatch.todo) \ {i}
    BY <1>3, <2>1, CallNext
  <2>3. i \in R!Range(dispatch.todo)
    BY <2>2 DEF R!Range
  <2>4. Append(dispatch.called, i) \in Seq(Names)
    BY <1>3, <2>2
  <2>5. PICK answers \in BOOLEAN :
          dispatch' = [dispatch EXCEPT !.todo = Tail(@), !.called = Append(@, i),
                                       !.results = IF answers THEN <<R!Result(i, TRUE)>> ELSE @]
    BY <1>7 DEF R!CallHandler
  <2>6. <<R!Result(i, TRUE)>> \in Seq([who : Names, ok : BOOLEAN])
    <3> DEFINE x == R!Result(i, TRUE)
    <3>1. x \in [who : Names, ok : BOOLEAN]
      BY <1>11, <2>2
    <3> HIDE DEF x
    <3>2. <<x>> \in Seq([who : Names, ok : BOOLEAN])
      BY <3>1
    <3> QED
      BY <3>2 DEF x
  <2> HIDE DEF i
  <2>7. dispatch' \in Dispatched
    BY <1>3, <2>2, <2>4, <2>5, <2>6 DEF Dispatched
  <2>8. /\ dispatch'.todo = Tail(dispatch.todo) /\ dispatch'.called = Append(dispatch.called, i) /\ dispatch'.snap = dispatch.snap
        /\ dispatch'.mode = "handlers" /\ dispatch'.ended = dispatch.ended
    BY <1>3, <2>1, <2>5 DEF Dispatched
  <2>10. HalfCalled(dispatch)'
    <3>1. dispatch'.ended # "raised"
      BY <1>2, <2>1, <2>8 DEF Underway, HalfCalled
    <3> QED
      BY <1>2, <2>2, <2>3, <2>8, <3>1, OneCalled
  <2> QED
    BY <2>7, <2>8, <2>10 DEF Underway
<1> QED
  BY <1>1, <1>5, <1>6, <1>7 DEF RegistryInv

LEMMA RegistryStep == R!DistinctNames /\ RegistryInv /\ [R!Next]_R!vars => RegistryInv'
<1> SUFFICES ASSUME R!DistinctNames, RegistryInv, [R!Next]_R!vars PROVE RegistryInv'
  OBVIOUS
<1>0. RegistryTyped /\ R!IndexIsExact /\ (dispatch = <<>> \/ Underway(dispatch))
  BY DEF RegistryInv
<1>1. ASSUME NEW i \in PluginIds, NEW ts \in SUBSET Types, R!RegisterPlugin(i, ts) PROVE RegistryInv'
  <2>1. RegistryTyped' /\ R!IndexIsExact'
    BY <1>0, <1>1, IndexStep DEF R!RegisterPlugin
  <2>2. dispatch' = dispatch /\ removed' = removed /\ subs' = subs
    BY <1>1 DEF R!RegisterPlugin
  <2> QED
    BY <1>0, <2>1, <2>2, UnderwayKept DEF RegistryInv
<1>2. ASSUME NEW i \in PluginIds, R!UnregisterPlugin(i) PROVE RegistryInv'
  <2>1. RegistryTyped' /\ R!IndexIsExact'
    BY <1>0, <1>2, IndexStep DEF R!UnregisterPlugin
  <2>2. dispatch' = dispatch /\ removed' = removed /\ subs' = subs
    BY <1>2 DEF R!UnregisterPlugin
  <2> QED
    BY <1>0, <2>1, <2>2, UnderwayKept DEF RegistryInv
<1>3. ASSUME NEW i \in SubscriberIds, NEW ts \in SUBSET Types, NEW any, NEW p, R!RegisterSubscriber(i, ts, any, p) PROVE RegistryInv'
  <2>1. RegistryTyped' /\ R!IndexIsExact'
    BY <1>0, <1>3, IndexStep DEF R!RegisterSubscriber
  <2>2. /\ dispatch' = dispatch /\ removed' = removed /\ DOMAIN subs \subseteq DOMAIN subs'
        /\ \A j \in DOMAIN subs : subs'[j] = subs[j]
    BY <1>3 DEF R!RegisterSubscriber, R!With
  <2> QED
    BY <1>0, <2>1, <2>2, UnderwayKept DEF RegistryInv
<1>4. ASSUME NEW i \in SubscriberIds, R!UnregisterSubscriber(i) PROVE RegistryInv'
  <2>1. RegistryTyped' /\ R!IndexIsExact'
    BY <1>0, <1>4, IndexStep DEF R!UnregisterSubscriber
  <2>2. dispatch' = dispatch /\ (dispatch # <<>> => removed' # {})
    BY <1>4 DEF R!UnregisterSubscriber
  <2> QED
    BY <1>0, <2>1, <2>2, UnderwayKept DEF RegistryInv
<1>5. ASSUME NEW i \in HandlerIds, NEW ts, NEW p, R!RegisterHandler(i, ts, p) PROVE RegistryInv'
  <2>1. RegistryTyped' /\ R!IndexIsExact'
    BY <1>0, <1>5 DEF R!RegisterHandler, RegistryTyped, R!IndexIsExact, R!PluginsFor, R!With
  <2>2. dispatch' = dispatch /\ removed' = removed /\ subs' = subs
    BY <1>5 DEF R!RegisterHandler
  <2> QED
    BY <1>0, <2>1, <2>2, UnderwayKept DEF RegistryInv
<1>6. ASSUME NEW i \in HandlerIds, R!UnregisterHandler(i) PROVE RegistryInv'
  <2>1. RegistryTyped' /\ R!IndexIsExact'
    BY <1>0, <1>6 DEF R!UnregisterHandler, RegistryTyped, R!IndexIsExact, R!PluginsFor, R!Without
  <2>2. dispatch' = dispatch /\ removed' = removed /\ subs' = subs
    BY <1>6 DEF R!UnregisterHandler
  <2> QED
    BY <1>0, <2>1, <2>2, UnderwayKept DEF RegistryInv
<1>7. CASE R!Clear
  <2>1. RegistryTyped' /\ R!IndexIsExact'
    BY <1>0, <1>7 DEF R!Clear, RegistryTyped, R!IndexIsExact, R!PluginsFor, R!Empty
  <2>2. dispatch' = dispatch /\ (dispatch # <<>> => removed' = removed \cup DOMAIN subs)
    BY <1>7 DEF R!Clear
  <2> QED
    BY <1>0, <2>1, <2>2, UnderwayKept DEF RegistryInv
<1>8. CASE R!Return
  BY <1>0, <1>8 DEF R!Return, RegistryInv, RegistryTyped, R!IndexIsExact, R!PluginsFor, R!handlerVars
<1>9. CASE UNCHANGED R!vars
  <2>1. RegistryTyped' /\ R!IndexIsExact'
    BY <1>0, <1>9 DEF R!vars, RegistryTyped, R!IndexIsExact, R!PluginsFor
  <2>2. dispatch' = dispatch /\ removed' = removed /\ subs' = subs
    BY <1>9 DEF R!vars
  <2> QED
    BY <1>0, <2>1, <2>2, UnderwayKept DEF RegistryInv
<1>10. \A t \in Types : {t} \in SUBSET Types
  OBVIOUS
<1> QED
  BY <1>1, <1>2, <1>3, <1>4, <1>5, <1>6, <1>7, <1>8, <1>9, <1>10, DispatchBegins, DispatchGoesOn DEF R!Next

LEMMA RegistrySafe == RegistryInv => R!IndexIsExact /\ R!EveryoneIsCalled /\ R!OneResultEach /\ R!TypeOK
<1>0. RegistryInv => R!TypeOK
  BY DEF RegistryInv, RegistryTyped, R!TypeOK, Underway, Dispatched
<1> SUFFICES ASSUME RegistryInv PROVE R!EveryoneIsCalled /\ R!OneResultEach
  BY <1>0 DEF RegistryInv
<1>1. SUFFICES ASSUME R!Over PROVE R!EveryoneIsCalled /\ R!OneResultEach
  BY DEF R!EveryoneIsCalled, R!OneResultEach
<1>2. Underway(dispatch) /\ R!Range(<<>>) = {}
  BY <1>1 DEF RegistryInv, R!Over, R!Range
<1>3. R!EveryoneIsCalled
  BY <1>1, <1>2 DEF R!EveryoneIsCalled, R!Over, Underway, HalfCalled
<1>4. ASSUME dispatch.mode # "handlers", removed = {} PROVE R!Range(R!Answered) = dispatch.snap /\ R!IsInjective(R!Answered)
  <2>1. /\ Booked(dispatch) /\ dispatch.called \in Seq(Names) /\ dispatch.results \in Seq([who : Names, ok : BOOLEAN])
        /\ R!IsInjective(dispatch.called) /\ R!Range(dispatch.called) = dispatch.snap
    BY <1>1, <1>2, <1>3, <1>4 DEF Underway, Dispatched, HalfCalled, R!EveryoneIsCalled
  <2>2. DOMAIN dispatch.results = DOMAIN dispatch.called
    BY <2>1 DEF Booked
  <2>3. DOMAIN R!Answered = DOMAIN dispatch.called /\ \A k \in DOMAIN dispatch.called : R!Answered[k] = dispatch.called[k]
    BY <2>1, <2>2 DEF Booked, R!Answered
  <2> QED
    BY <2>1, <2>3 DEF R!Range, R!IsInjective
<1>5. ASSUME dispatch.mode = "sequential", removed = {}
      PROVE  \A i \in 1 .. Len(dispatch.called) - 1 : subs[dispatch.called[i]].prio >= subs[dispatch.called[i + 1]].prio
  <2>1. dispatch.called \in Seq(Names) /\ ByPriority(dispatch)
    BY <1>2, <1>5 DEF Underway, Dispatched
  <2>2. \A i \in 1 .. Len(dispatch.called) - 1 : i \in DOMAIN dispatch.called /\ i + 1 \in DOMAIN dispatch.called /\ i < i + 1
    BY <2>1
  <2> QED
    BY <2>1, <2>2 DEF ByPriority
<1> QED
  BY <1>3, <1>4, <1>5 DEF R!OneResultEach

(***************************************************************************)
(* The history, for any types, any size of the buffer and any adds.        *)
(***************************************************************************)

Entry == [at : Nat \ {0}, type : EventTypes]
Ways == EventTypes \cup {"all"}

\* What holds of 0 and, with a number, of the next one holds of them all.
LEMMA Induction ==
  ASSUME NEW S, 0 \in S, \A n \in Nat : n \in S => n + 1 \in S
  PROVE  Nat \subseteq S
<1> DEFINE T == Nat \ S
<1> SUFFICES ASSUME T # {} PROVE FALSE
  OBVIOUS
<1>1. \E x \in T : \A y \in T : ~ (<<y, x>> \in OpToRel(<, Nat))
  <2>1. IsWellFoundedOn(OpToRel(<, Nat), Nat)
    BY NatLessThanWellFounded
  <2>2. T \subseteq Nat
    OBVIOUS
  <2> HIDE DEF T
  <2> DEFINE Less == OpToRel(<, Nat)
  <2>3. IsWellFoundedOn(Less, Nat)
    BY <2>1
  <2> HIDE DEF Less
  <2>4. \E x \in T : \A y \in T : ~ (<<y, x>> \in Less)
    BY <2>2, <2>3, WFMin
  <2> QED
    BY <2>4 DEF Less
<1>2. PICK x \in T : \A y \in T : ~ (<<y, x>> \in OpToRel(<, Nat))
  BY <1>1
<1>3. \A y \in T : ~(y < x)
  BY <1>2 DEF OpToRel
<1>4. x \in Nat /\ x # 0 /\ x - 1 \in Nat
  OBVIOUS
<1>5. x - 1 \in S
  BY <1>3, <1>4
<1>6. x - 1 + 1 = x
  BY <1>4
<1> QED
  BY <1>4, <1>5, <1>6

\* What is kept of a list, in its order.
KeptOf(r, q, S) ==
  /\ H!Range(r) = S
  /\ \A j, k \in DOMAIN r : j < k => \E a, b \in DOMAIN q : a < b /\ q[a] = r[j] /\ q[b] = r[k]
Keeps(n, V) ==
  \A q \in [1 .. n -> V] : \A S \in SUBSET H!Range(q) : \E m \in 0 .. n : \E r \in [1 .. m -> S] : KeptOf(r, q, S)

\* One entry more, which is kept or not.
LEMMA KeptMore ==
  ASSUME NEW n \in Nat, NEW V, Keeps(n, V)
  PROVE  Keeps(n + 1, V)
<1> SUFFICES ASSUME NEW q \in [1 .. n + 1 -> V], NEW S \in SUBSET H!Range(q)
             PROVE  \E m \in 0 .. n + 1 : \E r \in [1 .. m -> S] : KeptOf(r, q, S)
  BY DEF Keeps
<1> DEFINE p == [i \in 1 .. n |-> q[i]]
           x == q[n + 1]
           U == S \cap H!Range(p)
<1>1. p \in [1 .. n -> V] /\ DOMAIN p = 1 .. n /\ DOMAIN q = 1 .. n + 1 /\ \A i \in 1 .. n : p[i] = q[i] /\ i \in 1 .. n + 1
  OBVIOUS
<1>2. n + 1 \in 1 .. n + 1 /\ \A i \in 1 .. n : i < n + 1
  OBVIOUS
<1> HIDE DEF p
<1>3. PICK m \in 0 .. n : \E r \in [1 .. m -> U] : KeptOf(r, p, U)
  BY <1>1 DEF Keeps
<1>4. PICK r \in [1 .. m -> U] : KeptOf(r, p, U)
  BY <1>3
<1>5. m \in 0 .. n + 1 /\ m + 1 \in 0 .. n + 1 /\ m \in Nat
  OBVIOUS
<1>6. \A i \in 1 .. n + 1 : i \in 1 .. n \/ i = n + 1
  OBVIOUS
<1>7. S \subseteq U \cup {x}
  BY <1>1, <1>6 DEF H!Range
<1>8. CASE S = U
  <2>1. KeptOf(r, q, S)
    BY <1>1, <1>4, <1>8 DEF KeptOf
  <2> QED
    BY <1>5, <1>8, <2>1
<1>9. CASE S # U
  <2>1. S = U \cup {x}
    BY <1>7, <1>9
  <2> DEFINE s == [i \in 1 .. m + 1 |-> IF i = m + 1 THEN x ELSE r[i]]
  <2>2. s \in [1 .. m + 1 -> S]
    <3>1. \A i \in 1 .. m + 1 : i # m + 1 => i \in 1 .. m
      BY <1>5
    <3> QED
      BY <2>1, <3>1
  <2>3. DOMAIN s = 1 .. m + 1 /\ s[m + 1] = x /\ \A i \in 1 .. m : s[i] = r[i]
    BY <1>5
  <2>4. m + 1 \in 1 .. m + 1 /\ (\A i \in 1 .. m : i \in 1 .. m + 1) /\ (\A i \in 1 .. m + 1 : i = m + 1 \/ i \in 1 .. m) /\ DOMAIN r = 1 .. m
    BY <1>5
  <2> HIDE DEF s, x, U
  <2>5. H!Range(s) = S
    <3>1. U = {r[i] : i \in 1 .. m}
      BY <1>4, <2>4 DEF KeptOf, H!Range
    <3>2. H!Range(s) = {s[i] : i \in 1 .. m + 1}
      BY <2>3 DEF H!Range
    <3>3. \A y \in H!Range(s) : y \in S
      BY <2>1, <2>3, <2>4, <3>1, <3>2
    <3>4. \A y \in S : y \in H!Range(s)
      BY <2>1, <2>3, <2>4, <3>1, <3>2
    <3> QED
      BY <3>3, <3>4
  <2>6. \A j, k \in DOMAIN s : j < k => \E a, b \in DOMAIN q : a < b /\ q[a] = s[j] /\ q[b] = s[k]
    <3> SUFFICES ASSUME NEW j \in 1 .. m + 1, NEW k \in 1 .. m + 1, j < k
                 PROVE  \E a, b \in DOMAIN q : a < b /\ q[a] = s[j] /\ q[b] = s[k]
      BY <2>3
    <3>1. j \in 1 .. m
      BY <1>5
    <3>2. CASE k \in 1 .. m
      <4>1. PICK a \in 1 .. n, b \in 1 .. n : a < b /\ p[a] = r[j] /\ p[b] = r[k]
        BY <1>1, <1>4, <2>4, <3>1, <3>2 DEF KeptOf
      <4> QED
        BY <4>1, <1>1, <2>3, <3>1, <3>2
    <3>3. CASE k = m + 1
      <4>1. r[j] \in H!Range(p)
        BY <1>4, <2>4, <3>1 DEF U
      <4>2. PICK a \in 1 .. n : p[a] = r[j]
        BY <4>1, <1>1 DEF H!Range
      <4> QED
        BY <4>2, <1>1, <1>2, <2>3, <3>1, <3>3 DEF x
    <3> QED
      BY <2>4, <3>2, <3>3
  <2>7. KeptOf(s, q, S)
    BY <2>5, <2>6 DEF KeptOf
  <2> QED
    BY <1>5, <2>2, <2>7
<1> QED
  BY <1>8, <1>9

\* Of every list one can keep any part.
LEMMA KeptAlways ==
  ASSUME NEW V, NEW n \in Nat
  PROVE  Keeps(n, V)
<1> DEFINE M == {k \in Nat : Keeps(k, V)}
<1>1. Keeps(0, V)
  <2> SUFFICES ASSUME NEW q \in [1 .. 0 -> V], NEW S \in SUBSET H!Range(q)
               PROVE  \E m \in 0 .. 0 : \E r \in [1 .. m -> S] : KeptOf(r, q, S)
    BY DEF Keeps
  <2>1. DOMAIN q = {} /\ S = {}
    BY DEF H!Range
  <2>2. KeptOf(q, q, S) /\ q \in [1 .. 0 -> S]
    BY <2>1 DEF KeptOf, H!Range
  <2>3. 0 \in 0 .. 0
    OBVIOUS
  <2> QED
    BY <2>2, <2>3
<1>2. \A k \in Nat : k \in M => k + 1 \in M
  BY KeptMore
<1>3. 0 \in M
  BY <1>1
<1> HIDE DEF M
<1>4. Nat \subseteq M
  BY <1>2, <1>3, Induction
<1> QED
  BY <1>4 DEF M

LEMMA OnlyOK ==
  ASSUME NEW V, NEW q \in Seq(V), NEW S \in SUBSET H!Range(q)
  PROVE  /\ H!Only(q, S) \in Seq(S) /\ H!Range(H!Only(q, S)) = S
         /\ H!InOrderOfTime(q) => H!InOrderOfTime(H!Only(q, S))
<1> DEFINE n == Len(q)
           F == UNION {[1 .. m -> S] : m \in 0 .. n}
<1>1. n \in Nat /\ q \in [1 .. n -> V]
  OBVIOUS
<1>2. \E m \in 0 .. n : \E r \in [1 .. m -> S] : KeptOf(r, q, S)
  BY <1>1, KeptAlways DEF Keeps
<1>3. \E r \in F : KeptOf(r, q, S)
  BY <1>2
<1>4. H!Only(q, S) = CHOOSE r \in F : KeptOf(r, q, S)
  BY DEF H!Only, KeptOf
<1> DEFINE r == H!Only(q, S)
<1> HIDE DEF n, F
<1>5. r \in F /\ KeptOf(r, q, S)
  BY <1>3, <1>4
<1> HIDE DEF r
<1>6. PICK m \in 0 .. n : r \in [1 .. m -> S]
  BY <1>5 DEF F
<1>7. r \in Seq(S)
  BY <1>6
<1>8. H!InOrderOfTime(q) => H!InOrderOfTime(r)
  <2> SUFFICES ASSUME H!InOrderOfTime(q), NEW j \in DOMAIN r, NEW k \in DOMAIN r, j < k PROVE r[j].at < r[k].at
    BY DEF H!InOrderOfTime
  <2>1. PICK a \in DOMAIN q, b \in DOMAIN q : a < b /\ q[a] = r[j] /\ q[b] = r[k]
    BY <1>5 DEF KeptOf
  <2> QED
    BY <2>1 DEF H!InOrderOfTime
<1> QED
  BY <1>5, <1>7, <1>8 DEF KeptOf, r

\* Numbers that ascend from c on.
Climbs(h, m, c) ==
  h[1] >= c /\ (\A k \in 1 .. m : h[k] \in Int) /\ \A j, k \in 1 .. m : j < k => h[j] < h[k]
LEMMA Climb ==
  ASSUME NEW m \in Nat, NEW c \in Int, NEW h, m >= 1, Climbs(h, m, c)
  PROVE  h[m] >= c + m - 1
<1> DEFINE M == {k \in Nat : k + 1 \in 1 .. m => h[k + 1] >= c + k}
<1>1. 0 \in M
  BY DEF M, Climbs
<1>2. ASSUME NEW k \in Nat, k \in M PROVE k + 1 \in M
  <2> SUFFICES ASSUME k + 1 + 1 \in 1 .. m PROVE h[k + 1 + 1] >= c + (k + 1)
    OBVIOUS
  <2>1. k + 1 \in 1 .. m /\ k + 1 < k + 1 + 1
    OBVIOUS
  <2>2. h[k + 1] >= c + k /\ h[k + 1] < h[k + 1 + 1] /\ h[k + 1] \in Int /\ h[k + 1 + 1] \in Int
    BY <1>2, <2>1 DEF Climbs
  <2> QED
    BY <2>2
<1> HIDE DEF M
<1>3. Nat \subseteq M
  BY <1>1, <1>2, Induction
<1>4. m - 1 \in M
  BY <1>3
<1>5. m - 1 + 1 = m /\ m \in 1 .. m
  OBVIOUS
<1> QED
  BY <1>4, <1>5 DEF M

\* A list in order of time that has all of one that is no longer begins as that does.
LEMMA SameFirst ==
  ASSUME NEW q \in Seq(Entry), NEW p \in Seq(Entry), H!InOrderOfTime(q), H!InOrderOfTime(p),
         H!Range(q) \subseteq H!Range(p), q # <<>>, Len(p) <= Len(q)
  PROVE  1 \in DOMAIN p /\ p[1] = q[1] /\ Len(p) = Len(q)
<1> DEFINE m == Len(q)
           n == Len(p)
           h == [k \in 1 .. m |-> CHOOSE i \in 1 .. n : p[i] = q[k]]
<1>1. /\ m \in Nat /\ m >= 1 /\ n \in Nat /\ n <= m /\ DOMAIN q = 1 .. m /\ DOMAIN p = 1 .. n /\ 1 \in 1 .. m
      /\ \A i \in 1 .. n : p[i] \in Entry
  OBVIOUS
<1> HIDE DEF m, n
<1>2. \A k \in 1 .. m : \E i \in 1 .. n : p[i] = q[k]
  BY <1>1 DEF H!Range
<1>3. \A k \in 1 .. m : h[k] = CHOOSE i \in 1 .. n : p[i] = q[k]
  OBVIOUS
<1> HIDE DEF h
<1>4. \A k \in 1 .. m : h[k] \in 1 .. n /\ p[h[k]] = q[k]
  BY <1>2, <1>3
<1>5. \A i, j \in 1 .. n : i < j => p[i].at < p[j].at /\ p[i].at \in Int /\ p[j].at \in Int
  <2> SUFFICES ASSUME NEW i \in 1 .. n, NEW j \in 1 .. n, i < j PROVE p[i].at < p[j].at /\ p[i].at \in Int /\ p[j].at \in Int
    OBVIOUS
  <2>1. p[i] \in Entry /\ p[j] \in Entry /\ p[i].at < p[j].at
    BY <1>1 DEF H!InOrderOfTime
  <2> QED
    BY <2>1 DEF Entry
<1>6. \A j, k \in 1 .. m : j < k => h[j] < h[k]
  <2> SUFFICES ASSUME NEW j \in 1 .. m, NEW k \in 1 .. m, j < k, ~(h[j] < h[k]) PROVE FALSE
    OBVIOUS
  <2>1. h[j] \in 1 .. n /\ h[k] \in 1 .. n /\ p[h[j]] = q[j] /\ p[h[k]] = q[k] /\ q[j].at < q[k].at
    BY <1>1, <1>4 DEF H!InOrderOfTime
  <2>2. q[j].at \in Int /\ q[k].at \in Int
    BY <2>1, <1>1 DEF Entry
  <2>3. h[j] # h[k]
    BY <2>1, <2>2
  <2>4. h[k] < h[j]
    BY <2>1, <2>3, <1>1
  <2>5. p[h[k]].at < p[h[j]].at
    BY <1>5, <2>1, <2>4
  <2> QED
    BY <2>1, <2>2, <2>5
<1>7. \A k \in 1 .. m : h[k] \in Int /\ h[k] >= 1 /\ h[k] <= n
  BY <1>1, <1>4
<1>8. m \in 1 .. m
  BY <1>1
<1>9. h[m] >= 1 + m - 1
  <2>1. Climbs(h, m, 1)
    BY <1>1, <1>6, <1>7 DEF Climbs
  <2> QED
    BY <1>1, <2>1, Climb
<1>10. h[1] = 1
  <2> SUFFICES ASSUME h[1] # 1 PROVE FALSE
    OBVIOUS
  <2>1. h[1] >= 2
    BY <1>1, <1>7
  <2>2. h[m] >= 2 + m - 1
    <3>1. Climbs(h, m, 2)
      BY <1>1, <1>6, <1>7, <2>1 DEF Climbs
    <3> QED
      BY <1>1, <3>1, Climb
  <2> QED
    BY <1>1, <1>7, <1>8, <2>2
<1>11. n = m
  BY <1>1, <1>7, <1>8, <1>9
<1> QED
  BY <1>1, <1>4, <1>10, <1>11 DEF n, m

\* An entry comes to a deque, which may be full.
LEMMA BoundedOK ==
  ASSUME NEW q \in Seq(Entry), NEW e \in Entry, H!InOrderOfTime(q), \A x \in H!Range(q) : x.at < e.at,
         MaxSize \in Nat, Len(q) <= MaxSize, NEW n, n = H!Bounded(Append(q, e))
  PROVE  /\ n \in Seq(Entry) /\ H!InOrderOfTime(n) /\ Len(n) <= MaxSize
         /\ \/ Len(q) < MaxSize /\ H!Range(n) = H!Range(q) \cup {e} /\ Len(n) = Len(q) + 1
            \/ /\ Len(q) = MaxSize /\ 1 \in DOMAIN q /\ H!Range(n) = (H!Range(q) \ {q[1]}) \cup {e}
               /\ \A x \in H!Range(q) : x # q[1] => q[1].at < x.at
            \/ MaxSize = 0 /\ n = <<>> /\ q = <<>>
<1> DEFINE m == Len(q)
           r == Append(q, e)
<1>1. /\ r \in Seq(Entry) /\ m \in Nat /\ Len(r) = m + 1 /\ DOMAIN q = 1 .. m /\ DOMAIN r = 1 .. m + 1
      /\ r[m + 1] = e /\ \A i \in 1 .. m : r[i] = q[i] /\ q[i] \in Entry
  OBVIOUS
<1>2. /\ Tail(r) \in Seq(Entry) /\ DOMAIN Tail(r) = 1 .. m /\ \A i \in 1 .. m : Tail(r)[i] = r[i + 1]
      /\ Len(Tail(r)) = m
  BY <1>1
<1>0. (m = 0 <=> q = <<>>) /\ m <= MaxSize /\ n = (IF Len(r) > MaxSize THEN Tail(r) ELSE r) /\ m = Len(q)
  BY DEF H!Bounded
<1>9. m = 0 => Tail(r) = <<>>
  BY <1>2
<1> HIDE DEF r, m
<1>3. /\ \A i \in 1 .. m + 1 : i \in 1 .. m \/ i = m + 1
      /\ \A i \in 1 .. m : i \in 1 .. m + 1 /\ i + 1 \in 1 .. m + 1 /\ i < i + 1
      /\ m + 1 \in 1 .. m + 1
      /\ \A i \in 1 .. m + 1 : i # 1 => i - 1 \in 1 .. m /\ i - 1 + 1 = i
      /\ \A i, j \in 1 .. m : i < j => i + 1 < j + 1
  BY <1>1
<1>4. H!Range(q) = {q[i] : i \in 1 .. m} /\ H!Range(r) = {r[i] : i \in 1 .. m + 1} /\ H!Range(Tail(r)) = {r[i + 1] : i \in 1 .. m}
  BY <1>1, <1>2 DEF H!Range
<1>5. H!Range(r) = H!Range(q) \cup {e}
  <2>1. \A y \in H!Range(r) : y \in H!Range(q) \cup {e}
    BY <1>1, <1>3, <1>4
  <2>2. \A y \in H!Range(q) \cup {e} : y \in H!Range(r)
    BY <1>1, <1>3, <1>4
  <2> QED
    BY <2>1, <2>2
<1>6. \A i, j \in 1 .. m + 1 : i < j => r[i].at < r[j].at
  <2> SUFFICES ASSUME NEW i \in 1 .. m + 1, NEW j \in 1 .. m + 1, i < j PROVE r[i].at < r[j].at
    OBVIOUS
  <2>1. i \in 1 .. m /\ q[i] \in H!Range(q)
    BY <1>1, <1>4
  <2>2. CASE j \in 1 .. m
    BY <1>1, <2>1, <2>2 DEF H!InOrderOfTime
  <2>3. CASE j = m + 1
    BY <1>1, <2>1, <2>3
  <2> QED
    BY <1>3, <2>2, <2>3
<1>7. CASE m < MaxSize
  <2>1. n = r
    BY <1>0, <1>1, <1>7
  <2>2. H!InOrderOfTime(r)
    BY <1>1, <1>6 DEF H!InOrderOfTime
  <2> QED
    BY <1>0, <1>1, <1>5, <1>7, <2>1, <2>2
<1>8. CASE m = MaxSize
  <2>1. n = Tail(r)
    BY <1>0, <1>1, <1>8
  <2>2. H!InOrderOfTime(n)
    BY <1>2, <1>3, <1>6, <2>1 DEF H!InOrderOfTime
  <2>3. CASE m = 0
    BY <1>0, <1>1, <1>2, <1>8, <1>9, <2>1, <2>2, <2>3
  <2>4. CASE m # 0
    <3>1. 1 \in 1 .. m /\ 1 \in 1 .. m + 1
      BY <1>1, <2>4
    <3>2. \A i \in 1 .. m + 1 : i # 1 => r[1].at < r[i].at /\ r[1].at \in Int /\ r[i].at \in Int
      <4> SUFFICES ASSUME NEW i \in 1 .. m + 1, i # 1 PROVE r[1].at < r[i].at /\ r[1].at \in Int /\ r[i].at \in Int
        OBVIOUS
      <4>1. 1 < i
        BY <1>1
      <4>2. r[1] \in Entry /\ r[i] \in Entry
        BY <1>1, <3>1
      <4> QED
        BY <1>6, <3>1, <4>1, <4>2 DEF Entry
    <3>3. r[1] = q[1]
      BY <1>1, <3>1
    <3>4. \A x \in H!Range(n) : x \in (H!Range(q) \ {q[1]}) \cup {e}
      <4> SUFFICES ASSUME NEW i \in 1 .. m PROVE r[i + 1] \in (H!Range(q) \ {q[1]}) \cup {e}
        BY <1>4, <2>1
      <4>1. i + 1 \in 1 .. m + 1 /\ i + 1 # 1
        BY <1>1
      <4>2. r[i + 1] # r[1] /\ r[i + 1] \in H!Range(r)
        BY <1>4, <3>2, <4>1
      <4> QED
        BY <1>5, <3>3, <4>2
    <3>5. \A x \in (H!Range(q) \ {q[1]}) \cup {e} : x \in H!Range(n)
      <4> SUFFICES ASSUME NEW x \in (H!Range(q) \ {q[1]}) \cup {e} PROVE x \in H!Range(n)
        OBVIOUS
      <4>1. PICK i \in 1 .. m + 1 : x = r[i]
        BY <1>4, <1>5
      <4>2. x # r[1]
        <5>1. m + 1 # 1 /\ r[1] # e
          BY <1>1, <1>3, <2>4, <3>2
        <5> QED
          BY <5>1, <3>3
      <4>3. i - 1 \in 1 .. m /\ i - 1 + 1 = i
        BY <1>3, <4>1, <4>2
      <4> QED
        BY <1>4, <2>1, <4>1, <4>3
    <3>6. \A x \in H!Range(q) : x # q[1] => q[1].at < x.at
      <4> SUFFICES ASSUME NEW i \in 1 .. m, q[i] # q[1] PROVE q[1].at < q[i].at
        BY <1>4
      <4>1. i # 1 /\ i \in 1 .. m + 1 /\ r[i] = q[i]
        BY <1>1, <1>3
      <4> QED
        BY <3>2, <3>3, <4>1
    <3> QED
      BY <1>1, <1>2, <1>8, <2>1, <2>2, <3>1, <3>4, <3>5, <3>6, <1>0
  <2> QED
    BY <2>3, <2>4
<1> QED
  BY <1>0, <1>1, <1>7, <1>8

HistoryTyped ==
  /\ events \in Seq(Entry) /\ byType \in [EventTypes -> Seq(Entry)] /\ typeKeys \subseteq EventTypes /\ added \in Nat
  /\ Len(events) <= MaxSize /\ \A t \in EventTypes : Len(byType[t]) <= MaxSize
  /\ \A e \in H!Range(events) : e.at <= added
  /\ \A t \in EventTypes : \A e \in H!Range(byType[t]) : e.type = t /\ e.at <= added
  /\ \A t \in EventTypes \ typeKeys : byType[t] = <<>>
Replays ==
  [source : Ways \cup {"old"}, type : Ways, left : Seq(Entry), seen : Seq(Entry), state : {"running", "done", "broken"}]
Replaying(r) ==
  /\ r \in Replays /\ H!InOrderOfTime(r.left) /\ H!InOrderOfTime(r.seen)
  /\ \A j \in DOMAIN r.seen, k \in DOMAIN r.left : r.seen[j].at < r.left[k].at
  /\ \A e \in H!Range(r.seen) : r.type \in {"all", e.type}
HistoryInv == HistoryTyped /\ H!IndexCoversBuffer /\ (replay = <<>> \/ Replaying(replay))

LEMMA HistoryInit == H!HistoryOK /\ H!Init => HistoryInv
<1>1. <<>> \in Seq(Entry) /\ Len(<<>>) = 0 /\ H!Range(<<>>) = {} /\ H!InOrderOfTime(<<>>)
  BY DEF H!Range, H!InOrderOfTime
<1> QED
  BY <1>1 DEF H!Init, H!HistoryOK, HistoryInv, HistoryTyped, H!IndexCoversBuffer

\* A list in order of time has nothing twice, and its entries are typed.
LEMMA DisturbOK ==
  ASSUME replay = <<>> \/ Replaying(replay), NEW changed, NEW replaced, H!Disturb(changed, replaced)
  PROVE  replay' = <<>> \/ Replaying(replay')
<1>1. CASE replay = <<>>
  BY <1>1 DEF H!Disturb
<1>2. CASE replay # <<>>
  <2>1. replay \in Replays
    BY <1>2 DEF Replaying
  <2>2. replay' = replay \/ replay' = [replay EXCEPT !.state = "broken"] \/ replay' = [replay EXCEPT !.source = "old"]
    BY <1>2 DEF H!Disturb
  <2>3. replay' \in Replays
    BY <2>1, <2>2 DEF Replays
  <2>4. replay'.left = replay.left /\ replay'.seen = replay.seen /\ replay'.type = replay.type
    BY <2>1, <2>2 DEF Replays
  <2> QED
    BY <1>2, <2>3, <2>4 DEF Replaying
<1> QED
  BY <1>1, <1>2

LEMMA AddOK ==
  ASSUME H!HistoryOK, HistoryTyped, H!IndexCoversBuffer, NEW t \in EventTypes, H!Add(t)
  PROVE  HistoryTyped' /\ H!IndexCoversBuffer'
<1> DEFINE e == [at |-> added + 1, type |-> t]
           q == byType[t]
           Z == H!Range(events)
           T == H!Range(q)
           F == H!Range(events')
           U == H!Range(byType'[t])
<1>1. /\ e \in Entry /\ e.at = added + 1 /\ e.type = t /\ added \in Nat /\ added' = added + 1 /\ typeKeys' = typeKeys \cup {t}
      /\ events' = H!Bounded(Append(events, e)) /\ byType' = [byType EXCEPT ![t] = H!Bounded(Append(q, e))]
  BY DEF H!Add, HistoryTyped, Entry
<1>2. /\ events \in Seq(Entry) /\ q \in Seq(Entry) /\ H!InOrderOfTime(events) /\ H!InOrderOfTime(q) /\ MaxSize \in Nat
      /\ Len(events) <= MaxSize /\ Len(q) <= MaxSize
  BY DEF HistoryTyped, H!IndexCoversBuffer, H!HistoryOK
<1>3. /\ byType'[t] = H!Bounded(Append(q, e)) /\ DOMAIN byType' = EventTypes /\ \A u \in EventTypes : u # t => byType'[u] = byType[u]
  BY <1>1 DEF HistoryTyped
<1>4. /\ \A x \in Z : x \in Entry /\ x.at \in Int /\ x.at <= added
      /\ \A x \in T : x \in Entry /\ x.at \in Int /\ x.at <= added /\ x.type = t
  <2>1. \A x \in Z : x \in Entry
    BY <1>2 DEF H!Range
  <2>2. \A x \in T : x \in Entry
    BY <1>2 DEF H!Range
  <2>3. \A x \in Entry : x.at \in Int
    BY DEF Entry
  <2> QED
    BY <2>1, <2>2, <2>3 DEF HistoryTyped
<1> HIDE DEF e, q, Z, T, F, U
<1>5. (\A x \in Z : x.at < e.at) /\ \A x \in T : x.at < e.at
  BY <1>1, <1>4
<1>6. /\ events' \in Seq(Entry) /\ H!InOrderOfTime(events') /\ Len(events') <= MaxSize
      /\ \/ Len(events) < MaxSize /\ F = Z \cup {e}
         \/ Len(events) = MaxSize /\ 1 \in DOMAIN events /\ F = (Z \ {events[1]}) \cup {e} /\ \A x \in Z : x # events[1] => events[1].at < x.at
         \/ MaxSize = 0 /\ events' = <<>> /\ events = <<>>
  BY <1>1, <1>2, <1>5, BoundedOK DEF Z, F
<1>7. /\ byType'[t] \in Seq(Entry) /\ H!InOrderOfTime(byType'[t]) /\ Len(byType'[t]) <= MaxSize
      /\ \/ Len(q) < MaxSize /\ U = T \cup {e}
         \/ Len(q) = MaxSize /\ 1 \in DOMAIN q /\ U = (T \ {q[1]}) \cup {e} /\ \A x \in T : x # q[1] => q[1].at < x.at
         \/ MaxSize = 0 /\ byType'[t] = <<>> /\ q = <<>>
  BY <1>1, <1>2, <1>3, <1>5, BoundedOK DEF T, U
<1>8. H!Range(<<>>) = {}
  BY DEF H!Range
<1>9. /\ \A f \in Z : f.type = t => f \in T
      /\ \A f \in Z : f.type = t => \A x \in T : x.at >= f.at => x \in Z
  BY DEF H!IndexCoversBuffer, Z, T, q
<1>10. F \subseteq Z \cup {e} /\ U \subseteq T \cup {e}
  BY <1>6, <1>7, <1>8 DEF F, U
<1>11. HistoryTyped'
  <2>1. byType' \in [EventTypes -> Seq(Entry)]
    BY <1>1, <1>7, <1>3 DEF HistoryTyped
  <2>2. \A u \in EventTypes : Len(byType'[u]) <= MaxSize
    BY <1>3, <1>7 DEF HistoryTyped
  <2>3. \A x \in F : x.at <= added'
    BY <1>1, <1>4, <1>10
  <2>4. \A u \in EventTypes : \A x \in H!Range(byType'[u]) : x.type = u /\ x.at <= added'
    <3> SUFFICES ASSUME NEW u \in EventTypes, NEW x \in H!Range(byType'[u]) PROVE x.type = u /\ x.at <= added'
      OBVIOUS
    <3>1. CASE u = t
      BY <1>1, <1>4, <1>10, <3>1 DEF U
    <3>2. CASE u # t
      <4>1. x \in H!Range(byType[u]) /\ byType[u] \in Seq(Entry)
        BY <1>3, <3>2 DEF HistoryTyped
      <4>2. x.type = u /\ x.at <= added /\ x \in Entry
        BY <4>1 DEF HistoryTyped, H!Range
      <4> QED
        BY <4>2, <1>1 DEF Entry
    <3> QED
      BY <3>1, <3>2
  <2>5. \A u \in EventTypes \ typeKeys' : byType'[u] = <<>>
    BY <1>1, <1>3 DEF HistoryTyped
  <2>6. typeKeys' \subseteq EventTypes /\ added' \in Nat
    BY <1>1 DEF HistoryTyped
  <2> QED
    BY <1>6, <2>1, <2>2, <2>3, <2>4, <2>5, <2>6 DEF HistoryTyped, F
<1>12. \A f \in F : f.type = t => f \in U
  <2> SUFFICES ASSUME NEW f \in F, f.type = t, f \notin U PROVE FALSE
    OBVIOUS
  <2>1. ~(MaxSize = 0 /\ events' = <<>> /\ events = <<>>)
    BY <1>8 DEF F
  <2>2. MaxSize # 0
    BY <2>1, <1>2, <1>6
  <2>3. e \in U
    BY <1>7, <2>2
  <2>4. f \in Z /\ f \in T
    BY <1>9, <1>10, <2>3
  <2>5. Len(q) = MaxSize /\ 1 \in DOMAIN q /\ f = q[1] /\ \A x \in T : x # q[1] => q[1].at < x.at
    BY <1>7, <2>2, <2>4
  <2>6. T \subseteq Z
    BY <1>4, <1>9, <2>4, <2>5
  <2>7. q # <<>>
    BY <2>5
  <2>8. 1 \in DOMAIN events /\ events[1] = q[1] /\ Len(events) = Len(q)
    BY <1>2, <2>5, <2>6, <2>7, SameFirst DEF Z, T
  <2>9. F = (Z \ {events[1]}) \cup {e}
    BY <1>2, <1>6, <2>2, <2>5, <2>8
  <2>10. f # e
    BY <2>3
  <2> QED
    BY <2>5, <2>8, <2>9, <2>10
<1>13. \A f \in F : f.type = t => \A x \in U : x.at >= f.at => x \in F
  <2> SUFFICES ASSUME NEW f \in F, f.type = t, NEW x \in U, x.at >= f.at PROVE x \in F
    OBVIOUS
  <2>1. MaxSize # 0
    BY <1>2, <1>6, <1>8 DEF F
  <2>2. e \in F
    BY <1>6, <2>1
  <2>3. CASE x = e
    BY <2>2, <2>3
  <2>4. CASE x # e
    <3>1. x \in T /\ x.at < e.at /\ x.at \in Int
      BY <1>4, <1>5, <1>10, <2>4
    <3>2. f # e /\ f \in Z
      BY <1>1, <1>4, <1>10, <3>1
    <3>3. x \in Z /\ f.at \in Int
      BY <1>4, <1>9, <3>1, <3>2
    <3>4. CASE F = Z \cup {e}
      BY <3>3, <3>4
    <3>5. CASE Len(events) = MaxSize /\ 1 \in DOMAIN events /\ F = (Z \ {events[1]}) \cup {e} /\ \A y \in Z : y # events[1] => events[1].at < y.at
      <4>1. events[1].at < f.at /\ events[1].at \in Int
        <5>1. events[1] \in Z
          BY <3>5 DEF Z, H!Range
        <5> QED
          BY <5>1, <1>4, <3>2, <3>5
      <4>2. x # events[1]
        BY <3>1, <3>3, <4>1
      <4> QED
        BY <3>3, <3>5, <4>2
    <3> QED
      BY <1>6, <2>1, <3>4, <3>5
  <2> QED
    BY <2>3, <2>4
<1>14. H!IndexCoversBuffer'
  <2>1. \A u \in EventTypes : H!InOrderOfTime(byType'[u])
    BY <1>3, <1>7 DEF H!IndexCoversBuffer
  <2>2. ASSUME NEW u \in EventTypes, u # t
        PROVE  /\ \A f \in F : f.type = u => f \in H!Range(byType'[u])
               /\ \A f \in F : f.type = u => \A x \in H!Range(byType'[u]) : x.at >= f.at => x \in F
    <3>1. /\ \A f \in Z : f.type = u => f \in H!Range(byType[u])
          /\ \A f \in Z : f.type = u => \A x \in H!Range(byType[u]) : x.at >= f.at => x \in Z /\ x.type = u
      BY DEF H!IndexCoversBuffer, Z
    <3>2. \A f \in F : f.type = u => f \in Z
      BY <1>1, <1>10, <2>2
    <3>3. byType'[u] = byType[u]
      BY <1>3, <2>2
    <3>4. ASSUME NEW f \in F, f.type = u, NEW x \in H!Range(byType[u]), x.at >= f.at PROVE x \in F
      <4>1. f \in Z /\ x \in Z
        BY <3>1, <3>2, <3>4
      <4>2. CASE F = Z \cup {e}
        BY <4>1, <4>2
      <4>3. CASE Len(events) = MaxSize /\ 1 \in DOMAIN events /\ F = (Z \ {events[1]}) \cup {e} /\ \A y \in Z : y # events[1] => events[1].at < y.at
        <5>1. events[1] \in Z
          BY <4>3 DEF Z, H!Range
        <5>2. f # events[1]
          BY <1>1, <2>2, <3>4, <4>3
        <5>3. events[1].at < f.at /\ events[1].at \in Int /\ f.at \in Int /\ x.at \in Int
          BY <1>4, <4>1, <4>3, <5>1, <5>2
        <5>4. x # events[1]
          BY <3>4, <5>3
        <5> QED
          BY <4>1, <4>3, <5>4
      <4>4. CASE events' = <<>>
        BY <1>8, <4>4 DEF F
      <4> QED
        BY <1>6, <4>2, <4>3, <4>4
    <3> QED
      BY <3>1, <3>2, <3>3, <3>4
  <2>3. \A x \in U : x.type = t
    BY <1>1, <1>4, <1>10
  <2>4. \A u \in EventTypes : \A x \in H!Range(byType'[u]) : x.type = u
    BY <1>11 DEF HistoryTyped
  <2>5. \A u \in EventTypes :
           /\ \A f \in F : f.type = u => f \in H!Range(byType'[u])
           /\ \A f \in F : f.type = u => \A x \in H!Range(byType'[u]) : x.at >= f.at => x \in F
    <3> TAKE u \in EventTypes
    <3>1. CASE u = t
      BY <3>1, <1>12, <1>13 DEF U
    <3> QED
      BY <2>2, <3>1
  <2> QED
    BY <1>6, <2>1, <2>4, <2>5 DEF H!IndexCoversBuffer, F
<1> QED
  BY <1>11, <1>14

\* A buffer after a comprehension.
LEMMA OnlyEntries ==
  ASSUME NEW q \in Seq(Entry), NEW S \in SUBSET H!Range(q), H!InOrderOfTime(q), Len(q) <= MaxSize, MaxSize \in Nat
  PROVE  LET r == H!Only(q, S) IN r \in Seq(Entry) /\ H!Range(r) = S /\ H!InOrderOfTime(r) /\ Len(r) <= MaxSize
<1> DEFINE r == H!Only(q, S)
<1>1. r \in Seq(S) /\ H!Range(r) = S /\ H!InOrderOfTime(r)
  BY OnlyOK
<1>2. S \subseteq Entry
  BY DEF H!Range
<1>3. r \in UNION {[1 .. n -> S] : n \in 0 .. Len(q)}
  <2>1. Len(q) \in Nat /\ q \in [1 .. Len(q) -> Entry]
    OBVIOUS
  <2>2. \E m \in 0 .. Len(q) : \E x \in [1 .. m -> S] : KeptOf(x, q, S)
    BY <2>1, KeptAlways DEF Keeps
  <2> DEFINE F == UNION {[1 .. n -> S] : n \in 0 .. Len(q)}
  <2>3. \E x \in F : KeptOf(x, q, S)
    BY <2>2
  <2>4. r = CHOOSE x \in F : KeptOf(x, q, S)
    BY DEF H!Only, KeptOf
  <2> HIDE DEF F, r
  <2>5. r \in F
    BY <2>3, <2>4
  <2> QED
    BY <2>5 DEF F
<1> HIDE DEF r
<1>4. PICK n \in 0 .. Len(q) : r \in [1 .. n -> S]
  BY <1>3
<1>5. r \in Seq(Entry) /\ Len(r) = n
  BY <1>1, <1>2, <1>4
<1>6. Len(q) \in Nat
  OBVIOUS
<1>7. Len(r) <= MaxSize
  BY <1>5, <1>6
<1> QED
  BY <1>1, <1>5, <1>7 DEF r

\* What empties a type's buffer, or keeps the recent entries of all.
LEMMA ShrinkOK ==
  ASSUME H!HistoryOK, HistoryTyped, H!IndexCoversBuffer, H!Clear \/ (\E t \in EventTypes : H!ClearType(t)) \/ \E b \in Int : H!PruneOld(b)
  PROVE  HistoryTyped' /\ H!IndexCoversBuffer'
<1>0. /\ events \in Seq(Entry) /\ byType \in [EventTypes -> Seq(Entry)] /\ typeKeys \subseteq EventTypes /\ added \in Nat
      /\ Len(events) <= MaxSize /\ MaxSize \in Nat /\ H!InOrderOfTime(events)
      /\ \A t \in EventTypes : H!InOrderOfTime(byType[t]) /\ Len(byType[t]) <= MaxSize
  BY DEF HistoryTyped, H!HistoryOK, H!IndexCoversBuffer
<1>e. <<>> \in Seq(Entry) /\ Len(<<>>) = 0 /\ H!Range(<<>>) = {} /\ H!InOrderOfTime(<<>>)
  BY DEF H!Range, H!InOrderOfTime
<1>1. CASE H!Clear
  BY <1>0, <1>1, <1>e DEF H!Clear, HistoryTyped, H!IndexCoversBuffer
<1>2. ASSUME NEW t \in EventTypes, H!ClearType(t) PROVE HistoryTyped' /\ H!IndexCoversBuffer'
  <2> DEFINE S == {e \in H!Range(events) : e.type # t}
  <2>1. /\ byType' = [byType EXCEPT ![t] = <<>>] /\ events' = H!Only(events, S) /\ typeKeys' = typeKeys /\ added' = added
    BY <1>2 DEF H!ClearType
  <2>2. events' \in Seq(Entry) /\ H!Range(events') = S /\ H!InOrderOfTime(events') /\ Len(events') <= MaxSize
    BY <1>0, <2>1, OnlyEntries
  <2>3. byType'[t] = <<>> /\ \A u \in EventTypes : u # t => byType'[u] = byType[u]
    BY <1>0, <2>1
  <2>4. byType' \in [EventTypes -> Seq(Entry)]
    BY <1>0, <1>e, <2>1
  <2>5. HistoryTyped'
    BY <1>0, <1>e, <2>1, <2>2, <2>3, <2>4 DEF HistoryTyped
  <2>6. H!IndexCoversBuffer'
    <3>1. \A u \in EventTypes : H!InOrderOfTime(byType'[u])
      BY <1>0, <1>e, <2>3
    <3>2. ASSUME NEW u \in EventTypes
          PROVE  /\ \A f \in S : f.type = u => f \in H!Range(byType'[u])
                 /\ \A f \in S : f.type = u => \A x \in H!Range(byType'[u]) : x.at >= f.at => x \in S /\ x.type = u
      <4>1. CASE u = t
        BY <4>1
      <4>2. CASE u # t
        <5>1. \A x \in H!Range(byType[u]) : x.type = u
          BY DEF HistoryTyped
        <5> QED
          BY <2>3, <4>2, <5>1 DEF H!IndexCoversBuffer
      <4> QED
        BY <4>1, <4>2
    <3> HIDE DEF S
    <3> QED
      BY <2>2, <3>1, <3>2 DEF H!IndexCoversBuffer
  <2> QED
    BY <2>5, <2>6
<1>3. ASSUME NEW b \in Int, H!PruneOld(b) PROVE HistoryTyped' /\ H!IndexCoversBuffer'
  <2> DEFINE S(q) == {e \in H!Range(q) : e.at >= b}
  <2>1. /\ events' = H!Only(events, S(events)) /\ byType' = [t \in EventTypes |-> H!Only(byType[t], S(byType[t]))] /\ added' = added
        /\ typeKeys' = {t \in typeKeys : H!Only(byType[t], S(byType[t])) # <<>>}
    BY <1>3 DEF H!PruneOld, H!Recent
  <2>2. events' \in Seq(Entry) /\ H!Range(events') = S(events) /\ H!InOrderOfTime(events') /\ Len(events') <= MaxSize
    BY <1>0, <2>1, OnlyEntries
  <2>3. \A t \in EventTypes : /\ byType'[t] = H!Only(byType[t], S(byType[t])) /\ byType'[t] \in Seq(Entry) /\ H!Range(byType'[t]) = S(byType[t])
                              /\ H!InOrderOfTime(byType'[t]) /\ Len(byType'[t]) <= MaxSize
    BY <1>0, <2>1, OnlyEntries
  <2>4. DOMAIN byType' = EventTypes /\ byType' = [t \in EventTypes |-> byType'[t]]
    BY <2>1
  <2>5. byType' \in [EventTypes -> Seq(Entry)]
    BY <2>3, <2>4
  <2>6. typeKeys' \subseteq EventTypes /\ \A t \in EventTypes \ typeKeys' : byType'[t] = <<>>
    <3> SUFFICES ASSUME NEW t \in EventTypes, t \notin typeKeys' PROVE byType'[t] = <<>>
      BY <1>0, <2>1
    <3>1. CASE t \in typeKeys
      BY <2>1, <2>3, <3>1
    <3>2. CASE t \notin typeKeys
      <4>1. byType[t] = <<>>
        BY <3>2 DEF HistoryTyped
      <4>2. H!Range(byType'[t]) = {} /\ byType'[t] \in Seq(Entry)
        BY <1>e, <2>3, <4>1
      <4> QED
        <5> SUFFICES ASSUME byType'[t] # <<>> PROVE FALSE
          OBVIOUS
        <5>1. 1 \in DOMAIN byType'[t]
          BY <4>2
        <5> QED
          BY <4>2, <5>1 DEF H!Range
    <3> QED
      BY <3>1, <3>2
  <2>7. HistoryTyped'
    <3>1. \A e \in H!Range(events') : e.at <= added'
      BY <2>1, <2>2 DEF HistoryTyped
    <3>2. \A t \in EventTypes : \A e \in H!Range(byType'[t]) : e.type = t /\ e.at <= added'
      BY <2>1, <2>3 DEF HistoryTyped
    <3> QED
      BY <1>0, <2>1, <2>2, <2>3, <2>5, <2>6, <3>1, <3>2 DEF HistoryTyped
  <2>8. H!IndexCoversBuffer'
    <3>1. ASSUME NEW u \in EventTypes
          PROVE  /\ \A f \in S(events) : f.type = u => f \in S(byType[u])
                 /\ \A f \in S(events) : f.type = u => \A x \in S(byType[u]) : x.at >= f.at => x \in S(events) /\ x.type = u
      <4>1. \A x \in H!Range(byType[u]) : x.type = u
        BY DEF HistoryTyped
      <4> QED
        BY <4>1 DEF H!IndexCoversBuffer
    <3> HIDE DEF S
    <3> QED
      BY <2>2, <2>3, <3>1 DEF H!IndexCoversBuffer
  <2> QED
    BY <2>7, <2>8
<1> QED
  BY <1>1, <1>2, <1>3

\* A replay yields the next entry.
LEMMA ReplayOK ==
  ASSUME H!HistoryOK, HistoryTyped, H!IndexCoversBuffer, replay = <<>> \/ Replaying(replay),
         (\E t \in Ways : H!ReplayBegins(t)) \/ H!ReplayNext \/ H!ReplayEnds
  PROVE  replay' = <<>> \/ Replaying(replay')
<1>1. ASSUME NEW t \in Ways, H!ReplayBegins(t) PROVE Replaying(replay')
  <2>1. H!Source(t) \in Seq(Entry) /\ H!InOrderOfTime(H!Source(t)) /\ <<>> \in Seq(Entry) /\ H!Range(<<>>) = {} /\ DOMAIN <<>> = {}
    BY DEF H!Source, HistoryTyped, H!IndexCoversBuffer, H!Range
  <2>2. /\ replay'.left = H!Source(t) /\ replay'.seen = <<>> /\ replay' \in Replays
    BY <1>1, <2>1 DEF H!ReplayBegins, Replays, Ways, HistoryTyped
  <2> QED
    BY <2>1, <2>2 DEF Replaying, H!InOrderOfTime
<1>2. CASE H!ReplayNext
  <2>1. Replaying(replay) /\ replay \in Replays
    BY <1>2 DEF H!ReplayNext, Replaying
  <2>2. CASE replay.left = <<>>
    <3>1. replay' = [replay EXCEPT !.state = "done"]
      BY <1>2, <2>2 DEF H!ReplayNext
    <3>2. replay' \in Replays
      BY <2>1, <3>1 DEF Replays
    <3>3. replay'.left = replay.left /\ replay'.seen = replay.seen /\ replay'.type = replay.type
      BY <2>1, <3>1 DEF Replays
    <3> QED
      BY <2>1, <3>2, <3>3 DEF Replaying
  <2>3. CASE replay.left # <<>>
    <3> DEFINE e == Head(replay.left)
               left == replay.left
               seen == replay.seen
               n == Len(seen)
    <3>1. replay' = [replay EXCEPT !.left = Tail(@), !.seen = IF replay.type \in {"all", e.type} THEN Append(@, e) ELSE @]
      BY <1>2, <2>3 DEF H!ReplayNext
    <3>2. left \in Seq(Entry) /\ seen \in Seq(Entry) /\ left # <<>>
      BY <2>1, <2>3 DEF Replays
    <3>3. e \in Entry /\ Tail(left) \in Seq(Entry) /\ Append(seen, e) \in Seq(Entry)
      BY <3>2
    <3>4. replay' \in Replays
      BY <2>1, <3>1, <3>2, <3>3 DEF Replays
    <3>5. /\ replay'.left = Tail(left) /\ replay'.type = replay.type
          /\ replay'.seen = seen \/ (replay'.seen = Append(seen, e) /\ replay.type \in {"all", e.type})
      BY <2>1, <3>1 DEF Replays
    <3>6. /\ 1 \in DOMAIN left /\ e = left[1]
          /\ \A k \in DOMAIN Tail(left) : k + 1 \in DOMAIN left /\ Tail(left)[k] = left[k + 1] /\ 1 < k + 1 /\ k \in Int
      BY <3>2
    <3>7. /\ DOMAIN Append(seen, e) = 1 .. n + 1 /\ DOMAIN seen = 1 .. n /\ n \in Nat /\ Append(seen, e)[n + 1] = e
          /\ \A k \in 1 .. n : Append(seen, e)[k] = seen[k]
      BY <3>2, <3>3
    <3>8. \A k \in 1 .. n + 1 : k \in 1 .. n \/ k = n + 1
      BY <3>7
    <3>9. /\ H!InOrderOfTime(left) /\ H!InOrderOfTime(seen) /\ (\A x \in H!Range(seen) : replay.type \in {"all", x.type})
          /\ \A j \in DOMAIN seen, k \in DOMAIN left : seen[j].at < left[k].at
      BY <2>1 DEF Replaying
    <3> HIDE DEF e, left, seen, n
    <3>10. H!InOrderOfTime(Tail(left))
      BY <3>6, <3>9 DEF H!InOrderOfTime
    <3>11. CASE replay'.seen = seen
      BY <3>4, <3>5, <3>6, <3>9, <3>10, <3>11 DEF Replaying
    <3>12. CASE replay'.seen = Append(seen, e) /\ replay.type \in {"all", e.type}
      <4> DEFINE s == Append(seen, e)
      <4>1. \A j, k \in 1 .. n + 1 : j < k => s[j].at < s[k].at
        <5> SUFFICES ASSUME NEW j \in 1 .. n + 1, NEW k \in 1 .. n + 1, j < k PROVE s[j].at < s[k].at
          OBVIOUS
        <5>1. j \in 1 .. n /\ s[j] = seen[j]
          BY <3>7
        <5>2. CASE k \in 1 .. n
          BY <5>1, <5>2, <3>7, <3>9 DEF H!InOrderOfTime
        <5>3. CASE k = n + 1
          BY <5>1, <5>3, <3>6, <3>7, <3>9
        <5> QED
          BY <3>8, <5>2, <5>3
      <4>2. \A j \in 1 .. n + 1, k \in DOMAIN Tail(left) : s[j].at < Tail(left)[k].at
        <5> SUFFICES ASSUME NEW j \in 1 .. n + 1, NEW k \in DOMAIN Tail(left) PROVE s[j].at < left[k + 1].at
          BY <3>6
        <5>1. k + 1 \in DOMAIN left /\ 1 < k + 1 /\ 1 \in DOMAIN left
          BY <3>6
        <5>2. CASE j \in 1 .. n
          BY <5>1, <5>2, <3>7, <3>9
        <5>3. CASE j = n + 1
          BY <5>1, <5>3, <3>6, <3>7, <3>9 DEF H!InOrderOfTime
        <5> QED
          BY <3>8, <5>2, <5>3
      <4>3. \A x \in H!Range(s) : replay.type \in {"all", x.type}
        <5> SUFFICES ASSUME NEW k \in 1 .. n + 1 PROVE replay.type \in {"all", s[k].type}
          BY <3>7 DEF H!Range
        <5>1. CASE k \in 1 .. n
          <6>1. seen[k] \in H!Range(seen)
            BY <3>7, <5>1 DEF H!Range
          <6> QED
            BY <5>1, <6>1, <3>7, <3>9
        <5>2. CASE k = n + 1
          BY <5>2, <3>7, <3>12
        <5> QED
          BY <3>8, <5>1, <5>2
      <4>4. H!InOrderOfTime(s) /\ DOMAIN s = 1 .. n + 1
        BY <3>7, <4>1 DEF H!InOrderOfTime
      <4> HIDE DEF s
      <4>5. replay'.seen = s
        BY <3>12 DEF s
      <4> QED
        BY <3>4, <3>5, <3>10, <4>2, <4>3, <4>4, <4>5 DEF Replaying
    <3> QED
      BY <3>5, <3>11, <3>12
  <2> QED
    BY <2>2, <2>3
<1>3. CASE H!ReplayEnds
  BY <1>3 DEF H!ReplayEnds
<1> QED
  BY <1>1, <1>2, <1>3

LEMMA HistoryStep == H!HistoryOK /\ HistoryInv /\ [H!Next]_H!vars => HistoryInv'
<1> SUFFICES ASSUME H!HistoryOK, HistoryInv, [H!Next]_H!vars PROVE HistoryInv'
  OBVIOUS
<1>0. HistoryTyped /\ H!IndexCoversBuffer /\ (replay = <<>> \/ Replaying(replay))
  BY DEF HistoryInv
<1>1. ASSUME NEW t \in EventTypes, H!Add(t) PROVE HistoryInv'
  <2>1. H!Disturb({"all", t}, {})
    BY <1>1 DEF H!Add
  <2> QED
    BY <1>0, <1>1, <2>1, AddOK, DisturbOK DEF HistoryInv
<1>2. CASE H!Clear
  <2>1. H!Disturb({"all"}, EventTypes)
    BY <1>2 DEF H!Clear
  <2> QED
    BY <1>0, <1>2, <2>1, ShrinkOK, DisturbOK DEF HistoryInv
<1>3. ASSUME NEW t \in EventTypes, H!ClearType(t) PROVE HistoryInv'
  <2>1. H!Disturb({t}, {"all"})
    BY <1>3 DEF H!ClearType
  <2> QED
    BY <1>0, <1>3, <2>1, ShrinkOK, DisturbOK DEF HistoryInv
<1>4. ASSUME NEW b \in Int, H!PruneOld(b) PROVE HistoryInv'
  <2>1. H!Disturb({}, EventTypes \cup {"all"})
    BY <1>4 DEF H!PruneOld
  <2> QED
    BY <1>0, <1>4, <2>1, ShrinkOK, DisturbOK DEF HistoryInv
<1>5. ASSUME (\E t \in Ways : H!ReplayBegins(t)) \/ H!ReplayNext \/ H!ReplayEnds PROVE HistoryInv'
  <2>1. UNCHANGED <<events, byType, typeKeys, added>>
    BY <1>5 DEF H!ReplayBegins, H!ReplayNext, H!ReplayEnds
  <2>2. HistoryTyped' /\ H!IndexCoversBuffer'
    BY <1>0, <2>1 DEF HistoryTyped, H!IndexCoversBuffer
  <2> QED
    BY <1>0, <1>5, <2>2, ReplayOK DEF HistoryInv
<1>6. CASE UNCHANGED H!vars
  BY <1>0, <1>6 DEF H!vars, HistoryInv, HistoryTyped, H!IndexCoversBuffer
<1>7. \A b \in 2 .. MaxAdds : b \in Int
  OBVIOUS
<1> QED
  BY <1>1, <1>2, <1>3, <1>4, <1>5, <1>6, <1>7 DEF H!Next, Ways

\* Newest first.
LEMMA ReverseOK ==
  ASSUME NEW q \in Seq(Entry), H!InOrderOfTime(q)
  PROVE  /\ H!Range(H!Reverse(q)) = H!Range(q)
         /\ \A i \in 1 .. Len(H!Reverse(q)) - 1 : H!Reverse(q)[i].at > H!Reverse(q)[i + 1].at
<1> DEFINE n == Len(q)
           r == H!Reverse(q)
<1>1. n \in Nat /\ DOMAIN q = 1 .. n /\ r = [i \in 1 .. n |-> q[n - i + 1]] /\ \A i \in 1 .. n : q[i] \in Entry
  BY DEF H!Reverse
<1>2. \A i \in 1 .. n : n - i + 1 \in 1 .. n /\ n - (n - i + 1) + 1 = i
  BY <1>1
<1>3. DOMAIN r = 1 .. n /\ (\A i \in 1 .. n : r[i] = q[n - i + 1])
  BY <1>1
<1>4. Len(r) = n
  <2>1. r \in Seq(Entry)
    BY <1>1, <1>2
  <2> QED
    BY <1>3, <2>1, <1>1
<1> HIDE DEF n, r
<1>5. \A x \in H!Range(r) : x \in H!Range(q)
  BY <1>1, <1>2, <1>3 DEF H!Range
<1>6. \A x \in H!Range(q) : x \in H!Range(r)
  <2> SUFFICES ASSUME NEW i \in 1 .. n PROVE q[i] \in H!Range(r)
    BY <1>1 DEF H!Range
  <2>1. n - i + 1 \in 1 .. n /\ r[n - i + 1] = q[i]
    BY <1>2, <1>3
  <2> QED
    BY <1>3, <2>1 DEF H!Range
<1>7. \A i \in 1 .. n - 1 : r[i].at > r[i + 1].at
  <2> SUFFICES ASSUME NEW i \in 1 .. n - 1 PROVE r[i].at > r[i + 1].at
    OBVIOUS
  <2> DEFINE a == n - (i + 1) + 1
             b == n - i + 1
  <2>1. i \in 1 .. n /\ i + 1 \in 1 .. n /\ a < b
    BY <1>1
  <2>2. r[i] = q[b] /\ r[i + 1] = q[a] /\ a \in 1 .. n /\ b \in 1 .. n
    BY <1>2, <1>3, <2>1
  <2> HIDE DEF a, b
  <2>3. q[a].at < q[b].at /\ q[a] \in Entry /\ q[b] \in Entry
    BY <1>1, <2>1, <2>2 DEF H!InOrderOfTime
  <2> QED
    BY <2>2, <2>3 DEF Entry
<1> QED
  BY <1>4, <1>5, <1>6, <1>7 DEF r

LEMMA SearchOK == H!HistoryOK /\ HistoryInv => H!SearchFindsAll
<1> SUFFICES ASSUME H!HistoryOK, HistoryInv, NEW t \in EventTypes \cup {"all"}, NEW since \in 1 .. MaxAdds, NEW until \in 1 .. MaxAdds
             PROVE  LET hits == H!Search(t, since, until)
                        right(e) == (t = "all" \/ e.type = t) /\ e.at \in since .. until
                    IN /\ {e \in H!Range(events) : right(e)} \subseteq H!Range(hits)
                       /\ \A e \in H!Range(hits) : right(e)
                       /\ \A i \in 1 .. Len(hits) - 1 : hits[i].at > hits[i + 1].at
  BY DEF H!SearchFindsAll
<1> DEFINE q == H!Source(t)
           wanted == {e \in H!Range(q) : (t = "all" \/ e.type = t) /\ since <= e.at /\ e.at <= until}
           hits == H!Search(t, since, until)
<1>1. q \in Seq(Entry) /\ H!InOrderOfTime(q) /\ events \in Seq(Entry)
  BY DEF H!Source, HistoryInv, HistoryTyped, H!IndexCoversBuffer
<1>2. hits = H!Reverse(H!Only(q, wanted))
  BY DEF H!Search
<1>3. \A e \in H!Range(events) : e \in Entry /\ e.at \in Int
  <2>1. \A e \in H!Range(events) : e \in Entry
    BY <1>1 DEF H!Range
  <2> QED
    BY <2>1 DEF Entry
<1>4. \A e \in H!Range(q) : e \in Entry /\ e.at \in Int
  <2>1. \A e \in H!Range(q) : e \in Entry
    BY <1>1 DEF H!Range
  <2> QED
    BY <2>1 DEF Entry
<1>5. \A e \in H!Range(events) : t = "all" \/ e.type = t => e \in H!Range(q)
  <2> SUFFICES ASSUME NEW e \in H!Range(events), t = "all" \/ e.type = t PROVE e \in H!Range(q)
    OBVIOUS
  <2>1. CASE t \notin typeKeys
    BY <2>1 DEF H!Source
  <2>2. CASE t \in typeKeys
    <3>1. t \in EventTypes /\ t # "all" /\ q = byType[t]
      BY <2>2 DEF HistoryInv, HistoryTyped, H!HistoryOK, H!Source
    <3> QED
      BY <3>1 DEF HistoryInv, H!IndexCoversBuffer
  <2> QED
    BY <2>1, <2>2
<1>6. wanted \in SUBSET H!Range(q)
  OBVIOUS
<1> HIDE DEF q, hits
<1>7. H!Only(q, wanted) \in Seq(wanted) /\ H!Range(H!Only(q, wanted)) = wanted /\ H!InOrderOfTime(H!Only(q, wanted))
  BY <1>1, <1>6, OnlyOK
<1>8. wanted \subseteq Entry
  BY <1>4
<1> DEFINE W == wanted
<1>9. \A e \in Entry : e \in W <=> e \in H!Range(q) /\ (t = "all" \/ e.type = t) /\ since <= e.at /\ e.at <= until
  OBVIOUS
<1>10. W \subseteq Entry /\ H!Only(q, W) \in Seq(W) /\ H!Range(H!Only(q, W)) = W /\ H!InOrderOfTime(H!Only(q, W)) /\ hits = H!Reverse(H!Only(q, W))
  BY <1>2, <1>7, <1>8
<1> HIDE DEF W
<1>11. H!Only(q, W) \in Seq(Entry)
  BY <1>10
<1>12. H!Range(hits) = W /\ \A i \in 1 .. Len(hits) - 1 : hits[i].at > hits[i + 1].at
  BY <1>10, <1>11, ReverseOK
<1>13. \A e \in Entry : e.at \in since .. until <=> since <= e.at /\ e.at <= until
  BY DEF Entry
<1>14. {e \in H!Range(events) : (t = "all" \/ e.type = t) /\ e.at \in since .. until} \subseteq W
  BY <1>3, <1>5, <1>9, <1>13
<1>15. \A e \in W : (t = "all" \/ e.type = t) /\ e.at \in since .. until
  BY <1>9, <1>10, <1>13
<1> QED
  BY <1>12, <1>14, <1>15 DEF hits

LEMMA HistorySafe == H!HistoryOK /\ HistoryInv => H!IndexCoversBuffer /\ H!SearchFindsAll /\ H!ReplayIsInOrder /\ H!TypeOK
<1> SUFFICES ASSUME H!HistoryOK, HistoryInv PROVE H!ReplayIsInOrder /\ H!TypeOK
  BY SearchOK DEF HistoryInv
<1>1. H!ReplayIsInOrder
  <2> SUFFICES ASSUME replay # <<>>
               PROVE  /\ \A i \in 1 .. Len(replay.seen) - 1 : replay.seen[i].at < replay.seen[i + 1].at
                      /\ \A e \in H!Range(replay.seen) : replay.type \in {"all", e.type}
    BY DEF H!ReplayIsInOrder
  <2>1. Replaying(replay) /\ replay.seen \in Seq(Entry)
    BY DEF HistoryInv, Replaying, Replays
  <2>2. \A i \in 1 .. Len(replay.seen) - 1 : i \in DOMAIN replay.seen /\ i + 1 \in DOMAIN replay.seen /\ i < i + 1
    BY <2>1
  <2> QED
    BY <2>1, <2>2 DEF Replaying, H!InOrderOfTime
<1>2. H!TypeOK
  <2>1. \A e \in H!Range(events) : e.type \in EventTypes /\ e.at \in 1 .. added
    <3> SUFFICES ASSUME NEW e \in H!Range(events) PROVE e.type \in EventTypes /\ e.at \in 1 .. added
      OBVIOUS
    <3>1. e \in Entry /\ e.at <= added /\ added \in Nat
      BY DEF HistoryInv, HistoryTyped, H!Range
    <3> QED
      BY <3>1 DEF Entry
  <2>2. replay # <<>> => replay.state \in {"running", "done", "broken"}
    BY DEF HistoryInv, Replaying, Replays
  <2> QED
    BY <2>1, <2>2 DEF HistoryInv, HistoryTyped, H!TypeOK
<1> QED
  BY <1>1, <1>2

(***************************************************************************)
(* The hooks, for any ids, phases and calls.                               *)
(***************************************************************************)

\* Finite sets and their cardinalities are those of the library's theorems.
LEMMA SameCardinality == \A S : (K!IsFiniteSet(S) <=> IsFiniteSet(S)) /\ K!Cardinality(S) = Cardinality(S)
BY DEF K!IsFiniteSet, IsFiniteSet, K!Cardinality, Cardinality

\* The hooks of a phase are in order of their priorities; no id is there twice.
Hook == [id : HookIds, prio : Int, all : BOOLEAN]
Sorted(l) == \A j, k \in DOMAIN l : j < k => l[j].prio >= l[k].prio
EachIdOnce(l) == \A j, k \in DOMAIN l : l[j].id = l[k].id => j = k
IdsIn(l) == {l[k].id : k \in DOMAIN l}
Outcomes == {"changed", "none", "raised"}
HooksTyped ==
  /\ hooks \in [Phases -> Seq(Hook)] /\ off \subseteq K!Registered /\ count \in Int /\ K!IsFiniteSet(K!Registered)
  /\ cleared \in BOOLEAN /\ (~cleared => count = K!Cardinality(K!Registered))
PhasesSound ==
  /\ \A p \in Phases : Sorted(hooks[p]) /\ EachIdOnce(hooks[p])
  /\ \A p, q \in Phases : p # q => IdsIn(hooks[p]) \cap IdsIn(hooks[q]) = {}

LEMMA RegisteredIs == K!Registered = UNION {IdsIn(hooks[p]) : p \in Phases}
<1>1. \A l : K!Range(K!IdsOf(l)) = IdsIn(l)
  BY DEF K!Range, K!IdsOf, IdsIn
<1> QED
  BY <1>1 DEF K!Registered

LEMMA InsertOK ==
  ASSUME NEW l \in Seq(Hook), NEW h \in Hook, NEW at \in 1 .. Len(l) + 1, NEW n, n = K!Inserted(l, h, at),
         \A k \in DOMAIN l : k < at <=> l[k].prio >= h.prio, Sorted(l), EachIdOnce(l), h.id \notin IdsIn(l)
  PROVE  n \in Seq(Hook) /\ Sorted(n) /\ EachIdOnce(n) /\ IdsIn(n) = IdsIn(l) \cup {h.id}
<1> DEFINE m == Len(l)
           From(k) == IF k < at THEN k ELSE k - 1
<1>1. m \in Nat /\ DOMAIN l = 1 .. m /\ (\A k \in 1 .. m : l[k] \in Hook) /\ at \in 1 .. m + 1
  OBVIOUS
<1>2. n = [k \in 1 .. m + 1 |-> IF k < at THEN l[k] ELSE IF k = at THEN h ELSE l[k - 1]]
  BY DEF K!Inserted
<1> HIDE DEF m
<1>3. \A k \in 1 .. m + 1 : k # at => From(k) \in 1 .. m
  BY <1>1
<1>4. DOMAIN n = 1 .. m + 1 /\ n[at] = h /\ \A k \in 1 .. m + 1 : k # at => n[k] = l[From(k)]
  BY <1>1, <1>2
<1>5. n \in Seq(Hook)
  <2>1. n \in [1 .. m + 1 -> Hook] /\ m + 1 \in Nat
    BY <1>1, <1>2
  <2> QED
    BY <2>1
<1>6. \A j, k \in 1 .. m + 1 : j < k /\ j # at /\ k # at => From(j) < From(k)
  BY <1>1
<1>7. \A j, k \in 1 .. m + 1 : From(j) = From(k) /\ j # at /\ k # at => j = k
  BY <1>1
<1>8. \A k \in 1 .. m + 1 : k # at => (k < at <=> From(k) < at)
  BY <1>1
<1>9. \A i \in 1 .. m : \E k \in 1 .. m + 1 : k # at /\ From(k) = i
  <2> TAKE i \in 1 .. m
  <2>1. CASE i < at
    <3>1. i \in 1 .. m + 1 /\ i # at /\ From(i) = i
      BY <1>1, <2>1
    <3> QED
      BY <3>1
  <2>2. CASE ~(i < at)
    <3>1. i + 1 \in 1 .. m + 1 /\ i + 1 # at /\ From(i + 1) = i
      BY <1>1, <2>2
    <3> QED
      BY <3>1
  <2> QED
    BY <2>1, <2>2
<1> HIDE DEF From
<1>10. Sorted(n)
  <2> SUFFICES ASSUME NEW j \in 1 .. m + 1, NEW k \in 1 .. m + 1, j < k PROVE n[j].prio >= n[k].prio
    BY <1>4 DEF Sorted
  <2>0. h.prio \in Int /\ \A i \in 1 .. m : l[i].prio \in Int
    BY <1>1 DEF Hook
  <2>1. CASE j # at /\ k # at
    BY <1>1, <1>3, <1>4, <1>6, <2>1 DEF Sorted
  <2>2. CASE j = at
    <3>1. k # at /\ ~(k < at)
      BY <1>1, <2>2
    <3>2. From(k) \in 1 .. m /\ ~(From(k) < at) /\ n[k] = l[From(k)]
      BY <1>3, <1>4, <1>8, <3>1
    <3>3. ~(l[From(k)].prio >= h.prio)
      BY <1>1, <3>2
    <3> QED
      BY <1>4, <2>0, <2>2, <3>2, <3>3
  <2>3. CASE k = at
    <3>1. j # at /\ j < at
      BY <1>1, <2>3
    <3>2. From(j) \in 1 .. m /\ From(j) < at /\ n[j] = l[From(j)]
      BY <1>3, <1>4, <1>8, <3>1
    <3> QED
      BY <1>1, <1>4, <2>3, <3>2
  <2> QED
    BY <2>1, <2>2, <2>3
<1>11. \A k \in 1 .. m + 1 : k # at => n[k].id \in IdsIn(l)
  BY <1>1, <1>3, <1>4 DEF IdsIn
<1>12. EachIdOnce(n)
  <2> SUFFICES ASSUME NEW j \in 1 .. m + 1, NEW k \in 1 .. m + 1, n[j].id = n[k].id PROVE j = k
    BY <1>4 DEF EachIdOnce
  <2>1. CASE j # at /\ k # at
    BY <1>1, <1>3, <1>4, <1>7, <2>1 DEF EachIdOnce
  <2>2. CASE j = at \/ k = at
    BY <1>4, <1>11, <2>2
  <2> QED
    BY <2>1, <2>2
<1>13. IdsIn(n) = IdsIn(l) \cup {h.id}
  <2>1. \A x \in IdsIn(n) : x \in IdsIn(l) \cup {h.id}
    BY <1>4, <1>11 DEF IdsIn
  <2>2. \A x \in IdsIn(l) : x \in IdsIn(n)
    BY <1>1, <1>4, <1>9 DEF IdsIn
  <2>3. h.id \in IdsIn(n)
    BY <1>1, <1>4 DEF IdsIn
  <2> QED
    BY <2>1, <2>2, <2>3
<1> QED
  BY <1>5, <1>10, <1>12, <1>13

LEMMA RemoveOK ==
  ASSUME NEW l \in Seq(Hook), NEW at \in DOMAIN l, NEW n, n = K!RemovedAt(l, at), Sorted(l), EachIdOnce(l)
  PROVE  n \in Seq(Hook) /\ Sorted(n) /\ EachIdOnce(n) /\ IdsIn(n) = IdsIn(l) \ {l[at].id}
<1> DEFINE m == Len(l)
           From(k) == IF k < at THEN k ELSE k + 1
<1>1. m \in Nat /\ DOMAIN l = 1 .. m /\ (\A k \in 1 .. m : l[k] \in Hook) /\ at \in 1 .. m
  OBVIOUS
<1>2. n = [k \in 1 .. m - 1 |-> IF k < at THEN l[k] ELSE l[k + 1]]
  BY DEF K!RemovedAt
<1> HIDE DEF m
<1>3. \A k \in 1 .. m - 1 : From(k) \in 1 .. m /\ From(k) # at
  BY <1>1
<1>4. DOMAIN n = 1 .. m - 1 /\ \A k \in 1 .. m - 1 : n[k] = l[From(k)]
  BY <1>1, <1>2
<1>5. n \in Seq(Hook)
  <2>1. n \in [1 .. m - 1 -> Hook] /\ m - 1 \in Nat
    BY <1>1, <1>2
  <2> QED
    BY <2>1
<1>6. \A j, k \in 1 .. m - 1 : j < k => From(j) < From(k)
  BY <1>1
<1>7. \A j, k \in 1 .. m - 1 : From(j) = From(k) => j = k
  BY <1>1
<1>9. \A i \in 1 .. m : i # at => \E k \in 1 .. m - 1 : From(k) = i
  <2> SUFFICES ASSUME NEW i \in 1 .. m, i # at PROVE \E k \in 1 .. m - 1 : From(k) = i
    OBVIOUS
  <2>1. CASE i < at
    BY <1>1, <2>1
  <2>2. CASE ~(i < at)
    <3>1. i - 1 \in 1 .. m - 1 /\ From(i - 1) = i
      BY <1>1, <2>2
    <3> QED
      BY <3>1
  <2> QED
    BY <2>1, <2>2
<1> HIDE DEF From
<1>10. Sorted(n)
  BY <1>1, <1>3, <1>4, <1>6 DEF Sorted
<1>12. EachIdOnce(n)
  BY <1>1, <1>3, <1>4, <1>7 DEF EachIdOnce
<1>13. IdsIn(n) = IdsIn(l) \ {l[at].id}
  <2>1. \A x \in IdsIn(n) : x \in IdsIn(l) \ {l[at].id}
    BY <1>1, <1>3, <1>4 DEF IdsIn, EachIdOnce
  <2>2. \A x \in IdsIn(l) \ {l[at].id} : x \in IdsIn(n)
    <3> SUFFICES ASSUME NEW i \in 1 .. m, l[i].id # l[at].id PROVE l[i].id \in IdsIn(n)
      BY <1>1 DEF IdsIn
    <3>1. PICK k \in 1 .. m - 1 : From(k) = i
      BY <1>9
    <3> QED
      BY <1>4, <3>1 DEF IdsIn
  <2> QED
    BY <2>1, <2>2
<1> QED
  BY <1>5, <1>10, <1>12, <1>13

\* The list of one phase gains or loses an id.
LEMMA OnePhase ==
  ASSUME PhasesSound, hooks \in [Phases -> Seq(Hook)], NEW p \in Phases, NEW n \in Seq(Hook), NEW i,
         hooks' = [hooks EXCEPT ![p] = n], Sorted(n), EachIdOnce(n),
         \/ i \notin K!Registered /\ IdsIn(n) = IdsIn(hooks[p]) \cup {i}
         \/ i \in IdsIn(hooks[p]) /\ IdsIn(n) = IdsIn(hooks[p]) \ {i}
  PROVE  /\ PhasesSound' /\ hooks' \in [Phases -> Seq(Hook)]
         /\ \/ i \notin K!Registered /\ K!Registered' = K!Registered \cup {i}
            \/ i \in K!Registered /\ K!Registered' = K!Registered \ {i}
<1>1. hooks'[p] = n /\ (\A q \in Phases : q # p => hooks'[q] = hooks[q]) /\ hooks' \in [Phases -> Seq(Hook)]
  OBVIOUS
<1>2. K!Registered = UNION {IdsIn(hooks[q]) : q \in Phases}
  BY RegisteredIs
<1>3. K!Registered' = UNION {IdsIn(hooks'[q]) : q \in Phases}
  <2>1. \A l : K!Range(K!IdsOf(l)) = IdsIn(l)
    BY DEF K!Range, K!IdsOf, IdsIn
  <2> QED
    BY <2>1 DEF K!Registered
<1>4. \A q, r \in Phases : q # r => IdsIn(hooks[q]) \cap IdsIn(hooks[r]) = {}
  BY DEF PhasesSound
<1>5. CASE i \notin K!Registered /\ IdsIn(n) = IdsIn(hooks[p]) \cup {i}
  <2>1. \A q, r \in Phases : q # r => IdsIn(hooks'[q]) \cap IdsIn(hooks'[r]) = {}
    BY <1>1, <1>2, <1>4, <1>5
  <2>2. K!Registered' = K!Registered \cup {i}
    <3>1. \A x \in K!Registered' : x \in K!Registered \cup {i}
      BY <1>1, <1>2, <1>3, <1>5
    <3>2. \A x \in K!Registered \cup {i} : x \in K!Registered'
      BY <1>1, <1>2, <1>3, <1>5
    <3> QED
      BY <3>1, <3>2
  <2> QED
    BY <1>1, <1>5, <2>1, <2>2 DEF PhasesSound
<1>6. CASE i \in IdsIn(hooks[p]) /\ IdsIn(n) = IdsIn(hooks[p]) \ {i}
  <2>1. \A q, r \in Phases : q # r => IdsIn(hooks'[q]) \cap IdsIn(hooks'[r]) = {}
    BY <1>1, <1>2, <1>4, <1>6
  <2>2. K!Registered' = K!Registered \ {i}
    <3>1. \A x \in K!Registered' : x \in K!Registered \ {i}
      BY <1>1, <1>2, <1>3, <1>4, <1>6
    <3>2. \A x \in K!Registered \ {i} : x \in K!Registered'
      BY <1>1, <1>2, <1>3, <1>6
    <3> QED
      BY <3>1, <3>2
  <2>3. i \in K!Registered
    BY <1>2, <1>6
  <2> QED
    BY <1>1, <2>1, <2>2, <2>3 DEF PhasesSound
<1> QED
  BY <1>5, <1>6

\* A trigger: what ran came before what is still to run, and the event has the changes of what ran.
RanInOrder(done, due, n) ==
  /\ \A j \in DOMAIN done : \E a \in 1 .. n : due[a].id = done[j][1]
  /\ \A j, k \in DOMAIN done : j < k => \E a, b \in 1 .. n : a < b /\ due[a].id = done[j][1] /\ due[b].id = done[k][1]
  /\ \A a \in 1 .. n : due[a].all => \E j \in DOMAIN done : done[j][1] = due[a].id
Changers(done) == {x[1] : x \in {y \in K!Range(done) : y[2] = "changed"}}
InRunOrder(event, done) ==
  \A j, k \in DOMAIN event : j < k => \E a, b \in DOMAIN done : a < b /\ done[a][1] = event[j] /\ done[b][1] = event[k]
Carried(event, done) == K!Range(event) = Changers(done) /\ InRunOrder(event, done)
Triggers ==
  [phase : Phases, todo : Seq(Hook), due : Seq(Hook), event : Seq(HookIds), ran : Seq(HookIds \X Outcomes)]
Passed(t) == Len(t.due) - Len(t.todo)
Triggered(t) ==
  /\ t \in Triggers /\ Sorted(t.due) /\ EachIdOnce(t.due)
  /\ Passed(t) >= 0 /\ (\A k \in DOMAIN t.todo : t.todo[k] = t.due[Passed(t) + k])
  /\ RanInOrder(t.ran, t.due, Passed(t)) /\ Carried(t.event, t.ran)
HooksInv == HooksTyped /\ PhasesSound /\ (trig = <<>> \/ Triggered(trig))

LEMMA HookAppended ==
  ASSUME NEW S, NEW q \in Seq(S), NEW m \in S
  PROVE  /\ Append(q, m) \in Seq(S) /\ Len(q) \in Nat /\ DOMAIN q = 1 .. Len(q) /\ DOMAIN Append(q, m) = 1 .. Len(q) + 1
         /\ Append(q, m)[Len(q) + 1] = m /\ \A i \in DOMAIN q : Append(q, m)[i] = q[i]
         /\ K!Range(Append(q, m)) = K!Range(q) \cup {m}
<1> DEFINE r == Append(q, m)
<1>1. /\ r \in Seq(S) /\ Len(q) \in Nat /\ Len(r) = Len(q) + 1 /\ DOMAIN q = 1 .. Len(q) /\ DOMAIN r = 1 .. Len(q) + 1
      /\ r[Len(q) + 1] = m /\ \A i \in DOMAIN q : r[i] = q[i]
  OBVIOUS
<1> HIDE DEF r
<1>2. K!Range(r) = K!Range(q) \cup {m}
  BY <1>1 DEF K!Range
<1> QED
  BY <1>1, <1>2 DEF r

LEMMA HooksInit == K!Init => HooksInv
<1> SUFFICES ASSUME K!Init PROVE HooksInv
  OBVIOUS
<1>1. \A p \in Phases : hooks[p] = <<>>
  BY DEF K!Init
<1>2. <<>> \in Seq(Hook) /\ IdsIn(<<>>) = {} /\ Sorted(<<>>) /\ EachIdOnce(<<>>)
  BY DEF IdsIn, Sorted, EachIdOnce
<1>3. K!Registered = {}
  BY <1>1, <1>2, RegisteredIs
<1>4. K!IsFiniteSet(K!Registered) /\ K!Cardinality(K!Registered) = 0
  BY <1>3, FS_EmptySet, SameCardinality
<1>5. HooksTyped
  <2>1. hooks \in [Phases -> Seq(Hook)]
    BY <1>2 DEF K!Init
  <2>2. count = 0 /\ off = {} /\ cleared \in BOOLEAN
    BY DEF K!Init
  <2> QED
    BY <1>3, <1>4, <2>1, <2>2 DEF HooksTyped
<1> QED
  BY <1>1, <1>2, <1>5 DEF K!Init, HooksInv, PhasesSound

LEMMA TriggerStarts ==
  ASSUME HooksTyped, PhasesSound, NEW p \in Phases, K!Trigger(p)
  PROVE  Triggered(trig')
<1>1. PICK live \in K!Live(p) : trig' = [phase |-> p, todo |-> live, due |-> live, event |-> <<>>, ran |-> <<>>]
  BY DEF K!Trigger
<1> DEFINE list == hooks[p]
           on == {h \in K!Range(list) : h.id \notin off}
<1>2. list \in Seq(Hook) /\ Sorted(list) /\ EachIdOnce(list)
  BY DEF HooksTyped, PhasesSound
<1>3. /\ live \in UNION {[1 .. n -> on] : n \in 0 .. Len(list)}
      /\ \A j, k \in DOMAIN live : j < k => \E a, b \in DOMAIN list : a < b /\ list[a] = live[j] /\ list[b] = live[k]
  BY DEF K!Live
<1>4. on \subseteq Hook
  BY <1>2 DEF K!Range
<1> HIDE DEF list, on
<1>5. PICK n \in 0 .. Len(list) : live \in [1 .. n -> on]
  BY <1>3
<1>6. live \in Seq(Hook) /\ Len(live) = n /\ n \in Nat /\ DOMAIN live = 1 .. n
  BY <1>4, <1>5
<1>7. Sorted(live)
  BY <1>2, <1>3 DEF Sorted
<1>8. EachIdOnce(live)
  <2> SUFFICES ASSUME NEW j \in 1 .. n, NEW k \in 1 .. n, live[j].id = live[k].id, j # k PROVE FALSE
    BY <1>6 DEF EachIdOnce
  <2>1. \A u, v \in 1 .. n : u < v => live[u].id # live[v].id
    <3> SUFFICES ASSUME NEW u \in 1 .. n, NEW v \in 1 .. n, u < v PROVE live[u].id # live[v].id
      OBVIOUS
    <3>1. PICK a \in DOMAIN list, b \in DOMAIN list : a < b /\ list[a] = live[u] /\ list[b] = live[v]
      <4>1. u \in DOMAIN live /\ v \in DOMAIN live
        BY <1>6
      <4>2. \A j1, k1 \in DOMAIN live : j1 < k1 => \E a, b \in DOMAIN list : a < b /\ list[a] = live[j1] /\ list[b] = live[k1]
        BY <1>3
      <4> QED
        BY <4>1, <4>2
    <3>2. a # b
      BY <3>1, <1>2
    <3> QED
      BY <3>1, <3>2, <1>2 DEF EachIdOnce
  <2>2. j < k \/ k < j
    BY <1>6
  <2> QED
    BY <2>1, <2>2
<1>9. <<>> \in Seq(HookIds) /\ <<>> \in Seq(HookIds \X Outcomes) /\ DOMAIN <<>> = {} /\ K!Range(<<>>) = {}
  BY DEF K!Range
<1>10. trig' \in Triggers
  BY <1>1, <1>6, <1>9 DEF Triggers
<1>11. Passed(trig') = 0 /\ \A k \in DOMAIN live : live[k] = live[0 + k]
  BY <1>1, <1>6 DEF Passed
<1>12. RanInOrder(<<>>, live, 0)
  BY <1>9 DEF RanInOrder
<1>13. Carried(<<>>, <<>>)
  BY <1>9 DEF Carried, Changers, InRunOrder
<1>14. trig'.todo = live /\ trig'.due = live /\ trig'.ran = <<>> /\ trig'.event = <<>>
  BY <1>1
<1> QED
  BY <1>7, <1>8, <1>10, <1>11, <1>12, <1>13, <1>14 DEF Triggered

\* One hook more has run, or did not match.
LEMMA OneRan ==
  ASSUME NEW S, NEW done \in Seq(S), NEW due, NEW n \in Nat, RanInOrder(done, due, n), NEW x \in S,
         NEW new, new = done \/ new = Append(done, x), x[1] = due[n + 1].id, new = done => ~due[n + 1].all
  PROVE  RanInOrder(new, due, n + 1)
<1> DEFINE m == Len(done)
<1>0. (\A a \in 1 .. n : a \in 1 .. n + 1 /\ a < n + 1) /\ n + 1 \in 1 .. n + 1 /\ \A a \in 1 .. n + 1 : a \in 1 .. n \/ a = n + 1
  OBVIOUS
<1>1. CASE new = done
  <2>1. \A j \in DOMAIN done : \E a \in 1 .. n + 1 : due[a].id = done[j][1]
    BY <1>0 DEF RanInOrder
  <2>2. \A j, k \in DOMAIN done : j < k => \E a, b \in 1 .. n + 1 : a < b /\ due[a].id = done[j][1] /\ due[b].id = done[k][1]
    BY <1>0 DEF RanInOrder
  <2>3. \A a \in 1 .. n + 1 : due[a].all => \E j \in DOMAIN done : done[j][1] = due[a].id
    BY <1>0, <1>1 DEF RanInOrder
  <2> QED
    BY <1>1, <2>1, <2>2, <2>3 DEF RanInOrder
<1>2. CASE new = Append(done, x)
  <2>1. /\ m \in Nat /\ DOMAIN done = 1 .. m /\ DOMAIN new = 1 .. m + 1 /\ new[m + 1] = x
        /\ \A j \in 1 .. m : new[j] = done[j]
    BY <1>2, HookAppended
  <2> HIDE DEF m
  <2>2. (\A j \in 1 .. m + 1 : j \in 1 .. m \/ j = m + 1) /\ m + 1 \in 1 .. m + 1 /\ \A j \in 1 .. m : j \in 1 .. m + 1
    BY <2>1
  <2>3. \A j \in DOMAIN new : \E a \in 1 .. n + 1 : due[a].id = new[j][1]
    <3> SUFFICES ASSUME NEW j \in 1 .. m + 1 PROVE \E a \in 1 .. n + 1 : due[a].id = new[j][1]
      BY <2>1
    <3>1. CASE j \in 1 .. m
      BY <1>0, <2>1, <3>1 DEF RanInOrder
    <3>2. CASE j = m + 1
      BY <1>0, <2>1, <3>2
    <3> QED
      BY <2>2, <3>1, <3>2
  <2>4. \A j, k \in DOMAIN new : j < k => \E a, b \in 1 .. n + 1 : a < b /\ due[a].id = new[j][1] /\ due[b].id = new[k][1]
    <3> SUFFICES ASSUME NEW j \in DOMAIN new, NEW k \in DOMAIN new, j < k
                 PROVE  \E a, b \in 1 .. n + 1 : a < b /\ due[a].id = new[j][1] /\ due[b].id = new[k][1]
      OBVIOUS
    <3>0. j \in 1 .. m /\ k \in 1 .. m + 1
      BY <2>1
    <3>1. CASE k \in 1 .. m
      <4>1. PICK a \in 1 .. n, b \in 1 .. n : a < b /\ due[a].id = done[j][1] /\ due[b].id = done[k][1]
        <5>1. \A u, v \in DOMAIN done : u < v => \E a, b \in 1 .. n : a < b /\ due[a].id = done[u][1] /\ due[b].id = done[v][1]
          BY DEF RanInOrder
        <5>2. j \in DOMAIN done /\ k \in DOMAIN done
          BY <2>1, <3>0, <3>1
        <5> QED
          BY <5>1, <5>2
      <4> QED
        BY <4>1, <1>0, <2>1, <3>0, <3>1
    <3>2. CASE k = m + 1
      <4>1. PICK a \in 1 .. n : due[a].id = done[j][1]
        BY <2>1, <3>0 DEF RanInOrder
      <4> QED
        BY <4>1, <1>0, <2>1, <3>0, <3>2
    <3> QED
      BY <2>2, <3>0, <3>1, <3>2
  <2>5. \A a \in 1 .. n + 1 : due[a].all => \E j \in DOMAIN new : new[j][1] = due[a].id
    <3> SUFFICES ASSUME NEW a \in 1 .. n + 1, due[a].all PROVE \E j \in 1 .. m + 1 : new[j][1] = due[a].id
      BY <2>1
    <3>1. CASE a \in 1 .. n
      <4>1. PICK j \in 1 .. m : done[j][1] = due[a].id
        BY <2>1, <3>1 DEF RanInOrder
      <4> QED
        BY <4>1, <2>1, <2>2
    <3>2. CASE a = n + 1
      BY <2>1, <2>2, <3>2
    <3> QED
      BY <1>0, <3>1, <3>2
  <2> QED
    BY <2>3, <2>4, <2>5 DEF RanInOrder
<1> QED
  BY <1>1, <1>2

LEMMA OneCarried ==
  ASSUME NEW done \in Seq(HookIds \X Outcomes), NEW event \in Seq(HookIds), Carried(event, done), NEW x \in HookIds \X Outcomes,
         NEW new, new = IF x[2] = "changed" THEN Append(event, x[1]) ELSE event
  PROVE  Carried(new, Append(done, x))
<1> DEFINE m == Len(done)
           n == Len(event)
           after == Append(done, x)
<1>0. x[1] \in HookIds
  OBVIOUS
<1>1. /\ m \in Nat /\ DOMAIN done = 1 .. m /\ DOMAIN after = 1 .. m + 1 /\ after[m + 1] = x /\ K!Range(after) = K!Range(done) \cup {x}
      /\ \A j \in 1 .. m : after[j] = done[j]
  BY HookAppended
<1>2. /\ n \in Nat /\ DOMAIN event = 1 .. n /\ DOMAIN Append(event, x[1]) = 1 .. n + 1 /\ Append(event, x[1])[n + 1] = x[1]
      /\ K!Range(Append(event, x[1])) = K!Range(event) \cup {x[1]}
      /\ \A j \in 1 .. n : Append(event, x[1])[j] = event[j]
  BY <1>0, HookAppended
<1> HIDE DEF m, n, after
<1>3. K!Range(event) = Changers(done) /\ InRunOrder(event, done)
  BY DEF Carried
<1>3a. \A j, k \in 1 .. n : j < k => \E a, b \in 1 .. m : a < b /\ done[a][1] = event[j] /\ done[b][1] = event[k]
  BY <1>1, <1>2, <1>3 DEF InRunOrder
<1>4. (\A a \in 1 .. m : a \in 1 .. m + 1 /\ a < m + 1) /\ m + 1 \in 1 .. m + 1 /\ \A k \in 1 .. n + 1 : k \in 1 .. n \/ k = n + 1
  BY <1>1, <1>2
<1>5. \A j, k \in 1 .. n : j < k => \E a, b \in 1 .. m + 1 : a < b /\ after[a][1] = event[j] /\ after[b][1] = event[k]
  <2> SUFFICES ASSUME NEW j \in 1 .. n, NEW k \in 1 .. n, j < k
               PROVE  \E a, b \in 1 .. m + 1 : a < b /\ after[a][1] = event[j] /\ after[b][1] = event[k]
    OBVIOUS
  <2>1. PICK a \in 1 .. m, b \in 1 .. m : a < b /\ done[a][1] = event[j] /\ done[b][1] = event[k]
    BY <1>3a
  <2> QED
    BY <2>1, <1>1, <1>4
<1>6. CASE x[2] # "changed"
  <2>1. {y \in K!Range(after) : y[2] = "changed"} = {y \in K!Range(done) : y[2] = "changed"}
    BY <1>1, <1>6
  <2>2. Changers(after) = Changers(done)
    BY <2>1 DEF Changers
  <2>3. new = event
    BY <1>6
  <2>4. InRunOrder(event, after)
    BY <1>1, <1>2, <1>5 DEF InRunOrder
  <2>5. Carried(new, after)
    BY <1>3, <2>2, <2>3, <2>4 DEF Carried
  <2> QED
    BY <2>5 DEF after
<1>7. CASE x[2] = "changed"
  <2> DEFINE longer == Append(event, x[1])
  <2>1. longer = Append(event, x[1])
    OBVIOUS
  <2> HIDE DEF longer
  <2>2. K!Range(longer) = Changers(after)
    <3>1. {y \in K!Range(after) : y[2] = "changed"} = {y \in K!Range(done) : y[2] = "changed"} \cup {x}
      BY <1>1, <1>7
    <3>2. {z[1] : z \in {y \in K!Range(done) : y[2] = "changed"} \cup {x}} = {z[1] : z \in {y \in K!Range(done) : y[2] = "changed"}} \cup {x[1]}
      OBVIOUS
    <3>3. Changers(after) = Changers(done) \cup {x[1]}
      BY <3>1, <3>2 DEF Changers
    <3> QED
      BY <1>2, <1>3, <2>1, <3>3
  <2>3. \A j, k \in 1 .. n + 1 : j < k => \E a, b \in 1 .. m + 1 : a < b /\ after[a][1] = longer[j] /\ after[b][1] = longer[k]
    <3> SUFFICES ASSUME NEW j \in 1 .. n + 1, NEW k \in 1 .. n + 1, j < k
                 PROVE  \E a, b \in 1 .. m + 1 : a < b /\ after[a][1] = longer[j] /\ after[b][1] = longer[k]
      OBVIOUS
    <3>0. j \in 1 .. n /\ longer[j] = event[j]
      BY <1>2, <2>1
    <3>1. CASE k \in 1 .. n
      <4>1. longer[k] = event[k]
        BY <1>2, <2>1, <3>1
      <4>2. PICK a \in 1 .. m + 1, b \in 1 .. m + 1 : a < b /\ after[a][1] = event[j] /\ after[b][1] = event[k]
        BY <1>5, <3>0, <3>1
      <4> QED
        BY <3>0, <4>1, <4>2
    <3>2. CASE k = n + 1
      <4>1. event[j] \in K!Range(event)
        BY <1>2, <3>0 DEF K!Range
      <4>2. PICK y \in K!Range(done) : y[1] = event[j]
        BY <1>3, <4>1 DEF Changers
      <4>3. PICK a \in 1 .. m : done[a] = y
        BY <1>1 DEF K!Range
      <4>4. longer[k] = x[1]
        BY <1>2, <2>1, <3>2
      <4> QED
        BY <1>1, <1>4, <3>0, <4>2, <4>3, <4>4
    <3> QED
      BY <1>4, <3>1, <3>2
  <2>4. DOMAIN longer = 1 .. n + 1
    BY <1>2, <2>1
  <2>5. Carried(longer, after)
    <3>1. InRunOrder(longer, after)
      <4>1. DOMAIN after = 1 .. m + 1
        BY <1>1
      <4> DEFINE J == 1 .. n + 1
                 I == 1 .. m + 1
      <4>2. /\ DOMAIN longer = J /\ DOMAIN after = I
            /\ \A j, k \in J : j < k => \E a, b \in I : a < b /\ after[a][1] = longer[j] /\ after[b][1] = longer[k]
        BY <2>3, <2>4, <4>1
      <4> HIDE DEF J, I
      <4> QED
        BY <4>2 DEF InRunOrder
    <3> QED
      BY <2>2, <3>1 DEF Carried
  <2>6. new = longer
    BY <1>7, <2>1
  <2> QED
    BY <2>5, <2>6 DEF after
<1> QED
  BY <1>6, <1>7

LEMMA TriggerRuns ==
  ASSUME Triggered(trig), K!Run
  PROVE  Triggered(trig')
<1> DEFINE h == Head(trig.todo)
           n == Passed(trig)
<1>1. /\ trig \in Triggers /\ trig.todo \in Seq(Hook) /\ trig.due \in Seq(Hook) /\ trig.ran \in Seq(HookIds \X Outcomes)
      /\ trig.event \in Seq(HookIds) /\ trig.todo # <<>> /\ Sorted(trig.due) /\ EachIdOnce(trig.due) /\ n >= 0
      /\ (\A k \in DOMAIN trig.todo : trig.todo[k] = trig.due[n + k])
      /\ RanInOrder(trig.ran, trig.due, n) /\ Carried(trig.event, trig.ran)
  BY DEF Triggered, Triggers, K!Run
<1>2. PICK matches \in {h.all, TRUE}, result \in Outcomes :
        trig' = [trig EXCEPT !.todo = Tail(@),
                  !.ran = IF matches THEN Append(@, <<h.id, result>>) ELSE @,
                  !.event = IF matches /\ result = "changed" THEN Append(@, h.id) ELSE @]
  BY DEF K!Run, Outcomes
<1>3. h \in Hook /\ h = trig.todo[1] /\ 1 \in DOMAIN trig.todo /\ h.id \in HookIds /\ h.all \in BOOLEAN
  <2>1. h \in Hook /\ h = trig.todo[1] /\ 1 \in DOMAIN trig.todo
    BY <1>1
  <2> QED
    BY <2>1 DEF Hook
<1>4. n \in Nat /\ Len(trig.todo) = Len(trig.due) - n /\ Len(Tail(trig.todo)) = Len(trig.todo) - 1 /\ Len(trig.todo) \in Nat /\ Len(trig.due) \in Nat
  BY <1>1 DEF Passed
<1>5. h = trig.due[n + 1]
  BY <1>1, <1>3
<1>6. \A k \in DOMAIN Tail(trig.todo) : Tail(trig.todo)[k] = trig.due[n + 1 + k]
  <2>1. \A k \in DOMAIN Tail(trig.todo) : k + 1 \in DOMAIN trig.todo /\ Tail(trig.todo)[k] = trig.todo[k + 1] /\ n + (k + 1) = n + 1 + k
    BY <1>1, <1>4
  <2> QED
    BY <1>1, <2>1
<1> DEFINE x == <<h.id, result>>
<1>7. x \in HookIds \X Outcomes /\ x[1] = h.id /\ x[2] = result
  BY <1>3
<1>8. Tail(trig.todo) \in Seq(Hook) /\ Append(trig.ran, x) \in Seq(HookIds \X Outcomes) /\ Append(trig.event, h.id) \in Seq(HookIds)
  BY <1>1, <1>3, <1>7
<1> HIDE DEF h, n, x
<1>9. /\ trig'.todo = Tail(trig.todo) /\ trig'.due = trig.due
      /\ trig'.ran = (IF matches THEN Append(trig.ran, x) ELSE trig.ran)
      /\ trig'.event = (IF matches /\ result = "changed" THEN Append(trig.event, h.id) ELSE trig.event)
  BY <1>1, <1>2 DEF Triggers, h, x
<1>10. trig' \in Triggers
  BY <1>1, <1>2, <1>8 DEF Triggers, h, x
<1>11. Passed(trig') = n + 1
  <2>1. trig'.todo = Tail(trig.todo) /\ trig'.due = trig.due
    BY <1>9
  <2>2. Passed(trig') = Len(trig.due) - Len(Tail(trig.todo))
    BY <2>1 DEF Passed
  <2> DEFINE d == Len(trig.due)
             t == Len(trig.todo)
             u == Len(Tail(trig.todo))
  <2>3. n \in Nat /\ t = d - n /\ u = t - 1 /\ t \in Nat /\ d \in Nat /\ Passed(trig') = d - u
    BY <1>4, <2>2
  <2> HIDE DEF d, t, u
  <2> QED
    BY <2>3
<1>12. ~matches => ~h.all
  BY <1>2, <1>3
<1>13. RanInOrder(trig'.ran, trig.due, n + 1)
  <2>1. x[1] = trig.due[n + 1].id
    BY <1>5, <1>7
  <2>2. CASE matches
    <3>1. trig'.ran = Append(trig.ran, x) /\ trig'.ran # trig.ran
      <4>1. Len(Append(trig.ran, x)) = Len(trig.ran) + 1 /\ Len(trig.ran) \in Nat
        BY <1>1, <1>7
      <4>2. Append(trig.ran, x) # trig.ran
        BY <4>1
      <4> QED
        BY <1>9, <2>2, <4>2
    <3> DEFINE r == Append(trig.ran, x)
               q == trig.due
    <3>2. trig.ran \in Seq(HookIds \X Outcomes) /\ RanInOrder(trig.ran, q, n) /\ n \in Nat
          /\ x \in HookIds \X Outcomes /\ x[1] = q[n + 1].id /\ r # trig.ran /\ r = Append(trig.ran, x)
      BY <1>1, <1>4, <1>7, <2>1, <3>1
    <3> HIDE DEF r, q
    <3>3. RanInOrder(r, q, n + 1)
      BY <3>2, OneRan
    <3> QED
      BY <3>1, <3>3 DEF r, q
  <2>3. CASE ~matches
    <3>1. trig'.ran = trig.ran /\ ~trig.due[n + 1].all
      BY <1>5, <1>9, <1>12, <2>3
    <3> QED
      BY <1>1, <1>4, <1>7, <2>1, <3>1, OneRan
  <2> QED
    BY <2>2, <2>3
<1>14. Carried(trig'.event, trig'.ran)
  <2>1. CASE matches
    <3>1. trig'.event = (IF x[2] = "changed" THEN Append(trig.event, x[1]) ELSE trig.event)
      BY <1>7, <1>9, <2>1
    <3>2. trig'.ran = Append(trig.ran, x)
      BY <1>9, <2>1
    <3> QED
      BY <1>1, <1>7, <3>1, <3>2, OneCarried
  <2>2. CASE ~matches
    BY <1>1, <1>9, <2>2
  <2> QED
    BY <2>1, <2>2
<1> QED
  BY <1>1, <1>4, <1>6, <1>9, <1>10, <1>11, <1>13, <1>14 DEF Triggered

\* The count follows the registrations.
LEMMA CountOK ==
  ASSUME HooksTyped, NEW i,
         \/ i \notin K!Registered /\ K!Registered' = K!Registered \cup {i} /\ count' = count + 1
         \/ i \in K!Registered /\ K!Registered' = K!Registered \ {i} /\ count' = count - 1
  PROVE  K!IsFiniteSet(K!Registered') /\ count' \in Int /\ (~cleared => count' = K!Cardinality(K!Registered'))
<1>1. K!IsFiniteSet(K!Registered) /\ count \in Int /\ (~cleared => count = K!Cardinality(K!Registered))
  BY DEF HooksTyped
<1>2. CASE i \notin K!Registered /\ K!Registered' = K!Registered \cup {i} /\ count' = count + 1
  <2>1. K!IsFiniteSet(K!Registered \cup {i}) /\ K!Cardinality(K!Registered \cup {i}) = K!Cardinality(K!Registered) + 1
    BY <1>1, <1>2, FS_AddElement, SameCardinality
  <2> QED
    BY <1>1, <1>2, <2>1
<1>3. CASE i \in K!Registered /\ K!Registered' = K!Registered \ {i} /\ count' = count - 1
  <2>1. K!IsFiniteSet(K!Registered \ {i}) /\ K!Cardinality(K!Registered \ {i}) = K!Cardinality(K!Registered) - 1
    BY <1>1, <1>3, FS_RemoveElement, SameCardinality
  <2> QED
    BY <1>1, <1>3, <2>1
<1> QED
  BY <1>2, <1>3

LEMMA HooksStep == HooksInv /\ [K!Next]_K!vars => HooksInv'
<1> SUFFICES ASSUME HooksInv, [K!Next]_K!vars PROVE HooksInv'
  OBVIOUS
<1>0. HooksTyped /\ PhasesSound /\ (trig = <<>> \/ Triggered(trig))
  BY DEF HooksInv
<1>e. <<>> \in Seq(Hook) /\ IdsIn(<<>>) = {} /\ Sorted(<<>>) /\ EachIdOnce(<<>>)
  BY DEF IdsIn, Sorted, EachIdOnce
<1>r. K!Registered' = UNION {IdsIn(hooks'[p]) : p \in Phases}
  <2>1. \A l : K!Range(K!IdsOf(l)) = IdsIn(l)
    BY DEF K!Range, K!IdsOf, IdsIn
  <2> QED
    BY <2>1 DEF K!Registered
<1>1. ASSUME NEW i \in HookIds, NEW p \in Phases, NEW r \in {0, 1}, NEW all \in BOOLEAN, K!Register(i, p, r, all) PROVE HooksInv'
  <2> DEFINE h == [id |-> i, prio |-> r, all |-> all]
  <2>1. PICK at \in 1 .. Len(hooks[p]) + 1 :
          /\ \A k \in DOMAIN hooks[p] : k < at <=> hooks[p][k].prio >= r
          /\ hooks' = [hooks EXCEPT ![p] = K!Inserted(@, h, at)]
    BY <1>1 DEF K!Register
  <2> DEFINE n == K!Inserted(hooks[p], h, at)
  <2>2. h \in Hook /\ h.id = i /\ h.prio = r
    BY DEF Hook
  <2> HIDE DEF h
  <2>3. hooks[p] \in Seq(Hook) /\ Sorted(hooks[p]) /\ EachIdOnce(hooks[p]) /\ hooks \in [Phases -> Seq(Hook)]
    BY <1>0 DEF HooksTyped, PhasesSound
  <2>4. i \notin K!Registered /\ i \notin IdsIn(hooks[p])
    BY <1>1, RegisteredIs DEF K!Register
  <2>5. n \in Seq(Hook) /\ Sorted(n) /\ EachIdOnce(n) /\ IdsIn(n) = IdsIn(hooks[p]) \cup {i}
    BY <2>1, <2>2, <2>3, <2>4, InsertOK
  <2>6. hooks' = [hooks EXCEPT ![p] = n]
    BY <2>1
  <2> HIDE DEF n
  <2>7. PhasesSound' /\ hooks' \in [Phases -> Seq(Hook)] /\ K!Registered' = K!Registered \cup {i}
    BY <1>0, <2>3, <2>4, <2>5, <2>6, OnePhase
  <2>8. count' = count + 1 /\ UNCHANGED <<off, trig, cleared>>
    BY <1>1 DEF K!Register
  <2>9. K!IsFiniteSet(K!Registered') /\ count' \in Int /\ (~cleared => count' = K!Cardinality(K!Registered'))
    BY <1>0, <2>4, <2>7, <2>8, CountOK
  <2> QED
    BY <1>0, <2>7, <2>8, <2>9 DEF HooksInv, HooksTyped
<1>2. ASSUME NEW i \in HookIds, K!Unregister(i) PROVE HooksInv'
  <2>1. PICK p \in Phases : \E at \in DOMAIN hooks[p] : hooks[p][at].id = i /\ hooks' = [hooks EXCEPT ![p] = K!RemovedAt(@, at)]
    BY <1>2 DEF K!Unregister
  <2>2. PICK at \in DOMAIN hooks[p] : hooks[p][at].id = i /\ hooks' = [hooks EXCEPT ![p] = K!RemovedAt(@, at)]
    BY <2>1
  <2> DEFINE n == K!RemovedAt(hooks[p], at)
  <2>3. hooks[p] \in Seq(Hook) /\ Sorted(hooks[p]) /\ EachIdOnce(hooks[p]) /\ hooks \in [Phases -> Seq(Hook)]
    BY <1>0 DEF HooksTyped, PhasesSound
  <2>4. i \in IdsIn(hooks[p])
    BY <2>2 DEF IdsIn
  <2>5. n \in Seq(Hook) /\ Sorted(n) /\ EachIdOnce(n) /\ IdsIn(n) = IdsIn(hooks[p]) \ {i}
    BY <2>2, <2>3, RemoveOK
  <2>6. hooks' = [hooks EXCEPT ![p] = n]
    BY <2>2
  <2> HIDE DEF n
  <2>7. PhasesSound' /\ hooks' \in [Phases -> Seq(Hook)] /\ i \in K!Registered /\ K!Registered' = K!Registered \ {i}
    <3>1. i \in K!Registered
      BY <2>4, RegisteredIs
    <3> QED
      BY <1>0, <2>3, <2>4, <2>5, <2>6, <3>1, OnePhase
  <2>8. count' = count - 1 /\ UNCHANGED <<trig, cleared>> /\ off' = off \ {i}
    BY <1>2 DEF K!Unregister
  <2>9. K!IsFiniteSet(K!Registered') /\ count' \in Int /\ (~cleared => count' = K!Cardinality(K!Registered'))
    BY <1>0, <2>7, <2>8, CountOK
  <2> QED
    BY <1>0, <2>7, <2>8, <2>9 DEF HooksInv, HooksTyped
<1>3. ASSUME NEW i \in HookIds, K!Switch(i) PROVE HooksInv'
  <2>1. UNCHANGED <<hooks, count, trig, cleared>> /\ off' \subseteq off \cup {i} /\ i \in K!Registered
    BY <1>3 DEF K!Switch
  <2>2. K!Registered' = K!Registered
    BY <2>1 DEF K!Registered
  <2> QED
    BY <1>0, <2>1, <2>2 DEF HooksInv, HooksTyped, PhasesSound
<1>4. ASSUME NEW p \in Phases, K!ClearPhase(p) PROVE HooksInv'
  <2>1. hooks' = [hooks EXCEPT ![p] = <<>>] /\ off' = off \ K!Range(K!IdsOf(hooks[p])) /\ cleared' = TRUE /\ UNCHANGED <<count, trig>>
    BY <1>4 DEF K!ClearPhase
  <2>2. hooks \in [Phases -> Seq(Hook)]
    BY <1>0 DEF HooksTyped
  <2>3. hooks'[p] = <<>> /\ (\A q \in Phases : q # p => hooks'[q] = hooks[q]) /\ hooks' \in [Phases -> Seq(Hook)]
    BY <1>e, <2>1, <2>2
  <2>4. PhasesSound'
    BY <1>0, <1>e, <2>3 DEF PhasesSound
  <2>5. K!Range(K!IdsOf(hooks[p])) = IdsIn(hooks[p])
    BY DEF K!Range, K!IdsOf, IdsIn
  <2>6. K!Registered' \subseteq K!Registered
    BY <1>r, <1>e, <2>3, RegisteredIs
  <2>7. K!Registered \ IdsIn(hooks[p]) \subseteq K!Registered'
    BY <1>r, <2>3, RegisteredIs
  <2>8. K!IsFiniteSet(K!Registered')
    BY <1>0, <2>6, FS_Subset, SameCardinality DEF HooksTyped
  <2>9. off' \subseteq K!Registered' /\ cleared' \in BOOLEAN /\ cleared' /\ count' \in Int
    BY <1>0, <2>1, <2>5, <2>7 DEF HooksTyped
  <2>10. HooksTyped'
    BY <2>3, <2>8, <2>9 DEF HooksTyped
  <2> QED
    BY <1>0, <2>1, <2>4, <2>10 DEF HooksInv
<1>5. CASE K!ClearAll
  <2>1. hooks' = [p \in Phases |-> <<>>] /\ off' = {} /\ count' = 0 /\ trig' = trig
    BY <1>5 DEF K!ClearAll
  <2>2. hooks' \in [Phases -> Seq(Hook)] /\ \A p \in Phases : hooks'[p] = <<>>
    BY <1>e, <2>1
  <2>3. K!Registered' = {}
    BY <1>e, <1>r, <2>2
  <2>4. PhasesSound'
    BY <1>e, <2>2 DEF PhasesSound
  <2>5. K!IsFiniteSet(K!Registered') /\ K!Cardinality(K!Registered') = 0
    BY <2>3, FS_EmptySet, SameCardinality
  <2>6. cleared' \in BOOLEAN
    BY <1>5 DEF K!ClearAll
  <2>7. HooksTyped'
    BY <2>1, <2>2, <2>3, <2>5, <2>6 DEF HooksTyped
  <2> QED
    BY <1>0, <2>1, <2>4, <2>7 DEF HooksInv
<1>6. ASSUME UNCHANGED <<hooks, off, count, cleared>>, trig' = <<>> \/ Triggered(trig') PROVE HooksInv'
  <2>1. K!Registered' = K!Registered
    BY <1>6 DEF K!Registered
  <2>2. HooksTyped' /\ PhasesSound'
    BY <1>0, <1>6, <2>1 DEF HooksTyped, PhasesSound
  <2> QED
    BY <1>6, <2>2 DEF HooksInv
<1>7. ASSUME NEW p \in Phases, K!Trigger(p) PROVE HooksInv'
  <2>1. UNCHANGED <<hooks, off, count, cleared>>
    BY <1>7 DEF K!Trigger
  <2> QED
    BY <1>0, <1>6, <1>7, <2>1, TriggerStarts
<1>8. CASE K!Run
  <2>1. UNCHANGED <<hooks, off, count, cleared>> /\ Triggered(trig)
    BY <1>0, <1>8 DEF K!Run
  <2> QED
    BY <1>6, <1>8, <2>1, TriggerRuns
<1>9. CASE K!TriggerEnds
  BY <1>6, <1>9 DEF K!TriggerEnds
<1>10. CASE UNCHANGED K!vars
  <2>1. UNCHANGED <<hooks, off, count, cleared>> /\ trig' = trig
    BY <1>10 DEF K!vars
  <2>2. trig' = <<>> \/ Triggered(trig')
    BY <1>0, <2>1
  <2> QED
    BY <1>6, <2>1, <2>2
<1> QED
  BY <1>1, <1>2, <1>3, <1>4, <1>5, <1>7, <1>8, <1>9, <1>10 DEF K!Next

LEMMA HooksSafe == HooksInv => K!HookIdsUnique /\ K!EventPassesThrough /\ K!TypeOK
<1> SUFFICES ASSUME HooksInv PROVE K!HookIdsUnique /\ K!EventPassesThrough /\ K!TypeOK
  OBVIOUS
<1>1. K!HookIdsUnique
  <2>1. ASSUME NEW p \in Phases, NEW q \in Phases, NEW i \in DOMAIN hooks[p], NEW j \in DOMAIN hooks[q], hooks[p][i].id = hooks[q][j].id
        PROVE  p = q /\ i = j
    <3>1. hooks[p][i].id \in IdsIn(hooks[p]) /\ hooks[p][i].id \in IdsIn(hooks[q])
      BY <2>1 DEF IdsIn
    <3>2. p = q
      BY <3>1 DEF HooksInv, PhasesSound
    <3> QED
      BY <2>1, <3>2 DEF HooksInv, PhasesSound, EachIdOnce
  <2> QED
    BY <2>1 DEF K!HookIdsUnique, HooksInv, HooksTyped
<1>2. K!EventPassesThrough
  <2> SUFFICES ASSUME trig # <<>> PROVE K!EventPassesThrough
    BY DEF K!EventPassesThrough
  <2> DEFINE n == Passed(trig)
  <2>0. Triggered(trig) /\ trig \in Triggers /\ n >= 0 /\ n = Len(trig.due) - Len(trig.todo)
    BY DEF HooksInv, Triggered, Passed
  <2>1. /\ trig.due \in Seq(Hook) /\ trig.todo \in Seq(Hook) /\ n \in Nat /\ n <= Len(trig.due) /\ DOMAIN trig.due = 1 .. Len(trig.due)
        /\ trig.todo = <<>> => n = Len(trig.due)
    <3>1. trig.due \in Seq(Hook) /\ trig.todo \in Seq(Hook)
      BY <2>0 DEF Triggers
    <3>2. Len(trig.due) \in Nat /\ Len(trig.todo) \in Nat /\ DOMAIN trig.due = 1 .. Len(trig.due) /\ (trig.todo = <<>> => Len(trig.todo) = 0)
      BY <3>1
    <3> DEFINE d == Len(trig.due)
               t == Len(trig.todo)
    <3>3. n = d - t /\ n >= 0 /\ d \in Nat /\ t \in Nat /\ (trig.todo = <<>> => t = 0)
      BY <2>0, <3>2
    <3> HIDE DEF n, d, t
    <3>4. n \in Nat /\ n <= d /\ (trig.todo = <<>> => n = d)
      BY <3>3
    <3> QED
      BY <3>1, <3>2, <3>4 DEF d
  <2>2. \A a \in 1 .. n : a \in DOMAIN trig.due
    BY <2>1
  <2>3. Sorted(trig.due) /\ EachIdOnce(trig.due) /\ RanInOrder(trig.ran, trig.due, n) /\ Carried(trig.event, trig.ran)
    BY <2>0 DEF Triggered
  <2> HIDE DEF n
  <2>4. ASSUME NEW j \in DOMAIN trig.ran, NEW k \in DOMAIN trig.ran, j < k
        PROVE  \E a, b \in DOMAIN trig.due : a < b /\ trig.due[a].id = trig.ran[j][1] /\ trig.due[b].id = trig.ran[k][1]
                                             /\ trig.due[a].prio >= trig.due[b].prio
    <3>1. PICK a \in 1 .. n, b \in 1 .. n : a < b /\ trig.due[a].id = trig.ran[j][1] /\ trig.due[b].id = trig.ran[k][1]
      BY <2>3, <2>4 DEF RanInOrder
    <3> QED
      BY <3>1, <2>2, <2>3 DEF Sorted
  <2>5. ASSUME trig.todo = <<>>, NEW g \in K!Range(trig.due), g.all PROVE g.id \in {x[1] : x \in K!Range(trig.ran)}
    <3>1. PICK a \in 1 .. n : trig.due[a] = g
      BY <2>1, <2>5 DEF K!Range
    <3>2. PICK j \in DOMAIN trig.ran : trig.ran[j][1] = g.id
      BY <2>3, <2>5, <3>1 DEF RanInOrder
    <3> QED
      BY <3>2 DEF K!Range
  <2>6. trig.todo = <<>> => {h.id : h \in {g \in K!Range(trig.due) : g.all}} \subseteq {x[1] : x \in K!Range(trig.ran)}
    BY <2>5
  <2> QED
    BY <2>3, <2>4, <2>6 DEF K!EventPassesThrough, Carried, Changers, InRunOrder, EachIdOnce
<1>3. K!TypeOK
  <2>1. K!Registered \subseteq HookIds
    <3>1. \A p \in Phases : IdsIn(hooks[p]) \subseteq HookIds
      <4> SUFFICES ASSUME NEW p \in Phases, NEW k \in DOMAIN hooks[p] PROVE hooks[p][k].id \in HookIds
        BY DEF IdsIn
      <4>1. hooks[p][k] \in Hook
        BY DEF HooksInv, HooksTyped
      <4> QED
        BY <4>1 DEF Hook
    <3> QED
      BY <3>1, RegisteredIs
  <2>2. trig # <<>> => trig.phase \in Phases
    BY DEF HooksInv, Triggered, Triggers
  <2> QED
    BY <2>1, <2>2 DEF K!TypeOK, HooksInv, HooksTyped
<1> QED
  BY <1>1, <1>2, <1>3

(***************************************************************************)
(* The types: what a component's invariant leaves open of them each step   *)
(* keeps.                                                                  *)
(***************************************************************************)

LEMMA ManagerTypes == ManagerInv /\ ManagerInv' /\ A!TypeOK /\ [A!Next]_A!vars => A!TypeOK'
<1> SUFFICES ASSUME ManagerInv, ManagerInv', A!TypeOK, [A!Next]_A!vars PROVE A!TypeOK'
  OBVIOUS
<1> DEFINE Bounded == executors \subseteq ManagedPlugins /\ Len(cell) <= MaxStartups
<1>1. /\ cell \in Seq(Nat) /\ toStart \in Seq(Entries) /\ Len(cell) \in Nat /\ Bounded
  BY DEF ManagerInv, ManagerTyped, A!TypeOK
<1>2. \A e \in A!Range(registry)' : e.id \in ManagedPlugins /\ e.status \in A!States /\ e.inst \in 1 .. instances'
  <2>1. registry' \in Seq(Entries) /\ \A k \in DOMAIN registry' : registry'[k].inst \in 1 .. instances'
    BY DEF ManagerInv, ManagerTyped
  <2>2. \A k \in DOMAIN registry' : registry'[k] \in Entries
    BY <2>1
  <2> QED
    BY <2>1, <2>2 DEF A!Range, Entries
<1>3. Bounded'
  <2>1. CASE A!StartAll
    <3>1. Len(cell') = Len(cell) + 1 /\ Len(cell) < MaxStartups /\ executors' = executors
      BY <1>1, <2>1 DEF A!StartAll
    <3> QED
      BY <1>1, <3>1, BoundsOK
  <2>2. ASSUME NEW b \in BOOLEAN, A!StartNext(b) PROVE Bounded'
    <3>1. Head(toStart) \in Entries
      BY <1>1, <2>2 DEF A!StartNext
    <3>2. Head(toStart).id \in ManagedPlugins
      BY <3>1 DEF Entries
    <3>3. executors' \subseteq ManagedPlugins
      BY <1>1, <2>2, <3>2 DEF A!StartNext
    <3>4. Len(cell') = Len(cell)
      <4> DEFINE n == Len(cell)
                 v == Head(toStart).inst
      <4>1. cell' = [cell EXCEPT ![n] = v]
        BY <2>2 DEF A!StartNext
      <4>3. cell \in [1 .. n -> Nat] /\ DOMAIN cell = 1 .. n
        BY <1>1
      <4> HIDE DEF n, v
      <4>2. cell' \in [DOMAIN cell -> Nat \cup {v}]
        BY <4>1, <4>3
      <4> QED
        BY <1>1, <4>2, SameLength
    <3> QED
      BY <1>1, <3>3, <3>4
  <2>3. CASE A!ShutdownAll
    BY <1>1, <2>3 DEF A!ShutdownAll
  <2>4. ASSUME UNCHANGED <<executors, cell>> PROVE Bounded'
    BY <1>1, <2>4
  <2> QED
    BY <2>1, <2>2, <2>3, <2>4 DEF A!Next, A!vars, A!Load, A!Reload, A!Register, A!Unregister, A!ThreadRuns
<1> QED
  BY <1>2, <1>3 DEF A!TypeOK

\* What a deliverer has still to visit is what is left of the plugins.
Leftover(q) == \E k \in 1 .. Len(PluginOrder) + 1 : q = SubSeq(PluginOrder, k, Len(PluginOrder))

LEMMA LeftoverOK ==
  ASSUME D!OrderOK
  PROVE  /\ Leftover(PluginOrder) /\ Leftover(<<>>)
         /\ \A q : Leftover(q) /\ q # <<>> => Leftover(Tail(q))
<1> DEFINE s == PluginOrder
           n == Len(PluginOrder)
<1>1. s \in Seq(D!PluginSet) /\ n \in Nat
  BY DEF D!OrderOK
<1>2. s = SubSeq(s, 1, n) /\ <<>> = SubSeq(s, n + 1, n) /\ 1 \in 1 .. n + 1 /\ n + 1 \in 1 .. n + 1
  BY <1>1
<1>3. ASSUME NEW q, NEW k \in 1 .. n + 1, q = SubSeq(s, k, n), q # <<>> PROVE Leftover(Tail(q))
  <2>1. k <= n /\ k + 1 \in 1 .. n + 1
    BY <1>1, <1>3
  <2>2. Tail(q) = SubSeq(s, k + 1, n)
    BY <1>1, <1>3, <2>1
  <2> QED
    BY <2>1, <2>2 DEF Leftover
<1> QED
  BY <1>2, <1>3 DEF Leftover

LEMMA DeliveryTypes == D!OrderOK /\ DeliveryInv /\ DeliveryInv' /\ D!TypeOK /\ [D!Next]_D!vars => D!TypeOK'
<1> SUFFICES ASSUME D!OrderOK, DeliveryInv, DeliveryInv', D!TypeOK, [D!Next]_D!vars PROVE D!TypeOK'
  OBVIOUS
<1> DEFINE Left == \A d \in Deliverers : Leftover(job[d].rest)
<1>1. /\ active \subseteq D!PluginSet /\ Left
      /\ job \in [Deliverers -> [pc : {"idle", "visit", "run", "record"}, event : EventIds \cup {""}, rest : Seq(D!PluginSet)]]
      /\ \A d \in Deliverers : job[d].pc # "idle" => job[d].rest # <<>>
  BY DEF D!TypeOK, Leftover, DeliveryInv, JobsOK, JobTyped
<1>2. /\ ledger' \subseteq D!Pairs
      /\ \A d \in Deliverers : job'[d].pc \in {"idle", "visit", "run", "record"}
  BY DEF DeliveryInv, JobsOK, JobTyped, Counts
<1>3. active' \subseteq D!PluginSet
  BY <1>1 DEF D!Next, D!vars, D!Deliver, D!Visit, D!CrashDeliverer, D!RunPlugin, D!Record, D!StopPlugin
<1>4. Left'
  <2>1. ASSUME NEW d \in Deliverers, job[d].pc # "idle", job' = D!NextPlugin(d) PROVE Left'
    <3>1. Leftover(Tail(job[d].rest))
      BY <1>1, <2>1, LeftoverOK
    <3>2. job'[d].rest = Tail(job[d].rest) /\ \A o \in Deliverers \ {d} : job'[o] = job[o]
      BY <1>1, <2>1 DEF D!NextPlugin, D!NoJob
    <3> QED
      BY <1>1, <3>1, <3>2
  <2>2. ASSUME NEW d \in Deliverers, NEW pc, job' = D!Goto(d, pc) PROVE Left'
    <3>1. \A o \in Deliverers : job'[o].rest = job[o].rest
      BY <1>1, <2>2 DEF D!Goto
    <3> QED
      BY <1>1, <3>1
  <2>3. ASSUME NEW d \in Deliverers, NEW e \in EventIds, D!Deliver(d, e) PROVE Left'
    <3>1. job'[d].rest = PluginOrder /\ \A o \in Deliverers \ {d} : job'[o] = job[o]
      BY <1>1, <2>3 DEF D!Deliver
    <3> QED
      BY <1>1, <3>1, LeftoverOK
  <2>4. ASSUME NEW d \in Deliverers, D!CrashDeliverer(d) PROVE Left'
    <3>1. job'[d].rest = <<>> /\ \A o \in Deliverers \ {d} : job'[o] = job[o]
      BY <1>1, <2>4 DEF D!CrashDeliverer, D!NoJob
    <3> QED
      BY <1>1, <3>1, LeftoverOK
  <2>5. ASSUME NEW d \in Deliverers, D!Visit(d) PROVE Left'
    BY <2>1, <2>2, <2>5 DEF D!Visit
  <2>6. ASSUME NEW d \in Deliverers, NEW b \in BOOLEAN, D!RunPlugin(d, b) PROVE Left'
    BY <2>1, <2>2, <2>6 DEF D!RunPlugin
  <2>7. ASSUME NEW d \in Deliverers, NEW b \in BOOLEAN, D!Record(d, b) PROVE Left'
    BY <2>1, <2>7 DEF D!Record
  <2>8. ASSUME UNCHANGED job PROVE Left'
    BY <1>1, <2>8
  <2> QED
    BY <2>3, <2>4, <2>5, <2>6, <2>7, <2>8 DEF D!Next, D!vars, D!StopPlugin
<1> QED
  BY <1>2, <1>3, <1>4 DEF D!TypeOK, Leftover

LEMMA LifecycleTypes == LifecycleInv /\ LifecycleInv' /\ L!TypeOK /\ [L!Next]_L!vars => L!TypeOK'
<1> SUFFICES ASSUME LifecycleInv, LifecycleInv', L!TypeOK, [L!Next]_L!vars PROVE L!TypeOK'
  OBVIOUS
<1>1. current' \in L!States /\ attempts \in Seq(Attempts) /\ attempts' \in Seq(Attempts) /\ Len(attempts) <= MaxTransitions
  BY DEF LifecycleInv, L!TypeOK
<1>2. ASSUME NEW a, Len(attempts) < MaxTransitions, attempts' = Append(attempts, a) PROVE Len(attempts') <= MaxTransitions
  <2>1. Len(attempts') = Len(attempts) + 1 /\ Len(attempts) \in Nat
    BY <1>1, <1>2
  <2> QED
    BY <1>2, <2>1, BoundsOK
<1>3. ASSUME L!StartSequence PROVE Len(attempts') <= MaxTransitions
  <2> DEFINE n == CHOOSE n \in 0 .. 4 : L!Passes(n) /\ (n = 4 \/ ~L!Passes(n + 1))
             At(k) == IF k = 0 THEN current ELSE L!Sequence[k]
             m == IF n = 4 THEN 4 ELSE n + 1
             Tried == {L!Entry(At(k - 1), L!Sequence[k]) : k \in 1 .. m}
             tried == [k \in 1 .. m |-> L!Entry(At(k - 1), L!Sequence[k])]
  <2>1. attempts' = attempts \o tried /\ Len(attempts) + Len(tried) <= MaxTransitions
    BY <1>3 DEF L!StartSequence
  <2>2. n \in 0 .. 4
    <3>1. L!Passes(0) /\ \E i \in 0 .. 4 : L!Passes(i) /\ (i = 4 \/ ~L!Passes(i + 1))
      BY DEF L!Passes
    <3> QED
      BY <3>1
  <2> HIDE DEF n
  <2>3. m \in Nat
    BY <2>2
  <2> HIDE DEF m, At
  <2>4. tried \in Seq(Tried)
    BY <2>3
  <2> HIDE DEF tried, Tried
  <2>5. attempts \in Seq(Attempts \cup Tried) /\ tried \in Seq(Attempts \cup Tried)
    BY <1>1, <2>4
  <2>6. Len(attempts \o tried) = Len(attempts) + Len(tried)
    BY <2>5
  <2> QED
    BY <2>1, <2>6
<1>4. Len(attempts') <= MaxTransitions
  BY <1>1, <1>2, <1>3 DEF L!Next, L!vars, L!Transition, L!ToUnknown
<1> QED
  BY <1>1, <1>4 DEF L!TypeOK

LEMMA LoadingTypes == O!TreesOK /\ LoadingInv /\ LoadingInv' /\ O!TypeOK /\ [O!Next]_O!vars => O!TypeOK'
<1> SUFFICES ASSUME O!TreesOK, LoadingInv, LoadingInv', O!TypeOK, [O!Next]_O!vars PROVE O!TypeOK'
  OBVIOUS
<1>1. O!Range(found)' \subseteq tree'
  <2>1. CASE found' = <<>>
    BY <2>1 DEF O!Range
  <2>2. CASE IsListing(found)'
    BY <2>2 DEF IsListing, O!Discovered
  <2> QED
    BY <2>1, <2>2 DEF LoadingInv, LoadingTyped
<1>2. \A l \in O!Range(loads)' : l.dir \in tree' /\ l.result \in O!Results
  <2> DEFINE Loaded == [dir : tree', result : O!Results]
  <2>3. loads' \in Seq(Loaded)
    BY DEF LoadingInv, LoadingTyped
  <2>4. \A l \in Loaded : l.dir \in tree' /\ l.result \in O!Results
    OBVIOUS
  <2> HIDE DEF Loaded
  <2>1. \A k \in DOMAIN loads' : loads'[k] \in Loaded
    BY <2>3
  <2>2. \A k \in DOMAIN loads' : loads'[k].dir \in tree' /\ loads'[k].result \in O!Results
    BY <2>1, <2>4
  <2> QED
    BY <2>2 DEF O!Range
<1>3. DOMAIN registered' \subseteq ManifestIds
  <2>1. ASSUME NEW d \in tree, O!Load(d) PROVE DOMAIN registered' \subseteq ManifestIds
    <3>1. O!Metadata(d) \in ManifestIds
      BY <2>1 DEF O!TreesOK, LoadingInv, LoadingTyped, O!Metadata
    <3> QED
      BY <2>1, <3>1 DEF O!Load, O!Put, O!TypeOK
  <2> QED
    BY <2>1 DEF O!Next, O!vars, O!Discover, O!TypeOK
<1> QED
  BY <1>1, <1>2, <1>3 DEF O!TypeOK

LEMMA HealthTypes == HealthInv /\ HealthInv' /\ N!TypeOK /\ [N!Next]_N!vars => N!TypeOK'
<1> SUFFICES ASSUME HealthInv, HealthInv', N!TypeOK, [N!Next]_N!vars PROVE N!TypeOK'
  OBVIOUS
<1>1. /\ checks \in 0 .. MaxChecks /\ \A r \in Runs : Len(run[r].results) <= checks
      /\ run \in [Runs -> [pc : {"idle", "runs", "done"}, results : Seq(BOOLEAN)]]
  BY DEF HealthInv, N!TypeOK
<1>2. failures' \in 0 .. Len(log')
  <2>1. log' \in Seq(N!Statuses) /\ Since(log', failures')
    BY DEF HealthInv
  <2>2. Len(log') \in Nat /\ DOMAIN log' = 1 .. Len(log')
    BY <2>1
  <2> QED
    BY <2>1, <2>2 DEF Since, IsLast
<1>3. checks' \in 0 .. MaxChecks /\ \A r \in Runs : Len(run'[r].results) <= checks'
  <2>1. CASE N!AddCheck
    <3>1. checks' \in 0 .. MaxChecks /\ checks < checks' /\ run' = run
      BY <1>1, <2>1, BoundsOK DEF N!AddCheck
    <3>2. \A r \in Runs : Len(run[r].results) \in Nat
      BY <1>1
    <3> QED
      BY <1>1, <3>1, <3>2
  <2>2. ASSUME NEW r \in Runs, NEW b \in BOOLEAN, N!RunCheck(r, b)
        PROVE  checks' \in 0 .. MaxChecks /\ \A q \in Runs : Len(run'[q].results) <= checks'
    <3>1. run[r].results \in Seq(BOOLEAN) /\ Len(run[r].results) < checks /\ checks' = checks
      BY <1>1, <2>2 DEF N!RunCheck
    <3>2. run'[r].results = Append(run[r].results, b) /\ \A q \in Runs \ {r} : run'[q] = run[q]
      BY <1>1, <2>2 DEF N!RunCheck
    <3>3. Len(run'[r].results) = Len(run[r].results) + 1 /\ Len(run[r].results) \in Nat
      BY <3>1, <3>2
    <3>4. Len(run'[r].results) <= checks'
      BY <1>1, <3>1, <3>3
    <3> QED
      BY <1>1, <3>1, <3>2, <3>4
  <2>3. ASSUME NEW r \in Runs, N!Begin(r) \/ N!End(r)
        PROVE  checks' \in 0 .. MaxChecks /\ \A q \in Runs : Len(run'[q].results) <= checks'
    <3>1. checks' = checks /\ \A q \in Runs : run'[q].results = run[q].results
      <4>1. checks' = checks /\ run' = [run EXCEPT ![r].pc = run'[r].pc]
        <5>1. \E c : checks' = checks /\ run' = [run EXCEPT ![r].pc = c]
          BY <2>3 DEF N!Begin, N!End
        <5> QED
          BY <1>1, <5>1
      <4> QED
        BY <1>1, <4>1
    <3> QED
      BY <1>1, <3>1
  <2>4. CASE (\E s \in N!Statuses : N!SetStatus(s)) \/ UNCHANGED N!vars
    BY <1>1, <2>4 DEF N!SetStatus, N!vars
  <2> QED
    BY <2>1, <2>2, <2>3, <2>4 DEF N!Next
<1> QED
  BY <1>2, <1>3 DEF N!TypeOK, HealthInv

LEMMA ControlTypes == ControlInv /\ ControlInv' /\ C!TypeOK /\ [C!Next]_C!controlVars => C!TypeOK'
<1> SUFFICES ASSUME ControlInv, ControlInv', C!TypeOK, [C!Next]_C!controlVars PROVE C!TypeOK'
  OBVIOUS
<1>1. \A t \in Threads : call'[t].op \in {"none", "start", "startOne", "stop", "stopOne", "health", "report"}
  <2> SUFFICES ASSUME NEW t \in Threads
               PROVE  call'[t].op \in {"none", "start", "startOne", "stop", "stopOne", "health", "report"}
    OBVIOUS
  <2>1. call'[t] \in {C!Away} \cup Working \cup Asking
    BY DEF ControlInv, ControlTyped
  <2> QED
    BY <2>1 DEF C!Away, Working, Asking
<1>2. known' = known
  BY DEF C!Next, C!controlVars, C!Load, C!Register, C!Start, C!StartNext, C!Stop, C!StopNext, C!RemoveEnds, C!Health,
         C!HealthNext, C!StartSource, C!StopSource, C!Remove, C!Change
<1>3. calls' = calls \/ (calls < MaxCalls /\ calls' = calls + 1)
  BY DEF C!Next, C!controlVars, C!Load, C!Register, C!Start, C!StartNext, C!Stop, C!StopNext, C!RemoveEnds, C!Health,
         C!HealthNext, C!StartSource, C!StopSource, C!Remove, C!Change, C!Enter
<1>4. calls' \in 0 .. MaxCalls
  BY <1>3, BoundsOK DEF C!TypeOK
<1>5. /\ table' \subseteq SourceNames /\ state' \in [SourceNames -> C!States] /\ started' \in BOOLEAN
  BY DEF ControlInv, ControlTyped
<1> QED
  BY <1>1, <1>2, <1>4, <1>5 DEF C!TypeOK

LEMMA AdaptersTypes == AdaptersInv' /\ E!TypeOK /\ [E!Next]_E!adapterVars => E!TypeOK'
<1> SUFFICES ASSUME AdaptersInv', E!TypeOK, [E!Next]_E!adapterVars PROVE E!TypeOK'
  OBVIOUS
<1>1. isUp \in [E!Sources -> BOOLEAN] /\ ingested \in 0 .. MaxIngests /\ halts \in 0 .. MaxStops
  BY DEF E!TypeOK
<1>2. isUp' \in [E!Sources -> BOOLEAN]
  BY <1>1 DEF E!Next, E!adapterVars, E!Ingest, E!ReadEvents, E!Forward, E!StartAdapter, E!StartSignal, E!Stop
<1>3. /\ ingested' = ingested \/ (ingested < MaxIngests /\ ingested' = ingested + 1)
      /\ halts' = halts \/ (halts < MaxStops /\ halts' = halts + 1)
  BY DEF E!Next, E!adapterVars, E!Ingest, E!ReadEvents, E!Forward, E!StartAdapter, E!StartSignal, E!Stop
<1>4. ingested' \in 0 .. MaxIngests /\ halts' \in 0 .. MaxStops
  BY <1>1, <1>3, BoundsOK
<1>5. /\ \A s \in E!Sources : queue'[s] \in Seq(Payloads) /\ drained'[s] \in Seq(Payloads)
      /\ storedEvents' \subseteq Payloads /\ transport' \in [started : BOOLEAN, up : BOOLEAN]
  BY DEF AdaptersInv, AdaptersTyped
<1> QED
  BY <1>2, <1>4, <1>5 DEF E!TypeOK

LEMMA ExecutorTypes == ExecutorInv' /\ X!TypeOK /\ [X!Next]_X!vars => X!TypeOK'
<1> SUFFICES ASSUME ExecutorInv', X!TypeOK, [X!Next]_X!vars PROVE X!TypeOK'
  OBVIOUS
<1>1. heart \in [X!Generations -> {"beats", "gone"}] /\ stopping \in {"no", "heartbeat", "sandbox"}
  BY DEF X!TypeOK
<1>2. heart' \in [X!Generations -> {"beats", "gone"}] /\ stopping' \in {"no", "heartbeat", "sandbox"}
  BY <1>1 DEF X!Next, X!vars, X!Start, X!StopBegins, X!StopSignals, X!StopEnds, X!SandboxBegins, X!TargetEnds,
              X!WatchEnds, X!WatchStops, X!WatchLeaves, X!Beat
<1> QED
  BY <1>2 DEF X!TypeOK, ExecutorInv, ExecutorTyped

(***************************************************************************)
(* The group.                                                              *)
(***************************************************************************)

\* A step of the group is a step of a component, and leaves the others alone.
LEMMA GroupSteps ==
  [Next]_vars => /\ [P!Next]_P!vars /\ [B!Next]_B!vars /\ [Q!Next]_Q!vars
                 /\ [R!Next]_R!vars /\ [H!Next]_H!vars /\ [K!Next]_K!vars
                 /\ [A!Next]_A!vars /\ [X!Next]_X!vars /\ [D!Next]_D!vars /\ [L!Next]_L!vars
                 /\ [O!Next]_O!vars /\ [N!Next]_N!vars
                 /\ [C!Next]_C!controlVars /\ [E!Next]_E!adapterVars
BY DEF Next, vars, PVars, BVars, QVars, P!vars, B!vars, Q!vars, RVars, HVars, KVars, R!vars, H!vars, K!vars, AVars, XVars, DVars, LVars, OVars, NVars, CVars, EVars,
       A!vars, X!vars, D!vars, L!vars, O!vars, N!vars, C!controlVars, E!adapterVars

CarriedInv == PipeInv /\ BusInv /\ QueueInv

LEMMA CarriedInit == Init => CarriedInv
BY NamesOK, PipeInit, BusInit, QueueInit DEF Init, CarriedInv

LEMMA CarriedStep == CarriedInv /\ [Next]_vars => CarriedInv'
BY NamesOK, GroupSteps, PipeStep, BusStep, QueueStep DEF CarriedInv

\* An event is carried: no failure of a stage keeps a later one from running, the context tells what
\* became of the row, stages stay in rank order whatever is added, removed and reordered, a subscription
\* in two lists is called once, and no message of the queue is lost in silence or published twice.
THEOREM EventsAreCarriedHolds == Spec => []EventsAreCarried
<1>1. CarriedInv => EventsAreCarried
  BY PipeSafe, BusSafe DEF CarriedInv, QueueInv, EventsAreCarried
<1> QED
  BY <1>1, CarriedInit, CarriedStep, PTL DEF Spec

ServedInv == RegistryInv /\ HistoryInv /\ HooksInv

LEMMA ServedInit == Init => ServedInv
BY NamesOK, RegistryInit, HistoryInit, HooksInit DEF Init, ServedInv

LEMMA ServedStep == ServedInv /\ [Next]_vars => ServedInv'
BY NamesOK, GroupSteps, RegistryStep, HistoryStep, HooksStep DEF ServedInv

\* Subscribers are served: the index lists who is registered, a dispatch calls everyone it found once
\* and books one result each, the history's index covers its buffer, a search finds what it holds and
\* a replay goes in order of time, hook ids are unique and a trigger's event passes through its hooks.
THEOREM SubscribersAreServedHolds == Spec => []SubscribersAreServed
<1>1. ServedInv => SubscribersAreServed
  BY NamesOK, RegistrySafe, HistorySafe, HooksSafe DEF ServedInv, SubscribersAreServed
<1> QED
  BY <1>1, ServedInit, ServedStep, PTL DEF Spec

PluginsInv == ManagerInv /\ ExecutorInv /\ DeliveryInv /\ LifecycleInv /\ LoadingInv /\ HealthInv

LEMMA PluginsInit == Init => PluginsInv
BY ManagerInit, ExecutorInit, DeliveryInit, LifecycleInit, LoadingInit, HealthInit DEF Init, PluginsInv

LEMMA PluginsStep == PluginsInv /\ [Next]_vars => PluginsInv'
BY NamesOK, GroupSteps, ManagerStep, ExecutorStep, DeliveryStep, LifecycleStep, LoadingStep, HealthStep DEF PluginsInv

\* Plugins are run as they are registered: one entry per id, a start calls the plugin it is of or one
\* after it, RUNNING is executed, one target at a time, the ledger's runs are true, a refused transition
\* changes nothing, only what passed both validations is imported, and failures are counted in a row.
THEOREM PluginsAreRunHolds == Spec => []PluginsAreRun
<1>1. PluginsInv => /\ A!OneEntryPerId /\ A!StartsAreCalls /\ A!RunningIsExecuted
                    /\ D!RecordedHasRun /\ D!RunsAreAccounted
  BY DEF PluginsInv, ManagerInv, DeliveryInv, RecordHasRun, AllAccounts, AccountOf, D!RunsAreAccounted
<1>2. PluginsInv => L!HistoryIsAPath /\ L!RunsOnlyLoaded
  BY DEF PluginsInv, LifecycleInv
<1>3. PluginsInv => PluginsAreRun
  BY NamesOK, <1>1, <1>2, ExecutorSafe, LoadingSafe, HealthSafe DEF PluginsInv, PluginsAreRun
<1> QED
  BY <1>3, PluginsInit, PluginsStep, PTL DEF Spec

\* A plugin becomes healthy at the end of a run of its checks only if all of them were.
THEOREM HealthyIsEarnedHolds == Spec => N!HealthyIsEarned
<1>1. PluginsInv /\ [Next]_vars =>
        [\A r \in Runs : (run[r].pc = "runs" /\ run'[r].pc = "done" /\ status' = "healthy" /\ status # "healthy")
           => \A k \in DOMAIN run[r].results : run[r].results[k]]_N!vars
  BY GroupSteps, HealthyStep DEF PluginsInv
<1> QED
  BY <1>1, PluginsInit, PluginsStep, PTL DEF Spec, N!HealthyIsEarned

LEMMA SourcesInit == Init => ControlInv /\ AdaptersInv
BY NamesOK, ControlInit, AdaptersInit DEF Init

LEMMA SourcesStep == ControlInv /\ AdaptersInv /\ [Next]_vars => (ControlInv /\ AdaptersInv)'
BY NamesOK, GroupSteps, ControlStep, AdaptersStep

\* The sources are safe: what runs is supervised and registered by its catalogue, reports name the
\* worst, what an adapter accepts is accounted for and an event has one identity, however the
\* calls of any number of threads overlap.
THEOREM SourcesAreSafeHolds == Spec => []SourcesAreSafe
<1>1. ControlInv /\ AdaptersInv => SourcesAreSafe
  BY ReportHolds, RedeliveryHolds DEF ControlInv, AdaptersInv, SourcesAreSafe
<1> QED
  BY <1>1, SourcesInit, SourcesStep, PTL DEF Spec

\* After a stop that no other call overlapped no source runs.
THEOREM StopLeavesNothingHolds == Spec => C!StopLeavesNothing
<1>1. ControlInv /\ [Next]_vars =>
        [\A t \in Threads : call[t].op = "stop" /\ call'[t] = C!Away /\ overlapped' = {} /\ (\A u \in Threads \ {t} : call[u] = C!Away)
           => \A n \in SourceNames : state'[n] \notin C!Active]_C!controlVars
  BY GroupSteps, StopLeavesNothingStep
<1> QED
  BY <1>1, SourcesInit, SourcesStep, PTL DEF Spec, C!StopLeavesNothing

\* Two messages become one event only if they are one, or of the two messengers that share identities.
THEOREM MergedIsExplainedHolds == Spec => E!MergedIsExplained
<1>1. ControlInv /\ AdaptersInv /\ [Next]_vars =>
        [\A s \in E!Sources : forwarded'[s] > forwarded[s] =>
           LET p == Head(drained[s]) IN
           \E r \in storedEvents' : E!SameMessage(r, p) \/ ({r.source, p.source} = {"telegram", "signal"} /\ r.a = p.a /\ r.b = p.b)]_E!adapterVars
  BY NamesOK, GroupSteps, MergedStep
<1> QED
  BY <1>1, SourcesInit, SourcesStep, PTL DEF Spec, E!MergedIsExplained
\* What the theorems above rest on, and what the types add.
CoreInv == CarriedInv /\ ServedInv /\ PluginsInv /\ ControlInv /\ AdaptersInv
OtherTypes ==
  A!TypeOK /\ D!TypeOK /\ L!TypeOK /\ O!TypeOK /\ N!TypeOK /\ C!TypeOK /\ E!TypeOK /\ X!TypeOK

LEMMA CoreTypes == CoreInv /\ OtherTypes => TypeOK
<1> SUFFICES ASSUME CoreInv, OtherTypes PROVE TypeOK
  OBVIOUS
<1>1. P!TypeOK
  <2>1. PipeTyped
    BY DEF CoreInv, CarriedInv, PipeInv
  <2>2. ctx.errors \subseteq P!Known
    <3>1. ctx \in Contexts
      BY <2>1 DEF PipeTyped
    <3> QED
      BY <3>1 DEF Contexts
  <2>3. P!Range(stages) \subseteq P!Known
    BY <2>1 DEF PipeTyped, P!Range
  <2>4. \A i \in DOMAIN results : results[i].stage \in P!Known
    <3>1. \A i \in DOMAIN results : results[i] \in StageResults
      BY <2>1 DEF PipeTyped
    <3> QED
      BY <3>1 DEF StageResults
  <2> QED
    BY <2>1, <2>2, <2>3, <2>4 DEF PipeTyped, P!TypeOK
<1>2. B!TypeOK
  BY DEF CoreInv, CarriedInv, BusInv
<1>3. Q!TypeOK
  <2>1. QueueTyped
    BY DEF CoreInv, CarriedInv, QueueInv
  <2>2. Q!Range(heap) \subseteq Messages
    BY <2>1 DEF QueueTyped, Sound, Q!Range
  <2> QED
    BY <2>1, <2>2 DEF QueueTyped, Sound, Q!TypeOK
<1>4. R!TypeOK /\ H!TypeOK /\ K!TypeOK
  BY NamesOK, RegistrySafe, HistorySafe, HooksSafe DEF CoreInv, ServedInv
<1> QED
  BY <1>1, <1>2, <1>3, <1>4 DEF OtherTypes, TypeOK

LEMMA OtherTypesInit == Init => OtherTypes
<1> SUFFICES ASSUME Init PROVE OtherTypes
  OBVIOUS
<1>1. A!TypeOK
  BY BoundsOK DEF Init, A!Init, A!TypeOK, A!Range
<1>2. D!TypeOK
  <2>1. D!Init /\ D!OrderOK
    BY NamesOK DEF Init
  <2>2. \A d \in Deliverers : job[d].pc = "idle" /\ Leftover(job[d].rest)
    BY <2>1, LeftoverOK DEF D!Init, D!NoJob
  <2>3. ledger = {} /\ active = D!PluginSet
    BY <2>1 DEF D!Init
  <2> QED
    BY <2>2, <2>3 DEF D!TypeOK, Leftover
<1>3. L!TypeOK
  BY BoundsOK DEF Init, L!Init, L!TypeOK, L!States
<1>4. O!TypeOK
  BY DEF Init, O!Init, O!TypeOK, O!Range
<1>5. N!TypeOK
  BY BoundsOK DEF Init, N!Init, N!TypeOK, N!Statuses
<1>6. C!TypeOK
  <2>1. known \subseteq C!ProductionTypes \cup {"whatsapp"}
    BY DEF Init, C!Init, C!Compositions
  <2>2. /\ table = {} /\ state = [n \in SourceNames |-> "stopped"] /\ started = FALSE /\ calls = 0
        /\ call = [t \in Threads |-> C!Away]
    BY DEF Init, C!Init
  <2>3. \A t \in Threads : call[t].op = "none"
    BY <2>2 DEF C!Away
  <2>4. state \in [SourceNames -> C!States]
    BY <2>2 DEF C!States
  <2>5. calls \in 0 .. MaxCalls
    BY <2>2, BoundsOK
  <2> QED
    BY <2>1, <2>2, <2>3, <2>4, <2>5 DEF C!TypeOK
<1>7. E!TypeOK
  <2>1. isUp = [s \in E!Sources |-> FALSE] /\ ingested = 0 /\ halts = 0
    BY DEF Init, E!Init
  <2>2. /\ \A s \in E!Sources : queue[s] \in Seq(Payloads) /\ drained[s] \in Seq(Payloads)
        /\ storedEvents \subseteq Payloads /\ transport \in [started : BOOLEAN, up : BOOLEAN]
    BY NamesOK, AdaptersInit DEF Init, AdaptersInv, AdaptersTyped
  <2>3. isUp \in [E!Sources -> BOOLEAN]
    BY <2>1
  <2> QED
    BY <2>1, <2>2, <2>3, BoundsOK DEF E!TypeOK
<1>8. X!TypeOK
  BY DEF Init, X!Init, X!TypeOK
<1> QED
  BY <1>1, <1>2, <1>3, <1>4, <1>5, <1>6, <1>7, <1>8 DEF OtherTypes

LEMMA OtherTypesStep == CoreInv /\ CoreInv' /\ OtherTypes /\ [Next]_vars => OtherTypes'
<1> SUFFICES ASSUME CoreInv, CoreInv', OtherTypes, [Next]_vars PROVE OtherTypes'
  OBVIOUS
<1>1. /\ ManagerInv /\ ManagerInv' /\ DeliveryInv /\ DeliveryInv' /\ LifecycleInv /\ LifecycleInv' /\ LoadingInv /\ LoadingInv'
      /\ HealthInv /\ HealthInv' /\ ExecutorInv' /\ ControlInv /\ ControlInv' /\ AdaptersInv'
  BY DEF CoreInv, PluginsInv
<1> QED
  BY <1>1, NamesOK, GroupSteps, ManagerTypes, DeliveryTypes, LifecycleTypes, LoadingTypes, HealthTypes, ControlTypes,
     AdaptersTypes, ExecutorTypes DEF OtherTypes

\* Every component keeps its types: the bounds of the model, what lists and tables hold, the positions
\* deliverers are at, and of the event core all that its own invariants say.
THEOREM TypeOKHolds == Spec => []TypeOK
<1>1. Init => CoreInv /\ OtherTypes
  BY NamesOK, CarriedInit, ServedInit, PluginsInit, SourcesInit, OtherTypesInit DEF CoreInv
<1>2. CoreInv /\ OtherTypes /\ [Next]_vars => (CoreInv /\ OtherTypes)'
  <2>1. CoreInv /\ [Next]_vars => CoreInv'
    BY NamesOK, CarriedStep, ServedStep, PluginsStep, SourcesStep DEF CoreInv
  <2> QED
    BY <2>1, OtherTypesStep
<1> QED
  BY <1>1, <1>2, CoreTypes, PTL DEF Spec
=============================================================================
