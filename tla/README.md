# TACTICAL_CORE in TLA+

TLA+ models of the backend of TACTICAL_CORE (`src/backend/app`), TLC
configurations that check them on small instances, and theorems that TLAPS
proves for every value of their constants. `PROJECT.json` ties each definition
to the source lines it models.

1. [The system](#1-the-system) — its parts, what each must guarantee, what is hard
2. [Modules](#2-modules) — which module models what, and how
3. [Runs](#3-runs) — what TLC checks, the bounds, the fairness
4. [Proofs](#4-proofs) — what TLAPS proves, under which hypotheses
5. [Disagreements and observations](#5-disagreements-and-observations)
6. [Not modelled, and what is next](#6-not-modelled-and-what-is-next)

## 1. The system

Sources (radio, messengers, MQTT, ATAK, ...) are polled by **adapter runtimes**
or hand events in over HTTP. A factory turns what they deliver into canonical
events with deterministic ids; the **event pipeline** commits each event to the
**durable event log** together with one **outbox** record per consumer, calls
the consumers, and runs a **recovery pass** over whatever else is owed.
**Projections** derive entities and relations from the log; plugins and the
observation bus are the outbox's two consumers. Several processes (the HTTP
backend, the Telegram and WhatsApp ingress) each compose this runtime over one
database; an operator process reads it.

| component | state | operations | what makes it correct | modules |
|---|---|---|---|---|
| durable event log (`event_repository/durable`) | rows with UNIQUE event_id and UNIQUE seq | save_with_deliveries, get, delete, iter_after_seq | seq is the commit order; a committed event has its delivery rows | `EventDelivery`, `Projection`, `OperatorFeed` |
| outbox (`event_delivery/outbox_*`) | per event and consumer: state, attempts, lease, next_attempt_at | claim_pending, mark_*, requeue_dead_letter | nothing owed is lost; attempts bounded; settled stays settled | `EventDelivery`, `DeliveryContract` |
| delivery dispatcher, event pipeline | registered callbacks; a lock per instance | register, unregister, deliver_pending; process | commit before effect; at least once; the recovery pass runs | `EventDelivery` |
| adapter runtime (`event_sources/runtime`) | lifecycle state, stop signal, thread, restart budget | start, stop, restart; the polling thread | a thread for whatever is active, a stop that is final, a finite budget | `AdapterRuntime` |
| supervisor, production runtime | table of runtimes, catalogue, started flag | add, remove, start, stop, shutdown, load, health | what runs is supervised and enabled; a stop leaves nothing running | `SourceControl` |
| source adapters | queue per adapter, transport | ingest, read_events, start, stop | what is accepted is accounted for; a redelivery is one event | `SourceAdapters` |
| ingress (`telegram_ingress`, `whatsapp_ingress`) | none of their own | handle an update, submit_raw, answer the platform | acknowledge only what is durable, and store it once | `WebhookIngress` |
| projection catch-up (`projection`) | checkpoint per projection, recovery health | run, advance, classify | every event projected across crashes; HEALTHY is true | `Projection` |
| entities and relations | rows ACTIVE/TOMBSTONED, ACTIVE/INACTIVE | apply_update, tombstone, sever, cascade | attributes follow the log; terminal states are terminal | `Projection` |
| plugin manager, ledger, executor, loader, SDK | registry, executors, delivered pairs, candidates, health | load, start, stop, reload, deliver_event, run_idempotent, run_checks | one entry per id; what is recorded has run; validated before imported | `PluginManager`, `PluginDelivery`, `PluginExecutor`, `PluginLoading`, `SdkLifecycle`, `SdkHealth` |
| audio | RTP trackers and flows, captures, recorder, VAD, bounded queues, receivers | packets, frames, jobs, start, stop | packets counted and emitted once, speech in one segment, no job lost | `RtpTracking`, `RtpFlows`, `RtpCapture`, `ReceiverLifecycle`, `AudioSource`, `EnergyVad`, `SttWorker`, `RecordingStt` |
| operator interface | none of its own but a stream's cursor | pages, SSE stream, recordings, severity | frames in order, nothing skipped; verified bytes; precedence | `OperatorFeed`, `OperatorRecording`, `Severity` |
| database layer | sessions, managers, schema revisions | CRUD, configure, shutdown, upgrade | only committed rows are seen; versions count updates; recorded schema exists | `RepositorySessions`, `DatabaseLifecycle`, `SchemaMigration` |
| intelligence layer | entities, identities, relations, observations, timeline | resolve, create, merge, intake, ingest, query | one entity per identity, one observation per event, indexes agree | `IntelEntity`, `IntelIdentity`, `ObservationIntake`, `ObservationEngine`, `ObsValidation`, `Timeline` |
| event core (`core`) | stages, subscriptions, queue, registry, history, hooks | publish, subscribe, dispatch, replay, trigger | every stage once; no message lost; index exact; replay in order | `CorePipeline`, `CoreBus`, `CoreBusQueue`, `CoreRegistry`, `CoreHistory`, `CoreHooks` |

**What is hard.** Processes interleave at every transaction, and some reads are
made outside the transaction that uses them (`MAX(seq)`, the SELECT of
`mark_*`, version numbers, the checkpoint); the hot path bypasses the claim; a
process may die between any two steps; leases expire under slow workers; sources
and platforms hand events in again; consumers, stages, subscribers and plugins
come and go while they are being called. Threads replace themselves while
another stops them, and joins give up on slow ones. Files change between being
verified and being read; sequence numbers wrap. `PROJECT.json`, "hazards", lists
these at their lines with the properties that cover them.

## 2. Modules

| module | what it is |
|---|---|
| `EventDelivery` | log, outbox, dispatcher and pipeline of several processes over one database, and the refinement mapping to the contract |
| `DeliveryContract` | what the outbox promises, without processes, leases or retries |
| `EventDelivery_proofs` | theorems about `EventDelivery` |
| `AdapterRuntime` | one adapter's runtime: control threads and polling threads; theorems about it |
| `Projection`, `MCProjection`, `Projection_proofs` | projections and catch-up over the log, by several processes; the events and environments TLC checks; theorems about it |
| `MCCore` | fourteen components of the event core, the plugins and the sources, one at a time; theorems about its events, its plugins and its sources |
| `MCAudio`, `MCAudio_proofs` | seven components of the audio subsystem, one at a time; theorems about its workers and receivers |
| `MCRecords` | thirteen components of what is kept and shown, one at a time; theorems about its identities, sessions, managers, upgrades and webhooks |

Definitions whose name has a suffix and whose comment begins with "Mutated form"
are variants of the definition that follows them, with a plausible mistake; each
property is violated when one of them takes the definition's place
(`PROJECT.json`, "mutants"). They are not part of any specification.

`MCCore`, `MCAudio` and `MCRecords` do not compose their components: these share
no state in the code but through the log, whose interface each models. The
variable `part` says which component a behaviour is of; that one runs, the
others stay in an initial state. So a run's state space is the *sum* of its
components' and one run covers a subsystem. The properties of a group are
conjunctions of the components' own properties, which keep their names, comments
and statements in the components' modules (`P!EveryStageOnce /\ ...`).

### 2.1 EventDelivery

A process is one sequential actor, because `EventPipeline.process` holds the
pipeline's lock from beginning to end; `pc` is where it stands, and the other
per-process variables are the locals of `process`, `save_with_deliveries` and
`deliver_pending`. One action is one database transaction, one read made outside
the transaction that uses it, or one call of a consumer:

| code | actions |
|---|---|
| `process`, up to `_next_seq` in `save_with_deliveries` | `Submit` |
| INSERT of event and delivery rows, commit | `SaveCommit` |
| IntegrityError, rollback | `SaveConflict` |
| `_reconcile_deliveries` in a new session | `Reconcile` |
| hot path: callback looked up and called, or skipped | `HotCall`, `HotSkip`, `HotDone` |
| callback returns or raises; SELECT of `mark_*` | `CallReturns`, `CallRaises` |
| UPDATE of `mark_*` | `WriteRow` |
| `claim_pending` | `Claim` |
| one turn of the loop of `deliver_pending` | `DeliverCall`, `DeliverLookupFails`, `DeliverUnregistered` |
| `process` returns | `ProcessDone` |
| the process dies, or a database error ends the call | `Crash` |
| administration | `RequeueDeadLetter`, `MarkDeadLetter` |
| time | `LeaseExpires`, `BackoffElapses` |

Abstractions, and why they lose nothing the properties tell apart:

* Time is one bit per record, `aged`: the instant the record's state waits for
  has passed. It is set by `LeaseExpires` and `BackoffElapses` at any moment and
  cleared by every write of the row (which sets `updated_at` and, on a failure,
  `next_attempt_at`).
* `claim_pending` is one step: its first statement is an UPDATE, which takes
  SQLite's write lock, so its candidate SELECT and its claims see the same rows.
  (Over PostgreSQL two claims may interleave; each of their conditional UPDATEs
  still wins or loses a row as a whole.)
* `save_with_deliveries` is two steps, because SELECT MAX(seq) takes no lock.
  `_reconcile_deliveries` and `requeue_dead_letter` are one: what they read
  decides only an insert that UNIQUE protects, or an administrator's act.
* `mark_*` are two steps, SELECT and UPDATE. The session writes only the columns
  whose value changed against what was read, hence `KEEP`.
* The consumers of the hot path are served in any order (the code: the order of
  registration), which includes the code's.
* Filters, middleware and payloads are left out: a filtered event is one that is
  not submitted. Projections are module `Projection`.
* `handled` and `calls` are ghosts, written by the callbacks and read by
  properties only.
* Not modelled here: deletion of events (module `Projection`), the paths of `process` without a dispatcher or with a repository that lacks
  `save_with_deliveries`, `enqueue` (used only there).

### 2.2 DeliveryContract and its refinement

Per delivery: none, owed, delivered or parked. An event's deliveries become owed
at once; a delivery is reported delivered only after the consumer handled it;
what is given up is parked until somebody requeues it. The mapping stands at the
end of `EventDelivery` (`Status`, `Contract`, `ImplementsContract`): `Status` maps PENDING,
IN_FLIGHT and FAILED to owed. `Park` takes a set, since one claim may retire
several records.

### 2.3 AdapterRuntime

Control threads call `start`, `stop` and `restart`; `_spawn_thread` creates poll
threads, which run `_run_loop`. The runtime's lock covers sections of these
calls: `stop` is `StopBegin` (first section), `StopJoined` (the join, outside the
lock) and `StopFinish` (second section); `_handle_runtime_failure` is
`EnterFailed`, `Decide` (the look at budget and stop signal, outside the lock),
`RecordFailure` and `Respawn`. An illegal transition raises: the poll thread then
goes to its finally clause (`Cleanup`), and `stop` ends with an exception that
changes nothing, so `StopFinish` from "stopped" is the same step. `healthy` stands for
`_last_healthy_at`: the second healthy read may find that
`reset_after_health_seconds` have passed. `SlowThreads` lets a join run into
`stop_timeout`. Thread identities are reused once nobody refers to them
(`Free`). A call of the supervisor's `start`, `stop` or `restart` is a call of the
runtime's. Events, delays and the counters of `health()` are left out;
`submit_raw` is in
`WebhookIngress`, the forwarding of a batch in `SourceAdapters`.

The code does not keep one poll thread per adapter, nor an adapter that is
started whenever the state says RUNNING (section 5). The properties are what it
keeps under any overlap of calls, automatic restarts and joins that time out:
until a stop is signalled an active runtime has a thread that serves it
(`ActiveIsServed`), a started adapter has a thread that will stop it
(`AdapterIsOwned`), restarts exceed the budget by no more than the overlapping
starts (`BudgetHolds`), and after the last stop everything ends (`StopQuiesces`).

### 2.4 Projection

`todo[p]` is what process p still has to do for the event in hand, one
transaction per action.

| code | actions |
|---|---|
| the save in `EventPipeline.process`, then the projections in their order | `Process`, `ProcessDone` |
| `EntityManager.apply_update`: read, merge, save | `EntityGet`, `EntitySave` |
| relation projection; severance | `RelationSave`, `Sever` |
| tombstone and cascade over the entity's relations (composition.py) | `Tombstone`, `Cascade` |
| `EntityBridge` swallows a failure | `Swallowed` |
| start of a process, `ProjectionCatchUp.run`, `advance` | `Start`, `CatchUpNext`, `Advance`, `AdvanceFails`, `CatchUpDone` |
| `record_recovery`; `_durable_state`, whose reads may fail; the classification | `Up`; `DurableState`, `Backlog`, `Classify` |
| `archive_event`: delete, then save a copy in another transaction | `ArchiveDelete`, `ArchiveSave` |
| the process dies | `Crash` |

The environment of a behaviour (which processes, which of the faults crash,
repeated events, swallowed failures, archiving) is chosen by `Init`,
so that a property can say under which faults it is promised (`May`, `Without`):
the same run checks all environments, and `Without({...}) => ...` is true of
those that have the fault only vacuously, of the others in full.
The attributes of an entity are the event that wrote each key last;
`AttributesAreFold` compares them with a fold over the log (`LastWriter`).
MC events: two updates of one entity (one with a relation), its severance, and
the removal of the other end.

`DurableState(reads)` takes the set of reads that succeed as a parameter, since
the code drops the exception of each of the two and goes on with 0; the
properties quantify over it. `Commit` is the save of an event, by the pipeline or
by `archive_event`, also of one event by both. The ghost `missed` names the
events whose projection was given up and those that were given a seq behind the
checkpoint or behind what a running catch-up has read (`IsBehind`), so that
`CheckpointCovers` and `HealthyMeansProjected` hold, and are stated, for every
environment.

### 2.5 The event core, plugins and sources (`MCCore`)

| module | state and actions | abstractions |
|---|---|---|
| `CorePipeline` | `Publish`, one action per stage of `Pipeline.execute` over the live list, by index; `Toggle`, `AddStage`, `RemoveStage`, `Reorder` by another thread between stages | payload: valid or not, with an id or not |
| `CoreBus` | `Subscribe`, `Unsubscribe`, `Publish` of a copy, `Handle`; while handlers run (under the re-entrant lock) only they change subscriptions | exact types and wildcards as sets |
| `CoreBusQueue` | `PublishAsync`, `StartProcessing`, `StopBegin`/`StopEnd` (the join gives up), the worker's `LoopTest`, `Get`, `WorkerPublishes` | the heap raises TypeError when it must compare two messages (`Put`, `Popped`) |
| `CoreRegistry` | registration of plugins, subscribers and handlers over shared indexes; `Dispatch`, `Sequential`, `Parallel`, `CallHandler` outside the lock | one dispatch at a time |
| `CoreHistory` | `Add`, `Clear`, `ClearType`, `PruneOld`, `Search`; `ReplayBegins`/`Next`/`Ends` | timestamps are the order of adding |
| `CoreHooks` | `Register`, `Unregister`, `Switch`, `ClearPhase`, `ClearAll`, `Trigger`, `Run` at each await | the event is the sequence of hooks that changed it |
| `PluginManager` | `Load`, `Register`, `Unregister`, `Reload`, `StartAll`, `StartNext`, `ThreadRuns`, `ShutdownAll`; `cell` is the loop variable the threads' closures share | instances are numbered |
| `PluginDelivery` | `run_idempotent` in three steps (`Visit`, `RunPlugin`, `Record`) by two deliverers, crashes, a plugin stopped meanwhile | events are ids |
| `PluginExecutor` | executor, sandbox, target, watchdog and heartbeat threads of successive starts, which share the stop event | times are their expiry |
| `PluginLoading` | `Discover` over trees of directories, `Load` with a fault at every stage | a tree is a set of directories (in the run three, each good or with one fault); the scan's order is by root and name |
| `SdkLifecycle`, `SdkHealth` | the transition table and its history; `run_checks` of two tasks interleaved at its awaits | |
| `SourceControl` | catalogue, supervisor table and production runtime, called by two threads; an iteration over the copied table is one step per source | a source's runtime is its state |
| `SourceAdapters` | `Ingest`, `ReadEvents`, `Forward`, start and stop of each transport; `Identity` is the adapter's choice of the fields that name an event | payload: the two fields of the identity, a fault, the body, the form of the time |

### 2.6 Audio (`MCAudio`)

| module | state and actions | abstractions |
|---|---|---|
| `RtpTracking` | `Delta`, `Accept`, `Disposition`: 16-bit sequence arithmetic | width `Modulus` (2^16), `Half` |
| `RtpFlows` | `Send`, `Arrive`, `ArriveMalformed`, eviction, `Restart` of a sender, `ShutdownAll`; the ghost `ref` counts by the senders' own numbers | the network delays within `Window`, repeats, loses |
| `RtpCapture` | `ReadPacket`, `ReadMalformed`: the stream a capture file is reconstructed to | |
| `ReceiverLifecycle` | `Start`, `StopBegin`, `StopEnd` (join gives up), `Bind`, `LeaveLoop`, `Leave` for both receivers | sockets as a set |
| `AudioSource` | recorder (`WhileIdle`, `WhileRecording`, `Finalize`), adapter queue, STT hand-over, `StopReceiver`/`StopRest`, restart; and the older protocol (`Segment`) | frames are numbers, the VAD's verdict is an input, durations are in frames |
| `EnergyVad` | `Detect`: percentile floor, threshold ratio, stability tracker | integer energies |
| `SttWorker` | `SttWorker` and `Mp3Worker`: bounded queue, `Start`, `StopSet`/`StopRead`/`StopEnd`, `Submit`, the thread's `LoopTest`, `Take`, `Count`, `Finish` | |
| `RecordingStt` | `Resolve`, `ReadMedia`, `Transcribe`, `ReturnCached` by two callers while the file changes; `FinalEvent` composes detection, enrichment and the event | contents are "original" or "changed" |

### 2.7 What is kept and shown (`MCRecords`)

| module | state and actions | abstractions |
|---|---|---|
| `IntelEntity` | resolve-or-create and changes by two sessions, statement by statement (`ResolveOrCreate`, `CreateEntity`, `ReadForChange`, `SaveChange`, `MarkDeleted`), and the in-memory repository | rows without times and tags; a row that is saved again goes to the end of the table |
| `IntelIdentity` | `CreateIdentity`, `Merge`, `ClearIdentities`; `Relate`, `Unrelate`, `RemoveAll` over both indexes | a list of relations is a set: their ids differ |
| `ObservationIntake` | the two subscriptions, mapping, validation, `Persist`, `Commit`, failure and recovery of the shared session | an event is an id, a source and its fields; the handlers of the bus are a set, of which the number counts |
| `ObservationEngine` | `ingest` step by step by two callers; sync, async and task forwarders | |
| `ObsValidation` | the six validators in order, duplicate check, verdict, over all observations with at most two spoilt fields | a field is what is wrong with it |
| `Timeline` | `AppendEvent`, the three queries, `Clear`; projections and aggregations of an answer | times are minutes |
| `RepositorySessions` | two sessions over one row: get, update, delete, bulk update, paging, refresh, commit, rollback; SQLite's single writer | |
| `DatabaseLifecycle` | `Configure`, `Initialize`, `GetDatabase`, sessions, `Shutdown` over the two singletons | managers are numbered |
| `SchemaMigration` | two upgraders, per revision: look, read columns, DDL (durable at once), record; locks, crashes, any state of an older database | |
| `WebhookIngress` | `Receive` (all gates), `Submit`, `Process`, `Confirm`, the answer; crash, resend, give up | a request is its messages' keys and forms |
| `OperatorFeed` | saving, archiving and deleting beside `GetPage`, and an SSE stream: `Connect`, `Snapshot`, `Query`, `Check`, `Emit`, `EndBatch` | severity as a set |
| `OperatorRecording` | `Lookup`, `FindFile`, `ReadSize`, `ReadHash`, `Verify`, `Answer`, `SendBytes` while the file changes | a file is a length and a digest |
| `Severity` | the loader's checks over faulty artifacts, `Classify` over rules that may conflict | |

## 3. Runs

Constants of the instances, and why they suffice:

* `EventDelivery`: two events (a race for one seq, a batch of two, an older and a
  younger record); two consumers where the contract is at stake (their deliveries
  share the commit and the batch), otherwise one; two processes for every
  property about interleavings. `MaxAttempts` 1 or 2, so that both "an attempt is
  left" and "none is" happen after one claim; 1 in `delivery_single`, whose two
  events bring two recovery passes, so that the limit can be exceeded; `AttemptCap`
  at least one more, for the same reason. `BatchLimit` 1 where records compete for a batch. One
  crash: a second repeats what the first leaves behind (a record IN_FLIGHT, a
  process that is idle). `CallCap` bounds a ghost at or above every value a
  property compares it with.
* `AdapterRuntime`: two control threads and three poll threads: a thread, its
  replacement and one of another start (four give the same verdict); two calls of
  start or restart, one automatic restart between them, joins that may time out.
* `Projection`: four events, which reach every kind of step, one crash and one
  repetition or archiving; one process with no fault, crashes, crashes and
  swallowed failures, or crashes, repeated events and archiving; two without faults.
* `MCCore`: two of whatever races (threads, tasks, deliverers, subscribers), three
  messages in the queue since its fault needs two that wait; a second start of
  everything that starts; buffers of two with four additions, so that they turn
  over twice.
* `MCAudio`: sequence numbers modulo 8 that begin at 6, so that each behaviour
  wraps; a window of 3, which is below `Half`; one flow in the bounded map and two
  talkers, so that each evicts the other; a segment limit of 6 among 8 frames;
  queues of one.
* `MCRecords`: two sessions, callers and upgraders; three messages in two
  overlapping webhooks; four events with a page of two and a tail of two.

CHECK_DEADLOCK is off everywhere: a system whose sources are exhausted, a runtime
that is stopped for good, or a component at its bound really stops.

| run | instance | checks | shows |
|---|---|---|---|
| `delivery_single` | 1 process, 2 consumers, one of which comes and goes; a crash, requeues | `AttemptsBounded`, `CommitBeforeEffect`, `FailedIsRetryable`, `InFlightIsHeld`, `SettledIsFinal`, `ImplementsContract` | with one owner of the database and no event handed in twice the contract is implemented, no record is stranded, and only put-backs of an unregistered consumer take the attempts beyond the limit |
| `delivery_multi` | 2 processes, a crash, an event handed in again, forced dead letters | `TypeOK`, `OutboxComplete`, `DeliveredMeansHandled`, `InvocationsBounded`, `SeqFollowsCommitOrder` | what holds under every interleaving |
| `delivery_live` | 1 process, endless traffic, a crash | `OwedIsSettled` | every owed delivery is settled |
| `runtime` | 2 control threads that start, stop and restart; 1 automatic restart; joins that time out | `TypeOK`, `ActiveIsServed`, `AdapterIsOwned`, `BudgetHolds`, `StopQuiesces`, `StartingEnds` | an active runtime is served, no adapter is left running alone, the budget is exceeded only by overlapping starts, and a stop is final in the end |
| `projection` | 1 process with no or several faults, or 2 without | `TypeOK`, `RecoveryIsTrue`, `EntitiesFollowLog`, `TerminalStates`, `CommittedIsProjected` | the checkpoint covers only what was projected or passed over, HEALTHY with a latest seq that was read is true, entities and relations follow the log, everything committed is projected in the end |
| `core` | the components of 2.5 | `TypeOK`, `EventsAreCarried`, `SubscribersAreServed`, `PluginsAreRun`, `SourcesAreSafe`, `CoreProgresses` | what the event core, plugins and source control keep while they are changed in use |
| `audio` | the components of 2.6 | `TypeOK`, `AudioIsAccounted`, `WorkersAreSafe`, `AudioIsServed` | no packet counted or emitted twice, no frame of speech in two segments, no job lost across stops |
| `records` | the components of 2.7 | `TypeOK`, `IntelligenceIsConsistent`, `StoreIsConsistent`, `OperatorSeesTruly`, `RecordsProgress` (with the answers and summaries of the timeline) | what is stored, acknowledged, resolved and shown agrees, whatever races |

`projection` takes about two minutes with two workers (540,000 states), the
group runs about a minute and a half each (250,000 to 290,000 states), as does
`delivery_multi` (1.8 million), the others less.

Violations, each a disagreement between the code and what it says of itself
(`PROJECT.json`, "findings", quotes the lines):

| run | what happens |
|---|---|
| `delivery_v_effect` | two processes read the same MAX(seq); the loser's UNIQUE(seq) violation is taken for a duplicate event_id: the event is lost, its deliveries are made |
| `plugins_v_startup` | with two loaded plugins every thread of startup_all calls on_start of the last one: the others are marked RUNNING and never started |
| `projection_v_swallow` | EntityBridge swallows the failure of a projection, so catch-up moves the checkpoint past an event that was not projected |
| `projection_v_reads` | MAX(seq) cannot be read: the backlog is 0 and recovery HEALTHY while events wait, where the docstring says it degrades |

Several properties hold under conditions that the run's constants or their own
hypotheses name (a single process, events handed in once, no swallowed failure).
Section 5 says what happens without them. Where a document of the repository
claims more than the code keeps, the property states what the code keeps, and
section 5 quotes the claim.

### Fairness

* `EventDelivery`, `FairSpec`: a process that is inside `process` keeps taking
  steps, so a consumer's callback ends (returning or raising), and time passes;
  a crash ends the call instead. Nothing obliges a source to hand in an event;
  `TrafficSpec` adds that every process keeps receiving events, and without it
  `OwedIsSettled` fails, since the recovery pass runs only at the end of `process`.
* `AdapterRuntime`, `FairSpec`: threads run and the adapter's calls return, and a
  `stop()` that has begun goes on; nobody is obliged to start or stop anything.
* `Projection`, `FairSpec`: a process that is up or catching up goes on, and one
  that crashed is started again.
* Audio: the worker threads, the receiving threads and the poller of
  `read_events` run; nobody is obliged to send a frame, to stop, or to end a stop.
* `CoreBusQueue`, `PluginExecutor`: each thread runs. `QueuedIsPublished` relies
  on there being finitely many messages beside (the queue is ordered by priority).
* `WebhookIngress`: the server goes on with what it has received, and the platform
  sends a good message again until it is acknowledged (strong fairness: attempts
  recur, they need not persist). `OperatorFeed`: the stream of a connected client
  goes on.

In a group a component's fairness counts only while `part` is that component.

## 4. Proofs

`EventDelivery_proofs`, for all constants that satisfy `ConstantsOK`:

| theorem | statement | argument |
|---|---|---|
| `TypeCorrect` | `Spec => [](TypeOK /\ LocalOK)` | inductive with `LocalOK`: a busy process has its event, and a record while it calls or writes |
| `OutboxIsComplete` | `Spec => []OutboxComplete` | rows are never removed, and the only step that commits an event creates them |
| `DeliveredIsHandled` | `Spec => []DeliveredMeansHandled` | strengthened by `DeliveredInHand`: an UPDATE to DELIVERED is under way only for a callback that returned; `handled` only grows |
| `SeqsAreDense` | `Spec => []SeqsDense` | the seqs in use are 1..n; a process that holds MAX(seq)+1 = k knows that 1..k-1 are in use, so with UNIQUE(seq) its insert succeeds only when k is n+1 |
| `SeqOrderIsCommitOrder` | `Spec => SeqFollowsCommitOrder` | from `SeqsDense`: a gap below the new seq is impossible, a seq above it too |
| `EffectsFollowCommit` | `SingleWriter /\ Spec => []CommitBeforeEffect` | strengthened by `NoOrphans`: with one process MAX(seq)+1 is still free at the insert, so a conflict means that the event is there |
| `AttemptsStayBounded` | `Spec => []AttemptsBounded` | strengthened by `PendingHasAttempt`: a PENDING record has an attempt left beside those its put-backs (`putBacks`) have used up, so a claim keeps the bound, and every other claim is of a record below the limit |
| `NothingIsStranded` | `Spec => []InFlightIsHeld` (which speaks of behaviours without a crash) | strengthened by `BatchInHand` and `InFlightHasHolder`: whoever puts a record IN_FLIGHT has it in its batch or hand, and lets go of it only by writing it or when another claim has taken it |
| `FailuresAreRetryable` | `SingleWriter /\ Spec => []FailedIsRetryable` | strengthened by `FailureInHand`: an UPDATE to FAILED is under way only for a record with an attempt left, and with one process nothing changes the attempts between SELECT and UPDATE |
| `InvocationsStayBounded` | `"requeue" \notin AdminActs /\ Spec => []InvocationsBounded` | `CallsOK`: the calls made and the processes that have claimed a record and not yet called (`Holders`) together weigh at most the attempts, plus one once the only submission's hot path is past the record (`OneSubmission`, `HotIsOpen`); attempts never fall |
| `OutboxImplementsContract` | `SoleOwner /\ Spec => ImplementsContract` | refinement: initial states map to initial states, and each step to a step of `DeliveryContract` or a stutter (`RowsChange` and one lemma per action), with `InHand`: with one process, no event handed in twice and no forced dead letters, what a process has in hand is still owed, so no write finds a settled record |

`AdapterRuntime`, after its properties:

| theorem | statement | argument |
|---|---|---|
| `TypeCorrect` | `Spec => []TypeOK` | inductive; no step enters a state `_ALLOWED` does not know |
| `ActiveIsServedHolds` | `Spec => []ActiveIsServed` | inductive: who makes the runtime active brings a thread that serves it, and a thread ceases to serve only by leaving the active states, in a step that hands over, or after a stop |
| `AdapterIsOwnedHolds` | `Spec => []AdapterIsOwned` | inductive: a thread dies only in `Cleanup`, which stops the adapter, or in `Respawn`, which brings another |
| `BudgetIsKept` | `Spec => []BudgetHolds` | `BudgetInv`: live threads are at most the starts, and restarts counted plus threads that have found budget left (`Recorders`) stay below the budget plus the starts; by counting the sets |

`Projection_proofs`, for any events, processes, entities and environments:

| theorem | statement | argument |
|---|---|---|
| `TypeCorrect` | `Spec => []TypeOK` | `TypeInv`: seqs are unique and at most the number of events ever saved (`SeqsAreCounted`, which the deletion of the last row would break but for the hole it counts), each process is at a known step of a known list (`ProcessOK`), rows are rows |
| `TerminalStatesHold` | `Spec => TerminalStates` | from `RowsOK` and `WorkOK`: a save may write back the attributes and status it read before a tombstone, but not the deleted flag, and a relation that exists keeps its status in every save |
| `RecoveryIsSound` | `Spec => []RecoveryIsTrue`, for every environment and every read of the checkpoint that fails | `RecoveryOK`: the checkpoint covers events that are projected or in `missed`, and what a catch-up still has on its list covers every unprojected event below its elements, so an advance, by any process, in any order, passes nothing over |
| `CountStaysTrue` | `Spec => []CountIsTrue` | `CountOK`: what a process has counted has a row; while nothing crashes, what is alive and not counted belongs to the event at hand |
| `EntitiesFollowTheLog` | `Spec => []EntitiesFollowLog` | the count; `CascadeOK`: the event at hand is the last of the log, and an ACTIVE relation was established after every removal of its ends but the one under way; and `FoldOK`: an attribute holds each event that wrote it, unless that event is still to be saved (`Waiting`: behind the crash or on the list of the catch-up) or a later one wrote it too (`Overwritten`); the list is an end of the log, so replaying it sets no attribute back for good |

`MCAudio_proofs`, for any jobs, threads, controllers and callers:

| theorem | statement | argument |
|---|---|---|
| `OneWorkerHolds` | `W!ThreadsOK /\ W!Spec => []W!OneWorker` | `OneWorker` speaks of SttWorker, which forgets only a dead thread and starts another only when it knows none (`WorkerOK`) |
| `JobsConservedHolds` | `W!ThreadsOK /\ W!Spec => []W!JobsConserved` | `Counted`: each step moves one job between the queue, the threads and the counters |
| `WorkersAreSafeHolds` | `Spec => []WorkersAreSafe`, for the whole group | the two above; `HandsOK`: the jobs counted as in flight are those the threads are at work on; `OnceOK`: what SttWorker has seen is in the queue, with a thread or finished, in one of these and once; `ReceiverOK`: `start` makes the receiver active with the thread it creates, and whichever thread leaves takes the flag back. `GroupSteps`: a step of the group is a step of the workers or leaves them alone, so the components' lemmas carry over |

An instance has its own copies of the library operators it extends
(`W!Cardinality`); `SameCardinality` identifies them with the library's, about
which the cited theorems speak.

In `MCCore`, for any deliverers, plugins, threads, catalogues and payloads:

| theorem | statement | argument |
|---|---|---|
| `RecordedHasRunHolds` | `D!OrderOK /\ D!Spec => []D!RecordedHasRun` | strengthened by `RecordHasRun`: the pair a deliverer is about to record has run |
| `RunsAreAccountedHolds` | `D!OrderOK /\ D!Spec => []D!RunsAreAccounted` | `Crossing` (two deliverers at work on one pair have crossed it) and, for the other pairs, `AccountOf`: while one works on the pair nobody else does, and without a record nothing ran that was not cut |
| `EventsAreCarriedHolds` | `Spec => []EventsAreCarried`, for the whole group | one inductive invariant per component (`CarriedInv`). `PipeInv`: in a run nobody disturbed, the enabled stages behind it are those that ran, in order (`RanBehind`), and a save still to come has left no trace (`SaveAhead`), so that the save runs once and its report is true; stages are listed once and by rank (`ListsOK`), which needs that an added stage is put where its rank belongs (`PipeInserted`) and that `reorder` numbers what it has moved (`PipeFronted`). `BusInv`: those called and those still to call are those due, each once, by priority (`Called`). `QueueInv`: a message is in one place, and a bus that was not given up on has no worker once it is at rest |
| `SubscribersAreServedHolds` | `Spec => []SubscribersAreServed`, for the whole group | one inductive invariant per component (`ServedInv`). `RegistryInv`: those a dispatch called and has still to call are those it found, each once (`HalfCalled`); while nobody is unregistered each call has its result (`Booked`) and a sequential one goes by priority (`ByPriority`). `HistoryInv`: the list per type goes in order of time, and so does what a replay has still to yield, whatever is added or cleared under it (`Replaying`, `DisturbOK`). `HooksInv`: each list is sorted and names an id once (`Sorted`, `EachIdOnce`), which an insertion by rank and a removal keep (`InsertOK`, `RemoveOK`); what a trigger has run is that much of what was due, in its order, and the event was changed by just these (`Triggered`) |
| `PluginsAreRunHolds` | `Spec => []PluginsAreRun`, for the whole group | the two above and one inductive invariant per component (`PluginsInv`). `ManagerInv`: what a startup_all has still to visit it has not started a thread for (`LoopIsFresh`), and each thread calls what the loop variable holds by then (`ThreadsKnown`). `ExecutorInv`: while no join has given up, a target runs only under a sandbox that watches or joins it, and an executor at rest has no live sandbox (`TargetIsWatched`, `AtRestIsGone`). `LifecycleInv`: the history is a path from the first state to the current one (`PathTo`), which a move of several attempts extends one by one. `LoadingInv`: what was found lists the directories discovered, by root and name (`IsListing`). `HealthInv`: the failures of a check are those recorded since its last healthy result (`Since`) |
| `HealthyIsEarnedHolds` | `Spec => N!HealthyIsEarned` | from `HealthInv`: a run ends with the aggregate of its own results, which is healthy only if each of them is |
| `SourcesAreSafeHolds` | `Spec => []SourcesAreSafe`, for the whole group | `ControlInv`: with the shape of each call (`ControlTyped`, `CallShape`) what runs is supervised, about to be stopped, or was reached by two overlapping calls, and what is in the table came from a validated catalogue; both are inductive, and a report names the worst of what it has seen. `AdaptersInv`: each step moves a payload between queue, hand, store and refusals, an identity is stored once (`StoredOnce`), and the transport's flag is raised with it |
| `StopLeavesNothingHolds` | `Spec => C!StopLeavesNothing` | when a stop returns the table is empty and nobody else moved (`StopReturns`), so by `RunningIsSupervised` in the next state nothing runs |
| `MergedIsExplainedHolds` | `Spec => E!MergedIsExplained` | `MessageOfIdentity`: payloads with one identity are one message or of the two messengers |
| `TypeOKHolds` | `Spec => []TypeOK`, for the whole group | the invariants above together (`CoreInv`) and, for the components whose invariants leave parts of their types open, `OtherTypes`, by a lemma each (`ManagerTypes` to `ExecutorTypes`): what a deliverer has still to visit is what is left of the plugins (`LeftoverOK`), failures are at most as many as reports, ids are of known plugins, and counters stay at or below their bounds |

In the modules of the records group, after their properties:

| theorem | statement | argument |
|---|---|---|
| `SchemaMigration.RaisingIsExplainedHolds` | `RetriesOK /\ Spec => []RaisingIsExplained` | `RaisingOK`: `TriesOK`: no upgrade tries more often than it may; `TablesOK`: once the first revision has made the tables, a missing one has no model; `ColumnOK`: who is to add a column that is there by now has not been alone since it looked, or something has crashed |
| `SchemaMigration.HighestStandsForAllHolds`, `AppliedByOneHolds`, `ReturnedIsCurrentHolds` | `Spec => []...`, for any number of upgraders, locks and crashes | `PlaceOK`: all below an upgrader's revision is recorded, so records are made without a gap; `MadeOK`: what a revision makes is there before its record and is not dropped; `AppliersOK`: who is counted has made the record |
| `WebhookIngress.AckedIsDurableHolds`, `OneRowPerMessageHolds` | `RequestsOK /\ Spec => []...` | `HandlingOK`: what is behind the message at hand is in the store, which only grows; `RowsOK`: a row's id is its key |
| `WebhookIngress.DuplicateIsTrueHolds` | `RequestsOK /\ KeysApart /\ Spec => []DuplicateIsTrue` | `TruthOK`: of a request's own keys, the store holds those that were there before it and those of its messages so far, since only its own service, which handles one request at a time, adds such keys; `RepeatedIsFewer`: a request that has a message twice has fewer keys than messages |
| `MCRecords.OperatorSeesTrulyHolds` | `Spec => []OperatorSeesTruly`, for the whole group | one inductive invariant per component. `StreamInv`: seqs are unique and at most the highest ever given (`LogTyped`); a frame of an event that was never archived comes before all frames of higher seqs and no later frame is at or below it (`OrderOK`, `FramesOK`, over the events `Kept`), a batch leaves out no undisturbed event between the cursor and its last one (`BatchOK`), and what the client has or the filter drops covers the undisturbed part of the log from where its snapshot began to the cursor (`CoverOK`). `PagesInv`: the pages so far have given every event up to the cursor that was there from the first page on, and none twice of those that were not deleted and saved again (`GivenOK`). `RecordingInv`: what the request has in hand passed its check (`CheckedOK`), its range lies within the size it read (`RangeOK`), and what is sent is that part of it which the file has by then (`SentOK`). `SeverityInv`: precedence is a strict order on rules with distinct ids, so `Resolve` finds the one rule that precedes the others, in whatever order the file lists them (`Reversed`, by `H!WFMin` and counting of indices) |
| `MCRecords.IntelligenceIsConsistentHolds` | `Spec => []IntelligenceIsConsistent`, for the whole group | one inductive invariant per component (`IntelInv`). `EntityInv`: the table has one row for each id given so far, wherever a save moves it (`StoreOK`, `StoreMoves`), and what a session is about to write keeps the id and the identity of a row (`TasksOK`); unless two sessions raced or a save brought a deleted row back, who is about to create is alone and finds no visible entity (`CreatorsOK`). `RelationsInv`: a relation is in both of its lists under an id of its own (`RelationsPaired`, `RelationsApart`). `IntakeInv`: a session that failed is recovered before the next event (`SessionOK`), each event received is counted once as what became of it (`CountsOK`), and what was valid and handled has its row (`SeenOK`). `EngineInv`: of the callers with one observation one has stored it (`StoredOK`), and nobody who is still to forward has an id that is linked or left to a task (`ForwardedOK`). `ValidationInv`: each validator that is behind leaves among the issues what it blames (`BySchema` to `ByDuplicate`), and a field that failed is one to refuse. `TimelineInv`: an event takes in the list of its entity the place after those so far (`ScanGrows`) |
| `MCRecords.TypeOKHolds` | `Spec => []TypeOK`, for the whole group | the invariants of the three theorems on the group and, where these leave parts of the types open, `ManagersTyped` (a kept manager and that of a session was configured), `TablesTyped`, `SentTyped` (a range begins in the file: `ParsedFirst`), `IngressTyped`, `StartTyped` |
| `MCRecords.IdentityIndexIsBackedHolds` | `I!Spec => []I!IdentityIndexIsBacked` | inductive as it stands |
| `MCRecords.StoreIsConsistentHolds` | `Spec => []StoreIsConsistent`, for the whole group | the theorems on upgrades and webhooks above; `RowsInv` of the sessions: without a writer nothing is pending (`LockOK`), what was rolled back is in no row and what is pending only in the writer's (`ValuesOK`, `SightOK`), and versions count the updates in both views of the rows (`VersionsOK`); `ManagersInv` of the managers. `GroupSteps`: a step of the group is a step of each component or leaves it alone |

`NamesOK` says that the history's size is a natural number and no event type is called "all" (`HistoryOK`), that the pipeline is built in the order of its stages' ranks
(`PresentOK`), that the bounds of subscriptions and of the queue are natural
numbers (`BoundOK`, `MessagesOK`) and no message is a worker's state, that the plugins' order is a sequence, that no two names of the
registry are one, that every source of a catalogue has a name among `SourceNames`, and (`PayloadsOK`) that a payload reaches the
adapter of its source and no chat or sender is called "atak", and (`TreesOK`) that one of two roots has one directory of a name and ids are known. `BoundsOK` says that the bounds named by the types are natural numbers. `OrderOK` and
`RequestsOK` say that the plugins and each request's messages form
sequences; `KeysApart` that the services' messages do not share identities,
which `event_sources` derives with a prefix of its own for WhatsApp and from
chat and message number for Telegram; `RetriesOK` that the number of retries is a
natural number; `SessionsOK` that "none" is no session and a table has ids; `FeedOK` that events are numbered from 1 and a page and a batch have room, `SizesOK` that a file's greatest size is a natural number, `RulesetsOK` that rules form sequences, `KindsOK` that a forwarder is one of the three kinds, `FieldsOK` what can be wrong with each field of an observation; `ThreadsOK` and `ReceiversOK` that there are finitely many threads,
controllers and callers and that "no thread" is none of them; the group runs
evaluate them as assumptions. The group runs check these properties as parts of
their conjunctions; `WorkersAreSafe`, `IntelligenceIsConsistent`, `StoreIsConsistent`, `OperatorSeesTruly`,
`EventsAreCarried`, `SubscribersAreServed`, `PluginsAreRun`, `SourcesAreSafe` and the
`TypeOK` of both `MCCore` and `MCRecords` are proved whole.

The hypotheses are needed. `SingleWriter`: `delivery_v_effect`. No requeue: a
worker that claimed a record before an administrator retired and requeued it
still calls the consumer, beside the claim that follows and the hot path, while
`requeue_dead_letter` has set the attempts back to 0. `SoleOwner` (one process,
no event handed in twice, no forced dead letters): the contract says that what is
delivered stays so, and section 5 names how the others overwrite it. Every strengthening
was first checked by TLC on the instances above.

**Only model-checked.** Liveness (all leads-to properties, `StopQuiesces`,
`StartingEnds`, `OwedIsSettled`) and whatever depends on ENABLED are outside the
prover's reach, as is induction over data (`AnswersAgree` and `SummariesAgree` of `Timeline`, which
speak of filtered sequences and sums and are part of `RecordsProgress`; the percentile of
`EnergyVad`); those properties of the three groups that the tables
do not name are not proved yet: `AudioIsAccounted` and the types of `MCAudio`,
and `SettledIsFinal`, which is checked where the contract is. (`AttributesAreFold` needs no induction: it
compares with the last writer, not with a recursive fold.) No module uses RECURSIVE operators.

## 5. Disagreements and observations

Behaviour of the code that a reader of its docs would not expect, met while
modelling and not given a run of its own. Paths are relative to
`src/backend/app`. Each is in the models, unless it says otherwise.

### Claims the code does not keep

The violation runs of section 3 have each a claim of their own. These are the
others; the property in the last column is what does hold in their place.

| claim | what happens | stated instead |
|---|---|---|
| "``attempts`` MUST NEVER exceed ``max_attempts``" (`event_delivery/outbox_repository.py:145`) | the records of an unregistered consumer are claimed, counted and put back to PENDING (`:282`) by every pass | `AttemptsBounded`: beyond the limit by no more than the put-backs |
| "one AdapterRuntime == one dedicated thread" (`event_sources/runtime/adapter_runtime.py:20`), "Always joins the runtime thread so no background thread is left behind" (`:192`) | `stop()` joins the thread it knows, beside which an automatic restart makes another, or gives up on a slow one; a `start()` that follows clears the stop signal, and two threads poll | `ActiveIsServed`, `AdapterIsOwned`, `StopQuiesces` |
| `stop()` is "Idempotent and thread-safe" (`:192`) | two calls that overlap both reach the second section; the later finds STOPPED and raises (`:223`) | `StopQuiesces` |
| "avoids the old-thread stop racing the new-thread start" (`:328`) | the failed thread of a runtime that is restarted by hand stops the adapter in its finally clause (`:333`) after the new thread has started it: RUNNING with a stopped adapter | `AdapterIsOwned` |
| "Restarts are only permitted up to a finite budget" (`event_sources/runtime/restart_policy.py:7`) | two threads that fail side by side both find the last unit (`adapter_runtime.py:536`) | `BudgetHolds`: beyond it by no more than the overlapping starts |
| the cascade is "synchronous, deterministic, idempotent, replayable" (`composition.py:256`) | a crash between tombstone and cascade leaves ACTIVE relations, which no replay touches: catch-up projects entities only | `CascadeIsComplete`, without faults |
| `wait_idle`: "no job is in flight" (`audio/stt_worker.py:370`) | between `get` and the increment of `_inflight` (`:405`) it answers idle with a job in hand | `JobsConserved`, `WorkedOnce` |
| a receiver's `start` and `stop` are "Idempotent and thread-safe" (`audio/rtp_receiver.py:166`, `:180`) | a start while a stop still joins, or has given up, makes a second receiver; the old thread's end clears `_running`, so that a later stop returns at once with the new socket open | `ActiveIsAlive`: an active receiver has a live thread, the one it knows |
| the stream has "no loss, no duplication" (`operator/router.py:241`) | an event archived and saved again takes the cursor past events of its batch, and is sent twice; one that gets a deleted event's seq is skipped | `FramesInOrder`, `NothingSkipped` |
| "NO verified stored SHA-256 means NO media bytes are exposed" (`operator/recording_access.py:191`) | the file is opened again after it was hashed: bytes that nothing verified are sent | `SentIsVerified` |

### Observations

**Delivery.** A consumer that is not registered has its records claimed and put
back, each time with one more attempt, beyond max_attempts
(`event_delivery/outbox_repository.py:186`, `:282`). An event handed in again
overwrites DELIVERED or DEAD_LETTER with the outcome of another delivery
(`event_pipeline/event_pipeline.py:205`). With two processes a stale mark_failed
leaves FAILED with no attempt left, which nothing claims or retires
(`outbox_repository.py:316`); a failure of the hot path postpones the next
attempt without counting one (`:321`). The hot path delivers without a claim and
overtakes older records of the same consumer; requeued records keep created_at
and go first (`:202`). Without a further event no recovery pass runs. The
production consumers swallow their subscribers' failures, so the outbox never
retries them (`composition.py:728`).

**Adapter runtime and sources.** `stop()` misses the replacement that the thread
it joins starts (`adapter_runtime.py:205`, `:192`); it gives up on a slow read,
and a later `start()` revives the old thread beside the new one; after a manual
restart, a stop and a late automatic restart the state may stay
RUNNING with its thread gone and the stop signal set. `ProductionRuntime.stop` empties the
supervisor's table, so a later start is HEALTHY without sources; an overlapping
start leaves a running source unsupervised; `start_all` swallows failures.
`ingest` queues when the adapter does not run. Identities: ATAK by uid alone,
MQTT by topic and payload, radio by frequency and callsign; Telegram and Signal
ids without a prefix may collide.

**Ingress.** A UNIQUE(seq) conflict loses a polled event silently; the webhooks'
second probe catches it. A Telegram update that is no message is answered 400
and sent again for as long as the platform likes; one malformed WhatsApp message
refuses its whole batch.

**Projection.** `EntityRepository.save` sets `metadata`, not `entity_metadata`
(`entity_repository/sqlalchemy_entity_repository.py:129`), so it is not kept. An
update of a tombstoned entity overwrites its attributes; a relation event after
the removal makes an ACTIVE relation; repeated events set attributes back;
catch-up replays entities only, not relations; the hot path never moves the
checkpoint; `advance` may move it back; archiving may use a seq at or below the
checkpoint again, and a crash between its delete and its save loses the event.
Two processes lose updates of one entity. The count of entities misses those made
by catch-up (`entity_read/projection_observability.py:81`).

**Plugins.** startup_all starts entries of any status and leaves RUNNING those
whose on_start failed; loading a known id replaces it; unregister leaves its
executor; hot reload makes a STOPPED plugin RUNNING without one, and calls hooks
that BasePlugin lacks. The executor takes on_start's normal return for a missed
heartbeat; a stop that timed out leaves the target running, and the next start
clears the stop event they share. The ledger does not exclude two concurrent
deliveries. A forbidden import is blamed on whichever plugin is being watched.
FAILED leads to RUNNING without a load by way of STOPPED. `PluginStorage` writes
its file in place (`plugin_sdk/storage.py:144`; not modelled).

**Audio.** Late copies of a packet are emitted again (`rtp_receiver.py:348`); a
capture is sorted without regard to the wrap (`rtp_capture.py:183`), and with an
open filter merges flows that share an SSRC; `stop()` empties the adapter's queue
after the recorder's shutdown has queued its last event
(`source_adapter.py:265`), and the STT worker is started only in `__init__`;
bursts below min_speech, and the short rest after a segment that reached its
maximum, are dropped; an MP3 path is announced though the MP3 queue is full;
`start()` after a timed-out stop leaves the worker's stop signal set
(`stt_worker.py:272`); `wait_idle` has a gap between queue and in-flight;
`Mp3Worker.stop` forgets a live thread; a receiver's stop that gives up may leave
two receivers; `RecordingSttWorker` caches before its callback, and two callers
transcribe twice; its callback is not wired by the application.

**Event core.** `with_metadata(cancelled=True)` sets the metadata, not the field;
PersistenceStage swallows failures; an event without an id is reported under one
id and stored under another; a stage added or removed during execute runs twice
or is skipped; a second queued message raises TypeError in the heap; a subscriber
of a type and of everything is called twice; unregistering during a sequential
dispatch raises KeyError; `total_dropped` is off by one; the list per type keeps
what the buffer dropped; `clear(phase)` leaves the hook count; the registered
health checks of the core never run; `dispatch_to_plugins` calls no plugin.

**Database and intelligence.** DDL is durable before its revision is recorded,
although the doc says that both roll back together; any IntegrityError is taken
for "already applied"; revision 2 raises if the events model is not imported; the
application never calls the upgrade. `update` never raises
ConcurrentModificationError. Two sessions that resolve one identity make two
entities; delete commits twice, and a stale update brings the row back; a merge
of an entity with itself loses its mapping. The async forwarder is never awaited,
yet its observations are marked forwarded (`intelligence/observation/bridge.py:330`);
a crash between commit and forward is never made good. `process_event_sync` leaves
the shared session failed. `intelligence_bus.py` does not parse (line 261; not
modelled).

**Operator.** `latest_events` returns the oldest page; the severity filter is
applied after paging; archiving between the two reads of a batch sends frames out
of order or ends the stream; a file that changes between hash and transmission is
sent unverified, and an empty file with a Range header is an error 500; the
severity loader accepts rules that conflict and non-executable rules that repeat
an id.

## 6. Not modelled, and what is next

* Codecs, RTP and audio simulators, transcription engines, HTML views: data
  transformations and I/O without a state of their own that the properties
  distinguish.
* `composition.py` beyond its closures: wiring without state.
* `database/migration.py` and the legacy `core` package's context, exceptions,
  metrics and health: not called by the durable path; the legacy `connectors` and
  `contracts` packages, which the production composition does not wire.
* The intelligence `event_bus` package: its main module does not parse.
* `PluginStorage` and plugin permissions; offset paging of the other operator
  views; `save_many`, `enqueue` and queries by type, source and correlation.
* The counters and delays of `health()`; the entity graph and the in-memory and
  sqlite3 variants of repositories that production does not use.

Next: a proof of `RelationIndexesAgree`; a composition of `Projection`
with `EventDelivery`, so that the race for a seq and the checkpoint meet;
`PluginDelivery` under `EventDelivery`'s claims.
