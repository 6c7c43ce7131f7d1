----------------------------- MODULE Projection -----------------------------
(***************************************************************************)
(* The projection of the durable event log into entities and relations.    *)
(*                                                                         *)
(* Every process projects an event right after it has committed it: first  *)
(* the entity (EntityBridge, EntityManager), then the relation, then the   *)
(* lifecycle of a removed entity, then a severance, each in transactions   *)
(* of its own.  When a process starts, and before its sources do, it       *)
(* catches up: it projects the entities of the events behind the           *)
(* checkpoint, one by one, and moves the checkpoint after each.            *)
(*                                                                         *)
(* One action is one transaction.  todo[p] is what process p still has to  *)
(* do for the event job[p]; an event is a record, see Event below.  The    *)
(* race of two processes for one seq is module EventDelivery's.            *)
(***************************************************************************)
EXTENDS Naturals, Sequences, FiniteSets, FiniteSetsExt

CONSTANTS
  Procs,        \* processes that compose the runtime over one database
  Events,       \* the events that are handed in
  Environments, \* what may happen in a run: [procs, faults]
  MaxCrashes,   \* bound on crashes
  MaxRepeats,   \* bound on events handed in again
  None

VARIABLES
  env,       \* [procs, faults]: chosen at the start, then fixed
  seqOf,     \* event -> seq in the log, 0 when it is not there
  archiving, \* the event that archive_event has deleted and not yet saved
  ent,       \* entity -> its row in "entities", or None
  rel,       \* relation -> "ACTIVE", "INACTIVE", or "ABSENT"
  ckpt,      \* last_seq of the projection checkpoint
  mode,      \* process -> "down", "catchup" or "up"
  todo,      \* process -> the steps left for its event
  job,       \* process -> that event, or None
  read,      \* process -> what EntityManager read from the repository
  pending,   \* process -> the events its catch-up has still to project
  recovery,  \* process -> outcome of its last catch-up
  seen,      \* process -> ProjectionObservability's entity ids
  projected, \* ghost: events whose entity update was committed
  missed,    \* ghost: events whose entity update was given up, or that were committed
             \* behind the checkpoint, without a committed update before
  crashes, repeats \* bounded counters

vars == <<env, seqOf, archiving, ent, rel, ckpt, mode, todo, job, read, pending,
          recovery, seen, projected, missed, crashes, repeats>>
dbVars   == <<seqOf, archiving, ent, rel, ckpt>>
bounds   == <<env, crashes, repeats>>
ghosts   == <<projected, missed>>

Kinds    == {"update", "remove", "sever"}
Entities == {e.entity : e \in Events} \cup ({e.target : e \in Events} \ {None})
Keys     == {e.key : e \in Events}

\* The relation an event names: its deterministic identity is the pair itself.
Relation(e) == <<e.entity, e.target>>
Relations   == {Relation(e) : e \in {f \in Events : f.target # None}}

Faults == {"crash", "repeat", "swallow", "archive"}

ASSUME EventsOK ==
  /\ IsFiniteSet(Events) /\ None \notin Procs \cup Events
  /\ MaxCrashes \in Nat /\ MaxRepeats \in Nat
  /\ \A e \in Events : e.kind \in Kinds /\ (e.kind = "sever" => e.target # None)
  /\ \A v \in Environments : v.procs \subseteq Procs /\ v.faults \subseteq Faults

May(fault) == fault \in env.faults

(***************************************************************************)
(* The log.                                                                *)
(***************************************************************************)
InLog(e) == seqOf[e] > 0
LogSet   == {e \in Events : InLog(e)}
MaxSeq   == IF LogSet = {} THEN 0 ELSE Max({seqOf[e] : e \in LogSet})

\* Mutated form: the first event behind the checkpoint is left out.
IterAfterSeq_SkipsFirst(n) == {<<seqOf[e], e>> : e \in {f \in LogSet : seqOf[f] > n + 1}}

\* iter_after_seq, as pairs <<seq, event>>, which are taken in the order of seq.
IterAfterSeq(n) == {<<seqOf[e], e>> : e \in {f \in LogSet : seqOf[f] > n}}
IsOldest(x, S)  == x \in S /\ \A y \in S : x[1] <= y[1]

Row == [status : {"UNKNOWN", "TOMBSTONED"}, deleted : BOOLEAN,
        attrs : [Keys -> Events \cup {None}]]

ASSUME NoneIsNoRow == None \notin Row

TypeOK ==
  /\ env \in Environments
  /\ seqOf \in [Events -> 0 .. Cardinality(Events) + MaxRepeats]
  /\ archiving \in Events \cup {None}
  /\ ent \in [Entities -> Row \cup {None}]
  /\ rel \in [Relations -> {"ABSENT", "ACTIVE", "INACTIVE"}]
  /\ ckpt \in Nat
  /\ mode \in [Procs -> {"down", "catchup", "up"}]
  /\ \A p \in Procs :
       todo[p] \in Seq({"get", "save", "relation", "tombstone", "cascade", "sever", "advance"})
  /\ job \in [Procs -> Events \cup {None}]
  /\ read \in [Procs -> Row \cup {None}]
  /\ recovery \in [Procs -> {"never_run", "succeeded", "failed"}]
  /\ seen \in [Procs -> SUBSET Entities]
  /\ projected \subseteq Events /\ missed \subseteq Events
  /\ crashes \in 0 .. MaxCrashes /\ repeats \in 0 .. MaxRepeats

Init ==
  /\ env \in Environments
  /\ seqOf = [e \in Events |-> 0]
  /\ archiving = None
  /\ ent = [x \in Entities |-> None]
  /\ rel = [r \in Relations |-> "ABSENT"]
  /\ ckpt = 0
  /\ mode = [p \in Procs |-> "down"]
  /\ todo = [p \in Procs |-> <<>>]
  /\ job = [p \in Procs |-> None]
  /\ read = [p \in Procs |-> None]
  /\ pending = [p \in Procs |-> {}]
  /\ recovery = [p \in Procs |-> "never_run"]
  /\ seen = [p \in Procs |-> {}]
  /\ projected = {}
  /\ missed = {}
  /\ crashes = 0
  /\ repeats = 0

(***************************************************************************)
(* What is done for an event: all of it after its commit, the entity only  *)
(* in a catch-up.                                                          *)
(***************************************************************************)
HotSteps(e) ==
  <<"get", "save">>
    \o (IF e.target # None /\ e.kind # "sever" THEN <<"relation">> ELSE <<>>)
    \o (IF e.kind = "remove" THEN <<"tombstone", "cascade">> ELSE <<>>)
    \o (IF e.kind = "sever" THEN <<"sever">> ELSE <<>>)
CatchUpSteps == <<"get", "save", "advance">>

Live(row) == row # None /\ ~row.deleted

\* Process p's next step is s; Done(p, n) drops the next n steps.
At(p, s)   == todo[p] # <<>> /\ Head(todo[p]) = s
Done(p, n) == todo' = [todo EXCEPT ![p] = SubSeq(@, n + 1, Len(@))]

\* EntityRepository.get: a deleted row is not returned.
EntityGet(p) ==
  /\ At(p, "get")
  /\ read' = [read EXCEPT ![p] = IF Live(ent[job[p].entity]) THEN ent[job[p].entity] ELSE None]
  /\ Done(p, 1)
  /\ UNCHANGED <<dbVars, bounds, mode, job, pending, recovery, seen, ghosts>>

\* What EntityManager saves: the attributes read, updated, or a new entity's.
Merged(p, e) ==
  IF read[p] = None THEN [k \in Keys |-> IF k = e.key THEN e ELSE None]
                    ELSE [read[p].attrs EXCEPT ![e.key] = e]

\* Mutated form: saving always writes an active row.
EntitySave_Revives(p) ==
  /\ At(p, "save")
  /\ LET e == job[p] IN
     /\ ent' = [ent EXCEPT ![e.entity] =
                  [status |-> "UNKNOWN", deleted |-> FALSE, attrs |-> Merged(p, e)]]
     /\ projected' = projected \cup {e}
  /\ read' = [read EXCEPT ![p] = None]
  /\ Done(p, 1)
  /\ UNCHANGED <<seqOf, archiving, rel, ckpt, bounds, mode, job, pending, recovery, seen, missed>>

\* EntityRepository.save.  Of an existing row status is overwritten only with
\* what was read, and deleted_at stays.
EntitySave(p) ==
  /\ At(p, "save")
  /\ LET e   == job[p]
         row == ent[e.entity]
     IN /\ ent' = [ent EXCEPT ![e.entity] =
             [status  |-> IF row = None \/ read[p] # None THEN "UNKNOWN" ELSE row.status,
              deleted |-> row # None /\ row.deleted,
              attrs   |-> Merged(p, e)]]
        /\ projected' = projected \cup {e}
  /\ read' = [read EXCEPT ![p] = None]
  /\ Done(p, 1)
  /\ UNCHANGED <<seqOf, archiving, rel, ckpt, bounds, mode, job, pending, recovery, seen, missed>>

\* RelationRepository.save: an existing relation keeps its status.
RelationSave(p) ==
  /\ At(p, "relation")
  /\ rel' = [rel EXCEPT ![Relation(job[p])] = IF @ = "ABSENT" THEN "ACTIVE" ELSE @]
  /\ Done(p, 1)
  /\ UNCHANGED <<seqOf, archiving, ent, ckpt, bounds, mode, job, read, pending,
                 recovery, seen, ghosts>>

\* EntityRepository.tombstone: nothing happens to a deleted entity.
Tombstone(p) ==
  /\ At(p, "tombstone")
  /\ LET x == job[p].entity IN
     ent' = [ent EXCEPT ![x] =
               IF Live(@) THEN [@ EXCEPT !.status = "TOMBSTONED", !.deleted = TRUE] ELSE @]
  /\ Done(p, 1)
  /\ UNCHANGED <<seqOf, archiving, rel, ckpt, bounds, mode, job, read, pending,
                 recovery, seen, ghosts>>

Inactivate(R) == [r \in Relations |-> IF r \in R /\ rel[r] = "ACTIVE" THEN "INACTIVE" ELSE rel[r]]

\* Mutated form: only relations whose source is the entity.
Cascade_SourceOnly(p) ==
  /\ At(p, "cascade")
  /\ rel' = Inactivate({r \in Relations : r[1] = job[p].entity})
  /\ Done(p, 1)
  /\ UNCHANGED <<seqOf, archiving, ent, ckpt, bounds, mode, job, read, pending,
                 recovery, seen, ghosts>>

\* inactivate_for_entity: every relation with the entity at either end.
Cascade(p) ==
  /\ At(p, "cascade")
  /\ rel' = Inactivate({r \in Relations : job[p].entity \in {r[1], r[2]}})
  /\ Done(p, 1)
  /\ UNCHANGED <<seqOf, archiving, ent, ckpt, bounds, mode, job, read, pending,
                 recovery, seen, ghosts>>

\* sever_relation: exactly one relation, and only when it is ACTIVE.
Sever(p) ==
  /\ At(p, "sever")
  /\ rel' = Inactivate({Relation(job[p])})
  /\ Done(p, 1)
  /\ UNCHANGED <<seqOf, archiving, ent, ckpt, bounds, mode, job, read, pending,
                 recovery, seen, ghosts>>

\* A projection that fails is logged and given up: the bridge gives up the
\* entity, the lifecycle step the rest of itself.
Swallowed(p) ==
  /\ May("swallow")
  /\ todo[p] # <<>> /\ Head(todo[p]) # "advance"
  /\ Done(p, IF Head(todo[p]) \in {"get", "tombstone"} THEN 2 ELSE 1)
  /\ missed' = IF Head(todo[p]) \in {"get", "save"} THEN missed \cup ({job[p]} \ projected) ELSE missed
  /\ read' = [read EXCEPT ![p] = None]
  /\ UNCHANGED <<dbVars, bounds, mode, job, pending, recovery, seen, projected>>

(***************************************************************************)
(* EventPipeline.process.                                                  *)
(***************************************************************************)

\* A seq that the checkpoint has passed, or that a running catch-up will pass: an
\* event that gets it, because the last event was deleted, is behind the checkpoint.
IsBehind(n) == n <= ckpt \/ \E p \in Procs : \E x \in pending[p] : n <= x[1]

\* save: an event that is in the log already is left alone, another comes last.
Commit(e) ==
  IF InLog(e) THEN UNCHANGED <<seqOf, missed>>
  ELSE /\ seqOf' = [seqOf EXCEPT ![e] = MaxSeq + 1]
       /\ missed' = IF IsBehind(MaxSeq + 1) THEN missed \cup ({e} \ projected) ELSE missed

\* The event is committed and will be projected, also when it was committed long
\* ago; it may be handed in again at any time, also while it is being archived.
Process(p, e) ==
  /\ mode[p] = "up" /\ job[p] = None
  /\ InLog(e) \/ archiving = e => May("repeat")
  /\ IF InLog(e) THEN repeats < MaxRepeats /\ repeats' = repeats + 1
                 ELSE UNCHANGED repeats
  /\ Commit(e)
  /\ job' = [job EXCEPT ![p] = e]
  /\ todo' = [todo EXCEPT ![p] = HotSteps(e)]
  /\ UNCHANGED <<env, crashes, archiving, ent, rel, ckpt, mode, read, pending, recovery,
                 seen, projected>>

\* The projection returns and its success is recorded.
ProcessDone(p) ==
  /\ mode[p] = "up" /\ job[p] # None /\ todo[p] = <<>>
  /\ seen' = [seen EXCEPT ![p] = @ \cup {job[p].entity}]
  /\ job' = [job EXCEPT ![p] = None]
  /\ UNCHANGED <<dbVars, bounds, mode, todo, read, pending, recovery, ghosts>>

(***************************************************************************)
(* ProductionRuntime.start, ProjectionCatchUp.run.                         *)
(***************************************************************************)

\* The composition recovers the observability state, then run() reads the
\* checkpoint and the log behind it.
Start(p) ==
  /\ mode[p] = "down" /\ p \in env.procs
  /\ mode' = [mode EXCEPT ![p] = "catchup"]
  /\ pending' = [pending EXCEPT ![p] = IterAfterSeq(ckpt)]
  /\ seen' = [seen EXCEPT ![p] = {x \in Entities : Live(ent[x])}]
  /\ UNCHANGED <<dbVars, bounds, todo, job, read, recovery, ghosts>>

\* run() turns to the next event.
CatchUpNext(p) ==
  /\ mode[p] = "catchup" /\ todo[p] = <<>>
  /\ \E x \in pending[p] : IsOldest(x, pending[p]) /\ job' = [job EXCEPT ![p] = x[2]]
  /\ todo' = [todo EXCEPT ![p] = CatchUpSteps]
  /\ UNCHANGED <<dbVars, bounds, mode, read, pending, recovery, seen, ghosts>>

\* advance() writes what it is given, also below what is there.
Advance(p) ==
  /\ At(p, "advance")
  /\ \E x \in pending[p] :
       /\ IsOldest(x, pending[p])
       /\ ckpt' = x[1]
       /\ pending' = [pending EXCEPT ![p] = @ \ {x}]
  /\ todo' = [todo EXCEPT ![p] = <<>>]
  /\ job' = [job EXCEPT ![p] = None]
  /\ UNCHANGED <<seqOf, archiving, ent, rel, bounds, mode, read, recovery, seen, ghosts>>

\* Mutated form: an outcome that is no status.
Up_Typo(p, outcome) ==
  /\ mode' = [mode EXCEPT ![p] = "up"]
  /\ recovery' = [recovery EXCEPT ![p] = "done"]
  /\ pending' = [pending EXCEPT ![p] = {}]
  /\ todo' = [todo EXCEPT ![p] = <<>>]
  /\ job' = [job EXCEPT ![p] = None]
  /\ UNCHANGED <<dbVars, bounds, read, seen, ghosts>>

\* The end of start-up: sources run, whatever became of the catch-up.
Up(p, outcome) ==
  /\ mode' = [mode EXCEPT ![p] = "up"]
  /\ recovery' = [recovery EXCEPT ![p] = outcome]
  /\ pending' = [pending EXCEPT ![p] = {}]
  /\ todo' = [todo EXCEPT ![p] = <<>>]
  /\ job' = [job EXCEPT ![p] = None]
  /\ UNCHANGED <<dbVars, bounds, read, seen, ghosts>>

CatchUpDone(p) ==
  /\ mode[p] = "catchup" /\ todo[p] = <<>> /\ pending[p] = {}
  /\ Up(p, "succeeded")

\* advance() fails, which ends the pass.
AdvanceFails(p) ==
  /\ May("swallow") /\ At(p, "advance")
  /\ Up(p, "failed")

(***************************************************************************)
(* Crashes, and EventService.archive_event: delete, then save.             *)
(***************************************************************************)
Crash(p) ==
  /\ May("crash") /\ crashes < MaxCrashes
  /\ mode[p] # "down"
  /\ crashes' = crashes + 1
  /\ mode' = [mode EXCEPT ![p] = "down"]
  /\ todo' = [todo EXCEPT ![p] = <<>>]
  /\ job' = [job EXCEPT ![p] = None]
  /\ read' = [read EXCEPT ![p] = None]
  /\ pending' = [pending EXCEPT ![p] = {}]
  /\ recovery' = [recovery EXCEPT ![p] = "never_run"]
  /\ seen' = [seen EXCEPT ![p] = {}]
  /\ UNCHANGED <<dbVars, env, repeats, ghosts>>

ArchiveDelete(e) ==
  /\ May("archive") /\ archiving = None /\ repeats < MaxRepeats
  /\ InLog(e)
  /\ seqOf' = [seqOf EXCEPT ![e] = 0]
  /\ archiving' = e
  /\ repeats' = repeats + 1
  /\ UNCHANGED <<env, crashes, ent, rel, ckpt, mode, todo, job, read, pending, recovery,
                 seen, ghosts>>

ArchiveSave ==
  /\ archiving # None
  /\ Commit(archiving)
  /\ archiving' = None
  /\ UNCHANGED <<bounds, ent, rel, ckpt, mode, todo, job, read, pending, recovery,
                 seen, projected>>

Step(p) ==
  \/ EntityGet(p) \/ EntitySave(p) \/ RelationSave(p) \/ Tombstone(p)
  \/ Cascade(p) \/ Sever(p) \/ ProcessDone(p)
  \/ Start(p) \/ CatchUpNext(p) \/ Advance(p) \/ CatchUpDone(p)

Next ==
  \/ \E p \in Procs : Step(p) \/ Swallowed(p) \/ AdvanceFails(p) \/ Crash(p)
  \/ \E p \in Procs, e \in Events : Process(p, e)
  \/ \E e \in Events : ArchiveDelete(e)
  \/ ArchiveSave

Spec == Init /\ [][Next]_vars

\* A process that is up goes on, and one that is down is started again.
FairSpec == Spec /\ \A p \in Procs : WF_vars(Step(p))

(***************************************************************************)
(* Properties.                                                             *)
(***************************************************************************)

\* "terminal states; no reactivation": a tombstoned entity is never read again,
\* an INACTIVE relation is never ACTIVE again, and no row disappears, through
\* replays, repeated events and other processes.
TerminalStates ==
  [][/\ \A x \in Entities : ent[x] # None => ent'[x] # None /\ (ent[x].deleted => ent'[x].deleted)
     /\ \A r \in Relations :
          /\ rel[r] = "INACTIVE" => rel'[r] = "INACTIVE"
          /\ rel[r] = "ACTIVE" => rel'[r] # "ABSENT"]_vars

Without(faults) == env.faults \cap faults = {}
Alone == \E p \in Procs : env.procs = {p}

\* "The checkpoint NEVER advances before successful entity projection"
\* (catch_up): nothing behind the checkpoint is unprojected, with any number of
\* processes, repeated events, archiving and crashes, but for the events whose
\* failure the bridge swallowed and those that got a seq behind it.
CheckpointCovers == \A e \in LogSet : seqOf[e] <= ckpt => e \in projected \cup missed

\* The same without exception: what the bridge swallows is passed over.
CheckpointNeverEarly == \A e \in LogSet : seqOf[e] <= ckpt => e \in projected

\* ProjectionRecoveryHealth._durable_state: reads are the ones that succeed; the
\* exception of another is dropped and leaves 0.
Reads == {"checkpoint", "latest"}
DurableState(reads) ==
  [checkpoint |-> IF "checkpoint" \in reads THEN ckpt ELSE 0,
   latest     |-> IF "latest" \in reads THEN MaxSeq ELSE 0]

\* Mutated form: the newest event does not count.
Backlog_OffByOne(reads) ==
  LET s == DurableState(reads)
  IN IF s.latest > s.checkpoint + 1 THEN s.latest - s.checkpoint - 1 ELSE 0

Backlog(reads) ==
  LET s == DurableState(reads)
  IN IF s.latest > s.checkpoint THEN s.latest - s.checkpoint ELSE 0

\* ProjectionRecoveryHealth.classify, of a runtime with a database.
Classify(p, reads) ==
  CASE recovery[p] = "failed" -> "degraded"
    [] recovery[p] # "failed" /\ Backlog(reads) = 0 -> "healthy"
    [] OTHER -> "recovering"

\* HEALTHY is never reported while an event waits for its projection: a checkpoint
\* that cannot be read makes the report worse, not better.
HealthyMeansProjected ==
  \A p \in Procs, reads \in SUBSET Reads :
    mode[p] = "up" /\ "latest" \in reads /\ Classify(p, reads) = "healthy" =>
      LogSet \subseteq projected \cup missed

\* "a read fails ... so the contract degrades" (_durable_state): neither is it
\* reported when the latest seq cannot be read.
FailedReadIsNotHealthy ==
  \A p \in Procs, reads \in SUBSET Reads :
    mode[p] = "up" /\ Classify(p, reads) = "healthy" => LogSet \subseteq projected \cup missed

\* The last event of the log that wrote attribute k of entity x.
LastWriter(x, k) ==
  LET W == {e \in LogSet : e.entity = x /\ e.key = k}
  IN IF W = {} THEN None ELSE CHOOSE e \in W : \A f \in W : seqOf[f] <= seqOf[e]

\* One process whose sources hand every event in once: between events, the
\* attributes of an entity that is alive are the fold of the log, across crashes
\* and catch-ups.
AttributesAreFold ==
  Alone /\ Without({"repeat", "swallow", "archive"}) =>
    \A p \in env.procs : mode[p] = "up" /\ job[p] = None =>
      \A x \in Entities : Live(ent[x]) =>
        \A k \in Keys : ent[x].attrs[k] = LastWriter(x, k)

Removed(x) == {e \in LogSet : e.kind = "remove" /\ e.entity = x}

\* "inactivates every canonical relation referencing that entity": an ACTIVE
\* relation of a removed entity was established after the removal.
CascadeIsComplete ==
  Alone /\ Without(Faults) =>
    \A p \in env.procs : mode[p] = "up" /\ job[p] = None =>
      \A r \in Relations, x \in Entities :
        rel[r] = "ACTIVE" /\ x \in {r[1], r[2]} /\ Removed(x) # {} =>
          \E e \in LogSet : e.kind # "sever" /\ e.target # None /\ Relation(e) = r
                            /\ \A f \in Removed(x) : seqOf[f] < seqOf[e]

\* The entity count that health reports, kept without reading the database,
\* counts only entities that have a row, and misses a live one only when a crash
\* left it to a catch-up, whose entities are not counted.
CountIsTrue ==
  Alone /\ Without({"swallow"}) =>
    \A p \in env.procs : mode[p] = "up" /\ job[p] = None =>
      /\ seen[p] \subseteq {x \in Entities : ent[x] # None}
      /\ Without({"crash"}) => {x \in Entities : Live(ent[x])} \subseteq seen[p]

\* Recovery: the checkpoint covers what is behind it, and HEALTHY is true.
RecoveryIsTrue == CheckpointCovers /\ HealthyMeansProjected

\* What is projected follows the log: attributes, relations of removed entities, the count.
EntitiesFollowLog == AttributesAreFold /\ CascadeIsComplete /\ CountIsTrue

\* While no event is archived, a committed event is projected in the end, also when
\* the process that committed it dies before it projects it; or its projection was
\* given up, or a catch-up has reported its failure.
CommittedIsProjected ==
  [](archiving = None) =>
    \A e \in Events :
      InLog(e) ~> (e \in projected \cup missed \/ \E p \in Procs : recovery[p] = "failed")
=============================================================================
