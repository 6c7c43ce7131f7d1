---------------------------- MODULE CorePipeline -----------------------------
(***************************************************************************)
(* One EventEngine.publish after the other through the engine's Pipeline,  *)
(* stage by stage, while another thread enables, removes, adds and         *)
(* reorders stages.  Pipeline has no lock: execute() iterates over the     *)
(* very list that add() and remove() change, by index; reorder() makes a   *)
(* new list, so that a running execute() keeps the old one.  The payload   *)
(* is reduced to whether it is valid and whether it brings an id.          *)
(***************************************************************************)
EXTENDS Integers, Sequences, Functions

CONSTANTS
  Present,    \* the stages the pipeline is built with, in order
  MaxRuns,    \* bound on publish calls
  MaxChanges  \* bound on changes of the pipeline

VARIABLES
  stages,   \* Pipeline._stages
  enabled,  \* names of the enabled stages
  rank,     \* BaseStage._order, rewritten by reorder()
  idx,      \* position of the running execute(), 0 when there is none
  walked,   \* the list it iterates over, <<>> while that is still `stages`
  input,    \* [valid, id]: the event handed in; id is "given" or "none"
  ctx,      \* PipelineContext: [id, dataId, errors, meta]
  results,  \* stage results: [stage, ok, fatal, skipped]
  row,      \* the event row: "none" or the id it was written with
  runs, changes,
  disturbed \* ghost: the list was changed under the running execute()

vars == <<stages, enabled, rank, idx, walked, input, ctx, results, row, runs, changes, disturbed>>

Known == {"validation", "enrichment", "persistence", "history", "broadcast", "ai", "plugins", "custom"}

\* Constructors of the stages, and the order in which _build_pipeline adds them.
DefaultRank ==
  [validation |-> 10, enrichment |-> 20, custom |-> 30, persistence |-> 50, history |-> 80,
   broadcast |-> 85, ai |-> 92, plugins |-> 95]
Required == {"validation", "persistence", "custom"}
\* A pipeline is built in the order of its stages' ranks, without a stage twice.
PresentOK ==
  /\ Present \in Seq(Known) /\ IsInjective(Present)
  /\ \A i, j \in DOMAIN Present : i < j => DefaultRank[Present[i]] <= DefaultRank[Present[j]]
NoContext == [id |-> "none", dataId |-> "none", errors |-> {}, meta |-> {}]

Init ==
  /\ stages = Present /\ enabled = Known /\ rank = DefaultRank
  /\ idx = 0 /\ walked = <<>> /\ input = [valid |-> TRUE, id |-> "given"]
  /\ ctx = NoContext /\ results = <<>> /\ row = "none"
  /\ runs = 0 /\ changes = 0 /\ disturbed = FALSE

TypeOK ==
  /\ Range(stages) \subseteq Known /\ enabled \subseteq Known
  /\ rank \in [Known -> Int] /\ idx \in Nat
  /\ ctx.errors \subseteq Known /\ row \in {"none", "given", "enriched", "fresh"}
  /\ \A i \in DOMAIN results : results[i].stage \in Known

Iterated == IF walked = <<>> THEN stages ELSE walked
Outcome(c, ok, fatal, r) == [ctx |-> c, ok |-> ok, fatal |-> fatal, row |-> r]
Fine(c) == Outcome(c, TRUE, FALSE, row)
Noted(s) == Fine([ctx EXCEPT !.errors = @ \cup {s}])   \* stage_errors, and success

\* ValidationStage._execute: what is missing or out of range is only noted.
Validation == IF input.valid THEN {Fine(ctx)} ELSE {Noted("validation")}

\* EnrichmentStage._execute: an event without an id gets one.
Enrichment == {Fine([ctx EXCEPT !.dataId = IF @ = "none" THEN "enriched" ELSE @])}

\* The id create() stores: without one in the data, the database makes it.
StoredId == IF ctx.dataId = "none" THEN "fresh" ELSE ctx.dataId

\* PersistenceStage._execute with _invoke_entity_bridge, whose failure is swallowed:
\* create and commit, or roll back.  Mutated form: a failing bridge counts as a failing save.
Persistence_BridgeRaises ==
  LET c == [ctx EXCEPT !.meta = @ \cup {"saved"}]
  IN {Outcome(c, TRUE, FALSE, StoredId),
      Outcome([c EXCEPT !.errors = @ \cup {"persistence"}], TRUE, FALSE, StoredId),
      Noted("persistence")}
Persistence ==
  {Outcome([ctx EXCEPT !.meta = @ \cup {"saved"}], TRUE, FALSE, StoredId), Noted("persistence")}

\* HistoryStage._execute; EventHistory.add does not fail.
History == {Fine([ctx EXCEPT !.meta = @ \cup {"history"}])}
\* BroadcastStage._execute.
Broadcast == {Fine([ctx EXCEPT !.meta = @ \cup {"broadcast"}]), Noted("broadcast")}
\* AIStage.can_execute and _execute: metadata of the event may switch it off.
AI == {Fine(ctx), Fine([ctx EXCEPT !.meta = @ \cup {"ai"}]), Noted("ai")}
\* PluginStage._execute reads a copy of the registry.
Plugins == {Fine([ctx EXCEPT !.meta = @ \cup {"plugins"}])}
\* Another required stage, which raises (BaseStage.execute catches) or returns no mapping
\* (with_event_data raises, Pipeline.execute catches): a fatal error either way.
Custom == {Fine(ctx), Outcome(ctx, FALSE, TRUE, row)}

Outcomes(s) ==
  CASE s = "validation" -> Validation [] s = "enrichment" -> Enrichment
    [] s = "persistence" -> Persistence [] s = "history" -> History
    [] s = "broadcast" -> Broadcast [] s = "ai" -> AI
    [] s = "plugins" -> Plugins [] s = "custom" -> Custom

\* Pipeline.execute, before the loop: an id that is no UUID string is replaced.
Publish(v, i) ==
  /\ idx = 0 /\ runs < MaxRuns
  /\ runs' = runs + 1
  /\ idx' = 1 /\ walked' = <<>> /\ results' = <<>> /\ row' = "none" /\ disturbed' = FALSE
  /\ input' = [valid |-> v, id |-> i]
  /\ ctx' = [NoContext EXCEPT !.id = IF i = "given" THEN "given" ELSE "made", !.dataId = i]
  /\ UNCHANGED <<stages, enabled, rank, changes>>

\* One turn of the loop.  A fatal result puts "cancelled" into the metadata, where
\* can_execute does not look: the stages that follow run.
StageRuns ==
  /\ idx > 0 /\ idx <= Len(Iterated)
  /\ LET s == Iterated[idx] IN
     /\ s \in enabled
     /\ \E o \in Outcomes(s) :
          /\ ctx' = (IF o.fatal THEN [o.ctx EXCEPT !.meta = @ \cup {"cancelled"}] ELSE o.ctx)
          /\ row' = o.row
          /\ results' = Append(results, [stage |-> s, ok |-> o.ok, fatal |-> o.fatal])
  /\ idx' = idx + 1
  /\ UNCHANGED <<stages, enabled, rank, walked, input, runs, changes, disturbed>>

StageDisabled ==
  /\ idx > 0 /\ idx <= Len(Iterated) /\ Iterated[idx] \notin enabled
  /\ idx' = idx + 1
  /\ UNCHANGED <<stages, enabled, rank, walked, input, ctx, results, row, runs, changes, disturbed>>

\* The list is exhausted; results, ctx and row are kept for the properties.
Return ==
  /\ idx > Len(Iterated)
  /\ idx' = 0
  /\ UNCHANGED <<stages, enabled, rank, walked, input, ctx, results, row, runs, changes, disturbed>>

Changing == changes < MaxChanges /\ changes' = changes + 1
           /\ UNCHANGED <<idx, input, ctx, results, row, runs>>

\* enable and disable.
Toggle(s) ==
  /\ Changing /\ s \in Range(stages)
  /\ enabled' = IF s \in enabled THEN enabled \ {s} ELSE enabled \cup {s}
  /\ disturbed' = (disturbed \/ idx > 0)
  /\ UNCHANGED <<stages, rank, walked>>

\* add: insert at a position, then sort by order.  The sort is stable and the others are in order
\* (RanksAscend), so it moves the new stage to its rank, and among equals leaves it where it is.
AddStage(s, at) ==
  /\ Changing /\ s \notin Range(stages)
  /\ \E p \in 1 .. Len(stages) + 1 :
       /\ \A i \in DOMAIN stages : i < p <=> rank[stages[i]] < rank[s] \/ (rank[stages[i]] = rank[s] /\ i < at)
       /\ stages' = [i \in 1 .. Len(stages) + 1 |->
                       IF i < p THEN stages[i] ELSE IF i = p THEN s ELSE stages[i - 1]]
  /\ disturbed' = (disturbed \/ (idx > 0 /\ walked = <<>>))
  /\ UNCHANGED <<enabled, rank, walked>>

\* A stage is in the list once.
Position(s) == CHOOSE i \in DOMAIN stages : stages[i] = s
RemoveStage(s) ==
  /\ Changing /\ s \in Range(stages)
  /\ stages' = [i \in 1 .. Len(stages) - 1 |-> IF i < Position(s) THEN stages[i] ELSE stages[i + 1]]
  /\ disturbed' = (disturbed \/ (idx > 0 /\ walked = <<>>))
  /\ UNCHANGED <<enabled, rank, walked>>

\* reorder: the named stage first, the others after it, in a new list; a running
\* execute() goes on with the old one.
Reorder(s) ==
  /\ Changing /\ s \in Range(stages)
  /\ stages' = [i \in DOMAIN stages |-> IF i = 1 THEN s ELSE IF i <= Position(s) THEN stages[i - 1] ELSE stages[i]]
  /\ rank' = [t \in Known |-> IF t \in Range(stages)
                              THEN CHOOSE i \in 0 .. Len(stages) - 1 : stages'[i + 1] = t ELSE rank[t]]
  /\ walked' = IF idx > 0 /\ walked = <<>> THEN stages ELSE walked
  /\ UNCHANGED <<enabled, disturbed>>

Next ==
  \/ \E v \in BOOLEAN, i \in {"given", "none"} : Publish(v, i)
  \/ StageRuns \/ StageDisabled \/ Return
  \/ \E s \in Known : Toggle(s) \/ RemoveStage(s) \/ Reorder(s)
  \/ \E s \in Known, at \in {1, Len(stages) + 1} : AddStage(s, at)

Spec == Init /\ [][Next]_vars

(***************************************************************************)
(* Properties.                                                             *)
(***************************************************************************)
Finished == idx > Len(Iterated)
Ran == [i \in DOMAIN results |-> results[i].stage]

\* The pipeline runs every enabled stage exactly once, in list order, unless the list
\* or a flag was changed under it: no failure of a stage keeps a later one from running.
EveryStageOnce ==
  Finished /\ ~disturbed =>
    /\ Range(Ran) = Range(Iterated) \cap enabled /\ IsInjective(Iterated) /\ IsInjective(Ran)
    /\ \A j, k \in DOMAIN Ran : j < k =>
         \E a, b \in DOMAIN Iterated : a < b /\ Iterated[a] = Ran[j] /\ Iterated[b] = Ran[k]

\* What the context says of the save is what became of the row: "database_saved" if and
\* only if it was written, and a persistence error means that it was not.  (A stage that
\* is added under the run may be run twice, and save again.)
SaveIsReported ==
  ~disturbed => /\ ("saved" \in ctx.meta) = (row # "none")
                /\ "persistence" \in ctx.errors => row = "none"

\* An event that brings its id is stored under the id the result reports.
ReportedIdIsStored == row # "none" /\ input.id = "given" => row = ctx.id

\* Stages are in the order of their ranks whatever was added, removed and reordered, so a
\* later add() does not undo a reorder().
RanksAscend ==
  \A i \in 1 .. Len(stages) - 1 : rank[stages[i]] <= rank[stages[i + 1]]
=============================================================================
