-------------------------- MODULE ObservationEngine ---------------------------
(***************************************************************************)
(* ObservationEngine.ingest: validate, store, mark as stored, forward, with *)
(* a lifecycle event after each step, by callers of several processes on   *)
(* one database.  The forwarder is a coroutine function, which ingest      *)
(* calls without awaiting it, or a plain one, which does its work, or      *)
(* leaves it to a task when an event loop runs already.                    *)
(***************************************************************************)
EXTENDS Integers, Sequences, Functions

CONSTANTS
  Callers, Ids,   \* Ids: immutable ids
  ForwarderKinds, \* kinds of forwarder
  MaxIngests      \* bound on calls of ingest

VARIABLES
  forwarder,  \* the kind of the forwarder
  obsRows,    \* observations: set of [id, status, deleted]
  call,       \* per caller: [pc, id, log, mine]; mine: this call committed the row
  tasks,      \* ids with a task that has not run yet
  linkedIds,  \* ids the forwarder has really worked on, a sequence
  ingests

vars == <<forwarder, obsRows, call, tasks, linkedIds, ingests>>

\* A forwarder answers at once, is awaited, or is left to a task.
KindsOK == ForwarderKinds \subseteq {"async", "sync", "task"}

\* ObservationEventType: what a call publishes as it goes.
Lifecycle == {"received", "validated", "rejected", "stored", "forwarded", "failed"}

NoCall == [pc |-> "idle", id |-> "", log |-> <<>>, mine |-> FALSE]

Init ==
  /\ forwarder \in ForwarderKinds /\ obsRows = {} /\ tasks = {} /\ linkedIds = <<>> /\ ingests = 0
  /\ call = [c \in Callers |-> NoCall]

TypeOK ==
  /\ \A r \in obsRows : r.id \in Ids /\ r.status \in {"validated", "stored", "forwarded"}
  /\ \A c \in Callers : call[c].pc \in {"idle", "check", "insert", "mark", "forward", "done"}
  /\ \A c \in Callers : Range(call[c].log) \subseteq Lifecycle

\* from_observation_create, validated.
NewRow(i) == [id |-> i, status |-> "validated", deleted |-> FALSE]
\* exists_by_immutable_id does not see deleted observations.
Exists(i) == \E r \in obsRows : r.id = i /\ ~r.deleted
Said(c, ev) == Append(call[c].log, ev)
Step(c, to, ev) == call' = [call EXCEPT ![c].pc = to, ![c].log = Said(c, ev)]
SetStatus(i, s) == obsRows' = {IF r.id = i THEN [r EXCEPT !.status = s] ELSE r : r \in obsRows}

Ingest(c, i) ==
  /\ call[c].pc = "idle" /\ ingests < MaxIngests /\ ingests' = ingests + 1
  /\ call' = [call EXCEPT ![c] = [pc |-> "check", id |-> i, log |-> <<"received">>, mine |-> FALSE]]
  /\ UNCHANGED <<forwarder, obsRows, tasks, linkedIds>>

\* ObservationValidator.validate: the schema, and the duplicate check.  Malformed data, or a check that fails, is rejected too.
Validate(c, ok) ==
  /\ call[c].pc = "check"
  /\ IF ok /\ ~Exists(call[c].id)
     THEN Step(c, "insert", "validated") ELSE Step(c, "done", "rejected")
  /\ UNCHANGED <<forwarder, obsRows, tasks, linkedIds, ingests>>

\* Mutated form: an observation that is there is written again.
Store_Replaces(c, fault) ==
  /\ call[c].pc = "insert"
  /\ IF fault THEN Step(c, "done", "failed") /\ UNCHANGED obsRows
     ELSE /\ obsRows' = {r \in obsRows : r.id # call[c].id}
                          \cup {NewRow(call[c].id)}
          /\ call' = [call EXCEPT ![c].pc = "mark", ![c].log = Said(c, "stored"), ![c].mine = TRUE]
  /\ UNCHANGED <<forwarder, tasks, linkedIds, ingests>>
\* Add, flush, commit; the unique immutable_id counts deleted observations as well.
Store(c, fault) ==
  /\ call[c].pc = "insert"
  /\ IF fault \/ \E r \in obsRows : r.id = call[c].id
     THEN Step(c, "done", "failed") /\ UNCHANGED obsRows
     ELSE /\ obsRows' = obsRows \cup {NewRow(call[c].id)}
          /\ call' = [call EXCEPT ![c].pc = "mark", ![c].log = Said(c, "stored"), ![c].mine = TRUE]
  /\ UNCHANGED <<forwarder, tasks, linkedIds, ingests>>

\* Mutated form: a status that does not exist.
Mark_Typo(c) ==
  /\ call[c].pc = "mark" /\ SetStatus(call[c].id, "store")
  /\ call' = [call EXCEPT ![c].pc = "forward"]
  /\ UNCHANGED <<forwarder, tasks, linkedIds, ingests>>
\* The status becomes stored.
Mark(c) ==
  /\ call[c].pc = "mark" /\ SetStatus(call[c].id, "stored")
  /\ call' = [call EXCEPT ![c].pc = "forward"]
  /\ UNCHANGED <<forwarder, tasks, linkedIds, ingests>>

\* create_entity_forwarder's coroutine is true, whatever would come of it; so is the answer of
\* create_sync_entity_forwarder's function when it has made a task.
Unawaited == forwarder = "async"
Answered(answer) == forwarder = "task" \/ (forwarder = "sync" /\ answer = "true")

Forward(c, answer) ==
  /\ call[c].pc = "forward"
  /\ tasks' = IF forwarder = "task" THEN tasks \cup {call[c].id} ELSE tasks
  /\ linkedIds' = IF forwarder = "sync" /\ answer = "true" THEN Append(linkedIds, call[c].id) ELSE linkedIds
  /\ \/ (Unawaited \/ Answered(answer)) /\ Step(c, "done", "forwarded") /\ SetStatus(call[c].id, "forwarded")
     \/ forwarder = "sync" /\ answer = "false" /\ call' = [call EXCEPT ![c].pc = "done"] /\ UNCHANGED obsRows
     \/ forwarder = "sync" /\ answer = "raises" /\ Step(c, "done", "failed") /\ UNCHANGED obsRows
  /\ UNCHANGED <<forwarder, ingests>>

\* A task runs when the loop comes to it; what it raises nobody sees.
TaskRuns(i, ok) ==
  /\ i \in tasks /\ tasks' = tasks \ {i} /\ linkedIds' = IF ok THEN Append(linkedIds, i) ELSE linkedIds
  /\ UNCHANGED <<forwarder, obsRows, call, ingests>>

Return(c) ==
  /\ call[c].pc = "done" /\ call' = [call EXCEPT ![c] = NoCall]
  /\ UNCHANGED <<forwarder, obsRows, tasks, linkedIds, ingests>>

\* The process ends, or a commit raises where nothing catches it.
Abort(c) ==
  /\ call[c].pc \notin {"idle", "done"} /\ call' = [call EXCEPT ![c] = NoCall]
  /\ UNCHANGED <<forwarder, obsRows, tasks, linkedIds, ingests>>

\* BaseRepository.delete: soft.
Delete(i) ==
  /\ \E r \in obsRows : r.id = i /\ ~r.deleted
  /\ obsRows' = {IF r.id = i THEN [r EXCEPT !.deleted = TRUE] ELSE r : r \in obsRows}
  /\ UNCHANGED <<forwarder, call, tasks, linkedIds, ingests>>

Next ==
  \/ \E c \in Callers : \/ \E i \in Ids : Ingest(c, i)
                        \/ \E b \in BOOLEAN : Validate(c, b) \/ Store(c, b)
                        \/ \E a \in {"true", "false", "raises"} : Forward(c, a)
                        \/ Mark(c) \/ Return(c) \/ Abort(c)
  \/ \E i \in Ids : Delete(i) \/ \E b \in BOOLEAN : TaskRuns(i, b)

Spec == Init /\ [][Next]_vars

(***************************************************************************)
(* Properties.                                                             *)
(***************************************************************************)

\* A call says "stored" if and only if it committed the observation, and an observation is
\* committed and forwarded by one call only, whichever processes race.
StoredByOne ==
  /\ \A c \in Callers : call[c].mine = (\E k \in DOMAIN call[c].log : call[c].log[k] = "stored")
  /\ \A c, d \in Callers : call[c].mine /\ call[d].mine /\ c # d => call[c].id # call[d].id
  /\ \A r, q \in obsRows : r.id = q.id => r = q
  /\ \A j, k \in DOMAIN linkedIds : linkedIds[j] = linkedIds[k] => j = k

\* The status of an observation never goes back.
Rank == [validated |-> 1, stored |-> 2, forwarded |-> 3]
StatusAdvances ==
  [][\A r \in obsRows : \E q \in obsRows' : q.id = r.id /\ Rank[r.status] <= Rank[q.status]]_vars

\* With a forwarder that does its work, "forwarded" says that it is done; with one that makes a
\* task, work is only done for what was forwarded.
ForwardedIsLinked ==
  /\ forwarder = "task" => \A i \in Range(linkedIds) \cup tasks : \E r \in obsRows : r.id = i /\ r.status = "forwarded"
  /\ forwarder = "sync" => \A r \in obsRows : r.status = "forwarded" => r.id \in Range(linkedIds)
=============================================================================
