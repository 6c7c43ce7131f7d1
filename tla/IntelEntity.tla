----------------------------- MODULE IntelEntity ------------------------------
(***************************************************************************)
(* Entities of the intelligence layer: the manager that resolves an        *)
(* external identity before it creates an entity, the bridge by which      *)
(* observations reach it, and the two repositories behind the manager: the *)
(* entity_store table, and the dictionaries of InMemoryEntityRepository.   *)
(* On the table every session commits statement by statement, so that two  *)
(* sessions on one database interleave between the look-up and the insert, *)
(* and within delete(); in memory a call is one step of the event loop.    *)
(* Times, tags and the other data of an entity are left out.               *)
(***************************************************************************)
EXTENDS Integers, Sequences, Functions

CONSTANTS
  Sessions,    \* sessions on one database
  Identities,  \* pairs of a source and an external id
  MaxEntities, \* bound on created entities
  MaxWrites    \* bound on changes of existing entities

VARIABLES
  repository, \* "table" or "memory"
  resolved,   \* _identities of the repository in memory, 0 for no entity
  store,      \* entities, in rowid or dictionary order: [id, ext, status, deleted]
  made,       \* number of entities created so far
  task,       \* per session: the call under way, [op |-> "none"] between calls
  linked,     \* what was resolved, by the bridge or another caller: set of [ext, id]
  writes,
  raced,      \* ghost: two sessions created an entity for one identity at a time
  revived     \* ghost: a row was written again after its deletion began

vars == <<repository, resolved, store, made, task, linked, writes, raced, revived>>
memoryVars == <<repository, resolved>>

Statuses == {"unknown", "inactive", "archived", "merged", "superseded"}
Done == [op |-> "none"]

Init ==
  /\ repository \in {"table", "memory"} /\ resolved = [e \in Identities |-> 0]
  /\ store = <<>> /\ made = 0 /\ task = [s \in Sessions |-> Done] /\ linked = {}
  /\ writes = 0 /\ raced = FALSE /\ revived = FALSE

TypeOK ==
  /\ \A r \in Range(store) : r.id \in 1 .. made /\ r.ext \in Identities /\ r.status \in Statuses
  /\ resolved \in [Identities -> 0 .. made] /\ repository \in {"table", "memory"}
  /\ \A s \in Sessions : task[s].op \in {"none", "create", "save", "mark"}

RowOf(id) == CHOOSE r \in Range(store) : r.id = id
Visible == {r \in Range(store) : ~r.deleted}
VisibleIds == {r.id : r \in Visible}

\* Entity.create: an entity begins as unknown, with the identity the manager adds to it.
NewEntity(e) == [id |-> made + 1, ext |-> e, status |-> "unknown", deleted |-> FALSE]

\* save: INSERT OR REPLACE makes a new row, at the end of the table and not deleted.
Saved(row) ==
  LET at == CHOOSE k \in DOMAIN store : store[k].id = row.id IN
  [k \in DOMAIN store |-> IF k = Len(store) THEN [row EXCEPT !.deleted = FALSE]
                         ELSE IF k < at THEN store[k] ELSE store[k + 1]]

\* resolve_by_identity reads row by row: where the visible rows are that have the identity.
Found(e) == {k \in DOMAIN store : ~store[k].deleted /\ store[k].ext = e}

\* ObservationEntityBridge.forward, resolve_or_create: an identity that is found is linked,
\* to the first entity that has it, ...
ResolveOrCreate(s, e) ==
  /\ repository = "table" /\ task[s] = Done /\ made < MaxEntities
  /\ IF Found(e) # {}
     THEN /\ \E k \in Found(e) : (\A j \in Found(e) : k <= j) /\ linked' = linked \cup {[ext |-> e, id |-> store[k].id]}
          /\ UNCHANGED <<task, raced>>
     ELSE /\ task' = [task EXCEPT ![s] = [op |-> "create", ext |-> e]]
          /\ raced' = (raced \/ \E o \in Sessions : task[o] = [op |-> "create", ext |-> e])
          /\ UNCHANGED linked
  /\ UNCHANGED <<memoryVars, store, made, writes, revived>>

\* ... any other gets a new entity.
CreateEntity(s) ==
  /\ task[s].op = "create" /\ made < MaxEntities
  /\ made' = made + 1
  /\ store' = Append(store, NewEntity(task[s].ext))
  /\ linked' = linked \cup {[ext |-> task[s].ext, id |-> made + 1]}
  /\ task' = [task EXCEPT ![s] = Done]
  /\ UNCHANGED <<memoryVars, writes, raced, revived>>

\* The bridge swallows what its session raises: the observation stays unlinked.
CreateFails(s) ==
  /\ task[s].op = "create" /\ task' = [task EXCEPT ![s] = Done]
  /\ UNCHANGED <<memoryVars, store, made, linked, writes, raced, revived>>

\* mark_inactive, archive, merge (of the source), supersede, delete and update read the
\* entity, if it is visible, ...
ReadForChange(s, id, st, del) ==
  /\ repository = "table" /\ task[s] = Done /\ id \in VisibleIds /\ writes < MaxWrites
  /\ writes' = writes + 1
  /\ task' = [task EXCEPT ![s] = [op |-> "save", row |-> [RowOf(id) EXCEPT !.status = st], del |-> del]]
  /\ UNCHANGED <<memoryVars, store, made, linked, raced, revived>>

\* ... and write it as they read it; ...
SaveChange(s) ==
  /\ task[s].op = "save"
  /\ store' = Saved(task[s].row)
  /\ task' = [task EXCEPT ![s] = IF task[s].del THEN [op |-> "mark", id |-> task[s].row.id] ELSE Done]
  /\ revived' = (revived \/ RowOf(task[s].row.id).deleted
                         \/ \E o \in Sessions : task[o].op = "mark" /\ task[o].id = task[s].row.id)
  /\ UNCHANGED <<memoryVars, made, linked, writes, raced>>

\* ... delete then marks the row.
MarkDeleted(s) ==
  /\ task[s].op = "mark"
  /\ store' = [i \in DOMAIN store |-> IF store[i].id = task[s].id
                                      THEN [store[i] EXCEPT !.deleted = TRUE] ELSE store[i]]
  /\ task' = [task EXCEPT ![s] = Done]
  /\ UNCHANGED <<memoryVars, made, linked, writes, raced, revived>>

\* In memory: an entity keeps its place among the others when it is saved again, a deleted one
\* is only inactive, and an identity once saved stays with the entity saved last.
SavedInMemory(row) ==
  /\ store' = (IF row.id \in VisibleIds THEN [i \in DOMAIN store |-> IF store[i].id = row.id THEN row ELSE store[i]]
                                       ELSE Append(store, row))
  /\ resolved' = [resolved EXCEPT ![row.ext] = row.id]

ResolveInMemory(e) ==
  /\ repository = "memory" /\ made < MaxEntities
  /\ IF resolved[e] # 0
     THEN linked' = linked \cup {[ext |-> e, id |-> resolved[e]]} /\ UNCHANGED <<store, resolved, made>>
     ELSE /\ SavedInMemory(NewEntity(e)) /\ made' = made + 1
          /\ linked' = linked \cup {[ext |-> e, id |-> made + 1]}
  /\ UNCHANGED <<repository, task, writes, raced, revived>>

\* delete and mark_inactive, archive, merge (of the source) and supersede.
ChangeInMemory(id, st) ==
  /\ repository = "memory" /\ id \in VisibleIds /\ writes < MaxWrites /\ writes' = writes + 1
  /\ SavedInMemory([RowOf(id) EXCEPT !.status = st])
  /\ UNCHANGED <<repository, made, task, linked, raced, revived>>

Next ==
  \E s \in Sessions :
    \/ \E e \in Identities : ResolveOrCreate(s, e)
    \/ \E id \in VisibleIds : \/ ReadForChange(s, id, "inactive", TRUE)
                              \/ \E st \in Statuses : ReadForChange(s, id, st, FALSE)
    \/ CreateEntity(s) \/ CreateFails(s) \/ SaveChange(s) \/ MarkDeleted(s)
    \/ \E e \in Identities : ResolveInMemory(e)
    \/ \E id \in VisibleIds, st \in Statuses \ {"unknown"} : ChangeInMemory(id, st)

Spec == Init /\ [][Next]_vars

(***************************************************************************)
(* Properties.                                                             *)
(***************************************************************************)

\* Identity first: no two visible entities have one identity, unless two sessions created
\* them at a time or a stale copy of a deleted one was written back.  In memory it is never so,
\* since a deleted entity keeps its identity.
OneEntityPerIdentity ==
  ~raced /\ ~revived =>
    \A r, q \in Visible : r.ext = q.ext => r.id = q.id

\* Delete is soft: no entity leaves the table, it has one row, and what is deleted is
\* inactive unless another session wrote between the two steps of the deletion.
DeletedIsKept ==
  /\ {r.id : r \in Range(store)} = 1 .. made /\ Len(store) = made
  /\ ~revived => \A r \in Range(store) : r.deleted => r.status = "inactive"

\* In memory the identities are found as a scan of the entities would find them.
MemoryAgrees ==
  repository = "memory" =>
    \A e \in Identities : {r.id : r \in {q \in Range(store) : q.ext = e}} = {resolved[e]} \ {0}

\* An observation is linked to an entity that has its identity, whatever becomes of it.
LinksMatch == \A l \in linked : \E r \in Range(store) : r.id = l.id /\ r.ext = l.ext
=============================================================================
