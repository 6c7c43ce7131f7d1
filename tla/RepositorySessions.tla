--------------------------- MODULE RepositorySessions ---------------------------
(***************************************************************************)
(* BaseRepository in the sessions of DatabaseSessionManager: one table,    *)
(* several sessions at a time, each with the entities it has loaded, which *)
(* it does not read again.  SQLite lets one session write at a time; the   *)
(* others see the committed rows until it commits.  An update writes what  *)
(* it changed, the version counted from the entity as it was loaded.       *)
(***************************************************************************)
EXTENDS Integers, FiniteSets

CONSTANTS
  Sessions, Ids,
  MaxWrites  \* bound on values written; a value is the number of its write

VARIABLES
  committed,  \* per id: the committed row, or NoRow
  working,    \* the rows as the writing session sees them
  writer,     \* the session that holds the write lock, or "none"
  phase,      \* per session: "closed", "open", "update" or "delete" (between read and flush),
              \* "counted" (within paginate), "broken"
  target,     \* per session: the id its update or deletion is about
  loaded,     \* per session and id: the entity in its identity map, or NoRow
  toDelete,   \* per session: ids of entities it will delete when it commits
  page,       \* per session: [total, moved] of its paginate; moved: rows changed meanwhile
  written,    \* number of values written so far
  pending,    \* ghost: those written since the writer took the lock
  aborted,    \* ghost: values that were rolled back
  counted,    \* ghost: per id: updates in the committed row, and in the working one
  stale       \* ghost: ids an update was flushed for whose entity was out of date

vars == <<committed, working, writer, phase, target, loaded, toDelete, page, written, pending, aborted,
          counted, stale>>

\* "none" is no session; a table has ids.
SessionsOK == "none" \notin Sessions /\ Ids # {}

NoPage == [total |-> 0, moved |-> FALSE]
NoRow == [value |-> 0, version |-> 0, deleted |-> FALSE]
Exists(row) == row.version > 0

Init ==
  /\ committed = [i \in Ids |-> NoRow] /\ working = committed /\ writer = "none"
  /\ phase = [s \in Sessions |-> "closed"] /\ target = [s \in Sessions |-> CHOOSE i \in Ids : TRUE]
  /\ loaded = [s \in Sessions |-> [i \in Ids |-> NoRow]] /\ toDelete = [s \in Sessions |-> {}]
  /\ page = [s \in Sessions |-> NoPage]
  /\ written = 0 /\ pending = {} /\ aborted = {} /\ stale = {}
  /\ counted = [committed |-> [i \in Ids |-> 0], working |-> [i \in Ids |-> 0]]

Rows == [value : Nat, version : Nat, deleted : BOOLEAN]
TypeOK ==
  /\ committed \in [Ids -> Rows] /\ working \in [Ids -> Rows] /\ writer \in Sessions \cup {"none"}
  /\ phase \in [Sessions -> {"closed", "open", "update", "delete", "counted", "broken"}]
  /\ loaded \in [Sessions -> [Ids -> Rows]] /\ (writer = "none" => working = committed)

Seen(s, i) == IF writer = s THEN working[i] ELSE committed[i]
CanWrite(s) == writer \in {"none", s}
Value == written + 1

\* A session opens with nothing loaded.
Open(s) ==
  /\ phase[s] = "closed" /\ phase' = [phase EXCEPT ![s] = "open"]
  /\ loaded' = [loaded EXCEPT ![s] = [i \in Ids |-> NoRow]] /\ toDelete' = [toDelete EXCEPT ![s] = {}]
  /\ UNCHANGED <<committed, working, writer, target, written, pending, aborted, counted, stale, page>>

\* A flush that fails rolls the transaction back; the session can only be rolled back.
Broken(s) ==
  /\ phase' = [phase EXCEPT ![s] = "broken"]
  /\ working' = (IF writer = s THEN committed ELSE working) /\ writer' = (IF writer = s THEN "none" ELSE writer)
  /\ counted' = (IF writer = s THEN [counted EXCEPT !.working = counted.committed] ELSE counted)
  /\ aborted' = (IF writer = s THEN aborted \cup pending ELSE aborted) /\ pending' = (IF writer = s THEN {} ELSE pending)
  /\ UNCHANGED <<committed, target, loaded, toDelete, written, stale, page>>

\* create: a row with the id, deleted or not, makes it fail, and so does another writer.
Create(s, i) ==
  /\ phase[s] = "open" /\ toDelete[s] = {} /\ Value <= MaxWrites
  /\ IF CanWrite(s) /\ ~Exists(Seen(s, i))
     THEN LET row == [value |-> Value, version |-> 1, deleted |-> FALSE] IN
          /\ writer' = s /\ working' = [working EXCEPT ![i] = row] /\ loaded' = [loaded EXCEPT ![s][i] = row]
          /\ written' = Value /\ pending' = pending \cup {Value} /\ counted' = [counted EXCEPT !.working[i] = 0]
          /\ UNCHANGED <<committed, phase, target, toDelete, aborted, stale, page>>
     ELSE Broken(s)

\* get: a row that is there and not deleted; an entity loaded before stays as it was.
Loads(s, i) == Exists(Seen(s, i)) /\ ~Seen(s, i).deleted
Kept(s, i) == IF Exists(loaded[s][i]) THEN loaded[s][i] ELSE Seen(s, i)
Get(s, i) ==
  /\ phase[s] = "open" /\ toDelete[s] = {} /\ Loads(s, i) /\ loaded' = [loaded EXCEPT ![s][i] = Kept(s, i)]
  /\ UNCHANGED <<committed, working, writer, phase, target, toDelete, written, pending, aborted, counted, stale, page>>

\* update and delete first get the entity.
Begin(s, i, what) ==
  /\ phase[s] = "open" /\ toDelete[s] = {} /\ Loads(s, i) /\ loaded' = [loaded EXCEPT ![s][i] = Kept(s, i)]
  /\ phase' = [phase EXCEPT ![s] = what] /\ target' = [target EXCEPT ![s] = i]
  /\ UNCHANGED <<committed, working, writer, toDelete, written, pending, aborted, counted, stale, page>>

\* A write counts the version; an update counts it from the entity and writes nothing else to the row.
Advanced(row) == [value |-> Value, version |-> row.version + 1, deleted |-> row.deleted]
Updated(s, i) == [Advanced(loaded[s][i]) EXCEPT !.deleted = working[i].deleted]

\* update flushes; a row that is gone, or another writer, makes it fail.
FlushUpdate(s) ==
  LET i == target[s] IN
  /\ phase[s] = "update" /\ Value <= MaxWrites
  /\ IF CanWrite(s) /\ Exists(Seen(s, i))
     THEN /\ phase' = [phase EXCEPT ![s] = "open"] /\ writer' = s
          /\ working' = [working EXCEPT ![i] = Updated(s, i)]
          /\ loaded' = [loaded EXCEPT ![s][i] = Advanced(loaded[s][i])]
          /\ written' = Value /\ pending' = pending \cup {Value} /\ counted' = [counted EXCEPT !.working[i] = @ + 1]
          /\ stale' = (IF loaded[s][i].version # working[i].version THEN stale \cup {i} ELSE stale)
          /\ UNCHANGED <<committed, target, toDelete, aborted, page>>
     ELSE Broken(s)

\* delete, softly.
FlushDelete(s) ==
  LET i == target[s] IN
  /\ phase[s] = "delete"
  /\ IF CanWrite(s) /\ Exists(Seen(s, i))
     THEN /\ phase' = [phase EXCEPT ![s] = "open"] /\ writer' = s
          /\ working' = [working EXCEPT ![i].deleted = TRUE] /\ loaded' = [loaded EXCEPT ![s][i].deleted = TRUE]
          /\ UNCHANGED <<committed, target, toDelete, written, pending, aborted, counted, stale, page>>
     ELSE Broken(s)

\* delete(hard=True) is flushed when the session commits; a session that has deleted so does
\* nothing else here.
HardDelete(s, i) ==
  /\ phase[s] = "open" /\ Loads(s, i) /\ i \notin toDelete[s] /\ toDelete' = [toDelete EXCEPT ![s] = @ \cup {i}]
  /\ loaded' = [loaded EXCEPT ![s][i] = Kept(s, i)]
  /\ UNCHANGED <<committed, working, writer, phase, target, written, pending, aborted, counted, stale, page>>

BulkRow(i) == Advanced(working[i])
\* bulk_update counts the version in the database, and on in the entities that are loaded.
BulkUpdate(s, ids) ==
  LET hit == {i \in ids : Loads(s, i)} IN
  /\ phase[s] = "open" /\ toDelete[s] = {} /\ Value <= MaxWrites
  /\ IF CanWrite(s)
     THEN /\ writer' = s /\ working' = [i \in Ids |-> IF i \in hit THEN BulkRow(i) ELSE working[i]]
          /\ loaded' = [loaded EXCEPT ![s] = [i \in Ids |->
               IF i \in ids /\ Exists(loaded[s][i]) /\ ~loaded[s][i].deleted THEN Advanced(loaded[s][i]) ELSE loaded[s][i]]]
          /\ written' = Value /\ pending' = pending \cup {Value}
          /\ counted' = [counted EXCEPT !.working = [i \in Ids |-> counted.working[i] + (IF i \in hit THEN 1 ELSE 0)]]
          /\ UNCHANGED <<committed, phase, target, toDelete, aborted, stale, page>>
     ELSE Broken(s)

\* A query of the rows: all that are there and not deleted, as far as its filters go.
Matching(s) == {i \in Ids : Loads(s, i)}

\* paginate counts the rows with one query, as a session's first call here, ...
CountRows(s) ==
  /\ phase[s] = "open" /\ toDelete[s] = {} /\ writer # s /\ \A i \in Ids : ~Exists(loaded[s][i])
  /\ phase' = [phase EXCEPT ![s] = "counted"] /\ page' = [page EXCEPT ![s].total = Cardinality(Matching(s))]
  /\ UNCHANGED <<committed, working, writer, target, loaded, toDelete, written, pending, aborted, counted, stale>>
\* ... and lists them, on one page, with another.
ListRows(s) ==
  /\ phase[s] = "counted" /\ phase' = [phase EXCEPT ![s] = "open"] /\ page' = [page EXCEPT ![s] = NoPage]
  /\ loaded' = [loaded EXCEPT ![s] = [i \in Ids |-> IF i \in Matching(s) THEN Kept(s, i) ELSE @[i]]]
  /\ UNCHANGED <<committed, working, writer, target, toDelete, written, pending, aborted, counted, stale>>

\* refresh and expire: the entity is read again.
Refresh(s, i) ==
  /\ phase[s] = "open" /\ toDelete[s] = {} /\ Exists(loaded[s][i]) /\ Exists(Seen(s, i))
  /\ loaded' = [loaded EXCEPT ![s][i] = Seen(s, i)]
  /\ UNCHANGED <<committed, working, writer, phase, target, toDelete, written, pending, aborted, counted, stale, page>>

\* The end of session(): commit, with the deletions, ...
Commit(s) ==
  LET gone(i) == i \in toDelete[s]
      rows == [i \in Ids |-> IF gone(i) THEN NoRow ELSE Seen(s, i)] IN
  /\ phase[s] = "open" /\ (toDelete[s] = {} \/ CanWrite(s))
  /\ phase' = [phase EXCEPT ![s] = "closed"]
  /\ IF writer = s \/ toDelete[s] # {}
     THEN /\ committed' = rows /\ working' = rows /\ writer' = "none"
          /\ counted' = [committed |-> counted.working, working |-> counted.working] /\ pending' = {}
     ELSE UNCHANGED <<committed, working, writer, counted, pending>>
  /\ page' = [t \in Sessions |-> IF phase[t] = "counted" /\ committed' # committed
                                 THEN [page[t] EXCEPT !.moved = TRUE] ELSE page[t]]
  /\ UNCHANGED <<target, loaded, toDelete, written, aborted, stale>>
\* ... or, when something raised, rollback.
Rollback(s) ==
  /\ phase[s] # "closed" /\ phase' = [phase EXCEPT ![s] = "closed"]
  /\ working' = (IF writer = s THEN committed ELSE working) /\ writer' = (IF writer = s THEN "none" ELSE writer)
  /\ counted' = (IF writer = s THEN [counted EXCEPT !.working = counted.committed] ELSE counted)
  /\ aborted' = (IF writer = s THEN aborted \cup pending ELSE aborted) /\ pending' = (IF writer = s THEN {} ELSE pending)
  /\ page' = [page EXCEPT ![s] = NoPage]
  /\ UNCHANGED <<committed, target, loaded, toDelete, written, stale>>

Next ==
  \E s \in Sessions :
    \/ CountRows(s) \/ ListRows(s)
    \/ Open(s) \/ FlushUpdate(s) \/ FlushDelete(s) \/ Commit(s) \/ Rollback(s)
    \/ \E i \in Ids : Create(s, i) \/ Get(s, i) \/ Refresh(s, i) \/ HardDelete(s, i) \/ \E what \in {"update", "delete"} : Begin(s, i, what)
    \/ \E ids \in SUBSET Ids \ {{}} : BulkUpdate(s, ids)

Spec == Init /\ [][Next]_vars

(***************************************************************************)
(* Properties.                                                             *)
(***************************************************************************)

\* A value that was rolled back is in no committed row, and no session has loaded a value
\* of another that is not committed.
OnlyCommittedIsSeen ==
  /\ \A i \in Ids : committed[i].value \notin aborted \cup pending
  /\ \A s \in Sessions, i \in Ids : phase[s] \notin {"closed", "broken"} /\ writer # s => loaded[s][i].value \notin aborted \cup pending

\* A page that is not cut holds as many entities as its total says, unless another session
\* committed between the two queries, and no entity that is deleted.
PageFitsTotal ==
  [][\A s \in Sessions : phase[s] = "counted" /\ phase'[s] = "open" =>
       LET items == {i \in Ids : Exists(loaded'[s][i])} IN
       /\ page[s].moved \/ Cardinality(items) = page[s].total
       /\ \A i \in items : ~loaded'[s][i].deleted]_vars

\* A row that was deleted softly stays so, whatever a session that had loaded it before
\* writes to it, until it is removed.
DeletedStaysDeleted == [][\A i \in Ids : committed[i].deleted => committed'[i].deleted \/ ~Exists(committed'[i])]_vars

\* The version of a row is one more than the number of updates it had, single or in bulk,
\* unless one of them was made from an entity that was out of date.
VersionCountsUpdates ==
  \A i \in Ids : Exists(committed[i]) /\ i \notin stale => committed[i].version = 1 + counted.committed[i]
=============================================================================
