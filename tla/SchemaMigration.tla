---------------------------- MODULE SchemaMigration ----------------------------
(***************************************************************************)
(* The schema upgrade: processes that start on one SQLite database each    *)
(* read the highest recorded revision once, and apply the later ones one   *)
(* by one: a session looks the revision up, runs its DDL and records it.   *)
(* The driver opens a transaction only before an INSERT, UPDATE or DELETE, *)
(* so a statement of DDL is durable at once, and only the record waits for *)
(* the commit: what makes an interrupted revision harmless is that each    *)
(* can run again.  The database may be older than the version table.       *)
(***************************************************************************)
EXTENDS Integers, FiniteSetsExt, TLAPS

CONSTANTS
  Upgraders,  \* processes that call upgrade_schema
  MaxRetries, \* max_lock_retries, 8 in the code
  MaxLocks,   \* bound on statements that find the database locked
  MaxCrashes  \* bound on crashes

VARIABLES
  recorded, \* the revisions in schema_migration_version
  schema,   \* what is in the database: tables, indexes and the added column
  models,   \* the tables whose ORM class is imported when the upgrade runs
  upgrader, \* [Upgraders -> [at, revision, tries]]
  locks, crashes, \* bounded
  appliers  \* ghost: [revision -> the calls of _apply_migration that returned True]

migrationVars == <<recorded, schema, models, upgrader, locks, crashes, appliers>>

\* The retries are a number.
RetriesOK == MaxRetries \in Nat

Revisions == 1 .. 5
Target == 5
\* A revision's objects; the first adds the tables of the imported models, as they are now.
Objects(r) ==
  CASE r = 1 -> models \cup (IF "observations" \in models \ schema THEN {"occurred_at"} ELSE {})
    [] r = 2 -> {"index"} [] r = 3 -> {"outbox"} [] r = 4 -> {"ledger"} [] OTHER -> {}

Highest == Max({0} \cup recorded)
Steps == {"idle", "next", "migrate", "alter", "record", "done", "raised"}

\* A fresh database, one from before occurred_at and the version table, and one at revision 4.
Init ==
  /\ models \in {{"events"}, {"events", "observations"}, {"observations"}}
  /\ \/ recorded = {} /\ schema \in {{}, {"events", "observations"}}
     \/ recorded = 1 .. 4 /\ schema = {"events", "observations", "index", "outbox", "ledger"}
  /\ upgrader = [u \in Upgraders |-> [at |-> "idle", revision |-> 0, tries |-> 0]]
  /\ locks = 0 /\ crashes = 0 /\ appliers = [r \in Revisions |-> 0]

TypeOK ==
  /\ recorded \subseteq Revisions /\ models \subseteq {"events", "observations"}
  /\ schema \subseteq {"events", "observations", "occurred_at", "index", "outbox", "ledger"}
  /\ upgrader \in [Upgraders -> [at : Steps, revision : 0 .. 6, tries : 0 .. MaxRetries]]
  /\ appliers \in [Revisions -> Nat]

GoTo(u, step, r) == upgrader' = [upgrader EXCEPT ![u] = [at |-> step, revision |-> r, tries |-> 0]]
GoOn(u, step) == upgrader' = [upgrader EXCEPT ![u].at = step]

\* The pending revisions are those above the highest recorded.
Begin(u) ==
  /\ upgrader[u].at = "idle" /\ GoTo(u, "next", Highest + 1)
  /\ UNCHANGED <<recorded, schema, models, locks, crashes, appliers>>

End(u) ==
  /\ upgrader[u].at = "next" /\ upgrader[u].revision > Target /\ GoOn(u, "done")
  /\ UNCHANGED <<recorded, schema, models, locks, crashes, appliers>>

\* _apply_migration looks the revision up in a session of its own.
Look(u) ==
  /\ upgrader[u].at = "next" /\ upgrader[u].revision \in Revisions
  /\ IF upgrader[u].revision \in recorded THEN GoTo(u, "next", upgrader[u].revision + 1) ELSE GoOn(u, "migrate")
  /\ UNCHANGED <<recorded, schema, models, locks, crashes, appliers>>

\* Revisions 1 to 4 create what is not there; the second needs the table of events.
Migrate(u) ==
  LET r == upgrader[u].revision IN
  /\ upgrader[u].at = "migrate" /\ r < 5
  /\ IF r = 2 /\ "events" \notin schema
       THEN GoOn(u, "raised") /\ UNCHANGED schema
       ELSE GoOn(u, "record") /\ schema' = schema \cup Objects(r)
  /\ UNCHANGED <<recorded, models, locks, crashes, appliers>>

\* Revision 5 reads the table's columns, and alters it only when the column is missing.
ReadColumns(u) ==
  /\ upgrader[u].at = "migrate" /\ upgrader[u].revision = 5
  /\ GoOn(u, IF "observations" \in schema /\ "occurred_at" \notin schema THEN "alter" ELSE "record")
  /\ UNCHANGED <<recorded, schema, models, locks, crashes, appliers>>

\* A column that another process added meanwhile is a duplicate: the error is raised.
Alter(u) ==
  /\ upgrader[u].at = "alter"
  /\ IF "occurred_at" \in schema
       THEN GoOn(u, "raised") /\ UNCHANGED schema
       ELSE GoOn(u, "record") /\ schema' = schema \cup {"occurred_at"}
  /\ UNCHANGED <<recorded, models, locks, crashes, appliers>>

\* The commit inserts the record; a caller that lost the race returns False.
Record(u) ==
  LET r == upgrader[u].revision IN
  /\ upgrader[u].at = "record" /\ GoTo(u, "next", r + 1)
  /\ recorded' = recorded \cup {r}
  /\ appliers' = (IF r \in recorded THEN appliers ELSE [appliers EXCEPT ![r] = @ + 1])
  /\ UNCHANGED <<schema, models, locks, crashes>>

\* A statement that finds the database locked: the session rolls back and the whole is retried.
Locked(u) ==
  /\ upgrader[u].at \in {"migrate", "alter", "record"} /\ locks < MaxLocks /\ locks' = locks + 1
  /\ IF upgrader[u].tries < MaxRetries
       THEN upgrader' = [upgrader EXCEPT ![u].at = "next", ![u].tries = @ + 1]
       ELSE GoOn(u, "raised")
  /\ UNCHANGED <<recorded, schema, models, crashes, appliers>>

\* A process dies at any point, or an upgrade that raised is run again.
Crash(u) ==
  /\ upgrader[u].at # "idle" /\ crashes < MaxCrashes /\ crashes' = crashes + 1 /\ GoOn(u, "idle")
  /\ UNCHANGED <<recorded, schema, models, locks, appliers>>

Next ==
  \E u \in Upgraders :
    \/ Begin(u) \/ End(u) \/ Look(u) \/ Migrate(u) \/ ReadColumns(u) \/ Alter(u) \/ Record(u)
    \/ Locked(u) \/ Crash(u)

Spec == Init /\ [][Next]_migrationVars

\* However the upgrades interleave and wherever they are cut, the recorded revisions have no
\* gap, so the highest one stands for them all (_current_version), and what they make is there.
HighestStandsForAll ==
  /\ recorded = 1 .. Highest
  /\ \A r \in recorded \ {1} : Objects(r) \subseteq schema
  /\ 5 \in recorded /\ "observations" \in schema => "occurred_at" \in schema

\* Each revision is applied by one caller: the others get False (_apply_migration).
AppliedByOne == \A r \in Revisions : appliers[r] <= 1

\* An upgrade raises for one of three reasons only: its retries ran out, a table it indexes has no
\* model, or another upgrade added the column after it had looked.
RaisingIsExplained ==
  \A u \in Upgraders : upgrader[u].at = "raised" =>
    \/ upgrader[u].tries = MaxRetries
    \/ upgrader[u].revision = 2 /\ "events" \notin models
    \/ upgrader[u].revision = 5 /\ (crashes > 0 \/ \E v \in Upgraders \ {u} : upgrader[v].at # "idle")

\* An upgrade that returns leaves the database at the target revision.
ReturnedIsCurrent == \A u \in Upgraders : upgrader[u].at = "done" => recorded = Revisions

(***************************************************************************)
(* They hold for any number of upgraders, retries, locks and crashes, by   *)
(* what an upgrade knows at each of its steps.                             *)
(***************************************************************************)

\* An upgrade's place: below its revision all is recorded, and it leaves in order.
PlaceOK(u) ==
  LET r == upgrader[u].revision IN
  /\ r \in 0 .. 6
  /\ upgrader[u].at \notin {"idle", "raised"} => \A q \in Revisions : q < r => q \in recorded
  /\ upgrader[u].at \in {"migrate", "alter", "record"} => r \in Revisions
  /\ upgrader[u].at = "alter" => r = 5
  /\ upgrader[u].at = "done" => r = 6
UpgradesOK ==
  /\ upgrader \in [Upgraders -> [at : Steps, revision : Int, tries : Int]]
  /\ recorded \subseteq Revisions /\ \A q, r \in Revisions : q < r /\ r \in recorded => q \in recorded
  /\ \A u \in Upgraders : PlaceOK(u)

\* A caller is counted with the record it made.
AppliersOK == appliers \in [Revisions -> Nat] /\ \A r \in Revisions : appliers[r] <= IF r \in recorded THEN 1 ELSE 0

\* What a revision makes: the objects of 2, 3 and 4, and the column of 5 if there is its table.
MadeBy(r) ==
  /\ r = 2 => "index" \in schema
  /\ r = 3 => "outbox" \in schema
  /\ r = 4 => "ledger" \in schema
  /\ r = 5 /\ "observations" \in schema => "occurred_at" \in schema
MadeOK ==
  /\ \A r \in recorded : MadeBy(r)
  /\ \A u \in Upgraders : upgrader[u].at = "record" => MadeBy(upgrader[u].revision)

\* An upgrade has been alone, as far as it can have met the column of another.
Met(u) == crashes > 0 \/ \E v \in Upgraders \ {u} : upgrader[v].at # "idle"
\* The first revision made the tables of the imported models; who is to add the column found none.
TablesOK ==
  /\ 1 \in recorded => models \subseteq schema
  /\ \A u \in Upgraders : upgrader[u].at = "record" /\ upgrader[u].revision = 1 => models \subseteq schema
TriesOK == crashes \in Nat /\ \A u \in Upgraders : upgrader[u].tries \in 0 .. MaxRetries
ColumnOK == \A u \in Upgraders : upgrader[u].at = "alter" /\ "occurred_at" \in schema => Met(u)
RaisingOK == TablesOK /\ TriesOK /\ ColumnOK /\ RaisingIsExplained

\* The highest of a set without gaps.
LEMMA HighestIs ==
  ASSUME recorded \subseteq Revisions, \A q, r \in Revisions : q < r /\ r \in recorded => q \in recorded
  PROVE  Highest \in 0 .. 5 /\ recorded = 1 .. Highest
<1>1. \E m \in {0} \cup recorded : \A x \in {0} \cup recorded : m >= x
  <2>1. CASE 5 \in recorded
    BY <2>1 DEF Revisions
  <2>2. CASE 5 \notin recorded /\ 4 \in recorded
    BY <2>2 DEF Revisions
  <2>3. CASE 5 \notin recorded /\ 4 \notin recorded /\ 3 \in recorded
    BY <2>3 DEF Revisions
  <2>4. CASE 5 \notin recorded /\ 4 \notin recorded /\ 3 \notin recorded /\ 2 \in recorded
    BY <2>4 DEF Revisions
  <2>5. CASE 5 \notin recorded /\ 4 \notin recorded /\ 3 \notin recorded /\ 2 \notin recorded
    BY <2>5 DEF Revisions
  <2> QED
    BY <2>1, <2>2, <2>3, <2>4, <2>5
<1>2. Highest \in {0} \cup recorded /\ \A x \in {0} \cup recorded : Highest >= x
  BY <1>1 DEF Highest, Max
<1>3. Highest \in 0 .. 5 /\ \A x \in recorded : x \in 1 .. Highest
  BY <1>2 DEF Revisions
<1>4. ASSUME NEW x \in 1 .. Highest PROVE x \in recorded
  BY <1>2, <1>3, <1>4 DEF Revisions
<1> QED
  BY <1>3, <1>4

LEMMA UpgradesStep ==
  ASSUME UpgradesOK, [Next]_migrationVars
  PROVE  UpgradesOK'
<1>1. ASSUME NEW u \in Upgraders, NEW step \in Steps, NEW r \in 0 .. 6, GoTo(u, step, r), UNCHANGED recorded,
             step = "next" /\ \A q \in Revisions : q < r => q \in recorded
      PROVE  UpgradesOK'
  BY <1>1 DEF UpgradesOK, PlaceOK, GoTo, Steps
<1>2. ASSUME NEW u \in Upgraders, NEW step \in Steps, GoOn(u, step), UNCHANGED recorded,
             upgrader[u].at \notin {"idle", "raised"} \/ step = "idle",
             step \in {"migrate", "alter", "record"} => upgrader[u].revision \in Revisions,
             step = "alter" => upgrader[u].revision = 5,
             step = "done" => upgrader[u].revision = 6
      PROVE  UpgradesOK'
  <2>1. \A v \in Upgraders : upgrader'[v].revision = upgrader[v].revision /\ (v # u => upgrader'[v] = upgrader[v])
    BY <1>2 DEF UpgradesOK, GoOn
  <2>2. upgrader'[u].at = step
    BY <1>2 DEF UpgradesOK, GoOn
  <2>3. upgrader' \in [Upgraders -> [at : Steps, revision : Int, tries : Int]]
    BY <1>2 DEF UpgradesOK, GoOn
  <2>4. PlaceOK(u)'
    BY <1>2, <2>1, <2>2 DEF UpgradesOK, PlaceOK
  <2>5. ASSUME NEW v \in Upgraders \ {u} PROVE PlaceOK(v)'
    BY <1>2, <2>1 DEF UpgradesOK, PlaceOK
  <2> QED
    BY <1>2, <2>3, <2>4, <2>5 DEF UpgradesOK
<1>3. ASSUME NEW u \in Upgraders, Begin(u)
      PROVE  UpgradesOK'
  <2>1. Highest \in 0 .. 5 /\ recorded = 1 .. Highest
    BY HighestIs DEF UpgradesOK
  <2>2. \A q \in Revisions : q < Highest + 1 => q \in recorded
    BY <2>1 DEF Revisions
  <2> QED
    BY <1>1, <1>3, <2>1, <2>2 DEF Begin, Steps
<1>4. ASSUME NEW u \in Upgraders, End(u)
      PROVE  UpgradesOK'
  <2>1. upgrader[u].revision = 6
    BY <1>4 DEF End, Target, UpgradesOK, PlaceOK
  <2> QED
    BY <1>2, <1>4, <2>1 DEF End, Steps
<1>5. ASSUME NEW u \in Upgraders, Look(u)
      PROVE  UpgradesOK'
  <2>1. CASE upgrader[u].revision \in recorded
    <3>1. \A q \in Revisions : q < upgrader[u].revision + 1 => q \in recorded
      BY <1>5, <2>1 DEF Look, UpgradesOK, PlaceOK, Revisions
    <3> QED
      BY <1>1, <1>5, <2>1, <3>1 DEF Look, Steps, Revisions
  <2>2. CASE upgrader[u].revision \notin recorded
    BY <1>2, <1>5, <2>2 DEF Look, Steps
  <2> QED
    BY <2>1, <2>2
<1>6. ASSUME NEW u \in Upgraders, Migrate(u) \/ ReadColumns(u) \/ Alter(u)
      PROVE  UpgradesOK'
  <2>1. upgrader[u].at \in {"migrate", "alter"} /\ upgrader[u].revision \in Revisions
    BY <1>6 DEF Migrate, ReadColumns, Alter, UpgradesOK, PlaceOK
  <2> QED
    BY <1>2, <1>6, <2>1 DEF Migrate, ReadColumns, Alter, Steps
<1>7. ASSUME NEW u \in Upgraders, Record(u)
      PROVE  UpgradesOK'
  <2>1. upgrader[u].revision \in Revisions
    BY <1>7 DEF Record, UpgradesOK, PlaceOK
  <2>2. recorded' \subseteq Revisions /\ \A q, r \in Revisions : q < r /\ r \in recorded' => q \in recorded'
    BY <1>7, <2>1 DEF Record, UpgradesOK, PlaceOK
  <2>3. \A v \in Upgraders \ {u} : upgrader'[v] = upgrader[v]
    BY <1>7 DEF Record, GoTo, UpgradesOK
  <2>4. upgrader'[u] = [at |-> "next", revision |-> upgrader[u].revision + 1, tries |-> 0]
    BY <1>7 DEF Record, GoTo, UpgradesOK
  <2>5. upgrader' \in [Upgraders -> [at : Steps, revision : Int, tries : Int]]
    BY <1>7 DEF Record, GoTo, UpgradesOK, Steps
  <2>6. PlaceOK(u)'
    BY <1>7, <2>1, <2>4 DEF Record, UpgradesOK, PlaceOK, Revisions
  <2>7. ASSUME NEW v \in Upgraders \ {u} PROVE PlaceOK(v)'
    BY <1>7, <2>3 DEF Record, UpgradesOK, PlaceOK
  <2> QED
    BY <2>2, <2>5, <2>6, <2>7 DEF UpgradesOK
<1>8. ASSUME NEW u \in Upgraders, Locked(u)
      PROVE  UpgradesOK'
  <2>1. CASE upgrader[u].tries < MaxRetries
    BY <1>8, <2>1 DEF Locked, UpgradesOK, PlaceOK, Steps
  <2>2. CASE GoOn(u, "raised")
    BY <1>2, <1>8, <2>2 DEF Locked, Steps
  <2> QED
    BY <1>8, <2>1, <2>2 DEF Locked
<1>9. ASSUME NEW u \in Upgraders, Crash(u)
      PROVE  UpgradesOK'
  BY <1>2, <1>9 DEF Crash, Steps
<1>10. CASE UNCHANGED migrationVars
  BY <1>10 DEF migrationVars, UpgradesOK, PlaceOK
<1> QED
  BY <1>3, <1>4, <1>5, <1>6, <1>7, <1>8, <1>9, <1>10 DEF Next

LEMMA AppliersStep ==
  ASSUME UpgradesOK, AppliersOK, [Next]_migrationVars
  PROVE  AppliersOK'
<1>1. ASSUME NEW u \in Upgraders, Record(u)
      PROVE  AppliersOK'
  <2>1. upgrader[u].revision \in Revisions
    BY <1>1 DEF Record, UpgradesOK, PlaceOK
  <2> QED
    BY <1>1, <2>1 DEF Record, AppliersOK
<1>2. CASE UNCHANGED <<recorded, appliers>>
  BY <1>2 DEF AppliersOK
<1> QED
  BY <1>1, <1>2 DEF Next, Begin, End, Look, Migrate, ReadColumns, Alter, Locked, Crash, migrationVars

\* A step of the DDL keeps what is made: nothing is dropped, and the table comes with its column.
LEMMA MadeStep ==
  ASSUME UpgradesOK, MadeOK, [Next]_migrationVars
  PROVE  MadeOK'
<1>1. ASSUME schema \subseteq schema', "observations" \in schema' \ schema => "occurred_at" \in schema'
      PROVE  \A r \in Revisions : MadeBy(r) => MadeBy(r)'
  BY <1>1 DEF MadeBy
<1>2. ASSUME NEW u \in Upgraders, Migrate(u)
      PROVE  MadeOK'
  <2>1. schema \subseteq schema' /\ ("observations" \in schema' \ schema => "occurred_at" \in schema')
    BY <1>2 DEF Migrate, Objects
  <2>2. upgrader'[u].at = "record" => MadeBy(upgrader[u].revision)'
    BY <1>2 DEF Migrate, Objects, MadeBy, GoOn, UpgradesOK
  <2>3. \A v \in Upgraders \ {u} : upgrader'[v] = upgrader[v]
    BY <1>2 DEF Migrate, GoOn, UpgradesOK
  <2>4. \A v \in Upgraders : upgrader[v].at = "record" => upgrader[v].revision \in Revisions
    BY DEF UpgradesOK, PlaceOK
  <2>5. \A r \in Revisions : MadeBy(r) => MadeBy(r)'
    BY <1>1, <2>1
  <2>6. \A r \in recorded' : MadeBy(r)'
    BY <1>2, <2>5 DEF Migrate, MadeOK, UpgradesOK
  <2>7. ASSUME NEW v \in Upgraders \ {u}, upgrader'[v].at = "record"
        PROVE  MadeBy(upgrader[v].revision)'
    <3>1. MadeBy(upgrader[v].revision) /\ upgrader[v].revision \in Revisions
      BY <2>3, <2>4, <2>7 DEF MadeOK
    <3>2. MadeBy(upgrader[v].revision) => MadeBy(upgrader[v].revision)'
      BY <1>1, <2>1, <2>3, <3>1 DEF MadeBy
    <3> QED
      BY <3>1, <3>2
  <2> QED
    BY <2>2, <2>6, <2>7 DEF MadeOK
<1>3. ASSUME NEW u \in Upgraders, Alter(u)
      PROVE  MadeOK'
  BY <1>3 DEF Alter, GoOn, UpgradesOK, PlaceOK, MadeOK, MadeBy
<1>4. ASSUME NEW u \in Upgraders, ReadColumns(u)
      PROVE  MadeOK'
  BY <1>4 DEF ReadColumns, GoOn, UpgradesOK, MadeOK, MadeBy
<1>5. ASSUME NEW u \in Upgraders, Record(u)
      PROVE  MadeOK'
  BY <1>5 DEF Record, GoTo, UpgradesOK, MadeOK, MadeBy
<1>6. ASSUME NEW u \in Upgraders, Begin(u) \/ End(u) \/ Look(u) \/ Locked(u) \/ Crash(u)
      PROVE  MadeOK'
  BY <1>6 DEF Begin, End, Look, Locked, Crash, GoTo, GoOn, UpgradesOK, MadeOK, MadeBy
<1>7. CASE UNCHANGED migrationVars
  BY <1>7 DEF migrationVars, MadeOK, MadeBy
<1> QED
  BY <1>2, <1>3, <1>4, <1>5, <1>6, <1>7 DEF Next

\* Who makes a step is met by the others, and what was met stays so.
LEMMA MetByOthers ==
  ASSUME UpgradesOK, TriesOK, NEW u \in Upgraders,
         \/ Begin(u) \/ End(u) \/ Look(u) \/ Migrate(u) \/ ReadColumns(u) \/ Alter(u) \/ Record(u)
         \/ Locked(u) \/ Crash(u)
  PROVE  /\ \A v \in Upgraders \ {u} : Met(v)' /\ upgrader'[v] = upgrader[v]
         /\ Met(u) => Met(u)'
<1>1. \A v \in Upgraders \ {u} : upgrader'[v] = upgrader[v]
  BY DEF Begin, End, Look, Migrate, ReadColumns, Alter, Record, Locked, Crash, GoTo, GoOn, UpgradesOK
<1>2. CASE Crash(u)
  BY <1>1, <1>2 DEF Crash, Met, TriesOK
<1>3. CASE ~Crash(u)
  <2>1. crashes' = crashes /\ upgrader'[u].at # "idle"
    BY <1>3 DEF Begin, End, Look, Migrate, ReadColumns, Alter, Record, Locked, GoTo, GoOn, UpgradesOK
  <2> QED
    BY <1>1, <2>1 DEF Met
<1> QED
  BY <1>2, <1>3

LEMMA RaisingStep ==
  ASSUME RetriesOK, UpgradesOK, RaisingOK, [Next]_migrationVars
  PROVE  RaisingOK'
<1> DEFINE Reason(u) == \/ upgrader[u].tries = MaxRetries
                        \/ upgrader[u].revision = 2 /\ "events" \notin models
                        \/ upgrader[u].revision = 5 /\ Met(u)
           Fine(u) == /\ upgrader[u].tries \in 0 .. MaxRetries
                      /\ upgrader[u].at = "alter" /\ "occurred_at" \in schema => Met(u)
                      /\ upgrader[u].at = "raised" => Reason(u)
                      /\ upgrader[u].at = "record" /\ upgrader[u].revision = 1 => models \subseteq schema
<1>1. \A u \in Upgraders : Fine(u)
  BY DEF RaisingOK, TriesOK, ColumnOK, TablesOK, RaisingIsExplained, Met
<1>2. ASSUME crashes' \in Nat, 1 \in recorded' => models' \subseteq schema', \A u \in Upgraders : Fine(u)'
      PROVE  RaisingOK'
  BY <1>2 DEF RaisingOK, TriesOK, ColumnOK, TablesOK, RaisingIsExplained, Met
<1>3. ASSUME NEW u \in Upgraders,
             \/ Begin(u) \/ End(u) \/ Look(u) \/ Migrate(u) \/ ReadColumns(u) \/ Alter(u) \/ Record(u)
             \/ Locked(u) \/ Crash(u)
      PROVE  RaisingOK'
  <2>1. /\ \A v \in Upgraders \ {u} : Met(v)' /\ upgrader'[v] = upgrader[v]
        /\ Met(u) => Met(u)'
    BY <1>3, MetByOthers DEF RaisingOK
  <2>2. models' = models /\ schema \subseteq schema' /\ crashes' \in Nat
    BY <1>3 DEF Begin, End, Look, Migrate, ReadColumns, Alter, Record, Locked, Crash, RaisingOK, TriesOK
  <2>3. \A v \in Upgraders \ {u} : Fine(v)'
    BY <1>1, <2>1, <2>2
  <2>4. upgrader[u] \in [at : Steps, revision : Int, tries : Int] /\ PlaceOK(u) /\ Fine(u) /\ MaxRetries \in Nat
    BY <1>1 DEF UpgradesOK, RetriesOK
  <2>5. ASSUME 1 \in recorded' => models \subseteq schema', Fine(u)'
        PROVE  RaisingOK'
    BY <1>2, <2>2, <2>3, <2>5
  <2>6. 1 \in recorded => models \subseteq schema
    BY DEF RaisingOK, TablesOK
  <2>7. CASE Begin(u) \/ End(u) \/ Look(u)
    <3>1. Fine(u)'
      BY <2>1, <2>2, <2>4, <2>7 DEF Begin, End, Look, GoTo, GoOn, UpgradesOK
    <3> QED
      BY <2>2, <2>5, <2>6, <2>7, <3>1 DEF Begin, End, Look
  <2>8. CASE Migrate(u)
    <3>1. CASE upgrader[u].revision = 2 /\ "events" \notin schema
      <4>1. "events" \notin models
        BY <2>4, <2>6, <2>8, <3>1 DEF Migrate, PlaceOK, Revisions
      <4>2. upgrader' = [upgrader EXCEPT ![u].at = "raised"] /\ schema' = schema /\ recorded' = recorded
        BY <2>8, <3>1 DEF Migrate, GoOn
      <4>3. Fine(u)'
        BY <2>2, <2>4, <3>1, <4>1, <4>2 DEF UpgradesOK
      <4> QED
        BY <2>5, <2>6, <4>2, <4>3
    <3>2. CASE ~(upgrader[u].revision = 2 /\ "events" \notin schema)
      <4>1. /\ upgrader' = [upgrader EXCEPT ![u].at = "record"] /\ recorded' = recorded
            /\ schema' = schema \cup Objects(upgrader[u].revision)
        BY <2>8, <3>2 DEF Migrate, GoOn
      <4>2. upgrader[u].revision = 1 => models \subseteq schema'
        BY <4>1 DEF Objects
      <4>3. Fine(u)'
        BY <2>2, <2>4, <4>1, <4>2 DEF UpgradesOK
      <4> QED
        BY <2>2, <2>5, <2>6, <4>1, <4>3
    <3> QED
      BY <3>1, <3>2
  <2>9. CASE ReadColumns(u)
    <3>1. Fine(u)'
      BY <2>2, <2>4, <2>9 DEF ReadColumns, GoOn, UpgradesOK
    <3> QED
      BY <2>5, <2>6, <2>9, <3>1 DEF ReadColumns
  <2>10. CASE Alter(u)
    <3>1. upgrader[u].revision = 5
      BY <2>4, <2>10 DEF Alter, PlaceOK
    <3>2. CASE "occurred_at" \in schema
      <4>1. Met(u)'
        BY <2>1, <2>4, <2>10, <3>2 DEF Alter
      <4>2. Fine(u)'
        BY <2>2, <2>4, <2>10, <3>1, <3>2, <4>1 DEF Alter, GoOn, UpgradesOK
      <4> QED
        BY <2>5, <2>6, <2>10, <3>2, <4>2 DEF Alter
    <3>3. CASE "occurred_at" \notin schema
      <4>1. Fine(u)'
        BY <2>2, <2>4, <2>10, <3>1, <3>3 DEF Alter, GoOn, UpgradesOK
      <4> QED
        BY <2>2, <2>5, <2>6, <2>10, <4>1 DEF Alter
    <3> QED
      BY <3>2, <3>3
  <2>11. CASE Record(u)
    <3>1. Fine(u)'
      BY <2>4, <2>11 DEF Record, GoTo, UpgradesOK
    <3>2. 1 \in recorded' => models \subseteq schema'
      BY <2>4, <2>6, <2>11 DEF Record
    <3> QED
      BY <2>5, <3>1, <3>2
  <2>12. CASE Locked(u)
    <3>1. upgrader[u].at \in {"migrate", "alter", "record"} /\ recorded' = recorded /\ schema' = schema
      BY <2>12 DEF Locked
    <3>2. CASE upgrader[u].tries < MaxRetries
      <4>1. upgrader'[u].at = "next" /\ upgrader'[u].tries = upgrader[u].tries + 1
        BY <2>12, <3>2 DEF Locked, UpgradesOK
      <4>2. Fine(u)'
        BY <2>4, <3>2, <4>1
      <4> QED
        BY <2>5, <2>6, <3>1, <4>2
    <3>3. CASE ~(upgrader[u].tries < MaxRetries)
      <4>1. upgrader'[u].at = "raised" /\ upgrader'[u].tries = upgrader[u].tries
        BY <2>12, <3>3 DEF Locked, GoOn, UpgradesOK
      <4>2. Fine(u)'
        BY <2>4, <3>3, <4>1
      <4> QED
        BY <2>5, <2>6, <3>1, <4>2
    <3> QED
      BY <3>2, <3>3
  <2>13. CASE Crash(u)
    <3>1. Fine(u)'
      BY <2>4, <2>13 DEF Crash, GoOn, UpgradesOK
    <3> QED
      BY <2>5, <2>6, <2>13, <3>1 DEF Crash
  <2> QED
    BY <1>3, <2>7, <2>8, <2>9, <2>10, <2>11, <2>12, <2>13
<1>4. CASE UNCHANGED migrationVars
  BY <1>4 DEF migrationVars, RaisingOK, TriesOK, ColumnOK, TablesOK, RaisingIsExplained, Met
<1> QED
  BY <1>3, <1>4 DEF Next

LEMMA MigrationInit ==
  ASSUME Init
  PROVE  UpgradesOK /\ AppliersOK /\ MadeOK /\ (RetriesOK => RaisingOK)
<1>1. UpgradesOK
  BY DEF Init, UpgradesOK, PlaceOK, Steps, Revisions
<1>2. AppliersOK
  BY DEF Init, AppliersOK
<1>3. MadeOK
  BY DEF Init, MadeOK, MadeBy
<1>4. RetriesOK => RaisingOK
  <2> SUFFICES ASSUME RetriesOK PROVE RaisingOK
    OBVIOUS
  <2>1. \A u \in Upgraders : upgrader[u].at = "idle" /\ upgrader[u].tries = 0
    BY DEF Init
  <2> QED
    BY <2>1 DEF Init, RaisingOK, TablesOK, TriesOK, ColumnOK, RaisingIsExplained, RetriesOK
<1> QED
  BY <1>1, <1>2, <1>3, <1>4

\* What the invariants say of the revisions.
LEMMA UpgradesHold ==
  ASSUME UpgradesOK
  PROVE  /\ ReturnedIsCurrent /\ (MadeOK => HighestStandsForAll) /\ (AppliersOK => AppliedByOne)
         /\ (RaisingOK => RaisingIsExplained)
<1>1. MadeOK => HighestStandsForAll
  <2> SUFFICES ASSUME MadeOK PROVE HighestStandsForAll
    OBVIOUS
  <2>1. recorded = 1 .. Highest
    BY HighestIs DEF UpgradesOK
  <2>2. \A r \in recorded \ {1} : Objects(r) \subseteq schema
    BY DEF UpgradesOK, MadeOK, MadeBy, Objects, Revisions
  <2>3. 5 \in recorded /\ "observations" \in schema => "occurred_at" \in schema
    BY DEF MadeOK, MadeBy
  <2> QED
    BY <2>1, <2>2, <2>3 DEF HighestStandsForAll
<1>2. AppliersOK => AppliedByOne
  BY DEF AppliersOK, AppliedByOne
<1>3. ReturnedIsCurrent
  <2> SUFFICES ASSUME NEW u \in Upgraders, upgrader[u].at = "done" PROVE recorded = Revisions
    BY DEF ReturnedIsCurrent
  <2>1. \A q \in Revisions : q < 6 => q \in recorded
    BY DEF UpgradesOK, PlaceOK
  <2>2. \A q \in Revisions : q \in recorded
    BY <2>1 DEF Revisions
  <2> QED
    BY <2>2 DEF UpgradesOK
<1> QED
  BY <1>1, <1>2, <1>3 DEF RaisingOK

\* The highest revision stands for all, whatever interleaves or is cut.
THEOREM HighestStandsForAllHolds == Spec => []HighestStandsForAll
BY MigrationInit, UpgradesStep, MadeStep, UpgradesHold, PTL DEF Spec

\* One caller applies a revision, however many start at a time.
THEOREM AppliedByOneHolds == Spec => []AppliedByOne
BY MigrationInit, UpgradesStep, AppliersStep, UpgradesHold, PTL DEF Spec

\* An upgrade raises when its retries ran out, when a table has no model, or when it met another.
THEOREM RaisingIsExplainedHolds == RetriesOK /\ Spec => []RaisingIsExplained
<1>1. SUFFICES ASSUME RetriesOK PROVE Spec => []RaisingIsExplained
  OBVIOUS
<1> QED
  BY <1>1, MigrationInit, UpgradesStep, RaisingStep, UpgradesHold, PTL DEF Spec

\* An upgrade that returns has left the target revision.
THEOREM ReturnedIsCurrentHolds == Spec => []ReturnedIsCurrent
BY MigrationInit, UpgradesStep, UpgradesHold, PTL DEF Spec
=============================================================================
