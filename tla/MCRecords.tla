-------- MODULE MCRecords --------
(***************************************************************************)
(* What the system keeps and shows, each part on its own.  The intelligence *)
(* layer: entities and their identities, relations, the observations of    *)
(* canonical events, the observation engine and its validation, the timeline. *)
(* The database layer: sessions over the rows of a repository, the managers of *)
(* the database and the upgrades of its schema; and the webhooks, which answer *)
(* when the event is stored.  The operator's interface: the                *)
(* feed of events, the recordings and the severity rules.                  *)
(***************************************************************************)
EXTENDS Integers, Sequences, TLC, TLAPS

CONSTANTS Sessions, Identities, MaxEntities, EntityIds, Externals, RelTypes, MaxRels, MaxMaps,
  MaxPublish, MaxFaults, Callers, ObservationIds, ForwarderKinds, MaxIngests, Created, Times,
  Interval, MaxTimeline, DbSessions, RowIds, MaxRowWrites, MaxManagers, MaxSessions,
  Upgraders, MaxRetries, MaxLocks, MaxCrashes, MaxMishaps, MaxResends,
  MaxFileSize, Digests, MaxChanges, FeedEvents, Alarming, PageLimit, TailBatch, MaxDeletes, MaxLost

VARIABLES
  part, \* which of the components the behaviour is of
  repository, resolved, store, made, task, linked, writes, raced, revived,
  mapping, external, selfMerged, bySource, byType, rels, maps,
  rows, session, bus, handle, subs, running, event, targets, left, route, pc, stats, kept, tainted, published, dbFaults,
  forwarder, obsRows, call, tasks, linkedIds, ingests,
  data, created, duplicate, next, issues, verdict,
  timeline, perEntity, answer,
  committed, working, writer, phase, target, loaded, toDelete, page, written, pending, aborted, counted, stale,
  configured, open, current, database, held, sessions, replaced, direct,
  recorded, schema, models, upgrader, locks, crashes, appliers,
  file, meta, range, request, sent, changes,
  artifact, process, rules, asked,
  status, serving, settings, handling, stored, mishaps, resends, answers,
  log, lastGiven, reused, saved, moved, gone, severity, stream, received, start, pages, deletes, faults

\* A telegram message, a recording, and a radio transmission that lacks its callsign.
Published == {[id |-> "t", source |-> "telegram", fields |-> {"chat_id", "text"}],
              [id |-> "r", source |-> "radio", fields |-> {"recording"}],
              [id |-> "x", source |-> "radio", fields |-> {"frequency"}]}

\* Observations with at most two fields that are not fine.
Fine == [f \in {"source", "kind", "evidence", "confidence", "tags", "id", "sourceType", "time"} |-> "ok"]
Off == [source |-> {"absent", "null", "blank", "odd", "mistyped"},
        kind |-> {"absent", "null", "blank", "unknown", "mistyped", "unhashable"},
        evidence |-> {"absent", "null", "empty", "mistyped"},
        confidence |-> {"absent", "outside", "nan", "mistyped"},
        tags |-> {"absent", "mistyped"}, id |-> {"absent", "blank", "odd"},
        sourceType |-> {"absent", "unknown", "unhashable"},
        time |-> {"absent", "odd", "old", "future", "mistyped"}]
Spoilt(d) == UNION {{[d EXCEPT ![f] = v] : v \in Off[f]} : f \in DOMAIN Off}
Tried == {Fine} \cup UNION {Spoilt(d) : d \in Spoilt(Fine)}

\* Rules by type and source, sets of up to two that may conflict, and artifacts with one fault.
Rule(i, t, s, v) == [id |-> i, type |-> t, source |-> s, severity |-> v, fault |-> "none"]
OneRule == {Rule(1, t, s, "INFO") : t \in {"*", "t1", "t2"}, s \in {"*", "s1"}}
Second(q, i) == [q EXCEPT !.id = i, !.severity = "THREAT"]
Rulesets ==
  {<<>>} \cup {<<r>> : r \in OneRule}
    \cup {<<r, Second(q, i)>> : r \in OneRule, q \in OneRule, i \in {1, 2}}
Ruled(rs) ==
  [fault |-> "none", rules |-> rs, nonExecutable |-> <<[id |-> 3, fault |-> "none"]>>]
Plain == Rule(1, "t1", "*", "INFO")
SomeArtifacts ==
  {Ruled(rs) : rs \in Rulesets}
  \cup {[Ruled(<<Plain>>) EXCEPT !.fault = f] :
          f \in {"noSidecar", "otherDigest", "badToml", "noTable", "badVersion", "otherVersion", "otherAdr"}}
  \cup {[Ruled(<<Plain>>) EXCEPT !.nonExecutable = <<n>>] :
          n \in {[id |-> 1, fault |-> "none"], [id |-> 3, fault |-> "noReason"]}}
  \cup {Ruled(<<[Plain EXCEPT !.fault = f]>>) : f \in {"missing", "unknown", "badSeverity"}}
\* Three synthetic rules of which any may match.
SomeRules ==
  {<<r, Second(p, 2), Rule(3, k[1], k[2], "CRITICAL")>> :
     r \in OneRule, p \in OneRule, k \in {<<"*", "s1">>, <<"t1", "*">>, <<"*", "*">>}}

\* Batches that overlap, one with a malformed message, and an update that is no message.
Text(k, f) == [key |-> k, form |-> f]
Request(n, s, m) == [id |-> n, service |-> s, gate |-> "pass", messages |-> m]
Sent ==
  {Request(1, "whatsapp", <<Text("a", "fine"), Text("b", "fine")>>),
   Request(2, "whatsapp", <<Text("b", "fine"), Text("c", "malformed")>>),
   Request(3, "telegram", <<Text("t", "fine")>>), Request(4, "telegram", <<>>)}
SomeSettings == {{"secret", "token", "database", "port"}, {"secret"}}

E == INSTANCE IntelEntity WITH MaxWrites <- 2
I == INSTANCE IntelIdentity WITH Entities <- EntityIds
O == INSTANCE ObservationIntake WITH Events <- Published
G == INSTANCE ObservationEngine WITH Ids <- ObservationIds
V == INSTANCE ObsValidation WITH Observations <- Tried
T == INSTANCE Timeline WITH Kinds <- {"move", "call"}, Entities <- {1, 2}
S == INSTANCE RepositorySessions WITH Sessions <- DbSessions, Ids <- RowIds, MaxWrites <- MaxRowWrites
D == INSTANCE DatabaseLifecycle
M == INSTANCE SchemaMigration
R == INSTANCE OperatorRecording WITH MaxSize <- MaxFileSize
X == INSTANCE Severity WITH Artifacts <- SomeArtifacts, Synthetic <- SomeRules, Types <- {"t1", "t2"}, Sources <- {"s1", "s2"}
H == INSTANCE WebhookIngress WITH Requests <- Sent, Configs <- SomeSettings, MaxFaults <- MaxMishaps
F == INSTANCE OperatorFeed WITH Events <- FeedEvents, MaxFaults <- MaxLost

ASSUME StoreConstantsOK == S!SessionsOK /\ M!RetriesOK /\ H!RequestsOK /\ H!KeysApart
ASSUME ShownConstantsOK == F!FeedOK /\ R!SizesOK /\ X!RulesetsOK
ASSUME SeenConstantsOK == G!KindsOK /\ V!FieldsOK

\* One component runs; the others stay in an initial state.
Init ==
  /\ part \in {"entity", "identity", "intake", "engine", "validation", "timeline", "rows", "managers", "schema", "recording", "severity", "webhooks", "feed"}
  /\ I!Init /\ O!Init /\ T!Init /\ S!Init /\ D!Init
  /\ E!Init /\ (part # "entity" => repository = "table")
  /\ G!Init /\ (part # "engine" => forwarder = "sync")
  /\ V!Init /\ (part # "validation" => data = Fine /\ created = "ok" /\ ~duplicate)
  /\ M!Init /\ (part # "schema" => recorded = {} /\ schema = {} /\ models = {"events"})
  /\ R!Init /\ (part # "recording" => file = [size |-> 0, digest |-> "none"] /\ meta.found = "unknown" /\ range.kind = "absent")
  /\ X!Init /\ (part # "severity" => artifact = Ruled(<<>>))
  /\ H!Init /\ (part # "webhooks" => settings = [s \in {"whatsapp", "telegram"} |-> {"secret"}])
  /\ F!Init /\ (part # "feed" => severity = Alarming)

EVars == <<repository, resolved, store, made, task, linked, writes, raced, revived>>

IVars == <<mapping, external, selfMerged, bySource, byType, rels, maps>>

OVars == <<rows, session, bus, handle, subs, running, event, targets, left, route, pc, stats, kept, tainted, published, dbFaults>>

GVars == <<forwarder, obsRows, call, tasks, linkedIds, ingests>>

VVars == <<data, created, duplicate, next, issues, verdict>>

TVars == <<timeline, perEntity, answer>>

SVars == <<committed, working, writer, phase, target, loaded, toDelete, page, written, pending, aborted, counted, stale>>

DVars == <<configured, open, current, database, held, sessions, replaced, direct>>

MVars == <<recorded, schema, models, upgrader, locks, crashes, appliers>>

RVars == <<file, meta, range, request, sent, changes>>

XVars == <<artifact, process, rules, asked>>

HVars == <<status, serving, settings, handling, stored, mishaps, resends, answers>>

FVars == <<log, lastGiven, reused, saved, moved, gone, severity, stream, received, start, pages, deletes, faults>>

Next ==
  \/ part = "entity" /\ E!Next /\ UNCHANGED <<part, IVars, OVars, GVars, VVars, TVars, SVars, DVars, MVars, RVars, XVars, HVars, FVars>>
  \/ part = "identity" /\ I!Next /\ UNCHANGED <<part, EVars, OVars, GVars, VVars, TVars, SVars, DVars, MVars, RVars, XVars, HVars, FVars>>
  \/ part = "intake" /\ O!Next /\ UNCHANGED <<part, EVars, IVars, GVars, VVars, TVars, SVars, DVars, MVars, RVars, XVars, HVars, FVars>>
  \/ part = "engine" /\ G!Next /\ UNCHANGED <<part, EVars, IVars, OVars, VVars, TVars, SVars, DVars, MVars, RVars, XVars, HVars, FVars>>
  \/ part = "validation" /\ V!Next /\ UNCHANGED <<part, EVars, IVars, OVars, GVars, TVars, SVars, DVars, MVars, RVars, XVars, HVars, FVars>>
  \/ part = "timeline" /\ T!Next /\ UNCHANGED <<part, EVars, IVars, OVars, GVars, VVars, SVars, DVars, MVars, RVars, XVars, HVars, FVars>>
  \/ part = "rows" /\ S!Next /\ UNCHANGED <<part, EVars, IVars, OVars, GVars, VVars, TVars, DVars, MVars, RVars, XVars, HVars, FVars>>
  \/ part = "managers" /\ D!Next /\ UNCHANGED <<part, EVars, IVars, OVars, GVars, VVars, TVars, SVars, MVars, RVars, XVars, HVars, FVars>>
  \/ part = "schema" /\ M!Next /\ UNCHANGED <<part, EVars, IVars, OVars, GVars, VVars, TVars, SVars, DVars, RVars, XVars, HVars, FVars>>
  \/ part = "recording" /\ R!Next /\ UNCHANGED <<part, EVars, IVars, OVars, GVars, VVars, TVars, SVars, DVars, MVars, XVars, HVars, FVars>>
  \/ part = "severity" /\ X!Next /\ UNCHANGED <<part, EVars, IVars, OVars, GVars, VVars, TVars, SVars, DVars, MVars, RVars, HVars, FVars>>
  \/ part = "webhooks" /\ H!Next /\ UNCHANGED <<part, EVars, IVars, OVars, GVars, VVars, TVars, SVars, DVars, MVars, RVars, XVars, FVars>>
  \/ part = "feed" /\ F!Next /\ UNCHANGED <<part, EVars, IVars, OVars, GVars, VVars, TVars, SVars, DVars, MVars, RVars, XVars, HVars>>

vars == <<part, EVars, IVars, OVars, GVars, VVars, TVars, SVars, DVars, MVars, RVars, XVars, HVars, FVars>>
\* Fairness of a component, while the behaviour is of it.  What goes on at a time of each part is
\* bounded but for the sender's retries, so one condition for all of the server's steps is enough.
Fairness ==
  /\ WF_FVars(part = "feed" /\ (F!Connect \/ F!Snapshot \/ F!Query \/ F!Check \/ F!Emit \/ F!EndBatch))
  /\ WF_HVars(part = "webhooks" /\ (H!StartTelegram \/ H!StartWhatsApp
       \/ \E s \in {"telegram", "whatsapp"} : H!Submit(s) \/ H!Process(s) \/ H!Confirm(s)))
  /\ SF_HVars(part = "webhooks" /\ \E r \in Sent : H!Good(r) /\ H!Receive(r.service, r))

Spec == Init /\ [][Next]_vars /\ Fairness

\* Every variable of every component keeps its type.
TypeOK ==
  /\ E!TypeOK
  /\ I!TypeOK
  /\ O!TypeOK
  /\ G!TypeOK
  /\ V!TypeOK
  /\ T!TypeOK
  /\ S!TypeOK
  /\ D!TypeOK
  /\ M!TypeOK
  /\ R!TypeOK
  /\ X!TypeOK
  /\ H!TypeOK
  /\ F!TypeOK

\* The intelligence layer under redelivery and racing sessions: one entity per identity and one
\* observation per event, indexes and lists that agree with what they list, links to what was observed,
\* and validation that blames what is wrong.
IntelligenceIsConsistent ==
  /\ E!OneEntityPerIdentity /\ E!DeletedIsKept /\ E!LinksMatch /\ E!MemoryAgrees
  /\ I!IdentityIndexIsBacked /\ I!RelationIndexesAgree /\ O!ObservedOnce
  /\ O!FailureEndsWithEvent /\ O!StatsAreTrue /\ O!ValidIsObserved /\ G!StoredByOne
  /\ G!ForwardedIsLinked /\ V!BlameIsExact /\ V!RaisesOnMistyped /\ V!PassIsClean
  /\ T!EntityListsAgree

\* The database layer: a session sees what is committed, versions count the updates, the managers in
\* use are the current ones, and a schema that is recorded is there, upgraded once; what is
\* acknowledged to a platform is stored, and once.
StoreIsConsistent ==
  /\ S!OnlyCommittedIsSeen /\ S!VersionCountsUpdates /\ D!OpenIsCurrent
  /\ D!DatabaseIsCurrent /\ M!HighestStandsForAll /\ M!AppliedByOne /\ M!RaisingIsExplained
  /\ M!ReturnedIsCurrent /\ H!AckedIsDurable /\ H!OneRowPerMessage /\ H!DuplicateIsTrue

\* What an operator is shown, also while events are archived and files change: an event that was
\* never archived once and in order, nothing skipped but what an event archived after it hides,
\* whole pages, the range asked for of a recording that was verified, and nothing beyond it whatever
\* the file has become, and the severity that precedence gives.
OperatorSeesTruly ==
  /\ F!FramesInOrder /\ F!NothingSkipped /\ F!PagesAreComplete /\ R!RangeIsExact
  /\ R!SentIsVerified /\ X!AnswerIsPrecedence /\ X!UpMeansChecked

\* An observation's status only advances, a deleted row stays deleted, a page agrees with its total, sessions begin on an open
\* manager, the timeline's answers and their summaries agree with it, what is in the log is streamed to whoever stays connected, and a platform that sends a
\* good message again and again gets it acknowledged.
RecordsProgress ==
  /\ G!StatusAdvances /\ S!DeletedStaysDeleted /\ S!PageFitsTotal /\ D!SessionsBeginOpen
  /\ []T!AnswersAgree /\ []T!SummariesAgree /\ F!EventsAreStreamed /\ H!GoodIsAcked

(***************************************************************************)
(* Theorems: the identities; what the database layer and the webhooks      *)
(* keep, for any sessions, ids, upgraders, retries and numbers of steps    *)
(* (those about single components are in SchemaMigration and               *)
(* WebhookIngress); what the operator is shown, for any files, events and  *)
(* sizes of page and batch; the intelligence layer, for any sessions,      *)
(* callers, identities and externals; and the types of them all.           *)
(***************************************************************************)

\* Only the three operations on identities change what the index is about.
LEMMA IdentityStep ==
  ASSUME I!IdentityIndexIsBacked, [I!Next]_I!vars
  PROVE  I!IdentityIndexIsBacked'
<1>1. ASSUME NEW e \in EntityIds, NEW x \in Externals, I!CreateIdentity(e, x)
      PROVE  I!IdentityIndexIsBacked'
  <2>1. /\ DOMAIN mapping' = DOMAIN mapping \cup {e} /\ mapping'[e] = I!Of(e) \cup {x}
        /\ \A a \in DOMAIN mapping \ {e} : mapping'[a] = mapping[a]
    BY <1>1 DEF I!CreateIdentity, I!SetAt
  <2>2. /\ DOMAIN external' = DOMAIN external \cup {x} /\ external'[x] = e
        /\ \A y \in DOMAIN external \ {x} : external'[y] = external[y]
    BY <1>1 DEF I!CreateIdentity, I!SetAt
  <2>5. I!Of(e) \subseteq DOMAIN external
    BY DEF I!Of, I!IdentityIndexIsBacked
  <2>6. ASSUME NEW y \in DOMAIN external'
        PROVE  external'[y] \in selfMerged' \/ (external'[y] \in DOMAIN mapping' /\ y \in mapping'[external'[y]])
    <3>1. CASE y = x
      BY <2>1, <2>2, <3>1
    <3>2. CASE y # x
      <4>1. y \in DOMAIN external /\ external'[y] = external[y] /\ selfMerged' = selfMerged
        BY <1>1, <2>2, <3>2 DEF I!CreateIdentity
      <4>2. external[y] \in selfMerged \/ (external[y] \in DOMAIN mapping /\ y \in mapping[external[y]])
        BY <4>1 DEF I!IdentityIndexIsBacked, I!Of
      <4>3. \A a \in DOMAIN mapping : a \in DOMAIN mapping' /\ mapping[a] \subseteq mapping'[a]
        BY <2>1 DEF I!Of
      <4> QED
        BY <4>1, <4>2, <4>3
    <3> QED
      BY <3>1, <3>2
  <2>7. \A a \in DOMAIN mapping' : mapping'[a] \subseteq DOMAIN external'
    BY <2>1, <2>2, <2>5 DEF I!IdentityIndexIsBacked
  <2> QED
    BY <2>6, <2>7 DEF I!IdentityIndexIsBacked, I!Of
<1>2. ASSUME NEW from \in EntityIds, NEW to \in EntityIds, I!Merge(from, to)
      PROVE  I!IdentityIndexIsBacked'
  <2>1. /\ DOMAIN external' = DOMAIN external
        /\ \A x \in DOMAIN external : external'[x] = IF x \in I!Of(from) THEN to ELSE external[x]
        /\ selfMerged' = IF from = to THEN selfMerged \cup {to} ELSE selfMerged
    BY <1>2 DEF I!Merge
  <2>2. /\ DOMAIN mapping' = (DOMAIN mapping \cup {to}) \ {from}
        /\ \A a \in DOMAIN mapping' : mapping'[a] = IF a = to THEN I!Of(to) \cup I!Of(from) ELSE mapping[a]
    BY <1>2 DEF I!Merge
  <2>3. \A a : I!Of(a) \subseteq DOMAIN external
    BY DEF I!Of, I!IdentityIndexIsBacked
  <2>4. ASSUME NEW x \in DOMAIN external
        PROVE  external'[x] \in selfMerged' \/ (external'[x] \in DOMAIN mapping' /\ x \in mapping'[external'[x]])
    <3>1. CASE x \in I!Of(from)
      BY <2>1, <2>2, <3>1
    <3>2. CASE x \notin I!Of(from)
      BY <2>1, <2>2, <3>2 DEF I!IdentityIndexIsBacked, I!Of
    <3> QED
      BY <3>1, <3>2
  <2>5. \A a \in DOMAIN mapping' : mapping'[a] \subseteq DOMAIN external'
    BY <2>1, <2>2, <2>3 DEF I!IdentityIndexIsBacked
  <2> QED
    BY <2>1, <2>4, <2>5 DEF I!IdentityIndexIsBacked, I!Of
<1>3. ASSUME I!ClearIdentities
      PROVE  I!IdentityIndexIsBacked'
  BY <1>3 DEF I!ClearIdentities, I!NoneMapped, I!IdentityIndexIsBacked
<1>4. CASE UNCHANGED <<mapping, external, selfMerged>>
  BY <1>4 DEF I!IdentityIndexIsBacked, I!Of
<1> QED
  BY <1>1, <1>2, <1>3, <1>4 DEF I!Next, I!Relate, I!Unrelate, I!RemoveAll, I!vars

\* The index of the identities is backed, but for an entity merged into itself.
THEOREM IdentityIndexIsBackedHolds == I!Spec => []I!IdentityIndexIsBacked
<1>1. I!Init => I!IdentityIndexIsBacked
  BY DEF I!Init, I!NoneMapped, I!IdentityIndexIsBacked
<1> QED
  BY <1>1, IdentityStep, PTL DEF I!Spec

(***************************************************************************)
(* Sessions over the rows of a repository (RepositorySessions).            *)
(***************************************************************************)

\* A row, and an entity.
Row == [value : Nat, version : Nat, deleted : BOOLEAN]
RowsTyped ==
  /\ committed \in [RowIds -> Row] /\ working \in [RowIds -> Row] /\ writer \in DbSessions \cup {"none"}
  /\ phase \in [DbSessions -> {"closed", "open", "update", "delete", "counted", "broken"}]
  /\ target \in [DbSessions -> RowIds] /\ loaded \in [DbSessions -> [RowIds -> Row]]
  /\ written \in Nat /\ counted \in [committed : [RowIds -> Nat], working : [RowIds -> Nat]]
\* Without a writer nothing is pending.
LockOK == writer = "none" => working = committed /\ counted.working = counted.committed /\ pending = {}
\* Values are numbered; what was rolled back is in no row, and what is pending in those of the writer only.
ValuesOK ==
  /\ pending \subseteq 1 .. written /\ aborted \subseteq 1 .. written
  /\ \A i \in RowIds :
       /\ committed[i].value <= written /\ committed[i].value \notin aborted \cup pending
       /\ working[i].value <= written /\ working[i].value \notin aborted
\* A session at work, the writer apart, has loaded nothing that is pending or was rolled back.
SightOK ==
  \A s \in DbSessions, i \in RowIds :
    /\ loaded[s][i].value <= written
    /\ phase[s] \notin {"closed", "broken"} /\ writer # s => loaded[s][i].value \notin aborted \cup pending
\* The versions count, in both views of the rows, but for entities that were out of date.
VersionsOK ==
  \A i \in RowIds : i \notin stale =>
    /\ S!Exists(committed[i]) => committed[i].version = 1 + counted.committed[i]
    /\ S!Exists(working[i]) => working[i].version = 1 + counted.working[i]
RowsInv == RowsTyped /\ LockOK /\ ValuesOK /\ SightOK /\ VersionsOK

Phases == {"closed", "open", "update", "delete", "counted", "broken"}

\* The row a session sees, and what it can write to.
LEMMA SeenRow ==
  ASSUME S!SessionsOK, RowsInv, NEW s \in DbSessions, NEW i \in RowIds
  PROVE  /\ S!Seen(s, i) \in Row /\ S!Seen(s, i).value <= written
         /\ writer # s => S!Seen(s, i).value \notin aborted \cup pending
         /\ S!CanWrite(s) => S!Seen(s, i) = working[i]
<1> QED
  BY DEF RowsInv, RowsTyped, ValuesOK, LockOK, S!Seen, S!CanWrite

\* A session reads: its entities are as before, as it sees them, or none.
LEMMA ReadStep ==
  ASSUME S!SessionsOK, RowsInv, NEW s \in DbSessions, NEW x \in Phases, phase' = [phase EXCEPT ![s] = x],
         loaded' \in [DbSessions -> [RowIds -> Row]], \A t \in DbSessions \ {s} : loaded'[t] = loaded[t],
         \A i \in RowIds : \/ loaded'[s][i] = S!NoRow \/ loaded'[s][i] = S!Seen(s, i)
                           \/ loaded'[s][i] = loaded[s][i] /\ (phase[s] \notin {"closed", "broken"} \/ x \in {"closed", "broken"}),
         target' \in [DbSessions -> RowIds],
         UNCHANGED <<committed, working, writer, written, pending, aborted, counted, stale>>
  PROVE  RowsInv'
<1>1. RowsTyped' /\ LockOK' /\ ValuesOK' /\ VersionsOK'
  <2>1. RowsTyped'
    BY DEF RowsInv, RowsTyped, Phases
  <2>2. LockOK' /\ ValuesOK' /\ VersionsOK'
    BY DEF RowsInv, LockOK, ValuesOK, VersionsOK, S!Exists
  <2> QED
    BY <2>1, <2>2
<1>2. SightOK'
  <2>1. ASSUME NEW t \in DbSessions \ {s}, NEW i \in RowIds
        PROVE  /\ loaded'[t][i].value <= written'
               /\ phase'[t] \notin {"closed", "broken"} /\ writer' # t => loaded'[t][i].value \notin aborted' \cup pending'
    BY DEF RowsInv, RowsTyped, SightOK
  <2>2. ASSUME NEW i \in RowIds
        PROVE  /\ loaded'[s][i].value <= written'
               /\ phase'[s] \notin {"closed", "broken"} /\ writer' # s => loaded'[s][i].value \notin aborted' \cup pending'
    <3>1. phase'[s] = x
      BY DEF RowsInv, RowsTyped
    <3>2. CASE loaded'[s][i] = S!NoRow
      BY <3>2 DEF S!NoRow, RowsInv, RowsTyped, ValuesOK
    <3>3. CASE loaded'[s][i] = S!Seen(s, i)
      BY <3>3, SeenRow
    <3>4. CASE loaded'[s][i] = loaded[s][i] /\ (phase[s] \notin {"closed", "broken"} \/ x \in {"closed", "broken"})
      BY <3>1, <3>4 DEF RowsInv, SightOK
    <3> QED
      BY <3>2, <3>3, <3>4
  <2> QED
    BY <2>1, <2>2 DEF SightOK
<1> QED
  BY <1>1, <1>2 DEF RowsInv

\* A session writes: its rows change, in the transaction of which it is the only writer.
\* What the writes have in common.
Writes(s) ==
  /\ writer' = s /\ UNCHANGED <<committed, aborted, target>> /\ phase' \in [DbSessions -> Phases]
  /\ working' \in [RowIds -> Row] /\ loaded' \in [DbSessions -> [RowIds -> Row]]
  /\ \A t \in DbSessions \ {s} : phase'[t] = phase[t] /\ loaded'[t] = loaded[t]
  /\ written' \in {written, S!Value} /\ pending' \subseteq pending \cup ((1 .. written') \ (1 .. written))
  /\ \A i \in RowIds : working'[i].value = working[i].value \/ (written' = S!Value /\ working'[i].value = S!Value)
  /\ \A i \in RowIds : loaded'[s][i].value <= written'
  /\ counted' \in [committed : [RowIds -> Nat], working : [RowIds -> Nat]] /\ counted'.committed = counted.committed
  /\ stale \subseteq stale'
  /\ \A i \in RowIds : i \notin stale' /\ S!Exists(working'[i]) => working'[i].version = 1 + counted'.working[i]

LEMMA WriteStep ==
  ASSUME S!SessionsOK, RowsInv, NEW s \in DbSessions, S!CanWrite(s), Writes(s)
  PROVE  RowsInv'
<1> USE DEF Writes
<1>1. written \in Nat /\ written' \in Nat /\ written <= written' /\ (written' = written \/ written' = written + 1)
  BY DEF RowsInv, RowsTyped, S!Value
<1>2. RowsTyped'
  BY <1>1 DEF RowsInv, RowsTyped, Phases
<1>3. LockOK'
  BY DEF LockOK, S!SessionsOK
<1>4. ValuesOK'
  <2>1. pending' \subseteq 1 .. written' /\ aborted' \subseteq 1 .. written'
    BY <1>1 DEF RowsInv, ValuesOK
  <2>2. ASSUME NEW i \in RowIds
        PROVE  /\ committed'[i].value <= written' /\ committed'[i].value \notin aborted' \cup pending'
               /\ working'[i].value <= written' /\ working'[i].value \notin aborted'
    <3>1. committed[i].value \in Nat /\ working[i].value \in Nat
      BY DEF RowsInv, RowsTyped, Row
    <3>2. /\ committed[i].value <= written /\ committed[i].value \notin aborted \cup pending
          /\ working[i].value <= written /\ working[i].value \notin aborted /\ aborted \subseteq 1 .. written
      BY DEF RowsInv, ValuesOK
    <3>3. committed'[i].value \notin pending'
      <4>1. committed[i].value = 0 \/ committed[i].value \in 1 .. written
        BY <1>1, <3>1, <3>2
      <4> QED
        BY <1>1, <3>2, <4>1
    <3> QED
      BY <1>1, <3>1, <3>2, <3>3 DEF S!Value
  <2> QED
    BY <2>1, <2>2 DEF ValuesOK
<1>5. SightOK'
  <2>1. ASSUME NEW t \in DbSessions \ {s}, NEW i \in RowIds
        PROVE  /\ loaded'[t][i].value <= written'
               /\ phase'[t] \notin {"closed", "broken"} => loaded'[t][i].value \notin aborted' \cup pending'
    <3>1. loaded[t][i].value \in Nat
      BY DEF RowsInv, RowsTyped, Row
    <3>2. loaded[t][i].value <= written /\ writer # t
      BY DEF RowsInv, SightOK, S!CanWrite, S!SessionsOK
    <3>3. phase[t] \notin {"closed", "broken"} => loaded[t][i].value \notin aborted \cup pending
      BY <3>2 DEF RowsInv, SightOK
    <3>4. loaded[t][i].value = 0 \/ loaded[t][i].value \in 1 .. written
      BY <1>1, <3>1, <3>2
    <3> QED
      BY <1>1, <3>1, <3>2, <3>3, <3>4
  <2> QED
    BY <2>1 DEF SightOK
<1>6. VersionsOK'
  BY DEF RowsInv, VersionsOK, S!Exists
<1> QED
  BY <1>2, <1>3, <1>4, <1>5, <1>6 DEF RowsInv

\* A transaction ends without its changes.
LEMMA UndoStep ==
  ASSUME S!SessionsOK, RowsInv, NEW s \in DbSessions, NEW x \in {"closed", "broken"}, phase' = [phase EXCEPT ![s] = x],
         working' = (IF writer = s THEN committed ELSE working),
         writer' = (IF writer = s THEN "none" ELSE writer),
         counted' = (IF writer = s THEN [counted EXCEPT !.working = counted.committed] ELSE counted),
         aborted' = (IF writer = s THEN aborted \cup pending ELSE aborted),
         pending' = (IF writer = s THEN {} ELSE pending),
         UNCHANGED <<committed, target, loaded, written, stale>>
  PROVE  RowsInv'
<1>1. RowsTyped'
  BY DEF RowsInv, RowsTyped
<1>2. LockOK'
  BY DEF RowsInv, RowsTyped, LockOK
<1>3. ValuesOK'
  BY DEF RowsInv, ValuesOK
<1>4. SightOK'
  BY DEF RowsInv, RowsTyped, SightOK
<1>5. VersionsOK'
  BY DEF RowsInv, RowsTyped, VersionsOK, S!Exists
<1> QED
  BY <1>1, <1>2, <1>3, <1>4, <1>5 DEF RowsInv

\* A session commits: its rows are everybody's.
LEMMA CommitStep ==
  ASSUME S!SessionsOK, RowsInv, NEW s \in DbSessions, S!Commit(s)
  PROVE  RowsInv'
<1> DEFINE shown == [i \in RowIds |-> IF i \in toDelete[s] THEN S!NoRow ELSE S!Seen(s, i)]
<1>1. CASE ~(writer = s \/ toDelete[s] # {})
  <2>1. /\ phase' = [phase EXCEPT ![s] = "closed"] /\ target' = target /\ loaded' = loaded
        /\ UNCHANGED <<committed, working, writer, written, pending, aborted, counted, stale>>
    BY <1>1 DEF S!Commit
  <2> QED
    BY <2>1, ReadStep DEF RowsInv, RowsTyped, Phases
<1>2. CASE writer = s \/ toDelete[s] # {}
  <2>1. /\ phase' = [phase EXCEPT ![s] = "closed"] /\ committed' = shown /\ working' = shown /\ writer' = "none"
        /\ counted' = [committed |-> counted.working, working |-> counted.working] /\ pending' = {}
        /\ UNCHANGED <<target, loaded, written, aborted, stale>> /\ S!CanWrite(s)
    BY <1>2 DEF S!Commit, S!CanWrite
  <2>2. \A i \in RowIds : shown[i] \in Row /\ (shown[i] = S!NoRow \/ shown[i] = working[i])
    BY <2>1, SeenRow DEF S!NoRow, Row
  <2>3. RowsTyped'
    BY <2>1, <2>2 DEF RowsInv, RowsTyped
  <2>4. LockOK'
    BY <2>1 DEF LockOK
  <2>5. ValuesOK'
    <3>1. written \in Nat /\ pending \subseteq 1 .. written /\ aborted \subseteq 1 .. written
      BY DEF RowsInv, RowsTyped, ValuesOK
    <3>2. 0 \notin aborted /\ 0 <= written
      BY <3>1
    <3>3. ASSUME NEW i \in RowIds
          PROVE  shown[i].value <= written /\ shown[i].value \notin aborted
      <4>1. CASE shown[i] = S!NoRow
        BY <4>1, <3>2 DEF S!NoRow
      <4>2. CASE shown[i] = working[i]
        BY <4>2 DEF RowsInv, ValuesOK
      <4> QED
        BY <4>1, <4>2, <2>2
    <3>4. \A i \in RowIds : committed'[i] = shown[i] /\ working'[i] = shown[i]
      BY <2>1
    <3> HIDE DEF shown
    <3> QED
      BY <2>1, <3>1, <3>3, <3>4 DEF ValuesOK
  <2>6. SightOK'
    <3>1. \A t \in DbSessions : t # s => writer # t /\ phase'[t] = phase[t]
      BY <2>1 DEF S!CanWrite, S!SessionsOK, RowsInv, RowsTyped
    <3>2. phase'[s] = "closed"
      BY <2>1 DEF RowsInv, RowsTyped
    <3> QED
      BY <2>1, <3>1, <3>2 DEF RowsInv, SightOK
  <2>7. VersionsOK'
    BY <2>1, <2>2 DEF RowsInv, VersionsOK, S!Exists, S!NoRow
  <2> QED
    BY <2>3, <2>4, <2>5, <2>6, <2>7 DEF RowsInv
<1> QED
  BY <1>1, <1>2

LEMMA BrokenStep ==
  ASSUME S!SessionsOK, RowsInv, NEW s \in DbSessions, S!Broken(s)
  PROVE  RowsInv'
BY UndoStep DEF S!Broken

LEMMA CreateStep ==
  ASSUME S!SessionsOK, RowsInv, NEW s \in DbSessions, NEW i \in RowIds, S!Create(s, i)
  PROVE  RowsInv'
<1> DEFINE row == [value |-> S!Value, version |-> 1, deleted |-> FALSE]
<1>1. CASE S!CanWrite(s) /\ ~S!Exists(S!Seen(s, i))
  <2>1. /\ writer' = s /\ working' = [working EXCEPT ![i] = row] /\ loaded' = [loaded EXCEPT ![s][i] = row]
        /\ written' = S!Value /\ pending' = pending \cup {S!Value} /\ counted' = [counted EXCEPT !.working[i] = 0]
        /\ UNCHANGED <<committed, phase, target, aborted, stale>>
    BY <1>1 DEF S!Create
  <2>2. row \in Row /\ S!Value \in Nat /\ S!Value \in (1 .. S!Value) \ (1 .. written)
    BY DEF Row, S!Value, RowsInv, RowsTyped
  <2>3. /\ working' \in [RowIds -> Row] /\ loaded' \in [DbSessions -> [RowIds -> Row]] /\ phase' \in [DbSessions -> Phases]
        /\ counted' \in [committed : [RowIds -> Nat], working : [RowIds -> Nat]] /\ counted'.committed = counted.committed
        /\ \A t \in DbSessions \ {s} : loaded'[t] = loaded[t]
    BY <2>1, <2>2 DEF RowsInv, RowsTyped, Phases
  <2>4. \A j \in RowIds : working'[j].value = working[j].value \/ working'[j].value = S!Value
    BY <2>1 DEF RowsInv, RowsTyped
  <2>5. \A j \in RowIds : loaded'[s][j].value <= S!Value
    BY <2>1, <2>2 DEF RowsInv, RowsTyped, SightOK, Row, S!Value
  <2>6. \A j \in RowIds : j \notin stale /\ S!Exists(working'[j]) => working'[j].version = 1 + counted'.working[j]
    BY <2>1 DEF RowsInv, RowsTyped, VersionsOK
  <2>7. Writes(s)
    BY <2>1, <2>2, <2>3, <2>4, <2>5, <2>6 DEF Writes
  <2> QED
    BY <1>1, <2>7, WriteStep
<1>2. CASE ~(S!CanWrite(s) /\ ~S!Exists(S!Seen(s, i)))
  BY <1>2, BrokenStep DEF S!Create
<1> QED
  BY <1>1, <1>2

LEMMA UpdateStep ==
  ASSUME S!SessionsOK, RowsInv, NEW s \in DbSessions, S!FlushUpdate(s)
  PROVE  RowsInv'
<1> DEFINE i == target[s]
           new == S!Advanced(loaded[s][i])
<1>1. CASE S!CanWrite(s) /\ S!Exists(S!Seen(s, i))
  <2>1. /\ phase' = [phase EXCEPT ![s] = "open"] /\ writer' = s /\ working' = [working EXCEPT ![i] = S!Updated(s, i)]
        /\ loaded' = [loaded EXCEPT ![s][i] = new]
        /\ written' = S!Value /\ pending' = pending \cup {S!Value} /\ counted' = [counted EXCEPT !.working[i] = @ + 1]
        /\ stale' = (IF loaded[s][i].version # working[i].version THEN stale \cup {i} ELSE stale)
        /\ UNCHANGED <<committed, target, aborted>>
    BY <1>1 DEF S!FlushUpdate
  <2>2. /\ i \in RowIds /\ loaded[s][i] \in Row /\ working[i] \in Row
        /\ S!Value \in Nat /\ S!Value \in (1 .. S!Value) \ (1 .. written)
    BY DEF S!Value, RowsInv, RowsTyped
  <2>3. /\ S!Updated(s, i) \in Row /\ S!Updated(s, i).value = S!Value /\ S!Updated(s, i).version = loaded[s][i].version + 1
        /\ new \in Row /\ new.value = S!Value
    BY <2>2 DEF S!Updated, S!Advanced, Row
  <2>4. /\ working' \in [RowIds -> Row] /\ loaded' \in [DbSessions -> [RowIds -> Row]] /\ phase' \in [DbSessions -> Phases]
        /\ counted' \in [committed : [RowIds -> Nat], working : [RowIds -> Nat]] /\ counted'.committed = counted.committed
        /\ \A t \in DbSessions \ {s} : loaded'[t] = loaded[t] /\ phase'[t] = phase[t]
    <3>1. working' \in [RowIds -> Row] /\ phase' \in [DbSessions -> Phases] /\ \A t \in DbSessions \ {s} : phase'[t] = phase[t]
      BY <2>1, <2>2, <2>3 DEF RowsInv, RowsTyped, Phases
    <3>2. loaded' \in [DbSessions -> [RowIds -> Row]] /\ \A t \in DbSessions \ {s} : loaded'[t] = loaded[t]
      BY <2>1, <2>2, <2>3 DEF RowsInv, RowsTyped
    <3>3. counted' \in [committed : [RowIds -> Nat], working : [RowIds -> Nat]] /\ counted'.committed = counted.committed
      <4>1. /\ counted.working \in [RowIds -> Nat] /\ counted.committed \in [RowIds -> Nat]
            /\ counted = [committed |-> counted.committed, working |-> counted.working]
        BY DEF RowsInv, RowsTyped
      <4>2. [counted.working EXCEPT ![i] = @ + 1] \in [RowIds -> Nat]
        BY <2>2, <4>1
      <4>3. counted' = [counted EXCEPT !.working = [counted.working EXCEPT ![i] = @ + 1]]
        BY <2>1
      <4>4. counted' = [committed |-> counted.committed, working |-> [counted.working EXCEPT ![i] = @ + 1]]
        BY <4>1, <4>3
      <4> QED
        BY <4>1, <4>2, <4>4
    <3> QED
      BY <3>1, <3>2, <3>3
  <2>5. \A j \in RowIds : working'[j].value = working[j].value \/ working'[j].value = S!Value
    BY <2>1, <2>3 DEF RowsInv, RowsTyped
  <2>6. \A j \in RowIds : loaded'[s][j].value <= S!Value
    BY <2>1, <2>2, <2>3 DEF RowsInv, RowsTyped, SightOK, Row, S!Value
  <2>7. ASSUME NEW j \in RowIds, j \notin stale', S!Exists(working'[j])
        PROVE  working'[j].version = 1 + counted'.working[j]
    <3>1. CASE j = i
      <4>1. loaded[s][i].version = working[i].version /\ i \notin stale
        BY <2>1, <2>7, <3>1
      <4>2. S!Exists(working[i])
        BY <1>1, <2>2, SeenRow
      <4>3. working[i].version = 1 + counted.working[i]
        BY <2>2, <4>1, <4>2 DEF RowsInv, VersionsOK
      <4>4. counted'.working[i] = counted.working[i] + 1 /\ working'[i] = S!Updated(s, i) /\ counted.working[i] \in Nat
        BY <2>1, <2>2 DEF RowsInv, RowsTyped
      <4> QED
        BY <2>3, <3>1, <4>1, <4>3, <4>4
    <3>2. CASE j # i
      <4>1. working'[j] = working[j] /\ counted'.working[j] = counted.working[j] /\ j \notin stale
        BY <2>1, <2>2, <2>7, <3>2 DEF RowsInv, RowsTyped
      <4> QED
        BY <2>7, <4>1 DEF RowsInv, VersionsOK
    <3> QED
      BY <3>1, <3>2
  <2>8. stale \subseteq stale'
    BY <2>1
  <2>9. Writes(s)
    BY <2>1, <2>2, <2>4, <2>5, <2>6, <2>7, <2>8 DEF Writes
  <2> QED
    BY <1>1, <2>9, WriteStep
<1>2. CASE ~(S!CanWrite(s) /\ S!Exists(S!Seen(s, i)))
  BY <1>2, BrokenStep DEF S!FlushUpdate
<1> QED
  BY <1>1, <1>2

LEMMA DeleteStep ==
  ASSUME S!SessionsOK, RowsInv, NEW s \in DbSessions, S!FlushDelete(s)
  PROVE  RowsInv'
<1> DEFINE i == target[s]
<1>1. CASE S!CanWrite(s) /\ S!Exists(S!Seen(s, i))
  <2>1. /\ phase' = [phase EXCEPT ![s] = "open"] /\ writer' = s
        /\ working' = [working EXCEPT ![i].deleted = TRUE] /\ loaded' = [loaded EXCEPT ![s][i].deleted = TRUE]
        /\ UNCHANGED <<committed, target, written, pending, aborted, counted, stale>>
    BY <1>1 DEF S!FlushDelete
  <2>2. i \in RowIds /\ \A j \in RowIds : loaded[s][j] \in Row /\ working[j] \in Row
    BY DEF RowsInv, RowsTyped
  <2>3. \A j \in RowIds : /\ working'[j] \in Row /\ loaded'[s][j] \in Row
                          /\ working'[j].value = working[j].value /\ working'[j].version = working[j].version
                          /\ loaded'[s][j].value = loaded[s][j].value
    BY <2>1, <2>2 DEF RowsInv, RowsTyped, Row
  <2>4. /\ working' \in [RowIds -> Row] /\ loaded' \in [DbSessions -> [RowIds -> Row]] /\ phase' \in [DbSessions -> Phases]
        /\ \A t \in DbSessions \ {s} : loaded'[t] = loaded[t] /\ phase'[t] = phase[t]
    <3>1. working' \in [RowIds -> Row]
      BY <2>1, <2>3 DEF RowsInv, RowsTyped
    <3>2. loaded' \in [DbSessions -> [RowIds -> Row]] /\ \A t \in DbSessions \ {s} : loaded'[t] = loaded[t]
      <4>1. loaded'[s] \in [RowIds -> Row]
        BY <2>1, <2>3 DEF RowsInv, RowsTyped
      <4> QED
        BY <2>1, <4>1 DEF RowsInv, RowsTyped
    <3>3. phase' \in [DbSessions -> Phases] /\ \A t \in DbSessions \ {s} : phase'[t] = phase[t]
      BY <2>1 DEF RowsInv, RowsTyped, Phases
    <3> QED
      BY <3>1, <3>2, <3>3
  <2>5. /\ counted' \in [committed : [RowIds -> Nat], working : [RowIds -> Nat]]
        /\ counted'.committed = counted.committed /\ written' \in {written, S!Value} /\ stale \subseteq stale'
        /\ pending' \subseteq pending \cup ((1 .. written') \ (1 .. written))
    BY <2>1 DEF RowsInv, RowsTyped
  <2>6. \A j \in RowIds : loaded'[s][j].value <= written'
    BY <2>1, <2>3 DEF RowsInv, SightOK
  <2>7. \A j \in RowIds : j \notin stale' /\ S!Exists(working'[j]) => working'[j].version = 1 + counted'.working[j]
    BY <2>1, <2>3 DEF RowsInv, VersionsOK, S!Exists
  <2>8. Writes(s)
    BY <2>1, <2>3, <2>4, <2>5, <2>6, <2>7 DEF Writes
  <2> QED
    BY <1>1, <2>8, WriteStep
<1>2. CASE ~(S!CanWrite(s) /\ S!Exists(S!Seen(s, i)))
  BY <1>2, BrokenStep DEF S!FlushDelete
<1> QED
  BY <1>1, <1>2

LEMMA BulkStep ==
  ASSUME S!SessionsOK, RowsInv, NEW s \in DbSessions, NEW ids \in SUBSET RowIds, S!BulkUpdate(s, ids)
  PROVE  RowsInv'
<1> DEFINE hit == {i \in ids : S!Loads(s, i)}
           mine(i) == i \in ids /\ S!Exists(loaded[s][i]) /\ ~loaded[s][i].deleted
           new(i) == IF mine(i) THEN S!Advanced(loaded[s][i]) ELSE loaded[s][i]
<1>1. CASE S!CanWrite(s)
  <2>1. /\ writer' = s /\ working' = [i \in RowIds |-> IF i \in hit THEN S!BulkRow(i) ELSE working[i]]
        /\ loaded' = [loaded EXCEPT ![s] = [i \in RowIds |-> new(i)]]
        /\ written' = S!Value /\ pending' = pending \cup {S!Value}
        /\ counted' = [counted EXCEPT !.working = [i \in RowIds |-> counted.working[i] + (IF i \in hit THEN 1 ELSE 0)]]
        /\ UNCHANGED <<committed, phase, target, aborted, stale>>
    BY <1>1 DEF S!BulkUpdate
  <2>2. /\ \A i \in RowIds : loaded[s][i] \in Row /\ working[i] \in Row
        /\ S!Value \in Nat /\ S!Value \in (1 .. S!Value) \ (1 .. written)
    BY DEF S!Value, RowsInv, RowsTyped
  <2>3. \A i \in RowIds : S!BulkRow(i) \in Row /\ S!BulkRow(i).value = S!Value /\ S!BulkRow(i).version = working[i].version + 1
    BY <2>2 DEF S!BulkRow, S!Advanced, Row
  <2>4. \A i \in RowIds : new(i) \in Row /\ new(i).value <= S!Value
    <3>1. ASSUME NEW i \in RowIds PROVE new(i) \in Row /\ new(i).value <= S!Value
      BY <2>2 DEF S!Advanced, Row, RowsInv, RowsTyped, SightOK, S!Value
    <3> QED
      BY <3>1
  <2>5. /\ working' \in [RowIds -> Row] /\ loaded' \in [DbSessions -> [RowIds -> Row]] /\ phase' \in [DbSessions -> Phases]
        /\ counted' \in [committed : [RowIds -> Nat], working : [RowIds -> Nat]] /\ counted'.committed = counted.committed
        /\ \A t \in DbSessions \ {s} : loaded'[t] = loaded[t]
    <3>1. working' \in [RowIds -> Row] /\ phase' \in [DbSessions -> Phases]
      BY <2>1, <2>2, <2>3 DEF RowsInv, RowsTyped, Phases
    <3>2. loaded' \in [DbSessions -> [RowIds -> Row]] /\ \A t \in DbSessions \ {s} : loaded'[t] = loaded[t]
      <4>1. [i \in RowIds |-> new(i)] \in [RowIds -> Row]
        BY <2>4
      <4> QED
        BY <2>1, <4>1 DEF RowsInv, RowsTyped
    <3>3. counted' \in [committed : [RowIds -> Nat], working : [RowIds -> Nat]] /\ counted'.committed = counted.committed
      <4>1. [i \in RowIds |-> counted.working[i] + (IF i \in hit THEN 1 ELSE 0)] \in [RowIds -> Nat]
        BY DEF RowsInv, RowsTyped
      <4> QED
        BY <2>1, <4>1 DEF RowsInv, RowsTyped
    <3> QED
      BY <3>1, <3>2, <3>3
  <2>6. \A j \in RowIds : working'[j].value = working[j].value \/ working'[j].value = S!Value
    BY <2>1, <2>3
  <2>7. \A j \in RowIds : loaded'[s][j].value <= S!Value
    BY <2>1, <2>4 DEF RowsInv, RowsTyped
  <2>8. ASSUME NEW j \in RowIds, j \notin stale, S!Exists(working'[j])
        PROVE  working'[j].version = 1 + counted'.working[j]
    <3>1. CASE j \in hit
      <4>1. S!Exists(working[j])
        BY <1>1, <3>1, SeenRow DEF S!Loads
      <4>2. working[j].version = 1 + counted.working[j] /\ counted.working[j] \in Nat
        BY <2>8, <4>1 DEF RowsInv, RowsTyped, VersionsOK
      <4>3. counted'.working[j] = counted.working[j] + 1 /\ working'[j] = S!BulkRow(j)
        BY <2>1, <3>1 DEF RowsInv, RowsTyped
      <4> QED
        BY <2>3, <4>2, <4>3
    <3>2. CASE j \notin hit
      <4>1. working'[j] = working[j] /\ counted'.working[j] = counted.working[j]
        BY <2>1, <3>2 DEF RowsInv, RowsTyped
      <4> QED
        BY <2>8, <4>1 DEF RowsInv, VersionsOK
    <3> QED
      BY <3>1, <3>2
  <2>9. Writes(s)
    BY <2>1, <2>2, <2>5, <2>6, <2>7, <2>8 DEF Writes
  <2> QED
    BY <1>1, <2>9, WriteStep
<1>2. CASE ~S!CanWrite(s)
  BY <1>2, BrokenStep DEF S!BulkUpdate
<1> QED
  BY <1>1, <1>2

LEMMA LookStep ==
  ASSUME S!SessionsOK, RowsInv, NEW s \in DbSessions,
         \/ S!Open(s) \/ S!CountRows(s) \/ S!ListRows(s)
         \/ \E i \in RowIds : S!Get(s, i) \/ S!Refresh(s, i) \/ S!HardDelete(s, i) \/ \E what \in {"update", "delete"} : S!Begin(s, i, what)
  PROVE  RowsInv'
<1>1. /\ phase \in [DbSessions -> Phases] /\ loaded \in [DbSessions -> [RowIds -> Row]] /\ target \in [DbSessions -> RowIds]
      /\ \A i \in RowIds : S!Seen(s, i) \in Row
  BY SeenRow DEF RowsInv, RowsTyped, Phases
<1>2. CASE S!Open(s)
  <2>1. [i \in RowIds |-> S!NoRow] \in [RowIds -> Row]
    BY DEF S!NoRow, Row
  <2>2. /\ loaded' \in [DbSessions -> [RowIds -> Row]] /\ \A t \in DbSessions \ {s} : loaded'[t] = loaded[t]
        /\ \A i \in RowIds : loaded'[s][i] = S!NoRow
    BY <1>1, <1>2, <2>1 DEF S!Open
  <2> QED
    BY <1>1, <1>2, <2>2, ReadStep DEF S!Open, Phases
<1>3. CASE S!CountRows(s)
  BY <1>1, <1>3, ReadStep DEF S!CountRows, Phases
\* The session is open, and takes up rows as it sees them.
<1>4. ASSUME NEW x \in Phases, phase' = [phase EXCEPT ![s] = x], phase[s] \notin {"closed", "broken"},
             NEW ids \in SUBSET RowIds, NEW new, \A i \in RowIds : new[i] = loaded[s][i] \/ new[i] = S!Seen(s, i),
             loaded' = [loaded EXCEPT ![s] = new], new \in [RowIds -> Row], target' \in [DbSessions -> RowIds],
             UNCHANGED <<committed, working, writer, written, pending, aborted, counted, stale>>
      PROVE  RowsInv'
  <2>1. /\ loaded' \in [DbSessions -> [RowIds -> Row]] /\ \A t \in DbSessions \ {s} : loaded'[t] = loaded[t]
        /\ \A i \in RowIds : loaded'[s][i] = loaded[s][i] \/ loaded'[s][i] = S!Seen(s, i)
    BY <1>1, <1>4
  <2> QED
    BY <1>4, <2>1, ReadStep
<1>5. CASE S!ListRows(s)
  <2> DEFINE new == [i \in RowIds |-> IF i \in S!Matching(s) THEN S!Kept(s, i) ELSE loaded[s][i]]
  <2>1. new \in [RowIds -> Row] /\ \A i \in RowIds : new[i] = loaded[s][i] \/ new[i] = S!Seen(s, i)
    BY <1>1 DEF S!Kept
  <2>2. loaded' = [loaded EXCEPT ![s] = new]
    BY <1>5 DEF S!ListRows
  <2> QED
    BY <1>1, <1>4, <1>5, <2>1, <2>2 DEF S!ListRows, Phases
<1>6. ASSUME NEW i \in RowIds, NEW x \in Phases, phase' = [phase EXCEPT ![s] = x], phase[s] = "open",
             NEW row \in {loaded[s][i], S!Seen(s, i)}, loaded' = [loaded EXCEPT ![s][i] = row], target' \in [DbSessions -> RowIds],
             UNCHANGED <<committed, working, writer, written, pending, aborted, counted, stale>>
      PROVE  RowsInv'
  <2> DEFINE new == [loaded[s] EXCEPT ![i] = row]
  <2>1. new \in [RowIds -> Row] /\ \A j \in RowIds : new[j] = loaded[s][j] \/ new[j] = S!Seen(s, j)
    BY <1>1, <1>6
  <2>2. loaded' = [loaded EXCEPT ![s] = new]
    BY <1>6
  <2> QED
    BY <1>4, <1>6, <2>1, <2>2
<1>7. phase[s] = "open" => phase = [phase EXCEPT ![s] = "open"]
  BY <1>1
<1>8. ASSUME NEW i \in RowIds, S!Get(s, i) \/ S!Refresh(s, i) \/ S!HardDelete(s, i) \/ \E what \in {"update", "delete"} : S!Begin(s, i, what)
      PROVE  RowsInv'
  <2>1. CASE S!Get(s, i) \/ S!HardDelete(s, i)
    BY <1>1, <1>6, <1>7, <2>1 DEF S!Get, S!HardDelete, S!Kept, Phases
  <2>2. CASE S!Refresh(s, i)
    BY <1>1, <1>6, <1>7, <2>2 DEF S!Refresh, Phases
  <2>3. ASSUME NEW what \in {"update", "delete"}, S!Begin(s, i, what)
        PROVE  RowsInv'
    BY <1>1, <1>6, <2>3 DEF S!Begin, S!Kept, Phases
  <2> QED
    BY <1>8, <2>1, <2>2, <2>3
<1> QED
  BY <1>2, <1>3, <1>5, <1>8

LEMMA RowsStep ==
  ASSUME S!SessionsOK, RowsInv, [S!Next]_S!vars
  PROVE  RowsInv'
<1>1. ASSUME NEW s \in DbSessions, S!Rollback(s)
      PROVE  RowsInv'
  BY <1>1, UndoStep DEF S!Rollback
<1>2. CASE UNCHANGED S!vars
  BY <1>2 DEF S!vars, RowsInv, RowsTyped, LockOK, ValuesOK, SightOK, VersionsOK, S!Exists
<1> QED
  BY <1>1, <1>2, CommitStep, CreateStep, UpdateStep, DeleteStep, BulkStep, LookStep DEF S!Next

LEMMA RowsInit == S!SessionsOK /\ S!Init => RowsInv
<1> SUFFICES ASSUME S!SessionsOK, S!Init PROVE RowsInv
  OBVIOUS
<1>1. S!NoRow \in Row /\ S!NoRow.value = 0 /\ S!NoRow.version = 0
  BY DEF S!NoRow, Row
<1>2. RowsTyped
  <2>1. (CHOOSE i \in RowIds : TRUE) \in RowIds
    BY DEF S!SessionsOK
  <2> QED
    BY <1>1, <2>1 DEF S!Init, RowsTyped
<1>3. LockOK
  BY DEF S!Init, LockOK
<1>4. ValuesOK /\ SightOK /\ VersionsOK
  BY <1>1 DEF S!Init, ValuesOK, SightOK, VersionsOK, S!Exists
<1> QED
  BY <1>2, <1>3, <1>4 DEF RowsInv

LEMMA RowsHold == RowsInv => S!OnlyCommittedIsSeen /\ S!VersionCountsUpdates
BY DEF RowsInv, RowsTyped, ValuesOK, SightOK, VersionsOK, S!OnlyCommittedIsSeen, S!VersionCountsUpdates

(***************************************************************************)
(* The managers of the database (DatabaseLifecycle).                       *)
(***************************************************************************)

ManagersInv ==
  /\ configured \in Nat /\ current \in Nat /\ database \in [kept : Int, ready : BOOLEAN]
  /\ D!OpenIsCurrent /\ D!DatabaseIsCurrent

LEMMA ManagersStep ==
  ASSUME ManagersInv, [D!Next]_D!dbVars
  PROVE  ManagersInv'
<1> USE DEF ManagersInv, D!OpenIsCurrent, D!DatabaseIsCurrent
<1>1. CASE D!Configure
  <2>1. /\ configured' = configured + 1 /\ open' = open \cup {configured + 1} /\ current' = configured + 1
        /\ replaced' = (IF current \in open THEN replaced \cup {current} ELSE replaced)
        /\ direct' = (direct \/ database # D!NoDatabase) /\ database' = database
    BY <1>1 DEF D!Configure, D!Configured
  <2>2. D!OpenIsCurrent'
    <3>1. \A x \in open : x = current \/ x \in replaced
      OBVIOUS
    <3>2. \A x \in replaced : x \in replaced'
      BY <2>1
    <3>3. current \in open => current \in replaced'
      BY <2>1
    <3>4. \A x \in open' : x = current' \/ x \in open
      BY <2>1
    <3> QED
      BY <3>1, <3>2, <3>3, <3>4
  <2>3. ~direct' => database = D!NoDatabase
    BY <2>1, Zenon
  <2>4. ~direct' => ~(database'.kept > 0)
    BY <2>1, <2>3 DEF D!NoDatabase
  <2>5. D!DatabaseIsCurrent'
    BY <2>4
  <2>6. configured' \in Nat /\ current' \in Nat /\ database' \in [kept : Int, ready : BOOLEAN]
    BY <2>1
  <2> QED
    BY <2>2, <2>5, <2>6
<1>2. ASSUME NEW b \in BOOLEAN, D!Initialize(b)
      PROVE  ManagersInv'
  BY <1>2 DEF D!Initialize, D!Configured
<1>3. CASE D!GetDatabase
  BY <1>3 DEF D!GetDatabase
<1>4. CASE D!UseDatabase
  BY <1>4 DEF D!UseDatabase
<1>5. CASE D!Shutdown
  BY <1>5 DEF D!Shutdown, D!NoDatabase
<1>6. CASE UNCHANGED <<configured, open, current, database, replaced, direct>>
  BY <1>6
<1> QED
  BY <1>1, <1>2, <1>3, <1>4, <1>5, <1>6 DEF D!Next, D!OpenSession, D!CloseSession, D!dbVars

LEMMA ManagersInit == D!Init => ManagersInv
BY DEF D!Init, D!NoDatabase, ManagersInv, D!OpenIsCurrent, D!DatabaseIsCurrent

(***************************************************************************)
(* The recordings (OperatorRecording): the request knows only what it has  *)
(* read, and sends what the file then has of the range it announced.       *)
(***************************************************************************)

Answered == request.status \in {200, 206}
Stages == {"lookup", "path", "size", "hash", "verify", "answer", "send", "end"}
Statuses == {0, 200, 206, 400, 404, 416, 500, 503}
Asked == [pc : Stages, size : Nat, first : Int, last : Int, status : Statuses, seen : {"none"} \cup Digests]
RequestTyped == file \in R!Files /\ range \in R!Headers /\ changes \in Nat /\ request \in Asked
\* What has been checked at each stage.
CheckedOK ==
  /\ request.pc \notin {"send", "end"} => request.status = 0
  /\ request.pc = "send" => Answered
  /\ request.pc \notin {"lookup", "end"} \/ Answered => meta.found = "yes"
  /\ request.pc \notin {"lookup", "path", "end"} \/ Answered => meta.path = "inside"
  /\ request.pc = "verify" => request.seen \in Digests
  /\ request.pc = "answer" \/ Answered => request.seen = meta.sha /\ meta.sha \in Digests
\* The bytes that are asked for, in a file of n bytes.
Bytes(n) ==
  IF range.a = R!Absent THEN {k \in 0 .. n - 1 : k >= n - range.b}
  ELSE {k \in 0 .. n - 1 : k >= range.a /\ (range.b = R!Absent \/ k <= range.b)}
RangeOK ==
  /\ range.kind = "range" /\ request.status = 206 => request.first .. request.last = Bytes(request.size) /\ Bytes(request.size) # {}
  /\ range.kind = "range" /\ request.status = 416 => Bytes(request.size) = {}
  /\ range.kind = "range" /\ request.status = 400 => range.a > range.b
  /\ Answered => request.last <= request.size - 1
  /\ Answered /\ range.kind \in {"absent", "blank"} => request.first = 0 /\ request.last = request.size - 1
\* What was sent.
SentOK ==
  request.pc = "end" /\ Answered =>
    /\ sent.at \subseteq request.first .. request.last
    /\ file.size >= request.size => sent.at = request.first .. request.last
RecordingInv == RequestTyped /\ CheckedOK /\ RangeOK /\ SentOK

LEMMA MinOfTwo ==
  ASSUME NEW a \in Int, NEW b \in Int
  PROVE  R!Min({a, b}) = IF a <= b THEN a ELSE b
BY DEF R!Min

\* What parse_range makes of a header of numbers.
LEMMA ParsedRange ==
  ASSUME NEW n \in Nat, n > 0, range \in R!Headers, range.kind = "range", NEW p, p = R!Parsed(range, n)
  PROVE  \/ p.status = 416 /\ Bytes(n) = {}
         \/ p.status = 400 /\ range.a > range.b
         \/ /\ p.status = 206 /\ p.first \in Int /\ p.last \in Int /\ p.last <= n - 1
            /\ p.first .. p.last = Bytes(n) /\ Bytes(n) # {}
<1> DEFINE first == IF range.a = R!Absent THEN (IF range.b < n THEN n - range.b ELSE 0) ELSE range.a
           last == IF range.a = R!Absent \/ range.b = R!Absent THEN n - 1 ELSE range.b
           end == IF last <= n - 1 THEN last ELSE n - 1
<1>1. /\ range.a \in Nat \/ range.a = -1
      /\ range.b \in Nat \/ range.b = -1
      /\ range.a # -1 \/ range.b # -1
  BY ShownConstantsOK DEF R!Headers, R!Number, R!Absent, R!SizesOK
<1>2. first \in Nat /\ last \in Int /\ end \in Int
  BY <1>1 DEF R!Absent
<1>3. first >= n => Bytes(n) = {}
  BY <1>1 DEF R!Absent, Bytes
<1>4. first < n /\ first > last => range.a > range.b
  BY <1>1 DEF R!Absent
<1>5. first < n /\ first <= last => first .. end = Bytes(n) /\ first \in first .. end
  <2>1. CASE range.a = -1
    <3>1. range.b \in Nat /\ last = n - 1 /\ end = n - 1 /\ first = (IF range.b < n THEN n - range.b ELSE 0)
      BY <1>1, <2>1 DEF R!Absent
    <3>2. Bytes(n) = {k \in 0 .. n - 1 : k >= n - range.b}
      BY <2>1 DEF R!Absent, Bytes
    <3> HIDE DEF first, last, end
    <3>3. \A k : k \in first .. end <=> k \in Bytes(n)
      BY <1>2, <3>1, <3>2
    <3>4. first < n => first \in first .. end
      BY <1>2, <3>1
    <3> HIDE DEF Bytes
    <3> QED
      BY <3>3, <3>4
  <2>2. CASE range.a # -1
    <3>1. first = range.a /\ range.a \in Nat /\ last = (IF range.b = -1 THEN n - 1 ELSE range.b)
      BY <1>1, <2>2 DEF R!Absent
    <3>2. Bytes(n) = {k \in 0 .. n - 1 : k >= range.a /\ (range.b = -1 \/ k <= range.b)}
      BY <2>2 DEF R!Absent, Bytes
    <3>3. end = (IF last <= n - 1 THEN last ELSE n - 1)
      OBVIOUS
    <3> HIDE DEF first, last, end
    <3>4. \A k : k \in first .. end <=> k \in Bytes(n)
      BY <1>1, <1>2, <3>1, <3>2, <3>3
    <3>5. first < n /\ first <= last => first \in first .. end
      BY <1>2, <3>1, <3>3
    <3> HIDE DEF Bytes
    <3> QED
      BY <3>4, <3>5
  <2> QED
    BY <2>1, <2>2
<1>6. R!Min({last, n - 1}) = end
  BY <1>2, MinOfTwo
<1>7. /\ first >= n => p = [status |-> 416]
      /\ first < n /\ first > last => p = [status |-> 400]
      /\ first < n /\ ~(first > last) => p = [status |-> 206, first |-> first, last |-> R!Min({last, n - 1})]
  <2> HIDE DEF end
  <2> QED
    BY <1>1, <1>2 DEF R!Parsed
<1> HIDE DEF first, last, end, Bytes
<1>8. CASE first >= n
  BY <1>3, <1>7, <1>8
<1>9. CASE first < n /\ first > last
  BY <1>4, <1>7, <1>9
<1>10. CASE first < n /\ ~(first > last)
  <2>1. p.status = 206 /\ p.first = first /\ p.last = end
    BY <1>6, <1>7, <1>10
  <2>2. end <= n - 1
    BY <1>2 DEF end
  <2>3. first .. end = Bytes(n) /\ Bytes(n) # {}
    BY <1>2, <1>5, <1>10
  <2> QED
    BY <1>2, <2>1, <2>2, <2>3
<1> QED
  BY <1>2, <1>8, <1>9, <1>10

LEMMA RecordingStep ==
  ASSUME RecordingInv, [R!Next]_R!vars
  PROVE  RecordingInv'
<1> USE DEF RecordingInv
\* A step that only fails, or goes on after a check.
<1>1. ASSUME NEW s \in {404, 500, 503}, R!Fail(s), request.pc \notin {"send", "end"}, UNCHANGED <<file, meta, range, sent, changes>>
      PROVE  RecordingInv'
  <2>1. request' = [request EXCEPT !.pc = "end", !.status = s] /\ ~Answered /\ ~Answered'
    BY <1>1 DEF R!Fail, RequestTyped, Asked, Stages, Statuses, CheckedOK, Answered
  <2>2. RequestTyped'
    <3>1. "end" \in Stages /\ s \in Statuses
      BY DEF Stages, Statuses
    <3> QED
      BY <1>1, <2>1, <3>1 DEF RequestTyped, Asked
  <2>3. CheckedOK' /\ SentOK'
    BY <1>1, <2>1 DEF RequestTyped, Asked, Stages, Statuses, CheckedOK, SentOK
  <2>4. RangeOK'
    BY <1>1, <2>1 DEF RequestTyped, Asked, Stages, Statuses, RangeOK, Answered
  <2> QED
    BY <2>2, <2>3, <2>4
<1>2. ASSUME NEW b \in BOOLEAN, R!Lookup(b)
      PROVE  RecordingInv'
  <2>1. CASE ~b \/ meta.found # "yes"
    BY <1>1, <1>2, <2>1 DEF R!Lookup
  <2>2. CASE b /\ meta.found = "yes"
    BY <1>2, <2>2 DEF R!Lookup, R!Go, RequestTyped, Asked, Stages, Statuses, CheckedOK, RangeOK, SentOK, Answered, Bytes
  <2> QED
    BY <2>1, <2>2
<1>3. CASE R!FindFile
  <2>1. CASE meta.path # "inside" \/ file = R!NoFile
    BY <1>1, <1>3, <2>1 DEF R!FindFile
  <2>2. CASE ~(meta.path # "inside" \/ file = R!NoFile)
    BY <1>3, <2>2 DEF R!FindFile, R!Go, RequestTyped, Asked, Stages, Statuses, CheckedOK, RangeOK, SentOK, Answered, Bytes
  <2> QED
    BY <2>1, <2>2
<1>4. file \in [size : Nat, digest : Digests \cup {"none"}] /\ (file # R!NoFile => file.digest \in Digests)
  BY ShownConstantsOK DEF R!SizesOK, R!Files, R!NoFile, RequestTyped, Asked, Stages, Statuses
<1>5. CASE R!ReadSize
  <2>1. CASE file = R!NoFile
    BY <1>1, <1>5, <2>1 DEF R!ReadSize
  <2>2. CASE file # R!NoFile
    <3>1. request' = [request EXCEPT !.pc = "hash", !.size = file.size] /\ UNCHANGED <<file, meta, range, sent, changes>>
      BY <1>5, <2>2 DEF R!ReadSize
    <3>2. ~Answered /\ ~Answered' /\ request.status = 0 /\ file.size \in Nat /\ file.digest \in Digests
      BY <1>4, <1>5, <2>2, <3>1 DEF R!ReadSize, RequestTyped, Asked, Stages, Statuses, CheckedOK, Answered
    <3>3. RequestTyped'
      <4>1. "hash" \in Stages /\ "verify" \in Stages
        BY DEF Stages
      <4> QED
        BY <3>1, <3>2, <4>1 DEF RequestTyped, Asked
    <3>4. CheckedOK' /\ SentOK'
      BY <1>5, <3>1, <3>2 DEF R!ReadSize, RequestTyped, Asked, Stages, Statuses, CheckedOK, SentOK
    <3>5. RangeOK'
      BY <3>1, <3>2 DEF RequestTyped, Asked, Stages, Statuses, RangeOK
    <3> QED
      BY <3>3, <3>4, <3>5
  <2> QED
    BY <2>1, <2>2
<1>6. CASE R!ReadHash
  <2>1. CASE file = R!NoFile
    BY <1>1, <1>6, <2>1 DEF R!ReadHash
  <2>2. CASE file # R!NoFile
    <3>1. request' = [request EXCEPT !.pc = "verify", !.seen = file.digest] /\ UNCHANGED <<file, meta, range, sent, changes>>
      BY <1>6, <2>2 DEF R!ReadHash
    <3>2. ~Answered /\ ~Answered' /\ request.status = 0 /\ file.size \in Nat /\ file.digest \in Digests
      BY <1>4, <1>6, <2>2, <3>1 DEF R!ReadHash, RequestTyped, Asked, Stages, Statuses, CheckedOK, Answered
    <3>3. RequestTyped'
      <4>1. "hash" \in Stages /\ "verify" \in Stages
        BY DEF Stages
      <4> QED
        BY <3>1, <3>2, <4>1 DEF RequestTyped, Asked
    <3>4. CheckedOK' /\ SentOK'
      BY <1>6, <3>1, <3>2 DEF R!ReadHash, RequestTyped, Asked, Stages, Statuses, CheckedOK, SentOK
    <3>5. RangeOK'
      BY <3>1, <3>2 DEF RequestTyped, Asked, Stages, Statuses, RangeOK
    <3> QED
      BY <3>3, <3>4, <3>5
  <2> QED
    BY <2>1, <2>2
<1>7. CASE R!Verify
  <2>1. CASE request.seen # meta.sha
    BY <1>1, <1>7, <2>1 DEF R!Verify
  <2>2. CASE request.seen = meta.sha
    BY <1>7, <2>2 DEF R!Verify, R!Go, RequestTyped, Asked, Stages, Statuses, CheckedOK, RangeOK, SentOK, Answered, Bytes
  <2> QED
    BY <2>1, <2>2
<1>8. CASE R!Answer
  <2> DEFINE p == IF range.kind = "absent" THEN [status |-> 200, first |-> 0, last |-> request.size - 1]
                  ELSE R!Parsed(range, request.size)
  <2>1. /\ request.pc = "answer" /\ UNCHANGED <<file, meta, range, sent, changes>>
        /\ IF p.status \in {200, 206}
           THEN request' = [request EXCEPT !.pc = "send", !.status = p.status, !.first = p.first, !.last = p.last]
           ELSE R!Fail(p.status)
    BY <1>8 DEF R!Answer
  <2>2. request.size \in Nat /\ range \in R!Headers
    BY DEF RequestTyped, Asked, Stages, Statuses
  <2>3. range.kind \in {"absent", "blank", "malformed", "range"}
    BY <2>2 DEF R!Headers
  <2>4. ASSUME range.kind \in {"absent", "blank"}, p.status \in {200, 206}
        PROVE  p.first = 0 /\ p.last = request.size - 1
    <3>1. CASE range.kind = "absent"
      BY <3>1
    <3>2. CASE range.kind = "blank"
      <4>1. request.size = 0 => p = [status |-> 500]
        BY <3>2 DEF R!Parsed
      <4>2. request.size # 0 => p = [status |-> 206, first |-> 0, last |-> request.size - 1]
        BY <3>2, <2>2 DEF R!Parsed
      <4> QED
        BY <2>4, <4>1, <4>2
    <3> QED
      BY <2>4, <3>1, <3>2
  <2>5. ASSUME range.kind = "malformed" PROVE p.status \in {400, 500}
    <3>1. request.size = 0 => p = [status |-> 500]
      BY <2>5 DEF R!Parsed
    <3>2. request.size # 0 => p = [status |-> 400]
      BY <2>5, <2>2 DEF R!Parsed
    <3> QED
      BY <3>1, <3>2
  <2>6. ASSUME range.kind = "range", request.size = 0 PROVE p.status = 500
    BY <2>6 DEF R!Parsed
  <2>7. ASSUME range.kind = "range", request.size > 0
        PROVE  \/ p.status = 416 /\ Bytes(request.size) = {}
               \/ p.status = 400 /\ range.a > range.b
               \/ /\ p.status = 206 /\ p.first \in Int /\ p.last \in Int /\ p.last <= request.size - 1
                  /\ p.first .. p.last = Bytes(request.size) /\ Bytes(request.size) # {}
    <3>1. p = R!Parsed(range, request.size)
      BY <2>7
    <3> HIDE DEF p
    <3> QED
      BY <2>2, <2>7, <3>1, ParsedRange
  <2>8. range.kind \in {"absent", "blank"} => p.status \in {200, 206, 500}
    <3>1. range.kind = "blank" /\ request.size = 0 => p = [status |-> 500]
      BY DEF R!Parsed
    <3>2. range.kind = "blank" /\ request.size # 0 => p = [status |-> 206, first |-> 0, last |-> request.size - 1]
      BY <2>2 DEF R!Parsed
    <3>3. range.kind = "absent" => p = [status |-> 200, first |-> 0, last |-> request.size - 1]
      OBVIOUS
    <3> QED
      BY <3>1, <3>2, <3>3
  <2> HIDE DEF p
  <2>9. CASE p.status \in {200, 206}
    <3>1. p.first \in Int /\ p.last \in Int /\ p.last <= request.size - 1
      BY <2>2, <2>3, <2>4, <2>5, <2>6, <2>7, <2>9
    <3>2. request' = [request EXCEPT !.pc = "send", !.status = p.status, !.first = p.first, !.last = p.last]
      BY <2>1, <2>9
    <3>3. RequestTyped' /\ CheckedOK' /\ SentOK'
      <4>1. request.pc = "answer" /\ request.status = 0 /\ UNCHANGED <<file, meta, range, sent, changes>>
        BY <2>1 DEF CheckedOK
      <4>2. RequestTyped'
        <5>1. "send" \in Stages /\ p.status \in Statuses
          BY <2>9 DEF Stages, Statuses
        <5> QED
          BY <3>1, <3>2, <4>1, <5>1 DEF RequestTyped, Asked
      <4>3. /\ request'.pc = "send" /\ request'.status = p.status /\ request'.seen = request.seen
            /\ request'.size = request.size
        BY <3>2 DEF RequestTyped, Asked, Stages, Statuses
      <4> QED
        BY <2>9, <4>1, <4>2, <4>3 DEF CheckedOK, SentOK, Answered
    <3>4. Bytes(request.size)' = Bytes(request.size)
      BY <2>1, <3>2 DEF Bytes, RequestTyped, Asked, Stages, Statuses
    <3>5. RangeOK'
      <4>1. /\ request'.status = p.status /\ request'.first = p.first /\ request'.last = p.last
            /\ request'.size = request.size /\ range' = range
        BY <2>1, <3>2 DEF RequestTyped, Asked, Stages, Statuses
      <4> HIDE DEF Bytes
      <4> QED
        BY <2>2, <2>4, <2>6, <2>7, <2>9, <3>1, <3>4, <4>1 DEF RangeOK, Answered
    <3> QED
      BY <3>3, <3>5
  <2>10. CASE p.status \notin {200, 206}
    <3>1. p.status \in {400, 416, 500} /\ request' = [request EXCEPT !.pc = "end", !.status = p.status]
      BY <2>1, <2>2, <2>3, <2>5, <2>6, <2>7, <2>8, <2>10 DEF R!Fail
    <3>2. /\ request'.status = p.status /\ request'.size = request.size /\ range' = range
          /\ range.kind = "range" /\ p.status = 416 => Bytes(request.size) = {}
          /\ range.kind = "range" /\ p.status = 400 => range.a > range.b
      BY <2>1, <2>2, <2>6, <2>7, <3>1 DEF RequestTyped, Asked, Stages, Statuses
    <3>3. Bytes(request.size)' = Bytes(request.size)
      BY <3>2 DEF Bytes
    <3>4. RangeOK'
      BY <3>1, <3>2, <3>3 DEF RangeOK, Answered
    <3>5. RequestTyped' /\ CheckedOK' /\ SentOK'
      <4>1. UNCHANGED <<file, meta, range, sent, changes>>
        BY <2>1
      <4>2. RequestTyped'
        <5>1. "end" \in Stages /\ p.status \in Statuses
          BY <3>1 DEF Stages, Statuses
        <5> QED
          BY <3>1, <4>1, <5>1 DEF RequestTyped, Asked
      <4>3. request'.pc = "end" /\ request'.status = p.status
        BY <3>1 DEF RequestTyped, Asked, Stages, Statuses
      <4> QED
        BY <3>1, <4>1, <4>2, <4>3 DEF CheckedOK, SentOK, Answered
    <3> QED
      BY <3>4, <3>5
  <2> QED
    BY <2>9, <2>10
<1>9. CASE R!SendBytes
  <2>1. /\ request' = [request EXCEPT !.pc = "end"] /\ request.pc = "send"
        /\ sent' = [at |-> request.first .. R!Min({request.last, file.size - 1}), of |-> {file.digest}]
        /\ UNCHANGED <<file, meta, range, changes>>
    BY <1>9 DEF R!SendBytes, R!Go
  <2>2. /\ request.last \in Int /\ request.first \in Int /\ file.size \in Int /\ request.size \in Int
        /\ request.last <= request.size - 1
    BY <1>4, <2>1 DEF RequestTyped, Asked, CheckedOK, RangeOK, Answered
  <2> DEFINE last == R!Min({request.last, file.size - 1})
  <2>3. last \in Int /\ last <= request.last /\ (file.size >= request.size => last = request.last)
    BY <2>2, MinOfTwo
  <2>4. sent'.at = request.first .. last
    BY <2>1
  <2> HIDE DEF last
  <2>5. RequestTyped' /\ CheckedOK' /\ RangeOK'
    BY <2>1 DEF RequestTyped, Asked, Stages, Statuses, CheckedOK, RangeOK, Answered, Bytes
  <2>6. SentOK'
    <3>1. /\ request'.size = request.size /\ request'.first = request.first /\ request'.last = request.last /\ file' = file
      BY <2>1 DEF RequestTyped, Asked, Stages, Statuses
    <3>2. sent'.at \subseteq request.first .. request.last /\ (file.size >= request.size => sent'.at = request.first .. request.last)
      BY <2>2, <2>3, <2>4
    <3> QED
      BY <3>1, <3>2 DEF SentOK
  <2> QED
    BY <2>5, <2>6
<1>10. ASSUME NEW f \in R!Files, R!Change(f)
       PROVE  RecordingInv'
  BY <1>10 DEF R!Change, RequestTyped, Asked, Stages, Statuses, CheckedOK, RangeOK, SentOK, Answered, Bytes
<1>11. CASE UNCHANGED R!vars
  BY <1>11 DEF R!vars, RequestTyped, Asked, Stages, Statuses, CheckedOK, RangeOK, SentOK, Answered, Bytes
<1> QED
  BY <1>2, <1>3, <1>5, <1>6, <1>7, <1>8, <1>9, <1>10, <1>11 DEF R!Next

LEMMA RecordingInit == R!Init => RecordingInv
BY DEF R!Init, RecordingInv, RequestTyped, Asked, Stages, Statuses, CheckedOK, RangeOK, SentOK, Answered

LEMMA RecordingHolds == RecordingInv => R!RangeIsExact /\ R!SentIsVerified
<1> SUFFICES ASSUME RecordingInv PROVE R!RangeIsExact /\ R!SentIsVerified
  OBVIOUS
<1>1. R!RangeIsExact
  BY DEF RecordingInv, RangeOK, Bytes, R!RangeIsExact
<1>2. request.last \in Int /\ request.size \in Int
  BY DEF RecordingInv, RequestTyped, Asked
<1>3. R!SentIsVerified
  BY <1>2 DEF RecordingInv, RangeOK, CheckedOK, SentOK, Answered, R!SentIsVerified
<1> QED
  BY <1>1, <1>3

(***************************************************************************)
(* The severity rules (Severity): what loads has passed every check, and    *)
(* an answer is that of the rule that precedes all others, in any order.   *)
(***************************************************************************)

LEMMA SameCardinality ==
  /\ \A A : X!IsFiniteSet(A) <=> H!IsFiniteSet(A)
  /\ \A A : X!Cardinality(A) = H!Cardinality(A)
BY DEF X!IsFiniteSet, H!IsFiniteSet, X!Cardinality, H!Cardinality

\* The indices of the rules that match, and those of the most specific of them.
Matching(rs, t, s) == {k \in DOMAIN rs : X!Matches(rs[k], t, s)}
Best(rs, t, s) ==
  {k \in Matching(rs, t, s) : \A j \in Matching(rs, t, s) : X!Specificity(rs[k]) >= X!Specificity(rs[j])}

LEMMA SpecificityIs ==
  ASSUME NEW r, NEW q
  PROVE  X!Specificity(r) \in 0 .. 3 /\ (X!Precedes(r, q) <=> X!Specificity(r) > X!Specificity(q))
<1>1. /\ r.type # "*" /\ r.source # "*" => X!Specificity(r) = 3
      /\ r.type # "*" /\ r.source = "*" => X!Specificity(r) = 2
      /\ r.type = "*" /\ r.source # "*" => X!Specificity(r) = 1
      /\ r.type = "*" /\ r.source = "*" => X!Specificity(r) = 0
  BY DEF X!Specificity
<1>2. /\ q.type # "*" /\ q.source # "*" => X!Specificity(q) = 3
      /\ q.type # "*" /\ q.source = "*" => X!Specificity(q) = 2
      /\ q.type = "*" /\ q.source # "*" => X!Specificity(q) = 1
      /\ q.type = "*" /\ q.source = "*" => X!Specificity(q) = 0
  BY DEF X!Specificity
<1> QED
  BY <1>1, <1>2 DEF X!Precedes

LEMMA BestExists ==
  ASSUME NEW rs, NEW t, NEW s, Matching(rs, t, s) # {}
  PROVE  Best(rs, t, s) # {}
<1> DEFINE W == Matching(rs, t, s)
           Top(k) == X!Specificity(rs[k])
<1>1. \A k \in W : Top(k) \in 0 .. 3
  BY SpecificityIs
<1>2. PICK k \in W : \A j \in W : Top(k) >= Top(j)
  <2> HIDE DEF W, Top
  <2>1. CASE \E k \in W : Top(k) = 3
    BY <1>1, <2>1
  <2>2. CASE (\A k \in W : Top(k) # 3) /\ \E k \in W : Top(k) = 2
    BY <1>1, <2>2
  <2>3. CASE (\A k \in W : Top(k) # 3 /\ Top(k) # 2) /\ \E k \in W : Top(k) = 1
    BY <1>1, <2>3
  <2>4. CASE \A k \in W : Top(k) # 3 /\ Top(k) # 2 /\ Top(k) # 1
    <3>1. \A k \in W : Top(k) = 0
      BY <1>1, <2>4
    <3>2. W # {}
      BY DEF W
    <3> QED
      BY <3>1, <3>2
  <2> QED
    BY <2>1, <2>2, <2>3, <2>4
<1> QED
  BY <1>2 DEF Best

LEMMA ResolveIs ==
  ASSUME NEW rs, NEW t, NEW s
  PROVE  /\ Matching(rs, t, s) = {} => X!Resolve(rs, t, s) = "UNCLASSIFIED"
         /\ \A j, k \in Best(rs, t, s) : j # k => X!Resolve(rs, t, s) = "conflict"
         /\ \A k \in Best(rs, t, s) : Best(rs, t, s) = {k} => X!Resolve(rs, t, s) = rs[k].severity
<1>1. X!Resolve(rs, t, s) =
        IF Matching(rs, t, s) = {} THEN "UNCLASSIFIED"
        ELSE IF \E j, k \in Best(rs, t, s) : j # k THEN "conflict" ELSE rs[CHOOSE k \in Best(rs, t, s) : TRUE].severity
  BY DEF X!Resolve, Matching, Best
<1>2. Best(rs, t, s) \subseteq Matching(rs, t, s)
  BY DEF Best
<1> QED
  BY <1>1, <1>2

\* The answer to rules that are given backwards.
LEMMA ReverseIsSame ==
  ASSUME NEW rs, NEW A, rs \in Seq(A), NEW t, NEW s
  PROVE  X!Resolve(X!Reversed(rs), t, s) = X!Resolve(rs, t, s)
<1> DEFINE n == Len(rs)
           back == X!Reversed(rs)
           W == Matching(rs, t, s)
           Z == Matching(back, t, s)
           B == Best(rs, t, s)
           C == Best(back, t, s)
<1>1. n \in Nat /\ DOMAIN rs = 1 .. n
  OBVIOUS
<1>2. DOMAIN back = 1 .. n /\ \A k \in 1 .. n : back[k] = rs[n - k + 1]
  BY <1>1 DEF X!Reversed
<1>3. W \subseteq 1 .. n /\ Z \subseteq 1 .. n
  BY <1>1, <1>2 DEF Matching
<1> HIDE DEF n, back
<1>4. \A k \in 1 .. n : /\ n - k + 1 \in 1 .. n /\ n - (n - k + 1) + 1 = k
  BY <1>1
<1>5. \A k \in 1 .. n : (n - k + 1 \in W <=> k \in Z) /\ (n - k + 1 \in Z <=> k \in W)
  <2>1. \A k \in 1 .. n : rs[k] = back[n - k + 1]
    BY <1>2, <1>4
  <2> QED
    BY <1>1, <1>2, <1>4, <2>1 DEF Matching
<1>6. \A k \in 1 .. n : X!Specificity(back[k]) = X!Specificity(rs[n - k + 1])
  BY <1>2
<1>7. \A k \in 1 .. n : n - k + 1 \in B => k \in C
  <2> SUFFICES ASSUME NEW k \in 1 .. n, n - k + 1 \in B PROVE k \in C
    OBVIOUS
  <2>1. k \in Z /\ \A j \in W : X!Specificity(rs[n - k + 1]) >= X!Specificity(rs[j])
    BY <1>5 DEF Best
  <2>2. ASSUME NEW j \in Z PROVE X!Specificity(back[k]) >= X!Specificity(back[j])
    <3>1. j \in 1 .. n /\ n - j + 1 \in W
      BY <1>3, <1>5
    <3> QED
      BY <1>6, <2>1, <3>1
  <2> QED
    BY <2>1, <2>2 DEF Best
<1>8. \A k \in 1 .. n : k \in C => n - k + 1 \in B
  <2> SUFFICES ASSUME NEW k \in 1 .. n, k \in C PROVE n - k + 1 \in B
    OBVIOUS
  <2>1. k \in Z /\ \A j \in Z : X!Specificity(back[k]) >= X!Specificity(back[j])
    BY DEF Best
  <2>2. ASSUME NEW j \in W PROVE X!Specificity(rs[n - k + 1]) >= X!Specificity(rs[j])
    <3>1. j \in 1 .. n /\ n - j + 1 \in Z /\ n - j + 1 \in 1 .. n
      BY <1>3, <1>4, <1>5
    <3>2. X!Specificity(back[n - j + 1]) = X!Specificity(rs[j])
      BY <1>4, <1>6, <3>1
    <3> QED
      BY <1>6, <2>1, <3>1, <3>2
  <2> QED
    BY <1>5, <2>1, <2>2 DEF Best
<1>9. B \subseteq W /\ C \subseteq Z
  BY DEF Best
<1> HIDE DEF W, Z, B, C
<1>10. CASE W = {}
  <2>1. Z = {}
    BY <1>3, <1>4, <1>5, <1>10
  <2> QED
    BY <1>10, <2>1, ResolveIs DEF W, Z, back
<1>11. CASE W # {}
  <2>1. PICK j \in B : TRUE
    BY <1>11, BestExists DEF W, B
  <2>2. j \in 1 .. n /\ n - j + 1 \in C /\ n - j + 1 \in 1 .. n
    BY <1>3, <1>4, <1>7, <1>9, <2>1
  <2>3. CASE \E k \in B : k # j
    <3>1. PICK k \in B : k # j
      BY <2>3
    <3>2. k \in 1 .. n /\ n - k + 1 \in C
      BY <1>3, <1>4, <1>7, <1>9
    <3>3. n - k + 1 # n - j + 1
      BY <1>1, <2>2, <3>1, <3>2
    <3> QED
      <4>1. X!Resolve(rs, t, s) = "conflict"
        BY <2>1, <3>1, ResolveIs DEF B
      <4>2. PICK x, y \in C : x # y
        BY <2>2, <3>2, <3>3
      <4>3. X!Resolve(back, t, s) = "conflict"
        BY <4>2, ResolveIs DEF C
      <4> QED
        BY <4>1, <4>3 DEF back
  <2>4. CASE \A k \in B : k = j
    <3>1. B = {j}
      BY <2>1, <2>4
    <3>2. \A k \in C : k = n - j + 1
      <4> SUFFICES ASSUME NEW k \in C PROVE k = n - j + 1
        OBVIOUS
      <4>1. k \in 1 .. n /\ n - k + 1 = j
        BY <1>3, <1>8, <1>9, <2>4
      <4> QED
        BY <1>1, <4>1
    <3>3. C = {n - j + 1}
      BY <2>2, <3>2
    <3>4. X!Resolve(rs, t, s) = rs[j].severity /\ X!Resolve(back, t, s) = back[n - j + 1].severity
      BY <2>1, <2>2, <3>1, <3>3, ResolveIs DEF B, C
    <3>5. back[n - j + 1] = rs[j]
      BY <1>2, <1>4, <2>2
    <3> QED
      BY <3>4, <3>5 DEF back
  <2> QED
    BY <2>3, <2>4
<1> QED
  BY <1>10, <1>11

SeverityInv ==
  /\ artifact \in SomeArtifacts
  /\ process = "up" => X!Loadable(artifact) /\ rules = artifact.rules
  /\ asked.rules \in Seq(X!Range(asked.rules)) /\ asked.answer = X!Resolve(asked.rules, asked.type, asked.source)

LEMMA SeverityInit == X!Init => SeverityInv
<1> SUFFICES ASSUME X!Init PROVE SeverityInv
  OBVIOUS
<1>1. /\ artifact \in SomeArtifacts /\ process = "down" /\ asked.rules = <<>> /\ asked.type = "" /\ asked.source = ""
      /\ asked.answer = "UNCLASSIFIED"
  BY DEF X!Init, X!Nothing
<1>2. Matching(<<>>, "", "") = {}
  BY DEF Matching
<1>3. X!Resolve(<<>>, "", "") = "UNCLASSIFIED"
  BY <1>2, ResolveIs
<1>4. <<>> \in Seq(X!Range(<<>>))
  OBVIOUS
<1> QED
  BY <1>1, <1>3, <1>4 DEF SeverityInv

LEMMA SeverityStep ==
  ASSUME SeverityInv, [X!Next]_X!vars
  PROVE  SeverityInv'
<1>1. CASE X!Start
  BY <1>1 DEF X!Start, SeverityInv
<1>2. ASSUME NEW t, NEW s, NEW rs \in {rules} \cup SomeRules, X!Classify(rs, t, s)
      PROVE  SeverityInv'
  <2>1. rs \in Seq(X!Range(rs))
    BY <1>2, ShownConstantsOK DEF X!Classify, X!RulesetsOK, SeverityInv
  <2>2. /\ asked'.rules = rs /\ asked'.answer = X!Resolve(rs, t, s) /\ asked'.type = t /\ asked'.source = s
        /\ UNCHANGED <<artifact, process, rules>>
    BY <1>2 DEF X!Classify
  <2> QED
    BY <2>1, <2>2 DEF SeverityInv
<1>3. CASE UNCHANGED X!vars
  BY <1>3 DEF X!vars, SeverityInv
<1> QED
  BY <1>1, <1>2, <1>3 DEF X!Next

LEMMA SeverityHolds == SeverityInv => X!AnswerIsPrecedence /\ X!UpMeansChecked
<1> SUFFICES ASSUME SeverityInv PROVE X!AnswerIsPrecedence /\ X!UpMeansChecked
  OBVIOUS
<1>1. X!AnswerIsPrecedence
  <2> DEFINE rs == asked.rules
             W == Matching(rs, asked.type, asked.source)
             B == Best(rs, asked.type, asked.source)
             First == {k \in W : \A j \in W \ {k} : X!Precedes(rs[k], rs[j])}
  <2>1. asked.answer = X!Resolve(rs, asked.type, asked.source) /\ rs \in Seq(X!Range(rs))
    BY DEF SeverityInv
  <2>2. \A j, k \in W : /\ X!Specificity(rs[k]) \in Int
                        /\ X!Precedes(rs[k], rs[j]) <=> X!Specificity(rs[k]) > X!Specificity(rs[j])
    BY SpecificityIs
  <2>3. ASSUME NEW k \in First PROVE asked.answer = rs[k].severity
    <3>1. k \in B
      BY <2>2 DEF Best
    <3>2. B = {k}
      <4>1. \A j \in B : j \in W /\ X!Specificity(rs[j]) >= X!Specificity(rs[k])
        BY DEF Best
      <4> QED
        BY <2>2, <3>1, <4>1
    <3> QED
      BY <2>1, <3>1, <3>2, ResolveIs
  <2>4. ASSUME First = {} PROVE asked.answer = (IF W = {} THEN "UNCLASSIFIED" ELSE "conflict")
    <3>1. CASE W = {}
      BY <2>1, <3>1, ResolveIs
    <3>2. CASE W # {}
      <4>1. PICK b \in B : TRUE
        BY <3>2, BestExists
      <4>2. b \in W /\ \A j \in W : X!Specificity(rs[b]) >= X!Specificity(rs[j])
        BY <4>1 DEF Best
      <4>3. PICK j \in W \ {b} : ~X!Precedes(rs[b], rs[j])
        BY <2>4, <4>2
      <4>4. \A i \in W : X!Specificity(rs[j]) >= X!Specificity(rs[i])
        BY <2>2, <4>2, <4>3
      <4>5. j \in B /\ j # b
        BY <4>3, <4>4 DEF Best
      <4> QED
        BY <2>1, <3>2, <4>1, <4>5, ResolveIs
    <3> QED
      BY <3>1, <3>2
  <2>5. asked.answer = X!Resolve(X!Reversed(rs), asked.type, asked.source)
    BY <2>1, ReverseIsSame
  <2>6. W = {k \in DOMAIN asked.rules : X!Matches(asked.rules[k], asked.type, asked.source)}
    BY DEF Matching
  <2> HIDE DEF W
  <2> QED
    BY <2>3, <2>4, <2>5, <2>6 DEF X!AnswerIsPrecedence
<1>2. X!UpMeansChecked
  <2> SUFFICES ASSUME process = "up"
               PROVE  /\ artifact.fault = "none" /\ rules = artifact.rules
                      /\ X!Cardinality(X!IdsOf(rules)) = Len(rules)
                      /\ \A r \in X!Range(rules) : r.type # "*" /\ r.fault = "none"
                      /\ \A n \in X!Range(artifact.nonExecutable) : n.id \notin X!IdsOf(rules)
    BY DEF X!UpMeansChecked
  <2>1. X!Loadable(artifact) /\ rules = artifact.rules /\ artifact \in SomeArtifacts
    BY DEF SeverityInv
  <2>2. artifact.fault = "none" /\ rules \in Seq(X!Range(rules))
    BY <2>1, ShownConstantsOK DEF X!Loadable, X!IntegrityHolds, X!VersionBound, X!RulesetsOK
  <2>3. \A j, k \in DOMAIN rules : rules[j].id = rules[k].id => j = k
    BY <2>1 DEF X!Loadable
  <2>4. X!Cardinality(X!IdsOf(rules)) = Len(rules)
    <3> DEFINE n == Len(rules)
               f == [k \in 1 .. n |-> rules[k].id]
    <3>1. n \in Nat /\ DOMAIN rules = 1 .. n
      BY <2>2
    <3> HIDE DEF n
    <3>2. X!IdsOf(rules) = {rules[k].id : k \in 1 .. n}
      BY <3>1 DEF X!IdsOf, X!Range
    <3>3. f \in H!Bijection(1 .. n, X!IdsOf(rules))
      <4>1. f \in [1 .. n -> X!IdsOf(rules)]
        BY <3>2
      <4>2. \A j, k \in 1 .. n : f[j] = f[k] => j = k
        BY <2>3, <3>1
      <4>3. \A i \in X!IdsOf(rules) : \E k \in 1 .. n : f[k] = i
        BY <3>2
      <4> HIDE DEF f
      <4> QED
        BY <4>1, <4>2, <4>3 DEF H!Bijection, H!Injection, H!Surjection, H!IsInjective
    <3> HIDE DEF f
    <3>4. H!ExistsBijection(1 .. n, X!IdsOf(rules))
      BY <3>3 DEF H!ExistsBijection
    <3>5. H!IsFiniteSet(1 .. n) /\ H!Cardinality(1 .. n) = n
      BY <3>1, H!FS_Interval
    <3>6. H!Cardinality(X!IdsOf(rules)) = n
      BY <3>4, <3>5, H!FS_Bijection
    <3> QED
      BY <3>6, SameCardinality DEF n
  <2>5. /\ \A r \in X!Range(rules) : r.type # "*" /\ r.fault = "none"
        /\ \A k \in X!Range(artifact.nonExecutable) : k.id \notin X!IdsOf(rules)
    BY <2>1 DEF X!Loadable, X!RuleFine
  <2> QED
    BY <2>1, <2>2, <2>4, <2>5
<1> QED
  BY <1>1, <1>2

(***************************************************************************)
(* The feed (OperatorFeed), for any events, page and batch: what a reader  *)
(* has been given up to its cursor, and what its batch holds beyond it.    *)
(***************************************************************************)

LogTyped ==
  /\ lastGiven \in Nat /\ saved \in Nat /\ gone \subseteq 1 .. saved
  /\ DOMAIN log \subseteq FeedEvents \cap 1 .. saved
  /\ log = [e \in DOMAIN log |-> log[e]] /\ \A e \in DOMAIN log : log[e] \in 1 .. lastGiven
  /\ gone \cap DOMAIN log = {}

\* A finite set of numbers that is not empty has a largest one: of the sets of numbers above
\* one of them, take a smallest.
LEMMA MaxOfFinite ==
  ASSUME NEW A \in SUBSET Nat, NEW b \in Nat, A # {}, \A x \in A : x <= b
  PROVE  F!Max(A) \in A /\ \A y \in A : y <= F!Max(A)
<1> DEFINE Above(x) == {y \in A : y > x}
           W == {Above(x) : x \in A}
<1>0. H!IsFiniteSet(A)
  BY H!FS_BoundedSetOfNaturals
<1>1. W \subseteq H!FiniteSubsetsOf(A) /\ W # {}
  <2>1. \A x \in A : Above(x) \in SUBSET A
    OBVIOUS
  <2>2. \A x \in A : H!IsFiniteSet(Above(x))
    BY <1>0, <2>1, H!FS_Subset
  <2> QED
    BY <2>1, <2>2 DEF H!FiniteSubsetsOf
<1>2. PICK w \in W : \A y \in W : <<y, w>> \notin H!StrictSubsetOrdering(A)
  <2>1. H!IsWellFoundedOn(H!StrictSubsetOrdering(A), H!FiniteSubsetsOf(A))
    BY H!FS_StrictSubsetOrderingWellFounded
  <2> HIDE DEF W
  <2> QED
    BY <1>1, <2>1, H!WFMin
<1>3. PICK x \in A : w = Above(x)
  OBVIOUS
<1>4. \A y \in A : x >= y
  <2> SUFFICES ASSUME NEW y \in A, y > x PROVE FALSE
    OBVIOUS
  <2>0. x \in Nat /\ y \in Nat /\ \A z \in A : z \in Nat
    OBVIOUS
  <2>1. (\A z \in A : z > y => z > x) /\ ~(y > y)
    BY <2>0
  <2>2. Above(y) \subseteq Above(x) /\ y \in Above(x) /\ y \notin Above(y)
    BY <2>1
  <2>3. <<Above(y), Above(x)>> \in H!StrictSubsetOrdering(A)
    BY <2>2 DEF H!StrictSubsetOrdering
  <2> QED
    BY <1>2, <1>3, <2>3
<1>5. \E m \in A : \A y \in A : m >= y
  BY <1>4
<1> QED
  BY <1>5 DEF F!Max

LEMMA TopIs ==
  ASSUME LogTyped
  PROVE  F!Top \in 0 .. lastGiven /\ \A e \in DOMAIN log : log[e] <= F!Top
<1>1. CASE DOMAIN log = {}
  BY <1>1 DEF F!Top, LogTyped
<1>2. CASE DOMAIN log # {}
  <2> DEFINE A == {log[e] : e \in DOMAIN log}
  <2>1. A \in SUBSET Nat /\ A # {} /\ \A x \in A : x <= lastGiven
    BY <1>2 DEF LogTyped
  <2>2. F!Top = F!Max(A)
    BY <1>2 DEF F!Top
  <2>3. \A e \in DOMAIN log : log[e] \in A
    OBVIOUS
  <2> HIDE DEF A
  <2>4. F!Top \in A /\ \A x \in A : x <= F!Top
    BY <2>1, <2>2, MaxOfFinite DEF LogTyped
  <2> QED
    BY <2>1, <2>3, <2>4 DEF LogTyped
<1> QED
  BY <1>1, <1>2

\* What a query returns.
LEMMA AfterIs ==
  ASSUME LogTyped, NEW c \in Int, NEW most \in Nat, NEW ids \in F!After(c, most)
  PROVE  /\ ids \in Seq(FeedEvents) /\ Len(ids) <= most
         /\ \A k \in DOMAIN ids : ids[k] \in DOMAIN log /\ log[ids[k]] > c
         /\ \A j, k \in DOMAIN ids : j < k => log[ids[j]] < log[ids[k]]
         /\ \A e \in DOMAIN log : log[e] > c /\ (\A k \in DOMAIN ids : ids[k] # e)
              => Len(ids) = most /\ \A k \in DOMAIN ids : log[ids[k]] < log[e]
<1> DEFINE later == {e \in DOMAIN log : log[e] > c}
<1>1. PICK n \in 0 .. most : ids \in [1 .. n -> later]
  BY DEF F!After
<1>2. ids \in Seq(FeedEvents) /\ Len(ids) = n
  BY <1>1 DEF LogTyped
<1>3. /\ \A j, k \in DOMAIN ids : j < k => log[ids[j]] < log[ids[k]]
      /\ \A e \in later \ F!Range(ids) : Len(ids) = most /\ \A k \in DOMAIN ids : log[ids[k]] < log[e]
  BY DEF F!After
<1>4. \A e \in later : (\A k \in DOMAIN ids : ids[k] # e) => e \notin F!Range(ids)
  BY DEF F!Range
<1>5. \A k \in DOMAIN ids : ids[k] \in later
  BY <1>1
<1> QED
  BY <1>1, <1>2, <1>3, <1>4, <1>5

\* The stream and what the client has of it.
Frame == [id : FeedEvents, seq : Nat]
Awake == stream.pc \in {"query", "check", "emit"}
Behind == IF stream.cursor = F!None THEN stream.base ELSE stream.cursor
StreamPcs == {"off", "fresh", "query", "check", "emit"}
Streams == [pc : StreamPcs, base : Nat, cursor : Int, top : Nat, items : Seq(FeedEvents) \cup Seq(Frame)]
StreamTyped ==
  /\ stream \in Streams /\ start \in Int
  /\ received \in Seq(Frame) /\ \A k \in DOMAIN received : received[k].seq <= lastGiven
  /\ stream.base <= lastGiven /\ stream.cursor \in {F!None} \cup 0 .. lastGiven /\ stream.top <= lastGiven
  /\ stream.pc = "fresh" => stream.cursor = F!None
  /\ stream.pc = "check" => stream.items \in Seq(FeedEvents)
  /\ stream.pc = "emit" => stream.items \in Seq(Frame) /\ \A k \in DOMAIN stream.items : stream.items[k].seq <= lastGiven
\* What was never archived stays in the log under its seq, comes to the client once and before
\* all that comes after it.
Kept(e) == e \notin moved \cup gone
OrderOK ==
  /\ \A k \in DOMAIN received :
       Kept(received[k].id) => received[k].id \in DOMAIN log /\ log[received[k].id] = received[k].seq
  /\ F!FramesInOrder
  /\ stream.pc = "fresh" => received = <<>>
  /\ Awake /\ stream.cursor = F!None => received = <<>> /\ start = stream.base
  /\ Awake => \A k \in DOMAIN received : Kept(received[k].id) => received[k].seq <= stream.cursor
Given(e) == \E k \in DOMAIN received : received[k].id = e
\* After an empty snapshot, there is nothing undisturbed up to the highest seq it saw.
EmptyOK ==
  stream.items = <<>> /\ stream.cursor = F!None =>
    \A e \in F!Undisturbed : log[e] > stream.base => log[e] > stream.top
\* Of a batch, what is in the log is beyond what the client has, and what was never archived is in
\* order; an undisturbed event up to one of the batch is given or in the batch.
BatchOK ==
  stream.pc = "check" =>
    /\ EmptyOK
    /\ \A k \in DOMAIN stream.items : stream.items[k] \in 1 .. saved /\ (Kept(stream.items[k]) => stream.items[k] \in DOMAIN log)
    /\ \A k \in DOMAIN stream.items, r \in DOMAIN received :
         Kept(received[r].id) /\ stream.items[k] \in DOMAIN log => received[r].seq < log[stream.items[k]]
    /\ \A j, k \in DOMAIN stream.items :
         j < k /\ Kept(stream.items[j]) /\ stream.items[k] \in DOMAIN log => log[stream.items[j]] < log[stream.items[k]]
    /\ \A e \in F!Undisturbed \cap severity : \A k \in DOMAIN stream.items :
         log[e] > start /\ stream.items[k] \in DOMAIN log /\ log[e] <= log[stream.items[k]]
           => Given(e) \/ \E j \in DOMAIN stream.items : stream.items[j] = e
FramesOK ==
  stream.pc = "emit" =>
    /\ EmptyOK
    /\ \A k \in DOMAIN stream.items :
         Kept(stream.items[k].id) => stream.items[k].id \in DOMAIN log /\ log[stream.items[k].id] = stream.items[k].seq
    /\ \A k \in DOMAIN stream.items, r \in DOMAIN received : Kept(received[r].id) => received[r].seq < stream.items[k].seq
    /\ \A j, k \in DOMAIN stream.items :
         j < k /\ stream.items[j].id \notin moved => stream.items[j].seq < stream.items[k].seq
    /\ \A e \in F!Undisturbed : \A k \in DOMAIN stream.items : stream.items[k].id \in moved => stream.items[k].seq < log[e]
    /\ \A e \in F!Undisturbed \cap severity : \A k \in DOMAIN stream.items :
         log[e] > start /\ log[e] <= stream.items[k].seq => Given(e) \/ \E j \in DOMAIN stream.items : stream.items[j].id = e
\* Up to c, the client has the undisturbed events that pass its filter.
Covered(c) == \A e \in F!Undisturbed \cap severity : log[e] > start /\ log[e] <= c => Given(e)
CoverOK ==
  /\ received # <<>> => Covered(received[Len(received)].seq)
  /\ Awake /\ stream.cursor # F!None => Covered(stream.cursor)
StreamInv == LogTyped /\ StreamTyped /\ OrderOK /\ BatchOK /\ FramesOK /\ CoverOK

\* What a save or a deletion does to the log: what was not archived stays where it is, what comes in
\* comes behind all there is, and an undisturbed event that comes in behind every seq given so far.
LogGrows ==
  /\ LogTyped' /\ lastGiven <= lastGiven' /\ saved <= saved' /\ moved \subseteq moved'
  /\ moved \cup gone \subseteq moved' \cup gone'
  /\ \A e \in DOMAIN log : e \notin moved' \cup gone' => e \in DOMAIN log' /\ log'[e] = log[e]
  /\ \A x \in DOMAIN log' : (x \in DOMAIN log /\ log'[x] = log[x]) \/ \A e \in DOMAIN log : log[e] < log'[x]
  /\ \A e \in F!Undisturbed' : (e \in F!Undisturbed /\ log'[e] = log[e]) \/ log'[e] > lastGiven
  /\ F!Undisturbed' # {} =>
       moved' = moved /\ \A x \in DOMAIN log' : (x \in DOMAIN log /\ log'[x] = log[x]) \/ x > saved
  /\ UNCHANGED <<stream, received, start, severity>>

LEMMA SaveGrows ==
  ASSUME LogTyped, NEW e \in FeedEvents, F!SaveNew(e) \/ F!SaveCopy(e)
  PROVE  LogGrows
<1>1. /\ e \notin DOMAIN log /\ log' = [x \in DOMAIN log \cup {e} |-> IF x = e THEN F!Top + 1 ELSE log[x]]
      /\ lastGiven' = F!Max({lastGiven, F!Top + 1}) /\ gone' = gone \ {e}
      /\ reused' = (IF F!Top + 1 <= lastGiven THEN reused \cup {e} ELSE reused)
      /\ moved' = (IF e \in gone THEN moved \cup {e} ELSE moved)
      /\ UNCHANGED <<stream, received, start, severity>>
  BY DEF F!SaveNew, F!SaveCopy, F!Save
<1>2. e \in 1 .. saved' /\ saved' \in Nat /\ saved <= saved' /\ (e \notin gone => e > saved)
  BY DEF F!SaveNew, F!SaveCopy, LogTyped
<1>3. F!Top \in 0 .. lastGiven /\ lastGiven \in Nat
  BY TopIs DEF LogTyped
<1>4. lastGiven' \in Nat /\ lastGiven <= lastGiven' /\ F!Top + 1 <= lastGiven'
  <2>1. /\ lastGiven >= F!Top + 1 \/ F!Top + 1 >= lastGiven
        /\ lastGiven \in Nat /\ F!Top + 1 \in Nat
    BY <1>3
  <2>2. \E m \in {lastGiven, F!Top + 1} : \A y \in {lastGiven, F!Top + 1} : m >= y
    BY <2>1
  <2>3. F!Max({lastGiven, F!Top + 1}) \in {lastGiven, F!Top + 1} /\ \A y \in {lastGiven, F!Top + 1} : F!Max({lastGiven, F!Top + 1}) >= y
    BY <2>2 DEF F!Max
  <2> QED
    BY <1>1, <2>1, <2>3
<1> DEFINE new == F!Top + 1
<1>5. new \in 1 .. lastGiven' /\ new \in Int
  BY <1>3, <1>4
<1>6. /\ DOMAIN log' = DOMAIN log \cup {e} /\ log'[e] = new
      /\ \A x \in DOMAIN log : log'[x] = log[x] /\ x # e
      /\ log' = [x \in DOMAIN log' |-> log'[x]]
  BY <1>1
<1>7. e \in reused' \/ new > lastGiven
  BY <1>1, <1>3
<1>8. \A x \in DOMAIN log : log[x] < new
  BY <1>3, TopIs DEF LogTyped
<1> HIDE DEF new
<1>9. LogTyped'
  BY <1>1, <1>2, <1>4, <1>5, <1>6 DEF LogTyped
<1>10. moved \subseteq moved' /\ moved \cup gone \subseteq moved' \cup gone' /\ reused \subseteq reused'
  BY <1>1
<1>11. \A x \in DOMAIN log' : (x \in DOMAIN log /\ log'[x] = log[x]) \/ \A y \in DOMAIN log : log[y] < log'[x]
  BY <1>6, <1>8
\* An event that was archived comes in behind all others, and disturbs them.
<1>12. CASE e \in gone
  <2>1. e \in moved' /\ log'[e] = new
    BY <1>1, <1>6, <1>12
  <2>2. F!Undisturbed' = {}
    <3> SUFFICES ASSUME NEW x \in F!Undisturbed' PROVE FALSE
      OBVIOUS
    <3>1. x \in DOMAIN log' /\ x \notin moved' /\ new < log'[x]
      BY <2>1 DEF F!Undisturbed
    <3>2. x \in DOMAIN log /\ log'[x] = log[x] /\ log[x] < new
      BY <1>6, <1>8, <2>1, <3>1
    <3> QED
      BY <1>5, <3>1, <3>2 DEF LogTyped
  <2> QED
    BY <1>1, <1>2, <1>4, <1>6, <1>9, <1>10, <1>11, <2>2 DEF LogGrows
<1>13. CASE e \notin gone
  <2>1. moved' = moved /\ e > saved
    BY <1>1, <1>2, <1>13
  <2>2. \A x \in DOMAIN log' : (x \in DOMAIN log /\ log'[x] = log[x]) \/ x > saved
    BY <1>6, <2>1
  <2>3. ASSUME NEW x \in F!Undisturbed'
        PROVE  (x \in F!Undisturbed /\ log'[x] = log[x]) \/ log'[x] > lastGiven
    <3>1. /\ x \in DOMAIN log' /\ x \notin reused' /\ x \notin moved
          /\ \A m \in moved : m \in DOMAIN log' /\ log'[m] < log'[x]
      BY <2>1 DEF F!Undisturbed
    <3>2. CASE x = e
      BY <1>6, <1>7, <3>1, <3>2
    <3>3. CASE x # e
      <4>1. x \in DOMAIN log /\ log'[x] = log[x] /\ x \notin reused
        BY <1>6, <1>10, <3>1, <3>3
      <4>2. ASSUME NEW m \in moved PROVE m \in DOMAIN log /\ log[m] < log[x]
        <5>1. m \in DOMAIN log' /\ log'[m] < log[x]
          BY <3>1, <4>1
        <5>2. m # e
          BY <1>5, <1>6, <1>8, <4>1, <5>1 DEF LogTyped
        <5> QED
          BY <1>6, <5>1, <5>2
      <4> QED
        BY <3>1, <4>1, <4>2 DEF F!Undisturbed
    <3> QED
      BY <3>2, <3>3
  <2> QED
    BY <1>1, <1>2, <1>4, <1>6, <1>9, <1>10, <1>11, <2>1, <2>2, <2>3 DEF LogGrows
<1> QED
  BY <1>12, <1>13

LEMMA DeleteGrows ==
  ASSUME LogTyped, NEW e \in FeedEvents, F!Delete(e)
  PROVE  LogGrows
<1>1. /\ e \in DOMAIN log /\ log' = [x \in DOMAIN log \ {e} |-> log[x]] /\ gone' = gone \cup {e}
      /\ UNCHANGED <<lastGiven, reused, saved, moved, stream, received, start, severity>>
  BY DEF F!Delete
<1>2. LogTyped'
  BY <1>1 DEF LogTyped
<1>3. DOMAIN log' = DOMAIN log \ {e} /\ \A x \in DOMAIN log' : log'[x] = log[x]
  BY <1>1
<1>4. ASSUME NEW x \in F!Undisturbed' PROVE x \in F!Undisturbed /\ log'[x] = log[x]
  BY <1>1, <1>3, <1>4 DEF F!Undisturbed
<1> QED
  BY <1>1, <1>2, <1>3, <1>4 DEF LogGrows, LogTyped

LEMMA StreamKeeps ==
  ASSUME StreamInv, LogGrows
  PROVE  StreamInv'
<1>1. LogTyped' /\ StreamTyped'
  <2>1. /\ lastGiven \in Nat /\ lastGiven' \in Nat /\ lastGiven <= lastGiven'
        /\ stream' = stream /\ start' = start /\ received' = received
    BY DEF StreamInv, LogGrows, LogTyped
  <2>2. /\ \A k \in DOMAIN received : received[k].seq \in Nat
        /\ stream.base \in Nat /\ stream.top \in Nat
        /\ stream.pc = "emit" => \A k \in DOMAIN stream.items : stream.items[k].seq \in Nat
    <3>1. \A k \in DOMAIN received : received[k] \in Frame
      BY DEF StreamInv, StreamTyped
    <3>2. stream.pc = "emit" => \A k \in DOMAIN stream.items : stream.items[k] \in Frame
      BY DEF StreamInv, StreamTyped
    <3>3. stream.base \in Nat /\ stream.top \in Nat
      BY DEF StreamInv, StreamTyped, Streams
    <3> QED
      BY <3>1, <3>2, <3>3 DEF Frame
  <2>3. /\ \A k \in DOMAIN received : received[k].seq <= lastGiven'
        /\ stream.pc = "emit" => \A k \in DOMAIN stream.items : stream.items[k].seq <= lastGiven'
        /\ stream.base <= lastGiven' /\ stream.top <= lastGiven'
        /\ stream.cursor \in {F!None} \cup 0 .. lastGiven'
    BY <2>1, <2>2 DEF StreamInv, StreamTyped
  <2>4. StreamTyped'
    BY <2>1, <2>3 DEF StreamInv, StreamTyped
  <2> QED
    BY <2>4 DEF LogGrows
<1>2. /\ stream' = stream /\ received' = received /\ start' = start /\ severity' = severity
      /\ saved \in Nat /\ saved' \in Nat /\ saved <= saved' /\ lastGiven \in Nat
      /\ Awake' = Awake /\ moved \subseteq moved'
  BY <1>1 DEF LogGrows, StreamInv, LogTyped, Awake
<1>3. \A x : x \notin moved' \cup gone' => Kept(x) /\ (x \in DOMAIN log => x \in DOMAIN log' /\ log'[x] = log[x])
  BY DEF LogGrows, Kept
<1>4. \A x \in DOMAIN log' : (x \in DOMAIN log /\ log'[x] = log[x]) \/ \A e \in DOMAIN log : log[e] < log'[x]
  BY DEF LogGrows
<1>5. \A e \in F!Undisturbed' : (e \in F!Undisturbed /\ log'[e] = log[e]) \/ log'[e] > lastGiven
  BY DEF LogGrows
<1>6. \A e \in DOMAIN log : log[e] \in Nat /\ log[e] <= lastGiven
  BY DEF StreamInv, LogTyped
<1>7. /\ \A e \in DOMAIN log' : log'[e] \in Nat
      /\ \A e \in F!Undisturbed' : e \in DOMAIN log'
  BY <1>1 DEF LogTyped, F!Undisturbed
<1>8. /\ stream.base \in Nat /\ stream.top \in Nat /\ stream.top <= lastGiven /\ stream.cursor \in Int
      /\ stream.cursor # F!None => stream.cursor <= lastGiven
      /\ \A k \in DOMAIN received : received[k].seq \in Nat /\ received[k].seq <= lastGiven
      /\ received # <<>> => Len(received) \in DOMAIN received
  <2>1. received \in Seq(Frame) /\ \A k \in DOMAIN received : received[k] \in Frame /\ received[k].seq <= lastGiven
    BY DEF StreamInv, StreamTyped
  <2>2. stream \in Streams /\ stream.top <= lastGiven /\ stream.cursor \in {F!None} \cup 0 .. lastGiven
    BY DEF StreamInv, StreamTyped
  <2>3. stream.base \in Nat /\ stream.top \in Nat /\ stream.cursor \in Int
    BY <2>2 DEF Streams
  <2>4. received # <<>> => Len(received) \in DOMAIN received
    BY <2>1
  <2> QED
    BY <1>2, <2>1, <2>2, <2>3, <2>4 DEF Frame, F!None
<1>9. OrderOK'
  <2>1. F!FramesInOrder'
    BY <1>2, <1>3 DEF StreamInv, OrderOK, F!FramesInOrder, Kept
  <2>2. \A k \in DOMAIN received : received[k].id \notin moved' \cup gone' => received[k].id \in DOMAIN log' /\ log'[received[k].id] = received[k].seq
    BY <1>3 DEF StreamInv, OrderOK
  <2>3. Awake => \A k \in DOMAIN received : received[k].id \notin moved' \cup gone' => received[k].seq <= stream.cursor
    BY <1>3 DEF StreamInv, OrderOK
  <2>4. /\ stream.pc = "fresh" => received = <<>>
        /\ Awake /\ stream.cursor = F!None => received = <<>> /\ start = stream.base
    BY DEF StreamInv, OrderOK
  <2> QED
    BY <1>2, <2>1, <2>2, <2>3, <2>4 DEF OrderOK, Kept
<1>10. EmptyOK => EmptyOK'
  BY <1>2, <1>5, <1>7, <1>8 DEF EmptyOK
<1>11. \A e : Given(e)' <=> Given(e)
  BY <1>2 DEF Given
<1>12. ASSUME NEW c \in Int, c <= lastGiven, Covered(c) PROVE Covered(c)'
  <2> SUFFICES ASSUME NEW e \in F!Undisturbed' \cap severity, log'[e] > start, log'[e] <= c PROVE Given(e)
    BY <1>2, <1>11 DEF Covered
  <2>1. ~(log'[e] > lastGiven)
    BY <1>2, <1>7, <1>12
  <2> QED
    BY <1>5, <1>12, <2>1 DEF Covered
<1>13. CoverOK'
  <2>1. ASSUME received # <<>> PROVE Covered(received[Len(received)].seq)'
    <3>1. PICK c \in Nat : c = received[Len(received)].seq /\ c <= lastGiven
      BY <1>8, <2>1
    <3>2. Covered(c)
      BY <2>1, <3>1 DEF StreamInv, CoverOK
    <3>3. Covered(c)'
      BY <1>12, <3>1, <3>2
    <3> QED
      BY <1>2, <3>1, <3>3 DEF Covered
  <2>2. ASSUME Awake, stream.cursor # F!None PROVE Covered(stream.cursor)'
    <3>1. PICK c \in Int : c = stream.cursor /\ c <= lastGiven
      BY <1>8, <2>2
    <3>2. Covered(c)
      BY <2>2, <3>1 DEF StreamInv, CoverOK
    <3>3. Covered(c)'
      BY <1>12, <3>1, <3>2
    <3> QED
      BY <1>2, <3>1, <3>3 DEF Covered
  <2> QED
    BY <1>2, <2>1, <2>2 DEF CoverOK
\* What the client has of what was never archived is in the log, before all that comes in.
<1>14. ASSUME NEW r \in DOMAIN received, received[r].id \notin moved' \cup gone'
       PROVE  Kept(received[r].id) /\ received[r].id \in DOMAIN log /\ log[received[r].id] = received[r].seq
  BY <1>3, <1>14 DEF StreamInv, OrderOK
<1>15. ASSUME stream.pc = "check" PROVE BatchOK'
  <2> DEFINE items == stream.items
  <2>1. /\ EmptyOK
        /\ \A k \in DOMAIN items : items[k] \in 1 .. saved /\ (Kept(items[k]) => items[k] \in DOMAIN log)
        /\ \A k \in DOMAIN items, r \in DOMAIN received :
             Kept(received[r].id) /\ items[k] \in DOMAIN log => received[r].seq < log[items[k]]
        /\ \A j, k \in DOMAIN items :
             j < k /\ Kept(items[j]) /\ items[k] \in DOMAIN log => log[items[j]] < log[items[k]]
        /\ \A e \in F!Undisturbed \cap severity : \A k \in DOMAIN items :
             log[e] > start /\ items[k] \in DOMAIN log /\ log[e] <= log[items[k]]
               => Given(e) \/ \E j \in DOMAIN items : items[j] = e
    BY <1>15 DEF StreamInv, BatchOK
  <2>2. stream'.items = items /\ stream'.pc = "check"
    BY <1>2, <1>15
  <2> HIDE DEF items
  <2>3. \A k \in DOMAIN items : items[k] \in 1 .. saved' /\ (items[k] \notin moved' \cup gone' => items[k] \in DOMAIN log')
    BY <1>2, <1>3, <2>1
  <2>4. ASSUME NEW k \in DOMAIN items, NEW r \in DOMAIN received, received[r].id \notin moved' \cup gone', items[k] \in DOMAIN log'
        PROVE  received[r].seq < log'[items[k]]
    BY <1>4, <1>14, <2>1, <2>4
  <2>5. ASSUME NEW j \in DOMAIN items, NEW k \in DOMAIN items, j < k, items[j] \notin moved' \cup gone', items[k] \in DOMAIN log'
        PROVE  log'[items[j]] < log'[items[k]]
    <3>1. Kept(items[j]) /\ items[j] \in DOMAIN log /\ log'[items[j]] = log[items[j]]
      BY <1>3, <2>1, <2>5
    <3> QED
      BY <1>4, <2>1, <2>5, <3>1
  <2>6. ASSUME NEW e \in F!Undisturbed' \cap severity, NEW k \in DOMAIN items,
               log'[e] > start, items[k] \in DOMAIN log', log'[e] <= log'[items[k]]
        PROVE  Given(e) \/ \E j \in DOMAIN items : items[j] = e
    <3>1. items[k] \in DOMAIN log /\ log'[items[k]] = log[items[k]]
      <4>1. ~(items[k] > saved)
        BY <1>2, <2>1
      <4> QED
        BY <2>6, <4>1 DEF LogGrows
    <3>2. ~(log'[e] > lastGiven)
      BY <1>2, <1>6, <1>7, <2>6, <3>1
    <3>3. e \in F!Undisturbed /\ log'[e] = log[e]
      BY <1>5, <3>2
    <3> QED
      BY <2>1, <2>6, <3>1, <3>3
  <2> QED
    BY <1>2, <1>10, <2>1, <2>2, <2>3, <2>4, <2>5, <2>6 DEF BatchOK, Kept, Given
<1>16. ASSUME stream.pc = "emit" PROVE FramesOK'
  <2> DEFINE items == stream.items
  <2>1. /\ EmptyOK
        /\ \A k \in DOMAIN items : Kept(items[k].id) => items[k].id \in DOMAIN log /\ log[items[k].id] = items[k].seq
        /\ \A k \in DOMAIN items, r \in DOMAIN received : Kept(received[r].id) => received[r].seq < items[k].seq
        /\ \A j, k \in DOMAIN items : j < k /\ items[j].id \notin moved => items[j].seq < items[k].seq
        /\ \A e \in F!Undisturbed : \A k \in DOMAIN items : items[k].id \in moved => items[k].seq < log[e]
        /\ \A e \in F!Undisturbed \cap severity : \A k \in DOMAIN items :
             log[e] > start /\ log[e] <= items[k].seq => Given(e) \/ \E j \in DOMAIN items : items[j].id = e
    BY <1>16 DEF StreamInv, FramesOK
  <2>2. stream'.items = items /\ stream'.pc = "emit"
    BY <1>2, <1>16
  <2>3. \A k \in DOMAIN items : items[k].seq \in Nat /\ items[k].seq <= lastGiven
    <3>1. items \in Seq(Frame) /\ \A k \in DOMAIN items : items[k].seq <= lastGiven
      BY <1>16 DEF StreamInv, StreamTyped
    <3> HIDE DEF items
    <3>2. \A k \in DOMAIN items : items[k] \in Frame
      BY <3>1
    <3> QED
      BY <3>1, <3>2 DEF Frame
  <2> HIDE DEF items
  <2>4. \A k \in DOMAIN items : items[k].id \notin moved' \cup gone' => items[k].id \in DOMAIN log' /\ log'[items[k].id] = items[k].seq
    BY <1>3, <2>1
  <2>5. \A k \in DOMAIN items, r \in DOMAIN received : received[r].id \notin moved' \cup gone' => received[r].seq < items[k].seq
    BY <1>3, <2>1
  <2>6. \A j, k \in DOMAIN items : j < k /\ items[j].id \notin moved' => items[j].seq < items[k].seq
    BY <1>2, <2>1
  <2>7. ASSUME NEW e \in F!Undisturbed', NEW k \in DOMAIN items, items[k].id \in moved' PROVE items[k].seq < log'[e]
    <3>1. items[k].id \in moved
      BY <2>7 DEF LogGrows
    <3>2. CASE e \in F!Undisturbed /\ log'[e] = log[e]
      BY <2>1, <3>1, <3>2
    <3>3. CASE log'[e] > lastGiven
      BY <1>2, <1>7, <2>3, <3>3
    <3> QED
      BY <1>5, <3>2, <3>3
  <2>8. ASSUME NEW e \in F!Undisturbed' \cap severity, NEW k \in DOMAIN items, log'[e] > start, log'[e] <= items[k].seq
        PROVE  Given(e) \/ \E j \in DOMAIN items : items[j].id = e
    <3>1. ~(log'[e] > lastGiven)
      BY <1>2, <1>7, <2>3, <2>8
    <3>2. e \in F!Undisturbed /\ log'[e] = log[e]
      BY <1>5, <3>1
    <3> QED
      BY <2>1, <2>8, <3>2
  <2> QED
    BY <1>2, <1>10, <2>1, <2>2, <2>4, <2>5, <2>6, <2>7, <2>8 DEF FramesOK, Kept, Given
<1> QED
  BY <1>1, <1>2, <1>9, <1>13, <1>15, <1>16 DEF StreamInv, BatchOK, FramesOK

\* The steps of the stream; the log is as it was.
LEMMA StreamStep ==
  ASSUME StreamInv, [F!Next]_F!vars
  PROVE  StreamInv'
<1>0. /\ stream \in Streams /\ stream.base \in Nat /\ stream.cursor \in Int /\ stream.top \in Nat /\ start \in Int
      /\ received \in Seq(Frame) /\ \A k \in DOMAIN received : received[k] \in Frame /\ received[k].seq \in Nat
      /\ LogTyped /\ lastGiven \in Nat /\ saved \in Nat
  <2>1. \A k \in DOMAIN received : received[k] \in Frame
    BY DEF StreamInv, StreamTyped
  <2>2. stream \in Streams /\ stream.base \in Nat /\ stream.cursor \in Int /\ stream.top \in Nat
    BY DEF StreamInv, StreamTyped, Streams
  <2> QED
    BY <2>1, <2>2 DEF StreamInv, StreamTyped, Frame, LogTyped
<1>1. /\ stream.base <= lastGiven /\ stream.cursor \in {F!None} \cup 0 .. lastGiven /\ stream.top <= lastGiven
      /\ \A k \in DOMAIN received : received[k].seq <= lastGiven
      /\ received # <<>> => Len(received) \in DOMAIN received
  BY <1>0 DEF StreamInv, StreamTyped
<1>2. ASSUME UNCHANGED <<log, lastGiven, reused, saved, moved, gone, severity>> PROVE LogTyped'
  BY <1>0, <1>2 DEF LogTyped
\* A stream that ends keeps what its client has.
<1>3. ASSUME stream' = F!Off, UNCHANGED <<log, lastGiven, reused, saved, moved, gone, severity, received, start>>
      PROVE  StreamInv'
  <2>1. stream'.pc = "off" /\ stream'.base = 0 /\ stream'.cursor = F!None /\ stream'.top = 0 /\ stream' \in Streams
    BY <1>3 DEF F!Off, F!None, Streams, StreamPcs
  <2>2. StreamTyped'
    BY <1>0, <1>1, <1>3, <2>1 DEF StreamTyped
  <2>3. OrderOK' /\ BatchOK' /\ FramesOK'
    BY <1>3, <2>1 DEF StreamInv, OrderOK, BatchOK, FramesOK, Awake, Kept, F!FramesInOrder
  <2>4. CoverOK'
    BY <1>3, <2>1 DEF StreamInv, CoverOK, Awake, Covered, Given, F!Undisturbed
  <2> QED
    BY <1>2, <1>3, <2>2, <2>3, <2>4 DEF StreamInv
<1>4. ASSUME NEW e \in FeedEvents, F!SaveNew(e) \/ F!SaveCopy(e) \/ F!Delete(e)
      PROVE  StreamInv'
  BY <1>0, <1>4, SaveGrows, DeleteGrows, StreamKeeps
<1>5. ASSUME UNCHANGED <<log, lastGiven, reused, saved, moved, gone, severity, stream, received, start>>
      PROVE  StreamInv'
  <2>1. F!Undisturbed' = F!Undisturbed
    BY <1>5 DEF F!Undisturbed
  <2>2. LogGrows
    BY <1>0, <1>2, <1>5, <2>1 DEF LogGrows
  <2> QED
    BY <2>2, StreamKeeps
<1>6. CASE F!Connect
  <2>0. stream.pc = "off" /\ UNCHANGED <<log, lastGiven, reused, saved, moved, gone, severity, received, start>>
    BY <1>6 DEF F!Connect, F!logVars
  <2>1. CASE received = <<>>
    <3>1. stream' = [F!Off EXCEPT !.pc = "fresh"]
      BY <1>6, <2>1 DEF F!Connect
    <3>2. /\ stream' \in Streams /\ stream'.pc = "fresh" /\ stream'.base = 0 /\ stream'.cursor = F!None /\ stream'.top = 0
      <4>1. "fresh" \in StreamPcs /\ <<>> \in Seq(FeedEvents)
        BY DEF StreamPcs
      <4>2. /\ stream' = [pc |-> "fresh", base |-> 0, cursor |-> F!None, top |-> 0, items |-> <<>>]
            /\ F!None \in Int
        BY <3>1 DEF F!Off, F!None
      <4> QED
        BY <4>1, <4>2 DEF Streams
    <3>3. StreamTyped'
      BY <1>0, <1>1, <2>0, <3>2 DEF StreamTyped
    <3>4. OrderOK' /\ BatchOK' /\ FramesOK' /\ CoverOK'
      BY <2>0, <2>1, <3>2 DEF OrderOK, BatchOK, FramesOK, CoverOK, Awake, F!FramesInOrder
    <3> QED
      BY <1>2, <2>0, <3>3, <3>4 DEF StreamInv
  <2>2. CASE received # <<>>
    <3> DEFINE last == received[Len(received)].seq
    <3>1. stream' = [F!Off EXCEPT !.pc = "query", !.base = last, !.cursor = last]
      BY <1>6, <2>2 DEF F!Connect
    <3>2. last \in Nat /\ last <= lastGiven /\ last # F!None
      BY <1>0, <1>1, <2>2 DEF F!None
    <3> HIDE DEF last
    <3>3. stream' \in Streams /\ stream'.pc = "query" /\ stream'.base = last /\ stream'.cursor = last /\ stream'.top = 0
      <4>1. "query" \in StreamPcs /\ <<>> \in Seq(FeedEvents)
        BY DEF StreamPcs
      <4>2. stream' = [pc |-> "query", base |-> last, cursor |-> last, top |-> 0, items |-> <<>>]
        BY <3>1 DEF F!Off
      <4> QED
        BY <3>2, <4>1, <4>2 DEF Streams
    <3>4. StreamTyped'
      BY <1>0, <1>1, <2>0, <3>2, <3>3 DEF StreamTyped
    <3>5. OrderOK' /\ BatchOK' /\ FramesOK'
      <4>1. ASSUME NEW k \in DOMAIN received, Kept(received[k].id) PROVE received[k].seq <= last
        <5>1. k \in Int /\ Len(received) \in DOMAIN received /\ k <= Len(received)
          BY <1>0, <1>1, <2>2
        <5>2. k = Len(received) \/ received[k].seq < received[Len(received)].seq
          BY <4>1, <5>1 DEF StreamInv, OrderOK, F!FramesInOrder, Kept
        <5>3. received[k].seq \in Nat
          BY <1>0
        <5> QED
          BY <3>2, <5>2, <5>3 DEF last
      <4>2. OrderOK'
        BY <2>0, <3>2, <3>3, <4>1 DEF StreamInv, OrderOK, Kept, F!FramesInOrder
      <4> QED
        BY <3>3, <4>2 DEF BatchOK, FramesOK
    <3>6. Covered(last)'
      <4>1. Covered(last)
        BY <2>2 DEF StreamInv, CoverOK, last
      <4> QED
        BY <2>0, <4>1 DEF Covered, Given, F!Undisturbed, last
    <3>7. CoverOK'
      BY <2>0, <3>3, <3>6 DEF CoverOK, last
    <3> QED
      BY <1>2, <2>0, <3>4, <3>5, <3>7 DEF StreamInv
  <2> QED
    BY <2>1, <2>2
<1>7. CASE F!Snapshot
  <2> DEFINE base == IF F!Top > PageLimit THEN F!Top - PageLimit ELSE 0
  <2>1. /\ stream.pc = "fresh" /\ stream' = [stream EXCEPT !.pc = "query", !.base = base, !.top = F!Top] /\ start' = base
        /\ UNCHANGED <<log, lastGiven, reused, saved, moved, gone, severity, received>>
    BY <1>7 DEF F!Snapshot, F!logVars
  <2>2. F!Top \in Nat /\ F!Top <= lastGiven /\ base \in Nat /\ base <= lastGiven
    BY <1>0, TopIs, ShownConstantsOK DEF F!FeedOK
  <2> HIDE DEF base
  <2>3. /\ stream' \in Streams /\ stream'.pc = "query" /\ stream'.base = base /\ stream'.cursor = F!None /\ stream'.top = F!Top
    BY <1>0, <2>1, <2>2 DEF StreamInv, StreamTyped, Streams, StreamPcs
  <2>4. StreamTyped'
    BY <1>0, <1>1, <2>1, <2>2, <2>3 DEF StreamTyped
  <2>5. received = <<>> /\ received' = <<>>
    BY <2>1 DEF StreamInv, OrderOK
  <2>6. OrderOK' /\ BatchOK' /\ FramesOK' /\ CoverOK'
    BY <2>1, <2>3, <2>5 DEF OrderOK, BatchOK, FramesOK, CoverOK, Awake, F!FramesInOrder
  <2> QED
    BY <1>2, <2>1, <2>4, <2>6 DEF StreamInv
<1>8. CASE F!Query
  <2>1. PICK items \in IF stream.cursor = F!None THEN F!After(stream.base, PageLimit) ELSE F!After(stream.cursor, TailBatch) :
          /\ stream.cursor = F!None \/ items # <<>>
          /\ stream' = [stream EXCEPT !.pc = "check", !.items = items]
    BY <1>8 DEF F!Query
  <2>2. stream.pc = "query" /\ UNCHANGED <<log, lastGiven, reused, saved, moved, gone, severity, received, start>>
    BY <1>8 DEF F!Query, F!logVars
  <2>3. PICK most \in Nat \ {0} : items \in F!After(Behind, most)
    BY <2>1, ShownConstantsOK DEF Behind, F!FeedOK
  <2>4. Behind \in Int
    BY <1>0 DEF Behind
  <2>5. /\ items \in Seq(FeedEvents)
        /\ \A k \in DOMAIN items : items[k] \in DOMAIN log /\ log[items[k]] > Behind
        /\ \A j, k \in DOMAIN items : j < k => log[items[j]] < log[items[k]]
        /\ \A e \in DOMAIN log : log[e] > Behind /\ (\A k \in DOMAIN items : items[k] # e)
             => Len(items) = most /\ \A k \in DOMAIN items : log[items[k]] < log[e]
    BY <1>0, <2>3, <2>4, AfterIs
  <2>6. /\ stream' \in Streams /\ stream'.pc = "check" /\ stream'.items = items
        /\ stream'.base = stream.base /\ stream'.cursor = stream.cursor /\ stream'.top = stream.top
    BY <1>0, <2>1, <2>5 DEF Streams, StreamPcs
  <2>7. Behind' = Behind
    BY <2>6 DEF Behind
  <2>8. StreamTyped'
    BY <1>0, <1>1, <2>2, <2>5, <2>6 DEF StreamTyped
  <2>9. OrderOK' /\ FramesOK'
    BY <2>2, <2>6 DEF StreamInv, OrderOK, FramesOK, Awake, Kept, F!FramesInOrder
  <2>10. CoverOK'
    BY <2>2, <2>6 DEF StreamInv, CoverOK, Awake, Covered, Given, F!Undisturbed
  <2>11. EmptyOK'
    <3> SUFFICES ASSUME items = <<>>, stream.cursor = F!None PROVE \A e \in DOMAIN log : ~(log[e] > stream.base)
      BY <2>2, <2>6 DEF EmptyOK, F!Undisturbed
    <3>1. Behind = stream.base /\ Len(items) # most /\ DOMAIN items = {}
      BY DEF Behind
    <3> QED
      BY <2>5, <3>1
  <2>12. BatchOK'
    <3>1. \A k \in DOMAIN items : items[k] \in 1 .. saved
      BY <1>0, <2>5 DEF LogTyped
    <3>2. \A e \in DOMAIN log : log[e] \in Nat
      BY <1>0 DEF LogTyped
    <3>3. ASSUME NEW k \in DOMAIN items, NEW r \in DOMAIN received, Kept(received[r].id)
          PROVE  received[r].seq < log[items[k]]
      <4>1. received[r].seq <= stream.cursor /\ stream.cursor # F!None
        BY <2>2, <3>3 DEF StreamInv, OrderOK, Awake
      <4>2. Behind = stream.cursor /\ log[items[k]] > Behind /\ log[items[k]] \in Nat
        BY <2>5, <3>2, <4>1 DEF Behind
      <4> QED
        BY <1>0, <4>1, <4>2
    <3>4. ASSUME NEW e \in F!Undisturbed \cap severity, NEW k \in DOMAIN items, log[e] > start, log[e] <= log[items[k]]
          PROVE  Given(e) \/ \E j \in DOMAIN items : items[j] = e
      <4>1. e \in DOMAIN log
        BY <3>4 DEF F!Undisturbed
      <4>2. CASE log[e] > Behind
        BY <2>5, <3>2, <3>4, <4>1, <4>2
      <4>3. CASE ~(log[e] > Behind)
        <5>1. stream.cursor # F!None
          BY <2>2, <3>4, <4>3 DEF StreamInv, OrderOK, Awake, Behind
        <5>2. Covered(stream.cursor) /\ log[e] <= stream.cursor
          BY <1>0, <2>2, <3>2, <4>1, <4>3, <5>1 DEF StreamInv, CoverOK, Awake, Behind
        <5> QED
          BY <3>4, <5>2 DEF Covered
      <4> QED
        BY <4>2, <4>3
    <3>5. /\ F!Undisturbed' = F!Undisturbed /\ \A e : Given(e)' <=> Given(e)
          /\ \A e : Kept(e)' <=> Kept(e)
      BY <2>2 DEF F!Undisturbed, Given, Kept
    <3>6. /\ \A k \in DOMAIN items, r \in DOMAIN received : Kept(received[r].id) => received[r].seq < log[items[k]]
          /\ \A e \in F!Undisturbed \cap severity : \A k \in DOMAIN items :
               log[e] > start /\ log[e] <= log[items[k]] => Given(e) \/ \E j \in DOMAIN items : items[j] = e
      BY <3>3, <3>4
    <3> QED
      BY <2>2, <2>5, <2>6, <2>11, <3>1, <3>5, <3>6 DEF BatchOK, Kept, Given
  <2> QED
    BY <1>2, <2>2, <2>8, <2>9, <2>10, <2>12 DEF StreamInv
<1>9. CASE F!Check
  <2>1. stream.pc = "check" /\ UNCHANGED <<log, lastGiven, reused, saved, moved, gone, severity, received, start>>
    BY <1>9 DEF F!Check, F!logVars
  <2>2. CASE ~(\A k \in DOMAIN stream.items : stream.items[k] \in DOMAIN log)
    BY <1>3, <1>9, <2>1, <2>2 DEF F!Check
  <2>3. CASE \A k \in DOMAIN stream.items : stream.items[k] \in DOMAIN log
    <3> DEFINE items == stream.items
               frames == [k \in DOMAIN items |-> [id |-> items[k], seq |-> log[items[k]]]]
    <3>1. stream' = [stream EXCEPT !.pc = "emit", !.items = frames]
      BY <1>9, <2>3 DEF F!Check
    <3>2. items \in Seq(FeedEvents) /\ \A k \in DOMAIN items : items[k] \in DOMAIN log
      BY <2>1, <2>3 DEF StreamInv, StreamTyped
    <3>3. /\ EmptyOK
          /\ \A k \in DOMAIN items, r \in DOMAIN received : Kept(received[r].id) => received[r].seq < log[items[k]]
          /\ \A j, k \in DOMAIN items : j < k /\ Kept(items[j]) => log[items[j]] < log[items[k]]
          /\ \A e \in F!Undisturbed \cap severity : \A k \in DOMAIN items :
               log[e] > start /\ log[e] <= log[items[k]] => Given(e) \/ \E j \in DOMAIN items : items[j] = e
      BY <2>1, <2>3 DEF StreamInv, BatchOK
    <3>4. frames = <<>> => items = <<>>
      <4> HIDE DEF items
      <4> QED
        BY <3>2
    <3> HIDE DEF items
    <3>5. /\ DOMAIN frames = DOMAIN items
          /\ \A k \in DOMAIN items : frames[k].id = items[k] /\ frames[k].seq = log[items[k]]
      OBVIOUS
    <3>6. \A k \in DOMAIN items : items[k] \in FeedEvents /\ log[items[k]] \in Nat /\ log[items[k]] <= lastGiven
      BY <1>0, <3>2 DEF LogTyped
    <3>7. frames \in Seq(Frame)
      <4>1. \A k \in DOMAIN items : frames[k] \in Frame
        BY <3>6 DEF Frame
      <4>2. DOMAIN items = 1 .. Len(items) /\ Len(items) \in Nat
        BY <3>2
      <4>3. frames \in [1 .. Len(items) -> Frame]
        BY <4>1, <4>2
      <4> HIDE DEF frames
      <4> QED
        BY <4>2, <4>3
    <3> HIDE DEF frames
    <3>8. /\ stream' \in Streams /\ stream'.pc = "emit" /\ stream'.items = frames
          /\ stream'.base = stream.base /\ stream'.cursor = stream.cursor /\ stream'.top = stream.top
      BY <1>0, <3>1, <3>7 DEF Streams, StreamPcs
    <3>9. Behind' = Behind
      BY <3>8 DEF Behind
    <3>10. StreamTyped'
      BY <1>0, <1>1, <2>1, <3>5, <3>6, <3>7, <3>8 DEF StreamTyped
    <3>11. OrderOK' /\ BatchOK'
      BY <2>1, <3>8 DEF StreamInv, OrderOK, BatchOK, Awake, Kept, F!FramesInOrder
    <3>12. CoverOK'
      BY <2>1, <3>8 DEF StreamInv, CoverOK, Awake, Covered, Given, F!Undisturbed
    <3>13. FramesOK'
      <4>1. EmptyOK => EmptyOK'
        BY <2>1, <3>4, <3>8 DEF EmptyOK, F!Undisturbed, items
      <4>2. \A k \in DOMAIN items : items[k] \notin moved => Kept(items[k])
        BY <1>0, <3>2 DEF LogTyped, Kept
      <4>3. \A e \in F!Undisturbed : \A k \in DOMAIN items : items[k] \in moved => log[items[k]] < log[e]
        BY DEF F!Undisturbed
      <4>4. F!Undisturbed' = F!Undisturbed
        BY <2>1 DEF F!Undisturbed
      <4> QED
        BY <2>1, <3>2, <3>3, <3>5, <3>8, <4>1, <4>2, <4>3, <4>4 DEF FramesOK, Kept, Given
    <3> QED
      BY <1>2, <2>1, <3>10, <3>11, <3>12, <3>13 DEF StreamInv
  <2> QED
    BY <2>2, <2>3
<1>10. CASE F!Emit
  <2> DEFINE items == stream.items
             item == Head(items)
             rest == Tail(items)
  <2>1. /\ stream.pc = "emit" /\ items # <<>> /\ stream' = [stream EXCEPT !.cursor = item.seq, !.items = rest]
        /\ received' = (IF item.id \in severity THEN Append(received, item) ELSE received)
        /\ UNCHANGED <<log, lastGiven, reused, saved, moved, gone, severity, start>>
    BY <1>10 DEF F!Emit, F!logVars
  <2>2. items \in Seq(Frame) /\ \A k \in DOMAIN items : items[k].seq <= lastGiven
    BY <2>1 DEF StreamInv, StreamTyped
  <2>3. /\ \A k \in DOMAIN items : Kept(items[k].id) => items[k].id \in DOMAIN log /\ log[items[k].id] = items[k].seq
        /\ \A k \in DOMAIN items, r \in DOMAIN received : Kept(received[r].id) => received[r].seq < items[k].seq
        /\ \A j, k \in DOMAIN items : j < k /\ items[j].id \notin moved => items[j].seq < items[k].seq
        /\ \A e \in F!Undisturbed : \A k \in DOMAIN items : items[k].id \in moved => items[k].seq < log[e]
        /\ \A e \in F!Undisturbed \cap severity : \A k \in DOMAIN items :
             log[e] > start /\ log[e] <= items[k].seq => Given(e) \/ \E j \in DOMAIN items : items[j].id = e
    BY <2>1 DEF StreamInv, FramesOK
  <2>4. /\ item = items[1] /\ 1 \in DOMAIN items /\ rest \in Seq(Frame)
        /\ \A k \in DOMAIN rest : k + 1 \in DOMAIN items /\ rest[k] = items[k + 1] /\ k + 1 > 1 /\ k \in Int
        /\ \A k \in DOMAIN items : k \in Int /\ (k # 1 => k > 1 /\ k - 1 \in DOMAIN rest /\ rest[k - 1] = items[k])
    BY <2>1, <2>2
  <2>5. \A k \in DOMAIN items : items[k] \in Frame /\ items[k].seq \in Nat
    <3>1. \A k \in DOMAIN items : items[k] \in Frame
      BY <2>2
    <3> QED
      BY <3>1 DEF Frame
  <2> HIDE DEF items, item, rest
  <2>6. item \in Frame /\ item.seq \in Nat /\ item.seq <= lastGiven /\ item.seq # F!None
    BY <2>2, <2>4, <2>5 DEF F!None
  <2>7. /\ stream' \in Streams /\ stream'.pc = "emit" /\ stream'.items = rest
        /\ stream'.base = stream.base /\ stream'.cursor = item.seq /\ stream'.top = stream.top
    <3>1. stream'.pc = "emit" /\ stream'.items = rest /\ stream'.base = stream.base /\ stream'.cursor = item.seq /\ stream'.top = stream.top
      BY <1>0, <2>1 DEF Streams, items
    <3>2. item.seq \in Int /\ rest \in Seq(FeedEvents) \cup Seq(Frame)
      BY <2>4, <2>6
    <3>3. stream' \in Streams
      BY <1>0, <2>1, <3>2 DEF Streams
    <3> QED
      BY <3>1, <3>3
  <2>8. /\ F!Undisturbed' = F!Undisturbed /\ \A e : Kept(e)' <=> Kept(e)
        /\ \A e \in F!Undisturbed : e \in DOMAIN log /\ Kept(e) /\ log[e] \in Nat
    BY <1>0, <2>1 DEF F!Undisturbed, Kept, LogTyped
  <2>9. /\ received' \in Seq(Frame) /\ Len(received) \in Nat /\ DOMAIN received = 1 .. Len(received)
        /\ item.id \in severity => /\ Len(received') = Len(received) + 1 /\ DOMAIN received' = 1 .. Len(received) + 1
                                   /\ received'[Len(received) + 1] = item /\ received' # <<>>
        /\ \A k \in DOMAIN received : received'[k] = received[k] /\ k \in DOMAIN received'
    BY <1>0, <2>1, <2>6
  <2>10. StreamTyped'
    <3>1. \A k \in DOMAIN received' : received'[k].seq <= lastGiven
      BY <1>1, <2>1, <2>6, <2>9
    <3>2. \A k \in DOMAIN rest : rest[k].seq <= lastGiven
      BY <2>2, <2>4
    <3> QED
      BY <1>0, <1>1, <2>1, <2>4, <2>6, <2>7, <2>9, <3>1, <3>2 DEF StreamTyped
  <2>11. BatchOK'
    BY <2>7 DEF BatchOK
  <2>12. \A e : Given(e) \/ (e = item.id /\ e \in severity) => Given(e)'
    <3>1. \A e : Given(e) => Given(e)'
      BY <2>9 DEF Given
    <3>2. item.id \in severity => Len(received) + 1 \in DOMAIN received' /\ received'[Len(received) + 1].id = item.id
      BY <2>9
    <3> QED
      BY <3>1, <3>2 DEF Given
\* A frame the client gets is of this item, or it had it before.
  <2>13. ASSUME NEW r \in DOMAIN received'
         PROVE  (r \in DOMAIN received /\ received'[r] = received[r]) \/ (r = Len(received) + 1 /\ received'[r] = item)
    BY <2>1, <2>9
  <2>14. FramesOK'
    <3>1. EmptyOK'
      BY <2>6, <2>7 DEF EmptyOK
    <3>2. ASSUME NEW k \in DOMAIN rest
          PROVE  /\ rest[k] = items[k + 1] /\ k + 1 \in DOMAIN items /\ 1 < k + 1
                 /\ Kept(rest[k].id) => rest[k].id \in DOMAIN log /\ log[rest[k].id] = rest[k].seq
      BY <2>3, <2>4
    <3>3. ASSUME NEW k \in DOMAIN rest, NEW r \in DOMAIN received', Kept(received'[r].id)
          PROVE  received'[r].seq < rest[k].seq
      <4>1. CASE r \in DOMAIN received /\ received'[r] = received[r]
        BY <2>3, <3>2, <3>3, <4>1
      <4>2. CASE received'[r] = item
        <5>1. items[1].id \notin moved /\ items[1] = received'[r]
          BY <2>4, <3>3, <4>2 DEF Kept
        <5> QED
          BY <2>3, <2>4, <3>2, <5>1
      <4> QED
        BY <2>13, <4>1, <4>2
    <3>4. ASSUME NEW j \in DOMAIN rest, NEW k \in DOMAIN rest, j < k, rest[j].id \notin moved
          PROVE  rest[j].seq < rest[k].seq
      <4>1. j + 1 < k + 1
        BY <2>4, <3>4
      <4> QED
        BY <2>3, <3>2, <3>4, <4>1
    <3>5. \A e \in F!Undisturbed : \A k \in DOMAIN rest : rest[k].id \in moved => rest[k].seq < log[e]
      BY <2>3, <3>2
    <3>6. ASSUME NEW e \in F!Undisturbed \cap severity, NEW k \in DOMAIN rest, log[e] > start, log[e] <= rest[k].seq
          PROVE  Given(e)' \/ \E j \in DOMAIN rest : rest[j].id = e
      <4>1. Given(e) \/ \E j \in DOMAIN items : items[j].id = e
        BY <2>3, <3>2, <3>6
      <4>2. ASSUME NEW j \in DOMAIN items, items[j].id = e PROVE Given(e)' \/ \E i \in DOMAIN rest : rest[i].id = e
        <5>1. CASE j = 1
          BY <2>4, <2>12, <3>6, <4>2, <5>1
        <5>2. CASE j # 1
          BY <2>4, <4>2, <5>2
        <5> QED
          BY <5>1, <5>2
      <4> QED
        BY <2>12, <4>1, <4>2
    <3>7. /\ \A k \in DOMAIN rest : Kept(rest[k].id) => rest[k].id \in DOMAIN log /\ log[rest[k].id] = rest[k].seq
          /\ \A k \in DOMAIN rest, r \in DOMAIN received' : Kept(received'[r].id) => received'[r].seq < rest[k].seq
          /\ \A j, k \in DOMAIN rest : j < k /\ rest[j].id \notin moved => rest[j].seq < rest[k].seq
          /\ \A e \in F!Undisturbed \cap severity : \A k \in DOMAIN rest :
               log[e] > start /\ log[e] <= rest[k].seq => Given(e)' \/ \E j \in DOMAIN rest : rest[j].id = e
      BY <3>2, <3>3, <3>4, <3>6
    <3> QED
      BY <2>1, <2>7, <2>8, <3>1, <3>5, <3>7 DEF FramesOK, Kept, Given
  <2>15. OrderOK'
    <3>1. ASSUME NEW r \in DOMAIN received', Kept(received'[r].id)
          PROVE  received'[r].id \in DOMAIN log /\ log[received'[r].id] = received'[r].seq /\ received'[r].seq <= item.seq
      <4>1. CASE r \in DOMAIN received /\ received'[r] = received[r]
        <5>1. received[r].seq < items[1].seq /\ received[r].seq \in Nat
          BY <1>0, <2>3, <2>4, <3>1, <4>1
        <5>2. received[r].id \in DOMAIN log /\ log[received[r].id] = received[r].seq
          BY <3>1, <4>1 DEF StreamInv, OrderOK
        <5> QED
          BY <2>4, <2>6, <4>1, <5>1, <5>2
      <4>2. CASE received'[r] = item
        BY <2>3, <2>4, <2>6, <3>1, <4>2
      <4> QED
        BY <2>13, <4>1, <4>2
    <3>2. ASSUME NEW j \in DOMAIN received', NEW k \in DOMAIN received', j < k, Kept(received'[j].id)
          PROVE  received'[j].seq < received'[k].seq
      <4>1. j \in DOMAIN received /\ received'[j] = received[j] /\ j \in Int /\ k \in Int
        BY <2>9, <2>13, <3>2
      <4>2. CASE k \in DOMAIN received /\ received'[k] = received[k]
        BY <3>2, <4>1, <4>2 DEF StreamInv, OrderOK, F!FramesInOrder, Kept
      <4>3. CASE received'[k] = item
        BY <2>3, <2>4, <3>2, <4>1, <4>3
      <4> QED
        BY <2>13, <4>2, <4>3
    <3>3. F!FramesInOrder'
      BY <2>1, <3>2 DEF F!FramesInOrder, Kept
    <3>4. \A r \in DOMAIN received' :
            Kept(received'[r].id) => received'[r].id \in DOMAIN log /\ log[received'[r].id] = received'[r].seq /\ received'[r].seq <= item.seq
      BY <3>1
    <3> QED
      BY <2>1, <2>6, <2>7, <3>3, <3>4 DEF OrderOK, Kept
  <2>16. CoverOK'
    <3>0. PICK c \in Nat : c = item.seq
      BY <2>6
    <3>1. Covered(c)'
      <4> SUFFICES ASSUME NEW e \in F!Undisturbed \cap severity, log[e] > start, log[e] <= item.seq
                   PROVE  Given(e)'
        BY <2>1, <2>8, <3>0 DEF Covered
      <4>1. Given(e) \/ \E j \in DOMAIN items : items[j].id = e
        BY <2>3, <2>4
      <4>2. ASSUME NEW j \in DOMAIN items, items[j].id = e PROVE Given(e)'
        <5>1. log[e] = items[j].seq /\ log[e] \in Nat
          BY <2>3, <2>8, <4>2
        <5>2. j = 1
          <6>1. CASE items[1].id \in moved
            BY <2>3, <2>4, <2>6, <5>1, <6>1
          <6>2. CASE items[1].id \notin moved
            <7>1. j # 1 => items[1].seq < items[j].seq
              BY <2>3, <2>4, <6>2
            <7> QED
              BY <2>4, <2>6, <5>1, <7>1
          <6> QED
            BY <6>1, <6>2
        <5> QED
          BY <2>4, <2>12, <4>2, <5>2
      <4> QED
        BY <2>12, <4>1, <4>2
    <3>2. Covered(stream.cursor)'
      BY <2>7, <3>0, <3>1 DEF Covered
    <3>3. CASE item.id \in severity
      <4>1. received'[Len(received')].seq = item.seq
        BY <2>9, <3>3
      <4>2. Covered(received[Len(received)].seq)'
        BY <3>0, <3>1, <4>1 DEF Covered
      <4> QED
        BY <3>2, <4>2 DEF CoverOK
    <3>4. CASE item.id \notin severity
      <4>1. received' = received
        BY <2>1, <3>4
      <4>2. received # <<>> => Covered(received[Len(received)].seq)'
        BY <2>1, <2>8, <4>1 DEF StreamInv, CoverOK, Covered, Given
      <4> QED
        BY <3>2, <4>1, <4>2 DEF CoverOK
    <3> QED
      BY <3>3, <3>4
  <2> QED
    BY <1>2, <2>1, <2>10, <2>11, <2>14, <2>15, <2>16 DEF StreamInv
<1>11. CASE F!EndBatch
  <2>1. /\ stream.pc = "emit" /\ stream.items = <<>>
        /\ stream' = [stream EXCEPT !.pc = "query", !.cursor = IF @ = F!None THEN stream.top ELSE @]
        /\ UNCHANGED <<log, lastGiven, reused, saved, moved, gone, severity, received, start>>
    BY <1>11 DEF F!EndBatch, F!logVars
  <2> DEFINE at == IF stream.cursor = F!None THEN stream.top ELSE stream.cursor
  <2>2. at \in Nat /\ at <= lastGiven /\ at # F!None
    BY <1>0, <1>1 DEF F!None
  <2>3. /\ stream' \in Streams /\ stream'.pc = "query" /\ stream'.base = stream.base /\ stream'.cursor = at /\ stream'.top = stream.top
    <3>1. "query" \in StreamPcs
      BY DEF StreamPcs
    <3>2. stream' = [stream EXCEPT !.pc = "query", !.cursor = at]
      BY <2>1
    <3> HIDE DEF at
    <3>3. at \in Int /\ stream \in Streams
      BY <1>0, <2>2
    <3>4. stream' \in Streams
      BY <3>1, <3>2, <3>3 DEF Streams
    <3> QED
      BY <3>2, <3>3, <3>4 DEF Streams
  <2>4. StreamTyped'
    BY <1>0, <1>1, <2>1, <2>2, <2>3 DEF StreamTyped
  <2>5. BatchOK' /\ FramesOK'
    BY <2>3 DEF BatchOK, FramesOK
  <2>6. stream.cursor = F!None => received = <<>> /\ start = stream.base /\ EmptyOK
    BY <2>1 DEF StreamInv, OrderOK, FramesOK, Awake
  <2>7. OrderOK'
    <3>1. \A k \in DOMAIN received : Kept(received[k].id) => received[k].seq <= at
      BY <2>1, <2>6 DEF StreamInv, OrderOK, Awake
    <3> HIDE DEF at
    <3> QED
      BY <2>1, <2>2, <2>3, <3>1 DEF StreamInv, OrderOK, Awake, Kept, F!FramesInOrder
  <2>8. Covered(at)
    <3>1. CASE stream.cursor = F!None
      <4>1. \A e \in F!Undisturbed : log[e] \in Nat
        BY <1>0 DEF LogTyped, F!Undisturbed
      <4>2. \A e \in F!Undisturbed : log[e] > start => log[e] > at
        BY <2>1, <2>6, <3>1 DEF EmptyOK
      <4> QED
        BY <2>2, <4>1, <4>2 DEF Covered
    <3>2. CASE stream.cursor # F!None
      BY <2>1, <3>2 DEF StreamInv, CoverOK, Awake
    <3> QED
      BY <3>1, <3>2
  <2> HIDE DEF at
  <2>9. CoverOK'
    <3>1. Covered(stream.cursor)'
      BY <2>1, <2>3, <2>8 DEF Covered, Given, F!Undisturbed
    <3>2. received # <<>> => Covered(received[Len(received)].seq)'
      BY <2>1 DEF StreamInv, CoverOK, Covered, Given, F!Undisturbed
    <3> QED
      BY <2>1, <3>1, <3>2 DEF CoverOK
  <2> QED
    BY <1>2, <2>1, <2>4, <2>5, <2>7, <2>9 DEF StreamInv
<1>12. CASE F!Disconnect
  BY <1>3, <1>12 DEF F!Disconnect, F!logVars
<1>13. CASE F!GetPage
  BY <1>5, <1>13 DEF F!GetPage, F!logVars
<1>14. CASE UNCHANGED F!vars
  BY <1>5, <1>14 DEF F!vars
<1> QED
  BY <1>4, <1>6, <1>7, <1>8, <1>9, <1>10, <1>11, <1>12, <1>13, <1>14 DEF F!Next

LEMMA StreamInit == F!Init => StreamInv
<1> SUFFICES ASSUME F!Init PROVE StreamInv
  OBVIOUS
<1>1. LogTyped /\ received = <<>> /\ start = F!None
  BY DEF F!Init, LogTyped
<1>2. stream.pc = "off" /\ stream.base = 0 /\ stream.cursor = F!None /\ stream.top = 0 /\ stream \in Streams
  BY DEF F!Init, F!Off, F!None, Streams, StreamPcs
<1>3. StreamTyped
  BY <1>1, <1>2 DEF StreamTyped, F!Init, F!None
<1> QED
  BY <1>1, <1>2, <1>3 DEF StreamInv, OrderOK, BatchOK, FramesOK, CoverOK, Awake, F!FramesInOrder

LEMMA StreamHolds == StreamInv => F!FramesInOrder /\ F!NothingSkipped
<1> SUFFICES ASSUME StreamInv PROVE F!FramesInOrder /\ F!NothingSkipped
  OBVIOUS
<1>1. F!FramesInOrder
  BY DEF StreamInv, OrderOK, F!FramesInOrder
<1>2. F!NothingSkipped
  BY DEF StreamInv, CoverOK, Covered, Given, F!NothingSkipped
<1> QED
  BY <1>1, <1>2

\* The client of the pages: what it was given up to its cursor.
PagePcs == {"idle", "paging", "done"}
Pagings == [pc : PagePcs, cursor : Nat, got : [FeedEvents -> Nat], stable : SUBSET FeedEvents]
Settled == FeedEvents \ (moved \cup gone)
GivenOK ==
  /\ pages \in Pagings
  /\ pages.pc = "idle" => pages.cursor = 0 /\ pages.stable = {} /\ \A e \in FeedEvents : pages.got[e] = 0
  /\ pages.stable \subseteq DOMAIN log \cap severity
  /\ \A e \in pages.stable : pages.pc = "done" \/ log[e] <= pages.cursor => pages.got[e] > 0
  /\ \A e \in Settled : pages.got[e] <= 1
  /\ \A e \in Settled : pages.got[e] > 0 => e \in DOMAIN log /\ (pages.pc = "paging" => log[e] <= pages.cursor)
PagesInv == LogTyped /\ GivenOK

LEMMA PagesStep ==
  ASSUME PagesInv, [F!Next]_F!vars
  PROVE  PagesInv'
<1>0. /\ LogTyped /\ pages \in Pagings /\ pages.got \in [FeedEvents -> Nat] /\ pages.cursor \in Nat
      /\ pages.stable \subseteq FeedEvents /\ \A e \in DOMAIN log : log[e] \in Nat \ {0} /\ e \in FeedEvents
  BY DEF PagesInv, GivenOK, Pagings, LogTyped
<1>1. ASSUME NEW e \in FeedEvents, F!SaveNew(e) \/ F!SaveCopy(e)
      PROVE  PagesInv'
  <2>1. LogGrows
    BY <1>0, <1>1, SaveGrows
  <2>2. /\ e \notin DOMAIN log /\ log' = [x \in DOMAIN log \cup {e} |-> IF x = e THEN F!Top + 1 ELSE log[x]]
        /\ gone' = gone \ {e} /\ moved' = (IF e \in gone THEN moved \cup {e} ELSE moved)
        /\ pages' = pages /\ severity' = severity
    BY <1>1 DEF F!SaveNew, F!SaveCopy, F!Save
  <2>3. Settled' \subseteq Settled
    BY <2>2 DEF Settled
  <2>4. \A x \in DOMAIN log : x \in DOMAIN log' /\ log'[x] = log[x]
    BY <2>2
  <2>5. GivenOK'
    BY <2>2, <2>3, <2>4 DEF PagesInv, GivenOK
  <2> QED
    BY <2>1, <2>5 DEF LogGrows, PagesInv
<1>2. ASSUME NEW e \in FeedEvents, F!Delete(e)
      PROVE  PagesInv'
  <2>1. LogGrows
    BY <1>0, <1>2, DeleteGrows
  <2>2. /\ log' = [x \in DOMAIN log \ {e} |-> log[x]] /\ gone' = gone \cup {e} /\ moved' = moved /\ severity' = severity
        /\ pages' = [pages EXCEPT !.stable = @ \ {e}]
    BY <1>2 DEF F!Delete
  <2>3. /\ pages' \in Pagings /\ pages'.pc = pages.pc /\ pages'.cursor = pages.cursor /\ pages'.got = pages.got
        /\ pages'.stable = pages.stable \ {e}
    BY <1>0, <2>2 DEF Pagings
  <2>4. Settled' = Settled \ {e}
    BY <2>2 DEF Settled
  <2>5. \A x \in DOMAIN log \ {e} : x \in DOMAIN log' /\ log'[x] = log[x]
    BY <2>2
  <2>6. GivenOK'
    BY <2>2, <2>3, <2>4, <2>5 DEF PagesInv, GivenOK
  <2> QED
    BY <2>1, <2>6 DEF LogGrows, PagesInv
<1>3. CASE F!GetPage
  <2> DEFINE more(ids) == Len(ids) > PageLimit
             given(ids) == {ids[k] : k \in DOMAIN ids \ {PageLimit + 1}}
  <2>1. PICK ids \in F!After(pages.cursor, PageLimit + 1) :
          pages' = [pc |-> IF more(ids) THEN "paging" ELSE "done",
                    cursor |-> IF more(ids) THEN log[ids[PageLimit]] ELSE pages.cursor,
                    got |-> [e \in FeedEvents |-> pages.got[e] + (IF e \in given(ids) \cap severity THEN 1 ELSE 0)],
                    stable |-> IF pages.pc = "idle" THEN DOMAIN log \cap severity ELSE pages.stable]
    BY <1>3 DEF F!GetPage
  <2>2. /\ pages.pc \in {"idle", "paging"}
        /\ UNCHANGED <<log, lastGiven, reused, saved, moved, gone, severity>>
    BY <1>3 DEF F!GetPage, F!logVars
  <2>3. PageLimit \in Nat \ {0}
    BY ShownConstantsOK DEF F!FeedOK
  <2>4. /\ ids \in Seq(FeedEvents) /\ Len(ids) <= PageLimit + 1
        /\ \A k \in DOMAIN ids : ids[k] \in DOMAIN log /\ log[ids[k]] > pages.cursor
        /\ \A j, k \in DOMAIN ids : j < k => log[ids[j]] < log[ids[k]]
        /\ \A e \in DOMAIN log : log[e] > pages.cursor /\ (\A k \in DOMAIN ids : ids[k] # e)
             => Len(ids) = PageLimit + 1 /\ \A k \in DOMAIN ids : log[ids[k]] < log[e]
    BY <1>0, <2>3, AfterIs
  <2> DEFINE page0 == given(ids)
             last == log[ids[PageLimit]]
             stays == IF pages.pc = "idle" THEN DOMAIN log \cap severity ELSE pages.stable
  <2>5. DOMAIN ids = 1 .. Len(ids) /\ Len(ids) \in Nat
    BY <2>4
  <2>6. more(ids) => PageLimit \in DOMAIN ids /\ last \in Nat /\ last > pages.cursor
    <3> SUFFICES ASSUME Len(ids) > PageLimit PROVE PageLimit \in DOMAIN ids /\ last \in Nat /\ last > pages.cursor
      OBVIOUS
    <3>1. PageLimit \in DOMAIN ids
      BY <2>3, <2>5
    <3>2. ids[PageLimit] \in DOMAIN log /\ log[ids[PageLimit]] > pages.cursor
      BY <2>4, <3>1
    <3> QED
      BY <1>0, <3>1, <3>2
  \* What is on the page, and what is left for the next.
  <2>7. \A e \in page0 : e \in DOMAIN log /\ log[e] > pages.cursor /\ (more(ids) => log[e] <= last)
    <3> SUFFICES ASSUME NEW k \in DOMAIN ids, k # PageLimit + 1
                 PROVE  ids[k] \in DOMAIN log /\ log[ids[k]] > pages.cursor /\ (more(ids) => log[ids[k]] <= last)
      OBVIOUS
    <3>1. k \in Int /\ k <= PageLimit
      BY <2>3, <2>4, <2>5
    <3>2. k # PageLimit /\ more(ids) => log[ids[k]] < last
      BY <2>3, <2>4, <2>6, <3>1
    <3>3. log[ids[k]] \in Nat
      BY <1>0, <2>4
    <3> QED
      BY <2>4, <2>6, <3>1, <3>2, <3>3
  <2>8. \A e \in DOMAIN log : log[e] > pages.cursor /\ (more(ids) => log[e] <= last) => e \in page0
    <3> SUFFICES ASSUME NEW e \in DOMAIN log, log[e] > pages.cursor, more(ids) => log[e] <= last, e \notin page0
                 PROVE  FALSE
      OBVIOUS
    <3>1. \A k \in DOMAIN ids : k # PageLimit + 1 => ids[k] # e
      OBVIOUS
    <3>2. log[e] \in Nat
      BY <1>0
    <3>3. CASE \E k \in DOMAIN ids : ids[k] = e
      <4>1. PageLimit + 1 \in DOMAIN ids /\ ids[PageLimit + 1] = e
        BY <3>1, <3>3
      <4>2. more(ids)
        BY <2>3, <2>5, <4>1
      <4>3. last < log[e]
        BY <2>3, <2>4, <2>6, <4>1, <4>2
      <4> QED
        BY <2>6, <3>2, <4>2, <4>3
    <3>4. CASE \A k \in DOMAIN ids : ids[k] # e
      <4>1. Len(ids) = PageLimit + 1 /\ \A k \in DOMAIN ids : log[ids[k]] < log[e]
        BY <2>4, <3>4
      <4>2. more(ids)
        BY <2>3, <4>1
      <4> QED
        BY <2>6, <3>2, <4>1, <4>2
    <3> QED
      BY <3>3, <3>4
  <2> DEFINE on == more(ids)
  <2>9. /\ pages'.pc = (IF on THEN "paging" ELSE "done") /\ pages'.cursor = (IF on THEN last ELSE pages.cursor)
        /\ pages'.stable = stays
        /\ pages'.got = [e \in FeedEvents |-> pages.got[e] + (IF e \in page0 \cap severity THEN 1 ELSE 0)]
        /\ pages' = [pc |-> pages'.pc, cursor |-> pages'.cursor, got |-> pages'.got, stable |-> pages'.stable]
    BY <2>1
  <2> HIDE DEF page0, last, stays, on
  <2>10. /\ on \in BOOLEAN /\ (on => last \in Nat /\ last > pages.cursor)
         /\ \A e \in page0 : e \in DOMAIN log /\ log[e] > pages.cursor /\ (on => log[e] <= last)
         /\ \A e \in DOMAIN log : log[e] > pages.cursor /\ (on => log[e] <= last) => e \in page0
    BY <2>6, <2>7, <2>8 DEF on
  <2>11. /\ \A e \in FeedEvents : pages.got[e] \in Nat /\ pages'.got[e] \in Nat
         /\ \A e \in FeedEvents : e \in page0 \cap severity => pages'.got[e] = pages.got[e] + 1
         /\ \A e \in FeedEvents : e \notin page0 \cap severity => pages'.got[e] = pages.got[e]
    BY <1>0, <2>9
  <2>12. pages' \in Pagings
    <3>1. pages'.pc \in PagePcs
      BY <2>9 DEF PagePcs
    <3>2. pages'.cursor \in Nat /\ pages'.stable \subseteq FeedEvents
      BY <1>0, <2>9, <2>10 DEF stays
    <3>3. pages'.got \in [FeedEvents -> Nat]
      BY <1>0, <2>9
    <3> QED
      BY <2>9, <3>1, <3>2, <3>3 DEF Pagings
  <2>13. stays \subseteq DOMAIN log \cap severity
    BY DEF stays, PagesInv, GivenOK
  <2>14. ASSUME NEW e \in stays, ~on \/ log[e] <= last PROVE pages'.got[e] > 0
    <3>1. e \in FeedEvents /\ e \in severity /\ e \in DOMAIN log /\ log[e] \in Nat
      BY <1>0, <2>13
    <3>2. CASE log[e] <= pages.cursor
      <4>1. pages.got[e] > 0
        <5>1. CASE pages.pc = "idle"
          BY <1>0, <3>1, <3>2, <5>1 DEF PagesInv, GivenOK
        <5>2. CASE pages.pc # "idle"
          BY <3>2, <5>2 DEF PagesInv, GivenOK, stays
        <5> QED
          BY <5>1, <5>2
      <4> QED
        BY <2>11, <3>1, <4>1
    <3>3. CASE log[e] > pages.cursor
      BY <2>10, <2>11, <2>14, <3>1, <3>3
    <3> QED
      BY <1>0, <3>1, <3>2, <3>3
  <2>15. \A e \in Settled : e \in FeedEvents /\ (pages.got[e] > 0 => e \in DOMAIN log /\ log[e] <= pages.cursor /\ pages.got[e] = 1)
    <3> SUFFICES ASSUME NEW e \in Settled
                 PROVE  e \in FeedEvents /\ (pages.got[e] > 0 => e \in DOMAIN log /\ log[e] <= pages.cursor /\ pages.got[e] = 1)
      OBVIOUS
    <3>1. e \in FeedEvents /\ pages.got[e] \in Nat
      BY <1>0 DEF Settled
    <3> QED
      BY <2>2, <3>1 DEF PagesInv, GivenOK
  <2>16. ASSUME NEW e \in Settled
         PROVE  pages'.got[e] <= 1 /\ (pages'.got[e] > 0 => e \in DOMAIN log /\ (on => log[e] <= last))
    <3>1. e \in FeedEvents /\ pages.got[e] \in Nat
      BY <1>0, <2>15
    <3>2. CASE e \in page0 \cap severity
      <4>1. e \in DOMAIN log /\ log[e] \in Nat /\ log[e] > pages.cursor /\ (on => log[e] <= last)
        BY <1>0, <2>10, <3>2
      <4>2. pages.got[e] = 0
        BY <1>0, <2>15, <3>1, <4>1
      <4> QED
        BY <2>11, <3>1, <3>2, <4>1, <4>2
    <3>3. CASE e \notin page0 \cap severity
      <4>1. pages'.got[e] = pages.got[e]
        BY <2>11, <3>1, <3>3
      <4>2. e \in DOMAIN log => log[e] \in Nat
        BY <1>0
      <4> QED
        BY <1>0, <2>10, <2>15, <3>1, <4>1, <4>2
    <3> QED
      BY <3>2, <3>3
  <2>17. GivenOK'
    <3>1. Settled' = Settled /\ log' = log /\ severity' = severity
      BY <2>2 DEF Settled
    <3>2. pages'.pc # "idle" /\ (pages'.pc = "done" <=> ~on) /\ (pages'.pc = "paging" <=> on) /\ pages'.stable = stays
          /\ (on => pages'.cursor = last) /\ (~on => pages'.cursor = pages.cursor)
      BY <2>9
    <3> QED
      BY <2>12, <2>13, <2>14, <2>16, <3>1, <3>2 DEF GivenOK
  <2>18. LogTyped'
    BY <1>0, <2>2 DEF LogTyped
  <2> QED
    BY <2>17, <2>18 DEF PagesInv
<1>4. ASSUME UNCHANGED <<log, lastGiven, saved, moved, gone, severity, pages>>
      PROVE  PagesInv'
  BY <1>4 DEF PagesInv, LogTyped, GivenOK, Settled
<1>5. CASE F!Connect \/ F!Snapshot \/ F!Query \/ F!Check \/ F!Emit \/ F!EndBatch \/ F!Disconnect \/ UNCHANGED F!vars
  BY <1>4, <1>5 DEF F!Connect, F!Snapshot, F!Query, F!Check, F!Emit, F!EndBatch, F!Disconnect, F!logVars, F!vars
<1> QED
  BY <1>1, <1>2, <1>3, <1>5 DEF F!Next

LEMMA PagesInit == F!Init => PagesInv
<1> SUFFICES ASSUME F!Init PROVE PagesInv
  OBVIOUS
<1>1. LogTyped
  BY DEF F!Init, LogTyped
<1>2. pages = [pc |-> "idle", cursor |-> 0, got |-> [e \in FeedEvents |-> 0], stable |-> {}]
  BY DEF F!Init
<1>3. [e \in FeedEvents |-> 0] \in [FeedEvents -> Nat] /\ "idle" \in PagePcs
  BY DEF PagePcs
<1>4. pages \in Pagings
  BY <1>2, <1>3 DEF Pagings
<1> QED
  BY <1>1, <1>2, <1>4 DEF PagesInv, GivenOK, Settled

LEMMA PagesHold == PagesInv => F!PagesAreComplete
BY DEF PagesInv, GivenOK, Settled, F!PagesAreComplete

(***************************************************************************)
(* The entities (IntelEntity): sessions that resolve, change and delete them *)
(* race; each entity keeps one row, under its own id.                      *)
(***************************************************************************)

\* Every entity has one row; the ids are those given so far.
Entity == [id : Nat, ext : Identities, status : E!Statuses, deleted : BOOLEAN]
IdsGiven(st, n) == \A k \in 1 .. n : st[k].id \in 1 .. n
IdsApart(st, n) == \A j, k \in 1 .. n : st[j].id = st[k].id => j = k
AllKept(st, n) == \A i \in 1 .. n : \E k \in 1 .. n : st[k].id = i
StoreOK(st, n) == n \in Nat /\ st \in Seq(Entity) /\ Len(st) = n /\ IdsGiven(st, n) /\ IdsApart(st, n) /\ AllKept(st, n)
EntityTyped ==
  /\ StoreOK(store, made) /\ resolved \in [Identities -> 0 .. made] /\ repository \in {"table", "memory"}
  /\ raced \in BOOLEAN /\ revived \in BOOLEAN /\ linked \subseteq [ext : Identities, id : 1 .. made]
\* What a session is about to write keeps the id and the identity of an entity.
TaskOK(t, rs, n) ==
  /\ t.op \in {"none", "create", "save", "mark"}
  /\ t.op = "none" => t = E!Done
  /\ t.op = "create" => t.ext \in Identities /\ t = [op |-> "create", ext |-> t.ext]
  /\ t.op = "save" =>
       /\ t.row \in Entity /\ (t.del => t.row.status = "inactive")
       /\ \E r \in rs : r.id = t.row.id /\ r.ext = t.row.ext
  /\ t.op = "mark" => t.id \in 1 .. n
TasksOK == DOMAIN task = Sessions /\ \A s \in Sessions : TaskOK(task[s], E!Range(store), made)
\* Who is creating an entity is alone, and there is no visible one yet.
Creates(t, e) == t = [op |-> "create", ext |-> e]
CreatorsOK ==
  ~raced /\ ~revived =>
    /\ \A s, o \in Sessions, e \in Identities : Creates(task[s], e) /\ Creates(task[o], e) => s = o
    /\ \A s \in Sessions, r \in E!Range(store) : Creates(task[s], r.ext) => r.deleted
    /\ \A r, q \in E!Range(store) : ~r.deleted /\ ~q.deleted /\ r.ext = q.ext => r.id = q.id
\* What is deleted, or about to be, is inactive.
Marks(t, i) == t.op = "mark" /\ t.id = i
DeletedOK ==
  ~revived => \A r \in E!Range(store) : r.deleted \/ (\E s \in Sessions : Marks(task[s], r.id)) => r.status = "inactive"
MemoryOK ==
  repository = "memory" =>
    /\ \A s \in Sessions : task[s].op = "none"
    /\ \A r \in E!Range(store) : ~r.deleted /\ resolved[r.ext] = r.id
    /\ \A e \in Identities : resolved[e] # 0 => \E r \in E!Range(store) : r.ext = e /\ r.id = resolved[e]
LinkedIn(ls, rs) == \A l \in ls : \E r \in rs : r.id = l.id /\ r.ext = l.ext
EntityInv == EntityTyped /\ TasksOK /\ CreatorsOK /\ DeletedOK /\ MemoryOK /\ LinkedIn(linked, E!Range(store))

\* The rows as a set.
LEMMA StoreRows ==
  ASSUME NEW st, NEW n, StoreOK(st, n)
  PROVE  /\ DOMAIN st = 1 .. n /\ \A k \in 1 .. n : st[k] \in Entity
         /\ \A r : r \in E!Range(st) <=> \E k \in 1 .. n : st[k] = r
         /\ \A r \in E!Range(st) : r \in Entity /\ r.id \in 1 .. n
         /\ \A r, q \in E!Range(st) : r.id = q.id => r = q
         /\ \A i \in 1 .. n : \E r \in E!Range(st) : r.id = i
<1>1. DOMAIN st = 1 .. n /\ \A k \in 1 .. n : st[k] \in Entity
  BY DEF StoreOK
<1>2. \A r : r \in E!Range(st) <=> \E k \in 1 .. n : st[k] = r
  BY <1>1 DEF E!Range
<1>3. \A r \in E!Range(st) : r \in Entity /\ r.id \in 1 .. n
  BY <1>1, <1>2 DEF StoreOK, IdsGiven
<1>4. \A r, q \in E!Range(st) : r.id = q.id => r = q
  BY <1>2 DEF StoreOK, IdsApart
<1>5. \A i \in 1 .. n : \E r \in E!Range(st) : r.id = i
  BY <1>2 DEF StoreOK, AllKept
<1> QED
  BY <1>1, <1>2, <1>3, <1>4, <1>5

LEMMA StoreAppends ==
  ASSUME NEW st, NEW n, StoreOK(st, n), NEW r \in Entity, r.id = n + 1
  PROVE  StoreOK(Append(st, r), n + 1) /\ \A q : q \in E!Range(Append(st, r)) <=> q \in E!Range(st) \/ q = r
<1> DEFINE z == Append(st, r)
<1>1. /\ z \in Seq(Entity) /\ Len(z) = n + 1 /\ n \in Nat /\ z[n + 1] = r /\ \A k \in 1 .. n : z[k] = st[k]
      /\ DOMAIN z = 1 .. (n + 1)
  BY DEF StoreOK
<1> HIDE DEF z
<1>3. /\ \A k \in 1 .. (n + 1) : k \in 1 .. n \/ k = n + 1
      /\ n + 1 \in 1 .. (n + 1) /\ n + 1 \in Nat /\ n + 1 \notin 1 .. n /\ \A k \in 1 .. n : k \in 1 .. (n + 1)
  BY <1>1
<1>5. IdsGiven(z, n + 1)
  BY <1>1, <1>3 DEF StoreOK, IdsGiven
<1>6. IdsApart(z, n + 1)
  <2> SUFFICES ASSUME NEW a \in 1 .. (n + 1), NEW b \in 1 .. (n + 1), z[a].id = z[b].id PROVE a = b
    BY DEF IdsApart
  <2>1. \A k \in 1 .. n : z[k].id # n + 1
    BY <1>1, <1>3 DEF StoreOK, IdsGiven
  <2>2. CASE a \in 1 .. n /\ b \in 1 .. n
    BY <1>1, <2>2 DEF StoreOK, IdsApart
  <2> QED
    BY <1>1, <1>3, <2>1, <2>2
<1>7. AllKept(z, n + 1)
  <2> SUFFICES ASSUME NEW i \in 1 .. (n + 1) PROVE \E k \in 1 .. (n + 1) : z[k].id = i
    BY DEF AllKept
  <2>1. CASE i \in 1 .. n
    <3>1. PICK k \in 1 .. n : st[k].id = i
      BY <2>1 DEF StoreOK, AllKept
    <3> QED
      BY <1>1, <1>3, <3>1
  <2> QED
    BY <1>1, <1>3, <2>1
<1>8. StoreOK(z, n + 1)
  BY <1>1, <1>3, <1>5, <1>6, <1>7 DEF StoreOK
<1>9. \A q : q \in E!Range(z) <=> q \in E!Range(st) \/ q = r
  <2>1. \A q : q \in E!Range(st) <=> \E k \in 1 .. n : st[k] = q
    BY StoreRows
  <2>2. \A q : q \in E!Range(z) <=> \E k \in 1 .. (n + 1) : z[k] = q
    BY <1>8, StoreRows
  <2> QED
    BY <1>1, <1>3, <2>1, <2>2
<1> QED
  BY <1>8, <1>9 DEF z

\* A row is written in its place, ...
Swapped(rs, zs, old, r) == \A q : q \in zs <=> (q \in rs /\ q # old) \/ q = r
InPlace(st, i, r) == [k \in DOMAIN st |-> IF st[k].id = i THEN r ELSE st[k]]
LEMMA StoreReplaces ==
  ASSUME NEW st, NEW n, StoreOK(st, n), NEW r \in Entity, NEW old \in E!Range(st), NEW i, r.id = i, old.id = i
  PROVE  StoreOK(InPlace(st, i, r), n) /\ Swapped(E!Range(st), E!Range(InPlace(st, i, r)), old, r)
<1>z. PICK z : z = InPlace(st, i, r)
  OBVIOUS
<1>y. z = [k \in DOMAIN st |-> IF st[k].id = i THEN r ELSE st[k]]
  BY <1>z DEF InPlace
<1>0. n \in Nat
  BY DEF StoreOK
<1>a. DOMAIN st = 1 .. n /\ \A k \in 1 .. n : st[k] \in Entity
  BY StoreRows
<1>b. \A q : q \in E!Range(st) <=> \E k \in 1 .. n : st[k] = q
  BY StoreRows
<1>1. n \in Nat /\ DOMAIN st = 1 .. n /\ \A k \in 1 .. n : st[k] \in Entity
  BY <1>0, <1>a
<1>2. PICK p \in 1 .. n : st[p] = old
  BY <1>b
<1>3. DOMAIN z = 1 .. n /\ z[p] = r /\ \A k \in 1 .. n : k # p => z[k] = st[k] /\ st[k] # old
  BY <1>y, <1>1, <1>2 DEF StoreOK, IdsApart
<1>4. \A k \in 1 .. n : z[k].id = st[k].id /\ z[k] \in Entity
  BY <1>1, <1>2, <1>3
<1>5. z \in Seq(Entity) /\ Len(z) = n
  <2>1. z = [k \in 1 .. n |-> z[k]]
    BY <1>y, <1>1
  <2> QED
    BY <1>1, <1>4, <2>1
<1>6. IdsGiven(z, n) /\ IdsApart(z, n) /\ AllKept(z, n)
  <2>1. IdsGiven(z, n)
    BY <1>4 DEF StoreOK, IdsGiven
  <2>2. IdsApart(z, n)
    BY <1>4 DEF StoreOK, IdsApart
  <2>3. AllKept(z, n)
    <3> SUFFICES ASSUME NEW p1 \in 1 .. n PROVE \E k \in 1 .. n : z[k].id = p1
      BY DEF AllKept
    <3>1. PICK k \in 1 .. n : st[k].id = p1
      BY DEF StoreOK, AllKept
    <3> QED
      BY <1>4, <3>1
  <2> QED
    BY <2>1, <2>2, <2>3
<1>7. StoreOK(z, n)
  BY <1>1, <1>5, <1>6 DEF StoreOK
<1>8. \A q : q \in E!Range(z) <=> \E k \in 1 .. n : z[k] = q
  BY <1>3 DEF E!Range
<1>9. \A q : q \in E!Range(z) <=> (q \in E!Range(st) /\ q # old) \/ q = r
  <2> SUFFICES ASSUME NEW q PROVE q \in E!Range(z) <=> (q \in E!Range(st) /\ q # old) \/ q = r
    OBVIOUS
  <2>1. q \in E!Range(z) => (q \in E!Range(st) /\ q # old) \/ q = r
    BY <1>b, <1>3, <1>8
  <2>2. q \in E!Range(st) /\ q # old => q \in E!Range(z)
    BY <1>b, <1>2, <1>3, <1>8
  <2>3. q = r => q \in E!Range(z)
    BY <1>2, <1>3, <1>8
  <2> QED
    BY <2>1, <2>2, <2>3
<1> QED
  BY <1>z, <1>7, <1>9 DEF Swapped

\* ... or moves to the end of the table, the ones after it one place down.
Onto(from, n) == \A p \in 1 .. n : \E k \in 1 .. n : from[k] = p
OneToOne(from, n) == \A j, k \in 1 .. n : from[j] = from[k] => j = k
LEMMA MovedPlaces ==
  ASSUME NEW n \in Nat, NEW at \in 1 .. n, NEW from, from = [k \in 1 .. n |-> IF k = n THEN at ELSE IF k < at THEN k ELSE k + 1]
  PROVE  Onto(from, n) /\ OneToOne(from, n) /\ \A k \in 1 .. n : from[k] \in 1 .. n /\ (k # n => from[k] # at)
<1>f. \A k \in 1 .. n : from[k] = IF k = n THEN at ELSE IF k < at THEN k ELSE k + 1
  OBVIOUS
<1>1. \A k \in 1 .. n : from[k] \in 1 .. n /\ (k # n => from[k] # at)
  BY <1>f
<1>2. OneToOne(from, n)
  BY <1>f DEF OneToOne
<1>3. ASSUME NEW p \in 1 .. n PROVE \E k \in 1 .. n : from[k] = p
  <2>1. CASE p < at
    <3>1. p # n
      BY <2>1
    <3> QED
      BY <1>f, <2>1, <3>1
  <2>2. CASE p = at
    <3>1. n \in 1 .. n
      OBVIOUS
    <3> QED
      BY <1>f, <2>2, <3>1
  <2>3. CASE p > at
    <3>1. p - 1 \in 1 .. n /\ p - 1 # n /\ ~(p - 1 < at) /\ p - 1 + 1 = p
      BY <2>3
    <3> QED
      BY <1>f, <3>1
  <2> QED
    BY <2>1, <2>2, <2>3
<1> QED
  BY <1>1, <1>2, <1>3 DEF Onto

LEMMA PermutedStore ==
  ASSUME NEW st, NEW n, StoreOK(st, n), NEW z, NEW from, z = [k \in 1 .. n |-> z[k]],
         Onto(from, n), OneToOne(from, n),
         \A k \in 1 .. n : from[k] \in 1 .. n /\ z[k].id = st[from[k]].id /\ z[k] \in Entity
  PROVE  StoreOK(z, n)
<1>1. n \in Nat
  BY DEF StoreOK
<1>2. z \in Seq(Entity) /\ Len(z) = n
  BY <1>1
<1>3. IdsGiven(z, n)
  BY DEF StoreOK, IdsGiven
<1>4. IdsApart(z, n)
  BY DEF StoreOK, IdsApart, OneToOne
<1>5. AllKept(z, n)
  <2> SUFFICES ASSUME NEW i \in 1 .. n PROVE \E k \in 1 .. n : z[k].id = i
    BY DEF AllKept
  <2>1. PICK p \in 1 .. n : st[p].id = i
    BY DEF StoreOK, AllKept
  <2>2. PICK k \in 1 .. n : from[k] = p
    BY DEF Onto
  <2> QED
    BY <2>1, <2>2
<1> QED
  BY <1>1, <1>2, <1>3, <1>4, <1>5 DEF StoreOK

LEMMA StoreMoves ==
  ASSUME EntityTyped, NEW w \in Entity, NEW old \in E!Range(store), w.id = old.id
  PROVE  /\ StoreOK(E!Saved(w), made)
         /\ \A q : q \in E!Range(E!Saved(w)) <=> (q \in E!Range(store) /\ q # old) \/ q = [w EXCEPT !.deleted = FALSE]
<1> DEFINE v == [w EXCEPT !.deleted = FALSE]
           z == E!Saved(w)
           n == Len(store)
<1>a. n = made /\ n \in Nat /\ StoreOK(store, n)
  BY DEF EntityTyped, StoreOK
<1>b. DOMAIN store = 1 .. n /\ \A k \in 1 .. n : store[k] \in Entity
  BY <1>a, StoreRows
<1>c. \A q : q \in E!Range(store) <=> \E k \in 1 .. n : store[k] = q
  BY <1>a, StoreRows
<1>2. v \in Entity /\ v.id = w.id
  BY DEF Entity
<1>3. PICK at \in 1 .. n : at = (CHOOSE k \in DOMAIN store : store[k].id = w.id) /\ store[at] = old
  <2>1. PICK p \in 1 .. n : store[p] = old
    BY <1>c
  <2> DEFINE c == CHOOSE k \in DOMAIN store : store[k].id = w.id
  <2>3. c \in DOMAIN store /\ store[c].id = w.id
    BY <1>b, <2>1
  <2> HIDE DEF c
  <2>4. c = p
    BY <1>a, <1>b, <2>1, <2>3 DEF StoreOK, IdsApart
  <2> QED
    BY <2>1, <2>4 DEF c
<1>4. z = [k \in 1 .. n |-> IF k = n THEN v ELSE IF k < at THEN store[k] ELSE store[k + 1]]
  BY <1>b, <1>3 DEF E!Saved
<1> HIDE DEF v, z, n
<1>5. n \in 1 .. n
  BY <1>a, <1>3
<1>6. PICK from : from = [k \in 1 .. n |-> IF k = n THEN at ELSE IF k < at THEN k ELSE k + 1]
  OBVIOUS
<1>7. \A k \in 1 .. n : z[k] = IF k = n THEN v ELSE store[from[k]]
  BY <1>4, <1>6
<1>8. from[n] = at
  BY <1>5, <1>6
<1>d. DOMAIN z = 1 .. n /\ z = [k \in 1 .. n |-> z[k]]
  BY <1>4
<1>m. Onto(from, n) /\ OneToOne(from, n) /\ \A k \in 1 .. n : from[k] \in 1 .. n /\ (k # n => from[k] # at)
  <2>1. n \in Nat
    BY <1>a
  <2> QED
    BY ONLY <2>1, <1>6, MovedPlaces
<1>e. \A k \in 1 .. n : from[k] \in 1 .. n /\ (k # n => from[k] # at)
  BY <1>m
<1>f. Onto(from, n) /\ OneToOne(from, n)
  BY <1>m
<1>9. \A k \in 1 .. n : z[k].id = store[from[k]].id /\ z[k] \in Entity
  <2> SUFFICES ASSUME NEW k \in 1 .. n PROVE z[k].id = store[from[k]].id /\ z[k] \in Entity
    OBVIOUS
  <2>1. from[k] \in 1 .. n
    BY <1>e
  <2>2. CASE k = n
    BY <1>2, <1>3, <1>7, <1>8, <2>2
  <2>3. CASE k # n
    BY <1>b, <1>7, <2>1, <2>3
  <2> QED
    BY <2>2, <2>3
<1>10. StoreOK(z, n)
  BY <1>a, <1>d, <1>e, <1>f, <1>9, PermutedStore
<1>11. \A q : q \in E!Range(z) <=> (q \in E!Range(store) /\ q # old) \/ q = v
  <2>1. \A q : q \in E!Range(z) <=> \E k \in 1 .. n : z[k] = q
    BY <1>d DEF E!Range
  <2>2. \A k \in 1 .. n : k # n => store[from[k]] # old /\ z[k] = store[from[k]]
    BY <1>a, <1>3, <1>e, <1>7 DEF StoreOK, IdsApart
  <2>4. z[n] = v
    BY <1>5, <1>7
  <2> SUFFICES ASSUME NEW q PROVE q \in E!Range(z) <=> (q \in E!Range(store) /\ q # old) \/ q = v
    OBVIOUS
  <2>5. q \in E!Range(z) => (q \in E!Range(store) /\ q # old) \/ q = v
    <3> SUFFICES ASSUME q \in E!Range(z), q # v PROVE q \in E!Range(store) /\ q # old
      OBVIOUS
    <3>1. PICK k \in 1 .. n : z[k] = q
      BY <2>1
    <3>2. store[from[k]] # old /\ q = store[from[k]] /\ from[k] \in 1 .. n
      BY <1>e, <2>2, <2>4, <3>1
    <3> QED
      BY <1>c, <3>2
  <2>6. q \in E!Range(store) /\ q # old => q \in E!Range(z)
    <3> SUFFICES ASSUME q \in E!Range(store), q # old PROVE q \in E!Range(z)
      OBVIOUS
    <3>1. PICK p \in 1 .. n : store[p] = q
      BY <1>c
    <3>2. PICK k \in 1 .. n : from[k] = p
      BY <1>f DEF Onto
    <3>3. k # n
      BY <1>3, <1>8, <3>1, <3>2
    <3> QED
      BY <1>7, <2>1, <3>1, <3>2, <3>3
  <2>7. q = v => q \in E!Range(z)
    BY <1>5, <2>1, <2>4
  <2> QED
    BY <2>5, <2>6, <2>7
<1> QED
  BY <1>a, <1>10, <1>11 DEF v, z

\* Every entity keeps its identity.
KeptIn(rs, zs) == \A r \in rs : \E q \in zs : q.id = r.id /\ q.ext = r.ext
LEMMA KeptTask ==
  ASSUME NEW rs, NEW zs, NEW n \in Nat, NEW m \in Nat, n <= m, KeptIn(rs, zs), NEW t, TaskOK(t, rs, n)
  PROVE  TaskOK(t, zs, m)
<1>1. t.op = "save" => \E r \in zs : r.id = t.row.id /\ r.ext = t.row.ext
  <2> SUFFICES ASSUME t.op = "save" PROVE \E r \in zs : r.id = t.row.id /\ r.ext = t.row.ext
    OBVIOUS
  <2>1. PICK r \in rs : r.id = t.row.id /\ r.ext = t.row.ext
    BY DEF TaskOK
  <2> QED
    BY <2>1 DEF KeptIn
<1>2. t.op = "mark" => t.id \in 1 .. m
  BY DEF TaskOK
<1> QED
  BY <1>1, <1>2 DEF TaskOK

LEMMA KeptLinks ==
  ASSUME NEW rs, NEW zs, KeptIn(rs, zs), NEW ls, LinkedIn(ls, rs)
  PROVE  LinkedIn(ls, zs)
<1> SUFFICES ASSUME NEW l \in ls PROVE \E q \in zs : q.id = l.id /\ q.ext = l.ext
  BY DEF LinkedIn
<1>1. PICK r \in rs : r.id = l.id /\ r.ext = l.ext
  BY DEF LinkedIn
<1> QED
  BY <1>1 DEF KeptIn

\* What changes is one session's task, and perhaps the rows.
LEMMA TasksStep ==
  ASSUME EntityTyped, TasksOK, NEW s \in Sessions, NEW t, task' = [task EXCEPT ![s] = t], made' \in Nat, made <= made',
         KeptIn(E!Range(store), E!Range(store')), TaskOK(t, E!Range(store'), made')
  PROVE  TasksOK'
<1>1. DOMAIN task' = Sessions /\ task'[s] = t /\ \A o \in Sessions : o # s => task'[o] = task[o]
  BY DEF TasksOK
<1>2. made \in Nat
  BY DEF EntityTyped, StoreOK
<1>3. ASSUME NEW o \in Sessions PROVE TaskOK(task'[o], E!Range(store'), made')
  <2>1. CASE o = s
    BY <1>1, <2>1
  <2>2. CASE o # s
    <3>1. TaskOK(task[o], E!Range(store), made)
      BY DEF TasksOK
    <3> QED
      BY <1>1, <1>2, <2>2, <3>1, KeptTask
  <2> QED
    BY <2>1, <2>2
<1> QED
  BY <1>1, <1>3 DEF TasksOK

\* A call begins: the identity is found, or its entity is to be created.
LEMMA ResolveStep ==
  ASSUME EntityInv, NEW s \in Sessions, NEW e \in Identities, E!ResolveOrCreate(s, e)
  PROVE  EntityInv'
<1>0. EntityTyped /\ TasksOK /\ CreatorsOK /\ DeletedOK /\ MemoryOK /\ LinkedIn(linked, E!Range(store))
  BY DEF EntityInv
<1>1. /\ repository = "table" /\ task[s] = E!Done
      /\ UNCHANGED <<repository, resolved, store, made, writes, revived>>
  BY DEF E!ResolveOrCreate, E!memoryVars
<1>2. KeptIn(E!Range(store), E!Range(store')) /\ E!Range(store') = E!Range(store)
  BY <1>1 DEF KeptIn
<1>a. made \in Nat /\ StoreOK(store, made) /\ (StoreOK(store, made))' /\ MemoryOK'
  BY <1>0, <1>1 DEF EntityTyped, StoreOK, MemoryOK
<1>b. \A r : r \in E!Range(store) <=> \E k \in 1 .. made : store[k] = r
  BY <1>a, StoreRows
<1>c. DOMAIN store = 1 .. made /\ \A k \in 1 .. made : store[k] \in Entity /\ store[k].id \in 1 .. made
  BY <1>a, StoreRows DEF StoreOK, IdsGiven
<1>3. CASE E!Found(e) # {}
  <2>1. PICK k \in E!Found(e) : linked' = linked \cup {[ext |-> e, id |-> store[k].id]} /\ UNCHANGED <<task, raced>>
    BY <1>3 DEF E!ResolveOrCreate
  <2>2. k \in 1 .. made /\ store[k].ext = e /\ store[k] \in E!Range(store) /\ store[k].id \in 1 .. made
    BY <1>b, <1>c, <2>1 DEF E!Found
  <2>3. EntityTyped'
    <3>1. [ext |-> e, id |-> store[k].id] \in [ext : Identities, id : 1 .. made]
      BY <2>2
    <3> QED
      BY <1>0, <1>1, <1>a, <2>1, <3>1 DEF EntityTyped
  <2>4. TasksOK' /\ CreatorsOK' /\ DeletedOK'
    BY <1>0, <1>1, <2>1 DEF TasksOK, CreatorsOK, DeletedOK
  <2>5. LinkedIn(linked', E!Range(store'))
    BY <1>0, <1>1, <2>1, <2>2 DEF LinkedIn
  <2> QED
    BY <1>a, <2>3, <2>4, <2>5 DEF EntityInv
<1>4. CASE E!Found(e) = {}
  <2>1. /\ task' = [task EXCEPT ![s] = [op |-> "create", ext |-> e]] /\ linked' = linked
        /\ raced' <=> (raced \/ \E o \in Sessions : task[o] = [op |-> "create", ext |-> e])
        /\ raced' \in BOOLEAN
    BY <1>0, <1>4 DEF E!ResolveOrCreate, EntityTyped
  <2>2. \A r \in E!Range(store) : r.ext = e => r.deleted
    BY <1>b, <1>c, <1>4 DEF E!Found, Entity
  <2>3. EntityTyped'
    BY <1>0, <1>1, <1>a, <2>1 DEF EntityTyped
  <2>4. TasksOK'
    <3>1. PICK t : t = [op |-> "create", ext |-> e]
      OBVIOUS
    <3>2. TaskOK(t, E!Range(store'), made')
      BY <3>1 DEF TaskOK
    <3>3. made' \in Nat /\ made <= made' /\ task' = [task EXCEPT ![s] = t]
      BY <1>1, <1>a, <2>1, <3>1
    <3> QED
      BY <1>0, <1>2, <3>2, <3>3, TasksStep
  <2>5. task'[s] = [op |-> "create", ext |-> e] /\ \A o \in Sessions : o # s => task'[o] = task[o]
    BY <1>0, <2>1 DEF TasksOK
  <2>6. \A i : ~Marks(task'[s], i)
    BY <2>5 DEF Marks
  <2>7. DeletedOK'
    BY <1>0, <1>1, <2>5, <2>6 DEF DeletedOK
  <2>8. \A i \in Identities : Creates(task'[s], i) <=> i = e
    BY <2>5 DEF Creates
  <2>9. CreatorsOK'
    <3> SUFFICES ASSUME ~raced', ~revived'
                 PROVE  /\ \A p, o \in Sessions, i \in Identities : Creates(task'[p], i) /\ Creates(task'[o], i) => p = o
                        /\ \A p \in Sessions, r \in E!Range(store') : Creates(task'[p], r.ext) => r.deleted
                        /\ \A r, q \in E!Range(store') : ~r.deleted /\ ~q.deleted /\ r.ext = q.ext => r.id = q.id
      BY DEF CreatorsOK
    <3>1. ~raced /\ ~revived /\ \A o \in Sessions : ~Creates(task[o], e)
      BY <1>1, <2>1 DEF Creates
    <3>2. \A p, o \in Sessions, i \in Identities : Creates(task'[p], i) /\ Creates(task'[o], i) => p = o
      BY <1>0, <2>5, <2>8, <3>1 DEF CreatorsOK
    <3>3. \A r \in E!Range(store) : r.ext \in Identities
      BY <1>a, StoreRows DEF Entity
    <3>4. \A p \in Sessions, r \in E!Range(store') : Creates(task'[p], r.ext) => r.deleted
      BY <1>0, <1>2, <2>2, <2>5, <2>8, <3>1, <3>3 DEF CreatorsOK
    <3> QED
      BY <1>0, <1>2, <3>1, <3>2, <3>4 DEF CreatorsOK
  <2>10. LinkedIn(linked', E!Range(store'))
    BY <1>0, <1>2, <2>1
  <2> QED
    BY <1>a, <2>3, <2>4, <2>7, <2>9, <2>10 DEF EntityInv
<1> QED
  BY <1>3, <1>4

\* The entity is made, whoever else has it.
LEMMA CreateEntityStep ==
  ASSUME EntityInv, NEW s \in Sessions, E!CreateEntity(s)
  PROVE  EntityInv'
<1>0. EntityTyped /\ TasksOK /\ CreatorsOK /\ DeletedOK /\ MemoryOK /\ LinkedIn(linked, E!Range(store))
  BY DEF EntityInv
<1>1. /\ task[s].op = "create" /\ made' = made + 1 /\ store' = Append(store, E!NewEntity(task[s].ext))
      /\ linked' = linked \cup {[ext |-> task[s].ext, id |-> made + 1]} /\ task' = [task EXCEPT ![s] = E!Done]
      /\ UNCHANGED <<repository, resolved, writes, raced, revived>>
  BY DEF E!CreateEntity, E!memoryVars
<1>2. PICK e \in Identities : e = task[s].ext /\ task[s] = [op |-> "create", ext |-> e]
  BY <1>0, <1>1 DEF TasksOK, TaskOK
<1>3. PICK r \in Entity : r = [id |-> made + 1, ext |-> e, status |-> "unknown", deleted |-> FALSE]
  <2>1. made + 1 \in Nat
    BY <1>0 DEF EntityTyped, StoreOK
  <2>2. "unknown" \in E!Statuses
    BY DEF E!Statuses
  <2>3. [id |-> made + 1, ext |-> e, status |-> "unknown", deleted |-> FALSE] \in Entity
    BY <2>1, <2>2 DEF Entity
  <2> QED
    BY <2>3
<1>4. store' = Append(store, r) /\ r.id = made + 1 /\ r.ext = e /\ ~r.deleted
  BY <1>1, <1>2, <1>3 DEF E!NewEntity
<1>5. StoreOK(store, made) /\ made \in Nat /\ made + 1 \in Nat
  BY <1>0 DEF EntityTyped, StoreOK
<1>6. StoreOK(store', made') /\ \A q : q \in E!Range(store') <=> q \in E!Range(store) \/ q = r
  BY <1>1, <1>4, <1>5, StoreAppends
<1>7. KeptIn(E!Range(store), E!Range(store'))
  BY <1>6 DEF KeptIn
<1>8. DOMAIN task' = Sessions /\ task'[s] = E!Done /\ \A o \in Sessions : o # s => task'[o] = task[o]
  BY <1>0, <1>1 DEF TasksOK
<1>9. EntityTyped'
  <2>1. [ext |-> e, id |-> made + 1] \in [ext : Identities, id : 1 .. (made + 1)]
    BY <1>5
  <2>2. resolved' \in [Identities -> 0 .. (made + 1)]
    BY <1>0, <1>1, <1>5 DEF EntityTyped
  <2>3. \A l \in linked : l \in [ext : Identities, id : 1 .. (made + 1)]
    BY <1>0, <1>5 DEF EntityTyped
  <2> QED
    BY <1>0, <1>1, <1>2, <1>6, <2>1, <2>2, <2>3 DEF EntityTyped
<1>10. TasksOK'
  <2>1. TaskOK(E!Done, E!Range(store'), made')
    BY DEF TaskOK, E!Done
  <2>2. made' \in Nat /\ made <= made'
    BY <1>1, <1>5
  <2> QED
    BY <1>0, <1>1, <1>7, <2>1, <2>2, TasksStep
<1>11. CreatorsOK'
  <2> SUFFICES ASSUME ~raced, ~revived
               PROVE  /\ \A p, o \in Sessions, i \in Identities : Creates(task'[p], i) /\ Creates(task'[o], i) => p = o
                      /\ \A p \in Sessions, x \in E!Range(store') : Creates(task'[p], x.ext) => x.deleted
                      /\ \A x, q \in E!Range(store') : ~x.deleted /\ ~q.deleted /\ x.ext = q.ext => x.id = q.id
    BY <1>1 DEF CreatorsOK
  <2>1. \A i : ~Creates(task'[s], i)
    BY <1>8 DEF Creates, E!Done
  <2>2. Creates(task[s], e)
    BY <1>2 DEF Creates
  <2>3. \A p, o \in Sessions, i \in Identities : Creates(task'[p], i) /\ Creates(task'[o], i) => p = o
    BY <1>0, <1>8, <2>1 DEF CreatorsOK
  <2>4. \A x \in E!Range(store) : x.ext = e => x.deleted
    BY <1>0, <2>2 DEF CreatorsOK
  <2>5. ASSUME NEW p \in Sessions, NEW x \in E!Range(store'), Creates(task'[p], x.ext) PROVE x.deleted
    <3>1. p # s /\ Creates(task[p], x.ext)
      BY <1>8, <2>1, <2>5
    <3>2. CASE x = r
      BY <1>0, <1>4, <2>2, <3>1, <3>2 DEF CreatorsOK
    <3>3. CASE x \in E!Range(store)
      BY <1>0, <3>1, <3>3 DEF CreatorsOK
    <3> QED
      BY <1>6, <3>2, <3>3
  <2>6. ASSUME NEW x \in E!Range(store'), NEW q \in E!Range(store'), ~x.deleted, ~q.deleted, x.ext = q.ext PROVE x.id = q.id
    <3>1. CASE x \in E!Range(store) /\ q \in E!Range(store)
      BY <1>0, <2>6, <3>1 DEF CreatorsOK
    <3> QED
      BY <1>4, <1>6, <2>4, <2>6, <3>1
  <2> QED
    BY <2>3, <2>5, <2>6
<1>12. DeletedOK'
  <2> SUFFICES ASSUME ~revived, NEW x \in E!Range(store'), x.deleted \/ \E o \in Sessions : Marks(task'[o], x.id)
               PROVE  x.status = "inactive"
    BY <1>1 DEF DeletedOK
  <2>1. \A i : ~Marks(task'[s], i)
    BY <1>8 DEF Marks, E!Done
  <2>2. CASE x \in E!Range(store)
    BY <1>0, <1>8, <2>1, <2>2 DEF DeletedOK
  <2>3. CASE x = r
    <3>1. \A o \in Sessions : ~Marks(task[o], made + 1)
      BY <1>0, <1>5 DEF TasksOK, TaskOK, Marks
    <3> QED
      BY <1>4, <1>8, <2>1, <2>3, <3>1
  <2> QED
    BY <1>6, <2>2, <2>3
<1>13. MemoryOK'
  BY <1>0, <1>1 DEF MemoryOK
<1>14. LinkedIn(linked', E!Range(store'))
  <2>1. LinkedIn(linked, E!Range(store'))
    BY <1>0, <1>7, KeptLinks
  <2> QED
    BY <1>1, <1>2, <1>4, <1>6, <2>1 DEF LinkedIn
<1> QED
  BY <1>9, <1>10, <1>11, <1>12, <1>13, <1>14 DEF EntityInv

\* A session's task ends or is a change to write, and nothing else happens.
LEMMA OnlyTask ==
  ASSUME EntityInv, NEW s \in Sessions, NEW t, task' = [task EXCEPT ![s] = t], repository = "table",
         UNCHANGED <<repository, resolved, store, made, linked, raced, revived>>,
         TaskOK(t, E!Range(store), made), t.op \in {"none", "save"}
  PROVE  EntityInv'
<1>0. EntityTyped /\ TasksOK /\ CreatorsOK /\ DeletedOK /\ MemoryOK /\ LinkedIn(linked, E!Range(store))
  BY DEF EntityInv
<1>1. DOMAIN task' = Sessions /\ task'[s] = t /\ \A o \in Sessions : o # s => task'[o] = task[o]
  BY <1>0 DEF TasksOK
<1>2. E!Range(store') = E!Range(store) /\ KeptIn(E!Range(store), E!Range(store')) /\ made' \in Nat /\ made <= made'
  BY <1>0 DEF KeptIn, EntityTyped, StoreOK
<1>3. TasksOK'
  BY <1>0, <1>2, TasksStep
<1>4. \A i : ~Creates(t, i) /\ ~Marks(t, i)
  BY DEF Creates, Marks
<1>5. CreatorsOK'
  BY <1>0, <1>1, <1>2, <1>4 DEF CreatorsOK
<1>6. DeletedOK'
  BY <1>0, <1>1, <1>2, <1>4 DEF DeletedOK
<1>7. EntityTyped' /\ MemoryOK' /\ LinkedIn(linked', E!Range(store'))
  BY <1>0, <1>2 DEF EntityTyped, StoreOK, MemoryOK
<1> QED
  BY <1>3, <1>5, <1>6, <1>7 DEF EntityInv

LEMMA ChangeBegins ==
  ASSUME EntityInv, NEW s \in Sessions, NEW i \in E!VisibleIds, NEW st \in E!Statuses, NEW del \in BOOLEAN,
         del => st = "inactive", E!ReadForChange(s, i, st, del)
  PROVE  EntityInv'
<1>1. E!RowOf(i) \in E!Range(store) /\ E!RowOf(i).id = i
  BY DEF E!VisibleIds, E!Visible, E!RowOf
<1>2. E!RowOf(i) \in Entity
  BY <1>1, StoreRows DEF EntityInv, EntityTyped
<1>3. PICK w \in Entity : w = [E!RowOf(i) EXCEPT !.status = st] /\ w.id = i /\ w.ext = E!RowOf(i).ext /\ w.status = st
  <2>1. PICK old \in Entity : old = E!RowOf(i) /\ old.id = i
    BY <1>1, <1>2
  <2>2. [old EXCEPT !.status = st] \in Entity
    BY <2>1 DEF Entity
  <2>3. [old EXCEPT !.status = st].id = i /\ [old EXCEPT !.status = st].ext = old.ext /\ [old EXCEPT !.status = st].status = st
    BY <2>1 DEF Entity
  <2> QED
    BY <2>1, <2>2, <2>3
<1>4. PICK t : t = [op |-> "save", row |-> w, del |-> del]
  OBVIOUS
<1>5. repository = "table" /\ task' = [task EXCEPT ![s] = t] /\ UNCHANGED <<repository, resolved, store, made, linked, raced, revived>>
  BY <1>3, <1>4 DEF E!ReadForChange, E!memoryVars
<1>6. TaskOK(t, E!Range(store), made) /\ t.op \in {"none", "save"}
  BY <1>1, <1>3, <1>4 DEF TaskOK
<1> QED
  BY <1>5, <1>6, OnlyTask

\* A row is replaced by one of the same id and identity, visible only if it was or if the
\* replacement is remembered.
Replaces(old, r) ==
  /\ old \in E!Range(store) /\ r \in Entity /\ r.id = old.id /\ r.ext = old.ext
  /\ StoreOK(store', made') /\ \A q : q \in E!Range(store') <=> (q \in E!Range(store) /\ q # old) \/ q = r
LEMMA ReplacedRow ==
  ASSUME EntityInv, NEW old, NEW r, Replaces(old, r), ~revived' => ~revived, revived' \in BOOLEAN,
         ~revived' => (r.deleted \/ ~old.deleted), NEW s \in Sessions, NEW t, task' = [task EXCEPT ![s] = t],
         TaskOK(t, E!Range(store'), made), t.op \in {"none", "mark"},
         ~revived' => /\ (r.deleted => r.status = "inactive")
                      /\ ((t.op = "mark" \/ \E o \in Sessions : Marks(task[o], r.id)) => r.status = "inactive"),
         t.op = "mark" => t.id = r.id,
         repository = "table", UNCHANGED <<repository, resolved, made, linked, raced>>
  PROVE  EntityInv'
<1>0. EntityTyped /\ TasksOK /\ CreatorsOK /\ DeletedOK /\ MemoryOK /\ LinkedIn(linked, E!Range(store))
  BY DEF EntityInv
<1>a. /\ old \in E!Range(store) /\ r \in Entity /\ r.id = old.id /\ r.ext = old.ext
      /\ StoreOK(store', made') /\ \A q : q \in E!Range(store') <=> (q \in E!Range(store) /\ q # old) \/ q = r
  BY DEF Replaces
<1>1. DOMAIN task' = Sessions /\ task'[s] = t /\ \A o \in Sessions : o # s => task'[o] = task[o]
  BY <1>0 DEF TasksOK
<1>2. KeptIn(E!Range(store), E!Range(store')) /\ made' \in Nat /\ made <= made'
  BY <1>0, <1>a DEF KeptIn, EntityTyped, StoreOK
<1>3. TasksOK'
  BY <1>0, <1>2, TasksStep
<1>4. \A i : ~Creates(t, i)
  BY DEF Creates
<1>5. CreatorsOK'
  <2> SUFFICES ASSUME ~raced, ~revived'
               PROVE  /\ \A p, o \in Sessions, i \in Identities : Creates(task'[p], i) /\ Creates(task'[o], i) => p = o
                      /\ \A p \in Sessions, x \in E!Range(store') : Creates(task'[p], x.ext) => x.deleted
                      /\ \A x, q \in E!Range(store') : ~x.deleted /\ ~q.deleted /\ x.ext = q.ext => x.id = q.id
    BY DEF CreatorsOK
  <2>1. /\ \A p, o \in Sessions, i \in Identities : Creates(task[p], i) /\ Creates(task[o], i) => p = o
        /\ \A p \in Sessions, x \in E!Range(store) : Creates(task[p], x.ext) => x.deleted
        /\ \A x, q \in E!Range(store) : ~x.deleted /\ ~q.deleted /\ x.ext = q.ext => x.id = q.id
    BY <1>0 DEF CreatorsOK
  <2>2. r.deleted \/ ~old.deleted
    OBVIOUS
  <2>3. \A p, o \in Sessions, i \in Identities : Creates(task'[p], i) /\ Creates(task'[o], i) => p = o
    BY <1>1, <1>4, <2>1
  <2>4. \A x \in E!Range(store') : x.deleted \/ \E y \in E!Range(store) : ~y.deleted /\ y.ext = x.ext /\ y.id = x.id
    BY <1>a, <2>2
  <2>5. ASSUME NEW p \in Sessions, NEW x \in E!Range(store'), Creates(task'[p], x.ext) PROVE x.deleted
    <3>1. p # s /\ Creates(task[p], x.ext)
      BY <1>1, <1>4, <2>5
    <3> QED
      BY <2>1, <2>4, <3>1
  <2>6. ASSUME NEW x \in E!Range(store'), NEW q \in E!Range(store'), ~x.deleted, ~q.deleted, x.ext = q.ext PROVE x.id = q.id
    <3>1. PICK y \in E!Range(store) : ~y.deleted /\ y.ext = x.ext /\ y.id = x.id
      BY <2>4, <2>6
    <3>2. PICK z \in E!Range(store) : ~z.deleted /\ z.ext = q.ext /\ z.id = q.id
      BY <2>4, <2>6
    <3> QED
      BY <2>1, <2>6, <3>1, <3>2
  <2> QED
    BY <2>3, <2>5, <2>6
<1>6. DeletedOK'
  <2> SUFFICES ASSUME ~revived', NEW x \in E!Range(store'), x.deleted \/ \E o \in Sessions : Marks(task'[o], x.id)
               PROVE  x.status = "inactive"
    BY DEF DeletedOK
  <2>1. \A o \in Sessions : Marks(task'[o], x.id) => Marks(task[o], x.id) \/ (t.op = "mark" /\ x.id = r.id)
    BY <1>1 DEF Marks
  <2>2. CASE x = r
    BY <2>1, <2>2
  <2>3. CASE x \in E!Range(store) /\ x # r
    <3>1. x.id # r.id
      BY <1>a, <2>3, StoreRows
    <3> QED
      BY <1>0, <2>1, <2>3, <3>1 DEF DeletedOK
  <2> QED
    BY <1>a, <2>2, <2>3
<1>7. EntityTyped'
  BY <1>0, <1>a DEF EntityTyped
<1>8. MemoryOK'
  BY DEF MemoryOK
<1>9. LinkedIn(linked', E!Range(store'))
  BY <1>0, <1>2, KeptLinks
<1> QED
  BY <1>3, <1>5, <1>6, <1>7, <1>8, <1>9 DEF EntityInv

LEMMA SaveStep ==
  ASSUME EntityInv, NEW s \in Sessions, E!SaveChange(s)
  PROVE  EntityInv'
<1>0. EntityTyped /\ TasksOK /\ CreatorsOK /\ DeletedOK /\ MemoryOK /\ LinkedIn(linked, E!Range(store))
  BY DEF EntityInv
<1>1. /\ task[s].op = "save" /\ store' = E!Saved(task[s].row)
      /\ task' = [task EXCEPT ![s] = IF task[s].del THEN [op |-> "mark", id |-> task[s].row.id] ELSE E!Done]
      /\ revived' <=> (revived \/ E!RowOf(task[s].row.id).deleted
                               \/ \E o \in Sessions : task[o].op = "mark" /\ task[o].id = task[s].row.id)
      /\ revived' \in BOOLEAN
      /\ UNCHANGED <<repository, resolved, made, linked, writes, raced>>
  BY <1>0 DEF E!SaveChange, E!memoryVars, EntityTyped, E!RowOf
<1>2. PICK w \in Entity : w = task[s].row /\ (task[s].del => w.status = "inactive")
                          /\ \E q \in E!Range(store) : q.id = w.id /\ q.ext = w.ext
  BY <1>0, <1>1 DEF TasksOK, TaskOK
<1>3. PICK old \in E!Range(store) : old.id = w.id /\ old.ext = w.ext
  BY <1>2
<1>4. StoreOK(store, made) /\ made \in Nat
  BY <1>0 DEF EntityTyped, StoreOK
<1>5. E!RowOf(w.id) = old
  <2>1. E!RowOf(w.id) \in E!Range(store) /\ E!RowOf(w.id).id = w.id
    BY <1>3 DEF E!RowOf
  <2> QED
    BY <1>3, <1>4, <2>1, StoreRows
<1>6. PICK r \in Entity : r = [w EXCEPT !.deleted = FALSE] /\ r.id = w.id /\ r.ext = w.ext /\ r.status = w.status /\ ~r.deleted
  <2>1. [w EXCEPT !.deleted = FALSE] \in Entity
    BY DEF Entity
  <2>2. /\ [w EXCEPT !.deleted = FALSE].id = w.id /\ [w EXCEPT !.deleted = FALSE].ext = w.ext
        /\ [w EXCEPT !.deleted = FALSE].status = w.status /\ ~[w EXCEPT !.deleted = FALSE].deleted
    BY DEF Entity
  <2> QED
    BY <2>1, <2>2
<1>7. Replaces(old, r)
  BY <1>0, <1>1, <1>2, <1>3, <1>6, StoreMoves DEF Replaces
<1>8. PICK t : t = IF task[s].del THEN [op |-> "mark", id |-> w.id] ELSE E!Done
  OBVIOUS
<1>9. t.op \in {"none", "mark"} /\ (t.op = "mark" => t.id = r.id /\ task[s].del) /\ TaskOK(t, E!Range(store'), made)
  <2>1. w.id \in 1 .. made
    BY <1>3, <1>4, StoreRows
  <2> QED
    BY <1>6, <1>8, <2>1 DEF TaskOK, E!Done
<1>10. ~revived' => ~old.deleted /\ \A o \in Sessions : ~Marks(task[o], r.id)
  BY <1>1, <1>2, <1>5, <1>6 DEF Marks
<1>11. ~revived' => /\ (r.deleted => r.status = "inactive")
                    /\ ((t.op = "mark" \/ \E o \in Sessions : Marks(task[o], r.id)) => r.status = "inactive")
  BY <1>2, <1>6, <1>9, <1>10
<1>12. repository = "table"
  BY <1>0, <1>1 DEF EntityTyped, MemoryOK
<1>13. task' = [task EXCEPT ![s] = t] /\ (~revived' => ~revived)
  BY <1>1, <1>2, <1>8
<1> QED
  BY <1>1, <1>7, <1>9, <1>10, <1>11, <1>12, <1>13, ReplacedRow

LEMMA MarkStep ==
  ASSUME EntityInv, NEW s \in Sessions, E!MarkDeleted(s)
  PROVE  EntityInv'
<1>0. EntityTyped /\ TasksOK /\ CreatorsOK /\ DeletedOK /\ MemoryOK /\ LinkedIn(linked, E!Range(store))
  BY DEF EntityInv
<1>1. /\ task[s].op = "mark" /\ task' = [task EXCEPT ![s] = E!Done]
      /\ store' = [k \in DOMAIN store |-> IF store[k].id = task[s].id THEN [store[k] EXCEPT !.deleted = TRUE] ELSE store[k]]
      /\ UNCHANGED <<repository, resolved, made, linked, writes, raced, revived>>
  BY DEF E!MarkDeleted, E!memoryVars
<1>2. StoreOK(store, made) /\ task[s].id \in 1 .. made
  BY <1>0, <1>1 DEF EntityTyped, TasksOK, TaskOK
<1>3. PICK old \in E!Range(store) : old.id = task[s].id
  BY <1>2, StoreRows
<1>4. old \in Entity /\ \A k \in DOMAIN store : store[k].id = old.id => store[k] = old
  BY <1>2, StoreRows
<1>5. PICK r \in Entity : r = [old EXCEPT !.deleted = TRUE] /\ r.id = old.id /\ r.ext = old.ext /\ r.status = old.status /\ r.deleted
  <2>1. [old EXCEPT !.deleted = TRUE] \in Entity
    BY <1>4 DEF Entity
  <2>2. /\ [old EXCEPT !.deleted = TRUE].id = old.id /\ [old EXCEPT !.deleted = TRUE].ext = old.ext
        /\ [old EXCEPT !.deleted = TRUE].status = old.status /\ [old EXCEPT !.deleted = TRUE].deleted
    BY <1>4 DEF Entity
  <2> QED
    BY <2>1, <2>2
<1>6. store' = InPlace(store, old.id, r)
  BY <1>1, <1>3, <1>4, <1>5 DEF InPlace
<1>7. Replaces(old, r)
  <2>1. StoreOK(store', made) /\ \A q : q \in E!Range(store') <=> (q \in E!Range(store) /\ q # old) \/ q = r
    <3>1. StoreOK(InPlace(store, old.id, r), made) /\ Swapped(E!Range(store), E!Range(InPlace(store, old.id, r)), old, r)
      BY <1>2, <1>5, StoreReplaces
    <3> QED
      BY <1>6, <3>1 DEF Swapped
  <2> QED
    BY <1>1, <1>5, <2>1 DEF Replaces
<1>8. ~revived => r.status = "inactive"
  BY <1>0, <1>1, <1>3, <1>5 DEF DeletedOK, Marks
<1>9. PICK t : t = E!Done /\ TaskOK(t, E!Range(store'), made) /\ t.op = "none"
  <2>1. TaskOK(E!Done, E!Range(store'), made) /\ E!Done.op = "none"
    BY DEF TaskOK, E!Done
  <2> QED
    BY <2>1
<1>10. repository = "table" /\ revived' = revived /\ revived' \in BOOLEAN
  BY <1>0, <1>1 DEF EntityTyped, MemoryOK
<1>11. /\ task' = [task EXCEPT ![s] = t] /\ t.op \in {"none", "mark"} /\ (t.op = "mark" => t.id = r.id)
       /\ (~revived' => ~revived) /\ (~revived' => (r.deleted \/ ~old.deleted))
       /\ ~revived' => /\ (r.deleted => r.status = "inactive")
                       /\ ((t.op = "mark" \/ \E o \in Sessions : Marks(task[o], r.id)) => r.status = "inactive")
       /\ UNCHANGED <<repository, resolved, made, linked, raced>>
  BY <1>1, <1>5, <1>8, <1>9, <1>10
<1> QED
  BY <1>7, <1>9, <1>10, <1>11, ReplacedRow

\* In memory, a row of the entities there, or of a new one, is written, and its identity is its own.
LEMMA WrittenInMemory ==
  ASSUME EntityInv, repository = "memory", NEW r \in Entity, ~r.deleted, StoreOK(store', made'), made <= made',
         resolved' = [resolved EXCEPT ![r.ext] = r.id], KeptIn(E!Range(store), E!Range(store')),
         \A q : q \in E!Range(store') <=> (q \in E!Range(store) /\ q.id # r.id) \/ q = r,
         \A q \in E!Range(store) : q.ext = r.ext <=> q.id = r.id,
         LinkedIn(linked', E!Range(store')), linked' \subseteq [ext : Identities, id : 1 .. made'],
         UNCHANGED <<repository, task, raced, revived>>
  PROVE  EntityInv'
<1>0. EntityTyped /\ TasksOK /\ CreatorsOK /\ DeletedOK /\ MemoryOK /\ LinkedIn(linked, E!Range(store))
  BY DEF EntityInv
<1>1. /\ \A s \in Sessions : task[s].op = "none"
      /\ \A q \in E!Range(store) : ~q.deleted /\ resolved[q.ext] = q.id
      /\ \A e \in Identities : resolved[e] # 0 => \E q \in E!Range(store) : q.ext = e /\ q.id = resolved[e]
  BY <1>0 DEF MemoryOK
<1>2. /\ made \in Nat /\ made' \in Nat /\ resolved \in [Identities -> 0 .. made] /\ r.ext \in Identities
      /\ \A q \in E!Range(store) : q.ext \in Identities
  <2>1. StoreOK(store, made) /\ resolved \in [Identities -> 0 .. made]
    BY <1>0 DEF EntityTyped
  <2>2. \A q \in E!Range(store) : q \in Entity
    BY <2>1, StoreRows
  <2>3. made \in Nat /\ made' \in Nat
    BY <2>1 DEF StoreOK
  <2> QED
    BY <2>1, <2>2, <2>3 DEF Entity
<1>3. r.id \in 1 .. made'
  BY StoreRows
<1>4. resolved'[r.ext] = r.id /\ \A e \in Identities : e # r.ext => resolved'[e] = resolved[e]
  BY <1>2
<1>5. EntityTyped'
  <2>1. resolved' \in [Identities -> 0 .. made']
    <3>1. \A e \in Identities : resolved'[e] \in 0 .. made'
      BY <1>2, <1>3, <1>4
    <3> QED
      BY <1>2, <3>1
  <2> QED
    BY <1>0, <2>1 DEF EntityTyped
<1>6. TasksOK'
  <2>1. \A s \in Sessions : TaskOK(task[s], E!Range(store'), made')
    BY <1>0, <1>1 DEF TasksOK, TaskOK
  <2> QED
    BY <1>0, <2>1 DEF TasksOK
<1>7. \A s \in Sessions : \A x : ~Creates(task[s], x) /\ ~Marks(task[s], x)
  BY <1>1 DEF Creates, Marks
<1>8. \A q \in E!Range(store') : ~q.deleted /\ resolved'[q.ext] = q.id
  BY <1>1, <1>2, <1>4
<1>9. \A e \in Identities : resolved'[e] # 0 => \E q \in E!Range(store') : q.ext = e /\ q.id = resolved'[e]
  <2> SUFFICES ASSUME NEW e \in Identities, resolved'[e] # 0 PROVE \E q \in E!Range(store') : q.ext = e /\ q.id = resolved'[e]
    OBVIOUS
  <2>1. CASE e = r.ext
    BY <1>4, <2>1
  <2>2. CASE e # r.ext
    <3>1. PICK q \in E!Range(store) : q.ext = e /\ q.id = resolved[e]
      BY <1>1, <1>4, <2>2
    <3> QED
      BY <1>4, <2>2, <3>1
  <2> QED
    BY <2>1, <2>2
<1>10. MemoryOK'
  BY <1>1, <1>8, <1>9 DEF MemoryOK
<1>11. CreatorsOK' /\ DeletedOK'
  BY <1>7, <1>8 DEF CreatorsOK, DeletedOK
<1> QED
  BY <1>5, <1>6, <1>10, <1>11 DEF EntityInv

LEMMA ResolveMemoryStep ==
  ASSUME EntityInv, NEW e \in Identities, E!ResolveInMemory(e)
  PROVE  EntityInv'
<1>0. EntityTyped /\ TasksOK /\ CreatorsOK /\ DeletedOK /\ MemoryOK /\ LinkedIn(linked, E!Range(store))
  BY DEF EntityInv
<1>1. repository = "memory" /\ UNCHANGED <<repository, task, writes, raced, revived>>
  BY DEF E!ResolveInMemory
<1>2. StoreOK(store, made) /\ made \in Nat /\ made + 1 \in Nat
  BY <1>0 DEF EntityTyped, StoreOK
<1>3. CASE resolved[e] # 0
  <2>1. linked' = linked \cup {[ext |-> e, id |-> resolved[e]]} /\ UNCHANGED <<store, resolved, made>>
    BY <1>3 DEF E!ResolveInMemory
  <2>2. PICK q \in E!Range(store) : q.ext = e /\ q.id = resolved[e]
    BY <1>0, <1>1, <1>3 DEF MemoryOK
  <2>3. [ext |-> e, id |-> resolved[e]] \in [ext : Identities, id : 1 .. made]
    BY <1>2, <2>2, StoreRows
  <2>4. EntityTyped'
    BY <1>0, <1>1, <2>1, <2>3 DEF EntityTyped, StoreOK, IdsGiven, IdsApart, AllKept
  <2>5. TasksOK' /\ CreatorsOK' /\ DeletedOK' /\ MemoryOK'
    BY <1>0, <1>1, <2>1 DEF TasksOK, CreatorsOK, DeletedOK, MemoryOK
  <2>6. LinkedIn(linked', E!Range(store'))
    BY <1>0, <2>1, <2>2 DEF LinkedIn
  <2> QED
    BY <2>4, <2>5, <2>6 DEF EntityInv
<1>4. CASE resolved[e] = 0
  <2>1. E!SavedInMemory(E!NewEntity(e)) /\ made' = made + 1 /\ linked' = linked \cup {[ext |-> e, id |-> made + 1]}
    BY <1>4 DEF E!ResolveInMemory
  <2>2. PICK r \in Entity : r = E!NewEntity(e) /\ r.id = made + 1 /\ r.ext = e /\ ~r.deleted
    <3>1. "unknown" \in E!Statuses
      BY DEF E!Statuses
    <3>2. E!NewEntity(e) \in Entity
      BY <1>2, <3>1 DEF E!NewEntity, Entity
    <3>3. E!NewEntity(e).id = made + 1 /\ E!NewEntity(e).ext = e /\ ~E!NewEntity(e).deleted
      BY DEF E!NewEntity
    <3> QED
      BY <3>2, <3>3
  <2>3. \A q \in E!Range(store) : q.id # r.id /\ q.ext # e /\ q.id \in 1 .. made
    <3>1. \A q \in E!Range(store) : q.id \in 1 .. made /\ resolved[q.ext] = q.id
      BY <1>0, <1>1, <1>2, StoreRows DEF MemoryOK
    <3> QED
      BY <1>2, <1>4, <2>2, <3>1
  <2>4. r.id \notin E!VisibleIds
    BY <2>3 DEF E!VisibleIds, E!Visible
  <2>5. store' = Append(store, r) /\ resolved' = [resolved EXCEPT ![r.ext] = r.id]
    BY <2>1, <2>2, <2>4 DEF E!SavedInMemory
  <2>6. StoreOK(store', made') /\ \A q : q \in E!Range(store') <=> q \in E!Range(store) \/ q = r
    BY <1>2, <2>1, <2>2, <2>5, StoreAppends
  <2>7. KeptIn(E!Range(store), E!Range(store'))
    BY <2>6 DEF KeptIn
  <2>8. LinkedIn(linked', E!Range(store'))
    <3>1. LinkedIn(linked, E!Range(store'))
      BY <1>0, <2>7, KeptLinks
    <3> QED
      BY <2>1, <2>2, <2>6, <3>1 DEF LinkedIn
  <2>9. linked' \subseteq [ext : Identities, id : 1 .. made']
    <3>1. [ext |-> e, id |-> made + 1] \in [ext : Identities, id : 1 .. (made + 1)]
      BY <1>2
    <3>2. \A l \in linked : l \in [ext : Identities, id : 1 .. (made + 1)]
      BY <1>0, <1>2 DEF EntityTyped
    <3> QED
      BY <2>1, <3>1, <3>2
  <2>10. /\ made <= made' /\ \A q : q \in E!Range(store') <=> (q \in E!Range(store) /\ q.id # r.id) \/ q = r
         /\ \A q \in E!Range(store) : q.ext = r.ext <=> q.id = r.id
    BY <1>2, <2>1, <2>2, <2>3, <2>6
  <2> QED
    BY <1>1, <2>2, <2>5, <2>6, <2>7, <2>8, <2>9, <2>10, WrittenInMemory
<1> QED
  BY <1>3, <1>4

LEMMA ChangeMemoryStep ==
  ASSUME EntityInv, NEW i \in E!VisibleIds, NEW st \in E!Statuses, E!ChangeInMemory(i, st)
  PROVE  EntityInv'
<1>0. EntityTyped /\ TasksOK /\ CreatorsOK /\ DeletedOK /\ MemoryOK /\ LinkedIn(linked, E!Range(store))
  BY DEF EntityInv
<1>1. /\ repository = "memory" /\ E!SavedInMemory([E!RowOf(i) EXCEPT !.status = st])
      /\ UNCHANGED <<repository, made, task, linked, raced, revived>>
  BY DEF E!ChangeInMemory
<1>2. StoreOK(store, made) /\ made \in Nat
  BY <1>0 DEF EntityTyped, StoreOK
<1>3. PICK old \in E!Range(store) : old = E!RowOf(i) /\ old.id = i
  BY DEF E!VisibleIds, E!Visible, E!RowOf
<1>4. old \in Entity /\ ~old.deleted
  BY <1>0, <1>1, <1>2, <1>3, StoreRows DEF MemoryOK
<1>5. PICK r \in Entity : r = [old EXCEPT !.status = st] /\ r.id = old.id /\ r.ext = old.ext /\ ~r.deleted
  <2>1. [old EXCEPT !.status = st] \in Entity
    BY <1>4 DEF Entity
  <2>2. /\ [old EXCEPT !.status = st].id = old.id /\ [old EXCEPT !.status = st].ext = old.ext
        /\ [old EXCEPT !.status = st].deleted = old.deleted
    BY <1>4 DEF Entity
  <2> QED
    BY <1>4, <2>1, <2>2
<1>6. store' = InPlace(store, old.id, r) /\ resolved' = [resolved EXCEPT ![r.ext] = r.id]
  BY <1>1, <1>3, <1>5 DEF E!SavedInMemory, InPlace
<1>7. StoreOK(store', made) /\ \A q : q \in E!Range(store') <=> (q \in E!Range(store) /\ q # old) \/ q = r
  <2>1. StoreOK(InPlace(store, old.id, r), made) /\ Swapped(E!Range(store), E!Range(InPlace(store, old.id, r)), old, r)
    BY <1>2, <1>5, StoreReplaces
  <2> QED
    BY <1>6, <2>1 DEF Swapped
<1>8. \A q \in E!Range(store) : q = old <=> q.id = r.id
  BY <1>2, <1>5, StoreRows
<1>9. \A q \in E!Range(store) : q.ext = r.ext <=> q.id = r.id
  BY <1>0, <1>1, <1>5, <1>8 DEF MemoryOK
<1>10. KeptIn(E!Range(store), E!Range(store'))
  BY <1>5, <1>7 DEF KeptIn
<1>11. LinkedIn(linked', E!Range(store')) /\ linked' \subseteq [ext : Identities, id : 1 .. made']
  BY <1>0, <1>1, <1>10, KeptLinks DEF EntityTyped
<1>12. StoreOK(store', made') /\ made <= made' /\ \A q : q \in E!Range(store') <=> (q \in E!Range(store) /\ q.id # r.id) \/ q = r
  BY <1>1, <1>2, <1>7, <1>8
<1> QED
  BY <1>1, <1>5, <1>6, <1>9, <1>10, <1>11, <1>12, WrittenInMemory

LEMMA EntityStep ==
  ASSUME EntityInv, [E!Next]_E!vars
  PROVE  EntityInv'
<1>1. ASSUME NEW s \in Sessions, NEW e \in Identities, E!ResolveOrCreate(s, e) PROVE EntityInv'
  BY <1>1, ResolveStep
<1>2. ASSUME NEW s \in Sessions, NEW i \in E!VisibleIds, NEW st \in E!Statuses, NEW del \in BOOLEAN, del => st = "inactive",
             E!ReadForChange(s, i, st, del) PROVE EntityInv'
  BY <1>2, ChangeBegins
<1>3. ASSUME NEW s \in Sessions, E!CreateEntity(s) PROVE EntityInv'
  BY <1>3, CreateEntityStep
<1>4. ASSUME NEW s \in Sessions, E!CreateFails(s) PROVE EntityInv'
  <2>1. task[s].op = "create" /\ task' = [task EXCEPT ![s] = E!Done] /\ UNCHANGED <<repository, resolved, store, made, linked, raced, revived>>
    BY <1>4 DEF E!CreateFails, E!memoryVars
  <2>2. repository = "table"
    BY <2>1 DEF EntityInv, EntityTyped, MemoryOK
  <2>3. TaskOK(E!Done, E!Range(store), made) /\ E!Done.op \in {"none", "save"}
    BY DEF TaskOK, E!Done
  <2> QED
    BY <2>1, <2>2, <2>3, OnlyTask
<1>5. ASSUME NEW s \in Sessions, E!SaveChange(s) PROVE EntityInv'
  BY <1>5, SaveStep
<1>6. ASSUME NEW s \in Sessions, E!MarkDeleted(s) PROVE EntityInv'
  BY <1>6, MarkStep
<1>7. ASSUME NEW e \in Identities, E!ResolveInMemory(e) PROVE EntityInv'
  BY <1>7, ResolveMemoryStep
<1>8. ASSUME NEW i \in E!VisibleIds, NEW st \in E!Statuses, E!ChangeInMemory(i, st) PROVE EntityInv'
  BY <1>8, ChangeMemoryStep
<1>9. CASE UNCHANGED E!vars
  <2>1. UNCHANGED <<repository, resolved, store, made, task, linked, raced, revived>>
    BY <1>9 DEF E!vars
  <2>2. EntityTyped' /\ TasksOK' /\ CreatorsOK' /\ DeletedOK' /\ MemoryOK' /\ LinkedIn(linked', E!Range(store'))
    BY <2>1 DEF EntityInv, EntityTyped, TasksOK, CreatorsOK, DeletedOK, MemoryOK
  <2> QED
    BY <2>2 DEF EntityInv
<1>10. "inactive" \in E!Statuses /\ TRUE \in BOOLEAN /\ FALSE \in BOOLEAN
  BY DEF E!Statuses
<1> QED
  BY <1>1, <1>2, <1>3, <1>4, <1>5, <1>6, <1>7, <1>8, <1>9, <1>10 DEF E!Next

LEMMA EntityInit == E!Init => EntityInv
<1> SUFFICES ASSUME E!Init PROVE EntityInv
  OBVIOUS
<1>1. store = <<>> /\ made = 0 /\ linked = {} /\ E!Range(store) = {}
  BY DEF E!Init, E!Range
<1>2. StoreOK(store, made)
  BY <1>1 DEF StoreOK, IdsGiven, IdsApart, AllKept
<1>3. EntityTyped
  <2>1. resolved \in [Identities -> 0 .. made]
    BY <1>1 DEF E!Init
  <2>2. repository \in {"table", "memory"} /\ raced \in BOOLEAN /\ revived \in BOOLEAN
    BY DEF E!Init
  <2> QED
    BY <1>1, <1>2, <2>1, <2>2 DEF EntityTyped
<1>4. TasksOK /\ \A s \in Sessions : task[s].op = "none"
  BY DEF E!Init, TasksOK, TaskOK, E!Done
<1>5. CreatorsOK /\ DeletedOK
  BY <1>1, <1>4 DEF CreatorsOK, DeletedOK, Creates
<1>6. MemoryOK /\ LinkedIn(linked, E!Range(store))
  BY <1>1, <1>4 DEF E!Init, MemoryOK, LinkedIn
<1> QED
  BY <1>3, <1>4, <1>5, <1>6 DEF EntityInv

LEMMA EntityHolds ==
  EntityInv => E!OneEntityPerIdentity /\ E!DeletedIsKept /\ E!MemoryAgrees /\ E!LinksMatch /\ E!TypeOK
<1> SUFFICES ASSUME EntityInv PROVE E!OneEntityPerIdentity /\ E!DeletedIsKept /\ E!MemoryAgrees /\ E!LinksMatch /\ E!TypeOK
  OBVIOUS
<1>0. EntityTyped /\ TasksOK /\ CreatorsOK /\ DeletedOK /\ MemoryOK /\ LinkedIn(linked, E!Range(store)) /\ StoreOK(store, made)
  BY DEF EntityInv, EntityTyped
<1>1. E!OneEntityPerIdentity
  BY <1>0 DEF E!OneEntityPerIdentity, CreatorsOK, E!Visible
<1>2. E!DeletedIsKept
  <2>1. {r.id : r \in E!Range(store)} = 1 .. made /\ Len(store) = made
    <3>1. \A r \in E!Range(store) : r.id \in 1 .. made
      BY <1>0, StoreRows
    <3>2. \A i \in 1 .. made : \E r \in E!Range(store) : r.id = i
      BY <1>0, StoreRows
    <3> QED
      BY <1>0, <3>1, <3>2 DEF StoreOK
  <2> QED
    BY <1>0, <2>1 DEF E!DeletedIsKept, DeletedOK
<1>3. E!MemoryAgrees
  <2> SUFFICES ASSUME repository = "memory", NEW e \in Identities
               PROVE  {r.id : r \in {q \in E!Range(store) : q.ext = e}} = {resolved[e]} \ {0}
    BY DEF E!MemoryAgrees
  <2>1. /\ \A r \in E!Range(store) : resolved[r.ext] = r.id
        /\ resolved[e] # 0 => \E r \in E!Range(store) : r.ext = e /\ r.id = resolved[e]
    BY <1>0 DEF MemoryOK
  <2>2. \A r \in E!Range(store) : r.id # 0
    BY <1>0, StoreRows
  <2> QED
    BY <2>1, <2>2
<1>4. E!LinksMatch
  BY <1>0 DEF E!LinksMatch, LinkedIn
<1>5. E!TypeOK
  <2>1. \A r \in E!Range(store) : r.id \in 1 .. made /\ r.ext \in Identities /\ r.status \in E!Statuses
    BY <1>0, StoreRows DEF Entity
  <2> QED
    BY <1>0, <2>1 DEF E!TypeOK, EntityTyped, TasksOK, TaskOK
<1> QED
  BY <1>1, <1>2, <1>3, <1>4, <1>5

(***************************************************************************)
(* The relations (IntelIdentity): each is in the list of its source and in *)
(* that of its type, under an id of its own.                               *)
(***************************************************************************)

\* A relation is in the list of its source and of its type, under an id that no other has.
SourceRelation == [id : Nat, target : EntityIds, type : RelTypes]
TypeRelation == [id : Nat, source : EntityIds, target : EntityIds]
RelationsTyped ==
  /\ rels \in Nat /\ DOMAIN bySource = EntityIds /\ DOMAIN byType = RelTypes
  /\ \A a \in EntityIds : \A r \in bySource[a] : r \in SourceRelation /\ r.id < rels
  /\ \A t \in RelTypes : \A r \in byType[t] : r \in TypeRelation /\ r.id < rels
RelationsPaired ==
  /\ \A a \in EntityIds : \A r \in bySource[a] : [id |-> r.id, source |-> a, target |-> r.target] \in byType[r.type]
  /\ \A t \in RelTypes : \A r \in byType[t] : [id |-> r.id, target |-> r.target, type |-> t] \in bySource[r.source]
RelationsApart ==
  \A a, b \in EntityIds : \A r \in bySource[a], q \in bySource[b] : r.id = q.id => a = b /\ r = q
RelationsInv == I!TypeOK /\ RelationsTyped /\ RelationsPaired /\ RelationsApart

LEMMA IdentityTypes ==
  ASSUME I!TypeOK, [I!Next]_I!vars
  PROVE  I!TypeOK'
<1>0. /\ DOMAIN mapping \subseteq EntityIds /\ \A e \in DOMAIN mapping : mapping[e] \subseteq Externals
      /\ \A x \in DOMAIN external : x \in Externals /\ external[x] \in EntityIds
      /\ \A e : I!Of(e) \subseteq Externals
  BY DEF I!TypeOK, I!Of
<1>1. ASSUME NEW e \in EntityIds, NEW x \in Externals, I!CreateIdentity(e, x) PROVE I!TypeOK'
  <2>1. /\ DOMAIN mapping' = DOMAIN mapping \cup {e} /\ mapping'[e] = I!Of(e) \cup {x}
        /\ \A a \in DOMAIN mapping \ {e} : mapping'[a] = mapping[a]
    BY <1>1 DEF I!CreateIdentity, I!SetAt
  <2>2. /\ DOMAIN external' = DOMAIN external \cup {x} /\ external'[x] = e
        /\ \A y \in DOMAIN external \ {x} : external'[y] = external[y]
    BY <1>1 DEF I!CreateIdentity, I!SetAt
  <2>3. \A a \in DOMAIN mapping' : a \in EntityIds /\ mapping'[a] \subseteq Externals
    BY <1>0, <2>1
  <2>4. \A y \in DOMAIN external' : y \in Externals /\ external'[y] \in EntityIds
    BY <1>0, <2>2
  <2> QED
    BY <2>3, <2>4 DEF I!TypeOK
<1>2. ASSUME NEW from \in EntityIds, NEW to \in EntityIds, I!Merge(from, to) PROVE I!TypeOK'
  <2>1. /\ DOMAIN external' = DOMAIN external
        /\ \A x \in DOMAIN external : external'[x] = IF x \in I!Of(from) THEN to ELSE external[x]
    BY <1>2 DEF I!Merge
  <2>2. /\ DOMAIN mapping' = (DOMAIN mapping \cup {to}) \ {from}
        /\ \A a \in DOMAIN mapping' : mapping'[a] = IF a = to THEN I!Of(to) \cup I!Of(from) ELSE mapping[a]
    BY <1>2 DEF I!Merge
  <2>3. \A a \in DOMAIN mapping' : a \in EntityIds /\ mapping'[a] \subseteq Externals
    BY <1>0, <2>2
  <2>4. \A y \in DOMAIN external' : y \in Externals /\ external'[y] \in EntityIds
    BY <1>0, <2>1
  <2> QED
    BY <2>3, <2>4 DEF I!TypeOK
<1>3. ASSUME I!ClearIdentities PROVE I!TypeOK'
  BY <1>3 DEF I!ClearIdentities, I!NoneMapped, I!TypeOK
<1>4. CASE UNCHANGED <<mapping, external>>
  BY <1>0, <1>4 DEF I!TypeOK
<1> QED
  BY <1>1, <1>2, <1>3, <1>4 DEF I!Next, I!Relate, I!Unrelate, I!RemoveAll, I!vars

LEMMA RelateStep ==
  ASSUME RelationsTyped, RelationsPaired, RelationsApart, NEW a \in EntityIds, NEW b \in EntityIds, NEW k \in RelTypes, I!Relate(a, b, k)
  PROVE  RelationsTyped' /\ RelationsPaired' /\ RelationsApart'
<1>1. PICK v : v = [id |-> rels, target |-> b, type |-> k]
  OBVIOUS
<1>2. PICK w : w = [id |-> rels, source |-> a, target |-> b]
  OBVIOUS
<1>3. /\ rels' = rels + 1 /\ rels \in Nat
      /\ DOMAIN bySource' = EntityIds /\ bySource'[a] = bySource[a] \cup {v} /\ \A e \in EntityIds : e # a => bySource'[e] = bySource[e]
      /\ DOMAIN byType' = RelTypes /\ byType'[k] = byType[k] \cup {w} /\ \A t \in RelTypes : t # k => byType'[t] = byType[t]
  BY <1>1, <1>2 DEF I!Relate, RelationsTyped
<1>4. /\ v \in SourceRelation /\ w \in TypeRelation /\ v.id = rels /\ v.target = b /\ v.type = k
      /\ w.id = rels /\ w.source = a /\ w.target = b
  BY <1>1, <1>2, <1>3 DEF SourceRelation, TypeRelation
<1>5. /\ \A e \in EntityIds : \A r \in bySource[e] : r \in SourceRelation /\ r.id < rels /\ r.id < rels + 1 /\ r.id # rels
      /\ \A t \in RelTypes : \A r \in byType[t] : r \in TypeRelation /\ r.id < rels /\ r.id < rels + 1 /\ r.id # rels
  BY <1>3 DEF RelationsTyped, SourceRelation, TypeRelation
<1>6. RelationsTyped'
  <2>1. rels + 1 \in Nat /\ rels < rels + 1
    BY <1>3
  <2>2. \A e \in EntityIds : \A r \in bySource'[e] : r \in SourceRelation /\ r.id < rels'
    BY <1>3, <1>4, <1>5, <2>1
  <2>3. \A t \in RelTypes : \A r \in byType'[t] : r \in TypeRelation /\ r.id < rels'
    BY <1>3, <1>4, <1>5, <2>1
  <2> QED
    BY <1>3, <2>1, <2>2, <2>3 DEF RelationsTyped
<1>7. RelationsPaired'
  <2>1. ASSUME NEW e \in EntityIds, NEW r \in bySource'[e]
        PROVE  [id |-> r.id, source |-> e, target |-> r.target] \in byType'[r.type]
    <3>1. CASE r \in bySource[e]
      <4>1. r.type \in RelTypes /\ [id |-> r.id, source |-> e, target |-> r.target] \in byType[r.type]
        BY <1>5, <3>1 DEF RelationsPaired, SourceRelation
      <4> QED
        BY <1>3, <4>1
    <3>2. CASE e = a /\ r = v
      BY <1>2, <1>3, <1>4, <3>2
    <3> QED
      BY <1>3, <2>1, <3>1, <3>2
  <2>2. ASSUME NEW t \in RelTypes, NEW r \in byType'[t]
        PROVE  [id |-> r.id, target |-> r.target, type |-> t] \in bySource'[r.source]
    <3>1. CASE r \in byType[t]
      <4>1. r.source \in EntityIds /\ [id |-> r.id, target |-> r.target, type |-> t] \in bySource[r.source]
        BY <1>5, <3>1 DEF RelationsPaired, TypeRelation
      <4> QED
        BY <1>3, <4>1
    <3>2. CASE t = k /\ r = w
      BY <1>1, <1>3, <1>4, <3>2
    <3> QED
      BY <1>3, <2>2, <3>1, <3>2
  <2> QED
    BY <2>1, <2>2 DEF RelationsPaired
<1>8. RelationsApart'
  <2> SUFFICES ASSUME NEW e \in EntityIds, NEW f \in EntityIds, NEW r \in bySource'[e], NEW q \in bySource'[f], r.id = q.id
               PROVE  e = f /\ r = q
    BY DEF RelationsApart
  <2>1. (r \in bySource[e] \/ (e = a /\ r = v)) /\ (q \in bySource[f] \/ (f = a /\ q = v))
    BY <1>3
  <2> QED
    BY <1>4, <1>5, <2>1 DEF RelationsApart
<1> QED
  BY <1>6, <1>7, <1>8

\* Relations are removed by id, or by source, from both.
LEMMA RemovalStep ==
  ASSUME RelationsTyped, RelationsPaired, RelationsApart, NEW out, rels' = rels,
         DOMAIN bySource' = EntityIds, \A a \in EntityIds : bySource'[a] = {r \in bySource[a] : <<r.id, a>> \notin out},
         DOMAIN byType' = RelTypes, \A t \in RelTypes : byType'[t] = {r \in byType[t] : <<r.id, r.source>> \notin out}
  PROVE  RelationsTyped' /\ RelationsPaired' /\ RelationsApart'
<1>1. RelationsTyped'
  BY DEF RelationsTyped
<1>2. ASSUME NEW e \in EntityIds, NEW r \in bySource'[e]
      PROVE  [id |-> r.id, source |-> e, target |-> r.target] \in byType'[r.type]
  <2>1. PICK w : w = [id |-> r.id, source |-> e, target |-> r.target]
    OBVIOUS
  <2>2. r \in bySource[e] /\ <<r.id, e>> \notin out /\ r.type \in RelTypes
    BY <1>2 DEF RelationsTyped, SourceRelation
  <2>3. w \in byType[r.type]
    BY <2>1, <2>2 DEF RelationsPaired
  <2>4. w.id = r.id /\ w.source = e
    BY <2>1
  <2> QED
    BY <2>1, <2>2, <2>3, <2>4
<1>3. ASSUME NEW t \in RelTypes, NEW r \in byType'[t]
      PROVE  [id |-> r.id, target |-> r.target, type |-> t] \in bySource'[r.source]
  <2>1. PICK v : v = [id |-> r.id, target |-> r.target, type |-> t]
    OBVIOUS
  <2>2. r \in byType[t] /\ <<r.id, r.source>> \notin out /\ r.source \in EntityIds
    BY <1>3 DEF RelationsTyped, TypeRelation
  <2>3. v \in bySource[r.source]
    BY <2>1, <2>2 DEF RelationsPaired
  <2>4. v.id = r.id
    BY <2>1
  <2> QED
    BY <2>1, <2>2, <2>3, <2>4
<1>4. RelationsApart'
  <2> SUFFICES ASSUME NEW a \in EntityIds, NEW b \in EntityIds, NEW r \in bySource'[a], NEW q \in bySource'[b], r.id = q.id
               PROVE  a = b /\ r = q
    BY DEF RelationsApart
  <2>1. r \in bySource[a] /\ q \in bySource[b]
    OBVIOUS
  <2> QED
    BY <2>1 DEF RelationsApart
<1> QED
  BY <1>1, <1>2, <1>3, <1>4 DEF RelationsPaired

LEMMA RelationsStep ==
  ASSUME RelationsInv, [I!Next]_I!vars
  PROVE  RelationsInv'
<1>0. I!TypeOK' /\ RelationsTyped /\ RelationsPaired /\ RelationsApart
  BY IdentityTypes DEF RelationsInv
<1>1. ASSUME NEW a \in EntityIds, NEW b \in EntityIds, NEW k \in RelTypes, I!Relate(a, b, k) PROVE RelationsInv'
  BY <1>0, <1>1, RelateStep DEF RelationsInv
<1>2. ASSUME NEW i, I!Unrelate(i) PROVE RelationsInv'
  <2>1. PICK out : out = {<<i, a>> : a \in EntityIds}
    OBVIOUS
  <2>2. /\ rels' = rels /\ DOMAIN bySource' = EntityIds /\ DOMAIN byType' = RelTypes
        /\ \A a \in EntityIds : bySource'[a] = {r \in bySource[a] : r.id # i}
        /\ \A t \in RelTypes : byType'[t] = {r \in byType[t] : r.id # i}
    BY <1>2 DEF I!Unrelate
  <2>3. \A x, a : <<x, a>> \in out <=> x = i /\ a \in EntityIds
    BY <2>1
  <2>4. \A t \in RelTypes : \A r \in byType[t] : r.source \in EntityIds
    BY <1>0 DEF RelationsTyped, TypeRelation
  <2>5. \A a \in EntityIds : bySource'[a] = {r \in bySource[a] : <<r.id, a>> \notin out}
    BY <2>2, <2>3
  <2>6. \A t \in RelTypes : byType'[t] = {r \in byType[t] : <<r.id, r.source>> \notin out}
    BY <2>2, <2>3, <2>4
  <2> QED
    BY <1>0, <2>2, <2>5, <2>6, RemovalStep DEF RelationsInv
<1>3. ASSUME NEW a \in EntityIds, I!RemoveAll(a) PROVE RelationsInv'
  <2>1. PICK out : out = Nat \X {a}
    OBVIOUS
  <2>2. /\ rels' = rels /\ DOMAIN bySource' = EntityIds /\ DOMAIN byType' = RelTypes
        /\ bySource'[a] = {} /\ \A e \in EntityIds : e # a => bySource'[e] = bySource[e]
        /\ \A t \in RelTypes : byType'[t] = {r \in byType[t] : r.source # a}
    BY <1>0, <1>3 DEF I!RemoveAll, RelationsTyped
  <2>3. \A x, e : <<x, e>> \in out <=> x \in Nat /\ e = a
    BY <2>1
  <2>4. /\ \A e \in EntityIds : \A r \in bySource[e] : r.id \in Nat
        /\ \A t \in RelTypes : \A r \in byType[t] : r.id \in Nat
    BY <1>0 DEF RelationsTyped, SourceRelation, TypeRelation
  <2>5. \A e \in EntityIds : bySource'[e] = {r \in bySource[e] : <<r.id, e>> \notin out}
    <3>1. ASSUME NEW e \in EntityIds PROVE bySource'[e] = {r \in bySource[e] : <<r.id, e>> \notin out}
      <4>1. CASE e = a
        BY <2>2, <2>3, <2>4, <4>1
      <4>2. CASE e # a
        BY <2>2, <2>3, <4>2
      <4> QED
        BY <4>1, <4>2
    <3> QED
      BY <3>1
  <2>6. \A t \in RelTypes : byType'[t] = {r \in byType[t] : <<r.id, r.source>> \notin out}
    BY <2>2, <2>3, <2>4
  <2> QED
    BY <1>0, <2>2, <2>5, <2>6, RemovalStep DEF RelationsInv
<1>4. CASE UNCHANGED <<bySource, byType, rels>>
  BY <1>0, <1>4 DEF RelationsInv, RelationsTyped, RelationsPaired, RelationsApart
<1> QED
  BY <1>1, <1>2, <1>3, <1>4 DEF I!Next, I!CreateIdentity, I!Merge, I!ClearIdentities, I!vars

LEMMA RelationsInit == I!Init => RelationsInv
BY DEF I!Init, I!NoneMapped, I!TypeOK, RelationsInv, RelationsTyped, RelationsPaired, RelationsApart

LEMMA RelationsHold == RelationsInv => I!RelationIndexesAgree /\ I!TypeOK
<1> SUFFICES ASSUME RelationsInv PROVE I!RelationIndexesAgree
  BY DEF RelationsInv
<1>0. RelationsTyped /\ RelationsPaired /\ RelationsApart
  BY DEF RelationsInv
<1> DEFINE sources == UNION {{<<a, r.target, r.type, r.id>> : r \in bySource[a]} : a \in EntityIds}
           types == UNION {{<<r.source, r.target, t, r.id>> : r \in byType[t]} : t \in RelTypes}
<1>1. \A p : p \in sources <=> \E a \in EntityIds : \E r \in bySource[a] : p = <<a, r.target, r.type, r.id>>
  OBVIOUS
<1>2. \A p : p \in types <=> \E t \in RelTypes : \E r \in byType[t] : p = <<r.source, r.target, t, r.id>>
  OBVIOUS
<1>q. I!RelationIndexesAgree <=> (sources = types /\ \A p, q \in sources : p[4] = q[4] => p = q)
  BY DEF I!RelationIndexesAgree
<1> HIDE DEF sources, types
<1>3. \A p \in sources : p \in types
  <2> SUFFICES ASSUME NEW a \in EntityIds, NEW r \in bySource[a] PROVE <<a, r.target, r.type, r.id>> \in types
    BY <1>1
  <2>1. PICK w : w = [id |-> r.id, source |-> a, target |-> r.target]
    OBVIOUS
  <2>2. w \in byType[r.type] /\ r.type \in RelTypes /\ w.id = r.id /\ w.source = a /\ w.target = r.target
    BY <1>0, <2>1 DEF RelationsPaired, RelationsTyped, SourceRelation
  <2> QED
    BY <1>2, <2>2
<1>4. \A p \in types : p \in sources
  <2> SUFFICES ASSUME NEW t \in RelTypes, NEW r \in byType[t] PROVE <<r.source, r.target, t, r.id>> \in sources
    BY <1>2
  <2>1. PICK v : v = [id |-> r.id, target |-> r.target, type |-> t]
    OBVIOUS
  <2>2. v \in bySource[r.source] /\ r.source \in EntityIds /\ v.id = r.id /\ v.target = r.target /\ v.type = t
    BY <1>0, <2>1 DEF RelationsPaired, RelationsTyped, TypeRelation
  <2> QED
    BY <1>1, <2>2
<1>5. \A p, q \in sources : p[4] = q[4] => p = q
  <2> SUFFICES ASSUME NEW p \in sources, NEW q \in sources, p[4] = q[4] PROVE p = q
    OBVIOUS
  <2>1. PICK a \in EntityIds : \E r \in bySource[a] : p = <<a, r.target, r.type, r.id>>
    BY <1>1
  <2>2. PICK r \in bySource[a] : p = <<a, r.target, r.type, r.id>>
    BY <2>1
  <2>3. PICK b \in EntityIds : \E x \in bySource[b] : q = <<b, x.target, x.type, x.id>>
    BY <1>1
  <2>4. PICK x \in bySource[b] : q = <<b, x.target, x.type, x.id>>
    BY <2>3
  <2>5. p[4] = r.id /\ q[4] = x.id
    BY <2>2, <2>4
  <2>6. a = b /\ r = x
    BY <1>0, <2>5 DEF RelationsApart
  <2> QED
    BY <2>2, <2>4, <2>6
<1> QED
  BY <1>3, <1>4, <1>5, <1>q

(***************************************************************************)
(* The intake (ObservationIntake): an event is observed once, and what was *)
(* counted is what happened to it.                                         *)
(***************************************************************************)

LEMMA HandleCount ==
  ASSUME NEW n \in Nat, NEW A \in SUBSET (1 .. n)
  PROVE  O!Cardinality(A) \in Nat
<1>1. H!IsFiniteSet(1 .. n)
  BY H!FS_Interval
<1>2. H!IsFiniteSet(A)
  BY <1>1, H!FS_Subset
<1>3. H!Cardinality(A) \in Nat
  BY <1>2, H!FS_CardinalityType
<1> QED
  BY <1>3 DEF O!Cardinality, H!Cardinality

\* The intake: the subscriptions, the event at hand and what was counted.
IntakePcs == {"idle", "persist", "commit", "recover"}
Counters == [received : Nat, processed : Nat, failed : Nat]
IntakeTyped ==
  /\ subs \in Nat /\ bus \in SUBSET (1 .. subs) /\ handle \in 0 .. subs /\ running \in BOOLEAN
  /\ targets \in Nat /\ left \in 0 .. targets /\ route \in {"canonical", "legacy", "hand"} /\ tainted \in BOOLEAN
  /\ pc \in IntakePcs /\ stats \in Counters /\ kept \in Nat /\ dbFaults \in Nat
  /\ left > 0 \/ pc # "idle" => event \in Published
  /\ pc \in {"persist", "commit"} => O!Valid(event)
\* A session can be used, or an event by hand has failed it; one that is to be committed has a new row.
SessionOK ==
  /\ pc \in {"idle", "persist"} => session = "clean" \/ (session = "failed" /\ tainted)
  /\ pc = "commit" => (\E n : session = O!NewRow(event, n)) /\ \A r \in rows : r.id # event.id
CountsOK ==
  /\ pc = "recover" => route # "hand"
  /\ stats.processed = kept
  /\ stats.received = stats.processed + stats.failed + (IF pc = "idle" \/ route = "hand" THEN 0 ELSE 1)
\* While nothing has failed, an event that a subscriber was called with is observed unless it is invalid.
SeenOK ==
  dbFaults = 0 /\ ~tainted =>
    /\ pc = "recover" => ~O!Valid(event) \/ \E r \in rows : r.id = event.id
    /\ pc = "idle" /\ left < targets /\ event # O!NoEvent => ~O!Valid(event) \/ \E r \in rows : r.id = event.id
IntakeInv == IntakeTyped /\ O!ObservedOnce /\ SessionOK /\ CountsOK /\ SeenOK

LEMMA IntakeStep ==
  ASSUME IntakeInv, [O!Next]_O!vars
  PROVE  IntakeInv'
<1>0. IntakeTyped /\ O!ObservedOnce /\ SessionOK /\ CountsOK /\ SeenOK
  BY DEF IntakeInv
<1>1. ASSUME O!Subscribe \/ (\E b \in BOOLEAN : O!Unsubscribe(b)) \/ O!Start \/ O!Stop PROVE IntakeInv'
  <2>1. /\ pc = "idle" /\ left = 0 /\ event' = O!NoEvent
        /\ UNCHANGED <<rows, session, targets, left, route, tainted, pc, stats, kept, published, dbFaults>>
    BY <1>1 DEF O!Subscribe, O!Unsubscribe, O!Start, O!Stop, O!Quiet, O!Renewed
  <2>2. subs' \in Nat /\ bus' \in SUBSET (1 .. subs') /\ handle' \in 0 .. subs' /\ running' \in BOOLEAN
    <3>1. subs \in Nat /\ bus \in SUBSET (1 .. subs) /\ handle \in 0 .. subs /\ running \in BOOLEAN
      BY <1>0 DEF IntakeTyped
    <3>2. CASE O!Subscribe
      BY <3>1, <3>2 DEF O!Subscribe
    <3>3. CASE \E b \in BOOLEAN : O!Unsubscribe(b)
      BY <3>1, <3>3 DEF O!Unsubscribe
    <3>4. CASE O!Start \/ O!Stop
      BY <3>1, <3>4 DEF O!Start, O!Stop
    <3> QED
      BY <1>1, <3>2, <3>3, <3>4
  <2>3. IntakeTyped'
    BY <1>0, <2>1, <2>2 DEF IntakeTyped
  <2>4. O!ObservedOnce' /\ SessionOK' /\ CountsOK'
    BY <1>0, <2>1 DEF O!ObservedOnce, SessionOK, CountsOK
  <2>5. SeenOK'
    BY <2>1 DEF SeenOK
  <2> QED
    BY <2>3, <2>4, <2>5 DEF IntakeInv
<1>2. ASSUME NEW e \in Published, O!Publish(e) \/ O!PublishLegacy(e) \/ O!ByHand(e) PROVE IntakeInv'
  <2>1. /\ pc = "idle" /\ left = 0 /\ event' = e /\ tainted' = (session = "failed")
        /\ UNCHANGED <<rows, session, bus, handle, subs, running, stats, kept, dbFaults>>
    BY <1>2 DEF O!Publish, O!PublishLegacy, O!ByHand, O!Handed, O!Quiet, O!busVars
  <2>2. /\ targets' \in Nat /\ left' \in 0 .. targets' /\ route' \in {"canonical", "legacy", "hand"}
        /\ pc' \in {"idle", "persist"} /\ (pc' = "persist" => O!Valid(e) /\ route' = "hand")
        /\ (pc' = "idle" => left' = targets' \/ ~O!Valid(e))
    <3>1. CASE O!Publish(e)
      <4>1. O!Cardinality(bus) \in Nat
        BY <1>0, HandleCount DEF IntakeTyped
      <4> QED
        BY <2>1, <3>1, <4>1 DEF O!Publish, O!Handed
    <3>2. CASE O!PublishLegacy(e)
      BY <2>1, <3>2 DEF O!PublishLegacy, O!Handed
    <3>3. CASE O!ByHand(e)
      BY <2>1, <3>3 DEF O!ByHand, O!Handed
    <3> QED
      BY <1>2, <3>1, <3>2, <3>3
  <2>3. IntakeTyped'
    BY <1>0, <2>1, <2>2 DEF IntakeTyped, IntakePcs
  <2>4. O!ObservedOnce'
    BY <1>0, <2>1 DEF O!ObservedOnce
  <2>5. SessionOK'
    BY <1>0, <2>1, <2>2 DEF SessionOK
  <2>6. CountsOK'
    BY <1>0, <2>1, <2>2 DEF CountsOK
  <2>7. SeenOK'
    BY <2>1, <2>2 DEF SeenOK
  <2> QED
    BY <2>3, <2>4, <2>5, <2>6, <2>7 DEF IntakeInv
<1>3. ASSUME NEW q \in {"canonical", "legacy"}, O!Taken(q) PROVE IntakeInv'
  <2>1. /\ pc = "idle" /\ left > 0 /\ route = q /\ left' = left - 1 /\ stats' = [stats EXCEPT !.received = @ + 1]
        /\ pc' = (IF O!Valid(event) THEN "persist" ELSE "recover")
        /\ UNCHANGED <<rows, session, bus, handle, subs, running, event, targets, route, tainted, kept, dbFaults>>
    BY <1>3 DEF O!Taken, O!busVars, O!Counted
  <2>2. /\ stats' \in Counters /\ stats'.received = stats.received + 1
        /\ stats'.processed = stats.processed /\ stats'.failed = stats.failed
    BY <1>0, <2>1 DEF IntakeTyped, Counters
  <2>3. IntakeTyped'
    BY <1>0, <2>1, <2>2 DEF IntakeTyped, IntakePcs
  <2>4. O!ObservedOnce'
    BY <1>0, <2>1 DEF O!ObservedOnce
  <2>5. SessionOK'
    BY <1>0, <2>1 DEF SessionOK
  <2>6. stats.received \in Nat /\ stats.processed \in Nat /\ stats.failed \in Nat
    BY <1>0 DEF IntakeTyped, Counters
  <2>7. CountsOK'
    BY <1>0, <2>1, <2>2, <2>6 DEF CountsOK
  <2>8. SeenOK'
    BY <1>0, <2>1 DEF SeenOK
  <2> QED
    BY <2>3, <2>4, <2>5, <2>7, <2>8 DEF IntakeInv
<1>4. ASSUME O!Failed, pc \in {"persist", "commit"}, dbFaults' \in Nat, dbFaults' >= dbFaults,
             dbFaults' = 0 => (~tainted => \E r \in rows : r.id = event.id),
             UNCHANGED <<rows, bus, handle, subs, running, event, targets, left, route, published, stats, kept>>
      PROVE  IntakeInv'
  <2>1. session' = "failed" /\ pc' = (IF route = "hand" THEN "idle" ELSE "recover") /\ tainted' = (tainted \/ route = "hand")
    BY <1>4 DEF O!Failed
  <2>2. IntakeTyped'
    BY <1>0, <1>4, <2>1 DEF IntakeTyped, IntakePcs
  <2>3. O!ObservedOnce' /\ SessionOK' /\ CountsOK'
    BY <1>0, <1>4, <2>1 DEF O!ObservedOnce, SessionOK, CountsOK, IntakeTyped
  <2>4. SeenOK'
    BY <1>0, <1>4, <2>1 DEF SeenOK
  <2> QED
    BY <2>2, <2>3, <2>4 DEF IntakeInv
<1>5. ASSUME NEW fault \in BOOLEAN, O!Persist(fault) PROVE IntakeInv'
  <2>1. /\ pc = "persist" /\ dbFaults' = (IF fault THEN dbFaults + 1 ELSE dbFaults)
        /\ UNCHANGED <<rows, bus, handle, subs, running, event, targets, left, route, published, stats, kept>>
    BY <1>5 DEF O!Persist, O!busVars
  <2>2. dbFaults \in Nat /\ dbFaults' \in Nat /\ dbFaults' >= dbFaults /\ (dbFaults' = 0 => ~fault)
    BY <1>0, <2>1 DEF IntakeTyped
  <2>3. CASE session = "failed" \/ fault \/ \E r \in rows : r.id = event.id
    <3>1. O!Failed
      BY <1>5, <2>3 DEF O!Persist
    <3>2. dbFaults' = 0 => (~tainted => \E r \in rows : r.id = event.id)
      BY <1>0, <2>1, <2>2, <2>3 DEF SessionOK
    <3> QED
      BY <1>4, <2>1, <2>2, <3>1, <3>2
  <2>4. CASE ~(session = "failed" \/ fault \/ \E r \in rows : r.id = event.id)
    <3>1. session' = O!NewRow(event, published) /\ pc' = "commit" /\ UNCHANGED tainted /\ UNCHANGED dbFaults
      BY <1>5, <2>1, <2>4 DEF O!Persist
    <3>2. IntakeTyped'
      BY <1>0, <2>1, <3>1 DEF IntakeTyped, IntakePcs
    <3>3. SessionOK'
      BY <2>1, <2>4, <3>1 DEF SessionOK
    <3>4. O!ObservedOnce' /\ CountsOK' /\ SeenOK'
      BY <1>0, <2>1, <3>1 DEF O!ObservedOnce, CountsOK, SeenOK
    <3> QED
      BY <3>2, <3>3, <3>4 DEF IntakeInv
  <2> QED
    BY <2>3, <2>4
<1>6. ASSUME NEW fault \in BOOLEAN, O!Commit(fault) PROVE IntakeInv'
  <2>1. /\ pc = "commit" /\ dbFaults' = (IF fault THEN dbFaults + 1 ELSE dbFaults)
        /\ UNCHANGED <<bus, handle, subs, running, event, targets, left, route, published>>
    BY <1>6 DEF O!Commit, O!busVars
  <2>2. dbFaults \in Nat /\ dbFaults' \in Nat /\ dbFaults' >= dbFaults /\ (dbFaults' = 0 => ~fault)
    BY <1>0, <2>1 DEF IntakeTyped
  <2>3. CASE fault
    <3>1. O!Failed /\ UNCHANGED <<rows, stats, kept>>
      BY <1>6, <2>3 DEF O!Commit
    <3> QED
      BY <1>4, <2>1, <2>2, <2>3, <3>1
  <2>4. CASE ~fault
    <3>1. /\ rows' = rows \cup {session} /\ session' = "clean" /\ pc' = "idle" /\ UNCHANGED tainted /\ UNCHANGED dbFaults
          /\ IF route = "hand" THEN UNCHANGED <<stats, kept>> ELSE stats' = [stats EXCEPT !.processed = @ + 1] /\ kept' = kept + 1
      BY <1>6, <2>1, <2>4 DEF O!Commit, O!Counted
    <3>2. PICK n : session = O!NewRow(event, n)
      BY <1>0, <2>1 DEF SessionOK
    <3>3. session.id = event.id /\ event \in Published /\ O!Valid(event) /\ \A r \in rows : r.id # event.id
      BY <1>0, <2>1, <3>2 DEF SessionOK, IntakeTyped, O!NewRow
    <3>4. session.observation.type = O!EventType(event) /\ event.fields \subseteq session.observation.evidence
      BY <3>2 DEF O!NewRow, O!Observation
    <3>5. O!ObservedOnce'
      <4>1. \A r, q \in rows' : r.id = q.id => r = q
        BY <1>0, <3>1, <3>3 DEF O!ObservedOnce
      <4>2. \A r \in rows' : \E e \in Published :
              e.id = r.id /\ O!Valid(e) /\ r.observation.type = O!EventType(e) /\ e.fields \subseteq r.observation.evidence
        BY <1>0, <3>1, <3>3, <3>4 DEF O!ObservedOnce
      <4> QED
        BY <4>1, <4>2 DEF O!ObservedOnce
    <3>6. /\ stats' \in Counters /\ kept' \in Nat /\ stats'.received = stats.received /\ stats'.failed = stats.failed
          /\ stats'.processed = (IF route = "hand" THEN stats.processed ELSE stats.processed + 1)
          /\ kept' = (IF route = "hand" THEN kept ELSE kept + 1)
      BY <1>0, <3>1 DEF IntakeTyped, Counters
    <3>7. stats.received \in Nat /\ stats.processed \in Nat /\ stats.failed \in Nat /\ kept \in Nat
      BY <1>0 DEF IntakeTyped, Counters
    <3>8. CountsOK'
      BY <1>0, <2>1, <3>1, <3>6, <3>7 DEF CountsOK
    <3>9. IntakeTyped'
      BY <1>0, <2>1, <3>1, <3>6 DEF IntakeTyped, IntakePcs
    <3>10. SessionOK' /\ SeenOK'
      BY <2>1, <3>1, <3>3 DEF SessionOK, SeenOK
    <3> QED
      BY <3>5, <3>8, <3>9, <3>10 DEF IntakeInv
  <2> QED
    BY <2>3, <2>4
<1>7. CASE O!Recover
  <2>1. /\ pc = "recover" /\ pc' = "idle" /\ session' = "clean" /\ stats' = [stats EXCEPT !.failed = @ + 1]
        /\ UNCHANGED <<rows, bus, handle, subs, running, event, targets, left, route, tainted, kept, dbFaults>>
    BY <1>7 DEF O!Recover, O!busVars, O!eventVars, O!Counted
  <2>2. /\ stats' \in Counters /\ stats'.received = stats.received
        /\ stats'.processed = stats.processed /\ stats'.failed = stats.failed + 1
        /\ stats.received \in Nat /\ stats.processed \in Nat /\ stats.failed \in Nat
    BY <1>0, <2>1 DEF IntakeTyped, Counters
  <2>3. IntakeTyped'
    BY <1>0, <2>1, <2>2 DEF IntakeTyped, IntakePcs
  <2>4. O!ObservedOnce' /\ SessionOK'
    BY <1>0, <2>1 DEF O!ObservedOnce, SessionOK
  <2>5. CountsOK'
    BY <1>0, <2>1, <2>2 DEF CountsOK
  <2>6. SeenOK'
    BY <1>0, <2>1 DEF SeenOK
  <2> QED
    BY <2>3, <2>4, <2>5, <2>6 DEF IntakeInv
<1>8. CASE O!Crash
  <2>1. /\ dbFaults' = dbFaults + 1 /\ session' = "clean" /\ bus' = {} /\ handle' = 0 /\ running' = FALSE
        /\ targets' = 0 /\ left' = 0 /\ route' = "canonical" /\ tainted' = FALSE /\ pc' = "idle"
        /\ stats' = O!Zero /\ kept' = 0 /\ UNCHANGED <<rows, subs>>
    BY <1>8 DEF O!Crash
  <2>2. O!Zero \in Counters /\ O!Zero.received = 0 /\ O!Zero.processed = 0 /\ O!Zero.failed = 0
    BY DEF O!Zero, Counters
  <2>3. IntakeTyped'
    <3>1. /\ subs' \in Nat /\ bus' \in SUBSET (1 .. subs') /\ handle' \in 0 .. subs' /\ targets' \in Nat /\ left' \in 0 .. targets'
          /\ dbFaults' \in Nat /\ pc' = "idle" /\ ~(left' > 0)
      BY <1>0, <2>1 DEF IntakeTyped
    <3> QED
      BY <2>1, <2>2, <3>1 DEF IntakeTyped, IntakePcs
  <2>4. O!ObservedOnce' /\ SessionOK' /\ CountsOK' /\ SeenOK'
    BY <1>0, <2>1, <2>2 DEF O!ObservedOnce, SessionOK, CountsOK, SeenOK
  <2> QED
    BY <2>3, <2>4 DEF IntakeInv
<1>9. CASE UNCHANGED O!vars
  BY <1>0, <1>9 DEF IntakeInv, IntakeTyped, O!ObservedOnce, SessionOK, CountsOK, SeenOK, O!vars
<1>10. ASSUME O!Handle \/ O!HandleLegacy PROVE IntakeInv'
  BY <1>3, <1>10 DEF O!Handle, O!HandleLegacy
<1> QED
  BY <1>1, <1>2, <1>5, <1>6, <1>7, <1>8, <1>9, <1>10 DEF O!Next

LEMMA IntakeInit == O!Init => IntakeInv
<1> SUFFICES ASSUME O!Init PROVE IntakeInv
  OBVIOUS
<1>1. O!Zero \in Counters /\ O!Zero.received = 0 /\ O!Zero.processed = 0 /\ O!Zero.failed = 0
  BY DEF O!Zero, Counters
<1>2. IntakeTyped
  <2>1. /\ subs \in Nat /\ bus \in SUBSET (1 .. subs) /\ handle \in 0 .. subs /\ targets \in Nat /\ left \in 0 .. targets
        /\ dbFaults \in Nat /\ pc = "idle" /\ ~(left > 0) /\ kept \in Nat
    BY DEF O!Init
  <2> QED
    BY <1>1, <2>1 DEF O!Init, IntakeTyped, IntakePcs
<1>3. O!ObservedOnce /\ SessionOK /\ CountsOK /\ SeenOK
  BY <1>1 DEF O!Init, O!ObservedOnce, SessionOK, CountsOK, SeenOK
<1> QED
  BY <1>2, <1>3 DEF IntakeInv

LEMMA IntakeHolds ==
  IntakeInv => O!ObservedOnce /\ O!FailureEndsWithEvent /\ O!StatsAreTrue /\ O!ValidIsObserved /\ O!TypeOK
<1> SUFFICES ASSUME IntakeInv PROVE O!ObservedOnce /\ O!FailureEndsWithEvent /\ O!StatsAreTrue /\ O!ValidIsObserved /\ O!TypeOK
  OBVIOUS
<1>1. O!ObservedOnce /\ O!FailureEndsWithEvent /\ O!StatsAreTrue
  BY DEF IntakeInv, SessionOK, CountsOK, O!FailureEndsWithEvent, O!StatsAreTrue
<1>2. O!EventType(event) = "radio.recording" => O!Valid(event)
  <2> SUFFICES ASSUME O!EventType(event) = "radio.recording" PROVE O!Valid(event)
    OBVIOUS
  <2>1. "recording" \in event.fields
    BY DEF O!EventType
  <2>2. O!Required("radio.recording") = {}
    BY DEF O!Required
  <2> QED
    BY <2>1, <2>2 DEF O!Valid
<1>3. O!ValidIsObserved
  BY <1>2 DEF IntakeInv, SeenOK, O!ValidIsObserved
<1>4. O!TypeOK
  BY <1>1 DEF IntakeInv, IntakeTyped, IntakePcs, O!ObservedOnce, O!TypeOK
<1> QED
  BY <1>1, <1>3, <1>4

(***************************************************************************)
(* The engine (ObservationEngine): of those that ingest an observation one *)
(* stores it, and what is forwarded is linked.                             *)
(***************************************************************************)

\* The engine: its calls, and what they have made of the rows, the tasks and the links.
CallPcs == {"idle", "check", "insert", "mark", "forward", "done"}
Calls == [pc : CallPcs, id : ObservationIds \cup {""}, log : Seq(G!Lifecycle), mine : BOOLEAN]
Observed == [id : ObservationIds, status : {"validated", "stored", "forwarded"}, deleted : BOOLEAN]
Told(c, to, ev) == [call[c] EXCEPT !.pc = to, !.log = Append(call[c].log, ev)]
Says(c) == \E k \in DOMAIN call[c].log : call[c].log[k] = "stored"
Handling(c) == call[c].pc \in {"mark", "forward"}
EngineTyped ==
  /\ forwarder \in ForwarderKinds /\ call \in [Callers -> Calls] /\ obsRows \subseteq Observed
  /\ tasks \subseteq ObservationIds /\ linkedIds \in Seq(ObservationIds)
  /\ \A c \in Callers : call[c].pc \in {"check", "insert", "mark", "forward"} => call[c].id \in ObservationIds
\* Who has stored an observation is the only one, and the row stays.
StoredOK ==
  /\ \A c \in Callers : call[c].mine <=> Says(c)
  /\ \A c \in Callers : Handling(c) => call[c].mine
  /\ \A c \in Callers : call[c].mine => \E r \in obsRows : r.id = call[c].id
  /\ \A c, d \in Callers : call[c].mine /\ call[d].mine /\ c # d => call[c].id # call[d].id
  /\ \A r, q \in obsRows : r.id = q.id => r = q
\* What is linked or left to a task has a row, whose call is past forwarding.
ForwardedOK ==
  /\ \A j, k \in DOMAIN linkedIds : linkedIds[j] = linkedIds[k] => j = k
  /\ \A k \in DOMAIN linkedIds : linkedIds[k] \notin tasks
  /\ \A i \in G!Range(linkedIds) \cup tasks :
       (\E r \in obsRows : r.id = i) /\ \A c \in Callers : Handling(c) => call[c].id # i
  /\ forwarder # "task" => tasks = {}
  /\ forwarder = "task" => \A i \in G!Range(linkedIds) \cup tasks : \E r \in obsRows : r.id = i /\ r.status = "forwarded"
  /\ forwarder = "sync" => \A r \in obsRows : r.status = "forwarded" => r.id \in G!Range(linkedIds)
EngineInv == EngineTyped /\ StoredOK /\ ForwardedOK

\* A step of a call that neither stores nor forwards.
LEMMA EngineCall ==
  ASSUME EngineInv, NEW c \in Callers, NEW q \in Calls, call' = [call EXCEPT ![c] = q],
         UNCHANGED <<forwarder, obsRows, tasks, linkedIds>>,
         q.pc \in {"check", "insert", "mark", "forward"} => q.id \in ObservationIds,
         q.mine <=> (\E k \in DOMAIN q.log : q.log[k] = "stored"),
         q.mine => call[c].mine /\ q.id = call[c].id,
         q.pc \in {"mark", "forward"} => Handling(c) /\ q.mine
  PROVE  EngineInv'
<1>1. call' \in [Callers -> Calls] /\ call'[c] = q /\ \A d \in Callers : d # c => call'[d] = call[d]
  BY DEF EngineInv, EngineTyped
<1>2. EngineTyped'
  BY <1>1 DEF EngineInv, EngineTyped
<1>3. \A d \in Callers : /\ Handling(d)' => Handling(d) /\ call'[d].id = call[d].id /\ call'[d].mine
                         /\ call'[d].mine => call[d].mine /\ call'[d].id = call[d].id
                         /\ (call'[d].mine <=> Says(d)')
  <2> TAKE d \in Callers
  <2>1. CASE d = c
    <3>1. (call'[d].mine <=> Says(d)') /\ (call'[d].mine => call[d].mine /\ call'[d].id = call[d].id)
      BY <1>1, <2>1 DEF Says
    <3>2. Handling(d)' => Handling(d) /\ call'[d].mine
      BY <1>1, <2>1 DEF Handling
    <3> QED
      BY <3>1, <3>2
  <2>2. CASE d # c
    <3>1. call'[d] = call[d] /\ (call[d].mine <=> Says(d)) /\ (Handling(d) => call[d].mine)
      BY <1>1, <2>2 DEF EngineInv, StoredOK
    <3>2. (Says(d)' <=> Says(d)) /\ (Handling(d)' <=> Handling(d))
      BY <3>1 DEF Says, Handling
    <3> QED
      BY <3>1, <3>2
  <2> QED
    BY <2>1, <2>2
<1>4. StoredOK'
  BY <1>3 DEF EngineInv, StoredOK
<1>5. ForwardedOK'
  BY <1>3 DEF EngineInv, ForwardedOK
<1> QED
  BY <1>2, <1>4, <1>5 DEF EngineInv

\* A call says one more thing.
LEMMA EngineSays ==
  ASSUME EngineInv, NEW c \in Callers, NEW to \in CallPcs, NEW ev \in G!Lifecycle
  PROVE  LET q == Told(c, to, ev) IN
         /\ q \in Calls /\ q.pc = to /\ q.id = call[c].id /\ q.mine = call[c].mine
         /\ (\E k \in DOMAIN q.log : q.log[k] = "stored") <=> (Says(c) \/ ev = "stored")
<1> DEFINE q == Told(c, to, ev)
           old == call[c].log
           new == Append(old, ev)
<1>1. call[c] \in Calls /\ old \in Seq(G!Lifecycle)
  BY DEF EngineInv, EngineTyped, Calls
<1>2. new \in Seq(G!Lifecycle) /\ Len(new) = Len(old) + 1 /\ new[Len(old) + 1] = ev /\ \A k \in 1 .. Len(old) : new[k] = old[k]
  BY <1>1
<1>3. q \in Calls /\ q.pc = to /\ q.id = call[c].id /\ q.mine = call[c].mine /\ q.log = new
  BY <1>1, <1>2 DEF Calls, Told
<1>4. DOMAIN new = 1 .. Len(old) + 1 /\ DOMAIN old = 1 .. Len(old) /\ Len(old) \in Nat
  BY <1>1, <1>2
<1> HIDE DEF new, q
<1>5. (\E k \in DOMAIN new : new[k] = "stored") <=> ((\E k \in DOMAIN old : old[k] = "stored") \/ ev = "stored")
  BY <1>2, <1>4
<1>6. (\E k \in DOMAIN q.log : q.log[k] = "stored") <=> (Says(c) \/ ev = "stored")
  BY <1>3, <1>5 DEF Says
<1> QED
  BY <1>3, <1>6 DEF q

\* Rows that keep their ids and go no way back from forwarded, and calls that leave them.
LEMMA EngineRows ==
  ASSUME EngineInv, NEW c \in Callers, NEW q \in Calls, call' = [call EXCEPT ![c] = q], NEW st \in {"stored", "forwarded"},
         Handling(c), G!SetStatus(call[c].id, st), q.id = call[c].id, q.mine, q.pc \in {"forward", "done"},
         (\E k \in DOMAIN q.log : q.log[k] = "stored")
  PROVE  /\ EngineTyped /\ call' \in [Callers -> Calls] /\ obsRows' \subseteq Observed /\ StoredOK'
         /\ \A i \in ObservationIds : (\E r \in obsRows : r.id = i) => \E r \in obsRows' : r.id = i
         /\ \A i \in ObservationIds : i # call[c].id =>
              \A x : (\E r \in obsRows' : r.id = i /\ r.status = x) <=> (\E r \in obsRows : r.id = i /\ r.status = x)
         /\ \A r \in obsRows' : r.id = call[c].id => r.status = st
         /\ \E r \in obsRows' : r.id = call[c].id
         /\ \A d \in Callers : /\ Handling(d)' => Handling(d) /\ call'[d].id = call[d].id
                               /\ call'[d].pc \in {"check", "insert", "mark", "forward"} => call'[d].id \in ObservationIds
<1> DEFINE i == call[c].id
           new(r) == IF r.id = i THEN [r EXCEPT !.status = st] ELSE r
<1>1. EngineTyped /\ obsRows \subseteq Observed /\ i \in ObservationIds /\ call[c].mine
  BY DEF EngineInv, EngineTyped, StoredOK, Handling
<1>2. obsRows' = {new(r) : r \in obsRows}
  BY DEF G!SetStatus
<1>3. \A r \in obsRows : new(r) \in Observed /\ new(r).id = r.id /\ new(r).status = (IF r.id = i THEN st ELSE r.status)
  BY <1>1 DEF Observed
<1> HIDE DEF new
<1>4. call' \in [Callers -> Calls] /\ call'[c] = q /\ \A d \in Callers : d # c => call'[d] = call[d]
  BY <1>1 DEF EngineTyped
<1>5. obsRows' \subseteq Observed
  BY <1>2, <1>3
<1>6. \A a \in ObservationIds : (\E r \in obsRows : r.id = a) => \E r \in obsRows' : r.id = a
  BY <1>2, <1>3
<1>7. \A d \in Callers : /\ Handling(d)' => Handling(d) /\ call'[d].mine
                         /\ call'[d].mine => call[d].mine
                         /\ call'[d].id = call[d].id
                         /\ call'[d].mine <=> Says(d)'
  <2> TAKE d \in Callers
  <2>1. CASE d = c
    BY <1>1, <1>4, <2>1 DEF Says, Handling
  <2>2. CASE d # c
    <3>1. call'[d] = call[d] /\ (call[d].mine <=> Says(d)) /\ (Handling(d) => call[d].mine)
      BY <1>4, <2>2 DEF EngineInv, StoredOK
    <3>2. (Says(d)' <=> Says(d)) /\ (Handling(d)' <=> Handling(d))
      BY <3>1 DEF Says, Handling
    <3> QED
      BY <3>1, <3>2
  <2> QED
    BY <2>1, <2>2
<1>8. \A d \in Callers : call[d].mine => call[d].id \in ObservationIds
  BY <1>1 DEF EngineInv, StoredOK, Observed
<1>9. \A r, p \in obsRows' : r.id = p.id => r = p
  BY <1>2, <1>3 DEF EngineInv, StoredOK
<1>10. StoredOK'
  BY <1>6, <1>7, <1>8, <1>9 DEF EngineInv, StoredOK
<1>11. \A a \in ObservationIds : a # i =>
         \A x : (\E r \in obsRows' : r.id = a /\ r.status = x) <=> (\E r \in obsRows : r.id = a /\ r.status = x)
  BY <1>2, <1>3
<1>12. \A r \in obsRows' : r.id = i => r.status = st
  BY <1>2, <1>3
<1>13. \E r \in obsRows' : r.id = i
  BY <1>1, <1>6 DEF EngineInv, StoredOK
<1>14. \A d \in Callers : call'[d].pc \in {"check", "insert", "mark", "forward"} => call'[d].id \in ObservationIds
  <2> SUFFICES ASSUME NEW d \in Callers, call'[d].pc \in {"check", "insert", "mark", "forward"} PROVE call'[d].id \in ObservationIds
    OBVIOUS
  <2>1. CASE d = c
    BY <1>1, <1>7, <2>1
  <2>2. CASE d # c
    BY <1>1, <1>4, <2>2 DEF EngineTyped
  <2> QED
    BY <2>1, <2>2
<1>15. \A d \in Callers : Handling(d)' => Handling(d) /\ call'[d].id = call[d].id
  BY <1>7
<1> QED
  BY <1>1, <1>4, <1>5, <1>6, <1>10, <1>11, <1>12, <1>13, <1>14, <1>15

LEMMA EngineStep ==
  ASSUME G!KindsOK, EngineInv, [G!Next]_G!vars
  PROVE  EngineInv'
<1>0. /\ EngineTyped /\ StoredOK /\ ForwardedOK /\ call \in [Callers -> Calls] /\ obsRows \subseteq Observed
      /\ forwarder \in {"async", "sync", "task"}
  BY DEF EngineInv, EngineTyped, G!KindsOK
<1>1. ASSUME NEW c \in Callers, NEW i \in ObservationIds, G!Ingest(c, i) PROVE EngineInv'
  <2> DEFINE q == [pc |-> "check", id |-> i, log |-> <<"received">>, mine |-> FALSE]
  <2>1. <<"received">> \in Seq(G!Lifecycle)
    BY DEF G!Lifecycle
  <2>2. q \in Calls /\ ~\E k \in DOMAIN q.log : q.log[k] = "stored"
    <3>1. q.log = <<"received">> /\ DOMAIN <<"received">> = {1} /\ <<"received">>[1] = "received"
      OBVIOUS
    <3>2. ~\E k \in DOMAIN q.log : q.log[k] = "stored"
      BY <3>1
    <3> QED
      BY <2>1, <3>2 DEF Calls, CallPcs
  <2>3. call' = [call EXCEPT ![c] = q] /\ UNCHANGED <<forwarder, obsRows, tasks, linkedIds>>
    BY <1>1 DEF G!Ingest
  <2>4. q.pc = "check" /\ q.id = i /\ q.mine = FALSE
    OBVIOUS
  <2> HIDE DEF q
  <2> QED
    BY <2>2, <2>3, <2>4, EngineCall
<1>2. ASSUME NEW c \in Callers, NEW ok \in BOOLEAN, G!Validate(c, ok) PROVE EngineInv'
  <2>1. PICK to \in {"insert", "done"}, ev \in {"validated", "rejected"} : G!Step(c, to, ev)
    BY <1>2 DEF G!Validate
  <2>2. call[c].pc = "check" /\ UNCHANGED <<forwarder, obsRows, tasks, linkedIds>>
    BY <1>2 DEF G!Validate
  <2>3. PICK q : q = Told(c, to, ev)
    OBVIOUS
  <2>4. call' = [call EXCEPT ![c] = q]
    BY <1>0, <2>1, <2>3 DEF G!Step, G!Said, Told, Calls
  <2>5. to \in CallPcs /\ ev \in G!Lifecycle /\ ev # "stored" /\ to \notin {"mark", "forward"}
    BY DEF CallPcs, G!Lifecycle
  <2>6. /\ q \in Calls /\ q.pc = to /\ q.id = call[c].id /\ q.mine = call[c].mine
        /\ (\E k \in DOMAIN q.log : q.log[k] = "stored") <=> Says(c)
    BY <2>3, <2>5, EngineSays
  <2>7. call[c].id \in ObservationIds /\ (call[c].mine <=> Says(c))
    BY <1>0, <2>2 DEF EngineTyped, StoredOK
  <2> QED
    BY <2>2, <2>4, <2>5, <2>6, <2>7, EngineCall
<1>3. ASSUME NEW c \in Callers, NEW fault \in BOOLEAN, G!Store(c, fault) PROVE EngineInv'
  <2>1. CASE fault \/ \E r \in obsRows : r.id = call[c].id
    <3>1. G!Step(c, "done", "failed") /\ call[c].pc = "insert" /\ UNCHANGED <<forwarder, obsRows, tasks, linkedIds>>
      BY <1>3, <2>1 DEF G!Store
    <3>2. PICK q : q = Told(c, "done", "failed")
      OBVIOUS
    <3>3. call' = [call EXCEPT ![c] = q]
      BY <1>0, <3>1, <3>2 DEF G!Step, G!Said, Told, Calls
    <3>4. "done" \in CallPcs /\ "failed" \in G!Lifecycle
      BY DEF CallPcs, G!Lifecycle
    <3>5. /\ q \in Calls /\ q.pc = "done" /\ q.id = call[c].id /\ q.mine = call[c].mine
          /\ (\E k \in DOMAIN q.log : q.log[k] = "stored") <=> Says(c)
      BY <3>2, <3>4, EngineSays
    <3>6. call[c].mine <=> Says(c)
      BY <1>0 DEF StoredOK
    <3> QED
      BY <3>1, <3>3, <3>5, <3>6, EngineCall
  <2>2. CASE ~(fault \/ \E r \in obsRows : r.id = call[c].id)
    <3> DEFINE i == call[c].id
    <3>1. /\ call[c].pc = "insert" /\ obsRows' = obsRows \cup {G!NewRow(i)} /\ UNCHANGED <<forwarder, tasks, linkedIds>>
          /\ call' = [call EXCEPT ![c].pc = "mark", ![c].log = G!Said(c, "stored"), ![c].mine = TRUE]
          /\ \A r \in obsRows : r.id # i
      BY <1>3, <2>2 DEF G!Store
    <3>2. i \in ObservationIds
      BY <1>0, <3>1 DEF EngineTyped
    <3>3. PICK p : p = Told(c, "mark", "stored")
      OBVIOUS
    <3>4. /\ p \in Calls /\ p.pc = "mark" /\ p.id = i
          /\ \E k \in DOMAIN p.log : p.log[k] = "stored"
      <4>1. "mark" \in CallPcs /\ "stored" \in G!Lifecycle
        BY DEF CallPcs, G!Lifecycle
      <4> QED
        BY <3>3, <4>1, EngineSays
    <3>5. PICK q : q = [p EXCEPT !.mine = TRUE]
      OBVIOUS
    <3>6. q \in Calls /\ q.pc = "mark" /\ q.id = i /\ q.mine /\ q.log = p.log
      BY <3>4, <3>5 DEF Calls
    <3>7. call' = [call EXCEPT ![c] = q]
      BY <1>0, <3>1, <3>3, <3>5 DEF G!Said, Told, Calls
    <3>8. call' \in [Callers -> Calls] /\ call'[c] = q /\ \A d \in Callers : d # c => call'[d] = call[d]
      BY <1>0, <3>6, <3>7
    <3>9. G!NewRow(i) \in Observed /\ G!NewRow(i).id = i /\ G!NewRow(i).status = "validated"
      BY <3>2 DEF G!NewRow, Observed
    <3>10. \A d \in Callers : d # c =>
             /\ (Says(d)' <=> Says(d)) /\ (Handling(d)' <=> Handling(d)) /\ (call[d].mine => call[d].id # i)
             /\ call'[d].mine = call[d].mine /\ call'[d].id = call[d].id
      BY <1>0, <3>1, <3>8 DEF Says, Handling, StoredOK
    <3>11. Says(c)' /\ Handling(c)'
      BY <3>4, <3>6, <3>8 DEF Says, Handling
    <3>12. EngineTyped'
      <4>1. \A d \in Callers : call'[d].pc \in {"check", "insert", "mark", "forward"} => call'[d].id \in ObservationIds
        BY <1>0, <3>2, <3>6, <3>8 DEF EngineTyped
      <4> QED
        BY <1>0, <3>1, <3>8, <3>9, <4>1 DEF EngineTyped
    <3>13. StoredOK'
      <4>1. \A d \in Callers : call'[d].mine <=> Says(d)'
        BY <1>0, <3>6, <3>8, <3>10, <3>11 DEF StoredOK
      <4>2. \A d \in Callers : Handling(d)' => call'[d].mine
        BY <1>0, <3>6, <3>8, <3>10 DEF StoredOK
      <4>3. \A d \in Callers : call'[d].mine => \E r \in obsRows' : r.id = call'[d].id
        BY <1>0, <3>1, <3>6, <3>8, <3>9, <3>10 DEF StoredOK
      <4>4. \A d, b \in Callers : call'[d].mine /\ call'[b].mine /\ d # b => call'[d].id # call'[b].id
        BY <1>0, <3>6, <3>8, <3>10 DEF StoredOK
      <4>5. \A r, s \in obsRows' : r.id = s.id => r = s
        BY <1>0, <3>1, <3>9 DEF StoredOK
      <4> QED
        BY <4>1, <4>2, <4>3, <4>4, <4>5 DEF StoredOK
    <3>14. ForwardedOK'
      <4>1. \A a \in G!Range(linkedIds) \cup tasks : a # i
        BY <1>0, <3>1 DEF ForwardedOK
      <4>2. \A a \in G!Range(linkedIds) \cup tasks : \A d \in Callers : Handling(d)' => call'[d].id # a
        BY <1>0, <3>6, <3>8, <3>10, <4>1 DEF ForwardedOK
      <4> QED
        BY <1>0, <3>1, <3>9, <4>2 DEF ForwardedOK
    <3> QED
      BY <3>12, <3>13, <3>14 DEF EngineInv
  <2> QED
    BY <2>1, <2>2
<1>4. ASSUME NEW c \in Callers, G!Mark(c) PROVE EngineInv'
  <2>1. call[c].pc = "mark" /\ G!SetStatus(call[c].id, "stored") /\ UNCHANGED <<forwarder, tasks, linkedIds>>
    BY <1>4 DEF G!Mark
  <2>2. PICK q : q = [call[c] EXCEPT !.pc = "forward"]
    OBVIOUS
  <2>3. call' = [call EXCEPT ![c] = q]
    BY <1>4, <1>0, <2>2 DEF G!Mark, Calls
  <2>4. q \in Calls /\ q.pc = "forward" /\ q.id = call[c].id /\ q.mine = call[c].mine /\ q.log = call[c].log
    BY <1>0, <2>2 DEF Calls, CallPcs
  <2>5. Handling(c) /\ call[c].mine /\ Says(c)
    BY <1>0, <2>1 DEF Handling, StoredOK
  <2>6. q.mine /\ \E k \in DOMAIN q.log : q.log[k] = "stored"
    BY <2>4, <2>5 DEF Says
  <2>7. /\ call' \in [Callers -> Calls] /\ obsRows' \subseteq Observed /\ StoredOK'
        /\ \A i \in ObservationIds : (\E r \in obsRows : r.id = i) => \E r \in obsRows' : r.id = i
        /\ \A i \in ObservationIds : i # call[c].id =>
             \A x : (\E r \in obsRows' : r.id = i /\ r.status = x) <=> (\E r \in obsRows : r.id = i /\ r.status = x)
        /\ \A r \in obsRows' : r.id = call[c].id => r.status = "stored"
        /\ \A d \in Callers : /\ Handling(d)' => Handling(d) /\ call'[d].id = call[d].id
                              /\ call'[d].pc \in {"check", "insert", "mark", "forward"} => call'[d].id \in ObservationIds
    BY <2>1, <2>3, <2>4, <2>5, <2>6, EngineRows
  <2>8. EngineTyped'
    BY <1>0, <2>1, <2>7 DEF EngineTyped
  <2>9. \A i \in G!Range(linkedIds) \cup tasks : i \in ObservationIds /\ i # call[c].id
    BY <1>0, <2>5 DEF ForwardedOK, EngineTyped, G!Range
  <2>10. forwarder = "task" => \A i \in G!Range(linkedIds) \cup tasks : \E r \in obsRows' : r.id = i /\ r.status = "forwarded"
    <3> SUFFICES ASSUME forwarder = "task", NEW a \in G!Range(linkedIds) \cup tasks
                 PROVE  \E r \in obsRows' : r.id = a /\ r.status = "forwarded"
      OBVIOUS
    <3>1. \E r \in obsRows : r.id = a /\ r.status = "forwarded"
      BY <1>0 DEF ForwardedOK
    <3> QED
      BY <2>7, <2>9, <3>1
  <2>11. forwarder = "sync" => \A r \in obsRows' : r.status = "forwarded" => r.id \in G!Range(linkedIds)
    <3> SUFFICES ASSUME forwarder = "sync", NEW r \in obsRows', r.status = "forwarded" PROVE r.id \in G!Range(linkedIds)
      OBVIOUS
    <3>1. r.id # call[c].id /\ r.id \in ObservationIds
      BY <2>7 DEF Observed
    <3>2. \E s \in obsRows : s.id = r.id /\ s.status = "forwarded"
      BY <2>7, <3>1
    <3> QED
      BY <1>0, <3>2 DEF ForwardedOK
  <2>12. \A i \in G!Range(linkedIds) \cup tasks :
           (\E r \in obsRows' : r.id = i) /\ \A d \in Callers : Handling(d)' => call'[d].id # i
    BY <1>0, <2>7, <2>9 DEF ForwardedOK
  <2>13. ForwardedOK'
    BY <1>0, <2>1, <2>10, <2>11, <2>12 DEF ForwardedOK
  <2> QED
    BY <2>7, <2>8, <2>13 DEF EngineInv
<1>5. ASSUME NEW c \in Callers, NEW how \in {"true", "false", "raises"}, G!Forward(c, how) PROVE EngineInv'
  <2> DEFINE i == call[c].id
  <2>1. /\ call[c].pc = "forward" /\ forwarder' = forwarder
        /\ tasks' = (IF forwarder = "task" THEN tasks \cup {i} ELSE tasks)
        /\ linkedIds' = (IF forwarder = "sync" /\ how = "true" THEN Append(linkedIds, i) ELSE linkedIds)
    BY <1>5 DEF G!Forward
  <2>2. Handling(c) /\ call[c].mine /\ Says(c) /\ i \in ObservationIds
    BY <1>0, <2>1 DEF Handling, StoredOK, EngineTyped
  <2>3. CASE G!Step(c, "done", "forwarded") /\ G!SetStatus(i, "forwarded") /\ (forwarder = "sync" => how = "true")
    <3>1. PICK q : q = Told(c, "done", "forwarded")
      OBVIOUS
    <3>2. call' = [call EXCEPT ![c] = q]
      BY <1>0, <2>3, <3>1 DEF G!Step, G!Said, Told, Calls
    <3>3. /\ q \in Calls /\ q.pc = "done" /\ q.id = i /\ q.mine
          /\ \E k \in DOMAIN q.log : q.log[k] = "stored"
      <4>1. "done" \in CallPcs /\ "forwarded" \in G!Lifecycle
        BY DEF CallPcs, G!Lifecycle
      <4> QED
        BY <2>2, <3>1, <4>1, EngineSays
    <3>4. /\ call' \in [Callers -> Calls] /\ obsRows' \subseteq Observed /\ StoredOK'
          /\ \A a \in ObservationIds : (\E r \in obsRows : r.id = a) => \E r \in obsRows' : r.id = a
          /\ \A a \in ObservationIds : a # i =>
               \A x : (\E r \in obsRows' : r.id = a /\ r.status = x) <=> (\E r \in obsRows : r.id = a /\ r.status = x)
          /\ \A r \in obsRows' : r.id = i => r.status = "forwarded"
          /\ \E r \in obsRows' : r.id = i
          /\ \A d \in Callers : /\ Handling(d)' => Handling(d) /\ call'[d].id = call[d].id
                                /\ call'[d].pc \in {"check", "insert", "mark", "forward"} => call'[d].id \in ObservationIds
      BY <2>2, <2>3, <3>2, <3>3, EngineRows
    <3>5. tasks' \subseteq ObservationIds /\ linkedIds' \in Seq(ObservationIds)
      BY <1>0, <2>1, <2>2 DEF EngineTyped
    <3>6. EngineTyped'
      BY <1>0, <2>1, <3>4, <3>5 DEF EngineTyped
    \* What is linked or left to a task now, and what was.
    <3>7. /\ \A k \in DOMAIN linkedIds : linkedIds[k] # i /\ linkedIds[k] \in ObservationIds
          /\ i \notin tasks /\ \A a \in tasks : a \in ObservationIds
      <4>1. \A a \in G!Range(linkedIds) \cup tasks : a # i
        BY <1>0, <2>2 DEF ForwardedOK
      <4> QED
        BY <1>0, <4>1 DEF G!Range, EngineTyped
    <3>8. G!Range(linkedIds)' = G!Range(linkedIds) \cup (IF forwarder = "sync" THEN {i} ELSE {})
      <4>1. CASE forwarder = "sync"
        <5>1. linkedIds' = Append(linkedIds, i) /\ linkedIds \in Seq(ObservationIds)
          BY <1>0, <2>1, <2>3, <4>1 DEF EngineTyped
        <5>2. /\ DOMAIN linkedIds' = 1 .. Len(linkedIds) + 1 /\ DOMAIN linkedIds = 1 .. Len(linkedIds) /\ Len(linkedIds) \in Nat
              /\ \A k \in 1 .. Len(linkedIds) : linkedIds'[k] = linkedIds[k]
              /\ linkedIds'[Len(linkedIds) + 1] = i
          BY <5>1
        <5> QED
          BY <4>1, <5>2 DEF G!Range
      <4>2. CASE forwarder # "sync"
        BY <2>1, <4>2
      <4> QED
        BY <4>1, <4>2
    <3>9. \A j, k \in DOMAIN linkedIds' : linkedIds'[j] = linkedIds'[k] => j = k
      <4>1. CASE forwarder = "sync"
        <5>1. linkedIds' = Append(linkedIds, i) /\ linkedIds \in Seq(ObservationIds)
          BY <1>0, <2>1, <2>3, <4>1 DEF EngineTyped
        <5>2. /\ DOMAIN linkedIds' = 1 .. Len(linkedIds) + 1 /\ DOMAIN linkedIds = 1 .. Len(linkedIds) /\ Len(linkedIds) \in Nat
              /\ \A k \in 1 .. Len(linkedIds) : linkedIds'[k] = linkedIds[k]
              /\ linkedIds'[Len(linkedIds) + 1] = i
          BY <5>1
        <5>3. \A j, k \in DOMAIN linkedIds : linkedIds[j] = linkedIds[k] => j = k
          BY <1>0 DEF ForwardedOK
        <5> QED
          BY <3>7, <5>2, <5>3
      <4>2. CASE forwarder # "sync"
        BY <1>0, <2>1, <4>2 DEF ForwardedOK
      <4> QED
        BY <4>1, <4>2
    <3>10. \A a \in G!Range(linkedIds)' \cup tasks' : a = i \/ a \in G!Range(linkedIds) \cup tasks
      BY <2>1, <3>8
    <3>11. \A a \in G!Range(linkedIds) \cup tasks : a # i /\ a \in ObservationIds
      BY <3>7 DEF G!Range
    <3>12. \A d \in Callers : Handling(d)' => call'[d].id # i
      <4> SUFFICES ASSUME NEW d \in Callers, Handling(d)' PROVE call'[d].id # i
        OBVIOUS
      <4>1. d # c
        BY <1>0, <3>2, <3>3 DEF Handling
      <4>2. call[d].mine /\ call'[d].id = call[d].id
        BY <1>0, <3>4 DEF StoredOK
      <4> QED
        BY <1>0, <2>2, <4>1, <4>2 DEF StoredOK
    <3>13. \A a \in G!Range(linkedIds)' \cup tasks' :
             (\E r \in obsRows' : r.id = a) /\ \A d \in Callers : Handling(d)' => call'[d].id # a
      <4> SUFFICES ASSUME NEW a \in G!Range(linkedIds)' \cup tasks'
                   PROVE  (\E r \in obsRows' : r.id = a) /\ \A d \in Callers : Handling(d)' => call'[d].id # a
        OBVIOUS
      <4>1. CASE a = i
        BY <3>4, <3>12, <4>1
      <4>2. CASE a # i
        <5>1. a \in G!Range(linkedIds) \cup tasks /\ a \in ObservationIds
          BY <3>10, <3>11, <4>2
        <5> QED
          BY <1>0, <3>4, <5>1 DEF ForwardedOK
      <4> QED
        BY <4>1, <4>2
    <3>14. \A k \in DOMAIN linkedIds' : linkedIds'[k] \notin tasks'
      <4>1. CASE forwarder = "sync"
        <5>1. tasks' = {}
          BY <1>0, <2>1, <4>1 DEF ForwardedOK
        <5> QED
          BY <5>1
      <4>2. CASE forwarder # "sync"
        BY <1>0, <2>1, <3>7, <4>2 DEF ForwardedOK
      <4> QED
        BY <4>1, <4>2
    <3>15. forwarder # "task" => tasks' = {}
      BY <1>0, <2>1 DEF ForwardedOK
    <3>16. forwarder = "task" => \A a \in G!Range(linkedIds)' \cup tasks' : \E r \in obsRows' : r.id = a /\ r.status = "forwarded"
      <4> SUFFICES ASSUME forwarder = "task", NEW a \in G!Range(linkedIds)' \cup tasks' PROVE \E r \in obsRows' : r.id = a /\ r.status = "forwarded"
        OBVIOUS
      <4>1. CASE a = i
        BY <3>4, <4>1
      <4>2. CASE a # i
        <5>1. a \in G!Range(linkedIds) \cup tasks /\ a \in ObservationIds
          BY <3>10, <3>11, <4>2
        <5>2. \E r \in obsRows : r.id = a /\ r.status = "forwarded"
          BY <1>0, <5>1 DEF ForwardedOK
        <5> QED
          BY <3>4, <4>2, <5>1, <5>2
      <4> QED
        BY <4>1, <4>2
    <3>17. forwarder = "sync" => \A r \in obsRows' : r.status = "forwarded" => r.id \in G!Range(linkedIds)'
      <4> SUFFICES ASSUME forwarder = "sync", NEW r \in obsRows', r.status = "forwarded" PROVE r.id \in G!Range(linkedIds)'
        OBVIOUS
      <4>1. CASE r.id = i
        BY <3>8, <4>1
      <4>2. CASE r.id # i
        <5>1. r.id \in ObservationIds
          BY <3>4 DEF Observed
        <5>2. \E s \in obsRows : s.id = r.id /\ s.status = "forwarded"
          BY <3>4, <4>2, <5>1
        <5> QED
          BY <1>0, <3>8, <5>2 DEF ForwardedOK
      <4> QED
        BY <4>1, <4>2
    <3>18. ForwardedOK'
      BY <2>1, <3>9, <3>13, <3>14, <3>15, <3>16, <3>17 DEF ForwardedOK
    <3> QED
      BY <3>4, <3>6, <3>18 DEF EngineInv
  <2>4. CASE forwarder = "sync" /\ how = "false" /\ call' = [call EXCEPT ![c].pc = "done"] /\ UNCHANGED obsRows
    <3>1. PICK q : q = [call[c] EXCEPT !.pc = "done"]
      OBVIOUS
    <3>2. call' = [call EXCEPT ![c] = q]
      BY <1>0, <2>4, <3>1 DEF Calls
    <3>3. q \in Calls /\ q.pc = "done" /\ q.id = call[c].id /\ q.mine = call[c].mine /\ q.log = call[c].log
      BY <1>0, <3>1 DEF Calls, CallPcs
    <3>4. q.mine <=> \E k \in DOMAIN q.log : q.log[k] = "stored"
      BY <2>2, <3>3 DEF Says
    <3>5. UNCHANGED <<forwarder, obsRows, tasks, linkedIds>>
      BY <2>1, <2>4
    <3> QED
      BY <2>2, <3>2, <3>3, <3>4, <3>5, EngineCall
  <2>5. CASE forwarder = "sync" /\ how = "raises" /\ G!Step(c, "done", "failed") /\ UNCHANGED obsRows
    <3>1. PICK q : q = Told(c, "done", "failed")
      OBVIOUS
    <3>2. call' = [call EXCEPT ![c] = q]
      BY <1>0, <2>5, <3>1 DEF G!Step, G!Said, Told, Calls
    <3>3. "done" \in CallPcs /\ "failed" \in G!Lifecycle
      BY DEF CallPcs, G!Lifecycle
    <3>4. /\ q \in Calls /\ q.pc = "done" /\ q.id = call[c].id /\ q.mine = call[c].mine
          /\ (\E k \in DOMAIN q.log : q.log[k] = "stored")
      <4>1. Says(c) /\ c \in Callers
        BY <2>2
      <4> QED
        BY <3>1, <3>3, <4>1, EngineSays
    <3>5. UNCHANGED <<forwarder, obsRows, tasks, linkedIds>>
      BY <2>1, <2>5
    <3> QED
      BY <2>2, <3>2, <3>4, <3>5, EngineCall
  <2>6. \/ G!Step(c, "done", "forwarded") /\ G!SetStatus(i, "forwarded") /\ (forwarder = "sync" => how = "true")
        \/ forwarder = "sync" /\ how = "false" /\ call' = [call EXCEPT ![c].pc = "done"] /\ UNCHANGED obsRows
        \/ forwarder = "sync" /\ how = "raises" /\ G!Step(c, "done", "failed") /\ UNCHANGED obsRows
    BY <1>5 DEF G!Forward, G!Unawaited, G!Answered
  <2> QED
    BY <2>3, <2>4, <2>5, <2>6
<1>6. ASSUME NEW i \in ObservationIds, NEW ok \in BOOLEAN, G!TaskRuns(i, ok) PROVE EngineInv'
  <2>1. /\ i \in tasks /\ tasks' = tasks \ {i} /\ UNCHANGED <<forwarder, obsRows, call>>
        /\ linkedIds' = (IF ok THEN Append(linkedIds, i) ELSE linkedIds)
    BY <1>6 DEF G!TaskRuns
  <2>2. linkedIds' \in Seq(ObservationIds) /\ forwarder = "task"
    BY <1>0, <2>1 DEF EngineTyped, ForwardedOK
  <2>3. EngineTyped' /\ StoredOK'
    BY <1>0, <2>1, <2>2 DEF EngineTyped, StoredOK, Handling, Says
  <2>4. /\ G!Range(linkedIds)' \subseteq G!Range(linkedIds) \cup {i}
        /\ \A j, k \in DOMAIN linkedIds' : linkedIds'[j] = linkedIds'[k] => j = k
        /\ \A k \in DOMAIN linkedIds' : linkedIds'[k] \notin tasks'
    <3>1. CASE ok
      <4>1. linkedIds' = Append(linkedIds, i) /\ linkedIds \in Seq(ObservationIds)
        BY <1>0, <2>1, <3>1 DEF EngineTyped
      <4>2. /\ DOMAIN linkedIds' = 1 .. Len(linkedIds) + 1 /\ DOMAIN linkedIds = 1 .. Len(linkedIds) /\ Len(linkedIds) \in Nat
            /\ \A k \in 1 .. Len(linkedIds) : linkedIds'[k] = linkedIds[k]
            /\ linkedIds'[Len(linkedIds) + 1] = i
        BY <4>1
      <4>3. /\ \A j, k \in DOMAIN linkedIds : linkedIds[j] = linkedIds[k] => j = k
            /\ \A k \in DOMAIN linkedIds : linkedIds[k] \notin tasks
        BY <1>0 DEF ForwardedOK
      <4>4. \A k \in DOMAIN linkedIds : linkedIds[k] # i
        BY <2>1, <4>3
      <4> QED
        BY <2>1, <4>2, <4>3, <4>4 DEF G!Range
    <3>2. CASE ~ok
      BY <1>0, <2>1, <3>2 DEF ForwardedOK
    <3> QED
      BY <3>1, <3>2
  <2>5. \A a \in G!Range(linkedIds)' \cup tasks' : a \in G!Range(linkedIds) \cup tasks
    BY <2>1, <2>4
  <2>6. \A a \in G!Range(linkedIds)' \cup tasks' :
          (\E r \in obsRows : r.id = a /\ r.status = "forwarded") /\ \A d \in Callers : Handling(d) => call[d].id # a
    BY <1>0, <2>2, <2>5 DEF ForwardedOK
  <2>7. ForwardedOK'
    BY <2>1, <2>2, <2>4, <2>6 DEF ForwardedOK, Handling
  <2> QED
    BY <2>3, <2>7 DEF EngineInv
<1>7. ASSUME NEW c \in Callers, G!Return(c) \/ G!Abort(c) PROVE EngineInv'
  <2>1. call' = [call EXCEPT ![c] = G!NoCall] /\ UNCHANGED <<forwarder, obsRows, tasks, linkedIds>>
    BY <1>7 DEF G!Return, G!Abort
  <2>2. <<>> \in Seq(G!Lifecycle) /\ DOMAIN <<>> = {}
    OBVIOUS
  <2>3. G!NoCall \in Calls /\ G!NoCall.pc = "idle" /\ G!NoCall.mine = FALSE /\ ~\E k \in DOMAIN G!NoCall.log : G!NoCall.log[k] = "stored"
    BY <2>2 DEF G!NoCall, Calls, CallPcs
  <2> QED
    BY <2>1, <2>3, EngineCall
<1>8. ASSUME NEW i \in ObservationIds, G!Delete(i) PROVE EngineInv'
  <2> DEFINE new(r) == IF r.id = i THEN [r EXCEPT !.deleted = TRUE] ELSE r
  <2>1. obsRows' = {new(r) : r \in obsRows} /\ UNCHANGED <<forwarder, call, tasks, linkedIds>>
    BY <1>8 DEF G!Delete
  <2>2. \A r \in obsRows : new(r) \in Observed /\ new(r).id = r.id /\ new(r).status = r.status
    BY <1>0 DEF Observed
  <2> HIDE DEF new
  <2>3. EngineTyped'
    BY <1>0, <2>1, <2>2 DEF EngineTyped
  <2>4. \A a, x : /\ (\E r \in obsRows : r.id = a) => \E r \in obsRows' : r.id = a
                  /\ (\E r \in obsRows : r.id = a /\ r.status = x) => \E r \in obsRows' : r.id = a /\ r.status = x
    BY <2>1, <2>2
  <2>5. \A r, p \in obsRows' : r.id = p.id => r = p
    BY <1>0, <2>1, <2>2 DEF StoredOK
  <2>6. StoredOK'
    BY <1>0, <2>1, <2>4, <2>5 DEF StoredOK, Handling, Says
  <2>7. \A r \in obsRows' : \E p \in obsRows : p.id = r.id /\ p.status = r.status
    BY <2>1, <2>2
  <2>8. \A a \in G!Range(linkedIds) \cup tasks :
          (\E r \in obsRows' : r.id = a) /\ \A c \in Callers : Handling(c) => call[c].id # a
    BY <1>0, <2>4 DEF ForwardedOK
  <2>9. /\ forwarder = "task" => \A a \in G!Range(linkedIds) \cup tasks : \E r \in obsRows' : r.id = a /\ r.status = "forwarded"
        /\ forwarder = "sync" => \A r \in obsRows' : r.status = "forwarded" => r.id \in G!Range(linkedIds)
    BY <1>0, <2>4, <2>7 DEF ForwardedOK
  <2>10. ForwardedOK'
    BY <1>0, <2>1, <2>8, <2>9 DEF ForwardedOK, Handling
  <2> QED
    BY <2>3, <2>6, <2>10 DEF EngineInv
<1>9. CASE UNCHANGED G!vars
  BY <1>9 DEF EngineInv, EngineTyped, StoredOK, ForwardedOK, Handling, Says, G!vars
<1> QED
  BY <1>1, <1>2, <1>3, <1>4, <1>5, <1>6, <1>7, <1>8, <1>9 DEF G!Next

LEMMA EngineInit == G!Init => EngineInv
<1> SUFFICES ASSUME G!Init PROVE EngineInv
  OBVIOUS
<1>1. <<>> \in Seq(G!Lifecycle) /\ <<>> \in Seq(ObservationIds) /\ DOMAIN <<>> = {}
  OBVIOUS
<1>2. G!NoCall \in Calls /\ G!NoCall.pc = "idle" /\ G!NoCall.mine = FALSE /\ G!NoCall.log = <<>>
  BY <1>1 DEF G!NoCall, Calls, CallPcs
<1>3. call \in [Callers -> Calls] /\ \A c \in Callers : call[c] = G!NoCall
  BY <1>2 DEF G!Init
<1>4. EngineTyped
  BY <1>1, <1>2, <1>3 DEF G!Init, EngineTyped
<1>5. StoredOK
  BY <1>1, <1>2, <1>3 DEF G!Init, StoredOK, Handling, Says
<1>6. ForwardedOK
  BY <1>1, <1>2, <1>3 DEF G!Init, ForwardedOK, G!Range
<1> QED
  BY <1>4, <1>5, <1>6 DEF EngineInv

LEMMA EngineHolds == EngineInv => G!StoredByOne /\ G!ForwardedIsLinked /\ G!TypeOK
<1> SUFFICES ASSUME EngineInv PROVE G!StoredByOne /\ G!ForwardedIsLinked /\ G!TypeOK
  OBVIOUS
<1>1. \A c \in Callers : call[c].mine = (\E k \in DOMAIN call[c].log : call[c].log[k] = "stored")
  <2> TAKE c \in Callers
  <2>1. call[c].mine \in BOOLEAN /\ (call[c].mine <=> \E k \in DOMAIN call[c].log : call[c].log[k] = "stored")
    BY DEF EngineInv, EngineTyped, StoredOK, Calls, Says
  <2> QED
    BY <2>1
<1>2. G!StoredByOne
  BY <1>1 DEF EngineInv, StoredOK, ForwardedOK, G!StoredByOne
<1>3. G!ForwardedIsLinked
  BY DEF EngineInv, ForwardedOK, G!ForwardedIsLinked
<1>4. \A c \in Callers : call[c].pc \in CallPcs /\ call[c].log \in Seq(G!Lifecycle)
  BY DEF EngineInv, EngineTyped, Calls
<1>5. G!TypeOK
  BY <1>4 DEF EngineInv, EngineTyped, Observed, CallPcs, G!TypeOK, G!Range
<1> QED
  BY <1>2, <1>3, <1>5

(***************************************************************************)
(* The validation (ObsValidation): each validator leaves among the issues  *)
(* what it blames.                                                         *)
(***************************************************************************)

\* The validators: how far they are, and what each of them leaves among the issues.
Order == [schema |-> 1, time |-> 2, source |-> 3, kind |-> 4, evidence |-> 5, rules |-> 6, duplicate |-> 7, verdict |-> 8, end |-> 9]
Past(n) == Order[next] > n /\ verdict # "raised"
Failed(f) == <<f, "fail">> \in issues
Warned(f) == <<f, "warning">> \in issues
BySchema == \A f \in V!Fields : <<f, "fail">> \in V!SchemaIssues => Failed(f)
ByTime == V!Stamp # "mistyped" /\ (V!Stamp \in {"odd", "future"} => Failed("time")) /\ (V!Stamp \in {"none", "old"} => Warned("time"))
BySource ==
  /\ data.source # "ok" => Failed("source")
  /\ ~V!Empty /\ data.sourceType = "unknown" => Warned("sourceType")
  /\ V!Empty \/ data.sourceType # "unhashable"
ByKind == (data.kind \in {"absent", "null"} => Failed("kind")) /\ (data.kind \notin {"ok", "absent", "null"} => Warned("kind"))
ByEvidence == data.evidence \in {"absent", "null", "empty"} => Warned("evidence")
ByRules == data.id \in {"absent", "blank"} => Warned("id")
ByDuplicate == data.id \notin {"absent", "blank"} /\ duplicate => Failed("id")
Known ==
  /\ data \in Tried /\ created \in Created /\ duplicate \in BOOLEAN /\ next \in DOMAIN Order
  /\ issues \subseteq V!Fields \X {"fail", "warning"}
  /\ verdict \in {"none", "pass", "warning", "fail", "raised"}
  /\ next # "end" <=> verdict = "none"
Decided ==
  verdict \in {"pass", "warning", "fail"} =>
    verdict = IF \E i \in issues : i[2] = "fail" THEN "fail" ELSE IF issues # {} THEN "warning" ELSE "pass"
ValidationInv ==
  /\ Known /\ Decided
  /\ \A f \in V!Fields : Failed(f) => V!Refused(f)
  /\ next # "schema" => BySchema
  /\ (Past(2) => ByTime) /\ (Past(3) => BySource) /\ (Past(4) => ByKind) /\ (Past(5) => ByEvidence)
  /\ (Past(6) => ByRules) /\ (Past(7) => ByDuplicate)
  /\ V!RaisesOnMistyped

LEMMA MarkSets ==
  /\ \A A, f : <<f, "fail">> \in V!Fails(A) <=> f \in A
  /\ \A A, f : <<f, "warning">> \in V!Warns(A) <=> f \in A
  /\ \A A, f : <<f, "fail">> \notin V!Warns(A)
  /\ \A A : A \subseteq V!Fields => V!Fails(A) \subseteq V!Fields \X {"fail", "warning"} /\ V!Warns(A) \subseteq V!Fields \X {"fail", "warning"}
BY DEF V!Fails, V!Warns

\* What the schema check refuses.
LEMMA SchemaIs ==
  ASSUME V!FieldsOK, data \in Tried
  PROVE  /\ V!SchemaIssues \subseteq V!Fields \X {"fail", "warning"}
         /\ <<"source", "fail">> \in V!SchemaIssues <=> data.source \in {"absent", "null", "blank", "mistyped"}
         /\ <<"kind", "fail">> \in V!SchemaIssues <=> data.kind \in {"absent", "null", "blank", "mistyped", "unhashable"}
         /\ <<"evidence", "fail">> \in V!SchemaIssues <=> data.evidence \in {"absent", "null", "mistyped"}
         /\ <<"confidence", "fail">> \in V!SchemaIssues <=> data.confidence \in {"outside", "mistyped"}
         /\ <<"tags", "fail">> \in V!SchemaIssues <=> data.tags = "mistyped"
         /\ <<"id", "fail">> \in V!SchemaIssues <=> data.id \in {"blank", "odd"}
         /\ <<"sourceType", "fail">> \notin V!SchemaIssues /\ <<"time", "fail">> \notin V!SchemaIssues
<1> DEFINE A == {f \in {"source", "kind", "evidence"} : V!Missing(f)}
           B == {f \in {"source", "kind", "evidence", "confidence", "tags"} : V!BadType(f)}
           C == {f \in {"confidence"} : V!Has(f, {"outside"})}
           N == {f \in {"id"} : V!Has(f, {"blank", "mistyped", "odd"})}
<1>1. V!SchemaIssues = V!Fails(A) \cup V!Fails(B) \cup V!Fails(C) \cup V!Fails(N)
  BY DEF V!SchemaIssues
<1>2. A \subseteq V!Fields /\ B \subseteq V!Fields /\ C \subseteq V!Fields /\ N \subseteq V!Fields
  BY DEF V!Fields
<1>3. \A f : <<f, "fail">> \in V!SchemaIssues <=> f \in A \/ f \in B \/ f \in C \/ f \in N
  <2> HIDE DEF A, B, C, N
  <2> QED
    BY <1>1, MarkSets
<1>4. V!SchemaIssues \subseteq V!Fields \X {"fail", "warning"}
  <2> HIDE DEF A, B, C, N
  <2> QED
    BY <1>1, <1>2, MarkSets
<1>5. /\ data.source \in {"ok", "absent", "null", "blank", "odd", "mistyped"}
      /\ data.kind \in {"ok", "absent", "null", "blank", "unknown", "mistyped", "unhashable"}
      /\ data.evidence \in {"ok", "absent", "null", "empty", "mistyped"}
      /\ data.confidence \in {"ok", "absent", "outside", "nan", "mistyped"}
      /\ data.tags \in {"ok", "absent", "mistyped"} /\ data.id \in {"ok", "absent", "blank", "odd"}
  BY DEF V!FieldsOK
<1>6. /\ data["source"] = data.source /\ data["kind"] = data.kind /\ data["evidence"] = data.evidence
      /\ data["confidence"] = data.confidence /\ data["tags"] = data.tags /\ data["id"] = data.id
  OBVIOUS
<1>7. /\ "source" \in A <=> data.source \in {"absent", "null", "blank"}
      /\ "kind" \in A <=> data.kind \in {"absent", "null", "blank"}
      /\ "evidence" \in A <=> data.evidence \in {"absent", "null"}
      /\ \A f \in {"confidence", "tags", "id", "sourceType", "time"} : f \notin A
  BY <1>5, <1>6 DEF V!Missing, V!Has
<1>8. /\ "source" \in B <=> data.source \in {"mistyped", "null"}
      /\ "kind" \in B <=> data.kind \in {"mistyped", "unhashable", "null"}
      /\ "evidence" \in B <=> data.evidence \in {"mistyped", "null"}
      /\ "confidence" \in B <=> data.confidence = "mistyped"
      /\ "tags" \in B <=> data.tags = "mistyped"
      /\ \A f \in {"id", "sourceType", "time"} : f \notin B
  BY <1>5, <1>6 DEF V!BadType, V!Has
<1>9. /\ "confidence" \in C <=> data.confidence = "outside"
      /\ \A f \in {"source", "kind", "evidence", "tags", "id", "sourceType", "time"} : f \notin C
  BY <1>5, <1>6 DEF V!Has
<1>10. /\ "id" \in N <=> data.id \in {"blank", "odd"}
       /\ \A f \in {"source", "kind", "evidence", "tags", "confidence", "sourceType", "time"} : f \notin N
  BY <1>5, <1>6 DEF V!Has
<1> HIDE DEF A, B, C, N
<1>11. /\ <<"source", "fail">> \in V!SchemaIssues <=> data.source \in {"absent", "null", "blank", "mistyped"}
       /\ <<"kind", "fail">> \in V!SchemaIssues <=> data.kind \in {"absent", "null", "blank", "mistyped", "unhashable"}
       /\ <<"evidence", "fail">> \in V!SchemaIssues <=> data.evidence \in {"absent", "null", "mistyped"}
       /\ <<"confidence", "fail">> \in V!SchemaIssues <=> data.confidence \in {"outside", "mistyped"}
  BY <1>3, <1>7, <1>8, <1>9, <1>10
<1>12. /\ <<"tags", "fail">> \in V!SchemaIssues <=> data.tags = "mistyped"
       /\ <<"id", "fail">> \in V!SchemaIssues <=> data.id \in {"blank", "odd"}
       /\ <<"sourceType", "fail">> \notin V!SchemaIssues /\ <<"time", "fail">> \notin V!SchemaIssues
  BY <1>3, <1>7, <1>8, <1>9, <1>10
<1> QED
  BY <1>4, <1>11, <1>12

\* What is wrong with each field, by its value.
LEMMA RefusedIs ==
  ASSUME V!FieldsOK, data \in Tried
  PROVE  /\ V!Refused("source") <=> data.source # "ok"
         /\ V!Refused("kind") <=> data.kind \in {"absent", "null", "blank", "mistyped", "unhashable"}
         /\ V!Refused("evidence") <=> data.evidence \in {"absent", "null", "mistyped"}
         /\ V!Refused("confidence") <=> data.confidence \in {"outside", "mistyped"}
         /\ V!Refused("tags") <=> data.tags = "mistyped"
         /\ V!Refused("id") <=> data.id \in {"blank", "odd"} \/ (data.id = "ok" /\ duplicate)
         /\ V!Refused("time") <=> V!Stamp \in {"odd", "future"}
         /\ ~V!Refused("sourceType")
<1>1. /\ data.source \in {"ok", "absent", "null", "blank", "odd", "mistyped"}
      /\ data.kind \in {"ok", "absent", "null", "blank", "unknown", "mistyped", "unhashable"}
      /\ data.evidence \in {"ok", "absent", "null", "empty", "mistyped"}
      /\ data.confidence \in {"ok", "absent", "outside", "nan", "mistyped"}
      /\ data.tags \in {"ok", "absent", "mistyped"} /\ data.id \in {"ok", "absent", "blank", "odd"}
  BY DEF V!FieldsOK
<1>2. /\ data["source"] = data.source /\ data["kind"] = data.kind /\ data["evidence"] = data.evidence
      /\ data["confidence"] = data.confidence /\ data["tags"] = data.tags /\ data["id"] = data.id
  OBVIOUS
<1>3. /\ V!Refused("source") <=> data.source # "ok"
      /\ V!Refused("kind") <=> data.kind \in {"absent", "null", "blank", "mistyped", "unhashable"}
      /\ V!Refused("evidence") <=> data.evidence \in {"absent", "null", "mistyped"}
  BY <1>1, <1>2 DEF V!Refused, V!Has
<1>4. /\ V!Refused("confidence") <=> data.confidence \in {"outside", "mistyped"}
      /\ V!Refused("tags") <=> data.tags = "mistyped"
      /\ V!Refused("id") <=> data.id \in {"blank", "odd"} \/ (data.id = "ok" /\ duplicate)
  BY <1>1, <1>2 DEF V!Refused, V!Has
<1>5. (V!Refused("time") <=> V!Stamp \in {"odd", "future"}) /\ ~V!Refused("sourceType")
  BY DEF V!Refused
<1> QED
  BY <1>3, <1>4, <1>5

\* What a validator is to leave among the issues, and what it may blame and raise over.
LeftBy(step) ==
  /\ (step = "schema" => BySchema) /\ (step = "time" => ByTime) /\ (step = "source" => BySource) /\ (step = "kind" => ByKind)
  /\ (step = "evidence" => ByEvidence) /\ (step = "rules" => ByRules) /\ (step = "duplicate" => ByDuplicate)
Fits(step, to, found, raises) ==
  /\ step \in DOMAIN Order /\ to \in DOMAIN Order \ {"end"} /\ Order[to] = Order[step] + 1
  /\ raises \in BOOLEAN /\ (step = "schema" => ~raises)
  /\ found \subseteq V!Fields \X {"fail", "warning"} /\ \A f \in V!Fields : <<f, "fail">> \in found => V!Refused(f)
  /\ raises => \E f \in V!Fields : V!Has(f, {"mistyped", "unhashable"}) /\ (f \in {"time", "sourceType"} \/ Failed(f))

\* What one validator does to the invariant, but for what it is to leave among the issues itself.
LEMMA ValidatorStep ==
  ASSUME V!FieldsOK, ValidationInv, NEW step, NEW to, NEW found, NEW raises, Fits(step, to, found, raises),
         V!Validator(step, to, found, raises), ~raises => LeftBy(step)'
  PROVE  ValidationInv'
<1>a. /\ step \in DOMAIN Order /\ to \in DOMAIN Order \ {"end"} /\ Order[to] = Order[step] + 1
      /\ raises \in BOOLEAN /\ (step = "schema" => ~raises)
      /\ found \subseteq V!Fields \X {"fail", "warning"} /\ \A f \in V!Fields : <<f, "fail">> \in found => V!Refused(f)
      /\ raises => \E f \in V!Fields : V!Has(f, {"mistyped", "unhashable"}) /\ (f \in {"time", "sourceType"} \/ Failed(f))
  BY DEF Fits
<1>b. ~raises => /\ (step = "schema" => BySchema') /\ (step = "time" => ByTime') /\ (step = "source" => BySource') /\ (step = "kind" => ByKind')
                 /\ (step = "evidence" => ByEvidence') /\ (step = "rules" => ByRules') /\ (step = "duplicate" => ByDuplicate')
  BY DEF LeftBy
<1>0. /\ Known /\ Decided /\ \A f \in V!Fields : Failed(f) => V!Refused(f)
      /\ next # "schema" => BySchema
      /\ (Past(2) => ByTime) /\ (Past(3) => BySource) /\ (Past(4) => ByKind) /\ (Past(5) => ByEvidence)
      /\ (Past(6) => ByRules) /\ (Past(7) => ByDuplicate)
  BY DEF ValidationInv
<1>1. /\ next = step /\ verdict = "none" /\ UNCHANGED <<data, created, duplicate>>
      /\ raises => verdict' = "raised" /\ next' = "end" /\ issues' = issues
      /\ ~raises => verdict' = "none" /\ next' = to /\ issues' = issues \cup found
  BY <1>a DEF V!Validator
<1>2. issues \subseteq issues' /\ issues' \subseteq issues \cup found
  BY <1>a, <1>1
<1>3. V!Stamp' = V!Stamp /\ (V!Empty <=> V!Empty') /\ V!SchemaIssues' = V!SchemaIssues
  BY <1>1 DEF V!Stamp, V!Empty, V!Has, V!SchemaIssues, V!Fails, V!Missing, V!BadType
<1>4. \A f \in V!Fields : /\ V!Refused(f)' <=> V!Refused(f)
                          /\ Failed(f) => Failed(f)'
                          /\ Warned(f) => Warned(f)'
                          /\ Failed(f)' => Failed(f) \/ <<f, "fail">> \in found
  BY <1>1, <1>2, <1>3 DEF V!Refused, V!Has, Failed, Warned
<1>5. "time" \in V!Fields /\ "source" \in V!Fields /\ "sourceType" \in V!Fields /\ "kind" \in V!Fields
      /\ "evidence" \in V!Fields /\ "id" \in V!Fields
  BY DEF V!Fields
<1>6. Known'
  <2>1. "end" \in DOMAIN Order
    BY DEF Order
  <2> QED
    BY <1>a, <1>0, <1>1, <1>2, <2>1 DEF Known
<1>7. Decided'
  BY <1>a, <1>1 DEF Decided
<1>8. \A f \in V!Fields : Failed(f)' => V!Refused(f)'
  BY <1>a, <1>0, <1>4
<1>9. next' # "schema" => BySchema'
  <2>1. CASE step = "schema"
    BY <1>a, <1>b, <2>1
  <2>2. CASE step # "schema"
    BY <1>0, <1>1, <1>3, <1>4, <2>2 DEF BySchema
  <2> QED
    BY <2>1, <2>2
<1>10. /\ ByTime => ByTime'
       /\ BySource => BySource'
       /\ ByKind => ByKind'
       /\ ByEvidence => ByEvidence'
       /\ ByRules => ByRules'
       /\ ByDuplicate => ByDuplicate'
  BY <1>1, <1>3, <1>4, <1>5 DEF ByTime, BySource, ByKind, ByEvidence, ByRules, ByDuplicate
<1>11. \A n \in Nat : Past(n)' => ~raises /\ n <= Order[step] /\ (n < Order[step] => Past(n))
  <2> SUFFICES ASSUME NEW n \in Nat, Past(n)' PROVE ~raises /\ n <= Order[step] /\ (n < Order[step] => Past(n))
    OBVIOUS
  <2>1. ~raises /\ next' = to
    BY <1>a, <1>1 DEF Past
  <2>2. Order[step] \in Nat /\ Order[to] > n
    BY <1>a, <2>1 DEF Past, Order
  <2> QED
    BY <1>a, <1>1, <2>1, <2>2 DEF Past
<1>12. /\ Order[step] = 2 <=> step = "time"
       /\ Order[step] = 3 <=> step = "source"
       /\ Order[step] = 4 <=> step = "kind"
       /\ Order[step] = 5 <=> step = "evidence"
       /\ Order[step] = 6 <=> step = "rules"
       /\ Order[step] = 7 <=> step = "duplicate"
       /\ Order[step] \in Nat
  BY <1>a DEF Order
<1>13. \A n \in 2 .. 7 : n <= Order[step] => n < Order[step] \/ n = Order[step]
  BY <1>12
<1>14. /\ (Past(2)' => ByTime') /\ (Past(3)' => BySource') /\ (Past(4)' => ByKind') /\ (Past(5)' => ByEvidence')
       /\ (Past(6)' => ByRules') /\ (Past(7)' => ByDuplicate')
  <2>1. Past(2)' => ByTime'
    BY <1>b, <1>0, <1>10, <1>11, <1>12, <1>13
  <2>2. Past(3)' => BySource'
    BY <1>b, <1>0, <1>10, <1>11, <1>12, <1>13
  <2>3. Past(4)' => ByKind'
    BY <1>b, <1>0, <1>10, <1>11, <1>12, <1>13
  <2>4. Past(5)' => ByEvidence'
    BY <1>b, <1>0, <1>10, <1>11, <1>12, <1>13
  <2>5. Past(6)' => ByRules'
    BY <1>b, <1>0, <1>10, <1>11, <1>12, <1>13
  <2>6. Past(7)' => ByDuplicate'
    BY <1>b, <1>0, <1>10, <1>11, <1>12, <1>13
  <2> QED
    BY <2>1, <2>2, <2>3, <2>4, <2>5, <2>6
<1>15. V!RaisesOnMistyped'
  <2> SUFFICES ASSUME verdict' = "raised"
               PROVE  \E f \in V!Fields : V!Has(f, {"mistyped", "unhashable"})' /\ (f \in {"time", "sourceType"} \/ Failed(f)')
    BY DEF V!RaisesOnMistyped, Failed
  <2>1. raises
    BY <1>a, <1>1
  <2>2. \A f : V!Has(f, {"mistyped", "unhashable"}) => V!Has(f, {"mistyped", "unhashable"})'
    BY <1>1 DEF V!Has
  <2> QED
    BY <1>a, <1>4, <2>1, <2>2
<1> QED
  BY <1>6, <1>7, <1>8, <1>9, <1>14, <1>15 DEF ValidationInv

LEMMA ValidationStep ==
  ASSUME V!FieldsOK, ValidationInv, [V!Next]_V!vars
  PROVE  ValidationInv'
<1>0. /\ Known /\ data \in Tried /\ created \in {"none", "ok", "old", "future"}
      /\ next # "schema" => BySchema
      /\ data.source \in {"ok", "absent", "null", "blank", "odd", "mistyped"}
      /\ data.kind \in {"ok", "absent", "null", "blank", "unknown", "mistyped", "unhashable"}
      /\ data.evidence \in {"ok", "absent", "null", "empty", "mistyped"}
      /\ data.confidence \in {"ok", "absent", "outside", "nan", "mistyped"}
      /\ data.tags \in {"ok", "absent", "mistyped"} /\ data.id \in {"ok", "absent", "blank", "odd"}
      /\ data.sourceType \in {"ok", "absent", "unknown", "unhashable"}
      /\ data.time \in {"ok", "absent", "odd", "old", "future", "mistyped"}
  BY DEF ValidationInv, Known, V!FieldsOK
<1>a. /\ data["source"] = data.source /\ data["kind"] = data.kind /\ data["evidence"] = data.evidence
      /\ data["confidence"] = data.confidence /\ data["tags"] = data.tags /\ data["id"] = data.id
      /\ data["sourceType"] = data.sourceType /\ data["time"] = data.time
  OBVIOUS
<1>b. /\ V!Fields = {"source", "kind", "evidence", "confidence", "tags", "id", "sourceType", "time"}
      /\ DOMAIN Order = {"schema", "time", "source", "kind", "evidence", "rules", "duplicate", "verdict", "end"}
      /\ Order["schema"] = 1 /\ Order["time"] = 2 /\ Order["source"] = 3 /\ Order["kind"] = 4 /\ Order["evidence"] = 5
      /\ Order["rules"] = 6 /\ Order["duplicate"] = 7 /\ Order["verdict"] = 8
  BY DEF V!Fields, Order
<1>c. {} \subseteq V!Fields \X {"fail", "warning"} /\ \A f : <<f, "fail">> \notin {}
  OBVIOUS
<1>d. \A f \in V!Fields : /\ V!Fails({f}) \subseteq V!Fields \X {"fail", "warning"} /\ V!Warns({f}) \subseteq V!Fields \X {"fail", "warning"}
                          /\ <<f, "fail">> \in V!Fails({f}) /\ <<f, "warning">> \in V!Warns({f})
                          /\ \A g : <<g, "fail">> \in V!Fails({f}) => g = f
                          /\ \A g : <<g, "fail">> \notin V!Warns({f})
  <2> SUFFICES ASSUME NEW f \in V!Fields
               PROVE  /\ V!Fails({f}) \subseteq V!Fields \X {"fail", "warning"} /\ V!Warns({f}) \subseteq V!Fields \X {"fail", "warning"}
                      /\ <<f, "fail">> \in V!Fails({f}) /\ <<f, "warning">> \in V!Warns({f})
                      /\ \A g : <<g, "fail">> \in V!Fails({f}) => g = f
                      /\ \A g : <<g, "fail">> \notin V!Warns({f})
    OBVIOUS
  <2>1. {f} \subseteq V!Fields
    OBVIOUS
  <2> QED
    BY <2>1, MarkSets
<1>1. CASE V!Schema
  <2>1. PICK found : found = V!SchemaIssues
    OBVIOUS
  <2>2. V!Validator("schema", "time", found, FALSE)
    BY <1>1, <2>1 DEF V!Schema
  <2>3. found \subseteq V!Fields \X {"fail", "warning"} /\ \A f \in V!Fields : <<f, "fail">> \in found => V!Refused(f)
    BY <1>0, <1>b, <2>1, SchemaIs, RefusedIs
  <2>4. UNCHANGED data /\ issues' = issues \cup found
    BY <2>2 DEF V!Validator
  <2>5. V!SchemaIssues' = V!SchemaIssues
    BY <2>4 DEF V!SchemaIssues, V!Fails, V!Missing, V!BadType, V!Has
  <2>6. BySchema'
    BY <2>1, <2>4, <2>5 DEF BySchema, Failed
  <2>a. Fits("schema", "time", found, FALSE)
    BY <1>b, <2>3 DEF Fits
  <2>b. ~FALSE => LeftBy("schema")'
    BY <2>6 DEF LeftBy
  <2> QED
    BY <2>a, <2>b, <2>2, ValidatorStep
<1>2. CASE V!Time
  <2>1. PICK found : found = (IF V!Stamp \in {"odd", "future"} THEN V!Fails({"time"})
                              ELSE IF V!Stamp \in {"none", "old"} THEN V!Warns({"time"}) ELSE {})
    OBVIOUS
  <2>2. PICK raised \in BOOLEAN : raised <=> V!Stamp = "mistyped"
    OBVIOUS
  <2>3. V!Validator("time", "source", found, raised)
    BY <1>2, <2>1, <2>2 DEF V!Time, V!Validator
  <2>4. found \subseteq V!Fields \X {"fail", "warning"} /\ \A f \in V!Fields : <<f, "fail">> \in found => V!Refused(f)
    BY <1>0, <1>b, <1>c, <1>d, <2>1, RefusedIs
  <2>5. raised => V!Has("time", {"mistyped", "unhashable"})
    BY <1>0, <1>a, <2>2 DEF V!Stamp, V!Has
  <2>6. ~raised => ByTime'
    <3> SUFFICES ASSUME ~raised PROVE ByTime'
      OBVIOUS
    <3>1. issues' = issues \cup found /\ UNCHANGED <<data, created>>
      BY <2>3 DEF V!Validator
    <3>2. V!Stamp' = V!Stamp
      BY <3>1 DEF V!Stamp, V!Has
    <3>3. /\ V!Stamp \in {"odd", "future"} => <<"time", "fail">> \in found
          /\ V!Stamp \in {"none", "old"} => <<"time", "warning">> \in found
      BY <1>b, <1>d, <2>1
    <3> QED
      BY <2>2, <3>1, <3>2, <3>3 DEF ByTime, Failed, Warned
  <2>a. Fits("time", "source", found, raised)
    BY <1>b, <2>4, <2>5 DEF Fits
  <2>b. ~raised => LeftBy("time")'
    BY <2>6 DEF LeftBy
  <2> QED
    BY <2>a, <2>b, <2>3, ValidatorStep
<1>3. CASE V!Source
  <2>0. /\ V!Has("source", {"ok"}) <=> data.source = "ok"
        /\ V!Empty <=> data.source \in {"absent", "null", "blank"}
        /\ V!Has("sourceType", {"unknown", "mistyped"}) <=> data.sourceType = "unknown"
        /\ V!Has("source", {"mistyped"}) <=> data.source = "mistyped"
        /\ V!Has("sourceType", {"unhashable"}) <=> data.sourceType = "unhashable"
    BY <1>0, <1>a DEF V!Has, V!Empty
  <2>1. PICK found : found = (IF data.source = "ok" THEN {} ELSE V!Fails({"source"}))
                               \cup (IF ~V!Empty /\ data.sourceType = "unknown" THEN V!Warns({"sourceType"}) ELSE {})
    OBVIOUS
  <2>2. PICK raised \in BOOLEAN : raised <=> data.source = "mistyped" \/ (~V!Empty /\ data.sourceType = "unhashable")
    OBVIOUS
  <2>3. V!Validator("source", "kind", found, raised)
    BY <1>3, <2>0, <2>1, <2>2 DEF V!Source, V!Validator
  <2>4. found \subseteq V!Fields \X {"fail", "warning"} /\ \A f \in V!Fields : <<f, "fail">> \in found => V!Refused(f)
    BY <1>0, <1>b, <1>c, <1>d, <2>1, RefusedIs
  <2>5. raised => \E f \in V!Fields : V!Has(f, {"mistyped", "unhashable"}) /\ (f \in {"time", "sourceType"} \/ Failed(f))
    <3>1. CASE data.source = "mistyped"
      <4>1. next = "source"
        BY <2>3 DEF V!Validator
      <4>2. Failed("source")
        BY <1>0, <1>b, <3>1, <4>1, SchemaIs DEF BySchema
      <4> QED
        BY <1>a, <1>b, <3>1, <4>2 DEF V!Has
    <3>2. CASE data.sourceType = "unhashable"
      BY <1>a, <1>b, <3>2 DEF V!Has
    <3> QED
      BY <2>2, <3>1, <3>2
  <2>6. ~raised => BySource'
    <3> SUFFICES ASSUME ~raised PROVE BySource'
      OBVIOUS
    <3>1. issues' = issues \cup found /\ UNCHANGED <<data, created>>
      BY <2>3 DEF V!Validator
    <3>2. V!Empty' <=> V!Empty
      BY <3>1 DEF V!Empty, V!Has
    <3>3. /\ data.source # "ok" => <<"source", "fail">> \in found
          /\ ~V!Empty /\ data.sourceType = "unknown" => <<"sourceType", "warning">> \in found
      BY <1>b, <1>d, <2>1
    <3> QED
      BY <2>2, <3>1, <3>2, <3>3 DEF BySource, Failed, Warned
  <2>a. Fits("source", "kind", found, raised)
    BY <1>b, <2>4, <2>5 DEF Fits
  <2>b. ~raised => LeftBy("source")'
    BY <2>6 DEF LeftBy
  <2> QED
    BY <2>a, <2>b, <2>3, ValidatorStep
<1>4. CASE V!Kind
  <2>0. /\ V!Has("kind", {"ok"}) <=> data.kind = "ok"
        /\ V!Has("kind", {"absent", "null"}) <=> data.kind \in {"absent", "null"}
        /\ V!Has("kind", {"unhashable"}) <=> data.kind = "unhashable"
    BY <1>0, <1>a DEF V!Has
  <2>1. PICK found : found = (IF data.kind \in {"absent", "null"} THEN V!Fails({"kind"})
                              ELSE IF data.kind = "ok" THEN {} ELSE V!Warns({"kind"}))
    OBVIOUS
  <2>2. PICK raised \in BOOLEAN : raised <=> data.kind = "unhashable"
    OBVIOUS
  <2>3. V!Validator("kind", "evidence", found, raised)
    BY <1>4, <2>0, <2>1, <2>2 DEF V!Kind, V!Validator
  <2>4. found \subseteq V!Fields \X {"fail", "warning"} /\ \A f \in V!Fields : <<f, "fail">> \in found => V!Refused(f)
    BY <1>0, <1>b, <1>c, <1>d, <2>1, RefusedIs
  <2>5. raised => V!Has("kind", {"mistyped", "unhashable"}) /\ Failed("kind")
    <3>1. next = "kind"
      BY <2>3 DEF V!Validator
    <3> QED
      BY <1>0, <1>a, <1>b, <2>2, <3>1, SchemaIs DEF BySchema, V!Has
  <2>6. ~raised => ByKind'
    <3> SUFFICES ASSUME ~raised PROVE ByKind'
      OBVIOUS
    <3>1. issues' = issues \cup found /\ UNCHANGED data
      BY <2>3 DEF V!Validator
    <3>2. /\ data.kind \in {"absent", "null"} => <<"kind", "fail">> \in found
          /\ data.kind \notin {"ok", "absent", "null"} => <<"kind", "warning">> \in found
      BY <1>b, <1>d, <2>1
    <3> QED
      BY <3>1, <3>2 DEF ByKind, Failed, Warned
  <2>a. Fits("kind", "evidence", found, raised)
    BY <1>b, <2>4, <2>5 DEF Fits
  <2>b. ~raised => LeftBy("kind")'
    BY <2>6 DEF LeftBy
  <2> QED
    BY <2>a, <2>b, <2>3, ValidatorStep
<1>5. CASE V!Evidence
  <2>0. V!Has("evidence", {"absent", "null", "empty"}) <=> data.evidence \in {"absent", "null", "empty"}
    BY <1>a DEF V!Has
  <2>1. PICK found : found = (IF data.evidence \in {"absent", "null", "empty"} THEN V!Warns({"evidence"}) ELSE {})
    OBVIOUS
  <2>2. V!Validator("evidence", "rules", found, FALSE)
    BY <1>5, <2>0, <2>1 DEF V!Evidence, V!Validator
  <2>3. found \subseteq V!Fields \X {"fail", "warning"} /\ \A f \in V!Fields : <<f, "fail">> \in found => V!Refused(f)
    BY <1>b, <1>c, <1>d, <2>1
  <2>4. ByEvidence'
    <3>1. issues' = issues \cup found /\ UNCHANGED data
      BY <2>2 DEF V!Validator
    <3>2. data.evidence \in {"absent", "null", "empty"} => <<"evidence", "warning">> \in found
      BY <1>b, <1>d, <2>1
    <3> QED
      BY <3>1, <3>2 DEF ByEvidence, Warned
  <2>a. Fits("evidence", "rules", found, FALSE)
    BY <1>b, <2>3 DEF Fits
  <2>b. ~FALSE => LeftBy("evidence")'
    BY <2>4 DEF LeftBy
  <2> QED
    BY <2>a, <2>b, <2>2, ValidatorStep
<1>6. CASE V!Rules
  <2>0. /\ V!Has("id", {"absent", "null", "blank"}) <=> data.id \in {"absent", "blank"}
        /\ V!Has("confidence", {"outside"}) <=> data.confidence = "outside"
        /\ V!Has("confidence", {"mistyped"}) <=> data.confidence = "mistyped"
    BY <1>0, <1>a DEF V!Has
  <2>1. PICK found : found = (IF data.id \in {"absent", "blank"} THEN V!Warns({"id"}) ELSE {})
                               \cup (IF data.confidence = "outside" THEN V!Fails({"confidence"}) ELSE {})
    OBVIOUS
  <2>2. PICK raised \in BOOLEAN : raised <=> data.confidence = "mistyped"
    OBVIOUS
  <2>3. V!Validator("rules", "duplicate", found, raised)
    BY <1>6, <2>0, <2>1, <2>2 DEF V!Rules, V!Validator
  <2>4. found \subseteq V!Fields \X {"fail", "warning"} /\ \A f \in V!Fields : <<f, "fail">> \in found => V!Refused(f)
    BY <1>0, <1>b, <1>c, <1>d, <2>1, RefusedIs
  <2>5. raised => V!Has("confidence", {"mistyped", "unhashable"}) /\ Failed("confidence")
    <3>1. next = "rules"
      BY <2>3 DEF V!Validator
    <3> QED
      BY <1>0, <1>a, <1>b, <2>2, <3>1, SchemaIs DEF BySchema, V!Has
  <2>6. ~raised => ByRules'
    <3> SUFFICES ASSUME ~raised PROVE ByRules'
      OBVIOUS
    <3>1. issues' = issues \cup found /\ UNCHANGED data
      BY <2>3 DEF V!Validator
    <3>2. data.id \in {"absent", "blank"} => <<"id", "warning">> \in found
      BY <1>b, <1>d, <2>1
    <3> QED
      BY <3>1, <3>2 DEF ByRules, Warned
  <2>a. Fits("rules", "duplicate", found, raised)
    BY <1>b, <2>4, <2>5 DEF Fits
  <2>b. ~raised => LeftBy("rules")'
    BY <2>6 DEF LeftBy
  <2> QED
    BY <2>a, <2>b, <2>3, ValidatorStep
<1>7. CASE V!Duplicate
  <2>0. V!Has("id", {"absent", "null", "blank"}) <=> data.id \in {"absent", "blank"}
    BY <1>0, <1>a DEF V!Has
  <2>1. PICK found : found = (IF data.id \notin {"absent", "blank"} /\ duplicate THEN V!Fails({"id"}) ELSE {})
    OBVIOUS
  <2>2. V!Validator("duplicate", "verdict", found, FALSE)
    BY <1>7, <2>0, <2>1 DEF V!Duplicate, V!Validator
  <2>3. found \subseteq V!Fields \X {"fail", "warning"} /\ \A f \in V!Fields : <<f, "fail">> \in found => V!Refused(f)
    BY <1>0, <1>b, <1>c, <1>d, <2>1, RefusedIs
  <2>4. ByDuplicate'
    <3>1. issues' = issues \cup found /\ UNCHANGED <<data, duplicate>>
      BY <2>2 DEF V!Validator
    <3>2. data.id \notin {"absent", "blank"} /\ duplicate => <<"id", "fail">> \in found
      BY <1>b, <1>d, <2>1
    <3> QED
      BY <3>1, <3>2 DEF ByDuplicate, Failed
  <2>a. Fits("duplicate", "verdict", found, FALSE)
    BY <1>b, <2>3 DEF Fits
  <2>b. ~FALSE => LeftBy("duplicate")'
    BY <2>4 DEF LeftBy
  <2> QED
    BY <2>a, <2>b, <2>2, ValidatorStep
<1>8. CASE V!Decide
  <2>1. /\ next = "verdict" /\ next' = "end" /\ UNCHANGED <<data, created, duplicate, issues>>
        /\ verdict' = IF \E i \in issues : i[2] = "fail" THEN "fail" ELSE IF issues # {} THEN "warning" ELSE "pass"
    BY <1>8 DEF V!Decide
  <2>2. verdict = "none" /\ Order["end"] = 9 /\ \A n \in 2 .. 7 : Past(n)
    BY <1>0, <1>b, <2>1 DEF Known, Past, Order
  <2>3. ByTime /\ BySource /\ ByKind /\ ByEvidence /\ ByRules /\ ByDuplicate /\ BySchema
    BY <2>1, <2>2 DEF ValidationInv
  <2>4. V!Stamp' = V!Stamp /\ (V!Empty' <=> V!Empty) /\ V!SchemaIssues' = V!SchemaIssues
    BY <2>1 DEF V!Stamp, V!Empty, V!Has, V!SchemaIssues, V!Fails, V!Missing, V!BadType
  <2>5. ByTime' /\ BySource' /\ ByKind' /\ ByEvidence' /\ ByRules' /\ ByDuplicate' /\ BySchema'
    BY <2>1, <2>3, <2>4 DEF ByTime, BySource, ByKind, ByEvidence, ByRules, ByDuplicate, BySchema, Failed, Warned
  <2>6. \A f \in V!Fields : Failed(f)' => V!Refused(f)'
    BY <2>1, <2>4 DEF ValidationInv, Failed, V!Refused, V!Has
  <2>7. verdict' \in {"pass", "warning", "fail"}
    BY <2>1
  <2>8. Known' /\ Decided' /\ V!RaisesOnMistyped'
    BY <1>0, <1>b, <2>1, <2>7 DEF Known, Decided, V!RaisesOnMistyped
  <2> QED
    BY <2>5, <2>6, <2>8 DEF ValidationInv
<1>9. CASE UNCHANGED V!vars
  <2>1. UNCHANGED <<data, created, duplicate, next, issues, verdict>>
    BY <1>9 DEF V!vars
  <2>2. V!Stamp' = V!Stamp /\ (V!Empty' <=> V!Empty) /\ V!SchemaIssues' = V!SchemaIssues
    BY <2>1 DEF V!Stamp, V!Empty, V!Has, V!SchemaIssues, V!Fails, V!Missing, V!BadType
  <2>3. (Known => Known') /\ (Decided => Decided') /\ (V!RaisesOnMistyped => V!RaisesOnMistyped')
    BY <2>1 DEF Known, Decided, V!RaisesOnMistyped, V!Has
  <2>4. \A f \in V!Fields : (Failed(f)' <=> Failed(f)) /\ (V!Refused(f)' <=> V!Refused(f))
    BY <2>1, <2>2 DEF Failed, V!Refused, V!Has
  <2>5. /\ (BySchema => BySchema') /\ (ByTime => ByTime') /\ (BySource => BySource') /\ (ByKind => ByKind')
        /\ (ByEvidence => ByEvidence') /\ (ByRules => ByRules') /\ (ByDuplicate => ByDuplicate')
    BY <2>1, <2>2 DEF ByTime, BySource, ByKind, ByEvidence, ByRules, ByDuplicate, BySchema, Failed, Warned
  <2>6. \A n \in 2 .. 7 : Past(n)' <=> Past(n)
    BY <2>1 DEF Past
  <2> QED
    BY <2>1, <2>3, <2>4, <2>5, <2>6 DEF ValidationInv
<1> QED
  BY <1>1, <1>2, <1>3, <1>4, <1>5, <1>6, <1>7, <1>8, <1>9 DEF V!Next

LEMMA ValidationInit == V!FieldsOK /\ V!Init => ValidationInv
<1> SUFFICES ASSUME V!FieldsOK, V!Init PROVE ValidationInv
  OBVIOUS
<1>1. next = "schema" /\ verdict = "none" /\ issues = {} /\ "schema" \in DOMAIN Order /\ Order["schema"] = 1
  BY DEF V!Init, Order
<1>2. \A n \in 2 .. 7 : ~Past(n)
  BY <1>1 DEF Past
<1>3. Known /\ Decided /\ V!RaisesOnMistyped
  BY <1>1 DEF V!Init, Known, Decided, V!RaisesOnMistyped
<1> QED
  BY <1>1, <1>2, <1>3 DEF ValidationInv, Failed

LEMMA ValidationHolds ==
  V!FieldsOK /\ ValidationInv => V!BlameIsExact /\ V!RaisesOnMistyped /\ V!PassIsClean /\ V!TypeOK
<1> SUFFICES ASSUME V!FieldsOK, ValidationInv PROVE V!BlameIsExact /\ V!RaisesOnMistyped /\ V!PassIsClean /\ V!TypeOK
  OBVIOUS
<1>0. /\ Known /\ Decided /\ V!RaisesOnMistyped /\ \A f \in V!Fields : Failed(f) => V!Refused(f)
  BY DEF ValidationInv
<1>1. V!TypeOK
  BY <1>0 DEF Known, V!TypeOK
<1>2. ASSUME verdict \in {"pass", "warning", "fail"}
      PROVE  BySchema /\ ByTime /\ BySource /\ ByKind /\ ByEvidence /\ ByRules /\ ByDuplicate
  <2>1. next = "end" /\ Order["end"] = 9
    BY <1>0, <1>2 DEF Known, Order
  <2>2. \A n \in 2 .. 7 : Past(n)
    BY <1>2, <2>1 DEF Past
  <2> QED
    BY <2>1, <2>2 DEF ValidationInv
<1>3. /\ V!Fields = {"source", "kind", "evidence", "confidence", "tags", "id", "sourceType", "time"} /\ data \in Tried
      /\ data.source \in {"ok", "absent", "null", "blank", "odd", "mistyped"}
      /\ data.kind \in {"ok", "absent", "null", "blank", "unknown", "mistyped", "unhashable"}
      /\ data.evidence \in {"ok", "absent", "null", "empty", "mistyped"}
      /\ data.id \in {"ok", "absent", "blank", "odd"}
      /\ data.sourceType \in {"ok", "absent", "unknown", "unhashable"}
      /\ data.time \in {"ok", "absent", "odd", "old", "future", "mistyped"}
      /\ created \in {"none", "ok", "old", "future"}
  BY <1>0 DEF Known, V!Fields, V!FieldsOK
<1>4. ASSUME verdict \in {"pass", "warning", "fail"}, NEW f \in V!Fields PROVE Failed(f) <=> V!Refused(f)
  <2>1. BySchema /\ ByTime /\ BySource /\ ByDuplicate
    BY <1>2, <1>4
  <2>2. CASE f \in {"source", "kind", "evidence", "confidence", "tags", "sourceType"}
    <3>1. V!Refused(f) => <<f, "fail">> \in V!SchemaIssues \/ (f = "source" /\ data.source # "ok")
      BY <1>3, <2>2, SchemaIs, RefusedIs
    <3> QED
      BY <1>0, <2>1, <3>1 DEF BySchema, BySource
  <2>3. CASE f = "id"
    <3>1. V!Refused("id") => <<"id", "fail">> \in V!SchemaIssues \/ (data.id = "ok" /\ duplicate)
      BY <1>3, SchemaIs, RefusedIs
    <3> QED
      BY <1>0, <1>3, <2>1, <2>3, <3>1 DEF BySchema, ByDuplicate
  <2>4. CASE f = "time"
    BY <1>0, <1>3, <2>1, <2>4, RefusedIs DEF ByTime
  <2> QED
    BY <1>3, <2>2, <2>3, <2>4
<1>5. ASSUME verdict \in {"pass", "warning", "fail"} PROVE verdict = "fail" <=> \E f \in V!Fields : Failed(f)
  <2>1. \A i \in issues : i[2] = "fail" => i[1] \in V!Fields /\ i = <<i[1], "fail">>
    BY <1>0 DEF Known
  <2>2. (\E i \in issues : i[2] = "fail") <=> \E f \in V!Fields : Failed(f)
    BY <2>1 DEF Failed
  <2> QED
    BY <1>0, <1>5, <2>2 DEF Decided
<1>6. V!BlameIsExact
  BY <1>4, <1>5 DEF V!BlameIsExact, Failed
<1>7. V!PassIsClean
  <2> SUFFICES ASSUME verdict = "pass"
               PROVE  /\ \A f \in V!Fields \ {"time", "tags", "confidence", "sourceType"} : V!Has(f, {"ok"})
                      /\ V!Stamp = "ok" /\ ~V!Has("sourceType", {"unknown", "mistyped", "unhashable"})
    BY DEF V!PassIsClean
  <2>1. issues = {} /\ \A f : ~Failed(f) /\ ~Warned(f)
    BY <1>0 DEF Decided, Failed, Warned
  <2>2. ByTime /\ BySource /\ ByKind /\ ByEvidence /\ ByRules /\ ByDuplicate
    BY <1>2
  <2>3. \A f \in V!Fields : ~V!Refused(f)
    BY <1>4, <2>1
  <2>4. data.source = "ok" /\ data.kind = "ok" /\ data.id = "ok"
    BY <1>3, <2>1, <2>2, <2>3, RefusedIs DEF BySource, ByKind, ByRules
  <2>5. data.evidence = "ok"
    BY <1>3, <2>1, <2>2, <2>3, RefusedIs DEF ByEvidence
  <2>6. /\ data["source"] = data.source /\ data["kind"] = data.kind /\ data["evidence"] = data.evidence
        /\ data["id"] = data.id /\ data["sourceType"] = data.sourceType
    OBVIOUS
  <2>7. V!Stamp = "ok"
    <3>1. V!Stamp \in {"ok", "odd", "old", "future", "mistyped", "none"}
      BY <1>3 DEF V!Stamp, V!Has
    <3> QED
      BY <2>1, <2>2, <3>1 DEF ByTime
  <2>8. data.sourceType \notin {"unknown", "mistyped", "unhashable"}
    BY <1>3, <2>1, <2>2, <2>4 DEF BySource, V!Empty, V!Has
  <2> QED
    BY <1>3, <2>4, <2>5, <2>6, <2>7, <2>8 DEF V!Has
<1> QED
  BY <1>0, <1>1, <1>6, <1>7

(***************************************************************************)
(* The timeline (Timeline): the list of an entity has its events at the    *)
(* places a scan of the timeline gives them.                               *)
(***************************************************************************)

\* The timeline: the list of an entity has its events at the places of a scan.
TimelineInv ==
  /\ T!TypeOK /\ T!EntityListsAgree
  /\ DOMAIN perEntity = {1, 2} /\ \A e \in {1, 2} : perEntity[e] \in Seq(T!TimelineEvents)

LEMMA CountOfPlaces ==
  ASSUME NEW tl \in Seq(T!TimelineEvents), NEW e, NEW A \in SUBSET T!Places(tl, e)
  PROVE  H!IsFiniteSet(A) /\ T!Cardinality(A) \in Nat /\ T!Cardinality(A) = H!Cardinality(A)
<1>0. /\ Len(tl) \in Nat /\ DOMAIN tl = 1 .. Len(tl)
  OBVIOUS
<1>1. H!IsFiniteSet(1 .. Len(tl)) /\ A \in SUBSET (1 .. Len(tl))
  BY <1>0, H!FS_Interval DEF T!Places
<1>2. H!IsFiniteSet(A)
  BY <1>1, H!FS_Subset
<1>3. H!Cardinality(A) \in Nat
  BY <1>2, H!FS_CardinalityType
<1> QED
  BY <1>2, <1>3 DEF T!Cardinality, H!Cardinality, T!IsFiniteSet, H!IsFiniteSet

\* An event of an entity takes the place after those of the entity so far.
LEMMA ScanGrows ==
  ASSUME NEW tl \in Seq(T!TimelineEvents), NEW e, NEW list \in Seq(T!TimelineEvents), T!Scanned(list, tl, e),
         NEW ev \in T!TimelineEvents, NEW longer, longer = IF ev.entity = e THEN Append(list, ev) ELSE list
  PROVE  T!Scanned(longer, Append(tl, ev), e)
<1> DEFINE n == Len(tl)
           all == Append(tl, ev)
           old == T!Places(tl, e)
           new == T!Places(all, e)
           upto(s, k) == {j \in s : j <= k}
<1>0. /\ n \in Nat /\ DOMAIN tl = 1 .. n /\ DOMAIN all = 1 .. n + 1 /\ all[n + 1] = ev
      /\ \A k \in 1 .. n : all[k] = tl[k]
  OBVIOUS
<1>1. old \subseteq 1 .. n /\ n + 1 \notin old
  BY <1>0 DEF T!Places
<1>2. new = IF ev.entity = e THEN old \cup {n + 1} ELSE old
  BY <1>0 DEF T!Places
<1>3. /\ \A k \in old : upto(new, k) = upto(old, k)
      /\ ev.entity = e => upto(new, n + 1) = new
  BY <1>0, <1>1, <1>2
<1>4. /\ Len(list) \in Nat /\ Len(list) = T!Cardinality(old)
      /\ \A k \in old : list[T!Cardinality(upto(old, k))] = tl[k]
  <2>1. Len(list) \in Nat
    OBVIOUS
  <2> QED
    BY ONLY <2>1, T!Scanned(list, tl, e) DEF T!Scanned
<1>5. ev.entity = e => T!Cardinality(new) = T!Cardinality(old) + 1
  <2>1. H!IsFiniteSet(old) /\ T!Cardinality(old) = H!Cardinality(old)
    BY CountOfPlaces
  <2>2. all \in Seq(T!TimelineEvents)
    OBVIOUS
  <2>3. T!Cardinality(new) = H!Cardinality(new)
    BY <2>2, CountOfPlaces
  <2>4. H!Cardinality(old \cup {n + 1}) = H!Cardinality(old) + 1
    BY <1>1, <2>1, H!FS_AddElement
  <2> QED
    BY <1>2, <2>1, <2>3, <2>4
<1>6. ASSUME NEW k \in old PROVE T!Cardinality(upto(old, k)) \in 1 .. Len(list)
  <2> DEFINE A == upto(old, k)
  <2>1. A \in SUBSET old /\ k \in A
    BY <1>0, <1>1
  <2>2. H!IsFiniteSet(A) /\ T!Cardinality(A) \in Nat /\ T!Cardinality(A) = H!Cardinality(A)
    BY <2>1, CountOfPlaces
  <2>3. H!IsFiniteSet(old) /\ T!Cardinality(old) \in Nat /\ T!Cardinality(old) = H!Cardinality(old)
    BY CountOfPlaces
  <2>4. H!Cardinality(A) <= H!Cardinality(old)
    BY <2>1, <2>3, H!FS_Subset
  <2>5. H!Cardinality(A) # 0
    BY <2>1, <2>2, H!FS_EmptySet
  <2> HIDE DEF A
  <2>6. T!Cardinality(A) \in 1 .. Len(list)
    BY <1>4, <2>2, <2>3, <2>4, <2>5
  <2> QED
    BY <2>6 DEF A
<1>7. CASE ev.entity # e
  <2>1. new = old /\ longer = list
    BY <1>2, <1>7
  <2>2. \A k \in old : all[k] = tl[k]
    BY <1>0, <1>1
  <2> QED
    BY <1>4, <2>1, <2>2 DEF T!Scanned
<1>8. CASE ev.entity = e
  <2>1. /\ longer = Append(list, ev) /\ Len(longer) = Len(list) + 1 /\ longer[Len(list) + 1] = ev
        /\ \A i \in 1 .. Len(list) : longer[i] = list[i]
    BY <1>4, <1>8
  <2>2. Len(longer) = T!Cardinality(new)
    BY <1>4, <1>5, <1>8, <2>1
  <2>3. ASSUME NEW k \in new PROVE longer[T!Cardinality(upto(new, k))] = all[k]
    <3>1. CASE k = n + 1
      BY <1>0, <1>3, <1>8, <2>1, <2>2, <3>1
    <3>2. CASE k \in old
      <4>1. upto(new, k) = upto(old, k) /\ all[k] = tl[k]
        BY <1>0, <1>1, <1>3, <3>2
      <4>2. longer[T!Cardinality(upto(old, k))] = list[T!Cardinality(upto(old, k))]
        BY <1>6, <2>1, <3>2
      <4> QED
        BY <1>4, <3>2, <4>1, <4>2
    <3> QED
      BY <1>2, <1>8, <3>1, <3>2
  <2> QED
    BY <2>2, <2>3 DEF T!Scanned
<1> QED
  BY <1>7, <1>8

LEMMA NothingScanned ==
  ASSUME NEW e
  PROVE  T!Scanned(<<>>, <<>>, e)
<1>1. T!Places(<<>>, e) = {}
  BY DEF T!Places
<1>2. T!Cardinality({}) = 0
  BY H!FS_EmptySet DEF T!Cardinality, H!Cardinality, T!IsFiniteSet, H!IsFiniteSet
<1> QED
  BY <1>1, <1>2 DEF T!Scanned

LEMMA TimelineStep ==
  ASSUME TimelineInv, [T!Next]_T!vars
  PROVE  TimelineInv'
<1>0. /\ timeline \in Seq(T!TimelineEvents) /\ answer.query \in {"none", "range", "entity", "page"}
      /\ DOMAIN perEntity = {1, 2}
      /\ \A e \in {1, 2} : perEntity[e] \in Seq(T!TimelineEvents) /\ T!Scanned(perEntity[e], timeline, e)
  BY DEF TimelineInv, T!TypeOK, T!EntityListsAgree
<1>1. ASSUME NEW ev \in T!TimelineEvents, T!AppendEvent(ev) PROVE TimelineInv'
  <2>1. /\ timeline' = Append(timeline, ev) /\ timeline' \in Seq(T!TimelineEvents)
        /\ answer'.query = "none" /\ ev.entity \in {0, 1, 2}
    BY <1>0, <1>1 DEF T!AppendEvent, T!NoAnswer, T!TimelineEvents
  <2>2. DOMAIN perEntity' = {1, 2}
    BY <1>0, <1>1 DEF T!AppendEvent
  <2>3. ASSUME NEW e \in {1, 2}
        PROVE  perEntity'[e] \in Seq(T!TimelineEvents) /\ T!Scanned(perEntity'[e], timeline', e)
    <3>1. perEntity'[e] = IF ev.entity = e THEN Append(perEntity[e], ev) ELSE perEntity[e]
      BY <1>0, <1>1, <2>1 DEF T!AppendEvent
    <3>2. perEntity'[e] \in Seq(T!TimelineEvents)
      BY <1>0, <3>1
    <3>3. T!Scanned(perEntity'[e], Append(timeline, ev), e)
      BY <1>0, <3>1, ScanGrows
    <3> QED
      BY <2>1, <3>2, <3>3
  <2> QED
    BY <2>1, <2>2, <2>3 DEF TimelineInv, T!TypeOK, T!EntityListsAgree
<1>2. ASSUME answer'.query \in {"range", "entity", "page"}, UNCHANGED <<timeline, perEntity>> PROVE TimelineInv'
  BY <1>0, <1>2 DEF TimelineInv, T!TypeOK, T!EntityListsAgree
<1>3. CASE T!Clear
  <2>1. timeline' = <<>> /\ timeline' \in Seq(T!TimelineEvents) /\ answer'.query = "none"
    BY <1>3 DEF T!Clear, T!NoAnswer
  <2>2. DOMAIN perEntity' = {1, 2} /\ \A e \in {1, 2} : perEntity'[e] = <<>>
    BY <1>3 DEF T!Clear
  <2>3. <<>> \in Seq(T!TimelineEvents)
    OBVIOUS
  <2> QED
    BY <2>1, <2>2, <2>3, NothingScanned DEF TimelineInv, T!TypeOK, T!EntityListsAgree
<1>4. CASE UNCHANGED T!vars
  BY <1>0, <1>4 DEF TimelineInv, T!TypeOK, T!EntityListsAgree, T!vars
<1>5. ASSUME NEW e \in {1, 2}, NEW n \in 0 .. 1, T!QueryEntity(e, n) PROVE TimelineInv'
  BY <1>2, <1>5 DEF T!QueryEntity, T!Reply
<1>6. ASSUME NEW o \in 0 .. 1, NEW n \in 1 .. 2, T!QueryPage(o, n) PROVE TimelineInv'
  BY <1>2, <1>6 DEF T!QueryPage, T!Reply
<1>7. ASSUME NEW from, NEW to, NEW e, NEW k, T!QueryRange(from, to, e, k) PROVE TimelineInv'
  <2>1. answer'.query = "range" /\ UNCHANGED <<timeline, perEntity>>
    BY <1>7 DEF T!QueryRange, T!Reply
  <2> QED
    BY <1>2, <2>1
<1> QED
  BY <1>1, <1>3, <1>4, <1>5, <1>6, <1>7 DEF T!Next

LEMMA TimelineInit == T!Init => TimelineInv
<1> SUFFICES ASSUME T!Init PROVE TimelineInv
  OBVIOUS
<1>1. /\ timeline = <<>> /\ answer.query = "none" /\ DOMAIN perEntity = {1, 2}
      /\ \A e \in {1, 2} : perEntity[e] = <<>>
  BY DEF T!Init, T!NoAnswer
<1>2. <<>> \in Seq(T!TimelineEvents)
  OBVIOUS
<1> QED
  BY <1>1, <1>2, NothingScanned DEF TimelineInv, T!TypeOK, T!EntityListsAgree

LEMMA TimelineHolds == TimelineInv => T!EntityListsAgree /\ T!TypeOK
BY DEF TimelineInv

(***************************************************************************)
(* The types of the other components, beside what the invariants above say. *)
(***************************************************************************)

\* A manager that is kept was configured, and so was that of a session.
ManagersTyped ==
  /\ D!TypeOK /\ configured \in Nat
  /\ database \in [kept : Int, ready : BOOLEAN] /\ held \in [kept : Int, ready : BOOLEAN]

LEMMA ManagersTypes ==
  ASSUME ManagersTyped, [D!Next]_D!dbVars
  PROVE  ManagersTyped'
<1> USE DEF ManagersTyped, D!TypeOK
<1>1. CASE D!Configure
  BY <1>1 DEF D!Configure, D!Configured
<1>2. ASSUME NEW b \in BOOLEAN, D!Initialize(b) PROVE ManagersTyped'
  BY <1>2 DEF D!Initialize, D!Configured
<1>3. CASE D!GetDatabase
  BY <1>3 DEF D!GetDatabase
<1>4. CASE D!UseDatabase
  BY <1>4 DEF D!UseDatabase
<1>5. CASE D!Shutdown
  BY <1>5 DEF D!Shutdown, D!NoDatabase
<1>6. ASSUME NEW m \in D!Askable, D!OpenSession(m) PROVE ManagersTyped'
  <2>1. m \in 1 .. configured /\ UNCHANGED <<configured, open, current, database, held>>
    BY <1>6 DEF D!OpenSession
  <2>2. \A s \in sessions' : s \in sessions \/ s.of = m
    BY <1>6 DEF D!OpenSession
  <2> QED
    BY <2>1, <2>2
<1>7. ASSUME NEW s \in sessions, D!CloseSession(s) PROVE ManagersTyped'
  BY <1>7 DEF D!CloseSession
<1>8. CASE UNCHANGED D!dbVars
  BY <1>8 DEF D!dbVars
<1> QED
  BY <1>1, <1>2, <1>3, <1>4, <1>5, <1>6, <1>7, <1>8 DEF D!Next

LEMMA ManagersTypesInit == D!Init => ManagersTyped
BY DEF D!Init, D!NoDatabase, D!TypeOK, ManagersTyped

\* The tables are those of the models, and what the revisions make.
TablesTyped ==
  /\ models \subseteq {"events", "observations"}
  /\ schema \subseteq {"events", "observations", "occurred_at", "index", "outbox", "ledger"}

LEMMA TablesTypes ==
  ASSUME TablesTyped, [M!Next]_M!migrationVars
  PROVE  TablesTyped'
<1>1. \A r : M!Objects(r) \subseteq {"events", "observations", "occurred_at", "index", "outbox", "ledger"}
  BY DEF M!Objects, TablesTyped
<1>2. ASSUME NEW u \in Upgraders, M!Migrate(u) PROVE TablesTyped'
  BY <1>1, <1>2 DEF M!Migrate, TablesTyped
<1>3. ASSUME NEW u \in Upgraders, M!Alter(u) PROVE TablesTyped'
  BY <1>3 DEF M!Alter, TablesTyped
<1>4. CASE UNCHANGED <<schema, models>>
  BY <1>4 DEF TablesTyped
<1> QED
  BY <1>2, <1>3, <1>4 DEF M!Next, M!Begin, M!End, M!Look, M!ReadColumns, M!Record, M!Locked, M!Crash, M!migrationVars

LEMMA TablesTypesInit == M!Init => TablesTyped
BY DEF M!Init, TablesTyped

LEMMA SchemaTypes == M!UpgradesOK /\ M!AppliersOK /\ M!TriesOK /\ TablesTyped => M!TypeOK
<1> SUFFICES ASSUME M!UpgradesOK, M!AppliersOK, M!TriesOK, TablesTyped PROVE M!TypeOK
  OBVIOUS
<1>1. upgrader \in [Upgraders -> [at : M!Steps, revision : 0 .. 6, tries : 0 .. MaxRetries]]
  BY DEF M!UpgradesOK, M!PlaceOK, M!TriesOK
<1> QED
  BY <1>1 DEF M!TypeOK, M!UpgradesOK, M!AppliersOK, TablesTyped

\* Bytes are sent from a place in the file on.
SentTyped == request.first \in Nat /\ sent.at \subseteq 0 .. MaxFileSize

LEMMA ParsedFirst ==
  ASSUME NEW n \in Nat, range \in R!Headers, NEW p, p = R!Parsed(range, n), p.status \in {200, 206}
  PROVE  p.first \in Nat
<1> DEFINE first == IF range.a = R!Absent THEN (IF range.b < n THEN n - range.b ELSE 0) ELSE range.a
           last == IF range.a = R!Absent \/ range.b = R!Absent THEN n - 1 ELSE range.b
<1>0. MaxFileSize \in Nat
  BY ShownConstantsOK DEF R!SizesOK
<1>1. p = IF n = 0 THEN [status |-> 500]
          ELSE IF range.kind = "blank" THEN [status |-> 206, first |-> 0, last |-> n - 1]
          ELSE IF range.kind = "malformed" THEN [status |-> 400]
          ELSE IF range.kind = "range" /\ first >= n THEN [status |-> 416]
          ELSE IF range.kind = "range" /\ first < n /\ first > last THEN [status |-> 400]
          ELSE [status |-> 206, first |-> first, last |-> R!Min({last, n - 1})]
  BY DEF R!Parsed
<1>2. /\ range.a \in Nat \/ range.a = -1
      /\ range.b \in Nat \/ range.b = -1
      /\ range.kind = "range" => range.a # -1 \/ range.b # -1
      /\ range.kind \in {"absent", "blank", "malformed", "range"}
  BY <1>0 DEF R!Headers, R!Number, R!Absent
<1> QED
  BY <1>1, <1>2 DEF R!Absent

LEMMA SentTypes ==
  ASSUME RecordingInv, SentTyped, [R!Next]_R!vars
  PROVE  SentTyped'
<1>0. request \in Asked /\ file \in R!Files /\ range \in R!Headers
  BY DEF RecordingInv, RequestTyped
<1>1. ASSUME NEW s, R!Fail(s), UNCHANGED sent PROVE SentTyped'
  BY <1>0, <1>1 DEF R!Fail, Asked, SentTyped
<1>2. ASSUME NEW s, R!Go(s), UNCHANGED sent PROVE SentTyped'
  BY <1>0, <1>2 DEF R!Go, Asked, SentTyped
<1>3. CASE R!Answer
  <2> DEFINE p == IF range.kind = "absent" THEN [status |-> 200, first |-> 0, last |-> request.size - 1]
                  ELSE R!Parsed(range, request.size)
  <2>1. p.status \in {200, 206} => p.first \in Nat
    <3>1. CASE range.kind = "absent"
      BY <3>1
    <3>2. CASE range.kind # "absent"
      <4>1. p = R!Parsed(range, request.size) /\ request.size \in Nat
        BY <1>0, <3>2 DEF Asked
      <4> HIDE DEF p
      <4> QED
        BY <1>0, <4>1, ParsedFirst
    <3> QED
      BY <3>1, <3>2
  <2>2. /\ UNCHANGED sent
        /\ \/ p.status \in {200, 206} /\ request' = [request EXCEPT !.pc = "send", !.status = p.status, !.first = p.first, !.last = p.last]
           \/ R!Fail(p.status)
    BY <1>3 DEF R!Answer
  <2> HIDE DEF p
  <2>3. CASE p.status \in {200, 206} /\ request' = [request EXCEPT !.pc = "send", !.status = p.status, !.first = p.first, !.last = p.last]
    BY <1>0, <2>1, <2>2, <2>3 DEF Asked, SentTyped
  <2> QED
    BY <1>1, <2>2, <2>3
<1>4. CASE R!SendBytes
  <2> DEFINE a == request.last  b == file.size - 1
  <2>1. a \in Int /\ b \in Int /\ b < MaxFileSize
    <3>1. MaxFileSize \in Nat
      BY ShownConstantsOK DEF R!SizesOK
    <3>2. file.size \in 0 .. MaxFileSize
      BY <1>0, <3>1 DEF R!Files, R!NoFile
    <3> QED
      BY <1>0, <3>1, <3>2 DEF Asked
  <2>2. sent'.at = request.first .. R!Min({a, b}) /\ R!Go("end")
    BY <1>4 DEF R!SendBytes
  <2> HIDE DEF a, b
  <2>3. R!Min({a, b}) \in Int /\ R!Min({a, b}) <= b
    BY <2>1, MinOfTwo
  <2>4. request'.first = request.first
    BY <1>0, <2>2 DEF R!Go, Asked
  <2>5. MaxFileSize \in Nat
    BY ShownConstantsOK DEF R!SizesOK
  <2> QED
    BY <2>1, <2>2, <2>3, <2>4, <2>5 DEF SentTyped
<1>5. CASE R!ReadSize
  BY <1>0, <1>1, <1>5 DEF R!ReadSize, Asked, SentTyped
<1>6. CASE R!ReadHash
  BY <1>0, <1>1, <1>6 DEF R!ReadHash, Asked, SentTyped
<1>7. CASE UNCHANGED <<request, sent>>
  BY <1>7 DEF SentTyped
<1>8. ASSUME NEW b \in BOOLEAN, R!Lookup(b) PROVE SentTyped'
  BY <1>1, <1>2, <1>8 DEF R!Lookup
<1>9. CASE R!FindFile \/ R!Verify
  BY <1>1, <1>2, <1>9 DEF R!FindFile, R!Verify
<1> QED
  BY <1>3, <1>4, <1>5, <1>6, <1>7, <1>8, <1>9 DEF R!Next, R!Change, R!vars

LEMMA SentTypesInit == R!Init => SentTyped
BY DEF R!Init, SentTyped

LEMMA RecordingTypes == RecordingInv /\ SentTyped => R!TypeOK
BY DEF RecordingInv, RequestTyped, SentTyped, Asked, Stages, Statuses, R!TypeOK

\* A ruleset is there only while the process is up.
LEMMA SeverityTypes ==
  ASSUME X!TypeOK, [X!Next]_X!vars
  PROVE  X!TypeOK'
<1>1. CASE X!Start
  BY <1>1 DEF X!Start, X!TypeOK
<1>2. ASSUME NEW t, NEW s, NEW rs, X!Classify(rs, t, s) PROVE X!TypeOK'
  BY <1>2 DEF X!Classify, X!TypeOK
<1> QED
  BY <1>1, <1>2 DEF X!Next, X!vars, X!TypeOK

LEMMA SeverityTypesInit == X!Init => X!TypeOK
BY DEF X!Init, X!TypeOK

\* Where the webhooks and their processes are.
IngressTyped ==
  /\ status \in [Sent -> {"waiting", "handled", "acked", "refused", "dropped"}]
  /\ serving \in [H!Services -> {"down", "up", "unfit"}] /\ mishaps \in Nat /\ resends \in Nat

LEMMA IngressTypes ==
  ASSUME IngressTyped, [H!Next]_H!ingressVars
  PROVE  IngressTyped'
<1> DEFINE States == {"waiting", "handled", "acked", "refused", "dropped"}
<1>1. ASSUME NEW r, NEW v \in States, NEW s, s = [status EXCEPT ![r] = v] PROVE s \in [Sent -> States]
  BY <1>1 DEF IngressTyped
<1>2. ASSUME NEW s, NEW r, NEW code, H!Answer(s, r, code) PROVE status' \in [Sent -> States]
  <2> DEFINE v == CASE code = 200 -> "acked" [] code = 503 -> "waiting" [] OTHER -> "refused"
  <2>1. status' = [status EXCEPT ![r] = v]
    BY <1>2 DEF H!Answer
  <2>2. v \in States
    <3>1. CASE code = 200
      BY <3>1
    <3>2. CASE code = 503
      BY <3>2
    <3>3. CASE code # 200 /\ code # 503
      BY <3>3
    <3> QED
      BY <3>1, <3>2, <3>3
  <2> HIDE DEF v
  <2> QED
    BY <1>1, <2>1, <2>2
<1>3. ASSUME NEW s, H!Submit(s) PROVE IngressTyped'
  <2>1. status' = status \/ H!Answer(s, handling[s].request, 400)
    BY <1>3 DEF H!Submit
  <2>2. UNCHANGED <<serving, resends>> /\ mishaps' \in {mishaps, mishaps + 1}
    BY <1>3 DEF H!Submit
  <2> QED
    BY <1>2, <2>1, <2>2 DEF IngressTyped
<1>4. ASSUME NEW s, H!Process(s) PROVE IngressTyped'
  <2>1. status' = status \/ H!Answer(s, handling[s].request, 503)
    BY <1>4 DEF H!Process
  <2>2. UNCHANGED <<serving, resends>> /\ mishaps' \in {mishaps, mishaps + 1}
    BY <1>4 DEF H!Process
  <2> QED
    BY <1>2, <2>1, <2>2 DEF IngressTyped
<1>5. ASSUME NEW s, H!Confirm(s) PROVE IngressTyped'
  <2>1. status' = status \/ H!Answer(s, handling[s].request, 503) \/ H!Answer(s, handling[s].request, 200)
    BY <1>5 DEF H!Confirm, H!NextMessage
  <2>2. UNCHANGED <<serving, resends>> /\ mishaps' \in {mishaps, mishaps + 1}
    BY <1>5 DEF H!Confirm
  <2> QED
    BY <1>2, <2>1, <2>2 DEF IngressTyped
<1>6. ASSUME NEW s, H!Crash(s) PROVE IngressTyped'
  <2>1. status' = status \/ status' = [status EXCEPT ![handling[s].request] = "waiting"]
    BY <1>6 DEF H!Crash
  <2>2. status' \in [Sent -> States]
    BY <1>1, <2>1 DEF IngressTyped
  <2>3. serving' = [serving EXCEPT ![s] = "down"] /\ mishaps' = mishaps + 1 /\ resends' = resends
    BY <1>6 DEF H!Crash
  <2>4. serving' \in [H!Services -> {"down", "up", "unfit"}]
    BY <2>3 DEF IngressTyped
  <2>5. mishaps' \in Nat /\ resends' \in Nat
    BY <2>3 DEF IngressTyped
  <2> QED
    BY <2>2, <2>4, <2>5 DEF IngressTyped
<1>7. ASSUME NEW s, NEW r, H!Receive(s, r) PROVE IngressTyped'
  <2>1. status' \in [Sent -> States]
    BY <1>1, <1>2, <1>7 DEF H!Receive
  <2> QED
    BY <1>7, <2>1 DEF H!Receive, IngressTyped
<1>8. ASSUME NEW r, H!Resend(r) \/ H!GiveUp(r) PROVE IngressTyped'
  BY <1>1, <1>8 DEF H!Resend, H!GiveUp, IngressTyped
<1>9. ASSUME NEW s, NEW needs, H!Start(s, needs) PROVE IngressTyped'
  BY <1>9 DEF H!Start, IngressTyped
<1>10. CASE UNCHANGED H!ingressVars
  BY <1>10 DEF H!ingressVars, IngressTyped
<1> QED
  BY <1>3, <1>4, <1>5, <1>6, <1>7, <1>8, <1>9, <1>10 DEF H!Next, H!StartTelegram, H!StartWhatsApp

LEMMA IngressTypesInit == H!Init => IngressTyped
BY DEF H!Init, IngressTyped

LEMMA WebhookTypes == H!StoreOK /\ IngressTyped => H!TypeOK
BY DEF H!StoreOK, H!HandlingOK, H!Idle, H!Work, IngressTyped, H!TypeOK

\* A stream has not begun, or at a number of the log.
StartTyped == start \in Nat \cup {F!None}

LEMMA StartTypes ==
  ASSUME StreamInv, StartTyped, [F!Next]_F!vars
  PROVE  StartTyped'
<1>1. CASE F!Snapshot
  <2>1. F!Top \in Nat /\ PageLimit \in Nat
    BY TopIs, ShownConstantsOK DEF StreamInv, LogTyped, F!FeedOK
  <2> QED
    BY <1>1, <2>1 DEF F!Snapshot, StartTyped
<1>2. CASE UNCHANGED start
  BY <1>2 DEF StartTyped
<1>3. ASSUME NEW e, F!SaveNew(e) \/ F!SaveCopy(e) \/ F!Delete(e) PROVE UNCHANGED start
  BY <1>3 DEF F!SaveNew, F!SaveCopy, F!Save, F!Delete
<1>4. ASSUME F!GetPage \/ F!Connect \/ F!Query \/ F!Check \/ F!Emit \/ F!EndBatch \/ F!Disconnect PROVE UNCHANGED start
  BY <1>4 DEF F!GetPage, F!Connect, F!Query, F!Check, F!Emit, F!EndBatch, F!Disconnect
<1> QED
  BY <1>1, <1>2, <1>3, <1>4 DEF F!Next, F!vars

LEMMA StartTypesInit == F!Init => StartTyped
BY DEF F!Init, StartTyped

LEMMA FeedTypes == StreamInv /\ PagesInv /\ StartTyped => F!TypeOK
<1> SUFFICES ASSUME StreamInv, PagesInv, StartTyped PROVE F!TypeOK
  OBVIOUS
<1>1. \A k \in DOMAIN received : received[k] \in Frame
  BY DEF StreamInv, StreamTyped
<1>2. start >= F!None
  BY DEF StartTyped, F!None
<1> QED
  BY <1>1, <1>2 DEF StreamInv, PagesInv, LogTyped, StreamTyped, Streams, StreamPcs, Frame, GivenOK, Pagings, PagePcs, F!TypeOK

LEMMA RowsTypes == RowsInv => S!TypeOK
BY DEF RowsInv, RowsTyped, LockOK, Row, S!TypeOK, S!Rows

(***************************************************************************)
(* The group.                                                              *)
(***************************************************************************)

MigrationInv == M!UpgradesOK /\ M!AppliersOK /\ M!MadeOK /\ M!RaisingOK
IngressInv == H!StoreOK /\ H!AckedStored /\ H!TruthOK /\ H!ToldOK
StoreInv == RowsInv /\ ManagersInv /\ MigrationInv /\ IngressInv

\* A step of the group is a step of a component or leaves it alone.
LEMMA GroupSteps ==
  [Next]_vars => [S!Next]_S!vars /\ [D!Next]_D!dbVars /\ [M!Next]_M!migrationVars /\ [H!Next]_H!ingressVars
BY DEF Next, vars, SVars, DVars, MVars, HVars, S!vars, D!dbVars, M!migrationVars, H!ingressVars
LEMMA ShownSteps ==
  [Next]_vars => [R!Next]_R!vars /\ [X!Next]_X!vars /\ [F!Next]_F!vars
BY DEF Next, vars, RVars, XVars, FVars, R!vars, X!vars, F!vars

\* The store is consistent: sessions see what is committed and versions count the updates, the
\* managers in use are the current ones, upgrades leave no gap, apply a revision once and raise
\* for a reason, and what is acknowledged to a platform is stored, once, and truly a duplicate
\* when it says so.
THEOREM StoreIsConsistentHolds == Spec => []StoreIsConsistent
<1> USE StoreConstantsOK
<1>1. Init => StoreInv
  <2> SUFFICES ASSUME S!Init, D!Init, M!Init, H!Init PROVE StoreInv
    BY DEF Init
  <2> QED
    BY RowsInit, ManagersInit, M!MigrationInit, H!IngressInit, H!TruthInit DEF StoreInv, MigrationInv, IngressInv
<1>2. StoreInv /\ [Next]_vars => StoreInv'
  <2> SUFFICES ASSUME StoreInv, [Next]_vars PROVE StoreInv'
    OBVIOUS
  <2>1. RowsInv' /\ ManagersInv'
    BY GroupSteps, RowsStep, ManagersStep DEF StoreInv
  <2>2. MigrationInv'
    BY GroupSteps, M!UpgradesStep, M!AppliersStep, M!MadeStep, M!RaisingStep DEF StoreInv, MigrationInv
  <2>3. IngressInv'
    BY GroupSteps, H!StoreStep, H!AckedStep, H!TruthStep DEF StoreInv, IngressInv
  <2> QED
    BY <2>1, <2>2, <2>3 DEF StoreInv
<1>3. StoreInv => StoreIsConsistent
  BY RowsHold, M!UpgradesHold, H!IngressHolds
     DEF StoreInv, ManagersInv, MigrationInv, IngressInv, StoreIsConsistent
<1> QED
  BY <1>1, <1>2, <1>3, PTL DEF Spec

\* What an operator is shown is true, for any log, batch and page, any recording and any sequences
\* of rules, and for any number of events deleted and archived and of changes of the file: an
\* event that was never archived is streamed at most once and before all that is sent after it, an
\* undisturbed one up to the last frame is received, pages are whole, a range is the one
\* asked for of a file that was verified and nothing beyond it is sent, and a severity is that of
\* the rule with precedence.
THEOREM OperatorSeesTrulyHolds == Spec => []OperatorSeesTruly
<1> DEFINE ShownInv == StreamInv /\ PagesInv /\ RecordingInv /\ SeverityInv
<1>1. Init => ShownInv
  <2> SUFFICES ASSUME R!Init, X!Init, F!Init PROVE ShownInv
    BY DEF Init
  <2> QED
    BY StreamInit, PagesInit, RecordingInit, SeverityInit
<1>2. ShownInv /\ [Next]_vars => ShownInv'
  BY ShownSteps, StreamStep, PagesStep, RecordingStep, SeverityStep
<1>3. ShownInv => OperatorSeesTruly
  BY StreamHolds, PagesHold, RecordingHolds, SeverityHolds DEF OperatorSeesTruly
<1> HIDE DEF ShownInv
<1> QED
  BY <1>1, <1>2, <1>3, PTL DEF Spec

\* The intelligence layer in one invariant.
IntelInv ==
  /\ EntityInv /\ I!IdentityIndexIsBacked /\ RelationsInv /\ IntakeInv
  /\ EngineInv /\ ValidationInv /\ TimelineInv

LEMMA IntelSteps ==
  [Next]_vars => /\ [E!Next]_E!vars /\ [I!Next]_I!vars /\ [O!Next]_O!vars
                 /\ [G!Next]_G!vars /\ [V!Next]_V!vars /\ [T!Next]_T!vars
BY DEF Next, vars, EVars, IVars, OVars, GVars, VVars, TVars, E!vars, I!vars, O!vars, G!vars, V!vars, T!vars
LEMMA IntelInit == Init => IntelInv
<1> SUFFICES ASSUME E!Init, I!Init, O!Init, G!Init, V!Init, T!Init PROVE IntelInv
  BY DEF Init
<1>1. I!IdentityIndexIsBacked
  BY DEF I!Init, I!NoneMapped, I!IdentityIndexIsBacked
<1> QED
  BY <1>1, SeenConstantsOK, EntityInit, RelationsInit, IntakeInit, EngineInit, ValidationInit, TimelineInit DEF IntelInv
LEMMA IntelStep ==
  ASSUME IntelInv, [Next]_vars
  PROVE  IntelInv'
BY SeenConstantsOK, IntelSteps, EntityStep, IdentityStep, RelationsStep, IntakeStep, EngineStep, ValidationStep, TimelineStep
   DEF IntelInv

\* The intelligence layer is consistent, for any sessions, identities, externals, callers and ids:
\* redelivered, racing or failing, an entity and an observation are one row each, indexes, lists
\* and links match what they stand for, and validation blames what is wrong.
THEOREM IntelligenceIsConsistentHolds == Spec => []IntelligenceIsConsistent
<1>1. IntelInv => IntelligenceIsConsistent
  BY SeenConstantsOK, EntityHolds, RelationsHold, IntakeHolds, EngineHolds, ValidationHolds, TimelineHolds
     DEF IntelInv, IntelligenceIsConsistent
<1> QED
  BY <1>1, IntelInit, IntelStep, PTL DEF Spec

\* Every variable of every component keeps its type, whatever the other parts of the group are.
THEOREM TypeOKHolds == Spec => []TypeOK
<1> DEFINE ShownInv == StreamInv /\ PagesInv /\ RecordingInv
           Typed == ManagersTyped /\ TablesTyped /\ SentTyped /\ X!TypeOK /\ IngressTyped /\ StartTyped
           Inv == IntelInv /\ StoreInv /\ ShownInv /\ Typed
<1>1. Init => Inv
  <2> SUFFICES ASSUME Init PROVE Inv
    OBVIOUS
  <2>1. S!Init /\ D!Init /\ M!Init /\ R!Init /\ X!Init /\ H!Init /\ F!Init
    BY DEF Init
  <2>2. StoreInv
    BY <2>1, StoreConstantsOK, RowsInit, ManagersInit, M!MigrationInit, H!IngressInit, H!TruthInit
       DEF StoreInv, MigrationInv, IngressInv
  <2>3. ShownInv
    BY <2>1, StreamInit, PagesInit, RecordingInit
  <2>4. Typed
    BY <2>1, ManagersTypesInit, TablesTypesInit, SentTypesInit, SeverityTypesInit, IngressTypesInit, StartTypesInit
  <2> QED
    BY <2>2, <2>3, <2>4, IntelInit
<1>2. Inv /\ [Next]_vars => Inv'
  <2> SUFFICES ASSUME Inv, [Next]_vars PROVE Inv'
    OBVIOUS
  <2>1. StoreInv'
    <3>1. RowsInv' /\ ManagersInv'
      BY StoreConstantsOK, GroupSteps, RowsStep, ManagersStep DEF StoreInv
    <3>2. MigrationInv'
      BY StoreConstantsOK, GroupSteps, M!UpgradesStep, M!AppliersStep, M!MadeStep, M!RaisingStep DEF StoreInv, MigrationInv
    <3>3. IngressInv'
      BY StoreConstantsOK, GroupSteps, H!StoreStep, H!AckedStep, H!TruthStep DEF StoreInv, IngressInv
    <3> QED
      BY <3>1, <3>2, <3>3 DEF StoreInv
  <2>2. ShownInv'
    BY ShownSteps, StreamStep, PagesStep, RecordingStep
  <2>3. Typed'
    BY GroupSteps, ShownSteps, ManagersTypes, TablesTypes, SentTypes, SeverityTypes, IngressTypes, StartTypes
  <2> QED
    BY <2>1, <2>2, <2>3, IntelStep
<1>3. Inv => TypeOK
  <2> SUFFICES ASSUME Inv PROVE TypeOK
    OBVIOUS
  <2>1. E!TypeOK /\ I!TypeOK /\ O!TypeOK /\ G!TypeOK /\ V!TypeOK /\ T!TypeOK
    BY SeenConstantsOK, EntityHolds, RelationsHold, IntakeHolds, EngineHolds, ValidationHolds, TimelineHolds DEF IntelInv
  <2>2. S!TypeOK /\ D!TypeOK /\ M!TypeOK /\ H!TypeOK
    BY RowsTypes, SchemaTypes, WebhookTypes DEF StoreInv, ManagersTyped, MigrationInv, M!RaisingOK, IngressInv
  <2>3. R!TypeOK /\ X!TypeOK /\ F!TypeOK
    BY RecordingTypes, FeedTypes
  <2> QED
    BY <2>1, <2>2, <2>3 DEF TypeOK
<1> HIDE DEF Inv
<1> QED
  BY <1>1, <1>2, <1>3, PTL DEF Spec
=============================================================================
