------------------------------- MODULE Timeline -------------------------------
(***************************************************************************)
(* The timeline of the intelligence core: an append-only EventStore with a *)
(* second list per entity, the queries over both, and the projections and  *)
(* aggregations of what a query returned.  A timeline event is             *)
(* [entity, type, time], the time in minutes; entity 0 stands for None.    *)
(***************************************************************************)
EXTENDS Integers, Sequences, FiniteSets, Functions

CONSTANTS
  Kinds,        \* event types
  Entities,     \* numbers from 1 on
  Times,        \* timestamps; events need not be appended in their order
  Interval,     \* interval_minutes of TimeSeriesAggregation
  MaxTimeline   \* bound on events

VARIABLES
  timeline,   \* _events
  perEntity,  \* _by_entity
  answer      \* what the last query was and returned: [query, of, list]

vars == <<timeline, perEntity, answer>>

TimelineEvents == [entity : Entities \cup {0}, type : Kinds, time : Times]
NoAnswer == [query |-> "none", of |-> <<>>, list |-> <<>>]

Init ==
  /\ timeline = <<>> /\ perEntity = [e \in Entities |-> <<>>] /\ answer = NoAnswer

TypeOK ==
  /\ timeline \in Seq(TimelineEvents)
  /\ answer.query \in {"none", "range", "entity", "page"}

\* EventStore.append; an event without an entity is in no list of an entity.
AppendEvent(ev) ==
  /\ Len(timeline) < MaxTimeline /\ timeline' = Append(timeline, ev)
  /\ perEntity' = IF ev.entity = 0 THEN perEntity
                  ELSE [perEntity EXCEPT ![ev.entity] = Append(@, ev)]
  /\ answer' = NoAnswer

Reply(query, of, list) ==
  /\ answer.query = "none" /\ answer' = [query |-> query, of |-> of, list |-> list]
  /\ UNCHANGED <<timeline, perEntity>>

\* Timeline.query with both times: query_by_time_range with the first of the event types.
QueryRange(from, to, entity, kind) ==
  Reply("range", <<from, to, entity, kind>>,
        SelectSeq(timeline, LAMBDA ev : /\ from <= ev.time /\ ev.time <= to
                                        /\ entity # 0 => ev.entity = entity
                                        /\ kind # "any" => ev.type = kind))

\* events[-limit:], and the whole list for a limit of 0.
LastOf(s, n) == IF n = 0 \/ n >= Len(s) THEN s ELSE SubSeq(s, Len(s) - n + 1, Len(s))

\* Timeline.query with an entity and not both times, and get_for_entity.
QueryEntity(e, limit) == Reply("entity", <<e, limit>>, LastOf(perEntity[e], limit))

\* Timeline.query with neither: a page of everything.
QueryPage(offset, limit) ==
  Reply("page", <<offset, limit>>,
        SubSeq(timeline, offset + 1, IF offset + limit > Len(timeline) THEN Len(timeline) ELSE offset + limit))

Clear ==
  /\ timeline # <<>> /\ timeline' = <<>> /\ perEntity' = [e \in Entities |-> <<>>] /\ answer' = NoAnswer

Next ==
  \/ \E ev \in TimelineEvents : AppendEvent(ev)
  \/ \E from, to \in Times, e \in Entities \cup {0}, k \in Kinds \cup {"any"} : QueryRange(from, to, e, k)
  \/ \E e \in Entities, n \in 0 .. 1 : QueryEntity(e, n)
  \/ \E o \in 0 .. 1, n \in 1 .. 2 : QueryPage(o, n)
  \/ Clear

Spec == Init /\ [][Next]_vars

-----------------------------------------------------------------------------

\* How often each value occurs in a sequence.
Tally(keys) ==
  [x \in {keys[k] : k \in DOMAIN keys} |-> Cardinality({k \in DOMAIN keys : keys[k] = x})]

\* EntityHistoryProjection and ActivitySummaryProjection.
History(s) == Tally([k \in {j \in DOMAIN s : s[j].entity /= 0} |-> s[k].entity])
Activity(s) == Tally([k \in DOMAIN s |-> s[k].type])

\* TimeSeriesAggregation rounds the minute of the hour down.
Bucket(t) == (t \div 60) * 60 + ((t % 60) \div Interval) * Interval
Series(s) == Tally([k \in DOMAIN s |-> Bucket(s[k].time)])

(***************************************************************************)
(* Properties.                                                             *)
(***************************************************************************)

Total(f) == FoldFunctionOnSet(+, 0, f, DOMAIN f)

\* The list of an entity is what a scan of the whole timeline would find, in its order: as many
\* events, each at the place that its place in the timeline gives it.
Places(tl, e) == {k \in DOMAIN tl : tl[k].entity = e}
Scanned(list, tl, e) ==
  /\ Len(list) = Cardinality(Places(tl, e))
  /\ \A k \in Places(tl, e) : list[Cardinality({j \in Places(tl, e) : j <= k})] = tl[k]
EntityListsAgree == \A e \in Entities : Scanned(perEntity[e], timeline, e)

\* The three ways to ask answer alike: a range that spans all times, an entity without a
\* limit and a page that spans everything return the same events of the entity; a limit
\* keeps the latest appended, and an inclusive range keeps both of its ends.
AnswersAgree ==
  LET q == answer.of s == answer.list IN
  /\ answer.query = "range" =>
       \A k \in DOMAIN timeline :
         LET ev == timeline[k] IN
         q[1] <= ev.time /\ ev.time <= q[2] /\ q[3] \in {0, ev.entity} /\ q[4] \in {"any", ev.type}
           <=> \E j \in DOMAIN s : s[j] = ev
  /\ answer.query = "entity" =>
       /\ LET all == SelectSeq(timeline, LAMBDA ev : ev.entity = q[1]) IN
            Len(s) <= Len(all) /\ s = SubSeq(all, Len(all) - Len(s) + 1, Len(all))
       /\ q[2] # 0 => Len(s) <= q[2]

\* Projections and aggregations of one answer agree with one another: the counts of the
\* entities with those of no entity, of the types and of the buckets add up to the answer.
SummariesAgree ==
  LET s == answer.list IN
  /\ Total(History(s)) + Cardinality({k \in DOMAIN s : s[k].entity = 0}) = Len(s)
  /\ Total(Activity(s)) = Len(s) /\ Total(Series(s)) = Len(s)
  /\ \A k \in DOMAIN s : LET t == s[k].time IN Bucket(t) <= t /\ t < Bucket(t) + Interval
=============================================================================
