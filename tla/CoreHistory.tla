----------------------------- MODULE CoreHistory -----------------------------
(***************************************************************************)
(* core.EventHistory: a bounded buffer of all entries and one per event    *)
(* type, and a replay, which is a generator that runs under the lock.  The *)
(* lock is re-entrant: the thread that replays may itself add and clear    *)
(* between two entries, other threads wait.  An entry is [at, type]; `at`  *)
(* stands for its timestamp.                                               *)
(***************************************************************************)
EXTENDS Integers, Sequences, SequencesExt, FiniteSets

CONSTANTS EventTypes,
  MaxSize,    \* max_size
  MaxAdds     \* bound on add() calls

\* "all" stands for no event type.
HistoryOK == "all" \notin EventTypes /\ MaxSize \in Nat

VARIABLES
  events,    \* _events
  byType,    \* _events_by_type
  typeKeys,  \* its keys: clear_type leaves an empty deque, prune_old none
  added,     \* statistics: total_added
  droppedCount, \* statistics: total_dropped
  replay     \* [source, next, seen, state] of the replay under way, or <<>>

vars == <<events, byType, typeKeys, added, droppedCount, replay>>

Init ==
  /\ events = <<>> /\ byType = [t \in EventTypes |-> <<>>] /\ typeKeys = {}
  /\ added = 0 /\ droppedCount = 0 /\ replay = <<>>

TypeOK ==
  /\ Len(events) <= MaxSize /\ \A t \in EventTypes : Len(byType[t]) <= MaxSize
  /\ \A t \in EventTypes \ typeKeys : byType[t] = <<>>
  /\ \A e \in Range(events) : e.type \in EventTypes /\ e.at \in 1 .. added
  /\ replay # <<>> => replay.state \in {"running", "done", "broken"}

\* A deque with maxlen.  Mutated form: it takes one more.
Bounded_OffByOne(q) == IF Len(q) > MaxSize + 1 THEN Tail(q) ELSE q
Bounded(q) == IF Len(q) > MaxSize THEN Tail(q) ELSE q

\* A deque that is changed under its iterator makes the next step raise RuntimeError; one
\* that is replaced by a new one stays as it was for the iterator.
Disturb(changed, replaced) ==
  replay' = IF replay = <<>> THEN replay
            ELSE IF replay.source \in changed THEN [replay EXCEPT !.state = "broken"]
            ELSE IF replay.source \in replaced THEN [replay EXCEPT !.source = "old"] ELSE replay

Add(t) ==
  /\ added < MaxAdds /\ added' = added + 1
  /\ LET e == [at |-> added + 1, type |-> t] IN
     /\ events' = Bounded(Append(events, e))
     /\ byType' = [byType EXCEPT ![t] = Bounded(Append(@, e))] /\ typeKeys' = typeKeys \cup {t}
  /\ droppedCount' = IF Len(events') >= MaxSize THEN droppedCount + 1 ELSE droppedCount
  /\ Disturb({"all", t}, {})

\* clear empties the buffer in place and forgets the deques of the types.
Clear ==
  /\ events # <<>>
  /\ events' = <<>> /\ byType' = [t \in EventTypes |-> <<>>] /\ typeKeys' = {}
  /\ Disturb({"all"}, EventTypes) /\ UNCHANGED <<added, droppedCount>>

\* A comprehension over a buffer: its entries that are in S, in its order.
Only(q, S) ==
  CHOOSE r \in UNION {[1 .. n -> S] : n \in 0 .. Len(q)} :
    /\ Range(r) = S
    /\ \A j, k \in DOMAIN r : j < k => \E a, b \in DOMAIN q : a < b /\ q[a] = r[j] /\ q[b] = r[k]

\* clear_type empties the type's deque in place and makes a new buffer.
ClearType(t) ==
  /\ byType[t] # <<>>
  /\ byType' = [byType EXCEPT ![t] = <<>>]
  /\ events' = Only(events, {e \in Range(events) : e.type # t})
  /\ Disturb({t}, {"all"}) /\ UNCHANGED <<typeKeys, added, droppedCount>>

Recent(q, before) == Only(q, {e \in Range(q) : e.at >= before})
PruneOld(before) ==
  /\ events' = Recent(events, before) /\ byType' = [t \in EventTypes |-> Recent(byType[t], before)]
  /\ typeKeys' = {t \in typeKeys : Recent(byType[t], before) # <<>>}
  /\ events' # events
  /\ Disturb({}, EventTypes \cup {"all"}) /\ UNCHANGED <<added, droppedCount>>

\* search and get_by_type: of one type or of all, newest first, in a window of time.
Source(t) == IF t \in typeKeys THEN byType[t] ELSE events
Search(t, since, until) ==
  LET wanted == {e \in Range(Source(t)) : (t = "all" \/ e.type = t) /\ since <= e.at /\ e.at <= until}
  IN Reverse(Only(Source(t), wanted))

\* replay, entry by entry, oldest first; the generator keeps what it iterates over.
ReplayBegins(t) ==
  /\ replay = <<>> /\ Source(t) # <<>>
  /\ replay' = [source |-> IF t \in typeKeys THEN t ELSE "all", type |-> t,
                left |-> Source(t), seen |-> <<>>, state |-> "running"]
  /\ UNCHANGED <<events, byType, typeKeys, added, droppedCount>>

ReplayNext ==
  /\ replay # <<>> /\ replay.state = "running"
  /\ LET e == Head(replay.left) IN
     replay' = IF replay.left = <<>> THEN [replay EXCEPT !.state = "done"]
               ELSE [replay EXCEPT !.left = Tail(@),
                                   !.seen = IF replay.type \in {"all", e.type} THEN Append(@, e) ELSE @]
  /\ UNCHANGED <<events, byType, typeKeys, added, droppedCount>>

ReplayEnds ==
  /\ replay # <<>> /\ replay.state # "running"
  /\ replay' = <<>>
  /\ UNCHANGED <<events, byType, typeKeys, added, droppedCount>>

Next ==
  \/ \E t \in EventTypes : Add(t) \/ ClearType(t)
  \/ \E t \in EventTypes \cup {"all"} : ReplayBegins(t)
  \/ Clear \/ (\E b \in 2 .. MaxAdds : PruneOld(b)) \/ ReplayNext \/ ReplayEnds

Spec == Init /\ [][Next]_vars

(***************************************************************************)
(* Properties.                                                             *)
(***************************************************************************)

\* Every buffer is in order of time, and what the buffer of all entries has of a type is the end
\* of what the type's own buffer has: with one entry of the type, also every later one.
InOrderOfTime(q) == \A i, j \in DOMAIN q : i < j => q[i].at < q[j].at
IndexCoversBuffer ==
  /\ InOrderOfTime(events) /\ \A t \in EventTypes : InOrderOfTime(byType[t])
  /\ \A t \in EventTypes :
       LET ofType == {e \in Range(events) : e.type = t}
       IN /\ ofType \subseteq Range(byType[t])
          /\ \A f \in ofType : {e \in Range(byType[t]) : e.at >= f.at} \subseteq ofType

\* A search over a window of time finds every entry of the buffer it asks for, newest
\* first, and nothing of another type or another time.
SearchFindsAll ==
  \A t \in EventTypes \cup {"all"} : \A since, until \in 1 .. MaxAdds :
    LET found == Search(t, since, until)
        right(e) == (t = "all" \/ e.type = t) /\ e.at \in since .. until
    IN /\ {e \in Range(events) : right(e)} \subseteq Range(found)
       /\ \A e \in Range(found) : right(e)
       /\ \A i \in 1 .. Len(found) - 1 : found[i].at > found[i + 1].at

\* A replay that comes to its end has yielded, in order of time and once each, entries of
\* its type only.
ReplayIsInOrder ==
  replay # <<>> =>
    /\ \A i \in 1 .. Len(replay.seen) - 1 : replay.seen[i].at < replay.seen[i + 1].at
    /\ \A e \in Range(replay.seen) : replay.type \in {"all", e.type}
=============================================================================
