------------------------------- MODULE CoreBus -------------------------------
(***************************************************************************)
(* core.EventBus: synchronous publish to the subscribers of one event      *)
(* type.  publish runs the handlers under the bus's re-entrant lock, so    *)
(* while it delivers only a handler can change the subscriptions.  The     *)
(* queue and its worker are in CoreBusQueue.                               *)
(***************************************************************************)
EXTENDS Integers, Sequences, Functions

CONSTANTS Subscribers, Nobody,
  MaxSubs     \* bound on subscribe and unsubscribe calls

BoundOK == MaxSubs \in Nat

VARIABLES
  typed,     \* _subscriptions[type]: sequence of [who, prio, call]
  wild,      \* _wildcard_subscriptions
  delivery,  \* the publish that holds the lock: [todo, done, due], or Nobody
  subCalls   \* number of subscribe and unsubscribe calls

vars == <<typed, wild, delivery, subCalls>>

Init == typed = <<>> /\ wild = <<>> /\ delivery = Nobody /\ subCalls = 0

TypeOK ==
  /\ \A s \in Range(typed) \cup Range(wild) : s.who \in Subscribers /\ s.call < subCalls
  /\ subCalls <= MaxSubs

\* Highest priority first: where the stable sort of a list that was sorted before the append
\* leaves the new subscription, after those of its own priority.
Inserted(list, s, p) ==
  [i \in 1 .. Len(list) + 1 |-> IF i < p THEN list[i] ELSE IF i = p THEN s ELSE list[i - 1]]
Ranked(list, s) ==
  {Inserted(list, s, p) : p \in {q \in 1 .. Len(list) + 1 : \A i \in DOMAIN list : i < q <=> list[i].prio >= s.prio}}
Names(list) == {list[i].who : i \in DOMAIN list}

\* subscribe to the type, to a wildcard, or to both in one call.
Subscribe(w, p, kinds) ==
  /\ subCalls < MaxSubs /\ subCalls' = subCalls + 1
  /\ LET s == [who |-> w, prio |-> p, call |-> subCalls] IN
     /\ typed' \in IF "typed" \in kinds /\ w \notin Names(typed) THEN Ranked(typed, s) ELSE {typed}
     /\ wild' \in IF "wild" \in kinds /\ w \notin Names(wild) THEN Ranked(wild, s) ELSE {wild}
  /\ UNCHANGED delivery

\* A list has a subscriber once.
Removed(list, w) ==
  LET at == CHOOSE i \in DOMAIN list : list[i].who = w
  IN IF w \in Names(list) THEN [i \in 1 .. Len(list) - 1 |-> IF i < at THEN list[i] ELSE list[i + 1]] ELSE list
Unsubscribe(w) ==
  /\ subCalls < MaxSubs /\ subCalls' = subCalls + 1 /\ w \in Names(typed) \cup Names(wild)
  /\ typed' = Removed(typed, w) /\ wild' = Removed(wild, w)
  /\ UNCHANGED delivery

\* _get_matching_subscriptions: one subscription in both lists counts once; by priority, and among
\* equals those of the type before the others, each in the order of its list.
All == typed \o wild
Before(s, t) ==
  \/ s.prio > t.prio
  \/ s.prio = t.prio /\ \E i \in DOMAIN All : All[i] = s /\ \A j \in DOMAIN All : All[j] = t => i < j
Matching ==
  {q \in UNION {[1 .. n -> Range(All)] : n \in 0 .. Len(All)} :
     Range(q) = Range(All) /\ \A j, k \in DOMAIN q : j < k => Before(q[j], q[k])}

\* publish takes the lock and fixes whom it will call.
Publish ==
  /\ delivery = Nobody
  /\ \E q \in Matching : delivery' = [todo |-> q, done |-> <<>>, due |-> Range(typed) \cup Range(wild)]
  /\ UNCHANGED <<typed, wild, subCalls>>

\* A handler that raises is logged.
Handle ==
  /\ delivery # Nobody /\ delivery.todo # <<>>
  /\ delivery' = [delivery EXCEPT !.todo = Tail(@), !.done = Append(@, Head(delivery.todo))]
  /\ UNCHANGED <<typed, wild, subCalls>>

\* publish returns and releases the lock.
PublishEnds ==
  /\ delivery # Nobody /\ delivery.todo = <<>>
  /\ delivery' = Nobody
  /\ UNCHANGED <<typed, wild, subCalls>>

Next ==
  \/ \E w \in Subscribers, p \in {0, 1}, k \in {{"typed"}, {"wild"}, {"typed", "wild"}} : Subscribe(w, p, k)
  \/ \E w \in Subscribers : Unsubscribe(w)
  \/ Publish \/ Handle \/ PublishEnds
Spec == Init /\ [][Next]_vars

\* A publish that returns has called every subscription there was when it took the lock,
\* each once and the higher priorities first, whatever raised or was changed meanwhile.
EachSubscriptionOnce ==
  delivery # Nobody /\ delivery.todo = <<>> =>
    /\ Range(delivery.done) = delivery.due /\ IsInjective(delivery.done)
    /\ \A i \in 1 .. Len(delivery.done) - 1 : delivery.done[i].prio >= delivery.done[i + 1].prio
=============================================================================
