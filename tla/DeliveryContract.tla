--------------------------- MODULE DeliveryContract ---------------------------
(***************************************************************************)
(* What the durable outbox promises, without processes, leases or retries: *)
(* once an event is committed each of its deliveries is owed; a delivery   *)
(* is reported delivered only after the consumer has handled the event,    *)
(* and one that is given up is parked until somebody requeues it.          *)
(***************************************************************************)
CONSTANTS Events, Consumers

VARIABLES
  status,   \* of each delivery: none, owed, delivered or parked
  handled   \* deliveries the consumer has handled at least once

vars == <<status, handled>>

Deliveries == Events \X Consumers

Init ==
  /\ status = [r \in Deliveries |-> "none"]
  /\ handled = {}

\* An event is committed with all its deliveries, at once.
Commit(e) ==
  /\ \A c \in Consumers : status[<<e, c>>] = "none"
  /\ status' = [r \in Deliveries |-> IF r[1] = e THEN "owed" ELSE status[r]]
  /\ UNCHANGED handled

\* The consumer handles an event it is owed, perhaps again.
Handle(r) ==
  /\ status[r] = "owed"
  /\ handled' = handled \cup {r}
  /\ UNCHANGED status

Deliver(r) ==
  /\ status[r] = "owed"
  /\ r \in handled
  /\ status' = [status EXCEPT ![r] = "delivered"]
  /\ UNCHANGED handled

\* Deliveries are given up.
Park(S) ==
  /\ \A r \in S : status[r] = "owed"
  /\ status' = [r \in Deliveries |-> IF r \in S THEN "parked" ELSE status[r]]
  /\ UNCHANGED handled

Requeue(r) ==
  /\ status[r] = "parked"
  /\ status' = [status EXCEPT ![r] = "owed"]
  /\ UNCHANGED handled

Next ==
  \/ \E e \in Events : Commit(e)
  \/ \E r \in Deliveries : Handle(r) \/ Deliver(r) \/ Requeue(r)
  \/ \E S \in SUBSET Deliveries : Park(S)

Spec == Init /\ [][Next]_vars
=============================================================================
