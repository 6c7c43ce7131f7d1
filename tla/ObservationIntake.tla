-------------------------- MODULE ObservationIntake ---------------------------
(***************************************************************************)
(* ObservationService as a subscriber of the canonical EventBus and of the *)
(* legacy one: each event becomes at most one row of the observations      *)
(* table.  The pipeline's lock serialises the publishing threads, so the   *)
(* service's one session sees one event at a time; events are delivered    *)
(* again after a crash, which the unique immutable_id answers, and may be  *)
(* handed in without a bus.  An event is [id, source, fields]; other       *)
(* contents are left out.                                                  *)
(***************************************************************************)
EXTENDS Integers, FiniteSets

CONSTANTS
  Events,      \* the events that are published, see the comment above
  MaxPublish,  \* bound on deliveries
  MaxFaults    \* bound on failures of the database and on crashes

VARIABLES
  rows,      \* committed observations: set of NewRow, with the delivery that made it
  session,   \* "clean", "failed" (needs a rollback), or the flushed row
  bus,       \* subscriptions of the service on the bus, handles 1, 2, ...
  handle,    \* _canonical_subscription, 0 for None
  subs,      \* number of subscriptions made
  running,   \* _running: subscribed to the legacy bus
  event,     \* the event published last, NoEvent when the subscriptions have changed since
  targets,   \* how many subscriptions it was published to
  left,      \* how many of them are still to be called with it
  route,     \* how it comes: from which bus, or by hand
  pc,        \* "idle", "persist", "commit", "recover"
  stats,     \* [received, processed, failed] of this process
  kept,      \* ghost: rows this process committed for a bus
  tainted,   \* ghost: the session had failed when the event came, or an event by hand failed
  published, dbFaults

vars == <<rows, session, bus, handle, subs, running, event, targets, left, route, pc, stats, kept,
          tainted, published, dbFaults>>
busVars == <<bus, handle, subs, running>>
eventVars == <<event, targets, left, route, tainted, published>>

NoEvent == [id |-> "", source |-> "", fields |-> {}]
Zero == [received |-> 0, processed |-> 0, failed |-> 0]

Init ==
  /\ rows = {} /\ session = "clean" /\ bus = {} /\ handle = 0 /\ subs = 0
  /\ event = NoEvent /\ targets = 0 /\ left = 0 /\ route = "canonical" /\ tainted = FALSE
  /\ running = FALSE /\ pc = "idle" /\ stats = Zero /\ kept = 0
  /\ published = 0 /\ dbFaults = 0

TypeOK ==
  /\ \A r \in rows : \E e \in Events : e.id = r.id
  /\ pc \in {"idle", "persist", "commit", "recover"} /\ handle \in 0 .. subs
  /\ left \in 0 .. targets /\ running \in BOOLEAN /\ route \in {"canonical", "legacy", "hand"} /\ tainted \in BOOLEAN

\* CanonicalEventToObservationAdapter.derive_event_type, by source and recording block.
EventType(e) ==
  CASE e.source = "radio" /\ "recording" \in e.fields -> "radio.recording"
    [] e.source = "radio" /\ "recording" \notin e.fields -> "radio.transmission"
    [] e.source = "telegram" -> "telegram.message"
    [] e.source = "whatsapp" -> "whatsapp.message"
    [] OTHER -> "custom"

\* EVENT_TYPE_MAPPINGS: required_fields of the sources of production.
Required(t) ==
  CASE t = "radio.transmission" -> {"frequency", "callsign"}
    [] t = "telegram.message" -> {"chat_id", "text"}
    [] t = "whatsapp.message" -> {"message_id", "phone_number_id"}
    [] OTHER -> {}

\* get_mapping: the kind of observation and of source, the default one for other types.
Mapping(t) ==
  IF t \in {"radio.transmission", "radio.recording"} THEN [kind |-> "radio", by |-> "driver"]
                                                    ELSE [kind |-> "other", by |-> "plugin"]

\* field_mapping: the names under which fields of the event are repeated in the evidence.
Alias(t, f) ==
  IF t = "whatsapp.message"
  THEN CASE f = "sender" -> "source" [] f = "text" -> "content" [] f = "phone_number_id" -> "channel" [] OTHER -> f
  ELSE f

\* map_event_to_observation: all of the event's data is evidence; the canonical id is the immutable one.
Observation(e) ==
  LET t == EventType(e) IN
  [id |-> e.id, type |-> t, kind |-> Mapping(t).kind, source |-> e.source, by |-> Mapping(t).by,
   evidence |-> e.fields \cup {Alias(t, f) : f \in e.fields}, tags |-> {Mapping(t).kind, e.source}]

\* ObservationFactory.create_observation: the row of an observation, in its first status.
NewRow(e, n) == [observation |-> Observation(e), status |-> "received", delivery |-> n, id |-> e.id]

\* ObservationProcessor._validate_event.
Valid(e) == e.fields # {} /\ Required(EventType(e)) \subseteq e.fields

\* Subscriptions change while no event is published.
Quiet == pc = "idle" /\ left = 0
Renewed == event' = NoEvent /\ UNCHANGED <<rows, session, targets, left, route, tainted, pc, stats, kept, published, dbFaults>>

\* subscribe_canonical: a second call changes nothing.
Subscribe ==
  /\ Quiet /\ handle = 0 /\ subs < 2
  /\ subs' = subs + 1 /\ handle' = subs + 1 /\ bus' = bus \cup {subs + 1}
  /\ Renewed /\ UNCHANGED running

\* unsubscribe_canonical; without the bus the handle is forgotten and the bus keeps it.
Unsubscribe(withBus) ==
  /\ Quiet /\ handle # 0
  /\ bus' = IF withBus THEN bus \ {handle} ELSE bus
  /\ handle' = 0 /\ Renewed /\ UNCHANGED <<subs, running>>

\* start and stop: the service's one subscription on the legacy bus.
Start == Quiet /\ ~running /\ running' = TRUE /\ Renewed /\ UNCHANGED <<bus, handle, subs>>
Stop == Quiet /\ running /\ running' = FALSE /\ Renewed /\ UNCHANGED <<bus, handle, subs>>

Handed(e, n, r) ==
  /\ Quiet /\ published < MaxPublish /\ published' = published + 1
  /\ event' = e /\ targets' = n /\ route' = r /\ tainted' = (session = "failed")
  /\ UNCHANGED <<rows, session, busVars, stats, kept, dbFaults>>

\* EventBus.publish takes a copy of the subscriptions and calls one after the other.
Publish(e) == Handed(e, Cardinality(bus), "canonical") /\ left' = Cardinality(bus) /\ UNCHANGED pc
PublishLegacy(e) == running /\ Handed(e, 1, "legacy") /\ left' = 1 /\ UNCHANGED pc

\* process_event_manually: the processor alone, so nothing is counted and nothing is rolled back.
ByHand(e) == Handed(e, 1, "hand") /\ left' = 0 /\ pc' = IF Valid(e) THEN "persist" ELSE "idle"

Counted(f) == [stats EXCEPT ![f] = @ + 1]

\* A subscription is called: the event is counted, parsed and validated.  An invalid one is a
\* failed result, after which the session is rolled back like after any other.
Taken(from) ==
  /\ pc = "idle" /\ left > 0 /\ route = from
  /\ left' = left - 1 /\ stats' = Counted("received")
  /\ pc' = IF Valid(event) THEN "persist" ELSE "recover"
  /\ UNCHANGED <<rows, session, busVars, event, targets, route, tainted, published, kept, dbFaults>>

\* _handle_canonical_event, and _handle_event of the legacy bus.
Handle == Taken("canonical")
HandleLegacy == Taken("legacy")

\* What follows a failure of the processor.
Failed == session' = "failed" /\ pc' = (IF route = "hand" THEN "idle" ELSE "recover") /\ tainted' = (tainted \/ route = "hand")

\* BaseRepository.create: add and flush.  A session that failed refuses; a duplicate and
\* a fault of the database leave it failed.
Persist(fault) ==
  /\ pc = "persist" /\ dbFaults' = (IF fault THEN dbFaults + 1 ELSE dbFaults) /\ dbFaults' <= MaxFaults
  /\ IF session = "failed" \/ fault \/ \E r \in rows : r.id = event.id
     THEN Failed
     ELSE session' = NewRow(event, published) /\ pc' = "commit" /\ UNCHANGED tainted
  /\ UNCHANGED <<rows, busVars, event, targets, left, route, published, stats, kept>>

\* Session.commit, which may fail too.
Commit(fault) ==
  /\ pc = "commit" /\ dbFaults' = (IF fault THEN dbFaults + 1 ELSE dbFaults) /\ dbFaults' <= MaxFaults
  /\ IF fault THEN Failed /\ UNCHANGED <<rows, stats, kept>>
     ELSE /\ rows' = rows \cup {session} /\ session' = "clean" /\ pc' = "idle"
          /\ IF route = "hand" THEN UNCHANGED <<stats, kept>> ELSE stats' = Counted("processed") /\ kept' = kept + 1
          /\ UNCHANGED tainted
  /\ UNCHANGED <<busVars, event, targets, left, route, published>>

\* Mutated form: the session is left as it is.
Recover_NoRollback ==
  /\ pc = "recover" /\ pc' = "idle" /\ stats' = Counted("failed")
  /\ UNCHANGED <<rows, session, busVars, eventVars, kept, dbFaults>>
\* The failure is counted, and _recover_session rolls back.
Recover ==
  /\ pc = "recover" /\ pc' = "idle" /\ session' = "clean" /\ stats' = Counted("failed")
  /\ UNCHANGED <<rows, busVars, eventVars, kept, dbFaults>>

\* The process ends and a new one starts: what was not committed is gone.
Crash ==
  /\ dbFaults < MaxFaults /\ dbFaults' = dbFaults + 1
  /\ session' = "clean" /\ bus' = {} /\ handle' = 0 /\ running' = FALSE
  /\ event' = NoEvent /\ targets' = 0 /\ left' = 0 /\ route' = "canonical" /\ tainted' = FALSE
  /\ pc' = "idle" /\ stats' = Zero /\ kept' = 0
  /\ UNCHANGED <<rows, subs, published>>

Next ==
  \/ Subscribe \/ (\E b \in BOOLEAN : Unsubscribe(b)) \/ Start \/ Stop
  \/ \E e \in Events : Publish(e) \/ PublishLegacy(e) \/ ByHand(e)
  \/ Handle \/ HandleLegacy \/ (\E f \in BOOLEAN : Persist(f) \/ Commit(f)) \/ Recover \/ Crash

Spec == Init /\ [][Next]_vars

(***************************************************************************)
(* Properties.                                                             *)
(***************************************************************************)

\* However often an event is delivered it has one observation, even when the service is
\* subscribed twice, and the observation is of a valid event and keeps all of its data.
ObservedOnce ==
  /\ \A r, q \in rows : r.id = q.id => r = q
  /\ \A r \in rows : \E e \in Events :
       e.id = r.id /\ Valid(e) /\ r.observation.type = EventType(e) /\ e.fields \subseteq r.observation.evidence

\* No failure outlives its event: between deliveries the session can be used, unless an event
\* was handed in by hand and failed, after which the next one fails too.
FailureEndsWithEvent == pc \in {"idle", "persist"} => session = "clean" \/ tainted

\* What is counted as processed was committed, and nothing received is left uncounted.
StatsAreTrue ==
  /\ stats.processed = kept
  /\ stats.received = stats.processed + stats.failed + (IF pc = "idle" \/ route = "hand" THEN 0 ELSE 1)

\* Unless the database fails or the process ends, a valid event that a subscriber was
\* called with is observed when the call returns.  A recording with its block is valid.
ValidIsObserved ==
  pc = "idle" /\ dbFaults = 0 /\ event # NoEvent /\ left < targets /\ ~tainted
  /\ (Valid(event) \/ EventType(event) = "radio.recording")
    => \E r \in rows : r.id = event.id
=============================================================================
