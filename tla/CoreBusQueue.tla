----------------------------- MODULE CoreBusQueue ----------------------------
(***************************************************************************)
(* The queue of core.EventBus, which publish_async fills and a worker      *)
(* empties by publishing what it takes (see CoreBus).  BusMessage defines  *)
(* no order, so the heap of the PriorityQueue raises TypeError whenever it *)
(* has to compare two messages: see Put and Popped.                        *)
(***************************************************************************)
EXTENDS Integers, Sequences, Functions

CONSTANTS Messages, Workers,
  MaxQueue,   \* max_queue_size
  MaxStarts   \* bound on starts of the worker

\* A message is none of the names of a worker's place.
MessagesOK == MaxQueue \in Nat /\ Messages \cap {"off", "top", "get"} = {}

VARIABLES
  heap,      \* the queue's heap array
  running,   \* _running
  wst,       \* per worker: "off", "top", "get", or the message it publishes
  stopper,   \* the control thread is in stop_async_processing
  unsent, published, lost, dropped,  \* messages, by what became of them
  starts,
  late       \* ghost: a stop gave up waiting

vars == <<heap, running, wst, stopper, unsent, published, lost, dropped, starts, late>>

Init ==
  /\ heap = <<>> /\ running = FALSE /\ wst = [t \in Workers |-> "off"] /\ stopper = FALSE
  /\ unsent = Messages /\ published = <<>> /\ lost = {} /\ dropped = {}
  /\ starts = 0 /\ late = FALSE

TypeOK ==
  /\ Len(heap) <= MaxQueue /\ Range(heap) \cup lost \cup dropped \cup unsent \subseteq Messages
  /\ \A t \in Workers : wst[t] \in {"off", "top", "get"} \cup Messages

\* put_nowait in publish_async: a full queue drops the message and answers False; the
\* heap of a queue that is not empty appends the message and then raises.
Put(m) == IF Len(heap) >= MaxQueue THEN dropped' = dropped \cup {m} /\ UNCHANGED heap
                                   ELSE heap' = Append(heap, m) /\ UNCHANGED dropped
PublishAsync(m) ==
  /\ m \in unsent /\ unsent' = unsent \ {m}
  /\ Put(m)
  /\ UNCHANGED <<running, wst, stopper, published, lost, late, starts>>

\* heappop of one or two messages compares nothing.  With three it moves the second up
\* and fails, with more it fails at once, the last in the first's place: the first message is in
\* no list any more.
Popped(q) ==
  LET n == Len(q)
  IN [got |-> n <= 2,
      rest |-> IF n <= 3 THEN Tail(q) ELSE [k \in 1 .. n - 1 |-> IF k = 1 THEN q[n] ELSE q[k]]]

\* start_async_processing and stop_async_processing, called by one control thread.
StartProcessing(t) ==
  /\ ~running /\ ~stopper /\ wst[t] = "off" /\ starts < MaxStarts /\ starts' = starts + 1
  /\ running' = TRUE /\ wst' = [wst EXCEPT ![t] = "top"]
  /\ UNCHANGED <<heap, stopper, unsent, published, lost, dropped, late>>

StopBegin ==
  /\ running /\ running' = FALSE /\ stopper' = TRUE
  /\ UNCHANGED <<heap, wst, unsent, published, lost, dropped, late, starts>>

\* The join waits five seconds; a handler may take longer.
StopEnd ==
  /\ stopper /\ stopper' = FALSE
  /\ late' = (late \/ \E t \in Workers : wst[t] # "off")
  /\ (\A t \in Workers : wst[t] = "off") \/ \E t \in Workers : wst[t] \in Messages
  /\ UNCHANGED <<heap, running, wst, unsent, published, lost, dropped, starts>>

\* _process_messages: the loop's test, ...
LoopTest(t) ==
  /\ wst[t] = "top"
  /\ wst' = [wst EXCEPT ![t] = IF running THEN "get" ELSE "off"]
  /\ UNCHANGED <<heap, running, stopper, unsent, published, lost, dropped, late, starts>>

\* ... get(timeout=1.0), whose exceptions the loop survives, ...
Get(t) ==
  /\ wst[t] = "get"
  /\ IF heap = <<>> THEN wst' = [wst EXCEPT ![t] = "top"] /\ UNCHANGED <<heap, lost>>
     ELSE /\ heap' = Popped(heap).rest
          /\ IF Popped(heap).got
             THEN wst' = [wst EXCEPT ![t] = Head(heap)] /\ UNCHANGED lost
             ELSE wst' = [wst EXCEPT ![t] = "top"] /\ lost' = lost \cup {Head(heap)}
  /\ UNCHANGED <<running, stopper, unsent, published, dropped, late, starts>>

\* ... and publish returns.
WorkerPublishes(t) ==
  /\ wst[t] \in Messages
  /\ published' = Append(published, wst[t]) /\ wst' = [wst EXCEPT ![t] = "top"]
  /\ UNCHANGED <<heap, running, stopper, unsent, lost, dropped, late, starts>>

Next ==
  \/ \E m \in Messages : PublishAsync(m)
  \/ \E t \in Workers : StartProcessing(t) \/ LoopTest(t) \/ Get(t) \/ WorkerPublishes(t)
  \/ StopBegin \/ StopEnd

\* The worker thread runs, and handlers return.
Fairness == \A t \in Workers : WF_vars(LoopTest(t)) /\ WF_vars(Get(t)) /\ WF_vars(WorkerPublishes(t))
Spec == Init /\ [][Next]_vars /\ Fairness

(***************************************************************************)
(* Properties.                                                             *)
(***************************************************************************)

\* Every message is in one place, is published at most once, and only the crowd of three
\* in the heap loses one.
Held == {wst[t] : t \in Workers} \cap Messages
MessagesConserved ==
  /\ Messages = unsent \cup Range(heap) \cup Held \cup Range(published) \cup lost \cup dropped
  /\ unsent \cap (Range(heap) \cup Held \cup Range(published) \cup lost \cup dropped) = {}
  /\ Range(heap) \cap (Held \cup Range(published) \cup lost \cup dropped) = {}
  /\ Held \cap (Range(published) \cup lost \cup dropped) = {}
  /\ Range(published) \cap (lost \cup dropped) = {} /\ lost \cap dropped = {}
  /\ IsInjective(heap) /\ IsInjective(published)
  /\ \A t, u \in Workers : wst[t] = wst[u] /\ wst[t] \in Messages => t = u

\* Unless a stop gave up on a slow handler, there is one worker, so that messages are
\* published one after the other in the order in which they were taken.
OneBusWorker == ~late => \A t, u \in Workers : wst[t] # "off" /\ wst[u] # "off" => t = u

\* Unless the worker is stopped, there comes again and again a moment at which whatever was queued
\* is published, or was lost by the heap.
QueuedIsPublished ==
  []<>(~running \/ Messages \ (unsent \cup dropped) \subseteq Range(published) \cup lost)
=============================================================================
