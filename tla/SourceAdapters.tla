----------------------------- MODULE SourceAdapters -----------------------------
(***************************************************************************)
(* The polled source adapters: a transport hands a payload to ingest,      *)
(* which normalizes and queues it, running or not; the source's runtime    *)
(* swaps the queue for an empty one and forwards what it read through the  *)
(* factory, which names the event after its source's own identity, to the  *)
(* store, where a name is kept once.  Stopping empties the queue.          *)
(*                                                                         *)
(* A payload is [source, a, b, odd, body, time]: a and b are the fields    *)
(* its identity is made of, odd a fault its source's normalizer refuses.   *)
(***************************************************************************)
EXTENDS Integers, Sequences, FiniteSets

CONSTANTS
  Payloads,   \* what the transports deliver
  MaxIngests, \* bound on payloads handed over
  MaxStops    \* bound on stops of the adapters

VARIABLES
  isUp,    \* [Sources -> BOOLEAN]
  queue,      \* [Sources -> sequence of payloads]
  drained,    \* [Sources -> sequence]: read, and not forwarded yet
  storedEvents,     \* the first payload of each event stored
  transport,  \* signal's: [started, up], the adapter's flag and the truth
  ingested, halts,  \* bounded
  admitted, forwarded, refused  \* ghosts: [Sources -> number]

adapterVars == <<isUp, queue, drained, storedEvents, transport, ingested, halts, admitted, forwarded, refused>>

Sources == {"atak", "telegram", "signal", "mqtt", "radio"}
Absent == "absent"
\* A transport delivers to the adapter of its source, and no chat or sender is called "atak".
PayloadsOK == \A p \in Payloads : p.source \in Sources /\ (p.source \in {"telegram", "signal"} => p.a # "atak")

Init ==
  /\ isUp = [s \in Sources |-> FALSE] /\ queue = [s \in Sources |-> <<>>] /\ drained = queue
  /\ storedEvents = {} /\ transport = [started |-> FALSE, up |-> FALSE] /\ ingested = 0 /\ halts = 0
  /\ admitted = [s \in Sources |-> 0] /\ forwarded = admitted /\ refused = admitted

TypeOK ==
  /\ isUp \in [Sources -> BOOLEAN] /\ ingested \in 0 .. MaxIngests /\ halts \in 0 .. MaxStops
  /\ \A s \in Sources : queue[s] \in Seq(Payloads) /\ drained[s] \in Seq(Payloads)
  /\ storedEvents \subseteq Payloads /\ transport \in [started : BOOLEAN, up : BOOLEAN]

\* What the normalizers take.  odd: a position that is out of range or no number, a payload without
\* sender, a quality of service beyond 2 or bytes that are no text, a frequency or strength that is none.
AtakFine(p) == p.a # Absent /\ p.b # Absent /\ ~p.odd
TelegramFine(p) == p.a # Absent /\ p.b # Absent /\ ~p.odd
SignalFine(p) == p.a # Absent /\ p.b # Absent /\ ~p.odd
MqttFine(p) == p.a \notin {Absent, "empty"} /\ p.b # Absent /\ ~p.odd
RadioFine(p) == p.a \notin {Absent, "unreadable"} /\ p.b # Absent /\ ~p.odd
Fine(p) ==
  CASE p.source = "atak" -> AtakFine(p) [] p.source = "telegram" -> TelegramFine(p)
    [] p.source = "signal" -> SignalFine(p) [] p.source = "mqtt" -> MqttFine(p) [] OTHER -> RadioFine(p)

\* The material of an event's identity: atak's uid alone; telegram's and signal's have no prefix.
Identity(p) ==
  CASE p.source \in {"telegram", "signal"} -> <<p.a, p.b>>
    [] p.source = "atak" -> <<"atak", p.a>>
    [] OTHER -> <<p.source, p.a, p.b>>

\* ingest: a payload the normalizer refuses is dropped with a warning, the rest is queued.
Ingest(p) ==
  /\ ingested < MaxIngests /\ ingested' = ingested + 1
  /\ p.source = "signal" => transport.up
  /\ IF Fine(p) THEN queue' = [queue EXCEPT ![p.source] = Append(@, p)] /\ admitted' = [admitted EXCEPT ![p.source] = @ + 1]
                ELSE UNCHANGED <<queue, admitted>>
  /\ UNCHANGED <<isUp, drained, storedEvents, transport, halts, forwarded, refused>>

\* read_events, called when the last batch is forwarded.
ReadEvents(s) ==
  /\ isUp[s] /\ drained[s] = <<>> /\ queue[s] # <<>>
  /\ drained' = [drained EXCEPT ![s] = queue[s]] /\ queue' = [queue EXCEPT ![s] = <<>>]
  /\ UNCHANGED <<isUp, storedEvents, transport, ingested, halts, admitted, forwarded, refused>>

\* The factory reads the first time field: a number too large to be a time is an error, a text
\* that is none makes the event's time the present.
Timed(p) == p.time # "huge"
\* The runtime forwards one record; one the factory refuses is counted as an error and dropped.
Forward(s) ==
  /\ drained[s] # <<>> /\ drained' = [drained EXCEPT ![s] = Tail(@)]
  /\ LET p == Head(drained[s]) IN
       IF Timed(p)
         THEN /\ storedEvents' = (IF \E r \in storedEvents : Identity(r) = Identity(p) THEN storedEvents ELSE storedEvents \cup {p})
              /\ forwarded' = [forwarded EXCEPT ![s] = @ + 1] /\ UNCHANGED refused
         ELSE refused' = [refused EXCEPT ![s] = @ + 1] /\ UNCHANGED <<storedEvents, forwarded>>
  /\ UNCHANGED <<isUp, queue, transport, ingested, halts, admitted>>

StartAdapter(s) ==
  /\ s # "signal" /\ ~isUp[s] /\ isUp' = [isUp EXCEPT ![s] = TRUE]
  /\ UNCHANGED <<queue, drained, storedEvents, transport, ingested, halts, admitted, forwarded, refused>>

\* Signal's adapter runs before its transport is started, and stays so when that raises.
StartSignal(succeeds) ==
  /\ isUp' = [isUp EXCEPT !["signal"] = TRUE] /\ ~(isUp["signal"] /\ transport.started)
  /\ transport' = (IF transport.started \/ ~succeeds THEN transport ELSE [started |-> TRUE, up |-> TRUE])
  /\ UNCHANGED <<queue, drained, storedEvents, ingested, halts, admitted, forwarded, refused>>

\* Its transport's stop may raise, and then may have stopped or not; the flag falls either way.
StopTransport(up) == transport' = (IF transport.started THEN [started |-> FALSE, up |-> up] ELSE transport)

\* Stopping: the queue is dropped, and so is what the runtime had read and not forwarded.
Stop(s, up) ==
  /\ isUp[s] /\ halts < MaxStops /\ halts' = halts + 1 /\ isUp' = [isUp EXCEPT ![s] = FALSE]
  /\ IF s = "signal" THEN StopTransport(up) ELSE UNCHANGED transport
  /\ refused' = [refused EXCEPT ![s] = @ + Len(queue[s]) + Len(drained[s])]
  /\ queue' = [queue EXCEPT ![s] = <<>>] /\ drained' = [drained EXCEPT ![s] = <<>>]
  /\ UNCHANGED <<storedEvents, ingested, admitted, forwarded>>

Next ==
  \/ \E p \in Payloads : Ingest(p)
  \/ \E s \in Sources : ReadEvents(s) \/ Forward(s) \/ StartAdapter(s)
  \/ \E b \in BOOLEAN : StartSignal(b) \/ \E s \in Sources : Stop(s, b /\ s = "signal" /\ transport.up)

Spec == Init /\ [][Next]_adapterVars

\* A payload ingest returned True for is queued, being forwarded, forwarded, or was dropped by a
\* stop or by the factory: none vanishes between ingest and read_events.
AcceptedIsAccounted ==
  \A s \in Sources : admitted[s] = Len(queue[s]) + Len(drained[s]) + forwarded[s] + refused[s]

\* The native message of a payload: a contact of atak is one for all its reports.
SameMessage(p, q) == p.source = q.source /\ p.a = q.a /\ (p.source # "atak" => p.b = q.b)

\* However often and with whatever metadata a message is delivered, it is one event
\* (EventIdentityResolver): so are all the position reports of one atak uid.
RedeliveryIsOneEvent == \A p, q \in storedEvents : SameMessage(p, q) => p = q

\* What is not stored on its own is an earlier delivery of the same message, or a message of the
\* other messenger with the same chat and number, whose identities have no prefix.
MergedIsExplained ==
  [][\A s \in Sources : forwarded'[s] > forwarded[s] =>
       LET p == Head(drained[s]) IN
       \E r \in storedEvents' : SameMessage(r, p) \/ ({r.source, p.source} = {"telegram", "signal"} /\ r.a = p.a /\ r.b = p.b)]_adapterVars

\* While the signal adapter takes its transport for started, it is up: else no start would bring it up.
StartedTransportIsUp == transport.started => transport.up
=============================================================================
