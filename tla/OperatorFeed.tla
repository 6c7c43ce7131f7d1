------------------------------ MODULE OperatorFeed ------------------------------
(***************************************************************************)
(* The operator's views of the durable event log: pages of the REST feed,  *)
(* and the SSE stream with its snapshot, its tail and its resumption from  *)
(* Last-Event-ID.  The service reads a batch with one query and then looks *)
(* up every event of it again; between reads events are appended, deleted, *)
(* or archived, which deletes them and saves them again under a new seq.   *)
(***************************************************************************)
EXTENDS Integers, Sequences, FiniteSetsExt

CONSTANTS
  Events,      \* ids, numbers in the order in which the events are first saved
  Alarming,    \* those of the severity a client may filter on
  PageLimit,   \* limit of a page and of the snapshot
  TailBatch,   \* _SSE_TAIL_BATCH
  MaxDeletes, MaxFaults  \* bounds on deletions and on lost connections

VARIABLES
  log,        \* ids in the durable log and the seq of each
  lastGiven,  \* ghost: the highest seq given so far
  reused,     \* ghost: events saved under a seq not above it
  saved,      \* number of events saved so far
  moved,      \* events saved again after a deletion
  gone,       \* deleted events that archive_event has still to save
  severity,   \* the filter: ids that pass it
  stream,     \* the server's side: [pc, base, cursor, top, items]
  received,   \* [id, seq] of the frames the client has, in order
  start,      \* ghost: where its last snapshot started, or -1
  pages,      \* the client of the REST feed: [pc, cursor, got, stable]; got is how often it was given each event
  deletes, faults

vars == <<log, lastGiven, reused, saved, moved, gone, severity, stream, received, start, pages, deletes, faults>>
logVars == <<log, lastGiven, reused, saved, moved, gone, deletes>>

\* Ids are numbered from 1, and a page and a batch have room.
FeedOK == Events \subseteq Nat \ {0} /\ Alarming \subseteq Events /\ PageLimit \in Nat \ {0} /\ TailBatch \in Nat \ {0}

None == -1
Off == [pc |-> "off", base |-> 0, cursor |-> None, top |-> 0, items |-> <<>>]

Init ==
  /\ log = [e \in {} |-> 0] /\ lastGiven = 0 /\ reused = {} /\ saved = 0 /\ moved = {} /\ gone = {}
  /\ severity \in {Events, Alarming} /\ stream = Off /\ received = <<>> /\ start = None
  /\ pages = [pc |-> "idle", cursor |-> 0, got |-> [e \in Events |-> 0], stable |-> {}]
  /\ deletes = 0 /\ faults = 0

TypeOK ==
  /\ DOMAIN log \subseteq Events /\ stream.pc \in {"off", "fresh", "query", "check", "emit"}
  /\ \A k \in DOMAIN received : received[k].id \in Events
  /\ pages.pc \in {"idle", "paging", "done"} /\ start >= None

Top == IF DOMAIN log = {} THEN 0 ELSE Max({log[e] : e \in DOMAIN log})

\* save: the seq is the highest one in the log plus one, so that of a deleted event is
\* given again when the event was the last.
Save(e) ==
  /\ e \notin DOMAIN log
  /\ log' = [x \in DOMAIN log \cup {e} |-> IF x = e THEN Top + 1 ELSE log[x]]
  /\ lastGiven' = Max({lastGiven, Top + 1}) /\ gone' = gone \ {e}
  /\ reused' = (IF Top + 1 <= lastGiven THEN reused \cup {e} ELSE reused)
  /\ moved' = (IF e \in gone THEN moved \cup {e} ELSE moved)
  /\ UNCHANGED <<severity, stream, received, start, pages, deletes, faults>>
SaveNew(e) == e = saved + 1 /\ saved' = e /\ Save(e)
SaveCopy(e) == e \in gone /\ UNCHANGED saved /\ Save(e)

\* archive_event deletes the event in a transaction of its own.
Delete(e) ==
  /\ e \in DOMAIN log /\ deletes < MaxDeletes /\ deletes' = deletes + 1
  /\ log' = [x \in DOMAIN log \ {e} |-> log[x]] /\ gone' = gone \cup {e}
  /\ pages' = [pages EXCEPT !.stable = @ \ {e}]
  /\ UNCHANGED <<lastGiven, reused, saved, moved, severity, stream, received, start, faults>>

\* query_events: the first events after the cursor, in the order of their seqs.
After(cursor, limit) ==
  LET later == {e \in DOMAIN log : log[e] > cursor} IN
  {ids \in UNION {[1 .. n -> later] : n \in 0 .. limit} :
     /\ \A j, k \in DOMAIN ids : j < k => log[ids[j]] < log[ids[k]]
     /\ \A e \in later \ Range(ids) : Len(ids) = limit /\ \A k \in DOMAIN ids : log[ids[k]] < log[e]}

\* list_events: query_events reads one event more than the page has, to know whether there is
\* another page; the severity filters the page after it is cut, so a page may be empty and not
\* the last.
GetPage ==
  /\ pages.pc \in {"idle", "paging"} /\ stream = Off /\ start = None /\ DOMAIN log # {}
  /\ \E ids \in After(pages.cursor, PageLimit + 1) :
       LET more == Len(ids) > PageLimit
           page == {ids[k] : k \in DOMAIN ids \ {PageLimit + 1}} IN
       pages' = [pc |-> IF more THEN "paging" ELSE "done",
                 cursor |-> IF more THEN log[ids[PageLimit]] ELSE pages.cursor,
                 got |-> [e \in Events |-> pages.got[e] + (IF e \in page \cap severity THEN 1 ELSE 0)],
                 stable |-> IF pages.pc = "idle" THEN DOMAIN log \cap severity ELSE pages.stable]
  /\ UNCHANGED <<logVars, severity, stream, received, start, faults>>

\* A client that reads no pages (the readers share nothing) connects, with the id of the
\* last frame it has.
Connect ==
  /\ stream.pc = "off" /\ pages.pc = "idle"
  /\ stream' = (IF received = <<>> THEN [Off EXCEPT !.pc = "fresh"]
                ELSE [Off EXCEPT !.pc = "query", !.base = received[Len(received)].seq, !.cursor = received[Len(received)].seq])
  /\ UNCHANGED <<logVars, severity, received, start, pages, faults>>

\* The snapshot starts PageLimit below the highest seq.
Snapshot ==
  LET base == IF Top > PageLimit THEN Top - PageLimit ELSE 0 IN
  /\ stream.pc = "fresh" /\ stream' = [stream EXCEPT !.pc = "query", !.base = base, !.top = Top]
  /\ start' = base
  /\ UNCHANGED <<logVars, severity, received, pages, faults>>

\* events_after_seq_bounded: one query; a tail poll that finds nothing changes nothing.
Query ==
  /\ stream.pc = "query"
  /\ \E items \in IF stream.cursor = None THEN After(stream.base, PageLimit) ELSE After(stream.cursor, TailBatch) :
       /\ stream.cursor = None \/ items # <<>>
       /\ stream' = [stream EXCEPT !.pc = "check", !.items = items]
  /\ UNCHANGED <<logVars, severity, received, start, pages, faults>>

\* Every event of the batch is read again; one that is gone ends the stream.
Check ==
  /\ stream.pc = "check"
  /\ stream' = (IF \A k \in DOMAIN stream.items : stream.items[k] \in DOMAIN log
                THEN [stream EXCEPT !.pc = "emit", !.items = [k \in DOMAIN @ |-> [id |-> @[k], seq |-> log[@[k]]]]]
                ELSE Off)
  /\ UNCHANGED <<logVars, severity, received, start, pages, faults>>

\* A frame; an event that is filtered out advances the cursor all the same.
Emit ==
  LET item == Head(stream.items) IN
  /\ stream.pc = "emit" /\ stream.items # <<>>
  /\ stream' = [stream EXCEPT !.cursor = item.seq, !.items = Tail(@)]
  /\ received' = (IF item.id \in severity THEN Append(received, item) ELSE received)
  /\ UNCHANGED <<logVars, severity, start, pages, faults>>

\* Mutated form: the tail goes on from the highest seq there is.
EndBatch_Newest ==
  /\ stream.pc = "emit" /\ stream.items = <<>>
  /\ stream' = [stream EXCEPT !.pc = "query", !.cursor = Top]
  /\ UNCHANGED <<logVars, severity, received, start, pages, faults>>
\* The end of a batch; after an empty snapshot the tail starts at the highest seq it saw.
EndBatch ==
  /\ stream.pc = "emit" /\ stream.items = <<>>
  /\ stream' = [stream EXCEPT !.pc = "query", !.cursor = IF @ = None THEN stream.top ELSE @]
  /\ UNCHANGED <<logVars, severity, received, start, pages, faults>>

\* The connection is lost, or a read fails and the stream ends with an error frame.
Disconnect ==
  /\ stream.pc # "off" /\ faults < MaxFaults /\ faults' = faults + 1 /\ stream' = Off
  /\ UNCHANGED <<logVars, severity, received, start, pages>>

Next ==
  \/ \E e \in Events : SaveNew(e) \/ SaveCopy(e) \/ Delete(e)
  \/ GetPage \/ Connect \/ Snapshot \/ Query \/ Check \/ Emit \/ EndBatch \/ Disconnect

\* The server polls, the client reconnects; nothing need be saved.
Fairness == WF_vars(Connect) /\ WF_vars(Snapshot \/ Query \/ Check \/ Emit \/ EndBatch)

Spec == Init /\ [][Next]_vars /\ Fairness

(***************************************************************************)
(* Properties.                                                             *)
(***************************************************************************)

\* The frame of an event that was never archived comes before every frame sent later in the
\* order of the log, so it is never sent twice, across snapshots, polls and reconnections and
\* whatever is archived meanwhile.
FramesInOrder ==
  \A j, k \in DOMAIN received :
    j < k /\ received[j].id \notin moved \cup gone => received[j].seq < received[k].seq

\* Events of the log that nothing has moved behind: neither archived themselves nor saved under
\* a seq given before, and every event that was archived is in the log, and before them.
Undisturbed ==
  {e \in DOMAIN log \ (reused \cup moved) : \A m \in moved : m \in DOMAIN log /\ log[m] < log[e]}

\* A client that has a frame has those of all undisturbed events before it in the log that pass
\* its filter, from the start of its snapshot on: an event is lost to it only when, after it was
\* saved, another one was archived, which, read again in a batch, takes the cursor past it.
NothingSkipped ==
  received # <<>> =>
    \A e \in Undisturbed \cap severity :
      log[e] > start /\ log[e] <= received[Len(received)].seq => \E k \in DOMAIN received : received[k].id = e

\* Pages read to the last hold, once, each event that was in the log from the first to the
\* last and passes the filter.
PagesAreComplete ==
  pages.pc = "done" =>
    /\ \A e \in pages.stable : pages.got[e] > 0
    /\ \A e \in Events \ (moved \cup gone) : pages.got[e] <= 1

\* An event in the log beyond what the client has is sent to it, or leaves the log, unless
\* its seq had been given before or an event was moved; events filtered out do not hold it up.
EventsAreStreamed ==
  \A e \in Alarming :
    (e \in DOMAIN log /\ start # None /\ log[e] > start /\ e \notin reused)
      ~> (moved # {} \/ e \notin DOMAIN log \/ log[e] <= start \/ e \in reused \/ \E k \in DOMAIN received : received[k].id = e)
=============================================================================
