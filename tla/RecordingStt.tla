---------------------------- MODULE RecordingStt ----------------------------
(***************************************************************************)
(* RecordingSttWorker.transcribe for one recording: the artifact resolved  *)
(* and verified by RecordingAccess, read again and verified again,         *)
(* transcribed, cached, and handed on as evidence, which                  *)
(* TranscriptEnrichmentEngine and RadioEventIntegrator make an event of.   *)
(* The file may change or vanish between any two steps.                    *)
(***************************************************************************)
EXTENDS Integers, Sequences, FiniteSets

CONSTANTS
  Clients,    \* threads that call transcribe
  MaxChanges, \* bound on changes of the file and of the engine's readiness
  MaxCalls    \* bound on calls

VARIABLES
  recordedSha,     \* the recorded digest: of the "original", or "malformed"
  file,       \* "original", "altered", "missing"
  engine,     \* a transcriber was given
  ready,      \* is_ready()
  qpc,        \* client -> "idle", "resolved", "read"
  gotBytes,   \* client -> what it read
  result,     \* _result has the recording
  failures,
  runs,       \* ghost: transcriptions
  evidence,   \* raws passed to on_transcript: [sha, text]
  unheard,    \* ghost: the hook raised
  madeEvents, \* final events in the log
  changes, demands

qvars == <<recordedSha, file, engine, ready, qpc, gotBytes, result, failures, runs, evidence, unheard,
           madeEvents, changes, demands>>

TypeOK ==
  /\ result \in BOOLEAN /\ failures <= demands
  /\ \A c \in Clients : qpc[c] = "read" => gotBytes[c] # "missing"

Init ==
  /\ recordedSha \in {"original", "malformed"} /\ file = "original"
  /\ engine \in BOOLEAN /\ ready \in BOOLEAN
  /\ qpc = [c \in Clients |-> "idle"] /\ gotBytes = [c \in Clients |-> "missing"]
  /\ result = FALSE /\ failures = 0 /\ runs = 0
  /\ evidence = {} /\ unheard = FALSE /\ madeEvents = {} /\ changes = 0 /\ demands = 0

\* The file is altered, restored or removed; the engine gets ready or unready.
Change ==
  /\ changes < MaxChanges /\ changes' = changes + 1
  /\ \/ file' \in {"original", "altered", "missing"} \ {file} /\ UNCHANGED ready
     \/ ready' = ~ready /\ UNCHANGED file
  /\ UNCHANGED <<recordedSha, engine, qpc, gotBytes, result, failures, runs, evidence, unheard, madeEvents, demands>>

\* RecordingAccess.resolve: a regular file whose digest is the stored one.
Verified == file # "missing" /\ recordedSha = "original" /\ file = recordedSha

\* transcribe, _resolve: an artifact, or a typed error.
Resolve(c) ==
  /\ qpc[c] = "idle" /\ demands < MaxCalls
  /\ demands' = demands + 1
  /\ qpc' = [qpc EXCEPT ![c] = IF Verified THEN "resolved" ELSE "idle"]
  /\ UNCHANGED <<recordedSha, file, engine, ready, gotBytes, result, failures, runs, evidence, unheard, madeEvents, changes>>

\* _transcribe_artifact: the cached result is returned ...
ReturnCached(c) ==
  /\ qpc[c] = "resolved" /\ result
  /\ qpc' = [qpc EXCEPT ![c] = "idle"]
  /\ UNCHANGED <<recordedSha, file, engine, ready, gotBytes, result, failures, runs, evidence, unheard, madeEvents, changes, demands>>

\* ... or, with an engine, _read_media verifies the bytes it reads.
MediaOk == file = "original"
ReadMedia(c) ==
  /\ qpc[c] = "resolved" /\ ~result
  /\ IF engine /\ MediaOk
     THEN qpc' = [qpc EXCEPT ![c] = "read"] /\ gotBytes' = [gotBytes EXCEPT ![c] = file]
     ELSE qpc' = [qpc EXCEPT ![c] = "idle"] /\ UNCHANGED gotBytes
  /\ failures' = IF engine THEN failures ELSE failures + 1
  /\ UNCHANGED <<recordedSha, file, engine, ready, result, runs, evidence, unheard, madeEvents, changes, demands>>

\* The transcriber is not ready or raises.
SttFails(c) ==
  /\ qpc[c] = "read"
  /\ qpc' = [qpc EXCEPT ![c] = "idle"] /\ failures' = failures + 1
  /\ UNCHANGED <<recordedSha, file, engine, ready, gotBytes, result, runs, evidence, unheard, madeEvents, changes, demands>>

\* What the engine may hear: the strategies of the detector that find something in the text.
Texts == {{}, {"heuristic"}, {"configured", "heuristic"}}

\* CallsignDetector.detect: the first strategy that finds something is the only one used.
Detected(text) ==
  LET order == <<"configured", "pattern", "heuristic">>
      hits == {i \in DOMAIN order : order[i] \in text} IN
  IF hits = {} THEN [method |-> "none", callsigns |-> {}]
  ELSE LET m == order[CHOOSE i \in hits : \A j \in hits : i <= j] IN [method |-> m, callsigns |-> {m}]

\* TranscriptEnrichmentEngine.enrich: the transcript as it is, beside it what was detected; the
\* identities are those of the recording, of its transcript and of the enrichment.
Enrichment(e) ==
  [recording |-> "rid", transcript |-> <<"rid", "transcript">>, content |-> <<"rid", "transcript", "enrichment">>,
   wav |-> e.sha, text |-> e.text, detected |-> Detected(e.text)]

\* RadioEventIntegrator.build_raw, resolve_event_id: the event of an enrichment, and its id,
\* which says nothing of the text.
RadioIdentity(content) == <<"radio", "content">> \o content
FinalEvent(n) ==
  [id |-> RadioIdentity(n.content), recording |-> [id |-> n.recording, wav |-> n.wav],
   text |-> n.text, callsigns |-> n.detected.callsigns]

\* The log has one event of an id, the first.
Logged(log, ev) == IF \E l \in log : l.id = ev.id THEN log ELSE log \cup {ev}

Cached(heard) == TRUE

\* The engine transcribes; the result is cached; then on_transcript, which may raise.
Transcribe(c, heard, text) ==
  /\ qpc[c] = "read" /\ ready
  /\ qpc' = [qpc EXCEPT ![c] = "idle"]
  /\ runs' = runs + 1
  /\ result' = (result \/ Cached(heard))
  /\ LET e == [sha |-> gotBytes[c], text |-> text] IN
     IF heard THEN /\ evidence' = evidence \cup {e}
                   /\ madeEvents' = Logged(madeEvents, FinalEvent(Enrichment(e)))
                   /\ UNCHANGED unheard
              ELSE unheard' = TRUE /\ UNCHANGED <<evidence, madeEvents>>
  /\ UNCHANGED <<recordedSha, file, engine, ready, gotBytes, failures, changes, demands>>

Next ==
  \/ Change
  \/ \E c \in Clients :
       \/ Resolve(c) \/ ReturnCached(c) \/ ReadMedia(c) \/ SttFails(c)
       \/ \E heard \in BOOLEAN, text \in Texts : Transcribe(c, heard, text)

Spec == Init /\ [][Next]_qvars

\* "NO verified stored SHA-256 -> NO media bytes consumed": whatever happens to the
\* file between resolution and reading, a transcript is of the recorded bytes.
OnlyVerifiedBytes == \A e \in evidence : e.sha = "original" /\ recordedSha = "original"

\* "STT is not re-run for an already-processed contract": there is one run, or one for
\* each client that had read before the first result was cached.
RunOncePerContract == runs <= Cardinality(Clients)

\* A cached result was handed on, or its hook raised (and is never called again); the
\* transcripts of one recording, however they differ, are one event, of the verified bytes.
CachedIsHeard ==
  /\ result => unheard \/ evidence # {}
  /\ Cardinality(madeEvents) <= 1 /\ (evidence # {} => madeEvents # {})
  /\ \A ev \in madeEvents : ev.recording.wav = "original"
=============================================================================
