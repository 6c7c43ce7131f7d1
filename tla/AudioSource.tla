---------------------------- MODULE AudioSource -----------------------------
(***************************************************************************)
(* One RTP flow of a MulticastAudioSourceAdapter: its recorder segments    *)
(* the PCM frames into recordings, each is written as a WAV file, queued   *)
(* as an event for read_events(), and handed to the speech-to-text worker, *)
(* whose transcript is queued too.  Frames are numbered as they come; all  *)
(* durations are in frames.  The VAD's verdict is an input of Frame.  A    *)
(* source of the older protocol has no recorder: it transcribes each       *)
(* segment it receives at once.                                            *)
(***************************************************************************)
EXTENDS Integers, Sequences, SequencesExt, FiniteSets, FiniteSetsExt

CONSTANTS
  PreRoll, PostRoll, MinSpeech, SilenceTimeout, MaxSegment, \* SegmentConfig
  SttQueueMax,
  MaxFrames,   \* bound on the frames of a run
  MaxStops     \* bound on adapter stops

SegmentOK ==
  /\ {PreRoll, PostRoll} \subseteq Nat
  /\ {MinSpeech, SilenceTimeout, MaxSegment} \subseteq Nat \ {0}
  /\ MaxSegment > PreRoll + MinSpeech /\ PreRoll > 0

VARIABLES
  setup,      \* [protocol, stt], one of Setups
  running,    \* "up", "stopping" (receiver down, recorders shut), "down"
  clock,      \* frames received so far
  seg,        \* the segmenter: [st, pre, pend, rec, quiet]
  recordings, \* finalized segments: [frames, reason, wav, complete]
  rawq,       \* the adapter's queue of raw events: <<kind, recording>>
  delivered,  \* raw events returned by read_events
  jobs,       \* SttWorker's queue
  working,    \* the recording the worker is at, 0 for none
  sttUp,      \* the worker thread runs
  settled,    \* recordings the worker has transcribed or failed
  refused,    \* recordings not accepted by the worker
  stops,
  voiced,     \* ghost: frames the VAD called speech
  cuts        \* ghost: frames after which a recording or pending speech was cut

vars == <<setup, running, clock, seg, recordings, rawq, delivered, jobs, working, sttUp, settled, refused,
          stops, voiced, cuts>>

Larger(a, b) == IF a > b THEN a ELSE b
Frames(s) == Range(s)
Idle == [st |-> "idle", pre |-> <<>>, pend |-> <<>>, rec |-> <<>>, quiet |-> 0]

\* A worker without an engine is never started and refuses every job; the older protocol has
\* an engine of its own or none.
SttStates == {"DISABLED", "UNAVAILABLE", "AVAILABLE"}
Setups == [protocol : {"rtp"}, stt : SttStates] \cup [protocol : {"tca1"}, stt : {"DISABLED", "AVAILABLE"}]

TypeOK ==
  /\ setup \in Setups
  /\ running \in {"up", "stopping", "down"}
  /\ seg.st \in {"idle", "recording", "tail"}
  /\ (seg.st = "idle") = (seg.rec = <<>>)
  /\ seg.st # "idle" => seg.pre = <<>> /\ seg.pend = <<>>
  /\ Len(seg.pre) <= PreRoll /\ Len(seg.pend) < MinSpeech
  /\ Len(jobs) <= SttQueueMax
  /\ working \in 0 .. Len(recordings)

Init ==
  /\ setup \in Setups /\ running = "up" /\ clock = 0 /\ seg = Idle
  /\ recordings = <<>> /\ rawq = <<>> /\ delivered = {}
  /\ jobs = <<>> /\ working = 0 /\ sttUp = (setup.stt = "AVAILABLE") /\ settled = {} /\ refused = {}
  /\ stops = 0 /\ voiced = {} /\ cuts = {}

(***************************************************************************)
(* TransmissionSegmenter.process: the next state, and why it finalizes.    *)
(***************************************************************************)

\* _push_prebuffer.
Pushed(pre, k) == LET q == Append(pre, k) IN IF Len(q) > PreRoll THEN Tail(q) ELSE q

\* _finalize_silence_ms.
FinalizeSilence == Larger(PostRoll, SilenceTimeout)

\* Mutated form: the confirming frames are not recorded.
WhileIdle_DropsPending(k, v) ==
  IF ~v THEN [seg EXCEPT !.pre = Pushed(@, k), !.pend = <<>>]
  ELSE IF Len(seg.pend) + 1 < MinSpeech THEN [seg EXCEPT !.pend = Append(@, k)]
  ELSE [Idle EXCEPT !.st = "recording", !.rec = Append(seg.pre, k)]

\* IDLE, with _start_recording.
WhileIdle(k, v) ==
  IF ~v THEN [seg EXCEPT !.pre = Pushed(@, k), !.pend = <<>>]
  ELSE IF Len(seg.pend) + 1 < MinSpeech THEN [seg EXCEPT !.pend = Append(@, k)]
  ELSE [Idle EXCEPT !.st = "recording", !.rec = seg.pre \o Append(seg.pend, k)]

\* RECORDING and TAIL.
WhileRecording(k, v) ==
  [seg EXCEPT !.rec = Append(@, k), !.st = IF v THEN "recording" ELSE "tail",
              !.quiet = IF v THEN 0 ELSE IF seg.st = "tail" THEN @ + 1 ELSE 1]

Process(k, v) == IF seg.st = "idle" THEN WhileIdle(k, v) ELSE WhileRecording(k, v)

\* A silent frame in TAIL may end the transmission; any frame may reach the maximum.
Reason(s, v) ==
  IF seg.st = "idle" THEN "none"
  ELSE IF seg.st = "tail" /\ ~v /\ s.quiet >= FinalizeSilence THEN "silence"
  ELSE IF Len(s.rec) >= MaxSegment THEN "max" ELSE "none"

(***************************************************************************)
(* TransmissionRecorder._finalize and the adapter's _on_recording.         *)
(***************************************************************************)

\* SttWorker.submit (recording ids differ, so none is a duplicate).
Submitted(i) ==
  IF setup.stt = "AVAILABLE" /\ Len(jobs) < SttQueueMax THEN jobs' = Append(jobs, i) /\ UNCHANGED refused
  ELSE refused' = refused \cup {i} /\ UNCHANGED jobs

\* _on_recording.
OnRecording(i) ==
  /\ rawq' = Append(rawq, <<"recording", i>>)
  /\ IF setup.stt = "DISABLED" THEN UNCHANGED <<jobs, refused>> ELSE Submitted(i)

\* A WAV that cannot be written is counted as failed and announced to nobody.
Finalize(frames, reason) ==
  LET i == Len(recordings) + 1 IN
  \E wav \in BOOLEAN :
    /\ recordings' = Append(recordings, [frames |-> frames, reason |-> reason, wav |-> wav])
    /\ IF wav THEN OnRecording(i)
              ELSE UNCHANGED <<rawq, jobs, refused>>

\* TransmissionRecorder.on_pcm.
Frame(v) ==
  LET k == clock + 1
      s == Process(k, v)
  IN /\ setup.protocol = "rtp" /\ running = "up" /\ clock < MaxFrames
     /\ clock' = k
     /\ voiced' = IF v THEN voiced \cup {k} ELSE voiced
     /\ IF Reason(s, v) = "none"
        THEN seg' = s /\ UNCHANGED <<recordings, rawq, jobs, refused, cuts>>
        ELSE seg' = Idle /\ cuts' = cuts \cup {k} /\ Finalize(s.rec, Reason(s, v))
     /\ UNCHANGED <<setup, running, delivered, working, sttUp, settled, stops>>

\* _on_segment: it is transcribed where it is received; one that fails, or that there is no
\* engine for, is dropped.
Segment(ok) ==
  /\ setup.protocol = "tca1" /\ running = "up" /\ clock < MaxFrames \div 2 /\ clock' = clock + 1
  /\ rawq' = (IF setup.stt = "AVAILABLE" /\ ok THEN Append(rawq, <<"segment", clock + 1>>) ELSE rawq)
  /\ UNCHANGED <<setup, running, seg, recordings, delivered, jobs, working, sttUp, settled, refused, stops, voiced, cuts>>

\* read_events, by the adapter runtime's thread.
ReadEvents ==
  /\ running = "up" /\ rawq # <<>>
  /\ delivered' = delivered \cup Range(rawq)
  /\ rawq' = <<>>
  /\ UNCHANGED <<setup, running, clock, seg, recordings, jobs, working, sttUp, settled, refused, stops, voiced, cuts>>

\* SttWorker._run takes a job ...
SttTake ==
  /\ sttUp /\ working = 0 /\ jobs # <<>>
  /\ working' = Head(jobs) /\ jobs' = Tail(jobs)
  /\ UNCHANGED <<setup, running, clock, seg, recordings, rawq, delivered, sttUp, settled, refused, stops, voiced, cuts>>

\* ... and _process hands its transcript to _on_transcript, or fails.
SttDone ==
  /\ working # 0
  /\ settled' = settled \cup {working}
  /\ working' = 0
  /\ rawq' \in {rawq, Append(rawq, <<"transcript", working>>)}
  /\ UNCHANGED <<setup, running, clock, seg, recordings, delivered, jobs, sttUp, refused, stops, voiced, cuts>>

(***************************************************************************)
(* The adapter's start and stop.                                           *)
(***************************************************************************)

\* stop: the receiver is joined and the flow router shuts the recorder down, which
\* finalizes what it was recording (on_shutdown) and forgets pending speech.
StopReceiver ==
  /\ running = "up" /\ stops < MaxStops
  /\ running' = "stopping" /\ stops' = stops + 1
  /\ seg' = Idle /\ cuts' = cuts \cup {clock}
  /\ IF seg.st # "idle" THEN Finalize(seg.rec, "shutdown")
                        ELSE UNCHANGED <<recordings, rawq, jobs, refused>>
  /\ UNCHANGED <<setup, clock, delivered, working, sttUp, settled, voiced>>

\* The rest of stop: the worker is stopped (joined, unless the job outlasts the
\* timeout) and the queue emptied.
StopRest ==
  /\ running = "stopping"
  /\ running' = "down"
  /\ sttUp' = FALSE
  /\ rawq' = <<>>
  /\ UNCHANGED <<setup, clock, seg, recordings, delivered, jobs, working, settled, refused, stops, voiced, cuts>>

\* start: the worker was started by __init__ only.
Start ==
  /\ running = "down"
  /\ running' = "up"
  /\ UNCHANGED <<setup, clock, seg, recordings, rawq, delivered, jobs, working, sttUp, settled, refused, stops, voiced, cuts>>

Next ==
  \/ \E v \in BOOLEAN : Frame(v) \/ Segment(v)
  \/ ReadEvents \/ SttTake \/ SttDone
  \/ StopReceiver \/ StopRest \/ Start

\* The runtime polls and the worker thread runs.
Fairness == WF_vars(ReadEvents) /\ WF_vars(SttTake) /\ WF_vars(SttDone)
Spec == Init /\ [][Next]_vars /\ Fairness

(***************************************************************************)
(* Properties.                                                             *)
(***************************************************************************)

\* No frame is in two recordings, and frames keep their order: recordings and what
\* is being recorded or held back, one after the other, are increasing.
FramesOnceInOrder ==
  LET all == FlattenSeq([i \in DOMAIN recordings |-> recordings[i].frames]) \o seg.rec
  IN /\ \A i \in 1 .. Len(all) - 1 : all[i] < all[i + 1]
     /\ \A i \in DOMAIN all : \A k \in Frames(seg.pre) \cup Frames(seg.pend) : all[i] < k

\* Speech that lasts MinSpeech frames is recorded whole, unless a maximum-length
\* cut or a stop falls into it.
SpeechIsRecorded ==
  \A a \in 1 .. clock - MinSpeech + 1 :
    LET window == a .. a + MinSpeech - 1 IN
    window \subseteq voiced /\ (a .. a + MinSpeech - 2) \cap cuts = {} =>
      window \subseteq Frames(seg.rec) \cup UNION {Frames(recordings[i].frames) : i \in DOMAIN recordings}

\* A recording has confirmed speech and is not longer than the maximum; one that
\* ended in silence has its whole tail (at least the post-roll), and the silence
\* before that was never as long.
SegmentsWellFormed ==
  \A i \in DOMAIN recordings :
    LET r == recordings[i].frames
        Silent(a, b) == \A j \in a .. b : r[j] \notin voiced
    IN /\ Len(r) <= MaxSegment /\ (recordings[i].reason = "max" => Len(r) = MaxSegment)
       /\ \E a \in 1 .. Len(r) - MinSpeech + 1 :
            /\ a <= PreRoll + 1 /\ {r[j] : j \in a .. a + MinSpeech - 1} \subseteq voiced
       /\ recordings[i].reason = "silence" =>
            /\ Silent(Len(r) - Larger(PostRoll, SilenceTimeout) + 1, Len(r))
            /\ \A a \in PreRoll + 1 .. Len(r) - Larger(PostRoll, SilenceTimeout) :
                 ~Silent(a, a + Larger(PostRoll, SilenceTimeout) - 1)

\* Every recording that is announced or transcribed has its WAV, and until the
\* first stop no announcement is lost.
AnnouncementsHaveFiles ==
  LET raws == Range(rawq) \cup delivered IN
  /\ \A r \in raws : r[1] # "segment" => recordings[r[2]].wav
  /\ \A i \in Range(jobs) \cup settled \cup refused : recordings[i].wav
  /\ stops = 0 => \A i \in DOMAIN recordings : recordings[i].wav => <<"recording", i>> \in raws

\* A recording is transcribed at most once and its transcript queued at most once; without an
\* engine nothing is, and no transcript is made up.
TranscribedOnce ==
  /\ setup.stt # "AVAILABLE" => \A r \in Range(rawq) \cup delivered : r[1] = "recording"
  /\ \A i, j \in DOMAIN jobs : jobs[i] = jobs[j] => i = j
  /\ (Range(jobs) \cup {working}) \cap settled = {} /\ working \notin Range(jobs)
  /\ \A i, j \in DOMAIN rawq : rawq[i] = rawq[j] => i = j
  /\ Range(rawq) \cap delivered = {}

\* While the adapter is not stopped, every recording the worker accepted is dealt
\* with and everything queued is read.
RecordedIsServed ==
  /\ \A i \in 1 .. MaxFrames \div (MinSpeech + 1) : (i \in Range(jobs)) ~> (i \in settled \/ stops > 0)
  /\ (rawq # <<>>) ~> (rawq = <<>> \/ stops > 0)
=============================================================================
