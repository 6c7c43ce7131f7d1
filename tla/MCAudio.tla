-------- MODULE MCAudio --------
(***************************************************************************)
(* The components of the audio subsystem, each on its own: packets and flows, *)
(* captures, segmenting and the adapter, the two background workers, the   *)
(* receivers' lifecycle, voice detection, and transcription of a recording. *)
(***************************************************************************)
EXTENDS Integers, Sequences, TLC

CONSTANTS f1, f2, Flows, MaxFlows, Modulus, First, Window, None, Numbers, Ssrcs, MaxBlocks,
  PreRoll, PostRoll, MinSpeech, SilenceTimeout, MaxSegment, SttQueueMax, MaxFrames, MaxStops,
  Items, Threads, Controls, QueueMax, MaxJobs, Nobody, RecvThreads, Callers, NoThread,
  Energies, RatioNum, AbsoluteMin, HistoryFrames, Percentile, InitialFloor,
  StabilityWindow, StabilityTolerance, StableFrames, MaxRun, Clients

VARIABLES
  part, \* which of the components the behaviour is of
  env, sent, ssrc, net, again, order, trk, open, saved, ref, malformed, out, late, twice, emitted, shut,
  capture, tk, taken, ssrcs, badBlocks,
  setup, running, clock, seg, recordings, rawq, delivered, jobs, working, sttUp, settled, refused, stops, voiced, cuts,
  kind, wq, stopFlag, cur, wpc, held, seenIds, inflight, processed, failedJobs, accepted, finished, cpc, joined,
  proto, rrun, rstop, rcur, rpc, sockets, rcall, rjoin, asked,
  floorE, history, recentE, stable, isSpeech, energy, same, quietRun,
  recordedSha, file, engine, ready, qpc, gotBytes, result, failures, runs, evidence, unheard, madeEvents, changes, demands

\* Environments of the flows: how many packets of each, how they repeat, restarts of the sender.
E(a, b, r, k) == [limit |-> (f1 :> a @@ f2 :> b), repeat |-> r, restarts |-> k]
FlowEnvironments ==
  {E(5, 0, "adjacent", 1), E(4, 0, "any", 1), E(3, 2, "adjacent", 0), E(2, 1, "any", 0)}

F == INSTANCE RtpFlows WITH Environments <- FlowEnvironments
C == INSTANCE RtpCapture
S == INSTANCE AudioSource
W == INSTANCE SttWorker
R == INSTANCE ReceiverLifecycle
V == INSTANCE EnergyVad
Q == INSTANCE RecordingStt WITH MaxChanges <- 2, MaxCalls <- 4

ASSUME AudioConstantsOK == F!RtpOK /\ F!FlowsOK /\ S!SegmentOK /\ W!ThreadsOK /\ R!ReceiversOK

\* One component runs; the others stay in an initial state.
Init ==
  /\ part \in {"flows", "capture", "source", "worker", "receiver", "vad", "stt"}
  /\ C!Init /\ V!Init
  /\ F!Init /\ (part # "flows" => env = E(5, 0, "adjacent", 1))
  /\ S!Init /\ (part # "source" => setup = [protocol |-> "rtp", stt |-> "AVAILABLE"])
  /\ W!Init /\ (part # "worker" => kind = "stt")
  /\ R!Init /\ (part # "receiver" => proto = "rtp")
  /\ Q!Init /\ (part # "stt" => recordedSha = "original" /\ engine /\ ready)

FVars == <<env, sent, ssrc, net, again, order, trk, open, saved, ref, malformed, out, late, twice, emitted, shut>>

CVars == <<capture, tk, taken, ssrcs, badBlocks>>

SVars == <<setup, running, clock, seg, recordings, rawq, delivered, jobs, working, sttUp, settled, refused, stops, voiced, cuts>>

WVars == <<kind, wq, stopFlag, cur, wpc, held, seenIds, inflight, processed, failedJobs, accepted, finished, cpc, joined>>

RVars == <<proto, rrun, rstop, rcur, rpc, sockets, rcall, rjoin, asked>>

VVars == <<floorE, history, recentE, stable, isSpeech, energy, same, quietRun>>

QVars == <<recordedSha, file, engine, ready, qpc, gotBytes, result, failures, runs, evidence, unheard, madeEvents, changes, demands>>

Next ==
  \/ part = "flows" /\ F!Next /\ UNCHANGED <<part, CVars, SVars, WVars, RVars, VVars, QVars>>
  \/ part = "capture" /\ C!Next /\ UNCHANGED <<part, FVars, SVars, WVars, RVars, VVars, QVars>>
  \/ part = "source" /\ S!Next /\ UNCHANGED <<part, FVars, CVars, WVars, RVars, VVars, QVars>>
  \/ part = "worker" /\ W!Next /\ UNCHANGED <<part, FVars, CVars, SVars, RVars, VVars, QVars>>
  \/ part = "receiver" /\ R!Next /\ UNCHANGED <<part, FVars, CVars, SVars, WVars, VVars, QVars>>
  \/ part = "vad" /\ V!Next /\ UNCHANGED <<part, FVars, CVars, SVars, WVars, RVars, QVars>>
  \/ part = "stt" /\ Q!Next /\ UNCHANGED <<part, FVars, CVars, SVars, WVars, RVars, VVars>>

vars == <<part, FVars, CVars, SVars, WVars, RVars, VVars, QVars>>
Spec == Init /\ [][Next]_vars /\ S!Fairness /\ W!Fairness /\ R!Fairness

\* Every variable of every component keeps its type.
TypeOK ==
  /\ F!TypeOK
  /\ C!TypeOK
  /\ S!TypeOK
  /\ W!TypeOK
  /\ R!TypeOK
  /\ V!TypeOK
  /\ Q!TypeOK

\* Audio, from the packet to the transcript: packets are counted and emitted once and streams are
\* not mixed, speech is told from the background, every frame of speech is in one segment, an
\* announced recording has its file, and what is transcribed are its verified bytes.
AudioIsAccounted ==
  /\ F!CountsAreExact /\ F!EmittedOnce /\ F!FramesAreKept /\ C!NoMixedStreams
  /\ C!StreamIsInOrder /\ V!CarrierBecomesBackground /\ V!FloorFollowsQuiet
  /\ S!FramesOnceInOrder /\ S!SpeechIsRecorded /\ S!SegmentsWellFormed
  /\ S!AnnouncementsHaveFiles /\ S!TranscribedOnce /\ Q!OnlyVerifiedBytes
  /\ Q!RunOncePerContract /\ Q!CachedIsHeard

\* Workers and receivers that are started and stopped by several threads at once, while their own
\* threads run and outlive their join: SttWorker has one thread and knows it, no job is lost or
\* worked twice, and an RtpReceiver that says it is active has its thread.
WorkersAreSafe ==
  /\ W!OneWorker /\ W!JobsConserved /\ W!WorkedOnce /\ R!ActiveIsAlive

\* What is recorded is announced and transcribed, what is queued is worked, a stop closes the
\* receiver, and speech never teaches the background.
AudioIsServed ==
  /\ S!RecordedIsServed /\ W!AcceptedIsTaken /\ R!StopCloses /\ V!SpeechLeavesFloor
=============================================================================
