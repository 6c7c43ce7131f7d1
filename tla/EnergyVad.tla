----------------------------- MODULE EnergyVad ------------------------------
(***************************************************************************)
(* EnergyVad.detect with the adaptive threshold: a frame's energy against  *)
(* a noise floor learnt from the frames that were not speech, and a        *)
(* tracker that calls a long constant level background.  Energies are      *)
(* integers, the ratio of threshold to floor is RatioNum / 2.              *)
(***************************************************************************)
EXTENDS Integers, Sequences, SequencesExt, FiniteSetsExt

CONSTANTS
  Energies, RatioNum, AbsoluteMin, HistoryFrames, Percentile, InitialFloor, \* VadConfig
  StabilityWindow, StabilityTolerance, StableFrames,  \* _STABILITY_*, the tolerance in percent
  MaxRun                                              \* bound on the ghost counters

VARIABLES
  floorE,   \* _noise_floor
  history,  \* energies of the last non-speech frames
  recentE,  \* energies of the last frames
  stable,   \* _stable_frames
  isSpeech,
  energy,   \* the last frame's
  same,     \* ghost: how many frames in a row had this energy
  quietRun  \* ghost: how many of them in a row were not speech

evars == <<floorE, history, recentE, stable, isSpeech, energy, same, quietRun>>

TypeOK ==
  /\ Len(history) <= HistoryFrames /\ Len(recentE) <= StabilityWindow
  /\ floorE \in Energies \cup {InitialFloor}

Init ==
  /\ floorE = InitialFloor /\ history = <<>> /\ recentE = <<>> /\ stable = 0
  /\ isSpeech = FALSE /\ energy = 0 /\ same = 0 /\ quietRun = 0

\* deque(maxlen = n).
Bounded(s, n) == IF Len(s) > n THEN Tail(s) ELSE s

\* _percentile, nearest rank.
PercentileOf(s) ==
  LET rank == (Len(s) * Percentile) \div 100
  IN SortSeq(s, <)[IF rank < Len(s) THEN rank + 1 ELSE Len(s)]

\* _compute_threshold, doubled.
Threshold2 ==
  LET base == IF floorE < 1 THEN AbsoluteMin ELSE floorE
  IN Max({base * RatioNum, 2 * AbsoluteMin})

\* _is_stable_background.
StableCount(r) ==
  LET sum == FoldSeq(LAMBDA x, y : x + y, 0, r) IN
  IF Len(r) < StabilityWindow \/ sum = 0 THEN stable
  ELSE IF (Max(Range(r)) - Min(Range(r))) * Len(r) * 100 <= StabilityTolerance * sum
  THEN Min({stable + 1, StableFrames}) ELSE 0

Background(r) == Len(r) = StabilityWindow /\ FoldSeq(LAMBDA x, y : x + y, 0, r) > 0
                   /\ StableCount(r) >= StableFrames

Verdict(e, r) == 2 * e >= Threshold2 /\ ~Background(r)

\* Mutated form: every frame teaches the floor.
Teaches_All(speech) == TRUE
Teaches(speech) == ~speech

Detect(e) ==
  LET r == Bounded(Append(recentE, e), StabilityWindow)
      speech == Verdict(e, r)
      h == IF Teaches(speech) THEN Bounded(Append(history, e), HistoryFrames) ELSE history
  IN /\ recentE' = r /\ stable' = StableCount(r)
     /\ isSpeech' = speech /\ energy' = e
     /\ history' = h
     /\ floorE' = IF Teaches(speech) /\ Len(h) >= 3 THEN PercentileOf(h) ELSE floorE
     /\ same' = IF e = energy THEN Min({same + 1, MaxRun}) ELSE 1
     /\ quietRun' = IF speech THEN 0 ELSE IF e = energy THEN Min({quietRun + 1, MaxRun}) ELSE 1

Next == \E e \in Energies : Detect(e)
Spec == Init /\ [][Next]_evars

\* "A sustained constant-energy non-voice signal must not remain speech forever": a
\* level that stays for the window and then for StableFrames frames is background.
CarrierBecomesBackground == same >= StabilityWindow + StableFrames - 1 => ~isSpeech

\* "Speech frames must never raise the floor": while a level is taken for speech,
\* the floor stays where it was; the threshold does not run away from it.
SpeechLeavesFloor == [][isSpeech' => floorE' = floorE]_evars

\* What raised the floor is forgotten: a level that was not speech for the length
\* of the history is the floor, so a carrier does not deafen the detector for good.
FloorFollowsQuiet == quietRun >= HistoryFrames => floorE = energy
=============================================================================
