----------------------------- MODULE RtpCapture -----------------------------
(***************************************************************************)
(* RtpCaptureReader.read: the packets of a recorded capture, one by one,   *)
(* and the stream it reconstructs from them.                               *)
(***************************************************************************)
EXTENDS RtpTracking, Sequences, SequencesExt, FiniteSets

CONSTANTS
  Numbers,   \* the talker's packet numbers
  Ssrcs,
  MaxBlocks  \* bound on the capture's length

VARIABLES
  capture,  \* ghost: the blocks read so far
  tk,       \* the tracker
  taken,    \* the packets that moved its baseline
  ssrcs,    \* SSRCs of the valid packets
  badBlocks \* malformed datagrams

cvars == <<capture, tk, taken, ssrcs, badBlocks>>

Packets == [ssrc : Ssrcs, n : Numbers]

TypeOK ==
  /\ Range(taken) \subseteq Range(capture)
  /\ ssrcs = {capture[i].ssrc : i \in DOMAIN capture}
  /\ tk.received <= Len(capture)

Init == capture = <<>> /\ tk = NewTracker /\ taken = <<>> /\ ssrcs = {} /\ badBlocks = 0

Kept(p) == Disposition(tk, p) \in {"initial", "in_order", "gap"}

Seen(p) == {p.ssrc}

\* A valid packet of the target flow.  The capture holds the packets as they arrived:
\* in any order and repeated, but never half the number space apart.
ReadPacket ==
  /\ Len(capture) < MaxBlocks
  /\ \E p \in Packets :
       /\ \A i \in DOMAIN capture : p.n - capture[i].n \in -Half + 1 .. Half - 1
       /\ capture' = Append(capture, p)
       /\ ssrcs' = ssrcs \cup Seen(p)
       /\ tk' = OnPacket(tk, p)
       /\ taken' = IF Kept(p) THEN Append(taken, p) ELSE taken
  /\ UNCHANGED badBlocks

\* A datagram of the flow that parse_rtp_packet or validate_rtp_packet refuses.
\* (Blocks that _parse_pcapng and _filter_target pass over change nothing.)
ReadMalformed ==
  /\ badBlocks = 0
  /\ badBlocks' = badBlocks + 1
  /\ UNCHANGED <<capture, tk, taken, ssrcs>>

Next == ReadPacket \/ ReadMalformed
Spec == Init /\ [][Next]_cvars

\* read: a refusal, or the accepted packets by sequence number.
Refused == taken = <<>> \/ Cardinality(ssrcs) # 1
Stream  == SortSeq(taken, LAMBDA p, q : Wire(p.n) < Wire(q.n))

\* The capture reader "must not silently combine streams": a stream is returned only
\* if all its valid packets, the dropped and late ones too, have one SSRC.
NoMixedStreams ==
  ~Refused => \A i, j \in DOMAIN capture : capture[i].ssrc = capture[j].ssrc

\* A stream that stays on one side of the 16-bit wrap is reconstructed in the
\* talker's order, each packet once, and what is missing between the first and the
\* last of them is exactly what the statistics call dropped.  (Across the wrap the
\* sort by wire number puts the later packets first.)
StreamIsInOrder ==
  LET s == Stream
  IN ~Refused /\ (\A i, j \in DOMAIN s : s[i].n \div Modulus = s[j].n \div Modulus) =>
       /\ \A i \in 1 .. Len(s) - 1 : s[i].n < s[i + 1].n
       /\ s[Len(s)].n - s[1].n + 1 = Len(s) + tk.dropped
=============================================================================
