------------------------------ MODULE RtpFlows ------------------------------
(***************************************************************************)
(* RTP datagrams of several talkers on one socket: parsing and validation, *)
(* the flow router with its bounded map, one stream tracker per flow, and  *)
(* what is emitted to the flow's recorder.                                 *)
(*                                                                         *)
(* A talker numbers its packets 0, 1, 2, ... (field n) and sends them with *)
(* 16-bit sequence numbers; the tracker sees only those.  The network      *)
(* delays and repeats packets, and loses those that never arrive, within   *)
(* the bounds Window and Half.                                             *)
(***************************************************************************)
EXTENDS RtpTracking, SequencesExt, FiniteSets

CONSTANTS
  Flows,        \* UDP source identities
  MaxFlows,     \* FlowRouter's bound
  First,        \* number of a talker's first packet (close to the wrap)
  Window,       \* bound: a packet this many sends old is lost
  Environments  \* [limit : flow -> packets, repeat : how the network repeats,
                \*  restarts : bound on a talker's restarts, each with a new SSRC]

FlowsOK == Window < Half /\ MaxFlows \in Nat \ {0}

VARIABLES
  env,
  sent,     \* flow -> number of its next packet
  ssrc,     \* flow -> SSRC of its talker
  net,      \* packets on their way
  again,    \* flow -> the packet whose adjacent copy is due, or None
  order,    \* FlowRouter._pipelines, least recently used first
  trk,      \* flow -> its tracker's state, or None
  open,     \* flow -> frames given to its open recorder
  saved,    \* flow -> frames in recorders that were shut down
  ref,      \* ghost, flow -> what the tracker should have counted
  malformed,
  out, late,   \* ghosts: packets in net that were emitted before, the late ones of them
  twice,       \* ghost: a packet that had moved the baseline was emitted again
  emitted,     \* ghost: number of emitted frames
  shut      \* shutdown_all was called

vars == <<env, sent, ssrc, net, again, order, trk, open, saved, ref, malformed, out, late, twice, emitted, shut>>

Packets == [flow : Flows, ssrc : Nat \ {0}, n : Nat]

NewRef == [ssrc |-> None, hi |-> None, span |-> 0, dups |-> 0, late |-> 0]

TypeOK ==
  /\ net \subseteq Packets /\ out \cup late \subseteq net
  /\ \A i, j \in DOMAIN order : order[i] = order[j] => i = j
  /\ \A f \in Flows : trk[f] # None =>
       /\ trk[f].last \in 0 .. Modulus - 1 /\ trk[f].ssrc \in 1 .. ssrc[f]
       /\ trk[f].received > 0
       /\ trk[f].gaps <= trk[f].dropped

Init ==
  /\ env \in Environments
  /\ sent = [f \in Flows |-> First]
  /\ ssrc = [f \in Flows |-> 1]
  /\ net = {}
  /\ again = [f \in Flows |-> None]
  /\ order = <<>>
  /\ trk = [f \in Flows |-> None]
  /\ open = [f \in Flows |-> 0]
  /\ saved = [f \in Flows |-> 0]
  /\ ref = [f \in Flows |-> NewRef]
  /\ malformed = 0
  /\ out = {} /\ late = {} /\ twice = FALSE /\ emitted = 0
  /\ shut = FALSE

(***************************************************************************)
(* What the tracker should count.                                          *)
(***************************************************************************)

\* OnPacket from the numbers the talker gave: packets between the first and the
\* newest one (span), repetitions of the newest, and older ones.
Reference(r, p) ==
  CASE r.ssrc # p.ssrc -> [r EXCEPT !.ssrc = p.ssrc, !.hi = p.n, !.span = @ + 1]
    [] r.ssrc = p.ssrc /\ p.n > r.hi -> [r EXCEPT !.hi = p.n, !.span = @ + p.n - r.hi]
    [] r.ssrc = p.ssrc /\ p.n = r.hi -> [r EXCEPT !.dups = @ + 1]
    [] r.ssrc = p.ssrc /\ p.n < r.hi -> [r EXCEPT !.late = @ + 1]

(***************************************************************************)
(* FlowRouter.                                                             *)
(***************************************************************************)

\* The part of the datagram's address that selects the pipeline.
FlowKey(p) == p.flow

\* get_or_create: the flows evicted to make room for f, and the map afterwards.
Evicted(f) ==
  IF f \in Range(order) \/ Len(order) < MaxFlows THEN {} ELSE {Head(order)}
Touched(f) == Append(SelectSeq(order, LAMBDA g : g # f /\ g \notin Evicted(f)), f)

\* _finalize_pipeline: what a shut down recorder holds is saved.
Finalized(F) == [f \in Flows |-> IF f \in F THEN saved[f] + open[f] ELSE saved[f]]

\* RtpReceiver._handle_payload: everything but a duplicate is emitted.
Handle(p) ==
  LET f == FlowKey(p)
      E == Evicted(f)
      t == IF f \in Range(order) THEN trk[f] ELSE NewTracker
      r == IF f \in Range(order) THEN ref[f] ELSE NewRef
      emit == Disposition(t, p) # "duplicate"
  IN /\ order' = Touched(f)
     /\ saved' = Finalized(E)
     /\ trk' = [g \in Flows |-> IF g = f THEN OnPacket(t, p) ELSE IF g \in E THEN None ELSE trk[g]]
     /\ ref' = [ref EXCEPT ![f] = Reference(r, p)]
     /\ open' = [g \in Flows |-> IF g = f THEN open[g] + (IF emit THEN 1 ELSE 0)
                                 ELSE IF g \in E THEN 0 ELSE open[g]]
     /\ out' = (IF emit THEN out \cup {p} ELSE out) \cap net'
     /\ late' = (IF Disposition(t, p) = "out_of_order" THEN late \cup {p} ELSE late) \cap net'
     /\ twice' = (twice \/ (emit /\ p \in out \ late))
     /\ emitted' = IF emit THEN emitted + 1 ELSE emitted

(***************************************************************************)
(* Talkers and network.                                                    *)
(***************************************************************************)

\* The newest packet of f's talker that was accepted.
Newest(f) == IF ref[f].ssrc = ssrc[f] /\ f \in Range(order) THEN ref[f].hi ELSE sent[f] - 1

\* Bound: fewer than Half packets are lost in a row.
Send(f) ==
  /\ ~shut /\ sent[f] - First < env.limit[f]
  /\ sent[f] - Newest(f) < Half
  /\ net' = {q \in net : q.flow = f => q.ssrc = ssrc[f] /\ sent[f] - q.n < Window}
              \cup {[flow |-> f, ssrc |-> ssrc[f], n |-> sent[f]]}
  /\ sent' = [sent EXCEPT ![f] = @ + 1]
  /\ out' = out \cap net' /\ late' = late \cap net'
  /\ UNCHANGED <<env, ssrc, again, order, trk, open, saved, ref, malformed, twice, emitted, shut>>

Restart(f) ==
  /\ ~shut /\ ssrc[f] <= env.restarts
  /\ ssrc' = [ssrc EXCEPT ![f] = @ + 1]
  /\ UNCHANGED <<env, sent, net, again, order, trk, open, saved, ref, malformed, out, late, twice, emitted, shut>>

\* A datagram arrives.  When the network repeats, a copy follows: at once, as the
\* flow's next datagram, or at any time.
Arrive(p) ==
  /\ ~shut /\ again[p.flow] \in {None, p}
  /\ \/ net' = net \ {p} /\ again' = [again EXCEPT ![p.flow] = None]
     \/ env.repeat = "adjacent" /\ again[p.flow] = None
          /\ again' = [again EXCEPT ![p.flow] = p] /\ UNCHANGED net
     \/ env.repeat = "any" /\ p \notin out /\ UNCHANGED <<again, net>>
  /\ Handle(p)
  /\ UNCHANGED <<env, sent, ssrc, malformed, shut>>

\* A datagram that parse_rtp_packet or validate_rtp_packet refuses.
ArriveMalformed ==
  /\ ~shut /\ malformed = 0
  /\ malformed' = malformed + 1
  /\ UNCHANGED <<env, sent, ssrc, net, again, order, trk, open, saved, ref, out, late, twice, emitted, shut>>

\* shutdown_all.
ShutdownAll ==
  /\ ~shut /\ order # <<>>
  /\ shut' = TRUE
  /\ saved' = Finalized(Range(order))
  /\ order' = <<>>
  /\ trk' = [f \in Flows |-> None]
  /\ open' = [f \in Flows |-> 0]
  /\ UNCHANGED <<env, sent, ssrc, net, again, ref, malformed, out, late, twice, emitted>>

Next ==
  \/ \E f \in Flows : Send(f) \/ Restart(f)
  \/ \E p \in net : Arrive(p)
  \/ ArriveMalformed
  \/ ShutdownAll

Spec == Init /\ [][Next]_vars

(***************************************************************************)
(* Properties.                                                             *)
(***************************************************************************)

\* The 16-bit arithmetic counts what a tracker with unbounded numbers would: every
\* packet between a stream's first and its newest is received or counted as
\* dropped, across the wrap, gaps, late and repeated packets and new SSRCs.
CountsAreExact ==
  \A f \in Flows : trk[f] # None =>
    /\ trk[f].last = Wire(ref[f].hi)
    /\ trk[f].received + trk[f].dropped = ref[f].span
    /\ trk[f].dups = ref[f].dups
    /\ trk[f].late = ref[f].late

\* "Duplicates are never emitted twice" (_handle_payload), as far as the code goes:
\* when copies are adjacent within their flow, also if other talkers' datagrams come
\* between them, and no flow has been evicted or shut down, a packet that moved the
\* baseline is emitted once.  (A copy that comes after a newer packet counts as late,
\* and late packets are emitted, however often they come.)
EmittedOnce ==
  env.repeat # "any" /\ ~shut /\ (\A f \in Flows : saved[f] = 0) => ~twice

\* "eviction never loses a recording": every emitted frame is in the open recorder
\* of a flow in the map or in one that was shut down, and the map is bounded.
FramesAreKept ==
  /\ Len(order) <= MaxFlows
  /\ \A f \in Flows : open[f] > 0 => f \in Range(order)
  /\ FoldSet(LAMBDA f, n : n + open[f] + saved[f], 0, Flows) = emitted
=============================================================================
