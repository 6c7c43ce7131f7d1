---------------------------- MODULE RtpTracking -----------------------------
(***************************************************************************)
(* RtpStreamTracker: how a packet with a 16-bit sequence number is told    *)
(* from its predecessor.  A packet is a record with an SSRC and n, the     *)
(* number its talker gave it; the tracker sees n modulo Modulus (2^16).    *)
(***************************************************************************)
EXTENDS Integers

CONSTANTS Modulus, None

Half == Modulus \div 2

RtpOK == Modulus \in Nat /\ Half > 1 /\ None \notin Nat

\* The sequence number on the wire, and _sequence_delta.
Wire(n)     == n % Modulus
Delta(a, b) == (a - b) % Modulus

NewTracker == [ssrc |-> None, last |-> None, received |-> 0, dropped |-> 0,
               dups |-> 0, gaps |-> 0, late |-> 0, changes |-> 0]

\* _accept: a packet that moves the baseline.
Accept(t, p, dropped) ==
  [t EXCEPT !.ssrc = p.ssrc, !.last = Wire(p.n), !.received = @ + 1, !.dropped = @ + dropped]

Disposition(t, p) ==
  LET d == Delta(Wire(p.n), t.last)
  IN CASE t.ssrc \notin {None, p.ssrc} -> "ssrc_change"
       [] t.ssrc = None                -> "initial"
       [] t.ssrc = p.ssrc /\ d = 0     -> "duplicate"
       [] t.ssrc = p.ssrc /\ d = 1     -> "in_order"
       [] t.ssrc = p.ssrc /\ 1 < d /\ d < Half -> "gap"
       [] OTHER                        -> "out_of_order"

OnPacket(t, p) ==
  CASE Disposition(t, p) = "ssrc_change"  -> [Accept(t, p, 0) EXCEPT !.changes = @ + 1]
    [] Disposition(t, p) \in {"initial", "in_order"} -> Accept(t, p, 0)
    [] Disposition(t, p) = "duplicate"    -> [t EXCEPT !.dups = @ + 1]
    [] Disposition(t, p) = "gap"          ->
         [Accept(t, p, Delta(Wire(p.n), t.last) - 1) EXCEPT !.gaps = @ + 1]
    [] Disposition(t, p) = "out_of_order" -> [t EXCEPT !.late = @ + 1]
=============================================================================
