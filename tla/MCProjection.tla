---------------------------- MODULE MCProjection ----------------------------
(* An instance of Projection for TLC: two entities with two attributes, a   *)
(* relation between them, its severance and a removal.                      *)
EXTENDS Projection
CONSTANTS p1, p2, a, b, k, l

MCEvents ==
  {[n |-> 1, kind |-> "update", entity |-> a, target |-> None, key |-> k],
   [n |-> 2, kind |-> "update", entity |-> a, target |-> b,    key |-> k],
   [n |-> 3, kind |-> "sever",  entity |-> a, target |-> b,    key |-> l],
   [n |-> 4, kind |-> "remove", entity |-> b, target |-> None, key |-> k]}
MCEnvironments ==
  {[procs |-> {p1}, faults |-> F] :
      F \in {{}, {"crash"}, {"crash", "swallow"}, {"archive", "crash", "repeat"}}}
    \cup {[procs |-> {p1, p2}, faults |-> {}]}
=============================================================================
