----------------------------- MODULE SdkLifecycle -----------------------------
(***************************************************************************)
(* PluginLifecycle of the SDK: the states of a plugin, the transitions     *)
(* that are allowed, and its history, which keeps refused attempts too.    *)
(***************************************************************************)
EXTENDS Integers, Sequences

CONSTANTS MaxTransitions

VARIABLES
  current,
  attempts,  \* the history
  reached    \* the states the plugin has been in

vars == <<current, attempts, reached>>

States == {"discovered", "validated", "loaded", "initialized", "running", "stopped", "disabled",
           "failed", "uninstalled"}

\* _VALID_TRANSITIONS.
Allowed(s) ==
  CASE s = "discovered" -> {"validated", "failed"}
    [] s = "validated" -> {"loaded", "failed"}
    [] s = "loaded" -> {"initialized", "failed"}
    [] s = "initialized" -> {"running", "stopped", "failed"}
    [] s = "running" -> {"stopped", "failed", "initialized"}
    [] s = "stopped" -> {"initialized", "disabled", "uninstalled"}
    [] s = "disabled" -> {"validated", "uninstalled"}
    [] s = "failed" -> {"validated", "stopped", "disabled"}
    [] s = "uninstalled" -> {}

Init == current = "discovered" /\ attempts = <<>> /\ reached = {"discovered"}

TypeOK == current \in States /\ Len(attempts) <= MaxTransitions

Entry(from, to) == [from |-> from, to |-> to, success |-> to \in Allowed(from)]

\* transition, and to_state with a known name.
Transition(to) ==
  /\ Len(attempts) < MaxTransitions
  /\ attempts' = Append(attempts, Entry(current, to))
  /\ current' = (IF to \in Allowed(current) THEN to ELSE current)
  /\ reached' = reached \cup {current'}

\* to_state with an unknown name: "discovered" stands in for it in the history.
ToUnknown ==
  /\ Len(attempts) < MaxTransitions
  /\ attempts' = Append(attempts, [from |-> current, to |-> "discovered", success |-> FALSE])
  /\ UNCHANGED <<current, reached>>

Sequence == <<"validated", "loaded", "initialized", "running">>
Passes(n) == \A k \in 1 .. n : Sequence[k] \in Allowed(IF k = 1 THEN current ELSE Sequence[k - 1])
\* start_sequence goes as far as the transitions allow, and stays there.
StartSequence ==
  LET n == CHOOSE n \in 0 .. 4 : Passes(n) /\ (n = 4 \/ ~Passes(n + 1))
      At(k) == IF k = 0 THEN current ELSE Sequence[k]
      tried == [k \in 1 .. (IF n = 4 THEN 4 ELSE n + 1) |-> Entry(At(k - 1), Sequence[k])]
  IN
  /\ Len(attempts) + Len(tried) <= MaxTransitions
  /\ attempts' = attempts \o tried
  /\ current' = At(n) /\ reached' = reached \cup {At(k) : k \in 0 .. n}

Next == (\E to \in States : Transition(to)) \/ ToUnknown \/ StartSequence

Spec == Init /\ [][Next]_vars

(***************************************************************************)
(* Properties.                                                             *)
(***************************************************************************)

\* The state before the k-th of some attempts, by those before it: where the last successful one led.
Before(q, k) == IF k = 1 THEN "discovered" ELSE IF q[k - 1].success THEN q[k - 1].to ELSE q[k - 1].from
\* The successful transitions of the history are a path from the first state to the
\* current one, and the refused ones start where the path was at their time.
HistoryIsAPath ==
  /\ \A k \in DOMAIN attempts : attempts[k].from = Before(attempts, k)
  /\ current = Before(attempts, Len(attempts) + 1)

\* No plugin runs that was not validated and loaded since it was discovered or disabled,
\* and an uninstalled one stays so.
RunsOnlyLoaded ==
  /\ "running" \in reached => {"validated", "loaded", "initialized"} \subseteq reached \/ "failed" \in reached
  /\ "uninstalled" \in reached => current = "uninstalled"
=============================================================================
