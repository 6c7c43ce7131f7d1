---------------------------- MODULE PluginExecutor ----------------------------
(***************************************************************************)
(* PluginExecutor and PluginSandbox: a start makes a sandbox thread that   *)
(* runs the plugin's target in a thread of its own and watches it, and a   *)
(* heartbeat thread that watches the sandbox thread.  All three outlive a  *)
(* stop whose joins time out, and share the stop event and the flag of the *)
(* executor with those of the next start.  A forbidden import is seen by   *)
(* the watchdog's policy check; times are abstracted to their expiry.      *)
(***************************************************************************)
EXTENDS Integers, FiniteSets

CONSTANTS MaxRestarts \* bound on calls of start

VARIABLES
  isRunning,   \* PluginExecutor._running
  stopEvent,   \* PluginSandbox._stop_event
  generation,  \* number of starts; the newest context and sandbox thread
  sandbox,     \* per generation: "new", "watch", "join" (it waits for its target) or "gone"
  target,      \* per generation: "none", "runs", "done"
  heart,       \* per generation: its heartbeat thread "beats" or is "gone"
  cancelled,   \* per generation: the context is marked
  stopping,    \* "no", "sandbox" or, while the heartbeat thread is joined, "heartbeat"
  gaveUp       \* ghost: a join of a sandbox thread or of a target timed out

vars == <<isRunning, stopEvent, generation, sandbox, target, heart, cancelled, stopping, gaveUp>>

Generations == 1 .. MaxRestarts

Init ==
  /\ isRunning = FALSE /\ stopEvent = FALSE /\ generation = 0
  /\ sandbox = [g \in Generations |-> "gone"] /\ target = [g \in Generations |-> "none"]
  /\ heart = [g \in Generations |-> "gone"] /\ cancelled = [g \in Generations |-> FALSE]
  /\ stopping = "no" /\ gaveUp = FALSE

TypeOK ==
  /\ sandbox \in [Generations -> {"new", "watch", "join", "gone"}]
  /\ target \in [Generations -> {"none", "runs", "done"}]
  /\ heart \in [Generations -> {"beats", "gone"}] /\ stopping \in {"no", "heartbeat", "sandbox"}

\* PluginExecutor.start, under the executor's lock: the stop event is cleared.
Start ==
  /\ stopping = "no" /\ ~isRunning /\ generation < MaxRestarts
  /\ isRunning' = TRUE /\ stopEvent' = FALSE /\ generation' = generation + 1
  /\ sandbox' = [sandbox EXCEPT ![generation + 1] = "new"]
  /\ heart' = [heart EXCEPT ![generation + 1] = "beats"]
  /\ UNCHANGED <<target, cancelled, stopping, gaveUp>>

\* stop: the flag falls, then the newest heartbeat thread is joined for two seconds, ...
StopBegins ==
  /\ stopping = "no" /\ isRunning /\ isRunning' = FALSE /\ stopping' = "heartbeat"
  /\ UNCHANGED <<stopEvent, generation, sandbox, target, heart, cancelled, gaveUp>>

\* ... the stop event is set, ...
StopSignals(timeout) ==
  /\ stopping = "heartbeat" /\ (timeout \/ heart[generation] = "gone")
  /\ stopEvent' = TRUE /\ stopping' = "sandbox"
  /\ UNCHANGED <<isRunning, generation, sandbox, target, heart, cancelled, gaveUp>>

\* ... and the newest sandbox thread is joined; mark_stopped takes back the cancellation.
StopEnds(timeout) ==
  /\ stopping = "sandbox" /\ (timeout \/ sandbox[generation] = "gone")
  /\ stopping' = "no" /\ gaveUp' = (gaveUp \/ timeout)
  /\ cancelled' = [cancelled EXCEPT ![generation] = FALSE]
  /\ UNCHANGED <<isRunning, stopEvent, generation, sandbox, target, heart>>

\* _run_with_isolation: the policy is checked before the target gets its thread.
SandboxBegins(g, allowed) ==
  /\ sandbox[g] = "new"
  /\ IF allowed THEN sandbox' = [sandbox EXCEPT ![g] = "watch"] /\ target' = [target EXCEPT ![g] = "runs"]
     ELSE sandbox' = [sandbox EXCEPT ![g] = "gone"] /\ UNCHANGED target
  /\ UNCHANGED <<isRunning, stopEvent, generation, heart, cancelled, stopping, gaveUp>>

\* The target returns or raises; raising marks the newest context.
TargetEnds(g, raises) ==
  /\ target[g] = "runs" /\ target' = [target EXCEPT ![g] = "done"]
  /\ cancelled' = (IF raises THEN [cancelled EXCEPT ![generation] = TRUE] ELSE cancelled)
  /\ UNCHANGED <<isRunning, stopEvent, generation, sandbox, heart, stopping, gaveUp>>

\* The watchdog's round: the target is gone, a stop was signalled, the context was marked,
\* or, with a breach of time or policy, it signals the stop itself.
WatchEnds(g) ==
  /\ sandbox[g] = "watch" /\ target[g] = "done"
  /\ sandbox' = [sandbox EXCEPT ![g] = "gone"]
  /\ UNCHANGED <<isRunning, stopEvent, generation, target, heart, cancelled, stopping, gaveUp>>

WatchStops(g, breach) ==
  /\ sandbox[g] = "watch" /\ target[g] = "runs" /\ (stopEvent \/ cancelled[g] \/ breach)
  /\ stopEvent' = (stopEvent \/ breach)
  /\ cancelled' = [cancelled EXCEPT ![g] = (@ \/ stopEvent \/ breach)]
  /\ sandbox' = [sandbox EXCEPT ![g] = "join"]
  /\ UNCHANGED <<isRunning, generation, target, heart, stopping, gaveUp>>

\* It waits for the target a while and leaves it behind.
WatchLeaves(g, timeout) ==
  /\ sandbox[g] = "join" /\ (timeout \/ target[g] = "done")
  /\ sandbox' = [sandbox EXCEPT ![g] = "gone"] /\ gaveUp' = (gaveUp \/ timeout)
  /\ UNCHANGED <<isRunning, stopEvent, generation, target, heart, cancelled, stopping>>

\* _heartbeat_loop: ends when the flag has fallen; the newest sandbox thread being gone,
\* for whatever reason, lets the flag fall.
Beat(g) ==
  /\ heart[g] = "beats"
  /\ \/ ~isRunning /\ UNCHANGED <<isRunning, cancelled>>
     \/ isRunning /\ sandbox[generation] = "gone" /\ isRunning' = FALSE
        /\ cancelled' = [cancelled EXCEPT ![generation] = TRUE]
  /\ heart' = [heart EXCEPT ![g] = "gone"]
  /\ UNCHANGED <<stopEvent, generation, sandbox, target, stopping, gaveUp>>

Next ==
  \/ Start \/ StopBegins
  \/ \E b \in BOOLEAN : StopSignals(b) \/ StopEnds(b)
  \/ \E g \in Generations :
       \/ WatchEnds(g) \/ Beat(g)
       \/ \E b \in BOOLEAN : SandboxBegins(g, b) \/ TargetEnds(g, b) \/ WatchStops(g, b) \/ WatchLeaves(g, b)

\* Threads that can go on do; a target need not end, nor a timeout expire early.
Fairness ==
  \A g \in Generations : /\ WF_vars(Beat(g)) /\ WF_vars(WatchEnds(g)) /\ WF_vars(WatchStops(g, FALSE))
                         /\ WF_vars(\E b \in BOOLEAN : WatchLeaves(g, b))
                         /\ WF_vars(\E b \in BOOLEAN : SandboxBegins(g, b))

Spec == Init /\ [][Next]_vars /\ Fairness

(***************************************************************************)
(* Properties.                                                             *)
(***************************************************************************)

\* Unless a join of them timed out, one target runs at a time, however often the plugin is stopped
\* and started, and none when the executor was stopped.
OneTargetRuns ==
  ~gaveUp =>
    /\ \A g, h \in Generations : target[g] = "runs" /\ target[h] = "runs" => g = h
    /\ stopping = "no" /\ ~isRunning => \A g \in Generations : target[g] # "runs"

\* A sandbox thread in its loop has seen no stop: once the stop event is set it can only
\* leave, so that a start that clears it again finds no loop of an older start, unless a
\* join timed out.
NoOldWatchdog ==
  ~gaveUp => \A g \in Generations : g # generation => sandbox[g] = "gone"

\* A plugin whose target ended or was refused does not stay marked as running.
EndIsNoticed == []<>(isRunning => sandbox[generation] # "gone")
=============================================================================
