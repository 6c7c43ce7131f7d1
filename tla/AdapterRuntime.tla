---------------------------- MODULE AdapterRuntime ----------------------------
(***************************************************************************)
(* One source adapter's runtime: AdapterRuntime with its RestartPolicy.    *)
(* Control threads call start(), stop() and restart() (through the         *)
(* supervisor, which only looks the runtime up); a dedicated poll thread   *)
(* runs the adapter and, after a runtime-level failure, starts its own     *)
(* replacement.                                                            *)
(*                                                                         *)
(* The runtime's lock covers short sections of these calls, not the calls: *)
(* one action here is one such section, or one step made outside it.       *)
(* adapter.start(), read_events() and the pipeline take as long as they    *)
(* like; what a call returns or raises is chosen when it ends.             *)
(***************************************************************************)
EXTENDS Naturals, FiniteSetTheorems, TLAPS

CONSTANTS
  Callers,      \* control threads
  Threads,      \* poll threads that may exist at the same time (bound)
  Ops,          \* the calls in use, of "start", "stop", "restart"
  MaxStarts,    \* bound: start() and restart() calls that take effect
  MaxRestarts,  \* RestartPolicy.max_restarts
  SlowThreads,  \* may join() run into stop_timeout?
  None          \* model value: no thread

ASSUME ConstantsOK ==
  /\ MaxStarts \in Nat
  /\ MaxRestarts \in Nat
  /\ SlowThreads \in BOOLEAN
  /\ None \notin Threads

VARIABLES
  state,      \* _state
  stopEvent,  \* _stop_event
  thread,     \* _thread
  failures,   \* the policy's _restart_count
  healthy,    \* the policy's _last_healthy_at is set
  adapterUp,  \* the adapter's _running
  tpc,        \* per poll thread: where _run_loop stands
  cpc,        \* per control thread: where stop() stands
  joining,    \* per control thread: the poll thread that stop() joins
  starts

runtimeVars == <<state, stopEvent, thread>>
policyVars  == <<failures, healthy>>
callerVars  == <<cpc, joining>>
vars == <<runtimeVars, policyVars, adapterUp, tpc, callerVars, starts>>

States == {"stopped", "starting", "running", "degraded", "stopping", "failed"}

\* _ALLOWED: the legal transitions; any other raises LifecycleTransitionError.
Allowed(from) ==
  CASE from = "stopped"  -> {"starting"}
    [] from = "starting" -> {"running", "failed", "stopped"}
    [] from = "running"  -> {"degraded", "stopping", "failed"}
    [] from = "degraded" -> {"running", "stopping", "failed"}
    [] from = "stopping" -> {"stopped", "failed"}
    [] from = "failed"   -> {"starting", "stopped"}

TypeOK ==
  /\ state \in States
  /\ stopEvent \in BOOLEAN
  /\ thread \in Threads \cup {None}
  /\ failures \in Nat
  /\ healthy \in BOOLEAN
  /\ adapterUp \in BOOLEAN
  /\ tpc \in [Threads -> {"dead", "start", "begin", "loop", "read", "work",
                          "fail", "decide", "record", "respawn", "cleanup"}]
  /\ cpc \in [Callers -> {"idle", "join", "finish"}]
  /\ joining \in [Callers -> Threads \cup {None}]
  /\ starts \in 0 .. MaxStarts

Init ==
  /\ state = "stopped"
  /\ stopEvent = FALSE
  /\ thread = None
  /\ failures = 0
  /\ healthy = FALSE
  /\ adapterUp = FALSE
  /\ tpc = [t \in Threads |-> "dead"]
  /\ cpc = [c \in Callers |-> "idle"]
  /\ joining = [c \in Callers |-> None]
  /\ starts = 0

\* A thread identity that nobody refers to any more.
Free(t) == tpc[t] = "dead" /\ thread # t /\ \A c \in Callers : joining[c] # t

\* _spawn_thread; `pcs' is tpc after the caller's own step.
Spawn(pcs) ==
  \E t \in Threads :
    /\ Free(t)
    /\ thread' = t
    /\ tpc' = [pcs EXCEPT ![t] = "start"]

ResetPolicy == failures' = 0 /\ healthy' = FALSE

(***************************************************************************)
(* Control threads.                                                        *)
(***************************************************************************)

\* start() and restart() differ in the state they accept; elsewhere they are
\* no-ops or raise.
Launch(c, op, from) ==
  /\ op \in Ops
  /\ cpc[c] = "idle"
  /\ starts < MaxStarts
  /\ state = from
  /\ state' = "starting"
  /\ stopEvent' = FALSE
  /\ ResetPolicy
  /\ Spawn(tpc)
  /\ starts' = starts + 1
  /\ UNCHANGED <<adapterUp, callerVars>>

StartCall(c)   == Launch(c, "start", "stopped")
RestartCall(c) == Launch(c, "restart", "failed")

\* stop(), first locked section.
StopBegin(c) ==
  /\ "stop" \in Ops
  /\ cpc[c] = "idle"
  /\ state # "stopped"
  /\ state' = IF state \in {"running", "degraded"} THEN "stopping" ELSE state
  /\ stopEvent' = TRUE
  /\ joining' = [joining EXCEPT ![c] = thread]
  /\ cpc' = [cpc EXCEPT ![c] = IF thread = None THEN "finish" ELSE "join"]
  /\ UNCHANGED <<thread, policyVars, adapterUp, tpc, starts>>

\* join() returns, because the thread has ended or because of stop_timeout.
StopJoined(c) ==
  /\ cpc[c] = "join"
  /\ SlowThreads \/ tpc[joining[c]] = "dead"
  /\ cpc' = [cpc EXCEPT ![c] = "finish"]
  /\ joining' = [joining EXCEPT ![c] = None]
  /\ UNCHANGED <<runtimeVars, policyVars, adapterUp, tpc, starts>>

\* stop(), second locked section; from "stopped" the transition raises.
StopFinish(c) ==
  /\ cpc[c] = "finish"
  /\ adapterUp' = FALSE
  /\ thread' = None
  /\ state' = "stopped"
  /\ cpc' = [cpc EXCEPT ![c] = "idle"]
  /\ UNCHANGED <<stopEvent, policyVars, tpc, joining, starts>>

(***************************************************************************)
(* The poll thread: _run_loop and _poll_forever.                           *)
(***************************************************************************)

Goto(t, label) == tpc' = [tpc EXCEPT ![t] = label]

AdapterStarts(t) ==
  /\ tpc[t] = "start"
  /\ adapterUp' = TRUE
  /\ Goto(t, "begin")
  /\ UNCHANGED <<runtimeVars, policyVars, callerVars, starts>>

AdapterStartFails(t) ==
  /\ tpc[t] = "start"
  /\ Goto(t, "fail")
  /\ UNCHANGED <<runtimeVars, policyVars, adapterUp, callerVars, starts>>

EnterRunning(t) ==
  /\ tpc[t] = "begin"
  /\ state' = IF state = "starting" THEN "running" ELSE state
  /\ Goto(t, "loop")
  /\ UNCHANGED <<stopEvent, thread, policyVars, adapterUp, callerVars, starts>>

\* Mutated form: the loop does not look at _stop_event.
LoopTest_Deaf(t) ==
  /\ tpc[t] = "loop"
  /\ Goto(t, "read")
  /\ UNCHANGED <<runtimeVars, policyVars, adapterUp, callerVars, starts>>

LoopTest(t) ==
  /\ tpc[t] = "loop"
  /\ Goto(t, IF stopEvent THEN "cleanup" ELSE "read")
  /\ UNCHANGED <<runtimeVars, policyVars, adapterUp, callerVars, starts>>

\* Mutated form: a misspelt state.
ReadFails_Typo(t) ==
  /\ tpc[t] = "read"
  /\ state' = IF state = "running" THEN "degrade" ELSE state
  /\ Goto(t, "loop")
  /\ UNCHANGED <<stopEvent, thread, policyVars, adapterUp, callerVars, starts>>

\* A recoverable read failure: DEGRADED, and another try in the same thread.
ReadFails(t) ==
  /\ tpc[t] = "read"
  /\ state' = IF state = "running" THEN "degraded" ELSE state
  /\ Goto(t, "loop")
  /\ UNCHANGED <<stopEvent, thread, policyVars, adapterUp, callerVars, starts>>

\* A healthy read, after which the policy may forgive the failures so far.
ReadReturns(t) ==
  /\ tpc[t] = "read"
  /\ healthy' = TRUE
  /\ failures' \in IF healthy THEN {failures, 0} ELSE {failures}
  /\ state' = IF state = "degraded" THEN "running" ELSE state
  /\ Goto(t, "work")
  /\ UNCHANGED <<stopEvent, thread, adapterUp, callerVars, starts>>

\* The events read are forwarded to the pipeline, until a stop is signalled.
EventsForwarded(t) ==
  /\ tpc[t] = "work"
  /\ Goto(t, "loop")
  /\ UNCHANGED <<runtimeVars, policyVars, adapterUp, callerVars, starts>>

\* An exception escapes the polling loop.
LoopCrashes(t) ==
  /\ tpc[t] = "work"
  /\ Goto(t, "fail")
  /\ UNCHANGED <<runtimeVars, policyVars, adapterUp, callerVars, starts>>

\* _handle_runtime_failure, first section: FAILED, or the transition raises.
EnterFailed(t) ==
  /\ tpc[t] = "fail"
  /\ IF "failed" \in Allowed(state)
       THEN state' = "failed" /\ Goto(t, "decide")
       ELSE UNCHANGED state /\ Goto(t, "cleanup")
  /\ UNCHANGED <<stopEvent, thread, policyVars, adapterUp, callerVars, starts>>

\* Mutated form: off by one.
Decide_OffByOne(t) ==
  /\ tpc[t] = "decide"
  /\ Goto(t, IF failures > MaxRestarts \/ stopEvent THEN "cleanup" ELSE "record")
  /\ UNCHANGED <<runtimeVars, policyVars, adapterUp, callerVars, starts>>

\* Is an automatic restart due?  Read outside the runtime's lock.
Decide(t) ==
  /\ tpc[t] = "decide"
  /\ Goto(t, IF failures >= MaxRestarts \/ stopEvent THEN "cleanup" ELSE "record")
  /\ UNCHANGED <<runtimeVars, policyVars, adapterUp, callerVars, starts>>

RecordFailure(t) ==
  /\ tpc[t] = "record"
  /\ failures' = failures + 1
  /\ healthy' = FALSE
  /\ Goto(t, "respawn")
  /\ UNCHANGED <<runtimeVars, adapterUp, callerVars, starts>>

\* Mutated form: no new thread.
Respawn_NoThread(t) ==
  /\ tpc[t] = "respawn"
  /\ IF "starting" \in Allowed(state)
       THEN state' = "starting" /\ Goto(t, "dead")
       ELSE UNCHANGED state /\ Goto(t, "cleanup")
  /\ UNCHANGED <<stopEvent, thread, policyVars, adapterUp, callerVars, starts>>

\* _handle_runtime_failure, second section: STARTING with a new thread to which
\* the adapter is handed over, or the transition raises.
Respawn(t) ==
  /\ tpc[t] = "respawn"
  /\ IF "starting" \in Allowed(state)
       THEN state' = "starting" /\ Spawn([tpc EXCEPT ![t] = "dead"])
       ELSE UNCHANGED <<state, thread>> /\ Goto(t, "cleanup")
  /\ UNCHANGED <<stopEvent, policyVars, adapterUp, callerVars, starts>>

\* Mutated form: the adapter is left to stop() once a stop is signalled.
Cleanup_TrustsStop(t) ==
  /\ tpc[t] = "cleanup"
  /\ adapterUp' = (adapterUp /\ stopEvent)
  /\ Goto(t, "dead")
  /\ UNCHANGED <<runtimeVars, policyVars, callerVars, starts>>

\* The finally clause: a thread without a successor stops the adapter.
Cleanup(t) ==
  /\ tpc[t] = "cleanup"
  /\ adapterUp' = FALSE
  /\ Goto(t, "dead")
  /\ UNCHANGED <<runtimeVars, policyVars, callerVars, starts>>

(***************************************************************************)

PollStep(t) ==
  \/ AdapterStarts(t) \/ AdapterStartFails(t) \/ EnterRunning(t)
  \/ LoopTest(t) \/ ReadFails(t) \/ ReadReturns(t)
  \/ EventsForwarded(t) \/ LoopCrashes(t)
  \/ EnterFailed(t) \/ Decide(t) \/ RecordFailure(t) \/ Respawn(t) \/ Cleanup(t)

StopStep(c) == StopJoined(c) \/ StopFinish(c)

Next ==
  \/ \E t \in Threads : PollStep(t)
  \/ \E c \in Callers : StartCall(c) \/ RestartCall(c) \/ StopBegin(c) \/ StopStep(c)

Spec == Init /\ [][Next]_vars

\* Threads run: the adapter's calls return, and stop() goes on.
FairSpec ==
  /\ Spec
  /\ \A t \in Threads : WF_vars(PollStep(t))
  /\ \A c \in Callers : WF_vars(StopStep(c))

(***************************************************************************)
(* Properties.                                                             *)
(***************************************************************************)

Live(t)    == tpc[t] # "dead"
Serves(t)  == tpc[t] \in {"start", "begin", "loop", "read", "work", "fail"}
Active     == state \in {"starting", "running", "degraded"}

\* "Active" is never an empty word: until a stop is signalled, a runtime that says it is starting,
\* running or degraded has a thread that starts or reads its adapter, or is about to report its
\* failure, however start(), stop(), restart() and automatic restarts overlap.
ActiveIsServed == Active /\ ~stopEvent => \E t \in Threads : Serves(t)

\* The adapter is never left running with nobody to stop it: the finally clause of _run_loop and the
\* hand-over to a replacement ("avoids the old-thread stop racing the new-thread start") leave a
\* thread behind wherever they leave a started adapter, also when the restart is refused.
AdapterIsOwned == adapterUp => \E t \in Threads : Live(t)

\* "Restarts are only permitted up to a finite budget", although the budget is looked at and consumed
\* in two steps: threads that fail side by side exceed it, but by no more than the calls of start()
\* and restart() that brought them.
BudgetHolds == starts > 0 => failures < MaxRestarts + starts

\* "no background thread is left behind": once a stop has been signalled for good every thread ends,
\* those too that stop() does not know of or gave up waiting for, and the adapter is stopped.
StopQuiesces == <>[]stopEvent => <>[](~adapterUp /\ \A t \in Threads : ~Live(t))

\* A runtime that fails over and over ends up FAILED, or recovers and runs; it
\* does not stay between two restarts.
StartingEnds == state = "starting" ~> state # "starting"

(***************************************************************************)
(* Theorems, for any number of threads, callers, calls and restarts.       *)
(***************************************************************************)

USE DEF runtimeVars, policyVars, callerVars, vars

LEMMA InitTypeOK == Init => TypeOK
<1> SUFFICES ASSUME Init PROVE TypeOK
  OBVIOUS
<1>1. starts \in 0 .. MaxStarts
  BY ConstantsOK DEF ConstantsOK, Init
<1>2. QED
  BY <1>1 DEF Init, TypeOK, States

\* A control thread's step keeps every variable within its type.
LEMMA CallerTypeOK ==
  ASSUME TypeOK, NEW c \in Callers,
         StartCall(c) \/ RestartCall(c) \/ StopBegin(c) \/ StopStep(c)
  PROVE  TypeOK'
<1>1. CASE StartCall(c) \/ RestartCall(c)
  <2>1. PICK op, from : Launch(c, op, from)
    BY <1>1 DEF StartCall, RestartCall
  <2>2. starts' \in 0 .. MaxStarts
    BY <2>1, ConstantsOK DEF ConstantsOK, Launch, TypeOK
  <2>3. QED
    BY <2>1, <2>2 DEF Launch, Spawn, ResetPolicy, TypeOK, States
<1>2. CASE StopBegin(c)
  BY <1>2 DEF StopBegin, TypeOK, States
<1>3. CASE StopJoined(c)
  BY <1>3 DEF StopJoined, TypeOK
<1>4. CASE StopFinish(c)
  BY <1>4 DEF StopFinish, TypeOK, States
<1>5. QED
  BY <1>1, <1>2, <1>3, <1>4 DEF StopStep

\* So does a poll thread's.
LEMMA PollTypeOK ==
  ASSUME TypeOK, NEW t \in Threads, PollStep(t)
  PROVE  TypeOK'
<1>1. CASE AdapterStarts(t) \/ Cleanup(t)
  BY <1>1 DEF AdapterStarts, Cleanup, Goto, TypeOK
<1>2. CASE AdapterStartFails(t) \/ LoopTest(t) \/ EventsForwarded(t) \/ LoopCrashes(t) \/ Decide(t)
  BY <1>2 DEF AdapterStartFails, LoopTest, EventsForwarded, LoopCrashes, Decide, Goto, TypeOK
<1>3. CASE EnterRunning(t) \/ ReadFails(t)
  BY <1>3 DEF EnterRunning, ReadFails, Goto, TypeOK, States
<1>4. CASE ReadReturns(t)
  <2>1. failures' \in Nat /\ state' \in States
    BY <1>4 DEF ReadReturns, TypeOK, States
  <2>2. /\ healthy' = TRUE
        /\ tpc' = [tpc EXCEPT ![t] = "work"]
        /\ UNCHANGED <<stopEvent, thread, adapterUp, callerVars, starts>>
    BY <1>4 DEF ReadReturns, Goto
  <2>3. QED
    BY <2>1, <2>2 DEF TypeOK
<1>5. CASE RecordFailure(t)
  <2>1. failures' \in Nat
    BY <1>5 DEF RecordFailure, TypeOK
  <2>2. /\ healthy' = FALSE
        /\ tpc' = [tpc EXCEPT ![t] = "respawn"]
        /\ UNCHANGED <<runtimeVars, adapterUp, callerVars, starts>>
    BY <1>5 DEF RecordFailure, Goto
  <2>3. QED
    BY <2>1, <2>2 DEF TypeOK
<1>6. CASE Respawn(t)
  <2>1. CASE "starting" \in Allowed(state)
    BY <1>6, <2>1 DEF Respawn, Spawn, TypeOK, States
  <2>2. CASE "starting" \notin Allowed(state)
    BY <1>6, <2>2 DEF Respawn, Goto, TypeOK
  <2>3. QED
    BY <2>1, <2>2
<1>7. CASE EnterFailed(t)
  BY <1>7 DEF EnterFailed, Goto, TypeOK, States
<1>8. QED
  BY <1>1, <1>2, <1>3, <1>4, <1>5, <1>6, <1>7 DEF PollStep

LEMMA NextTypeOK == TypeOK /\ [Next]_vars => TypeOK'
<1> SUFFICES ASSUME TypeOK, [Next]_vars PROVE TypeOK'
  OBVIOUS
<1>1. CASE UNCHANGED vars
  BY <1>1 DEF TypeOK
<1>2. CASE Next
  BY <1>2, CallerTypeOK, PollTypeOK DEF Next
<1>3. QED
  BY <1>1, <1>2

\* Every variable of the runtime and of its policy stays within its type; in
\* particular no step leads to a lifecycle state that _ALLOWED does not know.
THEOREM TypeCorrect == Spec => []TypeOK
BY InitTypeOK, NextTypeOK, PTL DEF Spec

(***************************************************************************)
(* A thread for whatever is active, and a thread for a started adapter.    *)
(***************************************************************************)

USE DEF Live

\* Who makes the runtime active brings a thread that serves it, and a thread that stops serving
\* has left the active states, or has seen the stop.
LEMMA ServedStep == TypeOK /\ ActiveIsServed /\ [Next]_vars => ActiveIsServed'
<1> SUFFICES ASSUME TypeOK, ActiveIsServed, [Next]_vars PROVE ActiveIsServed'
  OBVIOUS
<1> USE DEF TypeOK, ActiveIsServed, Active, Serves
<1>1. ASSUME NEW c \in Callers, StartCall(c) \/ RestartCall(c)
      PROVE  ActiveIsServed'
  BY <1>1 DEF StartCall, RestartCall, Launch, Spawn
<1>2. ASSUME NEW c \in Callers, StopBegin(c) \/ StopStep(c)
      PROVE  ActiveIsServed'
  BY <1>2 DEF StopBegin, StopStep, StopJoined, StopFinish
<1>3. ASSUME NEW t \in Threads,
             AdapterStarts(t) \/ AdapterStartFails(t) \/ EnterRunning(t) \/ LoopTest(t)
               \/ ReadFails(t) \/ ReadReturns(t) \/ EventsForwarded(t) \/ LoopCrashes(t)
      PROVE  ActiveIsServed'
  BY <1>3 DEF AdapterStarts, AdapterStartFails, EnterRunning, LoopTest, ReadFails, ReadReturns,
              EventsForwarded, LoopCrashes, Goto
<1>4. ASSUME NEW t \in Threads, EnterFailed(t)
      PROVE  ActiveIsServed'
  BY <1>4 DEF EnterFailed, Allowed, Goto, States
<1>5. ASSUME NEW t \in Threads, Decide(t) \/ RecordFailure(t) \/ Cleanup(t)
      PROVE  ActiveIsServed'
  BY <1>5 DEF Decide, RecordFailure, Cleanup, Goto
<1>6. ASSUME NEW t \in Threads, Respawn(t)
      PROVE  ActiveIsServed'
  BY <1>6 DEF Respawn, Spawn, Free, Goto
<1>7. QED
  BY <1>1, <1>2, <1>3, <1>4, <1>5, <1>6 DEF Next, PollStep

\* A runtime that says it is at work has a thread for it, for any number of threads and callers,
\* any calls, any budget, and threads as slow as they like.
THEOREM ActiveIsServedHolds == Spec => []ActiveIsServed
<1>1. Init => ActiveIsServed
  BY DEF Init, ActiveIsServed, Active
<1>2. QED
  BY <1>1, ServedStep, TypeCorrect, PTL DEF Spec

LEMMA OwnedStep == TypeOK /\ AdapterIsOwned /\ [Next]_vars => AdapterIsOwned'
<1> SUFFICES ASSUME TypeOK, AdapterIsOwned, [Next]_vars PROVE AdapterIsOwned'
  OBVIOUS
<1> USE DEF TypeOK, AdapterIsOwned
<1>1. ASSUME NEW c \in Callers, StartCall(c) \/ RestartCall(c) \/ StopBegin(c) \/ StopStep(c)
      PROVE  AdapterIsOwned'
  BY <1>1 DEF StartCall, RestartCall, Launch, Spawn, StopBegin, StopStep, StopJoined, StopFinish
<1>2. ASSUME NEW t \in Threads,
             AdapterStarts(t) \/ AdapterStartFails(t) \/ EnterRunning(t) \/ LoopTest(t)
               \/ ReadFails(t) \/ ReadReturns(t) \/ EventsForwarded(t) \/ LoopCrashes(t)
      PROVE  AdapterIsOwned'
  BY <1>2 DEF AdapterStarts, AdapterStartFails, EnterRunning, LoopTest, ReadFails, ReadReturns,
              EventsForwarded, LoopCrashes, Goto
<1>3. ASSUME NEW t \in Threads, EnterFailed(t) \/ Decide(t) \/ RecordFailure(t) \/ Cleanup(t)
      PROVE  AdapterIsOwned'
  BY <1>3 DEF EnterFailed, Decide, RecordFailure, Cleanup, Goto
<1>4. ASSUME NEW t \in Threads, Respawn(t)
      PROVE  AdapterIsOwned'
  BY <1>4 DEF Respawn, Spawn, Free, Goto
<1>5. QED
  BY <1>1, <1>2, <1>3, <1>4 DEF Next, PollStep

\* No started adapter is left without a thread that will stop it or hand it over.
THEOREM AdapterIsOwnedHolds == Spec => []AdapterIsOwned
<1>1. Init => AdapterIsOwned
  BY DEF Init, AdapterIsOwned
<1>2. QED
  BY <1>1, OwnedStep, TypeCorrect, PTL DEF Spec

(***************************************************************************)
(* The budget of automatic restarts.                                       *)
(***************************************************************************)

LiveOnes  == {t \in Threads : Live(t)}
Recorders == {t \in Threads : tpc[t] = "record"}

\* A call of start() or restart() brings at most one thread more, and a thread that has found budget
\* left and not yet consumed it counts as a restart.
BudgetInv ==
  /\ IsFiniteSet(LiveOnes)
  /\ Cardinality(LiveOnes) <= starts
  /\ starts > 0 => failures + Cardinality(Recorders) < MaxRestarts + starts

\* One thread more or less in a finite set.
LEMMA OneMore ==
  ASSUME NEW S, NEW T, NEW x, IsFiniteSet(S), T \subseteq S \cup {x}
  PROVE  IsFiniteSet(T) /\ Cardinality(T) \in Nat /\ Cardinality(S) \in Nat /\ Cardinality(T) <= Cardinality(S) + 1
<1>1. IsFiniteSet(S \cup {x}) /\ Cardinality(S \cup {x}) \in Nat /\ Cardinality(S) \in Nat
        /\ Cardinality(S \cup {x}) <= Cardinality(S) + 1
  BY FS_AddElement, FS_CardinalityType
<1>2. IsFiniteSet(T) /\ Cardinality(T) \in Nat /\ Cardinality(T) <= Cardinality(S \cup {x})
  BY <1>1, FS_Subset, FS_CardinalityType
<1>3. QED
  BY <1>1, <1>2

LEMMA NoMore ==
  ASSUME NEW S, NEW T, IsFiniteSet(S), T \subseteq S
  PROVE  IsFiniteSet(T) /\ Cardinality(T) \in Nat /\ Cardinality(S) \in Nat /\ Cardinality(T) <= Cardinality(S)
BY FS_Subset, FS_CardinalityType

\* What the numbers are, wherever the invariant holds.
LEMMA Numbers ==
  ASSUME TypeOK, BudgetInv
  PROVE  /\ starts \in Nat /\ failures \in Nat /\ MaxRestarts \in Nat /\ MaxStarts \in Nat
         /\ Recorders \subseteq LiveOnes /\ IsFiniteSet(Recorders)
         /\ Cardinality(LiveOnes) \in Nat /\ Cardinality(Recorders) \in Nat
         /\ Cardinality(Recorders) <= Cardinality(LiveOnes)
<1>1. Recorders \subseteq LiveOnes
  BY DEF Recorders, LiveOnes
<1>2. QED
  BY <1>1, NoMore, ConstantsOK DEF ConstantsOK, TypeOK, BudgetInv

\* A step that brings no thread and no recorder, and consumes nothing.
LEMMA QuietBudget ==
  ASSUME TypeOK, BudgetInv, starts' = starts, failures' \in Nat, failures' <= failures,
         LiveOnes' \subseteq LiveOnes, Recorders' \subseteq Recorders
  PROVE  BudgetInv'
<1>1. IsFiniteSet(LiveOnes') /\ Cardinality(LiveOnes') \in Nat /\ Cardinality(LiveOnes') <= Cardinality(LiveOnes)
  BY NoMore DEF BudgetInv
<1>2. Cardinality(Recorders') \in Nat /\ Cardinality(Recorders') <= Cardinality(Recorders)
  BY Numbers, NoMore
<1>3. QED
  BY <1>1, <1>2, Numbers DEF BudgetInv

LEMMA LaunchBudget ==
  ASSUME TypeOK, BudgetInv, NEW c \in Callers, NEW op, NEW from, Launch(c, op, from)
  PROVE  BudgetInv'
<1>1. PICK t \in Threads : Free(t) /\ tpc' = [tpc EXCEPT ![t] = "start"]
  BY DEF Launch, Spawn
<1>2. LiveOnes' \subseteq LiveOnes \cup {t} /\ Recorders' \subseteq Recorders
  BY <1>1 DEF LiveOnes, Recorders, TypeOK
<1>3. IsFiniteSet(LiveOnes') /\ Cardinality(LiveOnes') \in Nat /\ Cardinality(LiveOnes') <= Cardinality(LiveOnes) + 1
  BY <1>2, OneMore DEF BudgetInv
<1>4. Cardinality(Recorders') \in Nat /\ Cardinality(Recorders') <= Cardinality(Recorders)
  BY <1>2, Numbers, NoMore
<1>5. starts' = starts + 1 /\ failures' = 0
  BY DEF Launch, ResetPolicy
<1>6. QED
  BY <1>3, <1>4, <1>5, Numbers DEF BudgetInv

LEMMA DecideBudget ==
  ASSUME TypeOK, BudgetInv, NEW t \in Threads, Decide(t)
  PROVE  BudgetInv'
<1>1. UNCHANGED <<failures, starts>> /\ tpc[t] = "decide"
  BY DEF Decide
<1>2. CASE failures >= MaxRestarts \/ stopEvent
  <2>1. LiveOnes' \subseteq LiveOnes /\ Recorders' \subseteq Recorders
    BY <1>2 DEF Decide, Goto, LiveOnes, Recorders, TypeOK
  <2>2. QED
    BY <1>1, <2>1, QuietBudget, Numbers
<1>3. CASE ~(failures >= MaxRestarts \/ stopEvent)
  <2>1. tpc' = [tpc EXCEPT ![t] = "record"]
    BY <1>3 DEF Decide, Goto
  <2>2. LiveOnes' = LiveOnes /\ Recorders' \subseteq LiveOnes
    BY <1>1, <2>1 DEF LiveOnes, Recorders, TypeOK
  <2>3. Cardinality(Recorders') \in Nat /\ Cardinality(Recorders') <= Cardinality(LiveOnes)
    BY <2>2, NoMore DEF BudgetInv
  <2>4. failures < MaxRestarts
    BY <1>3, Numbers
  <2>5. QED
    BY <1>1, <2>2, <2>3, <2>4, Numbers DEF BudgetInv
<1>4. QED
  BY <1>2, <1>3

LEMMA RecordBudget ==
  ASSUME TypeOK, BudgetInv, NEW t \in Threads, RecordFailure(t)
  PROVE  BudgetInv'
<1>1. LiveOnes' = LiveOnes /\ Recorders' = Recorders \ {t} /\ t \in Recorders
  BY DEF RecordFailure, Goto, LiveOnes, Recorders, TypeOK
<1>2. Cardinality(Recorders') = Cardinality(Recorders) - 1
  BY <1>1, Numbers, FS_RemoveElement
<1>3. failures' = failures + 1 /\ starts' = starts
  BY DEF RecordFailure
<1>4. QED
  BY <1>1, <1>2, <1>3, Numbers DEF BudgetInv

LEMMA RespawnBudget ==
  ASSUME TypeOK, BudgetInv, NEW t \in Threads, Respawn(t)
  PROVE  BudgetInv'
<1>1. UNCHANGED <<failures, starts>>
  BY DEF Respawn
<1>2. CASE "starting" \in Allowed(state)
  <2>1. PICK u \in Threads : Free(u) /\ tpc' = [[tpc EXCEPT ![t] = "dead"] EXCEPT ![u] = "start"]
    BY <1>2 DEF Respawn, Spawn
  <2>2. t \in LiveOnes /\ u \notin LiveOnes /\ u # t
    BY <2>1 DEF Respawn, LiveOnes, Free
  <2>3. LiveOnes' = (LiveOnes \ {t}) \cup {u} /\ Recorders' \subseteq Recorders
    BY <2>1, <2>2 DEF LiveOnes, Recorders, TypeOK
  <2>4. IsFiniteSet(LiveOnes \ {t}) /\ Cardinality(LiveOnes \ {t}) = Cardinality(LiveOnes) - 1
    BY <2>2, FS_RemoveElement DEF BudgetInv
  <2>5. IsFiniteSet(LiveOnes') /\ Cardinality(LiveOnes') = Cardinality(LiveOnes)
    BY <2>2, <2>3, <2>4, FS_AddElement, Numbers
  <2>6. Cardinality(Recorders') \in Nat /\ Cardinality(Recorders') <= Cardinality(Recorders)
    BY <2>3, Numbers, NoMore
  <2>7. QED
    BY <1>1, <2>5, <2>6, Numbers DEF BudgetInv
<1>3. CASE "starting" \notin Allowed(state)
  <2>1. LiveOnes' \subseteq LiveOnes /\ Recorders' \subseteq Recorders
    BY <1>3 DEF Respawn, Goto, LiveOnes, Recorders, TypeOK
  <2>2. QED
    BY <1>1, <2>1, QuietBudget, Numbers
<1>4. QED
  BY <1>2, <1>3

LEMMA BudgetStep == TypeOK /\ BudgetInv /\ [Next]_vars => BudgetInv'
<1> SUFFICES ASSUME TypeOK, BudgetInv, [Next]_vars PROVE BudgetInv'
  OBVIOUS
<1>1. ASSUME NEW c \in Callers, StartCall(c) \/ RestartCall(c)
      PROVE  BudgetInv'
  BY <1>1, LaunchBudget DEF StartCall, RestartCall
<1>2. ASSUME NEW c \in Callers, StopBegin(c) \/ StopStep(c)
      PROVE  BudgetInv'
  <2>1. UNCHANGED <<tpc, failures, starts>>
    BY <1>2 DEF StopBegin, StopStep, StopJoined, StopFinish
  <2>2. LiveOnes' = LiveOnes /\ Recorders' = Recorders
    BY <2>1 DEF LiveOnes, Recorders
  <2>3. QED
    BY <2>1, <2>2, QuietBudget, Numbers
<1>3. ASSUME NEW t \in Threads,
             AdapterStarts(t) \/ AdapterStartFails(t) \/ EnterRunning(t) \/ LoopTest(t)
               \/ ReadFails(t) \/ ReadReturns(t) \/ EventsForwarded(t) \/ LoopCrashes(t)
               \/ EnterFailed(t) \/ Cleanup(t)
      PROVE  BudgetInv'
  <2>1. starts' = starts /\ failures' \in {failures, 0}
    BY <1>3 DEF AdapterStarts, AdapterStartFails, EnterRunning, LoopTest, ReadFails, ReadReturns,
                EventsForwarded, LoopCrashes, EnterFailed, Cleanup
  <2>2. LiveOnes' \subseteq LiveOnes /\ Recorders' \subseteq Recorders
    BY <1>3 DEF AdapterStarts, AdapterStartFails, EnterRunning, LoopTest, ReadFails, ReadReturns,
                EventsForwarded, LoopCrashes, EnterFailed, Cleanup, Goto, LiveOnes, Recorders, TypeOK
  <2>3. QED
    BY <2>1, <2>2, QuietBudget, Numbers
<1>4. ASSUME NEW t \in Threads, Decide(t) \/ RecordFailure(t) \/ Respawn(t)
      PROVE  BudgetInv'
  BY <1>4, DecideBudget, RecordBudget, RespawnBudget
<1>5. CASE UNCHANGED vars
  <2>1. LiveOnes' = LiveOnes /\ Recorders' = Recorders
    BY <1>5 DEF LiveOnes, Recorders
  <2>2. QED
    BY <1>5, <2>1, QuietBudget, Numbers
<1>6. QED
  BY <1>1, <1>2, <1>3, <1>4, <1>5 DEF Next, PollStep

\* The automatic restarts exceed the budget by no more than the calls of start() and restart() that
\* overlap, for any number of threads and callers: with one call they keep to it.
THEOREM BudgetIsKept == Spec => []BudgetHolds
<1>1. Init => BudgetInv
  <2>1. Init => LiveOnes = {} /\ starts = 0
    BY DEF Init, LiveOnes
  <2>2. QED
    BY <2>1, FS_EmptySet DEF BudgetInv
<1>2. TypeOK /\ BudgetInv => BudgetHolds
  BY Numbers DEF BudgetInv, BudgetHolds
<1>3. QED
  BY <1>1, <1>2, BudgetStep, TypeCorrect, PTL DEF Spec
=============================================================================
