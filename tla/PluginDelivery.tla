---------------------------- MODULE PluginDelivery ----------------------------
(***************************************************************************)
(* PluginManager.deliver_event with the durable ledger of deliveries: for  *)
(* each running plugin of the copied list, run_idempotent looks the pair   *)
(* up, runs on_event and records the pair, in three steps.  Deliveries are *)
(* made by several processes, again and again, and cut short by crashes;   *)
(* a plugin may raise, and may be stopped while a delivery is under way.   *)
(***************************************************************************)
EXTENDS Integers, Sequences, FiniteSets, Functions

CONSTANTS
  Deliverers,    \* threads and processes that deliver
  EventIds, PluginOrder, \* PluginOrder: the plugins in registration order, a sequence
  MaxDeliveries  \* bound on deliveries

VARIABLES
  ledger,     \* recorded pairs <<event, plugin>>
  active,     \* plugins in the state RUNNING
  job,        \* per deliverer: [pc, event, rest], rest: plugins still to visit
  ran,        \* ghost: per pair, how often on_event has returned
  cuts,       \* ghost: per pair, how often a crash or a fault followed it before the record
  crossed,    \* ghost: pairs two deliverers worked on at a time
  deliveries

vars == <<ledger, active, job, ran, cuts, crossed, deliveries>>

PluginSet == Range(PluginOrder)
OrderOK == PluginOrder \in Seq(PluginSet) /\ PluginOrder # <<>>
Pairs == EventIds \X PluginSet
NoJob == [pc |-> "idle", event |-> "", rest |-> <<>>]
Pair(d) == <<job[d].event, Head(job[d].rest)>>
Busy(d) == job[d].pc \in {"run", "record"}

Init ==
  /\ ledger = {} /\ active = PluginSet /\ job = [d \in Deliverers |-> NoJob]
  /\ ran = [p \in Pairs |-> 0] /\ cuts = [p \in Pairs |-> 0] /\ crossed = {} /\ deliveries = 0

TypeOK ==
  /\ ledger \subseteq Pairs /\ active \subseteq PluginSet
  /\ \A d \in Deliverers :
       /\ job[d].pc \in {"idle", "visit", "run", "record"}
       /\ \E k \in 1 .. Len(PluginOrder) + 1 : job[d].rest = SubSeq(PluginOrder, k, Len(PluginOrder))

Goto(d, pc) == [job EXCEPT ![d].pc = pc]
NextPlugin(d) ==
  LET left == Tail(job[d].rest) IN
  [job EXCEPT ![d] = IF left = <<>> THEN NoJob
                     ELSE [pc |-> "visit", event |-> job[d].event, rest |-> left]]

\* deliver_event copies the list of entries.
Deliver(d, e) ==
  /\ job[d].pc = "idle" /\ deliveries < MaxDeliveries /\ deliveries' = deliveries + 1
  /\ job' = [job EXCEPT ![d] = [pc |-> "visit", event |-> e, rest |-> PluginOrder]]
  /\ UNCHANGED <<ledger, active, ran, cuts, crossed>>

\* Mutated form: the ledger is not asked.
Visit_NoLookup(d) ==
  /\ job[d].pc = "visit"
  /\ job' = IF Pair(d)[2] \notin active THEN NextPlugin(d) ELSE Goto(d, "run")
  /\ crossed' = IF \E o \in Deliverers \ {d} : Busy(o) /\ Pair(o) = Pair(d) THEN crossed \cup {Pair(d)} ELSE crossed
  /\ UNCHANGED <<ledger, active, ran, cuts, deliveries>>
\* A plugin that does not run by then is skipped; has_delivered suppresses a recorded pair.
Visit(d) ==
  /\ job[d].pc = "visit"
  /\ job' = IF Pair(d)[2] \notin active \/ Pair(d) \in ledger THEN NextPlugin(d) ELSE Goto(d, "run")
  /\ crossed' = IF \E o \in Deliverers \ {d} : Busy(o) /\ Pair(o) = Pair(d) THEN crossed \cup {Pair(d)} ELSE crossed
  /\ UNCHANGED <<ledger, active, ran, cuts, deliveries>>

\* on_event; when it raises, the failure is logged and the next plugin is visited.
RunPlugin(d, raises) ==
  /\ job[d].pc = "run"
  /\ IF raises THEN job' = NextPlugin(d) /\ UNCHANGED ran
     ELSE job' = Goto(d, "record") /\ ran' = [ran EXCEPT ![Pair(d)] = @ + 1]
  /\ UNCHANGED <<ledger, active, cuts, crossed, deliveries>>

\* record_delivery; a pair that is recorded already is a benign conflict, another fault of
\* the database is taken for a failure of the plugin.
Record(d, fault) ==
  /\ job[d].pc = "record" /\ job' = NextPlugin(d)
  /\ ledger' = (IF fault THEN ledger ELSE ledger \cup {Pair(d)})
  /\ cuts' = (IF fault THEN [cuts EXCEPT ![Pair(d)] = @ + 1] ELSE cuts)
  /\ UNCHANGED <<active, ran, crossed, deliveries>>

\* The process of d ends in the middle of a delivery.
CrashDeliverer(d) ==
  /\ job[d].pc # "idle" /\ job' = [job EXCEPT ![d] = NoJob]
  /\ cuts' = (IF job[d].pc = "record" THEN [cuts EXCEPT ![Pair(d)] = @ + 1] ELSE cuts)
  /\ UNCHANGED <<ledger, active, ran, crossed, deliveries>>

StopPlugin(p) ==
  /\ p \in active /\ active' = active \ {p}
  /\ UNCHANGED <<ledger, job, ran, cuts, crossed, deliveries>>

Next ==
  \/ \E d \in Deliverers : \/ \E e \in EventIds : Deliver(d, e)
                           \/ Visit(d) \/ CrashDeliverer(d)
                           \/ \E b \in BOOLEAN : RunPlugin(d, b) \/ Record(d, b)
  \/ \E p \in PluginSet : StopPlugin(p)

Spec == Init /\ [][Next]_vars

(***************************************************************************)
(* Properties.                                                             *)
(***************************************************************************)

\* What the ledger says was handled was handled: no event is suppressed for a plugin that
\* has not returned from it.
RecordedHasRun == \A p \in ledger : ran[p] > 0

\* A plugin handles an event again only for each time a crash or a fault came between its
\* return and the record, unless two deliveries crossed: "at most once" but for these.
RunsAreAccounted == \A p \in Pairs \ crossed : ran[p] <= 1 + cuts[p]
=============================================================================
