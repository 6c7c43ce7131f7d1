------------------------------ MODULE CoreHooks ------------------------------
(***************************************************************************)
(* core.EventHooks: hooks by phase, and one trigger, which awaits each     *)
(* hook, so that hooks are registered, switched and removed meanwhile.     *)
(* The event is the sequence of the hooks that changed it.                 *)
(***************************************************************************)
EXTENDS Integers, Sequences, FiniteSets, Functions

CONSTANTS HookIds, Phases,
  MaxCalls2   \* bound on calls other than trigger

VARIABLES
  hooks,    \* phase -> sequence of [id, prio, all]; `all`: no event_types given
  off,      \* ids of the hooks that are registered and disabled
  count,    \* _hook_count
  trig,     \* the trigger under way: [phase, todo, event, ran], or <<>>
  hookCalls,
  cleared   \* ghost: clear(phase) removed hooks

vars == <<hooks, off, count, trig, hookCalls, cleared>>

Init ==
  /\ hooks = [p \in Phases |-> <<>>] /\ off = {} /\ count = 0 /\ trig = <<>>
  /\ hookCalls = 0 /\ cleared = FALSE

IdsOf(list) == [i \in DOMAIN list |-> list[i].id]
Registered == UNION {Range(IdsOf(hooks[p])) : p \in Phases}

TypeOK ==
  /\ Registered \subseteq HookIds /\ off \subseteq Registered /\ count \in Int
  /\ trig # <<>> => trig.phase \in Phases

Call == hookCalls < MaxCalls2 /\ hookCalls' = hookCalls + 1

\* register: highest priority first, in the order of registration among equals, which is where
\* the stable sort of a sorted list leaves what was appended.
Inserted(list, h, at) ==
  [i \in 1 .. Len(list) + 1 |-> IF i < at THEN list[i] ELSE IF i = at THEN h ELSE list[i - 1]]
Register(i, p, r, all) ==
  /\ Call /\ i \notin Registered
  /\ \E at \in 1 .. Len(hooks[p]) + 1 :
       /\ \A k \in DOMAIN hooks[p] : k < at <=> hooks[p][k].prio >= r
       /\ hooks' = [hooks EXCEPT ![p] = Inserted(@, [id |-> i, prio |-> r, all |-> all], at)]
  /\ count' = count + 1
  /\ UNCHANGED <<off, trig, cleared>>

\* unregister takes the first hook of the id it finds.
RemovedAt(list, at) == [k \in 1 .. Len(list) - 1 |-> IF k < at THEN list[k] ELSE list[k + 1]]
Unregister(i) ==
  /\ Call
  /\ \E p \in Phases : \E at \in DOMAIN hooks[p] :
       hooks[p][at].id = i /\ hooks' = [hooks EXCEPT ![p] = RemovedAt(@, at)]
  /\ count' = count - 1 /\ off' = off \ {i}
  /\ UNCHANGED <<trig, cleared>>

\* enable and disable.
Switch(i) ==
  /\ Call /\ i \in Registered
  /\ off' = IF i \in off THEN off \ {i} ELSE off \cup {i}
  /\ UNCHANGED <<hooks, count, trig, cleared>>

\* clear: of one phase it leaves the count as it was.
ClearPhase(p) ==
  /\ Call /\ hooks[p] # <<>>
  /\ hooks' = [hooks EXCEPT ![p] = <<>>] /\ off' = off \ Range(IdsOf(hooks[p]))
  /\ cleared' = TRUE
  /\ UNCHANGED <<count, trig>>
ClearAll ==
  /\ Call /\ hooks' = [p \in Phases |-> <<>>] /\ off' = {} /\ count' = 0 /\ cleared' = FALSE
  /\ UNCHANGED trig

\* get_hooks_for_phase: a new list of the enabled hooks, in their order.
Live(p) ==
  LET list == hooks[p]
      on == {h \in Range(list) : h.id \notin off}
  IN {q \in UNION {[1 .. n -> on] : n \in 0 .. Len(list)} :
        /\ Range(q) = on
        /\ \A j, k \in DOMAIN q : j < k => \E a, b \in DOMAIN list : a < b /\ list[a] = q[j] /\ list[b] = q[k]}
Trigger(p) ==
  /\ trig = <<>>
  /\ \E live \in Live(p) :
       live # <<>> /\ trig' = [phase |-> p, todo |-> live, due |-> live, event |-> <<>>, ran |-> <<>>]
  /\ UNCHANGED <<hooks, off, count, hookCalls, cleared>>

\* One hook of trigger, or of trigger_sync: skipped unless it matches the event, and what
\* it raises is logged.
Run ==
  /\ trig # <<>> /\ trig.todo # <<>>
  /\ LET h == Head(trig.todo) IN
     \E matches \in {h.all, TRUE} : \E result \in {"changed", "none", "raised"} :
       trig' = [trig EXCEPT !.todo = Tail(@),
                 !.ran = IF matches THEN Append(@, <<h.id, result>>) ELSE @,
                 !.event = IF matches /\ result = "changed" THEN Append(@, h.id) ELSE @]
  /\ UNCHANGED <<hooks, off, count, hookCalls, cleared>>

TriggerEnds ==
  /\ trig # <<>> /\ trig.todo = <<>>
  /\ trig' = <<>>
  /\ UNCHANGED <<hooks, off, count, hookCalls, cleared>>

Next ==
  \/ \E i \in HookIds, p \in Phases, r \in {0, 1}, all \in BOOLEAN : Register(i, p, r, all)
  \/ \E i \in HookIds : Unregister(i) \/ Switch(i)
  \/ \E p \in Phases : ClearPhase(p) \/ Trigger(p)
  \/ ClearAll \/ Run \/ TriggerEnds

Spec == Init /\ [][Next]_vars

(***************************************************************************)
(* Properties.                                                             *)
(***************************************************************************)

\* A hook id is registered once over all phases, which is why unregister and enable find
\* the right one, and the count is right unless one phase alone was cleared.
HookIdsUnique ==
  /\ \A p, q \in Phases : \A i \in DOMAIN hooks[p], j \in DOMAIN hooks[q] :
       hooks[p][i].id = hooks[q][j].id => p = q /\ i = j
  /\ ~cleared => count = Cardinality(Registered)

\* The hooks that were enabled when a trigger began run in the order of their priorities,
\* each once, and the event they hand on carries every change that did not fail, in that order.
EventPassesThrough ==
  trig # <<>> =>
    /\ Range(trig.event) = {x[1] : x \in {y \in Range(trig.ran) : y[2] = "changed"}}
    /\ \A j, k \in DOMAIN trig.event : j < k =>
         \E a, b \in DOMAIN trig.ran : a < b /\ trig.ran[a][1] = trig.event[j] /\ trig.ran[b][1] = trig.event[k]
    /\ \A j, k \in DOMAIN trig.ran : j < k =>
         \E a, b \in DOMAIN trig.due :
           a < b /\ trig.due[a].id = trig.ran[j][1] /\ trig.due[b].id = trig.ran[k][1]
                /\ trig.due[a].prio >= trig.due[b].prio
    /\ \A a, b \in DOMAIN trig.due : trig.due[a].id = trig.due[b].id => a = b
    /\ trig.todo = <<>> => {h.id : h \in {g \in Range(trig.due) : g.all}} \subseteq {x[1] : x \in Range(trig.ran)}
=============================================================================
