----------------------------- MODULE CoreRegistry ----------------------------
(***************************************************************************)
(* core.EventRegistry and the EventDispatcher that asks it whom to call.   *)
(* Registered subscribers and plugins share one index by event type,       *)
(* handlers have one of their own.  A dispatch fixes the subscribers, or   *)
(* the handlers, under the registry's lock and calls them without it, so   *)
(* they may be unregistered while it runs; the bookkeeping after the call  *)
(* of a subscriber looks it up again.                                      *)
(***************************************************************************)
EXTENDS Integers, Sequences, FiniteSets, Functions

CONSTANTS
  Ids,         \* names of subscribers
  PluginIds,   \* names of plugins
  HandlerIds,  \* names of handlers
  Types,
  MaxOps       \* bound on registrations and unregistrations

DistinctNames == Ids \cap PluginIds = {}

VARIABLES
  subs,          \* registered subscribers: id -> [types, any, prio], a partial function
  plugins,       \* registered plugins: id -> set of subscriptions, partial
  index,         \* _subscribers_by_type: type -> ids
  handlers,      \* registered handlers: id -> [types, prio], partial
  handlerIndex,  \* _handlers_by_type: type -> ids
  dispatch,      \* the running dispatch: [type, mode, snap, todo, called, results, ended], or <<>>
  ops,
  removed        \* ghost: subscribers unregistered during the dispatch

vars == <<subs, plugins, index, handlers, handlerIndex, dispatch, ops, removed>>
handlerVars == <<handlers, handlerIndex>>

Empty == [x \in {} |-> 0]
Without(f, k) == [x \in DOMAIN f \ {k} |-> f[x]]
With(f, k, v) == [x \in DOMAIN f \cup {k} |-> IF x = k THEN v ELSE f[x]]

Init ==
  /\ subs = Empty /\ plugins = Empty /\ index = [t \in Types |-> {}]
  /\ handlers = Empty /\ handlerIndex = [t \in Types |-> {}]
  /\ dispatch = <<>> /\ ops = 0 /\ removed = {}

TypeOK ==
  /\ DOMAIN subs \subseteq Ids /\ DOMAIN plugins \subseteq PluginIds
  /\ index \in [Types -> SUBSET (Ids \cup PluginIds)]
  /\ DOMAIN handlers \subseteq HandlerIds /\ handlerIndex \in [Types -> SUBSET HandlerIds]
  /\ dispatch # <<>> => dispatch.mode \in {"parallel", "sequential", "handlers"}

Op == ops < MaxOps /\ ops' = ops + 1
Indexed(i, ts) == [t \in Types |-> IF t \in ts THEN index[t] \cup {i} ELSE index[t]]
Dropped(i, ts) == [t \in Types |-> IF t \in ts THEN index[t] \ {i} ELSE index[t]]

\* register_plugin and unregister_plugin.
RegisterPlugin(i, ts) ==
  /\ Op /\ i \notin DOMAIN plugins
  /\ plugins' = With(plugins, i, ts) /\ index' = Indexed(i, ts)
  /\ UNCHANGED <<subs, handlerVars, dispatch, removed>>
UnregisterPlugin(i) ==
  /\ Op /\ i \in DOMAIN plugins
  /\ plugins' = Without(plugins, i) /\ index' = Dropped(i, plugins[i])
  /\ UNCHANGED <<subs, handlerVars, dispatch, removed>>

\* register_subscriber: for types, and for patterns (here: whether one matches every type).
RegisterSubscriber(i, ts, any, p) ==
  /\ Op /\ i \notin DOMAIN subs
  /\ subs' = With(subs, i, [types |-> ts, any |-> any, prio |-> p])
  /\ index' = Indexed(i, ts)
  /\ UNCHANGED <<plugins, handlerVars, dispatch, removed>>

\* Mutated form: the index keeps the subscriber.
UnregisterSubscriber_KeepsIndex(i) ==
  /\ Op /\ i \in DOMAIN subs
  /\ subs' = Without(subs, i)
  /\ removed' = IF dispatch = <<>> THEN removed ELSE removed \cup {i}
  /\ UNCHANGED <<plugins, index, handlerVars, dispatch>>
UnregisterSubscriber(i) ==
  /\ Op /\ i \in DOMAIN subs
  /\ subs' = Without(subs, i) /\ index' = Dropped(i, subs[i].types)
  /\ removed' = IF dispatch = <<>> THEN removed ELSE removed \cup {i}
  /\ UNCHANGED <<plugins, handlerVars, dispatch>>

\* register_handler and unregister_handler.
RegisterHandler(i, ts, p) ==
  /\ Op /\ i \notin DOMAIN handlers
  /\ handlers' = With(handlers, i, [types |-> ts, prio |-> p])
  /\ handlerIndex' = [t \in Types |-> IF t \in ts THEN handlerIndex[t] \cup {i} ELSE handlerIndex[t]]
  /\ UNCHANGED <<subs, plugins, index, dispatch, removed>>
UnregisterHandler(i) ==
  /\ Op /\ i \in DOMAIN handlers
  /\ handlers' = Without(handlers, i)
  /\ handlerIndex' = [t \in Types |-> IF t \in handlers[i].types THEN handlerIndex[t] \ {i} ELSE handlerIndex[t]]
  /\ UNCHANGED <<subs, plugins, index, dispatch, removed>>

\* clear forgets everybody at once, those of a running dispatch too.
Clear ==
  /\ Op /\ subs' = Empty /\ plugins' = Empty /\ index' = [t \in Types |-> {}]
  /\ handlers' = Empty /\ handlerIndex' = [t \in Types |-> {}]
  /\ removed' = (IF dispatch = <<>> THEN removed ELSE removed \cup DOMAIN subs) /\ UNCHANGED dispatch

\* sorted by priority, highest first; what is sorted comes from a set, so equals are in any order.
Ranked(ids, table) ==
  {q \in UNION {[1 .. n -> ids] : n \in 0 .. Cardinality(ids)} :
     /\ Range(q) = ids /\ IsInjective(q)
     /\ \A j, k \in DOMAIN q : j < k => table[q[j]].prio >= table[q[k]].prio}

\* get_subscribers_for_event: from the index and from the patterns.
ForEvent(t) == Ranked({i \in DOMAIN subs : i \in index[t] \/ subs[i].any}, subs)

\* dispatch_to_plugins names the plugins of a type and calls none of them.
PluginsFor(t) == {i \in DOMAIN plugins : t \in plugins[i]}

\* get_handlers_for_event.
HandlersFor(t) == Ranked(handlerIndex[t] \cap DOMAIN handlers, handlers)

\* A dispatch of what was found begins.
Begun(t, mode, found) ==
  [type |-> t, mode |-> mode, snap |-> Range(found), todo |-> found, called |-> <<>>, results |-> <<>>,
   ended |-> "no"]

\* dispatch: parallel when it is enabled and there is more than one subscriber.
Dispatch(t, parallel) ==
  /\ dispatch = <<>> /\ removed' = {}
  /\ \E found \in ForEvent(t) :
     /\ found # <<>>
     /\ dispatch' = Begun(t, IF parallel /\ Len(found) > 1 THEN "parallel" ELSE "sequential", found)
  /\ UNCHANGED <<subs, plugins, index, handlerVars, ops>>

Result(i, ok) == [who |-> i, ok |-> ok]

\* _dispatch_sequential, one subscriber: _execute_handler turns what the handler raises into
\* a result; _update_subscriber_stats of a subscriber that is gone raises KeyError, which
\* nothing catches.
Sequential ==
  /\ dispatch # <<>> /\ dispatch.mode = "sequential" /\ dispatch.ended = "no" /\ dispatch.todo # <<>>
  /\ LET i == Head(dispatch.todo)
         d == [dispatch EXCEPT !.todo = Tail(@), !.called = Append(@, i)]
     IN \E ok \in BOOLEAN :
          dispatch' = IF i \in DOMAIN subs THEN [d EXCEPT !.results = Append(@, Result(i, ok))]
                                          ELSE [d EXCEPT !.ended = "raised"]
  /\ UNCHANGED <<subs, plugins, index, handlerVars, ops, removed>>

\* _dispatch_parallel: the pool has called everyone in any order; as each future completes
\* its result is booked, and booked a second time as a failure when the subscriber is gone.
Parallel ==
  /\ dispatch # <<>> /\ dispatch.mode = "parallel" /\ dispatch.todo # <<>>
  /\ \E at \in DOMAIN dispatch.todo, ok \in BOOLEAN :
       LET i == dispatch.todo[at]
           booked == Append(dispatch.results, Result(i, ok))
       IN dispatch' = [dispatch EXCEPT
            !.todo = [k \in 1 .. Len(@) - 1 |-> IF k < at THEN @[k] ELSE @[k + 1]],
            !.called = Append(@, i),
            !.results = IF i \in DOMAIN subs THEN booked ELSE Append(booked, Result(i, FALSE))]
  /\ UNCHANGED <<subs, plugins, index, handlerVars, ops, removed>>

\* dispatch_to_handler: what a handler raises is logged, and of what they return the last
\* result that is not None is the answer: that of the lowest priority.
DispatchToHandlers(t) ==
  /\ dispatch = <<>> /\ removed' = {}
  /\ \E found \in HandlersFor(t) : found # <<>> /\ dispatch' = Begun(t, "handlers", found)
  /\ UNCHANGED <<subs, plugins, index, handlerVars, ops>>
CallHandler ==
  /\ dispatch # <<>> /\ dispatch.mode = "handlers" /\ dispatch.todo # <<>>
  /\ \E answers \in BOOLEAN :
       dispatch' = [dispatch EXCEPT !.todo = Tail(@), !.called = Append(@, Head(dispatch.todo)),
                                    !.results = IF answers THEN <<Result(Head(dispatch.todo), TRUE)>> ELSE @]
  /\ UNCHANGED <<subs, plugins, index, handlerVars, ops, removed>>

Over == dispatch # <<>> /\ (dispatch.todo = <<>> \/ dispatch.ended = "raised")
Return == Over /\ dispatch' = <<>> /\ UNCHANGED <<subs, plugins, index, handlerVars, ops, removed>>

\* Handlers share nothing with plugins and subscribers but clear: bounded by having the ones or
\* the others at a time.
Next ==
  \/ /\ handlers = Empty
     /\ \/ \E i \in PluginIds, t \in Types : RegisterPlugin(i, {t})
        \/ \E i \in Ids, ts \in SUBSET Types, any \in BOOLEAN, p \in {0, 1} : RegisterSubscriber(i, ts, any, p)
  \/ \E i \in PluginIds : UnregisterPlugin(i)
  \/ \E i \in Ids : UnregisterSubscriber(i)
  \/ /\ subs = Empty /\ plugins = Empty
     /\ \E i \in HandlerIds, t \in Types, p \in {0, 1} : RegisterHandler(i, {t}, p)
  \/ \E i \in HandlerIds : UnregisterHandler(i)
  \/ \E t \in Types, parallel \in BOOLEAN : Dispatch(t, parallel)
  \/ \E t \in Types : DispatchToHandlers(t)
  \/ Clear \/ Sequential \/ Parallel \/ CallHandler \/ Return

Spec == Init /\ [][Next]_vars

(***************************************************************************)
(* Properties.                                                             *)
(***************************************************************************)

\* The indexes list exactly who asked for a type and is still registered.
IndexIsExact ==
  \A t \in Types :
    /\ index[t] = {i \in DOMAIN subs : t \in subs[i].types} \cup PluginsFor(t)
    /\ handlerIndex[t] = {i \in DOMAIN handlers : t \in handlers[i].types}

\* A dispatch calls everybody it found, once, whatever their handlers raise; only a
\* subscriber that is unregistered meanwhile can cut a sequential one short.
EveryoneIsCalled ==
  Over => /\ IsInjective(dispatch.called)
          /\ dispatch.mode # "sequential" \/ removed = {} => Range(dispatch.called) = dispatch.snap

\* Whom the results are of.
Answered == [k \in DOMAIN dispatch.results |-> dispatch.results[k].who]

\* Each has one result, and in a sequential dispatch the higher priorities come first.
OneResultEach ==
  Over /\ dispatch.mode # "handlers" /\ removed = {} =>
    /\ Range(Answered) = dispatch.snap /\ IsInjective(Answered)
    /\ dispatch.mode = "sequential" =>
         \A i \in 1 .. Len(dispatch.called) - 1 :
           subs[dispatch.called[i]].prio >= subs[dispatch.called[i + 1]].prio
=============================================================================
