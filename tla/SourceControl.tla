------------------------------ MODULE SourceControl ------------------------------
(***************************************************************************)
(* The control of the production sources: the catalogue registers its      *)
(* enabled sources with the supervisor, whose table the production runtime *)
(* starts, stops and reports on.  The supervisor takes the runtimes from   *)
(* its table under its lock and acts on them without it, and the           *)
(* production runtime has no lock at all, so calls of two threads overlap. *)
(* A source's own runtime is reduced to its state.                         *)
(***************************************************************************)
EXTENDS Integers, Sequences, FiniteSets

CONSTANTS
  Threads,    \* callers of the controller
  Catalogues, \* of other deployments: sequences of definitions [name, type, enabled]
  Names,      \* the sources' names
  MaxCalls    \* bound on calls

VARIABLES
  catalogue, \* the provider's definitions
  known,     \* the adapter types the factory can build
  validated, \* the provider has validated them
  table,     \* the names in the supervisor's table
  state,     \* [Names -> state of the source's runtime]
  started,   \* the production runtime's flag
  call,      \* [Threads -> the call it is in, or Away]
  calls,     \* bounded
  overlapped \* ghost: sources a call reached after they were taken from the table

controlVars == <<catalogue, known, validated, table, state, started, call, calls, overlapped>>

Away == [op |-> "none"]
States == {"stopped", "running", "degraded", "failed"}
Active == {"running", "degraded"}

\* The definitions of the core process, and those of the two webhook processes.
Definition(name, type) == [name |-> name, type |-> type, enabled |-> TRUE]
ProductionCatalogue == <<Definition("radio", "multicast_audio"), Definition("signal", "signal")>>
WhatsAppDefinition == Definition("whatsapp", "whatsapp")
TelegramDefinition == Definition("telegram", "telegram")

\* build_production_adapter_factory; the WhatsApp process adds its own type to it.
ProductionTypes == {"atak", "mqtt", "signal", "radio", "telegram", "multicast_audio"}
Compositions ==
  {[definitions |-> ProductionCatalogue, types |-> ProductionTypes],
   [definitions |-> <<TelegramDefinition>>, types |-> ProductionTypes],
   [definitions |-> <<WhatsAppDefinition>>, types |-> ProductionTypes \cup {"whatsapp"}]}
  \cup {[definitions |-> c, types |-> ProductionTypes] : c \in Catalogues}

\* Names has the sources of them all.
NamesOK == \A c \in Compositions : \A i \in DOMAIN c.definitions : i \in Nat /\ c.definitions[i].name \in Names

Init ==
  /\ \E c \in Compositions : catalogue = c.definitions /\ known = c.types
  /\ validated = FALSE /\ table = {} /\ state = [n \in Names |-> "stopped"]
  /\ started = FALSE /\ call = [t \in Threads |-> Away] /\ calls = 0 /\ overlapped = {}

TypeOK ==
  /\ table \subseteq Names /\ known \subseteq ProductionTypes \cup {"whatsapp"}
  /\ state \in [Names -> States] /\ started \in BOOLEAN /\ calls \in 0 .. MaxCalls
  /\ \A t \in Threads : call[t].op \in {"none", "start", "startOne", "stop", "stopOne", "health", "report"}

Enter(t, c) == call[t].op \in {"none", "report"} /\ calls < MaxCalls /\ calls' = calls + 1 /\ call' = [call EXCEPT ![t] = c]
Leave(t) == call' = [call EXCEPT ![t] = Away]

\* load refuses a catalogue with a name twice.
Load(t) ==
  /\ ~validated /\ validated' = (Cardinality({catalogue[i].name : i \in DOMAIN catalogue}) = Len(catalogue))
  /\ Enter(t, Away) /\ UNCHANGED <<catalogue, known, table, state, started, overlapped>>

\* configured_sources: the positions of the enabled ones, none before load.
Configured == {i \in DOMAIN catalogue : validated /\ catalogue[i].enabled}
\* One by one: an unknown adapter type, or a name the table has, raises and leaves the ones before.
Register(t) ==
  LET refused == {i \in Configured : catalogue[i].type \notin known \/ catalogue[i].name \in table}
      taken == {i \in Configured : \A j \in refused : i < j}
  IN /\ table' = table \cup {catalogue[i].name : i \in taken}
     /\ Enter(t, Away) /\ UNCHANGED <<catalogue, known, validated, state, started, overlapped>>

\* start: nothing when started; else the startup catch-up, whose failure is logged, and a copy of the table.
Start(t) ==
  /\ Enter(t, IF started THEN Away ELSE [op |-> "start", todo |-> table])
  /\ UNCHANGED <<catalogue, known, validated, table, state, started, overlapped>>
\* start_all goes on when a source cannot start.
StartNext(t) ==
  /\ call[t].op \in {"start", "startOne"}
  /\ IF call[t].todo = {}
       THEN started' = (started \/ call[t].op = "start") /\ Leave(t) /\ UNCHANGED <<state, overlapped>>
       ELSE \E n \in call[t].todo, s \in {"running", "failed"} :
              /\ state' = (IF state[n] \in Active THEN state ELSE [state EXCEPT ![n] = s])
              /\ overlapped' = (IF n \in table THEN overlapped ELSE overlapped \cup {n})
              /\ call' = [call EXCEPT ![t].todo = @ \ {n}] /\ UNCHANGED started
  /\ UNCHANGED <<catalogue, known, validated, table, calls>>

\* stop: a copy of the table is stopped, then the table is cleared: a later start finds no source.
Stop(t) ==
  /\ Enter(t, [op |-> "stop", todo |-> table]) /\ UNCHANGED <<catalogue, known, validated, table, state, started, overlapped>>
\* Mutated form: the table is cleared and its runtimes are left.
StopNext_Clears(t) ==
  /\ call[t].op = "stop" /\ table' = {} /\ started' = FALSE /\ Leave(t)
  /\ UNCHANGED <<catalogue, known, validated, state, calls, overlapped>>
StopNext(t) ==
  /\ call[t].op = "stop"
  /\ IF call[t].todo = {}
       THEN /\ table' = {} /\ started' = FALSE /\ Leave(t) /\ UNCHANGED state
            \* A source registered after the copy was made is forgotten, running or not.
            /\ overlapped' = overlapped \cup {n \in table : state[n] \in Active}
       ELSE \E n \in call[t].todo :
              /\ state' = [state EXCEPT ![n] = "stopped"] /\ call' = [call EXCEPT ![t].todo = @ \ {n}]
              /\ UNCHANGED <<table, started, overlapped>>
  /\ UNCHANGED <<catalogue, known, validated, calls>>

\* start_source and stop_source of a name in the table; neither looks at the flag.
StartSource(t, n) ==
  /\ n \in table /\ Enter(t, [op |-> "startOne", todo |-> {n}])
  /\ UNCHANGED <<catalogue, known, validated, table, state, started, overlapped>>
StopSource(t, n) ==
  /\ n \in table /\ Enter(t, Away) /\ state' = [state EXCEPT ![n] = "stopped"]
  /\ UNCHANGED <<catalogue, known, validated, table, started, overlapped>>

\* remove_adapter takes the runtime from the table, then stops it.
Remove(t, n) ==
  /\ n \in table /\ Enter(t, [op |-> "stopOne", todo |-> {n}]) /\ table' = table \ {n}
  /\ UNCHANGED <<catalogue, known, validated, state, started, overlapped>>
\* Mutated form: the runtime taken is not stopped.
RemoveEnds_Keeps(t) ==
  /\ call[t].op = "stopOne" /\ Leave(t) /\ UNCHANGED <<catalogue, known, validated, table, state, started, calls, overlapped>>
RemoveEnds(t) ==
  /\ call[t].op = "stopOne" /\ state' = [n \in Names |-> IF n \in call[t].todo THEN "stopped" ELSE state[n]] /\ Leave(t)
  /\ UNCHANGED <<catalogue, known, validated, table, started, calls, overlapped>>

\* A source's runtime fails, recovers or gives up by itself.
Change(n, s) ==
  /\ state[n] \in Active /\ s # "stopped" /\ s # state[n] /\ state' = [state EXCEPT ![n] = s]
  /\ UNCHANGED <<catalogue, known, validated, table, started, call, calls, overlapped>>

\* runtime_health: the flag and the names, then each runtime on its own; one removed meanwhile raises.
Health(t) ==
  /\ Enter(t, [op |-> "health", todo |-> table, seen |-> {}, flag |-> started])
  /\ UNCHANGED <<catalogue, known, validated, table, state, started, overlapped>>
HealthNext(t) ==
  LET c == call[t] IN
  /\ c.op = "health"
  /\ IF c.todo \ table # {} /\ c.todo # {} THEN Leave(t)
     ELSE IF c.todo = {} THEN call' = [call EXCEPT ![t].op = "report"]
     ELSE \E n \in c.todo : call' = [call EXCEPT ![t].todo = @ \ {n}, ![t].seen = @ \cup {[name |-> n, state |-> state[n]]}]
  /\ UNCHANGED <<catalogue, known, validated, table, state, started, calls, overlapped>>

Aggregate(c) ==
  LET seen == {r.state : r \in c.seen} IN
  CASE ~c.flag -> "stopped" [] c.flag /\ "failed" \in seen -> "failed"
    [] c.flag /\ seen \cap {"degraded", "stopped"} # {} /\ "failed" \notin seen -> "degraded" [] OTHER -> "healthy"

Next ==
  \/ \E t \in Threads :
       \/ Load(t) \/ Register(t) \/ Start(t) \/ StartNext(t) \/ Stop(t) \/ StopNext(t) \/ RemoveEnds(t)
       \/ Health(t) \/ HealthNext(t)
       \/ \E n \in Names : StartSource(t, n) \/ StopSource(t, n) \/ Remove(t, n)
  \/ \E n \in Names, s \in States : Change(n, s)

Spec == Init /\ [][Next]_controlVars

\* A source that runs is in the supervisor's table, or is about to be stopped: the exceptions are
\* those a start reached, or that were registered, while another call took them from the table.
RunningIsSupervised ==
  \A n \in Names : state[n] \in Active =>
    n \in table \cup overlapped \/ \E t \in Threads : call[t].op = "stopOne" /\ n \in call[t].todo

\* Only enabled sources of a catalogue that was validated are ever registered (fail closed).
RegisteredIsEnabled ==
  \A n \in table : validated /\ \E i \in DOMAIN catalogue : catalogue[i].name = n /\ catalogue[i].enabled /\ catalogue[i].type \in known

\* A report of a failed source says failed, and none that says healthy has a source that does not run.
ReportIsWorst ==
  \A t \in Threads : call[t].op = "report" =>
    /\ call[t].flag /\ (\E r \in call[t].seen : r.state = "failed") => Aggregate(call[t]) = "failed"
    /\ Aggregate(call[t]) = "healthy" => \A r \in call[t].seen : r.state = "running"

\* stop's promise (bootstrap.py, "no source worker is left behind"): without an overlapping call,
\* nothing runs once it has returned.
StopLeavesNothing ==
  [][\A t \in Threads : call[t].op = "stop" /\ call'[t] = Away /\ overlapped' = {} /\ (\A u \in Threads \ {t} : call[u] = Away)
       => \A n \in Names : state'[n] \notin Active]_controlVars
=============================================================================
