---------------------------- MODULE DatabaseLifecycle ----------------------------
(***************************************************************************)
(* The two module-level singletons of the database layer: the session      *)
(* manager, with its engine, and the database manager, which keeps the     *)
(* session manager it first used.  Both are replaced by                    *)
(* initialize_database; shutdown_database forgets the database manager but *)
(* only closes the session manager.  Managers are numbered.                *)
(***************************************************************************)
EXTENDS Integers, FiniteSets

CONSTANTS
  MaxManagers, \* bound on session managers configured
  MaxSessions  \* bound on sessions open at a time

VARIABLES
  configured,  \* session managers configured so far
  open,        \* those whose engine is not disposed of
  current,     \* session.py's _session_manager, or 0
  database,    \* database.py's _database_manager: [kept, ready], or NoDatabase
  held,        \* a database manager a component got and keeps, or NoDatabase
  sessions,    \* sessions in use: [of, number]
  replaced,    \* ghost: managers replaced while open
  direct       \* ghost: configure_session_manager was called on its own

dbVars == <<configured, open, current, database, held, sessions, replaced, direct>>

NoDatabase == [kept |-> -1, ready |-> FALSE]

Init ==
  /\ configured = 0 /\ open = {} /\ current = 0 /\ database = NoDatabase /\ held = NoDatabase
  /\ sessions = {} /\ replaced = {} /\ direct = FALSE

TypeOK ==
  /\ open \subseteq 1 .. configured /\ current \in 0 .. configured
  /\ database.kept \in -1 .. configured /\ held.kept \in -1 .. configured
  /\ \A s \in sessions : s.of \in 1 .. configured

\* configure_session_manager: the one before is not closed.
Configured ==
  /\ configured < MaxManagers /\ configured' = configured + 1 /\ open' = open \cup {configured + 1} /\ current' = configured + 1
  /\ replaced' = (IF current \in open THEN replaced \cup {current} ELSE replaced)
Configure ==
  /\ Configured /\ direct' = (direct \/ database # NoDatabase)
  /\ UNCHANGED <<database, held, sessions>>

\* initialize_database: creating the tables fetches the new session manager, and may fail.
Initialize(succeeds) ==
  /\ Configured /\ database' = [kept |-> configured + 1, ready |-> succeeds]
  /\ direct' = FALSE /\ UNCHANGED <<held, sessions>>

\* get_database_manager makes one when there is none; a component keeps what it gets.
GetDatabase ==
  /\ database' = (IF database = NoDatabase THEN [kept |-> 0, ready |-> FALSE] ELSE database) /\ held' = database'
  /\ UNCHANGED <<configured, open, current, sessions, replaced, direct>>

\* The first use of a database manager keeps the session manager of the moment.
UseDatabase ==
  /\ database # NoDatabase /\ database.kept = 0 /\ current # 0
  /\ held' = (IF held = database THEN [database EXCEPT !.kept = current] ELSE held)
  /\ database' = [database EXCEPT !.kept = current]
  /\ UNCHANGED <<configured, open, current, sessions, replaced, direct>>

\* session, get_session: refused by a manager that is not initialized.
OpenSession(m) ==
  /\ m \in open /\ Cardinality(sessions) < MaxSessions
  /\ sessions' = sessions \cup {[of |-> m, number |-> n] : n \in {CHOOSE n \in 1 .. MaxSessions : \A s \in sessions : s.number # n}}
  /\ UNCHANGED <<configured, open, current, database, held, replaced, direct>>

\* The manager a session is asked of: the current one, or the one a kept manager keeps.
Askable == {current, held.kept, database.kept}
CloseSession(s) ==
  /\ s \in sessions /\ sessions' = sessions \ {s}
  /\ UNCHANGED <<configured, open, current, database, held, replaced, direct>>

\* shutdown_database: sessions in use go on; session.py keeps the closed manager.
Shutdown ==
  /\ current # 0 \/ database # NoDatabase
  /\ database' = NoDatabase /\ open' = open \ {current}
  /\ UNCHANGED <<configured, current, held, sessions, replaced, direct>>

Next ==
  \/ Configure \/ GetDatabase \/ UseDatabase \/ Shutdown
  \/ \E b \in BOOLEAN : Initialize(b)
  \/ \E m \in Askable : OpenSession(m)
  \/ \E s \in sessions : CloseSession(s)

Spec == Init /\ [][Next]_dbVars

(***************************************************************************)
(* Properties.                                                             *)
(***************************************************************************)

\* An open engine is the current one, or was replaced without being closed: after a
\* shutdown no other is left open.
OpenIsCurrent == open \subseteq {current} \cup replaced

\* A session begins on an engine that is open then; a manager that was closed, which
\* session.py still has after a shutdown, hands out none.
SessionsBeginOpen == [][\A s \in sessions' \ sessions : s.of \in open]_dbVars

\* The database manager that get_database_manager returns works on the current engine, as
\* long as the engine was not configured behind its back.
DatabaseIsCurrent == ~direct /\ database.kept > 0 => database.kept = current
=============================================================================
