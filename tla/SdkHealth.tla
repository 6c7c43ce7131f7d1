------------------------------- MODULE SdkHealth -------------------------------
(***************************************************************************)
(* PluginHealth of the SDK: run_checks goes over the registered checks,    *)
(* awaiting those that are coroutines, and then sets the status and the    *)
(* count of consecutive failures.  Runs of several tasks interleave at the *)
(* awaits, and so do manual settings and new checks.                       *)
(***************************************************************************)
EXTENDS Integers, Sequences

CONSTANTS
  Runs,      \* the tasks that run the checks, each once
  MaxChecks  \* bound on registered checks

VARIABLES
  checks,     \* number of registered checks
  status, failures,
  run,        \* per task: "idle", "runs" or "done", and its results so far
  lastReport, \* overall of the report made last, or "none"
  log         \* ghost: how the reports came out, in order

vars == <<checks, status, failures, run, lastReport, log>>

Init ==
  /\ checks = 0 /\ status = "unknown" /\ failures = 0 /\ lastReport = "none" /\ log = <<>>
  /\ run = [r \in Runs |-> [pc |-> "idle", results |-> <<>>]]

Statuses == {"healthy", "degraded", "unhealthy", "unknown"}
TypeOK ==
  /\ checks \in 0 .. MaxChecks /\ status \in Statuses /\ failures \in 0 .. Len(log)
  /\ \A r \in Runs : Len(run[r].results) <= checks

AddCheck == checks < MaxChecks /\ checks' = checks + 1 /\ UNCHANGED <<status, failures, run, lastReport, log>>

\* set_status sets the status only.
SetStatus(s) == status # s /\ status' = s /\ UNCHANGED <<checks, failures, run, lastReport, log>>

Begin(r) ==
  /\ run[r].pc = "idle" /\ run' = [run EXCEPT ![r].pc = "runs"]
  /\ UNCHANGED <<checks, status, failures, lastReport, log>>

\* One check: a raising check is unhealthy; one added meanwhile is still run.
RunCheck(r, healthy) ==
  /\ run[r].pc = "runs" /\ Len(run[r].results) < checks
  /\ run' = [run EXCEPT ![r].results = Append(@, healthy)]
  /\ UNCHANGED <<checks, status, failures, lastReport, log>>

\* The overall status of some results.
Overall(results) ==
  CASE results = <<>> -> status
    [] results # <<>> /\ (\A k \in DOMAIN results : results[k]) -> "healthy"
    [] results # <<>> /\ (\A k \in DOMAIN results : ~results[k]) -> "unhealthy"
    [] OTHER -> "degraded"

\* Without checks the count stays as it is; a healthy run resets it.
Failures(results) ==
  CASE results = <<>> -> failures
    [] results # <<>> /\ (\A k \in DOMAIN results : results[k]) -> 0
    [] OTHER -> failures + 1

\* The end of run_checks, one step, after every check registered by now.
End(r) ==
  LET res == run[r].results IN
  /\ run[r].pc = "runs" /\ Len(res) = checks
  /\ status' = Overall(res) /\ failures' = Failures(res) /\ lastReport' = Overall(res)
  /\ run' = [run EXCEPT ![r].pc = "done"]
  /\ log' = (IF res = <<>> THEN log ELSE Append(log, Overall(res)))
  /\ UNCHANGED checks

Next ==
  \/ AddCheck \/ \E s \in Statuses : SetStatus(s)
  \/ \E r \in Runs : Begin(r) \/ End(r) \/ \E b \in BOOLEAN : RunCheck(r, b)

Spec == Init /\ [][Next]_vars

(***************************************************************************)
(* Properties.                                                             *)
(***************************************************************************)

\* The count of consecutive failures is the number of reports since the last healthy one,
\* in the order in which the runs ended, whatever is set by hand and however runs overlap.
FailuresAreConsecutive ==
  failures = Len(log) - (IF \E k \in DOMAIN log : log[k] = "healthy"
                         THEN CHOOSE k \in DOMAIN log : log[k] = "healthy" /\ \A j \in k + 1 .. Len(log) : log[j] # "healthy"
                         ELSE 0)

\* A run that found a check unhealthy never turned the plugin healthy: the status becomes
\* healthy at the end of a run only if all the checks of that run were.
HealthyIsEarned ==
  [][\A r \in Runs : (run[r].pc = "runs" /\ run'[r].pc = "done" /\ status' = "healthy" /\ status # "healthy")
                       => \A k \in DOMAIN run[r].results : run[r].results[k]]_vars
=============================================================================
