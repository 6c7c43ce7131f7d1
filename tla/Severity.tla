-------------------------------- MODULE Severity --------------------------------
(***************************************************************************)
(* The baseline severity classifier: the ruleset is loaded once, when the  *)
(* operator process starts, which fails unless every check passes, and an  *)
(* event is classified by the most specific rule that matches its type and *)
(* source.  "*" stands for a part that a rule does not constrain.          *)
(***************************************************************************)
EXTENDS Integers, Sequences, FiniteSets, Functions

CONSTANTS
  Artifacts,  \* rulesets on disk: [fault, rules, nonExecutable]
  Synthetic,  \* sequences of rules classified by without being loaded
  Types, Sources

VARIABLES
  artifact,  \* the ruleset on disk
  process,   \* "down", "up" or "failed"
  rules,     \* RULES
  asked      \* the classification made: [rules, type, source, answer]

\* Rules are in a sequence, however faulty, and an artifact's faults are those the checks name.
RulesetsOK ==
  /\ \A a \in Artifacts :
       /\ a.rules \in Seq(Range(a.rules))
       /\ a.fault \in {"none", "noSidecar", "otherDigest", "badToml", "noTable", "badVersion", "otherVersion", "otherAdr"}
  /\ \A rs \in Synthetic : rs \in Seq(Range(rs))

vars == <<artifact, process, rules, asked>>

Nothing == [rules |-> <<>>, type |-> "", source |-> "", answer |-> "UNCLASSIFIED"]

Init == artifact \in Artifacts /\ process = "down" /\ rules = <<>> /\ asked = Nothing

TypeOK == process \in {"down", "up", "failed"} /\ (process # "up" => rules = <<>>)

IdsOf(rs) == {r.id : r \in Range(rs)}

\* _verify_integrity.
IntegrityHolds(a) == a.fault \notin {"noSidecar", "otherDigest"}
\* _validate_version_binding, and the [ruleset] table.
VersionBound(a) == a.fault \notin {"badToml", "noTable", "badVersion", "otherVersion", "otherAdr"}
\* _materialize_rule: a rule has just the known fields, a concrete event type and a known
\* severity and status.
RuleFine(r) == r.fault = "none" /\ r.type # "*"
\* _validate_non_executable.
RecordFine(n) == n.fault = "none"

\* load_ruleset.
Loadable(a) ==
  /\ IntegrityHolds(a) /\ VersionBound(a) /\ a.rules # <<>>
  /\ \A r \in Range(a.rules) : RuleFine(r)
  /\ \A j, k \in DOMAIN a.rules : a.rules[j].id = a.rules[k].id => j = k
  /\ \A n \in Range(a.nonExecutable) : RecordFine(n) /\ n.id \notin IdsOf(a.rules)

\* The import of the module; it fails closed.
Start ==
  /\ process = "down"
  /\ process' = IF Loadable(artifact) THEN "up" ELSE "failed"
  /\ rules' = (IF Loadable(artifact) THEN artifact.rules ELSE <<>>)
  /\ UNCHANGED <<artifact, asked>>

\* _specificity: pairs of Booleans, in lexicographic order.
Specificity(r) == (IF r.type # "*" THEN 2 ELSE 0) + (IF r.source # "*" THEN 1 ELSE 0)

Matches(r, type, source) == r.type \in {"*", type} /\ r.source \in {"*", source}

\* _resolve: the rules that match, and among them the most specific.
Resolve(rs, type, source) ==
  LET matching == {k \in DOMAIN rs : Matches(rs[k], type, source)}
      best == {k \in matching : \A j \in matching : Specificity(rs[k]) >= Specificity(rs[j])} IN
  IF matching = {} THEN "UNCLASSIFIED"
  ELSE IF \E j, k \in best : j # k THEN "conflict" ELSE rs[CHOOSE k \in best : TRUE].severity

\* classify_facts, with RULES; _resolve also takes another ruleset.  Nothing is kept between
\* classifications: one is enough.
Classify(rs, type, source) ==
  /\ process = "up" /\ asked = Nothing
  /\ asked' = [rules |-> rs, type |-> type, source |-> source, answer |-> Resolve(rs, type, source)]
  /\ UNCHANGED <<artifact, process, rules>>

Next == Start \/ \E t \in Types, s \in Sources : \E rs \in {rules} \cup Synthetic : Classify(rs, t, s)

Spec == Init /\ [][Next]_vars

(***************************************************************************)
(* Properties.                                                             *)
(***************************************************************************)

\* A rule takes precedence when it constrains the type and the other does not, or, that
\* being equal, the source: the order EVENT-SPECIFIC > SOURCE-SPECIFIC > GENERIC.
Precedes(r, s) ==
  \/ r.type # "*" /\ s.type = "*"
  \/ (r.type = "*") = (s.type = "*") /\ r.source # "*" /\ s.source = "*"

Reversed(rs) == [k \in DOMAIN rs |-> rs[Len(rs) + 1 - k]]

\* An answer is the severity of the one rule that precedes every other rule that matches;
\* without one it is a conflict, and UNCLASSIFIED only when no rule matches.  The order of
\* the rules in the file does not matter.
AnswerIsPrecedence ==
  LET on == {k \in DOMAIN asked.rules : Matches(asked.rules[k], asked.type, asked.source)}
      first == {k \in on : \A j \in on \ {k} : Precedes(asked.rules[k], asked.rules[j])} IN
  /\ \A k \in first : asked.answer = asked.rules[k].severity
  /\ first = {} => asked.answer = (IF on = {} THEN "UNCLASSIFIED" ELSE "conflict")
  /\ asked.answer = Resolve(Reversed(asked.rules), asked.type, asked.source)

\* The process is up only with a ruleset that passed every check, and with all of its rules:
\* what loads has one rule per id, none of them for every event and none non-executable.
UpMeansChecked ==
  process = "up" =>
    /\ artifact.fault = "none" /\ rules = artifact.rules
    /\ Cardinality(IdsOf(rules)) = Len(rules) /\ \A r \in Range(rules) : r.type # "*" /\ r.fault = "none"
    /\ \A n \in Range(artifact.nonExecutable) : n.id \notin IdsOf(rules)
=============================================================================
