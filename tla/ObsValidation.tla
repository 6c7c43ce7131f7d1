---------------------------- MODULE ObsValidation -----------------------------
(***************************************************************************)
(* ObservationValidationFramework.validate: six validators run in order    *)
(* over one observation, then the duplicate check, then the verdict.  A    *)
(* field has the value "ok" or names what is wrong with it: "absent",      *)
(* "null", "blank", "mistyped" (a value of another type), "odd" (a format  *)
(* that is not accepted), "unknown" (a word outside the list), and, for    *)
(* numbers and times, where they lie.  Several validators look at one      *)
(* field, and some use a value that another has already refused.           *)
(***************************************************************************)
EXTENDS Integers

CONSTANTS
  Observations,  \* records [source, kind, evidence, confidence, tags, id, sourceType, time]
  Created        \* values of the argument created_at: of "none", "ok", "old", "future"

VARIABLES data, created, duplicate, next, issues, verdict

vars == <<data, created, duplicate, next, issues, verdict>>

\* What can be wrong with a field.
FieldsOK ==
  /\ Observations \subseteq
       [source : {"ok", "absent", "null", "blank", "odd", "mistyped"},
        kind : {"ok", "absent", "null", "blank", "unknown", "mistyped", "unhashable"},
        evidence : {"ok", "absent", "null", "empty", "mistyped"},
        confidence : {"ok", "absent", "outside", "nan", "mistyped"},
        tags : {"ok", "absent", "mistyped"}, id : {"ok", "absent", "blank", "odd"},
        sourceType : {"ok", "absent", "unknown", "unhashable"},
        time : {"ok", "absent", "odd", "old", "future", "mistyped"}]
  /\ Created \subseteq {"none", "ok", "old", "future"}

Fields == {"source", "kind", "evidence", "confidence", "tags", "id", "sourceType", "time"}

Init ==
  /\ data \in Observations /\ created \in Created /\ duplicate \in BOOLEAN
  /\ next = "schema" /\ issues = {} /\ verdict = "none"

TypeOK ==
  /\ issues \subseteq Fields \X {"fail", "warning"}
  /\ verdict \in {"none", "pass", "warning", "fail", "raised"}

Fails(fs) == {<<f, "fail">> : f \in fs}
Warns(fs) == {<<f, "warning">> : f \in fs}
Has(f, vs) == data[f] \in vs

\* One validator: it adds its issues, or raises and ends the validation.
Validator(step, to, found, raises) ==
  /\ next = step /\ verdict = "none"
  /\ IF raises THEN verdict' = "raised" /\ next' = "end" /\ UNCHANGED issues
     ELSE issues' = issues \cup found /\ next' = to /\ UNCHANGED verdict
  /\ UNCHANGED <<data, created, duplicate>>

\* validate_required_fields, validate_field_types, validate_immutable_id.
Missing(f) == Has(f, {"absent", "null", "blank"})
BadType(f) == Has(f, {"mistyped", "unhashable"}) \/ (f \in {"source", "kind", "evidence"} /\ Has(f, {"null"}))
SchemaIssues ==
  Fails({f \in {"source", "kind", "evidence"} : Missing(f)})
    \cup Fails({f \in {"source", "kind", "evidence", "confidence", "tags"} : BadType(f)})
    \cup Fails({f \in {"confidence"} : Has(f, {"outside"})})
    \cup Fails({f \in {"id"} : Has(f, {"blank", "mistyped", "odd"})})
Schema == Validator("schema", "time", SchemaIssues, FALSE)

\* TimestampValidator: created_at stands in for a missing timestamp.
Stamp == IF Has("time", {"absent", "null", "blank"}) THEN created ELSE data.time
Time ==
  Validator("time", "source",
            IF Stamp \in {"odd", "future"} THEN Fails({"time"})
            ELSE IF Stamp \in {"none", "old"} THEN Warns({"time"}) ELSE {},
            Stamp = "mistyped")

Empty == Has("source", {"absent", "null", "blank"})
\* SourceValidator.validate_source: a source that is empty ends it, another that is no
\* string is stripped all the same.
Source ==
  Validator("source", "kind",
            (IF Has("source", {"ok"}) THEN {} ELSE Fails({"source"}))
              \cup (IF ~Empty /\ Has("sourceType", {"unknown", "mistyped"}) THEN Warns({"sourceType"}) ELSE {}),
            Has("source", {"mistyped"}) \/ (~Empty /\ Has("sourceType", {"unhashable"})))

\* validate_observation_type: a word outside the list is a warning.
Kind ==
  Validator("kind", "evidence",
            IF Has("kind", {"absent", "null"}) THEN Fails({"kind"})
            ELSE IF Has("kind", {"ok"}) THEN {} ELSE Warns({"kind"}),
            Has("kind", {"unhashable"}))

\* validate_evidence_payload: nothing in it.
Evidence ==
  Validator("evidence", "rules",
            IF Has("evidence", {"absent", "null", "empty"}) THEN Warns({"evidence"}) ELSE {}, FALSE)

\* ConstitutionalValidator: compares the confidence whatever its type.
Rules ==
  Validator("rules", "duplicate",
            (IF Has("id", {"absent", "null", "blank"}) THEN Warns({"id"}) ELSE {})
              \cup (IF Has("confidence", {"outside"}) THEN Fails({"confidence"}) ELSE {}),
            Has("confidence", {"mistyped"}))

\* The duplicate checker is asked whenever there is an id.
Duplicate ==
  Validator("duplicate", "verdict",
            IF ~Has("id", {"absent", "null", "blank"}) /\ duplicate THEN Fails({"id"}) ELSE {}, FALSE)

Decide ==
  /\ next = "verdict" /\ next' = "end"
  /\ verdict' = IF \E i \in issues : i[2] = "fail" THEN "fail"
                ELSE IF issues # {} THEN "warning" ELSE "pass"
  /\ UNCHANGED <<data, created, duplicate, issues>>

Next == Schema \/ Time \/ Source \/ Kind \/ Evidence \/ Rules \/ Duplicate \/ Decide

Spec == Init /\ [][Next]_vars

(***************************************************************************)
(* Properties.                                                             *)
(***************************************************************************)

\* What each field may be, said once: the reference the validators are compared with.
Refused(f) ==
  \/ f \in {"source", "kind", "evidence"} /\ Has(f, {"absent", "null", "blank", "mistyped", "unhashable", "odd"})
  \/ f = "id" /\ (Has(f, {"blank", "mistyped", "odd"}) \/ (Has(f, {"ok"}) /\ duplicate))
  \/ f = "time" /\ Stamp \in {"odd", "future"}
  \/ f \in {"confidence", "tags"} /\ Has(f, {"outside", "mistyped"})

\* A validation that answers blames exactly the fields that are wrong, and passes an
\* observation only if none is.
BlameIsExact ==
  verdict \in {"pass", "warning", "fail"} =>
    /\ {f \in Fields : <<f, "fail">> \in issues} = {f \in Fields : Refused(f)}
    /\ verdict = "fail" <=> \E f \in Fields : Refused(f)

\* It raises only over a value of the wrong type, and never after it has found nothing
\* wrong with a value that the schema checks.
RaisesOnMistyped ==
  verdict = "raised" =>
    \E f \in Fields : Has(f, {"mistyped", "unhashable"}) /\ (f \in {"time", "sourceType"} \/ <<f, "fail">> \in issues)

\* A pass leaves nothing to remark: known words, an id, evidence and a recent time.
PassIsClean ==
  verdict = "pass" =>
    /\ \A f \in Fields \ {"time", "tags", "confidence", "sourceType"} : Has(f, {"ok"})
    /\ Stamp = "ok" /\ ~Has("sourceType", {"unknown", "mistyped", "unhashable"})
=============================================================================
