---------------------------- MODULE IntelIdentity -----------------------------
(***************************************************************************)
(* IdentityResolver, which keeps the external ids of every entity and an   *)
(* index from external id to entity, and EntityRelations, which keeps the  *)
(* relations by source entity and again by type, each list as a set.       *)
(***************************************************************************)
EXTENDS Integers

CONSTANTS
  Entities, Externals, RelTypes,
  MaxRels,    \* bound on relations
  MaxMaps     \* bound on changes of identities

VARIABLES
  mapping,    \* _by_entity: partial, entity -> set of external ids
  external,   \* _by_external: partial, external id -> entity
  selfMerged, \* ghost: entities merged into themselves
  bySource,   \* _relations: entity -> set of [id, target, type]
  byType,     \* _by_type: type -> set of [id, source, target]
  rels, maps

vars == <<mapping, external, selfMerged, bySource, byType, rels, maps>>

NoneMapped == [x \in {} |-> {}]
Init ==
  /\ mapping = NoneMapped /\ external = NoneMapped /\ selfMerged = {}
  /\ bySource = [e \in Entities |-> {}] /\ byType = [t \in RelTypes |-> {}]
  /\ rels = 0 /\ maps = 0

TypeOK ==
  /\ DOMAIN mapping \subseteq Entities /\ \A e \in DOMAIN mapping : mapping[e] \subseteq Externals
  /\ \A x \in DOMAIN external : x \in Externals /\ external[x] \in Entities

SetAt(f, k, v) == [x \in DOMAIN f \cup {k} |-> IF x = k THEN v ELSE f[x]]
Of(e) == IF e \in DOMAIN mapping THEN mapping[e] ELSE {}

\* create_identity: the index follows the last entity, the earlier one keeps the id.
CreateIdentity(e, x) ==
  /\ maps < MaxMaps /\ maps' = maps + 1
  /\ mapping' = SetAt(mapping, e, Of(e) \cup {x})
  /\ external' = SetAt(external, x, e)
  /\ UNCHANGED <<selfMerged, bySource, byType, rels>>

\* merge: every id moves to the target, and the source's mapping is removed, also when the
\* source is the target.
Merge(from, to) ==
  /\ maps < MaxMaps /\ maps' = maps + 1 /\ from \in DOMAIN mapping
  /\ mapping' = [e \in (DOMAIN mapping \cup {to}) \ {from} |->
                   IF e = to THEN Of(to) \cup Of(from) ELSE mapping[e]]
  /\ external' = [x \in DOMAIN external |-> IF x \in Of(from) THEN to ELSE external[x]]
  /\ selfMerged' = IF from = to THEN selfMerged \cup {to} ELSE selfMerged
  /\ UNCHANGED <<bySource, byType, rels>>

ClearIdentities ==
  /\ maps < MaxMaps /\ maps' = maps + 1
  /\ mapping' = NoneMapped /\ external' = NoneMapped /\ selfMerged' = {}
  /\ UNCHANGED <<bySource, byType, rels>>

Relate(a, b, t) ==
  /\ rels < MaxRels /\ rels' = rels + 1
  /\ bySource' = [bySource EXCEPT ![a] = @ \cup {[id |-> rels, target |-> b, type |-> t]}]
  /\ byType' = [byType EXCEPT ![t] = @ \cup {[id |-> rels, source |-> a, target |-> b]}]
  /\ UNCHANGED <<mapping, external, selfMerged, maps>>

\* unrelate and remove.
Unrelate(i) ==
  /\ \E a \in Entities : \E r \in bySource[a] : r.id = i
  /\ bySource' = [a \in Entities |-> {r \in bySource[a] : r.id # i}]
  /\ byType' = [t \in RelTypes |-> {r \in byType[t] : r.id # i}]
  /\ UNCHANGED <<mapping, external, selfMerged, rels, maps>>

\* remove_all of an entity removes where it is the source, not where it is the target.
RemoveAll(a) ==
  /\ bySource[a] # {} /\ bySource' = [bySource EXCEPT ![a] = {}]
  /\ byType' = [t \in RelTypes |-> {r \in byType[t] : r.source # a}]
  /\ UNCHANGED <<mapping, external, selfMerged, rels, maps>>

Next ==
  \/ \E e \in Entities, x \in Externals : CreateIdentity(e, x)
  \/ \E a, b \in Entities : Merge(a, b) \/ \E t \in RelTypes : Relate(a, b, t)
  \/ ClearIdentities \/ (\E i \in 0 .. MaxRels : Unrelate(i)) \/ \E a \in Entities : RemoveAll(a)

Spec == Init /\ [][Next]_vars

\* An external id resolves to an entity that lists it, unless that entity was merged into
\* itself, and every listed id resolves, if perhaps to another entity.
IdentityIndexIsBacked ==
  /\ \A x \in DOMAIN external : external[x] \in selfMerged \/ x \in Of(external[x])
  /\ \A e \in DOMAIN mapping : mapping[e] \subseteq DOMAIN external

\* The two indexes hold the same relations, each once.
RelationIndexesAgree ==
  LET sources == UNION {{<<a, r.target, r.type, r.id>> : r \in bySource[a]} : a \in Entities}
      types == UNION {{<<r.source, r.target, t, r.id>> : r \in byType[t]} : t \in RelTypes}
  IN sources = types /\ \A p, q \in sources : p[4] = q[4] => p = q
=============================================================================
