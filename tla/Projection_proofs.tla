-------------------------- MODULE Projection_proofs --------------------------
(***************************************************************************)
(* Theorems about Projection, for every set of events and processes, every *)
(* environment and every bound.                                            *)
(***************************************************************************)
EXTENDS Projection, FiniteSetTheorems, SequenceTheorems, TLAPS

(***************************************************************************)
(* Helpers.                                                                *)
(***************************************************************************)

\* A finite set of numbers that is not empty has a largest one: of the sets of numbers
\* above a member, one is smallest.
LEMMA MaxOfFinite ==
  ASSUME NEW S \in SUBSET Nat, IsFiniteSet(S), S # {}
  PROVE  Max(S) \in S /\ \A y \in S : y <= Max(S)
<1> DEFINE Above(x) == {y \in S : y > x}
           T == {Above(x) : x \in S}
<1>1. T \subseteq FiniteSubsetsOf(S) /\ T # {}
  <2>1. \A x \in S : Above(x) \in SUBSET S
    OBVIOUS
  <2>2. \A x \in S : IsFiniteSet(Above(x))
    BY <2>1, FS_Subset
  <2> QED
    BY <2>1, <2>2 DEF FiniteSubsetsOf
<1>2. PICK m \in T : \A y \in T : <<y, m>> \notin StrictSubsetOrdering(S)
  <2>1. IsWellFoundedOn(StrictSubsetOrdering(S), FiniteSubsetsOf(S))
    BY FS_StrictSubsetOrderingWellFounded
  <2> HIDE DEF T
  <2> QED
    BY <1>1, <2>1, WFMin
<1>3. PICK x \in S : m = Above(x)
  OBVIOUS
<1>4. \A y \in S : x >= y
  <2> SUFFICES ASSUME NEW y \in S, y > x PROVE FALSE
    OBVIOUS
  <2>0. \A z \in S : z > y => z > x
    BY x \in Nat, y \in Nat, \A z \in S : z \in Nat
  <2>1. Above(y) \subseteq Above(x) /\ y \in Above(x) /\ y \notin Above(y)
    <3>1. ~(y > y)
      BY y \in Nat
    <3>2. Above(y) \subseteq Above(x)
      BY <2>0
    <3>3. y \in Above(x)
      OBVIOUS
    <3>4. y \notin Above(y)
      BY <3>1
    <3> QED
      BY <3>2, <3>3, <3>4
  <2>2. Above(y) # Above(x) /\ Above(x) \in SUBSET S /\ Above(y) \in SUBSET S /\ Above(y) \in T
    BY <2>1
  <2> HIDE DEF T, Above
  <2>3. <<Above(y), m>> \in StrictSubsetOrdering(S)
    BY <1>3, <2>1, <2>2 DEF StrictSubsetOrdering
  <2> QED
    BY <1>2, <2>2, <2>3
<1> QED
  BY <1>4 DEF Max

\* The rest of a sequence after its first n members.
LEMMA Drop ==
  ASSUME NEW S, NEW s \in Seq(S), NEW n \in Nat
  PROVE  LET t == SubSeq(s, n + 1, Len(s))
         IN /\ t \in Seq(S)
            /\ Len(t) = IF n < Len(s) THEN Len(s) - n ELSE 0
            /\ \A i \in 1 .. Len(t) : t[i] = s[i + n]
<1>1. \A i \in n + 1 .. Len(s) : s[i] \in S
  OBVIOUS
<1>2. n + 1 \in Int /\ Len(s) \in Int /\ Len(s) \in Nat
  OBVIOUS
<1> DEFINE t == SubSeq(s, n + 1, Len(s))
<1>3. /\ t \in Seq(S)
      /\ Len(t) = IF n + 1 <= Len(s) THEN Len(s) - (n + 1) + 1 ELSE 0
      /\ \A i \in 1 .. Len(s) - (n + 1) + 1 : t[i] = s[n + 1 + i - 1]
  BY <1>1, <1>2, SubSeqProperties
<1> HIDE DEF t
<1>4. Len(t) = IF n < Len(s) THEN Len(s) - n ELSE 0
  BY <1>2, <1>3
<1>5. \A i \in 1 .. Len(t) : t[i] = s[i + n]
  <2> SUFFICES ASSUME NEW i \in 1 .. Len(t) PROVE t[i] = s[i + n]
    OBVIOUS
  <2>1. i \in 1 .. Len(s) - (n + 1) + 1 /\ n + 1 + i - 1 = i + n
    BY <1>2, <1>4
  <2> QED
    BY <1>3, <2>1
<1> QED
  BY <1>3, <1>4, <1>5 DEF t

(***************************************************************************)
(* The log: how large a seq can be, and that no two events share one.      *)
(***************************************************************************)

\* Events that are in the log, or deleted from it and about to be saved again.
Held == {e \in Events : seqOf[e] > 0 \/ e = archiving}
Hole == IF archiving = None \/ seqOf[archiving] > 0 THEN 0 ELSE 1

\* Every seq beyond the number of events was used up by an archived event.
SeqsAreCounted ==
  \A e \in Events : seqOf[e] + Hole <= Cardinality(Held) + repeats
SeqsAreUnique ==
  \A e, f \in LogSet : seqOf[e] = seqOf[f] => e = f
LogOK ==
  /\ seqOf \in [Events -> Nat]
  /\ archiving \in Events \cup {None}
  /\ repeats \in 0 .. MaxRepeats
  /\ SeqsAreCounted
  /\ SeqsAreUnique

LEMMA HeldIsFinite ==
  /\ IsFiniteSet(Held) /\ IsFiniteSet(LogSet)
  /\ Cardinality(Held) \in Nat /\ Cardinality(Held) <= Cardinality(Events)
  /\ Cardinality(Events) \in Nat
<1>1. Held \in SUBSET Events /\ LogSet \in SUBSET Events
  BY DEF Held, LogSet
<1> QED
  BY <1>1, EventsOK, FS_Subset, FS_CardinalityType

\* MaxSeq is the largest seq, and 0 of an empty log.
LEMMA MaxSeqIs ==
  ASSUME LogOK
  PROVE  /\ MaxSeq \in Nat
         /\ \A e \in Events : seqOf[e] <= MaxSeq
         /\ MaxSeq # 0 => \E e \in LogSet : seqOf[e] = MaxSeq
<1> DEFINE S == {seqOf[e] : e \in LogSet}
           n == Cardinality(Held) + repeats
<1>1. S \in SUBSET Nat /\ n \in Nat
  BY HeldIsFinite DEF LogOK, LogSet
<1>2. \A m \in S : m <= n
  <2>1. \A e \in Events : seqOf[e] \in Nat /\ seqOf[e] + Hole <= n /\ Hole \in Nat
    BY DEF LogOK, SeqsAreCounted, Hole
  <2> HIDE DEF n
  <2> QED
    BY <1>1, <2>1 DEF LogSet
<1>3. IsFiniteSet(S)
  <2> HIDE DEF S, n
  <2> QED
    BY <1>1, <1>2, FS_BoundedSetOfNaturals
<1>4. CASE LogSet = {}
  BY <1>4 DEF MaxSeq, LogSet, InLog, LogOK
<1>5. CASE LogSet # {}
  <2>1. Max(S) \in S /\ \A m \in S : m <= Max(S)
    <3> HIDE DEF S
    <3>1. S # {}
      BY <1>5 DEF S
    <3> QED
      BY <1>1, <1>3, <3>1, MaxOfFinite
  <2>2. MaxSeq = Max(S)
    BY <1>5 DEF MaxSeq
  <2>3. \A e \in Events : seqOf[e] <= MaxSeq
    BY <2>1, <2>2, <1>1 DEF LogSet, InLog, LogOK
  <2> QED
    BY <2>1, <2>2, <2>3, <1>1
<1> QED
  BY <1>4, <1>5

\* An event that is committed, for the first time or again, comes last.
LEMMA NewSeqIsLast ==
  ASSUME LogOK, NEW e \in Events, seqOf[e] = 0, seqOf' = [seqOf EXCEPT ![e] = MaxSeq + 1]
  PROVE  /\ seqOf' \in [Events -> Nat] /\ seqOf'[e] = MaxSeq + 1
         /\ LogSet' = LogSet \cup {e}
         /\ \A f \in LogSet : seqOf'[f] = seqOf[f] /\ seqOf'[f] < seqOf'[e]
         /\ SeqsAreUnique'
<1>1. MaxSeq \in Nat /\ \A f \in Events : seqOf[f] <= MaxSeq
  BY MaxSeqIs
<1> HIDE DEF MaxSeq
<1>2. seqOf' \in [Events -> Nat] /\ seqOf'[e] = MaxSeq + 1
  BY <1>1 DEF LogOK
<1>3. \A f \in LogSet : f # e /\ f \in Events /\ seqOf'[f] = seqOf[f] /\ seqOf[f] <= MaxSeq
  BY <1>1 DEF LogSet, InLog, LogOK
<1>4. \A f \in LogSet : seqOf[f] \in Nat
  BY DEF LogSet, LogOK
<1>5. LogSet' = LogSet \cup {e}
  BY <1>1, <1>2 DEF LogSet, InLog, LogOK
<1>6. \A f \in LogSet : seqOf'[f] = seqOf[f] /\ seqOf'[f] < seqOf'[e]
  BY <1>1, <1>2, <1>3, <1>4
<1>7. SeqsAreUnique'
  <2> SUFFICES ASSUME NEW f \in LogSet', NEW g \in LogSet', seqOf'[f] = seqOf'[g] PROVE f = g
    BY DEF SeqsAreUnique
  <2>1. CASE f \in LogSet /\ g \in LogSet
    BY <2>1, <1>6 DEF SeqsAreUnique, LogOK
  <2>2. CASE f = e \/ g = e
    BY <2>2, <1>1, <1>2, <1>4, <1>5, <1>6
  <2> QED
    BY <1>5, <2>1, <2>2
<1> QED
  BY <1>2, <1>5, <1>6, <1>7

LEMMA LogStep ==
  ASSUME LogOK, [Next]_vars
  PROVE  LogOK'
<1> DEFINE n == Cardinality(Held)
<1>0. n \in Nat /\ n' \in Nat /\ IsFiniteSet(Held) /\ IsFiniteSet(Held')
  <2>1. Held' \in SUBSET Events
    BY DEF Held
  <2> QED
    BY <2>1, HeldIsFinite, EventsOK, FS_Subset, FS_CardinalityType
<1>1. ASSUME seqOf' = seqOf, repeats' \in 0 .. MaxRepeats, repeats <= repeats',
             \/ archiving' = archiving
             \/ archiving \in Events /\ InLog(archiving) /\ archiving' = None
      PROVE  LogOK'
  <2>1. Held' = Held /\ Hole' = Hole /\ LogSet' = LogSet
    BY <1>1, EventsOK DEF Held, Hole, LogSet, InLog
  <2>2. SeqsAreCounted'
    <3> SUFFICES ASSUME NEW e \in Events PROVE seqOf'[e] + Hole' <= n' + repeats'
      BY DEF SeqsAreCounted
    <3>1. seqOf[e] + Hole <= n + repeats /\ seqOf[e] \in Nat /\ Hole \in Nat /\ n' = n
      BY <2>1 DEF LogOK, SeqsAreCounted, Hole
    <3>2. repeats \in Nat /\ repeats' \in Nat
      BY <1>1, EventsOK DEF LogOK
    <3> HIDE DEF n
    <3> QED
      BY <1>0, <1>1, <2>1, <3>1, <3>2
  <2> QED
    BY <1>1, <2>1, <2>2 DEF LogOK, SeqsAreUnique
<1>2. ASSUME NEW e \in Events, seqOf[e] = 0, seqOf' = [seqOf EXCEPT ![e] = MaxSeq + 1],
             UNCHANGED repeats,
             \/ archiving = e /\ archiving' \in {None, e}
             \/ archiving # e /\ archiving' = archiving
      PROVE  LogOK'
  <2>1. /\ seqOf' \in [Events -> Nat] /\ seqOf'[e] = MaxSeq + 1
        /\ \A f \in Events : f # e => seqOf'[f] = seqOf[f]
        /\ SeqsAreUnique'
    BY <1>2, NewSeqIsLast DEF LogOK
  <2>2. MaxSeq \in Nat /\ \A f \in Events : seqOf[f] \in Nat /\ seqOf[f] <= MaxSeq
    BY MaxSeqIs DEF LogOK
  <2>3. MaxSeq + Hole <= n + repeats
    <3>1. Hole \in Nat /\ (Hole # 0 => Hole = 1 /\ archiving \in Held) /\ repeats \in Nat
      BY EventsOK DEF Hole, Held, LogOK
    <3>2. Hole # 0 => n # 0
      BY <3>1, HeldIsFinite, FS_EmptySet
    <3>3. CASE MaxSeq = 0
      <4> HIDE DEF n
      <4> QED
        BY <3>1, <3>2, <3>3, <1>0
    <3>4. CASE MaxSeq # 0
      BY <3>4, MaxSeqIs DEF LogSet, LogOK, SeqsAreCounted
    <3> QED
      BY <3>3, <3>4
  <2>4. Held' = Held \cup {e} /\ (e \in Held <=> archiving = e)
    BY <1>2, <2>1, <2>2, EventsOK DEF Held
  <2>5. n' + Hole = n + Hole' + 1
    <3>1. CASE archiving = e
      <4>1. Hole = 1 /\ Hole' = 0
        BY <1>2, <2>1, <2>2, <3>1, EventsOK DEF Hole
      <4>2. Held' = Held
        BY <2>4, <3>1
      <4> QED
        BY <1>0, <4>1, <4>2
    <3>2. CASE archiving # e
      <4>1. Hole' = Hole /\ Hole \in Nat
        BY <1>2, <2>1, <2>2, <3>2, EventsOK DEF Hole, LogOK
      <4> QED
        BY <1>0, <2>4, <3>2, <4>1, FS_AddElement
    <3> QED
      BY <3>1, <3>2
  <2>6. SeqsAreCounted'
    <3> SUFFICES ASSUME NEW f \in Events PROVE seqOf'[f] + Hole' <= n' + repeats'
      BY DEF SeqsAreCounted
    <3>1. Hole \in Nat /\ Hole' \in Nat /\ repeats \in Nat
      BY EventsOK DEF Hole, LogOK
    <3>2. seqOf'[f] \in Nat /\ seqOf'[f] <= MaxSeq + 1
      BY <2>1, <2>2
    <3> HIDE DEF n
    <3> QED
      BY <1>0, <1>2, <2>2, <2>3, <2>5, <3>1, <3>2
  <2> QED
    BY <1>2, <2>1, <2>6, EventsOK DEF LogOK
<1>3. ASSUME NEW e \in Events, ArchiveDelete(e)
      PROVE  LogOK'
  <2>1. /\ seqOf' \in [Events -> Nat] /\ seqOf'[e] = 0 /\ archiving' = e
        /\ \A f \in Events : f # e => seqOf'[f] = seqOf[f]
        /\ archiving = None /\ seqOf[e] > 0 /\ e # None
        /\ repeats' = repeats + 1 /\ repeats < MaxRepeats
    BY <1>3, EventsOK DEF ArchiveDelete, LogOK, InLog
  <2>2. Held' = Held /\ Hole' = 1 /\ Hole = 0
    BY <2>1, EventsOK DEF Held, Hole
  <2>3. repeats \in Nat /\ repeats' \in 0 .. MaxRepeats
    BY <2>1, EventsOK DEF LogOK
  <2>4. SeqsAreCounted'
    <3> SUFFICES ASSUME NEW f \in Events PROVE seqOf'[f] + Hole' <= n' + repeats'
      BY DEF SeqsAreCounted
    <3>1. seqOf[f] \in Nat /\ seqOf[f] + Hole <= n + repeats /\ seqOf'[f] <= seqOf[f] /\ n' = n
          /\ seqOf'[f] \in Nat
      BY <2>1, <2>2 DEF LogOK, SeqsAreCounted
    <3> HIDE DEF n
    <3> QED
      BY <1>0, <2>1, <2>2, <2>3, <3>1
  <2>5. SeqsAreUnique'
    BY <2>1 DEF LogOK, SeqsAreUnique, LogSet, InLog
  <2> QED
    BY <2>1, <2>3, <2>4, <2>5 DEF LogOK
<1>4. ASSUME NEW p \in Procs, NEW e \in Events, Process(p, e)
      PROVE  LogOK'
  <2>0. archiving' = archiving
    BY <1>4 DEF Process
  <2>1. CASE ~InLog(e)
    <3>1. /\ seqOf[e] = 0 /\ UNCHANGED repeats
          /\ seqOf' = [seqOf EXCEPT ![e] = MaxSeq + 1]
      BY <1>4, <2>1 DEF Process, Commit, InLog, LogOK
    <3> QED
      BY <1>2, <2>0, <3>1
  <2>2. CASE InLog(e)
    <3>1. repeats < MaxRepeats /\ repeats' = repeats + 1 /\ seqOf' = seqOf
      BY <1>4, <2>2 DEF Process, Commit
    <3> QED
      BY <1>1, <2>0, <3>1, EventsOK DEF LogOK
  <2> QED
    BY <2>1, <2>2
<1>5. CASE ArchiveSave
  <2>1. archiving \in Events /\ archiving' = None /\ UNCHANGED repeats
    BY <1>5 DEF ArchiveSave, LogOK, bounds
  <2>2. CASE InLog(archiving)
    <3>1. seqOf' = seqOf
      BY <1>5, <2>2 DEF ArchiveSave, Commit
    <3> QED
      BY <1>1, <2>1, <2>2, <3>1 DEF LogOK
  <2>3. CASE ~InLog(archiving)
    <3>1. seqOf[archiving] = 0 /\ seqOf' = [seqOf EXCEPT ![archiving] = MaxSeq + 1]
      BY <1>5, <2>1, <2>3 DEF ArchiveSave, Commit, InLog, LogOK
    <3> QED
      BY <1>2, <2>1, <3>1
  <2> QED
    BY <2>2, <2>3
<1>6. CASE UNCHANGED <<seqOf, archiving, repeats>>
  BY <1>1, <1>6, EventsOK DEF LogOK
<1> QED
  BY <1>3, <1>4, <1>5, <1>6
  DEF Next, Step, EntityGet, EntitySave, RelationSave, Tombstone, Cascade, Sever, Swallowed,
      ProcessDone, Start, CatchUpNext, Advance, CatchUpDone, AdvanceFails, Up, Crash,
      dbVars, bounds, vars

(***************************************************************************)
(* The work at hand.                                                       *)
(***************************************************************************)
StepNames == {"get", "save", "relation", "tombstone", "cascade", "sever", "advance"}

\* A process that has something to do has an event to do it for; "save" comes
\* right after "get", and both come first.
InOrder(s) ==
  \A i \in 1 .. Len(s) :
    /\ s[i] = "get" => i = 1 /\ 2 <= Len(s) /\ s[2] = "save"
    /\ s[i] = "save" => i = 1 \/ (i = 2 /\ s[1] = "get")

\* What is left of a pass of the catch-up, and of an event that is processed.
CatchUpLeft(p) ==
  todo[p] # <<>> =>
    /\ todo[p][Len(todo[p])] = "advance"
    /\ \A i \in 1 .. Len(todo[p]) : todo[p][i] \in {"get", "save", "advance"}
    /\ \E x \in pending[p] : IsOldest(x, pending[p]) /\ x[2] = job[p]
HotLeft(p) ==
  /\ pending[p] = {}
  /\ todo[p] # <<>> =>
       /\ \A i \in 1 .. Len(todo[p]) : todo[p][i] # "advance"
       /\ job[p].kind = "remove" => todo[p][Len(todo[p])] = "cascade"
       /\ job[p].kind = "sever" => \A i \in 1 .. Len(todo[p]) : todo[p][i] # "relation"

ProcessOK(p) ==
  /\ todo[p] \in Seq(StepNames) /\ InOrder(todo[p])
  /\ mode[p] # "down" => p \in env.procs
  /\ mode[p] = "down" => todo[p] = <<>> /\ job[p] = None /\ pending[p] = {}
  /\ mode[p] = "catchup" => CatchUpLeft(p)
  /\ mode[p] = "up" => HotLeft(p)
StepsOK ==
  /\ mode \in [Procs -> {"down", "catchup", "up"}]
  /\ \A p \in Procs : ProcessOK(p)

(***************************************************************************)
(* Terminal states are terminal, for every set of events and processes and *)
(* every environment.                                                      *)
(***************************************************************************)

\* Rows are rows, and a process that has something to do has an event to do it for.
RowsOK ==
  /\ ent \in [Entities -> Row \cup {None}]
  /\ rel \in [Relations -> {"ABSENT", "ACTIVE", "INACTIVE"}]
  /\ read \in [Procs -> Row \cup {None}]
WorkOK ==
  /\ job \in [Procs -> Events \cup {None}]
  /\ todo = [p \in Procs |-> todo[p]] /\ pending = [p \in Procs |-> pending[p]]
  /\ \A p \in Procs : todo[p] # <<>> => job[p] \in Events
  /\ \A p \in Procs : \A x \in pending[p] : x[2] \in Events

LEMMA InitOK == Init => RowsOK /\ WorkOK
BY DEF Init, RowsOK, WorkOK, Relations

\* The rows that the steps for an event write, under the work that is at hand.
LEMMA RowsStep ==
  ASSUME RowsOK, WorkOK, [Next]_vars
  PROVE  RowsOK'
<1>1. ASSUME NEW p \in Procs, EntityGet(p)
      PROVE  RowsOK'
  BY <1>1 DEF RowsOK, WorkOK, EntityGet, At, dbVars, Entities
<1>2. ASSUME NEW p \in Procs, EntitySave(p)
      PROVE  RowsOK'
  <2>1. job[p] \in Events /\ job[p].key \in Keys
    BY <1>2 DEF EntitySave, At, WorkOK, Keys
  <2>2. Merged(p, job[p]) \in [Keys -> Events \cup {None}]
    BY <2>1 DEF Merged, RowsOK, Row
  <2>3. ent' \in [Entities -> Row \cup {None}]
    BY <1>2, <2>2 DEF EntitySave, RowsOK, Row
  <2> QED
    BY <1>2, <2>3 DEF EntitySave, RowsOK
<1>3. ASSUME NEW p \in Procs, RelationSave(p) \/ Cascade(p) \/ Sever(p)
      PROVE  RowsOK'
  BY <1>3 DEF RowsOK, RelationSave, Cascade, Sever, Inactivate
<1>4. ASSUME NEW p \in Procs, Tombstone(p)
      PROVE  RowsOK'
  BY <1>4, NoneIsNoRow DEF RowsOK, Tombstone, Live, Row
<1>5. CASE UNCHANGED <<ent, rel, read>>
  BY <1>5 DEF RowsOK
<1>6. ASSUME NEW p \in Procs, Swallowed(p) \/ Crash(p)
      PROVE  RowsOK'
  BY <1>6 DEF Swallowed, Crash, RowsOK, dbVars
<1> QED
  BY <1>1, <1>2, <1>3, <1>4, <1>5, <1>6
  DEF Next, Step, ProcessDone, Start, CatchUpNext, Advance, CatchUpDone, AdvanceFails, Up,
      Process, ArchiveDelete, ArchiveSave, dbVars, vars

LEMMA WorkStep ==
  ASSUME WorkOK, [Next]_vars
  PROVE  WorkOK'
<1>1. ASSUME NEW p \in Procs, NEW n \in Nat, Done(p, n), todo[p] # <<>>,
             UNCHANGED <<job, pending>>
      PROVE  WorkOK'
  BY <1>1 DEF Done, WorkOK
<1>2. ASSUME NEW p \in Procs, EntityGet(p) \/ EntitySave(p) \/ RelationSave(p) \/ Tombstone(p)
                                \/ Cascade(p) \/ Sever(p)
      PROVE  WorkOK'
  BY <1>1, <1>2 DEF EntityGet, EntitySave, RelationSave, Tombstone, Cascade, Sever, At
<1>3. ASSUME NEW p \in Procs, Swallowed(p)
      PROVE  WorkOK'
  BY <1>1, <1>3 DEF Swallowed
<1>4. ASSUME NEW p \in Procs, NEW e \in Events, Process(p, e)
      PROVE  WorkOK'
  BY <1>4 DEF Process, WorkOK
<1>5. ASSUME NEW p \in Procs, ProcessDone(p) \/ CatchUpDone(p) \/ AdvanceFails(p) \/ Crash(p)
      PROVE  WorkOK'
  BY <1>5 DEF ProcessDone, CatchUpDone, AdvanceFails, Up, Crash, WorkOK
<1>6. ASSUME NEW p \in Procs, Start(p)
      PROVE  WorkOK'
  <2>1. \A x \in IterAfterSeq(ckpt) : x[2] \in Events
    BY DEF IterAfterSeq, LogSet
  <2>2. pending' = [pending EXCEPT ![p] = IterAfterSeq(ckpt)] /\ UNCHANGED <<todo, job>>
    BY <1>6 DEF Start
  <2> QED
    BY <2>1, <2>2 DEF WorkOK
<1>7. ASSUME NEW p \in Procs, CatchUpNext(p) \/ Advance(p)
      PROVE  WorkOK'
  BY <1>7 DEF CatchUpNext, Advance, IsOldest, WorkOK
<1>8. CASE UNCHANGED <<job, todo, pending>>
  BY <1>8 DEF WorkOK
<1> QED
  BY <1>2, <1>3, <1>4, <1>5, <1>6, <1>7, <1>8 DEF Next, Step, ArchiveDelete, ArchiveSave, vars

\* Steps that start with "get" and "save", without the step of the catch-up.
HotOrder(s) ==
  /\ s \in Seq(StepNames) /\ InOrder(s) /\ s # <<>> /\ s[1] = "get"
  /\ \A i \in 1 .. Len(s) : s[i] # "advance"

LEMMA HotOrderAppend ==
  ASSUME NEW s, HotOrder(s), NEW step \in {"relation", "tombstone", "cascade", "sever"}
  PROVE  /\ HotOrder(s \o <<step>>)
         /\ (s \o <<step>>)[Len(s \o <<step>>)] = step
         /\ step # "relation" /\ (\A i \in 1 .. Len(s) : s[i] # "relation") =>
              \A i \in 1 .. Len(s \o <<step>>) : (s \o <<step>>)[i] # "relation"
<1> DEFINE t == s \o <<step>>
<1>1. /\ t \in Seq(StepNames) /\ Len(t) = Len(s) + 1 /\ t[Len(s) + 1] = step
      /\ \A i \in 1 .. Len(s) : t[i] = s[i]
      /\ Len(s) \in Nat /\ Len(s) >= 1
  <2>1. s \in Seq(StepNames) /\ step \in StepNames /\ s # <<>>
    BY DEF HotOrder, StepNames
  <2> QED
    BY <2>1
<1> HIDE DEF t
<1>2. \A i \in 1 .. Len(t) : i \in 1 .. Len(s) \/ (i = Len(s) + 1 /\ t[i] = step)
  BY <1>1
<1>3. 1 \in 1 .. Len(s)
  BY <1>1
<1>4. Len(s) >= 2 /\ 2 \in 1 .. Len(s)
  BY <1>1, <1>3 DEF HotOrder, InOrder
<1>5. InOrder(t)
  <2> SUFFICES ASSUME NEW i \in 1 .. Len(t)
               PROVE  /\ t[i] = "get" => i = 1 /\ 2 <= Len(t) /\ t[2] = "save"
                      /\ t[i] = "save" => i = 1 \/ (i = 2 /\ t[1] = "get")
    BY DEF InOrder
  <2> QED
    BY <1>1, <1>2, <1>3, <1>4 DEF HotOrder, InOrder
<1>6. HotOrder(t)
  BY <1>1, <1>2, <1>3, <1>5 DEF HotOrder
<1>7. step # "relation" /\ (\A i \in 1 .. Len(s) : s[i] # "relation") =>
        \A i \in 1 .. Len(t) : t[i] # "relation"
  BY <1>1, <1>2
<1> QED
  BY <1>1, <1>6, <1>7 DEF t

\* What is done for a committed event.
LEMMA HotStepsAre ==
  ASSUME NEW e \in Events
  PROVE  /\ HotSteps(e) \in Seq(StepNames) /\ InOrder(HotSteps(e)) /\ HotSteps(e) # <<>>
         /\ HotSteps(e)[1] = "get"
         /\ \A i \in 1 .. Len(HotSteps(e)) : HotSteps(e)[i] # "advance"
         /\ e.kind = "remove" => HotSteps(e)[Len(HotSteps(e))] = "cascade"
         /\ e.kind = "sever" => \A i \in 1 .. Len(HotSteps(e)) : HotSteps(e)[i] # "relation"
<1> DEFINE NoRelation(s) == \A i \in 1 .. Len(s) : s[i] # "relation"
           s0 == <<"get", "save">>
           s1 == s0 \o (IF e.target # None /\ e.kind # "sever" THEN <<"relation">> ELSE <<>>)
           s2 == s1 \o (IF e.kind = "remove" THEN <<"tombstone", "cascade">> ELSE <<>>)
           s3 == s2 \o (IF e.kind = "sever" THEN <<"sever">> ELSE <<>>)
<1>0. HotSteps(e) = s3
  BY DEF HotSteps
<1>1. HotOrder(s0)
  BY DEF HotOrder, InOrder, StepNames
<1>2. HotOrder(s1) /\ (e.kind = "sever" => NoRelation(s1))
  <2>0. NoRelation(s0)
    OBVIOUS
  <2> HIDE DEF s0
  <2>1. CASE e.target # None /\ e.kind # "sever"
    BY <1>1, <2>1, HotOrderAppend
  <2>2. CASE ~(e.target # None /\ e.kind # "sever")
    <3>1. s1 = s0 \o <<>> /\ s0 \in Seq(StepNames)
      BY <1>1, <2>2 DEF HotOrder
    <3>2. s0 \o <<>> = s0
      BY <3>1
    <3>3. s1 = s0
      BY <3>1, <3>2
    <3> HIDE DEF s1
    <3> QED
      BY <1>1, <2>0, <3>3
  <2> QED
    BY <2>1, <2>2
<1>3. /\ HotOrder(s2) /\ (e.kind = "remove" => s2[Len(s2)] = "cascade")
      /\ e.kind = "sever" => NoRelation(s2)
  <2> HIDE DEF s1
  <2>1. CASE e.kind = "remove"
    <3> DEFINE u == s1 \o <<"tombstone">>
    <3>1. HotOrder(u)
      BY <1>2, HotOrderAppend
    <3>2. s2 = u \o <<"cascade">>
      <4>1. s1 \in Seq(StepNames) /\ "tombstone" \in StepNames /\ "cascade" \in StepNames
        BY <1>2 DEF HotOrder, StepNames
      <4>2. s2 = s1 \o <<"tombstone", "cascade">>
        BY <2>1
      <4> QED
        BY <4>1, <4>2
    <3> HIDE DEF u, s2
    <3> QED
      BY <2>1, <3>1, <3>2, HotOrderAppend
  <2>2. CASE e.kind # "remove"
    <3>1. s2 = s1
      BY <1>2, <2>2 DEF HotOrder
    <3> QED
      BY <1>2, <2>2, <3>1
  <2> QED
    BY <2>1, <2>2
<1>4. /\ HotOrder(s3) /\ (e.kind = "remove" => s3[Len(s3)] = "cascade")
      /\ e.kind = "sever" => NoRelation(s3)
  <2> HIDE DEF s2
  <2>1. CASE e.kind = "sever"
    <3>1. s3 = s2 \o <<"sever">>
      BY <2>1
    <3> HIDE DEF s3
    <3> QED
      BY <1>3, <2>1, <3>1, HotOrderAppend
  <2>2. CASE e.kind # "sever"
    <3>1. s3 = s2
      BY <1>3, <2>2 DEF HotOrder
    <3> HIDE DEF s3
    <3> QED
      BY <1>3, <2>2, <3>1
  <2> QED
    BY <2>1, <2>2
<1> HIDE DEF s3
<1> QED
  BY <1>0, <1>4 DEF HotOrder

LEMMA CatchUpStepsAre ==
  /\ CatchUpSteps \in Seq(StepNames) /\ InOrder(CatchUpSteps)
  /\ CatchUpSteps # <<>> /\ CatchUpSteps[1] = "get"
  /\ CatchUpSteps[Len(CatchUpSteps)] = "advance"
  /\ \A i \in 1 .. Len(CatchUpSteps) : CatchUpSteps[i] \in {"get", "save", "advance"}
BY DEF CatchUpSteps, StepNames, InOrder

\* Dropping one or two steps leaves the others as they were, in their order.
LEMMA DropStep ==
  ASSUME NEW s \in Seq(StepNames), InOrder(s), s # <<>>, NEW n \in {1, 2}
  PROVE  LET t == SubSeq(s, n + 1, Len(s))
         IN /\ t \in Seq(StepNames) /\ InOrder(t)
            /\ \A i \in 1 .. Len(t) : i + n \in 1 .. Len(s) /\ t[i] = s[i + n]
            /\ Len(t) = IF n < Len(s) THEN Len(s) - n ELSE 0
            /\ t # <<>> => t[Len(t)] = s[Len(s)]
<1> DEFINE t == SubSeq(s, n + 1, Len(s))
<1>1. /\ t \in Seq(StepNames)
      /\ Len(t) = IF n < Len(s) THEN Len(s) - n ELSE 0
      /\ \A i \in 1 .. Len(t) : t[i] = s[i + n]
  BY Drop
<1> HIDE DEF t
<1>2. Len(s) \in Nat /\ Len(t) \in Nat
  BY <1>1
<1>3. \A i \in 1 .. Len(t) : i + n \in 1 .. Len(s) /\ t[i] = s[i + n]
  BY <1>1, <1>2
<1>4. InOrder(t)
  <2> SUFFICES ASSUME NEW i \in 1 .. Len(t)
               PROVE  t[i] # "get" /\ (t[i] = "save" => i = 1)
    BY DEF InOrder
  <2>1. i + n \in 1 .. Len(s) /\ t[i] = s[i + n] /\ i + n # 1 /\ (i + n = 2 => i = 1)
    BY <1>2, <1>3
  <2>2. /\ s[i + n] = "get" => i + n = 1
        /\ s[i + n] = "save" => i + n = 1 \/ i + n = 2
    BY <2>1 DEF InOrder
  <2> QED
    BY <2>1, <2>2
<1>5. t # <<>> => t[Len(t)] = s[Len(s)]
  <2> SUFFICES ASSUME t # <<>> PROVE t[Len(t)] = s[Len(s)]
    OBVIOUS
  <2>1. Len(t) # 0
    BY <1>1
  <2>2. Len(t) \in 1 .. Len(t) /\ Len(t) + n = Len(s)
    BY <1>1, <1>2, <2>1
  <2> QED
    BY <1>3, <2>2
<1> QED
  BY <1>1, <1>3, <1>4, <1>5 DEF t

\* What a process has at hand is its own.
LEMMA ProcessKeeps ==
  ASSUME NEW p \in Procs, ProcessOK(p), env' = env, mode'[p] = mode[p],
         todo'[p] = todo[p], job'[p] = job[p], pending'[p] = pending[p]
  PROVE  ProcessOK(p)'
BY DEF ProcessOK, CatchUpLeft, HotLeft

\* Doing or skipping a step.
LEMMA ProcessDrops ==
  ASSUME NEW p \in Procs, ProcessOK(p), todo[p] # <<>>, NEW n \in {1, 2},
         todo'[p] = SubSeq(todo[p], n + 1, Len(todo[p])),
         env' = env, mode'[p] = mode[p], job'[p] = job[p], pending'[p] = pending[p]
  PROVE  ProcessOK(p)'
<1> DEFINE s == todo[p]
           t == todo'[p]
<1>1. /\ t \in Seq(StepNames) /\ InOrder(t)
      /\ \A i \in 1 .. Len(t) : i + n \in 1 .. Len(s) /\ t[i] = s[i + n]
      /\ t # <<>> => t[Len(t)] = s[Len(s)]
  <2>1. s \in Seq(StepNames) /\ InOrder(s) /\ s # <<>> /\ t = SubSeq(s, n + 1, Len(s))
    BY DEF ProcessOK
  <2> HIDE DEF s, t
  <2> QED
    BY <2>1, DropStep
<1>2. CatchUpLeft(p) => CatchUpLeft(p)'
  <2> SUFFICES ASSUME CatchUpLeft(p), t # <<>> PROVE CatchUpLeft(p)'
    BY DEF CatchUpLeft
  <2>1. \A i \in 1 .. Len(t) : t[i] \in {"get", "save", "advance"}
    <3> HIDE DEF t
    <3> QED
      BY <1>1 DEF CatchUpLeft
  <2>2. t[Len(t)] = "advance"
    BY <1>1 DEF CatchUpLeft
  <2>3. \E x \in pending'[p] : IsOldest(x, pending'[p]) /\ x[2] = job'[p]
    BY DEF CatchUpLeft
  <2> QED
    BY <2>1, <2>2, <2>3 DEF CatchUpLeft
<1>3. HotLeft(p) => HotLeft(p)'
  BY <1>1 DEF HotLeft
<1> QED
  BY <1>1, <1>2, <1>3 DEF ProcessOK, InOrder

LEMMA StepsStep ==
  ASSUME WorkOK, StepsOK, [Next]_vars
  PROVE  StepsOK'
<1>1. ASSUME NEW p \in Procs, NEW n \in {1, 2}, Done(p, n), todo[p] # <<>>,
             UNCHANGED <<env, mode, job, pending>>
      PROVE  StepsOK'
  <2>1. todo'[p] = SubSeq(todo[p], n + 1, Len(todo[p])) /\ \A q \in Procs \ {p} : todo'[q] = todo[q]
    BY <1>1 DEF Done, WorkOK
  <2>2. ProcessOK(p)'
    BY <1>1, <2>1, ProcessDrops DEF StepsOK
  <2>3. \A q \in Procs \ {p} : ProcessOK(q)'
    BY <1>1, <2>1, ProcessKeeps DEF StepsOK
  <2> QED
    BY <1>1, <2>2, <2>3 DEF StepsOK
<1>2. ASSUME NEW p \in Procs, env' = env, mode' \in [Procs -> {"down", "catchup", "up"}],
             \A q \in Procs \ {p} : mode'[q] = mode[q] /\ todo'[q] = todo[q]
                                    /\ job'[q] = job[q] /\ pending'[q] = pending[q],
             ProcessOK(p)'
      PROVE  StepsOK'
  BY <1>2, ProcessKeeps DEF StepsOK
<1>3. ASSUME NEW p \in Procs, EntityGet(p) \/ EntitySave(p) \/ RelationSave(p) \/ Tombstone(p)
                                \/ Cascade(p) \/ Sever(p)
      PROVE  StepsOK'
  BY <1>1, <1>3 DEF EntityGet, EntitySave, RelationSave, Tombstone, Cascade, Sever, At, bounds
<1>4. ASSUME NEW p \in Procs, Swallowed(p)
      PROVE  StepsOK'
  BY <1>1, <1>4 DEF Swallowed, bounds
<1>5. ASSUME NEW p \in Procs, NEW e \in Events, Process(p, e)
      PROVE  StepsOK'
  <2>1. todo'[p] = HotSteps(e) /\ job'[p] = e /\ pending'[p] = pending[p] /\ mode'[p] = "up"
        /\ mode[p] = "up"
    BY <1>5 DEF Process, WorkOK, StepsOK
  <2>2. ProcessOK(p)'
    BY <1>5, <2>1, HotStepsAre DEF ProcessOK, HotLeft, StepsOK, Process
  <2> QED
    BY <1>2, <1>5, <2>2 DEF Process, WorkOK, StepsOK
<1>6. ASSUME NEW p \in Procs, ProcessDone(p)
      PROVE  StepsOK'
  <2>1. ProcessOK(p)'
    BY <1>6 DEF ProcessDone, ProcessOK, HotLeft, StepsOK, WorkOK, bounds
  <2> QED
    BY <1>2, <1>6, <2>1 DEF ProcessDone, WorkOK, StepsOK, bounds
<1>7. ASSUME NEW p \in Procs, Start(p)
      PROVE  StepsOK'
  <2>1. ProcessOK(p)'
    BY <1>7 DEF Start, ProcessOK, CatchUpLeft, StepsOK, WorkOK, bounds
  <2> QED
    BY <1>2, <1>7, <2>1 DEF Start, WorkOK, StepsOK, bounds
<1>8. ASSUME NEW p \in Procs, CatchUpNext(p)
      PROVE  StepsOK'
  <2>1. ProcessOK(p)'
    BY <1>8, CatchUpStepsAre DEF CatchUpNext, ProcessOK, CatchUpLeft, StepsOK, WorkOK, bounds
  <2> QED
    BY <1>2, <1>8, <2>1 DEF CatchUpNext, WorkOK, StepsOK, bounds
<1>9. ASSUME NEW p \in Procs, Advance(p) \/ CatchUpDone(p) \/ AdvanceFails(p) \/ Crash(p)
      PROVE  StepsOK'
  <2>1. /\ todo'[p] = <<>> /\ job'[p] = None /\ env' = env
        /\ mode' \in [Procs -> {"down", "catchup", "up"}]
    BY <1>9 DEF Advance, CatchUpDone, AdvanceFails, Up, Crash, WorkOK, StepsOK, bounds
  <2>2. \/ mode'[p] = "down" /\ pending'[p] = {}
        \/ mode[p] # "down" /\ mode'[p] = "up" /\ pending'[p] = {}
        \/ mode[p] = "catchup" /\ mode'[p] = "catchup"
    BY <1>9 DEF Advance, CatchUpDone, AdvanceFails, Up, Crash, At, WorkOK, StepsOK, ProcessOK,
                HotLeft
  <2>3. <<>> \in Seq(StepNames) /\ InOrder(<<>>)
    BY DEF InOrder
  <2>4. ProcessOK(p)'
    BY <2>1, <2>2, <2>3 DEF ProcessOK, CatchUpLeft, HotLeft, StepsOK
  <2> QED
    BY <1>2, <1>9, <2>1, <2>4
    DEF Advance, CatchUpDone, AdvanceFails, Up, Crash, WorkOK, StepsOK, bounds
<1>10. CASE UNCHANGED <<env, mode, todo, job, pending>>
  BY <1>10, ProcessKeeps DEF StepsOK
<1> QED
  BY <1>3, <1>4, <1>5, <1>6, <1>7, <1>8, <1>9, <1>10
  DEF Next, Step, ArchiveDelete, ArchiveSave, bounds, vars

(***************************************************************************)
(* Type correctness.                                                       *)
(***************************************************************************)

\* What is left of TypeOK, and the seqs on a catch-up's list.
RestOK ==
  /\ env \in Environments
  /\ ckpt \in Nat
  /\ \A p \in Procs : \A x \in pending[p] : x[1] \in Nat
  /\ recovery \in [Procs -> {"never_run", "succeeded", "failed"}]
  /\ seen \in [Procs -> SUBSET Entities]
  /\ projected \subseteq Events /\ missed \subseteq Events
  /\ crashes \in 0 .. MaxCrashes

TypeInv == RowsOK /\ WorkOK /\ LogOK /\ StepsOK /\ RestOK

LEMMA TypeInit == Init => TypeInv
<1> SUFFICES ASSUME Init PROVE TypeInv
  OBVIOUS
<1>1. LogOK
  <2>1. Held = {} /\ LogSet = {} /\ Hole = 0
    BY EventsOK DEF Init, Held, LogSet, InLog, Hole
  <2>2. Cardinality(Held) = 0
    BY <2>1, FS_EmptySet
  <2> QED
    BY <2>1, <2>2, EventsOK DEF Init, LogOK, SeqsAreCounted, SeqsAreUnique
<1>2. StepsOK
  <2>1. <<>> \in Seq(StepNames) /\ InOrder(<<>>)
    BY DEF InOrder
  <2> QED
    BY <2>1 DEF Init, StepsOK, ProcessOK
<1>3. RestOK
  BY EventsOK DEF Init, RestOK
<1> QED
  BY <1>1, <1>2, <1>3, InitOK DEF TypeInv

LEMMA RestStep ==
  ASSUME TypeInv, [Next]_vars
  PROVE  RestOK'
<1>1. env' = env /\ crashes' \in 0 .. MaxCrashes
  <2>1. ASSUME NEW p \in Procs, Crash(p)
        PROVE  env' = env /\ crashes' \in 0 .. MaxCrashes
    BY <2>1, EventsOK DEF Crash, TypeInv, RestOK
  <2>2. CASE UNCHANGED <<env, crashes>>
    BY <2>2 DEF TypeInv, RestOK
  <2> QED
    BY <2>1, <2>2
    DEF Next, Step, EntityGet, EntitySave, RelationSave, Tombstone, Cascade, Sever, Swallowed,
        ProcessDone, Start, CatchUpNext, Advance, CatchUpDone, AdvanceFails, Up, Process,
        ArchiveDelete, ArchiveSave, bounds, vars
<1>2. recovery' \in [Procs -> {"never_run", "succeeded", "failed"}]
  BY DEF TypeInv, RestOK, Next, Step, EntityGet, EntitySave, RelationSave, Tombstone, Cascade, Sever,
         Swallowed, ProcessDone, Start, CatchUpNext, Advance, CatchUpDone, AdvanceFails, Up, Crash,
         Process, ArchiveDelete, ArchiveSave, vars
<1>3. seen' \in [Procs -> SUBSET Entities]
  <2>1. ASSUME NEW p \in Procs, Start(p) \/ ProcessDone(p) \/ Crash(p)
        PROVE  seen' \in [Procs -> SUBSET Entities]
    BY <2>1 DEF Start, ProcessDone, Crash, TypeInv, RestOK, WorkOK, Entities
  <2>2. CASE UNCHANGED seen
    BY <2>2 DEF TypeInv, RestOK
  <2> QED
    BY <2>1, <2>2
    DEF Next, Step, EntityGet, EntitySave, RelationSave, Tombstone, Cascade, Sever, Swallowed,
        CatchUpNext, Advance, CatchUpDone, AdvanceFails, Up, Process, ArchiveDelete, ArchiveSave, vars
<1>4. projected' \subseteq Events /\ missed' \subseteq Events
  <2>1. ASSUME NEW p \in Procs, EntitySave(p) \/ Swallowed(p)
        PROVE  projected' \subseteq Events /\ missed' \subseteq Events
    BY <2>1 DEF EntitySave, Swallowed, At, TypeInv, RestOK, WorkOK
  <2>2. ASSUME NEW p \in Procs, NEW e \in Events, Process(p, e)
        PROVE  projected' \subseteq Events /\ missed' \subseteq Events
    BY <2>2 DEF Process, Commit, TypeInv, RestOK
  <2>3. CASE ArchiveSave
    BY <2>3 DEF ArchiveSave, Commit, TypeInv, RestOK, LogOK
  <2>4. CASE UNCHANGED ghosts
    BY <2>4 DEF ghosts, TypeInv, RestOK
  <2> QED
    BY <2>1, <2>2, <2>3, <2>4
    DEF Next, Step, EntityGet, RelationSave, Tombstone, Cascade, Sever, ProcessDone, Start,
        CatchUpNext, Advance, CatchUpDone, AdvanceFails, Up, Crash, ArchiveDelete, vars, ghosts
<1>5. ckpt' \in Nat /\ \A p \in Procs : \A x \in pending'[p] : x[1] \in Nat
  <2>1. ASSUME NEW p \in Procs, Start(p)
        PROVE  ckpt' \in Nat /\ \A q \in Procs : \A x \in pending'[q] : x[1] \in Nat
    <3>1. \A x \in IterAfterSeq(ckpt) : x[1] \in Nat
      BY DEF IterAfterSeq, LogSet, TypeInv, LogOK
    <3> QED
      BY <2>1, <3>1 DEF Start, dbVars, TypeInv, RestOK, WorkOK
  <2>2. ASSUME NEW p \in Procs, Advance(p)
        PROVE  ckpt' \in Nat /\ \A q \in Procs : \A x \in pending'[q] : x[1] \in Nat
    BY <2>2 DEF Advance, IsOldest, TypeInv, RestOK, WorkOK
  <2>3. ASSUME NEW p \in Procs, CatchUpDone(p) \/ AdvanceFails(p) \/ Crash(p)
        PROVE  ckpt' \in Nat /\ \A q \in Procs : \A x \in pending'[q] : x[1] \in Nat
    BY <2>3 DEF CatchUpDone, AdvanceFails, Up, Crash, dbVars, TypeInv, RestOK, WorkOK
  <2>4. CASE UNCHANGED <<ckpt, pending>>
    BY <2>4 DEF TypeInv, RestOK
  <2> QED
    BY <2>1, <2>2, <2>3, <2>4
    DEF Next, Step, EntityGet, EntitySave, RelationSave, Tombstone, Cascade, Sever, Swallowed,
        ProcessDone, CatchUpNext, Process, ArchiveDelete, ArchiveSave, dbVars, vars
<1> QED
  BY <1>1, <1>2, <1>3, <1>4, <1>5 DEF RestOK, TypeInv

LEMMA TypeInvHolds == Spec => []TypeInv
<1>1. TypeInv /\ [Next]_vars => TypeInv'
  BY RowsStep, WorkStep, LogStep, StepsStep, RestStep DEF TypeInv
<1> QED
  BY <1>1, TypeInit, PTL DEF Spec

LEMMA TypeOfInv == TypeInv => TypeOK
<1> SUFFICES ASSUME TypeInv PROVE TypeOK
  OBVIOUS
<1>1. seqOf \in [Events -> 0 .. Cardinality(Events) + MaxRepeats]
  <2>1. ASSUME NEW e \in Events
        PROVE  seqOf[e] \in 0 .. Cardinality(Events) + MaxRepeats
    <3> DEFINE n == Cardinality(Held)
               m == Cardinality(Events)
    <3>1. n \in Nat /\ m \in Nat /\ n <= m
      BY HeldIsFinite
    <3>2. seqOf[e] \in Nat /\ Hole \in Nat /\ seqOf[e] + Hole <= n + repeats
      BY DEF TypeInv, LogOK, SeqsAreCounted, Hole
    <3>3. repeats \in 0 .. MaxRepeats /\ MaxRepeats \in Nat
      BY EventsOK DEF TypeInv, LogOK
    <3> HIDE DEF n, m
    <3>4. seqOf[e] \in 0 .. m + MaxRepeats
      BY <3>1, <3>2, <3>3
    <3> QED
      BY <3>4 DEF m
  <2> QED
    BY <2>1 DEF TypeInv, LogOK
<1> QED
  BY <1>1 DEF TypeInv, RowsOK, WorkOK, LogOK, StepsOK, ProcessOK, RestOK, StepNames, TypeOK

\* Every variable keeps its type; in particular no seq exceeds the number of events by
\* more than the archived ones used up, and every process is at a known step.
THEOREM TypeCorrect == Spec => []TypeOK
BY TypeInvHolds, TypeOfInv, PTL

(***************************************************************************)
(* Recovery.                                                               *)
(***************************************************************************)

\* Events that are projected, or that the projection has passed over for good.
Accounted == projected \cup missed

\* The list of a catch-up has one event for a seq; an event that is not projected and
\* comes before one of the list is on the list too; the event that the checkpoint is
\* about to pass is accounted for.
PendingCovers(p) ==
  /\ \A x, y \in pending[p] : x[1] = y[1] => x = y
  /\ \A e \in LogSet, x \in pending[p] :
       e \notin Accounted /\ seqOf[e] <= x[1] => <<seqOf[e], e>> \in pending[p]
  /\ At(p, "advance") => job[p] \in Accounted

\* The checkpoint covers what is behind it.
CoveredOK ==
  /\ \A e \in LogSet : seqOf[e] <= ckpt => e \in Accounted
  /\ \A p \in Procs : PendingCovers(p)

\* While no event is archived the log only grows: the checkpoint is not ahead of it, and
\* the lists of the catch-ups are taken from it.
LogIsWhole ==
  /\ archiving = None
  /\ ckpt = 0 \/ \E e \in LogSet : ckpt <= seqOf[e]
  /\ \A p \in Procs : \A x \in pending[p] : x[2] \in LogSet /\ x[1] = seqOf[x[2]]

RecoveryOK == CoveredOK /\ (Without({"archive"}) => LogIsWhole)

\* Only saving the entity leads to the step that moves the checkpoint.
LEMMA AdvanceFollowsSave ==
  ASSUME WorkOK, StepsOK, StepsOK', NEW p \in Procs, Done(p, 1), todo[p] # <<>>,
         todo[p][1] \notin {"save", "advance"}, mode'[p] = mode[p]
  PROVE  ~At(p, "advance")'
<1> SUFFICES ASSUME At(p, "advance")' PROVE FALSE
  OBVIOUS
<1> DEFINE s == todo[p]
           t == SubSeq(s, 1 + 1, Len(s))
<1>1. todo'[p] = t /\ t # <<>> /\ t[1] = "advance"
  BY DEF Done, WorkOK, At
<1>2. /\ t \in Seq(StepNames)
      /\ \A i \in 1 .. Len(t) : i + 1 \in 1 .. Len(s) /\ t[i] = s[i + 1]
  BY DropStep DEF StepsOK, ProcessOK
<1>3. mode[p] = "catchup"
  <2>1. mode'[p] # "down" /\ mode'[p] # "up"
    <3>1. 1 \in 1 .. Len(t)
      BY <1>1, <1>2
    <3> HIDE DEF t
    <3> QED
      BY <1>1, <3>1 DEF StepsOK, ProcessOK, HotLeft
  <2> QED
    BY <2>1 DEF StepsOK
<1>4. s[1] \in {"get", "save", "advance"} /\ 1 \in 1 .. Len(s)
  BY <1>3 DEF StepsOK, ProcessOK, CatchUpLeft
<1>5. s[1] = "get" /\ s[2] = "save"
  BY <1>4 DEF StepsOK, ProcessOK, InOrder
<1>6. 1 \in 1 .. Len(t) /\ 1 + 1 = 2
  BY <1>1, <1>2
<1> HIDE DEF s, t
<1> QED
  BY <1>1, <1>2, <1>5, <1>6

\* Who stands before "advance" is in a catch-up, with the oldest event of its list.
LEMMA AdvanceIsCatchUp ==
  ASSUME StepsOK, NEW p \in Procs, At(p, "advance")
  PROVE  /\ mode[p] = "catchup"
         /\ \E x \in pending[p] : IsOldest(x, pending[p]) /\ x[2] = job[p]
<1>1. todo[p] # <<>> /\ todo[p][1] = "advance" /\ 1 \in 1 .. Len(todo[p])
  BY DEF At, StepsOK, ProcessOK
<1> QED
  BY <1>1 DEF StepsOK, ProcessOK, HotLeft, CatchUpLeft

\* The steps after "save", but for "advance", are those of an event that is processed.
LEMMA HotStepIsUp ==
  ASSUME StepsOK, NEW p \in Procs, todo[p] # <<>>, todo[p][1] \notin {"get", "save", "advance"}
  PROVE  mode[p] = "up"
<1>1. 1 \in 1 .. Len(todo[p])
  BY DEF StepsOK, ProcessOK
<1> QED
  BY <1>1 DEF StepsOK, ProcessOK, CatchUpLeft

\* The environment is chosen once.
LEMMA EnvStays == [Next]_vars => env' = env
BY DEF Next, Step, EntityGet, EntitySave, RelationSave, Tombstone, Cascade, Sever, Swallowed,
       ProcessDone, Start, CatchUpNext, Advance, CatchUpDone, AdvanceFails, Up, Crash, Process,
       ArchiveDelete, ArchiveSave, bounds, vars

\* A list stays right while no event is added to the log.
LEMMA PendingKeeps ==
  ASSUME NEW p \in Procs, PendingCovers(p), Accounted \subseteq Accounted',
         LogSet' \subseteq LogSet, \A e \in LogSet' : seqOf'[e] = seqOf[e],
         pending'[p] = pending[p], At(p, "advance")' => job'[p] \in Accounted'
  PROVE  PendingCovers(p)'
BY DEF PendingCovers

\* Every step but those that add to the log or move the checkpoint.
LEMMA CoveredLocalStep ==
  ASSUME CoveredOK, NEW p \in Procs, ckpt' = ckpt, Accounted \subseteq Accounted',
         LogSet' \subseteq LogSet, \A e \in LogSet' : seqOf'[e] = seqOf[e],
         \A q \in Procs \ {p} :
           todo'[q] = todo[q] /\ job'[q] = job[q] /\ pending'[q] = pending[q],
         \/ PendingCovers(p)'
         \/ pending'[p] = pending[p] /\ (At(p, "advance")' => job'[p] \in Accounted')
  PROVE  CoveredOK'
<1>1. \A q \in Procs : PendingCovers(q)
  BY DEF CoveredOK
<1>2. ASSUME NEW q \in Procs \ {p}
      PROVE  PendingCovers(q)'
  <2>1. At(q, "advance")' => job'[q] \in Accounted'
    BY <1>1, <1>2 DEF PendingCovers, At
  <2> QED
    BY <1>1, <1>2, <2>1, PendingKeeps
<1>3. PendingCovers(p)'
  BY <1>1, PendingKeeps
<1> QED
  BY <1>2, <1>3 DEF CoveredOK

\* An event that is committed comes after the checkpoint and after every list, or is
\* booked as missed.
LEMMA CoveredCommit ==
  ASSUME TypeInv, CoveredOK, NEW e \in Events, Commit(e),
         ckpt' = ckpt, projected' = projected, pending' = pending,
         \A p \in Procs : At(p, "advance")' => job'[p] \in Accounted
  PROVE  CoveredOK'
<1>1. /\ LogOK /\ ckpt \in Nat
      /\ \A p \in Procs : \A x \in pending[p] : x[1] \in Nat
      /\ \A f \in LogSet : f \in Events /\ seqOf[f] \in Nat
  BY DEF TypeInv, RestOK, LogOK, LogSet
<1>2. Accounted \subseteq Accounted'
  BY DEF Accounted, Commit
<1>3. CASE InLog(e)
  <2>1. seqOf' = seqOf
    BY <1>3 DEF Commit
  <2>2. LogSet' = LogSet
    BY <2>1 DEF LogSet, InLog
  <2>3. \A p \in Procs : PendingCovers(p)'
    BY <1>2, <2>1, <2>2, PendingKeeps DEF CoveredOK
  <2> QED
    BY <1>2, <2>1, <2>2, <2>3 DEF CoveredOK
<1>4. CASE ~InLog(e)
  <2>1. /\ seqOf'[e] = MaxSeq + 1 /\ LogSet' = LogSet \cup {e}
        /\ \A f \in LogSet : seqOf'[f] = seqOf[f]
        /\ MaxSeq \in Nat
    <3>1. seqOf[e] = 0 /\ seqOf' = [seqOf EXCEPT ![e] = MaxSeq + 1]
      BY <1>1, <1>4 DEF Commit, InLog, LogOK
    <3> QED
      BY <1>1, <3>1, NewSeqIsLast, MaxSeqIs
  <2>2. IsBehind(MaxSeq + 1) => e \in Accounted'
    BY <1>4 DEF Commit, Accounted
  <2> HIDE DEF MaxSeq
  <2>3. seqOf'[e] <= ckpt => e \in Accounted'
    BY <2>1, <2>2 DEF IsBehind
  <2>4. \A p \in Procs : \A x \in pending[p] : seqOf'[e] <= x[1] => e \in Accounted'
    BY <2>1, <2>2 DEF IsBehind
  <2>5. ASSUME NEW p \in Procs
        PROVE  PendingCovers(p)'
    <3>1. \A f \in LogSet', x \in pending'[p] :
            f \notin Accounted' /\ seqOf'[f] <= x[1] => <<seqOf'[f], f>> \in pending'[p]
      BY <1>2, <2>1, <2>4 DEF CoveredOK, PendingCovers
    <3>2. \A x, y \in pending'[p] : x[1] = y[1] => x = y
      BY DEF CoveredOK, PendingCovers
    <3> QED
      BY <1>2, <3>1, <3>2 DEF PendingCovers
  <2>6. \A f \in LogSet' : seqOf'[f] <= ckpt' => f \in Accounted'
    BY <1>2, <2>1, <2>3 DEF CoveredOK
  <2> QED
    BY <2>5, <2>6 DEF CoveredOK
<1> QED
  BY <1>3, <1>4

\* The checkpoint moves to the oldest event of the list, which is accounted for.
LEMMA CoveredAdvance ==
  ASSUME TypeInv, CoveredOK, NEW p \in Procs, Advance(p)
  PROVE  CoveredOK'
<1>1. PICK x \in pending[p] : IsOldest(x, pending[p]) /\ ckpt' = x[1]
                              /\ pending' = [pending EXCEPT ![p] = @ \ {x}]
  BY DEF Advance
<1>2. /\ StepsOK /\ WorkOK /\ \A y \in pending[p] : y[1] \in Nat
      /\ \A f \in LogSet : f \in Events /\ seqOf[f] \in Nat
  BY DEF TypeInv, RestOK, LogOK, LogSet
<1>3. PICK y \in pending[p] : IsOldest(y, pending[p]) /\ y[2] = job[p]
  BY <1>2, AdvanceIsCatchUp DEF Advance
<1>4. PendingCovers(p) /\ job[p] \in Accounted
  BY DEF Advance, PendingCovers, CoveredOK
<1>5. x[2] = job[p]
  <2>1. x[1] <= y[1] /\ y[1] <= x[1]
    BY <1>1, <1>3 DEF IsOldest
  <2>2. x[1] = y[1]
    BY <1>2, <2>1
  <2> QED
    BY <1>3, <1>4, <2>2 DEF PendingCovers
<1>6. /\ UNCHANGED <<seqOf, projected, missed>> /\ todo'[p] = <<>>
      /\ pending'[p] = pending[p] \ {x}
      /\ \A q \in Procs \ {p} : todo'[q] = todo[q] /\ job'[q] = job[q] /\ pending'[q] = pending[q]
  BY <1>1, <1>2 DEF Advance, ghosts, WorkOK
<1>7. LogSet' = LogSet /\ Accounted' = Accounted
  BY <1>6 DEF LogSet, InLog, Accounted
<1>8. ASSUME NEW e \in LogSet, e \notin Accounted, NEW z \in pending[p], seqOf[e] <= z[1]
      PROVE  <<seqOf[e], e>> \in pending[p] \ {x} /\ x[1] < seqOf[e]
  <2>1. <<seqOf[e], e>> \in pending[p]
    BY <1>4, <1>8 DEF PendingCovers
  <2>2. <<seqOf[e], e>> # x
    BY <1>4, <1>5, <1>8
  <2>3. x[1] # seqOf[e]
    BY <1>4, <2>1, <2>2 DEF PendingCovers
  <2>4. x[1] <= seqOf[e]
    BY <1>1, <2>1 DEF IsOldest
  <2>5. x[1] < seqOf[e]
    BY <1>2, <2>3, <2>4
  <2> QED
    BY <2>1, <2>2, <2>5
<1>9. \A e \in LogSet : seqOf[e] <= ckpt' => e \in Accounted
  <2> SUFFICES ASSUME NEW e \in LogSet, seqOf[e] <= x[1], e \notin Accounted PROVE FALSE
    BY <1>1
  <2>1. x[1] < seqOf[e]
    BY <1>8
  <2> QED
    BY <1>2, <2>1
<1>10. PendingCovers(p)'
  <2>1. ~At(p, "advance")'
    BY <1>6 DEF At
  <2>2. \A a, b \in pending'[p] : a[1] = b[1] => a = b
    BY <1>4, <1>6 DEF PendingCovers
  <2>3. \A e \in LogSet', z \in pending'[p] :
          e \notin Accounted' /\ seqOf'[e] <= z[1] => <<seqOf'[e], e>> \in pending'[p]
    BY <1>6, <1>7, <1>8
  <2> QED
    BY <2>1, <2>2, <2>3 DEF PendingCovers
<1>11. ASSUME NEW q \in Procs \ {p}
       PROVE  PendingCovers(q)'
  <2>1. PendingCovers(q) /\ (At(q, "advance")' => job'[q] \in Accounted')
    BY <1>6, <1>7 DEF PendingCovers, At, CoveredOK
  <2> QED
    BY <1>6, <1>7, <2>1, PendingKeeps
<1> QED
  BY <1>6, <1>7, <1>9, <1>10, <1>11 DEF CoveredOK

LEMMA CoveredStep ==
  ASSUME TypeInv, TypeInv', CoveredOK, [Next]_vars
  PROVE  CoveredOK'
<1>1. /\ WorkOK /\ StepsOK /\ StepsOK' /\ LogOK
      /\ \A p \in Procs : PendingCovers(p)
  BY DEF TypeInv, CoveredOK
<1>2. UNCHANGED seqOf => LogSet' \subseteq LogSet /\ \A e \in LogSet' : seqOf'[e] = seqOf[e]
  BY DEF LogSet, InLog
<1>3. ASSUME NEW p \in Procs, mode'[p] = "up"
      PROVE  ~At(p, "advance")'
  <2> SUFFICES ASSUME At(p, "advance")' PROVE FALSE
    OBVIOUS
  <2>1. /\ todo'[p] \in Seq(StepNames) /\ todo'[p] # <<>> /\ todo'[p][1] = "advance"
        /\ \A i \in 1 .. Len(todo'[p]) : todo'[p][i] # "advance"
    BY <1>1, <1>3 DEF At, StepsOK, ProcessOK, HotLeft
  <2> QED
    BY <2>1
<1>4. ASSUME NEW p \in Procs, EntitySave(p)
      PROVE  CoveredOK'
  <2>1. /\ UNCHANGED <<seqOf, ckpt, job, pending>> /\ job'[p] \in Accounted'
        /\ Accounted \subseteq Accounted'
        /\ \A q \in Procs \ {p} : todo'[q] = todo[q]
    BY <1>1, <1>4 DEF EntitySave, Done, WorkOK, Accounted
  <2> QED
    BY <1>2, <2>1, CoveredLocalStep
<1>5. ASSUME NEW p \in Procs, EntityGet(p) \/ RelationSave(p) \/ Tombstone(p) \/ Cascade(p) \/ Sever(p)
      PROVE  CoveredOK'
  <2>1. /\ Done(p, 1) /\ todo[p] # <<>> /\ todo[p][1] \notin {"save", "advance"}
        /\ UNCHANGED <<seqOf, ckpt, mode, job, pending, projected, missed>>
    BY <1>1, <1>5 DEF EntityGet, RelationSave, Tombstone, Cascade, Sever, At, dbVars, ghosts
  <2>2. ~At(p, "advance")'
    BY <1>1, <2>1, AdvanceFollowsSave
  <2>3. Accounted' = Accounted /\ \A q \in Procs \ {p} : todo'[q] = todo[q]
    BY <1>1, <2>1 DEF Done, WorkOK, Accounted
  <2> QED
    BY <1>2, <2>1, <2>2, <2>3, CoveredLocalStep
<1>6. ASSUME NEW p \in Procs, Swallowed(p)
      PROVE  CoveredOK'
  <2>1. /\ UNCHANGED <<seqOf, ckpt, mode, job, pending, projected>> /\ todo[p] # <<>>
        /\ todo[p][1] \in {"get", "save"} => job[p] \in Accounted'
        /\ todo[p][1] # "advance" /\ Accounted \subseteq Accounted'
        /\ \A q \in Procs \ {p} : todo'[q] = todo[q]
    BY <1>1, <1>6 DEF Swallowed, Done, WorkOK, dbVars, Accounted
  <2>2. At(p, "advance")' => job'[p] \in Accounted'
    <3>1. CASE todo[p][1] \in {"get", "save"}
      BY <2>1, <3>1
    <3>2. CASE todo[p][1] \notin {"get", "save"}
      <4>1. mode'[p] = "up"
        BY <1>1, <2>1, <3>2, HotStepIsUp
      <4> QED
        BY <1>3, <4>1
    <3> QED
      BY <3>1, <3>2
  <2> QED
    BY <1>2, <2>1, <2>2, CoveredLocalStep
<1>7. ASSUME NEW p \in Procs, NEW e \in Events, Process(p, e)
      PROVE  CoveredOK'
  <2>1. /\ Commit(e) /\ ckpt' = ckpt /\ projected' = projected /\ pending' = pending
        /\ mode'[p] = "up" /\ \A q \in Procs \ {p} : todo'[q] = todo[q] /\ job'[q] = job[q]
    BY <1>1, <1>7 DEF Process, WorkOK
  <2>2. \A q \in Procs : At(q, "advance")' => job'[q] \in Accounted
    BY <1>1, <1>3, <2>1 DEF PendingCovers, At
  <2> QED
    BY <2>1, <2>2, CoveredCommit
<1>8. CASE ArchiveSave
  <2>1. /\ archiving \in Events /\ Commit(archiving)
        /\ UNCHANGED <<ckpt, projected, pending, todo, job>>
    BY <1>1, <1>8 DEF ArchiveSave, LogOK
  <2>2. \A q \in Procs : At(q, "advance")' => job'[q] \in Accounted
    BY <1>1, <2>1 DEF PendingCovers, At
  <2> QED
    BY <2>1, <2>2, CoveredCommit
<1>9. ASSUME NEW e \in Events, ArchiveDelete(e)
      PROVE  CoveredOK'
  <2>1. /\ UNCHANGED <<ckpt, projected, missed, pending, todo, job>>
        /\ seqOf' = [seqOf EXCEPT ![e] = 0]
    BY <1>9 DEF ArchiveDelete, ghosts
  <2>2. LogSet' \subseteq LogSet /\ \A f \in LogSet' : seqOf'[f] = seqOf[f]
    BY <1>1, <2>1 DEF LogSet, InLog, LogOK
  <2>3. Accounted' = Accounted
    BY <2>1 DEF Accounted
  <2>4. \A q \in Procs : PendingCovers(q)'
    <3> SUFFICES ASSUME NEW q \in Procs PROVE PendingCovers(q)'
      OBVIOUS
    <3>1. PendingCovers(q) /\ (At(q, "advance")' => job'[q] \in Accounted')
      BY <1>1, <2>1, <2>3 DEF PendingCovers, At
    <3> QED
      BY <2>1, <2>2, <2>3, <3>1, PendingKeeps
  <2> QED
    BY <2>1, <2>2, <2>3, <2>4 DEF CoveredOK
<1>10. ASSUME NEW p \in Procs, Start(p)
       PROVE  CoveredOK'
  <2>1. /\ UNCHANGED <<seqOf, ckpt, todo, job, projected, missed>>
        /\ pending'[p] = IterAfterSeq(ckpt)
        /\ \A q \in Procs \ {p} : pending'[q] = pending[q]
    BY <1>1, <1>10 DEF Start, dbVars, ghosts, WorkOK
  <2>2. ~At(p, "advance")'
    BY <1>1, <1>10, <2>1 DEF Start, At, StepsOK, ProcessOK
  <2>3. LogSet' = LogSet /\ Accounted' = Accounted
    BY <2>1 DEF LogSet, InLog, Accounted
  <2>4. \A f \in LogSet : f \notin Accounted => <<seqOf[f], f>> \in IterAfterSeq(ckpt)
    <3>1. \A f \in LogSet : seqOf[f] \in Nat /\ ckpt \in Nat
      BY DEF LogSet, TypeInv, LogOK, RestOK
    <3> QED
      BY <3>1 DEF IterAfterSeq, CoveredOK
  <2>5. \A x, y \in IterAfterSeq(ckpt) : x[1] = y[1] => x = y
    BY <1>1 DEF IterAfterSeq, LogOK, SeqsAreUnique
  <2>6. PendingCovers(p)'
    BY <2>1, <2>2, <2>3, <2>4, <2>5 DEF PendingCovers
  <2> QED
    BY <1>2, <2>1, <2>3, <2>6, CoveredLocalStep
<1>11. ASSUME NEW p \in Procs, CatchUpNext(p)
       PROVE  CoveredOK'
  <2>1. ~At(p, "advance")'
    BY <1>1, <1>11, CatchUpStepsAre DEF CatchUpNext, At, WorkOK
  <2>2. /\ UNCHANGED <<seqOf, ckpt, pending>> /\ Accounted' = Accounted
        /\ \A q \in Procs \ {p} : todo'[q] = todo[q] /\ job'[q] = job[q]
    BY <1>1, <1>11 DEF CatchUpNext, dbVars, ghosts, WorkOK, Accounted
  <2> QED
    BY <1>2, <2>1, <2>2, CoveredLocalStep
<1>12. ASSUME NEW p \in Procs, CatchUpDone(p) \/ AdvanceFails(p) \/ Crash(p)
       PROVE  CoveredOK'
  <2>1. /\ UNCHANGED <<seqOf, ckpt>> /\ Accounted' = Accounted
        /\ pending'[p] = {} /\ todo'[p] = <<>>
        /\ \A q \in Procs \ {p} : todo'[q] = todo[q] /\ job'[q] = job[q] /\ pending'[q] = pending[q]
    BY <1>1, <1>12 DEF CatchUpDone, AdvanceFails, Up, Crash, dbVars, ghosts, WorkOK, Accounted
  <2>2. PendingCovers(p)'
    BY <2>1 DEF PendingCovers, At
  <2> QED
    BY <1>2, <2>1, <2>2, CoveredLocalStep
<1>13. ASSUME NEW p \in Procs, Advance(p)
       PROVE  CoveredOK'
  BY <1>13, CoveredAdvance
<1>14. ASSUME NEW p \in Procs, ProcessDone(p)
       PROVE  CoveredOK'
  <2>1. /\ UNCHANGED <<seqOf, ckpt, pending, todo>> /\ Accounted' = Accounted
        /\ ~At(p, "advance")' /\ \A q \in Procs \ {p} : job'[q] = job[q]
    BY <1>1, <1>14 DEF ProcessDone, dbVars, ghosts, WorkOK, Accounted, At
  <2> QED
    BY <1>2, <2>1, CoveredLocalStep
<1>15. CASE UNCHANGED vars
  BY <1>15 DEF CoveredOK, PendingCovers, LogSet, InLog, At, Accounted, vars
<1> QED
  BY <1>4, <1>5, <1>6, <1>7, <1>8, <1>9, <1>10, <1>11, <1>12, <1>13, <1>14, <1>15 DEF Next, Step

\* Without archiving the log only grows.
LEMMA WholeStep ==
  ASSUME TypeInv, TypeInv', LogIsWhole, ~May("archive"), [Next]_vars
  PROVE  LogIsWhole'
<1>1. /\ WorkOK /\ LogOK
      /\ \A p \in Procs : \A x \in pending[p] : x[2] \in LogSet /\ x[1] = seqOf[x[2]]
      /\ \A e \in LogSet : seqOf[e] \in Nat
  BY DEF TypeInv, LogIsWhole, LogOK, LogSet
<1>2. archiving' = None
  BY DEF LogIsWhole, Next, Step, EntityGet, EntitySave, RelationSave, Tombstone, Cascade, Sever,
         Swallowed, ProcessDone, Start, CatchUpNext, Advance, CatchUpDone, AdvanceFails, Up, Crash,
         Process, ArchiveDelete, ArchiveSave, dbVars, vars
<1>3. LogSet \subseteq LogSet' /\ \A e \in LogSet : seqOf'[e] = seqOf[e]
  <2>1. CASE UNCHANGED seqOf
    BY <2>1 DEF LogSet, InLog
  <2>2. ASSUME NEW p \in Procs, NEW e \in Events, Process(p, e), ~InLog(e)
        PROVE  LogSet \subseteq LogSet' /\ \A f \in LogSet : seqOf'[f] = seqOf[f]
    <3>1. seqOf[e] = 0 /\ seqOf' = [seqOf EXCEPT ![e] = MaxSeq + 1]
      BY <1>1, <2>2 DEF Process, Commit, InLog, LogOK
    <3> QED
      BY <1>1, <3>1, NewSeqIsLast
  <2>3. ASSUME NEW p \in Procs, NEW e \in Events, Process(p, e), InLog(e)
        PROVE  UNCHANGED seqOf
    BY <2>3 DEF Process, Commit
  <2> QED
    BY <2>1, <2>2, <2>3
    DEF LogIsWhole, Next, Step, EntityGet, EntitySave, RelationSave, Tombstone, Cascade, Sever,
        Swallowed, ProcessDone, Start, CatchUpNext, Advance, CatchUpDone, AdvanceFails, Up, Crash,
        ArchiveDelete, ArchiveSave, dbVars, vars
<1>4. ckpt' = 0 \/ \E e \in LogSet' : ckpt' <= seqOf'[e]
  <2>1. CASE ckpt' = ckpt
    BY <1>3, <2>1 DEF LogIsWhole
  <2>2. ASSUME NEW p \in Procs, Advance(p)
        PROVE  \E e \in LogSet' : ckpt' <= seqOf'[e]
    <3>1. PICK x \in pending[p] : ckpt' = x[1]
      BY <2>2 DEF Advance
    <3>2. x[2] \in LogSet' /\ ckpt' = seqOf'[x[2]] /\ seqOf'[x[2]] \in Nat
      BY <1>1, <1>3, <3>1
    <3> QED
      BY <3>2
  <2> QED
    BY <2>1, <2>2
    DEF Next, Step, EntityGet, EntitySave, RelationSave, Tombstone, Cascade, Sever,
        Swallowed, ProcessDone, Start, CatchUpNext, CatchUpDone, AdvanceFails, Up, Crash,
        Process, ArchiveDelete, ArchiveSave, dbVars, vars
<1>5. \A p \in Procs : \A x \in pending'[p] : x[2] \in LogSet' /\ x[1] = seqOf'[x[2]]
  <2>1. ASSUME NEW p \in Procs, pending'[p] \subseteq pending[p]
        PROVE  \A x \in pending'[p] : x[2] \in LogSet' /\ x[1] = seqOf'[x[2]]
    BY <1>1, <1>3, <2>1
  <2>2. ASSUME NEW p \in Procs, pending'[p] = IterAfterSeq(ckpt)
        PROVE  \A x \in pending'[p] : x[2] \in LogSet' /\ x[1] = seqOf'[x[2]]
    BY <1>3, <2>2 DEF IterAfterSeq
  <2>3. \A p \in Procs : pending'[p] \subseteq pending[p] \/ pending'[p] = IterAfterSeq(ckpt)
    <3>1. ASSUME NEW q \in Procs, Start(q) \/ Advance(q) \/ CatchUpDone(q) \/ AdvanceFails(q) \/ Crash(q)
          PROVE  \A p \in Procs : pending'[p] \subseteq pending[p] \/ pending'[p] = IterAfterSeq(ckpt)
      BY <1>1, <3>1 DEF Start, Advance, CatchUpDone, AdvanceFails, Up, Crash, WorkOK
    <3>2. CASE pending' = pending
      BY <3>2
    <3> QED
      BY <3>1, <3>2
      DEF Next, Step, EntityGet, EntitySave, RelationSave, Tombstone, Cascade, Sever,
          Swallowed, ProcessDone, CatchUpNext, Process, ArchiveDelete, ArchiveSave, vars
  <2> QED
    BY <2>1, <2>2, <2>3
<1> QED
  BY <1>2, <1>4, <1>5 DEF LogIsWhole

LEMMA RecoveryHolds == Spec => [](TypeInv /\ RecoveryOK)
<1>1. Init => RecoveryOK
  BY EventsOK
  DEF Init, RecoveryOK, CoveredOK, LogIsWhole, PendingCovers, LogSet, InLog, At
<1>2. ASSUME TypeInv, TypeInv', RecoveryOK, [Next]_vars
      PROVE  RecoveryOK'
  <2>1. CoveredOK'
    BY <1>2, CoveredStep DEF RecoveryOK
  <2>2. ASSUME Without({"archive"})' PROVE LogIsWhole'
    <3>1. env' = env
      BY <1>2, EnvStays
    <3>2. Without({"archive"}) /\ ~May("archive")
      BY <2>2, <3>1 DEF Without, May
    <3> QED
      BY <1>2, <3>2, WholeStep DEF RecoveryOK
  <2> QED
    BY <2>1, <2>2 DEF RecoveryOK
<1> QED
  BY <1>1, <1>2, TypeInvHolds, PTL DEF Spec

\* Recovery is true in every environment: whatever the number of processes, the crashes,
\* the repeated and archived events and the failures that are swallowed, the checkpoint
\* covers only events that are projected or were passed over, and a process that reports
\* HEALTHY while the latest seq can be read, be the checkpoint readable or not, has no
\* other event in the log.
THEOREM RecoveryIsSound == Spec => []RecoveryIsTrue
<1>1. ASSUME TypeInv, RecoveryOK
      PROVE  RecoveryIsTrue
  <2>1. CheckpointCovers
    BY <1>1 DEF RecoveryOK, CoveredOK, Accounted, CheckpointCovers
  <2>2. HealthyMeansProjected
    <3> SUFFICES ASSUME NEW p \in Procs, NEW reads \in SUBSET Reads, "latest" \in reads,
                        Classify(p, reads) = "healthy", NEW e \in LogSet
                 PROVE  e \in projected \cup missed
      BY DEF HealthyMeansProjected
    <3>1. MaxSeq \in Nat /\ seqOf[e] <= MaxSeq /\ seqOf[e] \in Nat /\ ckpt \in Nat
      BY <1>1, MaxSeqIs DEF TypeInv, RestOK, LogOK, LogSet
    <3>2. Backlog(reads) = 0
      BY DEF Classify
    <3> HIDE DEF MaxSeq
    <3>3. seqOf[e] <= ckpt
      BY <3>1, <3>2 DEF Backlog, DurableState
    <3> QED
      BY <2>1, <3>3 DEF CheckpointCovers
  <2> QED
    BY <2>1, <2>2 DEF RecoveryIsTrue
<1> QED
  BY <1>1, RecoveryHolds, PTL

(***************************************************************************)
(* Terminal states.                                                        *)
(***************************************************************************)

\* Saving leaves a row.
LEMMA SaveLeavesRow ==
  ASSUME RowsOK, WorkOK, NEW p \in Procs, EntitySave(p)
  PROVE  /\ job[p] \in Events /\ job[p].entity \in Entities /\ job[p].key \in Keys
         /\ Merged(p, job[p]) \in [Keys -> Events \cup {None}]
         /\ ent'[job[p].entity] \in Row /\ ent'[job[p].entity] # None
<1>1. job[p] \in Events /\ job[p].entity \in Entities /\ job[p].key \in Keys
  BY DEF EntitySave, At, WorkOK, Keys, Entities
<1>2. Merged(p, job[p]) \in [Keys -> Events \cup {None}]
  BY <1>1 DEF Merged, RowsOK, Row
<1>3. ent'[job[p].entity] \in Row
  BY <1>1, <1>2 DEF EntitySave, RowsOK, Row
<1> QED
  BY <1>1, <1>2, <1>3, NoneIsNoRow

LEMMA TerminalStep ==
  ASSUME RowsOK, WorkOK, [Next]_vars
  PROVE  /\ \A x \in Entities : ent[x] # None =>
              ent'[x] # None /\ (ent[x].deleted => ent'[x].deleted)
         /\ \A r \in Relations :
              /\ rel[r] = "INACTIVE" => rel'[r] = "INACTIVE"
              /\ rel[r] = "ACTIVE" => rel'[r] # "ABSENT"
<1>1. CASE UNCHANGED <<ent, rel>>
  BY <1>1
<1>2. ASSUME NEW p \in Procs, EntitySave(p)
      PROVE  \A x \in Entities : ent[x] # None =>
               ent'[x] # None /\ (ent[x].deleted => ent'[x].deleted)
  <2>1. \A x \in Entities : ent[x] # None => ent'[x] # None
    <3> SUFFICES ASSUME NEW x \in Entities, ent[x] # None PROVE ent'[x] # None
      OBVIOUS
    <3>1. CASE x = job[p].entity
      BY <1>2, <3>1, SaveLeavesRow
    <3>2. CASE x # job[p].entity
      BY <1>2, <3>2 DEF EntitySave, RowsOK
    <3> QED
      BY <3>1, <3>2
  <2>2. \A x \in Entities : ent[x] # None => (ent[x].deleted => ent'[x].deleted)
    BY <1>2 DEF EntitySave, RowsOK, Row
  <2> QED
    BY <2>1, <2>2
<1>3. ASSUME NEW p \in Procs, Tombstone(p)
      PROVE  \A x \in Entities : ent[x] # None =>
               ent'[x] # None /\ (ent[x].deleted => ent'[x].deleted)
  BY <1>3, NoneIsNoRow DEF Tombstone, Live, RowsOK, Row
<1>4. ASSUME NEW p \in Procs, RelationSave(p) \/ Cascade(p) \/ Sever(p)
      PROVE  \A r \in Relations :
               /\ rel[r] = "INACTIVE" => rel'[r] = "INACTIVE"
               /\ rel[r] = "ACTIVE" => rel'[r] # "ABSENT"
  BY <1>4 DEF RelationSave, Cascade, Sever, Inactivate, RowsOK
<1>5. \/ UNCHANGED <<ent, rel>>
      \/ \E p \in Procs : (EntitySave(p) \/ Tombstone(p)) /\ UNCHANGED rel
      \/ \E p \in Procs : (RelationSave(p) \/ Cascade(p) \/ Sever(p)) /\ UNCHANGED ent
  BY DEF Next, Step, EntityGet, EntitySave, RelationSave, Tombstone, Cascade, Sever, Swallowed,
      ProcessDone, Start, CatchUpNext, Advance, CatchUpDone, AdvanceFails, Up, Crash, Process,
      ArchiveDelete, ArchiveSave, dbVars, vars
<1> QED
  BY <1>1, <1>2, <1>3, <1>4, <1>5

\* A row, once there, stays; deleted and INACTIVE are never taken back, whatever the
\* processes, their crashes, repetitions and failures.
THEOREM TerminalStatesHold == Spec => TerminalStates
<1>1. RowsOK /\ WorkOK /\ [Next]_vars =>
        [/\ \A x \in Entities : ent[x] # None =>
              ent'[x] # None /\ (ent[x].deleted => ent'[x].deleted)
         /\ \A r \in Relations :
              /\ rel[r] = "INACTIVE" => rel'[r] = "INACTIVE"
              /\ rel[r] = "ACTIVE" => rel'[r] # "ABSENT"]_vars
  BY TerminalStep
<1>2. RowsOK /\ WorkOK /\ [Next]_vars => (RowsOK /\ WorkOK)'
  BY RowsStep, WorkStep
<1> QED
  BY <1>1, <1>2, InitOK, PTL DEF Spec, TerminalStates

(***************************************************************************)
(* One process alone.                                                      *)
(***************************************************************************)

\* The others never start, so every step is its own.
LEMMA AloneMoves ==
  ASSUME StepsOK, NEW p \in Procs, env.procs = {p}, NEW q \in Procs,
         \/ Step(q) \/ Swallowed(q) \/ AdvanceFails(q) \/ Crash(q)
         \/ \E e \in Events : Process(q, e)
  PROVE  q = p
<1> SUFFICES ASSUME q # p PROVE FALSE
  OBVIOUS
<1>1. mode[q] = "down" /\ todo[q] = <<>> /\ job[q] = None
  BY DEF StepsOK, ProcessOK
<1> QED
  BY <1>1
  DEF Step, EntityGet, EntitySave, RelationSave, Tombstone, Cascade, Sever, Swallowed, ProcessDone,
      Start, CatchUpNext, Advance, CatchUpDone, AdvanceFails, Crash, Process, At

\* After "get" comes "save".
LEMMA SaveFollowsGet ==
  ASSUME WorkOK, StepsOK, NEW p \in Procs, At(p, "get"), Done(p, 1)
  PROVE  At(p, "save")'
<1> DEFINE s == todo[p]
           t == SubSeq(s, 1 + 1, Len(s))
<1>1. s \in Seq(StepNames) /\ InOrder(s) /\ s # <<>> /\ s[1] = "get" /\ todo'[p] = t
  BY DEF At, Done, WorkOK, StepsOK, ProcessOK
<1>2. /\ t \in Seq(StepNames)
      /\ \A i \in 1 .. Len(t) : t[i] = s[i + 1]
      /\ Len(t) = IF 1 < Len(s) THEN Len(s) - 1 ELSE 0
  BY <1>1, DropStep
<1>3. Len(s) \in Nat /\ 2 <= Len(s) /\ s[2] = "save"
  BY <1>1 DEF InOrder
<1>4. 1 \in 1 .. Len(t) /\ 1 + 1 = 2
  BY <1>2, <1>3
<1>5. t # <<>> /\ t[1] = "save"
  <2> HIDE DEF s, t
  <2> QED
    BY <1>2, <1>3, <1>4
<1> QED
  BY <1>1, <1>5 DEF At

Unsaved(p) == At(p, "get") \/ At(p, "save")

(***************************************************************************)
(* The count of entities.                                                  *)
(***************************************************************************)

\* What is counted has a row, and so has the entity of an event once it is saved.
CountedHaveRows(p) ==
  /\ \A x \in seen[p] : ent[x] # None
  /\ mode[p] = "up" /\ job[p] # None => Unsaved(p) \/ ent[job[p].entity] # None

\* Without crashes the first start finds an empty database, and afterwards only the
\* entity at hand is not counted yet.
LiveAreCounted(p) ==
  /\ mode[p] # "up" =>
       LogSet = {} /\ archiving = None /\ pending[p] = {} /\ \A x \in Entities : ent[x] = None
  /\ mode[p] = "up" => \A x \in Entities :
       Live(ent[x]) => x \in seen[p] \/ (job[p] # None /\ x = job[p].entity)

CountOK ==
  Without({"swallow"}) =>
    \A p \in Procs :
      CountedHaveRows(p) /\ (Without({"crash"}) /\ env.procs = {p} => LiveAreCounted(p))

LEMMA CountedKeep ==
  ASSUME TypeInv, [Next]_vars, NEW p \in Procs, CountedHaveRows(p), seen'[p] \subseteq seen[p],
         \/ mode'[p] # "up" \/ job'[p] = None
         \/ mode'[p] = mode[p] /\ job'[p] = job[p] /\ (Unsaved(p) => Unsaved(p)')
  PROVE  CountedHaveRows(p)'
<1>1. \A x \in Entities : ent[x] # None => ent'[x] # None
  BY TerminalStep DEF TypeInv
<1>2. \A x \in seen[p] : x \in Entities
  BY DEF TypeInv, RestOK
<1>3. job[p] # None => job[p].entity \in Entities
  BY DEF TypeInv, WorkOK, Entities
<1> QED
  BY <1>1, <1>2, <1>3 DEF CountedHaveRows

LEMMA CountedStep ==
  ASSUME TypeInv, [Next]_vars, ~May("swallow"), \A p \in Procs : CountedHaveRows(p)
  PROVE  \A p \in Procs : CountedHaveRows(p)'
<1>0. WorkOK /\ StepsOK /\ RowsOK
  BY DEF TypeInv
<1>1. ASSUME NEW p \in Procs, EntityGet(p)
      PROVE  \A q \in Procs : CountedHaveRows(q)'
  <2>1. Unsaved(p)'
    BY <1>0, <1>1, SaveFollowsGet DEF EntityGet, Unsaved
  <2>2. \A q \in Procs \ {p} : Unsaved(q) => Unsaved(q)'
    BY <1>1 DEF EntityGet, Done, Unsaved, At, TypeInv, WorkOK
  <2> QED
    BY <1>1, <2>1, <2>2, CountedKeep DEF EntityGet
<1>2. ASSUME NEW p \in Procs, EntitySave(p)
      PROVE  \A q \in Procs : CountedHaveRows(q)'
  <2>1. \A q \in Procs \ {p} : CountedHaveRows(q)'
    <3>1. \A q \in Procs \ {p} : Unsaved(q) => Unsaved(q)'
      BY <1>2 DEF EntitySave, Done, Unsaved, At, TypeInv, WorkOK
    <3> QED
      BY <1>2, <3>1, CountedKeep DEF EntitySave
  <2>2. ent'[job[p].entity] # None /\ job' = job /\ seen' = seen
    BY <1>0, <1>2, SaveLeavesRow DEF EntitySave
  <2>3. \A x \in seen[p] : ent'[x] # None
    BY <1>0, TerminalStep DEF CountedHaveRows, TypeInv, RestOK
  <2>4. CountedHaveRows(p)'
    BY <2>2, <2>3 DEF CountedHaveRows
  <2> QED
    BY <2>1, <2>4
<1>3. ASSUME NEW p \in Procs, RelationSave(p) \/ Tombstone(p) \/ Cascade(p) \/ Sever(p)
      PROVE  \A q \in Procs : CountedHaveRows(q)'
  <2>1. UNCHANGED <<mode, job, seen>>
    BY <1>3 DEF RelationSave, Tombstone, Cascade, Sever
  <2>2. \A q \in Procs : Unsaved(q) => Unsaved(q)'
    BY <1>3 DEF RelationSave, Tombstone, Cascade, Sever, Done, Unsaved, At, TypeInv, WorkOK
  <2> QED
    BY <2>1, <2>2, CountedKeep
<1>4. ASSUME NEW p \in Procs, NEW e \in Events, Process(p, e)
      PROVE  \A q \in Procs : CountedHaveRows(q)'
  <2>1. Unsaved(p)' /\ ent' = ent /\ seen' = seen
    BY <1>4, HotStepsAre DEF Process, Unsaved, At, TypeInv, WorkOK
  <2>2. \A q \in Procs \ {p} : Unsaved(q) => Unsaved(q)'
    BY <1>4 DEF Process, Unsaved, At, TypeInv, WorkOK
  <2>3. \A q \in Procs \ {p} : mode'[q] = mode[q] /\ job'[q] = job[q]
    BY <1>4 DEF Process, TypeInv, WorkOK
  <2>4. \A q \in Procs \ {p} : CountedHaveRows(q)'
    BY <2>1, <2>2, <2>3, CountedKeep
  <2>5. CountedHaveRows(p)'
    BY <2>1 DEF CountedHaveRows
  <2> QED
    BY <2>4, <2>5
<1>5. ASSUME NEW p \in Procs, ProcessDone(p)
      PROVE  \A q \in Procs : CountedHaveRows(q)'
  <2>1. \A q \in Procs \ {p} : seen'[q] = seen[q] /\ job'[q] = job[q] /\ mode'[q] = mode[q]
                                /\ (Unsaved(q) => Unsaved(q)')
    BY <1>5 DEF ProcessDone, Unsaved, At, TypeInv, WorkOK, RestOK
  <2>2. \A q \in Procs \ {p} : CountedHaveRows(q)'
    BY <2>1, CountedKeep
  <2>3. ent[job[p].entity] # None
    BY <1>5 DEF ProcessDone, CountedHaveRows, Unsaved, At
  <2>4. ent' = ent /\ seen'[p] = seen[p] \cup {job[p].entity} /\ job'[p] = None
    BY <1>5 DEF ProcessDone, dbVars, TypeInv, WorkOK, RestOK
  <2>5. CountedHaveRows(p)'
    BY <2>3, <2>4 DEF CountedHaveRows
  <2> QED
    BY <2>2, <2>5
<1>6. ASSUME NEW p \in Procs, Start(p)
      PROVE  \A q \in Procs : CountedHaveRows(q)'
  <2>1. \A q \in Procs \ {p} : seen'[q] = seen[q] /\ job'[q] = job[q] /\ mode'[q] = mode[q]
                                /\ (Unsaved(q) => Unsaved(q)')
    BY <1>6 DEF Start, Unsaved, At, TypeInv, StepsOK, RestOK
  <2>2. \A q \in Procs \ {p} : CountedHaveRows(q)'
    BY <2>1, CountedKeep
  <2>3. ent' = ent /\ seen'[p] = {x \in Entities : Live(ent[x])} /\ mode'[p] = "catchup"
    BY <1>6 DEF Start, dbVars, TypeInv, StepsOK, RestOK
  <2>4. CountedHaveRows(p)'
    BY <2>3 DEF CountedHaveRows, Live
  <2> QED
    BY <2>2, <2>4
<1>7. ASSUME NEW p \in Procs, CatchUpNext(p) \/ Advance(p) \/ CatchUpDone(p) \/ Crash(p)
      PROVE  \A q \in Procs : CountedHaveRows(q)'
  <2>1. \A q \in Procs \ {p} : seen'[q] = seen[q] /\ job'[q] = job[q] /\ mode'[q] = mode[q]
                                /\ (Unsaved(q) => Unsaved(q)')
    BY <1>7 DEF CatchUpNext, Advance, CatchUpDone, Up, Crash, Unsaved, At, TypeInv, StepsOK, RestOK,
                WorkOK
  <2>2. \A q \in Procs \ {p} : CountedHaveRows(q)'
    BY <2>1, CountedKeep
  <2>3. seen'[p] \subseteq seen[p] /\ (mode'[p] # "up" \/ job'[p] = None)
    BY <1>7 DEF CatchUpNext, Advance, CatchUpDone, Up, Crash, TypeInv, StepsOK, RestOK, WorkOK
  <2>4. CountedHaveRows(p)'
    BY <2>3, CountedKeep
  <2> QED
    BY <2>2, <2>4
<1>8. CASE UNCHANGED <<mode, job, seen, todo>>
  <2>1. \A q \in Procs : Unsaved(q) => Unsaved(q)'
    BY <1>8 DEF Unsaved, At
  <2> QED
    BY <1>8, <2>1, CountedKeep
<1> QED
  BY <1>1, <1>2, <1>3, <1>4, <1>5, <1>6, <1>7, <1>8
  DEF Next, Step, Swallowed, AdvanceFails, ArchiveDelete, ArchiveSave, vars

\* With no log a start has nothing to catch up with.
LEMMA LiveCountedStep ==
  ASSUME TypeInv, [Next]_vars, ~May("swallow"), ~May("crash"), NEW p \in Procs, env.procs = {p},
         LiveAreCounted(p)
  PROVE  LiveAreCounted(p)'
<1>0. StepsOK /\ WorkOK /\ RowsOK /\ mode[p] \in {"down", "catchup", "up"}
  BY DEF TypeInv, StepsOK
<1>1. CASE EntityGet(p) \/ RelationSave(p) \/ Cascade(p) \/ Sever(p) \/ CatchUpNext(p)
  <2>1. UNCHANGED <<seqOf, archiving, ent, mode, pending, seen>>
        /\ (mode[p] = "up" => job' = job)
    BY <1>1 DEF EntityGet, RelationSave, Cascade, Sever, CatchUpNext, dbVars
  <2> QED
    BY <2>1 DEF LiveAreCounted, LogSet, InLog, Live
<1>2. CASE EntitySave(p)
  <2>1. mode[p] = "up"
    BY <1>0, <1>2 DEF EntitySave, At, LiveAreCounted, StepsOK, ProcessOK, CatchUpLeft
  <2>2. /\ UNCHANGED <<mode, job, seen>> /\ job[p] # None
        /\ \A x \in Entities \ {job[p].entity} : ent'[x] = ent[x]
    BY <1>0, <1>2, EventsOK DEF EntitySave, At, WorkOK, RowsOK
  <2> QED
    BY <2>1, <2>2 DEF LiveAreCounted, Live
<1>3. CASE Tombstone(p)
  <2>1. mode[p] = "up"
    BY <1>0, <1>3 DEF Tombstone, At, LiveAreCounted, StepsOK, ProcessOK, CatchUpLeft
  <2>2. UNCHANGED <<mode, job, seen>>
    BY <1>3 DEF Tombstone
  <2>3. \A x \in Entities : ent'[x] = ent[x] \/ ~Live(ent'[x])
    BY <1>0, <1>3 DEF Tombstone, Live, RowsOK, Row
  <2>4. \A x \in Entities : Live(ent'[x]) => Live(ent[x])
    BY <2>3
  <2>5. \A x \in Entities : Live(ent[x])' <=> Live(ent'[x])
    BY DEF Live
  <2> QED
    BY <2>1, <2>2, <2>4, <2>5 DEF LiveAreCounted
<1>4. ASSUME NEW e \in Events, Process(p, e)
      PROVE  LiveAreCounted(p)'
  <2>1. mode[p] = "up" /\ job[p] = None /\ UNCHANGED <<mode, ent, seen>>
    BY <1>4 DEF Process
  <2> QED
    BY <2>1 DEF LiveAreCounted, Live
<1>5. CASE ProcessDone(p)
  <2>1. mode[p] = "up" /\ UNCHANGED <<mode, ent>> /\ seen'[p] = seen[p] \cup {job[p].entity}
    BY <1>5 DEF ProcessDone, dbVars, TypeInv, RestOK
  <2> QED
    BY <2>1 DEF LiveAreCounted, Live
<1>6. CASE Start(p)
  <2>1. /\ mode[p] = "down" /\ mode'[p] = "catchup" /\ pending'[p] = IterAfterSeq(ckpt)
        /\ UNCHANGED <<seqOf, archiving, ent>>
    BY <1>0, <1>6 DEF Start, dbVars, WorkOK, StepsOK
  <2>2. LogSet = {} /\ LogSet' = LogSet
    BY <2>1 DEF LiveAreCounted, LogSet, InLog
  <2>3. IterAfterSeq(ckpt) = {}
    BY <2>2 DEF IterAfterSeq
  <2> QED
    BY <2>1, <2>2, <2>3 DEF LiveAreCounted
<1>7. CASE Advance(p)
  BY <1>0, <1>7, AdvanceIsCatchUp DEF Advance, LiveAreCounted
<1>8. CASE CatchUpDone(p)
  <2>1. mode[p] = "catchup" /\ mode'[p] = "up" /\ ent' = ent
    BY <1>0, <1>8 DEF CatchUpDone, Up, dbVars, StepsOK
  <2> QED
    BY <2>1 DEF LiveAreCounted, Live
<1>9. CASE ArchiveSave \/ \E e \in Events : ArchiveDelete(e)
  <2>1. mode[p] = "up" /\ UNCHANGED <<mode, ent, seen, job>>
    BY <1>9 DEF ArchiveSave, ArchiveDelete, LiveAreCounted, LogSet
  <2> QED
    BY <2>1 DEF LiveAreCounted, Live
<1>10. CASE UNCHANGED vars
  BY <1>10 DEF vars, LiveAreCounted, LogSet, InLog, Live
<1> QED
  <2>1. \/ \E q \in Procs : Step(q) \/ Swallowed(q) \/ AdvanceFails(q) \/ Crash(q)
        \/ \E q \in Procs, e \in Events : Process(q, e)
        \/ ArchiveSave \/ \E e \in Events : ArchiveDelete(e)
        \/ UNCHANGED vars
    BY DEF Next
  <2>2. \/ Step(p) \/ Swallowed(p) \/ AdvanceFails(p) \/ Crash(p)
        \/ \E e \in Events : Process(p, e)
        \/ ArchiveSave \/ \E e \in Events : ArchiveDelete(e)
        \/ UNCHANGED vars
    BY <1>0, <2>1, AloneMoves
  <2> QED
    BY <2>2, <1>1, <1>2, <1>3, <1>4, <1>5, <1>6, <1>7, <1>8, <1>9, <1>10
    DEF Step, Swallowed, AdvanceFails, Crash

LEMMA CountStep ==
  ASSUME TypeInv, CountOK, [Next]_vars
  PROVE  CountOK'
<1>1. env' = env
  BY EnvStays
<1> SUFFICES ASSUME Without({"swallow"})
             PROVE  \A p \in Procs :
                      /\ CountedHaveRows(p)'
                      /\ Without({"crash"}) /\ env.procs = {p} => LiveAreCounted(p)'
  BY <1>1 DEF CountOK, Without
<1>2. ~May("swallow") /\ (Without({"crash"}) => ~May("crash"))
  BY DEF Without, May
<1> QED
  BY <1>2, CountedStep, LiveCountedStep DEF CountOK

\* The count of entities is true: without swallowed failures, between events it counts only
\* entities with a row, and without crashes every live one.
THEOREM CountStaysTrue == Spec => []CountIsTrue
<1>1. Init => CountOK
  BY EventsOK
  DEF Init, CountOK, CountedHaveRows, LiveAreCounted, LogSet, InLog
<1>2. TypeInv /\ CountOK => CountIsTrue
  BY DEF CountOK, CountedHaveRows, LiveAreCounted, CountIsTrue, Alone, Unsaved, At, TypeInv, StepsOK,
         ProcessOK, RestOK
<1> QED
  BY <1>1, <1>2, CountStep, TypeInvHolds, PTL DEF Spec

(***************************************************************************)
(* Relations of removed entities.                                          *)
(***************************************************************************)
Establishes(e, r) == e.kind # "sever" /\ e.target # None /\ Relation(e) = r

\* An ACTIVE relation was established after every removal of one of its ends, but for
\* the removal that is under way.
RelationsOK(p) ==
  \A r \in Relations : rel[r] = "ACTIVE" =>
    \E e \in LogSet : Establishes(e, r) /\
      \A f \in LogSet : f.kind = "remove" /\ f.entity \in {r[1], r[2]} =>
        (f = job[p] /\ todo[p] # <<>>) \/ seqOf[f] < seqOf[e]

\* The event at hand is the last of the log.
AtHandIsLast(p) ==
  mode[p] = "up" /\ job[p] # None =>
    job[p] \in LogSet /\ \A e \in LogSet : seqOf[e] <= seqOf[job[p]]

CascadeOK ==
  Without(Faults) =>
    \A p \in Procs : env.procs = {p} =>
      /\ archiving = None
      /\ mode[p] # "up" => LogSet = {} /\ pending[p] = {}
      /\ AtHandIsLast(p)
      /\ RelationsOK(p)

\* The relations stay as they are, or fewer are ACTIVE, and a removal that is under way
\* stays under way.
LEMMA RelationsKeep ==
  ASSUME NEW p \in Procs, RelationsOK(p), seqOf' = seqOf,
         \A r \in Relations : rel'[r] = "ACTIVE" => rel[r] = "ACTIVE",
         \A f \in Events : f = job[p] /\ f.kind = "remove" /\ todo[p] # <<>> =>
           \/ f = job'[p] /\ todo'[p] # <<>>
           \/ \A r \in Relations : rel'[r] = "ACTIVE" => f.entity \notin {r[1], r[2]}
  PROVE  RelationsOK(p)'
<1>1. LogSet' = LogSet /\ LogSet \subseteq Events
  BY DEF LogSet, InLog
<1> SUFFICES ASSUME NEW r \in Relations, rel'[r] = "ACTIVE"
             PROVE  \E e \in LogSet : Establishes(e, r) /\
                      \A f \in LogSet : f.kind = "remove" /\ f.entity \in {r[1], r[2]} =>
                        (f = job'[p] /\ todo'[p] # <<>>) \/ seqOf[f] < seqOf[e]
  BY <1>1 DEF RelationsOK
<1>2. rel[r] = "ACTIVE"
  OBVIOUS
<1>3. PICK e \in LogSet : Establishes(e, r) /\
        \A f \in LogSet : f.kind = "remove" /\ f.entity \in {r[1], r[2]} =>
          (f = job[p] /\ todo[p] # <<>>) \/ seqOf[f] < seqOf[e]
  BY <1>2 DEF RelationsOK
<1>4. ASSUME NEW f \in LogSet, f.kind = "remove", f.entity \in {r[1], r[2]}
      PROVE  (f = job'[p] /\ todo'[p] # <<>>) \/ seqOf[f] < seqOf[e]
  <2>1. (f = job[p] /\ todo[p] # <<>>) \/ seqOf[f] < seqOf[e]
    BY <1>3, <1>4
  <2>2. ASSUME f = job[p], todo[p] # <<>>
        PROVE  f = job'[p] /\ todo'[p] # <<>>
    <3>1. f \in Events
      BY <1>1
    <3>2. \/ f = job'[p] /\ todo'[p] # <<>>
          \/ \A q \in Relations : rel'[q] = "ACTIVE" => f.entity \notin {q[1], q[2]}
      BY <1>4, <2>2, <3>1
    <3> QED
      BY <1>4, <3>2
  <2> QED
    BY <2>1, <2>2
<1> QED
  BY <1>3, <1>4

\* Before the cascade of a removal there is always another step.
LEMMA CascadeIsLast ==
  ASSUME WorkOK, StepsOK, NEW p \in Procs, mode[p] = "up", Done(p, 1), todo[p] # <<>>,
         todo[p][1] # "cascade", job[p].kind = "remove"
  PROVE  todo'[p] # <<>>
<1> DEFINE s == todo[p]
           t == SubSeq(s, 1 + 1, Len(s))
<1>1. s \in Seq(StepNames) /\ s # <<>> /\ s[1] # "cascade" /\ s[Len(s)] = "cascade" /\ todo'[p] = t
  BY DEF Done, WorkOK, StepsOK, ProcessOK, HotLeft
<1>2. Len(s) # 1 /\ Len(s) # 0 /\ Len(s) \in Nat
  BY <1>1
<1>3. Len(t) = IF 1 < Len(s) THEN Len(s) - 1 ELSE 0
  BY <1>1, Drop
<1>4. \A n \in Nat : n \notin {0, 1} => (IF 1 < n THEN n - 1 ELSE 0) # 0
  OBVIOUS
<1>5. Len(t) # 0
  BY <1>2, <1>3, <1>4
<1>6. Len(<<>>) = 0
  OBVIOUS
<1> HIDE DEF s, t
<1> QED
  BY <1>1, <1>5, <1>6

LEMMA CascadeStep ==
  ASSUME TypeInv, CascadeOK, [Next]_vars
  PROVE  CascadeOK'
<1>0. env' = env
  BY EnvStays
<1> SUFFICES ASSUME Without(Faults), NEW p \in Procs, env.procs = {p}
             PROVE  /\ archiving' = None
                    /\ mode'[p] # "up" => LogSet' = {} /\ pending'[p] = {}
                    /\ AtHandIsLast(p)'
                    /\ RelationsOK(p)'
  BY <1>0 DEF CascadeOK, Without
<1>1. ~May("swallow") /\ ~May("crash") /\ ~May("archive") /\ ~May("repeat")
  BY DEF Without, May, Faults
<1>2. /\ archiving = None
      /\ mode[p] # "up" => LogSet = {} /\ pending[p] = {}
      /\ AtHandIsLast(p) /\ RelationsOK(p)
  BY DEF CascadeOK
<1>3. StepsOK /\ WorkOK /\ RowsOK /\ LogOK /\ mode[p] \in {"down", "catchup", "up"}
  BY DEF TypeInv, StepsOK
<1>4. todo[p] # <<>> => mode[p] = "up" /\ job[p] \in Events /\ job[p] # None
  BY <1>2, <1>3, EventsOK DEF StepsOK, ProcessOK, CatchUpLeft, WorkOK
<1> DEFINE Goal == /\ archiving' = None
                   /\ mode'[p] # "up" => LogSet' = {} /\ pending'[p] = {}
                   /\ AtHandIsLast(p)'
                   /\ RelationsOK(p)'
<1>5. ASSUME UNCHANGED <<seqOf, archiving, mode, pending>>, job'[p] \in {job[p], None}, RelationsOK(p)'
      PROVE  Goal
  BY <1>2, <1>5 DEF AtHandIsLast, LogSet, InLog
<1>6. CASE EntityGet(p) \/ EntitySave(p) \/ Tombstone(p) \/ Sever(p)
  <2>1. /\ UNCHANGED <<seqOf, archiving, mode, pending, job>> /\ Done(p, 1)
        /\ todo[p] # <<>> /\ todo[p][1] # "cascade"
    BY <1>6 DEF EntityGet, EntitySave, Tombstone, Sever, At, dbVars
  <2>2. \A r \in Relations : rel'[r] = "ACTIVE" => rel[r] = "ACTIVE"
    BY <1>6 DEF EntityGet, EntitySave, Tombstone, Sever, Inactivate, dbVars
  <2>3. job[p].kind = "remove" => todo'[p] # <<>>
    BY <1>3, <1>4, <2>1, CascadeIsLast
  <2>4. RelationsOK(p)'
    BY <1>2, <2>1, <2>2, <2>3, RelationsKeep
  <2> QED
    BY <1>5, <2>1, <2>4
<1>7. CASE Cascade(p)
  <2>1. UNCHANGED <<seqOf, archiving, mode, pending, job>>
    BY <1>7 DEF Cascade
  <2>2. \A r \in Relations : rel'[r] = "ACTIVE" =>
          rel[r] = "ACTIVE" /\ job[p].entity \notin {r[1], r[2]}
    BY <1>7 DEF Cascade, Inactivate
  <2>3. RelationsOK(p)'
    BY <1>2, <2>1, <2>2, RelationsKeep
  <2> QED
    BY <1>5, <2>1, <2>3
<1>8. CASE RelationSave(p)
  <2>1. /\ UNCHANGED <<seqOf, archiving, mode, pending, job>> /\ Done(p, 1)
        /\ todo[p] # <<>> /\ todo[p][1] = "relation"
    BY <1>8 DEF RelationSave, At
  <2>2. job[p].kind = "remove" => todo'[p] # <<>>
    BY <1>3, <1>4, <2>1, CascadeIsLast
  <2>3. job[p].kind # "sever"
    <3>1. 1 \in 1 .. Len(todo[p])
      BY <1>3, <2>1 DEF StepsOK, ProcessOK
    <3> QED
      BY <1>3, <1>4, <2>1, <3>1 DEF StepsOK, ProcessOK, HotLeft
  <2>4. job[p] \in LogSet /\ \A e \in LogSet : seqOf[e] <= seqOf[job[p]]
    BY <1>2, <1>4, <2>1 DEF AtHandIsLast
  <2>5. RelationsOK(p)'
    <3> SUFFICES ASSUME NEW r \in Relations, rel'[r] = "ACTIVE"
                 PROVE  \E e \in LogSet : Establishes(e, r) /\
                          \A f \in LogSet : f.kind = "remove" /\ f.entity \in {r[1], r[2]} =>
                            (f = job[p] /\ todo'[p] # <<>>) \/ seqOf[f] < seqOf[e]
      BY <2>1 DEF RelationsOK, LogSet, InLog
    <3>1. CASE rel[r] = "ACTIVE"
      BY <1>2, <2>2, <3>1 DEF RelationsOK
    <3>2. CASE rel[r] # "ACTIVE"
      <4>1. r = Relation(job[p])
        BY <1>3, <1>8, <3>2 DEF RelationSave, RowsOK
      <4>2. job[p].target # None
        BY <4>1 DEF Relations, Relation
      <4>3. \A f \in LogSet : f # job[p] => seqOf[f] < seqOf[job[p]]
        BY <1>3, <2>4 DEF LogOK, SeqsAreUnique, LogSet
      <4> QED
        BY <2>2, <2>3, <2>4, <4>1, <4>2, <4>3 DEF Establishes
    <3> QED
      BY <3>1, <3>2
  <2> QED
    BY <1>5, <2>1, <2>5
<1>9. ASSUME NEW e \in Events, Process(p, e)
      PROVE  Goal
  <2>1. /\ seqOf' = [seqOf EXCEPT ![e] = MaxSeq + 1] /\ ~InLog(e)
        /\ UNCHANGED <<archiving, mode, rel>> /\ mode[p] = "up" /\ job[p] = None
        /\ job'[p] = e /\ todo'[p] = HotSteps(e)
    BY <1>1, <1>3, <1>9 DEF Process, Commit, WorkOK
  <2>2. /\ LogSet' = LogSet \cup {e}
        /\ \A f \in LogSet : seqOf'[f] = seqOf[f] /\ seqOf'[f] < seqOf'[e]
        /\ \A f \in LogSet : seqOf[f] \in Nat /\ f \in Events
        /\ seqOf'[e] \in Nat
    <3>1. seqOf[e] = 0
      BY <1>3, <2>1 DEF InLog, LogOK
    <3>2. MaxSeq \in Nat
      BY <1>3, MaxSeqIs
    <3> HIDE DEF MaxSeq
    <3>3. seqOf'[e] = MaxSeq + 1 /\ LogSet' = LogSet \cup {e}
          /\ \A f \in LogSet : seqOf'[f] = seqOf[f] /\ seqOf'[f] < seqOf'[e]
      BY <1>3, <2>1, <3>1, NewSeqIsLast
    <3>4. \A f \in LogSet : f \in Events /\ seqOf[f] \in Nat
      BY <1>3 DEF LogOK, LogSet
    <3>5. seqOf'[e] \in Nat
      BY <3>2, <3>3
    <3> QED
      BY <3>3, <3>4, <3>5
  <2>3. AtHandIsLast(p)'
    BY <2>1, <2>2 DEF AtHandIsLast
  <2>4. RelationsOK(p)'
    <3> SUFFICES ASSUME NEW r \in Relations, rel[r] = "ACTIVE"
                 PROVE  \E g \in LogSet' : Establishes(g, r) /\
                          \A f \in LogSet' : f.kind = "remove" /\ f.entity \in {r[1], r[2]} =>
                            (f = job'[p] /\ todo'[p] # <<>>) \/ seqOf'[f] < seqOf'[g]
      BY <2>1, LogSet' = LogSet' DEF RelationsOK
    <3>1. PICK g \in LogSet : Establishes(g, r) /\
            \A f \in LogSet : f.kind = "remove" /\ f.entity \in {r[1], r[2]} =>
              (f = job[p] /\ todo[p] # <<>>) \/ seqOf[f] < seqOf[g]
      BY <1>2 DEF RelationsOK
    <3>2. \A f \in LogSet : f # job[p]
      BY <2>1, <2>2, EventsOK
    <3>3. todo'[p] # <<>>
      BY <2>1, HotStepsAre
    <3> QED
      BY <2>1, <2>2, <3>1, <3>2, <3>3
  <2> QED
    BY <1>2, <2>1, <2>3, <2>4
<1>10. CASE ProcessDone(p)
  <2>1. UNCHANGED <<seqOf, archiving, mode, pending, rel, todo>> /\ todo[p] = <<>> /\ job'[p] = None
    BY <1>3, <1>10 DEF ProcessDone, dbVars, WorkOK
  <2>2. RelationsOK(p)'
    BY <1>2, <2>1, RelationsKeep
  <2> QED
    BY <1>5, <2>1, <2>2
<1>11. CASE Start(p)
  <2>1. /\ mode[p] = "down" /\ mode'[p] = "catchup" /\ pending'[p] = IterAfterSeq(ckpt)
        /\ UNCHANGED <<seqOf, archiving, rel, todo, job>> /\ todo[p] = <<>>
    BY <1>3, <1>11 DEF Start, dbVars, WorkOK, StepsOK, ProcessOK
  <2>2. LogSet' = {} /\ IterAfterSeq(ckpt) = {}
    BY <1>2, <2>1 DEF IterAfterSeq, LogSet, InLog
  <2>3. RelationsOK(p)'
    BY <1>2, <2>1, RelationsKeep
  <2> QED
    BY <1>2, <2>1, <2>2, <2>3 DEF AtHandIsLast
<1>12. CASE Advance(p) \/ CatchUpNext(p)
  BY <1>2, <1>3, <1>12, AdvanceIsCatchUp DEF Advance, CatchUpNext
<1>13. CASE CatchUpDone(p)
  <2>1. /\ mode[p] = "catchup" /\ mode'[p] = "up" /\ job'[p] = None /\ todo[p] = <<>>
        /\ UNCHANGED <<seqOf, archiving, rel>>
    BY <1>3, <1>13 DEF CatchUpDone, Up, dbVars, WorkOK, StepsOK
  <2>2. RelationsOK(p)'
    BY <1>2, <2>1, RelationsKeep
  <2> QED
    BY <1>2, <2>1, <2>2 DEF AtHandIsLast
<1>14. CASE UNCHANGED vars
  <2>1. RelationsOK(p)'
    BY <1>2, <1>14, RelationsKeep DEF vars
  <2> QED
    BY <1>5, <1>14, <2>1 DEF vars
<1> QED
  <2>1. \/ \E q \in Procs : Step(q) \/ Swallowed(q) \/ AdvanceFails(q) \/ Crash(q)
        \/ \E q \in Procs, e \in Events : Process(q, e)
        \/ ArchiveSave \/ \E e \in Events : ArchiveDelete(e)
        \/ UNCHANGED vars
    BY DEF Next
  <2>2. \/ Step(p) \/ Swallowed(p) \/ AdvanceFails(p) \/ Crash(p)
        \/ \E e \in Events : Process(p, e)
        \/ ArchiveSave \/ \E e \in Events : ArchiveDelete(e)
        \/ UNCHANGED vars
    BY <1>3, <2>1, AloneMoves
  <2> QED
    BY <1>1, <1>2, <2>2, <1>6, <1>7, <1>8, <1>9, <1>10, <1>11, <1>12, <1>13, <1>14
    DEF Step, Swallowed, AdvanceFails, Crash, ArchiveDelete, ArchiveSave

\* With one process and no faults removals cascade completely, between events, an ACTIVE
\* relation of a removed entity was established after its removal.
LEMMA CascadesAreComplete == Spec => []CascadeIsComplete
<1>1. Init => CascadeOK
  BY EventsOK DEF Init, CascadeOK, AtHandIsLast, RelationsOK, LogSet, InLog
<1>2. ASSUME TypeInv, CascadeOK
      PROVE  CascadeIsComplete
  <2> SUFFICES ASSUME Without(Faults), NEW p \in Procs, env.procs = {p}, mode[p] = "up", job[p] = None,
                      NEW r \in Relations, NEW x \in Entities, rel[r] = "ACTIVE", x \in {r[1], r[2]}
               PROVE  \E e \in LogSet : e.kind # "sever" /\ e.target # None /\ Relation(e) = r
                                         /\ \A f \in Removed(x) : seqOf[f] < seqOf[e]
    BY DEF CascadeIsComplete, Alone
  <2>1. PICK e \in LogSet : Establishes(e, r) /\
          \A f \in LogSet : f.kind = "remove" /\ f.entity \in {r[1], r[2]} =>
            (f = job[p] /\ todo[p] # <<>>) \/ seqOf[f] < seqOf[e]
    BY <1>2 DEF CascadeOK, RelationsOK
  <2>2. \A f \in LogSet : f # None
    BY EventsOK DEF LogSet
  <2> QED
    BY <2>1, <2>2 DEF Removed, Establishes
<1> QED
  BY <1>1, <1>2, CascadeStep, TypeInvHolds, PTL DEF Spec

(***************************************************************************)
(* The attributes of entities.                                             *)
(***************************************************************************)

\* Event e of the log is still to be saved, for the first time or once more, before p
\* turns to another event of its sources.
Waiting(p, e) ==
  \/ mode[p] = "down" /\ seqOf[e] > ckpt
  \/ mode[p] = "catchup" /\ <<seqOf[e], e>> \in pending[p] /\ ~(job[p] = e /\ At(p, "advance"))
  \/ mode[p] = "up" /\ job[p] = e /\ Unsaved(p)

\* A later event writes the same attribute.
Overwritten(e) ==
  \E f \in LogSet : f.entity = e.entity /\ f.key = e.key /\ seqOf[f] > seqOf[e]

\* The list of a catch-up is an end of the log behind the checkpoint, and so is an event
\* that is processed.
PendingIsEnd(p) ==
  mode[p] = "catchup" =>
    /\ \A x \in pending[p] :
         x[2] \in LogSet /\ x[1] = seqOf[x[2]] /\ x = <<x[1], x[2]>> /\ x[1] > ckpt
    /\ \A e \in LogSet, x \in pending[p] : x[1] <= seqOf[e] => <<seqOf[e], e>> \in pending[p]
JobIsEnd(p) == mode[p] = "up" /\ job[p] # None => seqOf[job[p]] > ckpt

\* An event of the log is what its attribute holds, unless it waits or is overwritten.
AttributesOK(p) ==
  /\ \A e \in LogSet : ent[e.entity] = None => Waiting(p, e)
  /\ \A e \in LogSet : Live(ent[e.entity]) =>
       ent[e.entity].attrs[e.key] = e \/ Waiting(p, e) \/ Overwritten(e)

\* An attribute holds an event that wrote it.
WritersOK ==
  \A x \in Entities, k \in Keys : Live(ent[x]) /\ ent[x].attrs[k] # None =>
    ent[x].attrs[k] \in LogSet /\ ent[x].attrs[k].entity = x /\ ent[x].attrs[k].key = k
ReadOK(p) ==
  At(p, "save") =>
    read[p] = IF Live(ent[job[p].entity]) THEN ent[job[p].entity] ELSE None

FoldOK ==
  Without({"repeat", "swallow", "archive"}) =>
    \A p \in Procs : env.procs = {p} =>
      PendingIsEnd(p) /\ AtHandIsLast(p) /\ JobIsEnd(p) /\ AttributesOK(p) /\ WritersOK /\ ReadOK(p)

\* After a step other than "get" the entity is no longer waiting to be saved.
LEMMA SavedStaysSaved ==
  ASSUME WorkOK, StepsOK, NEW p \in Procs, todo[p] # <<>>, todo[p][1] # "get", Done(p, 1)
  PROVE  ~Unsaved(p)'
<1> DEFINE s == todo[p]
           t == SubSeq(s, 1 + 1, Len(s))
<1>1. s \in Seq(StepNames) /\ InOrder(s) /\ s # <<>> /\ s[1] # "get" /\ todo'[p] = t
  BY DEF Done, WorkOK, StepsOK, ProcessOK
<1>2. /\ t \in Seq(StepNames)
      /\ \A i \in 1 .. Len(t) : i + 1 \in 1 .. Len(s) /\ t[i] = s[i + 1]
  BY <1>1, DropStep
<1>3. ASSUME t # <<>> PROVE t[1] \notin {"get", "save"}
  <2>1. 1 \in 1 .. Len(t) /\ 1 + 1 = 2
    BY <1>2, <1>3
  <2>2. 2 \in 1 .. Len(s) /\ t[1] = s[2]
    <3> HIDE DEF s, t
    <3> QED
      BY <1>2, <2>1
  <2>3. s[2] \notin {"get", "save"}
    <3> HIDE DEF s, t
    <3> QED
      BY <1>1, <2>2 DEF InOrder
  <2> QED
    BY <2>2, <2>3
<1> HIDE DEF s, t
<1> QED
  BY <1>1, <1>3 DEF Unsaved, At

\* Rows that stay, or are removed, keep what is said of the attributes, as long as what
\* waits goes on waiting.
LEMMA AttributesKeep ==
  ASSUME TypeInv, NEW p \in Procs, AttributesOK(p), WritersOK, seqOf' = seqOf,
         \A x \in Entities : ent'[x] = ent[x] \/ (ent'[x] # None /\ ~Live(ent'[x])),
         \A e \in LogSet : Waiting(p, e) => Waiting(p, e)'
  PROVE  AttributesOK(p)' /\ WritersOK'
<1>1. LogSet' = LogSet /\ \A e \in LogSet : e.entity \in Entities
  BY DEF LogSet, InLog, Entities
<1>2. \A x \in Entities : Live(ent[x])' <=> Live(ent'[x])
  BY DEF Live
<1>3. \A e \in LogSet : Overwritten(e) => Overwritten(e)'
  BY <1>1 DEF Overwritten
<1>4. \A x \in Entities : Live(ent'[x]) => ent'[x] = ent[x]
  OBVIOUS
<1>5. \A x \in Entities : ent'[x] = None => ent'[x] = ent[x]
  OBVIOUS
<1>6. ASSUME NEW e \in LogSet, ent'[e.entity] = None
      PROVE  Waiting(p, e)'
  BY <1>1, <1>5, <1>6 DEF AttributesOK
<1>7. ASSUME NEW e \in LogSet, Live(ent'[e.entity])
      PROVE  ent'[e.entity].attrs[e.key] = e \/ Waiting(p, e)' \/ Overwritten(e)'
  <2>1. ent'[e.entity] = ent[e.entity] /\ Live(ent[e.entity])
    BY <1>1, <1>4, <1>7
  <2> QED
    BY <1>3, <2>1 DEF AttributesOK
<1>8. AttributesOK(p)'
  BY <1>1, <1>2, <1>6, <1>7 DEF AttributesOK
<1>9. WritersOK'
  <2> SUFFICES ASSUME NEW x \in Entities, NEW k \in Keys, Live(ent'[x]), ent'[x].attrs[k] # None
               PROVE  /\ ent'[x].attrs[k] \in LogSet /\ ent'[x].attrs[k].entity = x
                      /\ ent'[x].attrs[k].key = k
    BY <1>1, <1>2 DEF WritersOK
  <2>1. ent'[x] = ent[x] /\ Live(ent[x])
    BY <1>4
  <2> QED
    BY <2>1 DEF WritersOK
<1> QED
  BY <1>8, <1>9

\* Saving an event makes it the value of its attribute; the later ones still wait.
LEMMA AttributesSaved ==
  ASSUME TypeInv, NEW p \in Procs, PendingIsEnd(p), AtHandIsLast(p), AttributesOK(p), WritersOK,
         ReadOK(p), EntitySave(p)
  PROVE  AttributesOK(p)' /\ WritersOK'
<1> DEFINE e == job[p]
           x == e.entity
<1>1. /\ UNCHANGED <<seqOf, mode, job, pending, ckpt>> /\ LogSet' = LogSet
      /\ \A f \in LogSet : f \in Events /\ f.entity \in Entities /\ f.key \in Keys /\ seqOf[f] \in Nat
      /\ WorkOK /\ StepsOK /\ RowsOK /\ mode[p] \in {"down", "catchup", "up"}
      /\ todo[p] # <<>> /\ todo[p][1] = "save" /\ At(p, "save")
  BY DEF EntitySave, TypeInv, StepsOK, LogOK, LogSet, InLog, Entities, Keys, At
<1>2. e \in Events /\ x \in Entities /\ e.key \in Keys /\ mode[p] # "down"
      /\ ent'[x] # None /\ Merged(p, e) \in [Keys -> Events \cup {None}]
  BY <1>1, SaveLeavesRow DEF StepsOK, ProcessOK
<1>3. /\ e \in LogSet
      /\ mode[p] = "catchup" =>
           \A f \in LogSet : seqOf[e] <= seqOf[f] => <<seqOf[f], f>> \in pending[p]
      /\ mode[p] = "up" => \A f \in LogSet : seqOf[f] <= seqOf[e]
  <2>1. CASE mode[p] = "catchup"
    <3>1. PICK y \in pending[p] : y[2] = e
      BY <1>1, <2>1 DEF StepsOK, ProcessOK, CatchUpLeft
    <3> QED
      BY <2>1, <3>1 DEF PendingIsEnd
  <2>2. CASE mode[p] = "up"
    BY <1>2, <2>2, EventsOK DEF AtHandIsLast
  <2> QED
    BY <1>1, <1>2, <2>1, <2>2
<1>4. \A f \in LogSet : Waiting(p, f) /\ f # e => Waiting(p, f)'
  BY <1>1, <1>2 DEF Waiting
<1>5. \A f \in LogSet : f # e /\ f.entity = e.entity /\ f.key = e.key =>
        Waiting(p, f)' \/ Overwritten(f)'
  <2> SUFFICES ASSUME NEW f \in LogSet, f # e, f.entity = e.entity, f.key = e.key
               PROVE  Waiting(p, f)' \/ Overwritten(f)'
    OBVIOUS
  <2>1. seqOf[f] # seqOf[e] /\ seqOf[f] \in Nat /\ seqOf[e] \in Nat
    BY <1>1, <1>3 DEF TypeInv, LogOK, SeqsAreUnique
  <2>2. CASE seqOf[f] < seqOf[e]
    BY <1>1, <1>3, <2>1, <2>2 DEF Overwritten
  <2>3. CASE seqOf[e] < seqOf[f]
    <3>1. mode[p] = "catchup" /\ <<seqOf[f], f>> \in pending[p]
      BY <1>1, <1>2, <1>3, <2>1, <2>3
    <3> QED
      BY <1>1, <3>1 DEF Waiting
  <2> QED
    BY <2>1, <2>2, <2>3
<1>6. /\ \A y \in Entities \ {x} : ent'[y] = ent[y]
      /\ ent'[x].attrs = Merged(p, e)
      /\ Live(ent'[x]) => ent[x] = None \/ Live(ent[x])
  BY <1>1, <1>2 DEF EntitySave, RowsOK, Live
<1>7. /\ Merged(p, e)[e.key] = e
      /\ ent[x] = None => \A k \in Keys \ {e.key} : Merged(p, e)[k] = None
      /\ Live(ent[x]) => \A k \in Keys \ {e.key} : Merged(p, e)[k] = ent[x].attrs[k]
  <2>1. read[p] = IF Live(ent[x]) THEN ent[x] ELSE None
    BY <1>1 DEF ReadOK
  <2>2. CASE Live(ent[x])
    <3>1. read[p] = ent[x] /\ read[p] # None /\ ent[x].attrs \in [Keys -> Events \cup {None}]
      BY <1>1, <1>2, <2>1, <2>2 DEF Live, RowsOK, Row
    <3> QED
      BY <1>2, <2>2, <3>1 DEF Merged, Live
  <2>3. CASE ~Live(ent[x])
    BY <1>2, <2>1, <2>3 DEF Merged
  <2> QED
    BY <2>2, <2>3
<1>8. /\ \A y \in Entities : Live(ent[y])' <=> Live(ent'[y])
      /\ \A f \in LogSet : Overwritten(f)' <=> Overwritten(f)
  BY <1>1 DEF Live, Overwritten
<1> HIDE DEF e, x
<1>9. ASSUME NEW f \in LogSet, ent'[f.entity] = None
      PROVE  Waiting(p, f)'
  <2>1. f.entity # x /\ f # e
    BY <1>2, <1>9 DEF x
  <2> QED
    BY <1>1, <1>4, <1>6, <1>9, <2>1 DEF AttributesOK
<1>10. ASSUME NEW f \in LogSet, Live(ent'[f.entity])
       PROVE  ent'[f.entity].attrs[f.key] = f \/ Waiting(p, f)' \/ Overwritten(f)'
  <2>1. CASE f.entity # x
    <3>1. f # e /\ ent'[f.entity] = ent[f.entity]
      BY <1>1, <1>6, <2>1 DEF x
    <3> QED
      BY <1>4, <1>8, <1>10, <3>1 DEF AttributesOK
  <2>2. CASE f.entity = x /\ f.key = e.key
    <3>1. CASE f = e
      BY <1>6, <1>7, <2>2, <3>1
    <3>2. CASE f # e
      BY <1>5, <2>2, <3>2 DEF x
    <3> QED
      BY <3>1, <3>2
  <2>3. CASE f.entity = x /\ f.key # e.key
    <3>1. f # e /\ f.key \in Keys \ {e.key}
      BY <1>1, <2>3
    <3>2. CASE ent[x] = None
      BY <1>4, <2>3, <3>1, <3>2 DEF AttributesOK
    <3>3. CASE Live(ent[x])
      <4>1. ent'[x].attrs[f.key] = ent[x].attrs[f.key]
        BY <1>6, <1>7, <3>1, <3>3
      <4> QED
        BY <1>4, <1>8, <2>3, <3>1, <3>3, <4>1 DEF AttributesOK
    <3> QED
      BY <1>6, <1>10, <2>3, <3>2, <3>3
  <2> QED
    BY <2>1, <2>2, <2>3
<1>11. AttributesOK(p)'
  BY <1>1, <1>8, <1>9, <1>10 DEF AttributesOK
<1>12. WritersOK'
  <2> SUFFICES ASSUME NEW y \in Entities, NEW k \in Keys, Live(ent'[y]), ent'[y].attrs[k] # None
               PROVE  /\ ent'[y].attrs[k] \in LogSet /\ ent'[y].attrs[k].entity = y
                      /\ ent'[y].attrs[k].key = k
    BY <1>1, <1>8 DEF WritersOK
  <2>1. CASE y # x
    BY <1>6, <2>1 DEF WritersOK
  <2>2. CASE y = x /\ k = e.key
    BY <1>3, <1>6, <1>7, <2>2 DEF x
  <2>3. CASE y = x /\ k # e.key
    <3>1. Live(ent[x]) /\ ent'[x].attrs[k] = ent[x].attrs[k]
      BY <1>6, <1>7, <2>3
    <3> QED
      BY <2>3, <3>1 DEF WritersOK
  <2> QED
    BY <2>1, <2>2, <2>3
<1> QED
  BY <1>11, <1>12

LEMMA FoldStep ==
  ASSUME TypeInv, TypeInv', RecoveryOK, FoldOK, [Next]_vars
  PROVE  FoldOK'
<1>0. env' = env
  BY EnvStays
<1> SUFFICES ASSUME Without({"repeat", "swallow", "archive"}), NEW p \in Procs, env.procs = {p}
             PROVE  /\ PendingIsEnd(p)' /\ AtHandIsLast(p)' /\ JobIsEnd(p)'
                    /\ AttributesOK(p)' /\ WritersOK' /\ ReadOK(p)'
  BY <1>0 DEF FoldOK, Without
<1>1. /\ ~May("swallow") /\ ~May("archive") /\ ~May("repeat")
      /\ archiving = None /\ (ckpt = 0 \/ \E e \in LogSet : ckpt <= seqOf[e])
  BY DEF Without, May, RecoveryOK, LogIsWhole
<1>2. /\ PendingIsEnd(p) /\ AtHandIsLast(p) /\ JobIsEnd(p)
      /\ AttributesOK(p) /\ WritersOK /\ ReadOK(p)
  BY DEF FoldOK
<1>3. /\ StepsOK /\ WorkOK /\ RowsOK /\ LogOK /\ mode[p] \in {"down", "catchup", "up"} /\ ckpt \in Nat
      /\ StepsOK' /\ ProcessOK(p)
      /\ \A e \in LogSet : e \in Events /\ e # None /\ e.entity \in Entities /\ seqOf[e] \in Nat
  BY EventsOK DEF TypeInv, RestOK, StepsOK, LogOK, LogSet, Entities
<1> DEFINE Goal == /\ PendingIsEnd(p)' /\ AtHandIsLast(p)' /\ JobIsEnd(p)'
                   /\ AttributesOK(p)' /\ WritersOK' /\ ReadOK(p)'
<1>4. ASSUME UNCHANGED <<seqOf, ckpt, mode, pending>>, job'[p] \in {job[p], None}
      PROVE  PendingIsEnd(p)' /\ AtHandIsLast(p)' /\ JobIsEnd(p)' /\ LogSet' = LogSet
  BY <1>2, <1>4 DEF PendingIsEnd, AtHandIsLast, JobIsEnd, LogSet, InLog
<1>5. CASE EntityGet(p)
  <2>1. /\ UNCHANGED <<seqOf, ckpt, mode, pending, job, ent>> /\ Done(p, 1)
        /\ At(p, "get") /\ todo[p] # <<>> /\ todo[p][1] = "get"
    BY <1>5 DEF EntityGet, At, dbVars
  <2>2. At(p, "save")' /\ ~At(p, "advance")'
    <3>1. At(p, "save")'
      BY <1>3, <2>1, SaveFollowsGet
    <3> QED
      BY <3>1 DEF At
  <2>3. \A e \in LogSet : Waiting(p, e) => Waiting(p, e)'
    BY <2>1, <2>2 DEF Waiting, Unsaved
  <2>4. ReadOK(p)'
    BY <1>3, <1>5, <2>1 DEF ReadOK, EntityGet, RowsOK, Live
  <2> QED
    BY <1>2, <1>4, <2>1, <2>3, <2>4, AttributesKeep
<1>6. CASE EntitySave(p)
  <2>1. UNCHANGED <<seqOf, ckpt, mode, pending, job>> /\ Done(p, 1) /\ todo[p] # <<>> /\ todo[p][1] = "save"
    BY <1>6 DEF EntitySave, At
  <2>2. ~At(p, "save")'
    BY <1>3, <2>1, SavedStaysSaved DEF Unsaved
  <2> QED
    BY <1>2, <1>4, <1>6, <2>1, <2>2, AttributesSaved DEF ReadOK
<1>7. CASE RelationSave(p) \/ Tombstone(p) \/ Cascade(p) \/ Sever(p)
  <2>1. /\ UNCHANGED <<seqOf, ckpt, mode, pending, job>> /\ Done(p, 1)
        /\ todo[p] # <<>> /\ todo[p][1] \notin {"get", "save", "advance"}
    BY <1>7 DEF RelationSave, Tombstone, Cascade, Sever, At
  <2>2. mode[p] = "up" /\ ~Unsaved(p) /\ ~Unsaved(p)'
    BY <1>3, <2>1, HotStepIsUp, SavedStaysSaved DEF Unsaved, At
  <2>3. \A x \in Entities : ent'[x] = ent[x] \/ (ent'[x] # None /\ ~Live(ent'[x]))
    <3>1. CASE Tombstone(p)
      <4>1. \A x \in Entities : ent'[x] = ent[x] \/ ~Live(ent'[x])
        BY <1>3, <3>1 DEF Tombstone, Live, RowsOK, Row
      <4>2. \A x \in Entities : ent'[x] = ent[x] \/ ent[x] # None
        BY <1>3, <3>1 DEF Tombstone, Live, RowsOK
      <4> QED
        BY <1>3, <4>1, <4>2, TerminalStep
    <3>2. CASE RelationSave(p) \/ Cascade(p) \/ Sever(p)
      BY <3>2 DEF RelationSave, Cascade, Sever
    <3> QED
      BY <1>7, <3>1, <3>2
  <2>4. \A e \in LogSet : Waiting(p, e) => Waiting(p, e)'
    BY <2>1, <2>2 DEF Waiting
  <2>5. ReadOK(p)'
    BY <2>2 DEF ReadOK, Unsaved
  <2> QED
    BY <1>2, <1>4, <2>1, <2>3, <2>4, <2>5, AttributesKeep
<1>8. ASSUME NEW e \in Events, Process(p, e)
      PROVE  Goal
  <2>1. /\ seqOf' = [seqOf EXCEPT ![e] = MaxSeq + 1] /\ seqOf[e] = 0
        /\ UNCHANGED <<ckpt, mode, ent, pending>> /\ mode[p] = "up" /\ job[p] = None
        /\ job'[p] = e /\ todo'[p] = HotSteps(e)
    BY <1>1, <1>3, <1>8 DEF Process, Commit, WorkOK, InLog, LogOK
  <2>2. MaxSeq \in Nat /\ \A f \in Events : seqOf[f] <= MaxSeq
    BY <1>3, MaxSeqIs
  <2>3. /\ seqOf'[e] = MaxSeq + 1 /\ LogSet' = LogSet \cup {e}
        /\ \A f \in LogSet : seqOf'[f] = seqOf[f] /\ seqOf'[f] < seqOf'[e]
    BY <1>3, <2>1, NewSeqIsLast
  <2> HIDE DEF MaxSeq
  <2>4. ckpt <= MaxSeq
    BY <1>1, <1>3, <2>2
  <2>5. JobIsEnd(p)' /\ PendingIsEnd(p)'
    BY <1>3, <2>1, <2>2, <2>3, <2>4 DEF JobIsEnd, PendingIsEnd
  <2>6. AtHandIsLast(p)'
    <3>1. \A f \in LogSet' : seqOf'[f] <= seqOf'[e]
      BY <1>3, <2>2, <2>3
    <3> QED
      BY <2>1, <2>3, <3>1 DEF AtHandIsLast
  <2>7. Waiting(p, e)' /\ ~At(p, "save")'
    BY <2>1, HotStepsAre DEF Waiting, Unsaved, At
  <2>8. \A f \in LogSet : ~Waiting(p, f)
    BY <1>3, <2>1 DEF Waiting
  <2>9. \A f \in LogSet : Overwritten(f) => Overwritten(f)'
    BY <2>3 DEF Overwritten
  <2>10. \A x \in Entities : Live(ent[x])' <=> Live(ent[x])
    BY <2>1 DEF Live
  <2>11. \A f \in LogSet : /\ ent[f.entity] # None
                           /\ Live(ent[f.entity]) => ent[f.entity].attrs[f.key] = f \/ Overwritten(f)
    BY <1>2, <2>8 DEF AttributesOK
  <2>12. AttributesOK(p)'
    <3> SUFFICES ASSUME NEW f \in LogSet'
                 PROVE  /\ ent'[f.entity] = None => Waiting(p, f)'
                        /\ Live(ent[f.entity])' =>
                             ent'[f.entity].attrs[f.key] = f \/ Waiting(p, f)' \/ Overwritten(f)'
      BY DEF AttributesOK
    <3>1. CASE f = e
      BY <2>7, <3>1
    <3>2. CASE f \in LogSet
      BY <1>3, <2>1, <2>9, <2>10, <2>11, <3>2
    <3> QED
      BY <2>3, <3>1, <3>2
  <2>13. WritersOK'
    BY <1>2, <2>1, <2>3, <2>10 DEF WritersOK
  <2> QED
    BY <2>5, <2>6, <2>7, <2>12, <2>13 DEF ReadOK
<1>9. CASE ProcessDone(p)
  <2>1. /\ UNCHANGED <<seqOf, ckpt, mode, pending, ent, todo>> /\ job'[p] = None
        /\ mode[p] = "up" /\ todo[p] = <<>>
    BY <1>3, <1>9 DEF ProcessDone, dbVars, WorkOK
  <2>2. \A e \in LogSet : Waiting(p, e) => Waiting(p, e)'
    BY <2>1 DEF Waiting, Unsaved, At
  <2> QED
    BY <1>2, <1>4, <2>1, <2>2, AttributesKeep DEF ReadOK, At
<1>10. CASE Start(p)
  <2>1. /\ UNCHANGED <<seqOf, ckpt, ent, todo, job>> /\ mode[p] = "down" /\ mode'[p] = "catchup"
        /\ pending'[p] = IterAfterSeq(ckpt) /\ todo[p] = <<>> /\ job[p] = None /\ LogSet' = LogSet
    BY <1>3, <1>10 DEF Start, dbVars, WorkOK, StepsOK, ProcessOK, LogSet, InLog
  <2>2. \A x \in IterAfterSeq(ckpt) :
          x[2] \in LogSet /\ x[1] = seqOf[x[2]] /\ x = <<x[1], x[2]>> /\ x[1] > ckpt
    BY DEF IterAfterSeq
  <2>3. \A e \in LogSet : seqOf[e] > ckpt => <<seqOf[e], e>> \in IterAfterSeq(ckpt)
    BY DEF IterAfterSeq
  <2>4. \A e \in LogSet, x \in IterAfterSeq(ckpt) : x[1] <= seqOf[e] => <<seqOf[e], e>> \in IterAfterSeq(ckpt)
    <3> HIDE DEF IterAfterSeq
    <3>1. \A e \in LogSet, x \in IterAfterSeq(ckpt) : x[1] <= seqOf[e] => seqOf[e] > ckpt
      BY <1>3, <2>2
    <3> QED
      BY <2>3, <3>1
  <2>5. PendingIsEnd(p)' /\ AtHandIsLast(p)' /\ JobIsEnd(p)'
    BY <2>1, <2>2, <2>4 DEF PendingIsEnd, AtHandIsLast, JobIsEnd
  <2>6. \A e \in LogSet : Waiting(p, e) => Waiting(p, e)'
    BY <1>3, <2>1, <2>3 DEF Waiting
  <2> QED
    BY <1>2, <2>1, <2>5, <2>6, AttributesKeep DEF ReadOK, At
<1>11. CASE CatchUpNext(p)
  <2>1. /\ UNCHANGED <<seqOf, ckpt, mode, pending, ent>> /\ mode[p] = "catchup"
        /\ todo'[p] = CatchUpSteps /\ LogSet' = LogSet
    BY <1>3, <1>11 DEF CatchUpNext, dbVars, WorkOK, LogSet, InLog
  <2>2. ~At(p, "advance")' /\ ~At(p, "save")'
    BY <2>1, CatchUpStepsAre DEF At
  <2>3. \A e \in LogSet : Waiting(p, e) => Waiting(p, e)'
    BY <2>1, <2>2 DEF Waiting
  <2>4. PendingIsEnd(p)' /\ AtHandIsLast(p)' /\ JobIsEnd(p)'
    BY <1>2, <2>1 DEF PendingIsEnd, AtHandIsLast, JobIsEnd
  <2> QED
    BY <1>2, <2>1, <2>2, <2>3, <2>4, AttributesKeep DEF ReadOK
<1>12. CASE Advance(p)
  <2>1. PICK x \in pending[p] : IsOldest(x, pending[p]) /\ ckpt' = x[1]
                                /\ pending' = [pending EXCEPT ![p] = @ \ {x}]
    BY <1>12 DEF Advance
  <2>2. /\ UNCHANGED <<seqOf, mode, ent>> /\ mode[p] = "catchup" /\ At(p, "advance")
        /\ pending'[p] = pending[p] \ {x} /\ job'[p] = None /\ todo'[p] = <<>> /\ LogSet' = LogSet
    BY <1>3, <1>12, <2>1, AdvanceIsCatchUp DEF Advance, WorkOK, LogSet, InLog
  <2>3. PICK y \in pending[p] : IsOldest(y, pending[p]) /\ y[2] = job[p]
    BY <1>3, <2>2, AdvanceIsCatchUp
  <2>4. \A z \in pending[p] : z[2] \in LogSet /\ z[1] = seqOf[z[2]] /\ z[1] \in Nat
    BY <1>2, <1>3, <2>2 DEF PendingIsEnd
  <2>5. x[2] = job[p]
    <3>1. x[1] <= y[1] /\ y[1] <= x[1] /\ x[1] \in Nat /\ y[1] \in Nat
      BY <2>1, <2>3, <2>4 DEF IsOldest
    <3>2. seqOf[x[2]] = seqOf[y[2]]
      BY <2>4, <3>1
    <3> QED
      BY <1>3, <2>3, <2>4, <3>2 DEF LogOK, SeqsAreUnique
  <2>6. \A e \in LogSet : e # job[p] /\ <<seqOf[e], e>> \in pending[p] => <<seqOf[e], e>> \in pending'[p]
    BY <2>2, <2>5
  <2>7. \A e \in LogSet : Waiting(p, e) => Waiting(p, e)'
    BY <1>3, <2>2, <2>6 DEF Waiting
  <2>8. AtHandIsLast(p)' /\ JobIsEnd(p)' /\ ReadOK(p)'
    BY <2>2 DEF AtHandIsLast, JobIsEnd, ReadOK, At
  <2>9. \A z \in pending'[p] : z \in pending[p] /\ z[1] > ckpt'
    <3> SUFFICES ASSUME NEW z \in pending[p], z # x PROVE z[1] > ckpt'
      BY <2>2
    <3>1. x[1] <= z[1]
      BY <2>1 DEF IsOldest
    <3>2. x[1] # z[1]
      <4>1. x = <<x[1], x[2]>> /\ z = <<z[1], z[2]>>
        BY <1>2, <2>2 DEF PendingIsEnd
      <4> QED
        BY <1>3, <2>4, <4>1 DEF LogOK, SeqsAreUnique
    <3> QED
      BY <2>1, <2>2, <2>4, <3>1, <3>2
  <2>10. \A e \in LogSet, z \in pending'[p] : z[1] <= seqOf[e] => <<seqOf[e], e>> \in pending'[p]
    <3> SUFFICES ASSUME NEW e \in LogSet, NEW z \in pending'[p], z[1] <= seqOf[e]
                 PROVE  <<seqOf[e], e>> \in pending'[p]
      OBVIOUS
    <3>1. <<seqOf[e], e>> \in pending[p]
      BY <1>2, <2>2, <2>9 DEF PendingIsEnd
    <3>2. seqOf[e] # x[1]
      BY <1>3, <2>1, <2>4, <2>9
    <3>3. <<seqOf[e], e>> # x
      BY <3>2
    <3> QED
      BY <2>2, <3>1, <3>3
  <2>11. PendingIsEnd(p)'
    <3>1. \A z \in pending'[p] :
            z[2] \in LogSet' /\ z[1] = seqOf'[z[2]] /\ z = <<z[1], z[2]>> /\ z[1] > ckpt'
      BY <1>2, <2>2, <2>9 DEF PendingIsEnd
    <3> QED
      BY <2>2, <2>10, <3>1 DEF PendingIsEnd
  <2>12. AttributesOK(p)' /\ WritersOK'
    BY <1>2, <2>2, <2>7, AttributesKeep
  <2> QED
    BY <2>8, <2>11, <2>12
<1>13. CASE CatchUpDone(p)
  <2>1. /\ UNCHANGED <<seqOf, ckpt, ent>> /\ mode[p] = "catchup" /\ pending[p] = {}
        /\ mode'[p] = "up" /\ job'[p] = None /\ todo'[p] = <<>>
    BY <1>3, <1>13 DEF CatchUpDone, Up, dbVars, StepsOK, WorkOK
  <2>2. \A e \in LogSet : ~Waiting(p, e)
    BY <2>1 DEF Waiting
  <2> QED
    BY <1>2, <2>1, <2>2, AttributesKeep DEF PendingIsEnd, AtHandIsLast, JobIsEnd, ReadOK, At
<1>14. CASE Crash(p)
  <2>1. /\ UNCHANGED <<seqOf, ckpt, ent>> /\ mode[p] # "down" /\ mode'[p] = "down" /\ todo'[p] = <<>>
    BY <1>3, <1>14 DEF Crash, dbVars, StepsOK, WorkOK
  <2>2. \A e \in LogSet : Waiting(p, e) => seqOf[e] > ckpt
    BY <1>2, <1>3, <2>1 DEF Waiting, PendingIsEnd, JobIsEnd
  <2>3. \A e \in LogSet : Waiting(p, e) => Waiting(p, e)'
    BY <2>1, <2>2 DEF Waiting
  <2> QED
    BY <1>2, <2>1, <2>3, AttributesKeep DEF PendingIsEnd, AtHandIsLast, JobIsEnd, ReadOK, At
<1>15. CASE UNCHANGED vars
  <2>1. /\ UNCHANGED <<seqOf, ckpt, mode, pending, job, ent, todo, read>>
    BY <1>15 DEF vars
  <2>2. \A e \in LogSet : Waiting(p, e) => Waiting(p, e)'
    BY <2>1 DEF Waiting, Unsaved, At
  <2>3. ReadOK(p)'
    BY <1>2, <2>1 DEF ReadOK, At, Live
  <2> QED
    BY <1>2, <1>4, <2>1, <2>2, <2>3, AttributesKeep
<1> QED
  <2>1. \/ \E q \in Procs : Step(q) \/ Swallowed(q) \/ AdvanceFails(q) \/ Crash(q)
        \/ \E q \in Procs, e \in Events : Process(q, e)
        \/ ArchiveSave \/ \E e \in Events : ArchiveDelete(e)
        \/ UNCHANGED vars
    BY DEF Next
  <2>2. \/ Step(p) \/ Swallowed(p) \/ AdvanceFails(p) \/ Crash(p)
        \/ \E e \in Events : Process(p, e)
        \/ ArchiveSave \/ \E e \in Events : ArchiveDelete(e)
        \/ UNCHANGED vars
    BY <1>3, <2>1, AloneMoves
  <2> QED
    BY <1>1, <2>2, <1>5, <1>6, <1>7, <1>8, <1>9, <1>10, <1>11, <1>12, <1>13, <1>14, <1>15
    DEF Step, Swallowed, AdvanceFails, ArchiveDelete, ArchiveSave

\* The last writer of an attribute, where events write it at all.
LEMMA LastWriterIs ==
  ASSUME LogOK, NEW x \in Entities, NEW k \in Keys
  PROVE  LET W == {e \in LogSet : e.entity = x /\ e.key = k}
         IN IF W = {} THEN LastWriter(x, k) = None
            ELSE LastWriter(x, k) \in W /\ \A f \in W : seqOf[f] <= seqOf[LastWriter(x, k)]
<1> DEFINE W == {e \in LogSet : e.entity = x /\ e.key = k}
           S == {seqOf[e] : e \in W}
<1>1. CASE W = {}
  BY <1>1 DEF LastWriter
<1>2. CASE W # {}
  <2>1. S \in SUBSET Nat /\ S # {}
    BY <1>2 DEF LogOK, LogSet
  <2>2. IsFiniteSet(S)
    <3>1. MaxSeq \in Nat /\ \A m \in S : m <= MaxSeq
      BY MaxSeqIs DEF LogSet
    <3> HIDE DEF S, MaxSeq
    <3> QED
      BY <2>1, <3>1, FS_BoundedSetOfNaturals
  <2>3. Max(S) \in S /\ \A y \in S : y <= Max(S)
    <3> HIDE DEF S
    <3> QED
      BY <2>1, <2>2, MaxOfFinite
  <2>4. \E e \in W : \A f \in W : seqOf[f] <= seqOf[e]
    BY <2>3
  <2> QED
    BY <1>2, <2>4 DEF LastWriter
<1> QED
  BY <1>1, <1>2

LEMMA FoldHolds == Spec => []FoldOK
<1>1. Init => FoldOK
  BY EventsOK
  DEF Init, FoldOK, PendingIsEnd, AtHandIsLast, JobIsEnd, AttributesOK, WritersOK, ReadOK, LogSet,
      InLog, At, Live
<1>2. TypeInv /\ TypeInv' /\ RecoveryOK /\ FoldOK /\ [Next]_vars => FoldOK'
  BY FoldStep
<1> QED
  BY <1>1, <1>2, RecoveryHolds, PTL DEF Spec

\* Entities follow the log: with one process whose sources hand every event in once,
\* between events the attributes of a live entity are the fold of the log, whatever
\* crashed; removals cascade completely; and the count of entities is true.
THEOREM EntitiesFollowTheLog == Spec => []EntitiesFollowLog
<1>1. ASSUME TypeInv, FoldOK
      PROVE  AttributesAreFold
  <2> SUFFICES ASSUME Without({"repeat", "swallow", "archive"}), NEW p \in Procs, env.procs = {p},
                      mode[p] = "up", job[p] = None, NEW x \in Entities, Live(ent[x]), NEW k \in Keys
               PROVE  ent[x].attrs[k] = LastWriter(x, k)
    BY DEF AttributesAreFold, Alone
  <2> DEFINE W == {e \in LogSet : e.entity = x /\ e.key = k}
             w == LastWriter(x, k)
  <2>1. IF W = {} THEN w = None ELSE w \in W /\ \A f \in W : seqOf[f] <= seqOf[w]
    BY <1>1, LastWriterIs DEF TypeInv
  <2>2. /\ AttributesOK(p) /\ WritersOK
        /\ \A e \in LogSet : e # None /\ ~Waiting(p, e) /\ seqOf[e] \in Nat
    BY <1>1, EventsOK DEF FoldOK, Waiting, TypeInv, LogOK, LogSet
  <2> HIDE DEF w
  <2>3. CASE W = {}
    BY <2>1, <2>2, <2>3 DEF WritersOK, w
  <2>4. CASE W # {}
    <3>1. w \in LogSet /\ w.entity = x /\ w.key = k /\ \A f \in W : seqOf[f] <= seqOf[w]
      BY <2>1, <2>4
    <3>2. ~Overwritten(w)
      BY <2>2, <3>1 DEF Overwritten
    <3> QED
      BY <2>2, <3>1, <3>2 DEF AttributesOK, w
  <2> QED
    BY <2>3, <2>4 DEF w
<1>2. Spec => []AttributesAreFold
  BY <1>1, FoldHolds, TypeInvHolds, PTL
<1> QED
  BY <1>2, CascadesAreComplete, CountStaysTrue, PTL DEF EntitiesFollowLog

=============================================================================
