------------------------- MODULE EventDelivery_proofs -------------------------
(***************************************************************************)
(* Theorems about EventDelivery, for every number of events, consumers and *)
(* processes and every value of the bounds.                                *)
(***************************************************************************)
EXTENDS EventDelivery, FiniteSetTheorems, TLAPS

(***************************************************************************)
(* Helpers.                                                                *)
(***************************************************************************)

\* Every row access yields a row with fields of the right kind.
LEMMA RowFields ==
  ASSUME TypeOK, NEW r \in Deliveries
  PROVE  /\ rec[r] \in Row
         /\ rec[r].state \in States \cup {"ABSENT"}
         /\ rec[r].attempts \in Nat
         /\ rec[r].aged \in BOOLEAN
         /\ rec[r].born \in Nat
  BY DEF TypeOK, Row

\* Writing columns of a row keeps it a row.
LEMMA RowWrite ==
  ASSUME NEW row \in Row, NEW st \in States \cup {"ABSENT"}, NEW n \in Nat, NEW a \in BOOLEAN
  PROVE  /\ [row EXCEPT !.state = st, !.aged = a] \in Row
         /\ [row EXCEPT !.state = st, !.attempts = n, !.aged = a] \in Row
         /\ [row EXCEPT !.aged = a] \in Row
  BY DEF Row

\* The UPDATE of mark_* yields rows.
LEMMA WriteRowType ==
  ASSUME TypeOK, LocalOK, NEW p \in Procs, WriteRow(p)
  PROVE  rec' \in [Deliveries -> Row]
<1> DEFINE st == IF upd[p] = "KEEP" THEN rec[job[p]].state ELSE upd[p]
<1>1. job[p] \in Deliveries
  BY DEF LocalOK, WriteRow
<1>2. rec[job[p]] \in Row /\ st \in States \cup {"ABSENT"}
  BY <1>1, RowFields DEF TypeOK
<1>3. [rec[job[p]] EXCEPT !.state = st, !.aged = FALSE] \in Row
  BY <1>2, RowWrite, 0 \in Nat
<1>4. rec' = [rec EXCEPT ![job[p]] = [rec[job[p]] EXCEPT !.state = st, !.aged = FALSE]]
  BY <1>1 DEF WriteRow, TypeOK
<1>5. QED
  BY <1>1, <1>3, <1>4 DEF TypeOK

\* The UPDATEs of claim_pending yield rows.
LEMMA ClaimType ==
  ASSUME TypeOK, NEW p \in Procs, Claim(p)
  PROVE  rec' \in [Deliveries -> Row]
<1>1. ASSUME NEW r \in Deliveries
      PROVE  /\ [rec[r] EXCEPT !.state = "DEAD_LETTER", !.aged = FALSE] \in Row
             /\ [rec[r] EXCEPT !.state = "IN_FLIGHT", !.attempts = rec[r].attempts + 1,
                               !.aged = FALSE] \in Row
             /\ rec[r] \in Row
  <2>1. rec[r] \in Row /\ rec[r].attempts + 1 \in Nat
    BY RowFields
  <2>2. QED
    BY <2>1, RowWrite DEF States
<1>2. QED
  BY <1>1 DEF Claim

\* What the clock and the administrator write.
LEMMA EnvironmentWrites ==
  ASSUME TypeOK, NEW r \in Deliveries,
         LeaseExpires(r) \/ BackoffElapses(r) \/ RequeueDeadLetter(r) \/ MarkDeadLetter(r)
  PROVE  \/ rec' = [rec EXCEPT ![r] = [rec[r] EXCEPT !.aged = TRUE]]
         \/ rec' = [rec EXCEPT ![r] = [rec[r] EXCEPT !.state = "PENDING", !.attempts = 0,
                                                     !.aged = FALSE]]
         \/ rec' = [rec EXCEPT ![r] = [rec[r] EXCEPT !.state = "DEAD_LETTER", !.aged = FALSE]]
  BY DEF LeaseExpires, BackoffElapses, RequeueDeadLetter, MarkDeadLetter, TypeOK

\* The rows they leave are rows.
LEMMA EnvironmentRowType ==
  ASSUME TypeOK, NEW r \in Deliveries,
         LeaseExpires(r) \/ BackoffElapses(r) \/ RequeueDeadLetter(r) \/ MarkDeadLetter(r)
  PROVE  rec' \in [Deliveries -> Row]
<1>1. rec[r] \in Row
  BY RowFields
<1>2. /\ [rec[r] EXCEPT !.aged = TRUE] \in Row
      /\ [rec[r] EXCEPT !.state = "PENDING", !.attempts = 0, !.aged = FALSE] \in Row
      /\ [rec[r] EXCEPT !.state = "DEAD_LETTER", !.aged = FALSE] \in Row
  BY <1>1, RowWrite, 0 \in Nat DEF States
<1>3. QED
  BY <1>2, EnvironmentWrites DEF TypeOK

\* The rows that WithDeliveries adds are rows.
LEMMA WithDeliveriesType ==
  ASSUME TypeOK, NEW e \in Events
  PROVE  WithDeliveries(e) \in [Deliveries -> Row]
<1>1. stamp + 1 \in Nat
  BY DEF TypeOK
<1>2. NewRow(stamp + 1) \in Row
  BY <1>1 DEF NewRow, Row, States
<1>3. QED
  BY <1>2 DEF WithDeliveries, TypeOK

\* What the code decides to write is a state.
LEMMA FailureStateType ==
  ASSUME NEW r
  PROVE  FailureState(r) \in {"FAILED", "DEAD_LETTER"}
  BY DEF FailureState

(***************************************************************************)
(* Type correctness, with the local facts it needs.                        *)
(***************************************************************************)

LEMMA TypeInit == Init => TypeOK /\ LocalOK
<1> SUFFICES ASSUME Init PROVE TypeOK /\ LocalOK
  OBVIOUS
<1>1. AbsentRow \in Row
  BY DEF AbsentRow, Row
<1>2. TypeOK
  BY <1>1 DEF Init, TypeOK
<1>3. LocalOK
  BY DEF Init, LocalOK
<1>4. QED
  BY <1>2, <1>3

\* Steps that commit an event.
LEMMA TypeSave ==
  ASSUME TypeOK, LocalOK, NEW p \in Procs,
         SaveCommit(p) \/ SaveConflict(p) \/ Reconcile(p)
  PROVE  TypeOK' /\ LocalOK'
<1>1. CASE SaveCommit(p)
  <2>1. ev[p] \in Events
    BY <1>1 DEF SaveCommit, LocalOK
  <2>2. WithDeliveries(ev[p]) \in [Deliveries -> Row]
    BY <2>1, WithDeliveriesType
  <2>3. TypeOK'
    BY <1>1, <2>1, <2>2 DEF TypeOK, SaveCommit, ghostVars
  <2>4. LocalOK'
    BY <1>1 DEF TypeOK, LocalOK, SaveCommit, ghostVars
  <2>5. QED
    BY <2>3, <2>4
<1>2. CASE SaveConflict(p)
  BY <1>2 DEF TypeOK, LocalOK, SaveConflict, dbVars, ghostVars
<1>3. CASE Reconcile(p)
  <2>1. ev[p] \in Events
    BY <1>3 DEF Reconcile, LocalOK
  <2>2. WithDeliveries(ev[p]) \in [Deliveries -> Row]
    BY <2>1, WithDeliveriesType
  <2>3. TypeOK'
    BY <1>3, <2>1, <2>2 DEF TypeOK, Reconcile, ghostVars
  <2>4. LocalOK'
    BY <1>3 DEF TypeOK, LocalOK, Reconcile, ghostVars
  <2>5. QED
    BY <2>3, <2>4
<1>4. QED
  BY <1>1, <1>2, <1>3

\* Steps of the hot path, of a callback and of the write that follows it.
LEMMA TypeHot ==
  ASSUME TypeOK, LocalOK, NEW p \in Procs,
         NEW c \in Consumers,
         HotCall(p, c) \/ HotSkip(p, c) \/ HotDone(p)
  PROVE  TypeOK' /\ LocalOK'
<1>1. CASE HotCall(p, c)
  <2>1. <<ev[p], c>> \in Deliveries
    BY <1>1 DEF HotCall, LocalOK, Deliveries
  <2>2. calls' \in [Deliveries -> Nat]
    BY <1>1, <2>1 DEF HotCall, CountCall, TypeOK
  <2>3. TypeOK'
    BY <1>1, <2>1, <2>2 DEF TypeOK, HotCall, dbVars
  <2>4. LocalOK'
    BY <1>1, <2>1 DEF TypeOK, LocalOK, HotCall, dbVars
  <2>5. QED
    BY <2>3, <2>4
<1>2. CASE HotSkip(p, c)
  BY <1>2 DEF TypeOK, LocalOK, HotSkip, dbVars, ghostVars
<1>3. CASE HotDone(p)
  BY <1>3 DEF TypeOK, LocalOK, HotDone, dbVars, ghostVars
<1>4. QED
  BY <1>1, <1>2, <1>3

LEMMA TypeCallAndWrite ==
  ASSUME TypeOK, LocalOK, NEW p \in Procs,
         CallReturns(p) \/ CallRaises(p) \/ WriteRow(p)
  PROVE  TypeOK' /\ LocalOK'
<1>1. job[p] \in Deliveries
  BY DEF LocalOK, CallReturns, CallRaises, WriteRow
<1>2. CASE CallReturns(p)
  BY <1>1, <1>2 DEF TypeOK, LocalOK, CallReturns, ReadRow, dbVars, States
<1>3. CASE CallRaises(p)
  BY <1>1, <1>3, FailureStateType DEF TypeOK, LocalOK, CallRaises, ReadRow, dbVars, ghostVars,
     States
<1>4. CASE WriteRow(p)
  <2>1. rec' \in [Deliveries -> Row]
    BY <1>4, WriteRowType
  <2>a. putBacks' \in [Deliveries -> Nat]
    BY <1>1, <1>4 DEF TypeOK, WriteRow
  <2>2. TypeOK'
    BY <1>1, <1>4, <2>1, <2>a DEF TypeOK, WriteRow, ghostVars
  <2>3. LocalOK'
    BY <1>1, <1>4 DEF TypeOK, LocalOK, WriteRow, ghostVars
  <2>4. QED
    BY <2>2, <2>3
<1>5. QED
  BY <1>2, <1>3, <1>4

\* Steps of the recovery pass.
LEMMA TypeRecovery ==
  ASSUME TypeOK, LocalOK, NEW p \in Procs, NEW r \in Deliveries,
         Claim(p) \/ DeliverCall(p, r) \/ DeliverLookupFails(p, r)
           \/ DeliverUnregistered(p, r) \/ ProcessDone(p)
  PROVE  TypeOK' /\ LocalOK'
<1>1. CASE Claim(p)
  <2>1. rec' \in [Deliveries -> Row]
    BY <1>1, ClaimType
  <2>2. batch' \in [Procs -> SUBSET Deliveries]
    BY <1>1 DEF TypeOK, Claim, Eligible
  <2>3. TypeOK'
    BY <1>1, <2>1, <2>2 DEF TypeOK, Claim, ghostVars
  <2>4. LocalOK'
    BY <1>1 DEF TypeOK, LocalOK, Claim, ghostVars
  <2>5. QED
    BY <2>3, <2>4
<1>2. CASE DeliverCall(p, r)
  BY <1>2 DEF TypeOK, LocalOK, DeliverCall, Take, CountCall, dbVars
<1>3. CASE DeliverLookupFails(p, r)
  BY <1>3, FailureStateType DEF TypeOK, LocalOK, DeliverLookupFails, Take, ReadRow, dbVars, States
<1>4. CASE DeliverUnregistered(p, r)
  BY <1>4 DEF TypeOK, LocalOK, DeliverUnregistered, Take, ReadRow, dbVars, States
<1>5. CASE ProcessDone(p)
  BY <1>5 DEF TypeOK, LocalOK, ProcessDone, ResetProcess, dbVars, ghostVars
<1>6. QED
  BY <1>1, <1>2, <1>3, <1>4, <1>5

LEMMA TypeEnvironment ==
  ASSUME TypeOK, LocalOK, Environment
  PROVE  TypeOK' /\ LocalOK'
<1>1. ASSUME NEW p \in Procs, NEW e \in Events, Submit(p, e)
      PROVE  TypeOK' /\ LocalOK'
  <2>1. nextSeq' \in [Procs -> Nat]
    BY <1>1 DEF Submit, TypeOK
  <2>2. QED
    BY <1>1, <2>1 DEF TypeOK, LocalOK, Submit, dbVars, ghostVars
<1>2. ASSUME NEW p \in Procs, Crash(p)
      PROVE  TypeOK' /\ LocalOK'
  BY <1>2 DEF TypeOK, LocalOK, Crash, ResetProcess, dbVars, ghostVars
<1>3. ASSUME NEW r \in Deliveries,
             LeaseExpires(r) \/ BackoffElapses(r) \/ RequeueDeadLetter(r) \/ MarkDeadLetter(r)
      PROVE  TypeOK' /\ LocalOK'
  <2>1. rec' \in [Deliveries -> Row]
    BY <1>3, EnvironmentRowType
  <2>2. calls' \in [Deliveries -> Nat]
    BY <1>3 DEF TypeOK, LeaseExpires, BackoffElapses, RequeueDeadLetter, MarkDeadLetter,
       ghostVars
  <2>a. putBacks' \in [Deliveries -> Nat]
    BY <1>3 DEF TypeOK, LeaseExpires, BackoffElapses, RequeueDeadLetter, MarkDeadLetter,
       ghostVars
  <2>3. UNCHANGED <<seqOf, stamp, registered, submitted, procVars, handled, crashes>>
    BY <1>3 DEF LeaseExpires, BackoffElapses, RequeueDeadLetter, MarkDeadLetter, ghostVars
  <2>4. QED
    BY <2>1, <2>2, <2>a, <2>3 DEF TypeOK, LocalOK, procVars
<1>4. ASSUME NEW p \in Procs, NEW c \in Consumers,
             UnregisterConsumer(p, c) \/ RegisterConsumer(p, c)
      PROVE  TypeOK' /\ LocalOK'
  BY <1>4 DEF TypeOK, LocalOK, UnregisterConsumer, RegisterConsumer, dbVars, procVars,
     ghostVars
<1>5. QED
  BY <1>1, <1>2, <1>3, <1>4 DEF Environment

\* One step of any actor keeps the types.
LEMMA TypeNext == TypeOK /\ LocalOK /\ [Next]_vars => (TypeOK /\ LocalOK)'
<1> SUFFICES ASSUME TypeOK, LocalOK, [Next]_vars
             PROVE  (TypeOK /\ LocalOK)'
  OBVIOUS
<1>1. ASSUME NEW p \in Procs, Step(p)
      PROVE  (TypeOK /\ LocalOK)'
  <2>1. CASE \E c \in Consumers : HotCall(p, c) \/ HotSkip(p, c)
    BY <2>1, TypeHot
  <2>2. CASE HotDone(p)
    BY <2>2 DEF TypeOK, LocalOK, HotDone, dbVars, ghostVars
  <2>3. CASE \E r \in Deliveries :
               DeliverCall(p, r) \/ DeliverLookupFails(p, r) \/ DeliverUnregistered(p, r)
    BY <2>3, TypeRecovery
  <2>4. CASE ProcessDone(p)
    BY <2>4 DEF TypeOK, LocalOK, ProcessDone, ResetProcess, dbVars, ghostVars
  <2>5. CASE Claim(p)
    <3>1. rec' \in [Deliveries -> Row]
      BY <2>5, ClaimType
    <3>2. batch' \in [Procs -> SUBSET Deliveries]
      BY <2>5 DEF TypeOK, Claim, Eligible
    <3>3. QED
      BY <2>5, <3>1, <3>2 DEF TypeOK, LocalOK, Claim, ghostVars
  <2>6. QED
    BY <1>1, <2>1, <2>2, <2>3, <2>4, <2>5, TypeSave, TypeCallAndWrite DEF Step
<1>2. CASE Environment
  BY <1>2, TypeEnvironment
<1>3. CASE UNCHANGED vars
  BY <1>3 DEF TypeOK, LocalOK, vars, dbVars, procVars, ghostVars
<1>4. QED
  BY <1>1, <1>2, <1>3 DEF Next

\* Every reachable state is well typed, and a busy process has its event and its
\* delivery at hand.
THEOREM TypeCorrect == Spec => [](TypeOK /\ LocalOK)
  BY TypeInit, TypeNext, PTL DEF Spec

(***************************************************************************)
(* What one step may do to a row and to the log.                           *)
(***************************************************************************)

\* The actions that write delivery rows.
LEMMA WhoWritesRows ==
  ASSUME [Next]_vars
  PROVE  \/ rec' = rec
         \/ \E p \in Procs : SaveCommit(p) \/ Reconcile(p) \/ WriteRow(p) \/ Claim(p)
         \/ \E r \in Deliveries :
              LeaseExpires(r) \/ BackoffElapses(r) \/ RequeueDeadLetter(r) \/ MarkDeadLetter(r)
<1>1. CASE UNCHANGED vars
  BY <1>1 DEF vars, dbVars
<1>2. ASSUME NEW p \in Procs, Step(p)
      PROVE  rec' = rec \/ SaveCommit(p) \/ Reconcile(p) \/ WriteRow(p) \/ Claim(p)
  BY <1>2 DEF Step, SaveConflict, HotCall, HotSkip, HotDone, CallReturns, CallRaises,
     DeliverCall, DeliverLookupFails, DeliverUnregistered, Take, ProcessDone, dbVars
<1>3. CASE Environment
  BY <1>3 DEF Environment, Submit, Crash, UnregisterConsumer, RegisterConsumer, dbVars
<1>4. QED
  BY <1>1, <1>2, <1>3 DEF Next

\* The log grows by SaveCommit only.
LEMMA WhoWritesLog ==
  ASSUME [Next]_vars
  PROVE  seqOf' = seqOf \/ \E p \in Procs : SaveCommit(p)
<1>1. CASE UNCHANGED vars
  BY <1>1 DEF vars, dbVars
<1>2. ASSUME NEW p \in Procs, Step(p)
      PROVE  seqOf' = seqOf \/ SaveCommit(p)
  BY <1>2 DEF Step, SaveConflict, Reconcile, HotCall, HotSkip, HotDone, CallReturns,
     CallRaises, WriteRow, Claim, DeliverCall, DeliverLookupFails, DeliverUnregistered, Take,
     ProcessDone, dbVars
<1>3. CASE Environment
  BY <1>3 DEF Environment, Submit, Crash, LeaseExpires, BackoffElapses, RequeueDeadLetter,
     MarkDeadLetter, UnregisterConsumer, RegisterConsumer, dbVars
<1>4. QED
  BY <1>1, <1>2, <1>3 DEF Next

\* A row, once written, is never absent again.
LEMMA RowsStay ==
  ASSUME TypeOK, LocalOK, [Next]_vars, NEW r \in Deliveries, Exists(r)
  PROVE  Exists(r)'
<1>1. CASE rec' = rec
  BY <1>1 DEF Exists
<1>2. ASSUME NEW p \in Procs, SaveCommit(p) \/ Reconcile(p)
      PROVE  Exists(r)'
  BY <1>2 DEF SaveCommit, Reconcile, WithDeliveries, Exists
<1>3. ASSUME NEW p \in Procs, WriteRow(p)
      PROVE  Exists(r)'
  <2>1. upd[p] \in States \cup {"KEEP"} /\ job[p] \in Deliveries /\ rec[r] \in Row
    BY <1>3 DEF TypeOK, LocalOK, WriteRow
  <2>2. CASE r = job[p]
    BY <1>3, <2>1, <2>2 DEF WriteRow, Exists, States, Row, TypeOK
  <2>3. CASE r # job[p]
    BY <1>3, <2>3 DEF WriteRow, Exists, TypeOK
  <2>4. QED
    BY <2>2, <2>3
<1>4. ASSUME NEW p \in Procs, Claim(p)
      PROVE  Exists(r)'
  BY <1>4, RowFields DEF Claim, Exists, Row
<1>5. ASSUME NEW q \in Deliveries,
             LeaseExpires(q) \/ BackoffElapses(q) \/ RequeueDeadLetter(q) \/ MarkDeadLetter(q)
      PROVE  Exists(r)'
  <2>1. rec[q] \in Row /\ rec[r] \in Row
    BY RowFields
  <2>2. CASE q # r
    BY <1>5, <2>2, EnvironmentWrites DEF Exists, TypeOK
  <2>3. CASE q = r
    <3>1. \/ rec'[r] = [rec[r] EXCEPT !.aged = TRUE]
          \/ rec'[r] = [rec[r] EXCEPT !.state = "PENDING", !.attempts = 0, !.aged = FALSE]
          \/ rec'[r] = [rec[r] EXCEPT !.state = "DEAD_LETTER", !.aged = FALSE]
      BY <1>5, <2>3, EnvironmentWrites DEF TypeOK
    <3>2. rec'[r].state \in {rec[r].state, "PENDING", "DEAD_LETTER"}
      BY <2>1, <3>1 DEF Row
    <3>3. QED
      BY <3>2 DEF Exists
  <2>4. QED
    BY <2>2, <2>3
<1>6. QED
  BY <1>1, <1>2, <1>3, <1>4, <1>5, WhoWritesRows

(***************************************************************************)
(* The outbox is complete.                                                 *)
(***************************************************************************)

LEMMA OutboxCompleteStep ==
  TypeOK /\ LocalOK /\ OutboxComplete /\ [Next]_vars => OutboxComplete'
<1> SUFFICES ASSUME TypeOK, LocalOK, OutboxComplete, [Next]_vars,
                    NEW e \in Events, seqOf'[e] # 0, NEW c \in Consumers
             PROVE  Exists(<<e, c>>)'
  BY DEF OutboxComplete, Committed
<1>1. <<e, c>> \in Deliveries
  BY DEF Deliveries
<1>2. CASE seqOf[e] # 0
  BY <1>1, <1>2, RowsStay DEF OutboxComplete, Committed
<1>3. CASE seqOf[e] = 0
  <2>1. PICK p \in Procs : SaveCommit(p)
    BY <1>3, WhoWritesLog
  <2>2. e = ev[p]
    BY <1>3, <2>1 DEF SaveCommit, TypeOK
  <2>3. QED
    BY <1>1, <2>1, <2>2 DEF SaveCommit, WithDeliveries, NewRow, Exists, TypeOK
<1>4. QED
  BY <1>2, <1>3

\* Every committed event has a delivery row for every consumer of the pipeline,
\* whatever crashes, whoever else is saving.
THEOREM OutboxIsComplete == Spec => []OutboxComplete
<1>1. Init => OutboxComplete
  BY DEF Init, OutboxComplete, Committed
<1>2. QED
  BY <1>1, OutboxCompleteStep, TypeCorrect, PTL DEF Spec

(***************************************************************************)
(* DELIVERED is only said of what was handled.                             *)
(***************************************************************************)

\* The actions that read a row for an UPDATE, or make one.
LEMMA DeliveredInHandStep ==
  TypeOK /\ LocalOK /\ DeliveredInHand /\ [Next]_vars => DeliveredInHand'
<1> SUFFICES ASSUME TypeOK, LocalOK, DeliveredInHand, [Next]_vars,
                    NEW q \in Procs, pc'[q] = "write", upd'[q] = "DELIVERED"
             PROVE  job'[q] \in handled'
  BY DEF DeliveredInHand
<1>1. CASE UNCHANGED vars
  BY <1>1 DEF DeliveredInHand, vars, procVars, ghostVars
<1>2. ASSUME NEW p \in Procs, Step(p)
      PROVE  job'[q] \in handled'
  <2>1. CASE p # q
    <3>1. pc'[q] = pc[q] /\ upd'[q] = upd[q] /\ job'[q] = job[q] /\ handled \subseteq handled'
      BY <1>2, <2>1 DEF Step, SaveCommit, SaveConflict, Reconcile, HotCall, HotSkip, HotDone,
         CallReturns, CallRaises, WriteRow, Claim, DeliverCall, DeliverLookupFails,
         DeliverUnregistered, Take, ReadRow, ProcessDone, ResetProcess, TypeOK, ghostVars
    <3>2. QED
      BY <3>1 DEF DeliveredInHand
  <2>2. CASE p = q
    <3>1. CASE CallReturns(p)
      BY <2>2, <3>1 DEF CallReturns
    <3>2. CASE CallRaises(p)
      BY <2>2, <3>2, FailureStateType DEF CallRaises, ReadRow, TypeOK
    <3>3. CASE \E r \in Deliveries : DeliverLookupFails(p, r) \/ DeliverUnregistered(p, r)
      BY <2>2, <3>3, FailureStateType DEF DeliverLookupFails, DeliverUnregistered, ReadRow, TypeOK
    <3>4. CASE WriteRow(p)
      BY <2>2, <3>4 DEF WriteRow, TypeOK
    <3>5. CASE \E c \in Consumers : HotCall(p, c) \/ HotSkip(p, c)
      BY <2>2, <3>5 DEF HotCall, HotSkip, TypeOK
    <3>6. CASE \/ SaveCommit(p) \/ SaveConflict(p) \/ Reconcile(p) \/ HotDone(p) \/ Claim(p)
               \/ ProcessDone(p)
               \/ \E r \in Deliveries : DeliverCall(p, r)
      BY <2>2, <3>6 DEF SaveCommit, SaveConflict, Reconcile, HotDone, Claim, ProcessDone,
         ResetProcess, DeliverCall, TypeOK
    <3>7. QED
      BY <1>2, <3>1, <3>2, <3>3, <3>4, <3>5, <3>6 DEF Step
  <2>3. QED
    BY <2>1, <2>2
<1>3. CASE Environment
  <2>1. handled' = handled
    BY <1>3 DEF Environment, Submit, Crash, LeaseExpires, BackoffElapses, RequeueDeadLetter,
       MarkDeadLetter, UnregisterConsumer, RegisterConsumer, ghostVars
  <2>2. pc[q] = "write" /\ upd'[q] = upd[q] /\ job'[q] = job[q]
    <3>1. ASSUME NEW p \in Procs, (\E e \in Events : Submit(p, e)) \/ Crash(p)
          PROVE  pc[q] = "write" /\ upd'[q] = upd[q] /\ job'[q] = job[q]
      BY <3>1 DEF Submit, Crash, ResetProcess, TypeOK
    <3>2. CASE UNCHANGED procVars
      BY <3>2 DEF procVars
    <3>3. QED
      BY <1>3, <3>1, <3>2 DEF Environment, LeaseExpires, BackoffElapses, RequeueDeadLetter,
         MarkDeadLetter, UnregisterConsumer, RegisterConsumer
  <2>3. QED
    BY <2>1, <2>2 DEF DeliveredInHand
<1>4. QED
  BY <1>1, <1>2, <1>3 DEF Next

\* What was handled stays handled.
LEMMA HandledStays ==
  ASSUME [Next]_vars
  PROVE  handled \subseteq handled'
<1>1. CASE UNCHANGED vars
  BY <1>1 DEF vars, ghostVars
<1>2. ASSUME NEW p \in Procs, Step(p)
      PROVE  handled \subseteq handled'
  BY <1>2 DEF Step, SaveCommit, SaveConflict, Reconcile, HotCall, HotSkip, HotDone,
     CallReturns, CallRaises, WriteRow, Claim, DeliverCall, DeliverLookupFails,
     DeliverUnregistered, Take, ProcessDone, ghostVars
<1>3. CASE Environment
  BY <1>3 DEF Environment, Submit, Crash, LeaseExpires, BackoffElapses, RequeueDeadLetter,
     MarkDeadLetter, UnregisterConsumer, RegisterConsumer, ghostVars
<1>4. QED
  BY <1>1, <1>2, <1>3 DEF Next

LEMMA DeliveredMeansHandledStep ==
  TypeOK /\ LocalOK /\ DeliveredInHand /\ DeliveredMeansHandled /\ [Next]_vars
    => DeliveredMeansHandled'
<1> SUFFICES ASSUME TypeOK, LocalOK, DeliveredInHand, DeliveredMeansHandled, [Next]_vars,
                    NEW r \in Deliveries, rec'[r].state = "DELIVERED"
             PROVE  r \in handled'
  BY DEF DeliveredMeansHandled
<1>1. CASE rec[r].state = "DELIVERED"
  BY <1>1, HandledStays DEF DeliveredMeansHandled
<1>2. CASE rec[r].state # "DELIVERED"
  <2>1. rec' # rec
    BY <1>2
  <2>2. ~ \E p \in Procs : SaveCommit(p) \/ Reconcile(p)
    BY <1>2 DEF SaveCommit, Reconcile, WithDeliveries, NewRow
  <2>3. ASSUME NEW p \in Procs, Claim(p)
        PROVE  FALSE
    <3>1. rec[r] \in Row
      BY RowFields
    <3>2. \/ rec'[r] = [rec[r] EXCEPT !.state = "DEAD_LETTER", !.aged = FALSE]
          \/ rec'[r] = [rec[r] EXCEPT !.state = "IN_FLIGHT", !.attempts = @ + 1, !.aged = FALSE]
          \/ rec'[r] = rec[r]
      BY <2>3 DEF Claim
    <3>3. QED
      BY <1>2, <3>1, <3>2 DEF Row
  <2>4. ASSUME NEW q \in Deliveries,
               LeaseExpires(q) \/ BackoffElapses(q) \/ RequeueDeadLetter(q) \/ MarkDeadLetter(q)
        PROVE  FALSE
    <3>1. rec[r] \in Row
      BY RowFields
    <3>2. \/ rec'[r] = rec[r]
          \/ rec'[r] = [rec[r] EXCEPT !.aged = TRUE]
          \/ rec'[r] = [rec[r] EXCEPT !.state = "PENDING", !.attempts = 0, !.aged = FALSE]
          \/ rec'[r] = [rec[r] EXCEPT !.state = "DEAD_LETTER", !.aged = FALSE]
      <4>1. CASE r = q
        BY <2>4, <4>1, EnvironmentWrites DEF TypeOK
      <4>2. CASE r # q
        BY <2>4, <4>2, EnvironmentWrites DEF TypeOK
      <4>3. QED
        BY <4>1, <4>2
    <3>3. QED
      BY <1>2, <3>1, <3>2 DEF Row
  <2>5. PICK p \in Procs : WriteRow(p)
    BY <2>1, <2>2, <2>3, <2>4, WhoWritesRows
  <2>6. r = job[p] /\ upd[p] = "DELIVERED"
    BY <1>2, <2>5, RowFields DEF WriteRow, Row, TypeOK
  <2>7. QED
    BY <2>5, <2>6, HandledStays DEF DeliveredInHand, WriteRow
<1>3. QED
  BY <1>1, <1>2

\* However the processes interleave, a row says DELIVERED only of a delivery
\* whose consumer has returned normally.
THEOREM DeliveredIsHandled == Spec => []DeliveredMeansHandled
<1>1. Init => DeliveredInHand /\ DeliveredMeansHandled
  BY DEF Init, DeliveredInHand, DeliveredMeansHandled, AbsentRow
<1>2. QED
  BY <1>1, DeliveredInHandStep, DeliveredMeansHandledStep, TypeCorrect, PTL DEF Spec

(***************************************************************************)
(* seq follows the order of the commits.                                   *)
(***************************************************************************)

Used(k) == \E d \in Events : seqOf[d] = k

\* What SaveCommit does to the log: the number it inserts is new and above all others.
LEMMA NewSeqIsLargest ==
  ASSUME TypeOK, LocalOK, SeqsDense, NEW p \in Procs, SaveCommit(p)
  PROVE  /\ seqOf[ev[p]] = 0
         /\ nextSeq[p] \in Nat \ {0}
         /\ seqOf' = [seqOf EXCEPT ![ev[p]] = nextSeq[p]]
         /\ \A d \in Events : seqOf[d] < nextSeq[p]
<1>1. nextSeq[p] \in Nat \ {0} /\ seqOf[ev[p]] = 0 /\ \A d \in Events : seqOf[d] # nextSeq[p]
  BY DEF SaveCommit, Conflict, SeqsDense, TypeOK
<1>2. ASSUME NEW d \in Events, seqOf[d] > nextSeq[p]
      PROVE  FALSE
  <2>1. nextSeq[p] \in 1 .. seqOf[d]
    BY <1>1, <1>2 DEF TypeOK
  <2>2. QED
    BY <1>1, <2>1 DEF SeqsDense
<1>3. QED
  BY <1>1, <1>2 DEF SaveCommit, TypeOK

\* A number in use stays in use.
LEMMA UsedStays ==
  ASSUME TypeOK, LocalOK, SeqsDense, [Next]_vars, NEW k \in Nat \ {0}, Used(k)
  PROVE  Used(k)'
<1>1. CASE seqOf' = seqOf
  BY <1>1 DEF Used
<1>2. ASSUME NEW p \in Procs, SaveCommit(p)
      PROVE  Used(k)'
  <2>1. PICK d \in Events : seqOf[d] = k
    BY DEF Used
  <2>2. d # ev[p] /\ seqOf'[d] = k
    BY <1>2, <2>1, NewSeqIsLargest DEF TypeOK
  <2>3. QED
    BY <2>2 DEF Used
<1>3. QED
  BY <1>1, <1>2, WhoWritesLog

LEMMA SeqsDenseStep == TypeOK /\ LocalOK /\ SeqsDense /\ [Next]_vars => SeqsDense'
<1> SUFFICES ASSUME TypeOK, LocalOK, SeqsDense, [Next]_vars
             PROVE  SeqsDense'
  OBVIOUS
<1>1. ASSUME NEW e \in Events, NEW k \in 1 .. seqOf'[e]
      PROVE  Used(k)'
  <2>1. CASE seqOf'[e] = seqOf[e]
    <3>1. Used(k)
      BY <1>1, <2>1 DEF SeqsDense, Used
    <3>2. k \in Nat \ {0}
      BY <1>1
    <3>3. QED
      BY <3>1, <3>2, UsedStays
  <2>2. CASE seqOf'[e] # seqOf[e]
    <3>1. PICK p \in Procs : SaveCommit(p)
      BY <2>2, WhoWritesLog
    <3>2. e = ev[p] /\ seqOf'[e] = nextSeq[p] /\ pc[p] = "save" /\ nextSeq[p] \in Nat
      BY <2>2, <3>1, NewSeqIsLargest DEF TypeOK, SaveCommit
    <3>3. CASE k = nextSeq[p]
      BY <3>2, <3>3 DEF Used
    <3>4. CASE k # nextSeq[p]
      <4>1. k \in 1 .. nextSeq[p] - 1 /\ k \in Nat \ {0}
        BY <1>1, <3>2, <3>4
      <4>2. Used(k)
        BY <3>2, <4>1 DEF SeqsDense, Used
      <4>3. QED
        BY <4>1, <4>2, UsedStays
    <3>5. QED
      BY <3>3, <3>4
  <2>3. QED
    BY <2>1, <2>2
<1>2. ASSUME NEW q \in Procs, pc'[q] = "save"
      PROVE  nextSeq'[q] > 0 /\ \A k \in 1 .. nextSeq'[q] - 1 : Used(k)'
  <2>1. CASE \E e \in Events : Submit(q, e)
    <3>1. PICK e \in Events : Submit(q, e)
      BY <2>1
    <3>2. seqOf' = seqOf
      BY <3>1 DEF Submit, dbVars
    <3>3. PICK m \in {0} \cup {seqOf[d] : d \in Events} : nextSeq'[q] = m + 1
      BY <3>1 DEF Submit, TypeOK
    <3>4. m \in Nat /\ \A k \in 1 .. m : Used(k)
      BY <3>3 DEF SeqsDense, Used, TypeOK
    <3>5. QED
      BY <3>2, <3>3, <3>4 DEF Used
  <2>2. CASE ~ \E e \in Events : Submit(q, e)
    <3>1. pc[q] = "save" /\ nextSeq'[q] = nextSeq[q]
      <4>1. CASE UNCHANGED vars
        BY <1>2, <4>1 DEF vars, procVars
      <4>2. ASSUME NEW p \in Procs, Step(p)
            PROVE  pc[q] = "save" /\ nextSeq'[q] = nextSeq[q]
        <5>1. CASE p # q
          BY <1>2, <4>2, <5>1 DEF Step, SaveCommit, SaveConflict, Reconcile, HotCall, HotSkip,
             HotDone, CallReturns, CallRaises, WriteRow, Claim, DeliverCall, DeliverLookupFails,
             DeliverUnregistered, Take, ProcessDone, ResetProcess, TypeOK
        <5>2. CASE p = q
          <6>1. via[q] # "save"
            BY DEF TypeOK
          <6>2. QED
            BY <1>2, <4>2, <5>2, <6>1 DEF Step, SaveCommit, SaveConflict, Reconcile, HotCall,
               HotSkip, HotDone, CallReturns, CallRaises, WriteRow, Claim, DeliverCall,
               DeliverLookupFails, DeliverUnregistered, Take, ProcessDone, ResetProcess, TypeOK
        <5>3. QED
          BY <5>1, <5>2
      <4>3. CASE Environment
        <5>1. ASSUME NEW p \in Procs, (\E e \in Events : Submit(p, e)) \/ Crash(p)
              PROVE  pc[q] = "save" /\ nextSeq'[q] = nextSeq[q]
          BY <1>2, <2>2, <5>1 DEF Submit, Crash, ResetProcess, TypeOK
        <5>2. CASE UNCHANGED procVars
          BY <1>2, <5>2 DEF procVars
        <5>3. QED
          BY <4>3, <5>1, <5>2 DEF Environment, LeaseExpires, BackoffElapses, RequeueDeadLetter,
             MarkDeadLetter, UnregisterConsumer, RegisterConsumer
      <4>4. QED
        BY <4>1, <4>2, <4>3 DEF Next
    <3>2. nextSeq[q] > 0 /\ nextSeq[q] \in Nat /\ \A k \in 1 .. nextSeq[q] - 1 : Used(k)
      BY <3>1 DEF SeqsDense, Used, TypeOK
    <3>3. QED
      BY <3>1, <3>2, UsedStays
  <2>3. QED
    BY <2>1, <2>2
<1>3. QED
  BY <1>1, <1>2 DEF SeqsDense, Used

LEMMA SeqsDenseInit == Init => SeqsDense
  BY DEF Init, SeqsDense

THEOREM SeqsAreDense == Spec => []SeqsDense
  BY SeqsDenseInit, SeqsDenseStep, TypeCorrect, PTL DEF Spec

\* Although MAX(seq) is read before the transaction holds a lock, a row that is
\* committed gets a number above every row committed before it: UNIQUE(seq) and
\* the density of the numbers in use make up for the race.
THEOREM SeqOrderIsCommitOrder == Spec => SeqFollowsCommitOrder
<1>1. ASSUME TypeOK, LocalOK, SeqsDense, [Next]_vars
      PROVE  [\A e, d \in Events :
                seqOf[e] = 0 /\ seqOf'[e] # 0 /\ d # e => seqOf[d] < seqOf'[e]]_seqOf
  <2> SUFFICES ASSUME NEW e \in Events, NEW d \in Events,
                      seqOf[e] = 0, seqOf'[e] # 0, d # e
               PROVE  seqOf[d] < seqOf'[e]
    OBVIOUS
  <2>1. PICK p \in Procs : SaveCommit(p)
    BY WhoWritesLog, <1>1
  <2>2. e = ev[p] /\ seqOf'[e] = nextSeq[p]
    BY <1>1, <2>1, NewSeqIsLargest DEF TypeOK
  <2>3. QED
    BY <1>1, <2>1, <2>2, NewSeqIsLargest
<1>2. QED
  BY <1>1, TypeCorrect, SeqsAreDense, PTL DEF Spec, SeqFollowsCommitOrder

(***************************************************************************)
(* A single writer: no side effect without a committed event.              *)
(***************************************************************************)

SingleWriter == \A p, q \in Procs : p = q

\* What is committed stays committed.
LEMMA CommittedStays ==
  ASSUME TypeOK, LocalOK, SeqsDense, [Next]_vars, NEW e \in Events, e \in Committed
  PROVE  e \in Committed'
<1>1. CASE seqOf' = seqOf
  BY <1>1 DEF Committed
<1>2. ASSUME NEW p \in Procs, SaveCommit(p)
      PROVE  e \in Committed'
  BY <1>2, NewSeqIsLargest DEF Committed, TypeOK
<1>3. QED
  BY <1>1, <1>2, WhoWritesLog

\* A delivery row is born with its event, or after it.
LEMMA RowHasEventStep ==
  ASSUME TypeOK, LocalOK, SeqsDense, NoOrphans, [Next]_vars,
         NEW r \in Deliveries, Exists(r)'
  PROVE  r[1] \in Committed'
<1>0. r[1] \in Events
  BY DEF Deliveries
<1>1. CASE Exists(r)
  BY <1>0, <1>1, CommittedStays DEF NoOrphans
<1>2. CASE ~Exists(r)
  <2>1. ASSUME NEW p \in Procs, SaveCommit(p) \/ Reconcile(p)
        PROVE  r[1] \in Committed'
    <3>1. r[1] = ev[p]
      BY <1>2, <2>1 DEF SaveCommit, Reconcile, WithDeliveries, Exists
    <3>2. CASE SaveCommit(p)
      BY <1>0, <3>1, <3>2, NewSeqIsLargest DEF Committed, TypeOK
    <3>3. CASE Reconcile(p)
      BY <1>0, <3>1, <3>3, CommittedStays DEF NoOrphans, Reconcile
    <3>4. QED
      BY <2>1, <3>2, <3>3
  <2>2. ASSUME NEW p \in Procs, WriteRow(p)
        PROVE  r[1] \in Committed'
    <3>1. r = job[p]
      BY <1>2, <2>2 DEF WriteRow, Exists, TypeOK
    <3>2. QED
      BY <1>0, <2>2, <3>1, CommittedStays DEF NoOrphans, WriteRow
  <2>3. ASSUME NEW p \in Procs, Claim(p)
        PROVE  FALSE
    BY <1>2, <2>3 DEF Claim, Candidates, Eligible, Exhausted, Exists
  <2>4. ASSUME NEW q \in Deliveries,
               LeaseExpires(q) \/ BackoffElapses(q) \/ RequeueDeadLetter(q) \/ MarkDeadLetter(q)
        PROVE  FALSE
    BY <1>2, <2>4 DEF LeaseExpires, BackoffElapses, RequeueDeadLetter, MarkDeadLetter, Exists,
       TypeOK
  <2>5. QED
    BY <1>2, <2>1, <2>2, <2>3, <2>4, WhoWritesRows DEF Exists
<1>3. QED
  BY <1>1, <1>2

\* The actions of process p, or of nobody: those of another process leave p alone.
LEMMA OthersLeaveAlone ==
  ASSUME TypeOK, NEW p \in Procs, NEW q \in Procs, p # q, Step(q)
  PROVE  /\ pc'[p] = pc[p] /\ ev'[p] = ev[p] /\ nextSeq'[p] = nextSeq[p]
         /\ job'[p] = job[p] /\ batch'[p] = batch[p] /\ upd'[p] = upd[p]
<1>1. CASE \/ SaveCommit(q) \/ SaveConflict(q) \/ Reconcile(q) \/ HotDone(q)
           \/ \E c \in Consumers : HotCall(q, c) \/ HotSkip(q, c)
  BY <1>1 DEF SaveCommit, SaveConflict, Reconcile, HotCall, HotSkip, HotDone, TypeOK
<1>2. CASE CallReturns(q) \/ CallRaises(q) \/ WriteRow(q) \/ Claim(q)
  BY <1>2 DEF CallReturns, CallRaises, WriteRow, Claim, ReadRow, TypeOK
<1>3. CASE \E r \in Deliveries :
             DeliverCall(q, r) \/ DeliverLookupFails(q, r) \/ DeliverUnregistered(q, r)
  BY <1>3 DEF DeliverCall, DeliverLookupFails, DeliverUnregistered, Take, ReadRow, TypeOK
<1>4. CASE ProcessDone(q)
  BY <1>4 DEF ProcessDone, ResetProcess, TypeOK
<1>5. QED
  BY <1>1, <1>2, <1>3, <1>4 DEF Step

LEMMA EventAtHandIsCommitted ==
  ASSUME TypeOK, LocalOK, SeqsDense, NoOrphans, SingleWriter, [Next]_vars, NEW p \in Procs
  PROVE  /\ pc'[p] \notin {"idle", "save"} => ev'[p] \in Committed'
         /\ pc'[p] = "save" => \A d \in Events : seqOf'[d] < nextSeq'[p]
         /\ pc'[p] \in {"call", "write"} => job'[p][1] \in Committed'
         /\ \A r \in batch'[p] : r[1] \in Committed'
<1> DEFINE OK == /\ pc'[p] \notin {"idle", "save"} => ev'[p] \in Committed'
                 /\ pc'[p] = "save" => \A d \in Events : seqOf'[d] < nextSeq'[p]
                 /\ pc'[p] \in {"call", "write"} => job'[p][1] \in Committed'
                 /\ \A r \in batch'[p] : r[1] \in Committed'
<1>0. Committed \subseteq Committed'
  BY CommittedStays DEF Committed
<1>1. ASSUME UNCHANGED <<seqOf, pc, ev, nextSeq, job, batch>>
      PROVE  OK
  BY <1>0, <1>1 DEF NoOrphans
<1>2. ASSUME NEW e \in Events, Submit(p, e)
      PROVE  OK
  <2>1. seqOf' = seqOf /\ batch' = batch /\ pc'[p] = "save"
    BY <1>2 DEF Submit, dbVars, TypeOK
  <2>2. \A d \in Events : seqOf'[d] < nextSeq'[p]
    BY <1>2, <2>1 DEF Submit, TypeOK
  <2>3. QED
    BY <1>0, <2>1, <2>2 DEF NoOrphans
<1>3. ASSUME Crash(p) \/ ProcessDone(p)
      PROVE  OK
  BY <1>0, <1>3 DEF Crash, ProcessDone, ResetProcess, TypeOK
<1>4. CASE SaveCommit(p)
  <2>1. pc'[p] = "hot" /\ ev' = ev /\ batch' = batch
    BY <1>4 DEF SaveCommit, TypeOK
  <2>2. ev[p] \in Committed'
    BY <1>4, NewSeqIsLargest DEF Committed, TypeOK, LocalOK, SaveCommit
  <2>3. QED
    BY <1>0, <2>1, <2>2 DEF NoOrphans
<1>5. CASE SaveConflict(p)
  <2>1. pc'[p] = "reconcile" /\ ev' = ev /\ batch' = batch /\ pc[p] = "save"
    BY <1>5 DEF SaveConflict, TypeOK
  <2>2. seqOf[ev[p]] # 0
    BY <1>5, <2>1 DEF SaveConflict, Conflict, NoOrphans, TypeOK
  <2>3. ev[p] \in Committed'
    BY <1>0, <2>1, <2>2 DEF Committed, LocalOK
  <2>4. QED
    BY <1>0, <2>1, <2>3 DEF NoOrphans
<1>6. ASSUME NEW c \in Consumers, HotCall(p, c)
      PROVE  OK
  <2>1. pc'[p] = "call" /\ ev' = ev /\ batch' = batch /\ pc[p] = "hot" /\ job'[p] = <<ev[p], c>>
    BY <1>6 DEF HotCall, TypeOK
  <2>2. QED
    BY <1>0, <2>1 DEF NoOrphans
<1>7. ASSUME NEW c \in Consumers,
             \/ Reconcile(p) \/ HotSkip(p, c) \/ HotDone(p)
             \/ CallReturns(p) \/ CallRaises(p) \/ WriteRow(p)
      PROVE  OK
  <2>1. /\ pc[p] \notin {"idle", "save"} /\ pc'[p] # "save" /\ ev' = ev /\ batch' = batch
        /\ pc'[p] \in {"call", "write"} => pc[p] = "call" /\ job' = job
    BY <1>7 DEF Reconcile, HotSkip, HotDone, CallReturns, CallRaises, WriteRow, TypeOK
  <2>2. QED
    BY <1>0, <2>1 DEF NoOrphans
<1>8. CASE Claim(p)
  <2>1. pc[p] = "claim" /\ pc'[p] = "deliver" /\ ev' = ev /\ batch'[p] \subseteq Eligible
    BY <1>8 DEF Claim, TypeOK
  <2>2. \A r \in Eligible : r \in Deliveries /\ Exists(r)
    BY DEF Eligible, Exists
  <2>3. QED
    BY <1>0, <2>1, <2>2 DEF NoOrphans
<1>9. ASSUME NEW r \in Deliveries,
             DeliverCall(p, r) \/ DeliverLookupFails(p, r) \/ DeliverUnregistered(p, r)
      PROVE  OK
  <2>1. /\ pc[p] = "deliver" /\ pc'[p] \in {"call", "write"} /\ ev' = ev
        /\ r \in batch[p] /\ job'[p] = r /\ batch'[p] \subseteq batch[p]
    BY <1>9 DEF DeliverCall, DeliverLookupFails, DeliverUnregistered, Take, TypeOK
  <2>2. QED
    BY <1>0, <2>1 DEF NoOrphans
<1>10. ASSUME NEW q \in Procs, Step(q)
       PROVE  OK
  <2>1. q = p
    BY DEF SingleWriter
  <2>2. CASE \E c \in Consumers : TRUE
    BY <1>3, <1>4, <1>5, <1>6, <1>7, <1>8, <1>9, <1>10, <2>1, <2>2 DEF Step
  <2>3. CASE ~ \E c \in Consumers : TRUE
    <3>1. ~ \E r \in Deliveries : TRUE
      BY <2>3 DEF Deliveries
    <3>2. ~ (CallReturns(p) \/ CallRaises(p) \/ WriteRow(p))
      BY <3>1 DEF LocalOK, CallReturns, CallRaises, WriteRow
    <3>3. Reconcile(p) \/ HotDone(p) => OK
      BY <1>0 DEF Reconcile, HotDone, NoOrphans, TypeOK
    <3>4. QED
      BY <1>3, <1>4, <1>5, <1>8, <1>10, <2>1, <2>3, <3>1, <3>2, <3>3 DEF Step
  <2>4. QED
    BY <2>2, <2>3
<1>11. CASE Environment
  <2>1. ASSUME NEW q \in Procs, NEW e \in Events, Submit(q, e)
        PROVE  OK
    BY <1>2, <2>1 DEF SingleWriter
  <2>2. ASSUME NEW q \in Procs, Crash(q)
        PROVE  OK
    BY <1>3, <2>2 DEF SingleWriter
  <2>3. CASE UNCHANGED <<seqOf, procVars>>
    BY <1>1, <2>3 DEF procVars
  <2>4. QED
    BY <1>11, <2>1, <2>2, <2>3 DEF Environment, LeaseExpires, BackoffElapses,
       RequeueDeadLetter, MarkDeadLetter, UnregisterConsumer, RegisterConsumer, dbVars
<1>12. CASE UNCHANGED vars
  BY <1>1, <1>12 DEF vars, dbVars, procVars
<1>13. QED
  BY <1>10, <1>11, <1>12 DEF Next

\* A callback is only ever invoked for an event that is in the log.
LEMMA CommitBeforeEffectStep ==
  ASSUME TypeOK, LocalOK, SeqsDense, NoOrphans, CommitBeforeEffect, [Next]_vars
  PROVE  CommitBeforeEffect'
<1> SUFFICES ASSUME NEW r \in Deliveries, calls'[r] > 0
             PROVE  r[1] \in Committed'
  BY DEF CommitBeforeEffect
<1>0. r[1] \in Events
  BY DEF Deliveries
<1>1. CASE calls[r] > 0
  BY <1>0, <1>1, CommittedStays DEF CommitBeforeEffect
<1>2. CASE ~(calls[r] > 0)
  <2>1. \/ \E p \in Procs, c \in Consumers : HotCall(p, c) /\ r = <<ev[p], c>>
        \/ \E p \in Procs : DeliverCall(p, r)
    <3>1. calls'[r] # calls[r]
      BY <1>2
    <3>2. ASSUME NEW p \in Procs, Step(p)
          PROVE  \/ \E c \in Consumers : HotCall(p, c) /\ r = <<ev[p], c>>
                 \/ DeliverCall(p, r)
      <4>1. ASSUME NEW c \in Consumers, HotCall(p, c)
            PROVE  r = <<ev[p], c>>
        BY <3>1, <4>1 DEF HotCall, CountCall, TypeOK
      <4>2. ASSUME NEW q \in Deliveries, DeliverCall(p, q)
            PROVE  r = q
        BY <3>1, <4>2 DEF DeliverCall, CountCall, TypeOK
      <4>3. calls' = calls \/ (\E c \in Consumers : HotCall(p, c))
                           \/ (\E q \in Deliveries : DeliverCall(p, q))
        BY <3>2 DEF Step, SaveCommit, SaveConflict, Reconcile, HotSkip, HotDone, CallReturns,
           CallRaises, WriteRow, Claim, DeliverLookupFails, DeliverUnregistered, ProcessDone,
           ghostVars
      <4>4. QED
        BY <3>1, <4>1, <4>2, <4>3
    <3>3. ASSUME Environment
          PROVE  FALSE
      <4>1. ASSUME NEW q \in Deliveries, RequeueDeadLetter(q)
            PROVE  FALSE
        <5>1. calls'[r] = 0 /\ calls[r] \in Nat
          BY <3>1, <4>1 DEF RequeueDeadLetter, TypeOK
        <5>2. QED
          BY <5>1
      <4>2. calls' = calls \/ \E q \in Deliveries : RequeueDeadLetter(q)
        BY <3>3 DEF Environment, Submit, Crash, LeaseExpires, BackoffElapses, MarkDeadLetter,
           UnregisterConsumer, RegisterConsumer, ghostVars
      <4>3. QED
        BY <3>1, <4>1, <4>2
    <3>4. QED
      BY <3>1, <3>2, <3>3 DEF Next, vars, ghostVars
  <2>2. r[1] \in Committed
    <3>1. ASSUME NEW p \in Procs, NEW c \in Consumers, HotCall(p, c), r = <<ev[p], c>>
          PROVE  r[1] \in Committed
      BY <3>1 DEF HotCall, NoOrphans
    <3>2. ASSUME NEW p \in Procs, DeliverCall(p, r)
          PROVE  r[1] \in Committed
      BY <1>0, <3>2 DEF DeliverCall, Committed
    <3>3. QED
      BY <2>1, <3>1, <3>2
  <2>3. QED
    BY <1>0, <2>2, CommittedStays
<1>3. QED
  BY <1>1, <1>2

\* With a single writing process no consumer side effect comes before the commit
\* of its event, or without it.
THEOREM EffectsFollowCommit == SingleWriter /\ Spec => []CommitBeforeEffect
<1>1. Init => NoOrphans /\ CommitBeforeEffect
  BY DEF Init, NoOrphans, CommitBeforeEffect, Exists, AbsentRow
<1>2. SingleWriter /\ TypeOK /\ LocalOK /\ SeqsDense /\ NoOrphans /\ [Next]_vars => NoOrphans'
  BY RowHasEventStep, EventAtHandIsCommitted DEF NoOrphans
<1>3. TypeOK /\ LocalOK /\ SeqsDense /\ NoOrphans /\ CommitBeforeEffect /\ [Next]_vars
        => CommitBeforeEffect'
  BY CommitBeforeEffectStep
<1>4. SUFFICES ASSUME SingleWriter
               PROVE  Spec => []CommitBeforeEffect
  OBVIOUS
<1>5. QED
  BY <1>1, <1>2, <1>3, <1>4, TypeCorrect, SeqsAreDense, PTL DEF Spec

(***************************************************************************)
(* Attempts exceed the limit by the put-backs at most.                     *)
(***************************************************************************)

\* The put-back counter is written with the row, and reset by a requeue.
LEMMA PutBacksStep ==
  ASSUME TypeOK, LocalOK, [Next]_vars, NEW r \in Deliveries
  PROVE  \/ putBacks'[r] = putBacks[r]
         \/ \E p \in Procs : WriteRow(p)
         \/ RequeueDeadLetter(r)
<1>1. CASE UNCHANGED vars
  BY <1>1 DEF vars, ghostVars
<1>2. ASSUME NEW p \in Procs, Step(p)
      PROVE  putBacks' = putBacks \/ WriteRow(p)
  BY <1>2 DEF Step, SaveCommit, SaveConflict, Reconcile, HotCall, HotSkip, HotDone,
     CallReturns, CallRaises, Claim, DeliverCall, DeliverLookupFails, DeliverUnregistered,
     Take, ProcessDone, ghostVars
<1>3. CASE Environment
  <2>1. ASSUME NEW q \in Deliveries, RequeueDeadLetter(q)
        PROVE  putBacks'[r] = putBacks[r] \/ RequeueDeadLetter(r)
    BY <2>1 DEF RequeueDeadLetter, TypeOK
  <2>2. putBacks' = putBacks \/ \E q \in Deliveries : RequeueDeadLetter(q)
    BY <1>3 DEF Environment, Submit, Crash, LeaseExpires, BackoffElapses, MarkDeadLetter,
       UnregisterConsumer, RegisterConsumer, ghostVars
  <2>3. QED
    BY <2>1, <2>2
<1>4. QED
  BY <1>1, <1>2, <1>3 DEF Next

\* What a step may do to the attempts of a row and to its put-backs.
LEMMA AttemptsStep ==
  ASSUME TypeOK, LocalOK, PendingHasAttempt, AttemptsBounded, [Next]_vars,
         NEW r \in Deliveries
  PROVE  /\ rec'[r].attempts <= MaxAttempts + putBacks'[r]
         /\ rec'[r].state = "PENDING" => rec'[r].attempts < MaxAttempts + putBacks'[r]
<1> DEFINE OK == /\ rec'[r].attempts <= MaxAttempts + putBacks'[r]
                 /\ rec'[r].state = "PENDING" => rec'[r].attempts < MaxAttempts + putBacks'[r]
<1>0. /\ MaxAttempts \in Nat /\ MaxAttempts > 0 /\ rec[r] \in Row
      /\ rec[r].attempts \in Nat /\ putBacks[r] \in Nat
      /\ rec[r].attempts <= MaxAttempts + putBacks[r]
      /\ rec[r].state = "PENDING" => rec[r].attempts < MaxAttempts + putBacks[r]
  BY RowFields, ConstantsOK DEF AttemptsBounded, PendingHasAttempt, TypeOK
<1>a. putBacks'[r] = putBacks[r] \/ (\E p \in Procs : WriteRow(p)) \/ RequeueDeadLetter(r)
  BY PutBacksStep
<1>1. ASSUME putBacks'[r] = putBacks[r],
             rec'[r].attempts = rec[r].attempts,
             rec'[r].state = "PENDING" => rec[r].state = "PENDING"
      PROVE  OK
  BY <1>0, <1>1
<1>b. ASSUME putBacks'[r] \in Nat, rec'[r].attempts = 0
      PROVE  OK
  BY <1>0, <1>b
<1>2. ASSUME NEW p \in Procs, SaveCommit(p) \/ Reconcile(p)
      PROVE  OK
  <2>1. putBacks' = putBacks
    BY <1>2 DEF SaveCommit, Reconcile, ghostVars
  <2>2. rec'[r] = rec[r] \/ rec'[r].attempts = 0
    BY <1>2 DEF SaveCommit, Reconcile, WithDeliveries, NewRow
  <2>3. QED
    BY <1>0, <1>1, <1>b, <2>1, <2>2
<1>3. ASSUME NEW p \in Procs, WriteRow(p)
      PROVE  OK
  <2>1. CASE r # job[p]
    <3>1. rec'[r] = rec[r] /\ putBacks'[r] = putBacks[r]
      BY <1>3, <2>1 DEF WriteRow, TypeOK
    <3>2. QED
      BY <1>1, <3>1
  <2>2. CASE r = job[p]
    <3>1. rec'[r].attempts = rec[r].attempts /\ rec'[r].state \in {rec[r].state, upd[p]}
      BY <1>0, <1>3, <2>2 DEF WriteRow, TypeOK, Row
    <3>2. putBacks'[r] = IF upd[p] = "PENDING" THEN putBacks[r] + 1 ELSE putBacks[r]
      BY <1>3, <2>2 DEF WriteRow, TypeOK
    <3>3. CASE upd[p] = "PENDING"
      <4>1. putBacks'[r] = putBacks[r] + 1
        BY <3>2, <3>3
      <4>2. QED
        BY <1>0, <3>1, <4>1
    <3>4. CASE upd[p] # "PENDING"
      BY <1>1, <3>1, <3>2, <3>4
    <3>5. QED
      BY <3>3, <3>4
  <2>3. QED
    BY <2>1, <2>2
<1>4. ASSUME NEW p \in Procs, Claim(p)
      PROVE  OK
  <2>0. putBacks' = putBacks
    BY <1>4 DEF Claim, ghostVars
  <2>1. PICK S \in SUBSET Eligible :
          rec'[r] = IF r \in Exhausted
                      THEN [rec[r] EXCEPT !.state = "DEAD_LETTER", !.aged = FALSE]
                    ELSE IF r \in S
                      THEN [rec[r] EXCEPT !.state = "IN_FLIGHT", !.attempts = @ + 1,
                                          !.aged = FALSE]
                    ELSE rec[r]
    BY <1>4 DEF Claim
  <2>2. CASE r \in Exhausted
    <3>1. rec'[r].attempts = rec[r].attempts /\ rec'[r].state = "DEAD_LETTER"
      BY <1>0, <2>1, <2>2 DEF Row
    <3>2. QED
      BY <1>1, <2>0, <3>1
  <2>3. CASE r \notin Exhausted /\ r \in S
    <3>1. rec[r].attempts < MaxAttempts + putBacks[r]
      <4>1. rec[r].state = "PENDING" \/ rec[r].attempts < MaxAttempts
        BY <2>3 DEF Eligible
      <4>2. QED
        BY <1>0, <4>1
    <3>2. rec'[r].attempts = rec[r].attempts + 1 /\ rec'[r].state = "IN_FLIGHT"
      BY <1>0, <2>1, <2>3 DEF Row
    <3>3. QED
      BY <1>0, <2>0, <3>1, <3>2
  <2>4. CASE r \notin Exhausted /\ r \notin S
    BY <1>1, <2>0, <2>1, <2>4
  <2>5. QED
    BY <2>2, <2>3, <2>4
<1>5. ASSUME NEW q \in Deliveries,
             LeaseExpires(q) \/ BackoffElapses(q) \/ RequeueDeadLetter(q) \/ MarkDeadLetter(q)
      PROVE  OK
  <2>1. CASE q # r
    <3>1. rec'[r] = rec[r]
      BY <1>5, <2>1, EnvironmentWrites DEF TypeOK
    <3>2. putBacks'[r] = putBacks[r]
      BY <1>5, <2>1 DEF TypeOK, LeaseExpires, BackoffElapses, RequeueDeadLetter,
         MarkDeadLetter, ghostVars
    <3>3. QED
      BY <1>1, <3>1, <3>2
  <2>2. CASE q = r /\ RequeueDeadLetter(r)
    <3>1. putBacks'[r] = 0 /\ rec'[r].attempts = 0
      BY <1>0, <2>2 DEF RequeueDeadLetter, TypeOK, Row
    <3>2. QED
      BY <1>b, <3>1
  <2>3. CASE q = r /\ ~RequeueDeadLetter(r)
    <3>1. /\ rec'[r].attempts = rec[r].attempts
          /\ rec'[r].state \in {rec[r].state, "DEAD_LETTER"}
      BY <1>0, <1>5, <2>3 DEF LeaseExpires, BackoffElapses, MarkDeadLetter, TypeOK, Row
    <3>2. putBacks' = putBacks
      BY <1>5, <2>3 DEF LeaseExpires, BackoffElapses, MarkDeadLetter, ghostVars
    <3>3. QED
      BY <1>1, <3>1, <3>2
  <2>4. QED
    BY <2>1, <2>2, <2>3
<1>6. CASE rec' = rec
  <2>1. CASE putBacks'[r] = putBacks[r]
    BY <1>1, <1>6, <2>1
  <2>2. QED
    BY <1>3, <1>5, <1>a, <2>1
<1>7. QED
  BY <1>2, <1>3, <1>4, <1>5, <1>6, WhoWritesRows

\* For any number of processes, and of consumers that come and go, the attempts of a
\* record exceed max_attempts by at most the number of times it was put back.
THEOREM AttemptsStayBounded == Spec => []AttemptsBounded
<1>1. Init => PendingHasAttempt /\ AttemptsBounded
  BY ConstantsOK DEF Init, PendingHasAttempt, AttemptsBounded, AbsentRow
<1>2. TypeOK /\ LocalOK /\ PendingHasAttempt /\ AttemptsBounded /\ [Next]_vars
        => PendingHasAttempt' /\ AttemptsBounded'
  BY AttemptsStep DEF PendingHasAttempt, AttemptsBounded
<1>3. QED
  BY <1>1, <1>2, TypeCorrect, PTL DEF Spec

(***************************************************************************)
(* Nothing that is claimed is stranded, with any number of processes.      *)
(***************************************************************************)

\* A batch is in hand only while its records are delivered one by one.
BatchInHand ==
  \A p \in Procs :
    /\ batch[p] # {} => pc[p] = "deliver" \/ (pc[p] \in {"call", "write"} /\ via[p] = "deliver")
    /\ upd[p] # "IN_FLIGHT"

\* Who holds a record: it is still in the batch, or its outcome is to come.
Holds(p, r) ==
  \/ r \in batch[p]
  \/ job[p] = r /\ (pc[p] = "call" \/ (pc[p] = "write" /\ upd[p] # "KEEP"))

InFlightHasHolder ==
  crashes = 0 =>
    \A r \in Deliveries : rec[r].state = "IN_FLIGHT" => \E p \in Procs : Holds(p, r)


LEMMA BatchInHandStep ==
  ASSUME TypeOK, LocalOK, BatchInHand, [Next]_vars, NEW p \in Procs
  PROVE  /\ batch'[p] # {} =>
              pc'[p] = "deliver" \/ (pc'[p] \in {"call", "write"} /\ via'[p] = "deliver")
         /\ upd'[p] # "IN_FLIGHT"
<1> DEFINE OK == /\ batch'[p] # {} =>
                      pc'[p] = "deliver" \/ (pc'[p] \in {"call", "write"} /\ via'[p] = "deliver")
                 /\ upd'[p] # "IN_FLIGHT"
<1>1. ASSUME UNCHANGED <<pc, batch, via, upd>>
      PROVE  OK
  BY <1>1 DEF BatchInHand
<1>2. ASSUME NEW q \in Procs, Step(q)
      PROVE  OK
  <2>1. CASE p # q
    <3>1. pc'[p] = pc[p] /\ batch'[p] = batch[p] /\ via'[p] = via[p] /\ upd'[p] = upd[p]
      BY <1>2, <2>1 DEF Step, SaveCommit, SaveConflict, Reconcile, HotCall, HotSkip, HotDone,
         CallReturns, CallRaises, WriteRow, Claim, DeliverCall, DeliverLookupFails,
         DeliverUnregistered, Take, ReadRow, ProcessDone, ResetProcess, TypeOK
    <3>2. QED
      BY <3>1 DEF BatchInHand
  <2>2. CASE p = q
    <3>1. CASE SaveCommit(p) \/ SaveConflict(p) \/ Reconcile(p) \/ HotDone(p)
      BY <3>1 DEF SaveCommit, SaveConflict, Reconcile, HotDone, BatchInHand, TypeOK
    <3>2. CASE \E c \in Consumers : HotCall(p, c) \/ HotSkip(p, c)
      BY <3>2 DEF HotCall, HotSkip, BatchInHand, TypeOK
    <3>3. CASE CallReturns(p) \/ CallRaises(p)
      BY <3>3, FailureStateType DEF CallReturns, CallRaises, ReadRow, BatchInHand, TypeOK
    <3>4. CASE WriteRow(p) \/ Claim(p)
      BY <3>4 DEF WriteRow, Claim, BatchInHand, TypeOK
    <3>5. CASE \E r \in Deliveries :
                 DeliverCall(p, r) \/ DeliverLookupFails(p, r) \/ DeliverUnregistered(p, r)
      BY <3>5, FailureStateType DEF DeliverCall, DeliverLookupFails, DeliverUnregistered, Take,
         ReadRow, BatchInHand, TypeOK
    <3>6. CASE ProcessDone(p)
      BY <3>6 DEF ProcessDone, ResetProcess, BatchInHand, TypeOK
    <3>7. QED
      BY <1>2, <2>2, <3>1, <3>2, <3>3, <3>4, <3>5, <3>6 DEF Step
  <2>3. QED
    BY <2>1, <2>2
<1>3. ASSUME NEW q \in Procs, (\E e \in Events : Submit(q, e)) \/ Crash(q)
      PROVE  OK
  BY <1>3 DEF Submit, Crash, ResetProcess, BatchInHand, TypeOK
<1>4. CASE Environment
  <2>1. UNCHANGED procVars
        \/ \E q \in Procs : (\E e \in Events : Submit(q, e)) \/ Crash(q)
    BY <1>4 DEF Environment, LeaseExpires, BackoffElapses, RequeueDeadLetter, MarkDeadLetter,
       UnregisterConsumer, RegisterConsumer
  <2>2. QED
    BY <1>1, <1>3, <2>1 DEF procVars
<1>5. CASE UNCHANGED vars
  BY <1>1, <1>5 DEF vars, procVars
<1>6. QED
  BY <1>2, <1>4, <1>5 DEF Next

LEMMA BatchesInHand == Spec => []BatchInHand
<1>1. Init => BatchInHand
  BY DEF Init, BatchInHand
<1>2. TypeOK /\ LocalOK /\ BatchInHand /\ [Next]_vars => BatchInHand'
  BY BatchInHandStep DEF BatchInHand
<1>3. QED
  BY <1>1, <1>2, TypeCorrect, PTL DEF Spec

\* A process other than the one that steps holds what it held.
LEMMA OthersHold ==
  ASSUME TypeOK, NEW p \in Procs, NEW q \in Procs, p # q, Step(q), NEW r \in Deliveries
  PROVE  Holds(p, r)' <=> Holds(p, r)
<1>1. pc'[p] = pc[p] /\ job'[p] = job[p] /\ batch'[p] = batch[p] /\ upd'[p] = upd[p]
  BY OthersLeaveAlone
<1>2. QED
  BY <1>1 DEF Holds

\* The process that steps lets go of a record only by writing its outcome.
LEMMA StepperHolds ==
  ASSUME TypeOK, LocalOK, BatchInHand, NEW p \in Procs, Step(p), NEW r \in Deliveries,
         rec[r].state = "IN_FLIGHT", rec'[r].state = "IN_FLIGHT", Holds(p, r)
  PROVE  Holds(p, r)'
<1>1. CASE SaveCommit(p) \/ SaveConflict(p) \/ Reconcile(p) \/ HotDone(p)
  BY <1>1 DEF SaveCommit, SaveConflict, Reconcile, HotDone, Holds, TypeOK
<1>2. CASE \E c \in Consumers : HotCall(p, c) \/ HotSkip(p, c)
  BY <1>2 DEF HotCall, HotSkip, Holds, TypeOK
<1>3. CASE CallReturns(p) \/ CallRaises(p)
  BY <1>3, FailureStateType DEF CallReturns, CallRaises, ReadRow, Holds, TypeOK
<1>4. CASE WriteRow(p)
  <2>1. CASE r \in batch[p]
    BY <1>4, <2>1 DEF WriteRow, Holds
  <2>2. CASE job[p] = r /\ upd[p] # "KEEP"
    <3>1. rec'[r].state = upd[p]
      BY <1>4, <2>2, RowFields DEF WriteRow, TypeOK, Row
    <3>2. QED
      BY <3>1 DEF BatchInHand
  <2>3. QED
    BY <1>4, <2>1, <2>2 DEF Holds, WriteRow
<1>5. CASE Claim(p)
  BY <1>5 DEF Claim, Holds, BatchInHand
<1>6. CASE \E q \in Deliveries : DeliverCall(p, q)
  BY <1>6 DEF DeliverCall, Take, Holds, TypeOK
<1>7. CASE \E q \in Deliveries : DeliverLookupFails(p, q) \/ DeliverUnregistered(p, q)
  BY <1>7, FailureStateType DEF DeliverLookupFails, DeliverUnregistered, Take, ReadRow, Holds, TypeOK
<1>8. CASE ProcessDone(p)
  BY <1>8 DEF ProcessDone, Holds
<1>9. QED
  BY <1>1, <1>2, <1>3, <1>4, <1>5, <1>6, <1>7, <1>8 DEF Step

\* What a step may do to the state and the attempts of one row.
RowChange(r) ==
  \/ rec'[r].state = rec[r].state /\ rec'[r].attempts = rec[r].attempts
  \/ /\ \E p \in Procs : (SaveCommit(p) \/ Reconcile(p)) /\ r[1] = ev[p]
     /\ ~Exists(r) /\ rec'[r].state = "PENDING" /\ rec'[r].attempts = 0
  \/ /\ \E p \in Procs : WriteRow(p) /\ job[p] = r /\ upd[p] # "KEEP" /\ rec'[r].state = upd[p]
     /\ rec'[r].attempts = rec[r].attempts
  \/ /\ \E p \in Procs : Claim(p)
     /\ r \in Exhausted /\ rec'[r].state = "DEAD_LETTER" /\ rec'[r].attempts = rec[r].attempts
  \/ /\ \E p \in Procs : Claim(p) /\ r \in batch'[p]
     /\ r \in Eligible /\ rec'[r].state = "IN_FLIGHT" /\ rec'[r].attempts = rec[r].attempts + 1
  \/ /\ RequeueDeadLetter(r)
     /\ rec[r].state = "DEAD_LETTER" /\ rec'[r].state = "PENDING" /\ rec'[r].attempts = 0
  \/ /\ MarkDeadLetter(r)
     /\ rec'[r].state = "DEAD_LETTER" /\ rec'[r].attempts = rec[r].attempts

LEMMA RowsChange ==
  ASSUME TypeOK, LocalOK, [Next]_vars, NEW r \in Deliveries
  PROVE  RowChange(r)
<1>0. rec[r] \in Row
  BY RowFields
<1>1. ASSUME rec'[r] = rec[r]
      PROVE  RowChange(r)
  BY <1>1 DEF RowChange
<1>2. ASSUME NEW p \in Procs, SaveCommit(p) \/ Reconcile(p)
      PROVE  RowChange(r)
  <2>1. rec' = WithDeliveries(ev[p])
    BY <1>2 DEF SaveCommit, Reconcile
  <2>2. CASE r[1] = ev[p] /\ ~Exists(r)
    BY <1>2, <2>1, <2>2 DEF WithDeliveries, NewRow, RowChange
  <2>3. CASE ~(r[1] = ev[p] /\ ~Exists(r))
    BY <1>1, <2>1, <2>3 DEF WithDeliveries
  <2>4. QED
    BY <2>2, <2>3
<1>3. ASSUME NEW p \in Procs, WriteRow(p)
      PROVE  RowChange(r)
  <2>1. CASE r # job[p]
    BY <1>1, <1>3, <2>1 DEF WriteRow, TypeOK
  <2>2. CASE r = job[p]
    <3>1. /\ rec'[r].state = IF upd[p] = "KEEP" THEN rec[r].state ELSE upd[p]
          /\ rec'[r].attempts = rec[r].attempts
      BY <1>0, <1>3, <2>2 DEF WriteRow, TypeOK, Row
    <3>2. QED
      BY <1>3, <2>2, <3>1 DEF RowChange
  <2>3. QED
    BY <2>1, <2>2
<1>4. ASSUME NEW p \in Procs, Claim(p)
      PROVE  RowChange(r)
  <2>1. PICK S \in SUBSET Eligible :
          /\ batch' = [batch EXCEPT ![p] = S]
          /\ rec'[r] = IF r \in Exhausted
                         THEN [rec[r] EXCEPT !.state = "DEAD_LETTER", !.aged = FALSE]
                       ELSE IF r \in S
                         THEN [rec[r] EXCEPT !.state = "IN_FLIGHT", !.attempts = @ + 1,
                                             !.aged = FALSE]
                       ELSE rec[r]
    BY <1>4 DEF Claim
  <2>2. CASE r \in Exhausted
    <3>1. rec'[r].state = "DEAD_LETTER" /\ rec'[r].attempts = rec[r].attempts
      BY <1>0, <2>1, <2>2 DEF Row
    <3>2. QED
      BY <1>4, <2>2, <3>1 DEF RowChange
  <2>3. CASE r \notin Exhausted /\ r \in S
    <3>1. rec'[r].state = "IN_FLIGHT" /\ r \in batch'[p] /\ r \in Eligible
          /\ rec'[r].attempts = rec[r].attempts + 1
      BY <1>0, <2>1, <2>3 DEF Row, TypeOK
    <3>2. QED
      BY <1>4, <3>1 DEF RowChange
  <2>4. CASE r \notin Exhausted /\ r \notin S
    BY <1>1, <2>1, <2>4
  <2>5. QED
    BY <2>2, <2>3, <2>4
<1>5. ASSUME NEW q \in Deliveries,
             LeaseExpires(q) \/ BackoffElapses(q) \/ RequeueDeadLetter(q) \/ MarkDeadLetter(q)
      PROVE  RowChange(r)
  <2>1. CASE q # r
    <3>1. rec'[r] = rec[r]
      BY <1>5, <2>1, EnvironmentWrites DEF TypeOK
    <3>2. QED
      BY <1>1, <3>1
  <2>2. CASE q = r /\ (LeaseExpires(r) \/ BackoffElapses(r))
    BY <1>0, <2>2 DEF LeaseExpires, BackoffElapses, RowChange, TypeOK, Row
  <2>3. CASE q = r /\ RequeueDeadLetter(r)
    <3>1. /\ rec[r].state = "DEAD_LETTER"
          /\ rec'[r].state = "PENDING" /\ rec'[r].attempts = 0
      BY <1>0, <2>3 DEF RequeueDeadLetter, TypeOK, Row
    <3>2. QED
      BY <2>3, <3>1 DEF RowChange
  <2>4. CASE q = r /\ MarkDeadLetter(r)
    <3>1. rec'[r].state = "DEAD_LETTER" /\ rec'[r].attempts = rec[r].attempts
      BY <1>0, <2>4 DEF MarkDeadLetter, TypeOK, Row
    <3>2. QED
      BY <2>4, <3>1 DEF RowChange
  <2>5. QED
    BY <1>5, <2>1, <2>2, <2>3, <2>4
<1>6. QED
  BY <1>1, <1>2, <1>3, <1>4, <1>5, WhoWritesRows

LEMMA InFlightHasHolderStep ==
  ASSUME TypeOK, LocalOK, BatchInHand, InFlightHasHolder, [Next]_vars
  PROVE  InFlightHasHolder'
<1> SUFFICES ASSUME crashes' = 0, NEW r \in Deliveries, rec'[r].state = "IN_FLIGHT"
             PROVE  \E p \in Procs : Holds(p, r)'
  BY DEF InFlightHasHolder
<1>1. CASE \E p \in Procs : Claim(p) /\ r \in batch'[p]
  BY <1>1 DEF Holds
<1>2. CASE rec[r].state = "IN_FLIGHT"
  <2>1. crashes = 0 /\ ~ \E q \in Procs : Crash(q)
    <3>1. crashes \in Nat
      BY DEF TypeOK
    <3>2. ~ \E q \in Procs : Crash(q)
      BY <3>1 DEF Crash
    <3>3. ASSUME NEW q \in Procs, Step(q)
          PROVE  crashes' = crashes
      BY <3>3 DEF Step, SaveCommit, SaveConflict, Reconcile, HotCall, HotSkip, HotDone,
         CallReturns, CallRaises, WriteRow, Claim, DeliverCall, DeliverLookupFails,
         DeliverUnregistered, Take, ProcessDone
    <3>4. CASE Environment
      BY <3>2, <3>4 DEF Environment, Submit, LeaseExpires, BackoffElapses, RequeueDeadLetter,
         MarkDeadLetter, UnregisterConsumer, RegisterConsumer
    <3>5. QED
      BY <3>2, <3>3, <3>4 DEF Next, vars
  <2>2. PICK p \in Procs : Holds(p, r)
    BY <1>2, <2>1 DEF InFlightHasHolder
  <2>3. ASSUME NEW q \in Procs, Step(q)
        PROVE  Holds(p, r)'
    BY <1>2, <2>2, <2>3, OthersHold, StepperHolds
  <2>4. ASSUME NEW q \in Procs, NEW e \in Events, Submit(q, e)
        PROVE  Holds(p, r)'
    BY <2>2, <2>4 DEF Submit, Holds, TypeOK
  <2>5. ASSUME UNCHANGED procVars
        PROVE  Holds(p, r)'
    BY <2>2, <2>5 DEF procVars, Holds
  <2>6. CASE Environment
    BY <2>1, <2>4, <2>5, <2>6 DEF Environment, LeaseExpires, BackoffElapses, RequeueDeadLetter,
       MarkDeadLetter, UnregisterConsumer, RegisterConsumer
  <2>7. QED
    BY <2>3, <2>5, <2>6 DEF Next, vars
<1>3. QED
  BY <1>1, <1>2, RowsChange DEF RowChange, BatchInHand

\* A record that is IN_FLIGHT is in the hands of a process that has still to deliver it or to write
\* its outcome, unless a call was cut short: for any number of processes that reclaim each other's
\* records, and consumers that come and go.
THEOREM NothingIsStranded == Spec => []InFlightIsHeld
<1>1. Init => InFlightHasHolder
  BY DEF Init, InFlightHasHolder, AbsentRow
<1>3. TypeOK /\ LocalOK /\ BatchInHand /\ InFlightHasHolder /\ [Next]_vars => InFlightHasHolder'
  BY InFlightHasHolderStep
<1>4. InFlightHasHolder => InFlightIsHeld
  BY DEF InFlightHasHolder, InFlightIsHeld, Holds
<1>5. QED
  BY <1>1, <1>3, <1>4, TypeCorrect, BatchesInHand, PTL DEF Spec

(***************************************************************************)
(* One process, no event handed in twice: settled is final.                *)
(***************************************************************************)

SoleOwner == SingleWriter /\ Redelivered = {} /\ "dead_letter" \notin AdminActs

\* What the process has in hand is still owed: the rows of a fresh event wait for its hot path, those
\* of a batch for the recovery pass, and the one at hand for its outcome.
HandOf(p) ==
  /\ pc[p] # "reconcile"
  /\ pc[p] # "idle" => ev[p] \in submitted
  /\ pc[p] = "save" => ev[p] \notin Committed
  /\ hot[p] # {} => pc[p] = "hot" \/ (pc[p] \in {"call", "write"} /\ via[p] = "hot")
  /\ \A c \in hot[p] : rec[<<ev[p], c>>].state = "PENDING"
  /\ \A r \in batch[p] : rec[r].state = "IN_FLIGHT"
  /\ pc[p] \in {"call", "write"} =>
       /\ rec[job[p]].state \in {"PENDING", "IN_FLIGHT"}
       /\ job[p] \notin batch[p]
       /\ \A c \in hot[p] : job[p] # <<ev[p], c>>

InHand == Committed \subseteq submitted /\ \A p \in Procs : HandOf(p)

\* A failure is recorded as FAILED only of a record with an attempt left.
FailureInHand ==
  \A p \in Procs : pc[p] = "write" /\ upd[p] = "FAILED" => rec[job[p]].attempts < MaxAttempts

\* A failure under way stays one that may be retried.
LEMMA FailureInHandStep ==
  ASSUME SingleWriter, TypeOK, LocalOK, FailureInHand, [Next]_vars,
         NEW p \in Procs, pc'[p] = "write", upd'[p] = "FAILED"
  PROVE  rec'[job'[p]].attempts < MaxAttempts
<1> DEFINE Kept == rec'[job'[p]].attempts < MaxAttempts
<1>0. MaxAttempts \in Nat \ {0}
  BY ConstantsOK DEF ConstantsOK
<1>1. CASE CallRaises(p)
  <2>1. job[p] \in Deliveries
    BY <1>1 DEF CallRaises, LocalOK
  <2>2. rec[job[p]].attempts \in Nat
    BY <2>1, RowFields
  <2>3. FailureState(job[p]) = "FAILED" /\ rec' = rec /\ job' = job
    BY <1>1 DEF CallRaises, ReadRow, TypeOK, dbVars
  <2>4. QED
    BY <1>0, <2>2, <2>3 DEF FailureState
<1>2. ASSUME NEW r \in Deliveries, DeliverLookupFails(p, r)
      PROVE  Kept
  <2>1. rec[r].attempts \in Nat
    BY RowFields
  <2>2. FailureState(r) = "FAILED" /\ rec' = rec /\ job'[p] = r
    BY <1>2 DEF DeliverLookupFails, Take, ReadRow, TypeOK, dbVars
  <2>3. QED
    BY <1>0, <2>1, <2>2 DEF FailureState
<1>3. ASSUME NEW q \in Procs, Step(q)
      PROVE  CallRaises(p) \/ \E r \in Deliveries : DeliverLookupFails(p, r)
  <2>1. q = p
    BY DEF SingleWriter
  <2>2. ~CallReturns(p) /\ ~ \E r \in Deliveries : DeliverUnregistered(p, r)
    BY DEF CallReturns, DeliverUnregistered, ReadRow, TypeOK
  <2>3. ~ \/ SaveCommit(p) \/ SaveConflict(p) \/ Reconcile(p) \/ HotDone(p) \/ Claim(p)
          \/ ProcessDone(p) \/ WriteRow(p)
          \/ \E c \in Consumers : HotCall(p, c) \/ HotSkip(p, c)
          \/ \E r \in Deliveries : DeliverCall(p, r)
    BY DEF SaveCommit, SaveConflict, Reconcile, HotDone, Claim, ProcessDone, ResetProcess,
       WriteRow, HotCall, HotSkip, DeliverCall, TypeOK
  <2>4. QED
    BY <1>3, <2>1, <2>2, <2>3 DEF Step
<1>4. ASSUME UNCHANGED procVars, ~ \E q \in Procs : Step(q)
      PROVE  Kept
  <2>1. /\ pc[p] = "write" /\ upd[p] = "FAILED" /\ job'[p] = job[p]
        /\ job[p] \in Deliveries
    BY <1>4 DEF procVars, LocalOK
  <2>2. rec'[job[p]].attempts \in {0, rec[job[p]].attempts}
    BY <1>4, <2>1, RowsChange DEF RowChange, Step
  <2>3. QED
    BY <1>0, <2>1, <2>2 DEF FailureInHand
<1>5. ASSUME NEW q \in Procs, (\E e \in Events : Submit(q, e)) \/ Crash(q)
      PROVE  FALSE
  <2>1. q = p
    BY DEF SingleWriter
  <2>2. QED
    BY <1>5, <2>1 DEF Submit, Crash, ResetProcess, TypeOK
<1>6. CASE ~ \E q \in Procs : Step(q)
  <2>1. UNCHANGED procVars
    BY <1>5, <1>6 DEF Next, vars, Environment, LeaseExpires, BackoffElapses, RequeueDeadLetter,
       MarkDeadLetter, UnregisterConsumer, RegisterConsumer
  <2>2. QED
    BY <1>4, <1>6, <2>1
<1>7. QED
  BY <1>1, <1>2, <1>3, <1>6

\* With a single writing process a FAILED record always has an attempt left, also when its consumers
\* come and go and administrators requeue or retire it meanwhile: none is stuck.
THEOREM FailuresAreRetryable == SingleWriter /\ Spec => []FailedIsRetryable
<1>1. Init => FailureInHand /\ FailedIsRetryable
  BY DEF Init, FailureInHand, FailedIsRetryable, AbsentRow
<1>2. SingleWriter /\ TypeOK /\ LocalOK /\ FailureInHand /\ [Next]_vars => FailureInHand'
  BY FailureInHandStep DEF FailureInHand
<1>3. TypeOK /\ LocalOK /\ FailureInHand /\ FailedIsRetryable /\ [Next]_vars
        => FailedIsRetryable'
  <2> SUFFICES ASSUME TypeOK, LocalOK, FailureInHand, FailedIsRetryable, [Next]_vars,
                      NEW r \in Deliveries, rec'[r].state = "FAILED"
               PROVE  rec'[r].attempts < MaxAttempts
    BY DEF FailedIsRetryable
  <2>1. \/ rec'[r].state = rec[r].state /\ rec'[r].attempts = rec[r].attempts
        \/ /\ \E p \in Procs : WriteRow(p) /\ job[p] = r /\ rec'[r].state = upd[p]
           /\ rec'[r].attempts = rec[r].attempts
    BY RowsChange DEF RowChange
  <2>2. QED
    BY <2>1 DEF FailedIsRetryable, FailureInHand, WriteRow
<1>4. SUFFICES ASSUME SingleWriter
               PROVE  Spec => []FailedIsRetryable
  OBVIOUS
<1>5. QED
  BY <1>1, <1>2, <1>3, <1>4, TypeCorrect, PTL DEF Spec

(***************************************************************************)
(* What the sole owner of the database has in hand.                        *)
(***************************************************************************)

LEMMA InHandSave ==
  ASSUME SoleOwner, TypeOK, LocalOK, NoOrphans, BatchInHand, InHand, NEW p \in Procs,
         SaveCommit(p) \/ SaveConflict(p) \/ Reconcile(p)
  PROVE  HandOf(p)'
<1>1. ~SaveConflict(p) /\ ~Reconcile(p)
  BY DEF SaveConflict, Reconcile, Conflict, Committed, NoOrphans, InHand, HandOf, LocalOK, TypeOK
<1>2. SaveCommit(p) /\ ev[p] \in Events /\ batch[p] = {}
  BY <1>1 DEF SaveCommit, LocalOK, BatchInHand
<1>3. ASSUME NEW c \in Consumers
      PROVE  rec'[<<ev[p], c>>].state = "PENDING"
  <2>1. <<ev[p], c>> \in Deliveries
    BY <1>2 DEF Deliveries
  <2>2. ~Exists(<<ev[p], c>>)
    BY <1>2, <2>1 DEF NoOrphans, InHand, HandOf, SaveCommit
  <2>3. QED
    BY <1>2, <2>1, <2>2 DEF SaveCommit, WithDeliveries, NewRow
<1>4. /\ pc'[p] = "hot" /\ hot'[p] = Consumers /\ batch'[p] = {}
      /\ ev'[p] = ev[p] /\ submitted' = submitted /\ ev[p] \in submitted
  BY <1>2 DEF SaveCommit, InHand, HandOf, TypeOK
<1>5. QED
  BY <1>3, <1>4 DEF HandOf

LEMMA InHandCalls ==
  ASSUME SoleOwner, TypeOK, LocalOK, BatchInHand, InHand, NEW p \in Procs,
         \/ HotDone(p) \/ CallReturns(p) \/ CallRaises(p)
         \/ \E c \in Consumers : HotCall(p, c) \/ HotSkip(p, c)
         \/ \E r \in Deliveries :
              DeliverCall(p, r) \/ DeliverLookupFails(p, r) \/ DeliverUnregistered(p, r)
  PROVE  HandOf(p)'
<1>0. rec' = rec /\ seqOf' = seqOf /\ submitted' = submitted
  BY DEF HotDone, CallReturns, CallRaises, HotCall, HotSkip, DeliverCall, DeliverLookupFails,
     DeliverUnregistered, Take, dbVars
<1> USE DEF HandOf, InHand, TypeOK
<1>1. CASE HotDone(p)
  BY <1>0, <1>1 DEF HotDone, BatchInHand
<1>2. CASE CallReturns(p) \/ CallRaises(p)
  BY <1>0, <1>2 DEF CallReturns, CallRaises, ReadRow
<1>3. ASSUME NEW c \in Consumers, HotCall(p, c)
      PROVE  HandOf(p)'
  <2>1. /\ pc'[p] = "call" /\ hot'[p] = hot[p] \ {c} /\ job'[p] = <<ev[p], c>> /\ via'[p] = "hot"
        /\ ev'[p] = ev[p] /\ batch'[p] = {} /\ c \in hot[p]
    BY <1>3 DEF HotCall, BatchInHand
  <2>2. pc[p] = "hot"
    BY <1>3 DEF HotCall
  <2>3. QED
    BY <1>0, <2>1, <2>2
<1>4. ASSUME NEW c \in Consumers, HotSkip(p, c)
      PROVE  HandOf(p)'
  BY <1>0, <1>4 DEF HotSkip, BatchInHand
<1>5. ASSUME NEW r \in Deliveries,
             DeliverCall(p, r) \/ DeliverLookupFails(p, r) \/ DeliverUnregistered(p, r)
      PROVE  HandOf(p)'
  <2>1. /\ pc[p] = "deliver" /\ pc'[p] \in {"call", "write"} /\ r \in batch[p]
        /\ batch'[p] = batch[p] \ {r} /\ job'[p] = r /\ ev'[p] = ev[p] /\ hot'[p] = hot[p]
    BY <1>5 DEF DeliverCall, DeliverLookupFails, DeliverUnregistered, Take
  <2>2. hot[p] = {}
    BY <2>1
  <2>3. QED
    BY <1>0, <2>1, <2>2
<1>6. QED
  BY <1>1, <1>2, <1>3, <1>4, <1>5

LEMMA InHandWrites ==
  ASSUME SoleOwner, TypeOK, LocalOK, BatchInHand, InHand, NEW p \in Procs,
         WriteRow(p) \/ Claim(p) \/ ProcessDone(p)
  PROVE  HandOf(p)'
<1>1. CASE WriteRow(p)
  <2>1. /\ pc[p] = "write" /\ pc'[p] = via[p] /\ hot'[p] = hot[p] /\ batch'[p] = batch[p]
        /\ ev'[p] = ev[p] /\ seqOf' = seqOf /\ submitted' = submitted /\ via'[p] = via[p]
        /\ via[p] \in {"hot", "deliver"}
    BY <1>1 DEF WriteRow, TypeOK
  <2>2. \A r \in Deliveries : r # job[p] => rec'[r] = rec[r]
    BY <1>1 DEF WriteRow, TypeOK
  <2>3. \A c \in hot[p] : <<ev[p], c>> \in Deliveries
    BY <2>1 DEF LocalOK, TypeOK, Deliveries
  <2>4. batch[p] \subseteq Deliveries
    BY DEF TypeOK
  <2>5. QED
    BY <2>1, <2>2, <2>3, <2>4 DEF HandOf, InHand
<1>2. CASE Claim(p)
  <2>1. /\ pc[p] = "claim" /\ pc'[p] = "deliver" /\ hot'[p] = hot[p] /\ ev'[p] = ev[p]
        /\ seqOf' = seqOf /\ submitted' = submitted
    BY <1>2 DEF Claim, TypeOK
  <2>2. hot[p] = {}
    BY <2>1 DEF InHand, HandOf
  <2>3. ASSUME NEW r \in batch'[p]
        PROVE  rec'[r].state = "IN_FLIGHT"
    <3>1. PICK S \in SUBSET Eligible :
            /\ batch' = [batch EXCEPT ![p] = S]
            /\ rec' = [q \in Deliveries |->
                 IF q \in Exhausted
                   THEN [rec[q] EXCEPT !.state = "DEAD_LETTER", !.aged = FALSE]
                 ELSE IF q \in S
                   THEN [rec[q] EXCEPT !.state = "IN_FLIGHT", !.attempts = @ + 1, !.aged = FALSE]
                 ELSE rec[q]]
      BY <1>2 DEF Claim
    <3>2. r \in S /\ r \in Deliveries /\ r \in Eligible
      BY <3>1 DEF TypeOK, Eligible
    <3>3. rec[r] \in Row /\ rec[r].attempts \in Nat /\ MaxAttempts \in Nat
      BY <3>2, RowFields, ConstantsOK DEF ConstantsOK
    <3>4. r \notin Exhausted
      BY <3>2, <3>3 DEF Eligible, Exhausted
    <3>5. QED
      BY <3>1, <3>2, <3>3, <3>4 DEF Row
  <2>4. QED
    BY <2>1, <2>2, <2>3 DEF HandOf, InHand
<1>3. CASE ProcessDone(p)
  BY <1>3 DEF ProcessDone, ResetProcess, HandOf, TypeOK
<1>4. QED
  BY <1>1, <1>2, <1>3

LEMMA InHandEnvironment ==
  ASSUME SoleOwner, TypeOK, LocalOK, BatchInHand, InHand, NEW p \in Procs,
         Environment \/ UNCHANGED vars
  PROVE  HandOf(p)'
<1>1. ASSUME NEW q \in Procs, NEW e \in Events, Submit(q, e)
      PROVE  HandOf(p)'
  <2>1. q = p
    BY DEF SoleOwner, SingleWriter
  <2>2. /\ pc[p] = "idle" /\ pc'[p] = "save" /\ ev'[p] = e /\ e \in submitted' /\ e \notin submitted
        /\ hot'[p] = hot[p] /\ batch'[p] = batch[p] /\ seqOf' = seqOf /\ rec' = rec
    BY <1>1, <2>1 DEF Submit, SoleOwner, TypeOK, dbVars
  <2>3. hot[p] = {} /\ batch[p] = {} /\ e \notin Committed
    BY <2>2 DEF InHand, HandOf, BatchInHand
  <2>4. QED
    BY <2>2, <2>3 DEF HandOf, Committed
<1>2. ASSUME NEW q \in Procs, Crash(q)
      PROVE  HandOf(p)'
  <2>1. q = p
    BY DEF SoleOwner, SingleWriter
  <2>2. QED
    BY <1>2, <2>1 DEF Crash, ResetProcess, HandOf, TypeOK
<1>3. ASSUME UNCHANGED <<procVars, seqOf, submitted>>,
             \A r \in Deliveries : rec[r].state \in {"PENDING", "IN_FLIGHT"} =>
                                     rec'[r].state = rec[r].state
      PROVE  HandOf(p)'
  <2>1. \A c \in hot[p] : <<ev[p], c>> \in Deliveries
    BY DEF LocalOK, TypeOK, Deliveries, InHand, HandOf
  <2>2. batch[p] \subseteq Deliveries
    BY DEF TypeOK
  <2>3. pc[p] \in {"call", "write"} => job[p] \in Deliveries
    BY DEF LocalOK
  <2>4. HandOf(p)
    BY DEF HandOf, InHand
  <2>5. QED
    BY <1>3, <2>1, <2>2, <2>3, <2>4 DEF HandOf, procVars, Committed
<1>4. CASE (\E r \in Deliveries : LeaseExpires(r) \/ BackoffElapses(r) \/ RequeueDeadLetter(r)
                                    \/ MarkDeadLetter(r))
  <2>1. UNCHANGED <<procVars, seqOf, submitted>>
    BY <1>4 DEF LeaseExpires, BackoffElapses, RequeueDeadLetter, MarkDeadLetter
  <2>2. ASSUME NEW r \in Deliveries, rec[r].state \in {"PENDING", "IN_FLIGHT"}
        PROVE  rec'[r].state = rec[r].state
    <3>1. ASSUME NEW q \in Deliveries, LeaseExpires(q) \/ BackoffElapses(q) \/ RequeueDeadLetter(q)
          PROVE  rec'[r].state = rec[r].state
      <4>1. rec[r] \in Row /\ rec[q] \in Row
        BY DEF TypeOK
      <4>2. rec[q].state \in {"IN_FLIGHT", "FAILED", "DEAD_LETTER"} /\ rec \in [Deliveries -> Row]
        BY <3>1 DEF LeaseExpires, BackoffElapses, RequeueDeadLetter, TypeOK
      <4>3. CASE q # r
        BY <3>1, <4>2, <4>3 DEF LeaseExpires, BackoffElapses, RequeueDeadLetter
      <4>4. CASE q = r /\ rec' = [rec EXCEPT ![q].aged = TRUE]
        BY <4>1, <4>2, <4>4 DEF Row
      <4>5. QED
        BY <2>2, <3>1, <4>3, <4>4 DEF LeaseExpires, BackoffElapses, RequeueDeadLetter
    <3>2. ~ \E q \in Deliveries : MarkDeadLetter(q)
      BY DEF MarkDeadLetter, SoleOwner
    <3>3. QED
      BY <1>4, <3>1, <3>2
  <2>3. QED
    BY <1>3, <2>1, <2>2
<1>5. CASE (\E q \in Procs, c \in Consumers : UnregisterConsumer(q, c) \/ RegisterConsumer(q, c))
           \/ UNCHANGED vars
  BY <1>3, <1>5 DEF UnregisterConsumer, RegisterConsumer, vars, dbVars
<1>6. QED
  BY <1>1, <1>2, <1>4, <1>5 DEF Environment

LEMMA InHandStep ==
  ASSUME SoleOwner, TypeOK, LocalOK, NoOrphans, BatchInHand, InHand, [Next]_vars
  PROVE  InHand'
<1>1. ASSUME NEW p \in Procs
      PROVE  HandOf(p)'
  <2>1. ASSUME NEW q \in Procs, Step(q)
        PROVE  HandOf(p)'
    <3>1. q = p
      BY DEF SoleOwner, SingleWriter
    <3>2. QED
      BY <2>1, <3>1, InHandSave, InHandCalls, InHandWrites DEF Step
  <2>2. QED
    BY <2>1, InHandEnvironment DEF Next
<1>2. Committed' \subseteq submitted'
  <2>1. submitted \subseteq submitted'
    <3>1. ASSUME NEW q \in Procs, Step(q)
          PROVE  submitted' = submitted
      BY <3>1 DEF Step, SaveCommit, SaveConflict, Reconcile, HotCall, HotSkip, HotDone,
         CallReturns, CallRaises, WriteRow, Claim, DeliverCall, DeliverLookupFails,
         DeliverUnregistered, Take, ProcessDone
    <3>2. QED
      BY <3>1 DEF Next, Environment, Submit, Crash, LeaseExpires, BackoffElapses, vars,
         RequeueDeadLetter, MarkDeadLetter, UnregisterConsumer, RegisterConsumer
  <2>2. CASE seqOf' = seqOf
    BY <2>1, <2>2 DEF Committed, InHand, HandOf
  <2>3. ASSUME NEW q \in Procs, SaveCommit(q)
        PROVE  Committed' \subseteq submitted'
    <3>1. ev[q] \in submitted
      BY <2>3 DEF SaveCommit, InHand, HandOf
    <3>2. Committed' \subseteq Committed \cup {ev[q]}
      BY <2>3 DEF SaveCommit, Committed, TypeOK
    <3>3. QED
      BY <2>1, <3>1, <3>2 DEF InHand, HandOf
  <2>4. QED
    BY <2>2, <2>3, WhoWritesLog
<1>3. QED
  BY <1>1, <1>2 DEF InHand, HandOf

LEMMA InHandHolds == SoleOwner /\ Spec => [](InHand /\ NoOrphans /\ BatchInHand)
<1>1. Init => InHand /\ NoOrphans
  BY DEF Init, InHand, HandOf, NoOrphans, Committed, Exists, AbsentRow
<1>2. SUFFICES ASSUME SoleOwner
               PROVE  Spec => [](InHand /\ NoOrphans /\ BatchInHand)
  OBVIOUS
<1>3. TypeOK /\ LocalOK /\ SeqsDense /\ NoOrphans /\ [Next]_vars => NoOrphans'
  BY <1>2, RowHasEventStep, EventAtHandIsCommitted DEF NoOrphans, SoleOwner
<1>4. TypeOK /\ LocalOK /\ NoOrphans /\ BatchInHand /\ InHand /\ [Next]_vars => InHand'
  BY <1>2, InHandStep
<1>5. QED
  BY <1>1, <1>3, <1>4, TypeCorrect, SeqsAreDense, BatchesInHand, PTL DEF Spec

(***************************************************************************)
(* The refinement of DeliveryContract.                                     *)
(***************************************************************************)

\* A step that leaves the state column of every row and the ghost `handled' alone is a stutter of
\* the contract.
LEMMA ContractStutter ==
  ASSUME \A r \in Deliveries : rec'[r].state = rec[r].state, handled' = handled
  PROVE  UNCHANGED Contract!vars
<1>1. [r \in Deliveries |-> Status(r)]' = [r \in Deliveries |-> Status(r)]
  BY DEF Status
<1>2. QED
  BY <1>1 DEF Contract!vars

\* The save of an event is the contract's Commit.
LEMMA ContractCommits ==
  ASSUME SoleOwner, TypeOK, LocalOK, NoOrphans, InHand, NEW p \in Procs, SaveCommit(p)
  PROVE  Contract!Commit(ev[p])
<1>1. ev[p] \in Events /\ handled' = handled /\ rec' = WithDeliveries(ev[p])
  BY DEF SaveCommit, LocalOK, ghostVars
<1>2. ASSUME NEW r \in Deliveries, r[1] = ev[p]
      PROVE  rec[r].state = "ABSENT" /\ rec'[r].state = "PENDING"
  <2>1. ~Exists(r)
    BY <1>2 DEF NoOrphans, InHand, HandOf, SaveCommit
  <2>2. QED
    BY <1>1, <1>2, <2>1 DEF WithDeliveries, NewRow, Exists
<1>3. ASSUME NEW r \in Deliveries, r[1] # ev[p]
      PROVE  rec'[r] = rec[r]
  BY <1>1, <1>3 DEF WithDeliveries
<1>4. \A c \in Consumers : <<ev[p], c>> \in Deliveries /\ <<ev[p], c>>[1] = ev[p]
  BY <1>1 DEF Deliveries
<1>5. \A c \in Consumers : Status(<<ev[p], c>>) = "none"
  BY <1>2, <1>4 DEF Status
<1>6. \A r \in Deliveries :
        Status(r)' = IF r[1] = ev[p] THEN "owed" ELSE Status(r)
  BY <1>2, <1>3 DEF Status
<1>7. QED
  BY <1>1, <1>4, <1>5, <1>6 DEF Contract!Commit, Contract!Deliveries, Deliveries

\* What becomes of one row, as the contract sees it: the row at hand is owed, so its outcome is a
\* Deliver or a Park; a claim parks what is exhausted.
LEMMA ContractWrites ==
  ASSUME SoleOwner, TypeOK, LocalOK, InHand, DeliveredInHand, NEW p \in Procs, WriteRow(p),
         NEW j \in Deliveries, j = job[p]
  PROVE  \/ UNCHANGED Contract!vars
         \/ Contract!Deliver(j)
         \/ Contract!Park({j})
<1>1. /\ handled' = handled /\ rec[j].state \in {"PENDING", "IN_FLIGHT"}
      /\ pc[p] = "write"
  BY DEF WriteRow, LocalOK, InHand, HandOf, ghostVars
<1>2. rec[j] \in Row /\ upd[p] \in States \cup {"KEEP"}
  BY <1>1 DEF TypeOK
<1>3. rec'[j].state = IF upd[p] = "KEEP" THEN rec[j].state ELSE upd[p]
  BY <1>1, <1>2 DEF WriteRow, TypeOK, Row
<1>4. \A r \in Deliveries : r # j => rec'[r] = rec[r]
  BY DEF WriteRow, TypeOK
<1>5. Status(j) = "owed" /\ \A r \in Deliveries : r # j => Status(r)' = Status(r)
  BY <1>1, <1>4 DEF Status
<1>6. CASE upd[p] = "DELIVERED"
  <2>1. j \in handled /\ Status(j)' = "delivered"
    BY <1>1, <1>3, <1>6 DEF DeliveredInHand, Status
  <2>2. QED
    BY <1>1, <1>5, <2>1 DEF Contract!Deliver, Contract!Deliveries, Deliveries
<1>7. CASE upd[p] = "DEAD_LETTER"
  <2>1. Status(j)' = "parked"
    BY <1>3, <1>7 DEF Status
  <2>2. QED
    BY <1>1, <1>5, <2>1 DEF Contract!Park, Contract!Deliveries, Deliveries
<1>8. CASE upd[p] \notin {"DELIVERED", "DEAD_LETTER"}
  <2>1. Status(j)' = "owed"
    BY <1>1, <1>2, <1>3, <1>8 DEF Status, States
  <2>2. [r \in Deliveries |-> Status(r)]' = [r \in Deliveries |-> Status(r)]
    BY <1>5, <2>1
  <2>3. QED
    BY <1>1, <2>2 DEF Contract!vars
<1>9. QED
  BY <1>6, <1>7, <1>8

LEMMA ContractClaims ==
  ASSUME TypeOK, NEW p \in Procs, Claim(p)
  PROVE  Contract!Park(Exhausted)
<1>1. handled' = handled
  BY DEF Claim, ghostVars
<1>2. ASSUME NEW r \in Deliveries
      PROVE  Status(r)' = IF r \in Exhausted THEN "parked" ELSE Status(r)
  <2>1. PICK S \in SUBSET Eligible :
          rec'[r] = IF r \in Exhausted
                      THEN [rec[r] EXCEPT !.state = "DEAD_LETTER", !.aged = FALSE]
                    ELSE IF r \in S
                      THEN [rec[r] EXCEPT !.state = "IN_FLIGHT", !.attempts = @ + 1, !.aged = FALSE]
                    ELSE rec[r]
    BY DEF Claim
  <2>2. rec[r] \in Row
    BY RowFields
  <2>3. CASE r \in Exhausted
    <3>1. rec'[r].state = "DEAD_LETTER"
      BY <2>1, <2>2, <2>3 DEF Row
    <3>2. QED
      BY <2>3, <3>1 DEF Status
  <2>4. CASE r \notin Exhausted /\ r \in S
    <3>1. rec[r].state \in {"PENDING", "FAILED", "IN_FLIGHT"} /\ rec'[r].state = "IN_FLIGHT"
      BY <2>1, <2>2, <2>4 DEF Row, Eligible
    <3>2. QED
      BY <2>4, <3>1 DEF Status
  <2>5. CASE r \notin Exhausted /\ r \notin S
    BY <2>1, <2>5 DEF Status
  <2>6. QED
    BY <2>3, <2>4, <2>5
<1>3. \A r \in Exhausted : r \in Deliveries /\ Status(r) = "owed"
  BY DEF Exhausted, Status
<1>4. QED
  BY <1>1, <1>2, <1>3 DEF Contract!Park, Contract!Deliveries, Deliveries

\* A callback that returns is the contract's Handle.
LEMMA ContractHandles ==
  ASSUME LocalOK, InHand, NEW p \in Procs, CallReturns(p)
  PROVE  Contract!Handle(job[p])
<1>1. /\ pc[p] = "call" /\ job[p] \in Deliveries /\ rec' = rec /\ handled' = handled \cup {job[p]}
  BY DEF CallReturns, LocalOK, dbVars
<1>2. Status(job[p]) = "owed"
  BY <1>1 DEF InHand, HandOf, Status
<1>3. [r \in Deliveries |-> Status(r)]' = [r \in Deliveries |-> Status(r)]
  BY <1>1 DEF Status
<1>4. QED
  BY <1>1, <1>2, <1>3 DEF Contract!Handle

LEMMA ContractRequeues ==
  ASSUME TypeOK, NEW r \in Deliveries, RequeueDeadLetter(r)
  PROVE  Contract!Requeue(r)
<1>1. /\ handled' = handled /\ rec[r].state = "DEAD_LETTER" /\ rec[r] \in Row
      /\ \A q \in Deliveries : q # r => rec'[q] = rec[q]
  BY DEF RequeueDeadLetter, TypeOK
<1>2. rec'[r].state = "PENDING"
  BY <1>1 DEF RequeueDeadLetter, TypeOK, Row
<1>3. /\ Status(r) = "parked" /\ Status(r)' = "owed"
      /\ \A q \in Deliveries : q # r => Status(q)' = Status(q)
  BY <1>1, <1>2 DEF Status
<1>4. QED
  BY <1>1, <1>3 DEF Contract!Requeue, Contract!Deliveries, Deliveries

LEMMA ContractStep ==
  ASSUME SoleOwner, TypeOK, LocalOK, NoOrphans, BatchInHand, InHand, DeliveredInHand, [Next]_vars
  PROVE  [Contract!Next]_(Contract!vars)
<1>1. CASE rec' = rec /\ handled' = handled
  BY <1>1, ContractStutter
<1>2. ASSUME NEW p \in Procs, Step(p)
      PROVE  [Contract!Next]_(Contract!vars)
  <2>1. ~SaveConflict(p) /\ ~Reconcile(p)
    BY DEF SaveConflict, Reconcile, Conflict, Committed, NoOrphans, InHand, HandOf, LocalOK, TypeOK
  <2>2. CASE SaveCommit(p)
    BY <2>2, ContractCommits DEF Contract!Next, LocalOK, SaveCommit
  <2>3. CASE CallReturns(p)
    BY <2>3, ContractHandles DEF Contract!Next, Contract!Deliveries, Deliveries, LocalOK, CallReturns
  <2>4. CASE WriteRow(p)
    <3>1. PICK j \in Deliveries : j = job[p]
      BY <2>4 DEF LocalOK, WriteRow
    <3>2. j \in Contract!Deliveries /\ {j} \in SUBSET Contract!Deliveries
      BY DEF Contract!Deliveries, Deliveries
    <3>3. QED
      BY <2>4, <3>1, <3>2, ContractWrites DEF Contract!Next
  <2>5. CASE Claim(p)
    <3>1. Exhausted \in SUBSET Contract!Deliveries
      BY DEF Exhausted, Contract!Deliveries, Deliveries
    <3>2. QED
      BY <2>5, <3>1, ContractClaims DEF Contract!Next
  <2>6. CASE CallRaises(p) \/ HotDone(p) \/ ProcessDone(p)
             \/ \E c \in Consumers : HotCall(p, c) \/ HotSkip(p, c)
    BY <1>1, <2>6 DEF CallRaises, HotDone, ProcessDone, HotCall, HotSkip, dbVars, ghostVars
  <2>7. CASE \E r \in Deliveries :
               DeliverCall(p, r) \/ DeliverLookupFails(p, r) \/ DeliverUnregistered(p, r)
    BY <1>1, <2>7 DEF DeliverCall, DeliverLookupFails, DeliverUnregistered, Take, dbVars
  <2>8. QED
    BY <1>2, <2>1, <2>2, <2>3, <2>4, <2>5, <2>6, <2>7 DEF Step
<1>3. CASE Environment
  <2>1. ASSUME NEW r \in Deliveries, LeaseExpires(r) \/ BackoffElapses(r)
        PROVE  [Contract!Next]_(Contract!vars)
    <3>1. handled' = handled /\ rec' = [rec EXCEPT ![r].aged = TRUE]
      BY <2>1 DEF LeaseExpires, BackoffElapses, ghostVars
    <3>2. ASSUME NEW q \in Deliveries
          PROVE  rec'[q].state = rec[q].state
      BY <3>1, RowFields DEF TypeOK, Row
    <3>3. QED
      BY <3>1, <3>2, ContractStutter
  <2>2. ASSUME NEW r \in Deliveries, RequeueDeadLetter(r)
        PROVE  [Contract!Next]_(Contract!vars)
    BY <2>2, ContractRequeues DEF Contract!Next, Contract!Deliveries, Deliveries
  <2>3. ASSUME NEW r \in Deliveries, MarkDeadLetter(r)
        PROVE  FALSE
    BY <2>3 DEF MarkDeadLetter, SoleOwner
  <2>4. CASE (\E p \in Procs, e \in Events : Submit(p, e)) \/ (\E p \in Procs : Crash(p))
             \/ \E p \in Procs, c \in Consumers : UnregisterConsumer(p, c) \/ RegisterConsumer(p, c)
    BY <1>1, <2>4 DEF Submit, Crash, UnregisterConsumer, RegisterConsumer, dbVars, ghostVars
  <2>5. QED
    BY <1>3, <2>1, <2>2, <2>3, <2>4 DEF Environment
<1>4. CASE UNCHANGED vars
  BY <1>1, <1>4 DEF vars, dbVars, ghostVars
<1>5. QED
  BY <1>2, <1>3, <1>4 DEF Next

\* With one process over the database and no event handed in twice, whatever the number of events
\* and consumers, the pipeline, the outbox and the dispatcher implement the contract.
THEOREM OutboxImplementsContract == SoleOwner /\ Spec => ImplementsContract
<1>1. Init => Contract!Init
  BY DEF Init, Contract!Init, Contract!Deliveries, Deliveries, Status, AbsentRow
<1>2. Init => DeliveredInHand
  BY DEF Init, DeliveredInHand
<1>3. SUFFICES ASSUME SoleOwner
               PROVE  Spec => ImplementsContract
  OBVIOUS
<1>4. TypeOK /\ LocalOK /\ NoOrphans /\ BatchInHand /\ InHand /\ DeliveredInHand /\ [Next]_vars
        => [Contract!Next]_(Contract!vars)
  BY <1>3, ContractStep
<1>5. QED
  BY <1>1, <1>2, <1>3, <1>4, TypeCorrect, InHandHolds, DeliveredInHandStep, PTL
     DEF Spec, ImplementsContract, Contract!Spec

(***************************************************************************)
(* Invocations.                                                            *)
(***************************************************************************)

\* Processes that have claimed r and not yet taken it up.
Holders(r) == {p \in Procs : r \in batch[p]}

\* The hot path may still serve r.
HotIsOpen(r) ==
  \/ r[1] \notin submitted
  \/ \E p \in Procs : ev[p] = r[1] /\ (pc[p] \in {"save", "reconcile"} \/ r[2] \in hot[p])

\* An event that is not handed in again is one process's.
OneSubmission ==
  /\ \A p \in Procs : ev[p] # None => ev[p] \in submitted
  /\ \A p, q \in Procs : ev[p] # None /\ ev[p] = ev[q] /\ ev[p] \notin Redelivered => p = q
AbsentIsUntried == \A r \in Deliveries : ~Exists(r) => rec[r].attempts = 0

\* Every claim is one invocation that was made or is to be made, and so is the hot path.
CallsOK(r) ==
  /\ IsFiniteSet(Holders(r))
  /\ r[1] \notin Redelivered =>
       /\ calls[r] + Cardinality(Holders(r)) <= rec[r].attempts + 1
       /\ HotIsOpen(r) => calls[r] + Cardinality(Holders(r)) <= rec[r].attempts
InvocationsOK ==
  OneSubmission /\ AbsentIsUntried /\ \A r \in Deliveries : CallsOK(r)

LEMMA OneSubmissionStep ==
  ASSUME TypeOK, LocalOK, OneSubmission, [Next]_vars
  PROVE  OneSubmission'
<1>1. None \notin Events
  BY ConstantsOK
<1>2. ASSUME NEW p \in Procs, NEW e \in Events, Submit(p, e)
      PROVE  OneSubmission'
  <2>1. /\ ev' = [ev EXCEPT ![p] = e] /\ submitted' = submitted \cup {e}
        /\ e \notin submitted \/ e \in Redelivered
    BY <1>2 DEF Submit
  <2>2. ev'[p] = e /\ \A q \in Procs \ {p} : ev'[q] = ev[q]
    BY <2>1 DEF TypeOK
  <2>3. QED
    BY <1>1, <2>1, <2>2 DEF OneSubmission
<1>3. ASSUME submitted' = submitted, \A p \in Procs : ev'[p] \in {ev[p], None}
      PROVE  OneSubmission'
  BY <1>3 DEF OneSubmission
<1>4. ASSUME NEW p \in Procs, Step(p) \/ Crash(p)
      PROVE  OneSubmission'
  <2>1. submitted' = submitted /\ \A q \in Procs : ev'[q] \in {ev[q], None}
    BY <1>4 DEF Step, SaveCommit, SaveConflict, Reconcile, HotCall, HotSkip, HotDone, CallReturns,
       CallRaises, WriteRow, Claim, DeliverCall, DeliverLookupFails, DeliverUnregistered, Take,
       ProcessDone, Crash, ResetProcess, TypeOK
  <2>2. QED
    BY <1>3, <2>1
<1>5. CASE UNCHANGED <<submitted, ev>>
  BY <1>3, <1>5
<1>6. QED
  BY <1>2, <1>4, <1>5
  DEF Next, Environment, LeaseExpires, BackoffElapses, UnregisterConsumer, RegisterConsumer,
      RequeueDeadLetter, MarkDeadLetter, procVars, vars

\* Without requeues an attempt, once counted, stays counted.
LEMMA AttemptsNeverFall ==
  ASSUME TypeOK, LocalOK, AbsentIsUntried, [Next]_vars, "requeue" \notin AdminActs
  PROVE  /\ \A r \in Deliveries : rec'[r].attempts >= rec[r].attempts
         /\ AbsentIsUntried'
<1>1. ASSUME NEW r \in Deliveries
      PROVE  rec'[r].attempts >= rec[r].attempts
  <2>1. RowChange(r) /\ rec[r].attempts \in Nat /\ rec[r].state \in States \cup {"ABSENT"}
    BY <1>1, RowsChange, RowFields
  <2>2. ~RequeueDeadLetter(r)
    BY DEF RequeueDeadLetter
  <2>3. ~Exists(r) => rec[r].attempts = 0
    BY DEF AbsentIsUntried
  <2>4. QED
    BY <2>1, <2>2, <2>3 DEF RowChange
<1>2. ASSUME NEW r \in Deliveries, ~Exists(r)'
      PROVE  rec'[r].attempts = 0
  <2>1. ~Exists(r)
    BY <1>2, RowsStay
  <2>2. RowChange(r) /\ rec[r].attempts = 0 /\ upd \in [Procs -> States \cup {"KEEP"}]
        /\ rec[r].state = "ABSENT" /\ rec'[r].state = "ABSENT"
    BY <1>2, <2>1, RowsChange DEF AbsentIsUntried, TypeOK, Exists
  <2>3. QED
    BY <2>2 DEF RowChange, States
<1>3. QED
  BY <1>1, <1>2 DEF AbsentIsUntried

\* Only a submission opens the hot path, and that of an event that was not submitted is open.
LEMMA HotPathStaysClosed ==
  ASSUME TypeOK, LocalOK, [Next]_vars, NEW r \in Deliveries, r[1] \notin Redelivered, HotIsOpen(r)'
  PROVE  HotIsOpen(r)
<1>1. r[1] \in Events /\ r[1] # None
  BY ConstantsOK DEF Deliveries
<1>2. ASSUME NEW p \in Procs, NEW e \in Events, Submit(p, e)
      PROVE  HotIsOpen(r)
  <2>1. /\ ev' = [ev EXCEPT ![p] = e] /\ submitted' = submitted \cup {e} /\ hot' = hot
        /\ pc' = [pc EXCEPT ![p] = "save"] /\ (e \notin submitted \/ e \in Redelivered)
    BY <1>2 DEF Submit
  <2>2. CASE r[1] = e
    BY <2>1, <2>2 DEF HotIsOpen
  <2>3. CASE r[1] # e
    BY <2>1, <2>3 DEF HotIsOpen, TypeOK
  <2>4. QED
    BY <2>2, <2>3
<1>3. ASSUME NEW p \in Procs, Step(p) \/ Crash(p)
      PROVE  HotIsOpen(r)
  <2>1. /\ submitted' = submitted
        /\ \A q \in Procs \ {p} : ev'[q] = ev[q] /\ pc'[q] = pc[q] /\ hot'[q] = hot[q]
    BY <1>3 DEF Step, SaveCommit, SaveConflict, Reconcile, HotCall, HotSkip, HotDone, CallReturns,
       CallRaises, WriteRow, Claim, DeliverCall, DeliverLookupFails, DeliverUnregistered, Take,
       ProcessDone, Crash, ResetProcess, TypeOK
  <2>2. \/ ev'[p] = None
        \/ ev'[p] = ev[p] /\ pc[p] \in {"save", "reconcile"}
        \/ ev'[p] = ev[p] /\ pc'[p] \notin {"save", "reconcile"} /\ hot'[p] \subseteq hot[p]
    <3>1. CASE Crash(p) \/ ProcessDone(p)
      BY <3>1 DEF Crash, ProcessDone, ResetProcess, TypeOK
    <3>2. CASE SaveCommit(p) \/ SaveConflict(p) \/ Reconcile(p)
      BY <3>2 DEF SaveCommit, SaveConflict, Reconcile, TypeOK
    <3>3. CASE HotDone(p) \/ \E c \in Consumers : HotCall(p, c) \/ HotSkip(p, c)
      <4>1. CASE HotDone(p)
        BY <4>1 DEF HotDone, TypeOK
      <4>2. ASSUME NEW c \in Consumers, HotCall(p, c)
            PROVE  /\ ev'[p] = ev[p] /\ pc'[p] = "call"
                   /\ hot' = [hot EXCEPT ![p] = hot[p] \ {c}]
        BY <4>2 DEF HotCall, TypeOK
      <4>3. ASSUME NEW c \in Consumers, HotSkip(p, c)
            PROVE  /\ ev'[p] = ev[p] /\ pc'[p] = "hot"
                   /\ hot' = [hot EXCEPT ![p] = hot[p] \ {c}]
        BY <4>3 DEF HotSkip, TypeOK
      <4>4. QED
        BY <3>3, <4>1, <4>2, <4>3 DEF TypeOK
    <3>4. CASE CallReturns(p) \/ CallRaises(p) \/ Claim(p)
      BY <3>4 DEF CallReturns, CallRaises, Claim, TypeOK
    <3>5. CASE WriteRow(p)
      BY <3>5 DEF WriteRow, TypeOK
    <3>6. CASE \E q \in Deliveries :
                 DeliverCall(p, q) \/ DeliverLookupFails(p, q) \/ DeliverUnregistered(p, q)
      BY <3>6 DEF DeliverCall, DeliverLookupFails, DeliverUnregistered, Take, TypeOK
    <3>7. QED
      BY <1>3, <3>1, <3>2, <3>3, <3>4, <3>5, <3>6 DEF Step
  <2>3. QED
    BY <1>1, <2>1, <2>2 DEF HotIsOpen
<1>4. CASE UNCHANGED <<submitted, ev, pc, hot>>
  BY <1>4 DEF HotIsOpen
<1>5. QED
  BY <1>2, <1>3, <1>4
  DEF Next, Environment, LeaseExpires, BackoffElapses, UnregisterConsumer, RegisterConsumer,
      RequeueDeadLetter, MarkDeadLetter, procVars, vars

\* Invocations and claims only weigh against attempts, which do not fall.
LEMMA CallsKeep ==
  ASSUME TypeOK, TypeOK', NEW r \in Deliveries, CallsOK(r), Holders(r)' \subseteq Holders(r),
         calls'[r] = calls[r], rec'[r].attempts >= rec[r].attempts,
         r[1] \notin Redelivered /\ HotIsOpen(r)' => HotIsOpen(r)
  PROVE  CallsOK(r)'
<1>1. calls[r] \in Nat /\ rec[r].attempts \in Nat /\ rec'[r].attempts \in Nat
  BY RowFields DEF TypeOK, Row
<1> DEFINE H == Holders(r)
           G == Holders(r)'
<1>2. IsFiniteSet(H) /\ IsFiniteSet(G) /\ Cardinality(G) <= Cardinality(H)
      /\ Cardinality(G) \in Nat /\ Cardinality(H) \in Nat
  <2>1. IsFiniteSet(H) /\ G \in SUBSET H
    BY DEF CallsOK
  <2> HIDE DEF G, H
  <2>2. QED
    BY <2>1, FS_Subset, FS_CardinalityType
<1>3. ASSUME r[1] \notin Redelivered
      PROVE  /\ calls'[r] + Cardinality(G) <= rec'[r].attempts + 1
             /\ HotIsOpen(r)' => calls'[r] + Cardinality(G) <= rec'[r].attempts
  <2>1. /\ calls[r] + Cardinality(H) <= rec[r].attempts + 1
        /\ HotIsOpen(r) => calls[r] + Cardinality(H) <= rec[r].attempts
    BY <1>3 DEF CallsOK
  <2> HIDE DEF G, H
  <2>2. QED
    BY <1>1, <1>2, <1>3, <2>1
<1>4. QED
  BY <1>2, <1>3 DEF CallsOK

\* An invocation is counted once, at most.
LEMMA CallIsCounted ==
  ASSUME TypeOK, NEW q \in Deliveries, calls' = CountCall(q)
  PROVE  /\ \A r \in Deliveries : calls[r] \in Nat /\ calls'[r] \in Nat
         /\ \A r \in Deliveries \ {q} : calls'[r] = calls[r]
         /\ calls'[q] <= calls[q] + 1
BY DEF CountCall, TypeOK

\* A claim adds the claimer to the holders of what it claims, and an attempt.
LEMMA CallsClaim ==
  ASSUME TypeOK, TypeOK', NEW p \in Procs, Claim(p), NEW r \in Deliveries, CallsOK(r),
         r[1] \notin Redelivered /\ HotIsOpen(r)' => HotIsOpen(r)
  PROVE  CallsOK(r)'
<1>1. PICK S \in SUBSET Eligible :
        /\ batch' = [batch EXCEPT ![p] = S]
        /\ rec'[r] = IF r \in Exhausted
                       THEN [rec[r] EXCEPT !.state = "DEAD_LETTER", !.aged = FALSE]
                     ELSE IF r \in S
                       THEN [rec[r] EXCEPT !.state = "IN_FLIGHT", !.attempts = @ + 1,
                                           !.aged = FALSE]
                     ELSE rec[r]
  BY DEF Claim
<1>2. rec[r] \in Row /\ rec[r].attempts \in Nat /\ calls[r] \in Nat /\ calls' = calls
  BY RowFields DEF Claim, ghostVars, TypeOK
<1>3. batch'[p] = S /\ \A q \in Procs \ {p} : batch'[q] = batch[q]
  BY <1>1 DEF TypeOK
<1>4. CASE r \notin S
  <2>1. Holders(r)' \subseteq Holders(r)
    BY <1>3, <1>4 DEF Holders
  <2>2. rec'[r].attempts = rec[r].attempts
    BY <1>1, <1>2, <1>4 DEF Row
  <2>3. QED
    BY <1>2, <2>1, <2>2, CallsKeep
<1>5. CASE r \in S
  <2>1. r \notin Exhausted
    BY <1>2, <1>5, ConstantsOK DEF Eligible, Exhausted
  <2>2. rec'[r].attempts = rec[r].attempts + 1
    BY <1>1, <1>2, <1>5, <2>1 DEF Row
  <2> DEFINE H == Holders(r)
             G == Holders(r)'
  <2>3. G = H \cup {p} /\ IsFiniteSet(H)
    BY <1>3, <1>5 DEF Holders, CallsOK
  <2>4. IsFiniteSet(G) /\ Cardinality(G) <= Cardinality(H) + 1
        /\ Cardinality(G) \in Nat /\ Cardinality(H) \in Nat
    <3> HIDE DEF G, H
    <3>1. IsFiniteSet(G) /\ Cardinality(H) \in Nat /\ Cardinality(G) \in Nat
      BY <2>3, FS_AddElement, FS_CardinalityType
    <3>2. Cardinality(G) = IF p \in H THEN Cardinality(H) ELSE Cardinality(H) + 1
      BY <2>3, FS_AddElement
    <3>3. QED
      BY <3>1, <3>2
  <2>5. ASSUME r[1] \notin Redelivered
        PROVE  /\ calls'[r] + Cardinality(G) <= rec'[r].attempts + 1
               /\ HotIsOpen(r)' => calls'[r] + Cardinality(G) <= rec'[r].attempts
    <3>1. /\ calls[r] + Cardinality(H) <= rec[r].attempts + 1
          /\ HotIsOpen(r) => calls[r] + Cardinality(H) <= rec[r].attempts
      BY <2>5 DEF CallsOK
    <3>2. calls'[r] = calls[r]
      BY <1>2
    <3> HIDE DEF G, H
    <3>3. QED
      BY <1>2, <2>2, <2>4, <2>5, <3>1, <3>2
  <2>6. QED
    BY <2>4, <2>5 DEF CallsOK
<1>6. QED
  BY <1>4, <1>5

\* Who delivers what it claimed holds it no longer.
LEMMA CallsDeliver ==
  ASSUME TypeOK, TypeOK', NEW p \in Procs, NEW q \in Deliveries, DeliverCall(p, q),
         NEW r \in Deliveries, CallsOK(r), r[1] \notin Redelivered /\ HotIsOpen(r)' => HotIsOpen(r)
  PROVE  CallsOK(r)'
<1>1. /\ q \in batch[p] /\ batch' = [batch EXCEPT ![p] = @ \ {q}] /\ rec' = rec
      /\ calls' = CountCall(q)
  BY DEF DeliverCall, Take, dbVars
<1>2. batch'[p] = batch[p] \ {q} /\ \A s \in Procs \ {p} : batch'[s] = batch[s]
  BY <1>1 DEF TypeOK
<1>3. rec[r].attempts \in Nat /\ calls[r] \in Nat /\ calls'[r] \in Nat
  BY <1>1, RowFields, CallIsCounted
<1>4. CASE r # q
  <2>1. Holders(r)' = Holders(r) /\ calls'[r] = calls[r]
    BY <1>1, <1>2, <1>4, CallIsCounted DEF Holders
  <2>2. QED
    BY <1>1, <1>3, <2>1, CallsKeep
<1>5. CASE r = q
  <2> DEFINE H == Holders(r)
             G == Holders(r)'
  <2>1. G = H \ {p} /\ p \in H /\ IsFiniteSet(H)
    BY <1>1, <1>2, <1>5 DEF Holders, CallsOK
  <2>2. IsFiniteSet(G) /\ Cardinality(G) = Cardinality(H) - 1
        /\ Cardinality(G) \in Nat /\ Cardinality(H) \in Nat
    <3> HIDE DEF G, H
    <3>1. QED
      BY <2>1, FS_RemoveElement, FS_CardinalityType
  <2>3. calls'[r] <= calls[r] + 1
    BY <1>1, <1>5, CallIsCounted
  <2>4. ASSUME r[1] \notin Redelivered
        PROVE  /\ calls'[r] + Cardinality(G) <= rec'[r].attempts + 1
               /\ HotIsOpen(r)' => calls'[r] + Cardinality(G) <= rec'[r].attempts
    <3>1. /\ calls[r] + Cardinality(H) <= rec[r].attempts + 1
          /\ HotIsOpen(r) => calls[r] + Cardinality(H) <= rec[r].attempts
      BY <2>4 DEF CallsOK
    <3> HIDE DEF G, H
    <3>2. QED
      BY <1>1, <1>3, <2>2, <2>3, <2>4, <3>1
  <2>5. QED
    BY <2>2, <2>4 DEF CallsOK
<1>6. QED
  BY <1>4, <1>5

\* The hot path serves a consumer once.
LEMMA CallsHot ==
  ASSUME TypeOK, TypeOK', LocalOK, OneSubmission, NEW p \in Procs, NEW c \in Consumers, HotCall(p, c),
         NEW r \in Deliveries, CallsOK(r), r[1] \notin Redelivered /\ HotIsOpen(r)' => HotIsOpen(r)
  PROVE  CallsOK(r)'
<1> DEFINE q == <<ev[p], c>>
<1>1. /\ q \in Deliveries /\ q[1] = ev[p] /\ q[2] = c /\ ev[p] \in Events /\ ev[p] # None
      /\ UNCHANGED <<rec, batch, ev, submitted>> /\ calls' = CountCall(q)
      /\ c \in hot[p] /\ hot'[p] = hot[p] \ {c} /\ pc'[p] = "call"
      /\ \A s \in Procs \ {p} : hot'[s] = hot[s] /\ pc'[s] = pc[s]
  BY ConstantsOK DEF HotCall, LocalOK, Deliveries, dbVars, TypeOK
<1>2. rec[r].attempts \in Nat /\ calls[r] \in Nat /\ calls'[r] \in Nat /\ Holders(r)' = Holders(r)
  BY <1>1, RowFields, CallIsCounted DEF Holders
<1>3. CASE r # q
  <2>1. calls'[r] = calls[r]
    BY <1>1, <1>3, CallIsCounted
  <2>2. QED
    BY <1>1, <1>2, <2>1, CallsKeep
<1>4. CASE r = q
  <2>1. HotIsOpen(r)
    BY <1>1, <1>4 DEF HotIsOpen
  <2>2. r[1] \notin Redelivered => ~HotIsOpen(r)'
    BY <1>1, <1>4 DEF HotIsOpen, OneSubmission
  <2>3. calls'[r] <= calls[r] + 1
    BY <1>1, <1>4, CallIsCounted
  <2> DEFINE H == Holders(r)
  <2>4. IsFiniteSet(H) /\ Cardinality(H) \in Nat
    BY FS_CardinalityType DEF CallsOK
  <2>5. ASSUME r[1] \notin Redelivered
        PROVE  calls'[r] + Cardinality(H) <= rec[r].attempts + 1
    <3>1. calls[r] + Cardinality(H) <= rec[r].attempts
      BY <2>1, <2>5 DEF CallsOK
    <3> HIDE DEF H
    <3>2. QED
      BY <1>2, <2>3, <2>4, <3>1
  <2>6. QED
    BY <1>1, <1>2, <2>2, <2>4, <2>5 DEF CallsOK
<1>5. QED
  BY <1>3, <1>4

LEMMA InvocationsStep ==
  ASSUME TypeOK, TypeOK', LocalOK, InvocationsOK, [Next]_vars, "requeue" \notin AdminActs
  PROVE  InvocationsOK'
<1>1. OneSubmission' /\ AbsentIsUntried'
      /\ \A r \in Deliveries : rec'[r].attempts >= rec[r].attempts
  BY OneSubmissionStep, AttemptsNeverFall DEF InvocationsOK
<1>2. SUFFICES ASSUME NEW r \in Deliveries PROVE CallsOK(r)'
  BY <1>1 DEF InvocationsOK
<1>3. CallsOK(r) /\ OneSubmission /\ rec'[r].attempts >= rec[r].attempts
      /\ (r[1] \notin Redelivered /\ HotIsOpen(r)' => HotIsOpen(r))
  BY <1>1, HotPathStaysClosed DEF InvocationsOK
<1>4. ASSUME calls' = calls, \A p \in Procs : batch'[p] \subseteq batch[p]
      PROVE  CallsOK(r)'
  <2>1. Holders(r)' \subseteq Holders(r)
    BY <1>4 DEF Holders
  <2>2. QED
    BY <1>3, <1>4, <2>1, CallsKeep
<1>5. ASSUME NEW p \in Procs, Step(p)
      PROVE  CallsOK(r)'
  <2>1. CASE \E c \in Consumers : HotCall(p, c)
    BY <1>3, <2>1, CallsHot
  <2>2. CASE Claim(p)
    BY <1>3, <2>2, CallsClaim
  <2>3. CASE \E q \in Deliveries : DeliverCall(p, q)
    BY <1>3, <2>3, CallsDeliver
  <2>4. CASE \E q \in Deliveries : DeliverLookupFails(p, q) \/ DeliverUnregistered(p, q)
    BY <1>4, <2>4 DEF DeliverLookupFails, DeliverUnregistered, Take, TypeOK
  <2>5. CASE \/ SaveCommit(p) \/ SaveConflict(p) \/ Reconcile(p) \/ HotDone(p) \/ CallReturns(p)
             \/ CallRaises(p) \/ WriteRow(p) \/ ProcessDone(p)
             \/ \E c \in Consumers : HotSkip(p, c)
    BY <1>4, <2>5 DEF SaveCommit, SaveConflict, Reconcile, HotDone, CallReturns, CallRaises,
       WriteRow, ProcessDone, ResetProcess, HotSkip, ghostVars, TypeOK
  <2>6. QED
    BY <1>5, <2>1, <2>2, <2>3, <2>4, <2>5 DEF Step
<1>6. CASE Environment
  <2>1. \A q \in Deliveries : ~RequeueDeadLetter(q)
    BY DEF RequeueDeadLetter
  <2>2. CASE \E p \in Procs : Crash(p)
    BY <1>4, <2>2 DEF Crash, ResetProcess, ghostVars, TypeOK
  <2>3. CASE \E p \in Procs, e \in Events : Submit(p, e)
    BY <1>4, <2>3 DEF Submit, ghostVars
  <2>4. CASE \E q \in Deliveries : LeaseExpires(q) \/ BackoffElapses(q) \/ MarkDeadLetter(q)
    BY <1>4, <2>4 DEF LeaseExpires, BackoffElapses, MarkDeadLetter, procVars, ghostVars
  <2>5. CASE \E p \in Procs, c \in Consumers : UnregisterConsumer(p, c) \/ RegisterConsumer(p, c)
    BY <1>4, <2>5 DEF UnregisterConsumer, RegisterConsumer, procVars, ghostVars
  <2>6. QED
    BY <1>6, <2>1, <2>2, <2>3, <2>4, <2>5 DEF Environment
<1>7. CASE UNCHANGED vars
  BY <1>4, <1>7 DEF vars, procVars, ghostVars
<1>8. QED
  BY <1>5, <1>6, <1>7 DEF Next

\* Unless an administrator requeues, every invocation of a consumer is paid for: by one claim each,
\* but for the one of the hot path of the only submission.  That holds with any number of processes,
\* of crashes, of expired leases that two workers serve at once, and of consumers that come and go.
THEOREM InvocationsStayBounded == "requeue" \notin AdminActs /\ Spec => []InvocationsBounded
<1>1. Init => InvocationsOK
  <2> SUFFICES ASSUME Init PROVE InvocationsOK
    OBVIOUS
  <2>1. \A r \in Deliveries : Holders(r) = {}
    BY DEF Init, Holders
  <2>2. IsFiniteSet({}) /\ Cardinality({}) = 0
    BY FS_EmptySet
  <2>3. \A r \in Deliveries : rec[r].attempts = 0 /\ calls[r] = 0
    BY DEF Init, AbsentRow
  <2>4. OneSubmission /\ AbsentIsUntried
    BY <2>3 DEF Init, OneSubmission, AbsentIsUntried
  <2>5. QED
    BY <2>1, <2>2, <2>3, <2>4 DEF InvocationsOK, CallsOK
<1>2. ASSUME TypeOK, InvocationsOK
      PROVE  InvocationsBounded
  <2>1. SUFFICES ASSUME NEW r \in Deliveries, r[1] \notin Redelivered
                 PROVE  calls[r] <= rec[r].attempts + 1
    BY DEF InvocationsBounded
  <2>2. calls[r] \in Nat /\ rec[r].attempts \in Nat /\ Cardinality(Holders(r)) \in Nat
    BY <1>2, RowFields, FS_CardinalityType DEF TypeOK, InvocationsOK, CallsOK
  <2>3. calls[r] + Cardinality(Holders(r)) <= rec[r].attempts + 1
    BY <1>2, <2>1 DEF InvocationsOK, CallsOK
  <2>4. QED
    BY <2>2, <2>3
<1>3. SUFFICES ASSUME "requeue" \notin AdminActs
               PROVE  Spec => []InvocationsBounded
  OBVIOUS
<1>4. TypeOK /\ TypeOK' /\ LocalOK /\ InvocationsOK /\ [Next]_vars => InvocationsOK'
  BY <1>3, InvocationsStep
<1>5. QED
  BY <1>1, <1>2, <1>4, TypeCorrect, PTL DEF Spec
=============================================================================
