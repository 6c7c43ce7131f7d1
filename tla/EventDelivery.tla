---------------------------- MODULE EventDelivery ----------------------------
(***************************************************************************)
(* The durable event log, its transactional outbox and the delivery of     *)
(* committed events to consumers, as executed by several backend processes *)
(* over one database (the HTTP backend and the ingress processes each      *)
(* build their own runtime over the same DATABASE_URL).                    *)
(*                                                                         *)
(* Inside a process EventPipeline.process runs under the pipeline's lock,  *)
(* so a process is one sequential actor.  Between processes only the       *)
(* database serialises: one action here is one transaction, or one read    *)
(* that is made outside the transaction that later uses it.                *)
(*                                                                         *)
(* Time is abstracted to one bit per record, `aged': the instant the       *)
(* record's state waits for has passed (the lease of an IN_FLIGHT record,  *)
(* next_attempt_at of a FAILED one).                                       *)
(***************************************************************************)
EXTENDS Naturals, FiniteSets

CONSTANTS
  Events,       \* canonical event ids
  Consumers,    \* the pipeline's outbox consumer ids
  Optional,     \* consumers that a process may unregister and register again
  Redelivered,  \* events whose source hands them in again and again
  Procs,        \* backend processes over the one database
  MaxAttempts,  \* the dispatcher's max_attempts
  BatchLimit,   \* deliver_pending's limit
  AdminActs,    \* administrative calls in use: "requeue", "dead_letter"
  MaxCrashes,   \* bound: process calls that are cut short
  AttemptCap,   \* bound: no PENDING record is claimed at this many attempts
  CallCap,      \* bound: the ghost counter of callback invocations saturates
  None          \* model value: "no event", "no delivery record"

ASSUME ConstantsOK ==
  /\ Optional \subseteq Consumers
  /\ Redelivered \subseteq Events
  /\ MaxAttempts \in Nat \ {0}
  /\ BatchLimit \in Nat \ {0}
  /\ MaxCrashes \in Nat
  /\ AttemptCap \in Nat
  /\ CallCap \in Nat \ {0}
  /\ None \notin Events \cup (Events \X Consumers)

VARIABLES
  seqOf,        \* durable_canonical_events: the row's seq, 0 when there is no row
  rec,          \* durable_event_delivery: one row per event and consumer
  stamp,        \* created_at of the newest delivery rows
  registered,   \* per process: the consumers with a callback
  submitted,    \* events their source has handed in at least once
  pc,           \* per process: where EventPipeline.process stands
  ev,           \* per process: the event being processed
  nextSeq,      \* per process: MAX(seq)+1 as _next_seq read it
  hot,          \* per process: consumers the hot path has still to serve
  batch,        \* per process: claimed records still to be delivered
  job,          \* per process: the delivery record being handled
  upd,          \* per process: the state column the pending UPDATE will write
  via,          \* per process: the loop `job' belongs to, "hot" or "deliver"
  handled,      \* ghost: deliveries whose callback has returned normally
  calls,        \* ghost: callback invocations since creation or requeue
  putBacks,     \* ghost: times mark_pending put the record back since then
  crashes

dbVars    == <<seqOf, rec, stamp>>
procVars  == <<pc, ev, nextSeq, hot, batch, job, upd, via>>
ghostVars == <<handled, calls, putBacks>>
vars      == <<dbVars, registered, submitted, procVars, ghostVars, crashes>>

\* Processes are interchangeable: no property names one of them.
ProcSymmetry ==
  {[p \in Procs |-> f[p]] :
     f \in {g \in [Procs -> Procs] : \A p \in Procs : \E q \in Procs : g[q] = p}}

Deliveries  == Events \X Consumers
States      == {"PENDING", "IN_FLIGHT", "DELIVERED", "FAILED", "DEAD_LETTER"}
Settled     == {"DELIVERED", "DEAD_LETTER"}
Row         == [state : States \cup {"ABSENT"}, attempts : Nat,
                aged : BOOLEAN, born : Nat]
AbsentRow   == [state |-> "ABSENT", attempts |-> 0, aged |-> FALSE, born |-> 0]
NewRow(now) == [state |-> "PENDING", attempts |-> 0, aged |-> FALSE, born |-> now]

Committed == {e \in Events : seqOf[e] # 0}
Exists(r) == rec[r].state # "ABSENT"

TypeOK ==
  /\ seqOf \in [Events -> Nat]
  /\ rec \in [Deliveries -> Row]
  /\ stamp \in Nat
  /\ registered \in [Procs -> SUBSET Consumers]
  /\ submitted \subseteq Events
  /\ pc \in [Procs -> {"idle", "save", "reconcile", "hot", "claim", "deliver",
                       "call", "write"}]
  /\ ev \in [Procs -> Events \cup {None}]
  /\ nextSeq \in [Procs -> Nat]
  /\ hot \in [Procs -> SUBSET Consumers]
  /\ batch \in [Procs -> SUBSET Deliveries]
  /\ job \in [Procs -> Deliveries \cup {None}]
  /\ upd \in [Procs -> States \cup {"KEEP"}]
  /\ via \in [Procs -> {"hot", "deliver"}]
  /\ handled \subseteq Deliveries
  /\ calls \in [Deliveries -> Nat] /\ putBacks \in [Deliveries -> Nat]
  /\ crashes \in Nat

Init ==
  /\ seqOf = [e \in Events |-> 0]
  /\ rec = [r \in Deliveries |-> AbsentRow]
  /\ stamp = 0
  /\ registered = [p \in Procs |-> Consumers]
  /\ submitted = {}
  /\ pc = [p \in Procs |-> "idle"]
  /\ ev = [p \in Procs |-> None]
  /\ nextSeq = [p \in Procs |-> 0]
  /\ hot = [p \in Procs |-> {}]
  /\ batch = [p \in Procs |-> {}]
  /\ job = [p \in Procs |-> None]
  /\ upd = [p \in Procs |-> "KEEP"]
  /\ via = [p \in Procs |-> "hot"]
  /\ handled = {}
  /\ calls = [r \in Deliveries |-> 0]
  /\ putBacks = [r \in Deliveries |-> 0]
  /\ crashes = 0

(***************************************************************************)
(* Committing the event: save_with_deliveries.                             *)
(***************************************************************************)

\* Mutated form: the pipeline delivers without waiting for the save.
Submit_Unsaved(p, e) ==
  /\ pc[p] = "idle"
  /\ e \notin submitted \/ e \in Redelivered
  /\ submitted' = submitted \cup {e}
  /\ ev' = [ev EXCEPT ![p] = e]
  /\ hot' = [hot EXCEPT ![p] = Consumers]
  /\ pc' = [pc EXCEPT ![p] = "hot"]
  /\ UNCHANGED <<dbVars, registered, nextSeq, batch, job, upd, via, ghostVars, crashes>>

\* An event passes the filters and middleware of p's pipeline; the save begins
\* by reading MAX(seq), before its transaction holds any lock.
Submit(p, e) ==
  /\ pc[p] = "idle"
  /\ e \notin submitted \/ e \in Redelivered
  /\ \E m \in {0} \cup {seqOf[d] : d \in Events} :
       /\ \A d \in Events : seqOf[d] <= m
       /\ nextSeq' = [nextSeq EXCEPT ![p] = m + 1]
  /\ submitted' = submitted \cup {e}
  /\ ev' = [ev EXCEPT ![p] = e]
  /\ pc' = [pc EXCEPT ![p] = "save"]
  /\ UNCHANGED <<dbVars, registered, hot, batch, job, upd, via, ghostVars, crashes>>

\* PENDING rows for the consumers that have none for event e.
WithDeliveries(e) ==
  [r \in Deliveries |-> IF r[1] = e /\ ~Exists(r) THEN NewRow(stamp + 1) ELSE rec[r]]

MissingDeliveries(e) == \E c \in Consumers : ~Exists(<<e, c>>)

\* Mutated form: seq is not UNIQUE.
Conflict_EventIdOnly(p) == seqOf[ev[p]] # 0

\* UNIQUE(event_id) and UNIQUE(seq), which the except branch does not tell apart.
Conflict(p) ==
  \/ seqOf[ev[p]] # 0
  \/ \E d \in Events : seqOf[d] = nextSeq[p]

\* Mutated form: the outbox rows are left to a later transaction.
SaveCommit_EventOnly(p) ==
  /\ pc[p] = "save"
  /\ ~Conflict(p)
  /\ seqOf' = [seqOf EXCEPT ![ev[p]] = nextSeq[p]]
  /\ pc' = [pc EXCEPT ![p] = "reconcile"]
  /\ nextSeq' = [nextSeq EXCEPT ![p] = 0]
  /\ UNCHANGED <<rec, stamp, registered, submitted, ev, hot, batch, job, upd, via,
                 ghostVars, crashes>>

\* One transaction inserts the event row and its PENDING delivery rows.
SaveCommit(p) ==
  /\ pc[p] = "save"
  /\ ~Conflict(p)
  /\ seqOf' = [seqOf EXCEPT ![ev[p]] = nextSeq[p]]
  /\ rec' = WithDeliveries(ev[p])
  /\ stamp' = stamp + 1
  /\ hot' = [hot EXCEPT ![p] = Consumers]
  /\ pc' = [pc EXCEPT ![p] = "hot"]
  /\ nextSeq' = [nextSeq EXCEPT ![p] = 0]
  /\ UNCHANGED <<registered, submitted, ev, batch, job, upd, via, ghostVars, crashes>>

\* IntegrityError: the insert is rolled back and taken for a duplicate event_id.
SaveConflict(p) ==
  /\ pc[p] = "save"
  /\ Conflict(p)
  /\ pc' = [pc EXCEPT ![p] = "reconcile"]
  /\ nextSeq' = [nextSeq EXCEPT ![p] = 0]
  /\ UNCHANGED <<dbVars, registered, submitted, ev, hot, batch, job, upd, via,
                 ghostVars, crashes>>

\* _reconcile_deliveries, in a transaction of its own.
Reconcile(p) ==
  /\ pc[p] = "reconcile"
  /\ rec' = WithDeliveries(ev[p])
  /\ stamp' = IF MissingDeliveries(ev[p]) THEN stamp + 1 ELSE stamp
  /\ hot' = [hot EXCEPT ![p] = Consumers]
  /\ pc' = [pc EXCEPT ![p] = "hot"]
  /\ UNCHANGED <<seqOf, registered, submitted, ev, nextSeq, batch, job, upd, via,
                 ghostVars, crashes>>

(***************************************************************************)
(* One delivery: callback, then mark_delivered / mark_failed.              *)
(***************************************************************************)

CountCall(r) == [calls EXCEPT ![r] = IF @ < CallCap THEN @ + 1 ELSE @]

\* The hot path hands the in-memory event to a registered consumer; it does not
\* claim the delivery row, which stays as it is.
HotCall(p, c) ==
  /\ pc[p] = "hot"
  /\ c \in hot[p] \cap registered[p]
  /\ hot' = [hot EXCEPT ![p] = @ \ {c}]
  /\ job' = [job EXCEPT ![p] = <<ev[p], c>>]
  /\ via' = [via EXCEPT ![p] = "hot"]
  /\ pc' = [pc EXCEPT ![p] = "call"]
  /\ calls' = CountCall(<<ev[p], c>>)
  /\ UNCHANGED <<dbVars, registered, submitted, ev, nextSeq, batch, upd, handled, putBacks,
                 crashes>>

\* A consumer without a callback keeps its row for a later recovery pass.
HotSkip(p, c) ==
  /\ pc[p] = "hot"
  /\ c \in hot[p] \ registered[p]
  /\ hot' = [hot EXCEPT ![p] = @ \ {c}]
  /\ UNCHANGED <<dbVars, registered, submitted, pc, ev, nextSeq, batch, job, upd, via,
                 ghostVars, crashes>>

HotDone(p) ==
  /\ pc[p] = "hot"
  /\ hot[p] = {}
  /\ pc' = [pc EXCEPT ![p] = "claim"]
  /\ UNCHANGED <<dbVars, registered, submitted, ev, nextSeq, hot, batch, job, upd, via,
                 ghostVars, crashes>>

\* mark_delivered, mark_failed and mark_pending first SELECT the row and later
\* write the columns they changed: a state equal to the one read is not written,
\* and nothing is written when there is no row.
ReadRow(p, r, target) ==
  upd' = [upd EXCEPT ![p] = IF rec[r].state \in {target, "ABSENT"} THEN "KEEP" ELSE target]

\* Mutated forms: a state name outside the enumeration; an off-by-one.
FailureState_Typo(r) == IF rec[r].attempts >= MaxAttempts THEN "DEAD" ELSE "FAILED"
FailureState_OffByOne(r) == IF rec[r].attempts > MaxAttempts THEN "DEAD_LETTER" ELSE "FAILED"

\* The state mark_failed decides on from the row it has read.
FailureState(r) == IF rec[r].attempts >= MaxAttempts THEN "DEAD_LETTER" ELSE "FAILED"

\* The callback returns normally: the side effect is done.
CallReturns(p) ==
  /\ pc[p] = "call"
  /\ handled' = handled \cup {job[p]}
  /\ ReadRow(p, job[p], "DELIVERED")
  /\ pc' = [pc EXCEPT ![p] = "write"]
  /\ UNCHANGED <<dbVars, registered, submitted, ev, nextSeq, hot, batch, job, via, calls, putBacks,
                 crashes>>

\* Mutated form: mark_delivered whatever the callback does.
CallRaises_MarksDelivered(p) ==
  /\ pc[p] = "call"
  /\ ReadRow(p, job[p], "DELIVERED")
  /\ pc' = [pc EXCEPT ![p] = "write"]
  /\ UNCHANGED <<dbVars, registered, submitted, ev, nextSeq, hot, batch, job, via,
                 ghostVars, crashes>>

\* The callback raises.
CallRaises(p) ==
  /\ pc[p] = "call"
  /\ ReadRow(p, job[p], FailureState(job[p]))
  /\ pc' = [pc EXCEPT ![p] = "write"]
  /\ UNCHANGED <<dbVars, registered, submitted, ev, nextSeq, hot, batch, job, via,
                 ghostVars, crashes>>

\* The UPDATE of mark_*: by primary key, whatever the row has become meanwhile.
WriteRow(p) ==
  /\ pc[p] = "write"
  /\ rec' = [rec EXCEPT ![job[p]].state = IF upd[p] = "KEEP" THEN @ ELSE upd[p],
                        ![job[p]].aged = FALSE]
  /\ pc' = [pc EXCEPT ![p] = via[p]]
  /\ job' = [job EXCEPT ![p] = None]
  /\ upd' = [upd EXCEPT ![p] = "KEEP"]
  /\ putBacks' = [putBacks EXCEPT ![job[p]] = IF upd[p] = "PENDING" THEN @ + 1 ELSE @]
  /\ UNCHANGED <<seqOf, stamp, registered, submitted, ev, nextSeq, hot, batch, via, handled,
                 calls, crashes>>

(***************************************************************************)
(* The recovery pass: claim_pending and the loop of deliver_pending.       *)
(***************************************************************************)

\* IN_FLIGHT beyond the lease with no attempt left.
Exhausted == {r \in Deliveries : /\ rec[r].state = "IN_FLIGHT"
                                 /\ rec[r].aged
                                 /\ rec[r].attempts >= MaxAttempts}

\* Mutated form: expired leases are not reclaimed.
Eligible_NoReclaim ==
  {r \in Deliveries :
     \/ rec[r].state = "PENDING" /\ rec[r].attempts < AttemptCap
     \/ rec[r].state = "FAILED" /\ rec[r].aged /\ rec[r].attempts < MaxAttempts}

Eligible ==
  {r \in Deliveries :
     \/ rec[r].state = "PENDING" /\ rec[r].attempts < AttemptCap
     \/ rec[r].state \in {"FAILED", "IN_FLIGHT"} /\ rec[r].aged /\ rec[r].attempts < MaxAttempts}

\* The first `limit' eligible rows in the order of created_at.
Candidates(S) ==
  /\ S \subseteq Eligible
  /\ Cardinality(S) <= BatchLimit
  /\ Cardinality(S) < BatchLimit => S = Eligible
  /\ \A r \in S, q \in Eligible \ S : rec[r].born <= rec[q].born

\* Mutated form: a reclaimed record keeps its attempt count.
Claim_FirstAttemptOnly(p) ==
  /\ pc[p] = "claim"
  /\ \E S \in SUBSET Eligible :
       /\ Candidates(S)
       /\ batch' = [batch EXCEPT ![p] = S]
       /\ rec' = [r \in Deliveries |->
            IF r \in S
              THEN [rec[r] EXCEPT !.state = "IN_FLIGHT", !.aged = FALSE,
                                  !.attempts = IF rec[r].state = "PENDING" THEN @ + 1 ELSE @]
            ELSE rec[r]]
  /\ pc' = [pc EXCEPT ![p] = "deliver"]
  /\ UNCHANGED <<seqOf, stamp, registered, submitted, ev, nextSeq, hot, job, upd, via,
                 ghostVars, crashes>>

\* One transaction retires the exhausted rows and claims a batch.
Claim(p) ==
  /\ pc[p] = "claim"
  /\ \E S \in SUBSET Eligible :
       /\ Candidates(S)
       /\ batch' = [batch EXCEPT ![p] = S]
       /\ rec' = [r \in Deliveries |->
            IF r \in Exhausted
              THEN [rec[r] EXCEPT !.state = "DEAD_LETTER", !.aged = FALSE]
            ELSE IF r \in S
              THEN [rec[r] EXCEPT !.state = "IN_FLIGHT", !.attempts = @ + 1, !.aged = FALSE]
            ELSE rec[r]]
  /\ pc' = [pc EXCEPT ![p] = "deliver"]
  /\ UNCHANGED <<seqOf, stamp, registered, submitted, ev, nextSeq, hot, job, upd, via,
                 ghostVars, crashes>>

\* The claimed records are handled in the order of created_at.
Take(p, r) ==
  /\ pc[p] = "deliver"
  /\ r \in batch[p]
  /\ \A q \in batch[p] : rec[r].born <= rec[q].born
  /\ batch' = [batch EXCEPT ![p] = @ \ {r}]
  /\ job' = [job EXCEPT ![p] = r]
  /\ via' = [via EXCEPT ![p] = "deliver"]
  /\ UNCHANGED <<dbVars, registered, submitted, ev, nextSeq, hot, handled, putBacks, crashes>>

\* The event is read back from the log and handed to the consumer.
DeliverCall(p, r) ==
  /\ r[2] \in registered[p]
  /\ seqOf[r[1]] # 0
  /\ Take(p, r)
  /\ pc' = [pc EXCEPT ![p] = "call"]
  /\ calls' = CountCall(r)
  /\ UNCHANGED upd

\* Mutated form: a record without an event counts as done.
DeliverLookupFails_Delivered(p, r) ==
  /\ r[2] \in registered[p]
  /\ Take(p, r)
  /\ ReadRow(p, r, "DELIVERED")
  /\ pc' = [pc EXCEPT ![p] = "write"]
  /\ UNCHANGED calls

\* There is no such event, or the read itself fails: mark_failed.
DeliverLookupFails(p, r) ==
  /\ r[2] \in registered[p]
  /\ Take(p, r)
  /\ ReadRow(p, r, FailureState(r))
  /\ pc' = [pc EXCEPT ![p] = "write"]
  /\ UNCHANGED calls

\* Mutated form: the loop goes on without putting the record back.
DeliverUnregistered_Skipped(p, r) ==
  /\ r[2] \notin registered[p]
  /\ pc[p] = "deliver"
  /\ r \in batch[p]
  /\ batch' = [batch EXCEPT ![p] = @ \ {r}]
  /\ UNCHANGED <<dbVars, registered, submitted, pc, ev, nextSeq, hot, job, upd, via,
                 ghostVars, crashes>>

\* A claimed record of an unregistered consumer goes back: mark_pending.
DeliverUnregistered(p, r) ==
  /\ r[2] \notin registered[p]
  /\ Take(p, r)
  /\ ReadRow(p, r, "PENDING")
  /\ pc' = [pc EXCEPT ![p] = "write"]
  /\ UNCHANGED calls

ResetProcess(p) ==
  /\ pc' = [pc EXCEPT ![p] = "idle"]
  /\ ev' = [ev EXCEPT ![p] = None]
  /\ nextSeq' = [nextSeq EXCEPT ![p] = 0]
  /\ hot' = [hot EXCEPT ![p] = {}]
  /\ batch' = [batch EXCEPT ![p] = {}]
  /\ job' = [job EXCEPT ![p] = None]
  /\ upd' = [upd EXCEPT ![p] = "KEEP"]
  /\ via' = [via EXCEPT ![p] = "hot"]

ProcessDone(p) ==
  /\ pc[p] = "deliver"
  /\ batch[p] = {}
  /\ ResetProcess(p)
  /\ UNCHANGED <<dbVars, registered, submitted, ghostVars, crashes>>

\* The process dies and is restarted, or a database error ends the call: what
\* is in memory is gone, what is committed stays.
Crash(p) ==
  /\ pc[p] # "idle"
  /\ crashes < MaxCrashes
  /\ crashes' = crashes + 1
  /\ ResetProcess(p)
  /\ UNCHANGED <<dbVars, registered, submitted, ghostVars>>

(***************************************************************************)
(* Time, registration, administration.                                     *)
(***************************************************************************)

\* The lease of an IN_FLIGHT record runs out, whether its worker is dead or slow.
LeaseExpires(r) ==
  /\ rec[r].state = "IN_FLIGHT" /\ ~rec[r].aged
  /\ rec' = [rec EXCEPT ![r].aged = TRUE]
  /\ UNCHANGED <<seqOf, stamp, registered, submitted, procVars, ghostVars, crashes>>

\* next_attempt_at of a FAILED record arrives.
BackoffElapses(r) ==
  /\ rec[r].state = "FAILED" /\ ~rec[r].aged
  /\ rec' = [rec EXCEPT ![r].aged = TRUE]
  /\ UNCHANGED <<seqOf, stamp, registered, submitted, procVars, ghostVars, crashes>>

UnregisterConsumer(p, c) ==
  /\ c \in Optional \cap registered[p]
  /\ registered' = [registered EXCEPT ![p] = @ \ {c}]
  /\ UNCHANGED <<dbVars, submitted, procVars, ghostVars, crashes>>

RegisterConsumer(p, c) ==
  /\ c \in Optional \ registered[p]
  /\ registered' = [registered EXCEPT ![p] = @ \cup {c}]
  /\ UNCHANGED <<dbVars, submitted, procVars, ghostVars, crashes>>

\* Mutated form: the attempt counter survives the requeue.
RequeueDeadLetter_KeepsAttempts(r) ==
  /\ "requeue" \in AdminActs
  /\ rec[r].state = "DEAD_LETTER"
  /\ rec' = [rec EXCEPT ![r].state = "PENDING", ![r].aged = FALSE]
  /\ calls' = [calls EXCEPT ![r] = 0] /\ putBacks' = [putBacks EXCEPT ![r] = 0]
  /\ UNCHANGED <<seqOf, stamp, registered, submitted, procVars, handled, crashes>>

\* requeue_dead_letter: a fresh schedule, from DEAD_LETTER only.
RequeueDeadLetter(r) ==
  /\ "requeue" \in AdminActs
  /\ rec[r].state = "DEAD_LETTER"
  /\ rec' = [rec EXCEPT ![r].state = "PENDING", ![r].attempts = 0, ![r].aged = FALSE]
  /\ calls' = [calls EXCEPT ![r] = 0] /\ putBacks' = [putBacks EXCEPT ![r] = 0]
  /\ UNCHANGED <<seqOf, stamp, registered, submitted, procVars, handled, crashes>>

\* mark_dead_letter, from any state.
MarkDeadLetter(r) ==
  /\ "dead_letter" \in AdminActs
  /\ Exists(r)
  /\ rec' = [rec EXCEPT ![r].state = "DEAD_LETTER", ![r].aged = FALSE]
  /\ UNCHANGED <<seqOf, stamp, registered, submitted, procVars, ghostVars, crashes>>

(***************************************************************************)

Step(p) ==
  \/ SaveCommit(p) \/ SaveConflict(p) \/ Reconcile(p)
  \/ \E c \in Consumers : HotCall(p, c) \/ HotSkip(p, c)
  \/ HotDone(p)
  \/ CallReturns(p) \/ CallRaises(p) \/ WriteRow(p)
  \/ Claim(p)
  \/ \E r \in Deliveries :
       DeliverCall(p, r) \/ DeliverLookupFails(p, r) \/ DeliverUnregistered(p, r)
  \/ ProcessDone(p)

Environment ==
  \/ \E p \in Procs, e \in Events : Submit(p, e)
  \/ \E p \in Procs : Crash(p)
  \/ \E r \in Deliveries : LeaseExpires(r) \/ BackoffElapses(r)
  \/ \E p \in Procs, c \in Consumers : UnregisterConsumer(p, c) \/ RegisterConsumer(p, c)
  \/ \E r \in Deliveries : RequeueDeadLetter(r) \/ MarkDeadLetter(r)

Next == (\E p \in Procs : Step(p)) \/ Environment

Spec == Init /\ [][Next]_vars

\* A running process keeps taking steps (consumer callbacks return) and time
\* passes.  Nothing obliges a source to hand in another event.
Fairness ==
  /\ \A p \in Procs : WF_vars(Step(p))
  /\ \A r \in Deliveries : WF_vars(LeaseExpires(r) \/ BackoffElapses(r))

FairSpec == Spec /\ Fairness

\* In addition every process keeps receiving events.
TrafficSpec ==
  FairSpec /\ \A p \in Procs : WF_vars(\E e \in Events : Submit(p, e))

(***************************************************************************)
(* Properties.                                                             *)
(***************************************************************************)

\* "there is no valid production state where an event is committed but a
\* contractually-required consumer has no durable delivery record"
\* (outbox_model.py), across crashes and concurrent savers.
OutboxComplete == \A e \in Committed, c \in Consumers : Exists(<<e, c>>)

\* A record says DELIVERED only of a callback that has returned normally, in
\* whatever order the processes read and write the row.
DeliveredMeansHandled ==
  \A r \in Deliveries : rec[r].state = "DELIVERED" => r \in handled

\* A record is IN_FLIGHT only while some process is still to deliver it or to
\* write its outcome, unless a call was cut short: nothing a worker claimed is
\* "stranded" (mark_pending), with consumers that come and go.
InFlightIsHeld ==
  crashes = 0 =>
    \A r \in Deliveries : rec[r].state = "IN_FLIGHT" =>
      \E p \in Procs : r \in batch[p] \/ job[p] = r

\* "attempts MUST NEVER exceed max_attempts" (claim_pending, F2), but for the claims
\* of a record that an unregistered consumer put back: with any number of processes,
\* crashes, leases and requeues, each put-back allows one attempt more, and no more.
AttemptsBounded == \A r \in Deliveries : rec[r].attempts <= MaxAttempts + putBacks[r]

\* seq is the replay order: a row that becomes visible comes after every row a
\* reader may have seen before it, although MAX(seq) is read outside the lock.
SeqFollowsCommitOrder ==
  [][\A e, d \in Events :
       seqOf[e] = 0 /\ seqOf'[e] # 0 /\ d # e => seqOf[d] < seqOf'[e]]_seqOf

\* Every claim allows one invocation, and the hot path of the first submission
\* one more (for events the source does not hand in again).
InvocationsBounded ==
  \A r \in Deliveries : r[1] \notin Redelivered => calls[r] <= rec[r].attempts + 1

\* "No consumer side effect may execute before the canonical event commit"
\* (event_delivery/__init__.py), nor without it.
CommitBeforeEffect ==
  \A r \in Deliveries : calls[r] > 0 => r[1] \in Committed

\* A FAILED record has an attempt left: it is either claimed again or retired.
FailedIsRetryable ==
  \A r \in Deliveries : rec[r].state = "FAILED" => rec[r].attempts < MaxAttempts

\* DELIVERED is final, and DEAD_LETTER "is terminal unless explicitly requeued"
\* (delivery_dispatcher.py), with a fresh attempt schedule.
SettledIsFinal ==
  [][\A r \in Deliveries :
       rec[r].state \in Settled /\ rec'[r].state # rec[r].state =>
         /\ rec[r].state = "DEAD_LETTER"
         /\ rec'[r].state = "PENDING"
         /\ rec'[r].attempts = 0]_rec

\* "a crash mid-delivery never permanently loses an event" (delivery_dispatcher.py):
\* a record that is owed is delivered or dead-lettered in the end.  (Each hot-path
\* failure of an event that is handed in again postpones next_attempt_at without
\* counting an attempt, so nothing is claimed of such an event.)
OwedIsSettled ==
  \A r \in Deliveries :
    r[1] \notin Redelivered /\ Exists(r) /\ rec[r].state \notin Settled
      ~> rec[r].state \in Settled

(***************************************************************************)
(* What the properties need to be inductive.                               *)
(***************************************************************************)

\* A busy process has its event, and a delivery in hand while it calls or writes.
LocalOK ==
  \A p \in Procs :
    /\ pc[p] # "idle" => ev[p] \in Events
    /\ pc[p] \in {"call", "write"} => job[p] \in Deliveries

\* An UPDATE to DELIVERED is only ever under way for a callback that returned.
DeliveredInHand ==
  \A p \in Procs : pc[p] = "write" /\ upd[p] = "DELIVERED" => job[p] \in handled

\* The seqs in use are 1..n, and a process that has read MAX(seq)+1 has read a
\* number at which that range ended.
SeqsDense ==
  /\ \A e \in Events : \A k \in 1 .. seqOf[e] : \E d \in Events : seqOf[d] = k
  /\ \A p \in Procs : pc[p] = "save" =>
       /\ nextSeq[p] > 0
       /\ \A k \in 1 .. nextSeq[p] - 1 : \E d \in Events : seqOf[d] = k

\* With a single process: no delivery row without its event, the event at hand
\* is committed once its save is behind it, and so are those of the batch.
NoOrphans ==
  /\ \A r \in Deliveries : Exists(r) => r[1] \in Committed
  /\ \A p \in Procs :
       /\ pc[p] \notin {"idle", "save"} => ev[p] \in Committed
       /\ pc[p] = "save" => \A d \in Events : seqOf[d] < nextSeq[p]
       /\ pc[p] \in {"call", "write"} => job[p][1] \in Committed
       /\ \A r \in batch[p] : r[1] \in Committed

\* A record that may be claimed at any attempt count has one attempt to spare: it is
\* new, requeued, or was put back.
PendingHasAttempt ==
  \A r \in Deliveries : rec[r].state = "PENDING" => rec[r].attempts < MaxAttempts + putBacks[r]

(***************************************************************************)
(* The refinement: a delivery row as DeliveryContract sees it.             *)
(***************************************************************************)

Status(r) ==
  CASE rec[r].state = "ABSENT"      -> "none"
    [] rec[r].state = "DELIVERED"   -> "delivered"
    [] rec[r].state = "DEAD_LETTER" -> "parked"
    [] OTHER                        -> "owed"

Contract == INSTANCE DeliveryContract
              WITH status <- [r \in Deliveries |-> Status(r)], handled <- handled

\* With one process over the database and no event handed in twice, every
\* behaviour of the pipeline, the outbox and the dispatcher (crashes, expired
\* leases, retries and requeues included) is one the contract allows.
ImplementsContract == Contract!Spec
=============================================================================
