----------------------------- MODULE SttWorker ------------------------------
(***************************************************************************)
(* The two background workers of the audio pipeline, SttWorker and         *)
(* Mp3Worker: a bounded queue, one worker thread, and start(), stop() and  *)
(* submit() from other threads.  They differ in how stop() treats a thread *)
(* that outlives the join, and in that SttWorker refuses a repeated id.    *)
(***************************************************************************)
EXTENDS Integers, Sequences, SequencesExt, FiniteSets

CONSTANTS
  Items,      \* jobs
  Threads,    \* worker threads the worker may create in a run (a bound)
  Controls,   \* threads that call start and stop
  QueueMax, MaxJobs, \* the latter a bound
  Nobody

VARIABLES
  kind,       \* "stt" or "mp3"
  wq,         \* the queue
  stopFlag,   \* the stop event
  cur,        \* _thread
  wpc,        \* thread -> "unborn", "loop", "get", "got" (taken, not counted), "busy", "dead"
  held,       \* thread -> its job
  seenIds,    \* SttWorker._seen
  inflight, processed, failedJobs, \* counters
  accepted,   \* ghost: jobs that submit accepted, with multiplicity by id
  finished,   \* ghost: id -> times it was worked off
  cpc, joined \* control thread -> where its stop() is, and the thread it joins

wvars == <<kind, wq, stopFlag, cur, wpc, held, seenIds, inflight, processed, failedJobs,
           accepted, finished, cpc, joined>>

ThreadsOK == Nobody \notin Threads \cup Items /\ IsFiniteSet(Threads) /\ IsFiniteSet(Controls)
Live(t) == wpc[t] \in {"loop", "get", "got", "busy"}
Holding == {t \in Threads : wpc[t] \in {"got", "busy"}}

TypeOK ==
  /\ Len(wq) <= QueueMax
  /\ cur \in Threads \cup {Nobody}
  /\ cur # Nobody => wpc[cur] # "unborn"
  /\ inflight = Cardinality({t \in Threads : wpc[t] = "busy"})

Init ==
  /\ kind \in {"stt", "mp3"}
  /\ wq = <<>> /\ stopFlag = FALSE /\ cur = Nobody
  /\ wpc = [t \in Threads |-> "unborn"]
  /\ held = [t \in Threads |-> Nobody]
  /\ seenIds = {} /\ inflight = 0 /\ processed = 0 /\ failedJobs = 0
  /\ accepted = 0 /\ finished = [i \in Items |-> 0]
  /\ cpc = [c \in Controls |-> "ready"]
  /\ joined = [c \in Controls |-> Nobody]

\* start: under the lock.  SttWorker replaces a dead thread, Mp3Worker none.
Start(c) ==
  /\ cpc[c] = "ready"
  /\ ~(cur # Nobody /\ (kind = "mp3" \/ Live(cur)))
  /\ \E t \in Threads :
       /\ wpc[t] = "unborn"
       /\ wpc' = [wpc EXCEPT ![t] = "loop"]
       /\ cur' = t
  /\ stopFlag' = FALSE
  /\ UNCHANGED <<kind, wq, held, seenIds, inflight, processed, failedJobs, accepted, finished, cpc, joined>>

\* stop sets the event; then it reads _thread (SttWorker is done if there is none).
StopSet(c) ==
  /\ cpc[c] = "ready"
  /\ stopFlag' = TRUE
  /\ cpc' = [cpc EXCEPT ![c] = "set"]
  /\ UNCHANGED <<kind, wq, cur, wpc, held, seenIds, inflight, processed, failedJobs, accepted, finished, joined>>

StopRead(c) ==
  /\ cpc[c] = "set"
  /\ joined' = [joined EXCEPT ![c] = cur]
  /\ cpc' = [cpc EXCEPT ![c] = IF cur = Nobody /\ kind = "stt" THEN "ready" ELSE "joining"]
  /\ UNCHANGED <<kind, wq, stopFlag, cur, wpc, held, seenIds, inflight, processed, failedJobs, accepted, finished>>

\* Mutated form: SttWorker forgets the thread as Mp3Worker does.
StopEnd_Forgets(c) ==
  /\ cpc[c] = "joining"
  /\ cpc' = [cpc EXCEPT ![c] = "ready"]
  /\ joined' = [joined EXCEPT ![c] = Nobody]
  /\ cur' = Nobody
  /\ UNCHANGED <<kind, wq, stopFlag, wpc, held, seenIds, inflight, processed, failedJobs, accepted, finished>>

\* The join returns, because the thread has ended or because the timeout is over.
\* SttWorker forgets its thread only if it has ended and was not replaced.
StopEnd(c) ==
  /\ cpc[c] = "joining"
  /\ cpc' = [cpc EXCEPT ![c] = "ready"]
  /\ joined' = [joined EXCEPT ![c] = Nobody]
  /\ cur' = IF kind = "stt" /\ (cur # joined[c] \/ Live(joined[c])) THEN cur ELSE Nobody
  /\ UNCHANGED <<kind, wq, stopFlag, wpc, held, seenIds, inflight, processed, failedJobs, accepted, finished>>

\* submit: a full queue or, for SttWorker, a known id is refused.
Submit(i) ==
  /\ accepted < MaxJobs
  /\ Len(wq) < QueueMax
  /\ kind = "stt" => i \notin seenIds
  /\ wq' = Append(wq, i) /\ seenIds' = seenIds \cup {i} /\ accepted' = accepted + 1
  /\ UNCHANGED <<kind, stopFlag, cur, wpc, held, inflight, processed, failedJobs, finished, cpc, joined>>

\* _run: test the flag, wait for a job, take one, count it as in flight, work it off.
LoopTest(t) ==
  /\ wpc[t] = "loop"
  /\ wpc' = [wpc EXCEPT ![t] = IF stopFlag THEN "dead" ELSE "get"]
  /\ UNCHANGED <<kind, wq, stopFlag, cur, held, seenIds, inflight, processed, failedJobs, accepted, finished, cpc, joined>>

Take(t) ==
  /\ wpc[t] = "get"
  /\ IF wq = <<>> THEN wpc' = [wpc EXCEPT ![t] = "loop"] /\ UNCHANGED <<wq, held>>
     ELSE /\ held' = [held EXCEPT ![t] = Head(wq)] /\ wq' = Tail(wq)
          /\ wpc' = [wpc EXCEPT ![t] = "got"]
  /\ UNCHANGED <<kind, stopFlag, cur, seenIds, inflight, processed, failedJobs, accepted, finished, cpc, joined>>

\* Mutated form: the job is not counted as in flight.
Count_Missing(t) ==
  /\ wpc[t] = "got"
  /\ wpc' = [wpc EXCEPT ![t] = "busy"]
  /\ UNCHANGED <<kind, wq, stopFlag, cur, held, seenIds, inflight, processed, failedJobs, accepted, finished, cpc, joined>>

Count(t) ==
  /\ wpc[t] = "got"
  /\ wpc' = [wpc EXCEPT ![t] = "busy"] /\ inflight' = inflight + 1
  /\ UNCHANGED <<kind, wq, stopFlag, cur, held, seenIds, processed, failedJobs, accepted, finished, cpc, joined>>

Finish(t) ==
  /\ wpc[t] = "busy"
  /\ wpc' = [wpc EXCEPT ![t] = "loop"] /\ held' = [held EXCEPT ![t] = Nobody]
  /\ inflight' = inflight - 1
  /\ finished' = [finished EXCEPT ![held[t]] = @ + 1]
  /\ \/ processed' = processed + 1 /\ UNCHANGED failedJobs
     \/ failedJobs' = failedJobs + 1 /\ UNCHANGED processed
  /\ UNCHANGED <<kind, wq, stopFlag, cur, seenIds, accepted, cpc, joined>>

Next ==
  \/ \E c \in Controls : Start(c) \/ StopSet(c) \/ StopRead(c) \/ StopEnd(c)
  \/ \E i \in Items : Submit(i)
  \/ \E t \in Threads : LoopTest(t) \/ Take(t) \/ Count(t) \/ Finish(t)

Worker(t) == LoopTest(t) \/ Take(t) \/ Count(t) \/ Finish(t)
Fairness == \A t \in Threads : WF_wvars(Worker(t))
Spec == Init /\ [][Next]_wvars /\ Fairness

\* "A live worker is NEVER replaced" and NEVER forgotten (SttWorker): whatever start() and
\* stop() do at the same time, and however late a thread ends, the one live thread is _thread;
\* so a stop() that returned True, having cleared _thread, leaves none.
OneWorker == kind = "stt" => \A t \in Threads : Live(t) => t = cur

\* No job is lost between submit and its outcome, and the counters say so.
JobsConserved ==
  accepted = Len(wq) + Cardinality(Holding) + processed + failedJobs

\* A recording is transcribed at most once.
WorkedOnce ==
  kind = "stt" => \A i \in Items :
    finished[i] + Cardinality({t \in Threads : held[t] = i})
      + Cardinality({k \in DOMAIN wq : wq[k] = i}) <= 1

\* A job that waits while a thread runs is taken, unless the worker is stopped.
AcceptedIsTaken ==
  \A i \in Items :
    (i \in Range(wq) /\ (\E t \in Threads : Live(t))) ~> (i \notin Range(wq) \/ stopFlag)
=============================================================================
