--------------------------- MODULE MCAudio_proofs ---------------------------
(***************************************************************************)
(* Theorems about the background workers and the receivers of MCAudio, for *)
(* every value of its constants.                                           *)
(***************************************************************************)
EXTENDS MCAudio, FiniteSetTheorems, TLAPS

\* The library's operators are the same in the component's instance.
LEMMA SameCardinality ==
  /\ \A X : W!IsFiniteSet(X) <=> IsFiniteSet(X)
  /\ \A X : W!Cardinality(X) = Cardinality(X)
BY DEF W!IsFiniteSet, IsFiniteSet, W!Cardinality, Cardinality

(***************************************************************************)
(* The background workers (SttWorker), for any number of jobs, threads and *)
(* controllers.                                                            *)
(***************************************************************************)

Typed ==
  /\ kind \in {"stt", "mp3"}
  /\ wpc \in [Threads -> {"unborn", "loop", "get", "got", "busy", "dead"}]
  /\ cpc \in [Controls -> {"ready", "set", "joining"}]
  /\ joined \in [Controls -> Threads \cup {Nobody}] /\ cur \in Threads \cup {Nobody}

WorkerOK == Typed /\ W!OneWorker

LEMMA WorkerStep ==
  ASSUME W!ThreadsOK, WorkerOK, [W!Next]_W!wvars
  PROVE  WorkerOK'
<1>1. ASSUME NEW c \in Controls, W!Start(c)
      PROVE  WorkerOK'
  <2>1. Typed'
    BY <1>1 DEF W!Start, WorkerOK, Typed
  <2>2. W!OneWorker'
    BY <1>1 DEF W!Start, WorkerOK, Typed, W!OneWorker, W!Live, W!ThreadsOK
  <2> QED
    BY <2>1, <2>2 DEF WorkerOK
<1>2. ASSUME NEW c \in Controls, W!StopSet(c) \/ W!StopRead(c)
      PROVE  WorkerOK'
  <2>1. Typed'
    BY <1>2 DEF W!StopSet, W!StopRead, WorkerOK, Typed
  <2>2. W!OneWorker'
    BY <1>2 DEF W!StopSet, W!StopRead, WorkerOK, W!OneWorker, W!Live
  <2> QED
    BY <2>1, <2>2 DEF WorkerOK
\* SttWorker clears _thread only when the thread it names has ended.
<1>3. ASSUME NEW c \in Controls, W!StopEnd(c)
      PROVE  WorkerOK'
  <2>1. Typed'
    BY <1>3 DEF W!StopEnd, WorkerOK, Typed
  <2>2. kind' = kind /\ \A t \in Threads : W!Live(t)' <=> W!Live(t)
    BY <1>3 DEF W!StopEnd, W!Live
  <2>3. ASSUME kind = "stt" PROVE W!OneWorker'
    <3>1. \A t \in Threads : W!Live(t) => t = cur
      BY <2>3 DEF WorkerOK, W!OneWorker
    <3>2. cur' = cur \/ ~W!Live(cur)
      BY <1>3, <2>3 DEF W!StopEnd
    <3>3. \A t \in Threads : W!Live(t)' => t = cur'
      BY <2>2, <3>1, <3>2
    <3> QED
      BY <3>3 DEF W!OneWorker
  <2>4. W!OneWorker'
    BY <2>2, <2>3 DEF W!OneWorker
  <2> QED
    BY <2>1, <2>4 DEF WorkerOK
\* A thread's own step brings no thread to life.
<1>4. ASSUME NEW t \in Threads, W!LoopTest(t) \/ W!Take(t) \/ W!Count(t) \/ W!Finish(t)
      PROVE  WorkerOK'
  <2>1. Typed'
    BY <1>4 DEF W!LoopTest, W!Take, W!Count, W!Finish, WorkerOK, Typed
  <2>2. \A o \in Threads : W!Live(o)' => W!Live(o)
    BY <1>4 DEF W!LoopTest, W!Take, W!Count, W!Finish, WorkerOK, Typed, W!Live
  <2>3. UNCHANGED <<kind, cur>>
    BY <1>4 DEF W!LoopTest, W!Take, W!Count, W!Finish
  <2>4. W!OneWorker'
    BY <2>2, <2>3 DEF WorkerOK, W!OneWorker
  <2> QED
    BY <2>1, <2>4 DEF WorkerOK
<1>5. CASE UNCHANGED <<kind, cur, wpc, cpc, joined>>
  BY <1>5 DEF WorkerOK, Typed, W!OneWorker, W!Live
<1> QED
  BY <1>1, <1>2, <1>3, <1>4, <1>5 DEF W!Next, W!Submit, W!wvars

\* SttWorker has one live thread, the one it knows, whatever start() and stop() do at the same time.
THEOREM OneWorkerHolds == W!ThreadsOK /\ W!Spec => []W!OneWorker
<1>1. W!Init => WorkerOK
  BY DEF W!Init, WorkerOK, Typed, W!OneWorker, W!Live
<1>2. WorkerOK => W!OneWorker
  BY DEF WorkerOK
<1>3. SUFFICES ASSUME W!ThreadsOK PROVE W!Spec => []W!OneWorker
  OBVIOUS
<1> QED
  BY <1>1, <1>2, <1>3, WorkerStep, PTL DEF W!Spec

\* The jobs, and what is counted of them.
Counted ==
  /\ Typed /\ wq \in Seq(Items) /\ processed \in Nat /\ failedJobs \in Nat /\ accepted \in Nat
  /\ W!JobsConserved

LEMMA CountedStep ==
  ASSUME W!ThreadsOK, WorkerOK, Counted, [W!Next]_W!wvars
  PROVE  Counted'
<1>1. Typed'
  BY WorkerStep DEF WorkerOK
<1>2. IsFiniteSet(W!Holding) /\ Cardinality(W!Holding) \in Nat
  <2>1. W!Holding \in SUBSET Threads
    BY DEF W!Holding
  <2> QED
    BY <2>1, FS_Subset, FS_CardinalityType, SameCardinality DEF W!ThreadsOK
<1>3. ASSUME NEW t \in Threads, W!Take(t)
      PROVE  Counted'
  <2>1. CASE wq = <<>>
    <3>1. W!Holding' = W!Holding
      BY <1>3, <2>1 DEF W!Take, W!Holding, Counted, Typed
    <3> QED
      BY <1>1, <1>3, <2>1, <3>1 DEF W!Take, Counted, W!JobsConserved
  <2>2. CASE wq # <<>>
    <3>1. W!Holding' = W!Holding \cup {t} /\ t \notin W!Holding
      BY <1>3, <2>2 DEF W!Take, W!Holding, Counted, Typed
    <3>2. Cardinality(W!Holding') = Cardinality(W!Holding) + 1
      BY <1>2, <3>1, FS_AddElement
    <3>3. wq' \in Seq(Items) /\ Len(wq') = Len(wq) - 1 /\ Len(wq) \in Nat
      BY <1>3, <2>2 DEF W!Take, Counted
    <3>4. UNCHANGED <<accepted, processed, failedJobs>>
      BY <1>3 DEF W!Take
    <3> QED
      BY <1>1, <1>2, <3>2, <3>3, <3>4, SameCardinality DEF Counted, W!JobsConserved
  <2> QED
    BY <2>1, <2>2
<1>4. ASSUME NEW t \in Threads, W!Finish(t)
      PROVE  Counted'
  <2>1. W!Holding' = W!Holding \ {t} /\ t \in W!Holding
    BY <1>4 DEF W!Finish, W!Holding, Counted, Typed
  <2>2. Cardinality(W!Holding') = Cardinality(W!Holding) - 1
    BY <1>2, <2>1, FS_RemoveElement
  <2>3. /\ \/ processed' = processed + 1 /\ failedJobs' = failedJobs
           \/ failedJobs' = failedJobs + 1 /\ processed' = processed
        /\ accepted' = accepted /\ wq' = wq
    BY <1>4 DEF W!Finish
  <2>4. processed \in Nat /\ failedJobs \in Nat /\ accepted \in Nat /\ Len(wq) \in Nat
    BY DEF Counted
  <2> DEFINE n == Cardinality(W!Holding)
             l == Len(wq)
             Sum(k, p, f) == l + k + p + f
  <2>5. n \in Nat /\ l \in Nat /\ accepted = Sum(n, processed, failedJobs)
    BY <1>2, <2>4, SameCardinality DEF Counted, W!JobsConserved
  <2>6. W!JobsConserved' <=> accepted' = Sum(n - 1, processed', failedJobs')
    BY <2>2, <2>3, SameCardinality DEF W!JobsConserved
  <2> HIDE DEF n, l
  <2>7. accepted' = Sum(n - 1, processed', failedJobs')
    BY <2>3, <2>4, <2>5
  <2> QED
    BY <1>1, <2>3, <2>4, <2>6, <2>7 DEF Counted
<1>5. ASSUME NEW i \in Items, W!Submit(i)
      PROVE  Counted'
  <2>1. wq' \in Seq(Items) /\ Len(wq') = Len(wq) + 1 /\ Len(wq) \in Nat
    BY <1>5 DEF W!Submit, Counted
  <2>2. W!Holding' = W!Holding
    BY <1>5 DEF W!Submit, W!Holding
  <2>3. accepted' = accepted + 1 /\ UNCHANGED <<processed, failedJobs>>
    BY <1>5 DEF W!Submit
  <2> QED
    BY <1>1, <1>2, <2>1, <2>2, <2>3, SameCardinality DEF Counted, W!JobsConserved
<1>6. ASSUME NEW t \in Threads, W!LoopTest(t) \/ W!Count(t)
      PROVE  Counted'
  <2>1. W!Holding' = W!Holding
    BY <1>6 DEF W!LoopTest, W!Count, W!Holding, Counted, Typed
  <2>2. UNCHANGED <<wq, accepted, processed, failedJobs>>
    BY <1>6 DEF W!LoopTest, W!Count
  <2> QED
    BY <1>1, <2>1, <2>2 DEF Counted, W!JobsConserved
<1>7. ASSUME NEW c \in Controls, W!Start(c)
      PROVE  Counted'
  <2>1. W!Holding' = W!Holding
    BY <1>7 DEF W!Start, W!Holding, Counted, Typed
  <2>2. UNCHANGED <<wq, accepted, processed, failedJobs>>
    BY <1>7 DEF W!Start
  <2> QED
    BY <1>1, <2>1, <2>2 DEF Counted, W!JobsConserved
<1>8. CASE UNCHANGED <<wpc, wq, accepted, processed, failedJobs>>
  <2>1. W!Holding' = W!Holding
    BY <1>8 DEF W!Holding
  <2> QED
    BY <1>1, <1>8, <2>1 DEF Counted, W!JobsConserved
<1> QED
  BY <1>3, <1>4, <1>5, <1>6, <1>7, <1>8 DEF W!Next, W!StopSet, W!StopRead, W!StopEnd, W!wvars

\* No job is lost between submit and its outcome.
THEOREM JobsConservedHolds == W!ThreadsOK /\ W!Spec => []W!JobsConserved
<1>1. W!Init => WorkerOK
  BY DEF W!Init, WorkerOK, Typed, W!OneWorker, W!Live
<1>2. W!Init => Counted
  <2> SUFFICES ASSUME W!Init PROVE Counted
    OBVIOUS
  <2>1. W!Holding = {}
    BY DEF W!Init, W!Holding
  <2>2. Cardinality(W!Holding) = 0
    BY <2>1, FS_EmptySet
  <2>3. wq = <<>> /\ Len(wq) = 0 /\ wq \in Seq(Items)
    BY DEF W!Init
  <2>4. Typed
    BY <1>1 DEF WorkerOK
  <2>5. processed = 0 /\ failedJobs = 0 /\ accepted = 0
    BY DEF W!Init
  <2> QED
    BY <2>2, <2>3, <2>4, <2>5, SameCardinality DEF Counted, W!JobsConserved
<1>3. Counted => W!JobsConserved
  BY DEF Counted
<1>4. SUFFICES ASSUME W!ThreadsOK PROVE W!Spec => []W!JobsConserved
  OBVIOUS
<1> QED
  BY <1>1, <1>2, <1>3, <1>4, WorkerStep, CountedStep, PTL DEF W!Spec

\* What the threads have in hand, and how much of it counts as in flight.
Busy == {t \in Threads : wpc[t] = "busy"}
HandsOK ==
  /\ held \in [Threads -> Items \cup {Nobody}]
  /\ \A t \in Threads : held[t] # Nobody <=> wpc[t] \in {"got", "busy"}
  /\ finished \in [Items -> Nat] /\ seenIds \subseteq Items
  /\ inflight = Cardinality(Busy)

LEMMA BusyIsFinite ==
  ASSUME W!ThreadsOK
  PROVE  IsFiniteSet(Busy) /\ Cardinality(Busy) \in Nat
<1>1. Busy \in SUBSET Threads
  BY DEF Busy
<1> QED
  BY <1>1, FS_Subset, FS_CardinalityType, SameCardinality DEF W!ThreadsOK

LEMMA HandsStep ==
  ASSUME W!ThreadsOK, Counted, HandsOK, [W!Next]_W!wvars
  PROVE  HandsOK'
<1>1. ASSUME NEW t \in Threads, W!LoopTest(t) \/ W!Take(t)
      PROVE  HandsOK'
  <2>1. Busy' = Busy
    BY <1>1 DEF W!LoopTest, W!Take, Busy, Counted, Typed
  <2>2. UNCHANGED <<finished, seenIds, inflight>>
    BY <1>1 DEF W!LoopTest, W!Take
  <2>3. /\ held' \in [Threads -> Items \cup {Nobody}]
        /\ \A u \in Threads : held'[u] # Nobody <=> wpc'[u] \in {"got", "busy"}
    <3>1. CASE W!LoopTest(t)
      BY <3>1 DEF W!LoopTest, HandsOK, Counted, Typed
    <3>2. CASE W!Take(t) /\ wq = <<>>
      BY <3>2 DEF W!Take, HandsOK, Counted, Typed
    <3>3. CASE W!Take(t) /\ wq # <<>>
      <4>1. Head(wq) \in Items /\ Head(wq) # Nobody
        BY <3>3 DEF Counted, W!ThreadsOK
      <4>2. held' = [held EXCEPT ![t] = Head(wq)] /\ wpc' = [wpc EXCEPT ![t] = "got"]
        BY <3>3 DEF W!Take
      <4> QED
        BY <4>1, <4>2 DEF HandsOK, Counted, Typed
    <3> QED
      BY <1>1, <3>1, <3>2, <3>3
  <2> QED
    BY <2>1, <2>2, <2>3 DEF HandsOK
<1>2. ASSUME NEW t \in Threads, W!Count(t)
      PROVE  HandsOK'
  <2>1. Busy' = Busy \cup {t} /\ t \notin Busy
    BY <1>2 DEF W!Count, Busy, Counted, Typed
  <2>2. Cardinality(Busy') = Cardinality(Busy) + 1
    BY <2>1, BusyIsFinite, FS_AddElement
  <2>3. inflight' = inflight + 1 /\ UNCHANGED <<held, finished, seenIds>>
        /\ wpc[t] = "got" /\ wpc' = [wpc EXCEPT ![t] = "busy"]
    BY <1>2 DEF W!Count
  <2> QED
    BY <2>2, <2>3 DEF HandsOK, Counted, Typed
<1>3. ASSUME NEW t \in Threads, W!Finish(t)
      PROVE  HandsOK'
  <2>1. Busy' = Busy \ {t} /\ t \in Busy
    BY <1>3 DEF W!Finish, Busy, Counted, Typed
  <2>2. Cardinality(Busy') = Cardinality(Busy) - 1
    BY <2>1, BusyIsFinite, FS_RemoveElement
  <2>3. /\ inflight' = inflight - 1 /\ seenIds' = seenIds
        /\ wpc' = [wpc EXCEPT ![t] = "loop"] /\ held' = [held EXCEPT ![t] = Nobody]
        /\ finished' = [finished EXCEPT ![held[t]] = finished[held[t]] + 1]
    BY <1>3 DEF W!Finish
  <2>4. finished' \in [Items -> Nat]
    <3>1. held[t] \in Items => finished[held[t]] + 1 \in Nat
      BY DEF HandsOK
    <3> QED
      BY <2>3, <3>1 DEF HandsOK
  <2> QED
    BY <2>2, <2>3, <2>4 DEF HandsOK, Counted, Typed
<1>4. ASSUME NEW c \in Controls, W!Start(c)
      PROVE  HandsOK'
  <2>1. Busy' = Busy /\ \A u \in Threads : wpc'[u] \in {"got", "busy"} <=> wpc[u] \in {"got", "busy"}
    BY <1>4 DEF W!Start, Busy, Counted, Typed
  <2>2. UNCHANGED <<held, finished, seenIds, inflight>>
    BY <1>4 DEF W!Start
  <2> QED
    BY <2>1, <2>2 DEF HandsOK
<1>5. ASSUME UNCHANGED <<wpc, held, finished, inflight>>, seenIds' \subseteq Items
      PROVE  HandsOK'
  <2>1. Busy' = Busy
    BY <1>5 DEF Busy
  <2> QED
    BY <1>5, <2>1 DEF HandsOK
<1>6. ASSUME NEW i \in Items, W!Submit(i)
      PROVE  HandsOK'
  BY <1>5, <1>6 DEF W!Submit, HandsOK
<1>7. CASE UNCHANGED <<wpc, held, finished, inflight, seenIds>>
  BY <1>5, <1>7 DEF HandsOK
<1> QED
  BY <1>1, <1>2, <1>3, <1>4, <1>6, <1>7 DEF W!Next, W!StopSet, W!StopRead, W!StopEnd, W!wvars

(***************************************************************************)
(* A job of SttWorker is in one place: once in the queue, in one thread's  *)
(* hand, or worked off once.                                               *)
(***************************************************************************)

QueuedOnce ==
  \A k \in 1 .. Len(wq) :
    /\ wq[k] \in seenIds /\ finished[wq[k]] = 0
    /\ \A l \in 1 .. Len(wq) : wq[l] = wq[k] => l = k
HeldOnce ==
  \A t \in Threads : held[t] # Nobody =>
    /\ held[t] \in seenIds /\ finished[held[t]] = 0
    /\ \A u \in Threads : held[u] = held[t] => u = t
    /\ \A k \in 1 .. Len(wq) : wq[k] # held[t]
FinishedOnce ==
  \A i \in Items : finished[i] <= 1 /\ (i \notin seenIds => finished[i] = 0)
OnceOK == kind = "stt" => QueuedOnce /\ HeldOnce /\ FinishedOnce

LEMMA OnceStep ==
  ASSUME W!ThreadsOK, Counted, HandsOK, OnceOK, [W!Next]_W!wvars
  PROVE  OnceOK'
<1> USE DEF OnceOK
<1>1. kind' = kind
  BY DEF W!Next, W!wvars, W!Start, W!StopSet, W!StopRead, W!StopEnd, W!Submit, W!LoopTest, W!Take,
      W!Count, W!Finish
<1>2. SUFFICES ASSUME kind = "stt", QueuedOnce, HeldOnce, FinishedOnce
               PROVE  (QueuedOnce /\ HeldOnce /\ FinishedOnce)'
  BY <1>1
<1>3. wq \in Seq(Items) /\ Len(wq) \in Nat /\ \A k \in 1 .. Len(wq) : wq[k] \in Items
  BY DEF Counted
<1>4. ASSUME NEW i \in Items, W!Submit(i)
      PROVE  (QueuedOnce /\ HeldOnce /\ FinishedOnce)'
  <2>1. /\ i \notin seenIds /\ wq' = Append(wq, i) /\ seenIds' = seenIds \cup {i}
        /\ UNCHANGED <<held, finished>>
    BY <1>2, <1>4 DEF W!Submit
  <2>2. /\ Len(wq') = Len(wq) + 1 /\ wq'[Len(wq) + 1] = i
        /\ \A k \in 1 .. Len(wq) : wq'[k] = wq[k]
    BY <1>3, <2>1
  <2>3. i # Nobody /\ finished[i] = 0 /\ (\A t \in Threads : held[t] # i)
        /\ \A k \in 1 .. Len(wq) : wq[k] # i
    BY <1>2, <2>1 DEF W!ThreadsOK, QueuedOnce, HeldOnce, FinishedOnce
  <2>4. QueuedOnce'
    BY <1>2, <1>3, <2>1, <2>2, <2>3 DEF QueuedOnce
  <2>5. HeldOnce'
    BY <1>2, <1>3, <2>1, <2>2, <2>3 DEF HeldOnce
  <2>6. FinishedOnce'
    BY <1>2, <2>1 DEF FinishedOnce
  <2> QED
    BY <2>4, <2>5, <2>6
<1>5. ASSUME NEW t \in Threads, W!Take(t), wq # <<>>
      PROVE  (QueuedOnce /\ HeldOnce /\ FinishedOnce)'
  <2>1. /\ held' = [held EXCEPT ![t] = Head(wq)] /\ wq' = Tail(wq)
        /\ UNCHANGED <<seenIds, finished>>
    BY <1>5 DEF W!Take
  <2>2. /\ Len(wq') = Len(wq) - 1 /\ Len(wq) >= 1 /\ Head(wq) = wq[1]
        /\ \A k \in 1 .. Len(wq) - 1 : wq'[k] = wq[k + 1]
    BY <1>3, <1>5, <2>1
  <2>3. held' = [held EXCEPT ![t] = wq[1]]
    BY <2>1, <2>2
  <2>4. /\ wq[1] \in seenIds /\ finished[wq[1]] = 0
        /\ (\A u \in Threads : held[u] # wq[1])
        /\ \A k \in 2 .. Len(wq) : wq[k] # wq[1]
    BY <1>2, <1>3, <2>2 DEF QueuedOnce, HeldOnce, W!ThreadsOK
  <2>5. QueuedOnce'
    <3>1. SUFFICES ASSUME NEW k \in 1 .. Len(wq) - 1
                   PROVE  /\ wq[k + 1] \in seenIds /\ finished[wq[k + 1]] = 0
                          /\ \A l \in 1 .. Len(wq) - 1 : wq[l + 1] = wq[k + 1] => l = k
      <4>1. \A k_1 \in 1 .. Len(wq) - 1 : wq'[k_1] = wq[k_1 + 1]
        BY <2>2
      <4>2. UNCHANGED <<seenIds, finished>> /\ Len(wq') = Len(wq) - 1
        BY <2>1, <2>2
      <4> QED
        BY <4>1, <4>2 DEF QueuedOnce
    <3>2. k + 1 \in 1 .. Len(wq) /\ \A l \in 1 .. Len(wq) - 1 : l + 1 \in 1 .. Len(wq)
      BY <1>3
    <3>3. \A l \in 1 .. Len(wq) - 1 : wq[l + 1] = wq[k + 1] => l + 1 = k + 1
      BY <1>2, <3>2 DEF QueuedOnce
    <3> QED
      BY <1>2, <3>2, <3>3 DEF QueuedOnce
  <2>6. HeldOnce'
    <3>1. \A k \in 1 .. Len(wq'): k + 1 \in 2 .. Len(wq) /\ wq'[k] = wq[k + 1]
      BY <1>3, <2>2
    <3>2. \A u \in Threads \ {t} : held'[u] = held[u]
      BY <2>3
    <3>3. held'[t] = wq[1]
      BY <2>3 DEF HandsOK
    <3>4. ASSUME NEW u \in Threads, held'[u] # Nobody, u # t
          PROVE  /\ held'[u] \in seenIds' /\ finished'[held'[u]] = 0
                 /\ (\A v \in Threads : held'[v] = held'[u] => v = u)
                 /\ \A k \in 1 .. Len(wq') : wq'[k] # held'[u]
      BY <1>2, <1>3, <2>1, <2>4, <3>1, <3>2, <3>3, <3>4 DEF HeldOnce
    <3>5. /\ held'[t] \in seenIds' /\ finished'[held'[t]] = 0
          /\ (\A v \in Threads : held'[v] = held'[t] => v = t)
          /\ \A k \in 1 .. Len(wq') : wq'[k] # held'[t]
      BY <2>1, <2>4, <3>1, <3>2, <3>3
    <3> QED
      BY <3>4, <3>5 DEF HeldOnce
  <2>7. FinishedOnce'
    BY <1>2, <2>1 DEF FinishedOnce
  <2> QED
    BY <2>5, <2>6, <2>7
<1>6. ASSUME NEW t \in Threads, W!Finish(t)
      PROVE  (QueuedOnce /\ HeldOnce /\ FinishedOnce)'
  <2>1. held[t] \in Items /\ held[t] # Nobody
    BY <1>6 DEF W!Finish, HandsOK
  <2>2. /\ held' = [held EXCEPT ![t] = Nobody]
        /\ finished' = [finished EXCEPT ![held[t]] = finished[held[t]] + 1]
        /\ UNCHANGED <<wq, seenIds>>
    BY <1>6 DEF W!Finish
  <2>3. /\ held[t] \in seenIds /\ finished[held[t]] = 0
        /\ (\A u \in Threads \ {t} : held[u] # held[t])
        /\ \A k \in 1 .. Len(wq) : wq[k] # held[t]
    BY <1>2, <2>1 DEF HeldOnce
  <2>4. QueuedOnce'
    BY <1>2, <1>3, <2>2, <2>3 DEF QueuedOnce, HandsOK
  <2>5. HeldOnce'
    BY <1>2, <2>1, <2>2, <2>3 DEF HeldOnce, HandsOK
  <2>6. FinishedOnce'
    BY <1>2, <2>1, <2>2, <2>3 DEF FinishedOnce, HandsOK
  <2> QED
    BY <2>4, <2>5, <2>6
<1>7. CASE UNCHANGED <<wq, held, finished, seenIds>>
  BY <1>2, <1>7 DEF QueuedOnce, HeldOnce, FinishedOnce
<1>8. ASSUME NEW t \in Threads, W!Take(t), wq = <<>>
      PROVE  UNCHANGED <<wq, held, finished, seenIds>>
  BY <1>8 DEF W!Take
<1> QED
  BY <1>4, <1>5, <1>6, <1>7, <1>8
  DEF W!Next, W!wvars, W!Start, W!StopSet, W!StopRead, W!StopEnd, W!LoopTest, W!Count

LEMMA OnceHolds == W!ThreadsOK /\ Counted /\ HandsOK /\ OnceOK => W!WorkedOnce
<1> SUFFICES ASSUME W!ThreadsOK, Counted, HandsOK, OnceOK, kind = "stt", NEW i \in Items
             PROVE  finished[i] + Cardinality({t \in Threads : held[t] = i})
                      + Cardinality({k \in DOMAIN wq : wq[k] = i}) <= 1
  BY SameCardinality DEF W!WorkedOnce
<1> DEFINE H == {t \in Threads : held[t] = i}
           P == {k \in DOMAIN wq : wq[k] = i}
<1>1. i # Nobody => (\A t \in H : H = {t} /\ P = {} /\ finished[i] = 0)
  BY DEF OnceOK, HeldOnce, Counted
<1>2. \A k \in P : P = {k} /\ finished[i] = 0
  BY DEF OnceOK, QueuedOnce, Counted
<1>3. finished[i] \in {0, 1}
  BY DEF OnceOK, FinishedOnce, HandsOK
<1>4. Cardinality({}) = 0 /\ \A x : Cardinality({x}) = 1
  BY FS_EmptySet, FS_Singleton
<1>5. i # Nobody
  BY DEF W!ThreadsOK
<1>6. SUFFICES finished[i] + Cardinality(H) + Cardinality(P) <= 1
  OBVIOUS
<1> HIDE DEF H, P
<1>7. Cardinality(P) \in {0, 1} /\ (finished[i] = 1 => Cardinality(P) = 0)
  <2>1. P = {} \/ \E k \in P : P = {k} /\ finished[i] = 0
    BY <1>2
  <2>2. CASE P = {}
    BY <1>4, <2>2
  <2>3. ASSUME NEW k \in P, P = {k}, finished[i] = 0
        PROVE  Cardinality(P) = 1
    BY <1>4, <2>3
  <2> QED
    BY <2>1, <2>2, <2>3
<1>8. Cardinality(H) \in {0, 1} /\ (Cardinality(H) = 1 => finished[i] = 0 /\ Cardinality(P) = 0)
  <2>1. H = {} \/ \E t \in H : H = {t} /\ finished[i] = 0 /\ P = {}
    BY <1>1, <1>5
  <2>2. CASE H = {}
    BY <1>4, <2>2
  <2>3. ASSUME NEW t \in H, H = {t}, P = {}
        PROVE  Cardinality(H) = 1 /\ Cardinality(P) = 0
    BY <1>4, <2>3
  <2> QED
    BY <2>1, <2>2, <2>3
<1> QED
  BY <1>3, <1>7, <1>8

(***************************************************************************)
(* The receivers (ReceiverLifecycle).                                      *)
(***************************************************************************)

ReceiverTyped ==
  /\ proto \in {"rtp", "tca1"} /\ rrun \in BOOLEAN
  /\ rpc \in [RecvThreads -> {"unborn", "binding", "receiving", "leaving", "gone"}]
  /\ rcur \in RecvThreads \cup {NoThread}
ReceiverOK == ReceiverTyped /\ R!ActiveIsAlive

LEMMA ReceiverStep ==
  ASSUME R!ReceiversOK, ReceiverOK, [R!Next]_R!rvars
  PROVE  ReceiverOK'
<1>1. ASSUME NEW c \in Callers, R!Start(c)
      PROVE  ReceiverOK'
  <2>1. CASE rrun
    BY <1>1, <2>1 DEF R!Start, ReceiverOK, ReceiverTyped, R!ActiveIsAlive, R!Alive
  <2>2. CASE ~rrun
    <3>1. PICK t \in RecvThreads :
            /\ rpc[t] = "unborn" /\ rrun' = TRUE /\ rcur' = t
            /\ rpc' = [rpc EXCEPT ![t] = "binding"]
      BY <1>1, <2>2 DEF R!Start
    <3>2. UNCHANGED proto
      BY <1>1 DEF R!Start
    <3>3. R!ActiveIsAlive'
      BY <3>1 DEF R!ReceiversOK, ReceiverOK, ReceiverTyped, R!ActiveIsAlive, R!Alive
    <3> QED
      BY <3>1, <3>2, <3>3 DEF ReceiverOK, ReceiverTyped
  <2> QED
    BY <2>1, <2>2 DEF ReceiverOK, ReceiverTyped
<1>2. ASSUME NEW c \in Callers, R!StopBegin(c) \/ R!StopEnd(c)
      PROVE  ReceiverOK'
  <2>1. CASE R!StopBegin(c)
    BY <2>1 DEF R!StopBegin, ReceiverOK, ReceiverTyped, R!ActiveIsAlive
  <2>2. CASE R!StopEnd(c)
    <3>1. UNCHANGED <<proto, rrun, rcur, rpc>>
      BY <2>2 DEF R!StopEnd
    <3> QED
      BY <3>1 DEF ReceiverOK, ReceiverTyped, R!ActiveIsAlive, R!Alive
  <2> QED
    BY <1>2, <2>1, <2>2
<1>3. ASSUME NEW t \in RecvThreads, R!Bind(t) \/ R!LeaveLoop(t)
      PROVE  ReceiverOK'
  <2>1. ReceiverTyped' /\ UNCHANGED <<proto, rcur, rrun>>
    BY <1>3 DEF R!Bind, R!LeaveLoop, ReceiverOK, ReceiverTyped
  <2>2. \A u \in RecvThreads : R!Alive(u) => R!Alive(u)'
    BY <1>3 DEF R!Bind, R!LeaveLoop, R!Alive, ReceiverOK, ReceiverTyped
  <2> QED
    BY <2>1, <2>2 DEF ReceiverOK, ReceiverTyped, R!ActiveIsAlive
\* The thread that ends takes _running with it, whichever thread is the known one.
<1>4. ASSUME NEW t \in RecvThreads, R!Leave(t)
      PROVE  ReceiverOK'
  <2>1. ReceiverTyped' /\ UNCHANGED proto /\ (proto = "rtp" => ~rrun')
    BY <1>4 DEF R!Leave, ReceiverOK, ReceiverTyped
  <2> QED
    BY <2>1 DEF ReceiverOK, R!ActiveIsAlive
<1>5. CASE UNCHANGED R!rvars
  BY <1>5 DEF R!rvars, ReceiverOK, ReceiverTyped, R!ActiveIsAlive, R!Alive
<1> QED
  BY <1>1, <1>2, <1>3, <1>4, <1>5 DEF R!Next

(***************************************************************************)
(* The group.                                                              *)
(***************************************************************************)

WorkersInv == WorkerOK /\ Counted /\ HandsOK /\ OnceOK /\ ReceiverOK

LEMMA WorkersInit == W!ThreadsOK /\ R!ReceiversOK /\ Init => WorkersInv
<1> SUFFICES ASSUME W!ThreadsOK, R!ReceiversOK, W!Init, R!Init PROVE WorkersInv
  BY DEF Init
<1>1. WorkerOK
  BY DEF W!Init, WorkerOK, Typed, W!OneWorker, W!Live
<1>2. W!Holding = {} /\ Busy = {} /\ Cardinality({}) = 0
  BY FS_EmptySet DEF W!Init, W!Holding, Busy
<1>3. Counted
  <2>1. wq = <<>> /\ Len(wq) = 0 /\ wq \in Seq(Items)
    BY DEF W!Init
  <2>2. processed = 0 /\ failedJobs = 0 /\ accepted = 0
    BY DEF W!Init
  <2> QED
    BY <1>1, <1>2, <2>1, <2>2, SameCardinality DEF WorkerOK, Counted, W!JobsConserved
<1>4. HandsOK
  BY <1>2 DEF W!Init, HandsOK
<1>5. OnceOK
  BY DEF W!Init, OnceOK, QueuedOnce, HeldOnce, FinishedOnce
<1>6. ReceiverOK
  BY DEF R!Init, ReceiverOK, ReceiverTyped, R!ActiveIsAlive
<1> QED
  BY <1>1, <1>3, <1>4, <1>5, <1>6 DEF WorkersInv

\* A step of the group is a step of the workers or leaves them alone, and so for the receivers.
LEMMA GroupSteps == [Next]_vars => [W!Next]_W!wvars /\ [R!Next]_R!rvars
BY DEF Next, vars, WVars, RVars, W!wvars, R!rvars

\* Workers are safe for any jobs, threads, controllers and callers, whatever start(), stop() and their
\* timeouts do at the same time: SttWorker has one live thread, the one it knows; a job either worker
\* accepted is queued, held, processed or failed; a job of SttWorker is in one of these places once;
\* and an RtpReceiver that says it is active has a live thread, the one it knows.
THEOREM WorkersAreSafeHolds == Spec => []WorkersAreSafe
<1>1. W!ThreadsOK /\ R!ReceiversOK
  BY AudioConstantsOK
<1>2. Init => WorkersInv
  BY <1>1, WorkersInit
<1>3. WorkersInv /\ [Next]_vars => WorkersInv'
  BY <1>1, GroupSteps, WorkerStep, CountedStep, HandsStep, OnceStep, ReceiverStep DEF WorkersInv
<1>4. WorkersInv => WorkersAreSafe
  BY <1>1, OnceHolds DEF WorkersInv, WorkersAreSafe, WorkerOK, Counted, ReceiverOK
<1> QED
  BY <1>2, <1>3, <1>4, PTL DEF Spec
=============================================================================
