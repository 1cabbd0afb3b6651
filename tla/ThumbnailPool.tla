--------------------------- MODULE ThumbnailPool ---------------------------
(***************************************************************************)
(* createPreviewThumbnail: images are decoded by worker threads, a few at  *)
(* a time, with a short queue.  Queue time counts for the deadline.  A job *)
(* that is over terminates its worker, whose place is free only when it    *)
(* has exited.                                                             *)
(***************************************************************************)
EXTENDS Integers, Sequences, FiniteSets, SequencesExt

CONSTANTS
  Job,         \* calls of createPreviewThumbnail, each made at most once
  MaxWorkers,  \* MAX_WORKERS
  MaxQueued    \* MAX_QUEUED

ASSUME PoolAssumption == MaxWorkers \in Nat \ {0} /\ MaxQueued \in Nat

VARIABLES
  jobQueue,       \* the jobs that wait for a worker
  activeWorkers,  \* activeWorkers
  worker,         \* of each job: "none", "running" or "terminated"
  settled,        \* of each job: "no", "ok" or "failed", or "new" before the call
  cancelled,      \* the jobs whose signal is aborted
  told            \* what each call's promise has become: "none", "ok" or "failed"

poolVars == <<jobQueue, activeWorkers, worker, settled, cancelled, told>>

PoolInit ==
  /\ jobQueue = <<>> /\ activeWorkers = 0
  /\ worker = [j \in Job |-> "none"]
  /\ settled = [j \in Job |-> "new"]
  /\ cancelled = {}
  /\ told = [j \in Job |-> "none"]

Least(S) == CHOOSE n \in S : \A m \in S : n <= m

\* Of the first n jobs of the queue, those that get a thread, when the threads of the
\* jobs in `broken' cannot be created.
Threads(q, n, broken) == Cardinality({m \in 1 .. n : q[m] \notin broken})

\* drain: what leaves the queue until the workers are all taken.
Leaving(q, free, broken) ==
  Least({n \in 0 .. Len(q) : n = Len(q) \/ Threads(q, n, broken) = free})

FreeWorkers(gave) == MaxWorkers - (activeWorkers - gave)

\* The queue, the workers and the jobs after drain.  `rest' is the queue before it,
\* `gave' the workers given back, and settledNow what has just been decided.
Drain(rest, gave, settledNow, toldNow, workerNow) ==
  \E broken \in SUBSET ToSet(rest) :
    LET n       == Leaving(rest, FreeWorkers(gave), broken)
        out     == {rest[m] : m \in 1 .. n}
        started == out \ broken
    IN /\ broken \subseteq out
       /\ jobQueue' = SubSeq(rest, n + 1, Len(rest))
       /\ activeWorkers' = activeWorkers - gave + Cardinality(started)
       /\ worker' = [j \in Job |-> IF j \in started THEN "running" ELSE workerNow[j]]
       /\ settled' = [j \in Job |-> IF j \in broken THEN "failed" ELSE settledNow[j]]
       /\ told' = [j \in Job |-> IF j \in broken THEN "failed" ELSE toldNow[j]]

Submit(j) ==
  /\ settled[j] = "new"
  /\ activeWorkers < MaxWorkers \/ Len(jobQueue) < MaxQueued
  /\ Drain(Append(jobQueue, j), 0, [settled EXCEPT ![j] = "no"], told, worker)
  /\ UNCHANGED cancelled

\* The signal was aborted before, the image is not accepted, or there is no room.
Reject(j) ==
  /\ settled[j] = "new"
  /\ settled' = [settled EXCEPT ![j] = "failed"]
  /\ told' = [told EXCEPT ![j] = "failed"]
  /\ UNCHANGED <<jobQueue, activeWorkers, worker, cancelled>>

\* Mutant: the place is free as soon as the job is over.
PlacesAtOnce(j) == IF worker[j] = "running" THEN 1 ELSE 0

PlacesBack(j) == 0

\* queue.splice(queue.indexOf(job), 1)
Without(q, j) == RemoveFirst(q, j)

Rejected(j) == [told EXCEPT ![j] = "failed"]

\* finish with an error: the promise is rejected at once.
Fail(j) ==
  Drain(Without(jobQueue, j), PlacesBack(j), [settled EXCEPT ![j] = "failed"],
        Rejected(j),
        [worker EXCEPT ![j] = IF @ = "running" THEN "terminated" ELSE @])

\* The worker reports: a thumbnail, or an error.
Decoded(j) ==
  /\ settled[j] = "no" /\ worker[j] = "running"
  /\ Drain(jobQueue, PlacesBack(j), [settled EXCEPT ![j] = "ok"], told,
           [worker EXCEPT ![j] = "terminated"])
  /\ UNCHANGED cancelled

Undecodable(j) ==
  /\ settled[j] = "no" /\ worker[j] = "running"
  /\ Fail(j)
  /\ UNCHANGED cancelled

Deadline(j) ==
  /\ settled[j] = "no"
  /\ Fail(j)
  /\ UNCHANGED cancelled

Cancel(j) ==
  /\ settled[j] # "new" /\ told[j] = "none" /\ j \notin cancelled
  /\ cancelled' = cancelled \union {j}
  /\ IF settled[j] = "no" THEN Fail(j)
     ELSE UNCHANGED <<jobQueue, activeWorkers, worker, settled, told>>

\* terminate() has resolved.
Outcome(j) == IF j \in cancelled THEN "failed" ELSE "ok"

\* The thread exits, by itself or terminated; the place is free.
WorkerExits(j) ==
  /\ worker[j] # "none"
  /\ Drain(jobQueue, 1, [settled EXCEPT ![j] = IF @ = "no" THEN "failed" ELSE @],
           [told EXCEPT ![j] = IF @ # "none" THEN @
                               ELSE IF settled[j] = "ok" THEN Outcome(j) ELSE "failed"],
           [worker EXCEPT ![j] = "none"])
  /\ UNCHANGED cancelled

JobStep(j) ==
  \/ Submit(j) \/ Reject(j) \/ Decoded(j) \/ Undecodable(j) \/ Deadline(j) \/ Cancel(j)
  \/ WorkerExits(j)

PoolNext == \E j \in Job : JobStep(j)

PoolSpec == PoolInit /\ [][PoolNext]_poolVars

\* The deadline passes and a terminated thread exits.
PoolFairness == \A j \in Job :
  WF_poolVars(Deadline(j)) /\ WF_poolVars(settled[j] # "no" /\ WorkerExits(j))

-----------------------------------------------------------------------------
(* Properties *)

\* The type of every variable.
PoolTypeOK ==
  /\ jobQueue \in Seq(Job) /\ activeWorkers \in 0 .. MaxWorkers
  /\ worker \in [Job -> {"none", "running", "terminated"}]
  /\ settled \in [Job -> {"new", "no", "ok", "failed"}]
  /\ cancelled \subseteq Job
  /\ told \in [Job -> {"none", "ok", "failed"}]

\* Threads that still have to exit count: there are never more than MaxWorkers, and a job
\* waits only while all places are taken, in a queue of at most MaxQueued.
PlacesCounted ==
  /\ activeWorkers = Cardinality({j \in Job : worker[j] # "none"})
  /\ activeWorkers <= MaxWorkers
  /\ jobQueue # <<>> => activeWorkers = MaxWorkers
  /\ Len(jobQueue) <= MaxQueued

\* What waits in the queue is wanted: neither settled nor cancelled, once each.
QueueIsLive ==
  /\ \A j \in ToSet(jobQueue) : settled[j] = "no" /\ worker[j] = "none" /\ j \notin cancelled
  /\ IsInjective(jobQueue)

\* A call that was cancelled before it was answered gets no thumbnail.
NoLateThumbnail == [][\A j \in cancelled : told'[j] = "ok" => told[j] = "ok"]_poolVars

\* Places and queue are right, and no cancelled call is served, in whatever order a thread's
\* answer, error and exit, the deadline and the caller's cancellation come.
PoolSafety == [](PoolTypeOK /\ PlacesCounted /\ QueueIsLive) /\ NoLateThumbnail

\* Every call is answered, whatever the threads do.
ThumbnailsEnd == \A j \in Job : []<>(settled[j] = "new" \/ told[j] # "none")
=============================================================================
