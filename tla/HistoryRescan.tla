--------------------------- MODULE HistoryRescan ---------------------------
(***************************************************************************)
(* The replay of the stored history of one instance: the requests that     *)
(* begin a job, the producer that claims it, freezes its pages in the      *)
(* database and puts their events in the webhook outbox, the cancellation  *)
(* by a closed connection, and the process that runs all of it.            *)
(*                                                                         *)
(* A connection is a number, its connectionUpdatedAt: a later one has a    *)
(* larger number.  Each statement on the database is one step; the code    *)
(* between two awaits is part of the step before it.                       *)
(***************************************************************************)
EXTENDS RescanPage, Sequences

CONSTANTS
  Client,       \* concurrent POST requests
  Key,          \* values of Idempotency-Key
  Job,          \* bound: numbers of the jobs, 1 .. n
  MaxAttempts,  \* failures after which a job is not tried again
  PagesPerCycle,
  Tables,       \* bound: the rows the tables may have at first
  Limits        \* bounds: the kinds in Bounded happen as often as one of these allows

\* Requests, closures of the connection, crashes, failing statements or outbox writes,
\* changes of a stored row, changes of the natural history and of the backlog.
Bounded == {"ask", "close", "crash", "fault", "row", "pause"}

ASSUME HistoryRescanAssumption ==
  /\ Job \subseteq Nat \ {0} /\ MaxAttempts \in Nat \ {0} /\ PagesPerCycle \in Nat \ {0}
  /\ Limits \subseteq [Bounded -> Nat]
  /\ Tables \subseteq [Kind -> [Row -> Nat]]

VARIABLES
  table,      \* the stored rows
  job,        \* rows of historyRescanJob; the number is also the runId
  request,    \* POST requests in progress
  answers,    \* history: what the requests were told
  cycle,      \* the flight of the producer
  enqueued,   \* history: the events put in the outbox
  conn,       \* the latest connection
  online,     \* the latest connection is ONLINE
  natural,    \* naturalHistoryActive
  backlog,    \* the outbox has fifty events or more
  cancels,    \* cancelInstance of closed connections, not yet in the database
  stopped,    \* this.stopped
  spent       \* how often each bounded kind has happened

world == <<natural, backlog, table>>
link  == <<conn, online, cancels>>
vars  == <<world, job, request, answers, cycle, enqueued, link, stopped, spent>>

-----------------------------------------------------------------------------
NoState == [phase |-> 0, cursor |-> 0, max |-> [k \in Kind |-> 0], sequence |-> 0,
            chunks |-> 0, count |-> 0]
NoPage  == [events |-> <<>>, after |-> NoState, complete |-> FALSE]

\* leased: leaseToken is that of the cycle in flight; expired: leaseUntil <= now;
\* due: nextAttemptAt <= now.
NoJob ==
  [status |-> "none", key |-> 0, conn |-> 0, state |-> NoState, pending |-> NoPage,
   attempts |-> 0, leased |-> FALSE, expired |-> FALSE, due |-> FALSE]

\* mine: the copy of the job that claim() returned; page: pending of this page.
NoCycle == [pc |-> "idle", job |-> 0, mine |-> NoState, tries |-> 0, page |-> NoPage,
            at |-> 0, pages |-> 0, error |-> "none", later |-> FALSE]
NoRequest == [pc |-> "idle", key |-> 0, conn |-> 0]

Active    == {j \in Job : job[j].status \in {"queued", "running"}}
Completed == {j \in Job : job[j].status = "completed"}
Terminal  == {"completed", "failed"}

MaySpend(kind) ==
  \E limit \in Limits :
    \A k \in Bounded : spent[k] + (IF k = kind THEN 1 ELSE 0) <= limit[k]

Spend(kind) ==
  /\ MaySpend(kind)
  /\ spent' = [spent EXCEPT ![kind] = @ + 1]

Init ==
  /\ table \in Tables
  /\ job = [j \in Job |-> NoJob]
  /\ request = [c \in Client |-> NoRequest] /\ answers = {}
  /\ cycle = NoCycle /\ enqueued = {}
  /\ conn = 1 /\ online = TRUE /\ cancels = {}
  /\ natural = FALSE /\ backlog = FALSE /\ stopped = FALSE
  /\ spent = [k \in Bounded |-> 0]

-----------------------------------------------------------------------------
(* request() *)

\* The request is answered with job j, or refused with an error.
Answer(c, j, mode) ==
  /\ request' = [request EXCEPT ![c] = NoRequest]
  /\ answers' = answers \union {[key |-> request[c].key, job |-> j, mode |-> mode]}

Refuse(c) ==
  /\ request' = [request EXCEPT ![c] = NoRequest]
  /\ UNCHANGED answers

GoOn(c, pc) ==
  /\ request' = [request EXCEPT ![c].pc = pc]
  /\ UNCHANGED answers

Ask(c, key) ==
  /\ request[c].pc = "idle" /\ ~stopped /\ online
  /\ Spend("ask")
  /\ request' = [request EXCEPT ![c] = [pc |-> "key", key |-> key, conn |-> 0]]
  /\ UNCHANGED <<world, job, answers, cycle, enqueued, link, stopped>>

WithKey(key) == {j \in Job : job[j].status # "none" /\ job[j].key = key}

FindByKey(c) ==
  /\ request[c].pc = "key"
  /\ \/ \E j \in WithKey(request[c].key) : Answer(c, j, "idempotent")
     \/ WithKey(request[c].key) = {} /\ GoOn(c, "active")
  /\ UNCHANGED <<world, job, cycle, enqueued, link, stopped, spent>>

FindActive(c) ==
  /\ request[c].pc = "active"
  /\ \/ \E j \in Active : Answer(c, j, "active")
     \/ Active = {} /\ natural /\ Refuse(c)
     \/ Active = {} /\ ~natural /\ GoOn(c, "pending")
  /\ UNCHANGED <<world, job, cycle, enqueued, link, stopped, spent>>

\* exists() and historyPending() have answered.  Pending deliveries of the latest
\* completed job are followed; those of another origin refuse the request.
CheckPending(c) ==
  /\ request[c].pc = "pending"
  /\ \/ Refuse(c)
     \/ ~natural /\ \E j \in Completed : /\ \A k \in Completed : k <= j
                                         /\ Answer(c, j, "active")
     \/ /\ ~natural /\ online
        /\ request' = [request EXCEPT ![c].pc = "begin", ![c].conn = conn]
        /\ UNCHANGED answers
  /\ UNCHANGED <<world, job, cycle, enqueued, link, stopped, spent>>

\* Mutant: the transaction does not look for a job with the same key.
NoPrior(key) == {}

Prior(key) == WithKey(key)

NewJob(c) ==
  [status |-> "queued", key |-> request[c].key, conn |-> request[c].conn,
   state |-> FirstState(table), pending |-> NoPage, attempts |-> 0,
   leased |-> FALSE, expired |-> FALSE, due |-> TRUE]

\* begin(): the transaction; a unique index that refuses the row leads to the
\* same answers.
Begin(c) ==
  /\ request[c].pc = "begin"
  /\ \/ \E j \in Prior(request[c].key) : Answer(c, j, "idempotent") /\ UNCHANGED job
     \/ /\ Prior(request[c].key) = {}
        /\ \E j \in Active : Answer(c, j, "active") /\ UNCHANGED job
     \/ /\ Prior(request[c].key) = {} /\ Active = {}
        /\ \E j \in Job :
             /\ job[j].status = "none" /\ \A k \in Job : k < j => job[k].status # "none"
             /\ job' = [job EXCEPT ![j] = NewJob(c)]
             /\ Answer(c, j, "new")
  /\ UNCHANGED <<world, cycle, enqueued, link, stopped, spent>>

-----------------------------------------------------------------------------
(* cycle() *)

Go(pc) == cycle' = [cycle EXCEPT !.pc = pc]

\* An error is thrown: catch decides at once whether it is a lost connection.
Throw(closed) ==
  cycle' = [cycle EXCEPT !.pc = "fail",
                         !.error = IF closed \/ ~online THEN "closed" ELSE "retry"]

\* return: the finally block releases the job, at once or a second later.
Leave(later) == cycle' = [cycle EXCEPT !.pc = "release", !.later = later]

Mine == job[cycle.job]

\* where: { id, leaseToken: token, status: 'running' }
Holding == Mine.leased /\ Mine.status = "running"

SetJob(row) == job' = [job EXCEPT ![cycle.job] = row]

\* Mutant: only a queued job is taken.
NeverReclaimed(j) == FALSE

\* The lease of a running job is over.
Abandoned(j) == job[j].expired

Eligible(j) ==
  /\ j \in Active /\ job[j].due
  /\ job[j].status = "running" => Abandoned(j)

NextJob ==
  /\ cycle.pc = "idle" /\ ~stopped
  /\ \E j \in Job : /\ Eligible(j)
                    /\ cycle' = [NoCycle EXCEPT !.pc = "claim", !.job = j]
  /\ UNCHANGED <<world, job, request, answers, enqueued, link, stopped, spent>>

Claim ==
  /\ cycle.pc = "claim"
  /\ IF Eligible(cycle.job)
     THEN /\ SetJob([Mine EXCEPT !.status = "running", !.leased = TRUE, !.expired = FALSE])
          /\ cycle' = [cycle EXCEPT !.pc = "page", !.mine = Mine.state, !.page = Mine.pending,
                                    !.tries = Mine.attempts]
     ELSE cycle' = NoCycle /\ UNCHANGED job
  /\ UNCHANGED <<world, request, answers, enqueued, link, stopped, spent>>

\* The loop over pages goes on.
Another == ~stopped /\ cycle.pages < PagesPerCycle

\* The head of the loop, before its first await.
Page ==
  /\ cycle.pc = "page"
  /\ \/ ~Another /\ Leave(FALSE)
     \/ Another /\ ~online /\ Throw(TRUE)
     \/ Another /\ online /\ natural /\ Leave(TRUE)
     \/ Another /\ online /\ ~natural /\ Go("produce")
  /\ UNCHANGED <<world, job, request, answers, enqueued, link, stopped, spent>>

CanProduce ==
  /\ cycle.pc = "produce"
  /\ IF backlog THEN Leave(FALSE) ELSE Go("renew")
  /\ UNCHANGED <<world, job, request, answers, enqueued, link, stopped, spent>>

\* renew(): before a page and before each event.
Renew(here, next) ==
  /\ cycle.pc = here
  /\ IF Holding THEN SetJob([Mine EXCEPT !.expired = FALSE]) /\ Go(next)
                ELSE Leave(FALSE) /\ UNCHANGED job
  /\ UNCHANGED <<world, request, answers, enqueued, link, stopped, spent>>

\* Mutant: any open connection will do.
AnyTransport == online

\* The snapshot is ONLINE and has the connectionUpdatedAt of the job.
SameTransport == online /\ conn = Mine.conn

\* The frozen page of an earlier attempt is used again.
Frozen == cycle.page # NoPage

\* Where a page goes on: its events, or, without any, the end of the page.
Emission == IF cycle.page.events = <<>> THEN "advance" ELSE "event"

Snapshot ==
  /\ cycle.pc = "snapshot"
  /\ IF ~SameTransport THEN Throw(TRUE)
     ELSE cycle' = [cycle EXCEPT !.pc = IF Frozen THEN Emission ELSE "plan",
                                 !.at = 1]
  /\ UNCHANGED <<world, job, request, answers, enqueued, link, stopped, spent>>

\* plan() reads the rows of the page.
PlanPage ==
  /\ cycle.pc = "plan"
  /\ cycle' = [cycle EXCEPT !.pc = "stage", !.page = Plan(cycle.job, cycle.mine, table)]
  /\ UNCHANGED <<world, job, request, answers, enqueued, link, stopped, spent>>

\* Mutant: the page is not kept in the database.
NotKept == Mine

Staged == [Mine EXCEPT !.pending = cycle.page]

\* stage(); a page without events goes straight to the checks after the loop.
Stage ==
  /\ cycle.pc = "stage"
  /\ \/ /\ Holding /\ Mine.pending = NoPage
        /\ SetJob(Staged)
        /\ IF cycle.page.events = <<>> /\ ~SameTransport THEN Throw(TRUE) ELSE Go(Emission)
     \/ /\ ~(Holding /\ Mine.pending = NoPage)
        /\ Leave(FALSE) /\ UNCHANGED job
  /\ UNCHANGED <<world, request, answers, enqueued, link, stopped, spent>>

RenewForEvent ==
  IF stopped
  THEN /\ cycle.pc = "event" /\ Leave(FALSE)
       /\ UNCHANGED <<world, job, request, answers, enqueued, link, stopped, spent>>
  ELSE Renew("event", "check")

\* The checks before emit() and those of enqueueRescanEvent.
CheckEvent ==
  /\ cycle.pc = "check"
  /\ \/ ~SameTransport /\ Throw(TRUE)
     \/ SameTransport /\ natural /\ Leave(TRUE)
     \/ SameTransport /\ ~natural /\ Go("write")
  /\ UNCHANGED <<world, job, request, answers, enqueued, link, stopped, spent>>

Current == cycle.page.events[cycle.at]

\* The outbox has stored the event.
WriteEvent ==
  /\ cycle.pc = "write"
  /\ enqueued' = enqueued \union {Current}
  /\ Go("written")
  /\ UNCHANGED <<world, job, request, answers, link, stopped, spent>>

\* enqueue() returns; the outbox takes the event back when the connection was
\* closed while it was stored, and the service takes that for an error.
EventWritten ==
  /\ cycle.pc = "written"
  /\ \/ ~SameTransport /\ Throw(FALSE)
     \/ /\ SameTransport
        /\ cycle' = [cycle EXCEPT !.at = @ + 1,
                       !.pc = IF cycle.at < Len(cycle.page.events) THEN "event" ELSE "advance"]
  /\ UNCHANGED <<world, job, request, answers, enqueued, link, stopped, spent>>

\* Mutant: a completed job keeps its lease.
LeaseKept ==
  [Mine EXCEPT !.state = cycle.page.after, !.pending = NoPage,
               !.status = IF cycle.page.complete THEN "completed" ELSE @]

Advanced ==
  IF cycle.page.complete
  THEN [Mine EXCEPT !.state = cycle.page.after, !.pending = NoPage, !.status = "completed",
                    !.leased = FALSE, !.expired = FALSE]
  ELSE [Mine EXCEPT !.state = cycle.page.after, !.pending = NoPage]

Advance ==
  /\ cycle.pc = "advance"
  /\ \/ /\ Holding
        /\ SetJob(Advanced)
        /\ IF cycle.page.complete THEN Leave(FALSE)
           ELSE cycle' = [cycle EXCEPT !.pc = "page", !.mine = cycle.page.after,
                                       !.page = NoPage, !.pages = @ + 1, !.at = 0]
     \/ ~Holding /\ Leave(FALSE) /\ UNCHANGED job
  /\ UNCHANGED <<world, request, answers, enqueued, link, stopped, spent>>

\* The failure is definitive: a lost connection, or the last attempt.
Definitive == cycle.error = "closed" \/ cycle.tries >= MaxAttempts - 1

Fail ==
  /\ cycle.pc = "fail"
  /\ IF Holding
     THEN SetJob([Mine EXCEPT !.status = IF Definitive THEN "failed" ELSE "queued",
                              !.attempts = @ + 1, !.due = FALSE, !.leased = FALSE,
                              !.expired = FALSE,
                              !.pending = IF Definitive THEN NoPage ELSE @])
     ELSE UNCHANGED job
  /\ Leave(FALSE)
  /\ UNCHANGED <<world, request, answers, enqueued, link, stopped, spent>>

\* Mutant: release() only looks for the job.
AnyHolder == TRUE

\* where: { id, leaseToken: token, status: 'running' } of release().
Releasable == Holding

Release ==
  /\ cycle.pc = "release"
  /\ IF Releasable
     THEN SetJob([Mine EXCEPT !.status = "queued", !.leased = FALSE, !.expired = FALSE,
                              !.due = ~cycle.later])
     ELSE UNCHANGED job
  /\ cycle' = NoCycle
  /\ UNCHANGED <<world, request, answers, enqueued, link, stopped, spent>>

\* A statement or the outbox fails: in the loop the error is caught, elsewhere
\* the cycle ends, and the lease stays until it expires.  The statement may have
\* been committed all the same.
CycleFault ==
  /\ cycle.pc \in {"claim", "produce", "renew", "plan", "stage", "event", "write", "advance",
                   "fail", "release"}
  /\ Spend("fault")
  /\ \/ cycle.pc \in {"claim", "release"} /\ cycle' = NoCycle
     \/ cycle.pc = "fail" /\ Leave(FALSE)
     \/ cycle.pc \notin {"claim", "release", "fail"} /\ Throw(FALSE)
  /\ \/ UNCHANGED job
     \/ Holding /\ cycle.pc = "stage" /\ SetJob(Staged)
     \/ Holding /\ cycle.pc = "advance" /\ SetJob(Advanced)
     \/ Eligible(cycle.job) /\ cycle.pc = "claim"
        /\ SetJob([Mine EXCEPT !.status = "running", !.expired = FALSE])
  /\ UNCHANGED <<world, request, answers, enqueued, link, stopped>>

-----------------------------------------------------------------------------
(* Time, the connection, the data and the process *)

RetryDue(j) ==
  /\ job[j].status = "queued" /\ ~job[j].due
  /\ job' = [job EXCEPT ![j].due = TRUE]
  /\ UNCHANGED <<world, request, answers, cycle, enqueued, link, stopped, spent>>

LeaseExpires(j) ==
  /\ job[j].status = "running" /\ ~job[j].expired
  /\ job' = [job EXCEPT ![j].expired = TRUE]
  /\ UNCHANGED <<world, request, answers, cycle, enqueued, link, stopped, spent>>

\* The connection closes; connection.close asks for the cancellation.
CloseConnection ==
  /\ online /\ Spend("close")
  /\ online' = FALSE /\ natural' = FALSE
  /\ cancels' = cancels \union {conn}
  /\ UNCHANGED <<backlog, table, conn, job, request, answers, cycle, enqueued, stopped>>

Reconnect ==
  /\ ~online /\ ~stopped
  /\ online' = TRUE /\ conn' = conn + 1
  /\ UNCHANGED <<world, cancels, job, request, answers, cycle, enqueued, stopped, spent>>

\* Mutant: a late cancellation also ends the job of a newer connection.
EveryJob(before) == Active

\* createdAt <= before
CreatedBefore(before) == {j \in Active : job[j].conn <= before}

\* cancelInstance(), or its failure.
CancelInstance(c) ==
  /\ cancels' = cancels \ {c}
  /\ \/ /\ job' = [j \in Job |->
                     IF j \in CreatedBefore(c)
                     THEN [job[j] EXCEPT !.status = "failed", !.leased = FALSE, !.expired = FALSE,
                                         !.pending = NoPage]
                     ELSE job[j]]
        /\ UNCHANGED spent
     \/ Spend("fault") /\ UNCHANGED job
  /\ UNCHANGED <<world, request, answers, cycle, enqueued, conn, online, stopped>>

\* Natural history arrives or pauses, the outbox fills or drains.
PauseChanges ==
  /\ Spend("pause")
  /\ \/ online /\ natural' = ~natural /\ UNCHANGED backlog
     \/ backlog' = ~backlog /\ UNCHANGED natural
  /\ UNCHANGED <<table, job, request, answers, cycle, enqueued, link, stopped>>

\* A row is edited, deleted, or added after every row there was.
RowChanges ==
  /\ Spend("row")
  /\ \E k \in Kind, r \in Row :
       \/ table[k][r] # 0 /\ \E v \in {0, table[k][r] + 1} : table' = [table EXCEPT ![k][r] = v]
       \/ /\ \A q \in Row : q >= r => table[k][q] = 0
          /\ \A j \in Job : job[j].status # "none" => job[j].state.max[k] < r
          /\ table' = [table EXCEPT ![k][r] = 1]
  /\ UNCHANGED <<natural, backlog, job, request, answers, cycle, enqueued, link, stopped>>

Stop ==
  /\ ~stopped /\ MaySpend("crash")
  /\ stopped' = TRUE
  /\ UNCHANGED <<world, job, request, answers, cycle, enqueued, link, spent>>

\* The process ends, anywhere, and another one starts.
Crash ==
  /\ Spend("crash")
  /\ cycle' = NoCycle
  /\ request' = [c \in Client |-> NoRequest]
  /\ job' = [j \in Job |-> [job[j] EXCEPT !.leased = FALSE]]
  /\ online' = FALSE /\ natural' = FALSE /\ cancels' = {} /\ stopped' = FALSE
  /\ UNCHANGED <<backlog, table, answers, enqueued, conn>>

-----------------------------------------------------------------------------
CycleStep ==
  \/ NextJob \/ Claim \/ Page \/ CanProduce \/ Renew("renew", "snapshot") \/ Snapshot
  \/ PlanPage \/ Stage \/ RenewForEvent \/ CheckEvent \/ WriteEvent \/ EventWritten
  \/ Advance \/ Fail \/ Release
RequestStep(c) == FindByKey(c) \/ FindActive(c) \/ CheckPending(c) \/ Begin(c)

Next ==
  \/ \E c \in Client : RequestStep(c) \/ \E key \in Key : Ask(c, key)
  \/ CycleStep \/ CycleFault
  \/ \E j \in Job : RetryDue(j) \/ LeaseExpires(j)
  \/ CloseConnection \/ Reconnect \/ \E c \in cancels : CancelInstance(c)
  \/ PauseChanges \/ RowChanges \/ Stop \/ Crash

Spec == Init /\ [][Next]_vars

\* The one-second timer, the database and the outbox go on; time passes.  Nothing
\* obliges WhatsApp to connect, the natural history to end or the outbox to drain.
FairSpec ==
  /\ Spec
  /\ WF_vars(CycleStep)
  /\ \A j \in Job : WF_vars(RetryDue(j)) /\ WF_vars(LeaseExpires(j))

-----------------------------------------------------------------------------
(* Properties *)

Position == [phase : Nat, cursor : Nat, max : [Kind -> Nat], sequence : Nat, chunks : Nat,
             count : Nat]

\* The type of every variable.
TypeOK ==
  /\ \A j \in Job :
       /\ job[j].status \in {"none", "queued", "running", "completed", "failed"}
       /\ job[j].state \in Position /\ job[j].pending.after \in Position
       /\ job[j].conn \in 0 .. conn /\ job[j].attempts \in 0 .. MaxAttempts
       /\ job[j].leased => job[j].status = "running"
       /\ job[j].pending # NoPage => j \in Active
  /\ request \in [Client -> [pc : {"idle", "key", "active", "pending", "begin"},
                            key : Key \union {0}, conn : 0 .. conn]]
  /\ cycle.pc = "idle" \/ cycle.job \in Job
  /\ conn \in Nat /\ cancels \subseteq 1 .. conn
  /\ online \in BOOLEAN /\ natural \in BOOLEAN /\ backlog \in BOOLEAN /\ stopped \in BOOLEAN

Identity(e) == <<e.run, e.sequence, e.part, e.kind>>

\* An event that is put in the outbox again after a failure or a crash has the
\* content it had the first time, so that a receiver may drop it.
SameIdentitySameContent ==
  \A e, f \in enqueued : Identity(e) = Identity(f) => e = f

OfRun(j)  == {e \in enqueued : e.run = j}
Copied(j) == UNION {{<<e.kind, item[1]>> : item \in e.items} : e \in OfRun(j)}
Sent(j)   == {e \in OfRun(j) : e.kind # 0}

\* The rows that were there when the job was created, and still are.
Kept(j) == UNION {{<<k, r>> : r \in {q \in Stored(table, k) \ Hidden : q <= job[j].state.max[k]}}
                    : k \in Kind}

\* A completed job has put every row that stayed in the outbox, in one chunk each,
\* and its last event announces the chunks and items there really are.
CompletedExactly ==
  \A j \in Completed :
    \E last \in OfRun(j) :
      /\ {e \in OfRun(j) : e.last} = {last}
      /\ last.chunks = Cardinality(Sent(j))
      /\ last.count = Cardinality(Copied(j))
      /\ \A e, f \in Sent(j) : e # f /\ e.kind = f.kind =>
           {item[1] : item \in e.items} \intersect {item[1] : item \in f.items} = {}
      /\ Kept(j) \subseteq Copied(j)

\* Requests with the same key are told the same job, one that follows the active
\* job of another key aside.
IdempotentKey ==
  \A a, b \in answers :
    a.key = b.key /\ a.mode # "active" /\ b.mode # "active" => a.job = b.job

\* A job that has ended never changes again: no late statement of a cycle and no
\* late cancellation brings it back.
EndedIsFinal ==
  [][\A j \in Job : job[j].status \in Terminal => job'[j] = job[j]]_vars

Enqueues == cycle'.pc = "write" /\ cycle.pc # "write"

\* Every event is put in the outbox during the connection its job was made for, and none of
\* a job that was cancelled, although the cancellation reaches the database some time after
\* the connection has closed.
BoundToConnection ==
  [][Enqueues => online /\ conn = Mine.conn /\ Mine.status = "running"]_vars

\* When the process stays and neither natural history nor a backlog is in the
\* way, every job ends.
JobsEnd ==
  <>[](~stopped /\ ~natural /\ ~backlog) => \A j \in Job : j \in Active ~> j \notin Active
=============================================================================
