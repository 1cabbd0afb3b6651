------------------------- MODULE HistoryRescanProofs -------------------------
(***************************************************************************)
(* Theorems about HistoryRescan, for any clients, keys, jobs, tables and   *)
(* bounds: jobs that have ended stay ended, events keep to the connection  *)
(* of their job and stop with it, a key has one job; an event that is sent *)
(* again is the same, and a completed job has sent every row that stayed,  *)
(* once, and announces what it has sent.                                   *)
(*                                                                         *)
(* The invariant has three layers.  RescanInv is about the rows of jobs,   *)
(* requests and connections, and leaves states and pages untyped.          *)
(* ContentInv relates the confirmed state of a job, its staged page, the   *)
(* cycle and the outbox.  ExactInv counts what the confirmed pages hold.   *)
(***************************************************************************)
EXTENDS HistoryRescan, FiniteSetTheorems, WellFoundedInduction, TLAPS

\* The fields of the rows, the cycle and the requests.
IsJob(r) == r =
  [status |-> r.status, key |-> r.key, conn |-> r.conn, state |-> r.state,
   pending |-> r.pending, attempts |-> r.attempts, leased |-> r.leased,
   expired |-> r.expired, due |-> r.due]

IsCycle(r) == r =
  [pc |-> r.pc, job |-> r.job, mine |-> r.mine, tries |-> r.tries, page |-> r.page,
   at |-> r.at, pages |-> r.pages, error |-> r.error, later |-> r.later]

IsRequest(r) == r = [pc |-> r.pc, key |-> r.key, conn |-> r.conn]

\* Only a running job is leased.
GoodJob(r) ==
  /\ IsJob(r) /\ r.leased \in BOOLEAN /\ r.conn \in Nat
  /\ r.status \in {"none", "queued", "running", "completed", "failed"}
  /\ r.leased => r.status = "running"

JobsTyped ==
  /\ job = [j \in Job |-> job[j]]
  /\ \A j \in Job : GoodJob(job[j]) /\ job[j].conn <= conn

RequestsTyped ==
  /\ request = [c \in Client |-> request[c]]
  /\ \A c \in Client : IsRequest(request[c]) /\ request[c].conn \in Nat /\ request[c].conn <= conn

\* A cycle works on a job that was made.
CycleTyped ==
  /\ IsCycle(cycle)
  /\ cycle.pc # "idle" => cycle.job \in Job /\ Mine.status # "none"

\* Only closed connections are cancelled.
ClosedOnes ==
  /\ conn \in Nat /\ online \in BOOLEAN
  /\ \A c \in cancels : c \in Nat /\ c <= conn /\ (c = conn => ~online)

\* Between the renewal of its lease and the look at the connection a job runs, or its
\* connection has closed.
RunsOrClosed == cycle.pc = "check" => Mine.status = "running" \/ ~online \/ conn # Mine.conn

OneKeyEach == \A i, j \in Job :
  job[i].status # "none" /\ job[j].status # "none" /\ job[i].key = job[j].key => i = j

ToldTheirs == \A a \in answers : a.mode # "active" =>
  a.job \in Job /\ job[a.job].status # "none" /\ job[a.job].key = a.key

RescanInv ==
  /\ JobsTyped /\ RequestsTyped /\ CycleTyped /\ ClosedOnes /\ RunsOrClosed
  /\ OneKeyEach /\ ToldTheirs

\* What no step but the making of a job does otherwise: a row keeps its key and its
\* connection, it is not unmade, and one that has ended does not change.
KeepsRow(j) ==
  /\ GoodJob(job'[j])
  /\ job'[j].key = job[j].key /\ job'[j].conn = job[j].conn
  /\ job[j].status = "none" <=> job'[j].status = "none"
  /\ job[j].status \in Terminal => job'[j] = job[j]
RowsKept == job' = [j \in Job |-> job'[j]] /\ \A j \in Job : KeepsRow(j)

LEMMA RescanInit == Init => RescanInv
<1> SUFFICES ASSUME Init PROVE RescanInv
  OBVIOUS
<1> USE DEF Init
<1>1. GoodJob(NoJob) /\ NoJob.status = "none" /\ NoJob.conn = 0
  BY DEF GoodJob, IsJob, NoJob
<1>2. JobsTyped /\ ClosedOnes /\ ToldTheirs
  BY <1>1 DEF JobsTyped, ClosedOnes, ToldTheirs
<1>3. RequestsTyped
  BY DEF RequestsTyped, IsRequest, NoRequest
<1>4. CycleTyped /\ RunsOrClosed
  BY DEF CycleTyped, RunsOrClosed, IsCycle, NoCycle
<1>5. OneKeyEach
  BY <1>1 DEF OneKeyEach
<1> QED  BY <1>2, <1>3, <1>4, <1>5 DEF RescanInv

\* A row that does not change is kept.
LEMMA SameRows == ASSUME JobsTyped, job' = job PROVE RowsKept
BY DEF JobsTyped, RowsKept, KeepsRow

\* A row written over that of a job that was made.
Fits(row, r) ==
  /\ GoodJob(row) /\ row.key = r.key /\ row.conn = r.conn /\ row.status # "none"

\* The row of the cycle's job is written while the job is wanted.
LEMMA WriteKeeps ==
  ASSUME RescanInv, cycle.job \in Job, Mine.status \in {"queued", "running"}, NEW row, SetJob(row),
         Fits(row, Mine)
  PROVE  RowsKept /\ job'[cycle.job] = row
BY DEF RescanInv, JobsTyped, RowsKept, KeepsRow, SetJob, Mine, Terminal, Fits

\* Fields are written one after another.
LEMMA SetField ==
  ASSUME NEW r, IsJob(r), NEW v
  PROVE  /\ IsJob([r EXCEPT !.status = v]) /\ IsJob([r EXCEPT !.leased = v])
         /\ IsJob([r EXCEPT !.expired = v]) /\ IsJob([r EXCEPT !.due = v])
         /\ IsJob([r EXCEPT !.attempts = v]) /\ IsJob([r EXCEPT !.pending = v])
<1>1. IsJob([r EXCEPT !.status = v]) /\ IsJob([r EXCEPT !.leased = v])
  BY DEF IsJob
<1>2. IsJob([r EXCEPT !.expired = v]) /\ IsJob([r EXCEPT !.due = v])
  BY DEF IsJob
<1>3. IsJob([r EXCEPT !.attempts = v]) /\ IsJob([r EXCEPT !.pending = v])
  BY DEF IsJob
<1> QED  BY <1>1, <1>2, <1>3

LEMMA SetFields ==
  ASSUME NEW r, IsJob(r), NEW s, NEW l, NEW x, NEW d, NEW n, NEW p
  PROVE  /\ IsJob([r EXCEPT !.status = s, !.expired = x])
         /\ IsJob([r EXCEPT !.status = s, !.leased = l, !.expired = x])
         /\ IsJob([r EXCEPT !.status = s, !.leased = l, !.expired = x, !.due = d])
         /\ IsJob([r EXCEPT !.status = s, !.leased = l, !.expired = x, !.pending = p])
         /\ IsJob([r EXCEPT !.status = s, !.attempts = n, !.due = d, !.leased = l, !.expired = x,
                           !.pending = p])
<1> DEFINE r1 == [r EXCEPT !.status = s]
           r2 == [r1 EXCEPT !.leased = l]
           r3 == [r2 EXCEPT !.expired = x]
<1>1. IsJob(r1)
  BY SetField
<1>2. IsJob(r2)
  <2> HIDE DEF r1
  <2> QED  BY <1>1, SetField
<1>3. IsJob(r3)
  <2> HIDE DEF r2
  <2> QED  BY <1>2, SetField
<1>4. IsJob([r1 EXCEPT !.expired = x])
  <2> HIDE DEF r1
  <2> QED  BY <1>1, SetField
<1>5. IsJob([r3 EXCEPT !.due = d]) /\ IsJob([r3 EXCEPT !.pending = p])
  <2> HIDE DEF r3
  <2> QED  BY <1>3, SetField
<1> DEFINE q2 == [r1 EXCEPT !.attempts = n]
           q3 == [q2 EXCEPT !.due = d]
           q4 == [q3 EXCEPT !.leased = l]
           q5 == [q4 EXCEPT !.expired = x]
<1>6. IsJob(q2)
  <2> HIDE DEF r1
  <2> QED  BY <1>1, SetField
<1>7. IsJob(q3)
  <2> HIDE DEF q2
  <2> QED  BY <1>6, SetField
<1>8. IsJob(q4)
  <2> HIDE DEF q3
  <2> QED  BY <1>7, SetField
<1>9. IsJob(q5)
  <2> HIDE DEF q4
  <2> QED  BY <1>8, SetField
<1>10. IsJob([q5 EXCEPT !.pending = p])
  <2> HIDE DEF q5
  <2> QED  BY <1>9, SetField
<1> QED  BY <1>3, <1>4, <1>5, <1>10

LEMMA Rewritten ==
  ASSUME NEW r, GoodJob(r), NEW s \in {"queued", "running", "completed", "failed"}, NEW l \in BOOLEAN,
         l => s = "running", NEW x, NEW d, NEW n, NEW p
  PROVE  /\ s = "running" => Fits([r EXCEPT !.status = s, !.expired = x], r)
         /\ Fits([r EXCEPT !.status = s, !.leased = l, !.expired = x], r)
         /\ Fits([r EXCEPT !.status = s, !.leased = l, !.expired = x, !.due = d], r)
         /\ Fits([r EXCEPT !.status = s, !.leased = l, !.expired = x, !.pending = p], r)
         /\ Fits([r EXCEPT !.status = s, !.attempts = n, !.due = d, !.leased = l, !.expired = x,
                          !.pending = p], r)
<1>0. /\ IsJob(r) /\ r.leased \in BOOLEAN /\ r.conn \in Nat
  BY DEF GoodJob
<1>1. ASSUME NEW row, IsJob(row), row.status = s, row.leased \in {l, r.leased},
             row.leased => s = "running", row.key = r.key, row.conn = r.conn
      PROVE  Fits(row, r)
  BY <1>0, <1>1 DEF Fits, GoodJob
<1>2. s = "running" => Fits([r EXCEPT !.status = s, !.expired = x], r)
  <2> DEFINE row == [r EXCEPT !.status = s, !.expired = x]
  <2>1. IsJob(row)
    BY <1>0, SetFields
  <2>2. row.status = s /\ row.leased = r.leased /\ row.key = r.key /\ row.conn = r.conn
    BY <1>0 DEF IsJob
  <2> QED  BY <1>1, <2>1, <2>2
<1>3. Fits([r EXCEPT !.status = s, !.leased = l, !.expired = x], r)
  <2> DEFINE row == [r EXCEPT !.status = s, !.leased = l, !.expired = x]
  <2>1. IsJob(row)
    BY <1>0, SetFields
  <2>2. row.status = s /\ row.leased = l /\ row.key = r.key /\ row.conn = r.conn
    BY <1>0 DEF IsJob
  <2> QED  BY <1>1, <2>1, <2>2
<1>4. Fits([r EXCEPT !.status = s, !.leased = l, !.expired = x, !.due = d], r)
  <2> DEFINE row == [r EXCEPT !.status = s, !.leased = l, !.expired = x, !.due = d]
  <2>1. IsJob(row)
    BY <1>0, SetFields
  <2>2. row.status = s /\ row.leased = l /\ row.key = r.key /\ row.conn = r.conn
    BY <1>0 DEF IsJob
  <2> QED  BY <1>1, <2>1, <2>2
<1>5. Fits([r EXCEPT !.status = s, !.leased = l, !.expired = x, !.pending = p], r)
  <2> DEFINE row == [r EXCEPT !.status = s, !.leased = l, !.expired = x, !.pending = p]
  <2>1. IsJob(row)
    BY <1>0, SetFields
  <2>2. row.status = s /\ row.leased = l /\ row.key = r.key /\ row.conn = r.conn
    BY <1>0 DEF IsJob
  <2> QED  BY <1>1, <2>1, <2>2
<1>6. Fits([r EXCEPT !.status = s, !.attempts = n, !.due = d, !.leased = l, !.expired = x,
                   !.pending = p], r)
  <2> DEFINE row == [r EXCEPT !.status = s, !.attempts = n, !.due = d, !.leased = l,
                              !.expired = x, !.pending = p]
  <2>1. IsJob(row)
    BY <1>0, SetFields
  <2>2. row.status = s /\ row.leased = l /\ row.key = r.key /\ row.conn = r.conn
    BY <1>0 DEF IsJob
  <2> QED  BY <1>1, <2>1, <2>2
<1> QED  BY <1>2, <1>3, <1>4, <1>5, <1>6

-----------------------------------------------------------------------------
(* The steps of the cycle *)

\* What a step of the cycle does to the rows, and where it comes to.
CycleMove ==
  /\ RowsKept /\ IsCycle(cycle')
  /\ cycle'.pc # "idle" => cycle'.job \in Job /\ Mine'.status # "none"
  /\ cycle'.pc = "check" => Mine'.status = "running"
  /\ cycle'.pc = "write" =>
       cycle'.job = cycle.job /\ online /\ conn = Mine.conn /\ Mine.status = "running"

\* The cycle goes on, with or without the row of its job having been written.
LEMMA MoveOn ==
  ASSUME RescanInv, cycle.pc # "idle", IsCycle(cycle'), cycle'.job = cycle.job,
         cycle'.pc \notin {"check", "write"}, RowsKept
  PROVE  CycleMove
BY DEF CycleMove, RescanInv, CycleTyped, RowsKept, KeepsRow, Mine

\* So are the fields of the cycle.
LEMMA SetCycleField ==
  ASSUME NEW r, IsCycle(r), NEW v
  PROVE  /\ IsCycle([r EXCEPT !.pc = v]) /\ IsCycle([r EXCEPT !.mine = v])
         /\ IsCycle([r EXCEPT !.tries = v]) /\ IsCycle([r EXCEPT !.page = v])
         /\ IsCycle([r EXCEPT !.pages = v]) /\ IsCycle([r EXCEPT !.at = v])
<1>1. IsCycle([r EXCEPT !.pc = v]) /\ IsCycle([r EXCEPT !.mine = v])
  BY DEF IsCycle
<1>2. IsCycle([r EXCEPT !.tries = v]) /\ IsCycle([r EXCEPT !.page = v])
  BY DEF IsCycle
<1>3. IsCycle([r EXCEPT !.pages = v]) /\ IsCycle([r EXCEPT !.at = v])
  BY DEF IsCycle
<1> QED  BY <1>1, <1>2, <1>3

\* The copies that claim() and advance() leave in the cycle.
LEMMA SetCycleFields ==
  ASSUME NEW r, IsCycle(r), NEW pc, NEW m, NEW g, NEW t, NEW n, NEW a
  PROVE  /\ IsCycle([r EXCEPT !.pc = pc, !.mine = m, !.page = g, !.tries = t])
         /\ IsCycle([r EXCEPT !.pc = pc, !.mine = m, !.page = g, !.pages = n, !.at = a])
<1> DEFINE c1 == [r EXCEPT !.pc = pc]
           c2 == [c1 EXCEPT !.mine = m]
           c3 == [c2 EXCEPT !.page = g]
           c4 == [c3 EXCEPT !.pages = n]
<1>1. IsCycle(c1)
  BY SetCycleField
<1>2. IsCycle(c2)
  <2> HIDE DEF c1
  <2> QED  BY <1>1, SetCycleField
<1>3. IsCycle(c3)
  <2> HIDE DEF c2
  <2> QED  BY <1>2, SetCycleField
<1>4. IsCycle(c4) /\ IsCycle([c3 EXCEPT !.tries = t])
  <2> HIDE DEF c3
  <2> QED  BY <1>3, SetCycleField
<1>5. IsCycle([c4 EXCEPT !.at = a])
  <2> HIDE DEF c4
  <2> QED  BY <1>4, SetCycleField
<1> QED  BY <1>4, <1>5

LEMMA ThrowMoves ==
  ASSUME IsCycle(cycle), \E closed \in BOOLEAN : Throw(closed)
  PROVE  IsCycle(cycle') /\ cycle'.job = cycle.job /\ cycle'.pc = "fail"
<1>1. PICK e \in {"closed", "retry"} : cycle' = [cycle EXCEPT !.pc = "fail", !.error = e]
  <2>1. PICK closed \in BOOLEAN : Throw(closed)
    OBVIOUS
  <2>2. CASE closed \/ ~online
    BY <2>1, <2>2 DEF Throw
  <2>3. CASE ~(closed \/ ~online)
    BY <2>1, <2>3 DEF Throw
  <2> QED  BY <2>2, <2>3
<1> QED  BY <1>1 DEF IsCycle

LEMMA LeaveMoves ==
  ASSUME IsCycle(cycle), NEW later, Leave(later)
  PROVE  IsCycle(cycle') /\ cycle'.job = cycle.job /\ cycle'.pc = "release"
BY DEF IsCycle, Leave

LEMMA GoMoves ==
  ASSUME IsCycle(cycle), NEW pc, Go(pc)
  PROVE  IsCycle(cycle') /\ cycle'.job = cycle.job /\ cycle'.pc = pc
BY DEF IsCycle, Go

\* A row whose lease is held, and what is written of it.
LEMMA HeldIsMade ==
  ASSUME RescanInv, cycle.job \in Job
  PROVE  GoodJob(Mine) /\ (Holding => Mine.status = "running")
BY DEF RescanInv, JobsTyped, Holding, Mine

\* Steps that only move the cycle.
LEMMA MoveKeeps ==
  ASSUME RescanInv, cycle.pc # "idle", job' = job,
         \/ \E closed \in BOOLEAN : Throw(closed)
         \/ \E later \in BOOLEAN : Leave(later)
         \/ \E pc : pc \notin {"check", "write"} /\ Go(pc)
  PROVE  CycleMove
<1>1. RowsKept
  BY SameRows DEF RescanInv
<1>2. IsCycle(cycle)
  BY DEF RescanInv, CycleTyped
<1>3. /\ IsCycle(cycle') /\ cycle'.job = cycle.job
      /\ cycle'.pc \notin {"check", "write"}
  BY <1>2, ThrowMoves, LeaveMoves, GoMoves
<1> QED  BY <1>1, <1>3, MoveOn

LEMMA NextJobMoves == ASSUME RescanInv, NextJob PROVE CycleMove
<1> USE DEF NextJob
<1>1. PICK j \in Job : Eligible(j) /\ cycle' = [NoCycle EXCEPT !.pc = "claim", !.job = j]
  OBVIOUS
<1>2. IsCycle(cycle') /\ cycle'.pc = "claim" /\ cycle'.job = j
  BY <1>1 DEF IsCycle, NoCycle
<1>3. RowsKept
  BY SameRows DEF RescanInv
<1>4. job[j].status # "none" /\ job' = job
  BY <1>1 DEF Eligible, Active
<1> QED  BY <1>2, <1>3, <1>4 DEF CycleMove, Mine

LEMMA ClaimMoves == ASSUME RescanInv, Claim PROVE CycleMove
<1> USE DEF Claim
<1>1. cycle.job \in Job /\ IsCycle(cycle) /\ cycle.pc # "idle"
  BY DEF RescanInv, CycleTyped
<1>2. CASE Eligible(cycle.job)
  <2>1. Mine.status \in {"queued", "running"} /\ GoodJob(Mine)
    BY <1>1, <1>2, HeldIsMade DEF Eligible, Active, Mine
  <2> DEFINE row == [Mine EXCEPT !.status = "running", !.leased = TRUE, !.expired = FALSE]
  <2>2. Fits(row, Mine)
    BY <2>1, Rewritten
  <2>3. RowsKept
    BY <1>1, <1>2, <2>1, <2>2, WriteKeeps
  <2>4. IsCycle(cycle') /\ cycle'.job = cycle.job /\ cycle'.pc = "page"
    <3>1. cycle' = [cycle EXCEPT !.pc = "page", !.mine = Mine.state, !.page = Mine.pending,
                                 !.tries = Mine.attempts]
      BY <1>2
    <3>2. IsCycle(cycle')
      BY <1>1, <3>1, SetCycleFields
    <3>3. cycle'.job = cycle.job /\ cycle'.pc = "page"
      BY <1>1, <3>1 DEF IsCycle
    <3> QED  BY <3>2, <3>3
  <2> QED  BY <1>1, <2>3, <2>4, MoveOn
<1>3. CASE ~Eligible(cycle.job)
  <2>1. IsCycle(cycle') /\ cycle'.pc = "idle" /\ job' = job
    BY <1>3 DEF IsCycle, NoCycle
  <2>2. RowsKept
    BY <2>1, SameRows DEF RescanInv
  <2> QED  BY <2>1, <2>2 DEF CycleMove
<1> QED  BY <1>2, <1>3

LEMMA PageMoves == ASSUME RescanInv, Page \/ CanProduce PROVE CycleMove
BY MoveKeeps DEF Page, CanProduce

LEMMA RenewMoves ==
  ASSUME RescanInv, NEW here, NEW next, here # "idle", next # "write", Renew(here, next)
  PROVE  CycleMove
<1> USE DEF Renew
<1>1. cycle.job \in Job /\ IsCycle(cycle) /\ cycle.pc # "idle"
  BY DEF RescanInv, CycleTyped
<1>2. CASE Holding
  <2> DEFINE row == [Mine EXCEPT !.expired = FALSE]
  <2>1. GoodJob(Mine) /\ Mine.status = "running"
    BY <1>1, <1>2, HeldIsMade
  <2>2. Fits(row, Mine) /\ row.status = "running"
    <3>1. IsJob(row)
      BY <2>1, SetField DEF GoodJob
    <3>2. /\ row.status = Mine.status /\ row.leased = Mine.leased /\ row.key = Mine.key
          /\ row.conn = Mine.conn
      BY <2>1 DEF GoodJob, IsJob
    <3> QED  BY <2>1, <3>1, <3>2 DEF Fits, GoodJob
  <2>3. RowsKept /\ job'[cycle.job] = row
    BY <1>1, <1>2, <2>1, <2>2, WriteKeeps
  <2>4. IsCycle(cycle') /\ cycle'.job = cycle.job /\ cycle'.pc = next
    BY <1>1, <1>2, GoMoves
  <2> QED  BY <1>1, <2>2, <2>3, <2>4 DEF CycleMove, Mine
<1>3. CASE ~Holding
  BY <1>1, <1>3, MoveKeeps
<1> QED  BY <1>2, <1>3

LEMMA SnapshotMoves == ASSUME RescanInv, Snapshot PROVE CycleMove
<1> USE DEF Snapshot
<1>1. CASE ~SameTransport
  BY <1>1, MoveKeeps
<1>2. CASE SameTransport
  <2>1. IsCycle(cycle)
    BY DEF RescanInv, CycleTyped
  <2>2. PICK pc \in {"advance", "event", "plan"} : cycle' = [cycle EXCEPT !.pc = pc, !.at = 1]
    BY <1>2 DEF Emission
  <2>3. IsCycle(cycle') /\ cycle'.job = cycle.job /\ cycle'.pc = pc
    BY <2>1, <2>2 DEF IsCycle
  <2>4. RowsKept
    BY SameRows DEF RescanInv
  <2> QED  BY <2>3, <2>4, MoveOn
<1> QED  BY <1>1, <1>2

LEMMA PlanMoves == ASSUME RescanInv, PlanPage PROVE CycleMove
<1> USE DEF PlanPage
<1>1. IsCycle(cycle') /\ cycle'.job = cycle.job /\ cycle'.pc = "stage"
  BY DEF RescanInv, CycleTyped, IsCycle
<1>2. RowsKept
  BY SameRows DEF RescanInv
<1> QED  BY <1>1, <1>2, MoveOn

\* The rows that stage() and advance() write.
LEMMA StagedRow ==
  ASSUME RescanInv, cycle.job \in Job, Holding
  PROVE  Fits(Staged, Mine)
BY HeldIsMade DEF Staged, Fits, GoodJob, IsJob

LEMMA AdvancedRow ==
  ASSUME RescanInv, cycle.job \in Job, Holding
  PROVE  Fits(Advanced, Mine)
<1>1. CASE cycle.page.complete
  BY <1>1, HeldIsMade DEF Advanced, Fits, GoodJob, IsJob
<1>2. CASE ~cycle.page.complete
  BY <1>2, HeldIsMade DEF Advanced, Fits, GoodJob, IsJob
<1> QED  BY <1>1, <1>2

LEMMA StageMoves == ASSUME RescanInv, Stage PROVE CycleMove
<1> USE DEF Stage
<1>1. cycle.job \in Job /\ IsCycle(cycle) /\ cycle.pc # "idle"
  BY DEF RescanInv, CycleTyped
<1>2. CASE Holding /\ Mine.pending = NoPage
  <2>1. RowsKept
    BY <1>1, <1>2, StagedRow, HeldIsMade, WriteKeeps
  <2>2. /\ IsCycle(cycle') /\ cycle'.job = cycle.job
        /\ cycle'.pc \notin {"check", "write"}
    <3>1. CASE cycle.page.events = <<>> /\ ~SameTransport
      <4>1. Throw(TRUE)
        BY <1>2, <3>1
      <4> QED  BY <1>1, <4>1, ThrowMoves
    <3>2. CASE ~(cycle.page.events = <<>> /\ ~SameTransport)
      <4>1. PICK pc \in {"advance", "event"} : Go(pc)
        BY <1>2, <3>2 DEF Emission
      <4> QED  BY <1>1, <4>1, GoMoves
    <3> QED  BY <3>1, <3>2
  <2> QED  BY <1>1, <2>1, <2>2, MoveOn
<1>3. CASE ~(Holding /\ Mine.pending = NoPage)
  BY <1>1, <1>3, MoveKeeps
<1> QED  BY <1>2, <1>3

LEMMA RenewForEventMoves == ASSUME RescanInv, RenewForEvent PROVE CycleMove
<1>1. CASE stopped
  BY <1>1, MoveKeeps DEF RenewForEvent
<1>2. CASE ~stopped
  BY <1>2, RenewMoves DEF RenewForEvent
<1> QED  BY <1>1, <1>2

\* The only step that leads to a write: the job still runs, as its connection is open.
LEMMA CheckMoves == ASSUME RescanInv, CheckEvent PROVE CycleMove
<1> USE DEF CheckEvent
<1>1. cycle.job \in Job /\ IsCycle(cycle) /\ cycle.pc # "idle"
  BY DEF RescanInv, CycleTyped
<1>2. CASE SameTransport /\ ~natural /\ Go("write")
  <2>1. IsCycle(cycle') /\ cycle'.job = cycle.job /\ cycle'.pc = "write"
    BY <1>1, <1>2, GoMoves
  <2>2. online /\ conn = Mine.conn
    BY <1>2 DEF SameTransport
  <2>3. Mine.status = "running"
    BY <2>2 DEF RescanInv, RunsOrClosed
  <2>4. RowsKept /\ job' = job
    BY SameRows DEF RescanInv
  <2> QED  BY <1>1, <2>1, <2>2, <2>3, <2>4 DEF CycleMove, Mine
<1> QED  BY <1>1, <1>2, MoveKeeps

LEMMA WriteMoves == ASSUME RescanInv, WriteEvent PROVE CycleMove
BY MoveKeeps DEF WriteEvent

LEMMA WrittenMoves == ASSUME RescanInv, EventWritten PROVE CycleMove
<1> USE DEF EventWritten
<1>1. CASE ~SameTransport /\ Throw(FALSE)
  BY <1>1, MoveKeeps
<1>2. CASE ~(~SameTransport /\ Throw(FALSE))
  <2>1. PICK pc \in {"event", "advance"} : cycle' = [cycle EXCEPT !.at = @ + 1, !.pc = pc]
    BY <1>2
  <2>2. IsCycle(cycle') /\ cycle'.job = cycle.job /\ cycle'.pc = pc
    BY <2>1 DEF RescanInv, CycleTyped, IsCycle
  <2>3. RowsKept
    BY SameRows DEF RescanInv
  <2> QED  BY <2>2, <2>3, MoveOn
<1> QED  BY <1>1, <1>2

LEMMA AdvanceMoves == ASSUME RescanInv, Advance PROVE CycleMove
<1> USE DEF Advance
<1>1. cycle.job \in Job /\ IsCycle(cycle) /\ cycle.pc # "idle"
  BY DEF RescanInv, CycleTyped
<1>2. CASE Holding
  <2>1. RowsKept
    BY <1>1, <1>2, AdvancedRow, HeldIsMade, WriteKeeps
  <2>2. /\ IsCycle(cycle') /\ cycle'.job = cycle.job
        /\ cycle'.pc \notin {"check", "write"}
    <3>1. CASE cycle.page.complete
      BY <1>1, <1>2, <3>1, LeaveMoves
    <3>2. CASE ~cycle.page.complete
      <4>1. cycle' = [cycle EXCEPT !.pc = "page", !.mine = cycle.page.after, !.page = NoPage,
                                   !.pages = cycle.pages + 1, !.at = 0]
        BY <1>2, <3>2
      <4>2. IsCycle(cycle')
        BY <1>1, <4>1, SetCycleFields
      <4>3. cycle'.job = cycle.job /\ cycle'.pc = "page"
        BY <1>1, <4>1 DEF IsCycle
      <4> QED  BY <4>2, <4>3
    <3> QED  BY <3>1, <3>2
  <2> QED  BY <1>1, <2>1, <2>2, MoveOn
<1>3. CASE ~Holding
  BY <1>1, <1>3, MoveKeeps
<1> QED  BY <1>2, <1>3

LEMMA FailMoves == ASSUME RescanInv, Fail PROVE CycleMove
<1> USE DEF Fail
<1>1. cycle.job \in Job /\ IsCycle(cycle) /\ cycle.pc # "idle"
  BY DEF RescanInv, CycleTyped
<1>2. CASE Holding
  <2> DEFINE row(status, pending) ==
        [Mine EXCEPT !.status = status, !.attempts = @ + 1, !.due = FALSE, !.leased = FALSE,
                     !.expired = FALSE, !.pending = pending]
  <2>1. PICK status \in {"failed", "queued"} : \E pending : SetJob(row(status, pending))
    <3>1. CASE Definitive
      BY <1>2, <3>1
    <3>2. CASE ~Definitive
      BY <1>2, <3>2
    <3> QED  BY <3>1, <3>2
  <2>2. PICK pending : SetJob(row(status, pending))
    BY <2>1
  <2>3. GoodJob(Mine) /\ Mine.status = "running"
    BY <1>1, <1>2, HeldIsMade
  <2>4. Fits(row(status, pending), Mine)
    BY <2>1, <2>3, Rewritten
  <2>5. RowsKept
    BY <1>1, <2>2, <2>3, <2>4, WriteKeeps
  <2> QED  BY <1>1, <2>5, LeaveMoves, MoveOn
<1>3. CASE ~Holding
  BY <1>1, <1>3, MoveKeeps
<1> QED  BY <1>2, <1>3

LEMMA ReleaseMoves == ASSUME RescanInv, Release PROVE CycleMove
<1> USE DEF Release
<1>1. cycle.job \in Job
  BY DEF RescanInv, CycleTyped
<1>2. IsCycle(cycle') /\ cycle'.pc = "idle"
  BY DEF IsCycle, NoCycle
<1>3. RowsKept
  <2>1. CASE Holding
    <3> DEFINE row == [Mine EXCEPT !.status = "queued", !.leased = FALSE, !.expired = FALSE,
                                   !.due = ~cycle.later]
    <3>1. GoodJob(Mine) /\ Mine.status = "running" /\ SetJob(row)
      BY <1>1, <2>1, HeldIsMade DEF Releasable
    <3>2. Fits(row, Mine)
      BY <3>1, Rewritten
    <3> QED  BY <1>1, <3>1, <3>2, WriteKeeps
  <2>2. CASE ~Holding
    BY <2>2, SameRows DEF RescanInv, Releasable
  <2> QED  BY <2>1, <2>2
<1> QED  BY <1>2, <1>3 DEF CycleMove

LEMMA FaultMoves == ASSUME RescanInv, CycleFault PROVE CycleMove
<1> USE DEF CycleFault
<1>1. cycle.job \in Job /\ IsCycle(cycle) /\ cycle.pc # "idle"
  BY DEF RescanInv, CycleTyped
<1>2. RowsKept
  <2>1. CASE UNCHANGED job
    BY <2>1, SameRows DEF RescanInv
  <2>2. CASE Holding /\ SetJob(Staged)
    BY <1>1, <2>2, StagedRow, HeldIsMade, WriteKeeps
  <2>3. CASE Holding /\ SetJob(Advanced)
    BY <1>1, <2>3, AdvancedRow, HeldIsMade, WriteKeeps
  <2>4. CASE Eligible(cycle.job) /\ SetJob([Mine EXCEPT !.status = "running", !.expired = FALSE])
    <3> DEFINE row == [Mine EXCEPT !.status = "running", !.expired = FALSE]
    <3>1. Mine.status \in {"queued", "running"} /\ GoodJob(Mine)
      BY <1>1, <2>4, HeldIsMade DEF Eligible, Active, Mine
    <3>2. Fits(row, Mine)
      BY <3>1, Rewritten
    <3> QED  BY <1>1, <2>4, <3>1, <3>2, WriteKeeps
  <2> QED  BY <2>1, <2>2, <2>3, <2>4
<1>3. CASE cycle' = NoCycle
  BY <1>2, <1>3 DEF CycleMove, IsCycle, NoCycle
<1>4. CASE Leave(FALSE) \/ Throw(FALSE)
  BY <1>1, <1>2, <1>4, LeaveMoves, ThrowMoves, MoveOn
<1> QED  BY <1>3, <1>4

LEMMA CycleMoves == ASSUME RescanInv, CycleStep \/ CycleFault PROVE CycleMove
BY NextJobMoves, ClaimMoves, PageMoves, RenewMoves, SnapshotMoves, PlanMoves, StageMoves,
   RenewForEventMoves, CheckMoves, WriteMoves, WrittenMoves, AdvanceMoves, FailMoves, ReleaseMoves,
   FaultMoves DEF CycleStep

-----------------------------------------------------------------------------
(* Every step *)

\* What every step does: the invariant holds again, what has ended stays, and an event is
\* put in the outbox for a running job of the connection.
Right ==
  /\ RescanInv'
  /\ \A j \in Job : job[j].status \in Terminal => job'[j] = job[j]
  /\ Enqueues => online /\ conn = Mine.conn /\ Mine.status = "running"

\* Kept rows keep what is said of the rows.
LEMMA RowsStay ==
  ASSUME RescanInv, RowsKept, conn' \in Nat, conn <= conn'
  PROVE  /\ JobsTyped' /\ OneKeyEach' /\ (answers' = answers => ToldTheirs')
         /\ (request' = request => RequestsTyped')
         /\ \A j \in Job : job[j].status \in Terminal => job'[j] = job[j]
<1>1. conn \in Nat /\ \A j \in Job : GoodJob(job[j]) /\ job[j].conn <= conn
  BY DEF RescanInv, JobsTyped, ClosedOnes
<1>2. JobsTyped'
  BY <1>1 DEF JobsTyped, RowsKept, KeepsRow, GoodJob
<1>3. OneKeyEach'
  BY DEF OneKeyEach, RowsKept, KeepsRow, RescanInv
<1>4. answers' = answers => ToldTheirs'
  BY DEF ToldTheirs, RowsKept, KeepsRow, RescanInv
<1>5. request' = request => RequestsTyped'
  BY <1>1 DEF RequestsTyped, RescanInv
<1> QED  BY <1>2, <1>3, <1>4, <1>5 DEF RowsKept, KeepsRow

LEMMA CycleRight ==
  ASSUME RescanInv, CycleStep \/ CycleFault
  PROVE  Right
<1>1. CycleMove
  BY CycleMoves
<1>2. UNCHANGED <<request, answers, link>>
  BY DEF CycleStep, CycleFault, NextJob, Claim, Page, CanProduce, Renew, Snapshot, PlanPage,
         Stage, RenewForEvent, CheckEvent, WriteEvent, EventWritten, Advance, Fail, Release
<1>3. ClosedOnes' /\ conn' \in Nat /\ conn <= conn'
  BY <1>2 DEF RescanInv, ClosedOnes, link
<1>4. CycleTyped' /\ RunsOrClosed'
  BY <1>1 DEF CycleMove, CycleTyped, RunsOrClosed
<1> QED  BY <1>1, <1>2, <1>3, <1>4, RowsStay DEF Right, RescanInv, CycleMove, Enqueues

\* Steps that leave the rows and the cycle alone.
LEMMA StillRight ==
  ASSUME RescanInv, UNCHANGED <<job, cycle, link>>, RequestsTyped', ToldTheirs'
  PROVE  Right
<1>1. RowsKept
  BY SameRows DEF RescanInv
<1>2. ClosedOnes' /\ conn' \in Nat /\ conn <= conn'
  BY DEF RescanInv, ClosedOnes, link
<1>3. CycleTyped' /\ RunsOrClosed'
  BY DEF RescanInv, CycleTyped, RunsOrClosed, Mine, link
<1> QED  BY <1>1, <1>2, <1>3, RowsStay DEF Right, RescanInv, Enqueues

LEMMA SetRequestField ==
  ASSUME NEW r, IsRequest(r), NEW v
  PROVE  /\ IsRequest([r EXCEPT !.pc = v]) /\ [r EXCEPT !.pc = v].conn = r.conn
         /\ IsRequest([r EXCEPT !.conn = v]) /\ [r EXCEPT !.conn = v].conn = v
<1>1. IsRequest([r EXCEPT !.pc = v]) /\ [r EXCEPT !.pc = v].conn = r.conn
  BY DEF IsRequest
<1>2. IsRequest([r EXCEPT !.conn = v]) /\ [r EXCEPT !.conn = v].conn = v
  BY DEF IsRequest
<1> QED  BY <1>1, <1>2

LEMMA AnswerTyped ==
  ASSUME RescanInv, conn' = conn, NEW c \in Client,
         \/ request' = [request EXCEPT ![c] = NoRequest]
         \/ \E pc : request' = [request EXCEPT ![c].pc = pc]
         \/ \E pc : request' = [request EXCEPT ![c].pc = pc, ![c].conn = conn]
         \/ \E pc, key : request' = [request EXCEPT ![c] = [pc |-> pc, key |-> key, conn |-> 0]]
  PROVE  RequestsTyped'
<1>1. /\ conn \in Nat /\ request = [d \in Client |-> request[d]]
      /\ \A d \in Client : IsRequest(request[d]) /\ request[d].conn \in Nat /\ request[d].conn <= conn
  BY DEF RescanInv, RequestsTyped, ClosedOnes
<1> DEFINE Becomes(r) == request' = [request EXCEPT ![c] = r]
           Fine(r) == IsRequest(r) /\ r.conn \in Nat /\ r.conn <= conn
<1>2. \E r : Becomes(r) /\ Fine(r)
  <2>1. CASE request' = [request EXCEPT ![c] = NoRequest]
    <3>1. Fine(NoRequest) /\ Becomes(NoRequest)
      BY <1>1, <2>1 DEF NoRequest, IsRequest
    <3> QED  BY <3>1
  <2>2. CASE \E pc : request' = [request EXCEPT ![c].pc = pc]
    <3>1. PICK pc : Becomes([request[c] EXCEPT !.pc = pc])
      BY <2>2
    <3> DEFINE r == [request[c] EXCEPT !.pc = pc]
    <3>2. IsRequest(r) /\ r.conn = request[c].conn
      BY <1>1, SetRequestField
    <3>3. Becomes(r)
      BY <3>1
    <3> HIDE DEF r, Becomes
    <3> QED  BY <1>1, <3>2, <3>3
  <2>3. CASE \E pc : request' = [request EXCEPT ![c].pc = pc, ![c].conn = conn]
    <3>1. PICK pc : request' = [request EXCEPT ![c].pc = pc, ![c].conn = conn]
      BY <2>3
    <3> DEFINE q == [request[c] EXCEPT !.pc = pc]
               r == [q EXCEPT !.conn = conn]
    <3>2. IsRequest(q)
      BY <1>1, SetRequestField
    <3>3. IsRequest(r) /\ r.conn = conn
      <4> HIDE DEF q
      <4> QED  BY <3>2, SetRequestField
    <3>4. Becomes(r)
      BY <1>1, <3>1
    <3> HIDE DEF r
    <3>5. Fine(r)
      <4>1. conn \in Nat
        BY <1>1
      <4>2. conn <= conn
        BY <4>1
      <4> QED  BY <3>3, <4>1, <4>2, Zenon
    <3> HIDE DEF Becomes, Fine
    <3> QED  BY <3>4, <3>5
  <2>4. CASE \E pc, key : request' = [request EXCEPT ![c] = [pc |-> pc, key |-> key, conn |-> 0]]
    <3>1. PICK pc, key : Becomes([pc |-> pc, key |-> key, conn |-> 0])
      BY <2>4
    <3> DEFINE r == [pc |-> pc, key |-> key, conn |-> 0]
    <3>2. IsRequest(r) /\ r.conn = 0
      BY DEF IsRequest
    <3>3. Becomes(r)
      BY <3>1
    <3> HIDE DEF r
    <3>4. Fine(r)
      <4>1. conn \in Nat
        BY <1>1
      <4>2. 0 \in Nat /\ 0 <= conn
        BY <4>1
      <4> QED  BY <3>2, <4>2, Zenon
    <3> HIDE DEF Becomes, Fine
    <3> QED  BY <3>3, <3>4
  <2> QED  BY <2>1, <2>2, <2>3, <2>4
<1> QED  BY <1>1, <1>2 DEF RequestsTyped

\* An answer that follows an active job says nothing of the key; another one names a
\* job with the key.
LEMMA AnswerTold ==
  ASSUME RescanInv, job' = job, NEW c \in Client,
         \/ UNCHANGED answers
         \/ \E j \in Job : Answer(c, j, "active")
         \/ \E j \in WithKey(request[c].key) : Answer(c, j, "idempotent")
  PROVE  ToldTheirs'
BY DEF RescanInv, ToldTheirs, Answer, WithKey

LEMMA AskRight ==
  ASSUME RescanInv, NEW c \in Client, NEW key \in Key, Ask(c, key)
  PROVE  Right
<1>1. RequestsTyped'
  BY AnswerTyped DEF Ask, link
<1> QED  BY <1>1, AnswerTold, StillRight DEF Ask

LEMMA FindRight ==
  ASSUME RescanInv, NEW c \in Client, FindByKey(c) \/ FindActive(c) \/ CheckPending(c)
  PROVE  Right
<1>1. UNCHANGED <<job, cycle, link>> /\ conn' = conn
  BY DEF FindByKey, FindActive, CheckPending, link
<1>2. RequestsTyped'
  BY <1>1, AnswerTyped DEF FindByKey, FindActive, CheckPending, Answer, Refuse, GoOn
<1>3. ToldTheirs'
  BY <1>1, AnswerTold DEF FindByKey, FindActive, CheckPending, Refuse, GoOn, Active, Completed
<1> QED  BY <1>1, <1>2, <1>3, StillRight

LEMMA BeginRight ==
  ASSUME RescanInv, NEW c \in Client, Begin(c)
  PROVE  Right
<1> USE DEF Begin
<1>1. conn' = conn /\ UNCHANGED <<cycle, link>>
  BY DEF link
<1>2. RequestsTyped'
  BY <1>1, AnswerTyped DEF Answer
<1>3. CASE UNCHANGED job
  <2>1. ToldTheirs'
    <3>1. \/ \E j \in Job : Answer(c, j, "active")
          \/ \E j \in WithKey(request[c].key) : Answer(c, j, "idempotent")
      <4>1. ASSUME NEW j \in Job, job[j].status = "none", job' = [job EXCEPT ![j] = NewJob(c)]
            PROVE  FALSE
        <5>1. job'[j].status = "queued"
          BY <4>1 DEF RescanInv, JobsTyped, NewJob
        <5> QED  BY <1>3, <4>1, <5>1
      <4> QED  BY <4>1 DEF Active, Prior
    <3> QED  BY <1>3, <3>1, AnswerTold
  <2> QED  BY <1>1, <1>2, <1>3, <2>1, StillRight
<1>4. CASE ~UNCHANGED job
  <2>1. PICK j \in Job : /\ WithKey(request[c].key) = {} /\ job[j].status = "none"
                        /\ job' = [job EXCEPT ![j] = NewJob(c)] /\ Answer(c, j, "new")
    BY <1>4 DEF Prior
  <2> DEFINE row == NewJob(c)
  <2>2. row.status = "queued" /\ row.key = request[c].key /\ row.conn = request[c].conn
    BY DEF NewJob
  <2>3. GoodJob(row) /\ row.conn <= conn
    BY <2>2 DEF RescanInv, RequestsTyped, NewJob, GoodJob, IsJob
  <2>4. job'[j] = row /\ \A i \in Job : i # j => job'[i] = job[i]
    BY <2>1 DEF RescanInv, JobsTyped
  <2>5. JobsTyped'
    BY <1>1, <2>1, <2>3 DEF RescanInv, JobsTyped
  <2> HIDE DEF row
  <2>6. OneKeyEach'
    BY <2>1, <2>2, <2>4 DEF RescanInv, OneKeyEach, WithKey
  <2>7. ToldTheirs'
    BY <2>1, <2>2, <2>4 DEF RescanInv, ToldTheirs, Answer
  <2>8. cycle.pc # "idle" => cycle.job \in Job /\ cycle.job # j
    BY <2>1 DEF RescanInv, CycleTyped, Mine
  <2>9. CycleTyped' /\ RunsOrClosed'
    BY <1>1, <2>4, <2>8 DEF RescanInv, CycleTyped, RunsOrClosed, Mine, link
  <2>10. ClosedOnes'
    BY <1>1 DEF RescanInv, ClosedOnes, link
  <2>11. \A i \in Job : job[i].status \in Terminal => job'[i] = job[i]
    BY <2>1, <2>4 DEF Terminal
  <2> QED  BY <1>1, <1>2, <2>5, <2>6, <2>7, <2>9, <2>10, <2>11 DEF Right, RescanInv, Enqueues
<1> QED  BY <1>3, <1>4

\* Steps of time, the connection, the data and the process.
LEMMA TimeRight ==
  ASSUME RescanInv, NEW j \in Job, RetryDue(j) \/ LeaseExpires(j)
  PROVE  Right
<1>1. UNCHANGED <<request, answers, cycle, link>> /\ conn' = conn
  BY DEF RetryDue, LeaseExpires, link
<1>2. GoodJob(job[j]) /\ job = [i \in Job |-> job[i]]
  BY DEF RescanInv, JobsTyped
<1>3. /\ job[j].status \in {"queued", "running"}
      /\ \/ job' = [job EXCEPT ![j] = [job[j] EXCEPT !.due = TRUE]]
         \/ job' = [job EXCEPT ![j] = [job[j] EXCEPT !.expired = TRUE]]
  BY <1>2 DEF RetryDue, LeaseExpires
<1>4. PICK row : /\ job' = [job EXCEPT ![j] = row]
                 /\ IsJob(row) /\ row.leased = job[j].leased /\ row.conn = job[j].conn
                 /\ row.status = job[j].status /\ row.key = job[j].key
  <2>1. /\ IsJob([job[j] EXCEPT !.due = TRUE]) /\ IsJob([job[j] EXCEPT !.expired = TRUE])
    BY <1>2, SetField DEF GoodJob
  <2>2. \A row \in {[job[j] EXCEPT !.due = TRUE], [job[j] EXCEPT !.expired = TRUE]} :
          /\ row.leased = job[j].leased /\ row.conn = job[j].conn
          /\ row.status = job[j].status /\ row.key = job[j].key
    BY <1>2 DEF GoodJob, IsJob
  <2> QED  BY <1>3, <2>1, <2>2
<1>5. job'[j] = row /\ \A i \in Job : i # j => job'[i] = job[i]
  BY <1>2, <1>4
<1>6. RowsKept
  <2>1. KeepsRow(j)
    BY <1>2, <1>3, <1>4, <1>5 DEF KeepsRow, GoodJob, Terminal
  <2>2. \A i \in Job : i # j => KeepsRow(i)
    BY <1>5 DEF KeepsRow, RescanInv, JobsTyped
  <2>3. job' = [i \in Job |-> job'[i]]
    BY <1>2, <1>4
  <2> QED  BY <2>1, <2>2, <2>3 DEF RowsKept
<1>7. \A i \in Job : job'[i].status = job[i].status /\ job'[i].conn = job[i].conn
  BY <1>4, <1>5
<1>8. CycleTyped' /\ RunsOrClosed'
  BY <1>1, <1>7 DEF RescanInv, CycleTyped, RunsOrClosed, Mine, link
<1>9. ClosedOnes' /\ conn' \in Nat /\ conn <= conn'
  BY <1>1 DEF RescanInv, ClosedOnes, link
<1> QED  BY <1>1, <1>6, <1>8, <1>9, RowsStay DEF Right, RescanInv, Enqueues

LEMMA CloseRight == ASSUME RescanInv, CloseConnection PROVE Right
<1>1. /\ UNCHANGED <<job, request, answers, cycle, conn>>
      /\ online' = FALSE /\ cancels' = cancels \union {conn}
  BY DEF CloseConnection
<1>2. RowsKept
  BY <1>1, SameRows DEF RescanInv
<1>3. ClosedOnes' /\ conn' \in Nat /\ conn <= conn'
  <2>1. conn' \in Nat /\ conn <= conn'
    BY <1>1 DEF RescanInv, ClosedOnes
  <2>2. ASSUME NEW c \in cancels' PROVE c \in Nat /\ c <= conn'
    BY <1>1, <2>2 DEF RescanInv, ClosedOnes
  <2>3. ~online' /\ online' \in BOOLEAN
    BY <1>1
  <2> QED  BY <2>1, <2>2, <2>3 DEF ClosedOnes
<1>4. CycleTyped'
  BY <1>1 DEF RescanInv, CycleTyped, Mine
<1>5. RunsOrClosed'
  BY <1>1 DEF RunsOrClosed
<1> QED  BY <1>1, <1>2, <1>3, <1>4, <1>5, RowsStay DEF Right, RescanInv, Enqueues

\* The new connection is not that of the job in hand.
LEMMA ReconnectRight == ASSUME RescanInv, Reconnect PROVE Right
<1>1. /\ UNCHANGED <<job, request, answers, cycle, cancels>>
      /\ online' = TRUE /\ conn' = conn + 1
  BY DEF Reconnect
<1>2. RowsKept
  BY <1>1, SameRows DEF RescanInv
<1>3. ClosedOnes' /\ conn' \in Nat /\ conn <= conn'
  <2>1. conn' \in Nat /\ conn <= conn'
    BY <1>1 DEF RescanInv, ClosedOnes
  <2>2. ASSUME NEW c \in cancels' PROVE c \in Nat /\ c <= conn' /\ c # conn'
    BY <1>1, <2>2 DEF RescanInv, ClosedOnes
  <2>3. online' \in BOOLEAN
    BY <1>1
  <2> QED  BY <2>1, <2>2, <2>3 DEF ClosedOnes
<1>4. CycleTyped'
  BY <1>1 DEF RescanInv, CycleTyped, Mine
<1>5. RunsOrClosed'
  <2>1. cycle.pc = "check" => conn' # Mine'.conn
    <3>1. conn \in Nat
      BY DEF RescanInv, ClosedOnes
    <3>2. cycle.pc = "check" => Mine.conn \in Nat /\ Mine.conn <= conn
      BY DEF RescanInv, CycleTyped, JobsTyped, GoodJob, Mine
    <3> QED  BY <1>1, <3>1, <3>2 DEF Mine
  <2> QED  BY <1>1, <2>1 DEF RunsOrClosed
<1> QED  BY <1>1, <1>2, <1>3, <1>4, <1>5, RowsStay DEF Right, RescanInv, Enqueues

\* A cancelled job is one of a connection that has closed.
LEMMA CancelRight ==
  ASSUME RescanInv, NEW c \in cancels, CancelInstance(c)
  PROVE  Right
<1>1. /\ UNCHANGED <<request, answers, cycle>>
      /\ conn' = conn /\ online' = online /\ cancels' \subseteq cancels
  BY DEF CancelInstance
<1>2. ClosedOnes' /\ conn' \in Nat /\ conn <= conn'
  <2>1. conn' \in Nat /\ conn <= conn'
    BY <1>1 DEF RescanInv, ClosedOnes
  <2>2. online' \in BOOLEAN
    BY <1>1, Zenon DEF RescanInv, ClosedOnes
  <2>3. ASSUME NEW d \in cancels' PROVE d \in Nat /\ d <= conn' /\ (d = conn' => ~online')
    <3>1. d \in Nat /\ d <= conn
      BY <1>1, <2>3 DEF RescanInv, ClosedOnes
    <3>2. d = conn => ~online
      BY <1>1, <2>3, Zenon DEF RescanInv, ClosedOnes
    <3>3. d = conn' => ~online'
      BY <1>1, <3>2, Zenon
    <3> QED  BY <1>1, <3>1, <3>3
  <2> QED  BY <2>1, <2>2, <2>3, Zenon DEF ClosedOnes
<1>3. \A j \in Job : GoodJob(job[j]) /\ job[j].conn <= conn
  BY DEF RescanInv, JobsTyped
<1>4. CASE UNCHANGED job
  <2>1. RowsKept
    BY <1>4, SameRows DEF RescanInv
  <2>2. CycleTyped' /\ RunsOrClosed'
    <3>1. Mine' = Mine
      BY <1>1, <1>4 DEF Mine
    <3>2. CycleTyped'
      BY <1>1, <3>1 DEF RescanInv, CycleTyped
    <3>3. RunsOrClosed'
      BY <1>1, <3>1, Zenon DEF RescanInv, RunsOrClosed
    <3> QED  BY <3>2, <3>3
  <2> QED  BY <1>1, <1>2, <2>1, <2>2, RowsStay DEF Right, RescanInv, Enqueues
<1>5. CASE ~UNCHANGED job
  <2> DEFINE row(j) == [job[j] EXCEPT !.status = "failed", !.leased = FALSE, !.expired = FALSE,
                                      !.pending = NoPage]
  <2>1. job' = [j \in Job |-> IF j \in CreatedBefore(c) THEN row(j) ELSE job[j]]
    BY <1>5 DEF CancelInstance
  <2>2. \A j \in CreatedBefore(c) :
          Fits(row(j), job[j]) /\ job[j].status \in {"queued", "running"} /\ job[j].conn <= c
    BY <1>3, Rewritten DEF CreatedBefore, Active
  <2> HIDE DEF row
  <2>3. RowsKept
    <3>1. \A j \in Job : KeepsRow(j)
      BY <1>3, <2>1, <2>2 DEF KeepsRow, Fits, Terminal
    <3> QED  BY <2>1, <3>1 DEF RowsKept
  <2>4. CycleTyped'
    BY <1>1, <2>3 DEF RescanInv, CycleTyped, RowsKept, KeepsRow, Mine
  <2>5. RunsOrClosed'
    <3>1. CASE cycle.pc = "check" /\ cycle.job \in CreatedBefore(c)
      <4>1. cycle.job \in Job /\ c \in Nat /\ c <= conn /\ (c = conn => ~online) /\ conn \in Nat
        BY <3>1 DEF RescanInv, CycleTyped, ClosedOnes
      <4>2. Mine.conn \in Nat /\ Mine.conn <= c /\ Mine'.conn = Mine.conn
        BY <1>1, <1>3, <2>2, <2>3, <3>1, <4>1 DEF Mine, GoodJob, RowsKept, KeepsRow
      <4>3. ~online \/ conn # Mine'.conn
        BY <4>1, <4>2
      <4>4. ~online' \/ conn' # Mine'.conn
        BY <1>1, <4>3, Zenon
      <4> QED  BY <4>4, Zenon DEF RunsOrClosed
    <3>2. CASE cycle.pc = "check" /\ cycle.job \notin CreatedBefore(c)
      <4>1. cycle.job \in Job
        BY <3>2 DEF RescanInv, CycleTyped
      <4>2. Mine' = Mine
        BY <1>1, <2>1, <3>2, <4>1 DEF Mine
      <4> QED  BY <1>1, <4>2, Zenon DEF RescanInv, RunsOrClosed
    <3>3. CASE cycle.pc # "check"
      BY <1>1, <3>3 DEF RunsOrClosed
    <3> QED  BY <3>1, <3>2, <3>3
  <2> QED  BY <1>1, <1>2, <2>3, <2>4, <2>5, RowsStay DEF Right, RescanInv, Enqueues
<1> QED  BY <1>4, <1>5

\* A crash leaves the rows to the next process, their leases to no one.
LEMMA CrashRight == ASSUME RescanInv, Crash PROVE Right
<1> USE DEF Crash
<1>1. ClosedOnes' /\ conn' \in Nat /\ conn <= conn'
  <2>1. conn' \in Nat /\ conn <= conn'
    BY DEF RescanInv, ClosedOnes
  <2>2. cancels' = {} /\ online' \in BOOLEAN
    OBVIOUS
  <2> QED  BY <2>1, <2>2 DEF ClosedOnes
<1>2. RowsKept
  <2>1. ASSUME NEW j \in Job PROVE KeepsRow(j)
    <3> DEFINE row == [job[j] EXCEPT !.leased = FALSE]
    <3>1. GoodJob(job[j])
      BY DEF RescanInv, JobsTyped
    <3>2. job'[j] = row /\ IsJob(row)
      BY <3>1, SetField DEF GoodJob
    <3>3. /\ row.status = job[j].status /\ row.leased = FALSE /\ row.key = job[j].key
          /\ row.conn = job[j].conn
      BY <3>1 DEF GoodJob, IsJob
    <3>4. ASSUME job[j].status \in Terminal PROVE row = job[j]
      <4>1. job[j].leased = FALSE
        BY <3>1, <3>4 DEF GoodJob, Terminal
      <4> QED  BY <3>1, <4>1 DEF GoodJob, IsJob
    <3> HIDE DEF row
    <3> QED  BY <3>1, <3>2, <3>3, <3>4 DEF KeepsRow, GoodJob
  <2> QED  BY <2>1 DEF RowsKept
<1>3. RequestsTyped'
  BY <1>1 DEF RequestsTyped, IsRequest, NoRequest
<1>4. IsCycle(cycle') /\ cycle'.pc = "idle"
  BY DEF IsCycle, NoCycle
<1>5. CycleTyped' /\ RunsOrClosed'
  BY <1>4 DEF CycleTyped, RunsOrClosed
<1> QED  BY <1>1, <1>2, <1>3, <1>4, <1>5, RowsStay DEF Right, RescanInv, Enqueues

LEMMA OthersRight ==
  ASSUME RescanInv, PauseChanges \/ RowChanges \/ Stop \/ UNCHANGED vars
  PROVE  Right
<1>1. UNCHANGED <<job, cycle, link, request, answers>> /\ conn' = conn
  BY DEF PauseChanges, RowChanges, Stop, vars, link
<1>2. RequestsTyped' /\ ToldTheirs'
  BY <1>1 DEF RescanInv, RequestsTyped, ToldTheirs
<1> QED  BY <1>1, <1>2, StillRight

LEMMA StepRight == ASSUME RescanInv, [Next]_vars PROVE Right
BY CycleRight, AskRight, FindRight, BeginRight, TimeRight, CloseRight, ReconnectRight,
   CancelRight, CrashRight, OthersRight DEF Next, RequestStep

LEMMA RescanHolds == Spec => []RescanInv
<1>1. RescanInv /\ [Next]_vars => RescanInv'
  BY StepRight DEF Right
<1> QED  BY RescanInit, <1>1, PTL DEF Spec

-----------------------------------------------------------------------------
(* What the pages contain *)

EventsOf(page) == {page.events[i] : i \in DOMAIN page.events}

\* A page of job j, planned at state s: its parts are numbered, and follow s.
IsPage(j, s, page) ==
  /\ page.events \in Seq(EventsOf(page))
  /\ page.after \in Position /\ page.after.phase # 0 /\ page.after.sequence = s.sequence + 1
  /\ \A i \in DOMAIN page.events :
       /\ page.events[i].run = j /\ page.events[i].sequence = s.sequence + 1
       /\ page.events[i].part = i - 1

\* The events of a job whose page has not been confirmed.
Ahead(j, row, sent) == {e \in sent : e.run = j /\ e.sequence > row.state.sequence}

\* Beyond the confirmed state of a job that goes on, the outbox has only events of the page
\* that is staged.
RowContent(j, row, sent) ==
  /\ row.state \in Position /\ row.pending.after \in Position
  /\ row.status = "none" => \A e \in sent : e.run # j
  /\ row.status # "none" => row.state.phase # 0
  /\ row.pending # NoPage => row.status \in {"queued", "running"} /\ IsPage(j, row.state, row.pending)
  /\ row.status \in {"queued", "running"} => Ahead(j, row, sent) \subseteq EventsOf(row.pending)
  /\ row.attempts \in 0 .. MaxAttempts
  /\ row.status \in {"none", "queued", "running"} => row.attempts < MaxAttempts

RowsContent == \A j \in Job : RowContent(j, job[j], enqueued)

Before    == {"page", "produce", "renew", "snapshot"}
Emitting  == {"event", "check", "write", "written"}
Looping   == Before \union {"plan", "stage"} \union Emitting \union {"advance"}

\* The page a cycle has in hand is the one that is staged, unless its job was cancelled; then
\* too it has all that was sent beyond the job's state.
CycleOf(c, row, sent) ==
  /\ c.pc \in Looping => row.status \in {"running", "failed"} /\ c.mine = row.state
  /\ c.pc \in Looping \union {"fail"} /\ row.status = "running" => c.tries = row.attempts
  /\ c.pc \in Before \union Emitting \union {"advance"} /\ row.status = "running" =>
       c.page = row.pending
  /\ (c.pc \in Before /\ c.page # NoPage) \/ c.pc \in Emitting \union {"advance"} =>
       IsPage(c.job, row.state, c.page) /\ Ahead(c.job, row, sent) \subseteq EventsOf(c.page)
  /\ c.pc \in {"plan", "stage"} /\ row.status = "running" => row.pending = NoPage
  /\ c.pc = "stage" => IsPage(c.job, row.state, c.page)
  /\ c.pc \in {"plan", "stage"} => c.at = 1
  /\ c.pc \in Emitting => c.at \in DOMAIN c.page.events

CycleContent == CycleOf(cycle, Mine, enqueued)

EventsTyped == \A e \in enqueued : e.run \in Job /\ e.sequence \in Nat

OthersTyped ==
  /\ request \in [Client -> [pc : {"idle", "key", "active", "pending", "begin"},
                            key : Key \union {0}, conn : Nat]]
  /\ cancels \subseteq Nat \ {0} /\ conn # 0
  /\ natural \in BOOLEAN /\ backlog \in BOOLEAN /\ stopped \in BOOLEAN

ContentInv == RowsContent /\ CycleContent /\ EventsTyped /\ OthersTyped /\ SameIdentitySameContent

\* A finite set of numbers has a largest one.
LEMMA LargestIs ==
  ASSUME NEW S \in SUBSET Row
  PROVE  /\ IsFiniteSet(S) /\ Cardinality(S) \in Nat /\ Largest(S) \in Nat
         /\ S # {} => Largest(S) \in S /\ \A q \in S : q <= Largest(S)
<1>1. IsFiniteSet(S) /\ Cardinality(S) \in Nat /\ S \subseteq Nat
  BY RescanPageAssumption, FS_Subset, FS_CardinalityType
<1>2. CASE S = {}
  BY <1>1, <1>2 DEF Largest
<1>3. CASE S # {}
  <2> DEFINE T == {{q \in S : q >= r} : r \in S}
  <2>1. T \subseteq FiniteSubsetsOf(Nat) /\ T # {}
    <3>1. \A r \in S : {q \in S : q >= r} \in SUBSET Nat /\ IsFiniteSet({q \in S : q >= r})
      BY <1>1, FS_Subset
    <3> QED  BY <1>3, <3>1 DEF FiniteSubsetsOf
  <2>2. PICK x \in T : \A y \in T : ~(<<y, x>> \in StrictSubsetOrdering(Nat))
    <3>1. IsWellFoundedOn(StrictSubsetOrdering(Nat), FiniteSubsetsOf(Nat))
      BY FS_StrictSubsetOrderingWellFounded
    <3> HIDE DEF T
    <3> QED  BY <2>1, <3>1, WFMin
  <2>3. PICK r \in S : x = {q \in S : q >= r}
    BY <2>2
  <2>4. ASSUME NEW m \in S, m > r PROVE FALSE
    <3> DEFINE y == {q \in S : q >= m}
    <3>0. r \in Nat /\ m \in Nat /\ \A q \in S : q \in Nat
      BY <1>1
    <3>1. y \subseteq x /\ r \in x /\ r \notin y /\ y \in T
      <4>1. y \in T
        OBVIOUS
      <4>2. \A q \in S : q >= m => q >= r
        BY <2>4, <3>0
      <4>3. y \subseteq x
        BY <2>3, <4>2
      <4>4. r \in x /\ r \notin y
        BY <2>3, <2>4, <3>0
      <4> QED  BY <4>1, <4>3, <4>4
    <3>2. <<y, x>> \in StrictSubsetOrdering(Nat)
      BY <1>1, <2>3, <3>1 DEF StrictSubsetOrdering
    <3> QED  BY <2>2, <3>1, <3>2
  <2>5. \E y \in S : \A m \in S : m <= y
    BY <1>1, <2>3, <2>4
  <2>6. Largest(S) \in S /\ \A q \in S : q <= Largest(S)
    BY <1>3, <2>5 DEF Largest
  <2> QED  BY <1>1, <2>6
<1> QED  BY <1>2, <1>3

LEMMA FirstStateIs ==
  FirstState(table) \in Position /\ FirstState(table).phase # 0 /\ FirstState(table).sequence = 0
<1>1. \A k \in Kind : Stored(table, k) \in SUBSET Row
  BY DEF Stored
<1>2. [k \in Kind |-> Largest(Stored(table, k))] \in [Kind -> Nat]
  BY <1>1, LargestIs
<1> QED  BY <1>2 DEF FirstState, Position

\* What follows a page of some rows.
LEMMA AfterIs ==
  ASSUME NEW s \in Position, s.phase # 0, ~Done(s), NEW rows \in SUBSET Row, NEW shown \in SUBSET rows
  PROVE  /\ After(s, rows, shown) \in Position /\ After(s, rows, shown).phase # 0
         /\ After(s, rows, shown).sequence = s.sequence + 1
         /\ Chunks(shown) \in Nat
         /\ After(s, rows, shown).phase = IF LastPage(s, rows) THEN s.phase + 1 ELSE s.phase
         /\ After(s, rows, shown).cursor = IF LastPage(s, rows) THEN 0 ELSE NextCursor(s, rows)
         /\ After(s, rows, shown).max = s.max
         /\ After(s, rows, shown).chunks = s.chunks + Chunks(shown)
         /\ After(s, rows, shown).count = s.count + Cardinality(shown)
<1>1. /\ s = [phase |-> s.phase, cursor |-> s.cursor, max |-> s.max, sequence |-> s.sequence,
              chunks |-> s.chunks, count |-> s.count]
      /\ s.phase \in Nat /\ s.cursor \in Nat /\ s.max \in [Kind -> Nat] /\ s.sequence \in Nat
      /\ s.chunks \in Nat /\ s.count \in Nat
  BY DEF Position
<1>2. s.phase \in Kind /\ s.max[s.phase] \in Nat
  BY <1>1, RescanPageAssumption DEF Done, Kind
<1>3. Cardinality(shown) \in Nat /\ Cardinality(rows) \in Nat /\ Largest(rows) \in Nat
  BY LargestIs
<1>4. Chunks(shown) \in Nat
  <2>1. \A n \in Nat, c \in Nat \ {0} : (n + c - 1) \div c \in Nat
    OBVIOUS
  <2> QED  BY <1>3, <2>1, RescanPageAssumption DEF Chunks
<1>5. NextCursor(s, rows) \in Nat
  BY <1>2, <1>3 DEF NextCursor
<1> DEFINE p == IF LastPage(s, rows) THEN s.phase + 1 ELSE s.phase
           c == IF LastPage(s, rows) THEN 0 ELSE NextCursor(s, rows)
<1>6. After(s, rows, shown) =
        [phase |-> p, cursor |-> c, max |-> s.max, sequence |-> s.sequence + 1,
         chunks |-> s.chunks + Chunks(shown), count |-> s.count + Cardinality(shown)]
  <2>1. PICK a \in Nat, b \in Nat, m \in [Kind -> Nat], q \in Nat, d \in Nat, n \in Nat :
          s = [phase |-> a, cursor |-> b, max |-> m, sequence |-> q, chunks |-> d, count |-> n]
    BY <1>1
  <2>2. /\ s.phase = a /\ s.cursor = b /\ s.max = m /\ s.sequence = q /\ s.chunks = d /\ s.count = n
    BY <2>1
  <2>3. After(s, rows, shown) =
          [s EXCEPT !.phase = p, !.cursor = c, !.sequence = q + 1, !.chunks = d + Chunks(shown),
                    !.count = n + Cardinality(shown)]
    BY <2>2 DEF After
  <2> HIDE DEF p, c
  <2> QED  BY <2>1, <2>2, <2>3
<1>7. p \in Nat /\ p # 0 /\ c \in Nat
  BY <1>1, <1>5
<1>8. /\ After(s, rows, shown).phase = p /\ After(s, rows, shown).cursor = c
      /\ After(s, rows, shown).max = s.max
      /\ After(s, rows, shown).chunks = s.chunks + Chunks(shown)
      /\ After(s, rows, shown).count = s.count + Cardinality(shown)
  <2> HIDE DEF p, c
  <2> QED  BY <1>6
<1> HIDE DEF p, c
<1>9. /\ After(s, rows, shown) \in Position /\ After(s, rows, shown).phase # 0
      /\ After(s, rows, shown).sequence = s.sequence + 1
  BY <1>1, <1>3, <1>4, <1>6, <1>7 DEF Position
<1> QED  BY <1>4, <1>8, <1>9 DEF p, c

LEMMA SeqOf ==
  ASSUME NEW n \in Nat, NEW f, f = [i \in 1 .. n |-> f[i]]
  PROVE  f \in Seq({f[i] : i \in DOMAIN f}) /\ Len(f) = n /\ DOMAIN f = 1 .. n
<1>1. f \in [1 .. n -> {f[i] : i \in DOMAIN f}]
  OBVIOUS
<1> QED  BY <1>1

\* A plan is a page.
LEMMA PlanIs ==
  ASSUME NEW j \in Job, NEW s \in Position, s.phase # 0
  PROVE  IsPage(j, s, Plan(j, s, table))
<1>0. s.sequence \in Nat
  BY DEF Position
<1>1. CASE Done(s)
  <2> DEFINE after == [s EXCEPT !.sequence = @ + 1]
             e == Progress(j, after, 0, TRUE)
  <2>1. after \in Position /\ after.phase # 0 /\ after.sequence = s.sequence + 1
    BY DEF Position
  <2>2. e.run = j /\ e.sequence = s.sequence + 1 /\ e.part = 0
    BY <2>1 DEF Progress
  <2> HIDE DEF e
  <2>3. <<e>> \in Seq({<<e>>[i] : i \in DOMAIN <<e>>})
    BY SeqOf
  <2>4. /\ Plan(j, s, table).events = <<e>> /\ Plan(j, s, table).after = after
    BY <1>1 DEF Plan, e
  <2> HIDE DEF after
  <2> QED  BY <2>1, <2>2, <2>3, <2>4 DEF IsPage, EventsOf
<1>2. CASE ~Done(s)
  <2> DEFINE rows == PageRows(s, table)
             shown == rows \ Hidden
             after == After(s, rows, shown)
             size == IF shown = {} THEN 0 ELSE 1 + Chunks(shown)
             f == [i \in 1 .. size |->
                     IF i = 1 THEN Progress(j, after, 0, FALSE)
                     ELSE Items(j, after, i - 1, s.phase, table, Chunk(shown, i - 1))]
  <2>1. rows \in SUBSET Row /\ shown \in SUBSET rows
    BY DEF PageRows, Stored
  <2> HIDE DEF rows
  <2>2. /\ after \in Position /\ after.phase # 0 /\ after.sequence = s.sequence + 1
        /\ Chunks(shown) \in Nat
    BY <1>2, <2>1, AfterIs
  <2>3. /\ Plan(j, s, table).events = f /\ Plan(j, s, table).after = after
    BY <1>2 DEF Plan, rows
  <2> HIDE DEF after, shown
  <2>4. size \in Nat
    BY <2>2
  <2> HIDE DEF size
  <2>5. /\ \A i \in 1 .. size : f[i].run = j /\ f[i].sequence = s.sequence + 1 /\ f[i].part = i - 1
        /\ f = [i \in 1 .. size |-> f[i]]
    BY <2>2, <2>4 DEF Progress, Items
  <2> HIDE DEF f
  <2>6. f \in Seq({f[i] : i \in DOMAIN f}) /\ DOMAIN f = 1 .. size
    BY <2>4, <2>5, SeqOf
  <2> QED  BY <2>2, <2>3, <2>5, <2>6 DEF IsPage, EventsOf
<1> QED  BY <1>1, <1>2

-----------------------------------------------------------------------------
(* What a page holds *)

\* A product grows with its factor.
LEMMA Product ==
  ASSUME NEW a \in Nat, NEW b \in Nat, NEW c \in Nat, a <= b
  PROVE  a * c <= b * c /\ a * c \in Nat /\ b * c \in Nat
OBVIOUS

\* What a division leaves.
LEMMA Quotient ==
  ASSUME NEW x \in Nat, NEW c \in Nat \ {0}
  PROVE  /\ x \div c \in Nat /\ (x \div c) * c <= x /\ x < (x \div c) * c + c
OBVIOUS

\* Ranks begin at one and follow the order of the rows.
LEMMA RankIs ==
  ASSUME NEW S \in SUBSET Row, NEW r \in S
  PROVE  /\ Rank(S, r) \in 1 .. Cardinality(S)
         /\ \A q \in S : q < r => Rank(S, q) < Rank(S, r)
<1>1. IsFiniteSet(S) /\ S \subseteq Nat /\ Cardinality(S) \in Nat
  BY LargestIs, RescanPageAssumption
<1>2. ASSUME NEW q \in S
      PROVE  IsFiniteSet({x \in S : x <= q}) /\ Rank(S, q) \in Nat /\ Rank(S, q) <= Cardinality(S)
  <2>1. {x \in S : x <= q} \in SUBSET S
    OBVIOUS
  <2> QED  BY <1>1, <2>1, FS_Subset, FS_CardinalityType DEF Rank
<1>3. \A q \in S : Rank(S, q) \in Nat /\ Rank(S, q) <= Cardinality(S)
  BY <1>2
<1>4. Rank(S, r) # 0
  <2>1. r \in {x \in S : x <= r}
    BY <1>1
  <2> QED  BY <1>2, <2>1, FS_EmptySet DEF Rank
<1>5. ASSUME NEW q \in S, q < r PROVE Rank(S, q) < Rank(S, r)
  <2>1. \A x \in S : x <= q => x <= r
    <3>1. \A x \in S : x \in Nat
      BY <1>1
    <3>2. q \in Nat /\ r \in Nat /\ q <= r
      BY <1>5, <3>1
    <3> QED  BY <3>1, <3>2
  <2> DEFINE A == {x \in S : x <= q}
             B == {x \in S : x <= r}
  <2>2. A \in SUBSET B /\ r \in B /\ r \notin A
    <3>1. r <= r /\ ~(r <= q)
      BY <1>1, <1>5
    <3> QED  BY <2>1, <3>1
  <2>3. IsFiniteSet(B) /\ Rank(S, q) = Cardinality(A) /\ Rank(S, r) = Cardinality(B)
    BY <1>2 DEF Rank
  <2> HIDE DEF A, B
  <2>4. Rank(S, q) <= Rank(S, r) /\ Rank(S, q) # Rank(S, r)
    BY <2>2, <2>3, FS_Subset
  <2> QED  BY <1>3, <2>4
<1> QED  BY <1>1, <1>3, <1>4, <1>5

\* A set of numbers has a least one.
LEMMA LeastIs ==
  ASSUME NEW T \in SUBSET Nat, T # {}
  PROVE  \E m \in T : \A q \in T : m <= q
<1>1. PICK m \in T : \A q \in T : <<q, m>> \notin OpToRel(<, Nat)
  BY NatLessThanWellFounded, WFMin
<1>2. \A q \in T : ~(q < m)
  BY <1>1 DEF OpToRel
<1> QED  BY <1>2

\* The first n of some rows.
FirstRows(S, n) == {r \in S : Rank(S, r) <= n}

\* They are a beginning, and all when there are fewer.
LEMMA FirstRowsAre ==
  ASSUME NEW S \in SUBSET Row, NEW n \in Nat
  PROVE  /\ \A r \in FirstRows(S, n), q \in S : q <= r => q \in FirstRows(S, n)
         /\ Cardinality(FirstRows(S, n)) < n => FirstRows(S, n) = S
<1> DEFINE F == FirstRows(S, n)
<1>1. S \subseteq Nat /\ F \subseteq S /\ F \in SUBSET Row
  BY RescanPageAssumption DEF FirstRows
<1>2. ASSUME NEW r \in F, NEW q \in S, q <= r PROVE q \in F
  <2>0. q \in Nat /\ r \in Nat /\ r \in S
    BY <1>1, <1>2
  <2>1. q = r \/ Rank(S, q) < Rank(S, r)
    BY <1>2, <2>0, RankIs
  <2>2. Rank(S, q) \in Nat /\ Rank(S, r) \in Nat /\ Rank(S, r) <= n
    BY <1>1, <1>2, RankIs, LargestIs DEF FirstRows
  <2> QED  BY <1>2, <2>1, <2>2 DEF FirstRows
<1>3. ASSUME Cardinality(F) < n, F # S PROVE FALSE
  <2>1. S \ F # {} /\ S \ F \subseteq Nat
    BY <1>1, <1>3
  <2>2. PICK m \in S \ F : \A q \in S \ F : m <= q
    BY <2>1, LeastIs
  <2> DEFINE D == {q \in S : q <= m}
  <2>3. \A q \in D : q \in F \/ q = m
    <3>1. \A q \in S : q \in Nat
      BY <1>1
    <3> QED  BY <2>2, <3>1
  <2>4. m \in D /\ m \notin F /\ Rank(S, m) = Cardinality(D)
    BY <1>1, <2>2 DEF Rank
  <2>5. IsFiniteSet(F) /\ Cardinality(F) \in Nat /\ F \intersect D \in SUBSET F
    BY <1>1, LargestIs
  <2> HIDE DEF D, F
  <2>6. D = (F \intersect D) \union {m}
    BY <2>3, <2>4
  <2>7. IsFiniteSet(F \intersect D) /\ Cardinality(F \intersect D) <= Cardinality(F)
    BY <2>5, FS_Subset
  <2>8. Cardinality(F \intersect D) \in Nat
    BY <2>7, FS_CardinalityType
  <2>9. Cardinality(D) = Cardinality(F \intersect D) + 1
    BY <2>4, <2>6, <2>7, FS_AddElement
  <2>10. Rank(S, m) <= n
    BY <1>3, <2>4, <2>5, <2>7, <2>8, <2>9
  <2> QED  BY <2>2, <2>10 DEF F, FirstRows
<1> QED  BY <1>2, <1>3

\* The chunks have every row, and none twice.
LEMMA ChunksAre ==
  ASSUME NEW S \in SUBSET Row
  PROVE  /\ Chunks(S) \in Nat /\ (S = {} => Chunks(S) = 0)
         /\ \A r \in S : \E i \in 1 .. Chunks(S) : r \in Chunk(S, i)
         /\ \A i, k \in Nat \ {0} : i # k => Chunk(S, i) \intersect Chunk(S, k) = {}
<1> DEFINE n == Cardinality(S)
           c == ChunkSize
<1>1. IsFiniteSet(S) /\ n \in Nat /\ c \in Nat /\ c # 0 /\ c - 1 \in Nat
  BY LargestIs, RescanPageAssumption
<1>2. Chunks(S) = (n + (c - 1)) \div c
  BY <1>1 DEF Chunks
<1> HIDE DEF n, c
<1>3. Chunks(S) \in Nat /\ Chunks(S) * c <= n + (c - 1) /\ n + (c - 1) < Chunks(S) * c + c
  <2>1. n + (c - 1) \in Nat
    BY <1>1
  <2> QED  BY <1>1, <1>2, <2>1, Quotient
<1>4. n <= Chunks(S) * c
  <2>1. Chunks(S) * c \in Nat
    BY <1>1, <1>3
  <2> QED  BY <1>1, <1>3, <2>1
<1>5. S = {} => Chunks(S) = 0
  <2>1. ASSUME S = {}, Chunks(S) # 0 PROVE FALSE
    <3>1. n = 0
      BY <2>1, FS_EmptySet DEF n
    <3>2. 1 * c <= Chunks(S) * c /\ Chunks(S) * c \in Nat
      BY <1>1, <1>3, <2>1, Product
    <3> QED  BY <1>1, <1>3, <3>1, <3>2
  <2> QED  BY <2>1
<1>6. ASSUME NEW r \in S PROVE \E i \in 1 .. Chunks(S) : r \in Chunk(S, i)
  <2>1. Rank(S, r) \in Nat /\ 1 <= Rank(S, r) /\ Rank(S, r) <= n
    BY <1>1, RankIs DEF n
  <2> DEFINE k == Rank(S, r)
             i == (k + (c - 1)) \div c
  <2> HIDE DEF k
  <2>2. k \in Nat /\ 1 <= k /\ k <= n /\ k + (c - 1) \in Nat
    BY <1>1, <2>1 DEF k
  <2>3. i \in Nat /\ i * c <= k + (c - 1) /\ k + (c - 1) < i * c + c
    BY <1>1, <2>2, Quotient
  <2> HIDE DEF i
  <2>4. i * c \in Nat /\ k <= i * c
    BY <1>1, <2>2, <2>3
  <2>5. i # 0
    BY <1>1, <2>2, <2>4
  <2>6. i - 1 \in Nat /\ (i - 1) * c = i * c - c
    BY <1>1, <2>3, <2>5
  <2>7. (i - 1) * c < k
    BY <1>1, <2>2, <2>3, <2>4, <2>6
  <2>8. i <= Chunks(S)
    <3>1. ASSUME Chunks(S) <= i - 1 PROVE FALSE
      <4>1. Chunks(S) * c <= (i - 1) * c /\ Chunks(S) * c \in Nat /\ (i - 1) * c \in Nat
        BY <1>1, <1>3, <2>6, <3>1, Product
      <4> QED  BY <1>1, <1>4, <2>2, <2>7, <4>1
    <3> QED  BY <1>3, <2>3, <2>6, <3>1
  <2>9. i \in 1 .. Chunks(S) /\ r \in Chunk(S, i)
    BY <1>3, <1>6, <2>3, <2>4, <2>5, <2>7, <2>8 DEF Chunk, k, c
  <2> QED  BY <2>9
<1>7. ASSUME NEW i \in Nat \ {0}, NEW k \in Nat \ {0}, i < k,
             NEW r \in Chunk(S, i), r \in Chunk(S, k)
      PROVE  FALSE
  <2>1. r \in S /\ Rank(S, r) <= i * c /\ (k - 1) * c < Rank(S, r)
    BY <1>7 DEF Chunk, c
  <2>2. Rank(S, r) \in Nat
    BY <1>1, <2>1, RankIs DEF n
  <2>3. i * c <= (k - 1) * c /\ i * c \in Nat /\ (k - 1) * c \in Nat
    <3>1. i \in Nat /\ k - 1 \in Nat /\ i <= k - 1
      BY <1>7
    <3> QED  BY <1>1, <3>1, Product
  <2> QED  BY <2>1, <2>2, <2>3
<1> QED  BY <1>3, <1>5, <1>6, <1>7

OneToOne(g, S, T) ==
  /\ g \in [S -> T]
  /\ \A a, b \in S : g[a] = g[b] => a = b
  /\ \A t \in T : \E a \in S : g[a] = t

\* As many as what they stand for.
LEMMA OneEach ==
  ASSUME NEW S, IsFiniteSet(S), NEW T, NEW g, OneToOne(g, S, T)
  PROVE  IsFiniteSet(T) /\ Cardinality(T) = Cardinality(S)
<1>1. g \in Bijection(S, T)
  BY DEF OneToOne, Bijection, Injection, Surjection, IsInjective
<1> QED  BY <1>1, FS_Bijection DEF ExistsBijection

\* The rows of an event, and of some events.
Firsts(e) == {item[1] : item \in e.items}
CopiedIn(E) == UNION {{<<e.kind, item[1]>> : item \in e.items} : e \in E}

\* No two events have a row in common.
Apart(E) == \A e, f \in E : e # f /\ e.kind = f.kind => Firsts(e) \intersect Firsts(f) = {}

ChunksIn(E) == {e \in E : e.kind # 0}

\* The rows of some events, one by one.
LEMMA CopiedMembers ==
  ASSUME NEW E, NEW x
  PROVE  x \in CopiedIn(E) <=> \E e \in E : \E r \in Firsts(e) : x = <<e.kind, r>>
BY DEF CopiedIn, Firsts

\* Event e has the rows C of table t.
ItemsFrom(e, C, t) == e.items = {<<r, t[r]>> : r \in C}

LEMMA FirstsAre ==
  ASSUME NEW e, NEW C, NEW t, ItemsFrom(e, C, t)
  PROVE  Firsts(e) = C
<1> USE DEF ItemsFrom
<1>1. ASSUME NEW r \in C PROVE r \in Firsts(e)
  <2>1. <<r, t[r]>> \in e.items /\ <<r, t[r]>>[1] = r
    OBVIOUS
  <2> QED  BY <2>1 DEF Firsts
<1>2. ASSUME NEW q \in Firsts(e) PROVE q \in C
  <2>1. PICK item \in e.items : q = item[1]
    BY DEF Firsts
  <2>2. PICK r \in C : item = <<r, t[r]>>
    OBVIOUS
  <2> QED  BY <2>1, <2>2
<1> QED  BY <1>1, <1>2

\* The first `size' events f of P are those of a page that shows some rows of kind k.
Emits(P, f, size, k, shown) ==
  /\ P = {f[i] : i \in 1 .. size} /\ size = IF shown = {} THEN 0 ELSE 1 + Chunks(shown)
  /\ \A i \in 1 .. size : f[i].part = i - 1
  /\ \A i \in 1 .. size : i = 1 => f[i].kind = 0 /\ Firsts(f[i]) = {}
  /\ \A i \in 1 .. size : i # 1 => f[i].kind = k /\ Firsts(f[i]) = Chunk(shown, i - 1)

LEMMA Emitted ==
  ASSUME NEW k \in Nat \ {0}, NEW shown \in SUBSET Row, NEW f, NEW size \in Nat,
         NEW P, Emits(P, f, size, k, shown)
  PROVE  /\ IsFiniteSet(P) /\ Cardinality(ChunksIn(P)) = Chunks(shown)
         /\ IsFiniteSet(CopiedIn(P)) /\ Cardinality(CopiedIn(P)) = Cardinality(shown)
         /\ Apart(P)
         /\ CopiedIn(P) = {<<k, r>> : r \in shown}
<1>0. /\ P = {f[i] : i \in 1 .. size} /\ size = IF shown = {} THEN 0 ELSE 1 + Chunks(shown)
      /\ \A i \in 1 .. size : f[i].part = i - 1
      /\ \A i \in 1 .. size : i = 1 => f[i].kind = 0 /\ Firsts(f[i]) = {}
      /\ \A i \in 1 .. size : i # 1 => f[i].kind = k /\ Firsts(f[i]) = Chunk(shown, i - 1)
  BY DEF Emits
<1>1. /\ Chunks(shown) \in Nat /\ (shown = {} => Chunks(shown) = 0)
      /\ \A r \in shown : \E i \in 1 .. Chunks(shown) : r \in Chunk(shown, i)
      /\ IsFiniteSet(shown)
  BY ChunksAre, LargestIs
<1>2. \A i, m \in 1 .. size : f[i] = f[m] => i = m
  <2>1. ASSUME NEW i \in 1 .. size, NEW m \in 1 .. size, f[i] = f[m] PROVE i = m
    <3>1. i - 1 = m - 1
      BY <1>0, <2>1
    <3> QED  BY <3>1
  <2> QED  BY <2>1
<1>3. IsFiniteSet(P)
  <2> DEFINE g == [i \in 1 .. size |-> f[i]]
  <2>1. OneToOne(g, 1 .. size, P)
    BY <1>0, <1>2 DEF OneToOne
  <2>2. IsFiniteSet(1 .. size)
    <3>1. 1 \in Int /\ size \in Int
      OBVIOUS
    <3> QED  BY <3>1, FS_Interval
  <2> HIDE DEF g
  <2> QED  BY <2>1, <2>2, OneEach
<1>4. Cardinality(ChunksIn(P)) = Chunks(shown)
  <2> DEFINE n == Chunks(shown)
             g == [i \in 1 .. n |-> f[i + 1]]
  <2>1. IsFiniteSet(1 .. n) /\ Cardinality(1 .. n) = n
    <3>1. n \in Nat
      BY <1>1
    <3> HIDE DEF n
    <3>2. 1 \in Int /\ n \in Int /\ (1 > n => n = 0) /\ n - 1 + 1 = n
      BY <3>1
    <3> QED  BY <3>2, FS_Interval
  <2>2. \A i \in 1 .. n : i + 1 \in 1 .. size /\ i + 1 # 1
    BY <1>0, <1>1
  <2>3. \A i \in 1 .. n : f[i + 1] \in ChunksIn(P)
    BY <1>0, <2>2 DEF ChunksIn
  <2>4. g \in [1 .. n -> ChunksIn(P)]
    BY <2>3
  <2>5. \A a, b \in 1 .. n : g[a] = g[b] => a = b
    <3>1. ASSUME NEW a \in 1 .. n, NEW b \in 1 .. n, f[a + 1] = f[b + 1] PROVE a = b
      <4>1. a + 1 = b + 1
        BY <1>2, <2>2, <3>1
      <4> QED  BY <4>1
    <3> QED  BY <3>1
  <2>6. ASSUME NEW t \in ChunksIn(P) PROVE \E a \in 1 .. n : g[a] = t
    <3>1. PICK i \in 1 .. size : t = f[i] /\ f[i].kind # 0
      BY <1>0 DEF ChunksIn
    <3>2. i # 1 /\ size = 1 + n
      BY <1>0, <3>1
    <3>3. i - 1 \in 1 .. n /\ (i - 1) + 1 = i
      BY <1>1, <3>2
    <3> QED  BY <3>1, <3>3
  <2>7. OneToOne(g, 1 .. n, ChunksIn(P))
    BY <2>4, <2>5, <2>6 DEF OneToOne
  <2> HIDE DEF g, n
  <2>8. Cardinality(ChunksIn(P)) = Cardinality(1 .. n)
    BY <2>1, <2>7, OneEach
  <2> QED  BY <2>1, <2>8 DEF n
<1>5. CopiedIn(P) = {<<k, r>> : r \in shown}
  <2>1. ASSUME NEW x \in CopiedIn(P) PROVE x \in {<<k, r>> : r \in shown}
    <3>1. PICK e \in P : \E r \in Firsts(e) : x = <<e.kind, r>>
      BY <2>1, CopiedMembers
    <3>2. PICK i \in 1 .. size : e = f[i]
      BY <1>0
    <3>3. PICK r \in Firsts(f[i]) : x = <<f[i].kind, r>>
      BY <3>1, <3>2
    <3>4. i # 1 /\ r \in Chunk(shown, i - 1) /\ f[i].kind = k
      BY <1>0, <3>3
    <3> QED  BY <3>3, <3>4 DEF Chunk
  <2>2. ASSUME NEW r \in shown PROVE <<k, r>> \in CopiedIn(P)
    <3>1. PICK i \in 1 .. Chunks(shown) : r \in Chunk(shown, i)
      BY <1>1
    <3>2. i + 1 \in 1 .. size /\ i + 1 # 1 /\ (i + 1) - 1 = i
      BY <1>0, <1>1
    <3>3. f[i + 1] \in P /\ f[i + 1].kind = k /\ Firsts(f[i + 1]) = Chunk(shown, i)
      BY <1>0, <3>2
    <3>4. \E e \in P : \E q \in Firsts(e) : <<k, r>> = <<e.kind, q>>
      BY <3>1, <3>3
    <3> QED  BY <3>4, CopiedMembers
  <2> QED  BY <2>1, <2>2
<1>6. IsFiniteSet(CopiedIn(P)) /\ Cardinality(CopiedIn(P)) = Cardinality(shown)
  <2> DEFINE T == {<<k, r>> : r \in shown}
             g == [r \in shown |-> <<k, r>>]
  <2>1. OneToOne(g, shown, T)
    BY DEF OneToOne
  <2> HIDE DEF g, T
  <2>2. IsFiniteSet(T) /\ Cardinality(T) = Cardinality(shown)
    BY <1>1, <2>1, OneEach
  <2> QED  BY <1>5, <2>2 DEF T
<1>7. Apart(P)
  <2>1. ASSUME NEW i \in 1 .. size, NEW m \in 1 .. size, f[i] # f[m]
        PROVE  Firsts(f[i]) \intersect Firsts(f[m]) = {}
    <3>1. CASE i = 1 \/ m = 1
      BY <1>0, <3>1
    <3>2. CASE i # 1 /\ m # 1
      <4>1. i - 1 \in Nat \ {0} /\ m - 1 \in Nat \ {0} /\ i - 1 # m - 1
        BY <2>1, <3>2
      <4>2. Chunk(shown, i - 1) \intersect Chunk(shown, m - 1) = {}
        BY <4>1, ChunksAre
      <4> QED  BY <1>0, <3>2, <4>2
    <3> QED  BY <3>1, <3>2
  <2> SUFFICES ASSUME NEW e \in P, NEW g \in P, e # g
               PROVE  Firsts(e) \intersect Firsts(g) = {}
    BY DEF Apart
  <2>2. PICK i \in 1 .. size : e = f[i]
    BY <1>0
  <2>3. PICK m \in 1 .. size : g = f[m]
    BY <1>0
  <2> QED  BY <2>1, <2>2, <2>3
<1> QED  BY <1>3, <1>4, <1>5, <1>6, <1>7

\* Row r of kind k is behind the cursor.
Passed(s, k, r) == k < s.phase \/ (k = s.phase /\ r <= s.cursor)

\* The numbers a page announces are those of its events E.
Counts(s, after, E) ==
  /\ after.max = s.max
  /\ after.chunks = s.chunks + Cardinality(ChunksIn(E))
  /\ after.count = s.count + Cardinality(CopiedIn(E))

\* It holds the rows up to the next cursor that are still there.
Covers(s, after, tab, E) ==
  /\ \A k \in Kind, r \in Row : Passed(s, k, r) => Passed(after, k, r)
  /\ \A k, r : <<k, r>> \in CopiedIn(E) =>
       k \in Kind /\ r \in Row /\ ~Passed(s, k, r) /\ Passed(after, k, r)
  /\ \A k \in Kind : \A r \in Stored(tab, k) \ Hidden :
       r <= s.max[k] /\ Passed(after, k, r) /\ ~Passed(s, k, r) => <<k, r>> \in CopiedIn(E)

\* The only last event of E is one that announces the numbers of the state.
EndsWith(E, after) ==
  \E e \in E : {f \in E : f.last} = {e} /\ e.chunks = after.chunks /\ e.count = after.count

\* What a page holds that was planned at state s.
PageHolds(s, tab, page) ==
  /\ IsFiniteSet(EventsOf(page)) /\ IsFiniteSet(CopiedIn(EventsOf(page))) /\ Apart(EventsOf(page))
  /\ Counts(s, page.after, EventsOf(page))
  /\ Covers(s, page.after, tab, EventsOf(page))
  /\ ~page.complete => \A e \in EventsOf(page) : ~e.last
  /\ page.complete => page.after.phase > Kinds /\ EndsWith(EventsOf(page), page.after)

\* Where a page ends.
LEMMA PageEnds ==
  ASSUME NEW s \in Position, s.phase # 0, ~Done(s), NEW tab, NEW rows, rows = PageRows(s, tab),
         NEW after, after.phase = IF LastPage(s, rows) THEN s.phase + 1 ELSE s.phase,
         after.cursor = IF LastPage(s, rows) THEN 0 ELSE NextCursor(s, rows)
  PROVE  /\ s.phase \in Kind /\ rows \in SUBSET Stored(tab, s.phase)
         /\ \A k \in Kind, r \in Row : Passed(s, k, r) => Passed(after, k, r)
         /\ \A r \in rows : ~Passed(s, s.phase, r) /\ Passed(after, s.phase, r)
         /\ \A k \in Kind : \A r \in Stored(tab, k) :
              r <= s.max[k] /\ Passed(after, k, r) /\ ~Passed(s, k, r) => k = s.phase /\ r \in rows
<1> DEFINE p == s.phase
           rest == {r \in Stored(tab, p) : s.cursor < r /\ r <= s.max[p]}
<1>1. /\ p \in Nat /\ p \in Kind /\ s.cursor \in Nat /\ s.max[p] \in Nat
      /\ Kinds \in Nat /\ PageSize \in Nat \ {0}
  BY RescanPageAssumption DEF Position, Done, Kind
<1>2. rows = FirstRows(rest, PageSize) /\ rest \in SUBSET Row /\ Stored(tab, p) \in SUBSET Row
  BY DEF PageRows, FirstRows, Stored
<1>3. /\ \A r \in rows, q \in rest : q <= r => q \in rows
      /\ Cardinality(rows) < PageSize => rows = rest
  BY <1>1, <1>2, FirstRowsAre
<1>4. rows \in SUBSET rest /\ rows \in SUBSET Row
  BY <1>2 DEF FirstRows
<1>5. \A r \in Row : r \in Nat /\ r # 0
  BY RescanPageAssumption
<1>6. /\ Cardinality(rows) \in Nat /\ (rows = {} => Cardinality(rows) = 0)
      /\ rows # {} => Largest(rows) \in rows /\ \A q \in rows : q <= Largest(rows)
  BY <1>4, LargestIs, FS_EmptySet
<1> HIDE DEF rest
<1>7. CASE LastPage(s, rows)
  <2>1. after.phase = p + 1 /\ after.cursor = 0
    BY <1>7
  <2>2. rows = rest
    <3>1. CASE Cardinality(rows) < PageSize
      BY <1>3, <3>1
    <3>2. CASE ~(Cardinality(rows) < PageSize)
      <4>1. rows # {} /\ Largest(rows) >= s.max[p]
        BY <1>1, <1>6, <1>7, <3>2 DEF LastPage, NextCursor
      <4>2. ASSUME NEW q \in rest PROVE q \in rows
        <5>1. q <= s.max[p] /\ q \in Nat /\ Largest(rows) \in Nat
          BY <1>2, <1>4, <1>5, <1>6, <4>1 DEF rest
        <5>2. q <= Largest(rows)
          BY <1>1, <4>1, <5>1
        <5> QED  BY <1>3, <1>6, <4>1, <5>2
      <4> QED  BY <1>4, <4>2
    <3> QED  BY <3>1, <3>2
  <2>3. \A k \in Kind : k \in Nat
    BY DEF Kind
  <2>4. \A k \in Kind, r \in Row : Passed(s, k, r) => Passed(after, k, r)
    BY <1>1, <2>1, <2>3 DEF Passed
  <2>5. \A r \in rows : ~Passed(s, p, r) /\ Passed(after, p, r)
    BY <1>1, <1>2, <1>5, <2>1, <2>2 DEF Passed, rest
  <2>6. ASSUME NEW k \in Kind, NEW r \in Stored(tab, k), r <= s.max[k], Passed(after, k, r),
               ~Passed(s, k, r)
        PROVE  k = p /\ r \in rows
    <3>1. r \in Row /\ r \in Nat /\ r # 0
      BY <1>5 DEF Stored
    <3>2. k = p /\ s.cursor < r
      BY <1>1, <2>1, <2>3, <2>6, <3>1 DEF Passed
    <3> QED  BY <2>2, <2>6, <3>2 DEF rest
  <2> QED  BY <1>1, <1>2, <1>4, <2>4, <2>5, <2>6 DEF rest
<1>8. CASE ~LastPage(s, rows)
  <2>1. rows # {} /\ after.phase = p /\ after.cursor = Largest(rows)
    BY <1>1, <1>6, <1>8 DEF LastPage, NextCursor
  <2>2. /\ Largest(rows) \in Nat /\ s.cursor < Largest(rows)
    BY <1>4, <1>5, <1>6, <2>1 DEF rest
  <2>3. \A k \in Kind : k \in Nat
    BY DEF Kind
  <2>4. \A k \in Kind, r \in Row : Passed(s, k, r) => Passed(after, k, r)
    BY <1>1, <1>5, <2>1, <2>2, <2>3 DEF Passed
  <2>5. \A r \in rows : ~Passed(s, p, r) /\ Passed(after, p, r)
    BY <1>1, <1>4, <1>5, <1>6, <2>1 DEF Passed, rest
  <2>6. ASSUME NEW k \in Kind, NEW r \in Stored(tab, k), r <= s.max[k], Passed(after, k, r),
               ~Passed(s, k, r)
        PROVE  k = p /\ r \in rows
    <3>1. r \in Row /\ r \in Nat
      BY <1>5 DEF Stored
    <3>2. k = p /\ s.cursor < r /\ r <= Largest(rows)
      BY <1>1, <2>1, <2>3, <2>6, <3>1 DEF Passed
    <3>3. r \in rest
      BY <2>6, <3>2 DEF rest
    <3> QED  BY <1>3, <1>6, <2>1, <3>2, <3>3
  <2> QED  BY <1>1, <1>2, <1>4, <2>4, <2>5, <2>6 DEF rest
<1> QED  BY <1>7, <1>8

LEMMA PlanHolds ==
  ASSUME NEW j \in Job, NEW s \in Position, s.phase # 0
  PROVE  PageHolds(s, table, Plan(j, s, table))
<1> DEFINE page == Plan(j, s, table)
           E == EventsOf(page)
<1>1. CASE Done(s)
  <2> DEFINE after == [s EXCEPT !.sequence = @ + 1]
             e == Progress(j, after, 0, TRUE)
  <2>1. /\ after.phase = s.phase /\ after.cursor = s.cursor /\ after.max = s.max
        /\ after.chunks = s.chunks /\ after.count = s.count
        /\ s.chunks \in Nat /\ s.count \in Nat
    BY DEF Position
  <2>2. /\ e.kind = 0 /\ e.last = TRUE /\ e.items = {} /\ e.chunks = after.chunks
        /\ e.count = after.count
    BY DEF Progress
  <2>3. page.events = <<e>> /\ page.after = after /\ page.complete = TRUE
    BY <1>1 DEF Plan
  <2> HIDE DEF e, after, page
  <2>4. E = {e}
    BY <2>3 DEF EventsOf
  <2> HIDE DEF E
  <2>5. ChunksIn(E) = {} /\ CopiedIn(E) = {} /\ Apart(E)
    BY <2>2, <2>4 DEF ChunksIn, CopiedIn, Apart
  <2>6. IsFiniteSet(E) /\ IsFiniteSet({}) /\ Cardinality({}) = 0
    BY <2>4, FS_Singleton, FS_EmptySet
  <2>7. after.chunks = s.chunks + 0 /\ after.count = s.count + 0
    BY <2>1
  <2>8. /\ \A k \in Kind, r \in Row : Passed(s, k, r) => Passed(after, k, r)
        /\ \A k \in Kind : \A r \in Stored(table, k) \ Hidden :
              r <= s.max[k] /\ Passed(after, k, r) /\ ~Passed(s, k, r) => <<k, r>> \in CopiedIn(E)
    BY <2>1 DEF Passed
  <2>9. {f \in E : f.last} = {e}
    BY <2>2, <2>4
  <2>10. /\ Counts(s, after, E) /\ IsFiniteSet(CopiedIn(E)) /\ IsFiniteSet(E) /\ Apart(E)
    BY <2>1, <2>5, <2>6, <2>7 DEF Counts
  <2>11. Covers(s, after, table, E)
    <3>1. \A k, r : <<k, r>> \notin CopiedIn(E)
      BY <2>5
    <3> QED  BY <2>8, <3>1 DEF Covers
  <2>12. after.phase > Kinds /\ EndsWith(E, after)
    <3>1. e \in E
      BY <2>4
    <3> QED  BY <1>1, <2>1, <2>2, <2>9, <3>1 DEF Done, EndsWith
  <2> QED  BY <2>3, <2>10, <2>11, <2>12 DEF PageHolds, E, page
<1>2. CASE ~Done(s)
  <2> DEFINE rows == PageRows(s, table)
             shown == rows \ Hidden
             after == After(s, rows, shown)
             size == IF shown = {} THEN 0 ELSE 1 + Chunks(shown)
             f == [i \in 1 .. size |->
                     IF i = 1 THEN Progress(j, after, 0, FALSE)
                     ELSE Items(j, after, i - 1, s.phase, table, Chunk(shown, i - 1))]
  <2>1. rows \in SUBSET Row /\ shown \in SUBSET rows /\ shown \in SUBSET Row
    BY DEF PageRows, Stored
  <2>2. page.events = f /\ page.after = after /\ page.complete = FALSE
    BY <1>2 DEF Plan
  <2>3. shown = rows \ Hidden
    OBVIOUS
  <2>4. rows = PageRows(s, table)
    OBVIOUS
  <2> HIDE DEF page, rows, shown
  <2>5. /\ after.phase = IF LastPage(s, rows) THEN s.phase + 1 ELSE s.phase
        /\ after.cursor = IF LastPage(s, rows) THEN 0 ELSE NextCursor(s, rows)
        /\ after.max = s.max /\ after.chunks = s.chunks + Chunks(shown)
        /\ after.count = s.count + Cardinality(shown)
    BY <1>2, <2>1, AfterIs
  <2> HIDE DEF after
  <2>6. /\ s.phase \in Kind /\ rows \in SUBSET Stored(table, s.phase)
        /\ \A k \in Kind, r \in Row : Passed(s, k, r) => Passed(after, k, r)
        /\ \A r \in rows : ~Passed(s, s.phase, r) /\ Passed(after, s.phase, r)
        /\ \A k \in Kind : \A r \in Stored(table, k) :
              r <= s.max[k] /\ Passed(after, k, r) /\ ~Passed(s, k, r) => k = s.phase /\ r \in rows
    BY <1>2, <2>4, <2>5, PageEnds
  <2>7. size \in Nat /\ s.phase \in Nat \ {0} /\ size = IF shown = {} THEN 0 ELSE 1 + Chunks(shown)
    <3>1. Chunks(shown) \in Nat
      BY <2>1, ChunksAre
    <3> QED  BY <2>6, <3>1 DEF Kind
  <2> HIDE DEF size
  <2>8. \A i \in 1 .. size : f[i].part = i - 1 /\ f[i].last = FALSE
    BY <2>7 DEF Progress, Items
  <2>9. \A i \in 1 .. size : i = 1 => f[i].kind = 0 /\ Firsts(f[i]) = {}
    BY <2>7 DEF Progress, Firsts
  <2>10. ASSUME NEW i \in 1 .. size, i # 1
         PROVE  f[i].kind = s.phase /\ Firsts(f[i]) = Chunk(shown, i - 1)
    <3>1. f[i].kind = s.phase
          /\ f[i].items = {<<r, table[s.phase][r]>> : r \in Chunk(shown, i - 1)}
      BY <2>10 DEF Items
    <3> DEFINE e == f[i]
               C == Chunk(shown, i - 1)
               t == table[s.phase]
    <3>2. ItemsFrom(e, C, t)
      BY <3>1 DEF ItemsFrom
    <3> HIDE DEF e, C, t
    <3>3. Firsts(e) = C
      BY <3>2, FirstsAre
    <3> QED  BY <3>1, <3>3 DEF e, C
  <2>11. E = {f[i] : i \in 1 .. size}
    <3>1. DOMAIN f = 1 .. size
      OBVIOUS
    <3> HIDE DEF f
    <3> QED  BY <2>2, <3>1 DEF EventsOf
  <2> HIDE DEF f, E
  <2>12. /\ IsFiniteSet(E) /\ Cardinality(ChunksIn(E)) = Chunks(shown)
         /\ IsFiniteSet(CopiedIn(E)) /\ Cardinality(CopiedIn(E)) = Cardinality(shown)
         /\ Apart(E) /\ CopiedIn(E) = {<<s.phase, r>> : r \in shown}
    <3>1. \A i \in 1 .. size : f[i].part = i - 1
      BY <2>8
    <3>2. \A i \in 1 .. size : i # 1 => f[i].kind = s.phase /\ Firsts(f[i]) = Chunk(shown, i - 1)
      BY <2>10
    <3>3. Emits(E, f, size, s.phase, shown)
      BY <2>7, <2>9, <2>11, <3>1, <3>2 DEF Emits
    <3> QED  BY <2>1, <2>7, <3>3, Emitted
  <2>13. \A e \in E : ~e.last
    BY <2>8, <2>11
  <2>14. ASSUME NEW k, NEW r, <<k, r>> \in CopiedIn(E)
         PROVE  k \in Kind /\ r \in Row /\ ~Passed(s, k, r) /\ Passed(after, k, r)
    <3>1. k = s.phase /\ r \in shown
      BY <2>12, <2>14
    <3> QED  BY <2>1, <2>6, <3>1
  <2>15. ASSUME NEW k \in Kind, NEW r \in Stored(table, k) \ Hidden, r <= s.max[k],
                Passed(after, k, r), ~Passed(s, k, r)
         PROVE  <<k, r>> \in CopiedIn(E)
    <3>1. k = s.phase /\ r \in shown
      BY <2>3, <2>6, <2>15
    <3> QED  BY <2>12, <3>1
  <2>16. Counts(s, after, E)
    BY <2>5, <2>12 DEF Counts
  <2>17. Covers(s, after, table, E)
    BY <2>6, <2>14, <2>15 DEF Covers
  <2> QED  BY <2>2, <2>12, <2>13, <2>16, <2>17 DEF PageHolds, E, page
<1> QED  BY <1>1, <1>2

-----------------------------------------------------------------------------
(* The rows and the cycle, with what was sent *)

\* Rows that differ in nothing that matters to what was sent.
Alike(r, q) ==
  r.status = q.status /\ r.state = q.state /\ r.pending = q.pending /\ r.attempts = q.attempts

LEMMA AlikeContent ==
  ASSUME NEW j, NEW r, NEW q, Alike(r, q), NEW sent, NEW c
  PROVE  /\ RowContent(j, q, sent) => RowContent(j, r, sent)
         /\ CycleOf(c, q, sent) => CycleOf(c, r, sent)
<1>1. r.status = q.status /\ r.state = q.state /\ r.pending = q.pending /\ r.attempts = q.attempts
  BY DEF Alike
<1>2. \A i : Ahead(i, r, sent) = Ahead(i, q, sent)
  BY <1>1 DEF Ahead
<1>3. RowContent(j, q, sent) => RowContent(j, r, sent)
  BY <1>1, <1>2 DEF RowContent
<1>4. CycleOf(c, q, sent) => CycleOf(c, r, sent)
  BY <1>1, <1>2 DEF CycleOf
<1> QED  BY <1>3, <1>4

\* The invariant of the rows, of the cycle, and of what was sent, after a step.
Told == RowsContent' /\ CycleContent' /\ EventsTyped' /\ SameIdentitySameContent'

AllInv == RescanInv /\ ContentInv

LEMMA NothingSent ==
  ASSUME AllInv, enqueued' = enqueued
  PROVE  EventsTyped' /\ SameIdentitySameContent'
BY DEF AllInv, ContentInv, EventsTyped, SameIdentitySameContent

\* The cycle's row is written, or none.
LEMMA RowWritten ==
  ASSUME AllInv, enqueued' = enqueued, cycle.job \in Job, cycle'.job = cycle.job, NEW row,
         SetJob(row) \/ (UNCHANGED job /\ row = Mine),
         RowContent(cycle.job, row, enqueued), CycleOf(cycle', row, enqueued)
  PROVE  Told
<1>1. job'[cycle.job] = row /\ \A i \in Job : i # cycle.job => job'[i] = job[i]
  BY DEF SetJob, Mine, AllInv, RescanInv, JobsTyped
<1>2. RowsContent'
  BY <1>1 DEF RowsContent, AllInv, ContentInv
<1>3. CycleContent'
  BY <1>1 DEF CycleContent, Mine
<1> QED  BY <1>2, <1>3, NothingSent DEF Told

\* The row and the cycle of a step, to begin with.
LEMMA Had ==
  ASSUME AllInv, cycle.pc # "idle"
  PROVE  /\ cycle.job \in Job /\ IsCycle(cycle) /\ IsJob(Mine) /\ Mine.status # "none"
         /\ RowContent(cycle.job, Mine, enqueued) /\ CycleOf(cycle, Mine, enqueued)
         /\ Mine.leased => Mine.status = "running"
BY DEF AllInv, RescanInv, CycleTyped, JobsTyped, GoodJob, ContentInv, RowsContent, CycleContent, Mine

\* Outside the loop, only the number of the attempts matters, and only to a failure.
LEMMA Outside ==
  ASSUME NEW c, NEW row, NEW sent,
         c.pc \in {"idle", "claim", "release", "fail"},
         c.pc = "fail" /\ row.status = "running" => c.tries = row.attempts
  PROVE  CycleOf(c, row, sent)
<1>2. c.pc \notin Looping
  BY DEF Looping, Before, Emitting
<1> QED  BY <1>2 DEF CycleOf, Looping, Before, Emitting

LEMMA AlikeTold ==
  ASSUME AllInv, UNCHANGED <<cycle, enqueued>>, \A i \in Job : Alike(job'[i], job[i])
  PROVE  Told
<1>1. RowsContent'
  BY AlikeContent DEF AllInv, ContentInv, RowsContent
<1>2. CycleContent'
  <2>1. CASE cycle.pc = "idle"
    <3>1. \A c, r, sent : c.pc = "idle" => CycleOf(c, r, sent)
      BY Outside
    <3> QED  BY <2>1, <3>1 DEF CycleContent
  <2>2. CASE cycle.pc # "idle"
    <3>1. cycle.job \in Job /\ CycleOf(cycle, Mine, enqueued)
      BY <2>2, Had
    <3>2. Alike(job'[cycle.job], Mine)
      BY <3>1 DEF Mine
    <3>3. CycleOf(cycle, job'[cycle.job], enqueued)
      BY <3>1, <3>2, AlikeContent
    <3> QED  BY <3>3 DEF CycleContent, Mine
  <2> QED  BY <2>1, <2>2
<1> QED  BY <1>1, <1>2, NothingSent DEF Told

LEMMA StillTold ==
  ASSUME AllInv, UNCHANGED <<job, cycle, enqueued>>
  PROVE  Told
BY AlikeTold DEF Alike

\* The row of a cycle that ends is written.
LEMMA RowWrittenIdle ==
  ASSUME AllInv, enqueued' = enqueued, cycle.job \in Job, cycle'.pc = "idle", NEW row,
         SetJob(row), RowContent(cycle.job, row, enqueued)
  PROVE  Told
<1>1. job'[cycle.job] = row /\ \A i \in Job : i # cycle.job => job'[i] = job[i]
  BY DEF SetJob, Mine, AllInv, RescanInv, JobsTyped
<1>2. RowsContent'
  BY <1>1 DEF RowsContent, AllInv, ContentInv
<1>3. \A c, r, sent : c.pc = "idle" => CycleOf(c, r, sent)
  BY Outside
<1> QED  BY <1>2, <1>3, NothingSent DEF Told, CycleContent

LEMMA Ended ==
  ASSUME AllInv, enqueued' = enqueued, UNCHANGED job, cycle'.pc \in {"idle", "claim", "release"}
  PROVE  Told
<1>1. RowsContent'
  BY DEF AllInv, ContentInv, RowsContent
<1>2. \A c, row, sent : c.pc \in {"idle", "claim", "release"} => CycleOf(c, row, sent)
  BY Outside
<1> QED  BY <1>1, <1>2, NothingSent DEF Told, CycleContent

LEMMA Thrown ==
  ASSUME AllInv, cycle.pc # "idle", \E closed \in BOOLEAN : Throw(closed)
  PROVE  cycle'.pc = "fail" /\ cycle'.job = cycle.job /\ cycle'.tries = cycle.tries
<1>1. IsCycle(cycle)
  BY Had
<1>2. PICK e : cycle' = [cycle EXCEPT !.pc = "fail", !.error = e]
  BY DEF Throw
<1> QED  BY <1>1, <1>2 DEF IsCycle

LEMMA Gone ==
  ASSUME AllInv, cycle.pc # "idle", NEW pc, Go(pc)
  PROVE  /\ cycle'.pc = pc /\ cycle'.job = cycle.job /\ cycle'.tries = cycle.tries
         /\ cycle'.mine = cycle.mine /\ cycle'.page = cycle.page /\ cycle'.at = cycle.at
BY Had DEF Go, IsCycle

LEMMA ThrownOrLeft ==
  ASSUME AllInv, enqueued' = enqueued, UNCHANGED job, cycle.pc \in Looping,
         (\E closed \in BOOLEAN : Throw(closed)) \/ (\E later \in BOOLEAN : Leave(later))
  PROVE  Told
<1>0. cycle.pc # "idle"
  BY DEF Looping, Before, Emitting
<1>1. CASE \E closed \in BOOLEAN : Throw(closed)
  <2>1. Mine.status = "running" => cycle'.tries = Mine.attempts
    BY <1>0, <1>1, Had, Thrown DEF CycleOf
  <2> QED  BY <1>0, <1>1, <2>1, Had, Thrown, Outside, RowWritten
<1>2. CASE \E later \in BOOLEAN : Leave(later)
  <2>1. cycle'.pc = "release"
    BY <1>0, <1>2, Had, LeaveMoves
  <2> QED  BY <2>1, Ended
<1> QED  BY <1>1, <1>2

\* A step to another point of the loop with the same page.
LEMMA PageKept ==
  ASSUME NEW row, NEW sent, NEW c, NEW d, CycleOf(c, row, sent),
         d.job = c.job, d.tries = c.tries, d.mine = c.mine, d.page = c.page,
         \/ c.pc \in Before /\ d.pc \in Before
         \/ c.pc \in Emitting /\ d.pc \in Emitting /\ d.at \in DOMAIN d.page.events
         \/ c.pc \in Emitting /\ d.pc = "advance"
  PROVE  CycleOf(d, row, sent)
<1>1. CASE c.pc \in Before /\ d.pc \in Before
  <2>1. /\ d.pc \in Looping /\ c.pc \in Looping
        /\ d.pc \notin Emitting \union {"advance", "plan", "stage"}
    BY <1>1 DEF Before, Looping, Emitting
  <2> QED  BY <1>1, <2>1 DEF CycleOf
<1>2. CASE c.pc \in Emitting /\ d.pc \in Emitting \union {"advance"}
  <2>1. /\ d.pc \in Looping /\ c.pc \in Looping
        /\ d.pc \notin Before \union {"plan", "stage"}
    BY <1>2 DEF Before, Looping, Emitting
  <2>2. d.pc \in Emitting => d.at \in DOMAIN d.page.events
    BY DEF Before, Emitting
  <2> QED  BY <1>2, <2>1, <2>2 DEF CycleOf
<1> QED  BY <1>1, <1>2

-----------------------------------------------------------------------------
(* The steps of the cycle and what was sent *)

LEMMA NextJobTold == ASSUME AllInv, NextJob PROVE Told
<1> USE DEF NextJob
<1>1. cycle'.pc = "claim"
  BY DEF NoCycle
<1> QED  BY <1>1, Ended

LEMMA ClaimTold == ASSUME AllInv, Claim PROVE Told
<1> USE DEF Claim
<1>1. cycle.pc # "idle" /\ cycle.job \in Job /\ IsCycle(cycle) /\ IsJob(Mine)
      /\ RowContent(cycle.job, Mine, enqueued)
  BY Had
<1>2. CASE Eligible(cycle.job)
  <2> DEFINE row == [Mine EXCEPT !.status = "running", !.leased = TRUE, !.expired = FALSE]
  <2>1. /\ row.status = "running" /\ row.state = Mine.state /\ row.pending = Mine.pending
        /\ row.attempts = Mine.attempts
    BY <1>1 DEF IsJob
  <2>2. SetJob(row)
    BY <1>2
  <2>3. /\ cycle'.pc = "page" /\ cycle'.mine = Mine.state /\ cycle'.page = Mine.pending
        /\ cycle'.tries = Mine.attempts /\ cycle'.job = cycle.job
    BY <1>1, <1>2 DEF IsCycle
  <2>4. Mine.status \in {"queued", "running"}
    BY <1>2 DEF Eligible, Active, Mine
  <2> HIDE DEF row
  <2>5. Ahead(cycle.job, row, enqueued) = Ahead(cycle.job, Mine, enqueued)
    BY <2>1 DEF Ahead
  <2>6. RowContent(cycle.job, row, enqueued)
    BY <1>1, <2>1, <2>4, <2>5 DEF RowContent
  <2>7. CycleOf(cycle', row, enqueued)
    <3>1. cycle'.page # NoPage => IsPage(cycle.job, row.state, cycle'.page)
      BY <1>1, <2>1, <2>3 DEF RowContent
    <3>2. Ahead(cycle.job, row, enqueued) \subseteq EventsOf(cycle'.page)
      BY <1>1, <2>3, <2>4, <2>5 DEF RowContent
    <3> QED  BY <2>1, <2>3, <3>1, <3>2 DEF CycleOf, Looping, Before, Emitting
  <2> QED  BY <1>1, <2>2, <2>3, <2>6, <2>7, RowWritten
<1>3. CASE ~Eligible(cycle.job)
  <2>1. cycle'.pc = "idle"
    BY <1>3 DEF NoCycle
  <2> QED  BY <1>3, <2>1, Ended
<1> QED  BY <1>2, <1>3

LEMMA PageTold == ASSUME AllInv, Page \/ CanProduce PROVE Told
<1>1. cycle.pc \in {"page", "produce"} /\ cycle.pc \in Looping /\ UNCHANGED job /\ enqueued' = enqueued
  BY DEF Page, CanProduce, Looping, Before
<1>2. CASE \E pc \in {"produce", "renew"} : Go(pc)
  <2>1. PICK pc \in {"produce", "renew"} : Go(pc)
    BY <1>2
  <2>2. CycleOf(cycle', Mine, enqueued)
    BY <1>1, <2>1, Had, Gone, PageKept DEF Before
  <2> QED  BY <1>1, <2>1, <2>2, Had, Gone, RowWritten
<1>3. CASE (\E closed \in BOOLEAN : Throw(closed)) \/ (\E later \in BOOLEAN : Leave(later))
  BY <1>1, <1>3, ThrownOrLeft
<1> QED  BY <1>2, <1>3 DEF Page, CanProduce

LEMMA RenewTold ==
  ASSUME AllInv, NEW here, NEW next, <<here, next>> \in {<<"renew", "snapshot">>, <<"event", "check">>},
         Renew(here, next)
  PROVE  Told
<1> USE DEF Renew
<1>1. /\ cycle.pc # "idle" /\ cycle.pc = here /\ enqueued' = enqueued /\ cycle.pc \in Looping
  BY DEF Looping, Before, Emitting
<1>2. CASE Holding
  <2> DEFINE row == [Mine EXCEPT !.expired = FALSE]
  <2>1. Alike(row, Mine)
    BY <1>1, Had DEF IsJob, Alike
  <2>2. SetJob(row) /\ Go(next)
    BY <1>2
  <2> HIDE DEF row
  <2>3. RowContent(cycle.job, row, enqueued) /\ CycleOf(cycle, row, enqueued)
    BY <1>1, <2>1, Had, AlikeContent
  <2>4. next \in Emitting => cycle.at \in DOMAIN cycle.page.events
    BY <1>1, <2>3 DEF CycleOf, Emitting
  <2>5. CycleOf(cycle', row, enqueued)
    BY <1>1, <2>2, <2>3, <2>4, Gone, PageKept DEF Before, Emitting
  <2> QED  BY <1>1, <2>2, <2>3, <2>5, Had, Gone, RowWritten
<1>3. CASE ~Holding
  BY <1>1, <1>3, ThrownOrLeft
<1> QED  BY <1>2, <1>3

LEMMA FirstEvent ==
  ASSUME NEW j, NEW s, NEW page, IsPage(j, s, page), page.events # <<>>
  PROVE  1 \in DOMAIN page.events
BY DEF IsPage

LEMMA SnapshotTold == ASSUME AllInv, Snapshot PROVE Told
<1> USE DEF Snapshot
<1>1. /\ cycle.pc # "idle" /\ cycle.pc \in Looping /\ enqueued' = enqueued /\ UNCHANGED job
      /\ cycle.pc \in Before
  BY DEF Looping, Before
<1>2. CASE ~SameTransport
  BY <1>1, <1>2, ThrownOrLeft
<1>3. CASE SameTransport
  <2> DEFINE pc == IF Frozen THEN Emission ELSE "plan"
  <2>1. /\ cycle'.pc = pc /\ cycle'.at = 1 /\ cycle'.job = cycle.job /\ cycle'.tries = cycle.tries
        /\ cycle'.mine = cycle.mine /\ cycle'.page = cycle.page
    BY <1>1, <1>3, Had DEF IsCycle
  <2> HIDE DEF pc
  <2>2. CycleOf(cycle, Mine, enqueued)
    BY <1>1, Had
  <2>3. CASE Frozen
    <3>1. pc \in {"event", "advance"} /\ (pc = "event" => cycle.page.events # <<>>)
      BY <2>3 DEF pc, Emission
    <3>2. /\ IsPage(cycle.job, Mine.state, cycle.page)
          /\ Ahead(cycle.job, Mine, enqueued) \subseteq EventsOf(cycle.page)
      BY <1>1, <2>2, <2>3 DEF CycleOf, Frozen
    <3>3. pc = "event" => 1 \in DOMAIN cycle.page.events
      BY <3>1, <3>2, FirstEvent
    <3>4. pc \in Looping /\ pc \notin Before \union {"plan", "stage"}
      BY <3>1 DEF Looping, Before, Emitting
    <3>5. pc \in Emitting => pc = "event"
      BY <3>1 DEF Emitting
    <3>6. CycleOf(cycle', Mine, enqueued)
      BY <1>1, <2>1, <2>2, <3>2, <3>3, <3>4, <3>5 DEF CycleOf
    <3> QED  BY <1>1, <2>1, <3>6, Had, RowWritten
  <2>4. CASE ~Frozen
    <3>1. pc = "plan" /\ cycle.page = NoPage
      BY <2>4 DEF pc, Frozen
    <3>2. pc \in Looping /\ pc \notin Before \union Emitting \union {"advance", "stage"}
      BY <3>1 DEF Looping, Before, Emitting
    <3>3. CycleOf(cycle', Mine, enqueued)
      BY <1>1, <2>1, <2>2, <3>1, <3>2 DEF CycleOf
    <3> QED  BY <1>1, <2>1, <3>3, Had, RowWritten
  <2> QED  BY <2>3, <2>4
<1> QED  BY <1>2, <1>3

LEMMA PlanTold == ASSUME AllInv, PlanPage PROVE Told
<1> USE DEF PlanPage
<1>1. /\ cycle.pc # "idle" /\ cycle.pc \in Looping /\ enqueued' = enqueued /\ UNCHANGED job
  BY DEF Looping
<1>2. /\ cycle'.pc = "stage" /\ cycle'.at = cycle.at /\ cycle'.job = cycle.job
      /\ cycle'.tries = cycle.tries /\ cycle'.mine = cycle.mine
      /\ cycle'.page = Plan(cycle.job, cycle.mine, table)
  BY <1>1, Had DEF IsCycle
<1>3. CycleOf(cycle, Mine, enqueued) /\ RowContent(cycle.job, Mine, enqueued) /\ Mine.status # "none"
      /\ cycle.job \in Job
  BY <1>1, Had
<1>4. cycle.mine = Mine.state /\ Mine.state \in Position /\ Mine.state.phase # 0
  BY <1>1, <1>3 DEF CycleOf, RowContent
<1>5. IsPage(cycle.job, Mine.state, cycle'.page)
  BY <1>2, <1>3, <1>4, PlanIs
<1>6. cycle'.pc \in Looping /\ cycle'.pc \notin Before \union Emitting \union {"advance"}
  BY <1>2 DEF Looping, Before, Emitting
<1>7. CycleOf(cycle', Mine, enqueued)
  BY <1>1, <1>2, <1>3, <1>5, <1>6 DEF CycleOf
<1> QED  BY <1>1, <1>2, <1>3, <1>7, RowWritten

\* The rows that stage() and advance() write.
LEMMA StagedIs ==
  ASSUME AllInv, cycle.pc # "idle"
  PROVE  /\ Staged.status = Mine.status /\ Staged.state = Mine.state /\ Staged.pending = cycle.page
         /\ Staged.attempts = Mine.attempts
BY Had DEF Staged, IsJob

LEMMA AdvancedIs ==
  ASSUME AllInv, cycle.pc # "idle"
  PROVE  /\ Advanced.status = IF cycle.page.complete THEN "completed" ELSE Mine.status
         /\ Advanced.state = cycle.page.after /\ Advanced.pending = NoPage
         /\ Advanced.attempts = Mine.attempts
BY Had DEF Advanced, IsJob

LEMMA NothingAhead ==
  /\ EventsOf(NoPage) = {} /\ NoPage.after \in Position /\ NoState \in Position
  /\ \A j, s, page : IsPage(j, s, page) => page # NoPage
<1>1. NoState \in Position /\ NoState.phase = 0 /\ NoPage.after = NoState
  BY DEF NoState, NoPage, Position
<1>2. EventsOf(NoPage) = {}
  BY DEF EventsOf, NoPage
<1> QED  BY <1>1, <1>2 DEF IsPage

LEMMA StagedContent ==
  ASSUME AllInv, cycle.pc = "stage", Holding, Mine.pending = NoPage
  PROVE  /\ RowContent(cycle.job, Staged, enqueued) /\ Staged.status = "running"
         /\ Ahead(cycle.job, Staged, enqueued) \subseteq EventsOf(cycle.page)
         /\ IsPage(cycle.job, Staged.state, cycle.page)
<1>1. RowContent(cycle.job, Mine, enqueued) /\ CycleOf(cycle, Mine, enqueued)
  BY Had
<1>2. IsPage(cycle.job, Mine.state, cycle.page) /\ cycle.page.after \in Position
  BY <1>1 DEF CycleOf, IsPage
<1>3. Ahead(cycle.job, Mine, enqueued) = {}
  BY <1>1, NothingAhead DEF RowContent, Holding
<1>4. Ahead(cycle.job, Staged, enqueued) = {}
  BY <1>3, StagedIs DEF Ahead
<1> QED  BY <1>1, <1>2, <1>4, StagedIs DEF RowContent, Holding

LEMMA StageTold == ASSUME AllInv, Stage PROVE Told
<1> USE DEF Stage
<1>1. /\ cycle.pc # "idle" /\ cycle.pc \in Looping /\ enqueued' = enqueued
  BY DEF Looping
<1>2. CASE Holding /\ Mine.pending = NoPage
  <2>1. /\ RowContent(cycle.job, Staged, enqueued) /\ Staged.status = "running"
        /\ Ahead(cycle.job, Staged, enqueued) \subseteq EventsOf(cycle.page)
        /\ IsPage(cycle.job, Staged.state, cycle.page)
    BY <1>2, StagedContent
  <2>2. /\ Staged.state = Mine.state /\ Staged.pending = cycle.page /\ Staged.attempts = Mine.attempts
    BY <1>1, StagedIs
  <2>3. CycleOf(cycle, Mine, enqueued) /\ cycle.job \in Job
    BY <1>1, Had
  <2>4. SetJob(Staged)
    BY <1>2
  <2>5. CASE \E closed \in BOOLEAN : Throw(closed)
    <3>1. cycle'.tries = Staged.attempts
      BY <1>1, <1>2, <2>2, <2>3, <2>5, Thrown DEF CycleOf, Holding
    <3>2. CycleOf(cycle', Staged, enqueued)
      BY <1>1, <2>5, <3>1, Thrown, Outside
    <3> QED  BY <1>1, <2>1, <2>3, <2>4, <2>5, <3>2, Thrown, RowWritten
  <2>6. CASE Go(Emission)
    <3> DEFINE pc == Emission
    <3>1. pc \in {"event", "advance"} /\ (pc = "event" => cycle.page.events # <<>>)
      BY DEF Emission
    <3>2. pc = "event" => 1 \in DOMAIN cycle.page.events
      BY <2>1, <3>1, FirstEvent
    <3> HIDE DEF pc
    <3>3. /\ pc \in Looping /\ pc \notin Before \union {"plan", "stage"}
          /\ pc \in Emitting => pc = "event"
      BY <3>1 DEF Looping, Before, Emitting
    <3>4. /\ cycle'.pc = pc /\ cycle'.job = cycle.job /\ cycle'.tries = cycle.tries
          /\ cycle'.mine = cycle.mine /\ cycle'.page = cycle.page /\ cycle'.at = cycle.at
      BY <1>1, <2>6, Gone DEF pc
    <3>5. cycle.at = 1 /\ cycle.mine = Mine.state /\ cycle.tries = Mine.attempts
      BY <1>1, <1>2, <2>3 DEF CycleOf, Holding
    <3>6. CycleOf(cycle', Staged, enqueued)
      BY <2>1, <2>2, <3>2, <3>3, <3>4, <3>5 DEF CycleOf
    <3> QED  BY <1>1, <2>1, <2>3, <2>4, <3>4, <3>6, RowWritten
  <2> QED  BY <1>2, <2>5, <2>6
<1>3. CASE ~(Holding /\ Mine.pending = NoPage)
  BY <1>1, <1>3, ThrownOrLeft
<1> QED  BY <1>2, <1>3

LEMMA RenewForEventTold == ASSUME AllInv, RenewForEvent PROVE Told
<1>1. CASE stopped
  BY <1>1, ThrownOrLeft DEF RenewForEvent, Looping, Emitting
<1>2. CASE ~stopped
  BY <1>2, RenewTold DEF RenewForEvent
<1> QED  BY <1>1, <1>2

LEMMA CheckTold == ASSUME AllInv, CheckEvent PROVE Told
<1> USE DEF CheckEvent
<1>1. /\ cycle.pc # "idle" /\ cycle.pc \in Looping /\ cycle.pc \in Emitting
      /\ enqueued' = enqueued /\ UNCHANGED job
  BY DEF Looping, Emitting
<1>2. CASE Go("write")
  <2>1. CycleOf(cycle, Mine, enqueued)
    BY <1>1, Had
  <2>2. cycle.at \in DOMAIN cycle.page.events
    BY <1>1, <2>1 DEF CycleOf
  <2>3. CycleOf(cycle', Mine, enqueued)
    BY <1>1, <1>2, <2>1, <2>2, Gone, PageKept DEF Emitting
  <2> QED  BY <1>1, <1>2, <2>3, Had, Gone, RowWritten
<1>3. CASE (\E closed \in BOOLEAN : Throw(closed)) \/ (\E later \in BOOLEAN : Leave(later))
  BY <1>1, <1>3, ThrownOrLeft
<1> QED  BY <1>2, <1>3

\* An event of the page in hand is stored: one that was stored before has the same part.
LEMMA WriteTold == ASSUME AllInv, WriteEvent PROVE Told
<1> USE DEF WriteEvent
<1>1. /\ cycle.pc # "idle" /\ cycle.pc \in Looping /\ cycle.pc \in Emitting
      /\ UNCHANGED job /\ enqueued' = enqueued \union {Current} /\ Go("written")
  BY DEF Looping, Emitting
<1>2. /\ cycle.job \in Job /\ Mine.status # "none" /\ RowContent(cycle.job, Mine, enqueued)
      /\ CycleOf(cycle, Mine, enqueued)
  BY <1>1, Had
<1>3. /\ cycle.at \in DOMAIN cycle.page.events /\ IsPage(cycle.job, Mine.state, cycle.page)
      /\ Ahead(cycle.job, Mine, enqueued) \subseteq EventsOf(cycle.page)
      /\ Mine.status = "running" => cycle.page = Mine.pending
      /\ Mine.status \in {"running", "failed"} /\ cycle.mine = Mine.state
  BY <1>1, <1>2 DEF CycleOf
<1>4. /\ Current \in EventsOf(cycle.page) /\ Current.run = cycle.job
      /\ Current.sequence = Mine.state.sequence + 1 /\ Mine.state.sequence \in Nat
  BY <1>2, <1>3 DEF Current, EventsOf, IsPage, RowContent, Position
<1> HIDE DEF WriteEvent
<1>5. Ahead(cycle.job, Mine, enqueued') \subseteq EventsOf(cycle.page)
  BY <1>1, <1>3, <1>4 DEF Ahead
<1>6. RowsContent'
  <2>1. ASSUME NEW i \in Job PROVE RowContent(i, job[i], enqueued')
    <3>1. RowContent(i, job[i], enqueued)
      BY DEF AllInv, ContentInv, RowsContent
    <3>2. CASE i = cycle.job
      <4>1. job[i] = Mine
        BY <3>2 DEF Mine
      <4> QED  BY <1>3, <1>5, <3>1, <3>2, <4>1 DEF RowContent
    <3>3. CASE i # cycle.job
      <4>1. \A e \in enqueued' : e.run = i => e \in enqueued
        BY <1>1, <1>4, <3>3
      <4>2. Ahead(i, job[i], enqueued') \subseteq Ahead(i, job[i], enqueued)
        BY <4>1 DEF Ahead
      <4> QED  BY <3>1, <4>1, <4>2 DEF RowContent
    <3> QED  BY <3>2, <3>3
  <2> QED  BY <1>1, <2>1 DEF RowsContent
<1>7. CycleContent'
  <2>1. Mine' = Mine
    BY <1>1, Gone DEF Mine
  <2>2. /\ cycle'.pc \in Looping /\ cycle'.pc \in Emitting
        /\ cycle'.pc \notin Before \union {"plan", "stage"}
    BY <1>1, Gone DEF Looping, Emitting, Before
  <2>3. /\ cycle'.job = cycle.job /\ cycle'.tries = cycle.tries
        /\ cycle'.mine = cycle.mine /\ cycle'.page = cycle.page /\ cycle'.at = cycle.at
    BY <1>1, Gone
  <2>4. CycleOf(cycle', Mine, enqueued')
    BY <1>1, <1>2, <1>3, <1>5, <2>2, <2>3 DEF CycleOf
  <2> QED  BY <2>1, <2>4 DEF CycleContent
<1>8. EventsTyped'
  BY <1>1, <1>2, <1>4 DEF EventsTyped, AllInv, ContentInv
<1>9. SameIdentitySameContent'
  <2>1. ASSUME NEW e \in enqueued, Identity(e) = Identity(Current) PROVE e = Current
    <3>1. e.run = cycle.job /\ e.sequence = Mine.state.sequence + 1 /\ e.part = Current.part
      BY <1>4, <2>1 DEF Identity
    <3>2. e \in EventsOf(cycle.page)
      BY <1>3, <1>4, <3>1 DEF Ahead
    <3>3. PICK i \in DOMAIN cycle.page.events : e = cycle.page.events[i]
      BY <3>2 DEF EventsOf
    <3>4. /\ cycle.page.events[i].part = i - 1 /\ Current.part = cycle.at - 1
          /\ i \in Nat /\ cycle.at \in Nat
      BY <1>3, <3>3 DEF IsPage, Current
    <3>5. i = cycle.at
      BY <3>1, <3>3, <3>4
    <3> QED  BY <3>3, <3>5 DEF Current
  <2> QED  BY <1>1, <2>1 DEF SameIdentitySameContent, AllInv, ContentInv
<1> QED  BY <1>6, <1>7, <1>8, <1>9 DEF Told

LEMMA WrittenTold == ASSUME AllInv, EventWritten PROVE Told
<1> USE DEF EventWritten
<1>1. /\ cycle.pc # "idle" /\ cycle.pc \in Looping /\ cycle.pc \in Emitting
      /\ enqueued' = enqueued /\ UNCHANGED job
  BY DEF Looping, Emitting
<1>2. CASE ~SameTransport /\ Throw(FALSE)
  BY <1>1, <1>2, ThrownOrLeft
<1>3. CASE SameTransport
  <2> DEFINE pc == IF cycle.at < Len(cycle.page.events) THEN "event" ELSE "advance"
  <2>1. /\ cycle'.pc = pc /\ cycle'.at = cycle.at + 1 /\ cycle'.job = cycle.job
        /\ cycle'.tries = cycle.tries /\ cycle'.mine = cycle.mine /\ cycle'.page = cycle.page
    BY <1>1, <1>3, Had DEF IsCycle
  <2>2. CycleOf(cycle, Mine, enqueued)
    BY <1>1, Had
  <2>3. pc = "event" => cycle.at + 1 \in DOMAIN cycle.page.events
    <3>1. cycle.at \in DOMAIN cycle.page.events /\ IsPage(cycle.job, Mine.state, cycle.page)
      BY <1>1, <2>2 DEF CycleOf
    <3> QED  BY <3>1 DEF IsPage
  <2>4. pc \in {"event", "advance"}
    OBVIOUS
  <2> HIDE DEF pc
  <2>5. CycleOf(cycle', Mine, enqueued)
    BY <1>1, <2>1, <2>2, <2>3, <2>4, PageKept DEF Emitting
  <2> QED  BY <1>1, <2>1, <2>5, Had, RowWritten
<1> QED  BY <1>2, <1>3

\* The page is confirmed: nothing was sent beyond it.
LEMMA AdvancedContent ==
  ASSUME AllInv, cycle.pc = "advance", Holding
  PROVE  /\ RowContent(cycle.job, Advanced, enqueued)
         /\ Ahead(cycle.job, Advanced, enqueued) = {}
<1>0. cycle.pc # "idle" /\ cycle.pc \in Looping
  BY DEF Looping
<1>1. RowContent(cycle.job, Mine, enqueued) /\ CycleOf(cycle, Mine, enqueued)
  BY <1>0, Had
<1>2. /\ IsPage(cycle.job, Mine.state, cycle.page)
      /\ Ahead(cycle.job, Mine, enqueued) \subseteq EventsOf(cycle.page)
  BY <1>1 DEF CycleOf
<1>3. Mine.state.sequence \in Nat /\ cycle.page.after.sequence = Mine.state.sequence + 1
  BY <1>1, <1>2 DEF RowContent, IsPage, Position
<1>4. \A e \in EventsOf(cycle.page) : e.sequence = Mine.state.sequence + 1
  BY <1>2 DEF EventsOf, IsPage
<1>5. Ahead(cycle.job, Advanced, enqueued) = {}
  <2>1. ASSUME NEW e \in enqueued, e.run = cycle.job, e.sequence > Mine.state.sequence + 1 PROVE FALSE
    <3>1. e.sequence \in Nat
      BY DEF AllInv, ContentInv, EventsTyped
    <3>2. e \in Ahead(cycle.job, Mine, enqueued)
      BY <1>3, <2>1, <3>1 DEF Ahead
    <3> QED  BY <1>2, <1>3, <1>4, <2>1, <3>2
  <2> QED  BY <1>0, <1>3, <2>1, AdvancedIs DEF Ahead
<1>6. RowContent(cycle.job, Advanced, enqueued)
  BY <1>0, <1>1, <1>2, <1>5, AdvancedIs, NothingAhead DEF RowContent, IsPage, Holding
<1> QED  BY <1>5, <1>6

LEMMA AdvanceTold == ASSUME AllInv, Advance PROVE Told
<1> USE DEF Advance
<1>1. /\ cycle.pc # "idle" /\ cycle.pc \in Looping /\ enqueued' = enqueued
  BY DEF Looping
<1>2. CASE Holding
  <2>1. RowContent(cycle.job, Advanced, enqueued) /\ SetJob(Advanced)
        /\ Ahead(cycle.job, Advanced, enqueued) = {} /\ Mine.status = "running"
    BY <1>2, AdvancedContent DEF Holding
  <2>2. CASE cycle.page.complete
    <3>1. cycle'.pc = "release" /\ cycle'.job = cycle.job
      BY <1>1, <1>2, <2>2, Had, LeaveMoves
    <3>2. CycleOf(cycle', Advanced, enqueued)
      BY <3>1, Outside
    <3> QED  BY <1>1, <2>1, <3>1, <3>2, Had, RowWritten
  <2>3. CASE ~cycle.page.complete
    <3>1. /\ cycle'.pc = "page" /\ cycle'.mine = cycle.page.after /\ cycle'.page = NoPage
          /\ cycle'.tries = cycle.tries /\ cycle'.job = cycle.job
      BY <1>1, <1>2, <2>3, Had DEF IsCycle
    <3>2. cycle.tries = Mine.attempts
      BY <1>1, <2>1, Had DEF CycleOf
    <3>3. /\ Advanced.status = "running" /\ Advanced.state = cycle.page.after
          /\ Advanced.pending = NoPage /\ Advanced.attempts = Mine.attempts
      BY <1>1, <2>1, <2>3, AdvancedIs
    <3>4. CycleOf(cycle', Advanced, enqueued)
      BY <2>1, <3>1, <3>2, <3>3 DEF CycleOf, Looping, Before, Emitting
    <3> QED  BY <1>1, <2>1, <3>1, <3>4, Had, RowWritten
  <2> QED  BY <2>2, <2>3
<1>3. CASE ~Holding
  BY <1>1, <1>3, ThrownOrLeft
<1> QED  BY <1>2, <1>3

LEMMA FailTold == ASSUME AllInv, Fail PROVE Told
<1> USE DEF Fail
<1>1. /\ cycle.pc # "idle" /\ enqueued' = enqueued /\ IsCycle(cycle) /\ Leave(FALSE)
  BY DEF AllInv, RescanInv, CycleTyped
<1>2. cycle'.pc = "release" /\ cycle'.job = cycle.job
  BY <1>1, LeaveMoves
<1>3. CASE Holding
  <2> DEFINE row == [Mine EXCEPT !.status = IF Definitive THEN "failed" ELSE "queued",
                              !.attempts = @ + 1, !.due = FALSE, !.leased = FALSE,
                              !.expired = FALSE,
                              !.pending = IF Definitive THEN NoPage ELSE @]
  <2>1. /\ row.status = IF Definitive THEN "failed" ELSE "queued"
        /\ row.state = Mine.state /\ row.attempts = Mine.attempts + 1
        /\ row.pending = IF Definitive THEN NoPage ELSE Mine.pending
    BY <1>1, Had DEF IsJob
  <2>2. SetJob(row)
    BY <1>3
  <2> HIDE DEF row
  <2>3. /\ RowContent(cycle.job, Mine, enqueued) /\ Mine.status = "running"
        /\ cycle.tries = Mine.attempts /\ cycle.job \in Job
    BY <1>1, <1>3, Had DEF CycleOf, Holding
  <2>4. Ahead(cycle.job, row, enqueued) = Ahead(cycle.job, Mine, enqueued)
    BY <2>1 DEF Ahead
  <2>5. Mine.attempts \in Nat /\ Mine.attempts < MaxAttempts /\ MaxAttempts \in Nat
    BY <2>3, HistoryRescanAssumption DEF RowContent
  <2>6. RowContent(cycle.job, row, enqueued)
    <3>1. CASE Definitive
      BY <2>1, <2>3, <2>4, <2>5, <3>1, NothingAhead DEF RowContent
    <3>2. CASE ~Definitive
      <4>1. Mine.attempts + 1 < MaxAttempts
        BY <2>3, <2>5, <3>2 DEF Definitive
      <4> QED  BY <2>1, <2>3, <2>4, <2>5, <3>2, <4>1 DEF RowContent
    <3> QED  BY <3>1, <3>2
  <2>7. CycleOf(cycle', row, enqueued)
    BY <1>2, Outside
  <2> QED  BY <1>1, <1>2, <2>2, <2>3, <2>6, <2>7, RowWritten
<1>4. CASE ~Holding
  BY <1>1, <1>2, <1>4, Ended
<1> QED  BY <1>3, <1>4

LEMMA ReleaseTold == ASSUME AllInv, Release PROVE Told
<1> USE DEF Release
<1>1. /\ cycle.pc # "idle" /\ enqueued' = enqueued /\ cycle'.pc = "idle"
  BY DEF NoCycle
<1>2. CASE Releasable
  <2> DEFINE row == [Mine EXCEPT !.status = "queued", !.leased = FALSE, !.expired = FALSE,
                              !.due = ~cycle.later]
  <2>1. /\ row.status = "queued" /\ row.state = Mine.state /\ row.attempts = Mine.attempts
        /\ row.pending = Mine.pending
    BY <1>1, Had DEF IsJob
  <2>2. SetJob(row)
    BY <1>2
  <2> HIDE DEF row
  <2>3. /\ RowContent(cycle.job, Mine, enqueued) /\ Mine.status = "running" /\ cycle.job \in Job
    BY <1>1, <1>2, Had DEF Releasable, Holding
  <2>4. Ahead(cycle.job, row, enqueued) = Ahead(cycle.job, Mine, enqueued)
    BY <2>1 DEF Ahead
  <2>5. RowContent(cycle.job, row, enqueued)
    BY <2>1, <2>3, <2>4 DEF RowContent
  <2> QED  BY <1>1, <2>2, <2>3, <2>5, RowWrittenIdle
<1>3. CASE ~Releasable
  BY <1>1, <1>3, Ended
<1> QED  BY <1>2, <1>3

LEMMA FaultTold == ASSUME AllInv, CycleFault PROVE Told
<1>1. /\ cycle.pc # "idle" /\ enqueued' = enqueued
  BY DEF CycleFault
<1>2. IsCycle(cycle) /\ cycle.job \in Job /\ IsJob(Mine) /\ CycleOf(cycle, Mine, enqueued)
      /\ RowContent(cycle.job, Mine, enqueued)
  BY <1>1, Had
<1>3. CASE cycle.pc \in {"claim", "release", "fail"}
  <2>1. cycle'.pc \in {"idle", "release"}
    <3>1. cycle' = NoCycle \/ Leave(FALSE)
      BY <1>3 DEF CycleFault
    <3>2. NoCycle.pc = "idle"
      BY DEF NoCycle
    <3>3. Leave(FALSE) => cycle'.pc = "release"
      BY <1>2, LeaveMoves
    <3> QED  BY <3>1, <3>2, <3>3
  <2>2. CASE UNCHANGED job
    BY <1>1, <2>1, <2>2, Ended
  <2>3. CASE ~UNCHANGED job
    <3> DEFINE row == [Mine EXCEPT !.status = "running", !.expired = FALSE]
    <3>1. /\ Mine.status \in {"queued", "running"} /\ cycle.pc = "claim" /\ cycle' = NoCycle
          /\ SetJob(row)
      BY <1>3, <2>3 DEF CycleFault, Eligible, Active, Mine
    <3>2. /\ row.status = "running" /\ row.state = Mine.state /\ row.attempts = Mine.attempts
          /\ row.pending = Mine.pending
      BY <1>2 DEF IsJob
    <3> HIDE DEF row
    <3>3. Ahead(cycle.job, row, enqueued) = Ahead(cycle.job, Mine, enqueued)
      BY <3>2 DEF Ahead
    <3>4. RowContent(cycle.job, row, enqueued)
      BY <1>2, <3>1, <3>2, <3>3 DEF RowContent
    <3> QED  BY <1>1, <1>2, <3>1, <3>4, RowWrittenIdle DEF NoCycle
  <2> QED  BY <2>2, <2>3
<1>4. CASE cycle.pc \notin {"claim", "release", "fail"}
  <2>1. cycle.pc \in Looping /\ Throw(FALSE)
    BY <1>4 DEF CycleFault, Looping, Before, Emitting
  <2>2. CASE UNCHANGED job
    BY <1>1, <2>1, <2>2, ThrownOrLeft
  <2>3. CASE ~UNCHANGED job
    <3>1. /\ Holding
          /\ \/ cycle.pc = "stage" /\ SetJob(Staged)
             \/ cycle.pc = "advance" /\ SetJob(Advanced)
      BY <1>4, <2>3 DEF CycleFault
    <3>2. cycle'.pc = "fail" /\ cycle'.job = cycle.job /\ cycle'.tries = Mine.attempts
      BY <1>1, <1>2, <2>1, <3>1, Thrown DEF CycleOf, Holding
    <3>3. CASE cycle.pc = "stage" /\ SetJob(Staged)
      <4>1. RowContent(cycle.job, Staged, enqueued)
        <5>1. Mine.pending = NoPage
          BY <1>2, <3>1, <3>3 DEF CycleOf, Holding
        <5> QED  BY <3>1, <3>3, <5>1, StagedContent
      <4>2. CycleOf(cycle', Staged, enqueued)
        BY <1>1, <3>2, StagedIs, Outside
      <4> QED  BY <1>1, <1>2, <3>2, <3>3, <4>1, <4>2, RowWritten
    <3>4. CASE cycle.pc = "advance" /\ SetJob(Advanced)
      <4>1. RowContent(cycle.job, Advanced, enqueued)
        BY <3>1, <3>4, AdvancedContent
      <4>2. CycleOf(cycle', Advanced, enqueued)
        BY <1>1, <3>2, AdvancedIs, Outside
      <4> QED  BY <1>1, <1>2, <3>2, <3>4, <4>1, <4>2, RowWritten
    <3> QED  BY <3>1, <3>3, <3>4
  <2> QED  BY <2>2, <2>3
<1> QED  BY <1>3, <1>4

LEMMA CycleTold == ASSUME AllInv, CycleStep \/ CycleFault PROVE Told
BY NextJobTold, ClaimTold, PageTold, RenewTold, SnapshotTold, PlanTold, StageTold,
   RenewForEventTold, CheckTold, WriteTold, WrittenTold, AdvanceTold, FailTold, ReleaseTold,
   FaultTold DEF CycleStep

-----------------------------------------------------------------------------
(* The other steps and what was sent *)

\* A new job has sent nothing.
LEMMA BeginTold ==
  ASSUME AllInv, NEW c \in Client, Begin(c)
  PROVE  Told
<1>1. UNCHANGED <<cycle, enqueued>>
  BY DEF Begin
<1>2. CASE UNCHANGED job
  BY <1>1, <1>2, StillTold
<1>3. CASE ~UNCHANGED job
  <2>1. PICK j \in Job : job[j].status = "none" /\ job' = [job EXCEPT ![j] = NewJob(c)]
    BY <1>3 DEF Begin
  <2>2. job'[j] = NewJob(c) /\ \A i \in Job : i # j => job'[i] = job[i]
    BY <2>1 DEF AllInv, RescanInv, JobsTyped
  <2>3. /\ NewJob(c).status = "queued" /\ NewJob(c).state = FirstState(table)
        /\ NewJob(c).pending = NoPage /\ NewJob(c).attempts = 0
    BY DEF NewJob
  <2>4. Ahead(j, NewJob(c), enqueued) = {}
    BY <2>1 DEF Ahead, AllInv, ContentInv, RowsContent, RowContent
  <2>5. RowContent(j, NewJob(c), enqueued)
    BY <2>3, <2>4, FirstStateIs, NothingAhead, HistoryRescanAssumption DEF RowContent
  <2>6. RowsContent'
    BY <1>1, <2>2, <2>5 DEF RowsContent, AllInv, ContentInv
  <2>7. CycleContent'
    <3>1. CASE cycle.pc = "idle"
      <4>1. \A d, r, sent : d.pc = "idle" => CycleOf(d, r, sent)
        BY Outside
      <4> QED  BY <1>1, <3>1, <4>1 DEF CycleContent
    <3>2. CASE cycle.pc # "idle"
      <4>1. cycle.job \in Job /\ cycle.job # j
        BY <2>1, <3>2, Had DEF Mine
      <4> QED  BY <1>1, <2>2, <4>1 DEF CycleContent, Mine, AllInv, ContentInv
    <3> QED  BY <3>1, <3>2
  <2> QED  BY <1>1, <2>6, <2>7, NothingSent DEF Told
<1> QED  BY <1>2, <1>3

\* Time changes nothing that matters.
LEMMA TimeAlike ==
  ASSUME AllInv, NEW j \in Job, RetryDue(j) \/ LeaseExpires(j)
  PROVE  \A i \in Job : Alike(job'[i], job[i])
<1>1. IsJob(job[j]) /\ job = [i \in Job |-> job[i]]
  BY DEF AllInv, RescanInv, JobsTyped, GoodJob
<1>2. Alike([job[j] EXCEPT !.due = TRUE], job[j]) /\ Alike([job[j] EXCEPT !.expired = TRUE], job[j])
  BY <1>1 DEF Alike, IsJob
<1>3. \/ job' = [job EXCEPT ![j] = [job[j] EXCEPT !.due = TRUE]]
      \/ job' = [job EXCEPT ![j] = [job[j] EXCEPT !.expired = TRUE]]
  BY <1>1 DEF RetryDue, LeaseExpires
<1>4. job'[j] \in {[job[j] EXCEPT !.due = TRUE], [job[j] EXCEPT !.expired = TRUE]}
      /\ \A i \in Job : i # j => job'[i] = job[i]
  BY <1>1, <1>3
<1>5. \A r : Alike(r, r)
  BY DEF Alike
<1> QED  BY <1>2, <1>4, <1>5

LEMMA TimeTold ==
  ASSUME AllInv, NEW j \in Job, RetryDue(j) \/ LeaseExpires(j)
  PROVE  Told
BY TimeAlike, AlikeTold DEF RetryDue, LeaseExpires

\* The state of a cancelled job stays, its page goes.
LEMMA CancelledContent ==
  ASSUME NEW j, NEW r, NEW q, NEW c, NEW sent, RowContent(j, q, sent), CycleOf(c, q, sent),
         q.status # "none",
         r.status = "failed", r.state = q.state, r.attempts = q.attempts, r.pending = NoPage
  PROVE  RowContent(j, r, sent) /\ CycleOf(c, r, sent)
<1>1. \A i : Ahead(i, r, sent) = Ahead(i, q, sent)
  BY DEF Ahead
<1>2. RowContent(j, r, sent)
  BY <1>1, NothingAhead DEF RowContent
<1>3. CycleOf(c, r, sent)
  BY <1>1 DEF CycleOf
<1> QED  BY <1>2, <1>3

LEMMA CancelTold ==
  ASSUME AllInv, NEW c \in cancels, CancelInstance(c)
  PROVE  Told
<1>1. UNCHANGED <<cycle, enqueued>>
  BY DEF CancelInstance
<1>2. CASE UNCHANGED job
  BY <1>1, <1>2, StillTold
<1>3. CASE ~UNCHANGED job
  <2> DEFINE row(j) == [job[j] EXCEPT !.status = "failed", !.leased = FALSE, !.expired = FALSE,
                                      !.pending = NoPage]
  <2>1. job' = [j \in Job |-> IF j \in CreatedBefore(c) THEN row(j) ELSE job[j]]
    BY <1>3 DEF CancelInstance
  <2>2. ASSUME NEW j \in CreatedBefore(c)
        PROVE  /\ row(j).status = "failed" /\ row(j).state = job[j].state
               /\ row(j).attempts = job[j].attempts /\ row(j).pending = NoPage
               /\ j \in Job /\ job[j].status # "none"
    <3>1. j \in Job /\ job[j].status # "none" /\ IsJob(job[j])
      BY <2>2 DEF CreatedBefore, Active, AllInv, RescanInv, JobsTyped, GoodJob
    <3> QED  BY <3>1 DEF IsJob
  <2> HIDE DEF row
  <2>3. ASSUME NEW j \in Job PROVE RowContent(j, job'[j], enqueued)
    <3>1. RowContent(j, job[j], enqueued)
      BY DEF AllInv, ContentInv, RowsContent
    <3>2. CASE j \in CreatedBefore(c)
      <4>1. job'[j] = row(j)
        BY <2>1, <3>2
      <4>2. \A i : Ahead(i, row(j), enqueued) = Ahead(i, job[j], enqueued)
        BY <2>2, <3>2 DEF Ahead
      <4> QED  BY <2>2, <3>1, <3>2, <4>1, <4>2, NothingAhead DEF RowContent
    <3>3. CASE j \notin CreatedBefore(c)
      BY <2>1, <3>1, <3>3
    <3> QED  BY <3>2, <3>3
  <2>4. RowsContent'
    BY <1>1, <2>3 DEF RowsContent
  <2>5. CycleContent'
    <3>1. CASE cycle.pc = "idle"
      <4>1. \A d, r, sent : d.pc = "idle" => CycleOf(d, r, sent)
        BY Outside
      <4> QED  BY <1>1, <3>1, <4>1 DEF CycleContent
    <3>2. CASE cycle.pc # "idle"
      <4>1. /\ cycle.job \in Job /\ RowContent(cycle.job, Mine, enqueued)
            /\ CycleOf(cycle, Mine, enqueued)
        BY <3>2, Had
      <4>2. CASE cycle.job \in CreatedBefore(c)
        <5>1. CycleOf(cycle, row(cycle.job), enqueued)
          BY <2>2, <4>1, <4>2, CancelledContent DEF Mine
        <5> QED  BY <1>1, <2>1, <4>1, <4>2, <5>1 DEF CycleContent, Mine
      <4>3. CASE cycle.job \notin CreatedBefore(c)
        BY <1>1, <2>1, <4>1, <4>3 DEF CycleContent, Mine
      <4> QED  BY <4>2, <4>3
    <3> QED  BY <3>1, <3>2
  <2> QED  BY <1>1, <2>4, <2>5, NothingSent DEF Told
<1> QED  BY <1>2, <1>3

\* Nor does the end of the process, but for the cycle.
LEMMA CrashAlike ==
  ASSUME AllInv, Crash
  PROVE  \A i \in Job : Alike(job'[i], job[i])
<1>1. ASSUME NEW i \in Job PROVE Alike(job'[i], job[i])
  <2>1. IsJob(job[i])
    BY DEF AllInv, RescanInv, JobsTyped, GoodJob
  <2>2. job'[i] = [job[i] EXCEPT !.leased = FALSE]
    BY DEF Crash
  <2> QED  BY <2>1, <2>2 DEF IsJob, Alike
<1> QED  BY <1>1

LEMMA CrashTold == ASSUME AllInv, Crash PROVE Told
<1>1. enqueued' = enqueued /\ cycle'.pc = "idle"
  BY DEF Crash, NoCycle
<1>2. RowsContent'
  BY <1>1, CrashAlike, AlikeContent DEF AllInv, ContentInv, RowsContent
<1>3. \A d, r, sent : d.pc = "idle" => CycleOf(d, r, sent)
  BY Outside
<1> QED  BY <1>1, <1>2, <1>3, NothingSent DEF Told, CycleContent

LEMMA RestTold ==
  ASSUME AllInv,
         \/ \E c \in Client : FindByKey(c) \/ FindActive(c) \/ CheckPending(c)
         \/ \E c \in Client, key \in Key : Ask(c, key)
         \/ CloseConnection \/ Reconnect \/ PauseChanges \/ RowChanges \/ Stop \/ UNCHANGED vars
  PROVE  Told
<1>1. UNCHANGED <<job, cycle, enqueued>>
  BY DEF FindByKey, FindActive, CheckPending, Ask, CloseConnection, Reconnect, PauseChanges,
         RowChanges, Stop, vars
<1> QED  BY <1>1, StillTold

LEMMA StepTold == ASSUME AllInv, [Next]_vars PROVE Told
BY CycleTold, BeginTold, TimeTold, CancelTold, CrashTold, RestTold DEF Next, RequestStep

-----------------------------------------------------------------------------
(* The rest of the types *)

RequestType == [pc : {"idle", "key", "active", "pending", "begin"}, key : Key \union {0}, conn : Nat]

LEMMA RequestsStay ==
  ASSUME AllInv, NEW c \in Client,
         \/ request' = [request EXCEPT ![c] = NoRequest]
         \/ \E pc \in {"active", "pending"} : request' = [request EXCEPT ![c].pc = pc]
         \/ request' = [request EXCEPT ![c].pc = "begin", ![c].conn = conn]
         \/ \E key \in Key : request' = [request EXCEPT ![c] = [pc |-> "key", key |-> key, conn |-> 0]]
  PROVE  request' \in [Client -> RequestType]
<1>1. request \in [Client -> RequestType] /\ conn \in Nat
  BY DEF AllInv, ContentInv, OthersTyped, RescanInv, ClosedOnes, RequestType
<1>2. CASE request' = [request EXCEPT ![c] = NoRequest]
  <2>1. NoRequest \in RequestType
    BY DEF NoRequest, RequestType
  <2> QED  BY <1>1, <1>2, <2>1
<1>3. CASE \E pc \in {"active", "pending"} : request' = [request EXCEPT ![c].pc = pc]
  BY <1>1, <1>3 DEF RequestType
<1>4. CASE request' = [request EXCEPT ![c].pc = "begin", ![c].conn = conn]
  <2>1. request[c] \in RequestType
    BY <1>1
  <2>2. [request[c] EXCEPT !.pc = "begin", !.conn = conn] \in RequestType
    BY <1>1, <2>1 DEF RequestType
  <2>3. request' = [request EXCEPT ![c] = [request[c] EXCEPT !.pc = "begin", !.conn = conn]]
    BY <1>4
  <2> QED  BY <1>1, <2>2, <2>3
<1>5. CASE \E key \in Key : request' = [request EXCEPT ![c] = [pc |-> "key", key |-> key, conn |-> 0]]
  BY <1>1, <1>5 DEF RequestType
<1> QED  BY <1>2, <1>3, <1>4, <1>5

LEMMA OthersStay == ASSUME AllInv, [Next]_vars PROVE OthersTyped'
<1>0. /\ request \in [Client -> RequestType] /\ cancels \subseteq Nat \ {0} /\ conn # 0 /\ conn \in Nat
      /\ natural \in BOOLEAN /\ backlog \in BOOLEAN /\ stopped \in BOOLEAN
  BY DEF AllInv, ContentInv, OthersTyped, RescanInv, ClosedOnes, RequestType
<1>1. ASSUME request' \in [Client -> RequestType], UNCHANGED <<conn, cancels, natural, backlog, stopped>>
      PROVE  OthersTyped'
  BY <1>0, <1>1 DEF OthersTyped, RequestType
<1>2. CASE CycleStep \/ CycleFault \/ UNCHANGED vars \/ \E j \in Job : RetryDue(j) \/ LeaseExpires(j)
  <2>1. UNCHANGED <<request, world, link, stopped>>
    BY <1>2 DEF CycleStep, CycleFault, NextJob, Claim, Page, CanProduce, Renew, Snapshot, PlanPage,
         Stage, RenewForEvent, CheckEvent, WriteEvent, EventWritten, Advance, Fail, Release,
         RetryDue, LeaseExpires, vars
  <2> QED  BY <1>0, <1>1, <2>1 DEF world, link
<1>3. ASSUME NEW c \in Client, RequestStep(c) \/ \E key \in Key : Ask(c, key) PROVE OthersTyped'
  <2>1. UNCHANGED <<world, link, stopped>>
    BY <1>3 DEF RequestStep, FindByKey, FindActive, CheckPending, Begin, Ask
  <2>2. request' \in [Client -> RequestType]
    <3>1. CASE RequestStep(c)
      BY <3>1, RequestsStay
         DEF RequestStep, FindByKey, FindActive, CheckPending, Begin, Answer, Refuse, GoOn
    <3>2. CASE \E key \in Key : Ask(c, key)
      BY <3>2, RequestsStay DEF Ask
    <3> QED  BY <1>3, <3>1, <3>2
  <2> QED  BY <1>1, <2>1, <2>2 DEF world, link
<1>4. CASE CloseConnection
  BY <1>0, <1>4 DEF CloseConnection, OthersTyped, RequestType
<1>5. CASE Reconnect
  BY <1>0, <1>5 DEF Reconnect, OthersTyped, RequestType, world
<1>6. CASE \E c \in cancels : CancelInstance(c)
  BY <1>0, <1>6 DEF CancelInstance, OthersTyped, RequestType, world
<1>7. CASE PauseChanges \/ RowChanges \/ Stop
  BY <1>0, <1>7 DEF PauseChanges, RowChanges, Stop, OthersTyped, RequestType, world, link
<1>8. CASE Crash
  BY <1>0, <1>8 DEF Crash, OthersTyped, RequestType, NoRequest
<1> QED  BY <1>2, <1>3, <1>4, <1>5, <1>6, <1>7, <1>8 DEF Next

LEMMA ContentInit == Init => ContentInv
<1> SUFFICES ASSUME Init PROVE ContentInv
  OBVIOUS
<1> USE DEF Init
<1>1. RowsContent
  <2>1. RowContent(0, NoJob, {}) /\ \A j : RowContent(j, NoJob, {})
    BY NothingAhead, HistoryRescanAssumption DEF RowContent, NoJob
  <2> QED  BY <2>1 DEF RowsContent
<1>2. CycleContent
  BY Outside DEF CycleContent, NoCycle
<1>3. OthersTyped
  <2>1. NoRequest \in RequestType
    BY DEF NoRequest, RequestType
  <2>2. request \in [Client -> RequestType]
    BY <2>1
  <2>3. cancels \subseteq Nat \ {0} /\ conn # 0
    OBVIOUS
  <2>4. natural \in BOOLEAN /\ backlog \in BOOLEAN /\ stopped \in BOOLEAN
    OBVIOUS
  <2> QED  BY <2>2, <2>3, <2>4 DEF OthersTyped, RequestType
<1>4. EventsTyped /\ SameIdentitySameContent
  BY DEF EventsTyped, SameIdentitySameContent
<1> QED  BY <1>1, <1>2, <1>3, <1>4 DEF ContentInv

LEMMA ContentHolds == Spec => []AllInv
<1>1. AllInv /\ [Next]_vars => AllInv'
  BY StepRight, StepTold, OthersStay DEF AllInv, ContentInv, Right, Told
<1>2. Init => AllInv
  BY RescanInit, ContentInit DEF AllInv
<1> QED  BY <1>1, <1>2, PTL DEF Spec

-----------------------------------------------------------------------------
(* What was sent of a job, exactly *)

\* The events of the pages that job j has confirmed.
Sure(j, s, sent) == {e \in sent : e.run = j /\ e.sequence <= s.sequence}

\* The events E are exactly what state s says was sent: every row passed that is still there,
\* once, and the numbers of chunks and rows.
Exact(s, tab, E) ==
  /\ IsFiniteSet(E) /\ IsFiniteSet(CopiedIn(E)) /\ Apart(E)
  /\ s.chunks = Cardinality(ChunksIn(E)) /\ s.count = Cardinality(CopiedIn(E))
  /\ \A k, r : <<k, r>> \in CopiedIn(E) => k \in Kind /\ r \in Row /\ Passed(s, k, r)
  /\ \A k \in Kind : \A r \in Stored(tab, k) \ Hidden :
       r <= s.max[k] /\ Passed(s, k, r) => <<k, r>> \in CopiedIn(E)

RowExact(j, row, tab, sent) ==
  /\ row.status \in {"queued", "running", "completed"} => Exact(row.state, tab, Sure(j, row.state, sent))
  /\ row.status \in {"queued", "running"} => \A e \in Sure(j, row.state, sent) : ~e.last
  /\ row.status = "completed" => /\ Ahead(j, row, sent) = {} /\ row.state.phase > Kinds
                                 /\ EndsWith(Sure(j, row.state, sent), row.state)
  /\ row.pending # NoPage => PageHolds(row.state, tab, row.pending)

\* The events before the cursor of the cycle are sent.
CycleSent(c, sent) ==
  /\ c.pc \in Emitting => \A i \in DOMAIN c.page.events :
       i < c.at \/ (i = c.at /\ c.pc = "written") => c.page.events[i] \in sent
  /\ c.pc = "advance" => EventsOf(c.page) \subseteq sent

CycleExact(c, row, tab, sent) ==
  CycleSent(c, sent) /\ (c.pc = "stage" => PageHolds(row.state, tab, c.page))

TableTyped == table \in [Kind -> [Row -> Nat]]

ExactInv ==
  /\ TableTyped
  /\ \A j \in Job : RowExact(j, job[j], table, enqueued)
  /\ CycleExact(cycle, Mine, table, enqueued)

\* The rows and chunks of two sets of events.
LEMMA SplitCopied ==
  ASSUME NEW E, NEW P
  PROVE  /\ CopiedIn(E \union P) = CopiedIn(E) \union CopiedIn(P)
         /\ ChunksIn(E \union P) = ChunksIn(E) \union ChunksIn(P)
<1>1. CopiedIn(E \union P) = CopiedIn(E) \union CopiedIn(P)
  BY DEF CopiedIn
<1>2. ChunksIn(E \union P) = ChunksIn(E) \union ChunksIn(P)
  BY DEF ChunksIn
<1> QED  BY <1>1, <1>2

\* Two sets apart are counted one after the other.
LEMMA Sum ==
  ASSUME NEW S, IsFiniteSet(S), NEW T, IsFiniteSet(T), S \intersect T = {}
  PROVE  /\ IsFiniteSet(S \union T)
         /\ Cardinality(S \union T) = Cardinality(S) + Cardinality(T)
<1>1. /\ IsFiniteSet(S \union T)
      /\ Cardinality(S \union T) = Cardinality(S) + Cardinality(T) - Cardinality({})
  BY FS_Union
<1>2. Cardinality(S) \in Nat /\ Cardinality(T) \in Nat /\ Cardinality({}) = 0
  BY FS_CardinalityType, FS_EmptySet
<1> QED  BY <1>1, <1>2

\* A confirmed page is counted with the pages before it.
LEMMA Grows ==
  ASSUME NEW s \in Position, NEW tab, NEW E, NEW page, NEW P, Exact(s, tab, E),
         PageHolds(s, tab, page), P = EventsOf(page), E \intersect P = {}
  PROVE  Exact(page.after, tab, E \union P)
<1> DEFINE after == page.after
<1>1. /\ IsFiniteSet(E) /\ IsFiniteSet(CopiedIn(E)) /\ Apart(E)
      /\ s.chunks = Cardinality(ChunksIn(E)) /\ s.count = Cardinality(CopiedIn(E))
  BY DEF Exact
<1>2. \A k, r : <<k, r>> \in CopiedIn(E) => k \in Kind /\ r \in Row /\ Passed(s, k, r)
  BY DEF Exact
<1>3. \A k \in Kind : \A r \in Stored(tab, k) \ Hidden :
        r <= s.max[k] /\ Passed(s, k, r) => <<k, r>> \in CopiedIn(E)
  BY DEF Exact
<1>4. IsFiniteSet(P) /\ IsFiniteSet(CopiedIn(P)) /\ Apart(P)
  BY DEF PageHolds
<1>5. /\ after.max = s.max
      /\ after.chunks = s.chunks + Cardinality(ChunksIn(P))
      /\ after.count = s.count + Cardinality(CopiedIn(P))
  BY DEF PageHolds, Counts
<1>6. Covers(s, after, tab, P)
  BY DEF PageHolds
<1>7. /\ \A k \in Kind, r \in Row : Passed(s, k, r) => Passed(after, k, r)
      /\ \A k, r : <<k, r>> \in CopiedIn(P) =>
           k \in Kind /\ r \in Row /\ ~Passed(s, k, r) /\ Passed(after, k, r)
  BY <1>6 DEF Covers
<1>8. \A k \in Kind : \A r \in Stored(tab, k) \ Hidden :
        r <= s.max[k] /\ Passed(after, k, r) /\ ~Passed(s, k, r) => <<k, r>> \in CopiedIn(P)
  BY <1>6 DEF Covers
<1> HIDE DEF after
<1>0. /\ CopiedIn(E \union P) = CopiedIn(E) \union CopiedIn(P)
      /\ ChunksIn(E \union P) = ChunksIn(E) \union ChunksIn(P)
  BY SplitCopied
<1>9. CopiedIn(E) \intersect CopiedIn(P) = {}
  <2>1. ASSUME NEW x, x \in CopiedIn(E), x \in CopiedIn(P) PROVE FALSE
    <3>1. PICK e \in E : \E r \in Firsts(e) : x = <<e.kind, r>>
      BY <2>1, CopiedMembers
    <3>2. PICK r \in Firsts(e) : x = <<e.kind, r>>
      BY <3>1
    <3>3. Passed(s, e.kind, r)
      BY <1>2, <2>1, <3>2
    <3>4. ~Passed(s, e.kind, r)
      BY <1>7, <2>1, <3>2
    <3> QED  BY <3>3, <3>4
  <2> QED  BY <2>1
<1>10. /\ IsFiniteSet(CopiedIn(E \union P))
       /\ after.count = Cardinality(CopiedIn(E \union P))
  <2>1. /\ IsFiniteSet(CopiedIn(E) \union CopiedIn(P))
        /\ Cardinality(CopiedIn(E) \union CopiedIn(P))
             = Cardinality(CopiedIn(E)) + Cardinality(CopiedIn(P))
    BY <1>1, <1>4, <1>9, Sum
  <2> QED  BY <1>0, <1>1, <1>5, <2>1
<1>11. after.chunks = Cardinality(ChunksIn(E \union P))
  <2>1. ChunksIn(E) \in SUBSET E /\ ChunksIn(P) \in SUBSET P
    BY DEF ChunksIn
  <2>2. IsFiniteSet(ChunksIn(E)) /\ IsFiniteSet(ChunksIn(P)) /\ ChunksIn(E) \intersect ChunksIn(P) = {}
    BY <1>1, <1>4, <2>1, FS_Subset
  <2>3. Cardinality(ChunksIn(E) \union ChunksIn(P)) = Cardinality(ChunksIn(E)) + Cardinality(ChunksIn(P))
    BY <2>2, Sum
  <2> QED  BY <1>0, <1>1, <1>5, <2>3
<1>12. IsFiniteSet(E \union P)
  BY <1>1, <1>4, Sum
<1>13. Apart(E \union P)
  <2>1. ASSUME NEW e \in E, NEW f \in P, e.kind = f.kind PROVE Firsts(e) \intersect Firsts(f) = {}
    <3>1. ASSUME NEW r, r \in Firsts(e), r \in Firsts(f) PROVE FALSE
      <4>1. <<e.kind, r>> \in CopiedIn(E)
        BY <3>1, CopiedMembers
      <4>2. <<e.kind, r>> \in CopiedIn(P)
        BY <2>1, <3>1, CopiedMembers
      <4> QED  BY <1>9, <4>1, <4>2
    <3> QED  BY <3>1
  <2> QED  BY <1>1, <1>4, <2>1 DEF Apart
<1>14. ASSUME NEW k, NEW r, <<k, r>> \in CopiedIn(E \union P)
       PROVE  k \in Kind /\ r \in Row /\ Passed(after, k, r)
  <2>1. <<k, r>> \in CopiedIn(E) \/ <<k, r>> \in CopiedIn(P)
    BY <1>0, <1>14
  <2> QED  BY <1>2, <1>7, <2>1
<1>15. ASSUME NEW k \in Kind, NEW r \in Stored(tab, k) \ Hidden, r <= after.max[k],
              Passed(after, k, r)
       PROVE  <<k, r>> \in CopiedIn(E \union P)
  <2>1. <<k, r>> \in CopiedIn(E) \/ <<k, r>> \in CopiedIn(P)
    BY <1>3, <1>5, <1>8, <1>15
  <2> QED  BY <1>0, <2>1
<1> QED  BY <1>10, <1>11, <1>12, <1>13, <1>14, <1>15 DEF Exact, after

-----------------------------------------------------------------------------
(* The steps of the cycle and the exact content *)

FullInv == AllInv /\ ExactInv

\* What is to be shown of a step.
Shown == ExactInv'

\* Rows alike, with the same tables and events.
LEMMA AlikeExact ==
  ASSUME NEW j, NEW r, NEW q, Alike(r, q), NEW tab, NEW sent, RowExact(j, q, tab, sent)
  PROVE  RowExact(j, r, tab, sent)
<1>1. r.status = q.status /\ r.state = q.state /\ r.pending = q.pending
  BY DEF Alike
<1>2. Ahead(j, r, sent) = Ahead(j, q, sent)
  BY <1>1 DEF Ahead
<1> QED  BY <1>1, <1>2 DEF RowExact

\* Where a cycle neither has a page to stage nor sends one.
Free == {"idle", "claim", "release", "fail", "page", "produce", "renew", "snapshot", "plan"}

LEMMA FreeExact ==
  ASSUME NEW c, NEW row, NEW tab, NEW sent,
         c.pc \in Free
  PROVE  CycleExact(c, row, tab, sent)
BY DEF CycleExact, CycleSent, Emitting, Free

\* The cycle's row is written, or none.
LEMMA WriteExact ==
  ASSUME FullInv, UNCHANGED <<table, enqueued>>, cycle.job \in Job, cycle'.job = cycle.job, NEW row,
         SetJob(row) \/ (UNCHANGED job /\ row = Mine),
         RowExact(cycle.job, row, table, enqueued), CycleExact(cycle', row, table, enqueued)
  PROVE  Shown
<1>1. job'[cycle.job] = row /\ \A i \in Job : i # cycle.job => job'[i] = job[i]
  BY DEF SetJob, Mine, FullInv, AllInv, RescanInv, JobsTyped
<1>2. \A j \in Job : RowExact(j, job'[j], table', enqueued')
  BY <1>1 DEF FullInv, ExactInv
<1>3. CycleExact(cycle', Mine', table', enqueued')
  BY <1>1 DEF Mine
<1>4. TableTyped'
  BY DEF FullInv, ExactInv, TableTyped
<1> QED  BY <1>2, <1>3, <1>4 DEF Shown, ExactInv

\* The same where the cycle ends or begins.
LEMMA WriteExactFree ==
  ASSUME FullInv, UNCHANGED <<table, enqueued>>,
         cycle'.pc \in Free,
         \/ UNCHANGED job
         \/ cycle.job \in Job /\ \E row : SetJob(row) /\ RowExact(cycle.job, row, table, enqueued)
         \/ \A i \in Job : Alike(job'[i], job[i])
  PROVE  Shown
<1>1. \A j \in Job : RowExact(j, job'[j], table, enqueued)
  <2>0. \A j \in Job : RowExact(j, job[j], table, enqueued)
    BY DEF FullInv, ExactInv
  <2>1. CASE UNCHANGED job
    BY <2>0, <2>1
  <2>2. CASE cycle.job \in Job /\ \E row : SetJob(row) /\ RowExact(cycle.job, row, table, enqueued)
    <3>1. PICK row : SetJob(row) /\ RowExact(cycle.job, row, table, enqueued)
      BY <2>2
    <3>2. job'[cycle.job] = row /\ \A i \in Job : i # cycle.job => job'[i] = job[i]
      BY <2>2, <3>1 DEF SetJob, Mine, FullInv, AllInv, RescanInv, JobsTyped
    <3> QED  BY <2>0, <3>1, <3>2
  <2>3. CASE \A i \in Job : Alike(job'[i], job[i])
    BY <2>0, <2>3, AlikeExact
  <2> QED  BY <2>1, <2>2, <2>3
<1>2. \A c, row, tab, sent : c.pc \in Free
        => CycleExact(c, row, tab, sent)
  BY FreeExact DEF Free
<1>3. CycleExact(cycle', Mine', table', enqueued')
  BY <1>2
<1>4. TableTyped'
  BY DEF FullInv, ExactInv, TableTyped
<1> QED  BY <1>1, <1>3, <1>4 DEF Shown, ExactInv

\* What the row and the cycle had.
LEMMA HadExact ==
  ASSUME FullInv, cycle.pc # "idle"
  PROVE  /\ RowExact(cycle.job, Mine, table, enqueued) /\ CycleExact(cycle, Mine, table, enqueued)
         /\ cycle.job \in Job /\ IsCycle(cycle) /\ IsJob(Mine) /\ Mine.status # "none"
         /\ RowContent(cycle.job, Mine, enqueued) /\ CycleOf(cycle, Mine, enqueued)
<1>1. AllInv
  BY DEF FullInv
<1>2. cycle.job \in Job
  BY <1>1, Had
<1> QED  BY <1>1, <1>2, Had DEF FullInv, ExactInv, Mine

\* A row that goes on with the same state and page.
LEMMA GoesOn ==
  ASSUME NEW j, NEW r, NEW q, NEW tab, NEW sent, RowExact(j, q, tab, sent),
         q.status \in {"queued", "running"}, r.status \in {"queued", "running"},
         r.state = q.state, r.pending = q.pending
  PROVE  RowExact(j, r, tab, sent)
BY DEF RowExact

\* A row that failed.
LEMMA Failed ==
  ASSUME NEW j, NEW r, NEW tab, NEW sent, r.status = "failed", r.pending = NoPage
  PROVE  RowExact(j, r, tab, sent)
BY DEF RowExact

LEMMA LeftExact ==
  ASSUME FullInv, UNCHANGED <<table, enqueued, job>>, cycle.pc # "idle",
         \/ \E closed \in BOOLEAN : Throw(closed)
         \/ \E later \in BOOLEAN : Leave(later)
         \/ \E pc \in {"produce", "renew", "snapshot"} : Go(pc)
  PROVE  Shown
<1>1. cycle'.pc \in {"fail", "release", "produce", "renew", "snapshot"}
  BY HadExact, ThrowMoves, LeaveMoves, GoMoves
<1> QED  BY <1>1, WriteExactFree DEF Free

LEMMA NextJobExact == ASSUME FullInv, NextJob PROVE Shown
<1>1. cycle'.pc = "claim" /\ UNCHANGED <<table, enqueued, job>>
  BY DEF NextJob, NoCycle, world
<1> QED  BY <1>1, WriteExactFree DEF Free

LEMMA ClaimExact == ASSUME FullInv, Claim PROVE Shown
<1>0. UNCHANGED <<table, enqueued>> /\ cycle.pc # "idle"
  BY DEF Claim, world
<1>1. CASE Eligible(cycle.job)
  <2> DEFINE row == [Mine EXCEPT !.status = "running", !.leased = TRUE, !.expired = FALSE]
  <2>1. row.status = "running" /\ row.state = Mine.state /\ row.pending = Mine.pending
    BY <1>0, HadExact DEF IsJob
  <2>2. SetJob(row) /\ cycle'.pc = "page"
    BY <1>0, <1>1, HadExact DEF Claim, IsCycle
  <2>3. Mine.status \in {"queued", "running"}
    BY <1>1 DEF Eligible, Active, Mine
  <2> HIDE DEF row
  <2>4. RowExact(cycle.job, row, table, enqueued)
    BY <1>0, <2>1, <2>3, HadExact, GoesOn
  <2> QED  BY <1>0, <2>2, <2>4, HadExact, WriteExactFree DEF Free
<1>2. CASE ~Eligible(cycle.job)
  <2>1. cycle'.pc = "idle" /\ UNCHANGED job
    BY <1>2 DEF Claim, NoCycle
  <2> QED  BY <1>0, <2>1, WriteExactFree DEF Free
<1> QED  BY <1>1, <1>2

LEMMA PageExact == ASSUME FullInv, Page \/ CanProduce PROVE Shown
<1>1. UNCHANGED <<table, enqueued, job>> /\ cycle.pc # "idle"
  BY DEF Page, CanProduce, world
<1>2. \/ \E closed \in BOOLEAN : Throw(closed)
      \/ \E later \in BOOLEAN : Leave(later)
      \/ \E pc \in {"produce", "renew", "snapshot"} : Go(pc)
  BY DEF Page, CanProduce
<1> QED  BY <1>1, <1>2, LeftExact

\* A cycle that goes on with the same event of the same page.
LEMMA SameEvent ==
  ASSUME NEW c, NEW d, NEW row, NEW q, NEW tab, NEW sent, CycleExact(c, row, tab, sent),
         c.pc \in Emitting, d.pc \in {"event", "check", "write"}, d.page = c.page, d.at = c.at
  PROVE  CycleExact(d, q, tab, sent)
BY DEF CycleExact, CycleSent, Emitting

\* A cycle at the first event of a page, or at the end of one without events.
LEMMA Starts ==
  ASSUME NEW c, NEW j, NEW s, NEW row, NEW tab, NEW sent, IsPage(j, s, c.page),
         \/ c.pc = "event" /\ c.at = 1
         \/ c.pc = "advance" /\ c.page.events = <<>>
  PROVE  CycleExact(c, row, tab, sent)
<1>1. c.page.events \in Seq(EventsOf(c.page))
  BY DEF IsPage
<1>2. CASE c.pc = "event" /\ c.at = 1
  <2>1. \A i \in DOMAIN c.page.events : ~(i < 1)
    BY <1>1
  <2> QED  BY <1>2, <2>1 DEF CycleExact, CycleSent
<1>3. CASE c.pc = "advance" /\ c.page.events = <<>>
  <2>1. EventsOf(c.page) = {}
    BY <1>3 DEF EventsOf
  <2> QED  BY <1>3, <2>1 DEF CycleExact, CycleSent, Emitting
<1> QED  BY <1>2, <1>3

LEMMA RenewExact ==
  ASSUME FullInv, NEW here, NEW next, <<here, next>> \in {<<"renew", "snapshot">>, <<"event", "check">>},
         Renew(here, next)
  PROVE  Shown
<1>1. UNCHANGED <<table, enqueued>> /\ cycle.pc # "idle" /\ cycle.pc = here
  BY DEF Renew, world
<1>2. CASE Holding
  <2> DEFINE row == [Mine EXCEPT !.expired = FALSE]
  <2>1. Alike(row, Mine)
    BY <1>1, HadExact DEF IsJob, Alike
  <2>2. SetJob(row) /\ Go(next)
    BY <1>2 DEF Renew
  <2> HIDE DEF row
  <2>3. RowExact(cycle.job, row, table, enqueued)
    BY <1>1, <2>1, HadExact, AlikeExact
  <2>4. cycle'.pc = next /\ cycle'.job = cycle.job /\ cycle'.page = cycle.page /\ cycle'.at = cycle.at
    BY <1>1, <2>2, Gone DEF FullInv
  <2>5. CASE next = "snapshot"
    BY <1>1, <2>2, <2>3, <2>4, <2>5, HadExact, WriteExactFree DEF Free
  <2>6. CASE next = "check"
    <3>1. CycleExact(cycle', row, table, enqueued)
      BY <1>1, <2>4, <2>6, HadExact, SameEvent DEF Emitting
    <3> QED  BY <1>1, <2>2, <2>3, <2>4, <3>1, HadExact, WriteExact
  <2> QED  BY <2>5, <2>6
<1>3. CASE ~Holding
  BY <1>1, <1>3, LeftExact DEF Renew
<1> QED  BY <1>2, <1>3

LEMMA RenewForEventExact == ASSUME FullInv, RenewForEvent PROVE Shown
<1>1. CASE stopped
  BY <1>1, LeftExact DEF RenewForEvent, world
<1>2. CASE ~stopped
  BY <1>2, RenewExact DEF RenewForEvent
<1> QED  BY <1>1, <1>2

LEMMA SnapshotExact == ASSUME FullInv, Snapshot PROVE Shown
<1>1. UNCHANGED <<table, enqueued, job>> /\ cycle.pc # "idle" /\ cycle.pc \in Before
  BY DEF Snapshot, world, Before
<1>2. CASE ~SameTransport
  BY <1>1, <1>2, LeftExact DEF Snapshot
<1>3. CASE SameTransport
  <2>1. /\ cycle'.pc = IF Frozen THEN Emission ELSE "plan"
        /\ cycle'.at = 1 /\ cycle'.job = cycle.job /\ cycle'.page = cycle.page
    BY <1>1, <1>3, HadExact DEF IsCycle, Snapshot
  <2>2. CASE Frozen
    <3>1. IsPage(cycle.job, Mine.state, cycle'.page)
      BY <1>1, <2>1, <2>2, HadExact DEF CycleOf, Frozen
    <3>2. CycleExact(cycle', Mine, table, enqueued)
      BY <2>1, <2>2, <3>1, Starts DEF Emission
    <3> QED  BY <1>1, <2>1, <3>2, HadExact, WriteExact
  <2>3. CASE ~Frozen
    BY <1>1, <2>1, <2>3, WriteExactFree DEF Free
  <2> QED  BY <2>2, <2>3
<1> QED  BY <1>2, <1>3

LEMMA PlanExact == ASSUME FullInv, PlanPage PROVE Shown
<1>1. UNCHANGED <<table, enqueued, job>> /\ cycle.pc # "idle" /\ cycle.pc \in Looping
  BY DEF PlanPage, world, Looping
<1>2. /\ cycle'.pc = "stage" /\ cycle'.job = cycle.job
      /\ cycle'.page = Plan(cycle.job, cycle.mine, table)
  BY <1>1, HadExact DEF IsCycle, PlanPage
<1>3. cycle.mine = Mine.state /\ Mine.state \in Position /\ Mine.state.phase # 0 /\ cycle.job \in Job
  BY <1>1, HadExact DEF CycleOf, RowContent
<1>4. PageHolds(Mine.state, table, cycle'.page)
  BY <1>2, <1>3, PlanHolds
<1>5. CycleExact(cycle', Mine, table, enqueued)
  BY <1>2, <1>4 DEF CycleExact, CycleSent, Emitting
<1> QED  BY <1>1, <1>2, <1>5, HadExact, WriteExact

LEMMA StagedExact ==
  ASSUME FullInv, cycle.pc = "stage", Holding
  PROVE  RowExact(cycle.job, Staged, table, enqueued)
<1>1. Staged.status = "running" /\ Staged.state = Mine.state /\ Staged.pending = cycle.page
  BY StagedIs DEF FullInv, Holding
<1>2. RowExact(cycle.job, Mine, table, enqueued) /\ PageHolds(Mine.state, table, cycle.page)
  BY HadExact DEF CycleExact
<1> QED  BY <1>1, <1>2 DEF RowExact, Holding

LEMMA StageExact == ASSUME FullInv, Stage PROVE Shown
<1>1. UNCHANGED <<table, enqueued>> /\ cycle.pc = "stage" /\ cycle.pc # "idle"
  BY DEF Stage, world
<1>2. CASE Holding /\ Mine.pending = NoPage
  <2>1. RowExact(cycle.job, Staged, table, enqueued) /\ SetJob(Staged)
    BY <1>1, <1>2, StagedExact DEF Stage
  <2>2. CASE Throw(TRUE)
    <3>1. cycle'.pc = "fail"
      BY <1>1, <2>2, HadExact, ThrowMoves
    <3> QED  BY <1>1, <2>1, <3>1, HadExact, WriteExactFree DEF Free
  <2>3. CASE Go(Emission)
    <3>1. /\ cycle'.pc = Emission /\ cycle'.job = cycle.job
          /\ cycle'.page = cycle.page /\ cycle'.at = cycle.at
      BY <1>1, <2>3, Gone DEF FullInv
    <3>2. IsPage(cycle.job, Mine.state, cycle'.page) /\ cycle'.at = 1
      BY <1>1, <3>1, HadExact DEF CycleOf
    <3>3. CycleExact(cycle', Staged, table, enqueued)
      BY <3>1, <3>2, Starts DEF Emission
    <3> QED  BY <1>1, <2>1, <3>1, <3>3, HadExact, WriteExact
  <2> QED  BY <1>2, <2>2, <2>3 DEF Stage
<1>3. CASE ~(Holding /\ Mine.pending = NoPage)
  BY <1>1, <1>3, LeftExact DEF Stage
<1> QED  BY <1>2, <1>3

LEMMA CheckExact == ASSUME FullInv, CheckEvent PROVE Shown
<1>1. UNCHANGED <<table, enqueued, job>> /\ cycle.pc \in Emitting /\ cycle.pc # "idle"
  BY DEF CheckEvent, world, Emitting
<1>2. CASE Go("write")
  <2>1. cycle'.pc = "write" /\ cycle'.job = cycle.job /\ cycle'.page = cycle.page /\ cycle'.at = cycle.at
    BY <1>1, <1>2, Gone DEF FullInv
  <2>2. CycleExact(cycle', Mine, table, enqueued)
    BY <1>1, <2>1, HadExact, SameEvent
  <2> QED  BY <1>1, <2>1, <2>2, HadExact, WriteExact
<1>3. CASE (\E closed \in BOOLEAN : Throw(closed)) \/ (\E later \in BOOLEAN : Leave(later))
  BY <1>1, <1>3, LeftExact
<1> QED  BY <1>2, <1>3 DEF CheckEvent

\* The event that is stored is beyond every confirmed state.
LEMMA WriteEventExact == ASSUME FullInv, WriteEvent PROVE Shown
<1>1. /\ UNCHANGED <<table, job>> /\ enqueued' = enqueued \union {Current} /\ Go("written")
      /\ cycle.pc = "write" /\ cycle.pc # "idle" /\ cycle.pc \in Emitting /\ cycle.pc \in Looping
  BY DEF WriteEvent, world, Emitting, Looping
<1>2. /\ cycle.at \in DOMAIN cycle.page.events /\ IsPage(cycle.job, Mine.state, cycle.page)
      /\ Mine.status \in {"running", "failed"} /\ Mine.state \in Position
      /\ cycle.job \in Job
  BY <1>1, HadExact DEF CycleOf, RowContent
<1>3. /\ Current.run = cycle.job /\ Current.sequence = Mine.state.sequence + 1
      /\ Mine.state.sequence \in Nat /\ Current = cycle.page.events[cycle.at]
  BY <1>2 DEF Current, IsPage, Position
<1>4. \A j \in Job : Sure(j, job[j].state, enqueued') = Sure(j, job[j].state, enqueued)
  <2>1. ASSUME NEW j \in Job, Current.run = j PROVE ~(Current.sequence <= job[j].state.sequence)
    BY <1>3, <2>1 DEF Mine
  <2> QED  BY <1>1, <2>1 DEF Sure
<1>5. \A j \in Job : j # cycle.job => Ahead(j, job[j], enqueued') = Ahead(j, job[j], enqueued)
  BY <1>1, <1>3 DEF Ahead
<1>6. ASSUME NEW j \in Job PROVE RowExact(j, job'[j], table', enqueued')
  <2>1. RowExact(j, job[j], table, enqueued)
    BY DEF FullInv, ExactInv
  <2>2. CASE j = cycle.job
    <3>1. job[j].status # "completed"
      BY <1>2, <2>2 DEF Mine
    <3> QED  BY <1>1, <1>4, <2>1, <3>1 DEF RowExact
  <2>3. CASE j # cycle.job
    BY <1>1, <1>4, <1>5, <2>1, <2>3 DEF RowExact
  <2> QED  BY <2>2, <2>3
<1>7. CycleExact(cycle', Mine', table', enqueued')
  <2>1. /\ cycle'.pc = "written" /\ cycle'.page = cycle.page /\ cycle'.at = cycle.at
    BY <1>1, Gone DEF FullInv
  <2>2. CycleSent(cycle, enqueued)
    BY <1>1, HadExact DEF CycleExact
  <2>3. \A i \in DOMAIN cycle.page.events :
          i < cycle.at \/ i = cycle.at => cycle.page.events[i] \in enqueued'
    BY <1>1, <1>3, <2>2 DEF CycleSent
  <2> QED  BY <2>1, <2>3 DEF CycleExact, CycleSent
<1>8. TableTyped'
  BY <1>1 DEF FullInv, ExactInv, TableTyped
<1> QED  BY <1>6, <1>7, <1>8 DEF Shown, ExactInv

LEMMA EventWrittenExact == ASSUME FullInv, EventWritten PROVE Shown
<1>1. /\ UNCHANGED <<table, enqueued, job>>
      /\ cycle.pc = "written" /\ cycle.pc \in Emitting /\ cycle.pc # "idle"
  BY DEF EventWritten, world, Emitting
<1>2. CASE ~SameTransport
  BY <1>1, <1>2, LeftExact DEF EventWritten
<1>3. CASE SameTransport
  <2>1. /\ cycle'.pc = IF cycle.at < Len(cycle.page.events) THEN "event" ELSE "advance"
        /\ cycle'.at = cycle.at + 1 /\ cycle'.job = cycle.job /\ cycle'.page = cycle.page
    BY <1>1, <1>3, HadExact DEF IsCycle, EventWritten
  <2>2. /\ cycle.page.events \in Seq(EventsOf(cycle.page))
        /\ cycle.at \in DOMAIN cycle.page.events
    BY <1>1, HadExact DEF CycleOf, IsPage
  <2>3. \A i \in DOMAIN cycle.page.events :
          i < cycle.at \/ i = cycle.at => cycle.page.events[i] \in enqueued
    BY <1>1, HadExact DEF CycleExact, CycleSent
  <2>4. \A i \in DOMAIN cycle.page.events : i < cycle.at + 1 => i < cycle.at \/ i = cycle.at
    BY <2>2
  <2>5. CASE cycle.at < Len(cycle.page.events)
    <3>1. CycleExact(cycle', Mine, table, enqueued)
      BY <2>1, <2>3, <2>4, <2>5 DEF CycleExact, CycleSent
    <3> QED  BY <1>1, <2>1, <3>1, HadExact, WriteExact
  <2>6. CASE ~(cycle.at < Len(cycle.page.events))
    <3>1. \A i \in DOMAIN cycle.page.events : i < cycle.at \/ i = cycle.at
      BY <2>2, <2>6
    <3>2. EventsOf(cycle.page) \subseteq enqueued
      BY <2>3, <3>1 DEF EventsOf
    <3>3. CycleExact(cycle', Mine, table, enqueued)
      BY <2>1, <2>6, <3>2 DEF CycleExact, CycleSent, Emitting
    <3> QED  BY <1>1, <2>1, <3>3, HadExact, WriteExact
  <2> QED  BY <2>5, <2>6
<1> QED  BY <1>2, <1>3

\* A confirmed page adds its events to those that are sure.
LEMMA AdvancedExact ==
  ASSUME FullInv, cycle.pc = "advance", Holding
  PROVE  RowExact(cycle.job, Advanced, table, enqueued)
<1> DEFINE j == cycle.job
           s == Mine.state
           after == cycle.page.after
           E == Sure(j, s, enqueued)
           P == EventsOf(cycle.page)
<1>0. cycle.pc # "idle" /\ cycle.pc \in Looping /\ AllInv
  BY DEF Looping, FullInv
<1>1. /\ RowExact(j, Mine, table, enqueued) /\ CycleExact(cycle, Mine, table, enqueued)
      /\ RowContent(j, Mine, enqueued) /\ CycleOf(cycle, Mine, enqueued)
      /\ Mine.status = "running"
  BY <1>0, HadExact DEF Holding
<1>2. /\ IsPage(j, s, cycle.page) /\ Ahead(j, Mine, enqueued) \subseteq P
      /\ cycle.page = Mine.pending /\ s \in Position /\ s.sequence \in Nat
  BY <1>1 DEF CycleOf, RowContent, Position
<1>3. PageHolds(s, table, cycle.page) /\ Exact(s, table, E) /\ \A e \in E : ~e.last
  BY <1>1, <1>2, NothingAhead DEF RowExact
<1>4. P \subseteq enqueued
  BY <1>1 DEF CycleExact, CycleSent
<1>5. after.sequence = s.sequence + 1 /\ \A e \in P : e.run = j /\ e.sequence = s.sequence + 1
  BY <1>2 DEF IsPage, EventsOf
<1>6. /\ Advanced.status = IF cycle.page.complete THEN "completed" ELSE "running"
      /\ Advanced.state = after /\ Advanced.pending = NoPage
  BY <1>0, <1>1, AdvancedIs
<1>7. \A e \in enqueued : e.sequence \in Nat
  BY DEF FullInv, AllInv, ContentInv, EventsTyped
<1>8. Sure(j, after, enqueued) = E \union P
  <2>1. ASSUME NEW e \in enqueued, e.run = j, e.sequence <= s.sequence + 1, ~(e.sequence <= s.sequence)
        PROVE  e \in P
    BY <1>2, <1>7, <2>1 DEF Ahead
  <2>2. ASSUME NEW e \in enqueued, e.sequence <= s.sequence PROVE e.sequence <= s.sequence + 1
    BY <1>2, <1>7, <2>2
  <2>3. ASSUME NEW e \in P PROVE e \in enqueued /\ e.run = j /\ e.sequence <= s.sequence + 1
    BY <1>2, <1>4, <1>5
  <2> HIDE DEF j, s, after, P
  <2> QED  BY <1>5, <2>1, <2>2, <2>3 DEF Sure
<1>9. E \intersect P = {}
  BY <1>2, <1>5 DEF Sure
<1>10. Ahead(j, Advanced, enqueued) = {}
  BY <1>0, AdvancedContent
<1> HIDE DEF j, s, after, E, P
<1>11. Exact(after, table, E \union P)
  BY <1>2, <1>3, <1>9, Grows DEF after, P
<1>12. CASE cycle.page.complete
  <2>1. after.phase > Kinds /\ EndsWith(P, after)
    BY <1>3, <1>12 DEF PageHolds, after, P
  <2>2. {f \in E \union P : f.last} = {f \in P : f.last}
    BY <1>3
  <2>3. EndsWith(E \union P, after)
    BY <2>1, <2>2 DEF EndsWith
  <2>4. RowExact(j, Advanced, table, enqueued)
    BY <1>6, <1>8, <1>10, <1>11, <1>12, <2>1, <2>3 DEF RowExact
  <2> QED  BY <2>4 DEF j
<1>13. CASE ~cycle.page.complete
  <2>1. \A e \in E \union P : ~e.last
    BY <1>3, <1>13 DEF PageHolds, P
  <2>2. RowExact(j, Advanced, table, enqueued)
    BY <1>6, <1>8, <1>11, <1>13, <2>1 DEF RowExact
  <2> QED  BY <2>2 DEF j
<1> QED  BY <1>12, <1>13

LEMMA AdvanceExact == ASSUME FullInv, Advance PROVE Shown
<1>1. UNCHANGED <<table, enqueued>> /\ cycle.pc # "idle" /\ cycle.pc = "advance"
  BY DEF Advance, world
<1>2. CASE Holding
  <2>1. SetJob(Advanced) /\ RowExact(cycle.job, Advanced, table, enqueued)
    BY <1>1, <1>2, AdvancedExact DEF Advance
  <2>2. cycle'.pc \in {"release", "page"}
    <3>1. CASE cycle.page.complete
      BY <1>1, <1>2, <3>1, HadExact, LeaveMoves DEF Advance
    <3>2. CASE ~cycle.page.complete
      BY <1>1, <1>2, <3>2, HadExact DEF Advance, IsCycle
    <3> QED  BY <3>1, <3>2
  <2> QED  BY <1>1, <2>1, <2>2, HadExact, WriteExactFree DEF Free
<1>3. CASE ~Holding
  BY <1>1, <1>3, LeftExact DEF Advance
<1> QED  BY <1>2, <1>3

LEMMA FailExact == ASSUME FullInv, Fail PROVE Shown
<1>1. UNCHANGED <<table, enqueued>> /\ cycle.pc # "idle" /\ Leave(FALSE)
  BY DEF Fail, world
<1>2. cycle'.pc = "release"
  BY <1>1, HadExact, LeaveMoves
<1>3. CASE Holding
  <2> DEFINE row == [Mine EXCEPT !.status = IF Definitive THEN "failed" ELSE "queued",
                              !.attempts = @ + 1, !.due = FALSE, !.leased = FALSE,
                              !.expired = FALSE,
                              !.pending = IF Definitive THEN NoPage ELSE @]
  <2>1. /\ row.status = IF Definitive THEN "failed" ELSE "queued"
        /\ row.state = Mine.state /\ row.pending = IF Definitive THEN NoPage ELSE Mine.pending
    BY <1>1, HadExact DEF IsJob
  <2>2. SetJob(row)
    BY <1>3 DEF Fail
  <2> HIDE DEF row
  <2>3. RowExact(cycle.job, row, table, enqueued)
    <3>1. CASE Definitive
      BY <2>1, <3>1, Failed
    <3>2. CASE ~Definitive
      BY <1>1, <1>3, <2>1, <3>2, HadExact, GoesOn DEF Holding
    <3> QED  BY <3>1, <3>2
  <2> QED  BY <1>1, <1>2, <2>2, <2>3, HadExact, WriteExactFree DEF Free
<1>4. CASE ~Holding
  BY <1>1, <1>2, <1>4, WriteExactFree DEF Free, Fail
<1> QED  BY <1>3, <1>4

LEMMA ReleaseExact == ASSUME FullInv, Release PROVE Shown
<1>1. UNCHANGED <<table, enqueued>> /\ cycle.pc # "idle" /\ cycle'.pc = "idle"
  BY DEF Release, world, NoCycle
<1>2. CASE Releasable
  <2> DEFINE row == [Mine EXCEPT !.status = "queued", !.leased = FALSE, !.expired = FALSE,
                              !.due = ~cycle.later]
  <2>1. row.status = "queued" /\ row.state = Mine.state /\ row.pending = Mine.pending
    BY <1>1, HadExact DEF IsJob
  <2>2. SetJob(row)
    BY <1>2 DEF Release
  <2> HIDE DEF row
  <2>3. RowExact(cycle.job, row, table, enqueued)
    BY <1>1, <1>2, <2>1, HadExact, GoesOn DEF Releasable, Holding
  <2> QED  BY <1>1, <2>2, <2>3, HadExact, WriteExactFree DEF Free
<1>3. CASE ~Releasable
  BY <1>1, <1>3, WriteExactFree DEF Free, Release
<1> QED  BY <1>2, <1>3

LEMMA FaultExact == ASSUME FullInv, CycleFault PROVE Shown
<1>1. UNCHANGED <<table, enqueued>> /\ cycle.pc # "idle"
  BY DEF CycleFault, world
<1>2. cycle'.pc \in {"idle", "release", "fail"}
  <2>1. cycle' = NoCycle \/ Leave(FALSE) \/ Throw(FALSE)
    BY DEF CycleFault
  <2>2. cycle' = NoCycle => cycle'.pc = "idle"
    BY DEF NoCycle
  <2>3. Leave(FALSE) => cycle'.pc = "release"
    BY <1>1, HadExact, LeaveMoves
  <2>4. Throw(FALSE) => cycle'.pc = "fail"
    BY <1>1, HadExact, ThrowMoves
  <2> QED  BY <2>1, <2>2, <2>3, <2>4
<1>3. CASE UNCHANGED job
  BY <1>1, <1>2, <1>3, WriteExactFree DEF Free
<1>4. CASE ~UNCHANGED job
  <2> DEFINE row == [Mine EXCEPT !.status = "running", !.expired = FALSE]
  <2>1. \/ Holding /\ cycle.pc = "stage" /\ SetJob(Staged)
        \/ Holding /\ cycle.pc = "advance" /\ SetJob(Advanced)
        \/ Eligible(cycle.job) /\ SetJob(row)
    BY <1>4 DEF CycleFault
  <2>2. row.status = "running" /\ row.state = Mine.state /\ row.pending = Mine.pending
    BY <1>1, HadExact DEF IsJob
  <2> HIDE DEF row
  <2>3. Eligible(cycle.job) => RowExact(cycle.job, row, table, enqueued)
    <3>1. Eligible(cycle.job) => Mine.status \in {"queued", "running"}
      BY DEF Eligible, Active, Mine
    <3> QED  BY <1>1, <2>2, <3>1, HadExact, GoesOn
  <2>4. \E r : SetJob(r) /\ RowExact(cycle.job, r, table, enqueued)
    BY <2>1, <2>3, StagedExact, AdvancedExact
  <2> QED  BY <1>1, <1>2, <2>4, HadExact, WriteExactFree DEF Free
<1> QED  BY <1>3, <1>4

LEMMA CycleStepExact == ASSUME FullInv, CycleStep \/ CycleFault PROVE Shown
BY NextJobExact, ClaimExact, PageExact, RenewExact, SnapshotExact, PlanExact, StageExact,
   RenewForEventExact, CheckExact, WriteEventExact, EventWrittenExact, AdvanceExact, FailExact,
   ReleaseExact, FaultExact DEF CycleStep

-----------------------------------------------------------------------------
(* The other steps and the exact content *)

\* The rows change while the cycle rests, and its own keeps its state.
LEMMA RowsExact ==
  ASSUME FullInv, UNCHANGED <<table, enqueued, cycle>>,
         \A i \in Job : RowExact(i, job'[i], table, enqueued),
         cycle.pc # "idle" => job'[cycle.job].state = Mine.state
  PROVE  Shown
<1>1. CycleExact(cycle', Mine', table', enqueued')
  <2>1. CASE cycle.pc = "idle"
    <3>1. \A c, row, tab, sent : c.pc = "idle" => CycleExact(c, row, tab, sent)
      BY FreeExact DEF Free
    <3> QED  BY <2>1, <3>1
  <2>2. CASE cycle.pc # "idle"
    <3>1. CycleExact(cycle, Mine, table, enqueued) /\ Mine'.state = Mine.state
      BY <2>2, HadExact DEF Mine
    <3> QED  BY <3>1 DEF CycleExact
  <2> QED  BY <2>1, <2>2
<1>2. TableTyped'
  BY DEF FullInv, ExactInv, TableTyped
<1> QED  BY <1>1, <1>2 DEF Shown, ExactInv

LEMMA AlikeShown ==
  ASSUME FullInv, UNCHANGED <<table, enqueued, cycle>>, \A i \in Job : Alike(job'[i], job[i])
  PROVE  Shown
<1>1. \A i \in Job : RowExact(i, job'[i], table, enqueued)
  BY AlikeExact DEF FullInv, ExactInv
<1>2. cycle.pc # "idle" => job'[cycle.job].state = Mine.state
  BY HadExact DEF Alike, Mine
<1> QED  BY <1>1, <1>2, RowsExact

LEMMA StillExact ==
  ASSUME FullInv, UNCHANGED <<table, enqueued, cycle, job>>
  PROVE  Shown
BY AlikeShown DEF Alike

\* A new job starts with every row ahead, and has sent nothing.
LEMMA FirstExact == Exact(FirstState(table), table, {})
<1> DEFINE s == FirstState(table)
<1>1. s.phase = 1 /\ s.cursor = 0 /\ s.chunks = 0 /\ s.count = 0
  BY DEF FirstState
<1> HIDE DEF s
<1>2. CopiedIn({}) = {} /\ ChunksIn({}) = {} /\ Apart({})
  BY DEF CopiedIn, ChunksIn, Apart
<1>3. IsFiniteSet({}) /\ Cardinality({}) = 0
  BY FS_EmptySet
<1>4. \A k \in Kind, r \in Row : ~Passed(s, k, r)
  <2>1. \A k \in Kind, r \in Row : k \in Nat /\ k >= 1 /\ r \in Nat /\ r # 0
    BY RescanPageAssumption DEF Kind
  <2> QED  BY <1>1, <2>1 DEF Passed
<1>5. ASSUME NEW k \in Kind, NEW r \in Stored(table, k) PROVE r \in Row
  BY DEF Stored
<1>6. Exact(s, table, {})
  BY <1>1, <1>2, <1>3, <1>4, <1>5 DEF Exact
<1> QED  BY <1>6 DEF s

LEMMA BeginExact ==
  ASSUME FullInv, NEW c \in Client, Begin(c)
  PROVE  Shown
<1>1. UNCHANGED <<cycle, enqueued, table>>
  BY DEF Begin, world
<1>2. CASE UNCHANGED job
  BY <1>1, <1>2, StillExact
<1>3. CASE ~UNCHANGED job
  <2>1. PICK j \in Job : job[j].status = "none" /\ job' = [job EXCEPT ![j] = NewJob(c)]
    BY <1>3 DEF Begin
  <2>2. job'[j] = NewJob(c) /\ \A i \in Job : i # j => job'[i] = job[i]
    BY <2>1 DEF FullInv, AllInv, RescanInv, JobsTyped
  <2>3. /\ NewJob(c).status = "queued" /\ NewJob(c).state = FirstState(table)
        /\ NewJob(c).pending = NoPage
    BY DEF NewJob
  <2>4. \A s : Sure(j, s, enqueued) = {}
    BY <2>1 DEF Sure, FullInv, AllInv, ContentInv, RowsContent, RowContent
  <2>5. RowExact(j, NewJob(c), table, enqueued)
    BY <2>3, <2>4, FirstExact DEF RowExact
  <2>6. \A i \in Job : RowExact(i, job'[i], table, enqueued)
    BY <2>2, <2>5 DEF FullInv, ExactInv
  <2>7. cycle.pc # "idle" => cycle.job \in Job /\ cycle.job # j
    BY <2>1, HadExact DEF Mine
  <2> QED  BY <1>1, <2>2, <2>6, <2>7, RowsExact DEF Mine
<1> QED  BY <1>2, <1>3

LEMMA TimeExact ==
  ASSUME FullInv, NEW j \in Job, RetryDue(j) \/ LeaseExpires(j)
  PROVE  Shown
<1>1. UNCHANGED <<cycle, enqueued, table>>
  BY DEF RetryDue, LeaseExpires, world
<1>2. \A i \in Job : Alike(job'[i], job[i])
  BY TimeAlike DEF FullInv
<1> QED  BY <1>1, <1>2, AlikeShown

LEMMA CancelExact ==
  ASSUME FullInv, NEW c \in cancels, CancelInstance(c)
  PROVE  Shown
<1>1. UNCHANGED <<cycle, enqueued, table>>
  BY DEF CancelInstance, world
<1>2. CASE UNCHANGED job
  BY <1>1, <1>2, StillExact
<1>3. CASE ~UNCHANGED job
  <2> DEFINE row(j) == [job[j] EXCEPT !.status = "failed", !.leased = FALSE, !.expired = FALSE,
                                      !.pending = NoPage]
  <2>1. job' = [j \in Job |-> IF j \in CreatedBefore(c) THEN row(j) ELSE job[j]]
    BY <1>3 DEF CancelInstance
  <2>2. ASSUME NEW j \in Job, j \in CreatedBefore(c)
        PROVE  row(j).status = "failed" /\ row(j).state = job[j].state /\ row(j).pending = NoPage
    <3>1. IsJob(job[j])
      BY DEF FullInv, AllInv, RescanInv, JobsTyped, GoodJob
    <3> QED  BY <3>1 DEF IsJob
  <2> HIDE DEF row
  <2>3. ASSUME NEW j \in Job
        PROVE  RowExact(j, job'[j], table, enqueued) /\ job'[j].state = job[j].state
    <3>1. CASE j \in CreatedBefore(c)
      BY <2>1, <2>2, <3>1, Failed
    <3>2. CASE j \notin CreatedBefore(c)
      BY <2>1, <3>2 DEF FullInv, ExactInv
    <3> QED  BY <3>1, <3>2
  <2>4. cycle.pc # "idle" => job'[cycle.job].state = Mine.state
    BY <2>3, HadExact DEF Mine
  <2> QED  BY <1>1, <2>3, <2>4, RowsExact
<1> QED  BY <1>2, <1>3

LEMMA CrashExact == ASSUME FullInv, Crash PROVE Shown
<1>1. UNCHANGED <<enqueued, table>> /\ cycle'.pc = "idle"
  BY DEF Crash, NoCycle
<1>2. \A i \in Job : Alike(job'[i], job[i])
  BY CrashAlike DEF FullInv
<1> QED  BY <1>1, <1>2, WriteExactFree DEF Free

\* No row appears among those a job reads.
Shrinks(s, tab, new) ==
  \A k \in Kind : \A r \in Stored(new, k) : r <= s.max[k] => r \in Stored(tab, k)

LEMMA ShrinksExact ==
  ASSUME NEW j, NEW row, NEW tab, NEW new, NEW sent, Shrinks(row.state, tab, new),
         RowExact(j, row, tab, sent)
  PROVE  RowExact(j, row, new, sent)
<1>1. \A E : Exact(row.state, tab, E) => Exact(row.state, new, E)
  BY DEF Exact, Shrinks
<1>2. \A page : PageHolds(row.state, tab, page) => PageHolds(row.state, new, page)
  BY DEF PageHolds, Covers, Shrinks
<1> QED  BY <1>1, <1>2 DEF RowExact

LEMMA RowChangesExact == ASSUME FullInv, RowChanges PROVE Shown
<1>1. UNCHANGED <<job, cycle, enqueued>> /\ TableTyped
  BY DEF RowChanges, FullInv, ExactInv
<1>2. PICK k \in Kind, r \in Row :
        \/ table[k][r] # 0 /\ \E v \in {0, table[k][r] + 1} : table' = [table EXCEPT ![k][r] = v]
        \/ /\ \A j \in Job : job[j].status # "none" => job[j].state.max[k] < r
           /\ table' = [table EXCEPT ![k][r] = 1]
  BY DEF RowChanges
<1>3. PICK v \in Nat : /\ table' = [table EXCEPT ![k][r] = v]
                       /\ \/ table[k][r] # 0
                          \/ \A j \in Job : job[j].status # "none" => job[j].state.max[k] < r
  <2>1. table[k][r] \in Nat
    BY <1>1 DEF TableTyped
  <2>2. table[k][r] + 1 \in Nat
    BY <2>1
  <2> QED  BY <1>2, <2>2
<1>4. TableTyped'
  BY <1>1, <1>3 DEF TableTyped
<1>5. \A q \in Kind, t \in Row : <<q, t>> # <<k, r>> => table'[q][t] = table[q][t]
  BY <1>1, <1>3 DEF TableTyped
<1>6. ASSUME NEW j \in Job, job[j].status # "none" PROVE Shrinks(job[j].state, table, table')
  <2>1. ASSUME NEW q \in Kind, NEW t \in Stored(table', q), t <= job[j].state.max[q]
        PROVE  t \in Stored(table, q)
    <3>1. t \in Row /\ table'[q][t] # 0
      BY DEF Stored
    <3>2. CASE <<q, t>> # <<k, r>>
      BY <1>5, <3>1, <3>2 DEF Stored
    <3>3. CASE q = k /\ t = r
      <4>1. ~(job[j].state.max[k] < r)
        <5>1. job[j].state.max[k] \in Nat /\ r \in Nat
          BY RescanPageAssumption DEF FullInv, AllInv, ContentInv, RowsContent, RowContent, Position
        <5> QED  BY <2>1, <3>3, <5>1
      <4>2. table[k][r] # 0
        BY <1>3, <1>6, <4>1
      <4> QED  BY <3>1, <3>3, <4>2 DEF Stored
    <3> QED  BY <3>2, <3>3
  <2> QED  BY <2>1 DEF Shrinks
<1>7. \A j \in Job : RowExact(j, job[j], table', enqueued)
  <2>1. ASSUME NEW j \in Job PROVE RowExact(j, job[j], table', enqueued)
    <3>1. RowExact(j, job[j], table, enqueued) /\ RowContent(j, job[j], enqueued)
      BY DEF FullInv, AllInv, ExactInv, ContentInv, RowsContent
    <3>2. CASE job[j].status = "none"
      BY <3>1, <3>2 DEF RowExact, RowContent
    <3>3. CASE job[j].status # "none"
      BY <1>6, <3>1, <3>3, ShrinksExact
    <3> QED  BY <3>2, <3>3
  <2> QED  BY <2>1
<1>8. CycleExact(cycle, Mine, table', enqueued)
  <2>1. CASE cycle.pc = "idle"
    BY <2>1, FreeExact DEF Free
  <2>2. CASE cycle.pc # "idle"
    <3>1. CycleExact(cycle, Mine, table, enqueued) /\ Shrinks(Mine.state, table, table')
      BY <1>6, <2>2, HadExact DEF Mine
    <3>2. \A page : PageHolds(Mine.state, table, page) => PageHolds(Mine.state, table', page)
      BY <3>1 DEF PageHolds, Covers, Shrinks
    <3> QED  BY <3>1, <3>2 DEF CycleExact
  <2> QED  BY <2>1, <2>2
<1>9. Mine' = Mine
  BY <1>1 DEF Mine
<1> QED  BY <1>1, <1>4, <1>7, <1>8, <1>9 DEF Shown, ExactInv

LEMMA RestExact ==
  ASSUME FullInv,
         \/ \E c \in Client : FindByKey(c) \/ FindActive(c) \/ CheckPending(c)
         \/ \E c \in Client, key \in Key : Ask(c, key)
         \/ CloseConnection \/ Reconnect \/ PauseChanges \/ Stop \/ UNCHANGED vars
  PROVE  Shown
<1>1. UNCHANGED <<job, cycle, enqueued, table>>
  BY DEF FindByKey, FindActive, CheckPending, Ask, CloseConnection, Reconnect, PauseChanges,
         Stop, vars, world
<1> QED  BY <1>1, StillExact

LEMMA StepExact == ASSUME FullInv, [Next]_vars PROVE ExactInv'
<1>1. Shown
  BY CycleStepExact, BeginExact, TimeExact, CancelExact, CrashExact, RowChangesExact, RestExact
     DEF Next, RequestStep
<1> QED  BY <1>1 DEF Shown

LEMMA ExactInit == Init => ExactInv
<1> SUFFICES ASSUME Init PROVE ExactInv
  OBVIOUS
<1>1. TableTyped
  BY HistoryRescanAssumption DEF Init, TableTyped
<1>2. \A j \in Job : RowExact(j, job[j], table, enqueued)
  BY DEF Init, RowExact, NoJob
<1>3. CycleExact(cycle, Mine, table, enqueued)
  BY FreeExact DEF Free, Init, NoCycle
<1> QED  BY <1>1, <1>2, <1>3 DEF ExactInv

LEMMA FullHolds == Spec => []FullInv
<1>1. Init => FullInv
  BY RescanInit, ContentInit, ExactInit DEF FullInv, AllInv
<1>2. FullInv /\ [Next]_vars => FullInv'
  BY StepRight, StepTold, OthersStay, StepExact DEF FullInv, AllInv, ContentInv, Right, Told
<1> QED  BY <1>1, <1>2, PTL DEF Spec

-----------------------------------------------------------------------------
(* The theorems *)

\* A job that has ended never changes again, whatever a late statement of a cycle, a
\* late cancellation, an expired lease or a crash still does: EndedIsFinal.
THEOREM EndedStaysEnded == Spec => EndedIsFinal
<1>1. RescanInv /\ [Next]_vars
        => [\A j \in Job : job[j].status \in Terminal => job'[j] = job[j]]_vars
  BY StepRight DEF Right
<1> QED  BY RescanHolds, <1>1, PTL DEF Spec, EndedIsFinal

\* An event is put in the outbox only while the connection is open that its job was made
\* for, and none of a job that was cancelled: BoundToConnection.
THEOREM EventsKeepConnection == Spec => BoundToConnection
<1>1. RescanInv /\ [Next]_vars
        => [Enqueues => online /\ conn = Mine.conn /\ Mine.status = "running"]_vars
  BY StepRight DEF Right
<1> QED  BY RescanHolds, <1>1, PTL DEF Spec, BoundToConnection

\* Two requests with one key are told one job: IdempotentKey.
THEOREM KeysIdempotent == Spec => []IdempotentKey
<1>1. RescanInv => IdempotentKey
  BY DEF RescanInv, IdempotentKey, ToldTheirs, OneKeyEach
<1> QED  BY RescanHolds, <1>1, PTL

\* Every variable has its type, at every step: no failure makes an attempt beyond the last, and
\* a page is kept only of a job that goes on: TypeOK.
THEOREM RescanTyped == Spec => []TypeOK
<1>1. AllInv => TypeOK
  <2> SUFFICES ASSUME AllInv PROVE TypeOK
    OBVIOUS
  <2>1. ASSUME NEW j \in Job
        PROVE  /\ job[j].status \in {"none", "queued", "running", "completed", "failed"}
               /\ job[j].state \in Position /\ job[j].pending.after \in Position
               /\ job[j].conn \in 0 .. conn /\ job[j].attempts \in 0 .. MaxAttempts
               /\ job[j].leased => job[j].status = "running"
               /\ job[j].pending # NoPage => j \in Active
    <3>1. GoodJob(job[j]) /\ job[j].conn <= conn /\ RowContent(j, job[j], enqueued) /\ conn \in Nat
      BY DEF AllInv, RescanInv, JobsTyped, ClosedOnes, ContentInv, RowsContent
    <3> QED  BY <3>1 DEF GoodJob, RowContent, Active
  <2>2. request \in [Client -> [pc : {"idle", "key", "active", "pending", "begin"},
                                key : Key \union {0}, conn : 0 .. conn]]
    <3>1. /\ request \in [Client -> RequestType] /\ conn \in Nat
          /\ \A c \in Client : request[c].conn <= conn
      BY DEF AllInv, RescanInv, RequestsTyped, ClosedOnes, ContentInv, OthersTyped, RequestType
    <3> QED  BY <3>1 DEF RequestType
  <2>3. cycle.pc = "idle" \/ cycle.job \in Job
    BY DEF AllInv, RescanInv, CycleTyped
  <2>4. conn \in Nat /\ cancels \subseteq 1 .. conn
    BY DEF AllInv, RescanInv, ClosedOnes, ContentInv, OthersTyped
  <2>5. online \in BOOLEAN /\ natural \in BOOLEAN /\ backlog \in BOOLEAN /\ stopped \in BOOLEAN
    BY DEF AllInv, RescanInv, ClosedOnes, ContentInv, OthersTyped
  <2> QED  BY <2>1, <2>2, <2>3, <2>4, <2>5 DEF TypeOK
<1> QED  BY ContentHolds, <1>1, PTL

\* An event that is put in the outbox again, by another attempt, after a crash or by a cycle
\* that lost its lease, is the one that was put there before: SameIdentitySameContent.
THEOREM SameIdentityHolds == Spec => []SameIdentitySameContent
BY ContentHolds, PTL DEF AllInv, ContentInv

\* A completed job has put every row that stayed in the outbox, in one chunk each, and its last
\* event announces the chunks and rows there are, for tables and pages of any size, and
\* whatever failed on the way: CompletedExactly.
THEOREM CompletedHolds == Spec => []CompletedExactly
<1>1. FullInv => CompletedExactly
  <2> SUFFICES ASSUME FullInv, NEW j \in Completed
               PROVE  \E last \in OfRun(j) :
                        /\ {e \in OfRun(j) : e.last} = {last}
                        /\ last.chunks = Cardinality(Sent(j))
                        /\ last.count = Cardinality(Copied(j))
                        /\ \A e, f \in Sent(j) : e # f /\ e.kind = f.kind =>
                             {item[1] : item \in e.items} \intersect {item[1] : item \in f.items} = {}
                        /\ Kept(j) \subseteq Copied(j)
    BY DEF CompletedExactly
  <2> DEFINE s == job[j].state
             E == OfRun(j)
  <2>1. j \in Job /\ job[j].status = "completed"
    BY DEF Completed
  <2>2. RowExact(j, job[j], table, enqueued) /\ RowContent(j, job[j], enqueued)
    BY <2>1 DEF FullInv, AllInv, ExactInv, ContentInv, RowsContent
  <2>3. Sure(j, s, enqueued) = E
    <3>1. ASSUME NEW e \in enqueued, e.run = j PROVE e.sequence <= s.sequence
      <4>1. ~(e.sequence > s.sequence)
        BY <2>1, <2>2, <3>1 DEF RowExact, Ahead
      <4>2. e.sequence \in Nat /\ s.sequence \in Nat
        BY <2>2 DEF FullInv, AllInv, ContentInv, EventsTyped, RowContent, Position
      <4> QED  BY <4>1, <4>2
    <3> QED  BY <3>1 DEF Sure, OfRun
  <2>4. Exact(s, table, E) /\ EndsWith(E, s) /\ s.phase > Kinds
    BY <2>1, <2>2, <2>3 DEF RowExact
  <2>5. Sent(j) = ChunksIn(E) /\ Copied(j) = CopiedIn(E)
    BY DEF Sent, Copied, ChunksIn, CopiedIn
  <2>6. PICK last \in E : {e \in E : e.last} = {last} /\ last.chunks = s.chunks /\ last.count = s.count
    BY <2>4 DEF EndsWith
  <2>7. last.chunks = Cardinality(Sent(j)) /\ last.count = Cardinality(Copied(j))
    BY <2>4, <2>5, <2>6 DEF Exact
  <2>8. \A e, f \in Sent(j) : e # f /\ e.kind = f.kind => Firsts(e) \intersect Firsts(f) = {}
    BY <2>4 DEF Exact, Apart, Sent
  <2>9. Kept(j) \subseteq Copied(j)
    <3>1. ASSUME NEW x \in Kept(j) PROVE x \in Copied(j)
      <4>1. PICK k \in Kind : \E r \in {q \in Stored(table, k) \ Hidden : q <= s.max[k]} : x = <<k, r>>
        BY DEF Kept
      <4>2. PICK r \in {q \in Stored(table, k) \ Hidden : q <= s.max[k]} : x = <<k, r>>
        BY <4>1
      <4>3. Passed(s, k, r)
        <5>1. k \in Nat /\ k <= Kinds /\ Kinds \in Nat /\ s.phase \in Nat
          BY <2>2, RescanPageAssumption DEF Kind, RowContent, Position
        <5> QED  BY <2>4, <5>1 DEF Passed
      <4> QED  BY <2>4, <2>5, <4>2, <4>3 DEF Exact
    <3> QED  BY <3>1
  <2> QED  BY <2>6, <2>7, <2>8, <2>9 DEF Firsts
<1> QED  BY FullHolds, <1>1, PTL
=============================================================================
