--------------------------- MODULE WebhookOutbox ---------------------------
(***************************************************************************)
(* The durable webhook outbox: one lane (a directory of event files and    *)
(* its dead-letter directory), the producers that enqueue into it, the     *)
(* flights that deliver from it, the discarding of one connection's work   *)
(* when that connection closes, the replay of dead letters, and crashes of *)
(* the process that owns it.                                               *)
(*                                                                         *)
(* Each action is the code between two awaits, except that a worker's way  *)
(* from one await to the next read is several steps nothing interleaves    *)
(* with.  An event is its place in the order the lane sorts by (timestamp, *)
(* then file name): for a live event that of its enqueue call, for an      *)
(* event of a history rescan that of the planning of its page, which may   *)
(* be long before the call.  A record keeps what the control depends on:   *)
(* the attempts, whether nextAttemptAt has passed, and the epoch.          *)
(***************************************************************************)
EXTENDS Naturals, FiniteSets

CONSTANTS
  Event,            \* events, numbered by timestamp, then file name
  Planned,          \* those with an identity: stamped before their enqueue calls
  Instance,         \* WhatsApp instances (owner/instanceName)
  InstOf,           \* the instance of each event
  Lifecycle,        \* connection.* events: never discarded, always deliverable
  Pairing,          \* qrcode.* and pairingcode.* events: always deliverable
  Flight,           \* names for concurrent executions of process()
  Slot,             \* the workers of a flight (WEBHOOK_CONCURRENCY of them)
  TurnLimit,        \* deliveries a group may use per turn (16 in the code)
  MaxAttempts,      \* WEBHOOK_MAX_ATTEMPTS
  Limits,           \* bounds: the kinds in Bounded happen as often as one of these allows
  None              \* no file, no flight

\* Closures, replay requests, storage errors, stops and crashes of the process.
Bounded == {"discard", "replay", "error", "stop", "crash"}

Record == [attempts : Nat, due : BOOLEAN, epoch : Nat]

ASSUME EventAssumption == Event \subseteq Nat
ASSUME InstanceAssumption ==
  /\ InstOf \in [Event -> Instance]
  /\ Planned \subseteq Event
  /\ Lifecycle \subseteq Event
  /\ Pairing \subseteq Event
ASSUME LimitAssumption ==
  /\ Slot # {}
  /\ TurnLimit \in Nat \ {0}
  /\ MaxAttempts \in Nat \ {0}
  /\ Limits \subseteq [Bounded -> Nat]
ASSUME NoneAssumption == None \notin Flight \union Record

VARIABLES
  active,     \* the lane's directory: event -> record or None
  dead,       \* dead-letter/: event -> record or None
  epoch,      \* this.epochs: instance -> epoch, 0 when it has no entry
  online,     \* instanceConnection[key].connectionStatus = 'ONLINE'
  stopped,    \* this.stopped
  pending,    \* this.pending
  flight,     \* this.flight
  phase,      \* where each execution of process() is
  ready,      \* per flight, instances whose group waits for a worker
  todo,       \* per flight, files of each group still to be visited
  held,       \* per flight, files whose scanned nextAttemptAt was in the future
  worker,     \* the workers of each flight
  producer,   \* the enqueue call of each event
  discard,    \* the discardInstance call of each instance
  replay,     \* the replayDeadLetters call
  spent,      \* how often each bounded kind has happened
  accepted,   \* history: events whose enqueue call returned an id
  received,   \* history: events the receiver has got at least once
  obsolete,   \* history: events a later closure of their connection cancelled
  buried,     \* history: events that have been in dead-letter/
  prior       \* history: events accepted before this event's enqueue call

files   == <<active, dead>>
memory  == <<epoch, online, stopped>>
lane    == <<pending, flight, phase, ready, todo, held>>
callers == <<producer, discard, replay>>
history == <<accepted, received, obsolete, buried, prior>>
vars == <<files, memory, lane, worker, callers, spent, history>>

-----------------------------------------------------------------------------
Worker == Flight \X Slot

NewRecord(k) == [attempts |-> 0, due |-> TRUE, epoch |-> k]

Present(dir) == {e \in Event : dir[e] # None}
EventsOf(i) == {e \in Event : InstOf[e] = i}

Spend(kind) ==
  /\ spent' = [spent EXCEPT ![kind] = @ + 1]
  /\ \E limit \in Limits : \A k \in Bounded : spent'[k] <= limit[k]

\* Mutant: files written before the first closure never count as discarded.
DiscardedWithEpoch(e, r) ==
  e \notin Lifecycle /\ r.epoch # 0 /\ r.epoch # epoch[InstOf[e]]

\* private discarded(record): the record belongs to an epoch that has ended.
Discarded(e, r) ==
  /\ e \notin Lifecycle
  /\ epoch[InstOf[e]] # 0
  /\ r.epoch # epoch[InstOf[e]]

\* options.canDeliver of the application's outbox.
CanDeliver(e) == e \in Lifecycle \union Pairing \/ online[InstOf[e]]

NoFiles == [e \in Event |-> None]
NoGroups == [f \in Flight |-> {}]
NoTodo == [f \in Flight |-> [i \in Instance |-> {}]]
IdleWorker == [pc |-> "done", inst |-> None, ev |-> None, sent |-> 0, rec |-> None]
NoWork == [w \in Worker |-> IdleWorker]
NoDiscard == [i \in Instance |-> [pc |-> "idle", left |-> {}]]
NoReplay == [pc |-> "idle", left |-> {}, ev |-> None, rec |-> None]

Init ==
  /\ active = NoFiles /\ dead = NoFiles
  /\ epoch = [i \in Instance |-> 0]
  /\ online = [i \in Instance |-> FALSE]
  /\ stopped = FALSE
  /\ pending = FALSE /\ flight = None
  /\ phase = [f \in Flight |-> "none"]
  /\ ready = NoGroups /\ todo = NoTodo /\ held = NoGroups
  /\ worker = NoWork
  /\ producer = [e \in Event |-> [pc |-> "new", epoch |-> 0]]
  /\ discard = NoDiscard /\ replay = NoReplay
  /\ spent = [k \in Bounded |-> 0]
  /\ accepted = {} /\ received = {} /\ obsolete = {} /\ buried = {}
  /\ prior = [e \in Event |-> {}]

-----------------------------------------------------------------------------
(* enqueue *)

\* A live event is stamped when its call begins, so what is stamped earlier and live
\* has begun by then.  A planned event may come after any event stamped later than its
\* page, and not before the live ones stamped earlier.
Enqueue(e) ==
  /\ producer[e].pc = "new"
  /\ \A f \in Event \ Planned : f < e => producer[f].pc # "new"
  /\ producer' = [producer EXCEPT ![e] = [pc |-> "write", epoch |-> epoch[InstOf[e]]]]
  /\ prior' = [prior EXCEPT ![e] = accepted \intersect EventsOf(InstOf[e])]
  /\ UNCHANGED <<files, memory, lane, worker, discard, replay, spent,
                 accepted, received, obsolete, buried>>

\* Mutant: the epoch is looked up when the file is written.
LateRecord(e) == NewRecord(epoch[InstOf[e]])

\* The record takes the epoch the call began in.
FirstRecord(e) == NewRecord(producer[e].epoch)

\* write(): temporary file, fsync, rename.  Only the rename is visible.
EnqueueWrite(e) ==
  /\ producer[e].pc = "write"
  /\ active' = [active EXCEPT ![e] = FirstRecord(e)]
  /\ producer' = [producer EXCEPT ![e].pc = "check"]
  /\ UNCHANGED <<dead, memory, lane, worker, discard, replay, spent, history>>

\* A file operation failed: the caller gets the error, not an id.
EnqueueFail(e) ==
  /\ producer[e].pc \in {"write", "undo"}
  /\ Spend("error")
  /\ producer' = [producer EXCEPT ![e].pc = "failed"]
  /\ UNCHANGED <<files, memory, lane, worker, discard, replay, history>>

\* flush(): join the flight there is, or begin process(), which clears pending.
Flush(queued) ==
  IF flight # None THEN pending' = queued /\ UNCHANGED <<flight, phase>>
  ELSE \E f \in Flight :
         /\ phase[f] = "none"
         /\ flight' = f
         /\ phase' = [phase EXCEPT ![f] = "scan"]
         /\ pending' = FALSE

\* The connection has closed since the call began.
Superseded(e) == epoch[InstOf[e]] # producer[e].epoch

EnqueueCheck(e) ==
  /\ producer[e].pc = "check"
  /\ IF Superseded(e)
     THEN /\ producer' = [producer EXCEPT ![e].pc = "undo"]
          /\ UNCHANGED <<pending, flight, phase, accepted>>
     ELSE /\ producer' = [producer EXCEPT ![e].pc = "done"]
          /\ accepted' = accepted \union {e}
          /\ IF stopped THEN pending' = TRUE /\ UNCHANGED <<flight, phase>> ELSE Flush(TRUE)
  /\ UNCHANGED <<files, memory, ready, todo, held, worker, discard, replay, spent,
                 received, obsolete, buried, prior>>

EnqueueUndo(e) ==
  /\ producer[e].pc = "undo"
  /\ active' = [active EXCEPT ![e] = None]
  /\ producer' = [producer EXCEPT ![e].pc = "done"]
  /\ UNCHANGED <<dead, memory, lane, worker, discard, replay, spent, history>>

-----------------------------------------------------------------------------
(* flush and process *)

\* The retry interval, and the flush that start() and a replay request.
TimerFlush ==
  /\ ~stopped /\ flight = None
  /\ Flush(pending)
  /\ UNCHANGED <<files, memory, ready, todo, held, worker, callers, spent, history>>

\* readdir, then read() of each file: groups of scheduling metadata.  Groups are
\* taken up in any order; the code takes them in the order of their first file.
Scan(f) ==
  /\ phase[f] = "scan"
  /\ phase' = [phase EXCEPT ![f] = "run"]
  /\ todo' = [todo EXCEPT ![f] = [i \in Instance |-> Present(active) \intersect EventsOf(i)]]
  /\ ready' = [ready EXCEPT ![f] = {InstOf[e] : e \in Present(active)}]
  /\ held' = [held EXCEPT ![f] = {e \in Present(active) : ~active[e].due}]
  /\ worker' = [w \in Worker |-> IF w[1] = f THEN [IdleWorker EXCEPT !.pc = "pick"]
                                             ELSE worker[w]]
  /\ UNCHANGED <<files, memory, pending, flight, callers, spent, history>>

\* Mutant: the settled flight is not forgotten.
StillHeld(f) == flight

\* flight.finally(): this.flight is cleared unless another flight has replaced it.
Released(f) == IF flight = f THEN None ELSE flight

\* mkdir, readdir or a read failed: the flight rejects before it has workers.
ScanFail(f) ==
  /\ phase[f] = "scan"
  /\ Spend("error")
  /\ phase' = [phase EXCEPT ![f] = "none"]
  /\ flight' = Released(f)
  /\ UNCHANGED <<files, memory, pending, ready, todo, held, worker, callers, history>>

\* Promise.all(workers)
AllReturned(f) == \A w \in Worker : w[1] = f => worker[w].pc = "done"

\* The groups of a round that has ended are garbage.
DropGroups(f) ==
  /\ ready' = [ready EXCEPT ![f] = {}]
  /\ todo' = [todo EXCEPT ![f] = [i \in Instance |-> {}]]
  /\ held' = [held EXCEPT ![f] = {}]

\* The workers have returned: another round, or the flight is over.
EndRound(f) ==
  /\ phase[f] = "run"
  /\ AllReturned(f)
  /\ IF pending /\ ~stopped
     THEN phase' = [phase EXCEPT ![f] = "scan"] /\ pending' = FALSE
     ELSE phase' = [phase EXCEPT ![f] = "exit"] /\ UNCHANGED pending
  /\ DropGroups(f)
  /\ UNCHANGED <<files, memory, flight, worker, callers, spent, history>>

\* flight.finally() runs after process() has decided to return.
ReleaseFlight(f) ==
  /\ phase[f] = "exit"
  /\ phase' = [phase EXCEPT ![f] = "none"]
  /\ flight' = Released(f)
  /\ UNCHANGED <<files, memory, pending, ready, todo, held, worker, callers, spent, history>>

\* The workers left behind by a failed flight have all returned.
ReapOrphan(f) ==
  /\ phase[f] = "orphan"
  /\ AllReturned(f)
  /\ phase' = [phase EXCEPT ![f] = "none"]
  /\ DropGroups(f)
  /\ UNCHANGED <<files, memory, pending, flight, worker, callers, spent, history>>

-----------------------------------------------------------------------------
(* A worker's loop over groups and over the files of a group *)

Goto(w, pc) == worker' = [worker EXCEPT ![w].pc = pc]

\* On to the next file of the group (continue), or to another group (break).
Continue(w) == worker' = [worker EXCEPT ![w].pc = "item", ![w].ev = None, ![w].rec = None]

\* Mutant: blocked is not set, so the worker goes on with the group.
NotBlocked(w) == Continue(w)

Break(w) == worker' = [worker EXCEPT ![w] = [IdleWorker EXCEPT !.pc = "pick"]]

OthersUnchanged ==
  UNCHANGED <<memory, pending, flight, phase, held, callers, spent, accepted, obsolete, prior>>

\* Mutant: nextGroup is read but not advanced.
GroupStays(f, i) == ready[f]

GroupTaken(f, i) == ready[f] \ {i}

\* while (nextGroup < ready.length && !this.stopped)
Pick(w) ==
  /\ worker[w].pc = "pick"
  /\ IF ready[w[1]] = {} \/ stopped
     THEN worker' = [worker EXCEPT ![w] = IdleWorker] /\ UNCHANGED ready
     ELSE \E i \in ready[w[1]] :
            /\ ready' = [ready EXCEPT ![w[1]] = GroupTaken(w[1], i)]
            /\ worker' = [worker EXCEPT ![w] = [IdleWorker EXCEPT !.pc = "item", !.inst = i]]
  /\ OthersUnchanged
  /\ UNCHANGED <<files, todo, received, buried>>

\* nextAttemptAt of the scanned item is still in the future.
NotYet(f, e) == e \in held[f] /\ ~(active[e] # None /\ active[e].due)

\* The head of the for loop: end of the group, end of the turn, or the next file.
NextItem(w) ==
  LET f == w[1]
      i == worker[w].inst
  IN
  /\ worker[w].pc = "item"
  /\ \/ /\ todo[f][i] = {}
        /\ Break(w) /\ UNCHANGED <<ready, todo>>
     \/ /\ todo[f][i] # {} /\ worker[w].sent >= TurnLimit
        /\ ready' = [ready EXCEPT ![f] = @ \union {i}]
        /\ Break(w) /\ UNCHANGED todo
     \/ /\ worker[w].sent < TurnLimit
        /\ \E e \in todo[f][i] :
             /\ \A g \in todo[f][i] : e <= g
             /\ todo' = [todo EXCEPT ![f][i] = @ \ {e}]
             /\ IF stopped \/ NotYet(f, e) THEN Break(w)
                ELSE worker' = [worker EXCEPT ![w].pc = "read", ![w].ev = e,
                                              ![w].sent = @ + 1]
        /\ UNCHANGED ready
  /\ OthersUnchanged
  /\ UNCHANGED <<files, received, buried>>

\* read() has answered; the checks up to the POST run without another await.
Read(w) ==
  LET e == worker[w].ev
      r == active[e]
  IN
  /\ worker[w].pc = "read"
  /\ IF r = None THEN Continue(w)
     ELSE IF Discarded(e, r) THEN Goto(w, "skip")
     ELSE IF ~CanDeliver(e) THEN Break(w)
     ELSE worker' = [worker EXCEPT ![w].pc = "post", ![w].rec = r]
  /\ OthersUnchanged
  /\ UNCHANGED <<files, ready, todo, received, buried>>

\* The receiver got the request and its 2xx answer came back.
PostOk(w) ==
  /\ worker[w].pc = "post"
  /\ received' = received \union {worker[w].ev}
  /\ Goto(w, "ack")
  /\ OthersUnchanged
  /\ UNCHANGED <<files, ready, todo, buried>>

\* Mutant: a failure takes an attempt away instead of adding one.
CountedDown(r) == [r EXCEPT !.attempts = @ - 1, !.due = FALSE]

\* record.attempts++ and a nextAttemptAt in the future.
Attempted(r) == [r EXCEPT !.attempts = @ + 1, !.due = FALSE]

\* Mutant: a refused event is removed like a cancelled one.
GiveUp(w) == Goto(w, "drop")

\* The catch block up to its first await: cancelled, or one attempt more.
AfterFailure(w) ==
  IF Discarded(worker[w].ev, worker[w].rec) THEN Goto(w, "drop")
  ELSE worker' = [worker EXCEPT ![w].pc = "rewrite", ![w].rec = Attempted(worker[w].rec)]

\* Refused, timed out or aborted; the receiver may have got the request or not.
PostFail(w) ==
  /\ worker[w].pc = "post"
  /\ \/ UNCHANGED received
     \/ received' = received \union {worker[w].ev}
  /\ AfterFailure(w)
  /\ OthersUnchanged
  /\ UNCHANGED <<files, ready, todo, buried>>

\* unlink after delivery, of a cancelled file, of a cancelled file whose POST failed.
Unlink(w) ==
  /\ worker[w].pc \in {"ack", "skip", "drop"}
  /\ active' = [active EXCEPT ![worker[w].ev] = None]
  /\ IF worker[w].pc = "drop" THEN Break(w) ELSE Continue(w)
  /\ OthersUnchanged
  /\ UNCHANGED <<dead, ready, todo, received, buried>>

\* write() of the record with its next attempt; it recreates a removed file.
Rewrite(w) ==
  /\ worker[w].pc = "rewrite"
  /\ active' = [active EXCEPT ![worker[w].ev] = worker[w].rec]
  /\ Goto(w, "settle")
  /\ OthersUnchanged
  /\ UNCHANGED <<dead, ready, todo, received, buried>>

Settle(w) ==
  /\ worker[w].pc = "settle"
  /\ IF Discarded(worker[w].ev, worker[w].rec) THEN Goto(w, "drop")
     ELSE IF worker[w].rec.attempts >= MaxAttempts THEN Goto(w, "bury")
     ELSE Break(w)
  /\ OthersUnchanged
  /\ UNCHANGED <<files, ready, todo, received, buried>>

\* quarantine(): rename into dead-letter/, replacing a file of that name.
Bury(w) ==
  LET e == worker[w].ev IN
  /\ worker[w].pc = "bury"
  /\ IF active[e] = None THEN UNCHANGED <<files, buried>>
     ELSE /\ dead' = [dead EXCEPT ![e] = active[e]]
          /\ active' = [active EXCEPT ![e] = None]
          /\ buried' = buried \union {e}
  /\ Break(w)
  /\ OthersUnchanged
  /\ UNCHANGED <<ready, todo, received>>

\* An I/O error rejects the worker, Promise.all and the flight: flight.finally()
\* clears this.flight although the flight's other workers go on.  The unlink
\* after a delivery is inside the try block and counts as a failed attempt.
StorageError(w) ==
  /\ Spend("error")
  /\ \/ /\ worker[w].pc \in {"read", "skip", "drop", "rewrite", "bury"}
        /\ worker' = [worker EXCEPT ![w] = IdleWorker]
        /\ phase' = [phase EXCEPT ![w[1]] = "orphan"]
        /\ flight' = Released(w[1])
     \/ /\ worker[w].pc = "ack"
        /\ AfterFailure(w)
        /\ UNCHANGED <<phase, flight>>
  /\ UNCHANGED <<files, memory, pending, ready, todo, held, callers, history>>

\* Between two awaits a worker runs without interruption to its next read().
Running(w) == worker[w].pc \in {"pick", "item"}
Run(w) == Pick(w) \/ NextItem(w)

\* What a worker does when the file operation or the POST it awaits has ended.
WorkerStep(w) ==
  Read(w) \/ PostOk(w) \/ PostFail(w) \/ Unlink(w) \/ Rewrite(w) \/ Settle(w) \/ Bury(w)

-----------------------------------------------------------------------------
(* discardInstance, called when the connection closes or is removed *)

\* The connection is offline, the epoch changes and the deliveries are aborted
\* before anything is awaited.  A newer call makes the rest of an older one
\* ineffective (epochs.get(key) === epoch).
BeginDiscard(i) ==
  /\ Spend("discard")
  /\ epoch' = [epoch EXCEPT ![i] = spent["discard"] + 1]
  /\ discard' = [discard EXCEPT ![i] = [pc |-> "listActive", left |-> {}]]
  /\ online' = [online EXCEPT ![i] = FALSE]
  /\ obsolete' = obsolete \union {e \in EventsOf(i) \ Lifecycle : producer[e].pc # "new"}
  /\ UNCHANGED <<files, stopped, lane, worker, producer, replay,
                 accepted, received, buried, prior>>

\* readdir; the files of other instances are read too and left alone.
ListDirectory(i) ==
  /\ \/ /\ discard[i].pc = "listActive"
        /\ discard' = [discard EXCEPT ![i] =
             [pc |-> "sweepActive", left |-> Present(active) \intersect EventsOf(i)]]
     \/ /\ discard[i].pc = "listDead"
        /\ discard' = [discard EXCEPT ![i] =
             [pc |-> "sweepDead", left |-> Present(dead) \intersect EventsOf(i)]]
  /\ UNCHANGED <<files, memory, lane, worker, producer, replay, spent, history>>

\* A file of the listing that is this connection's old work.
Obsolete(i, e, r) ==
  r # None /\ e \notin Lifecycle /\ InstOf[e] = i /\ r.epoch # epoch[i]

\* dir with the file of e unlinked if it is.
Swept(i, e, dir) == IF Obsolete(i, e, dir[e]) THEN [dir EXCEPT ![e] = None] ELSE dir

\* Read a listed file and unlink it if it must go, or go on to the next directory.
Sweep(i) ==
  /\ discard[i].pc \in {"sweepActive", "sweepDead"}
  /\ \/ \E e \in discard[i].left :
          /\ discard' = [discard EXCEPT ![i].left = @ \ {e}]
          /\ IF discard[i].pc = "sweepActive"
             THEN active' = Swept(i, e, active) /\ UNCHANGED dead
             ELSE dead' = Swept(i, e, dead) /\ UNCHANGED active
     \/ /\ discard[i].left = {}
        /\ discard' = [discard EXCEPT ![i].pc = IF @ = "sweepActive" THEN "listDead" ELSE "idle"]
        /\ UNCHANGED files
  /\ UNCHANGED <<memory, lane, worker, producer, replay, spent, history>>

\* discardInstance rejects; the rest of the files stay, with their old epoch.
DiscardFail(i) ==
  /\ discard[i].pc \notin {"idle", "failed"}
  /\ Spend("error")
  /\ discard' = [discard EXCEPT ![i] = [pc |-> "failed", left |-> {}]]
  /\ UNCHANGED <<files, memory, lane, worker, producer, replay, history>>

-----------------------------------------------------------------------------
(* replayDeadLetters *)

BeginReplay ==
  /\ replay.pc = "idle"
  /\ Spend("replay")
  /\ replay' = [NoReplay EXCEPT !.pc = "read", !.left = Present(dead)]
  /\ UNCHANGED <<files, memory, lane, worker, producer, discard, history>>

\* attempts = 0 and nextAttemptAt = 0; the epoch stays.
Renewed(e) == NewRecord(dead[e].epoch)

\* read() of a dead letter, and the checks that follow it.
ReplayRead ==
  /\ replay.pc = "read"
  /\ \/ replay.left = {} /\ replay' = NoReplay
     \/ \E e \in replay.left :
          LET next == [replay EXCEPT !.left = @ \ {e}, !.ev = e]
          IN replay' = IF dead[e] = None THEN next
                       ELSE IF Discarded(e, dead[e]) THEN [next EXCEPT !.pc = "clear"]
                       ELSE IF ~CanDeliver(e) THEN next
                       ELSE [next EXCEPT !.pc = "write", !.rec = Renewed(e)]
  /\ UNCHANGED <<files, memory, lane, worker, producer, discard, spent, history>>

ReplayWrite ==
  /\ replay.pc = "write"
  /\ active' = [active EXCEPT ![replay.ev] = replay.rec]
  /\ replay' = [replay EXCEPT !.pc = "check"]
  /\ UNCHANGED <<dead, memory, lane, worker, producer, discard, spent, history>>

\* A closure raced the replay.
ClosedMeanwhile(e, r) == Discarded(e, r)

\* A closure during the write: take the file back out of the active directory.
ReplayCheck ==
  /\ replay.pc = "check"
  /\ replay' = [replay EXCEPT !.pc =
       IF ClosedMeanwhile(replay.ev, replay.rec) THEN "undo" ELSE "clear"]
  /\ UNCHANGED <<files, memory, lane, worker, producer, discard, spent, history>>

ReplayUnlink ==
  /\ \/ /\ replay.pc = "undo"
        /\ active' = [active EXCEPT ![replay.ev] = None]
        /\ replay' = [replay EXCEPT !.pc = "clear"]
        /\ UNCHANGED dead
     \/ /\ replay.pc = "clear"
        /\ dead' = [dead EXCEPT ![replay.ev] = None]
        /\ replay' = [replay EXCEPT !.pc = "read", !.ev = None, !.rec = None]
        /\ UNCHANGED active
  /\ UNCHANGED <<memory, lane, worker, producer, discard, spent, history>>

\* A file operation of the replay failed: the call rejects where it is.
ReplayFail ==
  /\ replay.pc \in {"read", "write", "undo", "clear"}
  /\ Spend("error")
  /\ replay' = NoReplay
  /\ UNCHANGED <<files, memory, lane, worker, producer, discard, history>>

-----------------------------------------------------------------------------
(* Environment *)

\* The connection opens again: data may be delivered.
Open(i) ==
  /\ ~online[i]
  /\ online' = [online EXCEPT ![i] = TRUE]
  /\ UNCHANGED <<files, epoch, stopped, lane, worker, callers, spent, history>>

\* The clock passes nextAttemptAt.
Elapse(e) ==
  /\ active[e] # None /\ ~active[e].due
  /\ active' = [active EXCEPT ![e].due = TRUE]
  /\ UNCHANGED <<dead, memory, lane, worker, callers, spent, history>>

\* stop(): no new work is begun; the flight drains.
Stop ==
  /\ ~stopped
  /\ Spend("stop")
  /\ stopped' = TRUE
  /\ UNCHANGED <<files, epoch, online, lane, worker, callers, history>>

\* The process dies and another one starts on the same directories.
Crash ==
  /\ Spend("crash")
  /\ epoch' = [i \in Instance |-> 0]
  /\ online' = [i \in Instance |-> FALSE]
  /\ stopped' = FALSE
  /\ pending' = FALSE /\ flight' = None
  /\ phase' = [f \in Flight |-> "none"]
  /\ ready' = NoGroups /\ todo' = NoTodo /\ held' = NoGroups
  /\ worker' = NoWork
  /\ producer' = [e \in Event |-> IF producer[e].pc \in {"write", "check", "undo"}
                                  THEN [producer[e] EXCEPT !.pc = "failed"]
                                  ELSE producer[e]]
  /\ discard' = NoDiscard /\ replay' = NoReplay
  /\ UNCHANGED <<files, history>>

-----------------------------------------------------------------------------
ProducerStep(e) == EnqueueWrite(e) \/ EnqueueCheck(e) \/ EnqueueUndo(e)
FlightStep(f) == Scan(f) \/ EndRound(f) \/ ReleaseFlight(f) \/ ReapOrphan(f)
DiscardStep(i) == ListDirectory(i) \/ Sweep(i)
ReplayStep == ReplayRead \/ ReplayWrite \/ ReplayCheck \/ ReplayUnlink

Callback ==
  \/ \E e \in Event : Enqueue(e) \/ EnqueueFail(e) \/ ProducerStep(e) \/ Elapse(e)
  \/ \E f \in Flight : FlightStep(f) \/ ScanFail(f)
  \/ \E w \in Worker : WorkerStep(w) \/ StorageError(w)
  \/ \E i \in Instance : BeginDiscard(i) \/ DiscardStep(i) \/ DiscardFail(i) \/ Open(i)
  \/ BeginReplay \/ ReplayStep \/ ReplayFail
  \/ TimerFlush \/ Stop \/ Crash

\* The event loop: a callback starts when the one before has run to its await.
Next ==
  \/ \E w \in Worker : Run(w)
  \/ (\A w \in Worker : ~Running(w)) /\ Callback

Spec == Init /\ [][Next]_vars

\* Node runs every callback that is due, timers fire, and every await of a file
\* operation or of a POST (it has a timeout) ends.  Nothing obliges the receiver
\* to accept, the connection to open or the process to survive.
Fairness ==
  /\ \A e \in Event : WF_vars(ProducerStep(e)) /\ WF_vars(Elapse(e))
  /\ \A f \in Flight : WF_vars(FlightStep(f))
  /\ \A w \in Worker : WF_vars(Run(w)) /\ WF_vars(WorkerStep(w))
  /\ \A i \in Instance : WF_vars(DiscardStep(i))
  /\ WF_vars(ReplayStep)
  /\ WF_vars(TimerFlush)

FairSpec == Spec /\ Fairness

-----------------------------------------------------------------------------
(* Properties *)

WorkerPc   == {"done", "pick", "item", "read", "post", "ack", "skip", "drop",
               "rewrite", "settle", "bury"}
ProducerPc == {"new", "write", "check", "undo", "done", "failed"}
DiscardPc  == {"idle", "listActive", "sweepActive", "listDead", "sweepDead", "failed"}
ReplayPc   == {"idle", "read", "write", "check", "undo", "clear"}

RecordOrNone == Record \union {None}

FilesType ==
  /\ active \in [Event -> RecordOrNone]
  /\ dead \in [Event -> RecordOrNone]

MemoryType ==
  /\ epoch \in [Instance -> Nat]
  /\ online \in [Instance -> BOOLEAN]
  /\ stopped \in BOOLEAN
  /\ spent \in [Bounded -> Nat]

LaneType ==
  /\ pending \in BOOLEAN
  /\ flight \in Flight \union {None}
  /\ phase \in [Flight -> {"none", "scan", "run", "exit", "orphan"}]
  /\ ready \in [Flight -> SUBSET Instance]
  /\ todo \in [Flight -> [Instance -> SUBSET Event]]
  /\ held \in [Flight -> SUBSET Event]

\* A worker with a group, with a file, with the record it has read.
Grouped == {"item", "read", "post", "ack", "skip", "drop", "rewrite", "settle", "bury"}
Holding == Grouped \ {"item"}
Reading == {"post", "ack", "rewrite", "settle"}

WorkerType ==
  /\ worker \in [Worker -> [pc : WorkerPc, inst : Instance \union {None},
                            ev : Event \union {None}, sent : Nat, rec : RecordOrNone]]
  /\ \A w \in Worker :
       /\ worker[w].pc \in Grouped => worker[w].inst \in Instance
       /\ worker[w].pc \in Holding => worker[w].ev \in Event
       /\ worker[w].pc \in Reading => worker[w].rec \in Record

ActorType ==
  /\ producer \in [Event -> [pc : ProducerPc, epoch : Nat]]
  /\ discard \in [Instance -> [pc : DiscardPc, left : SUBSET Event]]
  /\ replay \in [pc : ReplayPc, left : SUBSET Event, ev : Event \union {None},
                 rec : RecordOrNone]
  /\ replay.pc \in {"write", "check", "undo", "clear"} => replay.ev \in Event
  /\ replay.pc \in {"write", "check"} => replay.rec \in Record

HistoryType ==
  /\ accepted \subseteq Event /\ received \subseteq Event
  /\ obsolete \subseteq Event /\ buried \subseteq Event
  /\ prior \in [Event -> SUBSET Event]

\* The type of every variable, and what an actor holds in each of its states.
TypeOK ==
  FilesType /\ MemoryType /\ LaneType /\ WorkerType /\ ActorType /\ HistoryType

\* An event whose enqueue call returned an id is on disk, or the receiver has
\* got it, or its connection was closed after it was enqueued.
NoLoss ==
  \A e \in accepted :
    e \in Present(active) \union Present(dead) \union received \union obsolete

Posting(w) == worker[w].pc = "post"

\* The events a request is under way for.
Sending == {worker[w].ev : w \in {v \in Worker : Posting(v)}}

\* The cancelled events that the process knows of: a crash has forgotten the epochs.
InForce == {e \in obsolete : epoch[InstOf[e]] # 0}

\* The lane is a durable queue, as long as no dead letter is replayed: what it has accepted
\* is kept until it is received or cancelled, through failed requests, retries, storage
\* errors, stops and crashes; what it sends is in its directory when it is sent, and not
\* cancelled, as far as the process knows.
Queue == INSTANCE DurableQueue WITH
  waiting <- Present(active),
  parked <- Present(dead),
  sending <- Sending,
  cancelled <- obsolete,
  refused <- InForce
KeepsAccepted == Queue!QueueSpec

\* An actor that is going to look again at the file of e in the active directory.
Handled(e) ==
  \/ producer[e].pc \in {"check", "undo"}
  \/ \E w \in Worker : worker[w].ev = e /\ worker[w].pc \in
       {"read", "post", "ack", "skip", "drop", "rewrite", "settle", "bury"}
  \/ replay.ev = e /\ replay.pc \in {"check", "undo", "clear"}

\* Once discardInstance has finished, and unless a file operation failed, no file
\* of the closed connection is left in either directory, except one that another
\* actor is about to remove.
DiscardComplete ==
  spent["error"] = 0 => \A e \in Event :
    LET i == InstOf[e] IN
    /\ (epoch[i] # 0 /\ discard[i].pc \in {"idle", "listDead", "sweepDead"}
          /\ Obsolete(i, e, active[e])) => Handled(e)
    /\ (epoch[i] # 0 /\ discard[i].pc = "idle" /\ Obsolete(i, e, dead[e]))
          => replay.ev = e /\ replay.pc \in {"write", "check", "undo", "clear"}

\* No copy of an event's record carries epoch k.
NoCopyWith(e, k) ==
  /\ producer[e].epoch # k
  /\ active[e] # None => active[e].epoch # k
  /\ dead[e] # None => dead[e].epoch # k
  /\ \A w \in Worker : worker[w].ev = e /\ worker[w].pc \in Reading => worker[w].rec.epoch # k
  /\ replay.ev = e /\ replay.pc \in {"write", "check"} => replay.rec.epoch # k

\* Whatever file, worker, replay or enqueue call holds work of a closed connection,
\* it is recognisable as old: no copy of it ever carries the current epoch.
CancelledIsStale ==
  \A e \in obsolete :
    /\ e \notin Lifecycle
    /\ producer[e].pc # "new"
    /\ epoch[InstOf[e]] # 0
    /\ NoCopyWith(e, epoch[InstOf[e]])

\* A closure cancels all the work there was: what is left of it is recognisable as old, and
\* gone once the closure has been dealt with.
ClosuresCancel == CancelledIsStale /\ DiscardComplete

StartsPost(w) == ~Posting(w) /\ Posting(w)'

\* Work of a closed connection is never sent after the closure.
NoPostAfterClose ==
  [][\A w \in Worker : StartsPost(w) => worker'[w].ev \notin obsolete]_vars

\* The events that e has to wait for: those of its instance accepted before its call
\* began, unless e is planned and they are stamped after it.
Ahead(e) == {g \in prior[e] : e \in Planned => g < e}

\* Retries stay ordered: an event is not sent while an event of the same instance that
\* had been accepted before it waits in the directory, planned events around it or not.
\* Only an event of a rescan goes before a waiting one, if that is stamped after it.
OrderedRetries ==
  [][\A w \in Worker : StartsPost(w) =>
       \A e \in Ahead(worker'[w].ev) : active[e] = None \/ e \in obsolete \union buried]_vars

\* At most one request per instance is in progress.
OnePostPerInstance ==
  \A v, w \in Worker : Posting(v) /\ Posting(w) /\ v # w =>
    InstOf[worker[v].ev] # InstOf[worker[w].ev]

\* The lane's lock is held while one of its requests is running.
LockCoversPosts == \A w \in Worker : Posting(w) => flight = w[1]

\* A lane has one flight, and a flight has one request per instance.
LaneSerial == OnePostPerInstance /\ LockCoversPosts

\* Every accepted event is eventually delivered, dead-lettered or cancelled,
\* unless the outbox stops or its connection is not online.
EventuallySettled ==
  \A e \in Event : e \in accepted ~>
    \/ e \in received \union obsolete \union Present(dead)
    \/ stopped \/ ~online[InstOf[e]]
=============================================================================
