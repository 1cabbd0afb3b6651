----------------------------- MODULE ApiRuntime -----------------------------
(***************************************************************************)
(* The process around the instances: the runtime that binds the port,      *)
(* connects the database and starts the sessions, the loop that restores   *)
(* the stored sessions and tries again, the lifecycle calls of the         *)
(* controller, and the stop that drains them all.                          *)
(*                                                                         *)
(* A session is what the store has of a key.  An object is an Instance; it *)
(* is `up' from create() to shutdown(), whatever its socket does meanwhile *)
(* (that is module InstanceLifecycle).  One step goes to the next await.   *)
(***************************************************************************)
EXTENDS Naturals

CONSTANTS
  Key,        \* owner/instanceName of the sessions
  Object,     \* bound: the Instance objects there can be at a time, 1 .. n
  Client,     \* HTTP clients, each with one call at a time
  Limits      \* bounds: the kinds in Bounded happen as often as one of these allows

Op == {"create", "connect", "delete"}

\* Lifecycle calls, failing awaits, clients that go away before their answer, stops.
Bounded == Op \union {"fault", "gone", "stop"}

ASSUME ApiRuntimeAssumption ==
  Object \subseteq Nat \ {0} /\ Limits \subseteq [Bounded -> Nat]

VARIABLES
  phase,      \* where initialize() is
  closing, ready,
  halt,       \* where cleanup() is
  db,         \* the database is connected
  queue,      \* the outbox and the rescans run
  stopped,    \* Sessions.stopped
  retry,      \* Sessions.retryTimer
  restore,    \* where restore() is: the task of Sessions.starting
  store,      \* what is stored of each key: nothing, unlinked or linked credentials
  owner,      \* instances[key], 0 when undefined
  obj,        \* the objects: their key and what became of them
  call,       \* the lifecycle calls
  locked,     \* keys whose exclusive() runs an action
  deleted,    \* history: keys whose deletion was answered, until they are asked for again
  spent       \* how often each bounded kind has happened

runtime  == <<phase, closing, ready, halt, db, queue>>
sessions == <<stopped, retry, restore>>
calls    == <<call, locked, deleted>>
vars == <<runtime, sessions, store, owner, obj, calls, spent>>

NoObject == [key |-> "none", st |-> "none"]
NoCall   == [op |-> "none", pc |-> "idle", key |-> "none", obj |-> 0, gone |-> FALSE]
Resting  == [pc |-> "idle", key |-> "none", todo |-> {}, auth |-> "none", failed |-> FALSE]

Spend(kind) ==
  /\ spent' = [spent EXCEPT ![kind] = @ + 1]
  /\ \E limit \in Limits : \A k \in Bounded : spent'[k] <= limit[k]

Init ==
  /\ phase = "binding" /\ closing = FALSE /\ ready = FALSE /\ halt = "none"
  /\ db = FALSE /\ queue = FALSE
  /\ stopped = FALSE /\ retry = FALSE /\ restore = Resting
  /\ store \in [Key -> {"none", "unlinked", "linked"}]
  /\ owner = [k \in Key |-> 0] /\ obj = [o \in Object |-> NoObject]
  /\ call = [c \in Client |-> NoCall] /\ locked = {} /\ deleted = {}
  /\ spent = [k \in Bounded |-> 0]

-----------------------------------------------------------------------------
(* Instance objects *)

\* The objects that are up or still drain what they accepted.
Working == {o \in Object : obj[o].st \in {"up", "draining"}}

Registered == {owner[k] : k \in Key} \ {0}

\* instances[key]
Loaded(k) == owner[k] # 0

\* new Instance(...) and the first part of its create(): instances[key] = this.
Launch(k, o) ==
  /\ o \notin Registered /\ o \notin Working
  /\ \A p \in Object : p < o => p \in Registered \union Working
  /\ owner' = [owner EXCEPT ![k] = o]
  /\ obj' = [obj EXCEPT ![o] = [key |-> k, st |-> "up"]]

\* shutdown() begins for these objects, or is joined.
Down(objects) ==
  [o \in Object |-> IF o \in objects THEN [obj[o] EXCEPT !.st = "draining"] ELSE obj[o]]

\* performShutdown() ends, or the final write of the credentials fails.
ShutdownEnds(o) ==
  /\ obj[o].st = "draining"
  /\ \/ obj' = [obj EXCEPT ![o].st = "down"] /\ UNCHANGED spent
     \/ obj' = [obj EXCEPT ![o].st = "failed"] /\ Spend("fault")
  /\ UNCHANGED <<runtime, sessions, store, owner, calls>>

\* The device of an unlinked session is paired through its connection.
Paired(k) ==
  /\ owner[k] # 0 /\ obj[owner[k]].st = "up" /\ store[k] = "unlinked"
  /\ store' = [store EXCEPT ![k] = "linked"]
  /\ UNCHANGED <<runtime, sessions, owner, obj, calls, spent>>

\* Loading the credentials of a key makes and stores new ones when there are none.
LoadStore(k) == store' = [store EXCEPT ![k] = IF @ = "none" THEN "unlinked" ELSE @]

-----------------------------------------------------------------------------
(* ApiRuntime.initialize() *)

Bound ==
  /\ phase = "binding"
  /\ \/ phase' = (IF closing THEN "ended" ELSE "connecting") /\ UNCHANGED spent
     \/ phase' = "failed" /\ Spend("fault")
  /\ UNCHANGED <<closing, ready, halt, db, queue, sessions, store, owner, obj, calls>>

\* connect() ends; queue.start() and sessions.start() follow at once.
Connected ==
  /\ phase = "connecting"
  /\ db' = TRUE
  /\ IF closing
     THEN phase' = "ended" /\ UNCHANGED <<queue, restore>>
     ELSE /\ phase' = "restoring" /\ queue' = TRUE
          /\ restore' = [Resting EXCEPT !.pc = "discover"]
  /\ UNCHANGED <<closing, ready, halt, stopped, retry, store, owner, obj, calls, spent>>

ConnectFails ==
  /\ phase = "connecting" /\ Spend("fault")
  /\ phase' = "failed"
  /\ UNCHANGED <<closing, ready, halt, db, queue, sessions, store, owner, obj, calls>>

MayBeReady == ~closing

SessionsStarted ==
  /\ phase = "restoring" /\ restore.pc = "idle"
  /\ phase' = "ended" /\ ready' = MayBeReady
  /\ UNCHANGED <<closing, halt, db, queue, sessions, store, owner, obj, calls, spent>>

-----------------------------------------------------------------------------
(* Sessions.restore(), and its retries *)

\* Mutant: a failed restore is left at that.
NotRetried(failed) == FALSE

\* scheduleRetry() after a failure.
Retries(failed) == failed /\ ~stopped

\* The loop ends.
EndRestore(failed) ==
  /\ restore' = Resting
  /\ retry' = (retry \/ Retries(failed))

\* The head of the loop: the next key that has no object.
NextSession(todo, failed) ==
  LET left == {k \in todo : ~Loaded(k)}
  IN  IF stopped \/ left = {} THEN EndRestore(failed)
      ELSE /\ \E k \in left :
                restore' = [pc |-> "migrate", key |-> k, todo |-> todo \ {k},
                            auth |-> "none", failed |-> failed]
           /\ UNCHANGED retry

\* discoverFiles() and discoverDatabase(); keys with an ambiguous legacy name are
\* not restored and have no part in the model.
Discover ==
  /\ restore.pc = "discover"
  /\ NextSession({k \in Key : store[k] # "none"}, FALSE)
  /\ UNCHANGED <<runtime, stopped, store, owner, obj, calls, spent>>

Migrate ==
  /\ restore.pc = "migrate"
  /\ restore' = [restore EXCEPT !.pc = "load"]
  /\ UNCHANGED <<runtime, stopped, retry, store, owner, obj, calls, spent>>

\* loadAuth() reads the store; what it read is used after its last await.
LoadAuth ==
  /\ restore.pc = "load"
  /\ restore' = [restore EXCEPT !.pc = "loaded", !.auth = store[restore.key]]
  /\ LoadStore(restore.key)
  /\ UNCHANGED <<runtime, stopped, retry, owner, obj, calls, spent>>

\* Unlinked credentials stay for a manual connect; a key that has got an object
\* meanwhile is left alone; the others get one.
Restored ==
  /\ restore.pc = "loaded"
  /\ IF stopped \/ restore.auth # "linked"
     THEN restore' = [restore EXCEPT !.pc = "drop"] /\ UNCHANGED <<retry, owner, obj>>
     ELSE IF Loaded(restore.key)
     THEN NextSession(restore.todo, restore.failed) /\ UNCHANGED <<owner, obj>>
     ELSE /\ \E o \in Object : Launch(restore.key, o)
          /\ restore' = [restore EXCEPT !.pc = "create"] /\ UNCHANGED retry
  /\ UNCHANGED <<runtime, stopped, store, calls, spent>>

\* auth.drain() or instance.create() has ended.
RestoreNext ==
  /\ restore.pc \in {"drop", "create"}
  /\ NextSession(restore.todo, restore.failed)
  /\ UNCHANGED <<runtime, stopped, store, owner, obj, calls, spent>>

\* One session fails and the loop goes on; a failed discovery ends the task.
\* create() is not among them: it answers a failing setup with a reconnect.
RestoreFails ==
  /\ restore.pc \in {"discover", "migrate", "load", "drop"} /\ Spend("fault")
  /\ IF restore.pc = "discover" THEN EndRestore(TRUE) ELSE NextSession(restore.todo, TRUE)
  /\ UNCHANGED <<runtime, stopped, store, owner, obj, calls>>

\* The timer of scheduleRetry(): start() again.
RetryFires ==
  /\ retry /\ restore.pc = "idle"
  /\ retry' = FALSE
  /\ restore' = [Resting EXCEPT !.pc = "discover"]
  /\ UNCHANGED <<runtime, stopped, store, owner, obj, calls, spent>>

-----------------------------------------------------------------------------
(* The lifecycle calls.  exclusive() runs those of one key one at a time. *)

\* A request passes the readiness guard.
Ask(c) ==
  /\ ready /\ call[c].pc = "idle"
  /\ \E op \in Op, k \in Key :
       /\ Spend(op)
       /\ call' = [call EXCEPT ![c] = [NoCall EXCEPT !.op = op, !.pc = "wait", !.key = k]]
  /\ UNCHANGED <<runtime, sessions, store, owner, obj, locked, deleted>>

\* Its client closes the connection; the handler goes on.
Leaves(c) ==
  /\ call[c].pc # "idle" /\ ~call[c].gone /\ Spend("gone")
  /\ call' = [call EXCEPT ![c].gone = TRUE]
  /\ UNCHANGED <<runtime, sessions, store, owner, obj, locked, deleted>>

\* Mutant: an action that throws leaves its key locked.
KeptLocked(k) == locked

\* The chain of exclusive() goes on, whether the action returned or threw.
Unlocked(k) == locked \ {k}

Go(c, pc, o) == call' = [call EXCEPT ![c].pc = pc, ![c].obj = o]

Answer(c) ==
  /\ call' = [call EXCEPT ![c] = NoCall]
  /\ locked' = locked \ {call[c].key}

\* createUnlocked of a loaded instance is idempotent; one that is not loaded is
\* looked for in the store.
EnterCreate(c, k) ==
  /\ call[c].op = "create"
  /\ IF Loaded(k) THEN Answer(c)
                  ELSE Go(c, "find", 0) /\ locked' = locked \union {k}
  /\ UNCHANGED <<owner, obj, deleted>>

\* connect: reconnect() of the object there is, or a new one.  reconnect() leaves
\* an object alone that is up, and shuts down and creates again one that is not.
EnterConnect(c, k) ==
  /\ call[c].op = "connect"
  /\ deleted' = deleted \ {k}
  /\ IF ~Loaded(k)
     THEN /\ \E o \in Object : Launch(k, o) /\ Go(c, "start", o)
          /\ locked' = locked \union {k}
     ELSE /\ UNCHANGED owner
          /\ IF obj[owner[k]].st = "up" THEN Answer(c) /\ UNCHANGED obj
             ELSE /\ obj' = Down({owner[k]}) /\ Go(c, "again", owner[k])
                  /\ locked' = locked \union {k}

\* delete: clearInstance() of the object there is, or what is stored of the key.
EnterDelete(c, k) ==
  /\ call[c].op = "delete"
  /\ locked' = locked \union {k}
  /\ IF Loaded(k) THEN obj' = Down({owner[k]}) /\ Go(c, "clear", owner[k])
                  ELSE UNCHANGED obj /\ Go(c, "erase", 0)
  /\ UNCHANGED <<owner, deleted>>

Enter(c) ==
  /\ call[c].pc = "wait" /\ call[c].key \notin locked
  /\ \/ EnterCreate(c, call[c].key)
     \/ EnterConnect(c, call[c].key)
     \/ EnterDelete(c, call[c].key)
  /\ UNCHANGED <<runtime, sessions, store, spent>>

\* Mutant: the stored sessions are not looked at.
NeverFound(k) == FALSE

\* InstancesRepository.find()
Found(k) == store[k] # "none"

\* Only a key that is unknown is started.
Find(c) ==
  /\ call[c].pc = "find"
  /\ IF Found(call[c].key)
     THEN Answer(c) /\ UNCHANGED <<owner, obj, deleted>>
     ELSE /\ \E o \in Object : Launch(call[c].key, o) /\ Go(c, "start", o)
          /\ deleted' = deleted \ {call[c].key}
          /\ UNCHANGED locked
  /\ UNCHANGED <<runtime, sessions, store, spent>>

\* create() has loaded the credentials and returns.
Started(c) ==
  /\ call[c].pc = "start"
  /\ LoadStore(call[c].key)
  /\ Answer(c)
  /\ UNCHANGED <<runtime, sessions, owner, obj, deleted, spent>>

\* reconnect(): the shutdown has ended, and the object is created again.
Again(c) ==
  /\ call[c].pc = "again" /\ obj[call[c].obj].st = "down"
  /\ obj' = [obj EXCEPT ![call[c].obj].st = "up"]
  /\ Go(c, "start", call[c].obj)
  /\ UNCHANGED <<runtime, sessions, store, owner, locked, deleted, spent>>

\* clearInstance(): the records go when the shutdown has ended, then the entry.
Clear(c) ==
  /\ call[c].pc = "clear" /\ obj[call[c].obj].st = "down"
  /\ store' = [store EXCEPT ![call[c].key] = "none"]
  /\ Go(c, "forget", call[c].obj)
  /\ UNCHANGED <<runtime, sessions, owner, obj, locked, deleted, spent>>

Forget(c) ==
  /\ call[c].pc = "forget"
  /\ owner' = [owner EXCEPT ![call[c].key] = 0]
  /\ deleted' = deleted \union {call[c].key}
  /\ Answer(c)
  /\ UNCHANGED <<runtime, sessions, store, obj, spent>>

\* delete() of a key without an object: rows, credentials, directory.
Erase(c) ==
  /\ call[c].pc = "erase"
  /\ store' = [store EXCEPT ![call[c].key] = "none"]
  /\ deleted' = deleted \union {call[c].key}
  /\ Answer(c)
  /\ UNCHANGED <<runtime, sessions, owner, obj, spent>>

\* A statement fails, or the shutdown that the call waits for.
CallFails(c) ==
  /\ \/ call[c].pc \in {"find", "forget", "erase"} /\ Spend("fault")
     \/ call[c].pc \in {"clear", "again"} /\ obj[call[c].obj].st = "failed" /\ UNCHANGED spent
  /\ call' = [call EXCEPT ![c] = NoCall]
  /\ locked' = Unlocked(call[c].key)
  /\ UNCHANGED <<runtime, sessions, store, owner, obj, deleted>>

CallStep(c) ==
  \/ Enter(c) \/ Find(c) \/ Started(c) \/ Again(c) \/ Clear(c) \/ Forget(c) \/ Erase(c)
  \/ CallFails(c)

-----------------------------------------------------------------------------
(* ApiRuntime.stop() *)

Stop ==
  /\ halt = "none"
  /\ closing' = TRUE /\ ready' = FALSE /\ halt' = "binding"
  /\ UNCHANGED <<phase, db, queue, sessions, store, owner, obj, calls>>

\* A signal, the message of the supervisor, or an error of the listening server.
Signal == Stop /\ Spend("stop")

\* main stops what a failed start has reached.
StartFailed == phase = "failed" /\ Stop /\ UNCHANGED spent

\* The binding has settled; the server is closed.
StopListening ==
  /\ halt = "binding" /\ phase # "binding"
  /\ halt' = "http"
  /\ UNCHANGED <<phase, closing, ready, db, queue, sessions, store, owner, obj, calls, spent>>

\* The requests whose client waits have been answered: Sessions.shutdown() begins.
HttpDrained ==
  /\ halt = "http"
  /\ \A c \in Client : call[c].pc = "idle" \/ call[c].gone
  /\ halt' = "drain"
  /\ stopped' = TRUE /\ retry' = FALSE
  /\ obj' = Down(Registered)
  /\ UNCHANGED <<phase, closing, ready, db, queue, restore, store, owner, calls, spent>>

\* Mutant: the first shutdown that fails ends the wait for the others.
AnyFailed ==
  (\E o \in Registered : obj[o].st = "failed") \/ \A o \in Registered : obj[o].st # "draining"

\* Promise.allSettled(...) over the instances there were.
AllSettled == \A o \in Registered : obj[o].st # "draining"

\* Drained, then the restore in flight has ended, then drained again.
Drained ==
  /\ halt = "drain" /\ AllSettled
  /\ halt' = "starting"
  /\ UNCHANGED <<phase, closing, ready, db, queue, sessions, store, owner, obj, calls, spent>>

RestoreEnded ==
  /\ halt = "starting" /\ restore.pc = "idle"
  /\ halt' = "redrain"
  /\ obj' = Down(Registered)
  /\ UNCHANGED <<phase, closing, ready, db, queue, sessions, store, owner, calls, spent>>

DrainedAgain ==
  /\ halt = "redrain" /\ AllSettled
  /\ halt' = "start"
  /\ UNCHANGED <<phase, closing, ready, db, queue, sessions, store, owner, obj, calls, spent>>

\* Mutant: the start in flight is not awaited.
StartIgnored == TRUE

\* await this.starting
StartSettled == phase \in {"ended", "failed"}

StopQueue ==
  /\ halt = "start" /\ StartSettled
  /\ halt' = "queue"
  /\ queue' = FALSE
  /\ UNCHANGED <<phase, closing, ready, db, sessions, store, owner, obj, calls, spent>>

Disconnect ==
  /\ halt = "queue"
  /\ halt' = "done"
  /\ db' = FALSE
  /\ UNCHANGED <<phase, closing, ready, queue, sessions, store, owner, obj, calls, spent>>

HaltStep ==
  \/ StartFailed \/ StopListening \/ HttpDrained \/ Drained \/ RestoreEnded
  \/ DrainedAgain \/ StopQueue \/ Disconnect

-----------------------------------------------------------------------------
StartStep == Bound \/ Connected \/ SessionsStarted
RestoreStep == Discover \/ Migrate \/ LoadAuth \/ Restored \/ RestoreNext \/ RetryFires

Next ==
  \/ StartStep \/ ConnectFails
  \/ RestoreStep \/ RestoreFails
  \/ \E o \in Object : ShutdownEnds(o)
  \/ \E k \in Key : Paired(k)
  \/ \E c \in Client : Ask(c) \/ Leaves(c) \/ CallStep(c)
  \/ Signal \/ HaltStep

Spec == Init /\ [][Next]_vars

\* Every await ends: of a statement (its error is an end), of a shutdown, of a
\* setup, of a timer.  Nobody is obliged to call, to pair a device or to stop.
FairSpec ==
  /\ Spec
  /\ WF_vars(StartStep) /\ WF_vars(RestoreStep)
  /\ \A o \in Object : WF_vars(ShutdownEnds(o))
  /\ \A c \in Client : WF_vars(CallStep(c))
  /\ WF_vars(HaltStep)

-----------------------------------------------------------------------------
(* Properties *)

\* The type of every variable; the locked keys are those with an action under way.
TypeOK ==
  /\ phase \in {"binding", "connecting", "restoring", "ended", "failed"}
  /\ halt \in {"none", "binding", "http", "drain", "starting", "redrain", "start", "queue", "done"}
  /\ {closing, ready, db, queue, stopped, retry} \subseteq BOOLEAN
  /\ restore.pc \in {"idle", "discover", "migrate", "load", "loaded", "drop", "create"}
  /\ restore.todo \subseteq Key
  /\ store \in [Key -> {"none", "unlinked", "linked"}]
  /\ owner \in [Key -> Object \union {0}]
  /\ \A k \in Key : owner[k] # 0 => obj[owner[k]].key = k
  /\ \A c \in Client : call[c].op \in Op \union {"none"} /\ call[c].obj \in Object \union {0}
  /\ locked = {call[c].key : c \in {d \in Client : call[d].pc \notin {"idle", "wait"}}}
  /\ deleted \subseteq Key

\* What has not come together yet: a deletion with both a failure and a creation, or a
\* deletion with a client that has gone away.  A failed restore is tried again with
\* credentials loaded before the deletion, beside the create that follows it; and a stop
\* does not wait for the deletion of a client that has gone.
Apart ==
  spent["delete"] = 0 \/ (spent["gone"] = 0 /\ (spent["fault"] = 0 \/ spent["create"] = 0))

\* Every object that works is the one of its key.
AllRegistered == \A o \in Working : owner[obj[o].key] = o

\* As long as these are apart no connection is left that no call, supervisor or stop can
\* reach, however the restore and the calls interleave.
NoOrphan == Apart => AllRegistered

\* The API says it is ready only when the database, the queue and the sessions have
\* been started, and never again once it is stopping.
ReadyIsUsable == ready => db /\ queue /\ phase = "ended" /\ halt = "none"

\* Something of the sessions, or a call whose client waits, needs the database.
InUse ==
  \/ restore.pc # "idle" \/ retry
  \/ Working # {}
  \/ \E c \in Client : call[c].pc # "idle"

\* The database outlives everything that uses it, an orphan excepted (Apart).  A call whose
\* client has gone is not waited for, so this is about behaviours in which every client waits.
DatabaseOutlivesUse == Apart /\ spent["gone"] = 0 /\ InUse => db

\* What was started is stopped when stop() ends, wherever the start was then.
StopUndoesStart == halt = "done" => ~db /\ ~queue /\ ~ready /\ phase \in {"ended", "failed"}

\* What the API says and holds follows its start and stop, wherever they meet.
StartAndStopAgree == TypeOK /\ ReadyIsUsable /\ StopUndoesStart

\* A deleted instance is not there again before somebody asks for it.
DeletedStaysDown == \A o \in Working : obj[o].key \notin deleted

\* stop() ends, whatever failed and however far the start was.
StopEnds == halt # "none" ~> halt = "done"

\* A linked session that is not up is restored, after however many failures,
\* unless it is deleted, or the API stops.
RestoredAtLast ==
  \A k \in Key : db /\ store[k] = "linked" ~> closing \/ owner[k] # 0 \/ store[k] # "linked"
=============================================================================
