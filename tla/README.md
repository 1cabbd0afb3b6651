# Verification of ZapToBox WhatsApp API

TLA+ models of the parts of this API in which the order of things matters: the durable webhook
outbox, the life of a WhatsApp instance and its socket, its authentication state, the replay of
stored history, the start and stop of the process, and the bounded services around an instance
(lifecycle lock, contact writes, presence, link previews, thumbnails, media, group catalogue). TLC
checks them on small instances, TLAPS proves what matters most for every instance. `PROJECT.json`
maps each definition to the lines it models, and lists the runs, the mutants (a plausible bug for
each property, which the property must catch), the hazards, the findings and the theorems.

    tlc -workers 2 -config MCWebhookOutbox_closures.cfg MCWebhookOutbox.tla
    tlc -workers 2 -config MCServices_services.cfg MCServices.tla
    tlapm WebhookOutboxProofs.tla          # and the other modules named ...Proofs

The process is a single Node event loop. What runs between two awaits is one step; everything
else (file operations, database statements, requests, timers, socket events) interleaves. All
models cut the code at its awaits, and at nothing else.

## 1. The system

Paths are below `src/src/`.

| Part | State | Operations | Talks to |
|---|---|---|---|
| Webhook outbox (`infra/webhook/outbox.ts`, one object per lane) | files in the queue directory and in `dead-letter/`; in memory: epochs, `flight`, `pending`, `stopped`; the index of pending history | `enqueue`, `flush`, `discardInstance`, `replayDeadLetters`, `hasPendingHistory`, `start`, `stop` | the receiver (POST), `instanceConnection` (through `canDeliver`) |
| Instance (`infra/baileys/services.ts`) | generation, socket, setup, timer, event tail and tasks, QR and pairing codes, status, flags `stopped`, `revoked`, `draining` | `create`, `reconnect`, `disconnect`, `clearInstance`, `shutdown`, `checkHealth`, handlers of the socket's events | Baileys, authentication state, Prisma, the outbox |
| Authentication state (`infra/state/auth-state.ts`) | `creds`, the chain `pending`, the map `unsaved`; rows or a snapshot file; a legacy directory | `get`, `set`, `saveCreds`, `drain`, `reset`, `remove`, load and import | database or files |
| History rescan (`infra/history-rescan/`) | one row per job: status, state, staged page, lease, attempts | `request`, `begin`, `cancel`, a worker's cycle, `start`, `stop` | Prisma, the outbox, the instance's snapshot |
| Event emission (`shared/utils.ts`) | none of its own | `trySendWebhook`: closes a connection's work, splits data in chunks, enqueues | outbox, rescan, media downloads |
| Lifecycle controller (`infra/http/controllers/instances.ts`) | a chain of calls per instance | create, connect, disconnect, delete, one at a time per instance | `instances`, Instance |
| Session restore (`infra/state/sessions.ts`) | `starting`, `retryTimer`, `stopped` | restore loop at start, supervisor of all instances, `shutdown` | Instance, Prisma |
| API runtime (`runtime.ts`) | `closing`, `ready`, `bound` | `start`, `stop` | port, database, outbox, sessions |
| Contact write safety (`infra/baileys/contact-safety.ts`, the provider's patch in `tools/`) | per socket: `busy`, `uncertain`, the prepared write and what it visited | `execute`, the guard that the provider calls | socket |
| Contact plan (same file) | none: three lookups, one after another | `resolveContactPlan` | database, provider |
| Presence (`infra/baileys/presence-state.ts`) | snapshots, targets, requests, epoch | `subscribe`, `observe`, `clear` | socket |
| Link previews (`infra/link-preview/service.ts`) | cache, pending work, slots and their waiters | `preview` | network, thumbnails |
| Thumbnails (`infra/link-preview/thumbnail.ts`) | worker count, queue | `createPreviewThumbnail` | worker threads |
| Media downloads (`infra/http/controllers/media.ts`, `media-budget.ts`, `infra/baileys/media-reupload.ts`) | a count for the process, a set per instance | `getMedia`, `cancelMediaDownloads` | socket, WhatsApp's servers |
| Group and community catalogue (`infra/http/controllers/sections.ts`, `infra/baileys/sections-state.ts`) | per socket: the log of changes, the cached promise | `getSections`, `noteGroupSpaceChanges` | WhatsApp's queries, Prisma, the event queue |
| Prisma repositories (`core/connection/prisma.ts`) | a chain of writes per instance | `serialized` | database |
| Names, progress, message mapping, bounded caches, HTTP, configuration | see section 8 | | |

The behaviours that are hard here:

- **Former sockets.** Every handler of a socket may resume after the socket was replaced. The
  code's answer is a generation number compared after each await.
- **Closures.** When a connection closes, what was queued for it must not be sent later, while
  producers, workers, retries and replays hold copies of it. The answer is an epoch per instance.
- **Unconfirmed writes.** A write of Signal keys that failed, or whose answer was lost, must be in
  storage before the next socket opens, in order. A contact write that may have been sent must be
  told so, and nothing may follow it.
- **Crashes.** The outbox, the authentication state and the rescan jobs survive a crash at any
  await; epochs, `unsaved`, leases in memory and staged replays do not.
- **Storage errors** in one of several concurrent workers.
- **Progress.** Timers, `pending` flags and reconnects hand the job of noticing work to each other.
- **Start, stop and restore**, each of several awaits, against one another and lifecycle calls.
- **Places.** Slots, workers and downloads are counted; an answer, a deadline, a cancellation and a
  closure may each end the work that holds one, and it must come back once.
- **Snapshots.** What was read before an await (an index, a catalogue, a mapping of contacts) is
  merged with what changed meanwhile.

What makes each part correct is stated as properties in its module, and in `PROJECT.json` under
`hazards` at the line where it could go wrong.

## 2. Modules

| Module | Models | Role |
|---|---|---|
| `WebhookOutbox` | `outbox.ts`, `canDeliver` | the lane: producers, flights, workers, closures, replays, crash |
| `DurableQueue` | | abstract: what a lane promises; `WebhookOutbox` implements it |
| `WebhookOutboxProofs` | | theorems about `WebhookOutbox`, the refinement among them |
| `HistoryIndex` | `hasPendingHistory` and the index of `outbox.ts` | lookups against writes, requests, closures and scans |
| `HistoryIndexProofs` | | theorems about it |
| `InstanceLifecycle` | `services.ts`, the calls of `instances.ts` on a loaded instance | one instance |
| `InstanceLifecycleProofs` | | theorems about it |
| `ApiRuntime` | `runtime.ts`, `sessions.ts`, create, connect and delete of `instances.ts` | the process, its sessions, the lifecycle calls |
| `ApiRuntimeProofs` | | theorems about it |
| `PersistentAuth` | `auth-state.ts` | the authentication state of one instance |
| `PersistentAuthProofs` | | theorems about it |
| `FifoLock` | | abstract: a first-come first-served lock per name |
| `PromiseChain` | `exclusive` of `instances.ts`, `serialized` of `prisma.ts` | implements `FifoLock` |
| `RescanPage` | `plan` of `service.ts`, `chunks.ts` | pure operators: what a page contains |
| `HistoryRescan` | `service.ts`, `prisma-store.ts`, `delivery.ts`, `index.ts` | jobs, worker, cancellations, connections |
| `HistoryRescanProofs` | | theorems about it |
| `ContactPlan` | `resolveContactPlan` | whom a contact write is about |
| `ContactSafety` | `execute` and the guard | the gate for contact writes of one socket |
| `PresenceSubscriptions` | `presence-state.ts`, `subscribePresence` | shared, bounded subscriptions over connections |
| `LinkPreviews` | `link-preview/service.ts` | cache, shared work, slots |
| `ThumbnailPool` | `link-preview/thumbnail.ts` | worker threads and their queue |
| `MediaDownloads` | `media.ts`, `media-budget.ts`, `media-reupload.ts` | downloads, closures, renewal |
| `MediaProofs` | | theorems about `MediaDownloads`, `ThumbnailPool` and `LinkPreviews` |
| `GroupCatalog` | `sections.ts`, `sections-state.ts` | the catalogue of groups against their changes |
| `ServiceProofs` | | theorems about `PromiseChain` (its refinement among them), `ContactPlan`, `ContactSafety`, `PresenceSubscriptions` and `GroupCatalog` |
| `MCServices` | | the services that share no state, for TLC |
| `MC...` | | small instances for TLC |

### WebhookOutbox and HistoryIndex

An event is its place in the order the lane is sorted in: by timestamp, then by file name
(`outbox.ts:211`). A live event is stamped when its call begins, so it comes after those before it. An
event of a rescan (`Planned`) carries the stamp of its page's planning (`history-rescan/service.ts:173`,
176) and may be enqueued later than live events that come after it. A file
is a record `[attempts, due, epoch]` in `active[e]` or `dead[e]`; payloads are left out. A flight is
one call of `process`: `Scan` reads the directory, each `worker[<<f, s>>]` picks a ready instance,
takes its events in order, reads the file, posts, unlinks or rewrites it or moves it to
`dead-letter/`. `Run(w)` is a worker that does not await: no other callback runs before it has come
to an await (`Next` gives it priority). `producer[e]` is a call of `enqueue` cut at its awaits,
`discard[i]` a call of `discardInstance`, `replay` the call of `replayDeadLetters`. A storage error
(`StorageError`, `ScanFail`, `EnqueueFail`, `DiscardFail`, `ReplayFail`) takes the exit that the
rejection takes in the code; a flight whose `Promise.all` has rejected leaves orphan workers behind,
as in the code. `accepted`, `received`, `obsolete`, `buried` and `prior` are history variables: no
action reads them.

`DurableQueue` is what is left of a lane when all that is inside it is left out: an event waits, is
parked (a dead letter), is under way, received, cancelled; its producer has been told or not. It
demands that only what was received, cancelled or never acknowledged is removed, that what is sent waits
in the directory, and that what was cancelled is not sent; it allows requests to fail, events to be sent
more than once, and a restart to forget what was cancelled (`refused`). `KeepsAccepted` is its
specification under the mapping `Present(active)` to waiting, `Present(dead)` to parked, the events of
posting workers (`Sending`) to sending, `obsolete` to cancelled, and those of them whose instance has an
epoch (`InForce`) to refused. A worker's reads, checks and waits are stutters of the queue.

`HistoryIndex` has the same lane reduced to what the index reads: the files, the epochs they carry
(`stamp`), the writes and requests under way. A scan lists, reads file by file and ends;
`scan.added` is what writes put in while it ran, `FoundNow` drops what a closure has made old,
`IndexExpires` is the second that an index lasts. `replies` is the answer of the step just taken,
with what was waiting when the question was put.

### InstanceLifecycle

A socket is named by the generation that made it. `setup` is `setupTask` cut at its awaits,
`task[t]` is the handler of the socket event number t, `down` is `shutdownTask`, `call` is the
lifecycle call that holds the controller's lock. The authentication state is reduced to versions:
in memory, stored, waiting to be stored. What the handlers of messages, contacts and history do
with their data is one step that may fail: failing is all the lifecycle sees of it.

### ApiRuntime

`phase` is how far `start` has come, `halt` how far `stop` has; each await of either is a step, followed
by the code's look at `closing`. `restore` is the loop over the stored sessions: it discovers,
migrates, loads the credentials of one key, and creates an instance unless `instances[key]` is there.
`call[c]` is a lifecycle call, with the wait for the controller's lock (`locked`). An object is `up` from
`create` to the end of `shutdown`, whatever its socket does meanwhile. `owner[k]` is `instances[k]`,
`deleted` remembers the deletions that answered success.

### PersistentAuth

`queue` is the chain of promises `pending`, its head the operation that runs; `stage` says whether
its storage call has been sent and whether storage has done it. A failed write is a rejection
before the effect (`fail`) or after it (`lost`: a transaction that committed and whose answer did
not arrive). `unsaved` and `entry` are the map `unsaved`. `log` is a history variable: the changes
in the order they ran; a crash cuts it down to what storage holds. The environment is read off
`services.ts`: key operations come one at a time (the key store of Baileys), reset and remove come
when the socket's operations have settled, and after a failed reset of revoked credentials the
next operation is another reset (`performShutdown`, line 648).

### PromiseChain and FifoLock

A call puts its promise in the map at once (`Chain`), its action starts when the promise it was chained
on has settled (`Run`), settles (`Settle`), and the call removes the entry if it still is its own
(`Return`). `FifoLock` has only numbers: who asked when, who is inside. `ServesInOrder` is `FifoLock`'s
specification under the mapping `chained` to waiting, `running` to inside, settled to done.

### RescanPage and HistoryRescan

`RescanPage` is the function from a job's state and the table to a page of events and the next
state. `HistoryRescan` is the protocol around it: two lookups and a transaction for a request; next,
claim, renew, plan, stage, renew and emit each event, advance, fail, release for the worker. Each
database statement is one step; a statement may fail, and a lease may expire between any two. `conn` is
the connection (`connectionUpdatedAt`); the cancellation of a closed connection reaches the database
later (`cancels`). `enqueued` and `answers` are history variables.

### The services around an instance

`ContactPlan` is `resolveContactPlan`: each lookup is a step that may answer anything (the provider
is external), each comparison a guard. `ContactSafety` is `execute`: preflight, resync, the provider's
encoding and sending with the guard called before each, the answer, the commit. `visited` and
`prepared` are the flags the guard sets, `sent` and `confirmed` what really happened (history).

`PresenceSubscriptions` names a request object by the poll that made it; `request`, `pending`,
`completed` are the map and the fields, `outcome` the promise, `work` the action that runs on after a
timeout. `LinkPreviews` names the work of a preview by its caller, with the cache, `pendingOf` and
`waiters` as in the code. `ThumbnailPool` separates what the job was told (`settled`) from its
worker's life (`worker`). `MediaDownloads` gives every set of downloads an identity, because a download
leaves the set it joined, which may no longer be the instance's. A connection that closes aborts its
downloads in the step that detaches the socket (`ClosesMedia`, `closeSocket`); a shutdown only detaches it
(`ShutsMedia`, `performShutdown`), and the abort comes with `connection.removed`, or with the closure of a
new socket, or never (`TellsClosure`, which no fairness obliges).

`GroupCatalog` replaces the fields of a group by a version: a row is newer if its version is higher. `wire`
is what WhatsApp has sent (events and answers share one connection, in order); an event is noted in the
log as it arrives and saved later by the event queue. `began` and `observed` are the revisions between
which a call collects, `gathered` its updates, `LaterChanges` its second look at the log.

## 3. What the runs show

| Run | Instance | Shows |
|---|---|---|
| `closures` | 2 events of 1 instance, 2 workers, 1 closure; or 1 event, 2 flights, with 2 closures and a replay, 1 closure and 2 replays, or a closure, a replay and a storage error | one request at a time and under the lane's lock; nothing old is taken for new, nothing is sent after its closure, and without errors none of it stays on disk |
| `delivery` | 2 events of 1 instance, one of them planned by a rescan and one a lifecycle event, 2 attempts each; 1 storage error, or 1 crash and 1 stop, or 1 crash and, around one event, 1 closure; fairness | the lane implements `DurableQueue`: accepted events are on disk until received or cancelled; none overtakes one that will be retried, except a planned one that is stamped before it; each gets to its end |
| `lifecycle` | 2 socket events; 2 closures, a logout, 2 calls; or failing tasks and setups; or a logout, 3 calls and failing writes of a shutdown; fairness | one socket, one attempt, late handlers are inert; there is always a way back and it is taken; sockets open on stored credentials only; a shutdown leaves nothing running |
| `pages` | 2 kinds of 3 rows, pages of 2, chunks of 1; 2 failures and a row that changes, or a crash, a closure, a failure and a pause; fairness | repeated events are identical; nothing is skipped or doubled; every job ends |
| `jobs` | 2 clients, 2 keys, 2 jobs; 2 requests, 2 closures and a failure, or 3 requests and a closure | jobs keep to their connection and stay ended; one job per key |
| `runtime` | 2 sessions, 2 clients, a stop at every point; 2 failures beside create and connect, or beside connect and delete; or the three calls; or a client that goes away; or a deletion with a failure and a creation, or with a failure and a client that goes away; fairness | no false readiness, stop undoes start and ends, linked sessions come back; as long as `Apart`, no orphan, and the database outlives its use |
| `services` | ten services, see below; fairness | each one's properties |
| `storage`, `replayLoss`, `qrLimit`, `restoreDelete`, `backlog` | | the findings below |

The faults of a run are given as `Limits`, a set of alternatives: in one behaviour the bounded kinds
happen as often as one of them allows. So a run can hold `an error' and `a crash and a stop'
without paying for their product. Between them the runs of a module fire all its actions, and each
property is broken by a mutant of the code under the run that checks it.

**`services`** holds the modules that share no state: a behaviour follows the one that `focus` names and
leaves the others in one initial state, so what TLC checks is each of them by itself, in one run.
This is sound because none of them reads or writes a variable of another (every `...Step` of
`MCServices` leaves the others' variables unchanged), and none has a fair action that is enabled at rest.
Callers that differ by name only are made to come in one order (`InOrder`): no module tells them apart and
no fairness obliges them to come, so each behaviour is one of those up to the names.

| Focus | Instance |
|---|---|
| `auth` | 1 key and the credentials; 3 calls with 1 failed write and 1 crash or removal, or 2 with failed and unanswered writes and a crash or a removal |
| `chain` | 3 calls on 2 names |
| `plan` | 2 phones, 2 LIDs |
| `contact` | 2 writes |
| `presence` | 3 polls of 2 contacts, 1 request at a time, 2 connections |
| `preview` | 3 previews of 3 links of 2 connections; 1 slot, 2 pending, 2 entries, 1 per connection |
| `pool` | 4 jobs, 2 workers, a queue of 1 |
| `media` | 3 downloads, 2 at a time, 2 connections, the first ended by a closure or a shutdown |
| `history` | 1 run around a closure, a request or a restart with a replay; 2 runs around a scan |
| `catalog` | 2 groups, one query, 2 calls, a log of 3 entries, 1 change, 1 mishap |

Properties that say one thing together are checked as one, a conjunction of named parts; the parts are
stated one by one, each with its comment, in the module.

| Property | Parts |
|---|---|
| `LaneSerial` | `OnePostPerInstance`, `LockCoversPosts` |
| `ClosuresCancel` | `CancelledIsStale`, `DiscardComplete` |
| `ConnectsOnce` | `OneSocket`, `OneAttempt` |
| `ShownIsTrue` | `CodeOfCurrentSocket`, `OnlineHasSocket` |
| `Reconnects` | `KeepsTrying`, `SilentCloseNoticed` |
| `StartAndStopAgree` | `TypeOK`, `ReadyIsUsable`, `StopUndoesStart` |
| `AuthSafety` | `TypeOK`, `StoreIsPrefix`, `ReadsLatest`, `NoReimport` |
| `GateSafety` | `ContactTypeOK`, `TruthfulAnswers` |
| `PresenceSafety` | `PresenceTypeOK`, `OneSubscription`, `RequestsBounded`, `OnlyThisConnection` |
| `PreviewSafety` | `PreviewTypeOK`, `SlotsCounted`, `OneWorkPerLink`, `CacheBounded` |
| `PoolSafety` | `PoolTypeOK`, `PlacesCounted`, `QueueIsLive`, `NoLateThumbnail` |
| `MediaSafety` | `MediaTypeOK`, `PlacesMatchDownloads`, `ClosureReaches`, `RenewedOnce` |
| `IndexSafety` | `NewBacklogSeen`, `NoCancelledBacklog` |
| `CatalogSafety` | `CatalogTypeOK`, `CatalogFresh`, `NewsStored` |
| `ServicesLive` | `Recovers`, `EveryCallRuns`, `GateFreed`, `PollsAnswered`, `PreviewsEnd`, `ThumbnailsEnd`, `MediaEnds` |

Why the bounds are enough. The properties of the outbox relate at most two events of one instance
(order, one request at a time) or one event and the actors that hold it; two flights are the most
that matter because a third starts only when the lock is free again, exactly like the second. Two
closures are needed because the epoch's first value is special (`epoch[i] # 0`). For the instance,
a third generation meets handlers of two earlier ones. For the authentication state the interesting
history is: a change that fails, a later one that does not, a read. For a rescan, three rows with
pages of two make a full page, a short last page and a hidden row on each side of the boundary. For
the runtime one key shows the races of a key and the second that a loop goes on after a failure. A chain
of three calls has a first, a middle and a last; the limits of the bounded services are reached by
one caller more than there are places, and their maps are shared, evicted and renewed (the previews'
bound on all entries is the exception: with two connections of one entry each it is met by the bound per
connection, and `PreviewsAreSafe` proves it for all). The log of the
catalogue overflows when both answers of a query and the change are noted beside one another.

### Findings (runs that expect a violation)

| Run | What the code does |
|---|---|
| `storage` | One worker's storage error releases the lane while other workers still post: the next flight posts for the same instance in parallel (`outbox.ts:192`). |
| `replayLoss` | A replayed event that fails again at once is dead-lettered under the name that the replay is about to unlink: it is lost (`outbox.ts:341`). |
| `qrLimit` | The handler of the QR limit stops whatever socket is current when its webhook has been stored (`services.ts:421`). |
| `restoreDelete` | A deletion that falls between the load of a session's credentials and the creation of its instance answers success, and the instance is up afterwards (`sessions.ts:126`). |
| `backlog` | After a closure and a restart the index ignores records that the worker will deliver: a run whose events wait is said not to wait (`outbox.ts:278`). |

The passing runs and the theorems say under which conditions these properties do hold, and the
theorems that nothing else is needed: `OnePostPerInstance` without storage errors, or with one slot or
one instance (`LaneIsSerial`); `NoLoss` without a replay (`NothingLost`); `FormerSocketInert` except at
the QR limit; `NewBacklogSeen` for the records of this process (`NewWorkSeen`).

### Conditions that are not findings

More properties hold only under a condition. They have no run of their own; the modules contain the
behaviour.

- `OrderedRetries` asks of an event of a rescan only that it waits for the accepted events stamped before
  it (`Ahead`). It carries the time its page was planned and the lane sorts by time (`outbox.ts:211`), so
  when it is enqueued while a later-stamped live event waits for its retry, it is sent before that one.
  "each lane keeps retries ordered within an instance" (`outbox.ts:44`) is thus true in the order of the
  timestamps, not in that of acceptance.

- `NoPostAfterClose` and `CancelledIsStale` need a process that does not crash: epochs are in memory,
  and work cancelled by a closure whose sweep a crash cut off is sent after the restart
  (`outbox.ts:57`). Across crashes `KeepsAccepted` holds: until the restart cancelled work is not sent.
  `DiscardComplete` needs storage without errors besides.
- `OnlineHasSocket` needs shutdowns whose last write succeeds: one that fails leaves the status
  `ONLINE` without a socket (`services.ts:650`).
- `NoReimport` speaks of the time from a reset to the next removal that storage has done. A removal
  takes the marker of the reset with the rows; if a crash comes before the directory is deleted as
  well, the legacy session is imported again (`services.ts:660`).
- `IdempotentKey` is about keys that created or repeated their own job: a key that was answered with
  the active job of another key names another job later (`history-rescan/service.ts:90`).
- `NoOrphan` and `DatabaseOutlivesUse` are stated under `Apart` (`ApiRuntime`): no deletion has happened,
  or else no client has gone away and not both a failure and a creation have happened. The limits of
  `runtime` go beyond it, and there `AllRegistered`, which is `NoOrphan` without the condition, does not hold.
  A failed restore is tried again with credentials that were linked when they were loaded, although
  their key has been deleted since (`sessions.ts:126`). That is what `restoreDelete` shows; a create beside
  it makes one object and the restore another, and one replaces the other in `instances`
  (`instances.ts:32`), whose socket stays open with nobody to reach it. So "uma única tentativa por instância"
  (`docs/connection-recovery.md:38`), "sem duplicar instâncias já restauradas" (line 40) and "não criam
  sockets concorrentes" (line 44) do not hold of a deletion, a failed restore and a creation together.
  And the server does not wait for a handler whose connection is closed: its deletion may still run when
  the sessions have been shut down, and forget an object that a restore has just made. Apart from
  that, a call of a client that is gone may still run when the database goes, which
  `DatabaseOutlivesUse` leaves aside (`spent["gone"]`). `RestoredAtLast` needs no condition.
- `ClosureReaches` says that a running download nobody has aborted is in the set which the next closure
  to be told aborts. That is at once when a connection closes. A shutdown detaches the socket and its
  listeners (`services.ts:642`) and tells `connection.removed` only after awaits that may fail (664, 684,
  `instances.ts:64`), and a `reconnect` (621) or a stop of the process never
  does; `docs/scalability-review.md:22` says of a stop of the process that it drains. Until then, or until its 45 seconds, such a download runs
  on, may end well, and may do so beside the downloads of the next connection, whose set it shares; a
  renewal it asks for is refused, and one it waits for ends by its own timer (`detached`).
- `NewBacklogSeen` leaves out writes that `straddled` a scan: one that began before it, was not in
  its listing and was over before its end. Such a run is missed until the index expires, a second
  later (`outbox.ts:290`).
- `CatalogFresh` leaves out calls that `overrun` the log: more changes while the result is being saved
  than its 2000 entries hold. The second look at the log does not ask whether it is complete
  (`sections.ts:103`), and the result is cached. It speaks of full catalogues only, as `partial` tells
  the client of others. `NewsStored` speaks of an open connection whose events have all been written.
- `TruthfulAnswers` is about answers that say nothing was sent or that the contact was saved. A later
  call on a socket that is blocked by an earlier doubt answers `CONTACT_WRITE_UNCERTAIN` although nothing
  of it was sent (`contact-safety.ts:12`): not false, since it says that the outcome is unknown.

## 4. Fairness

Weak fairness throughout, and only of what the event loop, a timer or a bounded await guarantees:
a callback that is due runs; a file operation, a statement or a request with a timeout ends; a
timer that was set fires. Nothing obliges the receiver to accept, WhatsApp to open a connection or to
answer, a user to call, the backlog to drain or the process to survive. Faults are bounded by `Limits`,
so the liveness properties say: when faults stop, the system gets where it should. `Recovers` also uses
that an instance which lost its socket opens another one, which begins with a drain (`startSocket`).
`PollsAnswered`, `PreviewsEnd`, `ThumbnailsEnd` and `MediaEnds` use the deadlines and that work which
was aborted ends; a presence request may stay unanswered for ever, and `OneSubscription` says that it is
not asked again. `StopEnds` and `RestoredAtLast` use that every await of the runtime ends; the timer
with which `main.ts` kills a process whose stop hangs is therefore left out.

## 5. What is proved

Theorems hold for every value of the constants that the named assumptions of the module allow: any
sets of events, instances and workers (`EventAssumption`, `InstanceAssumption`), any numbers of socket
events (`TicketAssumption`), keys of an authentication state (`KeyAssumption`), calls
(`CallerAssumption`, `ContactAssumption`), polls (`PresenceAssumption`), jobs
(`HistoryRescanAssumption`), phones and LIDs (`JidAssumption`), any finite sets of downloads
(`MediaAssumption`) and of groups (`CatalogAssumption`), any places and limits (`PoolAssumption`,
`PreviewAssumption`, `LimitAssumption`). The markers for "nothing" are no members of the sets they
stand beside (`NoneAssumption` and others). The catalogue assumes that its queries together list every
group, which is what the two queries of the provider are for; the plan of a contact starts from a
finite set of names, which it counts. TLC evaluates the assumptions in every run.

**`WebhookOutboxProofs`.** `TypeCorrect` is the type of all variables, one lemma per action.
`CancelledStaysStale` and `NothingAfterClose` say what a closure is for; both assume `NoCrash`, because
the epochs do not survive one. Neither property is inductive. A worker, a producer or a replay
carries a copy of a record whose epoch it compares after its await, so the invariant has to speak of
every copy: `CloseInv` adds to `TypeOK` that no epoch in use, of an instance or of a record, is beyond
the number of closures so far (`EpochsFresh`: the next closure's epoch is new), and `CancelledIsStale`
that no copy of a cancelled event, in the queue, among the dead letters or in a variable of an
actor, carries the present epoch. `StepCopies` shows that no step makes such a copy (`KeepCopies` is
the common part: a step that creates no record cannot), and `OnlyReadPosts` that only `Read`, which
has just compared the epoch, starts a request.

The other invariants of the lane are layers, one upon the other (`OutboxInv` and `ForceInv`):

- `RecordInv` says of each copy of a file who wrote it and when: it exists only once its producer has
  written it, it carries the epoch its call began in (`OneEpoch`), only buried events are replayed, and a
  worker that removes a file knows why (`Reasons`: received, or cancelled). `Kept` follows an event from
  the write of its file, before its call has returned, and gives `NothingLost`: `NoLoss` as long as no
  replay has begun. That is the condition of the finding `replayLoss`, and the only one.
- `ForceInv`: whatever a closure cancelled is recognisable as old while the process lives that closed it
  (`InForce` is `Stale`), because no epoch, of an instance or of a call, is beyond the number of
  closures. Unlike `CloseInv` it needs no `NoCrash`: a crash empties `InForce`. With it,
  `LaneIsADurableQueue` is the refinement, step by step: each action is one action of the queue, or none
  (`StandsStill`), and the lemmas `CallerQueues`, `FlightQueues`, `WorkerQueues`, `ClosureQueues` and
  `OthersQueue` say which. `Kept` gives the guard of `Accept`, `Reasons` and `SweptIsObsolete` that of
  `Remove`, `ForceInv` that of `Send`. It assumes `NoReplays`, for which `replayLoss` is the reason: a
  replay's `ReplayUnlink` removes what it should keep. `QueuesLoseNothing` shows that the queue demands
  enough: every behaviour of it keeps `NoLoss`.
- `LaneInv`: the groups of a flight are disjoint, each up or with one worker; only the flight that has
  the lock has workers, and those which a failed flight left behind. `LaneIsSerial` is `LaneSerial` while
  `Calm`: no storage error so far, or one slot per flight, or one instance. In each of the three a failed
  flight leaves no worker behind that does anything (`OrphansIdle`); the finding `storage` is what
  happens otherwise.
- `OrderInv`: the files that a worker is still to visit come after all that they have to wait for
  (`Ahead`: what their instance had accepted before them, without what is stamped after a planned event),
  which are gone, refused for good, or to be visited as well. `RetriesStayOrdered` follows; as a
  property of steps it is stated for limits under which the lane always is calm (`AlwaysCalm`).
- `DiscardInv`: what `discardInstance` has passed and what appears again behind it, a rewrite, a burial or
  a replay's copy, is in the hands of an actor that will look once more and remove it. `ClosuresLeaveNothing`
  is `DiscardComplete`, `ClosuresAreComplete` the property `ClosuresCancel` of the run, without crashes.

What a step does to one file, one call, one worker, the replay is said once, in lemmas on the moves of
each (`ReplayMove`, `PhaseMove` and their like), and each invariant is shown to survive those moves.

**`InstanceLifecycleProofs`.** `TypeCorrect`; `SingleConnection` (`OneSocket` and `OneAttempt`),
`NotAbandoned`, `RevokedStaysOffline`, `ShutdownIsQuiet`, `ShownTruly`, and for steps `OpensOnStored`
and `FormerSocketsInert`: all the safety of the run. They rest on one inductive invariant, `IInv`. What
it adds, and why:

- `SocketInv`: a setup that is still wanted is of the present generation (`SetupOpen` installs the socket
  of its own generation, so `sock = gen` needs it, and a setup that gives up is known to belong to a
  stopped instance), and handlers are older than a setup in progress (one that fails can then not
  close the socket that the setup installs).
- `ShutdownInv`: what each phase of a shutdown has established, up to `AtRest`, which every call finds
  after it. A `create` after a shutdown may assume that no setup is left to join.
- `AuthInv`: the last version that was to be stored, by a write in progress or by what is
  unsaved, is the present one; hence once no write is pending and nothing is unsaved, the store
  has it. A revocation that is not settled keeps the instance stopped.

Each of the six step lemmas (`FlagStep` to `AuthStep`) has one step per action that can disturb its
part, and one for all the others; `AliveStep`, `OpenStep`, `InertStep` and `ShownStep` use the invariant
the same way.

**`PersistentAuthProofs`.** `AuthTyped`, `StorePrefix`, `ReadsUpToDate`, `NeverReimported`, and with them
`AuthIsSafe`. The log is a history of changes and storage is compared with the outcome of a prefix of
it, so the first lemmas are about that: what the first n changes made of a name does not depend on the
others, a change that is made or a crash that cuts the log moves it as expected. `AuthInv` then says that
what is not in `unsaved` is stored (`StoredInv`) and that the values waiting there are the last ones
(`EntriesInv`). The second has an exception: a reset or a removal that storage did, and whose answer
was lost, leaves older values waiting, which is safe only because nothing is written before the reset
or removal is repeated (`doubt`). `DoneInv` says that an operation which storage has done left nothing
unsaved, so that a prefix never ends in the middle of one; `GetInv` that nothing changes a key between
the flush of a `get` and its two reads, as the key store has one call at a time (`OneCaller`);
`ResetInv` that after a reset no credentials, stored, in memory, unsaved or in the chain, are the
imported ones.

**`ApiRuntimeProofs`.** `StartsAndStops` (`StartAndStopAgree`), without a condition; `NothingOrphaned` and
`DatabaseLast`, whose properties hold as long as `Apart`. `ApiInv` says where start, restore and stop
are in terms of each other (`StartInv`, `BeforeInv`), what each place of a call is about (`CallInv`), and that a key has one action
at a time (`LockInv`). `ApartInv` is inductive under `Apart` only: a call that is about to make an object
finds the key without one, or still stored; a call that is about to forget an object has put it down;
and after the second drain of `Sessions.shutdown` no object is up and nothing works. `Apart` speaks of
what has happened so far, not of the limits, and each of its parts is needed (section 3).

**`ServiceProofs`: the promise chain.** `ChainTyped`, `EntriesRemoved`, `MutualExclusion`, and
`ChainImplementsLock`: every behaviour of the chain is one of `FifoLock`. That two actions of a name
never run together does not follow from the links between promises alone: a call whose map entry was
gone is chained on nothing. `ChainInv` says why that is safe: the map holds the call with the highest
number, and without an entry all have settled (`LastIsLast`); a call is chained on its immediate
predecessor or has settled ones only before it (`OnPredecessor`); hence what has begun has settled ones
only before it (`InTurn`).

**Contacts.** `PlansOnePerson`: a plan names one phone and at most one LID, everything that was heard is
about them, whatever the database and the provider answer and however many names they give. `PlanInv`
is what has been said so far, question by question. `GateTyped` and `AnswersTrue` (`GateIsSafe`),
`SilentAfterDoubt`: `GateInv` adds that the stages of a call know whether its request was sent and
acknowledged (`SentInOrder`), and that a gate without doubt has only acknowledged requests behind it
(`DoubtKept`): the flags that the guard sets at several awaits never say less than what happened.

**`HistoryIndexProofs`.** `NewWorkSeen` and `NoCancelledClaimed` (`IndexIsSafe`). The invariant follows a file from its
writer to the index: `NothingAhead` (epochs are not ahead of the closures, what was not enqueued left no
trace), `OnlyCurrent` (index and scan hold nothing that a closure made old), `FreshKnows` (a fresh index
has everything live that did not straddle) and `ScanKnows`, which is what a scan under way will know:
what its listing missed was added by a writer, or straddles.

**`HistoryRescanProofs`.** All that the runs `jobs` and `pages` check, but for liveness.
`EndedStaysEnded`, `EventsKeepConnection` and `KeysIdempotent` are about the jobs. What a page contains is
beside the point there, so in `RescanInv` states and pages stay untyped, and `IsJob`, `IsCycle` and
`IsRequest` say only which fields there are. Nearly every step
keeps the rows (`RowsKept`: keys and connections stay, what has ended does not change); the lemmas of the
cycle show it from the guards of the statements (`WriteKeeps`: whoever writes holds a lease, and only a
running job is leased). A job that was cancelled is silent although the producer looks at the row, awaits and
then looks at the connection: by `RunsOrClosed` a cycle between the two has a running job or a closed
connection, because only connections that have closed are cancelled (`ClosedOnes`) and a new one has a larger
number. `IdempotentKey` follows from `OneKeyEach` (one row per key) and `ToldTheirs` (an answer names a row
of the key); lookups that are stale by the time of the transaction do not matter.

`RescanTyped`, `SameIdentityHolds` and `CompletedHolds` are about what is sent, for tables of any size and
pages and chunks of any length. `ContentInv` says where the events of a job can be that its state does not
confirm (`Ahead`): in the page its row has staged, whoever sent them, and the page a cycle has in hand is that
one unless the job was cancelled. An event that is sent again is thus at the same place of the same page. A job
that was cancelled under a cycle keeps its state and is never claimed again, so no other page is planned where
that cycle's was. `ExactInv` counts: `Exact` says of the confirmed events (`Sure`) that they have
every row behind the cursor that is still there, no row twice, and as many chunks and rows as the state
says; `PageHolds` says the same of a page, from the state it was planned at (`PlanHolds`), and survives the
changes of rows that the model allows (`ShrinksExact`: what is deleted or edited leaves, what is added is
beyond the maximum a job has frozen). `Grows` adds one to the other when `advance()` confirms the page, and
`CycleSent` (the events before the cursor are in the outbox) makes them all sent by then. Under `PlanHolds` are
facts about rows in order: the first n of a set, the chunks that partition a page (`ChunksAre`, from the division
that counts them) and where the next page begins (`PageEnds`).

**Presence.** `PresenceTyped`, `OnePerContact`, `SubscriptionsBounded`, `NothingOfOthers`, and with
them `PresenceIsSafe`. `PresenceInv` adds to the properties that a poll that has not begun left no trace
(`Untouched`) and that the table is within its limit (`TableBounded`). The bound on what the provider has
to answer is not a count that steps keep: each subscription under way is the request of its contact, so
they inject into the table.

**The catalogue.** `CatalogIsSafe`: `CatalogSafety` for any groups, queries, calls and size of the log.
`CatalogInv` follows a change of a group along its two ways.

- To a result. `LogInv` describes the log that forgets its oldest entries: numbered without a gap up to
  `revision`, and the last entry of a group is what was noted of it. `NoteStep` is the lemma everything
  rests on: as long as the log reaches back to a revision, what it has since then is what it had and
  what is new. So a call whose start the log still reaches has all that was answered to it in the log
  (`HeardInv`), and when no query is missing, that is every group (`AllHeard`): the second look at the log
  then makes the result equal to what is noted, at the revision it is cached for (`FreshInv`). A later
  caller gets it only while the revision is the same, and all its callers knew less.
- To storage. What is on the wire comes in order and is not older than what was noted (`WireInv`). What is
  in the backlog, in the chain of writes and in the table ends, for each group, with what was noted
  (`StoreInv`): the last entry of the backlog that speaks of it, else every write that no event's write
  follows, else the row. A call's write is right when it joins the chain, because all that it writes
  is noted (`UpdatesNoted`); an event that comes later is written behind it.

**`MediaProofs`.** `MediaTyped`, `PlacesRight`, `ClosuresReach`, `RenewsOnce`, and with them
`MediaIsSafe`. A place is taken in one step and given back by whichever of four ends comes first, while
a closure throws the set away that others still leave. `PlaceInv` counts by the stages of the downloads
(`PlacesMatchDownloads`) and says that a set holds the running downloads that joined it and that no number
of a set is used twice (`SetsHold`). `ClosureReaches` is the reason why a shutdown, which aborts nothing,
must leave the set in its place (`ShutKeeps`), while what throws the set away aborts all of it
(`CancelKeeps`). `RenewInv` that a renewal which is asked for is remembered.

`PoolIsSafe` is about thumbnails. Every end of a job calls `drain`, which starts as many of the waiting
ones as there are places, in one step; what it takes from the queue is a fold over it, and the lemma on
`drain` says that it leaves everything right when what it is given is right: no more threads than
workers, only jobs in the queue that are still wanted, and it stops only at the limit or with an empty
queue.

`PreviewsAreSafe` is about slots, shared work and the cache of previews. A slot is handed on to the next
waiter without being given back, so `SlotInv` counts holders, not answers; `Wanted` says that work which
is not given up has a caller who waits, so it is not counted for nobody. The bound on the cache
is by injection: entries are dated and no two alike (`Dated`), hence those that an eviction keeps, each
with fewer than n younger ones, are at most n.

## 6. Only model-checked

Every safety invariant and action property of the passing runs has a theorem. What `RescanPage` computes is
proved as far as those theorems need it (counts, order, coverage); no operator of it is recursive.

Liveness stays with TLC (`EventuallySettled`, `KeepsTrying`, `SilentCloseNoticed`, `JobsEnd`, `Recovers`,
`StopEnds`, `RestoredAtLast`, `EveryCallRuns`, `GateFreed`, `PollsAnswered`, `PreviewsEnd`,
`ThumbnailsEnd`, `MediaEnds`): the prover handles neither fairness nor `ENABLED`.

Where a theorem has a condition (`NoCrash`, `AlwaysCalm`, `NoReplays`), the runs check the property
within limits that meet it; what happens beyond is in section 3. `Apart` is part of the properties
themselves, and the limits of `runtime` go beyond it.

## 7. Plan

What a next step would take, in this order:

1. `PersistentAuth` as the refinement of the versions that `InstanceLifecycle` uses for the
   authentication state. That storage is a prefix of the log of changes, which is what the versions
   stand for, is proved (`StorePrefix`); the step that is left is the mapping.
2. `Emission`: the loop of `trySendWebhook` over chunks. A closure between two chunks gives the later
   ones the new epoch (`utils.ts:73`); no property covers that yet.

## 8. Not modelled

- HTTP routes, guards, token verification, request validation, message and profile controllers:
  stateless.
- Mapping of messages, logging, configuration: conversions and text. Names of contacts: conversions,
  and a merge in one statement of the database.
- History progress: each notification is handled in one step, and nothing interleaves. Bounded
  caches: maps with expiry and eviction, used without an await.
- Fetching of previews, the image code, audio conversion, media streams: I/O.
- Prisma's schema, migrations, `tools/`, patches of the provider (but for the contact guard, which
  `ContactSafety` models as external): outside the running program's logic.
- `WEBHOOK_QUEUE=false`: events are posted without a file; nothing durable is left to state.
- Of the outbox: files that cannot be parsed; a clock that steps back (timestamps and file names begin
  with the time); calls of one millisecond, whose order the file names decide after an await. A real
  lane has lifecycle events only or none (`outbox.ts:94`); the model allows any mix.
- Of a rescan: two worker cycles at once, which read the same page; and an entry that is too large
  (`HISTORY_ENTRY_TOO_LARGE`, `service.ts:167`), which fails its job for good.
- Of the media downloads: which error a call is told.
- Of the sessions: legacy keys that are ambiguous; of the runtime: `main.ts`'s kill timer. `create` never
  rejects in `ApiRuntime`, as it catches what its setup throws.
- Of the authentication state: the sharing of a load in progress (`loading`), the snapshot
  repository of the file system (one atomic rename, so each of its writes fails before its effect
  or not at all), corrupt files.
- Of presence: the snapshots kept for reading. Of the catalogue: channels, which no event changes, and
  the limits on the size of an answer.
