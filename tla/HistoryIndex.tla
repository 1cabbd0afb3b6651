---------------------------- MODULE HistoryIndex ----------------------------
(***************************************************************************)
(* Whether history still waits in the webhook lane (hasPendingHistory):    *)
(* answered from what is being written or posted, else from an index that  *)
(* a scan of the directory builds, that writes add to while it lasts, and  *)
(* that expires after a second.                                            *)
(*                                                                         *)
(* The lane is WebhookOutbox, reduced to what the index reads: the files,  *)
(* their epochs, the writes and the posts under way.  An event stands for  *)
(* the run it belongs to; events that are not history are left out.        *)
(***************************************************************************)
EXTENDS Naturals

CONSTANTS
  HistoryEvent,   \* history events, each enqueued at most once
  Connection,     \* instances
  ConnOf,         \* the instance of each event
  Happenings      \* bounds: the kinds in HappensFew happen as often as one of these allows

\* Enqueued events, requests to the receiver, closures and restarts.
HappensFew == {"event", "request", "closure", "restart"}

ASSUME HistoryAssumption ==
  /\ ConnOf \in [HistoryEvent -> Connection]
  /\ Happenings \subseteq [HappensFew -> Nat]

VARIABLES
  onDisk,       \* events with a file in the lane's directory
  deadDisk,     \* events with a file in dead-letter/
  stamp,        \* the epoch in an event's record
  writer,       \* the enqueue or the replay that writes each event's file
  post,         \* the request of each event
  postStamp,    \* the epoch each request began in
  epochOf,      \* this.epochs, 0 when it has no entry
  happened,     \* how often each bounded kind has happened
  index,        \* historyIndex.value
  fresh,        \* historyIndex has not expired
  scan,         \* historyScan
  lookups,      \* calls that wait for the scan: the runs each is about, and (history)
                \* those of them that waited for delivery when it came
  replies,      \* history: the calls answered by the last step, with their answers
  straddled     \* history: events whose write began before the last scan and ended before
                \* it did

laneVars == <<onDisk, deadDisk, stamp, writer, post, postStamp>>
epochVars == <<epochOf, happened>>
indexVars == <<index, fresh, scan>>
askVars == <<lookups, replies>>
historyVars == <<laneVars, epochVars, indexVars, askVars, straddled>>

EventsAt(i) == {e \in HistoryEvent : ConnOf[e] = i}

\* A call asks for an instance, or for one of its runs.
Scopes == {EventsAt(i) : i \in Connection} \union {{e} : e \in HistoryEvent}

NoScan == [pc |-> "none", left |-> {}, found |-> {}, added |-> {}, began |-> {}, epochs |-> <<>>]

HistoryInit ==
  /\ onDisk = {} /\ deadDisk = {}
  /\ stamp = [e \in HistoryEvent |-> 0]
  /\ writer = [e \in HistoryEvent |-> "new"]
  /\ post = [e \in HistoryEvent |-> "none"] /\ postStamp = stamp
  /\ epochOf = [i \in Connection |-> 0] /\ happened = [k \in HappensFew |-> 0]
  /\ index = {} /\ fresh = FALSE /\ scan = NoScan
  /\ lookups = {} /\ replies = {}
  /\ straddled = {}

IsCurrent(e, k) == k = epochOf[ConnOf[e]]

\* discarded(record)
Cancelled(e) == epochOf[ConnOf[e]] # 0 /\ ~IsCurrent(e, stamp[e])

\* historyWrites: from the call until its write is over.
Tickets == {e \in HistoryEvent : writer[e] \notin {"new", "idle"}}

\* What will be delivered, as far as the lane knows.
Waits(e) == e \in onDisk /\ writer[e] = "idle" /\ ~Cancelled(e) /\ post[e] # "acked"

Happens(kind) ==
  /\ happened' = [happened EXCEPT ![kind] = @ + 1]
  /\ \E most \in Happenings : \A k \in HappensFew : happened'[k] <= most[k]

-----------------------------------------------------------------------------
(* Writes *)

\* addHistory: only what is of the present epoch counts.
Counted(events) == {e \in events : IsCurrent(e, stamp[e])}

\* Mutant: a write leaves the index and the scan under way as they are.
Untracked(e) == UNCHANGED <<index, scan>>

\* trackHistoryWrite (an index that has not been built is of no consequence).
Track(e) ==
  /\ index' = index \union {f \in {e} : stamp'[f] = epochOf[ConnOf[f]]}
  /\ scan' = IF scan.pc = "none" THEN scan ELSE [scan EXCEPT !.added = @ \union {e}]

EnqueueHistory(e) ==
  /\ writer[e] = "new" /\ Happens("event")
  /\ writer' = [writer EXCEPT ![e] = "write"]
  /\ stamp' = [stamp EXCEPT ![e] = epochOf[ConnOf[e]]]
  /\ Track(e)
  /\ UNCHANGED <<onDisk, deadDisk, post, postStamp, epochOf, fresh, lookups, straddled>>

\* The rename.
FileAppears(e) ==
  /\ writer[e] \in {"write", "rewrite"}
  /\ onDisk' = onDisk \union {e}
  /\ writer' = [writer EXCEPT ![e] = IF @ = "write" THEN "check" ELSE "recheck"]
  /\ UNCHANGED <<deadDisk, stamp, post, postStamp, epochVars, indexVars, lookups, straddled>>

\* The scan that began during the write has not ended.
Straddles(e) == IF e \in scan.began THEN {e} ELSE {}

\* The write is over: the ticket goes.
WriteOver(e, next) ==
  /\ writer' = [writer EXCEPT ![e] = next]
  /\ straddled' = IF next = "idle" THEN straddled \union Straddles(e) ELSE straddled

\* enqueue's second look at the epoch.
EnqueueOver(e) ==
  /\ writer[e] = "check"
  /\ WriteOver(e, IF IsCurrent(e, stamp[e]) THEN "idle" ELSE "undo")
  /\ UNCHANGED <<onDisk, deadDisk, stamp, post, postStamp, epochVars, indexVars, lookups>>

UndoWrite(e) ==
  /\ writer[e] \in {"undo", "reundo"}
  /\ onDisk' = onDisk \ {e}
  /\ WriteOver(e, IF writer[e] = "undo" THEN "idle" ELSE "forget")
  /\ UNCHANGED <<deadDisk, stamp, post, postStamp, epochVars, indexVars, lookups>>

\* replayDeadLetters, for one dead letter.
ReplayHistory(e) ==
  /\ e \in deadDisk /\ writer[e] = "idle" /\ ~Cancelled(e)
  /\ writer' = [writer EXCEPT ![e] = "rewrite"]
  /\ UNCHANGED stamp
  /\ Track(e)
  /\ UNCHANGED <<onDisk, deadDisk, post, postStamp, epochVars, fresh, lookups, straddled>>

ReplayChecks(e) ==
  /\ writer[e] = "recheck"
  /\ writer' = [writer EXCEPT ![e] = IF Cancelled(e) THEN "reundo" ELSE "forget"]
  /\ UNCHANGED <<onDisk, deadDisk, stamp, post, postStamp, epochVars, indexVars, lookups,
                 straddled>>

ReplayOver(e) ==
  /\ writer[e] = "forget"
  /\ deadDisk' = deadDisk \ {e}
  /\ WriteOver(e, "idle")
  /\ UNCHANGED <<onDisk, stamp, post, postStamp, epochVars, indexVars, lookups>>

-----------------------------------------------------------------------------
(* The lane's other steps *)

PostHistory(e) ==
  /\ e \in onDisk /\ ~Cancelled(e) /\ post[e] = "none" /\ Happens("request")
  /\ post' = [post EXCEPT ![e] = "posting"]
  /\ postStamp' = [postStamp EXCEPT ![e] = epochOf[ConnOf[e]]]
  /\ UNCHANGED <<onDisk, deadDisk, stamp, writer, epochOf, indexVars, lookups, straddled>>

\* The receiver accepted; the request failed and the file is kept for another
\* attempt, or has had its last and goes to dead-letter/.
PostOver(e) ==
  /\ post[e] = "posting"
  /\ \/ post' = [post EXCEPT ![e] = "acked"] /\ UNCHANGED <<onDisk, deadDisk>>
     \/ post' = [post EXCEPT ![e] = "none"] /\ UNCHANGED <<onDisk, deadDisk>>
     \/ /\ post' = [post EXCEPT ![e] = "none"]
        /\ onDisk' = onDisk \ {e}
        /\ deadDisk' = IF e \in onDisk THEN deadDisk \union {e} ELSE deadDisk
  /\ UNCHANGED <<stamp, writer, postStamp, epochVars, indexVars, lookups, straddled>>

\* What was delivered or cancelled is unlinked, by a worker or by the closure's sweep.
Unlinked(e) ==
  /\ \/ post[e] = "acked" /\ post' = [post EXCEPT ![e] = "none"] /\ onDisk' = onDisk \ {e}
                          /\ UNCHANGED deadDisk
     \/ /\ Cancelled(e) /\ post[e] = "none" /\ e \in onDisk \union deadDisk
        /\ \/ onDisk' = onDisk \ {e} /\ UNCHANGED deadDisk
           \/ deadDisk' = deadDisk \ {e} /\ UNCHANGED onDisk
        /\ UNCHANGED post
  /\ UNCHANGED <<stamp, writer, postStamp, epochVars, indexVars, lookups, straddled>>

\* Mutant: a closure leaves the index alone.
IndexKept(i) == index

IndexWithout(i) == index \ EventsAt(i)

\* discardInstance, up to its first await.
CloseConnection(i) ==
  /\ Happens("closure")
  /\ epochOf' = [epochOf EXCEPT ![i] = happened'["closure"]]
  /\ index' = IndexWithout(i)
  /\ UNCHANGED <<laneVars, fresh, scan, lookups, straddled>>

\* The process ends and another begins: files remain, with their epochs.
RestartProcess ==
  /\ Happens("restart")
  /\ epochOf' = [i \in Connection |-> 0]
  /\ index' = {} /\ fresh' = FALSE /\ scan' = NoScan
  /\ writer' = [e \in HistoryEvent |-> IF writer[e] = "new" THEN "new" ELSE "idle"]
  /\ post' = [e \in HistoryEvent |-> "none"]
  /\ lookups' = {} /\ replies' = {} /\ straddled' = {}
  /\ UNCHANGED <<onDisk, deadDisk, stamp, postStamp>>

-----------------------------------------------------------------------------
(* hasPendingHistory *)

\* Being written or posted in the present epoch.
UnderWayNow ==
  Counted(Tickets) \union {e \in HistoryEvent : post[e] = "posting" /\ IsCurrent(e, postStamp[e])}

Answered(calls, yes) == {[runs |-> c.runs, waited |-> c.waited, yes |-> yes] : c \in calls}

BeginScan ==
  /\ scan' = [NoScan EXCEPT !.pc = "list", !.epochs = epochOf, !.began = Tickets]
  /\ straddled' = {}

AskPending(runs) ==
  LET call == [runs |-> runs, waited |-> {e \in runs : Waits(e)}]
      now == runs \intersect UnderWayNow # {}
  IN
  /\ IF now \/ fresh
     THEN /\ replies' = Answered({call}, now \/ runs \intersect index # {})
          /\ UNCHANGED <<lookups, scan, straddled>>
     ELSE /\ lookups' = lookups \union {call} /\ replies' = {}
          /\ IF scan.pc # "none" THEN UNCHANGED <<scan, straddled>> ELSE BeginScan
  /\ UNCHANGED <<laneVars, epochVars, index, fresh>>

ScanLists ==
  /\ scan.pc = "list"
  /\ scan' = [scan EXCEPT !.pc = "read", !.left = onDisk]
  /\ UNCHANGED <<laneVars, epochVars, index, fresh, lookups, straddled>>

ScanReads(e) ==
  /\ scan.pc = "read" /\ e \in scan.left
  /\ scan' = [scan EXCEPT !.left = @ \ {e},
                          !.found = @ \union (Counted({e}) \intersect onDisk)]
  /\ UNCHANGED <<laneVars, epochVars, index, fresh, lookups, straddled>>

\* Observations of an instance that has closed since the scan began are dropped.
FoundNow == {e \in scan.found : scan.epochs[ConnOf[e]] = epochOf[ConnOf[e]]}

\* Every call that waits for the scan reads the new index.
ScanEnded ==
  /\ scan.pc = "read" /\ scan.left = {}
  /\ index' = FoundNow \union Counted(scan.added) \union Counted(Tickets)
  /\ fresh' = TRUE /\ scan' = NoScan
  /\ replies' = {a \in Answered(lookups, TRUE) : a.runs \intersect index' # {}}
       \union {a \in Answered(lookups, FALSE) : a.runs \intersect index' = {}}
  /\ lookups' = {}
  /\ UNCHANGED <<laneVars, epochVars, straddled>>

ScanFails ==
  /\ scan.pc # "none"
  /\ scan' = NoScan
  /\ lookups' = {} /\ replies' = {}
  /\ UNCHANGED <<laneVars, epochVars, index, fresh, straddled>>

\* The second is over.
IndexExpires ==
  /\ fresh
  /\ fresh' = FALSE
  /\ UNCHANGED <<laneVars, epochVars, index, scan, lookups, straddled>>

Writing(e) ==
  EnqueueHistory(e) \/ FileAppears(e) \/ EnqueueOver(e) \/ UndoWrite(e)
  \/ ReplayHistory(e) \/ ReplayChecks(e) \/ ReplayOver(e)
Delivering(e) == PostHistory(e) \/ PostOver(e) \/ Unlinked(e)

Unasked ==
  /\ \/ \E e \in HistoryEvent : Writing(e) \/ Delivering(e) \/ ScanReads(e)
     \/ \E i \in Connection : CloseConnection(i)
     \/ ScanLists \/ IndexExpires
  /\ replies' = {}

HistoryNext ==
  \/ Unasked
  \/ \E runs \in Scopes : AskPending(runs)
  \/ ScanEnded \/ ScanFails \/ RestartProcess

HistorySpec == HistoryInit /\ [][HistoryNext]_historyVars

-----------------------------------------------------------------------------
(* Properties *)

\* History that waits for delivery from before the call to its answer is not denied
\* (docs/history-rescan.md:15; tests/outbox.test.ts:43, 82).
BacklogSeen == \A t \in replies : ~t.yes => \A e \in t.waited : ~Waits(e)

\* The epoch of the record is one of an earlier process.
Forgotten(e) == stamp[e] # 0 /\ epochOf[ConnOf[e]] = 0

\* The same, but for what an earlier process stamped, and for a write that was over before
\* the scan that missed it: new work is seen at once, and what was written while a scan
\* ran is in its result.
NewBacklogSeen == \A t \in replies : ~t.yes =>
  \A e \in t.waited \ straddled : ~Waits(e) \/ Forgotten(e)

\* A closure leaves no backlog: what is said to wait was enqueued, or replayed, in the
\* present epoch of its connection, or is being posted.
NoCancelledBacklog ==
  \A t \in replies : t.yes =>
    \E e \in t.runs : writer[e] # "new" /\ (IsCurrent(e, stamp[e]) \/ post[e] = "posting")

\* The index denies nothing that waits and claims nothing that was cancelled.
IndexSafety == NewBacklogSeen /\ NoCancelledBacklog
=============================================================================
