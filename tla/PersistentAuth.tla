--------------------------- MODULE PersistentAuth ---------------------------
(***************************************************************************)
(* The authentication state of one instance: createPersistentAuth over an  *)
(* AuthRepository.  Calls are run one at a time by the chain of promises   *)
(* `pending'; what storage has not confirmed is kept in `unsaved' and      *)
(* written again by whatever call comes next.  The repository is the one   *)
(* of the database, with a directory of an earlier version to import from. *)
(*                                                                         *)
(* A value is the number of the call that made it; 0 stands for no record. *)
(* The set that changes a key also deletes the key's record of type        *)
(* 'legacy', so one entry of `unsaved' stands for both.                    *)
(*                                                                         *)
(* Who calls: the key store of the socket runs one get or set at a time    *)
(* (Baileys' cacheable store holds its mutex meanwhile); saveCreds and     *)
(* drain come at any time; reset and remove come when the operations of    *)
(* the socket have settled and none can start (services.ts, closeSocket,   *)
(* performShutdown and clearInstance).                                     *)
(***************************************************************************)
EXTENDS Integers, Sequences

CONSTANTS
  Key,      \* the Signal keys
  Creds,    \* the record of type 'creds'
  OldKey,   \* keys that a legacy directory holds
  Limits    \* bounds: the kinds in Bounded happen as often as one of these allows

\* Calls with a value of their own or an answer; storage calls that fail
\* before or after their effect; crashes; removals.
Bounded == {"call", "fail", "lost", "crash", "remove"}

ASSUME KeyAssumption == Creds \notin Key /\ OldKey \subseteq Key
ASSUME LimitAssumption == Limits \subseteq [Bounded -> Nat]

VARIABLES
  typed,     \* the records stored under their own type
  legacy,    \* keys with a stored record of type 'legacy'
  folder,    \* the legacy directory holds a session
  up,        \* the process has loaded the object
  creds,     \* state.creds
  queue,     \* operations waiting on `pending', the running one first
  progress,  \* of the running one: "wait", "sent" to storage, "stored"
  unsaved,   \* names whose last value storage has not confirmed
  entry,     \* the last value of each name that was set
  caller,    \* the get or set of the key store in progress
  doubt,     \* a reset or a removal failed and none has succeeded since
  log,       \* history: the changes in the order they were run
  acked,     \* history: how many of them the caller knows to be stored
  cleared,   \* history: a reset has succeeded and no removal was stored since
  spent      \* how often each bounded kind has happened

store   == <<typed, legacy, folder>>
chain   == <<queue, progress>>
memory  == <<up, creds, unsaved, entry, doubt>>
history == <<log, acked, cleared>>
vars == <<store, chain, memory, caller, history, spent>>

-----------------------------------------------------------------------------
Record == Key \union {Creds}
Imported == 1
Fresh == spent["call"] + 2

\* A change: each of `names' gets `val' if it is in `put', and is removed if not.
Change(names, put, val) == [names |-> names, put |-> put, val |-> val]
ValueIn(change, x) == IF x \in change.put THEN change.val ELSE 0

\* What x is after the first n changes.
ValueAfter(n, x) ==
  LET writers == {m \in 1 .. n : x \in log[m].names}
      latest    == CHOOSE m \in writers : \A k \in writers : k <= m
  IN IF writers = {} THEN 0 ELSE ValueIn(log[latest], x)

\* What get finds in storage: the typed record, else the legacy one.
Found(x) == IF typed[x] # 0 THEN typed[x] ELSE IF x \in legacy THEN Imported ELSE 0

Operation(op, by, change) == [op |-> op, by |-> by, change |-> change]
Nothing == Change({}, {}, 0)
Idle == [pc |-> "idle", key |-> Creds, val |-> 0]

Head1 == queue[1]
Writes  == {"set", "flush"}
Clears  == {"reset", "remove"}
Clearing == \E n \in 1 .. Len(queue) : queue[n].op \in Clears

Spend(kind) ==
  /\ spent' = [spent EXCEPT ![kind] = @ + 1]
  /\ \E limit \in Limits : \A k \in Bounded : spent'[k] <= limit[k]

Init ==
  /\ typed = [x \in Record |-> 0] /\ legacy = {} /\ folder \in BOOLEAN
  /\ up = FALSE /\ creds = 0
  /\ queue = <<>> /\ progress = "wait"
  /\ unsaved = {} /\ entry = [x \in Record |-> 0]
  /\ caller = Idle /\ doubt = FALSE
  /\ log = <<>> /\ acked = 0 /\ cleared = FALSE
  /\ spent = [k \in Bounded |-> 0]

-----------------------------------------------------------------------------
(* createPersistentAuth *)

\* The stored records become the given change alone.
Replace(change) ==
  /\ typed' = [x \in Record |-> IF x = Creds THEN ValueIn(change, x) ELSE 0]
  /\ legacy' = change.put \ {Creds}
  /\ log' = Append(log, change)

LoadStored ==
  /\ typed[Creds] # 0
  /\ creds' = typed[Creds]
  /\ UNCHANGED <<typed, legacy, log, acked, spent>>

\* One write stores the credentials of the directory and all its keys.
Import ==
  /\ typed[Creds] = 0 /\ folder
  /\ Replace(Change(Record, {Creds} \union OldKey, Imported))
  /\ creds' = Imported /\ acked' = Len(log) + 1
  /\ UNCHANGED spent

InitCreds ==
  /\ typed[Creds] = 0 /\ ~folder
  /\ Spend("call")
  /\ Replace(Change(Record, {Creds}, Fresh))
  /\ creds' = Fresh /\ acked' = Len(log) + 1

Load ==
  /\ ~up
  /\ up' = TRUE
  /\ LoadStored \/ Import \/ InitCreds
  /\ UNCHANGED <<folder, chain, unsaved, entry, caller, doubt, cleared>>

-----------------------------------------------------------------------------
(* Calls *)

Enqueue(operation) == queue' = Append(queue, operation)

\* After a failed reset the instance resets again before it uses the object,
\* unless everything had been stored.
Usable == up /\ ~Clearing /\ (doubt => unsaved = {})

SetKeys(names, put) ==
  /\ Usable /\ caller.pc = "idle"
  /\ Spend("call")
  /\ Enqueue(Operation("set", "set", Change(names, put, Fresh)))
  /\ caller' = [caller EXCEPT !.pc = "set"]
  /\ UNCHANGED <<store, progress, memory, history>>

\* Mutant: get reads at once.
ReadsAtOnce(k) ==
  /\ Usable /\ caller.pc = "idle"
  /\ Spend("call")
  /\ caller' = [pc |-> "typed", key |-> k, val |-> 0]
  /\ UNCHANGED <<store, chain, memory, history>>

GetKey(k) ==
  /\ Usable /\ caller.pc = "idle"
  /\ Spend("call")
  /\ Enqueue(Operation("flush", "get", Nothing))
  /\ caller' = [pc |-> "flush", key |-> k, val |-> 0]
  /\ UNCHANGED <<store, progress, memory, history>>

\* The value is taken when saveCreds is called; Baileys may just have changed it.
SaveCreds ==
  /\ Usable
  /\ Spend("call")
  /\ creds' \in {creds, Fresh}
  /\ Enqueue(Operation("set", "none", Change({Creds}, {Creds}, creds')))
  /\ UNCHANGED <<store, progress, up, unsaved, entry, doubt, caller, history>>

\* The model holds one drain at a time.
DrainCall ==
  /\ Usable
  /\ \A n \in 1 .. Len(queue) : queue[n].by # "drain"
  /\ Enqueue(Operation("flush", "drain", Nothing))
  /\ UNCHANGED <<store, progress, memory, caller, history, spent>>

\* The fresh credentials are stored in place of everything.
Marker == Change(Record, {Creds}, Fresh)

ResetCall ==
  /\ up /\ ~Clearing /\ caller.pc = "idle"
  /\ Spend("call")
  /\ Enqueue(Operation("reset", "none", Marker))
  /\ UNCHANGED <<store, progress, memory, caller, history>>

RemoveCall ==
  /\ up /\ ~Clearing /\ caller.pc = "idle"
  /\ Spend("remove")
  /\ Enqueue(Operation("remove", "none", Change(Record, {}, 0)))
  /\ UNCHANGED <<store, progress, memory, caller, history>>

-----------------------------------------------------------------------------
(* run: the operation at the head of the chain *)

HeadIs(s) == queue # <<>> /\ progress = s

Free == "wait"

Leave ==
  /\ queue' = Tail(queue)
  /\ progress' = Free

\* The call of the key store that waited for the running operation goes on.
Wake(ok) ==
  caller' = IF Head1.by \notin {"set", "get"} THEN caller
            ELSE IF ok /\ Head1.by = "get" THEN [caller EXCEPT !.pc = "typed"] ELSE Idle

Merged == unsaved \union Head1.change.names

\* write: the entries join `unsaved', and all of it is sent.
BeginSet ==
  /\ HeadIs("wait") /\ Head1.op = "set"
  /\ unsaved' = Merged
  /\ entry' = [x \in Record |-> IF x \in Head1.change.names THEN ValueIn(Head1.change, x)
                              ELSE entry[x]]
  /\ log' = Append(log, Head1.change)
  /\ progress' = "sent"
  /\ UNCHANGED <<store, queue, up, creds, doubt, caller, acked, cleared, spent>>

\* flush with nothing to write: the operation ends at once.
FlushNothing ==
  /\ HeadIs("wait") /\ Head1.op = "flush" /\ unsaved = {}
  /\ Leave /\ Wake(TRUE)
  /\ acked' = Len(log)
  /\ UNCHANGED <<store, memory, log, cleared, spent>>

Send ==
  /\ HeadIs("wait")
  /\ Head1.op \in Clears \/ (Head1.op = "flush" /\ unsaved # {})
  /\ progress' = "sent"
  /\ UNCHANGED <<store, queue, memory, caller, history, spent>>

\* repository.write: one transaction, or one snapshot that is renamed.
StoreEntries ==
  /\ HeadIs("sent") /\ Head1.op \in Writes
  /\ typed' = [x \in Record |-> IF x \in unsaved THEN entry[x] ELSE typed[x]]
  /\ legacy' = legacy \ unsaved
  /\ progress' = "stored"
  /\ UNCHANGED <<folder, queue, memory, caller, history, spent>>

\* repository.replace and repository.clear.
StoreReplacement ==
  /\ HeadIs("sent") /\ Head1.op \in Clears
  /\ Replace(Head1.change)
  /\ progress' = "stored"
  /\ cleared' = (cleared /\ Head1.op = "reset")
  /\ UNCHANGED <<folder, queue, memory, caller, acked, spent>>

Confirmed == {}

WriteAnswered ==
  /\ HeadIs("stored") /\ Head1.op \in Writes
  /\ unsaved' = Confirmed
  /\ Leave /\ Wake(TRUE)
  /\ acked' = Len(log)
  /\ UNCHANGED <<store, up, creds, entry, doubt, log, cleared, spent>>

ResetAnswered ==
  /\ HeadIs("stored") /\ Head1.op = "reset"
  /\ unsaved' = Confirmed
  /\ creds' = Head1.change.val
  /\ doubt' = FALSE /\ cleared' = TRUE
  /\ Leave /\ Wake(TRUE)
  /\ acked' = Len(log)
  /\ UNCHANGED <<store, up, entry, log, spent>>

\* clearInstance goes on to remove the directory and to drop the object, unless deleting
\* the history fails.
RemoveAnswered ==
  /\ HeadIs("stored") /\ Head1.op = "remove"
  /\ unsaved' = Confirmed
  /\ (up' = FALSE /\ folder' = FALSE) \/ UNCHANGED <<up, folder>>
  /\ doubt' = FALSE
  /\ Leave /\ Wake(TRUE)
  /\ acked' = Len(log)
  /\ UNCHANGED <<typed, legacy, creds, entry, log, cleared, spent>>

\* Storage fails, before its effect or only with its answer.
StorageFails ==
  /\ \/ HeadIs("sent") /\ Spend("fail")
     \/ HeadIs("stored") /\ Spend("lost")
  /\ Leave /\ Wake(FALSE)
  /\ doubt' = (doubt \/ Head1.op \in Clears)
  /\ UNCHANGED <<store, up, creds, unsaved, entry, history>>

-----------------------------------------------------------------------------
(* keys.get, after its flush *)

ReadTyped ==
  /\ caller.pc = "typed"
  /\ caller' = IF typed[caller.key] # 0
               THEN [caller EXCEPT !.pc = "told", !.val = typed[caller.key]]
               ELSE [caller EXCEPT !.pc = "legacy"]
  /\ UNCHANGED <<store, chain, memory, history, spent>>

ReadLegacy ==
  /\ caller.pc = "legacy"
  /\ caller' = [caller EXCEPT !.pc = "told",
                              !.val = IF caller.key \in legacy THEN Imported ELSE 0]
  /\ UNCHANGED <<store, chain, memory, history, spent>>

ReadFails ==
  /\ caller.pc \in {"typed", "legacy"}
  /\ Spend("fail")
  /\ caller' = Idle
  /\ UNCHANGED <<store, chain, memory, history>>

GetReturns ==
  /\ caller.pc = "told"
  /\ caller' = Idle
  /\ UNCHANGED <<store, chain, memory, history, spent>>

-----------------------------------------------------------------------------
StoredUpTo(n) == \A x \in Record : Found(x) = ValueAfter(n, x)

\* The process dies.  The changes that were not stored are gone.
Crash ==
  /\ up /\ Spend("crash")
  /\ up' = FALSE /\ creds' = 0
  /\ queue' = <<>> /\ progress' = Free
  /\ unsaved' = {} /\ caller' = Idle /\ doubt' = FALSE
  /\ \E n \in acked .. Len(log) : StoredUpTo(n) /\ log' = SubSeq(log, 1, n)
  /\ UNCHANGED <<store, entry, acked, cleared>>

Call ==
  \/ \E names \in SUBSET Key \ {{}} : \E put \in SUBSET names : SetKeys(names, put)
  \/ \E k \in Key : GetKey(k)
  \/ SaveCreds \/ DrainCall \/ ResetCall \/ RemoveCall

Step ==
  \/ BeginSet \/ FlushNothing \/ Send \/ StoreEntries \/ StoreReplacement
  \/ WriteAnswered \/ ResetAnswered \/ RemoveAnswered

GetReads == ReadTyped \/ ReadLegacy \/ GetReturns

Next == Load \/ Call \/ Step \/ StorageFails \/ GetReads \/ ReadFails \/ Crash

Spec == Init /\ [][Next]_vars

\* Storage answers, and an instance that lost its socket opens another, which
\* begins with a drain.
Fairness == WF_vars(Step) /\ WF_vars(GetReads) /\ WF_vars(unsaved # {} /\ DrainCall)

FairSpec == Spec /\ Fairness

-----------------------------------------------------------------------------
(* Properties *)

Changes == [names : SUBSET Record, put : SUBSET Record, val : Nat]
Operations ==
  [op : Writes \union Clears, by : {"set", "get", "drain", "none"}, change : Changes]

\* The type of every variable; storage works for an operation at the head of the chain.
TypeOK ==
  /\ typed \in [Record -> Nat] /\ legacy \subseteq Key /\ folder \in BOOLEAN
  /\ up \in BOOLEAN /\ creds \in Nat
  /\ queue \in Seq(Operations) /\ progress \in {"wait", "sent", "stored"}
  /\ progress # "wait" => queue # <<>>
  /\ unsaved \subseteq Record /\ entry \in [Record -> Nat]
  /\ caller \in [pc : {"idle", "set", "flush", "typed", "legacy", "told"},
                 key : Record, val : Nat]
  /\ doubt \in BOOLEAN /\ cleared \in BOOLEAN
  /\ log \in Seq(Changes) /\ acked \in Nat
  /\ spent \in [Bounded -> Nat]

\* Storage always holds the outcome of the first changes up to some point, in the order
\* they were made, and at least of all those whose call was answered: no change is stored
\* without the ones before it, and no answered one is lost.
StoreIsPrefix == \E n \in acked .. Len(log) : StoredUpTo(n)

\* What get returns is the outcome of every change made before, the ones whose
\* write had failed included; a deleted key does not come back.
ReadsLatest == caller.pc = "told" => caller.val = ValueAfter(Len(log), caller.key)

\* Once a reset has succeeded the legacy directory is not imported again.
NoReimport == cleared => typed[Creds] # Imported /\ legacy = {}

\* The session is never rolled back, not by a failed write, a late one or a crash.
AuthSafety == TypeOK /\ StoreIsPrefix /\ ReadsLatest /\ NoReimport

\* What storage refused is stored later, however often it failed before.
Recovers == []<>(unsaved = {} \/ ~up \/ doubt)
=============================================================================
