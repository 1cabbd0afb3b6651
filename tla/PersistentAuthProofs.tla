------------------------ MODULE PersistentAuthProofs ------------------------
(***************************************************************************)
(* Theorems about PersistentAuth, for any keys and any number of calls,    *)
(* failures, crashes and removals: storage follows the changes in order    *)
(* and loses no answered one, a read is up to date, and a session that was *)
(* reset is not imported again.                                            *)
(***************************************************************************)
EXTENDS PersistentAuth, SequenceTheorems, WellFoundedInduction, TLAPS

\* What x is after all changes.
Latest(x) == ValueAfter(Len(log), x)

Runs(op) == queue # <<>> /\ Head1.op = op
Writing  == queue # <<>> /\ Head1.op \in Writes
Replaced == progress = "stored" /\ queue # <<>> /\ Head1.op \in Clears

\* What each kind of operation in the chain looks like, and who waits for it.
Belongs(o, pc) ==
  /\ o.op = "set" => \/ o.by = "set" /\ o.change.names \subseteq Key /\ pc = "set"
                     \/ o.by = "none" /\ o.change.names = {Creds} /\ o.change.put = {Creds}
  /\ o.op = "flush" => o.by = "drain" \/ (o.by = "get" /\ pc = "flush")
  /\ o.op = "reset" => o.change = Change(Record, {Creds}, o.change.val) /\ o.change.val >= 2
  /\ o.op = "remove" => o.change = Change(Record, {}, 0)
  /\ o.op \in Clears => o.by = "none" /\ pc = "idle"

QueueInv ==
  /\ \A n \in 1 .. Len(queue) : Belongs(queue[n], caller.pc)
  /\ \A n \in 1 .. Len(queue) : queue[n].op \in Clears => n = Len(queue)

\* The key store has one call at a time.
OneCaller == \A m, n \in 1 .. Len(queue) :
  queue[m].by \in {"set", "get"} /\ queue[n].by \in {"set", "get"} => m = n

\* An object that is not loaded has nothing under way.
DownInv == ~up => queue = <<>> /\ unsaved = {} /\ caller.pc = "idle"

\* What is not in `unsaved' is stored.
StoredInv == \A x \in Record \ unsaved : Found(x) = Latest(x)

\* An operation that storage has done left nothing to be stored.
DoneInv ==
  progress = "stored" =>
    /\ StoredUpTo(Len(log))
    /\ Runs("reset") => typed[Creds] = Head1.change.val /\ legacy = {}

\* `unsaved' holds the last values, but for what a reset or a removal has overtaken whose
\* answer was lost; then nothing writes before the next one.
EntriesInv ==
  (~doubt \/ unsaved = {} \/ Writing) /\ ~Replaced => \A x \in unsaved : entry[x] = Latest(x)

\* A get in its reads: nothing has changed its key since the flush.
GetInv ==
  /\ caller.pc \in {"flush", "typed", "legacy", "told"} => caller.key \in Key
  /\ caller.pc \in {"typed", "legacy", "told"} => caller.key \notin unsaved
  /\ caller.pc = "legacy" => typed[caller.key] = 0
  /\ ReadsLatest

\* After a reset no credentials are the imported ones, wherever they are.
ResetInv ==
  cleared =>
    /\ typed[Creds] >= 2 /\ legacy = {}
    /\ up => creds >= 2
    /\ Creds \in unsaved => entry[Creds] >= 2
    /\ \A n \in 1 .. Len(queue) :
         queue[n].op = "set" /\ Creds \in queue[n].change.names => queue[n].change.val >= 2

AuthInv ==
  /\ TypeOK /\ QueueInv /\ OneCaller /\ DownInv
  /\ StoreIsPrefix /\ StoredInv /\ DoneInv /\ EntriesInv /\ GetInv /\ ResetInv

-----------------------------------------------------------------------------
(* What a log of changes makes of a name *)

Writers(l, n, x) == {m \in 1 .. n : x \in l[m].names}
LastOf(S) == CHOOSE m \in S : \A k \in S : k <= m
Content(l, n, x) ==
  IF Writers(l, n, x) = {} THEN 0 ELSE ValueIn(l[LastOf(Writers(l, n, x))], x)

LEMMA ValueIsContent == \A n, x : ValueAfter(n, x) = Content(log, n, x)
BY DEF ValueAfter, Content, Writers, LastOf

\* A set of numbers of changes has a last one.
LEMMA LastExists ==
  ASSUME NEW n \in Nat, NEW S \in SUBSET (1 .. n), S # {}
  PROVE  \E m \in S : \A k \in S : k <= m
<1> DEFINE T == {n - m : m \in S}
<1>1. T \subseteq Nat /\ T # {}
  OBVIOUS
<1>2. PICK t \in T : \A u \in T : <<u, t>> \notin OpToRel(<, Nat)
  BY <1>1, NatLessThanWellFounded, WFMin
<1>3. \A u \in T : ~(u < t)
  BY <1>1, <1>2 DEF OpToRel
<1>4. PICK m \in S : t = n - m
  OBVIOUS
<1>5. ASSUME NEW k \in S PROVE k <= m
  <2>1. n - k \in T
    OBVIOUS
  <2> QED  BY <1>3, <1>4, <2>1
<1> QED  BY <1>5

LEMMA ContentSame ==
  \A n \in Nat : \A l, r, x :
    (\A m \in 1 .. n : l[m] = r[m]) => Content(l, n, x) = Content(r, n, x)
<1> SUFFICES ASSUME NEW n \in Nat, NEW l, NEW r, NEW x, \A m \in 1 .. n : l[m] = r[m]
             PROVE  Content(l, n, x) = Content(r, n, x)
  OBVIOUS
<1>1. Writers(l, n, x) = Writers(r, n, x)
  BY DEF Writers
<1>2. CASE Writers(l, n, x) = {}
  BY <1>1, <1>2 DEF Content
<1>3. CASE Writers(l, n, x) # {}
  <2>1. Writers(l, n, x) \in SUBSET (1 .. n)
    BY DEF Writers
  <2>2. LastOf(Writers(l, n, x)) \in Writers(l, n, x)
    BY <1>3, <2>1, LastExists DEF LastOf
  <2>3. l[LastOf(Writers(l, n, x))] = r[LastOf(Writers(l, n, x))]
    BY <2>1, <2>2
  <2> QED  BY <1>1, <1>3, <2>3 DEF Content, ValueIn
<1> QED  BY <1>2, <1>3

LEMMA ContentNext ==
  \A n \in Nat : \A l, x :
    Content(l, n + 1, x) = IF x \in l[n + 1].names THEN ValueIn(l[n + 1], x)
                           ELSE Content(l, n, x)
<1> TAKE n \in Nat
<1> TAKE l, x
<1>1. CASE x \notin l[n + 1].names
  <2>1. Writers(l, n + 1, x) = Writers(l, n, x)
    BY <1>1 DEF Writers
  <2> QED  BY <1>1, <2>1 DEF Content
<1>2. CASE x \in l[n + 1].names
  <2> DEFINE W == Writers(l, n + 1, x)
  <2>1. n + 1 \in W /\ W \subseteq 1 .. n + 1
    BY <1>2 DEF Writers
  <2>2. LastOf(W) \in W /\ \A k \in W : k <= LastOf(W)
    BY <2>1 DEF LastOf
  <2>3. LastOf(W) = n + 1
    BY <2>1, <2>2
  <2> HIDE DEF W
  <2>4. W # {}
    BY <2>1
  <2> QED  BY <1>2, <2>3, <2>4 DEF Content, W
<1> QED  BY <1>1, <1>2

\* What the first n changes made of a name does not depend on the others.
LEMMA ValueKept ==
  ASSUME NEW n \in Nat, \A m \in 1 .. n : log'[m] = log[m]
  PROVE  \A x : ValueAfter(n, x)' = ValueAfter(n, x) /\ Content(log', n, x) = ValueAfter(n, x)
<1> TAKE x
<1>1. Content(log', n, x) = Content(log, n, x)
  BY ContentSame
<1>2. ValueAfter(n, x)' = Content(log', n, x)
  BY DEF ValueAfter, Content, Writers, LastOf
<1> QED  BY <1>1, <1>2, ValueIsContent

LEMMA LatestIsContent == \A x : Latest(x)' = Content(log', Len(log'), x)
BY DEF Latest, ValueAfter, Content, Writers, LastOf

\* A change is made.
LEMMA Appended ==
  ASSUME log \in Seq(Changes), NEW change \in Changes, log' = Append(log, change)
  PROVE  /\ log' \in Seq(Changes) /\ Len(log') = Len(log) + 1 /\ Len(log) \in Nat
         /\ \A n \in 0 .. Len(log) : \A x : ValueAfter(n, x)' = ValueAfter(n, x)
         /\ \A x : Latest(x)' = IF x \in change.names THEN ValueIn(change, x) ELSE Latest(x)
<1>1. /\ log' \in Seq(Changes) /\ Len(log') = Len(log) + 1 /\ Len(log) \in Nat
      /\ \A m \in 1 .. Len(log) : log'[m] = log[m]
      /\ log'[Len(log) + 1] = change
  OBVIOUS
<1>2. ASSUME NEW n \in 0 .. Len(log) PROVE \A x : ValueAfter(n, x)' = ValueAfter(n, x)
  <2>1. n \in Nat /\ \A m \in 1 .. n : log'[m] = log[m]
    BY <1>1
  <2> QED  BY <2>1, ValueKept
<1>3. \A x : Content(log', Len(log), x) = Latest(x)
  BY <1>1, ValueKept DEF Latest
<1>4. \A x : Content(log', Len(log) + 1, x)
               = IF x \in log'[Len(log) + 1].names THEN ValueIn(log'[Len(log) + 1], x)
                 ELSE Content(log', Len(log), x)
  BY <1>1, ContentNext
<1>5. \A x : Latest(x)' = IF x \in change.names THEN ValueIn(change, x) ELSE Latest(x)
  BY <1>1, <1>3, <1>4, LatestIsContent
<1> QED  BY <1>1, <1>2, <1>5

\* The changes from some point on are lost.
LEMMA Cut ==
  ASSUME log \in Seq(Changes), NEW n \in 0 .. Len(log), log' = SubSeq(log, 1, n)
  PROVE  /\ log' \in Seq(Changes) /\ Len(log') = n
         /\ \A x : ValueAfter(n, x)' = ValueAfter(n, x)
         /\ \A x : Latest(x)' = ValueAfter(n, x)
<1>1. /\ log' \in Seq(Changes) /\ Len(log') = n /\ n \in Nat
      /\ \A m \in 1 .. n : log'[m] = log[m]
  BY SubSeqProperties, LenProperties
<1>2. \A x : ValueAfter(n, x)' = ValueAfter(n, x) /\ Content(log', n, x) = ValueAfter(n, x)
  BY <1>1, ValueKept
<1> QED  BY <1>1, <1>2, LatestIsContent

-----------------------------------------------------------------------------
(* Frames: what a step leaves alone *)

LEMMA SpendTyped ==
  ASSUME spent \in [Bounded -> Nat], NEW kind \in Bounded, Spend(kind)
  PROVE  spent' \in [Bounded -> Nat]
BY DEF Spend

LEMMA FreshTyped == ASSUME TypeOK PROVE Fresh \in Nat /\ Fresh >= 2
BY DEF TypeOK, Fresh, Bounded

\* The content of storage and the log.
LEMMA StoreKept ==
  ASSUME UNCHANGED <<typed, legacy, log>>
  PROVE  /\ \A x : Found(x)' = Found(x) /\ Latest(x)' = Latest(x)
         /\ \A n : StoredUpTo(n)' = StoredUpTo(n)
         /\ UNCHANGED acked => (StoreIsPrefix => StoreIsPrefix')
<1>1. \A x : Found(x)' = Found(x) /\ Latest(x)' = Latest(x)
  BY DEF Found, Latest, ValueAfter
<1>2. \A n : StoredUpTo(n)' = StoredUpTo(n)
  BY DEF StoredUpTo, Found, ValueAfter
<1>3. ASSUME UNCHANGED acked, StoreIsPrefix PROVE StoreIsPrefix'
  BY <1>2, <1>3 DEF StoreIsPrefix
<1> QED  BY <1>1, <1>2, <1>3

LEMMA GetKept ==
  ASSUME GetInv, UNCHANGED <<typed, unsaved, caller, log>> PROVE GetInv'
BY DEF GetInv, ReadsLatest, ValueAfter

\* Storage holds everything: whoever is told so is told the truth.
LEMMA AllStored ==
  ASSUME TypeOK, StoredUpTo(Len(log)), acked' = Len(log), UNCHANGED <<typed, legacy, log>>
  PROVE  StoreIsPrefix' /\ acked' \in Nat
<1>1. Len(log) \in Nat /\ Len(log) \in acked' .. Len(log)'
  BY DEF TypeOK
<1>2. PICK n \in Nat : n = Len(log)
  BY <1>1
<1>3. StoredUpTo(n)'
  BY <1>2, StoreKept
<1> QED  BY <1>1, <1>2, <1>3 DEF StoreIsPrefix

\* A call joins the chain.
LEMMA Joined ==
  ASSUME TypeOK, NEW operation \in Operations, Enqueue(operation)
  PROVE  /\ queue' \in Seq(Operations) /\ queue' # <<>> /\ Len(queue) \in Nat
         /\ Len(queue') = Len(queue) + 1 /\ queue'[Len(queue) + 1] = operation
         /\ \A n \in 1 .. Len(queue) : queue'[n] = queue[n]
         /\ queue # <<>> => Head1' = Head1
         /\ queue = <<>> => Head1' = operation
BY DEF TypeOK, Enqueue, Head1

\* The running operation leaves it.
LEMMA Left ==
  ASSUME TypeOK, queue # <<>>, Leave
  PROVE  /\ queue' \in Seq(Operations) /\ progress' = "wait" /\ Len(queue) \in Nat \ {0}
         /\ Len(queue') = Len(queue) - 1
         /\ \A n \in 1 .. Len(queue') : queue'[n] = queue[n + 1] /\ n + 1 \in 1 .. Len(queue)
         /\ queue' = <<>> <=> Len(queue) = 1
<1>1. queue \in Seq(Operations)
  BY DEF TypeOK
<1>2. queue' = Tail(queue) /\ progress' = "wait"
  BY DEF Leave, Free
<1>3. Len(queue) \in Nat \ {0}
  BY <1>1, EmptySeq
<1>4. /\ queue' \in Seq(Operations) /\ Len(queue') = Len(queue) - 1
      /\ \A n \in 1 .. Len(queue') : queue'[n] = queue[n + 1]
  BY <1>1, <1>2, HeadTailProperties
<1>5. queue' = <<>> <=> Len(queue') = 0
  BY <1>4, EmptySeq
<1> QED  BY <1>2, <1>3, <1>4, <1>5

-----------------------------------------------------------------------------
(* Calls *)

\* What a call keeps: storage and what is unsaved are as they were.
LEMMA CallKeeps ==
  ASSUME AuthInv, NEW operation \in Operations, Enqueue(operation), ~Clearing, up,
         operation.op \in Writes => (doubt => unsaved = {}),
         UNCHANGED <<store, progress, up, unsaved, entry, doubt, history>>,
         creds' \in Nat, spent' \in [Bounded -> Nat],
         caller' \in [pc : {"idle", "set", "flush", "typed", "legacy", "told"},
                      key : Record, val : Nat]
  PROVE  TypeOK' /\ DownInv' /\ StoreIsPrefix' /\ StoredInv' /\ DoneInv' /\ EntriesInv'
<1> USE DEF AuthInv, store, history
<1>1. TypeOK'
  BY Joined DEF TypeOK
<1>2. DownInv'
  BY DEF DownInv
<1>3. StoreIsPrefix' /\ StoredInv'
  BY StoreKept DEF StoredInv
<1>4. DoneInv'
  BY StoreKept, Joined DEF DoneInv, Runs, TypeOK
<1>5. EntriesInv'
  <2>1. progress = "stored" => Head1' = Head1 /\ queue # <<>>
    BY Joined DEF TypeOK
  <2>2. Replaced' <=> Replaced
    BY <2>1, Joined DEF Replaced
  <2>3. (~doubt \/ unsaved = {} \/ Writing)' => (~doubt \/ unsaved = {} \/ Writing)
    BY Joined DEF Writing
  <2> QED  BY <2>2, <2>3, StoreKept DEF EntriesInv
<1> QED  BY <1>1, <1>2, <1>3, <1>4, <1>5

LEMMA OperationTyped ==
  ASSUME NEW op \in Writes \union Clears, NEW by \in {"set", "get", "drain", "none"},
         NEW names \in SUBSET Record, NEW put \in SUBSET Record, NEW val \in Nat
  PROVE  /\ Operation(op, by, Change(names, put, val)) \in Operations
         /\ Change(names, put, val) \in Changes
BY DEF Operation, Operations, Change, Changes

\* Without a call of the key store nothing in the chain is its, and the other way round.
LEMMA NobodyWaits ==
  ASSUME AuthInv, ~Clearing, caller.pc = "idle"
  PROVE  \A n \in 1 .. Len(queue) :
           queue[n].op \in Writes \ Clears /\ queue[n].by \in {"none", "drain"}
<1> SUFFICES ASSUME NEW n \in 1 .. Len(queue)
             PROVE  queue[n].op \in Writes \ Clears /\ queue[n].by \in {"none", "drain"}
  OBVIOUS
<1>1. Belongs(queue[n], caller.pc) /\ queue[n] \in Operations
  BY ElementOfSeq DEF AuthInv, QueueInv, TypeOK
<1>2. queue[n].op \in {"set", "flush"}
  BY <1>1 DEF Operations, Clearing, Writes, Clears
<1> QED  BY <1>1, <1>2 DEF Belongs, Writes, Clears

\* What joins the chain belongs there, and has a caller of its own.
LEMMA JoinsWell ==
  ASSUME AuthInv, ~Clearing, NEW operation \in Operations, Enqueue(operation),
         Belongs(operation, caller'.pc),
         caller.pc = "idle" \/ (UNCHANGED caller /\ operation.by \notin {"set", "get"})
  PROVE  QueueInv' /\ OneCaller'
<1>1. /\ Len(queue') = Len(queue) + 1 /\ Len(queue) \in Nat
      /\ queue'[Len(queue) + 1] = operation
      /\ \A n \in 1 .. Len(queue) : queue'[n] = queue[n]
  BY Joined DEF AuthInv
<1>2. ASSUME NEW n \in 1 .. Len(queue) PROVE Belongs(queue[n], caller'.pc)
  BY NobodyWaits DEF AuthInv, QueueInv, Belongs, Clears
<1>3. ASSUME NEW n \in 1 .. Len(queue') PROVE Belongs(queue'[n], caller'.pc)
  BY <1>1, <1>2
<1>4. ASSUME NEW n \in 1 .. Len(queue'), queue'[n].op \in Clears PROVE n = Len(queue')
  BY <1>1, <1>4 DEF Clearing
<1>5. OneCaller'
  BY <1>1, NobodyWaits DEF AuthInv, OneCaller
<1> QED  BY <1>3, <1>4, <1>5 DEF QueueInv

\* Credentials that join the chain after a reset are not the imported ones.
LEMMA JoinsFresh ==
  ASSUME AuthInv, NEW operation \in Operations, Enqueue(operation),
         UNCHANGED <<store, up, unsaved, entry, cleared>>,
         cleared => (up => creds' >= 2),
         cleared => (operation.op = "set" /\ Creds \in operation.change.names
                       => operation.change.val >= 2)
  PROVE  ResetInv'
BY Joined DEF AuthInv, ResetInv, store

LEMMA SetKeysKeeps ==
  ASSUME AuthInv, NEW names \in SUBSET Key, NEW put \in SUBSET names, SetKeys(names, put)
  PROVE  AuthInv'
<1> USE DEF AuthInv, SetKeys, Usable, memory, history
<1> DEFINE operation == Operation("set", "set", Change(names, put, Fresh))
<1>1. operation \in Operations /\ Enqueue(operation)
  BY OperationTyped, FreshTyped DEF Record, Writes
<1>2. caller'.pc = "set" /\ caller.pc = "idle" /\ caller' \in
        [pc : {"idle", "set", "flush", "typed", "legacy", "told"}, key : Record, val : Nat]
  BY DEF TypeOK
<1>3. spent' \in [Bounded -> Nat] /\ creds' \in Nat
  BY SpendTyped DEF TypeOK, Bounded
<1>4. operation.op = "set" /\ operation.by = "set" /\ operation.change.names = names
  BY DEF Operation, Change
<1> HIDE DEF operation
<1>5. TypeOK' /\ DownInv' /\ StoreIsPrefix' /\ StoredInv' /\ DoneInv' /\ EntriesInv'
  BY <1>1, <1>2, <1>3, CallKeeps
<1>6. QueueInv' /\ OneCaller'
  <2>1. Belongs(operation, caller'.pc)
    BY <1>2, <1>4 DEF Belongs, Clears
  <2> QED  BY <1>1, <1>2, <2>1, JoinsWell
<1>7. GetInv'
  BY <1>2 DEF GetInv, ReadsLatest, TypeOK
<1>8. ResetInv'
  BY <1>1, <1>4, JoinsFresh, KeyAssumption DEF ResetInv
<1> QED  BY <1>5, <1>6, <1>7, <1>8

LEMMA GetKeyKeeps ==
  ASSUME AuthInv, NEW k \in Key, GetKey(k)
  PROVE  AuthInv'
<1> USE DEF AuthInv, GetKey, Usable, memory, history
<1> DEFINE operation == Operation("flush", "get", Nothing)
<1>1. operation \in Operations /\ Enqueue(operation)
  BY OperationTyped DEF Writes, Nothing
<1>2. caller' = [pc |-> "flush", key |-> k, val |-> 0] /\ caller.pc = "idle" /\ caller' \in
        [pc : {"idle", "set", "flush", "typed", "legacy", "told"}, key : Record, val : Nat]
  BY DEF Record
<1>3. spent' \in [Bounded -> Nat] /\ creds' \in Nat
  BY SpendTyped DEF TypeOK, Bounded
<1>4. operation.op = "flush" /\ operation.by = "get"
  BY DEF Operation
<1> HIDE DEF operation
<1>5. TypeOK' /\ DownInv' /\ StoreIsPrefix' /\ StoredInv' /\ DoneInv' /\ EntriesInv'
  BY <1>1, <1>2, <1>3, CallKeeps
<1>6. QueueInv' /\ OneCaller'
  <2>1. Belongs(operation, caller'.pc)
    BY <1>2, <1>4 DEF Belongs, Clears
  <2> QED  BY <1>1, <1>2, <2>1, JoinsWell
<1>7. GetInv'
  BY <1>2 DEF GetInv, ReadsLatest, TypeOK
<1>8. ResetInv'
  BY <1>1, <1>4, JoinsFresh DEF ResetInv
<1> QED  BY <1>5, <1>6, <1>7, <1>8

\* The credentials are those in memory, or new ones.
LEMMA SaveCredsKeeps == ASSUME AuthInv, SaveCreds PROVE AuthInv'
<1> USE DEF AuthInv, SaveCreds, Usable, history
<1> DEFINE operation == Operation("set", "none", Change({Creds}, {Creds}, creds'))
<1>0. creds' \in Nat /\ spent' \in [Bounded -> Nat]
  BY SpendTyped, FreshTyped DEF TypeOK, Bounded
<1>1. operation \in Operations /\ Enqueue(operation)
  BY <1>0, OperationTyped DEF Record, Writes
<1>2. /\ operation.op = "set" /\ operation.by = "none" /\ operation.change.names = {Creds}
      /\ operation.change.put = {Creds} /\ operation.change.val = creds'
  BY DEF Operation, Change
<1>3. cleared => creds' >= 2
  BY FreshTyped DEF ResetInv
<1> HIDE DEF operation
<1>4. TypeOK' /\ DownInv' /\ StoreIsPrefix' /\ StoredInv' /\ DoneInv' /\ EntriesInv'
  BY <1>0, <1>1, CallKeeps DEF TypeOK
<1>5. QueueInv' /\ OneCaller'
  BY <1>1, <1>2, JoinsWell DEF Belongs, Clears
<1>6. GetInv'
  BY GetKept DEF store
<1>7. ResetInv'
  BY <1>1, <1>2, <1>3, JoinsFresh
<1> QED  BY <1>4, <1>5, <1>6, <1>7

LEMMA DrainKeeps == ASSUME AuthInv, DrainCall PROVE AuthInv'
<1> USE DEF AuthInv, DrainCall, Usable, memory, history
<1> DEFINE operation == Operation("flush", "drain", Nothing)
<1>1. operation \in Operations /\ Enqueue(operation)
  BY OperationTyped DEF Writes, Nothing
<1>2. operation.op = "flush" /\ operation.by = "drain"
  BY DEF Operation
<1> HIDE DEF operation
<1>3. TypeOK' /\ DownInv' /\ StoreIsPrefix' /\ StoredInv' /\ DoneInv' /\ EntriesInv'
  BY <1>1, CallKeeps DEF TypeOK
<1>4. QueueInv' /\ OneCaller'
  BY <1>1, <1>2, JoinsWell DEF Belongs, Clears
<1>5. GetInv'
  BY GetKept DEF store
<1>6. ResetInv'
  BY <1>1, <1>2, JoinsFresh DEF ResetInv
<1> QED  BY <1>3, <1>4, <1>5, <1>6

\* A reset or a removal is the last call until it has ended.
LEMMA ClearKeeps == ASSUME AuthInv, ResetCall \/ RemoveCall PROVE AuthInv'
<1> USE DEF AuthInv, memory, history
<1>0. PICK operation : /\ operation \in {Operation("reset", "none", Marker),
                                        Operation("remove", "none", Change(Record, {}, 0))}
                       /\ Enqueue(operation)
  BY DEF ResetCall, RemoveCall
<1>1. operation \in Operations
  BY <1>0, OperationTyped, FreshTyped DEF Marker, Clears, Record
<1>2. operation.op \in Clears /\ operation.op \notin Writes /\ Belongs(operation, "idle")
      /\ operation.by = "none"
  BY <1>0, FreshTyped DEF Belongs, Operation, Marker, Change, Clears, Writes
<1>3. up /\ ~Clearing /\ caller.pc = "idle"
      /\ UNCHANGED <<store, progress, up, creds, unsaved, entry, doubt, caller, log, acked, cleared>>
  BY DEF ResetCall, RemoveCall
<1>4. spent' \in [Bounded -> Nat]
  BY SpendTyped DEF TypeOK, Bounded, ResetCall, RemoveCall
<1>5. TypeOK' /\ DownInv' /\ StoreIsPrefix' /\ StoredInv' /\ DoneInv' /\ EntriesInv'
  BY <1>0, <1>1, <1>2, <1>3, <1>4, CallKeeps DEF TypeOK
<1>6. QueueInv' /\ OneCaller'
  BY <1>0, <1>1, <1>2, <1>3, JoinsWell
<1>7. GetInv'
  BY <1>3 DEF GetInv, ReadsLatest
<1>8. ResetInv'
  BY <1>0, <1>1, <1>2, <1>3, JoinsFresh DEF ResetInv, Clears
<1> QED  BY <1>5, <1>6, <1>7, <1>8

-----------------------------------------------------------------------------
(* The running operation *)

LEMMA Running ==
  ASSUME AuthInv, queue # <<>>
  PROVE  /\ 1 \in 1 .. Len(queue) /\ up /\ Head1 \in Operations /\ Belongs(Head1, caller.pc)
         /\ Head1.change \in Changes /\ Head1.op \in Writes \union Clears
         /\ Head1.op \in Writes => Head1.op \notin Clears
<1>1. queue \in Seq(Operations) /\ Len(queue) \in Nat \ {0}
  BY EmptySeq DEF AuthInv, TypeOK
<1>2. 1 \in 1 .. Len(queue) /\ Head1 \in Operations
  BY <1>1, ElementOfSeq DEF Head1
<1>3. up
  BY DEF AuthInv, DownInv, TypeOK
<1> QED  BY <1>2, <1>3 DEF AuthInv, QueueInv, Head1, Operations, Writes, Clears

\* The operation leaves and its caller goes on.
LEMMA LeavesWell ==
  ASSUME AuthInv, queue # <<>>, Leave, NEW ok \in BOOLEAN, Wake(ok)
  PROVE  /\ QueueInv' /\ OneCaller'
         /\ caller' \in [pc : {"idle", "set", "flush", "typed", "legacy", "told"},
                         key : Record, val : Nat]
         /\ Head1.op \in Clears => queue' = <<>> /\ caller' = caller /\ caller.pc = "idle"
<1> USE DEF AuthInv
<1>1. /\ Len(queue) \in Nat \ {0} /\ Len(queue') = Len(queue) - 1
      /\ \A n \in 1 .. Len(queue') : queue'[n] = queue[n + 1] /\ n + 1 \in 1 .. Len(queue)
      /\ queue' = <<>> <=> Len(queue) = 1
  BY Left
<1>2. 1 \in 1 .. Len(queue) /\ Belongs(Head1, caller.pc) /\ Head1.op \in Writes \union Clears
  BY Running
<1>3. caller' \in [pc : {"idle", "set", "flush", "typed", "legacy", "told"},
                   key : Record, val : Nat]
  BY DEF Wake, Idle, TypeOK, Record
<1>4. ASSUME NEW n \in 1 .. Len(queue') PROVE Belongs(queue'[n], caller'.pc)
  <2>1. Belongs(queue[n + 1], caller.pc) /\ queue'[n] = queue[n + 1] /\ n + 1 # 1
    BY <1>1 DEF QueueInv
  <2>2. CASE Head1.by \notin {"set", "get"}
    BY <2>1, <2>2 DEF Wake
  <2>3. CASE Head1.by \in {"set", "get"}
    <3>1. queue[n + 1].by \notin {"set", "get"}
      BY <1>1, <1>2, <2>1, <2>3 DEF OneCaller, Head1
    <3>2. caller.pc \in {"set", "flush"}
      BY <1>2, <2>3 DEF Belongs, Writes, Clears
    <3> QED  BY <2>1, <3>1, <3>2 DEF Belongs
  <2> QED  BY <2>2, <2>3
<1>5. ASSUME NEW n \in 1 .. Len(queue'), queue'[n].op \in Clears PROVE n = Len(queue')
  <2>1. n + 1 = Len(queue)
    BY <1>1, <1>5 DEF QueueInv
  <2> QED  BY <1>1, <2>1
<1>6. OneCaller'
  <2> SUFFICES ASSUME NEW m \in 1 .. Len(queue'), NEW n \in 1 .. Len(queue'),
                      queue'[m].by \in {"set", "get"}, queue'[n].by \in {"set", "get"}
               PROVE  m = n
    BY DEF OneCaller
  <2>1. m + 1 = n + 1
    BY <1>1 DEF OneCaller
  <2> QED  BY <2>1
<1>7. ASSUME Head1.op \in Clears
      PROVE  queue' = <<>> /\ caller' = caller /\ caller.pc = "idle"
  BY <1>1, <1>2, <1>7 DEF QueueInv, Head1, Belongs, Wake
<1> QED  BY <1>3, <1>4, <1>5, <1>6, <1>7 DEF QueueInv

\* A get goes on to its reads when everything is stored.
LEMMA GetLeaves ==
  ASSUME AuthInv, queue # <<>>, NEW ok \in BOOLEAN, Wake(ok), UNCHANGED <<typed, legacy, log>>,
         unsaved' \subseteq unsaved, ok => unsaved' = {}
  PROVE  GetInv'
<1>1. Belongs(Head1, caller.pc)
  BY Running
<1>2. CASE Head1.by \notin {"set", "get"}
  BY <1>2 DEF AuthInv, GetInv, ReadsLatest, ValueAfter, Wake
<1>3. CASE Head1.by \in {"set", "get"} /\ ok /\ Head1.by = "get"
  <2>1. caller.pc = "flush"
    BY <1>1, <1>3, Running DEF Belongs, Writes, Clears
  <2>2. caller'.pc = "typed" /\ caller'.key = caller.key
    BY <1>3 DEF Wake, AuthInv, TypeOK
  <2> QED  BY <1>3, <2>1, <2>2 DEF AuthInv, GetInv, ReadsLatest
<1>4. CASE Head1.by \in {"set", "get"} /\ ~(ok /\ Head1.by = "get")
  BY <1>4 DEF Wake, GetInv, ReadsLatest, Idle
<1> QED  BY <1>2, <1>3, <1>4

LEMMA ResetLeaves ==
  ASSUME AuthInv, queue # <<>>, Leave, UNCHANGED <<typed, legacy, creds, entry, cleared>>,
         up' => up, unsaved' \subseteq unsaved
  PROVE  ResetInv'
BY Left DEF AuthInv, ResetInv

\* An operation that ended well has left nothing to be stored.
LEMMA EndsStored ==
  ASSUME AuthInv, queue # <<>>, Leave, StoredUpTo(Len(log)), unsaved' = {}, acked' = Len(log),
         UNCHANGED <<typed, legacy, log>>
  PROVE  StoreIsPrefix' /\ StoredInv' /\ DoneInv' /\ EntriesInv' /\ acked' \in Nat
<1> USE DEF AuthInv
<1>1. StoreIsPrefix' /\ acked' \in Nat
  BY AllStored
<1>2. progress' = "wait"
  BY Left
<1>3. StoredInv'
  BY StoreKept DEF StoredInv, StoredUpTo, Latest
<1> QED  BY <1>1, <1>2, <1>3 DEF DoneInv, EntriesInv

LEMMA BeginSetKeeps == ASSUME AuthInv, BeginSet PROVE AuthInv'
<1> USE DEF AuthInv, BeginSet, HeadIs
<1> DEFINE change == Head1.change
<1>1. /\ change \in Changes /\ Belongs(Head1, caller.pc) /\ up /\ change.names \subseteq Record
      /\ \A x \in Record : ValueIn(change, x) \in Nat
  BY Running DEF Changes, ValueIn
<1>2. /\ log' \in Seq(Changes) /\ Len(log') = Len(log) + 1 /\ Len(log) \in Nat
      /\ \A n \in 0 .. Len(log) : \A x : ValueAfter(n, x)' = ValueAfter(n, x)
      /\ \A x : Latest(x)' = IF x \in change.names THEN ValueIn(change, x) ELSE Latest(x)
  BY <1>1, Appended DEF TypeOK
<1>3. \A x : Found(x)' = Found(x)
  BY DEF Found, store
<1>4. Creds \in change.names => change.names = {Creds} /\ change.put = {Creds}
  BY <1>1, KeyAssumption DEF Belongs
<1> HIDE DEF change
<1>5. unsaved' = unsaved \union change.names
      /\ entry' = [x \in Record |-> IF x \in change.names THEN ValueIn(change, x) ELSE entry[x]]
  BY DEF Merged, change
<1>6. TypeOK'
  <2>1. entry \in [Record -> Nat] /\ unsaved \subseteq Record
    BY DEF TypeOK
  <2>2. unsaved' \subseteq Record
    BY <1>1, <1>5, <2>1
  <2>3. \A x \in Record : (IF x \in change.names THEN ValueIn(change, x) ELSE entry[x]) \in Nat
    BY <1>1, <2>1
  <2>4. entry' \in [Record -> Nat]
    BY <1>5, <2>3
  <2> QED  BY <1>2, <2>2, <2>4 DEF TypeOK, store
<1>7. QueueInv' /\ OneCaller' /\ DownInv'
  BY <1>1 DEF QueueInv, OneCaller, DownInv
<1>8. StoreIsPrefix'
  <2>1. PICK n \in acked .. Len(log) : StoredUpTo(n)
    BY DEF StoreIsPrefix
  <2>2. n \in acked' .. Len(log') /\ n \in 0 .. Len(log)
    BY <1>2, <2>1 DEF TypeOK
  <2>3. StoredUpTo(n)'
    BY <1>2, <1>3, <2>1, <2>2 DEF StoredUpTo
  <2> QED  BY <2>2, <2>3 DEF StoreIsPrefix
<1>9. StoredInv'
  BY <1>2, <1>3, <1>5 DEF StoredInv
<1>10. DoneInv'
  BY DEF DoneInv
<1>11. EntriesInv'
  <2>1. \A x \in unsaved : entry[x] = Latest(x)
    BY DEF EntriesInv, Writing, Replaced, Writes
  <2>2. unsaved' \subseteq Record
    BY <1>6 DEF TypeOK
  <2> QED  BY <1>2, <1>5, <2>1, <2>2 DEF EntriesInv
<1>12. GetInv'
  <2>1. caller.pc \in {"typed", "legacy", "told"} =>
          caller.key \notin change.names /\ Latest(caller.key)' = Latest(caller.key)
    BY <1>1, <1>2, KeyAssumption DEF GetInv, Belongs, change
  <2>2. ReadsLatest'
    BY <2>1 DEF GetInv, ReadsLatest, Latest
  <2> QED  BY <1>5, <2>1, <2>2 DEF GetInv, store
<1>13. ResetInv'
  <2>1. ASSUME cleared, Creds \in unsaved' PROVE entry'[Creds] >= 2
    <3>1. CASE Creds \in change.names
      <4>1. change.val >= 2
        BY <2>1, <3>1, Running DEF ResetInv, Head1, change
      <4> QED  BY <1>4, <1>5, <3>1, <4>1 DEF ValueIn, Record
    <3>2. CASE Creds \notin change.names
      BY <1>5, <2>1, <3>2 DEF ResetInv, Record
    <3> QED  BY <3>1, <3>2
  <2> QED  BY <2>1 DEF ResetInv, store
<1> QED  BY <1>6, <1>7, <1>8, <1>9, <1>10, <1>11, <1>12, <1>13

LEMMA FlushNothingKeeps == ASSUME AuthInv, FlushNothing PROVE AuthInv'
<1> USE DEF AuthInv, FlushNothing, HeadIs, store, memory
<1>1. StoredUpTo(Len(log))
  BY DEF StoredInv, StoredUpTo, Latest
<1>2. StoreIsPrefix' /\ StoredInv' /\ DoneInv' /\ EntriesInv' /\ acked' \in Nat
  BY <1>1, EndsStored
<1>3. QueueInv' /\ OneCaller' /\ queue' \in Seq(Operations) /\ progress' = "wait" /\ caller' \in
        [pc : {"idle", "set", "flush", "typed", "legacy", "told"}, key : Record, val : Nat]
  BY LeavesWell, Left
<1>4. TypeOK'
  BY <1>2, <1>3 DEF TypeOK
<1>5. DownInv' /\ ResetInv'
  BY Running, ResetLeaves DEF DownInv
<1>6. GetInv'
  BY GetLeaves
<1> QED  BY <1>2, <1>3, <1>4, <1>5, <1>6

LEMMA SendKeeps == ASSUME AuthInv, Send PROVE AuthInv'
<1> USE DEF AuthInv, Send, HeadIs, store, memory, history
<1>1. TypeOK'
  BY DEF TypeOK
<1>2. QueueInv' /\ OneCaller' /\ DownInv' /\ ResetInv'
  BY DEF QueueInv, OneCaller, DownInv, ResetInv
<1>3. StoreIsPrefix' /\ StoredInv' /\ DoneInv'
  BY StoreKept DEF StoredInv, DoneInv
<1>4. EntriesInv'
  BY StoreKept DEF EntriesInv, Writing, Replaced, Head1
<1>5. GetInv'
  BY GetKept
<1> QED  BY <1>1, <1>2, <1>3, <1>4, <1>5

\* A write stores what is unsaved, hence everything.
LEMMA StoreEntriesKeeps == ASSUME AuthInv, StoreEntries PROVE AuthInv'
<1> USE DEF AuthInv, StoreEntries, HeadIs, memory, history
<1>1. \A x \in unsaved : entry[x] = Latest(x)
  BY DEF EntriesInv, Writing, Replaced
<1>2. ASSUME NEW x \in Record PROVE Found(x)' = Latest(x)
  <2>1. CASE x \in unsaved
    BY <1>1, <2>1 DEF Found
  <2>2. CASE x \notin unsaved
    BY <2>2 DEF Found, StoredInv
  <2> QED  BY <2>1, <2>2
<1>3. \A x : Latest(x)' = Latest(x)
  BY DEF Latest, ValueAfter
<1>4. TypeOK'
  BY DEF TypeOK
<1>5. QueueInv' /\ OneCaller' /\ DownInv'
  BY DEF QueueInv, OneCaller, DownInv
<1>6. StoreIsPrefix' /\ StoredUpTo(Len(log))'
  <2>1. PICK n \in acked .. Len(log) : TRUE
    BY DEF StoreIsPrefix
  <2>2. PICK m \in Nat : m = Len(log)
    BY DEF TypeOK
  <2>3. \A x \in Record : Found(x)' = ValueAfter(m, x)'
    BY <1>2, <1>3, <2>2 DEF Latest
  <2>4. m \in acked' .. Len(log') /\ StoredUpTo(m)'
    BY <2>1, <2>2, <2>3 DEF StoredUpTo, TypeOK
  <2> QED  BY <2>2, <2>4 DEF StoreIsPrefix, StoredUpTo
<1>7. StoredInv'
  BY <1>2, <1>3 DEF StoredInv
<1>8. DoneInv'
  BY <1>6 DEF DoneInv, Runs, Head1, Writes
<1>9. EntriesInv'
  BY <1>1, <1>3 DEF EntriesInv
<1>10. GetInv'
  BY <1>3 DEF GetInv, ReadsLatest, Latest, Record
<1>11. ResetInv'
  BY DEF ResetInv, Record
<1> QED  BY <1>4, <1>5, <1>6, <1>7, <1>8, <1>9, <1>10, <1>11

\* A replacement of everything stored is the outcome of the change that it makes.
LEMMA ReplaceStores ==
  ASSUME AuthInv, NEW change \in Changes, Replace(change), change.names = Record,
         change.put \subseteq change.names, change.put \subseteq {Creds} \/ change.val = Imported
  PROVE  /\ typed' \in [Record -> Nat] /\ legacy' \subseteq Key /\ log' \in Seq(Changes)
         /\ Len(log') = Len(log) + 1 /\ Len(log) \in Nat /\ acked \in 0 .. Len(log)
         /\ typed'[Creds] = ValueIn(change, Creds) /\ legacy' = change.put \ {Creds}
         /\ \A x \in Record : Found(x)' = Latest(x)'
         /\ StoredUpTo(Len(log))'
<1> USE DEF AuthInv, Replace
<1>1. /\ log' \in Seq(Changes) /\ Len(log') = Len(log) + 1 /\ Len(log) \in Nat
      /\ \A x : Latest(x)' = IF x \in change.names THEN ValueIn(change, x) ELSE Latest(x)
  BY Appended DEF TypeOK
<1>2. acked \in 0 .. Len(log)
  BY <1>1 DEF StoreIsPrefix, TypeOK
<1>3. typed' \in [Record -> Nat] /\ legacy' \subseteq Key /\ typed'[Creds] = ValueIn(change, Creds)
  BY DEF Changes, Record, ValueIn
<1>4. ASSUME NEW x \in Record PROVE Found(x)' = Latest(x)'
  <2>1. Latest(x)' = ValueIn(change, x)
    BY <1>1
  <2>2. CASE x = Creds
    BY <2>1, <2>2 DEF Found
  <2>3. CASE x # Creds
    <3>1. typed'[x] = 0
      BY <2>3
    <3>2. x \in legacy' <=> x \in change.put
      BY <2>3
    <3>3. x \in change.put => change.val = Imported
      BY <2>3
    <3> QED  BY <2>1, <3>1, <3>2, <3>3 DEF Found, ValueIn
  <2> QED  BY <2>2, <2>3
<1>5. StoredUpTo(Len(log))'
  BY <1>4 DEF StoredUpTo, Latest
<1> QED  BY <1>1, <1>2, <1>3, <1>4, <1>5

LEMMA StoreReplacementKeeps == ASSUME AuthInv, StoreReplacement PROVE AuthInv'
<1> USE DEF AuthInv, StoreReplacement, HeadIs, memory
<1>1. /\ Head1.change \in Changes /\ Head1.op \in {"reset", "remove"}
      /\ Belongs(Head1, caller.pc) /\ caller.pc = "idle"
  BY Running DEF Belongs, Clears
<1>2. /\ Head1.change.names = Record /\ Head1.change.put \subseteq {Creds}
      /\ Head1.op = "reset" => Head1.change.put = {Creds} /\ Head1.change.val >= 2
  BY <1>1 DEF Belongs, Change, Clears
<1>3. /\ typed' \in [Record -> Nat] /\ legacy' \subseteq Key /\ log' \in Seq(Changes)
      /\ Len(log') = Len(log) + 1 /\ Len(log) \in Nat /\ acked \in 0 .. Len(log)
      /\ typed'[Creds] = ValueIn(Head1.change, Creds)
      /\ legacy' = Head1.change.put \ {Creds}
      /\ \A x \in Record : Found(x)' = Latest(x)'
      /\ StoredUpTo(Len(log))'
  BY <1>1, <1>2, ReplaceStores DEF Record
<1>4. legacy' = {}
  BY <1>2, <1>3
<1>5. TypeOK'
  BY <1>3 DEF TypeOK
<1>6. QueueInv' /\ OneCaller' /\ DownInv'
  BY DEF QueueInv, OneCaller, DownInv
<1>7. StoreIsPrefix'
  <2>1. PICK n \in Nat : n = Len(log')
    BY <1>3
  <2>2. StoredUpTo(n)'
    BY <1>3, <2>1 DEF StoredUpTo
  <2> QED  BY <1>3, <2>1, <2>2 DEF StoreIsPrefix
<1>8. StoredInv'
  BY <1>3 DEF StoredInv
<1>9. DoneInv'
  BY <1>2, <1>3, <1>4 DEF DoneInv, Runs, Head1, ValueIn
<1>10. EntriesInv'
  BY DEF EntriesInv, Replaced, Head1
<1>11. GetInv'
  BY <1>1 DEF GetInv, ReadsLatest
<1>12. ResetInv'
  BY <1>2, <1>3, <1>4 DEF ResetInv, ValueIn
<1> QED  BY <1>5, <1>6, <1>7, <1>8, <1>9, <1>10, <1>11, <1>12

LEMMA WriteAnsweredKeeps == ASSUME AuthInv, WriteAnswered PROVE AuthInv'
<1> USE DEF AuthInv, WriteAnswered, HeadIs, store, Confirmed
<1>1. StoreIsPrefix' /\ StoredInv' /\ DoneInv' /\ EntriesInv' /\ acked' \in Nat
  BY EndsStored DEF DoneInv
<1>2. QueueInv' /\ OneCaller' /\ queue' \in Seq(Operations) /\ progress' = "wait" /\ caller' \in
        [pc : {"idle", "set", "flush", "typed", "legacy", "told"}, key : Record, val : Nat]
  BY LeavesWell, Left
<1>3. TypeOK'
  BY <1>1, <1>2 DEF TypeOK
<1>4. DownInv' /\ ResetInv'
  BY Running, ResetLeaves DEF DownInv
<1>5. GetInv'
  BY GetLeaves
<1> QED  BY <1>1, <1>2, <1>3, <1>4, <1>5

LEMMA ResetAnsweredKeeps == ASSUME AuthInv, ResetAnswered PROVE AuthInv'
<1> USE DEF AuthInv, ResetAnswered, HeadIs, store, Confirmed
<1>1. StoreIsPrefix' /\ StoredInv' /\ DoneInv' /\ EntriesInv' /\ acked' \in Nat
  BY EndsStored DEF DoneInv
<1>2. /\ QueueInv' /\ OneCaller' /\ queue' = <<>> /\ queue' \in Seq(Operations)
      /\ progress' = "wait" /\ caller' = caller /\ caller.pc = "idle"
  BY LeavesWell, Left DEF Clears
<1>3. Head1.change.val \in Nat /\ Head1.change.val >= 2
  BY Running DEF Belongs, Changes
<1>4. TypeOK'
  BY <1>1, <1>2, <1>3 DEF TypeOK
<1>5. DownInv' /\ GetInv'
  BY <1>2 DEF DownInv, GetInv, ReadsLatest
<1>6. ResetInv'
  <2>1. typed[Creds] = Head1.change.val /\ legacy = {}
    BY DEF DoneInv, Runs
  <2> QED  BY <1>2, <1>3, <2>1 DEF ResetInv
<1> QED  BY <1>1, <1>2, <1>4, <1>5, <1>6

LEMMA RemoveAnsweredKeeps == ASSUME AuthInv, RemoveAnswered PROVE AuthInv'
<1> USE DEF AuthInv, RemoveAnswered, HeadIs, Confirmed
<1>1. StoreIsPrefix' /\ StoredInv' /\ DoneInv' /\ EntriesInv' /\ acked' \in Nat
  BY EndsStored DEF DoneInv
<1>2. /\ QueueInv' /\ OneCaller' /\ queue' = <<>> /\ queue' \in Seq(Operations)
      /\ progress' = "wait" /\ caller' = caller /\ caller.pc = "idle"
  BY LeavesWell, Left DEF Clears
<1>3. up' \in BOOLEAN /\ folder' \in BOOLEAN /\ (up' => up)
  BY Running DEF TypeOK
<1>4. TypeOK'
  BY <1>1, <1>2, <1>3 DEF TypeOK
<1>5. DownInv' /\ GetInv'
  BY <1>2 DEF DownInv, GetInv, ReadsLatest
<1>6. ResetInv'
  BY <1>3, ResetLeaves
<1> QED  BY <1>1, <1>2, <1>4, <1>5, <1>6

\* What storage did not do, or did without saying so, stays to be done; after a reset or
\* a removal, nothing is written before the next one.
LEMMA StorageFailsKeeps == ASSUME AuthInv, StorageFails PROVE AuthInv'
<1> USE DEF AuthInv, StorageFails, HeadIs, store, history
<1>1. /\ QueueInv' /\ OneCaller' /\ queue' \in Seq(Operations)
      /\ progress' = "wait" /\ caller' \in
        [pc : {"idle", "set", "flush", "typed", "legacy", "told"}, key : Record, val : Nat]
      /\ (Head1.op \in Clears => queue' = <<>>)
  BY LeavesWell, Left
<1>2. spent' \in [Bounded -> Nat]
  BY SpendTyped DEF TypeOK, Bounded
<1>3. TypeOK'
  BY <1>1, <1>2, Running DEF TypeOK
<1>4. DownInv' /\ ResetInv'
  BY Running, ResetLeaves DEF DownInv
<1>5. StoreIsPrefix' /\ StoredInv'
  BY StoreKept DEF StoredInv
<1>6. DoneInv'
  BY <1>1 DEF DoneInv
<1>7. EntriesInv'
  <2>1. Writing' => Writing /\ ~Replaced
    BY <1>1, Running DEF Writing, Replaced
  <2>2. ~doubt' => ~doubt /\ ~Replaced
    BY DEF Replaced
  <2> QED  BY <2>1, <2>2, StoreKept DEF EntriesInv
<1>8. GetInv'
  BY GetLeaves
<1> QED  BY <1>1, <1>3, <1>4, <1>5, <1>6, <1>7, <1>8

-----------------------------------------------------------------------------
(* The object is loaded, read and lost *)

\* The object starts on what storage holds, which is the outcome of every change.
LEMMA LoadKeeps == ASSUME AuthInv, Load PROVE AuthInv'
<1> USE DEF AuthInv, Load, chain
<1>1. ~up /\ queue = <<>> /\ unsaved = {} /\ caller.pc = "idle" /\ progress = "wait"
  BY DEF DownInv, TypeOK
<1>2. QueueInv' /\ OneCaller' /\ DownInv' /\ DoneInv' /\ EntriesInv' /\ GetInv'
  BY <1>1 DEF QueueInv, OneCaller, DownInv, DoneInv, EntriesInv, GetInv, ReadsLatest
<1>3. CASE LoadStored
  <2>1. TypeOK'
    BY <1>3, KeyAssumption DEF TypeOK, LoadStored, Record
  <2>2. StoreIsPrefix' /\ StoredInv'
    BY <1>3, StoreKept DEF StoredInv, LoadStored
  <2>3. ResetInv'
    BY <1>1, <1>3 DEF ResetInv, LoadStored
  <2> QED  BY <1>2, <2>1, <2>2, <2>3
<1>4. ASSUME NEW change \in Changes, Replace(change), change.names = Record,
             change.put \subseteq change.names,
             change.put \subseteq {Creds} \/ change.val = Imported,
             typed[Creds] = 0, creds' \in Nat, acked' = Len(log) + 1,
             spent' \in [Bounded -> Nat]
      PROVE  AuthInv'
  <2>1. /\ typed' \in [Record -> Nat] /\ legacy' \subseteq Key /\ log' \in Seq(Changes)
        /\ Len(log') = Len(log) + 1 /\ Len(log) \in Nat
        /\ \A x \in Record : Found(x)' = Latest(x)'
        /\ StoredUpTo(Len(log))'
    BY <1>4, ReplaceStores
  <2>2. TypeOK'
    BY <1>4, <2>1 DEF TypeOK
  <2>3. StoreIsPrefix'
    <3>1. PICK n \in Nat : n = Len(log')
      BY <2>1
    <3>2. StoredUpTo(n)'
      BY <2>1, <3>1 DEF StoredUpTo
    <3> QED  BY <1>4, <2>1, <3>1, <3>2 DEF StoreIsPrefix
  <2>4. StoredInv'
    BY <2>1 DEF StoredInv
  <2>5. ResetInv'
    BY <1>4 DEF ResetInv
  <2> QED  BY <1>2, <2>2, <2>3, <2>4, <2>5
<1>5. CASE Import
  <2> DEFINE change == Change(Record, {Creds} \union OldKey, Imported)
  <2>1. /\ change \in Changes /\ change.names = Record /\ change.val = Imported
        /\ change.put \subseteq change.names
    BY KeyAssumption DEF Change, Changes, Record, Imported
  <2>2. Replace(change) /\ typed[Creds] = 0 /\ creds' \in Nat /\ acked' = Len(log) + 1
        /\ spent' \in [Bounded -> Nat]
    BY <1>5 DEF Import, Imported, TypeOK
  <2> HIDE DEF change
  <2> QED  BY <1>4, <2>1, <2>2
<1>6. CASE InitCreds
  <2> DEFINE change == Change(Record, {Creds}, Fresh)
  <2>1. /\ change \in Changes /\ change.names = Record /\ change.put = {Creds}
        /\ change.put \subseteq change.names /\ Fresh \in Nat
    BY FreshTyped DEF Change, Changes, Record
  <2>2. Replace(change) /\ typed[Creds] = 0 /\ creds' = Fresh /\ acked' = Len(log) + 1
    BY <1>6 DEF InitCreds
  <2>3. spent' \in [Bounded -> Nat]
    BY <1>6, SpendTyped DEF InitCreds, TypeOK, Bounded
  <2> HIDE DEF change
  <2> QED  BY <1>4, <2>1, <2>2, <2>3
<1> QED  BY <1>3, <1>5, <1>6

\* The reads of a get change nothing; no operation waits for one of them.
LEMMA ReadsKeep == ASSUME AuthInv, GetReads \/ ReadFails PROVE AuthInv'
<1> USE DEF AuthInv, GetReads, ReadFails, ReadTyped, ReadLegacy, GetReturns, Idle,
            store, chain, memory, history
<1>1. caller.pc \in {"typed", "legacy", "told"} /\ caller' \in
        [pc : {"idle", "set", "flush", "typed", "legacy", "told"}, key : Record, val : Nat]
  <2>1. caller.key \in Record /\ typed[caller.key] \in Nat
    BY DEF TypeOK
  <2>2. CASE ReadTyped
    BY <2>1, <2>2 DEF TypeOK
  <2>3. CASE ReadLegacy
    BY <2>1, <2>3 DEF TypeOK, Imported
  <2>4. CASE GetReturns \/ ReadFails
    BY <2>4 DEF Record
  <2> QED  BY <2>2, <2>3, <2>4
<1>2. spent' \in [Bounded -> Nat]
  BY SpendTyped DEF TypeOK, Bounded
<1>3. TypeOK'
  BY <1>1, <1>2 DEF TypeOK
<1>4. QueueInv' /\ OneCaller'
  <2>1. UNCHANGED queue
    OBVIOUS
  <2>2. \A n \in 1 .. Len(queue) : Belongs(queue[n], caller'.pc)
    BY <1>1 DEF QueueInv, Belongs
  <2>3. QueueInv'
    BY <2>1, <2>2 DEF QueueInv
  <2> QED  BY <2>1, <2>3 DEF OneCaller
<1>5. StoreIsPrefix' /\ StoredInv' /\ DoneInv' /\ EntriesInv'
  BY StoreKept DEF StoredInv, DoneInv, EntriesInv, Runs, Writing, Replaced, Head1
<1>6. DownInv' /\ ResetInv'
  BY <1>1 DEF DownInv, ResetInv
<1>7. GetInv'
  <2>1. caller.key \in Record /\ Found(caller.key) = ValueAfter(Len(log), caller.key)
    BY <1>1 DEF GetInv, Record, StoredInv, Latest
  <2>2. CASE ReadTyped
    BY <2>1, <2>2 DEF GetInv, ReadsLatest, Found, ValueAfter, TypeOK
  <2>3. CASE ReadLegacy
    BY <2>1, <2>3 DEF GetInv, ReadsLatest, Found, ValueAfter, TypeOK
  <2>4. CASE GetReturns \/ ReadFails
    BY <2>4 DEF GetInv, ReadsLatest
  <2> QED  BY <2>2, <2>3, <2>4
<1> QED  BY <1>3, <1>4, <1>5, <1>6, <1>7

\* After a crash storage is all there is, and what it holds is all that was changed.
LEMMA CrashKeeps == ASSUME AuthInv, Crash PROVE AuthInv'
<1> USE DEF AuthInv, Crash, store, Free, Idle
<1>1. PICK n \in acked .. Len(log) : StoredUpTo(n) /\ log' = SubSeq(log, 1, n)
  OBVIOUS
<1>2. n \in 0 .. Len(log) /\ Len(log) \in Nat /\ n \in Nat
  BY <1>1 DEF TypeOK
<1>3. /\ log' \in Seq(Changes) /\ Len(log') = n
      /\ \A x : ValueAfter(n, x)' = ValueAfter(n, x)
      /\ \A x : Latest(x)' = ValueAfter(n, x)
  BY <1>1, <1>2, Cut DEF TypeOK
<1>4. \A x \in Record : Found(x)' = ValueAfter(n, x)
  BY <1>1 DEF Found, StoredUpTo
<1>5. spent' \in [Bounded -> Nat]
  BY SpendTyped DEF TypeOK, Bounded
<1>6. TypeOK'
  <2>1. caller' \in
        [pc : {"idle", "set", "flush", "typed", "legacy", "told"}, key : Record, val : Nat]
    BY DEF Record
  <2>2. /\ queue' = <<>> /\ queue' \in Seq(Operations) /\ progress' = "wait"
        /\ up' = FALSE /\ creds' = 0 /\ unsaved' = {} /\ doubt' = FALSE
        /\ UNCHANGED <<typed, legacy, folder, entry, acked, cleared>>
    OBVIOUS
  <2> QED  BY <1>3, <1>5, <2>1, <2>2, Zenon DEF TypeOK
<1>7. StoredUpTo(n)'
  BY <1>3, <1>4 DEF StoredUpTo
<1>8. StoreIsPrefix' /\ StoredInv'
  BY <1>1, <1>2, <1>3, <1>4, <1>7 DEF StoreIsPrefix, StoredInv
<1>9. QueueInv' /\ OneCaller' /\ DownInv' /\ DoneInv' /\ EntriesInv' /\ GetInv' /\ ResetInv'
  BY DEF QueueInv, OneCaller, DownInv, DoneInv, EntriesInv, GetInv, ReadsLatest, ResetInv
<1> QED  BY <1>6, <1>8, <1>9

LEMMA AuthInvNext == ASSUME AuthInv, [Next]_vars PROVE AuthInv'
<1>1. CASE Load
  BY <1>1, LoadKeeps
<1>2. CASE Call
  BY <1>2, SetKeysKeeps, GetKeyKeeps, SaveCredsKeeps, DrainKeeps, ClearKeeps DEF Call
<1>3. CASE Step
  BY <1>3, BeginSetKeeps, FlushNothingKeeps, SendKeeps, StoreEntriesKeeps,
     StoreReplacementKeeps, WriteAnsweredKeeps, ResetAnsweredKeeps, RemoveAnsweredKeeps DEF Step
<1>4. CASE StorageFails
  BY <1>4, StorageFailsKeeps
<1>5. CASE GetReads \/ ReadFails
  BY <1>5, ReadsKeep
<1>6. CASE Crash
  BY <1>6, CrashKeeps
<1>7. CASE UNCHANGED vars
  <2> USE <1>7 DEF AuthInv, vars, store, chain, memory, history
  <2>1. TypeOK' /\ QueueInv' /\ OneCaller' /\ DownInv' /\ ResetInv'
    BY DEF TypeOK, QueueInv, OneCaller, DownInv, ResetInv
  <2>2. StoreIsPrefix' /\ StoredInv' /\ DoneInv' /\ EntriesInv'
    BY StoreKept DEF StoredInv, DoneInv, EntriesInv, Runs, Writing, Replaced, Head1
  <2>3. GetInv'
    BY GetKept
  <2> QED  BY <2>1, <2>2, <2>3
<1> QED  BY <1>1, <1>2, <1>3, <1>4, <1>5, <1>6, <1>7 DEF Next

LEMMA AuthInvInit == Init => AuthInv
<1> SUFFICES ASSUME Init PROVE AuthInv
  OBVIOUS
<1> USE DEF Init, Idle
<1>1. TypeOK
  <2>1. queue \in Seq(Operations) /\ log \in Seq(Changes)
    OBVIOUS
  <2>2. caller \in
        [pc : {"idle", "set", "flush", "typed", "legacy", "told"}, key : Record, val : Nat]
    BY DEF Record
  <2> QED  BY <2>1, <2>2 DEF TypeOK
<1>2. \A x \in Record : Found(x) = 0 /\ ValueAfter(0, x) = 0
  BY DEF Found, ValueAfter
<1>3. StoreIsPrefix /\ StoredInv
  BY <1>2 DEF StoreIsPrefix, StoredUpTo, StoredInv, Latest
<1>4. QueueInv /\ OneCaller /\ DownInv /\ DoneInv /\ EntriesInv /\ GetInv /\ ResetInv
  BY DEF QueueInv, OneCaller, DownInv, DoneInv, EntriesInv, GetInv, ReadsLatest, ResetInv
<1> QED  BY <1>1, <1>3, <1>4 DEF AuthInv

\* What the theorems below follow from: the inductive invariant.
THEOREM AuthInvariant == Spec => []AuthInv
BY AuthInvInit, AuthInvNext, PTL DEF Spec

-----------------------------------------------------------------------------

\* Storage works for an operation at the head of the chain and every variable has its
\* type, whatever fails (createPersistentAuth, `run' and `write').
THEOREM AuthTyped == Spec => []TypeOK
<1>1. AuthInv => TypeOK
  BY DEF AuthInv
<1> QED  BY <1>1, AuthInvariant, PTL

\* Storage holds the outcome of the first changes up to some point, and of all those
\* whose call was answered: `unsaved' is written whole and before anything after it.
THEOREM StorePrefix == Spec => []StoreIsPrefix
<1>1. AuthInv => StoreIsPrefix
  BY DEF AuthInv
<1> QED  BY <1>1, AuthInvariant, PTL

\* A get answers with the outcome of every change called before it: its flush comes
\* first and no call of the key store runs beside its two reads.
THEOREM ReadsUpToDate == Spec => []ReadsLatest
<1>1. AuthInv => ReadsLatest
  BY DEF AuthInv, GetInv
<1> QED  BY <1>1, AuthInvariant, PTL

\* Once a reset has succeeded, the credentials and keys of the legacy directory are
\* not in storage again until the instance is removed.
THEOREM NeverReimported == Spec => []NoReimport
<1>1. AuthInv => NoReimport
  BY DEF AuthInv, ResetInv, NoReimport, Imported, TypeOK
<1> QED  BY <1>1, AuthInvariant, PTL

\* The session is never rolled back: not by a failed write, a late one or a crash.
THEOREM AuthIsSafe == Spec => []AuthSafety
BY AuthTyped, StorePrefix, ReadsUpToDate, NeverReimported, PTL DEF AuthSafety
=============================================================================
