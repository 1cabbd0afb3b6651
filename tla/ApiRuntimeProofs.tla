-------------------------- MODULE ApiRuntimeProofs --------------------------
(***************************************************************************)
(* Theorems about ApiRuntime, for any keys, clients and objects and any    *)
(* number of calls, failures and stops: what the API says and holds        *)
(* follows its start and its stop; no object is orphaned and the database  *)
(* outlives its use as long as not all of a deletion, a creation and a     *)
(* failure, or a deletion and a client that goes away, have come together. *)
(***************************************************************************)
EXTENDS ApiRuntime, TLAPS

Active(c) == call[c].pc \notin {"idle", "wait"}
Halted == {"drain", "starting", "redrain", "start", "queue", "done"}
Quiet == \A c \in Client : call[c].pc = "idle"

Calls == [op : Op \union {"none"}, key : Key \union {"none"}, gone : BOOLEAN,
          pc : {"idle", "wait", "find", "start", "again", "clear", "forget", "erase"},
          obj : Object \union {0}]

TypeInv ==
  /\ phase \in {"binding", "connecting", "restoring", "ended", "failed"}
  /\ halt \in {"none", "binding", "http"} \union Halted
  /\ {closing, ready, db, queue, stopped, retry} \subseteq BOOLEAN
  /\ restore \in [pc : {"idle", "discover", "migrate", "load", "loaded", "drop", "create"},
                  key : Key \union {"none"}, todo : SUBSET Key,
                  auth : {"none", "unlinked", "linked"}, failed : BOOLEAN]
  /\ restore.pc \notin {"idle", "discover"} => restore.key \in Key
  /\ store \in [Key -> {"none", "unlinked", "linked"}]
  /\ owner \in [Key -> Object \union {0}]
  /\ obj \in [Object -> [key : Key \union {"none"},
                         st : {"none", "up", "draining", "down", "failed"}]]
  /\ call \in [Client -> Calls]
  /\ deleted \subseteq Key
  /\ spent \in [Bounded -> Nat]

\* Every object in the registry or at work has the key it was made for.
KeyInv ==
  /\ \A k \in Key : owner[k] # 0 => obj[owner[k]].key = k
  /\ \A o \in Working : obj[o].key \in Key

\* What each place of a call is about.
CallInv ==
  \A c \in Client :
    /\ call[c].pc # "idle" => call[c].key \in Key
    /\ call[c].pc = "find" => call[c].op = "create"
    /\ call[c].pc \in {"clear", "forget", "erase"} => call[c].op = "delete"
    /\ call[c].pc \in {"again", "clear", "forget"} =>
         call[c].obj # 0 /\ owner[call[c].key] = call[c].obj

\* exclusive(): one action at a time for a key.
LockInv ==
  /\ locked = {call[c].key : c \in {d \in Client : Active(d)}}
  /\ \A c, d \in Client : Active(c) /\ Active(d) /\ call[c].key = call[d].key => c = d

\* Where the start and the stop are.
StartInv ==
  /\ closing <=> halt # "none"
  /\ stopped <=> halt \in Halted
  /\ stopped => ~retry
  /\ ready => db /\ queue /\ phase = "ended" /\ ~closing
  /\ phase = "restoring" => db /\ queue
  /\ phase \in {"binding", "connecting", "failed"} => ~db /\ ~queue
  /\ halt \in {"http"} \union Halted => phase # "binding"
  /\ halt \in {"redrain", "start", "queue", "done"} => restore.pc = "idle"
  /\ halt \in {"queue", "done"} => ~queue /\ phase \in {"ended", "failed"}
  /\ halt = "done" => ~db

\* Before the database is there nothing has begun; before the start has ended nobody calls.
BeforeInv ==
  /\ ~db /\ halt # "done" =>
       restore.pc = "idle" /\ ~retry /\ Working = {} /\ \A k \in Key : owner[k] = 0
  /\ phase # "ended" => Quiet
  /\ ~db /\ halt # "done" => Quiet

\* What can only have happened after a call or an event of its kind.
SpentInv ==
  /\ spent["fault"] = 0 => ~retry /\ ~restore.failed
                           /\ (restore.pc # "idle" => phase = "restoring")
  /\ \A op \in {"create", "delete"} :
       spent[op] = 0 => \A c \in Client : call[c].op # op
  /\ spent["gone"] = 0 => \A c \in Client : ~call[c].gone
  /\ spent["gone"] = 0 /\ stopped => Quiet
  /\ spent["delete"] = 0 /\ restore.pc = "loaded" /\ restore.auth = "linked" =>
       store[restore.key] # "none"

\* A create looks for the key in the store when it has an object or none, and a delete
\* forgets an object that is down.
ApartInv ==
  /\ AllRegistered
  /\ \A c \in Client : call[c].pc = "find" =>
       owner[call[c].key] = 0 \/ store[call[c].key] # "none"
  /\ \A c \in Client : call[c].pc = "forget" => obj[call[c].obj].st = "down"
  /\ spent["gone"] = 0 /\ halt \in {"redrain", "start", "queue", "done"} =>
       \A o \in Object : obj[o].st # "up"
  /\ spent["gone"] = 0 /\ halt \in {"start", "queue", "done"} => Working = {}

ApiInv ==
  /\ TypeInv /\ KeyInv /\ CallInv /\ LockInv /\ StartInv /\ BeforeInv /\ SpentInv
  /\ Apart => ApartInv

-----------------------------------------------------------------------------
(* Facts the steps share *)

LEMMA Spends ==
  ASSUME TypeInv, NEW kind \in Bounded, Spend(kind)
  PROVE  /\ spent' \in [Bounded -> Nat] /\ spent'[kind] # 0
         /\ \A k \in Bounded \ {kind} : spent'[k] = spent[k]
         /\ \A k \in Bounded : spent'[k] = 0 => spent[k] = 0
         /\ Apart' => Apart
<1>1. /\ spent' \in [Bounded -> Nat] /\ spent'[kind] = spent[kind] + 1 /\ spent[kind] \in Nat
      /\ \A k \in Bounded \ {kind} : spent'[k] = spent[k]
  BY DEF TypeInv, Spend
<1>2. \A k \in Bounded : spent'[k] = 0 => spent[k] = 0
  BY <1>1
<1>3. Apart' => Apart
  BY <1>2 DEF Apart, Bounded, Op
<1> QED  BY <1>1, <1>2, <1>3

\* Kinds of events.
LEMMA Kinds == {"create", "connect", "delete", "fault", "gone", "stop"} = Bounded
BY DEF Bounded, Op

\* A call moves, with its key locked while it is under way.
LEMMA LockKept ==
  ASSUME LockInv, NEW c \in Client, \A d \in Client \ {c} : call'[d] = call[d],
         IF Active(c) THEN IF Active(c)' THEN call'[c].key = call[c].key /\ locked' = locked
                           ELSE locked' = locked \ {call[c].key}
         ELSE IF Active(c)'
              THEN call'[c].key \notin locked /\ locked' = locked \union {call'[c].key}
              ELSE locked' = locked
  PROVE  LockInv'
<1>1. \A d \in Client \ {c} : Active(d)' <=> Active(d)
  BY DEF Active
<1>2. ASSUME NEW d \in Client \ {c}, Active(d) PROVE call[d].key \in locked
  BY <1>2 DEF LockInv
<1>3. \A a, b \in Client : Active(a)' /\ Active(b)' /\ call'[a].key = call'[b].key => a = b
  BY <1>1, <1>2 DEF LockInv
<1>4. ASSUME NEW x PROVE x \in locked' <=> \E d \in Client : Active(d)' /\ call'[d].key = x
  <2>1. x \in locked <=> \E d \in Client : Active(d) /\ call[d].key = x
    BY DEF LockInv
  <2>2. CASE Active(c) /\ Active(c)'
    BY <1>1, <2>1, <2>2
  <2>3. CASE Active(c) /\ ~Active(c)'
    <3>1. \A d \in Client \ {c} : Active(d) => call[d].key # call[c].key
      BY <2>3 DEF LockInv
    <3> QED  BY <1>1, <2>1, <2>3, <3>1
  <2>4. CASE ~Active(c)
    BY <1>1, <2>1, <2>4
  <2> QED  BY <2>2, <2>3, <2>4
<1>5. locked' = {call'[d].key : d \in {e \in Client : Active(e)'}}
  BY <1>4
<1> QED  BY <1>3, <1>5 DEF LockInv

\* A new object for a key that has none.
LEMMA Launched ==
  ASSUME TypeInv, KeyInv, NEW k \in Key, NEW o \in Object, Launch(k, o)
  PROVE  /\ owner' \in [Key -> Object \union {0}]
         /\ obj' \in [Object -> [key : Key \union {"none"},
                                 st : {"none", "up", "draining", "down", "failed"}]]
         /\ KeyInv' /\ owner'[k] = o /\ o # 0 /\ obj'[o] = [key |-> k, st |-> "up"]
         /\ \A p \in Key \ {k} : owner'[p] = owner[p] /\ owner[p] # o
         /\ \A p \in Object \ {o} : obj'[p] = obj[p]
         /\ \A p \in Key : owner[p] # o
         /\ owner[k] = 0 /\ AllRegistered => AllRegistered'
<1>1. /\ owner' \in [Key -> Object \union {0}] /\ owner'[k] = o /\ o # 0
      /\ obj' \in [Object -> [key : Key \union {"none"},
                              st : {"none", "up", "draining", "down", "failed"}]]
      /\ obj'[o] = [key |-> k, st |-> "up"]
      /\ \A p \in Key \ {k} : owner'[p] = owner[p]
      /\ \A p \in Object \ {o} : obj'[p] = obj[p]
  BY ApiRuntimeAssumption DEF TypeInv, Launch
<1>2. \A p \in Key : owner[p] # o
  BY <1>1 DEF Launch, Registered
<1>3. KeyInv'
  <2>1. \A p \in Key : owner'[p] # 0 => obj'[owner'[p]].key = p
    <3> SUFFICES ASSUME NEW p \in Key, owner'[p] # 0 PROVE obj'[owner'[p]].key = p
      OBVIOUS
    <3>1. CASE p = k
      BY <1>1, <3>1
    <3>2. CASE p # k
      <4>1. owner'[p] = owner[p] /\ owner[p] # 0 /\ owner[p] \in Object \ {o}
        BY <1>1, <1>2, <3>2 DEF TypeInv
      <4> QED  BY <1>1, <4>1 DEF KeyInv
    <3> QED  BY <3>1, <3>2
  <2>2. \A p \in Working' : p = o \/ (p \in Working /\ obj'[p] = obj[p])
    BY <1>1 DEF Working
  <2>3. \A p \in Working' : obj'[p].key \in Key
    BY <1>1, <2>2 DEF KeyInv
  <2> QED  BY <2>1, <2>3 DEF KeyInv
<1>4. ASSUME owner[k] = 0, AllRegistered PROVE AllRegistered'
  <2>1. ASSUME NEW p \in Object \ {o}, p \in Working PROVE owner'[obj'[p].key] = p
    <3>1. owner[obj[p].key] = p /\ obj[p].key \in Key /\ p # 0
      BY <1>4, <2>1, ApiRuntimeAssumption DEF AllRegistered, KeyInv
    <3> QED  BY <1>1, <1>4, <3>1
  <2> QED  BY <1>1, <2>1 DEF AllRegistered, Working
<1> QED  BY <1>1, <1>2, <1>3, <1>4

-----------------------------------------------------------------------------
(* The start *)

LEMMA StartKeeps == ASSUME ApiInv, StartStep \/ ConnectFails PROVE ApiInv'
<1> USE DEF ApiInv, StartStep, Bound, Connected, ConnectFails, SessionsStarted,
            sessions, calls
<1>1. /\ spent' \in [Bounded -> Nat] /\ (Apart' => Apart)
      /\ \A k \in Bounded : spent'[k] = 0 => spent[k] = 0
      /\ UNCHANGED <<spent>> \/ spent'["fault"] # 0
  BY Spends, Kinds DEF TypeInv, Apart
<1>2. /\ UNCHANGED <<closing, halt, stopped, retry, store, owner, obj, call, locked, deleted>>
      /\ UNCHANGED ready \/ (ready' = ~closing /\ phase = "restoring" /\ phase' = "ended")
  <2>1. CASE Bound \/ ConnectFails
    BY <2>1
  <2>2. CASE Connected
    BY <2>2
  <2>3. CASE SessionsStarted
    BY <2>3 DEF MayBeReady
  <2> QED  BY <2>1, <2>2, <2>3
<1>3. TypeInv'
  <2>1. /\ phase' \in {"binding", "connecting", "restoring", "ended", "failed"}
        /\ ready' \in BOOLEAN /\ db' \in BOOLEAN /\ queue' \in BOOLEAN
    BY <1>2 DEF TypeInv, MayBeReady
  <2>2. restore' = restore \/ restore' = [Resting EXCEPT !.pc = "discover"]
    OBVIOUS
  <2>3. [Resting EXCEPT !.pc = "discover"] \in
          [pc : {"idle", "discover", "migrate", "load", "loaded", "drop", "create"},
           key : Key \union {"none"}, todo : SUBSET Key,
           auth : {"none", "unlinked", "linked"}, failed : BOOLEAN]
    BY DEF Resting
  <2>4. /\ restore' \in [pc : {"idle", "discover", "migrate", "load", "loaded", "drop", "create"},
                         key : Key \union {"none"}, todo : SUBSET Key,
                         auth : {"none", "unlinked", "linked"}, failed : BOOLEAN]
        /\ restore'.pc \notin {"idle", "discover"} => restore'.key \in Key
    BY <2>2, <2>3 DEF TypeInv, Resting
  <2>5. TypeInv /\ UNCHANGED <<closing, halt, stopped, retry, store, owner, obj, call, deleted>>
    BY <1>2
  <2>6. spent' \in [Bounded -> Nat]
    BY <1>1
  <2> HIDE <1>1, <1>2
  <2> QED  BY <2>1, <2>4, <2>5, <2>6 DEF TypeInv
<1>4. KeyInv' /\ CallInv' /\ LockInv'
  BY DEF KeyInv, CallInv, LockInv, Working, Active
<1>5. StartInv'
  BY <1>2 DEF StartInv, TypeInv, Resting, MayBeReady, Halted
<1>6. BeforeInv'
  BY <1>2 DEF BeforeInv, StartInv, TypeInv, Quiet, Working
<1>7. SpentInv'
  BY <1>1, Kinds DEF SpentInv, Quiet, Resting
<1>8. Apart' => ApartInv'
  BY <1>1, Kinds DEF ApartInv, AllRegistered, Working
<1> QED  BY <1>3, <1>4, <1>5, <1>6, <1>7, <1>8

-----------------------------------------------------------------------------
(* The restore *)

Restores == [pc : {"idle", "discover", "migrate", "load", "loaded", "drop", "create"},
             key : Key \union {"none"}, todo : SUBSET Key,
             auth : {"none", "unlinked", "linked"}, failed : BOOLEAN]

\* The loop goes on or ends; it is tried again after a failure, unless it is stopped.
LEMMA LoopGoesOn ==
  ASSUME TypeInv, NEW todo \in SUBSET Key, NEW failed \in BOOLEAN,
         NextSession(todo, failed) \/ EndRestore(failed)
  PROVE  /\ restore' \in Restores /\ retry' \in BOOLEAN
         /\ restore'.pc \in {"idle", "migrate"}
         /\ restore'.pc = "migrate" => restore'.key \in Key /\ restore'.failed = failed
         /\ restore'.pc = "idle" => ~restore'.failed
         /\ retry' => retry \/ (failed /\ ~stopped)
         /\ retry => retry'
<1>1. CASE EndRestore(failed)
  BY <1>1 DEF TypeInv, EndRestore, Retries, Resting, Restores
<1>2. CASE NextSession(todo, failed) /\ ~EndRestore(failed)
  <2>1. PICK k \in todo : restore' = [pc |-> "migrate", key |-> k, todo |-> todo \ {k},
                                     auth |-> "none", failed |-> failed]
    BY <1>2 DEF NextSession
  <2>2. retry' = retry /\ retry \in BOOLEAN
    BY <1>2 DEF NextSession, TypeInv
  <2> QED  BY <2>1, <2>2 DEF Restores
<1> QED  BY <1>1, <1>2

\* What a step of the restore keeps that leaves objects and calls alone.
LEMMA RestoreKeeps ==
  ASSUME ApiInv, restore.pc # "idle" \/ retry,
         UNCHANGED <<runtime, stopped, owner, obj, calls>>,
         spent' \in [Bounded -> Nat], Apart' => Apart,
         \A k \in Bounded : spent'[k] = 0 => spent[k] = 0,
         store' \in [Key -> {"none", "unlinked", "linked"}],
         \A k \in Key : store[k] # "none" => store'[k] # "none",
         restore' \in Restores, retry' \in BOOLEAN, retry' => ~stopped,
         restore'.pc \notin {"idle", "discover"} => restore'.key \in Key,
         restore'.pc # "idle" => restore.pc # "idle" \/ ~stopped,
         spent'["fault"] = 0 => ~retry' /\ ~restore'.failed,
         restore'.pc = "loaded" /\ restore'.auth = "linked" => store'[restore'.key] # "none"
  PROVE  ApiInv'
<1> USE DEF ApiInv, runtime, calls
<1>1. TypeInv'
  BY DEF TypeInv, Restores
<1>2. KeyInv' /\ CallInv' /\ LockInv'
  BY DEF KeyInv, CallInv, LockInv, Working, Active
<1>3. StartInv'
  BY DEF StartInv, Halted
<1>4. BeforeInv'
  BY DEF BeforeInv, StartInv, Halted, Quiet, Working, TypeInv
<1>5. SpentInv'
  BY Kinds DEF SpentInv, Quiet
<1>6. Apart' => ApartInv'
  BY Kinds DEF ApartInv, AllRegistered, Working, CallInv
<1> QED  BY <1>1, <1>2, <1>3, <1>4, <1>5, <1>6

LEMMA LoopKeeps ==
  ASSUME ApiInv, Discover \/ Migrate \/ RestoreNext \/ RestoreFails \/ RetryFires
  PROVE  ApiInv'
<1> USE DEF ApiInv
<1>0. UNCHANGED spent => /\ spent' \in [Bounded -> Nat] /\ (Apart' => Apart)
                         /\ \A k \in Bounded : spent'[k] = 0 => spent[k] = 0
  BY DEF TypeInv, Apart
<1>1. CASE Discover
  <2>1. {k \in Key : store[k] # "none"} \in SUBSET Key /\ FALSE \in BOOLEAN
    OBVIOUS
  <2> QED  BY <1>0, <1>1, <2>1, LoopGoesOn, RestoreKeeps DEF Discover, TypeInv, StartInv, SpentInv
<1>2. CASE Migrate
  BY <1>0, <1>2, RestoreKeeps DEF Migrate, TypeInv, StartInv, SpentInv, Restores
<1>3. CASE RestoreNext
  <2>1. restore.todo \in SUBSET Key /\ restore.failed \in BOOLEAN
    BY DEF TypeInv
  <2> QED  BY <1>0, <1>3, <2>1, LoopGoesOn, RestoreKeeps DEF RestoreNext, TypeInv, StartInv, SpentInv
<1>4. CASE RestoreFails
  <2>1. restore.todo \in SUBSET Key /\ TRUE \in BOOLEAN
    BY DEF TypeInv
  <2>2. spent' \in [Bounded -> Nat] /\ spent'["fault"] # 0 /\ (Apart' => Apart)
        /\ \A k \in Bounded : spent'[k] = 0 => spent[k] = 0
    BY <1>4, Spends, Kinds DEF RestoreFails
  <2> QED  BY <1>4, <2>1, <2>2, LoopGoesOn, RestoreKeeps DEF RestoreFails, TypeInv, StartInv
<1>5. CASE RetryFires
  BY <1>0, <1>5, RestoreKeeps DEF RetryFires, TypeInv, StartInv, SpentInv, Restores, Resting
<1> QED  BY <1>1, <1>2, <1>3, <1>4, <1>5

LEMMA LoadAuthKeeps == ASSUME ApiInv, LoadAuth PROVE ApiInv'
<1> USE DEF ApiInv, LoadAuth, LoadStore
<1>1. restore.key \in Key /\ restore.pc = "load" /\ UNCHANGED spent
  BY DEF TypeInv
<1>2. /\ store' \in [Key -> {"none", "unlinked", "linked"}]
      /\ \A k \in Key : store[k] # "none" => store'[k] # "none"
      /\ store'[restore.key] # "none"
  BY <1>1 DEF TypeInv
<1>3. restore' \in Restores /\ restore'.pc = "loaded" /\ restore'.key = restore.key
      /\ restore'.failed = restore.failed
  BY <1>1 DEF TypeInv, Restores
<1>4. Apart' => Apart
  BY <1>1 DEF Apart
<1> QED
  BY <1>1, <1>2, <1>3, <1>4, RestoreKeeps DEF TypeInv, StartInv, SpentInv

LEMMA RestoredKeeps == ASSUME ApiInv, Restored PROVE ApiInv'
<1> USE DEF ApiInv, Restored
<1>1. restore.key \in Key /\ restore.pc = "loaded" /\ UNCHANGED <<spent, store, stopped>>
      /\ restore.todo \in SUBSET Key /\ restore.failed \in BOOLEAN /\ (Apart' <=> Apart)
  BY DEF TypeInv, Apart
<1>2. CASE stopped \/ restore.auth # "linked"
  BY <1>1, <1>2, RestoreKeeps DEF TypeInv, StartInv, SpentInv, Restores
<1>3. CASE ~stopped /\ restore.auth = "linked" /\ Loaded(restore.key)
  BY <1>1, <1>3, LoopGoesOn, RestoreKeeps DEF TypeInv, StartInv, SpentInv
<1>4. CASE ~stopped /\ restore.auth = "linked" /\ ~Loaded(restore.key)
  <2> DEFINE k == restore.key
  <2>1. PICK o \in Object : Launch(k, o)
    BY <1>4
  <2>2. /\ restore' = [restore EXCEPT !.pc = "create"] /\ owner[k] = 0 /\ k \in Key
        /\ UNCHANGED <<runtime, stopped, retry, store, calls, spent>>
    BY <1>1, <1>4 DEF Loaded
  <2> HIDE DEF k
  <2>3. /\ owner' \in [Key -> Object \union {0}]
        /\ obj' \in [Object -> [key : Key \union {"none"},
                                st : {"none", "up", "draining", "down", "failed"}]]
        /\ KeyInv' /\ owner'[k] = o /\ o # 0 /\ obj'[o] = [key |-> k, st |-> "up"]
        /\ \A p \in Key \ {k} : owner'[p] = owner[p] /\ owner[p] # o
        /\ \A p \in Object \ {o} : obj'[p] = obj[p]
        /\ \A p \in Key : owner[p] # o
        /\ owner[k] = 0 /\ AllRegistered => AllRegistered'
    BY <2>1, <2>2, Launched
  <2>12. /\ restore' \in [pc : {"idle", "discover", "migrate", "load", "loaded", "drop", "create"},
                         key : Key \union {"none"}, todo : SUBSET Key,
                         auth : {"none", "unlinked", "linked"}, failed : BOOLEAN]
         /\ restore'.key \in Key
    BY <1>1, <2>2 DEF TypeInv
  <2> USE <2>2 DEF runtime, calls
  <2>4. TypeInv'
    BY <2>3, <2>12 DEF TypeInv
  <2>5. CallInv' /\ LockInv'
    BY <2>3 DEF CallInv, LockInv, Active
  <2>6. StartInv'
    BY <1>1 DEF StartInv, Halted
  <2>7. BeforeInv'
    BY <1>1 DEF BeforeInv, StartInv, Quiet, TypeInv
  <2>8. SpentInv'
    BY <1>1 DEF SpentInv, Quiet
  <2>9. ASSUME Apart PROVE ApartInv'
    <3>1. AllRegistered'
      BY <2>3, <2>9 DEF ApartInv
    <3>2. ASSUME NEW c \in Client, call[c].pc = "find", call[c].key = k PROVE store[k] # "none"
      <4>1. spent["create"] # 0 /\ phase = "ended"
        BY <3>2 DEF SpentInv, CallInv, BeforeInv, Quiet
      <4>2. spent["fault"] # 0
        BY <1>1, <4>1 DEF SpentInv
      <4>3. spent["delete"] = 0
        BY <2>9, <4>1, <4>2 DEF Apart
      <4> QED  BY <1>1, <1>4, <4>3 DEF SpentInv, k
    <3>3. ASSUME NEW c \in Client, call[c].pc = "find"
          PROVE  owner'[call[c].key] = 0 \/ store[call[c].key] # "none"
      BY <2>3, <2>9, <3>2, <3>3 DEF ApartInv, CallInv
    <3>4. ASSUME NEW c \in Client, call[c].pc = "forget" PROVE obj'[call[c].obj].st = "down"
      <4>1. call[c].obj \in Object /\ call[c].obj # o
        BY <2>3, <3>4 DEF CallInv, TypeInv, Calls
      <4> QED  BY <2>3, <2>9, <3>4, <4>1 DEF ApartInv
    <3>5. halt \notin {"redrain", "start", "queue", "done"}
      BY <1>1 DEF StartInv
    <3> QED  BY <3>1, <3>3, <3>4, <3>5 DEF ApartInv
  <2> QED  BY <1>1, <2>3, <2>4, <2>5, <2>6, <2>7, <2>8, <2>9
<1> QED  BY <1>2, <1>3, <1>4

-----------------------------------------------------------------------------
(* Objects *)

LEMMA ObjectKeeps ==
  ASSUME ApiInv, (\E o \in Object : ShutdownEnds(o)) \/ (\E k \in Key : Paired(k))
  PROVE  ApiInv'
<1> USE DEF ApiInv, runtime, sessions, calls
<1>1. CASE \E k \in Key : Paired(k)
  <2>1. PICK k \in Key : Paired(k)
    BY <1>1
  <2>2. /\ store' \in [Key -> {"none", "unlinked", "linked"}]
        /\ \A p \in Key : store[p] # "none" => store'[p] # "none"
        /\ UNCHANGED <<runtime, sessions, owner, obj, calls, spent>>
    BY <2>1 DEF Paired, TypeInv
  <2>3. TypeInv' /\ KeyInv' /\ CallInv' /\ LockInv'
    BY <2>2 DEF TypeInv, KeyInv, CallInv, LockInv, Working, Active
  <2>4. StartInv' /\ BeforeInv'
    BY <2>2 DEF StartInv, BeforeInv, Quiet, Working
  <2>5. SpentInv'
    BY <2>2 DEF SpentInv, Quiet, TypeInv
  <2>6. Apart' => ApartInv'
    BY <2>2 DEF Apart, ApartInv, AllRegistered, Working, CallInv
  <2> QED  BY <2>3, <2>4, <2>5, <2>6
<1>2. CASE \E o \in Object : ShutdownEnds(o)
  <2>1. PICK o \in Object : ShutdownEnds(o)
    BY <1>2
  <2>2. PICK st \in {"down", "failed"} : obj' = [obj EXCEPT ![o].st = st]
    BY <2>1 DEF ShutdownEnds
  <2>3. /\ spent' \in [Bounded -> Nat] /\ (Apart' => Apart)
        /\ \A k \in Bounded : spent'[k] = 0 => spent[k] = 0
    BY <2>1, Spends, Kinds DEF ShutdownEnds, TypeInv, Apart
  <2>4. /\ obj[o].st = "draining" /\ Working' = Working \ {o}
        /\ UNCHANGED <<runtime, sessions, store, owner, calls>>
        /\ \A p \in Object : obj'[p].key = obj[p].key
        /\ \A p \in Object \ {o} : obj'[p] = obj[p]
        /\ obj'[o].st \notin {"up"}
    BY <2>1, <2>2 DEF ShutdownEnds, Working, TypeInv
  <2>5. TypeInv'
    BY <2>2, <2>3, <2>4 DEF TypeInv
  <2>6. KeyInv'
    <3>1. \A k \in Key : owner[k] # 0 => owner[k] \in Object /\ obj[owner[k]].key = k
      BY DEF KeyInv, TypeInv
    <3>2. \A p \in Working' : p \in Object /\ p \in Working
      BY <2>4 DEF Working
    <3> QED  BY <2>4, <3>1, <3>2 DEF KeyInv
  <2>10. CallInv' /\ LockInv'
    BY <2>4 DEF CallInv, LockInv, Active
  <2>7. StartInv' /\ BeforeInv'
    BY <2>4 DEF StartInv, BeforeInv, Quiet
  <2>8. SpentInv'
    BY <2>3, <2>4, Kinds DEF SpentInv, Quiet
  <2>9. ASSUME Apart' PROVE ApartInv'
    <3>1. AllRegistered'
      BY <2>3, <2>4, <2>9 DEF ApartInv, AllRegistered, Working
    <3>2. ASSUME NEW c \in Client, call[c].pc = "forget" PROVE obj'[call[c].obj].st = "down"
      <4>1. obj[call[c].obj].st = "down" /\ call[c].obj \in Object
        BY <2>3, <2>9, <3>2 DEF ApartInv, CallInv, TypeInv, Calls
      <4> QED  BY <2>4, <4>1
    <3> QED  BY <2>3, <2>4, <2>9, <3>1, <3>2, Kinds DEF ApartInv
  <2> QED  BY <2>5, <2>6, <2>7, <2>8, <2>9, <2>10
<1> QED  BY <1>1, <1>2

\* Shutdowns begin: the registered objects that were up are drained.
LEMMA GoDown ==
  ASSUME TypeInv, KeyInv, NEW objects \in SUBSET Object, obj' = Down(objects), UNCHANGED owner,
         objects \subseteq Registered
  PROVE  /\ obj' \in [Object -> [key : Key \union {"none"},
                                 st : {"none", "up", "draining", "down", "failed"}]]
         /\ \A o \in Object : obj'[o].key = obj[o].key
         /\ \A o \in Object \ objects : obj'[o] = obj[o]
         /\ \A o \in objects : obj'[o].st = "draining"
         /\ Working' = Working \union objects
         /\ KeyInv' /\ (AllRegistered => AllRegistered')
<1>1. /\ obj' \in [Object -> [key : Key \union {"none"},
                              st : {"none", "up", "draining", "down", "failed"}]]
      /\ \A o \in Object : obj'[o].key = obj[o].key
      /\ \A o \in Object \ objects : obj'[o] = obj[o]
      /\ \A o \in objects : obj'[o].st = "draining"
  BY DEF TypeInv, Down
<1>2. Working' = Working \union objects
  BY <1>1 DEF Working
<1>3. \A o \in objects : obj[o].key \in Key /\ owner[obj[o].key] = o
  BY DEF Registered, KeyInv
<1>4. KeyInv'
  <2>1. \A k \in Key : owner[k] # 0 => owner[k] \in Object /\ obj[owner[k]].key = k
    BY DEF KeyInv, TypeInv
  <2>2. \A o \in Working' : o \in Object /\ (o \in Working \/ o \in objects)
    BY <1>2 DEF Working
  <2> QED  BY <1>1, <1>3, <2>1, <2>2 DEF KeyInv
<1>5. ASSUME AllRegistered PROVE AllRegistered'
  <2>1. \A o \in Working' : o \in Object /\ (o \in Working \/ o \in objects)
    BY <1>2 DEF Working
  <2>2. \A o \in Working' : owner[obj[o].key] = o
    BY <1>3, <1>5, <2>1 DEF AllRegistered
  <2> QED  BY <1>1, <2>1, <2>2 DEF AllRegistered
<1> QED  BY <1>1, <1>2, <1>4, <1>5

-----------------------------------------------------------------------------
(* The stop *)

\* Nobody calls when the sessions are shut down, but for clients that have gone away.
LEMMA HaltKeeps == ASSUME ApiInv, Signal \/ HaltStep PROVE ApiInv'
<1> USE DEF ApiInv, Signal, HaltStep, StartFailed, Stop, StopListening, HttpDrained, Drained,
            RestoreEnded, DrainedAgain, StopQueue, Disconnect, sessions, calls
<1>1. /\ spent' \in [Bounded -> Nat] /\ (Apart' => Apart)
      /\ \A k \in Bounded : spent'[k] = 0 => spent[k] = 0
  BY Spends, Kinds DEF TypeInv, Apart
<1>2. /\ UNCHANGED <<phase, restore, store, owner, call, locked, deleted>>
      /\ UNCHANGED obj \/ (obj' = Down(Registered) /\ (HttpDrained \/ RestoreEnded))
  OBVIOUS
<1>3. Registered \in SUBSET Object
  BY DEF Registered, TypeInv
<1>4. /\ obj' \in [Object -> [key : Key \union {"none"},
                              st : {"none", "up", "draining", "down", "failed"}]]
      /\ KeyInv' /\ (AllRegistered => AllRegistered')
      /\ \A o \in Object : obj'[o].st = "up" => obj[o].st = "up"
      /\ \A o \in Object : obj[o].st = "none" => obj'[o].st = "none" \/ Registered # {}
  <2>1. CASE UNCHANGED obj
    BY <1>2, <2>1 DEF KeyInv, AllRegistered, Working, TypeInv
  <2>2. CASE obj' = Down(Registered)
    BY <1>2, <1>3, <2>2, GoDown
  <2> QED  BY <1>2, <2>1, <2>2
<1>5. TypeInv'
  <2>1. halt' \in {"none", "binding", "http"} \union Halted
    BY DEF TypeInv, Halted
  <2>2. {closing', ready', db', queue', stopped', retry'} \subseteq BOOLEAN
    BY DEF TypeInv
  <2> QED  BY <1>1, <1>2, <1>4, <2>1, <2>2 DEF TypeInv
<1>6. CallInv' /\ LockInv'
  BY <1>2 DEF CallInv, LockInv, Active
<1>7. StartInv'
  BY <1>2 DEF StartInv, Halted, TypeInv, StartSettled
<1>8. BeforeInv'
  BY <1>2 DEF BeforeInv, Quiet, Working, Down, Registered
<1>9. SpentInv'
  BY <1>1, <1>2, Kinds DEF SpentInv, Quiet, Halted, StartInv
<1>10. ASSUME Apart' PROVE ApartInv'
  <2>1. Apart /\ AllRegistered'
    BY <1>1, <1>4, <1>10 DEF ApartInv
  <2>2. ASSUME NEW c \in Client, call[c].pc = "forget" PROVE obj'[call[c].obj].st = "down"
    <3>1. spent["delete"] # 0
      BY <2>2 DEF CallInv, SpentInv
    <3>2. spent["gone"] = 0
      BY <2>1, <3>1 DEF Apart
    <3>3. ~HttpDrained /\ ~RestoreEnded
      BY <2>2, <3>2 DEF SpentInv, StartInv, Halted, Quiet
    <3> QED  BY <1>2, <2>1, <2>2, <3>3 DEF ApartInv
  <2>3. ASSUME spent'["gone"] = 0, halt' \in {"redrain", "start", "queue", "done"},
               NEW o \in Object
        PROVE  obj'[o].st # "up"
    <3>1. CASE RestoreEnded
      <4>1. o \in Working => o \in Registered
        BY <2>1, ApiRuntimeAssumption DEF ApartInv, AllRegistered, Registered, KeyInv
      <4> QED  BY <1>3, <3>1, <4>1, GoDown DEF Working
    <3>2. CASE ~RestoreEnded
      BY <1>1, <1>4, <2>1, <2>3, <3>2, Kinds DEF ApartInv
    <3> QED  BY <3>1, <3>2
  <2>4. ASSUME spent'["gone"] = 0, halt' \in {"start", "queue", "done"} PROVE Working' = {}
    <3>1. CASE DrainedAgain
      <4>1. \A o \in Working : o \in Registered
        BY <2>1, ApiRuntimeAssumption DEF ApartInv, AllRegistered, Registered, KeyInv, Working
      <4>2. \A o \in Object : obj[o].st # "up"
        BY <1>1, <2>1, <2>4, <3>1, Kinds DEF ApartInv
      <4> QED  BY <3>1, <4>1, <4>2 DEF AllSettled, Working
    <3>2. CASE ~DrainedAgain
      BY <1>1, <2>1, <2>4, <3>2, Kinds DEF ApartInv, Working
    <3> QED  BY <3>1, <3>2
  <2>5. \A c \in Client : call'[c].pc = "find" =>
          owner'[call'[c].key] = 0 \/ store'[call'[c].key] # "none"
    BY <1>2, <2>1 DEF ApartInv
  <2> QED  BY <1>2, <2>1, <2>2, <2>3, <2>4, <2>5 DEF ApartInv
<1> QED  BY <1>4, <1>5, <1>6, <1>7, <1>8, <1>9, <1>10

-----------------------------------------------------------------------------
(* The lifecycle calls *)

\* The records of a key, its entry and its object are the only ones that change.
OnlyOf(k) ==
  /\ store' \in [Key -> {"none", "unlinked", "linked"}]
  /\ owner' \in [Key -> Object \union {0}]
  /\ obj' \in [Object -> [key : Key \union {"none"},
                          st : {"none", "up", "draining", "down", "failed"}]]
  /\ \A p \in Key \ {k} : owner'[p] = owner[p] /\ store'[p] = store[p]
  /\ \A p \in Key \ {k} : owner[p] # 0 => obj'[owner[p]] = obj[owner[p]]
  /\ KeyInv'

\* Where the call is next, and what that is about.
Fits(r) ==
  /\ r \in Calls
  /\ r.pc # "idle" => r.key \in Key
  /\ r.pc = "find" => r.op = "create"
  /\ r.pc \in {"clear", "forget", "erase"} => r.op = "delete"
  /\ r.pc \in {"again", "clear", "forget"} => r.obj # 0 /\ owner'[r.key] = r.obj
  /\ Apart' => /\ r.pc = "find" => owner'[r.key] = 0 \/ store'[r.key] # "none"
               /\ r.pc = "forget" => obj'[r.obj].st = "down"
  /\ \A op \in {"create", "delete"} : spent'[op] = 0 => r.op # op
  /\ spent'["gone"] = 0 => ~r.gone

\* A step of call c, which may change what is stored of key k, and is at r then.
Proceeds(c, k, r) ==
  /\ call' = [call EXCEPT ![c] = r] /\ Fits(r) /\ OnlyOf(k)
  /\ call[c].pc # "idle" \/ ready
  /\ \A d \in Client \ {c} : Active(d) => call[d].key # k \/ UNCHANGED <<owner, store, obj>>
  /\ UNCHANGED <<runtime, sessions>> /\ deleted' \subseteq Key /\ LockInv'
  /\ spent' \in [Bounded -> Nat] /\ (Apart' => Apart)
  /\ \A b \in Bounded : spent'[b] = 0 => spent[b] = 0
  /\ store'[k] = "none" => store[k] = "none" \/ spent["delete"] # 0
  /\ Apart' => AllRegistered'

\* What a step of a call keeps: the other calls are about other keys.
LEMMA CallKeeps ==
  ASSUME ApiInv, NEW c \in Client, NEW k \in Key, NEW r, Proceeds(c, k, r)
  PROVE  ApiInv'
<1> USE DEF ApiInv, runtime, sessions, Fits, OnlyOf, Proceeds
<1>1. call' \in [Client -> Calls] /\ call'[c] = r /\ \A d \in Client \ {c} : call'[d] = call[d]
  BY DEF TypeInv
<1>2. TypeInv'
  BY <1>1 DEF TypeInv
<1>3. (db \/ halt = "done") /\ phase = "ended" /\ (spent["gone"] = 0 => ~stopped)
  BY DEF BeforeInv, StartInv, SpentInv, Quiet, Halted, TypeInv
<1>4. CallInv'
  <2>1. ASSUME NEW d \in Client \ {c}, call[d].pc \in {"again", "clear", "forget"}
        PROVE  owner'[call[d].key] = owner[call[d].key]
    BY <2>1 DEF CallInv, Active
  <2> QED  BY <1>1, <2>1 DEF CallInv
<1>5. StartInv'
  BY DEF StartInv, Halted
<1>6. BeforeInv'
  BY <1>3 DEF BeforeInv
<1>7. SpentInv'
  <2>1. spent'["gone"] = 0 => ~stopped
    BY <1>3, Kinds
  <2>2. spent'["delete"] = 0 => \A p \in Key : store'[p] = "none" => store[p] = "none"
    BY Kinds
  <2>3. restore.pc = "loaded" => restore.key \in Key
    BY DEF TypeInv
  <2>4. \A op \in {"create", "delete"} :
          spent'[op] = 0 => \A d \in Client : call'[d].op # op
    BY <1>1, Kinds DEF SpentInv
  <2> QED  BY <1>1, <2>1, <2>2, <2>3, <2>4, Kinds DEF SpentInv
<1>8. ASSUME Apart' PROVE ApartInv'
  <2>1. \A d \in Client : call'[d].pc = "find" =>
          owner'[call'[d].key] = 0 \/ store'[call'[d].key] # "none"
    <3>1. ASSUME NEW d \in Client \ {c}, call[d].pc = "find"
          PROVE  owner'[call[d].key] = 0 \/ store'[call[d].key] # "none"
      BY <1>8, <3>1 DEF ApartInv, CallInv, Active
    <3> QED  BY <1>1, <1>8, <3>1
  <2>2. \A d \in Client : call'[d].pc = "forget" => obj'[call'[d].obj].st = "down"
    <3>1. ASSUME NEW d \in Client \ {c}, call[d].pc = "forget"
          PROVE  obj'[call[d].obj].st = "down"
      <4>1. call[d].key \in Key /\ owner[call[d].key] = call[d].obj /\ call[d].obj # 0
            /\ obj[call[d].obj].st = "down"
        BY <1>8, <3>1 DEF ApartInv, CallInv
      <4> QED  BY <3>1, <4>1 DEF Active
    <3> QED  BY <1>1, <1>8, <3>1
  <2>3. spent'["gone"] = 0 => halt' \notin {"redrain", "start", "queue", "done"}
    BY <1>3, Kinds DEF StartInv, Halted
  <2> QED  BY <1>8, <2>1, <2>2, <2>3 DEF ApartInv
<1> QED  BY <1>2, <1>4, <1>5, <1>6, <1>7, <1>8

\* A call under way is the only one of its key.
LEMMA Alone ==
  ASSUME ApiInv, NEW c \in Client, Active(c) \/ call[c].key \notin locked
  PROVE  \A d \in Client \ {c} : Active(d) => call[d].key # call[c].key
BY DEF ApiInv, LockInv

LEMMA Untouched ==
  ASSUME ApiInv, UNCHANGED <<store, owner, obj>>
  PROVE  /\ \A k \in Key : OnlyOf(k)
         /\ AllRegistered => AllRegistered'
BY DEF ApiInv, TypeInv, OnlyOf, KeyInv, AllRegistered, Working

LEMMA NotSpent ==
  ASSUME ApiInv, UNCHANGED spent
  PROVE  /\ spent' \in [Bounded -> Nat] /\ (Apart' <=> Apart)
         /\ \A b \in Bounded : spent'[b] = spent[b]
BY DEF ApiInv, TypeInv, Apart

\* The call is answered, or fails: its key is free for the next.
LEMMA Answered ==
  ASSUME ApiInv, NEW c \in Client, Active(c) \/ call[c].key \notin locked,
         call' = [call EXCEPT ![c] = NoCall], locked' = locked \ {call[c].key}
  PROVE  LockInv' /\ Fits(NoCall)
<1>1. call'[c] = NoCall /\ \A d \in Client \ {c} : call'[d] = call[d]
  BY DEF ApiInv, TypeInv
<1>2. ~Active(c)'
  BY <1>1 DEF Active, NoCall
<1>3. LockInv'
  BY <1>1, <1>2, LockKept DEF ApiInv
<1>4. Fits(NoCall)
  BY DEF Fits, NoCall, Calls
<1> QED  BY <1>3, <1>4

\* The call goes on, and its key stays locked or is locked now.
LEMMA Gone ==
  ASSUME ApiInv, NEW c \in Client, NEW pc, NEW o \in Object \union {0}, Go(c, pc, o),
         pc \in {"find", "start", "again", "clear", "forget", "erase"}, call[c].pc # "idle",
         \/ Active(c) /\ UNCHANGED locked
         \/ call[c].key \notin locked /\ ~Active(c) /\ locked' = locked \union {call[c].key}
  PROVE  /\ LockInv' /\ call[c].key \in Key
         /\ \E r \in Calls :
              /\ call' = [call EXCEPT ![c] = r] /\ r.pc = pc /\ r.obj = o
              /\ r.key = call[c].key /\ r.op = call[c].op /\ r.gone = call[c].gone
<1> DEFINE r == [call[c] EXCEPT !.pc = pc, !.obj = o]
<1>1. call' = [call EXCEPT ![c] = r] /\ call[c] \in Calls
  BY DEF Go, ApiInv, TypeInv
<1>2. r \in Calls /\ r.pc = pc /\ r.key = call[c].key /\ r.obj = o /\ r.op = call[c].op
      /\ r.gone = call[c].gone
  BY <1>1 DEF Calls
<1> HIDE DEF r
<1>3. call'[c] = r /\ \A d \in Client \ {c} : call'[d] = call[d]
  BY <1>1 DEF ApiInv, TypeInv
<1>4. Active(c)'
  BY <1>2, <1>3 DEF Active
<1>5. LockInv'
  BY <1>2, <1>3, <1>4, LockKept DEF ApiInv
<1>6. call[c].key \in Key
  BY DEF ApiInv, CallInv
<1> QED  BY <1>1, <1>2, <1>5, <1>6

LEMMA AskKeeps == ASSUME ApiInv, NEW c \in Client, Ask(c) \/ Leaves(c) PROVE ApiInv'
<1> USE DEF Ask, Leaves, runtime, sessions
<1>1. PICK r : call' = [call EXCEPT ![c] = r] /\ Fits(r)
              /\ (r.pc = call[c].pc \/ (call[c].pc = "idle" /\ r.pc = "wait"))
              /\ (call[c].pc # "idle" => r.key = call[c].key) /\ r.pc # "idle"
  <2>1. CASE Ask(c)
    <3>1. PICK op \in Op, k \in Key :
            Spend(op) /\ call' = [call EXCEPT ![c] = [NoCall EXCEPT !.op = op, !.pc = "wait",
                                                                    !.key = k]]
      BY <2>1
    <3>2. spent'[op] # 0
      BY <3>1, Spends DEF Bounded, ApiInv
    <3> DEFINE r == [NoCall EXCEPT !.op = op, !.pc = "wait", !.key = k]
    <3>3. Fits(r) /\ r.pc = "wait"
      BY <3>2 DEF Fits, Calls, NoCall
    <3> HIDE DEF r
    <3>4. call' = [call EXCEPT ![c] = r] /\ call[c].pc = "idle"
      BY <2>1, <3>1 DEF r
    <3> QED  BY <3>3, <3>4
  <2>2. CASE Leaves(c)
    <3> DEFINE r == [call[c] EXCEPT !.gone = TRUE]
    <3>1. call' = [call EXCEPT ![c] = r] /\ call[c] \in Calls
      BY <2>2 DEF ApiInv, TypeInv
    <3>2. r \in Calls /\ r.pc = call[c].pc /\ r.key = call[c].key /\ r.op = call[c].op
          /\ r.obj = call[c].obj
      BY <3>1 DEF Calls
    <3>3. spent'["gone"] # 0 /\ (\A b \in Bounded : spent'[b] = 0 => spent[b] = 0)
          /\ (Apart' => Apart)
      BY <2>2, Spends, Kinds DEF ApiInv
    <3> HIDE DEF r
    <3>4. Fits(r)
      BY <2>2, <3>2, <3>3, Kinds DEF Fits, ApiInv, CallInv, SpentInv, ApartInv
    <3> QED  BY <2>2, <3>1, <3>2, <3>4
  <2> QED  BY <2>1, <2>2
<1>2. /\ spent' \in [Bounded -> Nat] /\ (Apart' => Apart)
      /\ \A b \in Bounded : spent'[b] = 0 => spent[b] = 0
  BY Spends, Kinds DEF ApiInv, Bounded
<1>3. \A k \in Key : OnlyOf(k)
  BY Untouched
<1>4. Apart' => AllRegistered'
  BY <1>2, Untouched DEF ApiInv, ApartInv
<1>5. LockInv'
  <2>1. call'[c] = r /\ \A d \in Client \ {c} : call'[d] = call[d]
    BY <1>1 DEF ApiInv, TypeInv
  <2> QED  BY <1>1, <2>1, LockKept DEF Active, ApiInv
<1>6. r.key \in Key /\ (call[c].pc # "idle" \/ ready) /\ deleted' \subseteq Key
  BY <1>1 DEF Fits, ApiInv, TypeInv
<1>7. Proceeds(c, r.key, r)
  BY <1>1, <1>2, <1>3, <1>4, <1>5, <1>6 DEF Proceeds
<1> QED  BY <1>6, <1>7, CallKeeps

\* A call that is answered or fails with nothing changed.
LEMMA AnswerKeeps ==
  ASSUME ApiInv, NEW c \in Client, call[c].pc # "idle",
         Active(c) \/ call[c].key \notin locked,
         call' = [call EXCEPT ![c] = NoCall], locked' = locked \ {call[c].key},
         UNCHANGED <<runtime, sessions, store, owner, obj>>, deleted' \subseteq Key,
         spent' \in [Bounded -> Nat], Apart' => Apart,
         \A b \in Bounded : spent'[b] = 0 => spent[b] = 0
  PROVE  ApiInv'
<1>1. LockInv' /\ Fits(NoCall)
  BY Answered
<1>2. call[c].key \in Key /\ OnlyOf(call[c].key)
  BY Untouched DEF ApiInv, CallInv
<1>3. Apart' => AllRegistered'
  BY Untouched DEF ApiInv, ApartInv
<1>4. Proceeds(c, call[c].key, NoCall)
  BY <1>1, <1>2, <1>3 DEF Proceeds
<1> QED  BY <1>2, <1>4, CallKeeps

\* An object for a key that no other call is about and that has none.
LEMMA LaunchFits ==
  ASSUME ApiInv, NEW k \in Key, NEW o \in Object, Launch(k, o), UNCHANGED store,
         Apart => owner[k] = 0
  PROVE  OnlyOf(k) /\ (Apart => AllRegistered')
<1>1. /\ owner' \in [Key -> Object \union {0}]
      /\ obj' \in [Object -> [key : Key \union {"none"},
                              st : {"none", "up", "draining", "down", "failed"}]]
      /\ KeyInv'
      /\ \A p \in Key \ {k} : owner'[p] = owner[p] /\ owner[p] # o
      /\ \A p \in Object \ {o} : obj'[p] = obj[p]
      /\ owner[k] = 0 /\ AllRegistered => AllRegistered'
  BY Launched DEF ApiInv
<1>2. OnlyOf(k)
  BY <1>1 DEF OnlyOf, ApiInv, TypeInv
<1> QED  BY <1>1, <1>2 DEF ApiInv, ApartInv

\* The shutdown of the object of a key begins.
LEMMA DownFits ==
  ASSUME ApiInv, NEW k \in Key, owner[k] # 0, obj' = Down({owner[k]}), UNCHANGED <<owner, store>>
  PROVE  OnlyOf(k) /\ (AllRegistered => AllRegistered')
<1>1. owner[k] \in Object /\ {owner[k]} \in SUBSET Object /\ {owner[k]} \subseteq Registered
  BY DEF ApiInv, TypeInv, Registered
<1>2. /\ obj' \in [Object -> [key : Key \union {"none"},
                              st : {"none", "up", "draining", "down", "failed"}]]
      /\ \A p \in Object \ {owner[k]} : obj'[p] = obj[p]
      /\ KeyInv' /\ (AllRegistered => AllRegistered')
  BY <1>1, GoDown DEF ApiInv
<1>3. \A p \in Key \ {k} : owner[p] # 0 => owner[p] \in Object \ {owner[k]}
  BY DEF ApiInv, TypeInv, KeyInv
<1> QED  BY <1>2, <1>3 DEF OnlyOf, ApiInv, TypeInv

\* A call goes on, with what it has done to its key.
LEMMA GoKeeps ==
  ASSUME ApiInv, NEW c \in Client, NEW k, k = call[c].key,
         NEW pc \in {"find", "start", "again", "clear", "forget", "erase"},
         NEW o \in Object \union {0}, Go(c, pc, o), call[c].pc # "idle",
         \/ Active(c) /\ UNCHANGED locked
         \/ k \notin locked /\ ~Active(c) /\ locked' = locked \union {k},
         UNCHANGED <<runtime, sessions, spent>>, deleted' \subseteq Key,
         OnlyOf(k), Apart => AllRegistered',
         store'[k] = "none" => store[k] = "none" \/ call[c].op = "delete",
         pc = "find" => call[c].op = "create" /\ owner'[k] = 0,
         pc \in {"clear", "forget", "erase"} => call[c].op = "delete",
         pc \in {"again", "clear", "forget"} => o # 0 /\ owner'[k] = o,
         pc = "forget" => obj'[o].st = "down"
  PROVE  ApiInv'
<1>1. LockInv' /\ k \in Key /\ \E r \in Calls :
        /\ call' = [call EXCEPT ![c] = r] /\ r.pc = pc /\ r.obj = o
        /\ r.key = k /\ r.op = call[c].op /\ r.gone = call[c].gone
  BY Gone
<1>2. PICK r \in Calls :
        /\ call' = [call EXCEPT ![c] = r] /\ r.pc = pc /\ r.obj = o
        /\ r.key = k /\ r.op = call[c].op /\ r.gone = call[c].gone
  BY <1>1
<1>3. /\ spent' \in [Bounded -> Nat] /\ (Apart' <=> Apart)
      /\ \A b \in Bounded : spent'[b] = spent[b]
  BY NotSpent
<1>4. \A d \in Client \ {c} : Active(d) => call[d].key # k
  BY Alone
<1>5. (call[c].op = "create" => spent["create"] # 0)
      /\ (call[c].op = "delete" => spent["delete"] # 0)
      /\ (spent["gone"] = 0 => ~call[c].gone)
  BY DEF ApiInv, SpentInv
<1>6. Fits(r)
  BY <1>1, <1>2, <1>3, <1>5, Kinds DEF Fits
<1>7. Proceeds(c, k, r)
  BY <1>1, <1>2, <1>3, <1>4, <1>5, <1>6 DEF Proceeds
<1> QED  BY <1>1, <1>7, CallKeeps

LEMMA EnterKeeps == ASSUME ApiInv, NEW c \in Client, Enter(c) PROVE ApiInv'
<1> DEFINE k == call[c].key
<1>1. /\ k \in Key /\ call[c].pc = "wait" /\ k \notin locked /\ ~Active(c)
      /\ UNCHANGED <<runtime, sessions, store, spent>>
  BY DEF Enter, ApiInv, CallInv, TypeInv, Active
<1>2. spent' \in [Bounded -> Nat] /\ (Apart' <=> Apart) /\ \A b \in Bounded : spent'[b] = spent[b]
  BY <1>1, NotSpent
<1>3. deleted' \subseteq Key
  BY DEF Enter, EnterCreate, EnterConnect, EnterDelete, ApiInv, TypeInv
<1>4. CASE Answer(c) /\ UNCHANGED <<owner, obj>>
  BY <1>1, <1>2, <1>3, <1>4, AnswerKeeps DEF Answer
<1>5. CASE EnterCreate(c, k) /\ ~Loaded(k)
  <2>1. Go(c, "find", 0) /\ locked' = locked \union {k} /\ UNCHANGED <<owner, obj>>
        /\ owner[k] = 0 /\ call[c].op = "create"
    BY <1>5 DEF EnterCreate, Loaded
  <2>2. OnlyOf(k) /\ (Apart => AllRegistered')
    BY <1>1, <2>1, Untouched DEF ApiInv, ApartInv
  <2> QED  BY <1>1, <1>3, <2>1, <2>2, GoKeeps
<1>6. CASE EnterConnect(c, k) /\ ~Loaded(k)
  <2>1. PICK o \in Object : Launch(k, o) /\ Go(c, "start", o)
    BY <1>6 DEF EnterConnect
  <2>2. locked' = locked \union {k} /\ owner[k] = 0
    BY <1>6 DEF EnterConnect, Loaded
  <2>3. OnlyOf(k) /\ (Apart => AllRegistered')
    BY <1>1, <2>1, <2>2, LaunchFits
  <2> QED  BY <1>1, <1>3, <2>1, <2>2, <2>3, GoKeeps
<1>7. CASE obj' = Down({owner[k]}) /\ Loaded(k) /\ UNCHANGED owner
           /\ locked' = locked \union {k}
           /\ (Go(c, "again", owner[k]) \/ (call[c].op = "delete" /\ Go(c, "clear", owner[k])))
  <2>1. owner[k] # 0 /\ owner[k] \in Object \union {0} /\ owner'[k] = owner[k]
    BY <1>1, <1>7 DEF Loaded, ApiInv, TypeInv
  <2>2. OnlyOf(k) /\ (Apart => AllRegistered')
    BY <1>1, <1>7, <2>1, DownFits DEF ApiInv, ApartInv
  <2> QED  BY <1>1, <1>3, <1>7, <2>1, <2>2, GoKeeps
<1>8. CASE EnterDelete(c, k) /\ ~Loaded(k)
  <2>1. Go(c, "erase", 0) /\ locked' = locked \union {k} /\ UNCHANGED <<owner, obj>>
        /\ call[c].op = "delete"
    BY <1>8 DEF EnterDelete, Enter
  <2>2. OnlyOf(k) /\ (Apart => AllRegistered')
    BY <1>1, <2>1, Untouched DEF ApiInv, ApartInv
  <2> QED  BY <1>1, <1>3, <2>1, <2>2, GoKeeps
<1> QED
  BY <1>4, <1>5, <1>6, <1>7, <1>8 DEF Enter, EnterCreate, EnterConnect, EnterDelete

\* Only a key without an object, or with a stored session, is looked for.
LEMMA FindKeeps == ASSUME ApiInv, NEW c \in Client, Find(c) PROVE ApiInv'
<1> DEFINE k == call[c].key
<1>1. /\ k \in Key /\ Active(c) /\ call[c].pc = "find" /\ deleted' \subseteq Key
      /\ UNCHANGED <<runtime, sessions, store, spent>>
  BY DEF Find, Answer, ApiInv, CallInv, TypeInv, Active
<1>2. spent' \in [Bounded -> Nat] /\ (Apart' <=> Apart) /\ \A b \in Bounded : spent'[b] = spent[b]
  BY <1>1, NotSpent
<1>3. CASE Found(k)
  BY <1>1, <1>2, <1>3, AnswerKeeps DEF Find, Answer
<1>4. CASE ~Found(k)
  <2>1. PICK o \in Object : Launch(k, o) /\ Go(c, "start", o)
    BY <1>4 DEF Find
  <2>2. Apart => owner[k] = 0
    BY <1>1, <1>4 DEF Found, ApiInv, ApartInv
  <2>3. OnlyOf(k) /\ (Apart => AllRegistered')
    BY <1>1, <2>1, <2>2, LaunchFits
  <2>4. UNCHANGED locked
    BY <1>4 DEF Find
  <2> QED  BY <1>1, <2>1, <2>3, <2>4, GoKeeps
<1> QED  BY <1>3, <1>4

\* An answer that changes what is stored of the key, or its entry.
LEMMA AnswersWell ==
  ASSUME ApiInv, NEW c \in Client, Active(c), Answer(c), UNCHANGED <<runtime, sessions, spent>>,
         deleted' \subseteq Key, OnlyOf(call[c].key), Apart => AllRegistered',
         store'[call[c].key] = "none" => store[call[c].key] = "none" \/ call[c].op = "delete"
  PROVE  ApiInv'
<1>1. LockInv' /\ Fits(NoCall) /\ call[c].key \in Key /\ call[c].pc # "idle"
  BY Answered DEF Answer, Active, ApiInv, CallInv
<1>2. spent' \in [Bounded -> Nat] /\ (Apart' <=> Apart) /\ \A b \in Bounded : spent'[b] = spent[b]
  BY NotSpent
<1>3. \A d \in Client \ {c} : Active(d) => call[d].key # call[c].key
  BY Alone
<1>4. call[c].op = "delete" => spent["delete"] # 0
  BY DEF ApiInv, SpentInv
<1>5. Proceeds(c, call[c].key, NoCall)
  BY <1>1, <1>2, <1>3, <1>4 DEF Answer, Proceeds
<1> QED  BY <1>1, <1>5, CallKeeps

\* What is stored of a key changes alone.
LEMMA StoreFits ==
  ASSUME ApiInv, NEW k \in Key, NEW x \in {"none", "unlinked", "linked"},
         store' = [store EXCEPT ![k] = x], UNCHANGED <<owner, obj>>
  PROVE  OnlyOf(k) /\ store'[k] = x /\ (Apart => AllRegistered')
BY DEF ApiInv, ApartInv, TypeInv, OnlyOf, KeyInv, AllRegistered, Working

LEMMA StoreSteps == ASSUME ApiInv, NEW c \in Client, Started(c) \/ Erase(c) \/ Clear(c) PROVE ApiInv'
<1> DEFINE k == call[c].key
<1>1. /\ k \in Key /\ Active(c) /\ call[c].pc \in {"start", "erase", "clear"}
      /\ deleted' \subseteq Key /\ UNCHANGED <<runtime, sessions, owner, obj, spent>>
      /\ call[c].pc \in {"erase", "clear"} => call[c].op = "delete"
  BY DEF Started, Erase, Clear, Answer, Go, ApiInv, CallInv, TypeInv, Active
<1>2. CASE Started(c)
  <2> DEFINE x == IF store[k] = "none" THEN "unlinked" ELSE store[k]
  <2>1. x \in {"none", "unlinked", "linked"} /\ store' = [store EXCEPT ![k] = x] /\ x # "none"
    BY <1>1, <1>2 DEF Started, LoadStore, ApiInv, TypeInv
  <2> HIDE DEF x
  <2>2. OnlyOf(k) /\ store'[k] = x /\ (Apart => AllRegistered')
    BY <1>1, <2>1, StoreFits
  <2> QED  BY <1>1, <1>2, <2>1, <2>2, AnswersWell DEF Started
<1>3. CASE Erase(c)
  <2>1. OnlyOf(k) /\ (Apart => AllRegistered')
    BY <1>1, <1>3, StoreFits DEF Erase
  <2> QED  BY <1>1, <1>3, <2>1, AnswersWell DEF Erase
<1>4. CASE Clear(c)
  <2>1. OnlyOf(k) /\ (Apart => AllRegistered')
    BY <1>1, <1>4, StoreFits DEF Clear
  <2>2. /\ call[c].obj \in Object \union {0} /\ call[c].obj # 0 /\ owner[k] = call[c].obj
        /\ obj[call[c].obj].st = "down" /\ Go(c, "forget", call[c].obj) /\ UNCHANGED locked
        /\ call[c].op = "delete"
    BY <1>1, <1>4 DEF Clear, ApiInv, CallInv, TypeInv, Calls
  <2> QED  BY <1>1, <2>1, <2>2, GoKeeps
<1> QED  BY <1>2, <1>3, <1>4

\* The object that is created again is the one of its key.
LEMMA AgainKeeps == ASSUME ApiInv, NEW c \in Client, Again(c) PROVE ApiInv'
<1> DEFINE k == call[c].key  o == call[c].obj
<1>1. /\ k \in Key /\ Active(c) /\ call[c].pc = "again" /\ deleted' \subseteq Key
      /\ UNCHANGED <<runtime, sessions, store, owner, spent, locked>>
      /\ o \in Object \union {0} /\ o # 0 /\ owner[k] = o /\ o \in Object
      /\ obj' = [obj EXCEPT ![o].st = "up"] /\ Go(c, "start", o)
  BY DEF Again, ApiInv, CallInv, TypeInv, Active, Calls
<1> HIDE DEF k, o
<1>2. /\ obj' \in [Object -> [key : Key \union {"none"},
                              st : {"none", "up", "draining", "down", "failed"}]]
      /\ \A p \in Object : obj'[p].key = obj[p].key
      /\ \A p \in Object \ {o} : obj'[p] = obj[p]
  BY <1>1 DEF ApiInv, TypeInv
<1>3. obj[o].key = k
  BY <1>1 DEF ApiInv, KeyInv
<1>4. \A p \in Working' : p \in Object /\ (p \in Working \/ p = o)
  BY <1>2 DEF Working
<1>5. KeyInv'
  <2>1. \A p \in Key : owner[p] # 0 => owner[p] \in Object /\ obj[owner[p]].key = p
    BY DEF ApiInv, KeyInv, TypeInv
  <2> QED  BY <1>1, <1>2, <1>3, <1>4, <2>1 DEF ApiInv, KeyInv
<1>6. OnlyOf(k)
  <2>1. \A p \in Key \ {k} : owner[p] # 0 => owner[p] \in Object \ {o}
    BY <1>3 DEF ApiInv, KeyInv, TypeInv
  <2> QED  BY <1>1, <1>2, <1>5, <2>1 DEF OnlyOf, ApiInv, TypeInv
<1>7. Apart => AllRegistered'
  BY <1>1, <1>2, <1>3, <1>4 DEF ApiInv, ApartInv, AllRegistered
<1> QED  BY <1>1, <1>6, <1>7, GoKeeps DEF k

\* The entry goes when its object is down.
LEMMA ForgetKeeps == ASSUME ApiInv, NEW c \in Client, Forget(c) PROVE ApiInv'
<1> DEFINE k == call[c].key  o == call[c].obj
<1>1. /\ k \in Key /\ Active(c) /\ call[c].pc = "forget" /\ deleted' \subseteq Key
      /\ UNCHANGED <<runtime, sessions, store, obj, spent>> /\ Answer(c)
      /\ o # 0 /\ owner[k] = o /\ o \in Object /\ owner' = [owner EXCEPT ![k] = 0]
  BY DEF Forget, ApiInv, CallInv, TypeInv, Active, Calls
<1>2. Apart => obj[o].st = "down"
  BY <1>1 DEF ApiInv, ApartInv
<1> HIDE DEF k, o
<1>3. /\ owner' \in [Key -> Object \union {0}] /\ \A p \in Key \ {k} : owner'[p] = owner[p]
      /\ owner'[k] = 0
  BY <1>1 DEF ApiInv, TypeInv
<1>4. KeyInv'
  BY <1>1, <1>3 DEF ApiInv, KeyInv, Working
<1>5. OnlyOf(k)
  BY <1>1, <1>3, <1>4 DEF OnlyOf, ApiInv, TypeInv
<1>6. ASSUME Apart PROVE AllRegistered'
  <2>1. \A p \in Working : p # o /\ obj[p].key \in Key /\ owner[obj[p].key] = p
    BY <1>2, <1>6 DEF ApiInv, ApartInv, AllRegistered, Working, KeyInv
  <2> QED  BY <1>1, <1>3, <2>1 DEF AllRegistered, Working
<1> QED  BY <1>1, <1>5, <1>6, AnswersWell DEF k

LEMMA CallFailsKeeps == ASSUME ApiInv, NEW c \in Client, CallFails(c) PROVE ApiInv'
<1>1. Active(c) /\ call[c].pc # "idle" /\ deleted' \subseteq Key
  BY DEF CallFails, Active, ApiInv, TypeInv
<1>2. spent' \in [Bounded -> Nat] /\ (Apart' => Apart)
      /\ \A b \in Bounded : spent'[b] = 0 => spent[b] = 0
  BY Spends, Kinds, NotSpent DEF CallFails, ApiInv
<1> QED  BY <1>1, <1>2, AnswerKeeps DEF CallFails, Unlocked

-----------------------------------------------------------------------------

LEMMA ApiInvNext == ASSUME ApiInv, [Next]_vars PROVE ApiInv'
<1>1. CASE StartStep \/ ConnectFails
  BY <1>1, StartKeeps
<1>2. CASE RestoreStep \/ RestoreFails
  BY <1>2, LoopKeeps, LoadAuthKeeps, RestoredKeeps DEF RestoreStep
<1>3. CASE (\E o \in Object : ShutdownEnds(o)) \/ (\E k \in Key : Paired(k))
  BY <1>3, ObjectKeeps
<1>4. ASSUME NEW c \in Client, Ask(c) \/ Leaves(c) PROVE ApiInv'
  BY <1>4, AskKeeps
<1>5. ASSUME NEW c \in Client, CallStep(c) PROVE ApiInv'
  BY <1>5, EnterKeeps, FindKeeps, StoreSteps, AgainKeeps, ForgetKeeps, CallFailsKeeps
     DEF CallStep
<1>6. CASE Signal \/ HaltStep
  BY <1>6, HaltKeeps
<1>7. CASE UNCHANGED vars
  <2> USE <1>7 DEF ApiInv, vars, runtime, sessions, calls
  <2>1. TypeInv' /\ KeyInv' /\ CallInv' /\ LockInv'
    BY DEF TypeInv, KeyInv, CallInv, LockInv, Working, Active
  <2>2. StartInv' /\ BeforeInv' /\ SpentInv'
    BY DEF StartInv, BeforeInv, SpentInv, Quiet, Working
  <2>3. Apart' => ApartInv'
    BY DEF Apart, ApartInv, AllRegistered, Working
  <2> QED  BY <2>1, <2>2, <2>3
<1> QED  BY <1>1, <1>2, <1>3, <1>4, <1>5, <1>6, <1>7 DEF Next

LEMMA ApiInvInit == Init => ApiInv
<1> SUFFICES ASSUME Init PROVE ApiInv
  OBVIOUS
<1> USE DEF Init, NoObject, NoCall, Resting
<1>1. TypeInv
  BY DEF TypeInv, Calls
<1>2. KeyInv /\ CallInv /\ LockInv
  BY DEF KeyInv, CallInv, LockInv, Working, Active
<1>3. StartInv /\ BeforeInv
  BY DEF StartInv, BeforeInv, Quiet, Working, Halted
<1>4. SpentInv
  BY DEF SpentInv, Bounded, Op
<1>5. ApartInv
  BY DEF ApartInv, AllRegistered, Working
<1> QED  BY <1>1, <1>2, <1>3, <1>4, <1>5 DEF ApiInv

\* What the theorems below follow from: the inductive invariant.
THEOREM ApiInvariant == Spec => []ApiInv
BY ApiInvInit, ApiInvNext, PTL DEF Spec

-----------------------------------------------------------------------------

\* The API is ready only when the database, the queue and the sessions have been started,
\* and never again once it stops; and stop() undoes what initialize() has done, wherever
\* the two meet.
THEOREM StartsAndStops == Spec => []StartAndStopAgree
<1>1. ApiInv => StartAndStopAgree
  <2> SUFFICES ASSUME ApiInv PROVE StartAndStopAgree
    OBVIOUS
  <2> USE DEF ApiInv
  <2>1. TypeOK
    BY DEF TypeOK, TypeInv, KeyInv, LockInv, Active, Calls, Halted
  <2>2. ReadyIsUsable /\ StopUndoesStart
    BY DEF ReadyIsUsable, StopUndoesStart, StartInv, TypeInv, Halted
  <2> QED  BY <2>1, <2>2 DEF StartAndStopAgree
<1> QED  BY <1>1, ApiInvariant, PTL

\* No object is left that no call, supervisor or stop can reach, until a deletion has come
\* together with a creation and a failure, whose restore is tried again with credentials that
\* are gone, or with a client that goes away, whose deletion a stop does not wait for.
THEOREM NothingOrphaned == Spec => []NoOrphan
<1>1. ApiInv => NoOrphan
  BY DEF ApiInv, ApartInv, NoOrphan
<1> QED  BY <1>1, ApiInvariant, PTL

\* Sessions.shutdown() drains every object twice, around the restore in flight, so that
\* nothing uses the database when it is disconnected, as long as there is no orphan: under
\* the same condition, and while every client waits for its answer.
THEOREM DatabaseLast == Spec => []DatabaseOutlivesUse
<1>1. ApiInv => DatabaseOutlivesUse
  BY DEF ApiInv, DatabaseOutlivesUse, InUse, ApartInv, BeforeInv, SpentInv, StartInv, Halted,
         Quiet, TypeInv
<1> QED  BY <1>1, ApiInvariant, PTL
=============================================================================
