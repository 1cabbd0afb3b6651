---------------------------- MODULE LinkPreviews ----------------------------
(***************************************************************************)
(* LinkPreviewService: previews by connection and URL, cached, shared by   *)
(* the calls that want the same one, bounded in number, and made in a few  *)
(* slots with a queue.  A call waits for its deadline at most; its work    *)
(* keeps the slot until what it awaits has noticed the abort.              *)
(*                                                                         *)
(* What a page says is abstracted to the outcomes the control tells apart. *)
(* The work of a call is named by the call.                                *)
(***************************************************************************)
EXTENDS Integers, Sequences, FiniteSets, SequencesExt

CONSTANTS
  Preview,        \* calls of preview, each made at most once
  Link,           \* connection and URL: the key of the cache
  ConnectionOf(_),\* the connection of a link
  NoPreview,      \* no work
  Concurrency,    \* concurrency
  MaxPending,     \* MAX_PENDING
  MaxEntries, MaxEntriesPerConnection  \* maxEntries, maxEntriesPerConnection

ASSUME PreviewAssumption ==
  /\ NoPreview \notin Preview
  /\ {Concurrency, MaxPending, MaxEntries, MaxEntriesPerConnection} \subseteq Nat \ {0}

VARIABLES
  link,     \* what each call wants
  asking,   \* of each call: "none", "waits" for its own work, "shares", "told"
  sharing,  \* the call whose work it shares
  cache,    \* when each link was set in the cache, 0 for one that is not in it
  inserted, \* the number of the last entry set: a Map keeps them in this order
  pendingOf,\* the work under way for each link
  slots,    \* active
  waiters,  \* the works that wait for a slot
  at,       \* where each work is
  images,   \* how many advertised images it has left
  aborted   \* the works whose deadline has passed

previewVars == <<link, asking, sharing, cache, inserted, pendingOf, slots, waiters, at, images,
                 aborted>>

Awaiting == {"granted", "page", "thumbnail", "parse", "image", "imageThumbnail"}

PreviewInit ==
  /\ link \in [Preview -> Link]
  /\ asking = [p \in Preview |-> "none"] /\ sharing = [p \in Preview |-> NoPreview]
  /\ cache = [l \in Link |-> 0] /\ inserted = 0
  /\ pendingOf = [l \in Link |-> NoPreview]
  /\ slots = 0 /\ waiters = <<>>
  /\ at = [p \in Preview |-> "none"] /\ images = [p \in Preview |-> 0]
  /\ aborted = {}

\* The links in the cache, and those of a connection.
Entries == {l \in Link : cache[l] # 0}
EntriesOf(c) == {x \in Entries : ConnectionOf(x) = c}

-----------------------------------------------------------------------------
(* preview *)

\* A recent entry becomes the youngest.
Cached(p) ==
  /\ asking[p] = "none" /\ link[p] \in Entries
  /\ inserted' = inserted + 1
  /\ cache' = [cache EXCEPT ![link[p]] = inserted']
  /\ asking' = [asking EXCEPT ![p] = "told"]
  /\ UNCHANGED <<link, sharing, pendingOf, slots, waiters, at, images, aborted>>

\* An entry that is too old is dropped.
Missed(p) ==
  /\ asking[p] = "none"
  /\ cache' = [cache EXCEPT ![link[p]] = 0]
  /\ UNCHANGED inserted

UnderWay(l) == pendingOf[l] # NoPreview

Share(p) ==
  /\ Missed(p) /\ UnderWay(link[p])
  /\ sharing' = [sharing EXCEPT ![p] = pendingOf[link[p]]]
  /\ asking' = [asking EXCEPT ![p] = "shares"]
  /\ UNCHANGED <<link, pendingOf, slots, waiters, at, images, aborted>>

Pending == {l \in Link : pendingOf[l] # NoPreview}

GiveUp(p) ==
  /\ Missed(p) /\ ~UnderWay(link[p])
  /\ Cardinality(Pending) >= MaxPending
  /\ asking' = [asking EXCEPT ![p] = "told"]
  /\ UNCHANGED <<link, sharing, pendingOf, slots, waiters, at, images, aborted>>

HasSlot == slots < Concurrency

\* acquire: a slot, or a place in the queue.
StartWork(p) ==
  /\ Missed(p) /\ ~UnderWay(link[p])
  /\ Cardinality(Pending) < MaxPending
  /\ pendingOf' = [pendingOf EXCEPT ![link[p]] = p]
  /\ asking' = [asking EXCEPT ![p] = "waits"]
  /\ IF HasSlot
     THEN slots' = slots + 1 /\ at' = [at EXCEPT ![p] = "granted"] /\ UNCHANGED waiters
     ELSE waiters' = Append(waiters, p) /\ at' = [at EXCEPT ![p] = "queued"] /\ UNCHANGED slots
  /\ UNCHANGED <<link, sharing, images, aborted>>

\* remember: the oldest entries of the connection, then of all, make room.
Youngest(S, n) == {x \in S : Cardinality({y \in S : cache[x] < cache[y]}) < n}

Remember(l) ==
  LET others == Entries \ {l}
      own  == EntriesOf(ConnectionOf(l)) \ {l}
      kept == (others \ own) \union Youngest(own, MaxEntriesPerConnection - 1)
  IN /\ inserted' = inserted + 1
     /\ cache' = [x \in Link |-> IF x = l THEN inserted'
                                ELSE IF x \in Youngest(kept, MaxEntries - 1) THEN cache[x] ELSE 0]

\* The task of the work has ended, with a preview or without; its caller goes on.
\* Who shares it goes on as well.
TaskEnds(p) ==
  /\ Remember(link[p])
  /\ asking' = [q \in Preview |-> IF q = p \/ (asking[q] = "shares" /\ sharing[q] = p)
                                  THEN "told" ELSE asking[q]]
  /\ pendingOf' = [pendingOf EXCEPT ![link[p]] = IF @ = p THEN NoPreview ELSE @]

\* Mutant: a cancelled waiter keeps its place in the queue.
StaysInLine(p) == waiters

LeavesLine(p) == RemoveFirst(waiters, p)

WaitRejected(p) == [at EXCEPT ![p] = IF @ = "queued" THEN "over" ELSE @]

\* The deadline: the caller gets no preview.  A work in the queue ends as well.
DeadlinePasses(p) ==
  /\ asking[p] = "waits"
  /\ aborted' = aborted \union {p}
  /\ TaskEnds(p)
  /\ waiters' = LeavesLine(p)
  /\ at' = WaitRejected(p)
  /\ UNCHANGED <<link, sharing, slots, images>>

-----------------------------------------------------------------------------
(* run *)

\* release: the slot goes to the first that waits.
Release(p) ==
  /\ slots' = IF waiters = <<>> THEN slots - 1 ELSE slots
  /\ waiters' = IF waiters = <<>> THEN <<>> ELSE Tail(waiters)
  /\ at' = [q \in Preview |-> IF q = p THEN "over"
                              ELSE IF waiters # <<>> /\ q = Head(waiters) THEN "granted"
                              ELSE at[q]]

\* finally.  After the deadline nobody waits for the work.
WorkOver(p) ==
  /\ Release(p)
  /\ IF p \in aborted THEN UNCHANGED <<cache, inserted, asking, pendingOf>> ELSE TaskEnds(p)
  /\ UNCHANGED <<link, sharing, images, aborted>>

GoOn(p, from, to) ==
  /\ at[p] = from /\ p \notin aborted
  /\ at' = [at EXCEPT ![p] = to]
  /\ UNCHANGED <<link, asking, sharing, cache, inserted, pendingOf, slots, waiters, aborted>>

Fetch(p) == GoOn(p, "granted", "page") /\ UNCHANGED images
FetchedImage(p) == GoOn(p, "page", "thumbnail") /\ UNCHANGED images
FetchedPage(p) == GoOn(p, "page", "parse") /\ UNCHANGED images

\* At most two of the advertised images are looked at.
Parsed(p) ==
  /\ GoOn(p, "parse", "image")
  /\ \E n \in 1 .. 2 : images' = [images EXCEPT ![p] = n - 1]

FetchedPicture(p) == GoOn(p, "image", "imageThumbnail") /\ UNCHANGED images

NextImage(p) ==
  /\ images[p] > 0
  /\ GoOn(p, "image", "image") \/ GoOn(p, "imageThumbnail", "image")
  /\ images' = [images EXCEPT ![p] = @ - 1]

\* Whatever is awaited gives a preview, gives none, or fails; all of them notice the abort.
Finish(p) ==
  /\ at[p] \in Awaiting
  /\ at[p] = "granted" => p \in aborted
  /\ WorkOver(p)

PreviewAsk(p) == Cached(p) \/ Share(p) \/ GiveUp(p) \/ StartWork(p)

PreviewRun(p) ==
  \/ Fetch(p) \/ FetchedImage(p) \/ FetchedPage(p) \/ Parsed(p) \/ FetchedPicture(p)
  \/ NextImage(p) \/ Finish(p)

PreviewNext == \E p \in Preview : PreviewAsk(p) \/ DeadlinePasses(p) \/ PreviewRun(p)

PreviewSpec == PreviewInit /\ [][PreviewNext]_previewVars

\* The timer fires, and what is awaited ends after the abort.
PreviewFairness == \A p \in Preview :
  WF_previewVars(DeadlinePasses(p)) /\ WF_previewVars(p \in aborted /\ Finish(p))

-----------------------------------------------------------------------------
(* Properties *)

\* The type of every variable.
PreviewTypeOK ==
  /\ link \in [Preview -> Link]
  /\ asking \in [Preview -> {"none", "waits", "shares", "told"}]
  /\ sharing \in [Preview -> Preview \union {NoPreview}]
  /\ cache \in [Link -> Nat] /\ inserted \in Nat /\ waiters \in Seq(Preview)
  /\ pendingOf \in [Link -> Preview \union {NoPreview}]
  /\ slots \in 0 .. Concurrency
  /\ at \in [Preview -> Awaiting \union {"none", "queued", "over"}]
  /\ images \in [Preview -> 0 .. 1] /\ aborted \subseteq Preview

\* The works that hold a slot.
Holders == {p \in Preview : at[p] \in Awaiting}

\* A slot is counted for each work that holds one, and for no other; while works wait all
\* slots are held; what waits is wanted still.
SlotsCounted ==
  /\ slots = Cardinality(Holders)
  /\ waiters # <<>> => slots = Concurrency
  /\ ToSet(waiters) = {p \in Preview : at[p] = "queued"} /\ IsInjective(waiters)
  /\ ToSet(waiters) \intersect aborted = {}

\* A link has one work whose outcome is awaited, and every call that waits or shares
\* waits for the work of its link.
OneWorkPerLink == \A p \in Preview :
  /\ asking[p] = "waits" => pendingOf[link[p]] = p
  /\ asking[p] = "shares" => pendingOf[link[p]] = sharing[p]

\* One connection never fills the cache, and the cache never exceeds its size.
CacheBounded ==
  /\ Cardinality(Entries) <= MaxEntries
  /\ \A l \in Link : Cardinality(EntriesOf(ConnectionOf(l))) <= MaxEntriesPerConnection

\* Slots, shared works and entries are counted right, whoever gives up meanwhile.
PreviewSafety == PreviewTypeOK /\ SlotsCounted /\ OneWorkPerLink /\ CacheBounded

\* Every call is answered, and the slot of an abandoned work comes back.
PreviewsEnd == \A p \in Preview :
  []<>(asking[p] \in {"none", "told"} /\ at[p] \in {"none", "over"})
=============================================================================
