----------------------------- MODULE MediaProofs -----------------------------
(***************************************************************************)
(* Theorems about what an instance fetches and decodes - media downloads,  *)
(* thumbnails and link previews - for any calls, places and limits: places *)
(* are counted right and come back, whoever gives up meanwhile.            *)
(***************************************************************************)
EXTENDS MediaDownloads, ThumbnailPool, LinkPreviews, FiniteSetTheorems, SequenceTheorems,
        WellFoundedInduction, TLAPS

-----------------------------------------------------------------------------
(* Numbers, finite sets and queues *)

(* A set of numbers has a least one. *)
LEMMA LeastNumber ==
  ASSUME NEW S \in SUBSET Nat, S # {}
  PROVE  \E n \in S : \A m \in S : n <= m
<1> DEFINE T == {0 .. n : n \in S}
<1>1. T \subseteq FiniteSubsetsOf(Nat) /\ T # {}
  <2>1. \A n \in S : 0 .. n \in SUBSET Nat /\ IsFiniteSet(0 .. n)
    BY FS_Interval
  <2> QED  BY <2>1 DEF FiniteSubsetsOf
<1>2. PICK x \in T : \A y \in T : ~(<<y, x>> \in StrictSubsetOrdering(Nat))
  <2>1. IsWellFoundedOn(StrictSubsetOrdering(Nat), FiniteSubsetsOf(Nat))
    BY FS_StrictSubsetOrderingWellFounded
  <2> HIDE DEF T
  <2> QED  BY <1>1, <2>1, WFMin
<1>3. PICK n \in S : x = 0 .. n
  BY <1>2
<1>4. ASSUME NEW m \in S, m < n PROVE FALSE
  <2>1. 0 .. m \subseteq x /\ n \in x /\ n \notin 0 .. m
    BY <1>3, <1>4
  <2>2. <<0 .. m, x>> \in StrictSubsetOrdering(Nat)
    BY <1>3, <2>1 DEF StrictSubsetOrdering
  <2> QED  BY <1>2, <1>4, <2>2
<1> QED  BY <1>3, <1>4

LEMMA Fewer ==
  ASSUME NEW S, IsFiniteSet(S), NEW T, T \subseteq S
  PROVE  /\ IsFiniteSet(T) /\ Cardinality(T) \in Nat
         /\ \A n \in Nat : Cardinality(S) <= n => Cardinality(T) <= n
<1>1. IsFiniteSet(T) /\ Cardinality(T) <= Cardinality(S)
  BY FS_Subset
<1>2. Cardinality(T) \in Nat /\ Cardinality(S) \in Nat
  BY <1>1, FS_CardinalityType
<1> QED  BY <1>1, <1>2

LEMMA OneMore ==
  ASSUME NEW S, IsFiniteSet(S), NEW x
  PROVE  /\ IsFiniteSet(S \union {x}) /\ Cardinality(S) \in Nat
         /\ Cardinality(S \union {x}) <= Cardinality(S) + 1
         /\ Cardinality(S \union {x}) \in Nat
<1>1. /\ IsFiniteSet(S \union {x})
      /\ Cardinality(S \union {x}) = IF x \in S THEN Cardinality(S) ELSE Cardinality(S) + 1
  BY FS_AddElement
<1>2. Cardinality(S) \in Nat /\ Cardinality(S \union {x}) \in Nat
  BY <1>1, FS_CardinalityType
<1> QED  BY <1>1, <1>2

LEMMA Appended ==
  ASSUME NEW S, NEW q \in Seq(S), IsInjective(q), NEW x \in S, x \notin ToSet(q)
  PROVE  /\ Append(q, x) \in Seq(S) /\ IsInjective(Append(q, x))
         /\ Len(Append(q, x)) = Len(q) + 1 /\ ToSet(Append(q, x)) = ToSet(q) \union {x}
<1>1. /\ Append(q, x) \in Seq(S) /\ Len(Append(q, x)) = Len(q) + 1 /\ Len(q) \in Nat
      /\ \A i \in 1 .. Len(q) : Append(q, x)[i] = q[i]
      /\ Append(q, x)[Len(q) + 1] = x
      /\ DOMAIN q = 1 .. Len(q) /\ DOMAIN Append(q, x) = 1 .. Len(q) + 1
  BY AppendProperties
<1>2. 1 .. Len(q) + 1 = (1 .. Len(q)) \union {Len(q) + 1}
  BY <1>1
<1> DEFINE r == Append(q, x)
<1> HIDE DEF r
<1>3. ToSet(r) = ToSet(q) \union {x}
  BY <1>1, <1>2 DEF ToSet, r
<1>4. IsInjective(r)
  BY <1>1, <1>2 DEF IsInjective, ToSet, r
<1> QED  BY <1>1, <1>3, <1>4 DEF r

(* The sequence without an element that occurs once at most. *)
LEMMA Removed ==
  ASSUME NEW S, NEW q \in Seq(S), IsInjective(q), NEW x
  PROVE  /\ RemoveFirst(q, x) \in Seq(S) /\ IsInjective(RemoveFirst(q, x))
         /\ ToSet(RemoveFirst(q, x)) = ToSet(q) \ {x}
         /\ Len(RemoveFirst(q, x)) <= Len(q)
         /\ RemoveFirst(q, x) # <<>> => q # <<>>
<1>0. Len(q) \in Nat /\ DOMAIN q = 1 .. Len(q) /\ \A i \in 1 .. Len(q) : q[i] \in S
  OBVIOUS
<1>1. CASE \A i \in 1 .. Len(q) : q[i] # x
  <2>1. RemoveFirst(q, x) = q
    BY <1>1 DEF RemoveFirst
  <2>2. x \notin ToSet(q)
    BY <1>0, <1>1 DEF ToSet
  <2> QED  BY <1>0, <2>1, <2>2
<1>2. CASE \E i \in 1 .. Len(q) : q[i] = x
  <2> DEFINE k == SelectInSeq(q, LAMBDA v : v = x)
             r == SubSeq(q, 1, k - 1) \o SubSeq(q, k + 1, Len(q))
  <2>1. k \in 1 .. Len(q) /\ q[k] = x
    <3> DEFINE I == {i \in 1 .. Len(q) : q[i] = x}
    <3>1. I \in SUBSET Nat /\ I # {} /\ k = Min(I)
      BY <1>0, <1>2 DEF SelectInSeq
    <3> HIDE DEF I
    <3>2. Min(I) \in I
      BY <3>1, LeastNumber DEF Min
    <3> QED  BY <3>1, <3>2 DEF I
  <2>2. RemoveFirst(q, x) = r
    BY <1>2 DEF RemoveFirst, RemoveAt
  <2> HIDE DEF k
  <2>3. /\ r \in Seq(S) /\ Len(r) = Len(q) - 1
        /\ \A i \in 1 .. Len(q) - 1 : r[i] = IF i < k THEN q[i] ELSE q[i + 1]
    <3> DEFINE a == SubSeq(q, 1, k - 1)
               b == SubSeq(q, k + 1, Len(q))
    <3>0. r = a \o b
      OBVIOUS
    <3>1. /\ a \in Seq(S) /\ Len(a) = k - 1
          /\ \A i \in 1 .. k - 1 : a[i] = q[i]
      BY <1>0, <2>1, SubSeqProperties
    <3>2. /\ b \in Seq(S) /\ Len(b) = Len(q) - k
          /\ \A i \in 1 .. Len(q) - k : b[i] = q[k + i]
      <4>1. k + 1 \in Int /\ Len(q) \in Int /\ \A i \in k + 1 .. Len(q) : q[i] \in S
        BY <1>0, <2>1
      <4>2. /\ b \in Seq(S) /\ Len(b) = IF k + 1 <= Len(q) THEN Len(q) - (k + 1) + 1 ELSE 0
            /\ \A i \in 1 .. Len(q) - (k + 1) + 1 : b[i] = q[(k + 1) + i - 1]
        BY <4>1, SubSeqProperties
      <4> HIDE DEF b
      <4>0. k \in Int /\ Len(q) \in Int /\ k <= Len(q)
        BY <1>0, <2>1
      <4>3. Len(q) - (k + 1) + 1 = Len(q) - k /\ (k + 1 <= Len(q) \/ Len(q) - k = 0)
        BY <4>0
      <4>4. \A i \in 1 .. Len(q) - k : (k + 1) + i - 1 = k + i
        BY <1>0, <2>1
      <4> QED  BY <1>0, <2>1, <4>2, <4>3, <4>4
    <3> HIDE DEF a, b, r
    <3>3. /\ r \in Seq(S) /\ Len(r) = Len(a) + Len(b)
          /\ \A i \in 1 .. Len(a) + Len(b) :
               r[i] = IF i <= Len(a) THEN a[i] ELSE b[i - Len(a)]
      BY <3>0, <3>1, <3>2, ConcatProperties
    <3>4. Len(a) + Len(b) = Len(q) - 1
      BY <1>0, <2>1, <3>1, <3>2
    <3>5. ASSUME NEW i \in 1 .. Len(q) - 1 PROVE r[i] = IF i < k THEN q[i] ELSE q[i + 1]
      <4>1. CASE i < k
        BY <1>0, <2>1, <3>1, <3>3, <3>4, <4>1
      <4>2. CASE i >= k
        <5>1. i - (k - 1) \in 1 .. Len(q) - k /\ ~(i <= Len(a)) /\ k + (i - (k - 1)) = i + 1
          BY <1>0, <2>1, <3>1, <4>2
        <5>2. b[i - (k - 1)] = q[i + 1]
          BY <3>2, <5>1
        <5> QED  BY <1>0, <2>1, <3>1, <3>3, <3>4, <4>2, <5>1, <5>2
      <4> QED  BY <1>0, <2>1, <4>1, <4>2
    <3> QED  BY <3>3, <3>4, <3>5
  <2> HIDE DEF r
  <2>4. DOMAIN r = 1 .. Len(q) - 1
    BY <1>0, <2>3
  <2> DEFINE from(i) == IF i < k THEN i ELSE i + 1
  <2>9. \A i \in 1 .. Len(q) - 1 :
          from(i) \in 1 .. Len(q) /\ from(i) # k /\ r[i] = q[from(i)]
    BY <1>0, <2>1, <2>3
  <2>10. \A i, j \in 1 .. Len(q) - 1 : from(i) = from(j) => i = j
    BY <1>0, <2>1
  <2> HIDE DEF from
  <2>11. \A i, j \in 1 .. Len(q) : q[i] = q[j] => i = j
    BY <1>0 DEF IsInjective
  <2>5. IsInjective(r)
    <3> SUFFICES ASSUME NEW i \in 1 .. Len(q) - 1, NEW j \in 1 .. Len(q) - 1, r[i] = r[j]
                 PROVE  i = j
      BY <2>4 DEF IsInjective
    <3> QED  BY <2>9, <2>10, <2>11
  <2>6. ToSet(r) \subseteq ToSet(q) \ {x}
    <3> SUFFICES ASSUME NEW i \in 1 .. Len(q) - 1 PROVE r[i] \in ToSet(q) \ {x}
      BY <2>4 DEF ToSet
    <3>1. from(i) \in 1 .. Len(q) /\ r[i] = q[from(i)] /\ from(i) # k
      BY <2>9
    <3>2. k \in 1 .. Len(q) /\ q[k] = x
      BY <2>1
    <3>3. r[i] # x
      BY <2>11, <3>1, <3>2
    <3> QED  BY <1>0, <3>1, <3>3 DEF ToSet
  <2>7. ASSUME NEW i \in 1 .. Len(q), q[i] # x PROVE q[i] \in ToSet(r)
    <3>1. CASE i < k
      BY <1>0, <2>1, <2>3, <2>4, <3>1 DEF ToSet
    <3>2. CASE i > k
      <4>1. i - 1 \in 1 .. Len(q) - 1 /\ r[i - 1] = q[i]
        BY <1>0, <2>1, <2>3, <3>2
      <4> QED  BY <2>4, <4>1 DEF ToSet
    <3> QED  BY <1>0, <2>1, <2>7, <3>1, <3>2
  <2>8. q # <<>>
    BY <1>0, <2>1
  <2>12. ToSet(q) \ {x} \subseteq ToSet(r)
    BY <1>0, <2>7 DEF ToSet
  <2> QED  BY <1>0, <2>2, <2>3, <2>5, <2>6, <2>8, <2>12
<1> QED  BY <1>1, <1>2

LEMMA Behead ==
  ASSUME NEW S, NEW q \in Seq(S), IsInjective(q), q # <<>>
  PROVE  /\ Head(q) \in ToSet(q) /\ Tail(q) \in Seq(S) /\ IsInjective(Tail(q))
         /\ ToSet(Tail(q)) = ToSet(q) \ {Head(q)}
<1>1. /\ Len(q) \in Nat \ {0} /\ DOMAIN q = 1 .. Len(q) /\ Head(q) = q[1]
      /\ Tail(q) \in Seq(S) /\ Len(Tail(q)) = Len(q) - 1
      /\ \A i \in 1 .. Len(q) - 1 : Tail(q)[i] = q[i + 1]
  BY HeadTailProperties, EmptySeq
<1>2. DOMAIN Tail(q) = 1 .. Len(q) - 1
  BY <1>1
<1> DEFINE t == Tail(q)
<1> HIDE DEF t
<1>3. \A i \in 1 .. Len(q) - 1 : i + 1 \in 1 .. Len(q) /\ i + 1 # 1
  BY <1>1
<1>4. IsInjective(t)
  <2> SUFFICES ASSUME NEW a \in 1 .. Len(q) - 1, NEW b \in 1 .. Len(q) - 1, t[a] = t[b]
               PROVE  a = b
    BY <1>2 DEF IsInjective, t
  <2>1. a + 1 = b + 1
    BY <1>1, <1>3 DEF IsInjective, t
  <2> QED  BY <2>1
<1>5. ToSet(t) \subseteq ToSet(q) \ {q[1]}
  BY <1>1, <1>2, <1>3 DEF ToSet, IsInjective, t
<1>6. ASSUME NEW i \in 1 .. Len(q), q[i] # q[1] PROVE q[i] \in ToSet(t)
  <2>1. i - 1 \in 1 .. Len(q) - 1 /\ (i - 1) + 1 = i
    BY <1>1, <1>6
  <2>2. t[i - 1] = q[i]
    BY <1>1, <2>1 DEF t
  <2> QED  BY <1>2, <2>1, <2>2 DEF ToSet, t
<1>7. ToSet(q) \ {q[1]} \subseteq ToSet(t)
  BY <1>1, <1>6 DEF ToSet
<1>8. q[1] \in ToSet(q)
  BY <1>1 DEF ToSet
<1> QED  BY <1>1, <1>4, <1>5, <1>7, <1>8 DEF t

-----------------------------------------------------------------------------
(* Media downloads: places are counted right, a closure that is told reaches   *)
(* every download, and a media is renewed once.                                *)

Busying == {d \in Download : IsRunning(d)}
HasJoined == {d \in Download : joined[d] # 0}

PlaceTyped ==
  /\ socketNo \in 1 .. MaxSockets /\ isOpen \in BOOLEAN
  /\ downloading \in 0 .. MaxDownloads
  /\ trackedSet \in Set \union {0} /\ setsMade \in Set \union {0}
  /\ members \in [Set -> SUBSET Download]
  /\ stage \in [Download -> Running \union {"none", "over"}]
  /\ since \in [Download -> 0 .. MaxSockets] /\ joined \in [Download -> Set \union {0}]
  /\ mediaAborted \subseteq Download /\ detached \subseteq 1 .. MaxSockets

\* A set holds the running downloads that joined it; sets are numbered in the order they
\* were made, each by a download that joined it.
SetsHold ==
  /\ \A s \in Set : members[s] = {d \in Busying : joined[d] = s}
  /\ \A d \in Download : joined[d] <= setsMade /\ (stage[d] = "none" => joined[d] = 0)
                         /\ (IsRunning(d) => joined[d] # 0)
  /\ trackedSet <= setsMade /\ setsMade <= Cardinality(HasJoined)

PlaceInv == PlaceTyped /\ SetsHold /\ PlacesMatchDownloads /\ ClosureReaches

\* A renewal that is asked for is remembered.
RenewInv ==
  /\ renewed \subseteq Download
  /\ exchange \in [Download -> {"none", "listens", "over"}]
  /\ renewals = [d \in Download |-> IF d \in renewed THEN 1 ELSE 0]

MediaInv == PlaceInv /\ RenewInv

placeVars == <<socketVars, downloading, tracking, stage, since, joined, mediaAborted>>

LEMMA Finite ==
  /\ IsFiniteSet(Busying) /\ IsFiniteSet(HasJoined)
  /\ Cardinality(Busying) \in Nat /\ Cardinality(HasJoined) \in Nat
  /\ Cardinality(HasJoined) <= Cardinality(Download) /\ Cardinality(Download) \in Nat
<1>1. IsFiniteSet(Download)
  BY MediaAssumption
<1>2. Busying \in SUBSET Download /\ HasJoined \in SUBSET Download
  BY DEF Busying, HasJoined
<1>3. /\ IsFiniteSet(Busying) /\ IsFiniteSet(HasJoined)
      /\ Cardinality(HasJoined) <= Cardinality(Download)
  BY <1>1, <1>2, FS_Subset
<1> QED  BY <1>1, <1>3, FS_CardinalityType

LEMMA MediaInvInit == MediaInit => MediaInv
<1> SUFFICES ASSUME MediaInit PROVE MediaInv
  OBVIOUS
<1> USE DEF MediaInit
<1>1. Busying = {} /\ HasJoined = {}
  BY DEF Busying, HasJoined, IsRunning, Running
<1>2. Cardinality({}) = 0
  BY FS_EmptySet
<1>3. PlaceTyped
  BY MediaAssumption DEF PlaceTyped, Running, Set
<1>4. SetsHold
  BY <1>1, <1>2 DEF SetsHold, Busying, IsRunning, Running
<1>5. PlacesMatchDownloads
  BY <1>1, <1>2 DEF PlacesMatchDownloads, Busying
<1>6. ClosureReaches
  BY DEF ClosureReaches, IsRunning, Running
<1>7. RenewInv
  BY DEF RenewInv
<1> QED  BY <1>3, <1>4, <1>5, <1>6, <1>7 DEF MediaInv, PlaceInv

\* A download ends.
LEMMA EndKeeps ==
  ASSUME PlaceInv, NEW d \in Download, IsRunning(d), EndMedia(d)
  PROVE  PlaceInv'
<1> USE DEF PlaceInv, EndMedia, socketVars
<1>1. Busying' = Busying \ {d} /\ d \in Busying /\ HasJoined' = HasJoined
  BY DEF Busying, HasJoined, IsRunning, Running, PlaceTyped
<1>2. Cardinality(Busying') = Cardinality(Busying) - 1 /\ Cardinality(Busying) \in Nat
  BY <1>1, Finite, FS_RemoveElement
<1>3. Cardinality(Busying') \in Nat
  BY <1>1, <1>2, Finite, FS_RemoveElement, FS_CardinalityType
<1>4. downloading = Cardinality(Busying) /\ downloading' = downloading - 1
  BY DEF PlacesMatchDownloads, Busying, PlaceBack
<1>5. downloading' \in 0 .. MaxDownloads
  BY <1>2, <1>3, <1>4, MediaAssumption DEF PlaceTyped
<1>6. joined[d] \in Set
  BY DEF SetsHold, PlaceTyped
<1>7. trackedSet' \in {0, trackedSet}
  BY DEF DropsOwnSet
<1>8. PlaceTyped'
  <2>1. /\ socketNo' \in 1 .. MaxSockets /\ isOpen' \in BOOLEAN
        /\ trackedSet' \in Set \union {0} /\ setsMade' \in Set \union {0}
        /\ since' \in [Download -> 0 .. MaxSockets] /\ joined' \in [Download -> Set \union {0}]
        /\ mediaAborted' \subseteq Download /\ detached' \subseteq 1 .. MaxSockets
    BY <1>7 DEF PlaceTyped
  <2>2. members' \in [Set -> SUBSET Download]
    BY <1>6 DEF PlaceTyped
  <2>3. stage' \in [Download -> Running \union {"none", "over"}]
    BY DEF PlaceTyped
  <2> QED  BY <1>5, <2>1, <2>2, <2>3 DEF PlaceTyped
<1>9. SetsHold'
  <2>1. \A s \in Set : members'[s] = {e \in Busying' : joined'[e] = s}
    BY <1>1, <1>6 DEF SetsHold, PlaceTyped
  <2>2. \A e \in Download : joined'[e] <= setsMade' /\ (stage'[e] = "none" => joined'[e] = 0)
                            /\ (IsRunning(e)' => joined'[e] # 0)
    BY DEF SetsHold, PlaceTyped, IsRunning, Running
  <2>3. trackedSet' <= setsMade'
    BY <1>7 DEF SetsHold, PlaceTyped, Set
  <2> QED  BY <1>1, <2>1, <2>2, <2>3 DEF SetsHold
<1>10. PlacesMatchDownloads'
  BY <1>2, <1>4 DEF PlacesMatchDownloads, Busying
<1>11. ClosureReaches'
  <2> SUFFICES ASSUME NEW e \in Download, IsRunning(e)', e \notin mediaAborted'
               PROVE  /\ trackedSet' # 0 /\ e \in members'[trackedSet']
                      /\ SameSocket(e)' \/ since'[e] \in detached'
    BY DEF ClosureReaches
  <2>1. e # d /\ IsRunning(e) /\ e \notin mediaAborted
    BY DEF IsRunning, Running, PlaceTyped
  <2>2. /\ SameSocket(e) \/ since[e] \in detached
        /\ trackedSet # 0 /\ e \in members[trackedSet] /\ trackedSet \in Set
    BY <2>1 DEF ClosureReaches, PlaceTyped
  <2>3. e \in members'[trackedSet]
    BY <1>6, <2>1, <2>2 DEF PlaceTyped
  <2>4. trackedSet' = trackedSet
    BY <2>3 DEF DropsOwnSet
  <2> QED  BY <2>2, <2>3, <2>4 DEF SameSocket
<1> QED  BY <1>8, <1>9, <1>10, <1>11

\* A download goes on.
LEMMA AdvanceKeeps ==
  ASSUME PlaceInv, NEW d \in Download, IsRunning(d), NEW to \in Running, Advance(d, to)
  PROVE  PlaceInv'
<1> USE DEF PlaceInv, Advance, tracking, socketVars
<1>1. \A e \in Download : IsRunning(e)' = IsRunning(e) /\ (stage'[e] = "none" <=> stage[e] = "none")
  BY DEF IsRunning, Running, PlaceTyped
<1>2. Busying' = Busying /\ HasJoined' = HasJoined
  BY <1>1 DEF Busying, HasJoined
<1>3. PlaceTyped'
  BY DEF PlaceTyped
<1>4. SetsHold'
  BY <1>1, <1>2 DEF SetsHold
<1>5. PlacesMatchDownloads'
  BY <1>2 DEF PlacesMatchDownloads, Busying
<1>6. ClosureReaches'
  BY <1>1 DEF ClosureReaches, SameSocket
<1> QED  BY <1>3, <1>4, <1>5, <1>6

LEMMA RestKeeps == ASSUME PlaceInv, UNCHANGED placeVars PROVE PlaceInv'
BY DEF PlaceInv, PlaceTyped, SetsHold, PlacesMatchDownloads, ClosureReaches, SameSocket,
       Busying, HasJoined, IsRunning, placeVars, tracking, socketVars

LEMMA RefuseKeeps == ASSUME PlaceInv, NEW d \in Download, RefuseMedia(d) PROVE PlaceInv'
<1> USE DEF PlaceInv, RefuseMedia, tracking, socketVars
<1>1. \A e \in Download : IsRunning(e)' = IsRunning(e) /\ (stage'[e] = "none" => stage[e] = "none")
  BY DEF IsRunning, Running, PlaceTyped
<1>2. Busying' = Busying /\ HasJoined' = HasJoined
  BY <1>1 DEF Busying, HasJoined
<1>3. PlaceTyped'
  BY DEF PlaceTyped
<1>4. SetsHold'
  BY <1>1, <1>2 DEF SetsHold
<1>5. PlacesMatchDownloads'
  BY <1>2 DEF PlacesMatchDownloads, Busying
<1>6. ClosureReaches'
  BY <1>1 DEF ClosureReaches, SameSocket
<1> QED  BY <1>3, <1>4, <1>5, <1>6

\* A download begins: one more place, one more that has joined.
LEMMA BeginKeeps == ASSUME PlaceInv, NEW d \in Download, BeginMedia(d) PROVE PlaceInv'
<1> USE DEF PlaceInv, BeginMedia, socketVars
<1>0. joined[d] = 0 /\ ~IsRunning(d)
  BY DEF SetsHold, IsRunning, Running
<1>1. setsMade \in Nat /\ setsMade <= Cardinality(HasJoined)
  BY Finite DEF SetsHold, PlaceTyped, Set
<1>2. HasJoined \union {d} \subseteq Download /\ d \notin HasJoined
  BY <1>0 DEF HasJoined
<1>3. Cardinality(HasJoined \union {d}) = Cardinality(HasJoined) + 1
  BY <1>2, Finite, FS_AddElement
<1>4. Cardinality(HasJoined) + 1 <= Cardinality(Download)
  BY <1>2, <1>3, MediaAssumption, FS_Subset
<1>5. trackedSet' \in Set /\ setsMade' \in Set /\ trackedSet' <= setsMade'
      /\ setsMade <= setsMade' /\ setsMade' <= Cardinality(HasJoined) + 1
  BY <1>1, <1>4, Finite DEF SetsHold, PlaceTyped, Set
<1>6. HasJoined' = HasJoined \union {d} /\ Busying' = Busying \union {d} /\ d \notin Busying
  BY <1>0, <1>5 DEF HasJoined, Busying, IsRunning, Running, PlaceTyped, Set
<1>7. Cardinality(Busying') = Cardinality(Busying) + 1
  BY <1>6, Finite, FS_AddElement
<1>8. PlaceTyped'
  <2>1. downloading' \in 0 .. MaxDownloads
    BY MediaAssumption DEF Busy, PlaceTyped
  <2>2. members' \in [Set -> SUBSET Download] /\ joined' \in [Download -> Set \union {0}]
        /\ since' \in [Download -> 0 .. MaxSockets]
    BY <1>5 DEF PlaceTyped
  <2>3. stage' \in [Download -> Running \union {"none", "over"}]
    BY DEF PlaceTyped, Running
  <2> QED  BY <1>5, <2>1, <2>2, <2>3 DEF PlaceTyped
<1>9. SetsHold'
  <2>1. \A s \in Set : members'[s] = {e \in Busying' : joined'[e] = s}
    BY <1>0, <1>5, <1>6 DEF SetsHold, PlaceTyped, Busying
  <2>2. \A e \in Download : joined'[e] <= setsMade' /\ (stage'[e] = "none" => joined'[e] = 0)
                            /\ (IsRunning(e)' => joined'[e] # 0)
    <3> SUFFICES ASSUME NEW e \in Download
                 PROVE  joined'[e] <= setsMade' /\ (stage'[e] = "none" => joined'[e] = 0)
                        /\ (IsRunning(e)' => joined'[e] # 0)
      OBVIOUS
    <3>1. CASE e = d
      BY <1>5, <3>1 DEF PlaceTyped, Set
    <3>2. CASE e # d
      <4>1. joined'[e] = joined[e] /\ stage'[e] = stage[e]
        BY <3>2 DEF PlaceTyped
      <4> QED  BY <1>1, <1>5, <4>1 DEF SetsHold, PlaceTyped, Set, IsRunning
    <3> QED  BY <3>1, <3>2
  <2> QED  BY <1>3, <1>5, <1>6, <2>1, <2>2 DEF SetsHold
<1>10. PlacesMatchDownloads'
  BY <1>7 DEF PlacesMatchDownloads, Busying
<1>11. ClosureReaches'
  <2> SUFFICES ASSUME NEW e \in Download, IsRunning(e)', e \notin mediaAborted'
               PROVE  /\ trackedSet' # 0 /\ e \in members'[trackedSet']
                      /\ SameSocket(e)' \/ since'[e] \in detached'
    BY DEF ClosureReaches
  <2>1. trackedSet' # 0
    BY <1>5 DEF Set
  <2>2. CASE e = d
    BY <1>5, <2>1, <2>2 DEF SameSocket, PlaceTyped
  <2>3. CASE e # d
    <3>1. IsRunning(e) /\ e \notin mediaAborted
      BY <2>3 DEF IsRunning, PlaceTyped
    <3>2. /\ SameSocket(e) \/ since[e] \in detached
          /\ trackedSet # 0 /\ e \in members[trackedSet]
      BY <3>1 DEF ClosureReaches
    <3>3. trackedSet' = trackedSet /\ since'[e] = since[e]
      BY <2>3, <3>2 DEF PlaceTyped
    <3> QED  BY <1>5, <2>1, <3>2, <3>3 DEF SameSocket, PlaceTyped
  <2> QED  BY <2>2, <2>3
<1> QED  BY <1>8, <1>9, <1>10, <1>11

\* The signal of a download is aborted.
LEMMA TimeoutKeeps == ASSUME PlaceInv, NEW d \in Download, MediaTimeout(d) PROVE PlaceInv'
BY DEF PlaceInv, MediaTimeout, PlaceTyped, SetsHold, PlacesMatchDownloads, ClosureReaches,
       SameSocket, Busying, HasJoined, IsRunning, tracking, socketVars

\* The number of a connection that is lost stays within the bound.
LEMMA LossTyped ==
  ASSUME PlaceTyped, LosesSocket
  PROVE  /\ socketNo' \in 1 .. MaxSockets /\ isOpen' \in BOOLEAN /\ isOpen' = FALSE
         /\ socketNo \in 1 .. MaxSockets
<1>1. socketNo \in 1 .. MaxSockets /\ socketNo < MaxSockets /\ socketNo' = socketNo + 1
  BY DEF PlaceTyped, LosesSocket
<1>2. MaxSockets \in Nat
  BY MediaAssumption
<1>3. socketNo' \in 1 .. MaxSockets
  BY <1>1, <1>2
<1> QED  BY <1>1, <1>3 DEF LosesSocket

\* Whatever runs without having been aborted is in the set that is aborted.
LEMMA CancelKeeps ==
  ASSUME PlaceInv, CancelsMedia, socketNo' \in 1 .. MaxSockets, isOpen' \in BOOLEAN
  PROVE  PlaceInv'
<1> USE DEF PlaceInv, CancelsMedia
<1>1. Busying' = Busying /\ HasJoined' = HasJoined /\ trackedSet' = 0
  BY DEF Busying, HasJoined, IsRunning, NoSet
<1>2. PlaceTyped'
  <2>1. mediaAborted' \subseteq Download /\ detached' \subseteq 1 .. MaxSockets
    BY DEF PlaceTyped
  <2> QED  BY <1>1, <2>1 DEF PlaceTyped
<1>3. SetsHold'
  <2>1. setsMade \in Nat
    BY DEF PlaceTyped, Set
  <2> QED  BY <1>1, <2>1 DEF SetsHold, IsRunning
<1>4. PlacesMatchDownloads'
  BY <1>1 DEF PlacesMatchDownloads, Busying
<1>5. ClosureReaches'
  BY DEF ClosureReaches, IsRunning
<1> QED  BY <1>2, <1>3, <1>4, <1>5

LEMMA CloseKeeps == ASSUME PlaceInv, ClosesMedia PROVE PlaceInv'
BY LossTyped, CancelKeeps DEF PlaceInv, ClosesMedia

LEMMA TellKeeps == ASSUME PlaceInv, TellsClosure PROVE PlaceInv'
BY CancelKeeps DEF PlaceInv, PlaceTyped, TellsClosure

\* A shutdown leaves every download in its set; what loses its connection is accounted for.
LEMMA ShutKeeps == ASSUME PlaceInv, ShutsMedia PROVE PlaceInv'
<1> USE DEF PlaceInv, ShutsMedia, tracking
<1>1. Busying' = Busying /\ HasJoined' = HasJoined
  BY DEF Busying, HasJoined, IsRunning
<1>2. socketNo' \in 1 .. MaxSockets /\ isOpen' \in BOOLEAN /\ socketNo \in 1 .. MaxSockets
  BY LossTyped
<1>3. PlaceTyped'
  BY <1>2 DEF PlaceTyped
<1>4. SetsHold'
  BY <1>1 DEF SetsHold, IsRunning
<1>5. PlacesMatchDownloads'
  BY <1>1 DEF PlacesMatchDownloads, Busying
<1>6. ClosureReaches'
  BY DEF ClosureReaches, SameSocket, IsRunning
<1> QED  BY <1>3, <1>4, <1>5, <1>6

LEMMA ReopenKeeps == ASSUME PlaceInv, Reopens PROVE PlaceInv'
<1> USE DEF PlaceInv, Reopens, tracking
<1>1. Busying' = Busying /\ HasJoined' = HasJoined
  BY DEF Busying, HasJoined, IsRunning
<1>2. ClosureReaches'
  BY DEF ClosureReaches, SameSocket, IsRunning
<1> QED  BY <1>1, <1>2 DEF PlaceTyped, SetsHold, PlacesMatchDownloads, Busying, IsRunning

\* A renewal that is asked for.
LEMMA ExchangeKeeps ==
  ASSUME MediaInv, NEW d \in Download, IsRunning(d), d \notin renewed, NEW to \in Running,
         Exchange(d, to)
  PROVE  MediaInv'
<1> USE DEF MediaInv
<1>1. PlaceInv'
  BY EndKeeps, AdvanceKeeps DEF Exchange
<1>2. RenewInv'
  BY DEF Exchange, RenewInv
<1> QED  BY <1>1, <1>2

LEMMA FailKeeps == ASSUME MediaInv, NEW d \in Download, IsRunning(d), FailMedia(d) PROVE MediaInv'
<1>1. PlaceInv'
  BY EndKeeps DEF MediaInv, FailMedia
<1>2. RenewInv'
  BY DEF MediaInv, RenewInv, FailMedia, renewing
<1> QED  BY <1>1, <1>2 DEF MediaInv

LEMMA StepKeeps == ASSUME MediaInv, NEW d \in Download, MediaStep(d) PROVE MediaInv'
<1>1. CASE ReadStored(d)
  <2>1. IsRunning(d)
    BY <1>1 DEF ReadStored, IsRunning, Running
  <2>2. CASE FailMedia(d)
    BY <2>1, <2>2, FailKeeps
  <2>3. CASE Advance(d, "first") /\ UNCHANGED renewing
    <3>1. PlaceInv'
      BY <2>1, <2>3, AdvanceKeeps DEF MediaInv, Running
    <3> QED  BY <2>3, <3>1 DEF MediaInv, RenewInv, renewing
  <2> QED  BY <1>1, <2>2, <2>3 DEF ReadStored
<1>2. CASE Downloaded(d)
  <2>1. PlaceInv'
    BY <1>2, EndKeeps DEF MediaInv, Downloaded, IsRunning, Running
  <2> QED  BY <1>2, <2>1 DEF MediaInv, RenewInv, Downloaded, renewing
<1>3. CASE ProviderAsksRenewal(d)
  BY <1>3, ExchangeKeeps DEF ProviderAsksRenewal, IsRunning, Running
<1>4. CASE RenewExpired(d)
  BY <1>4, ExchangeKeeps DEF RenewExpired, MayRenew, IsRunning, Running
<1>5. CASE MediaFails(d)
  BY <1>5, FailKeeps DEF MediaFails, IsRunning
<1>6. CASE Renewed(d)
  <2>1. PlaceInv'
    <3>1. CASE stage[d] \in {"asked", "renew"}
      BY <1>6, <3>1, AdvanceKeeps DEF MediaInv, Renewed, IsRunning, Running
    <3>2. CASE stage[d] \notin {"asked", "renew"}
      BY <1>6, <3>2, RestKeeps DEF MediaInv, Renewed, placeVars
    <3> QED  BY <3>1, <3>2
  <2> QED  BY <1>6, <2>1 DEF MediaInv, RenewInv, Renewed
<1>7. CASE RenewalFails(d)
  <2>1. PlaceInv'
    <3>1. CASE stage[d] \in {"asked", "renew"}
      BY <1>7, <3>1, EndKeeps DEF MediaInv, RenewalFails, IsRunning, Running
    <3>2. CASE stage[d] \notin {"asked", "renew"}
      BY <1>7, <3>2, RestKeeps DEF MediaInv, RenewalFails, placeVars
    <3> QED  BY <3>1, <3>2
  <2> QED  BY <1>7, <2>1 DEF MediaInv, RenewInv, RenewalFails, Unlistened
<1> QED  BY <1>1, <1>2, <1>3, <1>4, <1>5, <1>6, <1>7 DEF MediaStep

LEMMA MediaInvNext == MediaInv /\ [MediaNext]_mediaVars => MediaInv'
<1> SUFFICES ASSUME MediaInv, [MediaNext]_mediaVars PROVE MediaInv'
  OBVIOUS
<1>1. ASSUME NEW d \in Download, MediaStep(d) PROVE MediaInv'
  BY <1>1, StepKeeps
<1>2. ASSUME NEW d \in Download, RefuseMedia(d) \/ BeginMedia(d) \/ MediaTimeout(d)
      PROVE  MediaInv'
  <2>1. PlaceInv'
    BY <1>2, RefuseKeeps, BeginKeeps, TimeoutKeeps DEF MediaInv
  <2> QED  BY <1>2, <2>1 DEF MediaInv, RenewInv, RefuseMedia, BeginMedia, MediaTimeout, renewing
<1>3. CASE ClosesMedia \/ ShutsMedia \/ TellsClosure \/ Reopens
  <2>1. PlaceInv'
    BY <1>3, CloseKeeps, ShutKeeps, TellKeeps, ReopenKeeps DEF MediaInv
  <2>2. UNCHANGED renewing
    BY <1>3 DEF ClosesMedia, CancelsMedia, ShutsMedia, TellsClosure, Reopens, renewing
  <2> QED  BY <2>1, <2>2 DEF MediaInv, RenewInv, renewing
<1>4. CASE UNCHANGED mediaVars
  <2>1. PlaceInv'
    BY <1>4, RestKeeps DEF MediaInv, mediaVars, placeVars
  <2> QED  BY <1>4, <2>1 DEF MediaInv, RenewInv, mediaVars, renewing
<1> QED  BY <1>1, <1>2, <1>3, <1>4 DEF MediaNext

LEMMA Always == MediaSpec => []MediaInv
BY MediaInvInit, MediaInvNext, PTL DEF MediaSpec

-----------------------------------------------------------------------------
\* Every variable keeps its type; the number of running downloads stays within the limit.
THEOREM MediaTyped == MediaSpec => []MediaTypeOK
<1>1. MediaInv => MediaTypeOK
  BY DEF MediaInv, PlaceInv, PlaceTyped, RenewInv, MediaTypeOK
<1> QED  BY <1>1, Always, PTL

\* However a download ends, by its result, an error, the deadline or a closure, its place in
\* the budget comes back once.
THEOREM PlacesRight == MediaSpec => []PlacesMatchDownloads
<1>1. MediaInv => PlacesMatchDownloads
  BY DEF MediaInv, PlaceInv
<1> QED  BY <1>1, Always, PTL

\* The next closure that is told aborts every download that runs unaborted, although downloads
\* of earlier connections still run and leave their sets; and a download runs unaborted without
\* the connection it began on only if a shutdown took it and has told nothing since.
THEOREM ClosuresReach == MediaSpec => []ClosureReaches
<1>1. MediaInv => ClosureReaches
  BY DEF MediaInv, PlaceInv
<1> QED  BY <1>1, Always, PTL

\* The sender's phone is asked for a media at most once per download.
THEOREM RenewsOnce == MediaSpec => []RenewedOnce
<1>1. MediaInv => RenewedOnce
  BY DEF MediaInv, RenewInv, RenewedOnce
<1> QED  BY <1>1, Always, PTL

\* All of them, as the invariant MediaSafety.
THEOREM MediaIsSafe == MediaSpec => []MediaSafety
BY MediaTyped, PlacesRight, ClosuresReach, RenewsOnce, PTL DEF MediaSafety

-----------------------------------------------------------------------------
(* Thumbnails: threads and queue *)

LEMMA LeastIs ==
  ASSUME NEW S \in SUBSET Nat, S # {}
  PROVE  Least(S) \in S /\ \A m \in S : Least(S) <= m
BY LeastNumber DEF Least

(* What drain takes from the queue: no more jobs get a thread than there are   *)
(* workers, and it stops only when they are all taken or nothing waits.        *)
LEMMA LeavingRight ==
  ASSUME NEW S, NEW q \in Seq(S), NEW free \in Nat, NEW broken
  PROVE  LET n == Leaving(q, free, broken)
         IN  /\ n \in 0 .. Len(q) /\ Threads(q, n, broken) <= free
             /\ n = Len(q) \/ Threads(q, n, broken) = free
<1> DEFINE Start(k) == {m \in 1 .. k : q[m] \notin broken}
           Whole(k) == Threads(q, k, broken)
           Stops == {k \in 0 .. Len(q) : k = Len(q) \/ Whole(k) = free}
           n == Least(Stops)
           Beyond == {k \in 0 .. Len(q) : Whole(k) > free}
<1>0. Len(q) \in Nat /\ Leaving(q, free, broken) = n
  BY DEF Leaving
<1>s. \A k : Whole(k) = Cardinality(Start(k))
  BY DEF Threads
<1> HIDE DEF Whole
<1>1. \A k \in Nat : IsFiniteSet(Start(k)) /\ Whole(k) \in Nat
  <2> TAKE k \in Nat
  <2>1. IsFiniteSet(1 .. k) /\ Start(k) \in SUBSET (1 .. k)
    BY FS_Interval
  <2>2. IsFiniteSet(Start(k))
    BY <2>1, FS_Subset
  <2> QED  BY <1>s, <2>2, FS_CardinalityType
<1>2. Whole(0) = 0
  <2>1. Start(0) = {}
    OBVIOUS
  <2> QED  BY <1>s, <2>1, FS_EmptySet
<1>3. \A k \in Nat \ {0} : Whole(k) <= Whole(k - 1) + 1
  <2> TAKE k \in Nat \ {0}
  <2>1. Start(k) \subseteq Start(k - 1) \union {k} /\ k - 1 \in Nat
    OBVIOUS
  <2>2. /\ IsFiniteSet(Start(k - 1) \union {k})
        /\ Cardinality(Start(k - 1) \union {k}) <= Whole(k - 1) + 1
    <3>1. k - 1 \in Nat
      OBVIOUS
    <3>2. IsFiniteSet(Start(k - 1)) /\ Whole(k - 1) \in Nat
      BY <1>1, <3>1
    <3> HIDE DEF Start
    <3>3. /\ IsFiniteSet(Start(k - 1) \union {k})
          /\ Cardinality(Start(k - 1) \union {k}) \in {Whole(k - 1), Whole(k - 1) + 1}
      BY <1>s, <3>2, FS_AddElement
    <3> QED  BY <3>2, <3>3
  <2>3. Cardinality(Start(k)) <= Cardinality(Start(k - 1) \union {k})
    <3> HIDE DEF Start
    <3> QED  BY <2>1, <2>2, FS_Subset
  <2>4. Whole(k - 1) \in Nat /\ Whole(k) \in Nat /\ Cardinality(Start(k - 1) \union {k}) \in Nat
    <3>1. k - 1 \in Nat /\ k \in Nat
      OBVIOUS
    <3> HIDE DEF Start
    <3> QED  BY <1>1, <2>2, <3>1, FS_CardinalityType
  <2> HIDE DEF Start
  <2> QED  BY <1>s, <2>2, <2>3, <2>4
<1> HIDE DEF Start
<1>4. n \in Stops /\ \A m \in Stops : n <= m
  <2>1. Stops \in SUBSET Nat /\ Len(q) \in Stops
    BY <1>0
  <2> HIDE DEF Stops
  <2> QED  BY <2>1, LeastIs
<1>5. Whole(n) <= free
  <2>0. /\ n \in 0 .. Len(q) /\ n \in Nat /\ Whole(n) \in Nat
        /\ n = Len(q) \/ Whole(n) = free
    <3> HIDE DEF n
    <3>1. n \in 0 .. Len(q) /\ (n = Len(q) \/ Whole(n) = free)
      BY <1>4
    <3>2. n \in Nat
      BY <1>0, <3>1
    <3> QED  BY <1>1, <3>1, <3>2
  <2> SUFFICES ASSUME n = Len(q), Whole(n) > free PROVE FALSE
    <3> HIDE DEF n
    <3> QED  BY <2>0
  <2>1. Beyond \in SUBSET Nat /\ Beyond # {}
    <3> HIDE DEF n
    <3>1. Len(q) \in 0 .. Len(q) /\ Whole(Len(q)) > free
      BY <1>0
    <3> QED  BY <3>1
  <2>2. PICK k \in Beyond : \A m \in Beyond : k <= m
    <3> HIDE DEF Beyond
    <3> QED  BY <2>1, LeastNumber
  <2> HIDE DEF n
  <2>3. k \in Nat \ {0} /\ k - 1 \in 0 .. Len(q) /\ k - 1 \notin Beyond
    BY <1>0, <1>2, <2>2
  <2>4. Whole(k - 1) = free
    <3>1. Whole(k - 1) <= free /\ Whole(k) > free
      BY <1>1, <2>2, <2>3
    <3>2. Whole(k - 1) \in Nat /\ Whole(k) \in Nat /\ Whole(k) <= Whole(k - 1) + 1
      BY <1>1, <1>3, <2>3
    <3> QED  BY <3>1, <3>2
  <2>5. k - 1 \in Stops
    BY <2>3, <2>4
  <2> QED  BY <1>0, <1>4, <2>2, <2>3, <2>5
<1> QED  BY <1>0, <1>4, <1>5 DEF Whole

\* The jobs that have a thread.
Threaded(workerNow) == {j \in Job : workerNow[j] # "none"}
Held == Threaded(worker)

\* A call that has not been made has no thread and was not cancelled.
Unsubmitted == \A j \in Job : settled[j] = "new" => worker[j] = "none" /\ j \notin cancelled

\* The threads that exist are the ones that are counted.
PoolInv == PoolTypeOK /\ PlacesCounted /\ QueueIsLive /\ Unsubmitted /\ IsFiniteSet(Held)

(* What drain may be given: the places are counted, the queue has live jobs    *)
(* without a thread, and at most one job too many for which there is a place.  *)
Drainable(rest, gave, settledNow, toldNow, workerNow) ==
  /\ rest \in Seq(Job) /\ gave \in {0, 1} /\ activeWorkers \in 0 .. MaxWorkers
  /\ settledNow \in [Job -> {"new", "no", "ok", "failed"}]
  /\ toldNow \in [Job -> {"none", "ok", "failed"}]
  /\ workerNow \in [Job -> {"none", "running", "terminated"}]
  /\ IsFiniteSet(Threaded(workerNow)) /\ Cardinality(Threaded(workerNow)) = activeWorkers - gave
  /\ IsInjective(rest)
  /\ \A j \in ToSet(rest) : settledNow[j] = "no" /\ workerNow[j] = "none" /\ j \notin cancelled'
  /\ cancelled' \subseteq Job
  /\ \A j \in Job : settledNow[j] = "new" => workerNow[j] = "none" /\ j \notin cancelled'
  /\ Len(rest) <= MaxQueued \/ (Len(rest) = MaxQueued + 1 /\ activeWorkers - gave < MaxWorkers)

(* drain leaves everything right when what it is given is right.               *)
LEMMA DrainKeeps ==
  ASSUME NEW rest, NEW gave, NEW settledNow, NEW toldNow, NEW workerNow,
         Drainable(rest, gave, settledNow, toldNow, workerNow),
         Drain(rest, gave, settledNow, toldNow, workerNow)
  PROVE  PoolInv'
<1> USE DEF Drainable
<1> DEFINE H == Threaded(workerNow)
<1>0. /\ rest \in Seq(Job) /\ Len(rest) \in Nat /\ DOMAIN rest = 1 .. Len(rest)
      /\ \A i \in 1 .. Len(rest) : rest[i] \in Job
  OBVIOUS
<1>1. /\ MaxWorkers \in Nat /\ MaxQueued \in Nat /\ activeWorkers \in Int
      /\ IsFiniteSet(H) /\ Cardinality(H) = activeWorkers - gave
      /\ FreeWorkers(gave) \in Nat /\ FreeWorkers(gave) = MaxWorkers - Cardinality(H)
      /\ Cardinality(H) \in Nat
  <2>1. IsFiniteSet(H) /\ Cardinality(H) = activeWorkers - gave
    OBVIOUS
  <2>2. Cardinality(H) \in Nat
    <3> HIDE DEF H
    <3> QED  BY <2>1, FS_CardinalityType
  <2> HIDE DEF H
  <2> QED  BY <2>1, <2>2, PoolAssumption DEF FreeWorkers
<1>2. PICK broken \in SUBSET ToSet(rest) :
        LET n == Leaving(rest, FreeWorkers(gave), broken)
            out == {rest[m] : m \in 1 .. n}
            started == out \ broken
        IN  /\ broken \subseteq out
            /\ jobQueue' = SubSeq(rest, n + 1, Len(rest))
            /\ activeWorkers' = activeWorkers - gave + Cardinality(started)
            /\ worker' = [j \in Job |-> IF j \in started THEN "running" ELSE workerNow[j]]
            /\ settled' = [j \in Job |-> IF j \in broken THEN "failed" ELSE settledNow[j]]
            /\ told' = [j \in Job |-> IF j \in broken THEN "failed" ELSE toldNow[j]]
  BY DEF Drain
<1> DEFINE n == Leaving(rest, FreeWorkers(gave), broken)
           out == {rest[m] : m \in 1 .. n}
           started == out \ broken
           Start == {m \in 1 .. n : rest[m] \notin broken}
<1>3. /\ n \in 0 .. Len(rest) /\ Threads(rest, n, broken) <= FreeWorkers(gave)
      /\ n = Len(rest) \/ Threads(rest, n, broken) = FreeWorkers(gave)
  BY <1>1, LeavingRight
<1> HIDE DEF n
<1>s. Threads(rest, n, broken) = Cardinality(Start)
  BY DEF Threads
<1>a. n \in Nat /\ n <= Len(rest)
  <2>1. \A a \in Nat : \A i \in 0 .. a : i \in Nat /\ i <= a
    OBVIOUS
  <2> QED  BY <1>0, <1>3, <2>1
<1>4. /\ out \subseteq ToSet(rest) /\ out \subseteq Job
      /\ IsFiniteSet(started) /\ Cardinality(started) = Cardinality(Start)
  <2>1. out \subseteq ToSet(rest) /\ out \subseteq Job
    BY <1>0, <1>a DEF ToSet
  <2>2. IsFiniteSet(Start)
    <3>1. IsFiniteSet(1 .. n) /\ Start \in SUBSET (1 .. n)
      BY <1>3, FS_Interval
    <3> HIDE DEF Start
    <3> QED  BY <3>1, FS_Subset
  <2> DEFINE f == [m \in Start |-> rest[m]]
  <2>3. f \in Bijection(Start, started)
    BY <1>0, <1>a DEF Bijection, Injection, Surjection, IsInjective
  <2>4. ExistsBijection(Start, started)
    <3> HIDE DEF f, Start, started
    <3> QED  BY <2>3 DEF ExistsBijection
  <2> HIDE DEF Start, started
  <2> QED  BY <2>1, <2>2, <2>4, FS_Bijection
<1> HIDE DEF Start
<1>5. /\ Held' = H \union started /\ IsFiniteSet(Held')
      /\ Cardinality(Held') = Cardinality(H) + Cardinality(started)
  <2>1. Held' = H \union started
    BY <1>2, <1>4 DEF Held, Threaded, n
  <2>2. H \intersect started = {}
    BY <1>4 DEF Threaded
  <2>3. IsFiniteSet(H) /\ IsFiniteSet(started) /\ IsFiniteSet(H \intersect started)
        /\ Cardinality(H \intersect started) = 0
    BY <1>1, <1>4, <2>2, FS_EmptySet
  <2> HIDE DEF H, started
  <2>4. /\ IsFiniteSet(H \union started)
        /\ Cardinality(H \union started)
             = Cardinality(H) + Cardinality(started) - Cardinality(H \intersect started)
    BY <2>3, FS_Union
  <2>5. Cardinality(H) \in Nat /\ Cardinality(started) \in Nat
    BY <2>3, FS_CardinalityType
  <2> QED  BY <2>1, <2>3, <2>4, <2>5
<1>6. /\ jobQueue' = SubSeq(rest, n + 1, Len(rest))
      /\ activeWorkers' = activeWorkers - gave + Cardinality(started)
      /\ worker' = [j \in Job |-> IF j \in started THEN "running" ELSE workerNow[j]]
      /\ settled' = [j \in Job |-> IF j \in broken THEN "failed" ELSE settledNow[j]]
      /\ told' = [j \in Job |-> IF j \in broken THEN "failed" ELSE toldNow[j]]
      /\ broken \subseteq out
  BY <1>2 DEF n
<1>7. /\ jobQueue' \in Seq(Job) /\ Len(jobQueue') = Len(rest) - n
      /\ \A i \in 1 .. Len(rest) - n : jobQueue'[i] = rest[n + i]
  <2> HIDE DEF Drainable
  <2>1. n + 1 \in Int /\ Len(rest) \in Int /\ \A i \in n + 1 .. Len(rest) : rest[i] \in Job
    BY <1>0, <1>a
  <2>2. /\ jobQueue' \in Seq(Job)
        /\ Len(jobQueue') = IF n + 1 <= Len(rest) THEN Len(rest) - (n + 1) + 1 ELSE 0
        /\ \A i \in 1 .. Len(rest) - (n + 1) + 1 : jobQueue'[i] = rest[(n + 1) + i - 1]
    BY <1>0, <1>6, <2>1, SubSeqProperties
  <2>3. n \in Int /\ Len(rest) \in Int /\ n <= Len(rest)
    BY <1>0, <1>a
  <2>4. Len(rest) - (n + 1) + 1 = Len(rest) - n /\ (n + 1 <= Len(rest) \/ Len(rest) - n = 0)
    BY <2>3
  <2>5. \A i \in 1 .. Len(rest) - n : (n + 1) + i - 1 = n + i
    BY <2>3
  <2> QED  BY <2>2, <2>3, <2>4, <2>5
<1>8. /\ activeWorkers' = Cardinality(Held') /\ activeWorkers' \in 0 .. MaxWorkers
      /\ n = Len(rest) \/ activeWorkers' = MaxWorkers
  <2>1. Cardinality(started) \in Nat
    <3> HIDE DEF started
    <3> QED  BY <1>4, FS_CardinalityType
  <2> HIDE DEF H, started
  <2> QED  BY <1>s, <1>1, <1>3, <1>4, <1>5, <1>6, <2>1
<1>9. PoolTypeOK'
  BY <1>6, <1>7, <1>8 DEF PoolTypeOK
<1>10. PlacesCounted'
  <2>1. jobQueue' # <<>> => activeWorkers' = MaxWorkers
    <3>1. n = Len(rest) => Len(jobQueue') = 0
      BY <1>0, <1>a, <1>7
    <3>2. Len(jobQueue') = 0 => jobQueue' = <<>>
      BY <1>7
    <3> QED  BY <1>8, <3>1, <3>2
  <2>2. Len(jobQueue') <= MaxQueued
    <3>1. CASE Len(rest) <= MaxQueued
      <4>1. \A a, b, c \in Nat : a <= b => a - c <= b
        OBVIOUS
      <4>2. Len(rest) \in Nat /\ Len(jobQueue') = Len(rest) - n
        BY <1>0, <1>7
      <4>3. Len(rest) - n <= MaxQueued
        BY <1>a, <3>1, <4>1, <4>2, PoolAssumption, Zenon
      <4> QED  BY <4>2, <4>3, Zenon
    <3>2. CASE Len(rest) = MaxQueued + 1 /\ activeWorkers - gave < MaxWorkers
      <4>1. n # 0
        <5>1. n = 0 => Start = {}
          BY DEF Start
        <5>2. n = 0 => Cardinality(Start) = 0
          BY <1>s, <5>1, FS_EmptySet
        <5>3. FreeWorkers(gave) # 0
          BY <1>1, <3>2
        <5>4. n = 0 => n # Len(rest)
          BY <3>2, PoolAssumption
        <5> QED  BY <1>3, <1>s, <5>2, <5>3, <5>4
      <4> QED  BY <1>0, <1>1, <1>a, <1>7, <3>2, <4>1
    <3> QED  BY <3>1, <3>2
  <2> QED  BY <1>8, <2>1, <2>2 DEF PlacesCounted, Held, Threaded
<1>11. QueueIsLive'
  <2>0. DOMAIN jobQueue' = 1 .. Len(rest) - n
    BY <1>7
  <2>1. \A i \in 1 .. Len(rest) - n : n + i \in 1 .. Len(rest) /\ n + i \notin 1 .. n
    BY <1>0, <1>a
  <2>2. IsInjective(jobQueue')
    <3> SUFFICES ASSUME NEW a \in 1 .. Len(rest) - n, NEW b \in 1 .. Len(rest) - n,
                        jobQueue'[a] = jobQueue'[b]
                 PROVE  a = b
      BY <2>0 DEF IsInjective
    <3>1. n + a = n + b
      BY <1>0, <1>7, <2>1 DEF IsInjective
    <3> QED  BY <1>3, <3>1
  <2>3. ASSUME NEW j \in ToSet(jobQueue')
        PROVE  j \in ToSet(rest) /\ j \notin out
    <3>1. PICK i \in 1 .. Len(rest) - n : j = rest[n + i]
      BY <1>7, <2>0, <2>3 DEF ToSet
    <3>2. j \in ToSet(rest)
      BY <1>0, <2>1, <3>1 DEF ToSet
    <3>3. \A m \in 1 .. n : m \in 1 .. Len(rest) /\ m # n + i
      BY <1>0, <1>a, <2>1
    <3>4. \A m \in 1 .. n : rest[m] # rest[n + i]
      BY <1>0, <2>1, <3>3 DEF IsInjective
    <3> QED  BY <3>1, <3>2, <3>4
  <2>4. ToSet(rest) \subseteq Job
    BY <1>0 DEF ToSet
  <2> QED  BY <1>6, <2>2, <2>3, <2>4 DEF QueueIsLive
<1>12. Unsubmitted'
  BY <1>4, <1>6 DEF Unsubmitted
<1> QED  BY <1>5, <1>9, <1>10, <1>11, <1>12 DEF PoolInv
LEMMA PoolFacts ==
  ASSUME PoolInv
  PROVE  /\ jobQueue \in Seq(Job) /\ IsInjective(jobQueue) /\ activeWorkers \in 0 .. MaxWorkers
         /\ activeWorkers \in Nat /\ Len(jobQueue) \in Nat /\ Len(jobQueue) <= MaxQueued
         /\ worker \in [Job -> {"none", "running", "terminated"}]
         /\ settled \in [Job -> {"new", "no", "ok", "failed"}]
         /\ told \in [Job -> {"none", "ok", "failed"}]
         /\ cancelled \subseteq Job
         /\ \A j \in ToSet(jobQueue) : settled[j] = "no" /\ worker[j] = "none" /\ j \notin cancelled
         /\ IsFiniteSet(Held) /\ Cardinality(Held) = activeWorkers
<1>1. activeWorkers \in 0 .. MaxWorkers /\ MaxWorkers \in Nat
  BY PoolAssumption DEF PoolInv, PoolTypeOK
<1>2. activeWorkers \in Nat
  BY <1>1
<1> QED  BY <1>1, <1>2 DEF PoolInv, PoolTypeOK, PlacesCounted, QueueIsLive, Held, Threaded

LEMMA SubmitKeeps == ASSUME PoolInv, NEW j \in Job, Submit(j) PROVE PoolInv'
<1> DEFINE rest == Append(jobQueue, j)
           now == [settled EXCEPT ![j] = "no"]
<1>1. /\ settled[j] = "new" /\ cancelled' = cancelled
      /\ activeWorkers < MaxWorkers \/ Len(jobQueue) < MaxQueued
      /\ Drain(rest, 0, now, told, worker)
  BY DEF Submit
<1>2. j \notin ToSet(jobQueue) /\ j \notin cancelled /\ worker[j] = "none"
  BY <1>1, PoolFacts DEF PoolInv, Unsubmitted
<1>3. /\ rest \in Seq(Job) /\ IsInjective(rest) /\ Len(rest) = Len(jobQueue) + 1
      /\ ToSet(rest) = ToSet(jobQueue) \union {j}
  BY <1>2, PoolFacts, Appended
<1>4. Len(rest) <= MaxQueued \/ (Len(rest) = MaxQueued + 1 /\ activeWorkers - 0 < MaxWorkers)
  <2>1. MaxQueued \in Nat /\ Len(jobQueue) \in Nat /\ activeWorkers \in Nat
        /\ Len(jobQueue) <= MaxQueued
    BY PoolFacts, PoolAssumption
  <2> HIDE DEF rest
  <2> QED  BY <1>1, <1>3, <2>1
<1>5. now \in [Job -> {"new", "no", "ok", "failed"}]
  BY PoolFacts
<1>6. \A k \in ToSet(rest) : now[k] = "no" /\ worker[k] = "none" /\ k \notin cancelled'
  <2>1. \A k \in ToSet(jobQueue) : k \in Job
    BY PoolFacts DEF ToSet
  <2> HIDE DEF rest
  <2> QED  BY <1>1, <1>2, <1>3, <2>1, PoolFacts
<1>7. IsFiniteSet(Threaded(worker)) /\ Cardinality(Threaded(worker)) = activeWorkers - 0
  BY PoolFacts DEF Held, Threaded
<1>8. \A k \in Job : now[k] = "new" => worker[k] = "none" /\ k \notin cancelled'
  BY <1>1, PoolFacts DEF PoolInv, Unsubmitted
<1> HIDE DEF rest, now
<1>9. Drainable(rest, 0, now, told, worker)
  BY <1>1, <1>3, <1>4, <1>5, <1>6, <1>7, <1>8, PoolFacts DEF Drainable
<1> QED  BY <1>1, <1>9, DrainKeeps

(* finish with an error. *)
LEMMA JobFailKeeps ==
  ASSUME PoolInv, NEW j \in Job, settled[j] = "no", Fail(j),
         cancelled' = cancelled \/ cancelled' = cancelled \union {j}
  PROVE  PoolInv'
<1> DEFINE rest == Without(jobQueue, j)
           now == [settled EXCEPT ![j] = "failed"]
           then == [worker EXCEPT ![j] = IF @ = "running" THEN "terminated" ELSE @]
<1>1. Drain(rest, 0, now, Rejected(j), then)
  BY DEF Fail, PlacesBack
<1>2. /\ rest \in Seq(Job) /\ IsInjective(rest) /\ ToSet(rest) = ToSet(jobQueue) \ {j}
      /\ Len(rest) <= Len(jobQueue)
  BY PoolFacts, Removed DEF Without
<1>3. Len(rest) <= MaxQueued
  <2>1. MaxQueued \in Nat /\ Len(jobQueue) \in Nat /\ Len(rest) \in Nat
        /\ Len(jobQueue) <= MaxQueued
    BY <1>2, PoolFacts, PoolAssumption
  <2> HIDE DEF rest
  <2> QED  BY <1>2, <2>1
<1>4. /\ now \in [Job -> {"new", "no", "ok", "failed"}]
      /\ then \in [Job -> {"none", "running", "terminated"}]
      /\ Rejected(j) \in [Job -> {"none", "ok", "failed"}]
  BY PoolFacts DEF Rejected
<1>5. \A k \in ToSet(rest) : now[k] = "no" /\ then[k] = "none" /\ k \notin cancelled'
  <2>1. \A k \in ToSet(jobQueue) : k \in Job
    BY PoolFacts DEF ToSet
  <2> HIDE DEF rest
  <2> QED  BY <1>2, <2>1, PoolFacts
<1>6. IsFiniteSet(Threaded(then)) /\ Cardinality(Threaded(then)) = activeWorkers - 0
  <2>1. Threaded(then) = Held
    BY PoolFacts DEF Held, Threaded
  <2> HIDE DEF then
  <2> QED  BY <2>1, PoolFacts
<1>7. cancelled' \subseteq Job
  BY PoolFacts
<1>8. \A k \in Job : now[k] = "new" => then[k] = "none" /\ k \notin cancelled'
  BY PoolFacts DEF PoolInv, Unsubmitted
<1> HIDE DEF rest, now, then
<1>9. Drainable(rest, 0, now, Rejected(j), then)
  BY <1>1, <1>2, <1>3, <1>4, <1>5, <1>6, <1>7, <1>8, PoolFacts DEF Drainable
<1> QED  BY <1>1, <1>9, DrainKeeps

LEMMA DecodedKeeps == ASSUME PoolInv, NEW j \in Job, Decoded(j) PROVE PoolInv'
<1> DEFINE now == [settled EXCEPT ![j] = "ok"]
           then == [worker EXCEPT ![j] = "terminated"]
<1>1. /\ settled[j] = "no" /\ worker[j] = "running" /\ cancelled' = cancelled
      /\ Drain(jobQueue, 0, now, told, then)
  BY DEF Decoded, PlacesBack
<1>2. /\ now \in [Job -> {"new", "no", "ok", "failed"}]
      /\ then \in [Job -> {"none", "running", "terminated"}]
  BY PoolFacts
<1>3. \A k \in ToSet(jobQueue) : now[k] = "no" /\ then[k] = "none" /\ k \notin cancelled'
  <2>1. \A k \in ToSet(jobQueue) : k \in Job /\ k # j
    BY <1>1, PoolFacts DEF ToSet
  <2> QED  BY <1>1, <2>1, PoolFacts
<1>4. IsFiniteSet(Threaded(then)) /\ Cardinality(Threaded(then)) = activeWorkers - 0
  <2>1. Threaded(then) = Held
    BY <1>1, PoolFacts DEF Held, Threaded
  <2> HIDE DEF then
  <2> QED  BY <2>1, PoolFacts
<1>5. cancelled' \subseteq Job
  BY <1>1, PoolFacts
<1>8. \A k \in Job : now[k] = "new" => then[k] = "none" /\ k \notin cancelled'
  BY <1>1, PoolFacts DEF PoolInv, Unsubmitted
<1> HIDE DEF now, then
<1>9. Drainable(jobQueue, 0, now, told, then)
  BY <1>1, <1>2, <1>3, <1>4, <1>5, <1>8, PoolFacts DEF Drainable
<1> QED  BY <1>1, <1>9, DrainKeeps

LEMMA ExitKeeps == ASSUME PoolInv, NEW j \in Job, WorkerExits(j) PROVE PoolInv'
<1> DEFINE now == [settled EXCEPT ![j] = IF @ = "no" THEN "failed" ELSE @]
           toldNow == [told EXCEPT ![j] = IF @ # "none" THEN @
                         ELSE IF settled[j] = "ok" THEN Outcome(j) ELSE "failed"]
           then == [worker EXCEPT ![j] = "none"]
<1>1. /\ worker[j] # "none" /\ cancelled' = cancelled
      /\ Drain(jobQueue, 1, now, toldNow, then)
  BY DEF WorkerExits
<1>2. /\ now \in [Job -> {"new", "no", "ok", "failed"}]
      /\ then \in [Job -> {"none", "running", "terminated"}]
      /\ toldNow \in [Job -> {"none", "ok", "failed"}]
  BY PoolFacts DEF Outcome
<1>3. \A k \in ToSet(jobQueue) : now[k] = "no" /\ then[k] = "none" /\ k \notin cancelled'
  <2>1. \A k \in ToSet(jobQueue) : k \in Job /\ k # j
    BY <1>1, PoolFacts DEF ToSet
  <2> QED  BY <1>1, <2>1, PoolFacts
<1>4. IsFiniteSet(Threaded(then)) /\ Cardinality(Threaded(then)) = activeWorkers - 1
  <2>1. Threaded(then) = Held \ {j} /\ j \in Held
    BY <1>1, PoolFacts DEF Held, Threaded
  <2>2. IsFiniteSet(Held \ {j}) /\ Cardinality(Held \ {j}) = Cardinality(Held) - 1
    BY <2>1, PoolFacts, FS_RemoveElement
  <2> HIDE DEF then
  <2> QED  BY <2>1, <2>2, PoolFacts
<1>5. cancelled' \subseteq Job
  BY <1>1, PoolFacts
<1>8. \A k \in Job : now[k] = "new" => then[k] = "none" /\ k \notin cancelled'
  BY <1>1, PoolFacts DEF PoolInv, Unsubmitted
<1> HIDE DEF now, then, toldNow
<1>9. Drainable(jobQueue, 1, now, toldNow, then)
  BY <1>1, <1>2, <1>3, <1>4, <1>5, <1>8, PoolFacts DEF Drainable
<1> QED  BY <1>1, <1>9, DrainKeeps

LEMMA JobRestKeeps ==
  ASSUME PoolInv, UNCHANGED <<jobQueue, activeWorkers, worker>>, PoolTypeOK',
         \A j \in ToSet(jobQueue) : settled'[j] = settled[j] /\ (j \in cancelled' => j \in cancelled),
         Unsubmitted'
  PROVE  PoolInv'
<1>1. PlacesCounted' /\ IsFiniteSet(Held)'
  BY DEF PoolInv, PlacesCounted, Held, Threaded
<1>2. QueueIsLive'
  BY DEF PoolInv, QueueIsLive
<1> QED  BY <1>1, <1>2 DEF PoolInv
LEMMA PoolInvInit == PoolInit => PoolInv
<1> SUFFICES ASSUME PoolInit PROVE PoolInv
  OBVIOUS
<1>1. Held = {} /\ IsFiniteSet(Held) /\ Cardinality(Held) = 0
  BY FS_EmptySet DEF PoolInit, Held, Threaded
<1>2. PoolTypeOK
  BY PoolAssumption DEF PoolInit, PoolTypeOK
<1>3. jobQueue = <<>> /\ Len(jobQueue) = 0 /\ ToSet(jobQueue) = {} /\ IsInjective(jobQueue)
  BY DEF PoolInit, ToSet, IsInjective
<1>4. PlacesCounted
  BY <1>1, <1>3, PoolAssumption DEF PoolInit, PlacesCounted, Held, Threaded
<1> QED  BY <1>1, <1>2, <1>3, <1>4 DEF PoolInit, PoolInv, QueueIsLive, Unsubmitted

LEMMA PoolInvNext == PoolInv /\ [PoolNext]_poolVars => PoolInv'
<1> SUFFICES ASSUME PoolInv, [PoolNext]_poolVars PROVE PoolInv'
  OBVIOUS
<1>1. CASE UNCHANGED poolVars
  <2>1. PoolTypeOK' /\ Unsubmitted'
    BY <1>1 DEF poolVars, PoolInv, PoolTypeOK, Unsubmitted
  <2> QED  BY <1>1, <2>1, JobRestKeeps DEF poolVars
<1>2. ASSUME NEW j \in Job, Reject(j) PROVE PoolInv'
  <2>1. PoolTypeOK' /\ Unsubmitted'
    BY <1>2, PoolFacts DEF Reject, PoolInv, PoolTypeOK, Unsubmitted
  <2>2. \A k \in ToSet(jobQueue) : settled'[k] = settled[k]
    BY <1>2, PoolFacts DEF Reject, ToSet
  <2> QED  BY <1>2, <2>1, <2>2, JobRestKeeps DEF Reject
<1>3. ASSUME NEW j \in Job, Undecodable(j) \/ Deadline(j) PROVE PoolInv'
  BY <1>3, JobFailKeeps DEF Undecodable, Deadline
<1>4. ASSUME NEW j \in Job, Cancel(j) PROVE PoolInv'
  <2>1. CASE settled[j] = "no"
    BY <1>4, <2>1, JobFailKeeps DEF Cancel
  <2>2. CASE settled[j] # "no"
    <3>1. PoolTypeOK' /\ Unsubmitted'
      BY <1>4, <2>2, PoolFacts DEF Cancel, PoolInv, PoolTypeOK, Unsubmitted
    <3>2. \A k \in ToSet(jobQueue) : settled'[k] = settled[k] /\ (k \in cancelled' => k \in cancelled)
      BY <1>4, <2>2, PoolFacts DEF Cancel
    <3>3. UNCHANGED <<jobQueue, activeWorkers, worker>>
      BY <1>4, <2>2 DEF Cancel
    <3> QED  BY <3>1, <3>2, <3>3, JobRestKeeps
  <2> QED  BY <2>1, <2>2
<1> QED
  BY <1>1, <1>2, <1>3, <1>4, SubmitKeeps, DecodedKeeps, ExitKeeps DEF PoolNext, JobStep

LEMMA AlwaysPool == PoolSpec => []PoolInv
BY PoolInvInit, PoolInvNext, PTL DEF PoolSpec

(* Threads that still have to exit count, the queue holds what is wanted, and  *)
(* a call cancelled before its answer gets no thumbnail - for any jobs, in     *)
(* whatever order answers, errors, exits, deadlines and cancellations come.    *)
THEOREM PoolIsSafe == PoolSpec => PoolSafety
<1>1. PoolInv => PoolTypeOK /\ PlacesCounted /\ QueueIsLive
  BY DEF PoolInv
<1>2. PoolInv /\ [PoolNext]_poolVars
        => [\A j \in cancelled : told'[j] = "ok" => told[j] = "ok"]_poolVars
  <2> SUFFICES ASSUME PoolInv, PoolNext, NEW j \in cancelled, told'[j] = "ok", told[j] # "ok"
               PROVE  FALSE
    BY DEF poolVars
  <2>0. j \in Job
    BY PoolFacts
  <2>1. PICK i \in Job : JobStep(i)
    BY DEF PoolNext
  <2>2. ASSUME NEW rest, NEW gave, NEW settledNow, NEW toldNow, NEW workerNow,
               Drain(rest, gave, settledNow, toldNow, workerNow)
        PROVE  toldNow[j] = "ok"
    BY <2>0, <2>2 DEF Drain
  <2>3. ASSUME Fail(i) PROVE FALSE
    <3>1. Rejected(i)[j] = "ok"
      BY <2>2, <2>3 DEF Fail
    <3> QED  BY <2>0, <3>1, PoolFacts DEF Rejected
  <2>4. CASE WorkerExits(i)
    <3>1. [told EXCEPT ![i] = IF @ # "none" THEN @
                 ELSE IF settled[i] = "ok" THEN Outcome(i) ELSE "failed"][j] = "ok"
      BY <2>2, <2>4 DEF WorkerExits
    <3> QED  BY <2>0, <3>1, PoolFacts DEF Outcome
  <2>5. CASE Submit(i) \/ Decoded(i)
    BY <2>2, <2>5 DEF Submit, Decoded
  <2>6. CASE Reject(i)
    BY <2>0, <2>6, PoolFacts DEF Reject
  <2>7. CASE Undecodable(i) \/ Deadline(i) \/ Cancel(i)
    BY <2>3, <2>7 DEF Undecodable, Deadline, Cancel
  <2> QED  BY <2>1, <2>4, <2>5, <2>6, <2>7 DEF JobStep
<1> QED  BY <1>1, <1>2, AlwaysPool, PTL DEF PoolSpec, PoolSafety, NoLateThumbnail

-----------------------------------------------------------------------------
(* The cache *)

\* Every entry has a number of its own.
Dated ==
  /\ \A x, y \in Entries : cache[x] = cache[y] => x = y
  /\ \A x \in Entries : cache[x] <= inserted

CacheInv ==
  /\ cache \in [Link -> Nat] /\ inserted \in Nat
  /\ Dated /\ IsFiniteSet(Entries) /\ CacheBounded

(* The n youngest are no more than n. *)
LEMMA FewYoungest ==
  ASSUME CacheInv, NEW S \in SUBSET Entries, NEW n \in Nat
  PROVE  IsFiniteSet(Youngest(S, n)) /\ Cardinality(Youngest(S, n)) <= n
<1> DEFINE Later(x) == {y \in S : cache[x] < cache[y]}
           Y == Youngest(S, n)
           f == [x \in Y |-> Cardinality(Later(x))]
<1>1. IsFiniteSet(S) /\ S \subseteq Link
  <2>1. Entries \subseteq Link
    BY DEF Entries
  <2> QED  BY <2>1, FS_Subset DEF CacheInv
<1>2. \A x : IsFiniteSet(Later(x)) /\ Cardinality(Later(x)) \in Nat
  <2> TAKE x
  <2>1. Later(x) \in SUBSET S
    OBVIOUS
  <2> HIDE DEF Later
  <2> QED  BY <1>1, <2>1, FS_Subset, FS_CardinalityType
<1>3. Y \subseteq S /\ \A x \in Y : Cardinality(Later(x)) < n
  BY DEF Youngest
<1> HIDE DEF Y
<1>4. ASSUME NEW x \in Y, NEW z \in Y, cache[x] < cache[z]
      PROVE  Cardinality(Later(x)) # Cardinality(Later(z))
  <2>1. Later(z) \in SUBSET Later(x) /\ z \in Later(x) /\ z \notin Later(z)
    <3>1. cache[x] \in Nat /\ cache[z] \in Nat /\ \A y \in S : cache[y] \in Nat
      BY <1>1, <1>3 DEF CacheInv
    <3> QED  BY <1>3, <1>4, <3>1
  <2> HIDE DEF Later
  <2> QED  BY <1>2, <2>1, FS_Subset
<1>5. ASSUME NEW x \in Y, NEW z \in Y, f[x] = f[z] PROVE x = z
  <2>1. cache[x] \in Nat /\ cache[z] \in Nat /\ x \in Entries /\ z \in Entries
    BY <1>1, <1>3 DEF CacheInv
  <2>2. f[x] = Cardinality(Later(x)) /\ f[z] = Cardinality(Later(z))
    OBVIOUS
  <2> HIDE DEF f, Later
  <2>3. ~(cache[x] < cache[z]) /\ ~(cache[z] < cache[x])
    BY <1>4, <1>5, <2>2
  <2>4. cache[x] = cache[z]
    BY <2>1, <2>3
  <2> QED  BY <2>1, <2>4 DEF CacheInv, Dated
<1>6. f \in [Y -> 0 .. n - 1]
  <2>1. \A x \in Y : Cardinality(Later(x)) \in 0 .. n - 1
    <3> HIDE DEF Later
    <3> QED  BY <1>2, <1>3
  <2> HIDE DEF Later
  <2> QED  BY <2>1
<1>7. f \in Injection(Y, 0 .. n - 1)
  <2> HIDE DEF f
  <2> QED  BY <1>5, <1>6 DEF Injection, IsInjective
<1>8. IsFiniteSet(0 .. n - 1) /\ Cardinality(0 .. n - 1) = n
  BY FS_Interval
<1> HIDE DEF f
<1> QED  BY <1>7, <1>8, FS_Injection DEF Y

LEMMA EntriesFinite ==
  ASSUME CacheInv
  PROVE  /\ \A c : EntriesOf(c) \subseteq Entries /\ IsFiniteSet(EntriesOf(c))
         /\ Entries \subseteq Link
         /\ MaxEntries \in Nat \ {0} /\ MaxEntriesPerConnection \in Nat \ {0}
<1>1. \A c : EntriesOf(c) \subseteq Entries
  BY DEF EntriesOf
<1>2. \A c : IsFiniteSet(EntriesOf(c))
  BY <1>1, Fewer DEF CacheInv
<1> QED  BY <1>1, <1>2, PreviewAssumption DEF Entries

(* An entry of a link is taken away, or none is there. *)
LEMMA ForgetKeeps ==
  ASSUME CacheInv, NEW l \in Link, cache' = [cache EXCEPT ![l] = 0], inserted' = inserted
  PROVE  CacheInv'
<1>0. MaxEntries \in Nat /\ MaxEntriesPerConnection \in Nat
  BY PreviewAssumption
<1>1. Entries' = Entries \ {l} /\ \A x \in Entries' : cache'[x] = cache[x]
  BY DEF Entries, CacheInv
<1>2. IsFiniteSet(Entries') /\ Cardinality(Entries') <= MaxEntries
  BY <1>0, <1>1, Fewer DEF CacheInv, CacheBounded
<1>3. \A k \in Link : Cardinality(EntriesOf(ConnectionOf(k)))' <= MaxEntriesPerConnection
  <2> TAKE k \in Link
  <2>1. EntriesOf(ConnectionOf(k))' \subseteq EntriesOf(ConnectionOf(k))
    BY <1>1 DEF EntriesOf
  <2>2. /\ IsFiniteSet(EntriesOf(ConnectionOf(k)))
        /\ Cardinality(EntriesOf(ConnectionOf(k))) <= MaxEntriesPerConnection
    BY EntriesFinite DEF CacheInv, CacheBounded
  <2> QED  BY <1>0, <2>1, <2>2, Fewer
<1>4. cache' \in [Link -> Nat]
  BY DEF CacheInv
<1> QED  BY <1>1, <1>2, <1>3, <1>4 DEF CacheInv, CacheBounded, Dated

(* An entry becomes the youngest, among entries that are there and others that go. *)
LEMMA SetKeeps ==
  ASSUME CacheInv, NEW l \in Link, NEW left \in SUBSET (Entries \ {l}),
         inserted' = inserted + 1,
         cache' = [x \in Link |-> IF x = l THEN inserted'
                                  ELSE IF x \in left THEN cache[x] ELSE 0]
  PROVE  /\ Entries' = left \union {l} /\ IsFiniteSet(Entries')
         /\ cache' \in [Link -> Nat] /\ inserted' \in Nat /\ Dated'
<1>1. cache' \in [Link -> Nat] /\ inserted' \in Nat /\ inserted' # 0 /\ inserted < inserted'
  BY DEF CacheInv
<1>2. left \subseteq Link /\ l \notin left /\ \A x \in left : cache[x] \in Nat /\ cache[x] # 0
  BY DEF Entries, CacheInv
<1>3. /\ cache'[l] = inserted' /\ \A x \in left : cache'[x] = cache[x]
      /\ \A x \in Link : x # l /\ x \notin left => cache'[x] = 0
  BY <1>1, <1>2
<1>4. Entries' = left \union {l}
  BY <1>1, <1>2, <1>3 DEF Entries
<1>5. IsFiniteSet(Entries')
  <2>1. IsFiniteSet(left)
    BY FS_Subset DEF CacheInv
  <2> QED  BY <1>4, <2>1, FS_AddElement
<1>6. \A x \in left : cache[x] <= inserted /\ cache[x] < inserted'
  BY <1>1, <1>2 DEF CacheInv, Dated
<1>7. Dated'
  <2>1. \A x \in Entries' : cache'[x] <= inserted'
    BY <1>1, <1>2, <1>3, <1>4, <1>6
  <2>2. \A x, y \in Entries' : cache'[x] = cache'[y] => x = y
    BY <1>1, <1>2, <1>3, <1>4, <1>6 DEF CacheInv, Dated
  <2> QED  BY <2>1, <2>2 DEF Dated
<1> QED  BY <1>1, <1>4, <1>5, <1>7

(* An entry that is found becomes the youngest. *)
LEMMA FoundKeeps ==
  ASSUME CacheInv, NEW l \in Entries, inserted' = inserted + 1,
         cache' = [cache EXCEPT ![l] = inserted']
  PROVE  CacheInv'
<1>1. l \in Link /\ (Entries \ {l}) \union {l} = Entries
  BY DEF Entries
<1>2. cache' = [x \in Link |-> IF x = l THEN inserted'
                               ELSE IF x \in Entries \ {l} THEN cache[x] ELSE 0]
  BY <1>1 DEF Entries, CacheInv
<1>3. /\ Entries' = Entries /\ IsFiniteSet(Entries')
      /\ cache' \in [Link -> Nat] /\ inserted' \in Nat /\ Dated'
  BY <1>1, <1>2, SetKeeps
<1>4. \A c : EntriesOf(c)' = EntriesOf(c)
  BY <1>3 DEF EntriesOf
<1> QED  BY <1>3, <1>4 DEF CacheInv, CacheBounded

(* What is remembered takes the place of the oldest, of its connection and of all. *)
LEMMA RememberKeeps == ASSUME CacheInv, NEW l \in Link, Remember(l) PROVE CacheInv'
<1> DEFINE c == ConnectionOf(l)
           own == EntriesOf(c) \ {l}
           room == Youngest(own, MaxEntriesPerConnection - 1)
           kept == ((Entries \ {l}) \ own) \union room
           left == Youngest(kept, MaxEntries - 1)
<1>0. /\ MaxEntries - 1 \in Nat /\ MaxEntriesPerConnection - 1 \in Nat
      /\ MaxEntries \in Nat /\ MaxEntriesPerConnection \in Nat
  BY PreviewAssumption
<1>1. own \in SUBSET Entries /\ room \subseteq own /\ kept \in SUBSET (Entries \ {l}) /\ left \subseteq kept
  BY DEF Youngest, EntriesOf
<1>2. /\ inserted' = inserted + 1
      /\ cache' = [x \in Link |-> IF x = l THEN inserted'
                                  ELSE IF x \in left THEN cache[x] ELSE 0]
  BY DEF Remember
<1>3. /\ IsFiniteSet(room) /\ Cardinality(room) <= MaxEntriesPerConnection - 1
      /\ IsFiniteSet(left) /\ Cardinality(left) <= MaxEntries - 1
  <2> HIDE DEF own, kept
  <2> QED  BY <1>0, <1>1, FewYoungest
<1>a. /\ own = EntriesOf(c) \ {l} /\ kept = ((Entries \ {l}) \ own) \union room
  OBVIOUS
<1> HIDE DEF own, room, kept, left
<1>4. /\ Entries' = left \union {l} /\ IsFiniteSet(Entries')
      /\ cache' \in [Link -> Nat] /\ inserted' \in Nat /\ Dated'
  <2>1. left \in SUBSET (Entries \ {l})
    BY <1>1
  <2> QED  BY <1>2, <2>1, SetKeeps
<1>5. Cardinality(Entries') <= MaxEntries
  <2>1. Cardinality(left) \in Nat /\ Cardinality(left \union {l}) <= Cardinality(left) + 1
        /\ Cardinality(left \union {l}) \in Nat
    BY <1>3, OneMore
  <2> QED  BY <1>0, <1>3, <1>4, <2>1
<1>6. ASSUME NEW k \in Link
      PROVE  Cardinality(EntriesOf(ConnectionOf(k)))' <= MaxEntriesPerConnection
  <2>1. CASE ConnectionOf(k) = c
    <3>1. EntriesOf(ConnectionOf(k))' \subseteq room \union {l}
      BY <1>1, <1>4, <1>a, <2>1 DEF EntriesOf
    <3>2. /\ IsFiniteSet(room \union {l}) /\ Cardinality(room) \in Nat
          /\ Cardinality(room \union {l}) <= Cardinality(room) + 1
          /\ Cardinality(room \union {l}) \in Nat
      BY <1>3, OneMore
    <3>3. Cardinality(room \union {l}) <= MaxEntriesPerConnection
      BY <1>0, <1>3, <3>2
    <3> QED  BY <1>0, <3>1, <3>2, <3>3, Fewer
  <2>2. CASE ConnectionOf(k) # c
    <3>1. EntriesOf(ConnectionOf(k))' \subseteq EntriesOf(ConnectionOf(k))
      BY <1>1, <1>4, <2>2 DEF EntriesOf
    <3>2. /\ IsFiniteSet(EntriesOf(ConnectionOf(k)))
          /\ Cardinality(EntriesOf(ConnectionOf(k))) <= MaxEntriesPerConnection
      BY EntriesFinite DEF CacheInv, CacheBounded
    <3> QED  BY <1>0, <3>1, <3>2, Fewer
  <2> QED  BY <2>1, <2>2
<1> QED  BY <1>4, <1>5, <1>6 DEF CacheInv, CacheBounded

-----------------------------------------------------------------------------
(* Slots and works *)

SlotInv ==
  /\ waiters \in Seq(Preview) /\ slots \in 0 .. Concurrency /\ aborted \subseteq Preview
  /\ at \in [Preview -> Awaiting \union {"none", "queued", "over"}]
  /\ SlotsCounted /\ IsFiniteSet(Holders)

\* A call that has not been made has no work; work that is not given up has a caller
\* who waits; who shares shares a work.
Wanted == \A p \in Preview :
  /\ asking[p] = "none" => at[p] = "none" /\ p \notin aborted
  /\ at[p] \in Awaiting \union {"queued"} /\ p \notin aborted => asking[p] = "waits"
  /\ asking[p] = "shares" => sharing[p] \in Preview

AskInv ==
  /\ link \in [Preview -> Link] /\ images \in [Preview -> 0 .. 1]
  /\ asking \in [Preview -> {"none", "waits", "shares", "told"}]
  /\ sharing \in [Preview -> Preview \union {NoPreview}]
  /\ pendingOf \in [Link -> Preview \union {NoPreview}]
  /\ OneWorkPerLink /\ Wanted

PreviewInv == CacheInv /\ SlotInv /\ AskInv

LEMMA SlotFacts ==
  ASSUME SlotInv
  PROVE  /\ slots \in Nat /\ Concurrency \in Nat \ {0} /\ slots <= Concurrency
         /\ slots = Cardinality(Holders) /\ IsFiniteSet(Holders)
         /\ waiters # <<>> => slots = Concurrency
         /\ \A p \in Preview : p \in ToSet(waiters) <=> at[p] = "queued"
         /\ ToSet(waiters) \subseteq Preview /\ IsInjective(waiters)
         /\ \A p \in ToSet(waiters) : p \notin aborted
<1>1. Concurrency \in Nat \ {0}
  BY PreviewAssumption
<1>2. slots \in Nat /\ slots <= Concurrency
  BY <1>1 DEF SlotInv
<1>3. \A p \in ToSet(waiters) : p \notin aborted
  BY DEF SlotInv, SlotsCounted
<1>4. \A p \in Preview : p \in ToSet(waiters) <=> at[p] = "queued"
  BY DEF SlotInv, SlotsCounted
<1>5. ToSet(waiters) \subseteq Preview
  BY DEF SlotInv, SlotsCounted
<1> QED  BY <1>1, <1>2, <1>3, <1>4, <1>5 DEF SlotInv, SlotsCounted

\* Nothing changes for slots and works.
LEMMA SlotsStay == ASSUME SlotInv, UNCHANGED <<waiters, slots, at, aborted>> PROVE SlotInv'
BY DEF SlotInv, SlotsCounted, Holders

(* acquire *)
LEMMA AcquireKeeps == ASSUME PreviewInv, NEW p \in Preview, StartWork(p) PROVE SlotInv'
<1>1. at[p] = "none" /\ p \notin aborted /\ aborted' = aborted
  BY DEF PreviewInv, AskInv, Wanted, StartWork, Missed
<1>2. CASE HasSlot
  <2>1. slots' = slots + 1 /\ at' = [at EXCEPT ![p] = "granted"] /\ waiters' = waiters
    BY <1>2 DEF StartWork
  <2>2. slots < Concurrency /\ waiters = <<>>
    BY <1>2, SlotFacts DEF HasSlot, PreviewInv
  <2>3. Holders' = Holders \union {p} /\ p \notin Holders
    BY <1>1, <2>1 DEF Holders, Awaiting, PreviewInv, SlotInv
  <2>4. IsFiniteSet(Holders') /\ Cardinality(Holders') = Cardinality(Holders) + 1
    BY <2>3, SlotFacts, FS_AddElement DEF PreviewInv
  <2>5. slots' \in 0 .. Concurrency /\ slots' = Cardinality(Holders')
    BY <2>1, <2>2, <2>4, SlotFacts DEF PreviewInv
  <2>6. ToSet(waiters) = {q \in Preview : at[q] = "queued"}
        /\ {q \in Preview : at'[q] = "queued"} = {q \in Preview : at[q] = "queued"}
    BY <1>1, <2>1 DEF PreviewInv, SlotInv, SlotsCounted
  <2> QED
    BY <1>1, <2>1, <2>2, <2>4, <2>5, <2>6 DEF PreviewInv, SlotInv, SlotsCounted, Awaiting
<1>3. CASE ~HasSlot
  <2>1. slots' = slots /\ at' = [at EXCEPT ![p] = "queued"] /\ waiters' = Append(waiters, p)
    BY <1>3 DEF StartWork
  <2>2. slots = Concurrency
    BY <1>3, SlotFacts DEF HasSlot, PreviewInv
  <2>3. Holders' = Holders
    BY <1>1, <2>1 DEF Holders, Awaiting, PreviewInv, SlotInv
  <2>4. p \notin ToSet(waiters)
    BY <1>1, SlotFacts DEF PreviewInv
  <2>5. /\ waiters' \in Seq(Preview) /\ IsInjective(waiters')
        /\ ToSet(waiters') = ToSet(waiters) \union {p}
    BY <2>1, <2>4, SlotFacts, Appended DEF PreviewInv, SlotInv
  <2>6. ToSet(waiters') = {q \in Preview : at'[q] = "queued"}
    BY <2>1, <2>5 DEF PreviewInv, SlotInv, SlotsCounted
  <2>7. ToSet(waiters') \intersect aborted' = {}
    BY <1>1, <2>5 DEF PreviewInv, SlotInv, SlotsCounted
  <2>8. at' \in [Preview -> Awaiting \union {"none", "queued", "over"}]
    BY <2>1 DEF PreviewInv, SlotInv
  <2> QED
    BY <1>1, <2>1, <2>2, <2>3, <2>5, <2>6, <2>7, <2>8 DEF PreviewInv, SlotInv, SlotsCounted
<1> QED  BY <1>2, <1>3

(* A work in the queue is given up. *)
LEMMA AbortKeeps ==
  ASSUME SlotInv, NEW p \in Preview, aborted' = aborted \union {p}, waiters' = LeavesLine(p),
         at' = WaitRejected(p), slots' = slots
  PROVE  SlotInv'
<1>1. at' = [at EXCEPT ![p] = IF @ = "queued" THEN "over" ELSE @]
  BY DEF WaitRejected
<1>2. /\ waiters' \in Seq(Preview) /\ IsInjective(waiters')
      /\ ToSet(waiters') = ToSet(waiters) \ {p} /\ (waiters' # <<>> => waiters # <<>>)
  BY SlotFacts, Removed DEF SlotInv, LeavesLine
<1>3. Holders' = Holders
  BY <1>1 DEF Holders, Awaiting, SlotInv
<1>4. at' \in [Preview -> Awaiting \union {"none", "queued", "over"}]
  BY <1>1 DEF SlotInv
<1>5. ToSet(waiters') = {q \in Preview : at'[q] = "queued"}
  BY <1>1, <1>2 DEF SlotInv, SlotsCounted
<1>6. ToSet(waiters') \intersect aborted' = {}
  BY <1>2 DEF SlotInv, SlotsCounted
<1> QED  BY <1>2, <1>3, <1>4, <1>5, <1>6 DEF SlotInv, SlotsCounted

(* release: the slot is passed on or given back. *)
LEMMA ReleaseKeeps ==
  ASSUME SlotInv, NEW p \in Holders, Release(p), aborted' = aborted
  PROVE  SlotInv'
<1>0. p \in Preview /\ at[p] \in Awaiting /\ p \notin ToSet(waiters)
  BY SlotFacts DEF Holders, Awaiting
<1>1. CASE waiters = <<>>
  <2>1. slots' = slots - 1 /\ waiters' = waiters /\ at' = [at EXCEPT ![p] = "over"]
    BY <1>1 DEF Release, SlotInv
  <2>2. Holders' = Holders \ {p}
    BY <1>0, <2>1 DEF Holders, Awaiting, SlotInv
  <2>3. IsFiniteSet(Holders') /\ Cardinality(Holders') = Cardinality(Holders) - 1
        /\ Cardinality(Holders') \in Nat
    BY <2>2, SlotFacts, FS_RemoveElement, FS_CardinalityType
  <2>4. slots' = Cardinality(Holders') /\ slots' \in 0 .. Concurrency
    BY <2>1, <2>3, SlotFacts
  <2>5. {q \in Preview : at'[q] = "queued"} = {q \in Preview : at[q] = "queued"}
    BY <1>0, <2>1 DEF SlotInv, Awaiting
  <2>6. at' \in [Preview -> Awaiting \union {"none", "queued", "over"}]
    BY <2>1 DEF SlotInv
  <2> QED  BY <1>1, <2>1, <2>3, <2>4, <2>5, <2>6 DEF SlotInv, SlotsCounted
<1>2. CASE waiters # <<>>
  <2> DEFINE h == Head(waiters)
  <2>1. /\ slots' = slots /\ waiters' = Tail(waiters)
        /\ at' = [q \in Preview |-> IF q = p THEN "over" ELSE IF q = h THEN "granted" ELSE at[q]]
    BY <1>2 DEF Release
  <2>2. /\ h \in ToSet(waiters) /\ waiters' \in Seq(Preview) /\ IsInjective(waiters')
        /\ ToSet(waiters') = ToSet(waiters) \ {h}
    BY <1>2, <2>1, SlotFacts, Behead DEF SlotInv
  <2> HIDE DEF h
  <2>3. h \in Preview /\ at[h] = "queued" /\ h # p /\ h \notin Holders
    BY <1>0, <2>2, SlotFacts DEF Holders, Awaiting
  <2>4. Holders' = (Holders \ {p}) \union {h}
    BY <1>0, <2>1, <2>3 DEF Holders, Awaiting, SlotInv
  <2>5. IsFiniteSet(Holders \ {p}) /\ Cardinality(Holders \ {p}) = Cardinality(Holders) - 1
    BY SlotFacts, FS_RemoveElement
  <2>6. IsFiniteSet(Holders') /\ Cardinality(Holders') = Cardinality(Holders \ {p}) + 1
    BY <2>3, <2>4, <2>5, FS_AddElement
  <2>7. slots' = Cardinality(Holders')
    BY <2>1, <2>5, <2>6, SlotFacts
  <2>8. at' \in [Preview -> Awaiting \union {"none", "queued", "over"}]
    BY <2>1 DEF SlotInv, Awaiting
  <2>9. ToSet(waiters') = {q \in Preview : at'[q] = "queued"}
    BY <1>0, <2>1, <2>2, <2>3 DEF SlotInv, SlotsCounted
  <2>10. ToSet(waiters') \intersect aborted' = {}
    BY <2>2 DEF SlotInv, SlotsCounted
  <2> QED
    BY <1>2, <2>1, <2>2, <2>6, <2>7, <2>8, <2>9, <2>10, SlotFacts DEF SlotInv, SlotsCounted
<1> QED  BY <1>1, <1>2

(* The task of a work whose caller waits ends: who shares it goes on as well. *)
LEMMA TaskKeeps ==
  ASSUME AskInv, NEW p \in Preview, asking[p] = "waits", TaskEnds(p),
         UNCHANGED <<link, sharing, images>>
  PROVE  /\ pendingOf' \in [Link -> Preview \union {NoPreview}]
         /\ asking' \in [Preview -> {"none", "waits", "shares", "told"}]
         /\ asking'[p] = "told" /\ \A q \in Preview : asking'[q] \in {asking[q], "told"}
         /\ \A q \in Preview : q # p /\ asking[q] = "waits" => asking'[q] = "waits"
         /\ OneWorkPerLink'
<1>1. /\ asking' = [q \in Preview |-> IF q = p \/ (asking[q] = "shares" /\ sharing[q] = p)
                                      THEN "told" ELSE asking[q]]
      /\ pendingOf' = [pendingOf EXCEPT ![link[p]] = IF @ = p THEN NoPreview ELSE @]
  BY DEF TaskEnds
<1>2. pendingOf[link[p]] = p /\ link[p] \in Link
  BY DEF AskInv, OneWorkPerLink
<1>3. ASSUME NEW q \in Preview, asking'[q] \in {"waits", "shares"}
      PROVE  asking[q] = asking'[q] /\ link[q] # link[p]
  <2>1. q # p /\ asking[q] = asking'[q] /\ ~(asking[q] = "shares" /\ sharing[q] = p)
    BY <1>1, <1>3
  <2> QED  BY <1>2, <1>3, <2>1 DEF AskInv, OneWorkPerLink
<1>4. OneWorkPerLink'
  BY <1>1, <1>3 DEF AskInv, OneWorkPerLink
<1> QED  BY <1>1, <1>4 DEF AskInv

LEMMA DeadlineKeeps == ASSUME PreviewInv, NEW p \in Preview, DeadlinePasses(p) PROVE PreviewInv'
<1> USE DEF PreviewInv
<1>1. /\ asking[p] = "waits" /\ aborted' = aborted \union {p} /\ TaskEnds(p)
      /\ waiters' = LeavesLine(p) /\ at' = WaitRejected(p)
      /\ UNCHANGED <<link, sharing, slots, images>>
  BY DEF DeadlinePasses
<1>2. CacheInv'
  <2>1. link[p] \in Link /\ Remember(link[p])
    BY <1>1 DEF AskInv, TaskEnds
  <2> QED  BY <2>1, RememberKeeps
<1>3. SlotInv'
  BY <1>1, AbortKeeps
<1>4. /\ pendingOf' \in [Link -> Preview \union {NoPreview}]
      /\ asking' \in [Preview -> {"none", "waits", "shares", "told"}]
      /\ asking'[p] = "told" /\ \A q \in Preview : asking'[q] \in {asking[q], "told"}
      /\ \A q \in Preview : q # p /\ asking[q] = "waits" => asking'[q] = "waits"
      /\ OneWorkPerLink'
  BY <1>1, TaskKeeps
<1>5. \A q \in Preview : q # p => at'[q] = at[q]
  BY <1>1 DEF WaitRejected, SlotInv
<1>6. Wanted'
  BY <1>1, <1>4, <1>5 DEF AskInv, Wanted
<1> QED  BY <1>1, <1>2, <1>3, <1>4, <1>6 DEF AskInv

LEMMA FinishKeeps == ASSUME PreviewInv, NEW p \in Preview, Finish(p) PROVE PreviewInv'
<1> USE DEF PreviewInv
<1>1. at[p] \in Awaiting /\ p \in Holders /\ Release(p) /\ UNCHANGED <<link, sharing, images, aborted>>
  BY DEF Finish, WorkOver, Holders
<1>2. SlotInv'
  BY <1>1, ReleaseKeeps
<1>3. \A q \in Preview : q # p =>
        at'[q] = at[q] \/ (at[q] = "queued" /\ at'[q] = "granted")
  <2>1. waiters # <<>> => Head(waiters) \in ToSet(waiters)
    BY SlotFacts, Behead DEF SlotInv
  <2> QED  BY <1>1, <2>1, SlotFacts DEF Release, SlotInv
<1>4. at'[p] = "over"
  BY <1>1 DEF Release, SlotInv
<1>5. CASE p \in aborted
  <2>1. UNCHANGED <<cache, inserted, asking, pendingOf>>
    BY <1>5 DEF Finish, WorkOver
  <2>2. CacheInv'
    BY <2>1 DEF CacheInv, Dated, CacheBounded, Entries, EntriesOf
  <2>3. Wanted'
    BY <1>1, <1>3, <1>4, <2>1 DEF AskInv, Wanted, Awaiting
  <2>4. OneWorkPerLink'
    BY <1>1, <2>1 DEF AskInv, OneWorkPerLink
  <2> QED  BY <1>1, <1>2, <2>1, <2>2, <2>3, <2>4 DEF AskInv
<1>6. CASE p \notin aborted
  <2>1. TaskEnds(p) /\ asking[p] = "waits"
    BY <1>1, <1>6 DEF Finish, WorkOver, AskInv, Wanted
  <2>2. CacheInv'
    <3>1. link[p] \in Link /\ Remember(link[p])
      BY <2>1 DEF AskInv, TaskEnds
    <3> QED  BY <3>1, RememberKeeps
  <2>3. /\ pendingOf' \in [Link -> Preview \union {NoPreview}]
        /\ asking' \in [Preview -> {"none", "waits", "shares", "told"}]
        /\ asking'[p] = "told" /\ \A q \in Preview : asking'[q] \in {asking[q], "told"}
        /\ \A q \in Preview : q # p /\ asking[q] = "waits" => asking'[q] = "waits"
        /\ OneWorkPerLink'
    BY <1>1, <2>1, TaskKeeps
  <2>4. Wanted'
    BY <1>1, <1>3, <1>4, <2>3 DEF AskInv, Wanted, Awaiting
  <2> QED  BY <1>1, <1>2, <2>2, <2>3, <2>4 DEF AskInv
<1> QED  BY <1>5, <1>6

(* A call that finds an entry, a work under way, or no room. *)
LEMMA AskKeeps ==
  ASSUME PreviewInv, NEW p \in Preview, Cached(p) \/ Share(p) \/ GiveUp(p)
  PROVE  PreviewInv'
<1> USE DEF PreviewInv
<1>1. link[p] \in Link /\ asking[p] = "none" /\ at[p] = "none" /\ p \notin aborted
  BY DEF AskInv, Wanted, Cached, Share, GiveUp, Missed
<1>2. CacheInv'
  <2>1. CASE Cached(p)
    BY <2>1, FoundKeeps DEF Cached
  <2>2. CASE Share(p) \/ GiveUp(p)
    BY <1>1, <2>2, ForgetKeeps DEF Share, GiveUp, Missed
  <2> QED  BY <2>1, <2>2
<1>3. SlotInv'
  BY SlotsStay DEF Cached, Share, GiveUp
<1>4. UNCHANGED <<link, pendingOf, at, images, aborted>>
  BY DEF Cached, Share, GiveUp
<1>5. CASE Cached(p) \/ GiveUp(p)
  <2>1. sharing' = sharing /\ asking' = [asking EXCEPT ![p] = "told"]
    BY <1>5 DEF Cached, GiveUp
  <2>2. OneWorkPerLink' /\ Wanted'
    BY <1>1, <1>4, <2>1 DEF AskInv, OneWorkPerLink, Wanted, Awaiting
  <2> QED  BY <1>2, <1>3, <1>4, <2>1, <2>2 DEF AskInv
<1>6. CASE Share(p)
  <2>1. /\ sharing' = [sharing EXCEPT ![p] = pendingOf[link[p]]]
        /\ asking' = [asking EXCEPT ![p] = "shares"] /\ pendingOf[link[p]] \in Preview
    BY <1>1, <1>6 DEF Share, UnderWay, AskInv
  <2>2. OneWorkPerLink' /\ Wanted'
    BY <1>1, <1>4, <2>1 DEF AskInv, OneWorkPerLink, Wanted, Awaiting
  <2> QED  BY <1>2, <1>3, <1>4, <2>1, <2>2 DEF AskInv
<1> QED  BY <1>5, <1>6

LEMMA StartKeeps == ASSUME PreviewInv, NEW p \in Preview, StartWork(p) PROVE PreviewInv'
<1> USE DEF PreviewInv
<1>1. /\ link[p] \in Link /\ asking[p] = "none" /\ pendingOf[link[p]] = NoPreview
      /\ p \notin aborted
  BY DEF AskInv, Wanted, StartWork, Missed, UnderWay
<1>2. CacheInv'
  BY <1>1, ForgetKeeps DEF StartWork, Missed
<1>3. SlotInv'
  BY AcquireKeeps
<1>4. /\ pendingOf' = [pendingOf EXCEPT ![link[p]] = p]
      /\ asking' = [asking EXCEPT ![p] = "waits"] /\ UNCHANGED <<link, sharing, images, aborted>>
  BY DEF StartWork
<1>5. \A q \in Preview : q # p => at'[q] = at[q]
  BY DEF StartWork, SlotInv
<1>6. NoPreview \notin Preview
  BY PreviewAssumption
<1>7. OneWorkPerLink'
  <2> SUFFICES ASSUME NEW q \in Preview
               PROVE  /\ asking'[q] = "waits" => pendingOf'[link[q]] = q
                      /\ asking'[q] = "shares" => pendingOf'[link[q]] = sharing[q]
    BY <1>4 DEF OneWorkPerLink
  <2>1. CASE q = p
    BY <1>1, <1>4, <2>1 DEF AskInv
  <2>2. CASE q # p
    <3>1. asking'[q] = asking[q] /\ link[q] \in Link
      BY <1>4, <2>2 DEF AskInv
    <3>2. asking[q] \in {"waits", "shares"} => link[q] # link[p]
      BY <1>1, <1>6 DEF AskInv, OneWorkPerLink, Wanted
    <3> QED  BY <1>1, <1>4, <3>1, <3>2 DEF AskInv, OneWorkPerLink
  <2> QED  BY <2>1, <2>2
<1>8. Wanted'
  BY <1>1, <1>4, <1>5 DEF AskInv, Wanted
<1> QED  BY <1>1, <1>2, <1>3, <1>4, <1>7, <1>8 DEF AskInv

(* A work that holds its slot and goes on. *)
LEMMA GoesOn ==
  ASSUME PreviewInv, NEW p \in Preview, NEW from \in Awaiting, NEW to \in Awaiting,
         GoOn(p, from, to), images' \in [Preview -> 0 .. 1]
  PROVE  PreviewInv'
<1> USE DEF PreviewInv
<1>1. /\ at[p] \in Awaiting /\ p \notin aborted /\ at' = [at EXCEPT ![p] = to]
      /\ UNCHANGED <<link, asking, sharing, cache, inserted, pendingOf, slots, waiters, aborted>>
  BY DEF GoOn
<1>2. CacheInv'
  BY <1>1 DEF CacheInv, Dated, CacheBounded, Entries, EntriesOf
<1>3. at' \in [Preview -> Awaiting \union {"none", "queued", "over"}]
  BY <1>1 DEF SlotInv
<1>4. Holders' = Holders
  BY <1>1 DEF Holders, SlotInv
<1>5. \A q \in Preview : at'[q] = "queued" <=> at[q] = "queued"
  BY <1>1 DEF SlotInv, Awaiting
<1>6. SlotInv'
  BY <1>1, <1>3, <1>4, <1>5 DEF SlotInv, SlotsCounted
<1>7. Wanted' /\ OneWorkPerLink'
  BY <1>1 DEF AskInv, Wanted, OneWorkPerLink, SlotInv, Awaiting
<1> QED  BY <1>1, <1>2, <1>6, <1>7 DEF AskInv

LEMMA RunKeeps == ASSUME PreviewInv, NEW p \in Preview, PreviewRun(p) PROVE PreviewInv'
<1>1. images \in [Preview -> 0 .. 1]
  BY DEF PreviewInv, AskInv
<1>2. ASSUME Parsed(p) PROVE images' \in [Preview -> 0 .. 1]
  BY <1>1, <1>2 DEF Parsed
<1>3. ASSUME NextImage(p) PROVE images' \in [Preview -> 0 .. 1]
  <2>1. images[p] \in 0 .. 1 /\ images[p] > 0
    BY <1>1, <1>3 DEF NextImage
  <2>2. images[p] - 1 \in 0 .. 1
    BY <2>1
  <2> QED  BY <1>1, <1>3, <2>2 DEF NextImage
<1>4. {"granted", "page", "thumbnail", "parse", "image", "imageThumbnail"} \subseteq Awaiting
  BY DEF Awaiting
<1>5. CASE Fetch(p) \/ FetchedImage(p) \/ FetchedPage(p) \/ FetchedPicture(p)
  BY <1>1, <1>4, <1>5, GoesOn DEF Fetch, FetchedImage, FetchedPage, FetchedPicture
<1>6. CASE Parsed(p)
  BY <1>2, <1>4, <1>6, GoesOn DEF Parsed
<1>7. CASE NextImage(p)
  BY <1>3, <1>4, <1>7, GoesOn DEF NextImage
<1> QED  BY <1>5, <1>6, <1>7, FinishKeeps DEF PreviewRun

LEMMA PreviewInvInit == PreviewInit => PreviewInv
<1> SUFFICES ASSUME PreviewInit PROVE PreviewInv
  OBVIOUS
<1>1. Entries = {} /\ \A c : EntriesOf(c) = {}
  BY DEF PreviewInit, Entries, EntriesOf
<1>2. Holders = {}
  BY DEF PreviewInit, Holders, Awaiting
<1>3. IsFiniteSet({}) /\ Cardinality({}) = 0
  BY FS_EmptySet
<1>4. CacheInv
  <2>1. MaxEntries \in Nat /\ MaxEntriesPerConnection \in Nat
    BY PreviewAssumption
  <2>2. CacheBounded
    BY <1>1, <1>3, <2>1 DEF CacheBounded
  <2>3. Dated
    BY <1>1 DEF Dated
  <2> QED  BY <1>1, <1>3, <2>2, <2>3 DEF PreviewInit, CacheInv
<1>5. waiters = <<>> /\ waiters \in Seq(Preview) /\ ToSet(waiters) = {} /\ IsInjective(waiters)
  BY DEF PreviewInit, ToSet, IsInjective
<1>6. SlotInv
  BY <1>2, <1>3, <1>5, PreviewAssumption DEF PreviewInit, SlotInv, SlotsCounted
<1>7. AskInv
  BY DEF PreviewInit, AskInv, OneWorkPerLink, Wanted, Awaiting
<1> QED  BY <1>4, <1>6, <1>7 DEF PreviewInv

LEMMA PreviewInvNext == PreviewInv /\ [PreviewNext]_previewVars => PreviewInv'
<1> SUFFICES ASSUME PreviewInv, [PreviewNext]_previewVars PROVE PreviewInv'
  OBVIOUS
<1>1. CASE UNCHANGED previewVars
  <2>1. CacheInv'
    BY <1>1 DEF previewVars, PreviewInv, CacheInv, Dated, CacheBounded, Entries, EntriesOf
  <2>2. SlotInv'
    BY <1>1, SlotsStay DEF previewVars, PreviewInv
  <2>3. AskInv'
    BY <1>1 DEF previewVars, PreviewInv, AskInv, OneWorkPerLink, Wanted
  <2> QED  BY <2>1, <2>2, <2>3 DEF PreviewInv
<1> QED
  BY <1>1, AskKeeps, StartKeeps, DeadlineKeeps, RunKeeps DEF PreviewNext, PreviewAsk

(* Slots, shared works and entries are counted right, whoever gives up         *)
(* meanwhile - for any calls, links, connections and limits.                   *)
THEOREM PreviewsAreSafe == PreviewSpec => []PreviewSafety
<1>1. PreviewInv => PreviewSafety
  BY DEF PreviewInv, CacheInv, SlotInv, AskInv, PreviewSafety, PreviewTypeOK
<1> QED  BY <1>1, PreviewInvInit, PreviewInvNext, PTL DEF PreviewSpec
=============================================================================
