--------------------------- MODULE MediaDownloads ---------------------------
(***************************************************************************)
(* getMedia: downloads of one instance's media, a few at a time for the    *)
(* whole process, each tracked by its instance so that the closure of the  *)
(* connection, once it is told, aborts it.  A connection that closes is    *)
(* told of at once; a shutdown takes the socket first, and tells of the    *)
(* removal later or never.  A link that has expired is renewed once, over  *)
(* the socket, by an exchange that has a timer and listeners of its own.   *)
(*                                                                         *)
(* The set of downloads of an instance is an object: a download leaves the *)
(* set it joined, which may not be the one the instance has now.           *)
(***************************************************************************)
EXTENDS Integers, FiniteSets

CONSTANTS
  Download,     \* calls of getMedia, each made at most once
  MaxDownloads, \* concurrency
  MaxSockets    \* bound: connections of a behaviour

ASSUME MediaAssumption ==
  IsFiniteSet(Download) /\ MaxDownloads \in Nat \ {0} /\ MaxSockets \in Nat \ {0}

VARIABLES
  socketNo,    \* the connection
  isOpen,      \* it is open
  detached,    \* history: connections that a shutdown ended and no event has told of
  downloading, \* active
  trackedSet,  \* the instance's set in `downloads': its number, 0 for none
  setsMade,    \* how many sets were made
  members,     \* the downloads in each set
  stage,       \* where each download is
  since,       \* the connection each download began on
  joined,      \* the set it joined
  renewed,     \* the downloads that have asked for a renewal
  mediaAborted,\* the downloads whose signal is aborted
  exchange,    \* of each download: its renewal "none", "listens" or "over"
  renewals     \* history: how many renewals each download asked for

socketVars == <<socketNo, isOpen, detached>>
tracking == <<trackedSet, setsMade, members>>
renewing == <<renewed, exchange, renewals>>
mediaVars == <<socketVars, downloading, tracking, stage, since, joined, mediaAborted,
               renewing>>

Running == {"stored", "first", "asked", "renew", "second"}
IsRunning(d) == stage[d] \in Running
Set == 1 .. Cardinality(Download)

MediaInit ==
  /\ socketNo = 1 /\ isOpen = TRUE /\ detached = {}
  /\ downloading = 0
  /\ trackedSet = 0 /\ setsMade = 0 /\ members = [s \in Set |-> {}]
  /\ stage = [d \in Download |-> "none"]
  /\ since = [d \in Download |-> 0] /\ joined = [d \in Download |-> 0]
  /\ renewed = {} /\ mediaAborted = {}
  /\ exchange = [d \in Download |-> "none"]
  /\ renewals = [d \in Download |-> 0]

SameSocket(d) == isOpen /\ since[d] = socketNo

-----------------------------------------------------------------------------
(* getMedia *)

Busy == downloading >= MaxDownloads

\* 409 without a connection, 429 without room.
RefuseMedia(d) ==
  /\ stage[d] = "none"
  /\ ~isOpen \/ Busy
  /\ stage' = [stage EXCEPT ![d] = "over"]
  /\ UNCHANGED <<socketVars, downloading, tracking, since, joined, mediaAborted, renewing>>

\* trackMediaDownload joins the instance's set, or makes one.
BeginMedia(d) ==
  /\ stage[d] = "none"
  /\ isOpen /\ ~Busy
  /\ downloading' = downloading + 1
  /\ setsMade' = IF trackedSet = 0 THEN setsMade + 1 ELSE setsMade
  /\ trackedSet' = IF trackedSet = 0 THEN setsMade + 1 ELSE trackedSet
  /\ members' = [members EXCEPT ![trackedSet'] = @ \union {d}]
  /\ joined' = [joined EXCEPT ![d] = trackedSet']
  /\ since' = [since EXCEPT ![d] = socketNo]
  /\ stage' = [stage EXCEPT ![d] = "stored"]
  /\ UNCHANGED <<socketVars, mediaAborted, renewing>>

\* Mutant: the last download of a set removes whatever set the instance has.
DropsAnySet(d) == IF members'[joined[d]] = {} THEN 0 ELSE trackedSet

DropsOwnSet(d) ==
  IF members'[joined[d]] = {} /\ trackedSet = joined[d] THEN 0 ELSE trackedSet

PlaceBack(d) == downloading - 1

\* The finally blocks: the tracking is released and the signal aborted.
EndMedia(d) ==
  /\ stage' = [stage EXCEPT ![d] = "over"]
  /\ members' = [members EXCEPT ![joined[d]] = @ \ {d}]
  /\ trackedSet' = DropsOwnSet(d)
  /\ downloading' = PlaceBack(d)
  /\ mediaAborted' = mediaAborted \union {d}
  /\ UNCHANGED <<socketVars, setsMade, since, joined>>

\* Which error the call is told, by what failed and whether the socket is still its own, is left
\* out.
FailMedia(d) ==
  /\ EndMedia(d)
  /\ UNCHANGED renewing

Advance(d, to) ==
  /\ stage' = [stage EXCEPT ![d] = to]
  /\ UNCHANGED <<socketVars, downloading, tracking, since, joined, mediaAborted>>

\* The message is read, without regard to the signal; it may not be there, or not be media.
ReadStored(d) ==
  /\ stage[d] = "stored"
  /\ \/ Advance(d, "first") /\ UNCHANGED renewing
     \/ FailMedia(d)

\* The download has ended with the whole file.
Downloaded(d) ==
  /\ stage[d] \in {"first", "second"} /\ d \notin mediaAborted
  /\ EndMedia(d)
  /\ UNCHANGED renewing

\* The exchange begins: a request over the socket, two listeners and a timer.
Exchange(d, to) ==
  /\ renewals' = [renewals EXCEPT ![d] = @ + 1]
  /\ renewed' = renewed \union {d}
  /\ IF SameSocket(d)
     THEN Advance(d, to) /\ exchange' = [exchange EXCEPT ![d] = "listens"]
     ELSE EndMedia(d) /\ UNCHANGED exchange

\* The provider asks for a renewal during the first download.
ProviderAsksRenewal(d) ==
  /\ stage[d] = "first" /\ d \notin renewed /\ d \notin mediaAborted
  /\ Exchange(d, "asked")

MayRenew(d) == d \notin renewed

\* The first download failed with 404 or 410.
RenewExpired(d) ==
  /\ stage[d] = "first" /\ d \notin mediaAborted
  /\ MayRenew(d)
  /\ Exchange(d, "renew")

\* Anything else fails; an abort does at once, except while the message is read.
MediaFails(d) ==
  /\ stage[d] \in Running \ {"stored"}
  /\ FailMedia(d)

\* The renewal succeeds: the provider goes on, or the second download begins.
Renewed(d) ==
  /\ exchange[d] = "listens" /\ isOpen /\ since[d] = socketNo
  /\ exchange' = [exchange EXCEPT ![d] = "over"]
  /\ UNCHANGED <<renewed, renewals>>
  /\ IF stage[d] \in {"asked", "renew"}
     THEN Advance(d, IF stage[d] = "asked" THEN "first" ELSE "second")
     ELSE UNCHANGED <<socketVars, downloading, tracking, stage, since, joined,
                      mediaAborted>>

Unlistened(d) == "over"

\* It fails: refused by WhatsApp, its timer, or no connection.
RenewalFails(d) ==
  /\ exchange[d] = "listens"
  /\ exchange' = [exchange EXCEPT ![d] = Unlistened(d)]
  /\ UNCHANGED <<renewed, renewals>>
  /\ IF stage[d] \in {"asked", "renew"}
     THEN EndMedia(d)
     ELSE UNCHANGED <<socketVars, downloading, tracking, stage, since, joined,
                      mediaAborted>>

\* 45 seconds.
MediaTimeout(d) ==
  /\ IsRunning(d) /\ d \notin mediaAborted
  /\ mediaAborted' = mediaAborted \union {d}
  /\ UNCHANGED <<socketVars, downloading, tracking, stage, since, joined, renewing>>

-----------------------------------------------------------------------------
(* The connection *)

\* Mutant: the set stays the instance's.
KeepsSet == trackedSet

NoSet == 0

\* cancelMediaDownloads: the instance has no set any more, and what was in it is aborted.
CancelsMedia ==
  /\ trackedSet' = NoSet
  /\ mediaAborted' = mediaAborted \union (IF trackedSet = 0 THEN {} ELSE members[trackedSet])
  /\ detached' = {}
  /\ UNCHANGED <<downloading, setsMade, members, stage, since, joined, renewing>>

LosesSocket ==
  /\ isOpen /\ socketNo < MaxSockets
  /\ isOpen' = FALSE
  /\ socketNo' = socketNo + 1

\* closeSocket: connection.close, or connection.removed, is told as the socket goes.
ClosesMedia == LosesSocket /\ CancelsMedia

\* A shutdown takes the socket and its listeners away and tells nothing yet.
ShutsMedia ==
  /\ LosesSocket
  /\ detached' = detached \union {socketNo}
  /\ UNCHANGED <<downloading, tracking, stage, since, joined, mediaAborted, renewing>>

\* connection.removed, once the shutdown and the removals after it have succeeded; or the
\* closure of a new socket that has not opened.
TellsClosure == ~isOpen /\ CancelsMedia /\ UNCHANGED <<socketNo, isOpen>>

Reopens ==
  /\ ~isOpen
  /\ isOpen' = TRUE
  /\ UNCHANGED <<socketNo, detached, downloading, tracking, stage, since, joined, mediaAborted,
                 renewing>>

MediaStep(d) ==
  \/ ReadStored(d) \/ Downloaded(d) \/ ProviderAsksRenewal(d) \/ RenewExpired(d)
  \/ MediaFails(d) \/ Renewed(d) \/ RenewalFails(d)

MediaNext ==
  \/ \E d \in Download : RefuseMedia(d) \/ BeginMedia(d) \/ MediaStep(d) \/ MediaTimeout(d)
  \/ ClosesMedia \/ ShutsMedia \/ TellsClosure \/ Reopens

MediaSpec == MediaInit /\ [][MediaNext]_mediaVars

\* The database answers, an aborted download fails, and timers fire.
MediaFairness == \A d \in Download :
  /\ WF_mediaVars(ReadStored(d)) /\ WF_mediaVars(d \in mediaAborted /\ MediaFails(d))
  /\ WF_mediaVars(RenewalFails(d)) /\ WF_mediaVars(MediaTimeout(d))

-----------------------------------------------------------------------------
(* Properties *)

\* The type of every variable.
MediaTypeOK ==
  /\ socketNo \in 1 .. MaxSockets /\ isOpen \in BOOLEAN /\ detached \subseteq 1 .. MaxSockets
  /\ downloading \in 0 .. MaxDownloads
  /\ trackedSet \in Set \union {0} /\ setsMade \in Set \union {0}
  /\ members \in [Set -> SUBSET Download]
  /\ stage \in [Download -> Running \union {"none", "over"}]
  /\ since \in [Download -> 0 .. MaxSockets] /\ joined \in [Download -> Set \union {0}]
  /\ renewed \subseteq Download /\ mediaAborted \subseteq Download
  /\ exchange \in [Download -> {"none", "listens", "over"}]
  /\ renewals \in [Download -> Nat]

\* A place is counted for each running download and for no other.
PlacesMatchDownloads == downloading = Cardinality({d \in Download : IsRunning(d)})

\* A running download that nobody has aborted is in the instance's set, which the next closure
\* that is told aborts; and only a shutdown that has not been told of leaves it running without
\* the connection it began on.
ClosureReaches == \A d \in Download :
  IsRunning(d) /\ d \notin mediaAborted =>
    /\ trackedSet # 0 /\ d \in members[trackedSet]
    /\ SameSocket(d) \/ since[d] \in detached

\* A media is renewed at most once per download, by the provider or here.
RenewedOnce == \A d \in Download : renewals[d] <= 1

\* Places come back once, closures that are told reach every download, renewals are not
\* repeated.
MediaSafety == MediaTypeOK /\ PlacesMatchDownloads /\ ClosureReaches /\ RenewedOnce

\* A download ends, and its exchange takes its listeners away even if the download is over.
MediaEnds == \A d \in Download :
  []<>(~IsRunning(d) /\ exchange[d] # "listens")
=============================================================================
