----------------------- MODULE PresenceSubscriptions -----------------------
(***************************************************************************)
(* The presence subscriptions that clients ask of one instance,            *)
(* deduplicated by contact and bounded in number.  One that times out is   *)
(* answered, and its request stays counted until the provider really       *)
(* answers; closing the socket clears everything and begins a new epoch.   *)
(* The snapshots of what was observed, and the clock of the cache of       *)
(* subscriptions, are abstracted: a completed one may be recent or not.    *)
(*                                                                         *)
(* A request object is named by the poll that made it.                     *)
(***************************************************************************)
EXTENDS Integers, FiniteSets

CONSTANTS
  Poll,        \* calls of subscribePresence, each made at most once
  Contact,     \* individual contacts
  NoPoll,      \* no request
  MaxRequests, \* MAXIMUM
  MaxEpoch     \* bound: connections of a behaviour

ASSUME PresenceAssumption ==
  NoPoll \notin Poll /\ Contact # {} /\ MaxRequests \in Nat \ {0} /\ MaxEpoch \in Nat \ {0}

VARIABLES
  epoch,     \* the connection; every clear begins another
  online,    \* its socket is open
  request,   \* the request of each contact
  pending,   \* the requests with `pending' set
  completed, \* the requests with `completed' set
  outcome,   \* of each request's promise: "none", "ok" or "failed"
  expired,   \* the requests whose timer fired
  work,      \* the action of each request: "none", "queued", "mapping", "calling", "over"
  poll,      \* of each poll: where it is, its contact, epoch and request
  target     \* the epoch in which a contact's aliases were linked; 0 for none

requests == <<request, pending, completed, outcome, expired, work>>
presenceVars == <<epoch, online, requests, poll, target>>

PollStart == [pc |-> "none", id |-> CHOOSE x \in Contact : TRUE, epoch |-> 0, of |-> NoPoll]

Absent == [x \in Contact |-> 0]

PresenceInit ==
  /\ epoch = 1 /\ online = TRUE
  /\ request = [x \in Contact |-> NoPoll]
  /\ pending = {} /\ completed = {} /\ expired = {}
  /\ outcome = [p \in Poll |-> "none"] /\ work = [p \in Poll |-> "none"]
  /\ poll = [p \in Poll |-> PollStart]
  /\ target = Absent

Unsettled(p) == work[p] \in {"queued", "mapping", "calling"}
Current(p) == online /\ poll[p].epoch = epoch
Active(p) == p \notin expired /\ poll[p].epoch = epoch

\* assertCurrent comes after every subscribe.
Tell(p, ok) ==
  poll' = [poll EXCEPT ![p].pc = IF ok /\ Current(p) THEN "ok" ELSE "failed"]

-----------------------------------------------------------------------------
\* link, for a poll of epoch e: the contact is the last of the targets, and the first
\* makes room.
Linked(t, x, e) ==
  LET others == {y \in Contact \ {x} : t[y] # 0}
      room   == [t EXCEPT ![x] = e]
  IN IF Cardinality(others) < MaxRequests THEN {room}
     ELSE {[room EXCEPT ![y] = 0] : y \in others}

Asked(p, x, pc, of) ==
  poll' = [poll EXCEPT ![p] = [pc |-> pc, id |-> x, epoch |-> epoch, of |-> of]]

\* A pending request is joined, a recent one answers.
Join(p, x) ==
  /\ poll[p].pc = "none" /\ online
  /\ request[x] \in pending
  /\ Asked(p, x, "joined", request[x])
  /\ UNCHANGED <<epoch, online, requests, target>>

AnsweredRecently(p, x) ==
  /\ poll[p].pc = "none" /\ online
  /\ request[x] \in completed \ pending
  /\ Asked(p, x, "ok", request[x])
  /\ UNCHANGED <<epoch, online, requests, target>>

Open(p, x) ==
  /\ pending' = pending \union {p}
  /\ completed' = IF request[x] \in completed THEN completed \union {p} ELSE completed
  /\ work' = [work EXCEPT ![p] = "queued"]
  /\ Asked(p, x, "waiting", p)
  /\ UNCHANGED <<epoch, online, outcome, expired>>

\* The one that answered is too old.
Renew(p, x) ==
  /\ poll[p].pc = "none" /\ online
  /\ request[x] # NoPoll /\ request[x] \notin pending
  /\ request' = [request EXCEPT ![x] = p]
  /\ Open(p, x)
  /\ UNCHANGED target

Requested == {x \in Contact : request[x] # NoPoll}
Evictable == {x \in Requested : request[x] \notin pending}

Room == IF Cardinality(Requested) < MaxRequests THEN {{}} ELSE {{x} : x \in Evictable}

New(p, x) ==
  /\ poll[p].pc = "none" /\ online
  /\ request[x] = NoPoll
  /\ \E evicted \in Room :
       request' = [y \in Contact |-> IF y = x THEN p
                                     ELSE IF y \in evicted THEN NoPoll ELSE request[y]]
  /\ target' \in Linked(target, x, epoch)
  /\ Open(p, x)

\* 409 without a connection, 429 without room.
Refuse(p, x) ==
  /\ poll[p].pc = "none"
  /\ ~online \/ (request[x] = NoPoll /\ Room = {})
  /\ Asked(p, x, "failed", NoPoll)
  /\ UNCHANGED <<epoch, online, requests, target>>

-----------------------------------------------------------------------------
(* The action of a request *)

\* Mutant: whatever request the contact has is settled.
AnyOwner(p) == request[poll[p].id] # NoPoll

Owner(p) == request[poll[p].id] = p

\* settled.
SettleRequest(p) ==
  IF Owner(p)
  THEN /\ pending' = pending \ {request[poll[p].id]}
       /\ request' = IF p \in completed' THEN request
                     ELSE [request EXCEPT ![poll[p].id] = NoPoll]
  ELSE UNCHANGED <<pending, request>>

\* The action ends.  Its promise decides the request unless the timer has.
WorkEnds(p, ok) ==
  /\ work' = [work EXCEPT ![p] = "over"]
  /\ IF p \in expired
     THEN UNCHANGED <<outcome, completed, poll>>
     ELSE LET good == ok /\ poll[p].epoch = epoch IN
          /\ outcome' = [outcome EXCEPT ![p] = IF good THEN "ok" ELSE "failed"]
          /\ completed' = IF good THEN completed \union {p} ELSE completed
          /\ Tell(p, good)
  /\ SettleRequest(p)
  /\ UNCHANGED expired

ReadMapping(p) ==
  /\ work[p] = "queued" /\ Current(p)
  /\ work' = [work EXCEPT ![p] = "mapping"]
  /\ UNCHANGED <<epoch, online, request, pending, completed, outcome, expired, poll, target>>

StillWanted(p) == Current(p) /\ Active(p)

CallProvider(p) ==
  /\ work[p] = "mapping" /\ StillWanted(p)
  /\ target' \in Linked(target, poll[p].id, poll[p].epoch)
  /\ work' = [work EXCEPT ![p] = "calling"]
  /\ UNCHANGED <<epoch, online, request, pending, completed, outcome, expired, poll>>

ProviderAnswers(p) ==
  /\ work[p] = "calling"
  /\ WorkEnds(p, Current(p))
  /\ UNCHANGED <<epoch, online, target>>

\* An await rejects, or the connection or the time is over after it.
WorkFails(p) ==
  /\ Unsettled(p)
  /\ WorkEnds(p, FALSE)
  /\ UNCHANGED <<epoch, online, target>>

Timeout(p) ==
  /\ Unsettled(p) /\ p \notin expired
  /\ expired' = expired \union {p}
  /\ outcome' = [outcome EXCEPT ![p] = "failed"]
  /\ Tell(p, FALSE)
  /\ UNCHANGED <<epoch, online, request, pending, completed, work, target>>

Decided(q) == outcome[q] # "none"

JoinedReturns(p) ==
  /\ poll[p].pc = "joined" /\ Decided(poll[p].of)
  /\ Tell(p, outcome[poll[p].of] = "ok")
  /\ UNCHANGED <<epoch, online, requests, target>>

-----------------------------------------------------------------------------
(* The socket *)

Cleared == [x \in Contact |-> NoPoll]

\* detachSocket clears the state.
Clear ==
  /\ epoch < MaxEpoch /\ online
  /\ online' = FALSE /\ epoch' = epoch + 1
  /\ request' = Cleared
  /\ target' = Absent
  /\ UNCHANGED <<pending, completed, outcome, expired, work, poll>>

Opens ==
  /\ ~online
  /\ online' = TRUE
  /\ UNCHANGED <<epoch, requests, poll, target>>

Ask(p) == \E x \in Contact :
  Join(p, x) \/ AnsweredRecently(p, x) \/ Renew(p, x) \/ New(p, x) \/ Refuse(p, x)

Works(p) == ReadMapping(p) \/ CallProvider(p) \/ ProviderAnswers(p) \/ WorkFails(p)

PresenceNext ==
  \/ \E p \in Poll : Ask(p) \/ Works(p) \/ Timeout(p) \/ JoinedReturns(p)
  \/ Clear \/ Opens

PresenceSpec == PresenceInit /\ [][PresenceNext]_presenceVars

\* Timers fire; the provider may never answer.
PresenceFairness == \A p \in Poll : WF_presenceVars(Timeout(p)) /\ WF_presenceVars(JoinedReturns(p))

-----------------------------------------------------------------------------
(* Properties *)

\* The type of every variable; the table holds requests of the connection that is open now,
\* each under its contact.
PresenceTypeOK ==
  /\ epoch \in 1 .. MaxEpoch /\ online \in BOOLEAN
  /\ request \in [Contact -> Poll \union {NoPoll}]
  /\ {pending, completed, expired} \subseteq SUBSET Poll
  /\ outcome \in [Poll -> {"none", "ok", "failed"}]
  /\ work \in [Poll -> {"none", "queued", "mapping", "calling", "over"}]
  /\ poll \in [Poll -> [pc : {"none", "joined", "waiting", "ok", "failed"}, id : Contact,
                        epoch : 0 .. MaxEpoch, of : Poll \union {NoPoll}]]
  /\ target \in [Contact -> 0 .. MaxEpoch]
  /\ \A x \in Requested : poll[request[x]].id = x /\ poll[request[x]].epoch = epoch

\* On one connection a contact has at most one subscription under way, however often
\* it is asked for and however many have timed out, and all of them are in the table.
OneSubscription == \A p \in Poll :
  Unsettled(p) /\ poll[p].epoch = epoch => request[poll[p].id] = p /\ p \in pending

\* So the provider never has more of them than the table holds.
RequestsBounded ==
  /\ Cardinality(Requested) <= MaxRequests
  /\ Cardinality({p \in Poll : Unsettled(p) /\ poll[p].epoch = epoch}) <= MaxRequests

\* What a contact is known by comes from the connection that is open now, whenever
\* the provider of an earlier one answers.
OnlyThisConnection == \A x \in Contact : target[x] \in {0, epoch}

\* Subscriptions are shared and bounded, and belong to the connection that is open.
PresenceSafety == PresenceTypeOK /\ OneSubscription /\ RequestsBounded /\ OnlyThisConnection

\* Every poll is answered, even if the provider never answers.
PollsAnswered == \A p \in Poll : []<>(poll[p].pc \notin {"waiting", "joined"})
=============================================================================
