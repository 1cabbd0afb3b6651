--------------------------- MODULE ContactSafety ---------------------------
(***************************************************************************)
(* The gate for contact writes of one socket: one call at a time, refused  *)
(* unless the synchronization looks healthy; the write itself is made by   *)
(* the provider, which calls back a guard before it encodes and before it  *)
(* sends.  What cannot be told to be unsent blocks the gate for good.      *)
(*                                                                         *)
(* The provider (external) is as the build's patch leaves it, or not       *)
(* patched in the running process.  The clock (minimum uptime, cooldown)   *)
(* may refuse any call.  What the plan says is in ContactPlan.             *)
(***************************************************************************)
EXTENDS Integers

CONSTANTS
  ContactCall,  \* calls of contactName on this socket, each made at most once
  NoContact     \* no call

ASSUME ContactAssumption == NoContact \notin ContactCall

VARIABLES
  mode,        \* CONTACT_SYNC_MODE: "off", "check" or "write"
  installed,   \* the patched provider was found on disk
  patched,     \* the provider that runs calls the guard
  ours,        \* the socket is the instance's, and connected
  opened,      \* setConnected(true) is the last
  issue,       \* the provider logged a failed synchronization
  uncertain,   \* outcomeUncertain
  busy,        \* busy
  prepared,    \* the call whose write is allowed
  visited,     \* the stages the guard let through
  keyId,       \* the provider's current key
  writeKey,    \* the key the provider writes with
  step,        \* where each call is
  answer,      \* what each call was told
  sent,        \* the calls whose request was sent
  confirmed    \* the calls whose request the server acknowledged

setting == <<mode, installed, patched>>
socket == <<ours, opened, issue, keyId>>
gate == <<uncertain, busy, prepared, visited>>
contactVars == <<setting, socket, gate, writeKey, step, answer, sent, confirmed>>

Preflight == {"resolve", "readKey", "sync", "readState"}
Guards == {"guardEncode", "guardSend"}
Reading == {"readEncode", "readSend"}
Providing == {"resync", "encode", "send", "query", "commit"} \union Guards \union Reading
Under == Preflight \union Providing

ContactInit ==
  /\ mode \in {"off", "check", "write"} /\ installed \in BOOLEAN /\ patched \in BOOLEAN
  /\ ours = TRUE /\ opened = FALSE /\ issue = FALSE /\ keyId = 1
  /\ uncertain = FALSE /\ busy = FALSE /\ prepared = NoContact /\ visited = {}
  /\ writeKey = 1
  /\ step = [c \in ContactCall |-> "none"]
  /\ answer = [c \in ContactCall |-> "none"]
  /\ sent = {} /\ confirmed = {}

\* Mutant: an uncertain outcome does not block the gate.
ForgetsUncertain == ~issue

Healthy == ~uncertain /\ ~issue

-----------------------------------------------------------------------------
(* execute *)

Refused(c) ==
  /\ step[c] = "none"
  /\ step' = [step EXCEPT ![c] = "over"]
  /\ answer' = [answer EXCEPT ![c] = "blocked"]
  /\ UNCHANGED <<setting, socket, gate, writeKey, sent, confirmed>>

Taken == TRUE

Begin(c) ==
  /\ step[c] = "none"
  /\ mode # "off" /\ ~busy /\ Healthy /\ opened
  /\ mode = "write" => installed
  /\ busy' = Taken
  /\ step' = [step EXCEPT ![c] = "resolve"]
  /\ UNCHANGED <<setting, socket, uncertain, prepared, visited, writeKey, answer, sent, confirmed>>

Freed == FALSE

Over(c, reply) ==
  /\ step' = [step EXCEPT ![c] = "over"]
  /\ answer' = [answer EXCEPT ![c] = reply]
  /\ prepared' = NoContact /\ busy' = Freed

\* Mutant: any error before the second stage counts as a refusal.
AnyDenial(ownError, acknowledged) == "send" \notin visited /\ ~acknowledged

\* A refusal of the gate's own, before the request could be sent.
DeniedBeforeSend(ownError, acknowledged) ==
  ownError /\ "send" \notin visited /\ ~acknowledged

\* catch and finally.
Throw(c, ownError, acknowledged) ==
  /\ uncertain' = (uncertain \/ (prepared = c /\ ~DeniedBeforeSend(ownError, acknowledged)))
  /\ Over(c, IF uncertain' THEN "uncertain" ELSE IF ownError THEN "refused" ELSE "failed")

\* An await of the preflight is over.  Only the read of the key is not followed
\* by a look at the health.
Checked(c) == ours /\ (step[c] # "readKey" => Healthy)

PreflightStep(c, from, to) ==
  /\ step[c] = from /\ Checked(c)
  /\ step' = [step EXCEPT ![c] = to]
  /\ UNCHANGED <<setting, socket, gate, writeKey, answer, sent, confirmed>>

Prefly(c) ==
  \/ PreflightStep(c, "resolve", "readKey")
  \/ PreflightStep(c, "readKey", "sync")
  \/ PreflightStep(c, "sync", "readState")

\* Mode "check" ends here.
Diagnose(c) ==
  /\ step[c] = "readState" /\ Checked(c) /\ mode = "check"
  /\ Over(c, "refused")
  /\ UNCHANGED <<setting, socket, uncertain, visited, writeKey, sent, confirmed>>

StartWrite(c) ==
  /\ step[c] = "readState" /\ Checked(c) /\ mode = "write"
  /\ prepared' = c /\ visited' = {}
  /\ step' = [step EXCEPT ![c] = "resync"]
  /\ writeKey' = keyId
  /\ UNCHANGED <<setting, socket, uncertain, busy, answer, sent, confirmed>>

\* An await rejects, the connection or the health has changed, the plan, the key
\* or the state is not accepted.
PreflightFails(c) ==
  /\ step[c] \in Preflight
  /\ \E ownError \in BOOLEAN : Throw(c, ownError, FALSE)
  /\ UNCHANGED <<setting, socket, visited, writeKey, sent, confirmed>>

\* The write has resolved.
Acknowledged(c) ==
  /\ step[c] = "commit"
  /\ IF ours /\ Healthy /\ visited = {"encode", "send"}
     THEN Over(c, "ok") /\ UNCHANGED uncertain
     ELSE Throw(c, ours, TRUE)
  /\ UNCHANGED <<setting, socket, visited, writeKey, sent, confirmed>>

-----------------------------------------------------------------------------
(* guardProviderWrite *)

\* What is looked at before the key is read, and again after it.
Authorized == mode = "write" /\ prepared # NoContact /\ busy
MayGoOn == ours /\ Healthy

GuardAsks(c) ==
  /\ step[c] \in Guards
  /\ Authorized /\ MayGoOn /\ keyId = writeKey
  /\ step' = [step EXCEPT ![c] = IF @ = "guardEncode" THEN "readEncode" ELSE "readSend"]
  /\ UNCHANGED <<setting, socket, gate, writeKey, answer, sent, confirmed>>

GuardPasses(c) ==
  /\ step[c] \in Reading /\ MayGoOn
  /\ visited' = visited \union {IF step[c] = "readEncode" THEN "encode" ELSE "send"}
  /\ step' = [step EXCEPT ![c] = IF @ = "readEncode" THEN "encode" ELSE "send"]
  /\ UNCHANGED <<setting, socket, uncertain, busy, prepared, writeKey, answer, sent, confirmed>>

\* The gate is unhealthy, the key has changed, or the state or key is not valid.
GuardDenies(c) ==
  /\ step[c] \in Guards \union Reading /\ ours
  /\ Throw(c, TRUE, FALSE)
  /\ UNCHANGED <<setting, socket, visited, writeKey, sent, confirmed>>

-----------------------------------------------------------------------------
(* The provider's appPatch (external) *)

Resynced(c) ==
  /\ step[c] = "resync"
  /\ step' = [step EXCEPT ![c] = IF patched THEN "guardEncode" ELSE "encode"]
  /\ UNCHANGED <<setting, socket, gate, writeKey, answer, sent, confirmed>>

Encoded(c) ==
  /\ step[c] = "encode"
  /\ step' = [step EXCEPT ![c] = IF patched THEN "guardSend" ELSE "send"]
  /\ UNCHANGED <<setting, socket, gate, writeKey, answer, sent, confirmed>>

Sends(c) ==
  /\ step[c] = "send"
  /\ sent' = sent \union {c}
  /\ step' = [step EXCEPT ![c] = "query"]
  /\ UNCHANGED <<setting, socket, gate, writeKey, answer, confirmed>>

ServerAnswers(c) ==
  /\ step[c] = "query"
  /\ confirmed' = confirmed \union {c}
  /\ step' = [step EXCEPT ![c] = "commit"]
  /\ UNCHANGED <<setting, socket, gate, writeKey, answer, sent>>

\* Whatever it awaits rejects, also after the server has answered.
ProviderFails(c) ==
  /\ step[c] \in Providing
  /\ Throw(c, FALSE, FALSE)
  /\ UNCHANGED <<setting, socket, visited, writeKey, sent, confirmed>>

-----------------------------------------------------------------------------
(* The socket *)

SetConnected ==
  /\ ours /\ ~opened
  /\ opened' = TRUE
  /\ UNCHANGED <<setting, ours, issue, keyId, gate, writeKey, step, answer, sent, confirmed>>

\* The socket closes: the instance opens another, with a gate of its own.
Replaced ==
  /\ ours
  /\ ours' = FALSE /\ opened' = FALSE
  /\ UNCHANGED <<setting, issue, keyId, gate, writeKey, step, answer, sent, confirmed>>

Observe ==
  /\ ~issue
  /\ issue' = TRUE
  /\ UNCHANGED <<setting, ours, opened, keyId, gate, writeKey, step, answer, sent, confirmed>>

KeyRotates ==
  /\ keyId = 1
  /\ keyId' = 2
  /\ UNCHANGED <<setting, ours, opened, issue, gate, writeKey, step, answer, sent, confirmed>>

Patching(c) == Resynced(c) \/ Encoded(c) \/ Sends(c) \/ ServerAnswers(c) \/ ProviderFails(c)
Guarding(c) == GuardAsks(c) \/ GuardPasses(c) \/ GuardDenies(c)
Executing(c) ==
  Prefly(c) \/ Diagnose(c) \/ StartWrite(c) \/ PreflightFails(c) \/ Acknowledged(c)

Progress(c) == Executing(c) \/ Guarding(c) \/ Patching(c)

ContactNext ==
  \/ \E c \in ContactCall : Refused(c) \/ Begin(c) \/ Progress(c)
  \/ SetConnected \/ Replaced \/ Observe \/ KeyRotates

ContactSpec == ContactInit /\ [][ContactNext]_contactVars

\* Every await ends: the provider's queries time out.
ContactFairness == \A c \in ContactCall : WF_contactVars(Progress(c))

-----------------------------------------------------------------------------
(* Properties *)

\* The type of every variable; the gate is taken exactly while a call is under way,
\* one at a time, and a write is prepared only for that call.
ContactTypeOK ==
  /\ mode \in {"off", "check", "write"}
  /\ {installed, patched, ours, opened, issue, uncertain, busy} \subseteq BOOLEAN
  /\ prepared \in ContactCall \union {NoContact}
  /\ visited \subseteq {"encode", "send"} /\ {keyId, writeKey} \subseteq {1, 2}
  /\ step \in [ContactCall -> Under \union {"none", "over"}]
  /\ answer \in [ContactCall ->
       {"none", "blocked", "ok", "refused", "failed", "uncertain"}]
  /\ sent \subseteq ContactCall /\ confirmed \subseteq sent
  /\ busy <=> \E c \in ContactCall : step[c] \in Under
  /\ \A c, d \in ContactCall : step[c] \in Under /\ step[d] \in Under => c = d
  /\ \A c \in ContactCall : step[c] \in Providing <=> prepared = c

\* A call that is told that nothing was sent has sent nothing; one that is told that
\* the contact was saved had its request acknowledged.
TruthfulAnswers == \A c \in ContactCall :
  /\ answer[c] \in {"blocked", "refused", "failed"} => c \notin sent
  /\ answer[c] = "ok" => c \in confirmed

\* One call at a time is under way, and what it is told is true.
GateSafety == ContactTypeOK /\ TruthfulAnswers

\* While the outcome of one request is unknown, no other is sent on the socket.
NoWriteAfterDoubt ==
  [][\A c \in sent' \ sent : \A d \in sent : answer[d] = "ok"]_contactVars

\* The gate does not stay taken.
GateFreed == []<>~busy
=============================================================================
