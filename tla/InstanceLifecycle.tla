------------------------- MODULE InstanceLifecycle -------------------------
(***************************************************************************)
(* One WhatsApp instance: its socket and the generation that owns it, the  *)
(* setup of a socket, the reconnect timer, the queue of socket events, the *)
(* writes of the authentication state, shutdown, and the lifecycle calls   *)
(* (connect, disconnect, delete) that the controller runs one at a time.   *)
(*                                                                         *)
(* A socket is named by the generation that made it.  What a connection    *)
(* receives is a numbered event (a ticket); its task is the handler of     *)
(* that event, cut at its awaits.  The authentication state is its version *)
(* in memory, in the store, and waiting to be stored (`unsaved').          *)
(***************************************************************************)
EXTENDS Naturals

CONSTANTS
  Ticket,     \* bound: numbers of the socket events, 1 .. n
  QrLimit,    \* dependencies.qrLimit
  Limits      \* bounds: the kinds in Bounded happen as often as one of these allows

\* Transport failures (a login that stalls is one), logouts by the phone, lifecycle
\* calls, failing tasks and writes of a socket, failing setups, failing writes of a shutdown or a call.
Bounded == {"close", "logout", "call", "fail", "setup", "drain"}

ASSUME TicketAssumption == Ticket \subseteq Nat \ {0}
ASSUME LimitAssumption ==
  /\ QrLimit \in Nat
  /\ Limits \subseteq [Bounded -> Nat]

VARIABLES
  gen,        \* this.generation
  stopped,    \* this.stopped
  revoked,    \* this.revoked
  draining,   \* this.draining
  sock,       \* this.sock, 0 when undefined
  live,       \* sockets made and not ended
  opened,     \* this.connectedAt # 0
  broken,     \* the transport of this.sock is closed and nobody was told
  status,     \* instanceConnection[key].connectionStatus
  timer,      \* this.retryTimer
  setup,      \* this.setupTask
  start,      \* this.startTask
  task,       \* the handlers of the socket events (this.eventTasks)
  resetting,  \* the background reset of revoked credentials
  down,       \* this.shutdownTask
  qrCount,    \* this.qrCount
  code,       \* this.qrCode / pairingCode: the generation that got it
  linked,     \* hasLinkedCredentials(this.auth.state.creds)
  mem,        \* version of auth.state.creds
  stored,     \* version in the store, 0 when removed
  unsaved,    \* version whose write has not been confirmed, 0 when none
  present,    \* instances[key] is this object
  call,       \* the lifecycle call in progress
  refused,    \* history: the device of these credentials is known to be revoked
  spent       \* how often each bounded kind has happened

control   == <<gen, stopped, revoked, draining>>
transport == <<sock, live, opened, broken, status>>
startup   == <<timer, setup, start>>
work      == <<task, resetting>>
codes     == <<qrCount, code>>
auth      == <<linked, mem, stored, unsaved, refused>>
owner     == <<present, call>>
vars == <<control, transport, startup, work, down, codes, auth, owner, spent>>

-----------------------------------------------------------------------------
Updates == {"open", "qr", "connecting"}     \* kinds of connection.update

NoSetup == [pc |-> "none", gen |-> 0]
NoTask  == [pc |-> "none", kind |-> "data", gen |-> 0, ver |-> 0]
NoCall  == [op |-> "none", pc |-> "idle", sock |-> 0]

Active  == {"queued", "work", "limit", "show", "saving"}
Tasks   == {t \in Ticket : task[t].pc \in Active}
Saving  == {t \in Ticket : task[t].pc = "saving"}

Spend(kind) ==
  /\ spent' = [spent EXCEPT ![kind] = @ + 1]
  /\ \E limit \in Limits : \A k \in Bounded : spent'[k] <= limit[k]

\* Mutant: a late handler only looks at stopped.
NotStopped(g) == ~stopped

\* !this.stopped && generation === this.generation
Current(g) == ~stopped /\ gen = g

Init ==
  /\ gen = 0 /\ stopped = TRUE /\ revoked = FALSE /\ draining = FALSE
  /\ sock = 0 /\ live = {} /\ opened = FALSE /\ broken = FALSE /\ status = "OFFLINE"
  /\ timer = FALSE /\ setup = NoSetup /\ start = "none"
  /\ task = [t \in Ticket |-> NoTask]
  /\ resetting = FALSE /\ down = "none" /\ qrCount = 0 /\ code = 0
  /\ linked \in BOOLEAN
  /\ mem = 1 /\ stored = 1 /\ unsaved = 0 /\ refused = FALSE
  /\ present = FALSE /\ call = NoCall
  /\ spent = [k \in Bounded |-> 0]

-----------------------------------------------------------------------------
(* Pieces several handlers share *)

\* Mutant: the generation is taken back.
PreviousGeneration == gen - 1

NextGeneration == gen + 1

\* old.end()
Ended == live \ {sock}

\* detachSocket(): the listeners are removed and the socket is ended.
Detach ==
  /\ sock' = 0
  /\ live' = Ended
  /\ broken' = FALSE

\* Mutant: a lost connection does not ask for another attempt.
NeverRetries(revocation) == FALSE

\* closeSocket schedules a reconnect unless the device was revoked.
Retries(revocation) == ~revocation

\* closeSocket(generation, ...) of the current generation.
CloseSocket(revocation) ==
  /\ gen' = NextGeneration
  /\ stopped' = revocation
  /\ revoked' = revocation
  /\ status' = IF revocation THEN "REMOVED" ELSE "OFFLINE"
  /\ Detach
  /\ opened' = FALSE
  /\ code' = 0
  /\ resetting' = (resetting \/ revocation)
  /\ refused' = (refused \/ revocation)
  /\ timer' = (timer \/ Retries(revocation))

\* What a failed handler or write of generation g does: closeSocket, or nothing.
CloseAfterFailure(g) ==
  IF Current(g) THEN CloseSocket(FALSE)
  ELSE UNCHANGED <<gen, stopped, revoked, transport, timer, resetting, code, refused>>

\* startSocket(): join the setup there is, or begin one.
StartSocket ==
  IF setup.pc # "none" THEN UNCHANGED <<gen, sock, live, broken, setup>>
  ELSE /\ gen' = NextGeneration
       /\ setup' = [pc |-> "settle", gen |-> NextGeneration]
       /\ Detach

\* create() of an instance without a live socket.
Create ==
  /\ stopped' = FALSE
  /\ qrCount' = 0 /\ code' = 0
  /\ status' = "OFFLINE"
  /\ start' = "starting"
  /\ StartSocket

\* reset(): fresh credentials, stored; what was unsaved belongs to the old ones.
FreshCredentials ==
  /\ mem' = mem + 1 /\ stored' = mem + 1 /\ unsaved' = 0
  /\ linked' = FALSE /\ refused' = FALSE

\* flush(): the unsaved version is written.
Flush ==
  /\ stored' = IF unsaved = 0 THEN stored ELSE unsaved
  /\ unsaved' = 0

-----------------------------------------------------------------------------
(* Setup of a socket *)

\* The setup task has settled; startAndWait returns or waits for the first code.
EndSetup ==
  /\ setup' = NoSetup
  /\ start' = IF start = "starting"
              THEN IF linked \/ stopped THEN "none" ELSE "waiting"
              ELSE start

\* Promise.allSettled([...this.authOperations])
AuthSettled == Saving = {}

\* The pending authentication operations have settled and drain() has flushed.
SetupSettle ==
  /\ setup.pc = "settle"
  /\ AuthSettled
  /\ Flush
  /\ IF Current(setup.gen)
     THEN /\ setup' = [setup EXCEPT !.pc = IF linked THEN "save" ELSE "open"]
          /\ status' = "OFFLINE"
          /\ UNCHANGED start
     ELSE EndSetup /\ UNCHANGED status
  /\ UNCHANGED <<control, sock, live, opened, broken, timer, work, down, codes, linked,
                 mem, refused, owner, spent>>

\* Linked credentials are saved again before the transport is opened.
SetupSave ==
  /\ setup.pc = "save"
  /\ stored' = mem /\ unsaved' = 0
  /\ IF Current(setup.gen)
     THEN setup' = [setup EXCEPT !.pc = "open"] /\ UNCHANGED start
     ELSE EndSetup
  /\ UNCHANGED <<control, transport, timer, work, down, codes, linked, mem, refused,
                 owner, spent>>

\* Mutant: nothing is checked after the last await.
StillWanted(g) == TRUE

\* The check after genProxy(), the last await before the socket.
MayOpen(g) == Current(g)

\* makeSocket and attachEvents.
SetupOpen ==
  /\ setup.pc = "open"
  /\ IF MayOpen(setup.gen)
     THEN /\ sock' = setup.gen
          /\ live' = live \union {setup.gen}
          /\ opened' = FALSE /\ broken' = FALSE
     ELSE UNCHANGED <<sock, live, opened, broken>>
  /\ EndSetup
  /\ UNCHANGED <<control, status, timer, work, down, codes, auth, owner, spent>>

\* drain, loadAuth, saveCreds or genProxy threw: the credentials stay and
\* scheduleReconnect asks for another attempt.
SetupFail ==
  /\ setup.pc # "none"
  /\ setup.pc = "settle" => AuthSettled
  /\ Spend("setup")
  /\ setup' = NoSetup
  /\ start' = IF start = "starting" THEN "none" ELSE start
  /\ IF stopped \/ timer THEN UNCHANGED <<timer, status>>
     ELSE timer' = TRUE /\ status' = "OFFLINE"
  /\ UNCHANGED <<control, sock, live, opened, broken, work, down, codes, auth, owner>>

\* startAndWait stops waiting: the first code is there, or ten seconds are over.
StartReturns ==
  /\ start = "waiting"
  /\ start' = "none"
  /\ UNCHANGED <<control, transport, timer, setup, work, down, codes, auth, owner,
                 spent>>

\* The callback of the reconnect timer.
TimerFires ==
  /\ timer
  /\ timer' = FALSE
  /\ IF stopped THEN UNCHANGED <<gen, sock, live, broken, setup>> ELSE StartSocket
  /\ UNCHANGED <<stopped, revoked, draining, opened, status, start, work, down, codes,
                 auth, owner, spent>>

-----------------------------------------------------------------------------
(* What the socket reports.  Its listeners exist while it is this.sock. *)

NextTicket == {t \in Ticket : task[t].pc = "none" /\ \A u \in Ticket :
                                u < t => task[u].pc # "none"}

\* A new event of this.sock; its handler is queued or, for credentials, running.
Report(kind, pc, version) ==
  /\ sock # 0
  /\ \E t \in NextTicket :
       task' = [task EXCEPT ![t] = [pc |-> pc, kind |-> kind, gen |-> sock, ver |-> version]]

\* The handshake is complete: the status changes at once, the rest is queued.
SockOpens ==
  /\ linked /\ ~opened /\ ~broken /\ ~refused
  /\ Report("open", "queued", 0)
  /\ status' = "ONLINE" /\ opened' = TRUE
  /\ UNCHANGED <<control, sock, live, broken, startup, resetting, down, codes, auth,
                 owner, spent>>

SockConnecting ==
  /\ ~opened
  /\ Report("connecting", "queued", 0)
  /\ status' = "OFFLINE"
  /\ UNCHANGED <<control, sock, live, opened, broken, startup, resetting, down, codes,
                 auth, owner, spent>>

\* A code to scan, or messages, history, contacts and chats to import.
SockReports ==
  /\ \/ ~linked /\ Report("qr", "queued", 0)
     \/ Report("data", "queued", 0)
  /\ UNCHANGED <<control, transport, startup, resetting, down, codes, auth, owner,
                 spent>>

\* creds.update: the credentials have changed, possibly because the device was
\* linked, and are saved outside the queue.
CredsUpdate ==
  /\ ~refused
  /\ Report("creds", "saving", mem + 1)
  /\ mem' = mem + 1
  /\ linked' \in {linked, TRUE}
  /\ UNCHANGED <<control, transport, startup, resetting, down, codes, stored, unsaved,
                 refused, owner, spent>>

\* connection.update close, for any reason but a logout.
SockCloses ==
  /\ sock # 0
  /\ Spend("close")
  /\ CloseSocket(FALSE)
  /\ UNCHANGED <<draining, setup, start, task, down, qrCount, linked, mem, stored,
                 unsaved, owner>>

\* connection.update close because the device was revoked on the phone.
PhoneLogout ==
  /\ sock # 0 /\ linked
  /\ Spend("logout")
  /\ CloseSocket(TRUE)
  /\ UNCHANGED <<draining, setup, start, task, down, qrCount, linked, mem, stored,
                 unsaved, owner>>

\* The transport closes and no event says so.
SilentClose ==
  /\ sock # 0 /\ ~broken
  /\ Spend("close")
  /\ broken' = TRUE
  /\ UNCHANGED <<control, sock, live, opened, status, startup, work, down, codes, auth,
                 owner>>

\* ONLINE, and the transport says it is not open.
TransportClosed == status = "ONLINE" /\ broken

\* checkHealth(), from the supervisor's interval or from reconnect(): a transport
\* that closed silently, or a login that did not finish in its time.
CheckHealth ==
  /\ ~stopped /\ ~timer /\ setup.pc = "none" /\ sock # 0 /\ linked
  /\ \/ TransportClosed /\ UNCHANGED spent
     \/ ~opened /\ Spend("close")
  /\ CloseSocket(FALSE)
  /\ UNCHANGED <<draining, setup, start, task, down, qrCount, linked, mem, stored,
                 unsaved, owner>>

-----------------------------------------------------------------------------
(* The handlers of the socket events *)

Settled(t, pc) == task' = [task EXCEPT ![t].pc = pc]

\* The handlers of one socket run one after the other (eventTail).
First(t) ==
  \A u \in Tasks : u < t /\ task[u].gen = task[t].gen => task[u].kind = "creds"

\* Handlers of a former socket run only to drain what was received, and the
\* connection updates among them not at all.
Wanted(t) == Current(task[t].gen) \/ (draining /\ task[t].kind \notin Updates)

\* A handler begins and runs to its first await, or has nothing to do (an import
\* while the connection is not online, an event of a socket that said it closed).
BeginTask(t) ==
  /\ task[t].pc = "queued"
  /\ First(t)
  /\ \/ /\ ~Wanted(t) \/ task[t].kind = "data"
        /\ Settled(t, "done") /\ UNCHANGED <<qrCount, code>>
     \/ /\ Wanted(t) /\ task[t].kind \in {"data", "connecting"}
        /\ Settled(t, "work") /\ UNCHANGED <<qrCount, code>>
     \/ /\ Wanted(t) /\ task[t].kind = "qr" /\ linked
        /\ Settled(t, "done") /\ UNCHANGED <<qrCount, code>>
     \/ /\ Wanted(t) /\ task[t].kind = "qr" /\ ~linked
        /\ qrCount' = qrCount + 1
        /\ Settled(t, IF qrCount >= QrLimit THEN "limit" ELSE "show")
        /\ UNCHANGED code
     \/ /\ Wanted(t) /\ task[t].kind = "open"
        /\ code' = 0
        /\ task' = [task EXCEPT ![t].pc = "saving", ![t].ver = mem]
        /\ UNCHANGED qrCount
  /\ UNCHANGED <<control, transport, startup, resetting, down, auth, owner, spent>>

\* The store and the outbox have taken what the handler had for them.
EndTask(t) ==
  /\ task[t].pc = "work"
  /\ Settled(t, "done")
  /\ UNCHANGED <<control, transport, startup, resetting, down, codes, auth, owner,
                 spent>>

\* The check after QRCode.toDataURL and requestPairingCode.
CodeWanted(g) == Current(g)

\* The code has been made: it is shown if its socket is still the current one.
ShowCode(t) ==
  /\ task[t].pc = "show"
  /\ IF CodeWanted(task[t].gen)
     THEN code' = task[t].gen /\ Settled(t, "work")
     ELSE Settled(t, "done") /\ UNCHANGED code
  /\ UNCHANGED <<control, transport, startup, resetting, down, qrCount, auth, owner,
                 spent>>

\* qrcode.limit has been queued for the receiver: the instance stops.  Nothing is
\* compared again after that await.
QrLimitReached(t) ==
  /\ task[t].pc = "limit"
  /\ Settled(t, "done")
  /\ stopped' = TRUE /\ gen' = NextGeneration
  /\ Detach
  /\ status' = "OFFLINE"
  /\ UNCHANGED <<revoked, draining, opened, startup, resetting, down, codes, auth,
                 owner, spent>>

\* A handler throws, at a store write or at an emit.
FailTask(t) ==
  /\ task[t].pc \in {"work", "show", "limit"}
  /\ Spend("fail")
  /\ Settled(t, "done")
  /\ CloseAfterFailure(task[t].gen)
  /\ UNCHANGED <<draining, setup, start, down, qrCount, linked, mem, stored, unsaved,
                 owner>>

\* Writes of the credentials are serialised in the order they were asked for.
FirstWrite(t) == \A u \in Saving : task[t].ver <= task[u].ver

\* saveCreds() of a creds.update or of the open handler is confirmed.
CredsSaved(t) ==
  /\ task[t].pc = "saving" /\ FirstWrite(t)
  /\ stored' = task[t].ver /\ unsaved' = 0
  /\ Settled(t, IF task[t].kind = "open" /\ Current(task[t].gen) THEN "work" ELSE "done")
  /\ UNCHANGED <<control, transport, startup, resetting, down, codes, linked, mem,
                 refused, owner, spent>>

\* Mutant: a value whose write failed is forgotten.
Forgotten(t) == 0

\* The value stays in the map of unsaved entries.
Kept(t) == task[t].ver

\* The write is refused: the value stays unsaved and the socket is closed.
CredsFail(t) ==
  /\ task[t].pc = "saving" /\ FirstWrite(t)
  /\ Spend("fail")
  /\ unsaved' = Kept(t)
  /\ Settled(t, "done")
  /\ CloseAfterFailure(task[t].gen)
  /\ UNCHANGED <<draining, setup, start, down, qrCount, linked, mem, stored, owner>>

\* The background reset after a revocation: it follows the pending writes.
ResetRevoked ==
  /\ resetting /\ AuthSettled
  /\ resetting' = FALSE
  /\ \/ FreshCredentials /\ revoked' = FALSE /\ UNCHANGED spent
     \/ Spend("drain") /\ UNCHANGED <<auth, revoked>>
  /\ UNCHANGED <<gen, stopped, draining, transport, startup, task, down, codes, owner>>

-----------------------------------------------------------------------------
(* performShutdown, joined by a second caller *)

BeginShutdown ==
  IF down # "none" THEN UNCHANGED <<control, sock, live, broken, timer, down>>
  ELSE /\ draining' = TRUE /\ stopped' = TRUE /\ gen' = NextGeneration
       /\ timer' = FALSE
       /\ Detach
       /\ down' = "setup"
       /\ UNCHANGED revoked

\* The setup task has settled.
ShutdownSetup ==
  /\ down = "setup" /\ setup.pc = "none"
  /\ Detach
  /\ down' = "drain"
  /\ UNCHANGED <<control, opened, status, startup, work, codes, auth, owner, spent>>

\* Mutant: the handlers of the events are not waited for.
WritesDone == AuthSettled

\* Promise.all(eventTasks), then Promise.allSettled(socketOperations).
Drained == Tasks = {} /\ ~resetting

ShutdownDrained ==
  /\ down = "drain" /\ Drained
  /\ down' = "auth"
  /\ UNCHANGED <<control, transport, startup, work, codes, auth, owner, spent>>

\* Mutant: revoked credentials whose reset failed are left as they are.
OnlyFlush == Flush /\ UNCHANGED <<revoked, linked, mem, refused>>

\* A reset that failed is tried again, or what is unsaved is flushed.
SettleAuth ==
  IF revoked THEN FreshCredentials /\ revoked' = FALSE
             ELSE Flush /\ UNCHANGED <<revoked, linked, mem, refused>>

\* Mutant: the status is left as it was.
StatusKept == status

FinalStatus == IF status = "REMOVED" THEN "REMOVED" ELSE "OFFLINE"

ShutdownAuth ==
  /\ down = "auth"
  /\ SettleAuth
  /\ status' = FinalStatus
  /\ down' = "report"
  /\ UNCHANGED <<gen, stopped, draining, sock, live, opened, broken, startup, work,
                 codes, owner, spent>>

\* Where the call that waits for the shutdown goes on.
AfterShutdown == IF call.op = "connect" THEN "create" ELSE "forget"

ShutdownEnds ==
  /\ down = "report"
  /\ down' = "none" /\ draining' = FALSE
  /\ call' = IF call.pc = "down" THEN [call EXCEPT !.pc = AfterShutdown] ELSE call
  /\ UNCHANGED <<gen, stopped, revoked, transport, startup, work, codes, auth, present,
                 spent>>

\* The reset, the drain or the last webhook failed: the callers get the error.
ShutdownFails ==
  /\ down \in {"auth", "report"}
  /\ Spend("drain")
  /\ down' = "none" /\ draining' = FALSE
  /\ call' = IF call.pc = "down" THEN NoCall ELSE call
  /\ UNCHANGED <<gen, stopped, revoked, transport, startup, work, codes, auth, present>>

-----------------------------------------------------------------------------
(* The lifecycle calls, which the controller runs one at a time *)

\* create of an instance that is not loaded, or its restoration at startup.
CallCreate ==
  /\ call.pc = "idle" /\ ~present
  /\ Spend("call")
  /\ present' = TRUE
  /\ call' = [op |-> "connect", pc |-> "start", sock |-> 0]
  /\ IF stored = 0 THEN mem' = mem + 1 /\ unsaved' = mem + 1 /\ linked' = FALSE
                   ELSE UNCHANGED <<linked, mem, unsaved>>
  /\ Create
  /\ UNCHANGED <<revoked, draining, opened, timer, work, down, stored, refused>>

\* connect of a loaded instance: the one that is connecting or connected is left
\* alone (checkHealth aside), a stopped one is shut down and created again.
CallConnect ==
  /\ call.pc = "idle" /\ present /\ start = "none"
  /\ stopped \/ (sock = 0 /\ ~timer /\ setup.pc = "none")
  /\ Spend("call")
  /\ call' = [op |-> "connect", pc |-> "down", sock |-> 0]
  /\ BeginShutdown
  /\ UNCHANGED <<opened, status, setup, start, work, codes, auth, present>>

ConnectCreates ==
  /\ call.pc = "create"
  /\ call' = [call EXCEPT !.pc = "start"]
  /\ Create
  /\ UNCHANGED <<revoked, draining, opened, timer, work, down, auth, present, spent>>

CallReturns ==
  /\ call.pc = "start" /\ start = "none"
  /\ call' = NoCall
  /\ UNCHANGED <<control, transport, startup, work, down, codes, auth, present, spent>>

\* disconnect: a linked device must be told first, through an open connection.
CallDisconnect ==
  /\ call.pc = "idle" /\ present
  /\ Spend("call")
  /\ \/ /\ linked /\ sock # 0 /\ status = "ONLINE" /\ ~broken
        /\ call' = [op |-> "disconnect", pc |-> "logout", sock |-> sock]
        /\ UNCHANGED <<control, sock, live, broken, timer, down>>
     \/ /\ ~linked
        /\ call' = [op |-> "disconnect", pc |-> "down", sock |-> 0]
        /\ BeginShutdown
  /\ UNCHANGED <<opened, status, setup, start, work, codes, auth, present>>

\* sock.logout(): the library tells the server and ends the socket itself, with
\* the reason of a logout; it fails if the transport was closed before.
LogoutSucceeds ==
  /\ call.pc = "logout" /\ sock = call.sock /\ ~broken
  /\ call' = [call EXCEPT !.pc = "leave"]
  /\ CloseSocket(TRUE)
  /\ UNCHANGED <<draining, setup, start, task, down, qrCount, linked, mem, stored,
                 unsaved, present, spent>>

LogoutFails ==
  /\ call.pc = "logout"
  /\ call' = NoCall
  /\ UNCHANGED <<control, transport, startup, work, down, codes, auth, present, spent>>

LeaveAfterLogout ==
  /\ call.pc = "leave"
  /\ call' = [call EXCEPT !.pc = "down"]
  /\ BeginShutdown
  /\ UNCHANGED <<opened, status, setup, start, work, codes, auth, present, spent>>

CallDelete ==
  /\ call.pc = "idle" /\ present
  /\ Spend("call")
  /\ call' = [op |-> "delete", pc |-> "down", sock |-> 0]
  /\ BeginShutdown
  /\ UNCHANGED <<opened, status, setup, start, work, codes, auth, present>>

\* auth.reset() of disconnect, and what it announces.
DisconnectForgets ==
  /\ call.pc = "forget" /\ call.op = "disconnect"
  /\ FreshCredentials
  /\ code' = 0 /\ status' = "REMOVED"
  /\ call' = NoCall
  /\ UNCHANGED <<control, sock, live, opened, broken, startup, work, down, qrCount,
                 present, spent>>

\* auth.remove() of clearInstance.
DeleteForgets ==
  /\ call.pc = "forget" /\ call.op = "delete"
  /\ stored' = 0 /\ unsaved' = 0
  /\ call' = [call EXCEPT !.pc = "clean"]
  /\ UNCHANGED <<control, transport, startup, work, down, codes, linked, mem, refused,
                 present, spent>>

\* The rows and the session directory are gone; the object is dropped.
DeleteCleans ==
  /\ call.pc = "clean"
  /\ status' = "REMOVED" /\ present' = FALSE
  /\ refused' = FALSE
  /\ call' = NoCall
  /\ UNCHANGED <<control, sock, live, opened, broken, startup, work, down, codes,
                 linked, mem, stored, unsaved, spent>>

\* A write of the call failed: it ends where it is.  When it is the last webhook
\* of delete, the instance is already REMOVED, and still there.
CallFails ==
  /\ call.pc \in {"forget", "clean"}
  /\ Spend("drain")
  /\ call' = NoCall
  /\ status' \in {status} \union {"REMOVED" : x \in {call.pc} \intersect {"clean"}}
  /\ UNCHANGED <<control, sock, live, opened, broken, startup, work, down, codes, auth,
                 present>>

-----------------------------------------------------------------------------
SetupStep == SetupSettle \/ SetupSave \/ SetupOpen
TaskStep(t) == BeginTask(t) \/ EndTask(t) \/ ShowCode(t) \/ QrLimitReached(t) \/ CredsSaved(t)
ShutdownStep == ShutdownSetup \/ ShutdownDrained \/ ShutdownAuth \/ ShutdownEnds
CallStep == ConnectCreates \/ CallReturns \/ LogoutFails \/ LeaveAfterLogout
              \/ DisconnectForgets \/ DeleteForgets \/ DeleteCleans
SockStep == SockOpens \/ SockConnecting \/ SockReports \/ CredsUpdate \/ SockCloses
              \/ PhoneLogout \/ SilentClose

Next ==
  \/ SetupStep \/ SetupFail \/ StartReturns \/ TimerFires
  \/ SockStep \/ CheckHealth
  \/ \E t \in Ticket : TaskStep(t) \/ FailTask(t) \/ CredsFail(t)
  \/ ResetRevoked
  \/ ShutdownStep \/ ShutdownFails
  \/ CallCreate \/ CallConnect \/ CallDisconnect \/ CallDelete
  \/ CallStep \/ LogoutSucceeds \/ CallFails

Spec == Init /\ [][Next]_vars

\* Every await of a write, a request with a timeout or a timer ends.  Nothing
\* obliges WhatsApp to open a connection or a user to call.
Fairness ==
  /\ WF_vars(SetupStep) /\ WF_vars(StartReturns) /\ WF_vars(TimerFires)
  /\ WF_vars(CheckHealth)
  /\ \A t \in Ticket : WF_vars(TaskStep(t))
  /\ WF_vars(ResetRevoked)
  /\ WF_vars(ShutdownStep)
  /\ WF_vars(CallStep)

FairSpec == Spec /\ Fairness

-----------------------------------------------------------------------------
(* Properties *)

FlagType ==
  /\ stopped \in BOOLEAN /\ revoked \in BOOLEAN /\ draining \in BOOLEAN
  /\ opened \in BOOLEAN /\ broken \in BOOLEAN /\ timer \in BOOLEAN
  /\ resetting \in BOOLEAN /\ linked \in BOOLEAN /\ refused \in BOOLEAN
  /\ present \in BOOLEAN

PlaceType ==
  /\ gen \in Nat /\ sock \in Nat /\ live \subseteq Nat
  /\ status \in {"ONLINE", "OFFLINE", "REMOVED"}
  /\ setup \in [pc : {"none", "settle", "save", "open"}, gen : Nat]
  /\ start \in {"none", "starting", "waiting"}
  /\ down \in {"none", "setup", "drain", "auth", "report"}
  /\ call \in [op : {"none", "connect", "disconnect", "delete"}, sock : Nat,
               pc : {"idle", "logout", "leave", "down", "create", "start", "forget", "clean"}]

TaskType ==
  task \in [Ticket -> [pc : Active \union {"none", "done"}, gen : Nat, ver : Nat,
                       kind : Updates \union {"data", "creds"}]]

CountType ==
  /\ qrCount \in Nat /\ code \in Nat
  /\ mem \in Nat /\ stored \in Nat /\ unsaved \in Nat
  /\ spent \in [Bounded -> Nat]

\* The type of every variable.
TypeOK == FlagType /\ PlaceType /\ TaskType /\ CountType

\* At most one socket of the instance has not been ended, and it is this.sock:
\* no setup, however late, leaves a second connection to the same account behind.
OneSocket == live \subseteq {sock} \ {0}

\* A single attempt at a time: while a socket exists or is being set up, no
\* reconnect is pending, and a cooldown in progress is not bypassed.
OneAttempt ==
  /\ timer => sock = 0 /\ (setup.pc = "none" \/ stopped)
  /\ sock # 0 => ~stopped /\ sock = gen /\ setup.pc = "none"

\* However setups, reconnects, failures and calls interleave, the account has one connection.
ConnectsOnce == OneSocket /\ OneAttempt

\* An instance that is not stopped is never silently dead: it has a socket, is
\* setting one up, or has a reconnect pending.
NeverAbandoned == ~stopped => sock # 0 \/ timer \/ setup.pc # "none"

\* Credentials known to be revoked never carry a connection again.
RevokedNeverReused == refused => live = {}

\* Nothing of the instance is going on.
Quiet ==
  /\ stopped /\ live = {} /\ ~timer /\ setup.pc = "none"
  /\ Tasks = {} /\ ~resetting

\* When shutdown has ended for a call, and when the instance has been deleted,
\* nothing is left that could write or connect behind the call's back.
QuietAfterShutdown ==
  (call.pc \in {"create", "forget", "clean"} \/ ~present) => Quiet

\* The code in the answer to connect is that of the socket which is waiting.
CodeOfCurrentSocket == code # 0 /\ ~stopped => code = sock

\* A connection is only shown as ONLINE while its socket is there, or while a
\* shutdown drains the work it received; a shutdown whose last writes failed (a
\* "drain" spent) may leave the old status behind.
OnlineHasSocket ==
  status = "ONLINE" /\ spent["drain"] = 0 => (sock # 0 /\ opened) \/ draining

\* What a client is shown, a code or a status, is that of the socket there is.
ShownIsTrue == CodeOfCurrentSocket /\ OnlineHasSocket

Opens == sock' # 0 /\ sock' # sock

\* A socket is opened only on credentials the store has, when no operation on
\* them is pending: a failed or late write never rolls the session back.  (A
\* deletion that failed after it had removed them leaves the store without any.)
OpensOnSavedAuth ==
  [][Opens => stored' \in {0, mem'} /\ unsaved' = 0 /\ Saving = {}]_vars

\* Handlers of a former socket change nothing of the connection that replaced it,
\* at whichever await they were when it was replaced.  The one exception is the
\* handler of the QR limit, which ReplacementSpared is about.
FormerSocketInert ==
  [][\A t \in Ticket :
       t \in Tasks /\ task'[t].pc # task[t].pc /\ (stopped \/ task[t].gen # gen)
         /\ task[t].pc # "limit" =>
         UNCHANGED <<gen, stopped, sock, live, status, timer, code>>]_vars

\* Events and errors of the previous generation do not end the new connection.
ReplacementSpared ==
  [][\A t \in Tasks :
       task'[t].pc # task[t].pc /\ sock # 0 /\ sock # task[t].gen => sock' = sock]_vars

\* An instance that is not stopped gets a socket again, whatever failed before.
KeepsTrying == ~stopped ~> stopped \/ sock # 0

\* A linked session whose transport closed silently does not keep that socket.
SilentCloseNoticed == broken /\ linked /\ opened ~> ~broken

\* An instance that is wanted does not stay without a working connection.
Reconnects == KeepsTrying /\ SilentCloseNoticed
=============================================================================
