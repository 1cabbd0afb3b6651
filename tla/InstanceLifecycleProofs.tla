---------------------- MODULE InstanceLifecycleProofs ----------------------
(* Theorems about the lifecycle of an instance, for any events and limits. *)
EXTENDS InstanceLifecycle, TLAPS

\* There is one socket and one attempt; a setup that is still wanted is of the
\* present generation; handlers are of earlier ones while a socket is set up.
SocketInv ==
  /\ OneSocket
  /\ OneAttempt
  /\ setup.pc # "none" => setup.gen # 0 /\ (stopped \/ setup.gen = gen)
  /\ \A t \in Ticket : /\ task[t].gen <= gen
                       /\ setup.pc # "none" => task[t].gen < gen

\* What a call finds once its shutdown has ended.
AtRest ==
  /\ stopped /\ ~timer /\ setup.pc = "none"
  /\ Tasks = {} /\ ~resetting /\ ~refused

\* The phases of a shutdown, and what each has established.
ShutdownInv ==
  /\ down # "none" <=> call.pc = "down"
  /\ down # "none" => stopped /\ ~timer
  /\ down \in {"drain", "auth", "report"} => setup.pc = "none"
  /\ down \in {"auth", "report"} => Tasks = {} /\ ~resetting
  /\ down = "report" => ~refused
  /\ call.pc \in {"create", "forget", "clean"} \/ ~present => AtRest
  /\ call.pc = "logout" => call.sock # 0
  /\ ~present => call.pc = "idle"

\* Of the credentials, the last version that was to be stored is the present one.
AuthInv ==
  /\ mem # 0
  /\ refused => stopped /\ revoked
  /\ setup.pc \in {"save", "open"} => Saving = {} /\ unsaved = 0
  /\ \A t \in Saving : task[t].ver <= mem
  /\ Saving # {} => \E t \in Saving : task[t].ver = mem
  /\ Saving = {} => unsaved = mem \/ (unsaved = 0 /\ stored \in {0, mem})

\* What is shown is of the socket there is, and so is what a handler may yet show; while
\* a shutdown drains, the status may still be the old one.
ShownInv ==
  /\ ShownIsTrue
  /\ draining <=> down # "none"
  /\ down = "report" => status # "ONLINE"
  /\ \A t \in Ticket : ~stopped /\ task[t].pc # "none" /\ task[t].gen = gen => sock = gen

IInv == TypeOK /\ SocketInv /\ ShutdownInv /\ AuthInv

-----------------------------------------------------------------------------
\* Detaching ends the only socket there is.
LEMMA Detached ==
  ASSUME OneSocket, Detach PROVE sock' = 0 /\ live' = {}
  BY DEF OneSocket, Detach, Ended

\* A start that is not joined takes a new generation and ends the old socket.
LEMMA Started ==
  ASSUME PlaceType, OneSocket, StartSocket
  PROVE  /\ gen' \in Nat /\ sock' \in Nat /\ live' \subseteq Nat
         /\ setup' \in [pc : {"none", "settle", "save", "open"}, gen : Nat]
         /\ setup.pc # "none" => UNCHANGED <<gen, sock, live, setup>>
         /\ setup.pc = "none" => /\ gen' = gen + 1 /\ sock' = 0 /\ live' = {}
                                 /\ setup' = [pc |-> "settle", gen |-> gen + 1]
<1>1. CASE setup.pc # "none"
  BY <1>1 DEF PlaceType, StartSocket
<1>2. CASE setup.pc = "none"
  <2>1. sock' = 0 /\ live' = {}
    BY <1>2, Detached DEF StartSocket
  <2>2. gen' = gen + 1 /\ gen' \in Nat /\ setup' = [pc |-> "settle", gen |-> gen + 1]
    BY <1>2 DEF PlaceType, StartSocket, NextGeneration
  <2> QED
    BY <1>2, <2>1, <2>2
<1> QED
  BY <1>1, <1>2

\* So does the beginning of a shutdown.
LEMMA ShutdownBegun ==
  ASSUME PlaceType, OneSocket, BeginShutdown, down = "none"
  PROVE  /\ gen' \in Nat /\ gen' = gen + 1 /\ sock' = 0 /\ live' = {}
         /\ stopped' = TRUE /\ timer' = FALSE /\ down' = "setup"
  BY Detached DEF PlaceType, BeginShutdown, NextGeneration

\* The sockets stay in order when a shutdown begins,
LEMMA ShutdownMoves ==
  ASSUME TypeOK, SocketInv, BeginShutdown, down = "none", UNCHANGED <<setup, task>>
  PROVE  SocketInv'
<1>1. gen \in Nat /\ \A t \in Ticket : task[t].gen \in Nat /\ task[t].gen <= gen
  BY DEF TypeOK, PlaceType, TaskType, SocketInv
<1>2. gen' = gen + 1 /\ sock' = 0 /\ live' = {} /\ stopped' = TRUE /\ timer' = FALSE
  BY ShutdownBegun DEF TypeOK, SocketInv
<1>3. OneSocket' /\ OneAttempt'
  BY <1>2 DEF OneSocket, OneAttempt
<1> QED
  BY <1>1, <1>2, <1>3 DEF SocketInv

\* and when a setup begins.
LEMMA StartMoves ==
  ASSUME TypeOK, SocketInv, StartSocket, setup.pc = "none", ~stopped', ~timer',
         task' = task
  PROVE  SocketInv'
<1>1. gen \in Nat /\ \A t \in Ticket : task[t].gen \in Nat /\ task[t].gen <= gen
  BY DEF TypeOK, PlaceType, TaskType, SocketInv
<1>2. /\ gen' = gen + 1 /\ sock' = 0 /\ live' = {}
      /\ setup' = [pc |-> "settle", gen |-> gen + 1]
  BY Started DEF TypeOK, SocketInv
<1>3. OneSocket' /\ OneAttempt'
  BY <1>2 DEF OneSocket, OneAttempt
<1> QED
  BY <1>1, <1>2, <1>3 DEF SocketInv

\* closeSocket, after a failure, leaves nothing of a revocation behind.
LEMMA FailureCloses ==
  ASSUME NEW g, CloseAfterFailure(g), FlagType, refused => stopped /\ revoked
  PROVE  refused' => stopped' /\ revoked'
<1>1. CASE Current(g)
  <2>1. ~stopped /\ ~refused
    BY <1>1 DEF Current
  <2>2. refused' = (refused \/ FALSE)
    BY <1>1 DEF CloseAfterFailure, CloseSocket
  <2> QED
    BY <2>1, <2>2
<1>2. CASE ~Current(g)
  <2>1. UNCHANGED <<stopped, revoked, refused>>
    BY <1>2 DEF CloseAfterFailure
  <2> QED
    BY <2>1
<1> QED
  BY <1>1, <1>2

\* What a failed write of the credentials leaves.
LEMMA WriteFailed ==
  ASSUME TypeOK, AuthInv, NEW t \in Ticket, CredsFail(t)
  PROVE  /\ Saving' = Saving \ {t} /\ unsaved' = task[t].ver
         /\ \A u \in Saving' : task'[u].ver = task[u].ver
         /\ Saving # {}
  BY DEF TypeOK, TaskType, CredsFail, Kept, Settled, Saving

-----------------------------------------------------------------------------
\* A process that has just started satisfies it.
LEMMA InitCorrect == Init => IInv /\ NeverAbandoned
<1> SUFFICES ASSUME Init PROVE IInv /\ NeverAbandoned
  OBVIOUS
<1>1. FlagType
  BY DEF Init, FlagType
<1>2. PlaceType
  BY DEF Init, PlaceType, NoSetup, NoCall
<1>3. TaskType /\ Tasks = {} /\ Saving = {}
  BY DEF Init, TaskType, NoTask, Active, Updates, Tasks, Saving
<1>4. CountType
  BY DEF Init, CountType, Bounded
<1>5. SocketInv
  BY DEF Init, SocketInv, OneSocket, OneAttempt, NoSetup, NoTask
<1>6. ShutdownInv
  BY <1>3 DEF Init, ShutdownInv, AtRest, NoSetup, NoCall
<1>7. AuthInv
  BY <1>3 DEF Init, AuthInv, NoSetup
<1>8. NeverAbandoned
  BY DEF Init, NeverAbandoned
<1> QED
  BY <1>1, <1>2, <1>3, <1>4, <1>5, <1>6, <1>7, <1>8 DEF IInv, TypeOK

-----------------------------------------------------------------------------
\* Every step keeps the type of the flags,
LEMMA FlagStep == ASSUME IInv, [Next]_vars PROVE FlagType'
<1> USE DEF IInv
<1>1. CASE SetupOpen
  BY <1>1, TicketAssumption DEF SetupOpen, MayOpen, EndSetup, NoSetup, Current,
    control, work, auth, owner, TypeOK, FlagType
<1>2. CASE SetupFail
  BY <1>2, TicketAssumption DEF SetupFail, NoSetup, Spend, AuthSettled, control,
    work, auth, owner, TypeOK, FlagType
<1>3. CASE TimerFires
  BY <1>3, TicketAssumption DEF TimerFires, StartSocket, NextGeneration, Detach,
    Ended, work, auth, owner, TypeOK, FlagType
<1>4. CASE SockOpens
  BY <1>4, TicketAssumption DEF SockOpens, Report, NextTicket, control, startup,
    auth, owner, TypeOK, FlagType
<1>5. CASE CredsUpdate
  BY <1>5, TicketAssumption DEF CredsUpdate, Report, NextTicket, control, transport,
    startup, owner, TypeOK, FlagType
<1>6. CASE SockCloses
  BY <1>6, TicketAssumption DEF SockCloses, Spend, CloseSocket, NextGeneration,
    Detach, Ended, Retries, owner, TypeOK, FlagType
<1>7. CASE PhoneLogout
  BY <1>7, TicketAssumption DEF PhoneLogout, Spend, CloseSocket, NextGeneration,
    Detach, Ended, Retries, owner, TypeOK, FlagType
<1>8. CASE SilentClose
  BY <1>8, TicketAssumption DEF SilentClose, Spend, control, startup, work, auth,
    owner, TypeOK, FlagType
<1>9. CASE CheckHealth
  BY <1>9, TicketAssumption DEF CheckHealth, Spend, CloseSocket, NextGeneration,
    Detach, Ended, Retries, owner, TypeOK, FlagType
<1>10. ASSUME NEW t \in Ticket, QrLimitReached(t) PROVE FlagType'
  BY <1>10, TicketAssumption DEF QrLimitReached, Settled, NextGeneration, Detach,
    Ended, startup, auth, owner, TypeOK, FlagType
<1>11. ASSUME NEW t \in Ticket, FailTask(t) PROVE FlagType'
  BY <1>11, TicketAssumption DEF FailTask, Settled, Spend, CloseAfterFailure,
    Current, CloseSocket, NextGeneration, Detach, Ended, Retries, transport, work,
    owner, TypeOK, FlagType
<1>12. ASSUME NEW t \in Ticket, CredsFail(t) PROVE FlagType'
  BY <1>12, TicketAssumption DEF CredsFail, Settled, Spend, Kept, FirstWrite,
    CloseAfterFailure, Current, CloseSocket, NextGeneration, Detach, Ended, Retries,
    transport, owner, TypeOK, FlagType
<1>13. CASE ResetRevoked
  BY <1>13, TicketAssumption DEF ResetRevoked, FreshCredentials, Spend, AuthSettled,
    transport, startup, auth, owner, TypeOK, FlagType
<1>14. CASE ShutdownSetup
  BY <1>14, TicketAssumption DEF ShutdownSetup, Detach, Ended, control, startup,
    work, auth, owner, TypeOK, FlagType
<1>15. CASE ShutdownAuth
  BY <1>15, TicketAssumption DEF ShutdownAuth, SettleAuth, FreshCredentials, Flush,
    FinalStatus, startup, work, auth, owner, TypeOK, FlagType
<1>16. CASE ShutdownEnds
  BY <1>16, TicketAssumption DEF ShutdownEnds, AfterShutdown, transport, startup,
    work, auth, TypeOK, FlagType
<1>17. CASE ShutdownFails
  BY <1>17, TicketAssumption DEF ShutdownFails, Spend, NoCall, transport, startup,
    work, auth, TypeOK, FlagType
<1>18. CASE CallCreate
  BY <1>18, TicketAssumption DEF CallCreate, Spend, Create, StartSocket,
    NextGeneration, Detach, Ended, work, TypeOK, FlagType
<1>19. CASE CallConnect
  BY <1>19, TicketAssumption DEF CallConnect, Spend, BeginShutdown, NextGeneration,
    Detach, Ended, control, work, auth, TypeOK, FlagType
<1>20. CASE CallDisconnect
  BY <1>20, TicketAssumption DEF CallDisconnect, Spend, BeginShutdown,
    NextGeneration, Detach, Ended, control, work, auth, TypeOK, FlagType
<1>21. CASE CallDelete
  BY <1>21, TicketAssumption DEF CallDelete, Spend, BeginShutdown, NextGeneration,
    Detach, Ended, control, work, auth, TypeOK, FlagType
<1>22. CASE ConnectCreates
  BY <1>22, TicketAssumption DEF ConnectCreates, Create, StartSocket,
    NextGeneration, Detach, Ended, work, auth, TypeOK, FlagType
<1>23. CASE LeaveAfterLogout
  BY <1>23, TicketAssumption DEF LeaveAfterLogout, BeginShutdown, NextGeneration,
    Detach, Ended, control, work, auth, TypeOK, FlagType
<1>24. CASE DisconnectForgets
  BY <1>24, TicketAssumption DEF DisconnectForgets, FreshCredentials, NoCall,
    control, startup, work, TypeOK, FlagType
<1>25. CASE DeleteCleans
  BY <1>25, TicketAssumption DEF DeleteCleans, NoCall, control, startup, work,
    TypeOK, FlagType
<1>26. CASE LogoutSucceeds
  BY <1>26, TicketAssumption DEF LogoutSucceeds, CloseSocket, NextGeneration,
    Detach, Ended, Retries, TypeOK, FlagType
<1>27. CASE SetupSettle \/ SetupSave \/ StartReturns \/ SockConnecting
         \/ SockReports \/ ShutdownDrained \/ CallReturns \/ LogoutFails
         \/ DeleteForgets \/ CallFails
  BY <1>27 DEF SetupSettle, SetupSave, StartReturns, SockConnecting, SockReports,
    ShutdownDrained, CallReturns, LogoutFails, DeleteForgets, CallFails, control,
    transport, startup, work, auth, owner, TypeOK, FlagType
<1>28. ASSUME NEW t \in Ticket, BeginTask(t) \/ EndTask(t) \/ ShowCode(t) \/ CredsSaved(t)
      PROVE  FlagType'
  BY <1>28 DEF BeginTask, EndTask, ShowCode, CredsSaved, control, transport,
    startup, work, auth, owner, TypeOK, FlagType
<1>29. CASE UNCHANGED vars
  BY <1>29 DEF vars, control, transport, startup, work, auth, owner, TypeOK,
    FlagType
<1> QED
  BY <1>1, <1>2, <1>3, <1>4, <1>5, <1>6, <1>7, <1>8, <1>9, <1>10, <1>11, <1>12,
    <1>13, <1>14, <1>15, <1>16, <1>17, <1>18, <1>19, <1>20, <1>21, <1>22, <1>23,
    <1>24, <1>25, <1>26, <1>27, <1>28, <1>29
  DEF Next, SetupStep, SockStep, TaskStep, ShutdownStep, CallStep

\* of the places in the code,
LEMMA PlaceStep == ASSUME IInv, [Next]_vars PROVE PlaceType'
<1> USE DEF IInv
<1>1. CASE SetupSettle
  BY <1>1, TicketAssumption DEF SetupSettle, Flush, EndSetup, NoSetup, Current,
    AuthSettled, control, owner, TypeOK, PlaceType
<1>2. CASE SetupSave
  BY <1>2, TicketAssumption DEF SetupSave, EndSetup, NoSetup, Current, control,
    transport, owner, TypeOK, PlaceType
<1>3. CASE SetupOpen
  BY <1>3, TicketAssumption DEF SetupOpen, MayOpen, EndSetup, NoSetup, Current,
    control, owner, TypeOK, PlaceType
<1>4. CASE SetupFail
  BY <1>4, TicketAssumption DEF SetupFail, NoSetup, Spend, AuthSettled, control,
    owner, TypeOK, PlaceType
<1>5. CASE StartReturns
  BY <1>5, TicketAssumption DEF StartReturns, control, transport, owner, TypeOK,
    PlaceType
<1>6. CASE TimerFires
  <2>1. UNCHANGED <<status, start, down, call>> /\ PlaceType /\ OneSocket
    BY <1>6 DEF TimerFires, owner, TypeOK, SocketInv
  <2>2. CASE UNCHANGED <<gen, sock, live, broken, setup>>
    BY <2>1, <2>2 DEF PlaceType
  <2>3. CASE StartSocket
    <3>1. /\ gen' \in Nat /\ sock' \in Nat /\ live' \subseteq Nat
          /\ setup' \in [pc : {"none", "settle", "save", "open"}, gen : Nat]
      BY <2>1, <2>3, Started
    <3> QED
      BY <2>1, <3>1 DEF PlaceType
  <2> QED
    BY <1>6, <2>2, <2>3 DEF TimerFires
<1>7. CASE SockOpens
  BY <1>7, TicketAssumption DEF SockOpens, Report, NextTicket, control, startup,
    owner, TypeOK, PlaceType
<1>8. CASE SockConnecting
  BY <1>8, TicketAssumption DEF SockConnecting, Report, NextTicket, control,
    startup, owner, TypeOK, PlaceType
<1>9. CASE SockCloses
  BY <1>9, TicketAssumption DEF SockCloses, Spend, CloseSocket, NextGeneration,
    Detach, Ended, Retries, owner, TypeOK, PlaceType
<1>10. CASE PhoneLogout
  BY <1>10, TicketAssumption DEF PhoneLogout, Spend, CloseSocket, NextGeneration,
    Detach, Ended, Retries, owner, TypeOK, PlaceType
<1>11. CASE CheckHealth
  BY <1>11, TicketAssumption DEF CheckHealth, Spend, CloseSocket, NextGeneration,
    Detach, Ended, Retries, owner, TypeOK, PlaceType
<1>12. ASSUME NEW t \in Ticket, QrLimitReached(t) PROVE PlaceType'
  BY <1>12, TicketAssumption DEF QrLimitReached, Settled, NextGeneration, Detach,
    Ended, startup, owner, TypeOK, PlaceType
<1>13. ASSUME NEW t \in Ticket, FailTask(t) PROVE PlaceType'
  BY <1>13, TicketAssumption DEF FailTask, Settled, Spend, CloseAfterFailure,
    Current, CloseSocket, NextGeneration, Detach, Ended, Retries, transport, owner,
    TypeOK, PlaceType
<1>14. ASSUME NEW t \in Ticket, CredsFail(t) PROVE PlaceType'
  BY <1>14, TicketAssumption DEF CredsFail, Settled, Spend, Kept, FirstWrite,
    CloseAfterFailure, Current, CloseSocket, NextGeneration, Detach, Ended, Retries,
    transport, owner, TypeOK, PlaceType
<1>15. CASE ShutdownSetup
  BY <1>15, TicketAssumption DEF ShutdownSetup, Detach, Ended, control, startup,
    owner, TypeOK, PlaceType
<1>16. CASE ShutdownDrained
  BY <1>16, TicketAssumption DEF ShutdownDrained, Drained, control, transport,
    startup, owner, TypeOK, PlaceType
<1>17. CASE ShutdownAuth
  BY <1>17, TicketAssumption DEF ShutdownAuth, SettleAuth, FreshCredentials, Flush,
    FinalStatus, startup, owner, TypeOK, PlaceType
<1>18. CASE ShutdownEnds
  BY <1>18, TicketAssumption DEF ShutdownEnds, AfterShutdown, transport, startup,
    TypeOK, PlaceType
<1>19. CASE ShutdownFails
  BY <1>19, TicketAssumption DEF ShutdownFails, Spend, NoCall, transport, startup,
    TypeOK, PlaceType
<1>20. CASE CallCreate
  <2>1. /\ call' = [op |-> "connect", pc |-> "start", sock |-> 0] /\ StartSocket
        /\ status' = "OFFLINE" /\ start' = "starting" /\ down' = down
    BY <1>20 DEF CallCreate, Create
  <2>2. PlaceType /\ OneSocket
    BY DEF TypeOK, SocketInv
  <2>3. /\ gen' \in Nat /\ sock' \in Nat /\ live' \subseteq Nat
        /\ setup' \in [pc : {"none", "settle", "save", "open"}, gen : Nat]
    BY <2>1, <2>2, Started
  <2> QED
    BY <2>1, <2>2, <2>3 DEF PlaceType
<1>21. CASE CallConnect
  <2>1. call' = [op |-> "connect", pc |-> "down", sock |-> 0] /\ BeginShutdown
    BY <1>21 DEF CallConnect
  <2>2. down = "none" /\ UNCHANGED <<status, setup, start>>
    BY <1>21 DEF CallConnect, ShutdownInv
  <2>3. PlaceType /\ OneSocket
    BY DEF TypeOK, SocketInv
  <2>4. gen' \in Nat /\ sock' = 0 /\ live' = {} /\ down' = "setup"
    BY <2>1, <2>2, <2>3, ShutdownBegun
  <2> QED
    BY <2>1, <2>2, <2>3, <2>4 DEF PlaceType
<1>22. CASE CallDisconnect
  <2>1. UNCHANGED <<status, setup, start>> /\ PlaceType /\ OneSocket
    BY <1>22 DEF CallDisconnect, TypeOK, SocketInv
  <2>2. CASE /\ call' = [op |-> "disconnect", pc |-> "logout", sock |-> sock]
             /\ UNCHANGED <<control, sock, live, broken, timer, down>>
    BY <2>1, <2>2 DEF PlaceType, control
  <2>3. CASE /\ call' = [op |-> "disconnect", pc |-> "down", sock |-> 0]
             /\ BeginShutdown
    <3>1. down = "none"
      BY <1>22 DEF CallDisconnect, ShutdownInv
    <3>2. gen' \in Nat /\ sock' = 0 /\ live' = {} /\ down' = "setup"
      BY <2>1, <2>3, <3>1, ShutdownBegun
    <3> QED
      BY <2>1, <2>3, <3>2 DEF PlaceType
  <2> QED
    BY <1>22, <2>2, <2>3 DEF CallDisconnect
<1>23. CASE CallDelete
  <2>1. call' = [op |-> "delete", pc |-> "down", sock |-> 0] /\ BeginShutdown
    BY <1>23 DEF CallDelete
  <2>2. down = "none" /\ UNCHANGED <<status, setup, start>>
    BY <1>23 DEF CallDelete, ShutdownInv
  <2>3. PlaceType /\ OneSocket
    BY DEF TypeOK, SocketInv
  <2>4. gen' \in Nat /\ sock' = 0 /\ live' = {} /\ down' = "setup"
    BY <2>1, <2>2, <2>3, ShutdownBegun
  <2> QED
    BY <2>1, <2>2, <2>3, <2>4 DEF PlaceType
<1>24. CASE ConnectCreates
  BY <1>24, TicketAssumption DEF ConnectCreates, Create, StartSocket,
    NextGeneration, Detach, Ended, TypeOK, PlaceType
<1>25. CASE CallReturns
  BY <1>25, TicketAssumption DEF CallReturns, NoCall, control, transport, startup,
    TypeOK, PlaceType
<1>26. CASE LogoutFails
  BY <1>26, TicketAssumption DEF LogoutFails, NoCall, control, transport, startup,
    TypeOK, PlaceType
<1>27. CASE LeaveAfterLogout
  BY <1>27, TicketAssumption DEF LeaveAfterLogout, BeginShutdown, NextGeneration,
    Detach, Ended, control, TypeOK, PlaceType
<1>28. CASE DisconnectForgets
  BY <1>28, TicketAssumption DEF DisconnectForgets, FreshCredentials, NoCall,
    control, startup, TypeOK, PlaceType
<1>29. CASE DeleteForgets
  BY <1>29, TicketAssumption DEF DeleteForgets, control, transport, startup, TypeOK,
    PlaceType
<1>30. CASE DeleteCleans
  BY <1>30, TicketAssumption DEF DeleteCleans, NoCall, control, startup, TypeOK,
    PlaceType
<1>31. CASE LogoutSucceeds
  BY <1>31, TicketAssumption DEF LogoutSucceeds, CloseSocket, NextGeneration,
    Detach, Ended, Retries, TypeOK, PlaceType
<1>32. CASE CallFails
  BY <1>32, TicketAssumption DEF CallFails, Spend, NoCall, control, startup, TypeOK,
    PlaceType
<1>33. CASE SockReports \/ CredsUpdate \/ SilentClose \/ ResetRevoked
  BY <1>33 DEF SockReports, CredsUpdate, SilentClose, ResetRevoked, control,
    transport, startup, owner, TypeOK, PlaceType
<1>34. ASSUME NEW t \in Ticket, BeginTask(t) \/ EndTask(t) \/ ShowCode(t) \/ CredsSaved(t)
      PROVE  PlaceType'
  BY <1>34 DEF BeginTask, EndTask, ShowCode, CredsSaved, control, transport,
    startup, owner, TypeOK, PlaceType
<1>35. CASE UNCHANGED vars
  BY <1>35 DEF vars, control, transport, startup, owner, TypeOK, PlaceType
<1> QED
  BY <1>1, <1>2, <1>3, <1>4, <1>5, <1>6, <1>7, <1>8, <1>9, <1>10, <1>11, <1>12,
    <1>13, <1>14, <1>15, <1>16, <1>17, <1>18, <1>19, <1>20, <1>21, <1>22, <1>23,
    <1>24, <1>25, <1>26, <1>27, <1>28, <1>29, <1>30, <1>31, <1>32, <1>33, <1>34,
    <1>35
  DEF Next, SetupStep, SockStep, TaskStep, ShutdownStep, CallStep

\* of the handlers,
LEMMA TaskTypeStep == ASSUME IInv, [Next]_vars PROVE TaskType'
<1> USE DEF IInv
<1>1. CASE SockOpens
  BY <1>1, TicketAssumption DEF SockOpens, Report, NextTicket, TypeOK, PlaceType,
    TaskType, CountType, Active, Updates
<1>2. CASE SockConnecting
  BY <1>2, TicketAssumption DEF SockConnecting, Report, NextTicket, TypeOK,
    PlaceType, TaskType, CountType, Active, Updates
<1>3. CASE SockReports
  BY <1>3, TicketAssumption DEF SockReports, Report, NextTicket, TypeOK, PlaceType,
    TaskType, CountType, Active, Updates
<1>4. CASE CredsUpdate
  BY <1>4, TicketAssumption DEF CredsUpdate, Report, NextTicket, TypeOK, PlaceType,
    TaskType, CountType, Active, Updates
<1>5. ASSUME NEW t \in Ticket, BeginTask(t) PROVE TaskType'
  BY <1>5, TicketAssumption DEF BeginTask, Settled, Wanted, Current, First, work,
    TypeOK, PlaceType, TaskType, CountType, Active, Updates
<1>6. ASSUME NEW t \in Ticket, EndTask(t) PROVE TaskType'
  BY <1>6, TicketAssumption DEF EndTask, Settled, work, TypeOK, PlaceType, TaskType,
    CountType, Active, Updates
<1>7. ASSUME NEW t \in Ticket, ShowCode(t) PROVE TaskType'
  BY <1>7, TicketAssumption DEF ShowCode, Settled, CodeWanted, Current, work,
    TypeOK, PlaceType, TaskType, CountType, Active, Updates
<1>8. ASSUME NEW t \in Ticket, QrLimitReached(t) PROVE TaskType'
  BY <1>8, TicketAssumption DEF QrLimitReached, Settled, NextGeneration, Detach,
    Ended, TypeOK, PlaceType, TaskType, CountType, Active, Updates
<1>9. ASSUME NEW t \in Ticket, CredsSaved(t) PROVE TaskType'
  BY <1>9, TicketAssumption DEF CredsSaved, Settled, Current, FirstWrite, work,
    TypeOK, PlaceType, TaskType, CountType, Active, Updates
<1>10. ASSUME NEW t \in Ticket, FailTask(t) PROVE TaskType'
  BY <1>10, TicketAssumption DEF FailTask, Settled, Spend, CloseAfterFailure,
    Current, CloseSocket, NextGeneration, Detach, Ended, Retries, work, TypeOK,
    PlaceType, TaskType, CountType, Active, Updates
<1>11. ASSUME NEW t \in Ticket, CredsFail(t) PROVE TaskType'
  BY <1>11, TicketAssumption DEF CredsFail, Settled, Spend, Kept, FirstWrite,
    CloseAfterFailure, Current, CloseSocket, NextGeneration, Detach, Ended, Retries,
    TypeOK, PlaceType, TaskType, CountType, Active, Updates
<1>12. CASE SetupSettle \/ SetupSave \/ SetupOpen \/ SetupFail \/ StartReturns
         \/ TimerFires \/ SockCloses \/ PhoneLogout \/ SilentClose \/ CheckHealth
         \/ ResetRevoked \/ ShutdownSetup \/ ShutdownDrained \/ ShutdownAuth
         \/ ShutdownEnds \/ ShutdownFails \/ CallCreate \/ CallConnect
         \/ CallDisconnect \/ CallDelete \/ ConnectCreates \/ CallReturns
         \/ LogoutFails \/ LeaveAfterLogout \/ DisconnectForgets \/ DeleteForgets
         \/ DeleteCleans \/ LogoutSucceeds \/ CallFails
  BY <1>12 DEF SetupSettle, SetupSave, SetupOpen, SetupFail, StartReturns,
    TimerFires, SockCloses, PhoneLogout, SilentClose, CheckHealth, ResetRevoked,
    ShutdownSetup, ShutdownDrained, ShutdownAuth, ShutdownEnds, ShutdownFails,
    CallCreate, CallConnect, CallDisconnect, CallDelete, ConnectCreates,
    CallReturns, LogoutFails, LeaveAfterLogout, DisconnectForgets, DeleteForgets,
    DeleteCleans, LogoutSucceeds, CallFails, work, TypeOK, PlaceType, TaskType,
    CountType, Active, Updates
<1>13. CASE UNCHANGED vars
  BY <1>13 DEF vars, work, TypeOK, PlaceType, TaskType, CountType, Active, Updates
<1> QED
  BY <1>1, <1>2, <1>3, <1>4, <1>5, <1>6, <1>7, <1>8, <1>9, <1>10, <1>11, <1>12,
    <1>13
  DEF Next, SetupStep, SockStep, TaskStep, ShutdownStep, CallStep

\* and of the counts.
LEMMA CountStep == ASSUME IInv, [Next]_vars PROVE CountType'
<1> USE DEF IInv
<1>1. CASE SetupSettle
  BY <1>1, TicketAssumption DEF SetupSettle, Flush, EndSetup, NoSetup, Current,
    AuthSettled, codes, TypeOK, PlaceType, TaskType, CountType, Bounded
<1>2. CASE SetupSave
  BY <1>2, TicketAssumption DEF SetupSave, EndSetup, NoSetup, Current, codes,
    TypeOK, PlaceType, TaskType, CountType, Bounded
<1>3. CASE SetupFail
  BY <1>3, TicketAssumption DEF SetupFail, NoSetup, Spend, AuthSettled, codes, auth,
    TypeOK, PlaceType, TaskType, CountType, Bounded
<1>4. CASE CredsUpdate
  BY <1>4, TicketAssumption DEF CredsUpdate, Report, NextTicket, codes, TypeOK,
    PlaceType, TaskType, CountType, Bounded
<1>5. CASE SockCloses
  BY <1>5, TicketAssumption DEF SockCloses, Spend, CloseSocket, NextGeneration,
    Detach, Ended, Retries, TypeOK, PlaceType, TaskType, CountType, Bounded
<1>6. CASE PhoneLogout
  BY <1>6, TicketAssumption DEF PhoneLogout, Spend, CloseSocket, NextGeneration,
    Detach, Ended, Retries, TypeOK, PlaceType, TaskType, CountType, Bounded
<1>7. CASE SilentClose
  BY <1>7, TicketAssumption DEF SilentClose, Spend, codes, auth, TypeOK, PlaceType,
    TaskType, CountType, Bounded
<1>8. CASE CheckHealth
  BY <1>8, TicketAssumption DEF CheckHealth, Spend, CloseSocket, NextGeneration,
    Detach, Ended, Retries, TypeOK, PlaceType, TaskType, CountType, Bounded
<1>9. ASSUME NEW t \in Ticket, BeginTask(t) PROVE CountType'
  BY <1>9, TicketAssumption DEF BeginTask, Settled, Wanted, Current, First, auth,
    TypeOK, PlaceType, TaskType, CountType, Bounded
<1>10. ASSUME NEW t \in Ticket, ShowCode(t) PROVE CountType'
  BY <1>10, TicketAssumption DEF ShowCode, Settled, CodeWanted, Current, auth,
    TypeOK, PlaceType, TaskType, CountType, Bounded
<1>11. ASSUME NEW t \in Ticket, CredsSaved(t) PROVE CountType'
  BY <1>11, TicketAssumption DEF CredsSaved, Settled, Current, FirstWrite, codes,
    TypeOK, PlaceType, TaskType, CountType, Bounded
<1>12. ASSUME NEW t \in Ticket, FailTask(t) PROVE CountType'
  BY <1>12, TicketAssumption DEF FailTask, Settled, Spend, CloseAfterFailure,
    Current, CloseSocket, NextGeneration, Detach, Ended, Retries, TypeOK, PlaceType,
    TaskType, CountType, Bounded
<1>13. ASSUME NEW t \in Ticket, CredsFail(t) PROVE CountType'
  BY <1>13, TicketAssumption DEF CredsFail, Settled, Spend, Kept, FirstWrite,
    CloseAfterFailure, Current, CloseSocket, NextGeneration, Detach, Ended, Retries,
    TypeOK, PlaceType, TaskType, CountType, Bounded
<1>14. CASE ResetRevoked
  BY <1>14, TicketAssumption DEF ResetRevoked, FreshCredentials, Spend, AuthSettled,
    codes, auth, TypeOK, PlaceType, TaskType, CountType, Bounded
<1>15. CASE ShutdownAuth
  BY <1>15, TicketAssumption DEF ShutdownAuth, SettleAuth, FreshCredentials, Flush,
    FinalStatus, codes, auth, TypeOK, PlaceType, TaskType, CountType, Bounded
<1>16. CASE ShutdownFails
  BY <1>16, TicketAssumption DEF ShutdownFails, Spend, NoCall, codes, auth, TypeOK,
    PlaceType, TaskType, CountType, Bounded
<1>17. CASE CallCreate
  BY <1>17, TicketAssumption DEF CallCreate, Spend, Create, StartSocket,
    NextGeneration, Detach, Ended, TypeOK, PlaceType, TaskType, CountType, Bounded
<1>18. CASE CallConnect
  BY <1>18, TicketAssumption DEF CallConnect, Spend, BeginShutdown, NextGeneration,
    Detach, Ended, codes, auth, TypeOK, PlaceType, TaskType, CountType, Bounded
<1>19. CASE CallDisconnect
  BY <1>19, TicketAssumption DEF CallDisconnect, Spend, BeginShutdown,
    NextGeneration, Detach, Ended, codes, auth, TypeOK, PlaceType, TaskType,
    CountType, Bounded
<1>20. CASE CallDelete
  BY <1>20, TicketAssumption DEF CallDelete, Spend, BeginShutdown, NextGeneration,
    Detach, Ended, codes, auth, TypeOK, PlaceType, TaskType, CountType, Bounded
<1>21. CASE ConnectCreates
  BY <1>21, TicketAssumption DEF ConnectCreates, Create, StartSocket,
    NextGeneration, Detach, Ended, auth, TypeOK, PlaceType, TaskType, CountType,
    Bounded
<1>22. CASE DisconnectForgets
  BY <1>22, TicketAssumption DEF DisconnectForgets, FreshCredentials, NoCall,
    TypeOK, PlaceType, TaskType, CountType, Bounded
<1>23. CASE DeleteForgets
  BY <1>23, TicketAssumption DEF DeleteForgets, codes, TypeOK, PlaceType, TaskType,
    CountType, Bounded
<1>24. CASE LogoutSucceeds
  BY <1>24, TicketAssumption DEF LogoutSucceeds, CloseSocket, NextGeneration,
    Detach, Ended, Retries, TypeOK, PlaceType, TaskType, CountType, Bounded
<1>25. CASE CallFails
  BY <1>25, TicketAssumption DEF CallFails, Spend, NoCall, codes, auth, TypeOK,
    PlaceType, TaskType, CountType, Bounded
<1>26. CASE SetupOpen \/ StartReturns \/ TimerFires \/ SockOpens \/ SockConnecting
         \/ SockReports \/ ShutdownSetup \/ ShutdownDrained \/ ShutdownEnds
         \/ CallReturns \/ LogoutFails \/ LeaveAfterLogout \/ DeleteCleans
  BY <1>26 DEF SetupOpen, StartReturns, TimerFires, SockOpens, SockConnecting,
    SockReports, ShutdownSetup, ShutdownDrained, ShutdownEnds, CallReturns,
    LogoutFails, LeaveAfterLogout, DeleteCleans, codes, auth, TypeOK, PlaceType,
    TaskType, CountType, Bounded
<1>27. ASSUME NEW t \in Ticket, EndTask(t) \/ QrLimitReached(t) PROVE CountType'
  BY <1>27 DEF EndTask, QrLimitReached, codes, auth, TypeOK, PlaceType, TaskType,
    CountType, Bounded
<1>28. CASE UNCHANGED vars
  BY <1>28 DEF vars, codes, auth, TypeOK, PlaceType, TaskType, CountType, Bounded
<1> QED
  BY <1>1, <1>2, <1>3, <1>4, <1>5, <1>6, <1>7, <1>8, <1>9, <1>10, <1>11, <1>12,
    <1>13, <1>14, <1>15, <1>16, <1>17, <1>18, <1>19, <1>20, <1>21, <1>22, <1>23,
    <1>24, <1>25, <1>26, <1>27, <1>28
  DEF Next, SetupStep, SockStep, TaskStep, ShutdownStep, CallStep

-----------------------------------------------------------------------------
\* Every step keeps the sockets, the setup and the timer in order,
LEMMA SocketStep == ASSUME IInv, [Next]_vars PROVE SocketInv'
<1> USE DEF IInv
<1>1. CASE SetupSettle
  BY <1>1, TicketAssumption DEF SetupSettle, Flush, EndSetup, NoSetup, Current,
    AuthSettled, control, work, TypeOK, PlaceType, TaskType, SocketInv, OneSocket,
    OneAttempt, ShutdownInv, AtRest
<1>2. CASE SetupSave
  BY <1>2, TicketAssumption DEF SetupSave, EndSetup, NoSetup, Current, control,
    transport, work, TypeOK, PlaceType, TaskType, SocketInv, OneSocket, OneAttempt,
    ShutdownInv, AtRest
<1>3. CASE SetupOpen
  BY <1>3, TicketAssumption DEF SetupOpen, MayOpen, EndSetup, NoSetup, Current,
    control, work, TypeOK, PlaceType, TaskType, SocketInv, OneSocket, OneAttempt,
    ShutdownInv, AtRest
<1>4. CASE SetupFail
  BY <1>4, TicketAssumption DEF SetupFail, NoSetup, Spend, AuthSettled, control,
    work, TypeOK, PlaceType, TaskType, SocketInv, OneSocket, OneAttempt,
    ShutdownInv, AtRest
<1>5. CASE TimerFires
  <2>1. timer /\ timer' = FALSE /\ UNCHANGED <<stopped, task>>
    BY <1>5 DEF TimerFires, work
  <2>2. CASE stopped
    <3>1. UNCHANGED <<gen, sock, live, setup>>
      BY <1>5, <2>2 DEF TimerFires
    <3> QED
      BY <2>1, <3>1 DEF SocketInv, OneSocket, OneAttempt
  <2>3. CASE ~stopped
    <3>1. StartSocket /\ setup.pc = "none"
      BY <1>5, <2>1, <2>3 DEF TimerFires, SocketInv, OneAttempt
    <3> QED
      BY <2>1, <2>3, <3>1, StartMoves
  <2> QED
    BY <2>2, <2>3
<1>6. CASE SockOpens
  BY <1>6, TicketAssumption DEF SockOpens, Report, NextTicket, control, startup,
    TypeOK, PlaceType, TaskType, SocketInv, OneSocket, OneAttempt, ShutdownInv,
    AtRest
<1>7. CASE SockConnecting
  BY <1>7, TicketAssumption DEF SockConnecting, Report, NextTicket, control,
    startup, TypeOK, PlaceType, TaskType, SocketInv, OneSocket, OneAttempt,
    ShutdownInv, AtRest
<1>8. CASE SockReports
  BY <1>8, TicketAssumption DEF SockReports, Report, NextTicket, control, transport,
    startup, TypeOK, PlaceType, TaskType, SocketInv, OneSocket, OneAttempt,
    ShutdownInv, AtRest
<1>9. CASE CredsUpdate
  BY <1>9, TicketAssumption DEF CredsUpdate, Report, NextTicket, control, transport,
    startup, TypeOK, PlaceType, TaskType, SocketInv, OneSocket, OneAttempt,
    ShutdownInv, AtRest
<1>10. CASE SockCloses
  BY <1>10, TicketAssumption DEF SockCloses, Spend, CloseSocket, NextGeneration,
    Detach, Ended, Retries, TypeOK, PlaceType, TaskType, SocketInv, OneSocket,
    OneAttempt, ShutdownInv, AtRest
<1>11. CASE PhoneLogout
  BY <1>11, TicketAssumption DEF PhoneLogout, Spend, CloseSocket, NextGeneration,
    Detach, Ended, Retries, TypeOK, PlaceType, TaskType, SocketInv, OneSocket,
    OneAttempt, ShutdownInv, AtRest
<1>12. CASE CheckHealth
  BY <1>12, TicketAssumption DEF CheckHealth, Spend, CloseSocket, NextGeneration,
    Detach, Ended, Retries, TypeOK, PlaceType, TaskType, SocketInv, OneSocket,
    OneAttempt, ShutdownInv, AtRest
<1>13. ASSUME NEW t \in Ticket, BeginTask(t) PROVE SocketInv'
  BY <1>13, TicketAssumption DEF BeginTask, Settled, Wanted, Current, First,
    control, transport, startup, work, TypeOK, PlaceType, TaskType, SocketInv,
    OneSocket, OneAttempt, ShutdownInv, AtRest
<1>14. ASSUME NEW t \in Ticket, EndTask(t) PROVE SocketInv'
  BY <1>14, TicketAssumption DEF EndTask, Settled, control, transport, startup,
    work, TypeOK, PlaceType, TaskType, SocketInv, OneSocket, OneAttempt,
    ShutdownInv, AtRest
<1>15. ASSUME NEW t \in Ticket, ShowCode(t) PROVE SocketInv'
  BY <1>15, TicketAssumption DEF ShowCode, Settled, CodeWanted, Current, control,
    transport, startup, work, TypeOK, PlaceType, TaskType, SocketInv, OneSocket,
    OneAttempt, ShutdownInv, AtRest
<1>16. ASSUME NEW t \in Ticket, QrLimitReached(t) PROVE SocketInv'
  BY <1>16, TicketAssumption DEF QrLimitReached, Settled, NextGeneration, Detach,
    Ended, startup, TypeOK, PlaceType, TaskType, SocketInv, OneSocket, OneAttempt,
    ShutdownInv, AtRest
<1>17. ASSUME NEW t \in Ticket, CredsSaved(t) PROVE SocketInv'
  BY <1>17, TicketAssumption DEF CredsSaved, Settled, Current, FirstWrite, control,
    transport, startup, work, TypeOK, PlaceType, TaskType, SocketInv, OneSocket,
    OneAttempt, ShutdownInv, AtRest
<1>18. ASSUME NEW t \in Ticket, FailTask(t) PROVE SocketInv'
  BY <1>18, TicketAssumption DEF FailTask, Settled, Spend, CloseAfterFailure,
    Current, CloseSocket, NextGeneration, Detach, Ended, Retries, transport, work,
    TypeOK, PlaceType, TaskType, SocketInv, OneSocket, OneAttempt, ShutdownInv,
    AtRest
<1>19. ASSUME NEW t \in Ticket, CredsFail(t) PROVE SocketInv'
  BY <1>19, TicketAssumption DEF CredsFail, Settled, Spend, Kept, FirstWrite,
    CloseAfterFailure, Current, CloseSocket, NextGeneration, Detach, Ended, Retries,
    transport, TypeOK, PlaceType, TaskType, SocketInv, OneSocket, OneAttempt,
    ShutdownInv, AtRest
<1>20. CASE ShutdownSetup
  BY <1>20, TicketAssumption DEF ShutdownSetup, Detach, Ended, control, startup,
    work, TypeOK, PlaceType, TaskType, SocketInv, OneSocket, OneAttempt,
    ShutdownInv, AtRest
<1>21. CASE CallCreate
  <2>1. StartSocket /\ stopped' = FALSE /\ UNCHANGED <<timer, task>>
    BY <1>21 DEF CallCreate, Create, work
  <2>2. setup.pc = "none" /\ ~timer
    BY <1>21 DEF CallCreate, ShutdownInv, AtRest
  <2> QED
    BY <2>1, <2>2, StartMoves
<1>22. CASE CallConnect
  <2>1. BeginShutdown /\ down = "none" /\ UNCHANGED <<setup, task>>
    BY <1>22 DEF CallConnect, ShutdownInv, work
  <2> QED
    BY <2>1, ShutdownMoves
<1>23. CASE CallDisconnect
  <2>1. down = "none" /\ UNCHANGED <<setup, task>>
    BY <1>23 DEF CallDisconnect, ShutdownInv, work
  <2>2. CASE UNCHANGED <<control, sock, live, broken, timer, down>>
    BY <2>1, <2>2 DEF SocketInv, OneSocket, OneAttempt, control
  <2>3. CASE BeginShutdown
    BY <2>1, <2>3, ShutdownMoves
  <2> QED
    BY <1>23, <2>2, <2>3 DEF CallDisconnect
<1>24. CASE CallDelete
  <2>1. BeginShutdown /\ down = "none" /\ UNCHANGED <<setup, task>>
    BY <1>24 DEF CallDelete, ShutdownInv, work
  <2> QED
    BY <2>1, ShutdownMoves
<1>25. CASE ConnectCreates
  <2>1. StartSocket /\ stopped' = FALSE /\ UNCHANGED <<timer, task>>
    BY <1>25 DEF ConnectCreates, Create, work
  <2>2. setup.pc = "none" /\ ~timer
    BY <1>25 DEF ConnectCreates, ShutdownInv, AtRest
  <2> QED
    BY <2>1, <2>2, StartMoves
<1>26. CASE LeaveAfterLogout
  BY <1>26, TicketAssumption DEF LeaveAfterLogout, BeginShutdown, NextGeneration,
    Detach, Ended, control, work, TypeOK, PlaceType, TaskType, SocketInv, OneSocket,
    OneAttempt, ShutdownInv, AtRest
<1>27. CASE LogoutSucceeds
  BY <1>27, TicketAssumption DEF LogoutSucceeds, CloseSocket, NextGeneration,
    Detach, Ended, Retries, TypeOK, PlaceType, TaskType, SocketInv, OneSocket,
    OneAttempt, ShutdownInv, AtRest
<1>28. CASE StartReturns \/ SilentClose \/ ResetRevoked \/ ShutdownDrained
         \/ ShutdownAuth \/ ShutdownEnds \/ ShutdownFails \/ CallReturns
         \/ LogoutFails \/ DisconnectForgets \/ DeleteForgets \/ DeleteCleans
         \/ CallFails
  BY <1>28 DEF StartReturns, SilentClose, ResetRevoked, ShutdownDrained,
    ShutdownAuth, ShutdownEnds, ShutdownFails, CallReturns, LogoutFails,
    DisconnectForgets, DeleteForgets, DeleteCleans, CallFails, control, transport,
    startup, work, TypeOK, PlaceType, TaskType, SocketInv, OneSocket, OneAttempt,
    ShutdownInv, AtRest
<1>29. CASE UNCHANGED vars
  BY <1>29 DEF vars, control, transport, startup, work, TypeOK, PlaceType, TaskType,
    SocketInv, OneSocket, OneAttempt, ShutdownInv, AtRest
<1> QED
  BY <1>1, <1>2, <1>3, <1>4, <1>5, <1>6, <1>7, <1>8, <1>9, <1>10, <1>11, <1>12,
    <1>13, <1>14, <1>15, <1>16, <1>17, <1>18, <1>19, <1>20, <1>21, <1>22, <1>23,
    <1>24, <1>25, <1>26, <1>27, <1>28, <1>29
  DEF Next, SetupStep, SockStep, TaskStep, ShutdownStep, CallStep

\* the phases of the shutdown,
LEMMA DownStep == ASSUME IInv, [Next]_vars PROVE ShutdownInv'
<1> USE DEF IInv
<1>1. CASE SetupSettle
  BY <1>1, TicketAssumption DEF SetupSettle, Flush, EndSetup, NoSetup, Current,
    AuthSettled, control, work, owner, TypeOK, PlaceType, TaskType, SocketInv,
    OneAttempt, ShutdownInv, AtRest, AuthInv, Tasks, Active
<1>2. CASE SetupSave
  BY <1>2, TicketAssumption DEF SetupSave, EndSetup, NoSetup, Current, control,
    work, owner, TypeOK, PlaceType, TaskType, SocketInv, OneAttempt, ShutdownInv,
    AtRest, AuthInv, Tasks, Active
<1>3. CASE SetupOpen
  BY <1>3, TicketAssumption DEF SetupOpen, MayOpen, EndSetup, NoSetup, Current,
    control, work, auth, owner, TypeOK, PlaceType, TaskType, SocketInv, OneAttempt,
    ShutdownInv, AtRest, AuthInv, Tasks, Active
<1>4. CASE SetupFail
  BY <1>4, TicketAssumption DEF SetupFail, NoSetup, Spend, AuthSettled, control,
    work, auth, owner, TypeOK, PlaceType, TaskType, SocketInv, OneAttempt,
    ShutdownInv, AtRest, AuthInv, Tasks, Active
<1>5. CASE TimerFires
  BY <1>5, TicketAssumption DEF TimerFires, StartSocket, NextGeneration, Detach,
    Ended, work, auth, owner, TypeOK, PlaceType, TaskType, SocketInv, OneAttempt,
    ShutdownInv, AtRest, AuthInv, Tasks, Active
<1>6. CASE SockOpens
  BY <1>6, TicketAssumption DEF SockOpens, Report, NextTicket, control, startup,
    auth, owner, TypeOK, PlaceType, TaskType, SocketInv, OneAttempt, ShutdownInv,
    AtRest, AuthInv, Tasks, Active
<1>7. CASE SockConnecting
  BY <1>7, TicketAssumption DEF SockConnecting, Report, NextTicket, control,
    startup, auth, owner, TypeOK, PlaceType, TaskType, SocketInv, OneAttempt,
    ShutdownInv, AtRest, AuthInv, Tasks, Active
<1>8. CASE SockReports
  BY <1>8, TicketAssumption DEF SockReports, Report, NextTicket, control, startup,
    auth, owner, TypeOK, PlaceType, TaskType, SocketInv, OneAttempt, ShutdownInv,
    AtRest, AuthInv, Tasks, Active
<1>9. CASE CredsUpdate
  BY <1>9, TicketAssumption DEF CredsUpdate, Report, NextTicket, control, startup,
    owner, TypeOK, PlaceType, TaskType, SocketInv, OneAttempt, ShutdownInv, AtRest,
    AuthInv, Tasks, Active
<1>10. CASE SockCloses
  BY <1>10, TicketAssumption DEF SockCloses, Spend, CloseSocket, NextGeneration,
    Detach, Ended, Retries, owner, TypeOK, PlaceType, TaskType, SocketInv,
    OneAttempt, ShutdownInv, AtRest, AuthInv, Tasks, Active
<1>11. CASE PhoneLogout
  BY <1>11, TicketAssumption DEF PhoneLogout, Spend, CloseSocket, NextGeneration,
    Detach, Ended, Retries, owner, TypeOK, PlaceType, TaskType, SocketInv,
    OneAttempt, ShutdownInv, AtRest, AuthInv, Tasks, Active
<1>12. CASE CheckHealth
  BY <1>12, TicketAssumption DEF CheckHealth, Spend, CloseSocket, NextGeneration,
    Detach, Ended, Retries, owner, TypeOK, PlaceType, TaskType, SocketInv,
    OneAttempt, ShutdownInv, AtRest, AuthInv, Tasks, Active
<1>13. ASSUME NEW t \in Ticket, BeginTask(t) PROVE ShutdownInv'
  BY <1>13, TicketAssumption DEF BeginTask, Settled, Wanted, Current, First,
    control, startup, work, auth, owner, TypeOK, PlaceType, TaskType, SocketInv,
    OneAttempt, ShutdownInv, AtRest, AuthInv, Tasks, Active
<1>14. ASSUME NEW t \in Ticket, EndTask(t) PROVE ShutdownInv'
  BY <1>14, TicketAssumption DEF EndTask, Settled, control, startup, work, auth,
    owner, TypeOK, PlaceType, TaskType, SocketInv, OneAttempt, ShutdownInv, AtRest,
    AuthInv, Tasks, Active
<1>15. ASSUME NEW t \in Ticket, ShowCode(t) PROVE ShutdownInv'
  BY <1>15, TicketAssumption DEF ShowCode, Settled, CodeWanted, Current, control,
    startup, work, auth, owner, TypeOK, PlaceType, TaskType, SocketInv, OneAttempt,
    ShutdownInv, AtRest, AuthInv, Tasks, Active
<1>16. ASSUME NEW t \in Ticket, QrLimitReached(t) PROVE ShutdownInv'
  BY <1>16, TicketAssumption DEF QrLimitReached, Settled, NextGeneration, Detach,
    Ended, startup, auth, owner, TypeOK, PlaceType, TaskType, SocketInv, OneAttempt,
    ShutdownInv, AtRest, AuthInv, Tasks, Active
<1>17. ASSUME NEW t \in Ticket, CredsSaved(t) PROVE ShutdownInv'
  BY <1>17, TicketAssumption DEF CredsSaved, Settled, Current, FirstWrite, control,
    startup, work, owner, TypeOK, PlaceType, TaskType, SocketInv, OneAttempt,
    ShutdownInv, AtRest, AuthInv, Tasks, Active
<1>18. ASSUME NEW t \in Ticket, FailTask(t) PROVE ShutdownInv'
  BY <1>18, TicketAssumption DEF FailTask, Settled, Spend, CloseAfterFailure,
    Current, CloseSocket, NextGeneration, Detach, Ended, Retries, work, owner,
    TypeOK, PlaceType, TaskType, SocketInv, OneAttempt, ShutdownInv, AtRest,
    AuthInv, Tasks, Active
<1>19. ASSUME NEW t \in Ticket, CredsFail(t) PROVE ShutdownInv'
  BY <1>19, TicketAssumption DEF CredsFail, Settled, Spend, Kept, FirstWrite,
    CloseAfterFailure, Current, CloseSocket, NextGeneration, Detach, Ended, Retries,
    owner, TypeOK, PlaceType, TaskType, SocketInv, OneAttempt, ShutdownInv, AtRest,
    AuthInv, Tasks, Active
<1>20. CASE ResetRevoked
  BY <1>20, TicketAssumption DEF ResetRevoked, FreshCredentials, Spend, AuthSettled,
    startup, auth, owner, TypeOK, PlaceType, TaskType, SocketInv, OneAttempt,
    ShutdownInv, AtRest, AuthInv, Tasks, Active
<1>21. CASE ShutdownSetup
  BY <1>21, TicketAssumption DEF ShutdownSetup, Detach, Ended, control, startup,
    work, auth, owner, TypeOK, PlaceType, TaskType, SocketInv, OneAttempt,
    ShutdownInv, AtRest, AuthInv, Tasks, Active
<1>22. CASE ShutdownDrained
  BY <1>22, TicketAssumption DEF ShutdownDrained, Drained, control, startup, work,
    auth, owner, TypeOK, PlaceType, TaskType, SocketInv, OneAttempt, ShutdownInv,
    AtRest, AuthInv, Tasks, Active
<1>23. CASE ShutdownAuth
  BY <1>23, TicketAssumption DEF ShutdownAuth, SettleAuth, FreshCredentials, Flush,
    FinalStatus, startup, work, auth, owner, TypeOK, PlaceType, TaskType, SocketInv,
    OneAttempt, ShutdownInv, AtRest, AuthInv, Tasks, Active
<1>24. CASE ShutdownEnds
  BY <1>24, TicketAssumption DEF ShutdownEnds, AfterShutdown, startup, work, auth,
    TypeOK, PlaceType, TaskType, SocketInv, OneAttempt, ShutdownInv, AtRest,
    AuthInv, Tasks, Active
<1>25. CASE ShutdownFails
  BY <1>25, TicketAssumption DEF ShutdownFails, Spend, NoCall, startup, work, auth,
    TypeOK, PlaceType, TaskType, SocketInv, OneAttempt, ShutdownInv, AtRest,
    AuthInv, Tasks, Active
<1>26. CASE CallCreate
  BY <1>26, TicketAssumption DEF CallCreate, Spend, Create, StartSocket,
    NextGeneration, Detach, Ended, work, TypeOK, PlaceType, TaskType, SocketInv,
    OneAttempt, ShutdownInv, AtRest, AuthInv, Tasks, Active
<1>27. CASE CallConnect
  BY <1>27, TicketAssumption DEF CallConnect, Spend, BeginShutdown, NextGeneration,
    Detach, Ended, control, work, auth, TypeOK, PlaceType, TaskType, SocketInv,
    OneAttempt, ShutdownInv, AtRest, AuthInv, Tasks, Active
<1>28. CASE CallDisconnect
  BY <1>28, TicketAssumption DEF CallDisconnect, Spend, BeginShutdown,
    NextGeneration, Detach, Ended, control, work, auth, TypeOK, PlaceType, TaskType,
    SocketInv, OneAttempt, ShutdownInv, AtRest, AuthInv, Tasks, Active
<1>29. CASE CallDelete
  BY <1>29, TicketAssumption DEF CallDelete, Spend, BeginShutdown, NextGeneration,
    Detach, Ended, control, work, auth, TypeOK, PlaceType, TaskType, SocketInv,
    OneAttempt, ShutdownInv, AtRest, AuthInv, Tasks, Active
<1>30. CASE ConnectCreates
  <2>1. /\ down = "none" /\ present /\ call' = [call EXCEPT !.pc = "start"]
        /\ down' = down /\ present' = present
    BY <1>30 DEF ConnectCreates, ShutdownInv
  <2>2. call' \in [op : {"none", "connect", "disconnect", "delete"}, sock : Nat,
                   pc : {"start"}]
    BY <2>1 DEF TypeOK, PlaceType
  <2> QED
    BY <2>1, <2>2 DEF ShutdownInv
<1>31. CASE CallReturns
  BY <1>31, TicketAssumption DEF CallReturns, NoCall, control, startup, work, auth,
    TypeOK, PlaceType, TaskType, SocketInv, OneAttempt, ShutdownInv, AtRest,
    AuthInv, Tasks, Active
<1>32. CASE LogoutFails
  BY <1>32, TicketAssumption DEF LogoutFails, NoCall, control, startup, work, auth,
    TypeOK, PlaceType, TaskType, SocketInv, OneAttempt, ShutdownInv, AtRest,
    AuthInv, Tasks, Active
<1>33. CASE LeaveAfterLogout
  BY <1>33, TicketAssumption DEF LeaveAfterLogout, BeginShutdown, NextGeneration,
    Detach, Ended, control, work, auth, TypeOK, PlaceType, TaskType, SocketInv,
    OneAttempt, ShutdownInv, AtRest, AuthInv, Tasks, Active
<1>34. CASE DisconnectForgets
  BY <1>34, TicketAssumption DEF DisconnectForgets, FreshCredentials, NoCall,
    control, startup, work, TypeOK, PlaceType, TaskType, SocketInv, OneAttempt,
    ShutdownInv, AtRest, AuthInv, Tasks, Active
<1>35. CASE DeleteForgets
  BY <1>35, TicketAssumption DEF DeleteForgets, control, startup, work, TypeOK,
    PlaceType, TaskType, SocketInv, OneAttempt, ShutdownInv, AtRest, AuthInv, Tasks,
    Active
<1>36. CASE DeleteCleans
  BY <1>36, TicketAssumption DEF DeleteCleans, NoCall, control, startup, work,
    TypeOK, PlaceType, TaskType, SocketInv, OneAttempt, ShutdownInv, AtRest,
    AuthInv, Tasks, Active
<1>37. CASE LogoutSucceeds
  BY <1>37, TicketAssumption DEF LogoutSucceeds, CloseSocket, NextGeneration,
    Detach, Ended, Retries, TypeOK, PlaceType, TaskType, SocketInv, OneAttempt,
    ShutdownInv, AtRest, AuthInv, Tasks, Active
<1>38. CASE CallFails
  BY <1>38, TicketAssumption DEF CallFails, Spend, NoCall, control, startup, work,
    auth, TypeOK, PlaceType, TaskType, SocketInv, OneAttempt, ShutdownInv, AtRest,
    AuthInv, Tasks, Active
<1>39. CASE StartReturns \/ SilentClose
  BY <1>39 DEF StartReturns, SilentClose, control, startup, work, auth, owner,
    TypeOK, PlaceType, TaskType, SocketInv, OneAttempt, ShutdownInv, AtRest,
    AuthInv, Tasks, Active
<1>40. CASE UNCHANGED vars
  BY <1>40 DEF vars, control, startup, work, auth, owner, TypeOK, PlaceType,
    TaskType, SocketInv, OneAttempt, ShutdownInv, AtRest, AuthInv, Tasks, Active
<1> QED
  BY <1>1, <1>2, <1>3, <1>4, <1>5, <1>6, <1>7, <1>8, <1>9, <1>10, <1>11, <1>12,
    <1>13, <1>14, <1>15, <1>16, <1>17, <1>18, <1>19, <1>20, <1>21, <1>22, <1>23,
    <1>24, <1>25, <1>26, <1>27, <1>28, <1>29, <1>30, <1>31, <1>32, <1>33, <1>34,
    <1>35, <1>36, <1>37, <1>38, <1>39, <1>40
  DEF Next, SetupStep, SockStep, TaskStep, ShutdownStep, CallStep

\* and the versions of the credentials.
LEMMA AuthStep == ASSUME IInv, [Next]_vars PROVE AuthInv'
<1> USE DEF IInv
<1>1. CASE SetupSettle
  BY <1>1, TicketAssumption DEF SetupSettle, Flush, EndSetup, NoSetup, Current,
    AuthSettled, control, work, TypeOK, PlaceType, TaskType, CountType, SocketInv,
    OneAttempt, ShutdownInv, AtRest, AuthInv, Tasks, Active, Saving, Updates
<1>2. CASE SetupSave
  BY <1>2, TicketAssumption DEF SetupSave, EndSetup, NoSetup, Current, control,
    work, TypeOK, PlaceType, TaskType, CountType, SocketInv, OneAttempt,
    ShutdownInv, AtRest, AuthInv, Tasks, Active, Saving, Updates
<1>3. CASE SetupOpen
  BY <1>3, TicketAssumption DEF SetupOpen, MayOpen, EndSetup, NoSetup, Current,
    control, work, auth, TypeOK, PlaceType, TaskType, CountType, SocketInv,
    OneAttempt, ShutdownInv, AtRest, AuthInv, Tasks, Active, Saving, Updates
<1>4. CASE SetupFail
  BY <1>4, TicketAssumption DEF SetupFail, NoSetup, Spend, AuthSettled, control,
    work, auth, TypeOK, PlaceType, TaskType, CountType, SocketInv, OneAttempt,
    ShutdownInv, AtRest, AuthInv, Tasks, Active, Saving, Updates
<1>5. CASE TimerFires
  BY <1>5, TicketAssumption DEF TimerFires, StartSocket, NextGeneration, Detach,
    Ended, work, auth, TypeOK, PlaceType, TaskType, CountType, SocketInv,
    OneAttempt, ShutdownInv, AtRest, AuthInv, Tasks, Active, Saving, Updates
<1>6. CASE SockOpens
  BY <1>6, TicketAssumption DEF SockOpens, Report, NextTicket, control, startup,
    auth, TypeOK, PlaceType, TaskType, CountType, SocketInv, OneAttempt,
    ShutdownInv, AtRest, AuthInv, Tasks, Active, Saving, Updates
<1>7. CASE SockConnecting
  BY <1>7, TicketAssumption DEF SockConnecting, Report, NextTicket, control,
    startup, auth, TypeOK, PlaceType, TaskType, CountType, SocketInv, OneAttempt,
    ShutdownInv, AtRest, AuthInv, Tasks, Active, Saving, Updates
<1>8. CASE SockReports
  <2>1. PICK t \in NextTicket, k \in {"qr", "data"} :
          task' = [task EXCEPT ![t] = [pc |-> "queued", kind |-> k,
                                       gen |-> sock, ver |-> 0]]
    BY <1>8 DEF SockReports, Report
  <2>2. Saving' = Saving /\ \A u \in Saving : task'[u] = task[u]
    BY <2>1 DEF Saving, NextTicket, TypeOK, TaskType
  <2>3. UNCHANGED <<mem, refused, stopped, revoked, setup, unsaved, stored>>
    BY <1>8 DEF SockReports, control, startup, auth
  <2> QED
    BY <2>2, <2>3 DEF AuthInv
<1>9. CASE CredsUpdate
  BY <1>9, TicketAssumption DEF CredsUpdate, Report, NextTicket, control, startup,
    TypeOK, PlaceType, TaskType, CountType, SocketInv, OneAttempt, ShutdownInv,
    AtRest, AuthInv, Tasks, Active, Saving, Updates
<1>10. CASE SockCloses
  BY <1>10, TicketAssumption DEF SockCloses, Spend, CloseSocket, NextGeneration,
    Detach, Ended, Retries, TypeOK, PlaceType, TaskType, CountType, SocketInv,
    OneAttempt, ShutdownInv, AtRest, AuthInv, Tasks, Active, Saving, Updates
<1>11. CASE PhoneLogout
  BY <1>11, TicketAssumption DEF PhoneLogout, Spend, CloseSocket, NextGeneration,
    Detach, Ended, Retries, TypeOK, PlaceType, TaskType, CountType, SocketInv,
    OneAttempt, ShutdownInv, AtRest, AuthInv, Tasks, Active, Saving, Updates
<1>12. CASE CheckHealth
  BY <1>12, TicketAssumption DEF CheckHealth, Spend, CloseSocket, NextGeneration,
    Detach, Ended, Retries, TypeOK, PlaceType, TaskType, CountType, SocketInv,
    OneAttempt, ShutdownInv, AtRest, AuthInv, Tasks, Active, Saving, Updates
<1>13. ASSUME NEW t \in Ticket, BeginTask(t) PROVE AuthInv'
  BY <1>13, TicketAssumption DEF BeginTask, Settled, Wanted, Current, First,
    control, startup, work, auth, TypeOK, PlaceType, TaskType, CountType, SocketInv,
    OneAttempt, ShutdownInv, AtRest, AuthInv, Tasks, Active, Saving, Updates
<1>14. ASSUME NEW t \in Ticket, EndTask(t) PROVE AuthInv'
  BY <1>14, TicketAssumption DEF EndTask, Settled, control, startup, work, auth,
    TypeOK, PlaceType, TaskType, CountType, SocketInv, OneAttempt, ShutdownInv,
    AtRest, AuthInv, Tasks, Active, Saving, Updates
<1>15. ASSUME NEW t \in Ticket, ShowCode(t) PROVE AuthInv'
  BY <1>15, TicketAssumption DEF ShowCode, Settled, CodeWanted, Current, control,
    startup, work, auth, TypeOK, PlaceType, TaskType, CountType, SocketInv,
    OneAttempt, ShutdownInv, AtRest, AuthInv, Tasks, Active, Saving, Updates
<1>16. ASSUME NEW t \in Ticket, QrLimitReached(t) PROVE AuthInv'
  BY <1>16, TicketAssumption DEF QrLimitReached, Settled, NextGeneration, Detach,
    Ended, startup, auth, TypeOK, PlaceType, TaskType, CountType, SocketInv,
    OneAttempt, ShutdownInv, AtRest, AuthInv, Tasks, Active, Saving, Updates
<1>17. ASSUME NEW t \in Ticket, CredsSaved(t) PROVE AuthInv'
  <2>1. /\ t \in Saving /\ stored' = task[t].ver /\ unsaved' = 0
        /\ \A u \in Saving : task[t].ver <= task[u].ver
        /\ \E pc \in {"work", "done"} : task' = [task EXCEPT ![t].pc = pc]
        /\ UNCHANGED <<mem, refused, stopped, revoked, setup>>
    BY <1>17 DEF CredsSaved, FirstWrite, Settled, Saving, control, startup
  <2>2. Saving' = Saving \ {t} /\ \A u \in Ticket : task'[u].ver = task[u].ver
    BY <2>1 DEF Saving, TaskType, TypeOK
  <2>3. \A u \in Ticket : task[u].ver \in Nat
    BY DEF TaskType, TypeOK
  <2>4. Saving \subseteq Ticket /\ mem \in Nat
    BY DEF Saving, CountType, TypeOK
  <2>5. Saving \ {t} # {} => \E u \in Saving \ {t} : task[u].ver = mem
    <3> SUFFICES ASSUME NEW s \in Saving \ {t} PROVE \E u \in Saving \ {t} : task[u].ver = mem
      OBVIOUS
    <3>1. PICK u \in Saving : task[u].ver = mem
      BY DEF AuthInv
    <3>2. CASE u = t
      BY <2>1, <2>3, <2>4, <3>1, <3>2 DEF AuthInv
    <3> QED  BY <3>1, <3>2
  <2>6. Saving \ {t} = {} => task[t].ver = mem
    BY <2>1 DEF AuthInv
  <2> QED  BY <2>1, <2>2, <2>5, <2>6 DEF AuthInv
<1>18. ASSUME NEW t \in Ticket, FailTask(t) PROVE AuthInv'
  <2>1. task[t].pc # "saving" /\ task' = [task EXCEPT ![t].pc = "done"]
    BY <1>18 DEF FailTask, Settled
  <2>2. Saving' = Saving /\ \A u \in Saving : task'[u].ver = task[u].ver
    BY <2>1 DEF Saving, TypeOK, TaskType
  <2>3. refused' => stopped' /\ revoked'
    BY <1>18, FailureCloses DEF FailTask, TypeOK, AuthInv
  <2>4. UNCHANGED <<mem, stored, unsaved, setup>>
    BY <1>18 DEF FailTask
  <2> QED
    BY <2>2, <2>3, <2>4 DEF AuthInv
<1>19. ASSUME NEW t \in Ticket, CredsFail(t) PROVE AuthInv'
  <2>1. /\ Saving' = Saving \ {t} /\ unsaved' = task[t].ver
        /\ \A u \in Saving' : task'[u].ver = task[u].ver
        /\ Saving # {}
    BY <1>19, WriteFailed
  <2>2. UNCHANGED <<mem, stored, setup>> /\ t \in Saving /\ FirstWrite(t)
    BY <1>19 DEF CredsFail, Saving
  <2>3. refused' => stopped' /\ revoked'
    BY <1>19, FailureCloses DEF CredsFail, TypeOK, AuthInv
  <2>4. mem \in Nat /\ \A u \in Saving : task[u].ver \in Nat
    BY DEF TypeOK, CountType, TaskType, Saving
  <2>5. Saving' # {} => \E u \in Saving' : task'[u].ver = mem
    BY <2>1, <2>2, <2>4 DEF AuthInv, FirstWrite
  <2>6. Saving' = {} => unsaved' = mem
    BY <2>1, <2>2 DEF AuthInv
  <2> QED
    BY <2>1, <2>2, <2>3, <2>5, <2>6 DEF AuthInv
<1>20. CASE ResetRevoked
  BY <1>20, TicketAssumption DEF ResetRevoked, FreshCredentials, Spend, AuthSettled,
    startup, auth, TypeOK, PlaceType, TaskType, CountType, SocketInv, OneAttempt,
    ShutdownInv, AtRest, AuthInv, Tasks, Active, Saving, Updates
<1>21. CASE ShutdownAuth
  BY <1>21, TicketAssumption DEF ShutdownAuth, SettleAuth, FreshCredentials, Flush,
    FinalStatus, startup, work, auth, TypeOK, PlaceType, TaskType, CountType,
    SocketInv, OneAttempt, ShutdownInv, AtRest, AuthInv, Tasks, Active, Saving,
    Updates
<1>22. CASE CallCreate
  BY <1>22, TicketAssumption DEF CallCreate, Spend, Create, StartSocket,
    NextGeneration, Detach, Ended, work, TypeOK, PlaceType, TaskType, CountType,
    SocketInv, OneAttempt, ShutdownInv, AtRest, AuthInv, Tasks, Active, Saving,
    Updates
<1>23. CASE CallConnect
  BY <1>23, TicketAssumption DEF CallConnect, Spend, BeginShutdown, NextGeneration,
    Detach, Ended, control, work, auth, TypeOK, PlaceType, TaskType, CountType,
    SocketInv, OneAttempt, ShutdownInv, AtRest, AuthInv, Tasks, Active, Saving,
    Updates
<1>24. CASE CallDisconnect
  BY <1>24, TicketAssumption DEF CallDisconnect, Spend, BeginShutdown,
    NextGeneration, Detach, Ended, control, work, auth, TypeOK, PlaceType, TaskType,
    CountType, SocketInv, OneAttempt, ShutdownInv, AtRest, AuthInv, Tasks, Active,
    Saving, Updates
<1>25. CASE CallDelete
  BY <1>25, TicketAssumption DEF CallDelete, Spend, BeginShutdown, NextGeneration,
    Detach, Ended, control, work, auth, TypeOK, PlaceType, TaskType, CountType,
    SocketInv, OneAttempt, ShutdownInv, AtRest, AuthInv, Tasks, Active, Saving,
    Updates
<1>26. CASE ConnectCreates
  BY <1>26, TicketAssumption DEF ConnectCreates, Create, StartSocket,
    NextGeneration, Detach, Ended, work, auth, TypeOK, PlaceType, TaskType,
    CountType, SocketInv, OneAttempt, ShutdownInv, AtRest, AuthInv, Tasks, Active,
    Saving, Updates
<1>27. CASE LeaveAfterLogout
  BY <1>27, TicketAssumption DEF LeaveAfterLogout, BeginShutdown, NextGeneration,
    Detach, Ended, control, work, auth, TypeOK, PlaceType, TaskType, CountType,
    SocketInv, OneAttempt, ShutdownInv, AtRest, AuthInv, Tasks, Active, Saving,
    Updates
<1>28. CASE DisconnectForgets
  BY <1>28, TicketAssumption DEF DisconnectForgets, FreshCredentials, NoCall,
    control, startup, work, TypeOK, PlaceType, TaskType, CountType, SocketInv,
    OneAttempt, ShutdownInv, AtRest, AuthInv, Tasks, Active, Saving, Updates
<1>29. CASE DeleteForgets
  BY <1>29, TicketAssumption DEF DeleteForgets, control, startup, work, TypeOK,
    PlaceType, TaskType, CountType, SocketInv, OneAttempt, ShutdownInv, AtRest,
    AuthInv, Tasks, Active, Saving, Updates
<1>30. CASE DeleteCleans
  BY <1>30, TicketAssumption DEF DeleteCleans, NoCall, control, startup, work,
    TypeOK, PlaceType, TaskType, CountType, SocketInv, OneAttempt, ShutdownInv,
    AtRest, AuthInv, Tasks, Active, Saving, Updates
<1>31. CASE LogoutSucceeds
  BY <1>31, TicketAssumption DEF LogoutSucceeds, CloseSocket, NextGeneration,
    Detach, Ended, Retries, TypeOK, PlaceType, TaskType, CountType, SocketInv,
    OneAttempt, ShutdownInv, AtRest, AuthInv, Tasks, Active, Saving, Updates
<1>32. CASE StartReturns \/ SilentClose \/ ShutdownSetup \/ ShutdownDrained
         \/ ShutdownEnds \/ ShutdownFails \/ CallReturns \/ LogoutFails \/ CallFails
  BY <1>32 DEF StartReturns, SilentClose, ShutdownSetup, ShutdownDrained,
    ShutdownEnds, ShutdownFails, CallReturns, LogoutFails, CallFails, control,
    startup, work, auth, TypeOK, PlaceType, TaskType, CountType, SocketInv,
    OneAttempt, ShutdownInv, AtRest, AuthInv, Tasks, Active, Saving, Updates
<1>33. CASE UNCHANGED vars
  BY <1>33 DEF vars, control, startup, work, auth, TypeOK, PlaceType, TaskType,
    CountType, SocketInv, OneAttempt, ShutdownInv, AtRest, AuthInv, Tasks, Active,
    Saving, Updates
<1> QED
  BY <1>1, <1>2, <1>3, <1>4, <1>5, <1>6, <1>7, <1>8, <1>9, <1>10, <1>11, <1>12,
    <1>13, <1>14, <1>15, <1>16, <1>17, <1>18, <1>19, <1>20, <1>21, <1>22, <1>23,
    <1>24, <1>25, <1>26, <1>27, <1>28, <1>29, <1>30, <1>31, <1>32, <1>33
  DEF Next, SetupStep, SockStep, TaskStep, ShutdownStep, CallStep

\* No step abandons an instance that is not stopped: it leaves a socket, a setup
\* that is still wanted, or a pending reconnect.
LEMMA AliveStep == ASSUME IInv, NeverAbandoned, [Next]_vars PROVE NeverAbandoned'
<1> USE DEF IInv
<1>1. CASE SetupSettle
  <2>1. UNCHANGED <<stopped, sock, timer>> /\ setup.pc # "none"
    BY <1>1 DEF SetupSettle, control
  <2>2. CASE Current(setup.gen)
    BY <1>1, <2>2 DEF SetupSettle, NeverAbandoned, TypeOK, PlaceType
  <2>3. CASE ~Current(setup.gen)
    BY <2>1, <2>3 DEF SocketInv, Current, NeverAbandoned
  <2> QED
    BY <2>2, <2>3
<1>2. CASE SetupSave
  <2>1. UNCHANGED <<stopped, sock, timer>> /\ setup.pc # "none"
    BY <1>2 DEF SetupSave, control, transport
  <2>2. CASE Current(setup.gen)
    BY <1>2, <2>2 DEF SetupSave, NeverAbandoned, TypeOK, PlaceType
  <2>3. CASE ~Current(setup.gen)
    BY <2>1, <2>3 DEF SocketInv, Current, NeverAbandoned
  <2> QED
    BY <2>2, <2>3
<1>3. CASE SetupOpen
  BY <1>3, TicketAssumption DEF SetupOpen, MayOpen, EndSetup, NoSetup, Current,
    control, TypeOK, FlagType, SocketInv, NeverAbandoned
<1>4. CASE SetupFail
  BY <1>4, TicketAssumption DEF SetupFail, NoSetup, Spend, AuthSettled, control,
    TypeOK, FlagType, SocketInv, NeverAbandoned
<1>5. CASE TimerFires
  BY <1>5, TicketAssumption DEF TimerFires, StartSocket, NextGeneration, Detach,
    Ended, TypeOK, FlagType, SocketInv, NeverAbandoned
<1>6. CASE SockCloses
  BY <1>6, TicketAssumption DEF SockCloses, Spend, CloseSocket, NextGeneration,
    Detach, Ended, Retries, TypeOK, FlagType, SocketInv, NeverAbandoned
<1>7. CASE PhoneLogout
  BY <1>7, TicketAssumption DEF PhoneLogout, Spend, CloseSocket, NextGeneration,
    Detach, Ended, Retries, TypeOK, FlagType, SocketInv, NeverAbandoned
<1>8. CASE CheckHealth
  BY <1>8, TicketAssumption DEF CheckHealth, Spend, CloseSocket, NextGeneration,
    Detach, Ended, Retries, TypeOK, FlagType, SocketInv, NeverAbandoned
<1>9. ASSUME NEW t \in Ticket, QrLimitReached(t) PROVE NeverAbandoned'
  BY <1>9, TicketAssumption DEF QrLimitReached, Settled, NextGeneration, Detach,
    Ended, startup, TypeOK, FlagType, SocketInv, NeverAbandoned
<1>10. ASSUME NEW t \in Ticket, FailTask(t) PROVE NeverAbandoned'
  BY <1>10, TicketAssumption DEF FailTask, Settled, Spend, CloseAfterFailure,
    Current, CloseSocket, NextGeneration, Detach, Ended, Retries, transport, TypeOK,
    FlagType, SocketInv, NeverAbandoned
<1>11. ASSUME NEW t \in Ticket, CredsFail(t) PROVE NeverAbandoned'
  BY <1>11, TicketAssumption DEF CredsFail, Settled, Spend, Kept, FirstWrite,
    CloseAfterFailure, Current, CloseSocket, NextGeneration, Detach, Ended, Retries,
    transport, TypeOK, FlagType, SocketInv, NeverAbandoned
<1>12. CASE ShutdownSetup
  BY <1>12 DEF ShutdownSetup, ShutdownInv, control, NeverAbandoned
<1>13. CASE CallCreate
  BY <1>13, TicketAssumption DEF CallCreate, Spend, Create, StartSocket,
    NextGeneration, Detach, Ended, TypeOK, FlagType, SocketInv, NeverAbandoned
<1>14. CASE CallConnect
  BY <1>14, TicketAssumption DEF CallConnect, Spend, BeginShutdown, NextGeneration,
    Detach, Ended, control, TypeOK, FlagType, SocketInv, NeverAbandoned
<1>15. CASE CallDisconnect
  BY <1>15, TicketAssumption DEF CallDisconnect, Spend, BeginShutdown,
    NextGeneration, Detach, Ended, control, TypeOK, FlagType, SocketInv,
    NeverAbandoned
<1>16. CASE CallDelete
  BY <1>16, TicketAssumption DEF CallDelete, Spend, BeginShutdown, NextGeneration,
    Detach, Ended, control, TypeOK, FlagType, SocketInv, NeverAbandoned
<1>17. CASE ConnectCreates
  BY <1>17, TicketAssumption DEF ConnectCreates, Create, StartSocket,
    NextGeneration, Detach, Ended, TypeOK, FlagType, SocketInv, NeverAbandoned
<1>18. CASE LeaveAfterLogout
  BY <1>18, TicketAssumption DEF LeaveAfterLogout, BeginShutdown, NextGeneration,
    Detach, Ended, control, TypeOK, FlagType, SocketInv, NeverAbandoned
<1>19. CASE LogoutSucceeds
  BY <1>19, TicketAssumption DEF LogoutSucceeds, CloseSocket, NextGeneration,
    Detach, Ended, Retries, TypeOK, FlagType, SocketInv, NeverAbandoned
<1>20. CASE StartReturns \/ SockOpens \/ SockConnecting \/ SockReports
         \/ CredsUpdate \/ SilentClose \/ ResetRevoked \/ ShutdownDrained
         \/ ShutdownAuth \/ ShutdownEnds \/ ShutdownFails \/ CallReturns
         \/ LogoutFails \/ DisconnectForgets \/ DeleteForgets \/ DeleteCleans
         \/ CallFails
  BY <1>20 DEF StartReturns, SockOpens, SockConnecting, SockReports, CredsUpdate,
    SilentClose, ResetRevoked, ShutdownDrained, ShutdownAuth, ShutdownEnds,
    ShutdownFails, CallReturns, LogoutFails, DisconnectForgets, DeleteForgets,
    DeleteCleans, CallFails, control, transport, startup, TypeOK, FlagType,
    SocketInv, NeverAbandoned
<1>21. ASSUME NEW t \in Ticket, BeginTask(t) \/ EndTask(t) \/ ShowCode(t) \/ CredsSaved(t)
      PROVE  NeverAbandoned'
  BY <1>21 DEF BeginTask, EndTask, ShowCode, CredsSaved, control, transport,
    startup, TypeOK, FlagType, SocketInv, NeverAbandoned
<1>22. CASE UNCHANGED vars
  BY <1>22 DEF vars, control, transport, startup, TypeOK, FlagType, SocketInv,
    NeverAbandoned
<1> QED
  BY <1>1, <1>2, <1>3, <1>4, <1>5, <1>6, <1>7, <1>8, <1>9, <1>10, <1>11, <1>12,
    <1>13, <1>14, <1>15, <1>16, <1>17, <1>18, <1>19, <1>20, <1>21, <1>22
  DEF Next, SetupStep, SockStep, TaskStep, ShutdownStep, CallStep

-----------------------------------------------------------------------------
\* The step of OpensOnSavedAuth.
OnSavedAuth == Opens => stored' \in {0, mem'} /\ unsaved' = 0 /\ Saving = {}

\* No step opens a socket on credentials the store does not have.
LEMMA OpenStep == ASSUME IInv, [Next]_vars PROVE OnSavedAuth
<1> USE DEF IInv
<1>1. CASE SetupOpen
  <2>1. Saving = {} /\ unsaved = 0 /\ stored \in {0, mem}
    BY <1>1 DEF SetupOpen, AuthInv
  <2>2. UNCHANGED <<stored, mem, unsaved>>
    BY <1>1 DEF SetupOpen, auth
  <2> QED
    BY <2>1, <2>2 DEF OnSavedAuth
<1>2. CASE TimerFires
  BY <1>2, TicketAssumption DEF TimerFires, StartSocket, NextGeneration, Detach,
    Ended, Opens, OnSavedAuth, SocketInv, AuthInv, TypeOK, CountType
<1>3. CASE SockCloses
  BY <1>3, TicketAssumption DEF SockCloses, Spend, CloseSocket, NextGeneration,
    Detach, Ended, Retries, Opens, OnSavedAuth, SocketInv, AuthInv, TypeOK,
    CountType
<1>4. CASE PhoneLogout
  BY <1>4, TicketAssumption DEF PhoneLogout, Spend, CloseSocket, NextGeneration,
    Detach, Ended, Retries, Opens, OnSavedAuth, SocketInv, AuthInv, TypeOK,
    CountType
<1>5. CASE CheckHealth
  BY <1>5, TicketAssumption DEF CheckHealth, Spend, CloseSocket, NextGeneration,
    Detach, Ended, Retries, Opens, OnSavedAuth, SocketInv, AuthInv, TypeOK,
    CountType
<1>6. ASSUME NEW t \in Ticket, QrLimitReached(t) PROVE OnSavedAuth
  BY <1>6, TicketAssumption DEF QrLimitReached, Settled, NextGeneration, Detach,
    Ended, Opens, OnSavedAuth, SocketInv, AuthInv, TypeOK, CountType
<1>7. ASSUME NEW t \in Ticket, FailTask(t) PROVE OnSavedAuth
  BY <1>7, TicketAssumption DEF FailTask, Settled, Spend, CloseAfterFailure,
    Current, CloseSocket, NextGeneration, Detach, Ended, Retries, transport, Opens,
    OnSavedAuth, SocketInv, AuthInv, TypeOK, CountType
<1>8. ASSUME NEW t \in Ticket, CredsFail(t) PROVE OnSavedAuth
  BY <1>8, TicketAssumption DEF CredsFail, Settled, Spend, Kept, FirstWrite,
    CloseAfterFailure, Current, CloseSocket, NextGeneration, Detach, Ended, Retries,
    transport, Opens, OnSavedAuth, SocketInv, AuthInv, TypeOK, CountType
<1>9. CASE ShutdownSetup
  BY <1>9, TicketAssumption DEF ShutdownSetup, Detach, Ended, Opens, OnSavedAuth,
    SocketInv, AuthInv, TypeOK, CountType
<1>10. CASE CallCreate
  BY <1>10, TicketAssumption DEF CallCreate, Spend, Create, StartSocket,
    NextGeneration, Detach, Ended, Opens, OnSavedAuth, SocketInv, AuthInv, TypeOK,
    CountType
<1>11. CASE CallConnect
  BY <1>11, TicketAssumption DEF CallConnect, Spend, BeginShutdown, NextGeneration,
    Detach, Ended, Opens, OnSavedAuth, SocketInv, AuthInv, TypeOK, CountType
<1>12. CASE CallDisconnect
  BY <1>12, TicketAssumption DEF CallDisconnect, Spend, BeginShutdown,
    NextGeneration, Detach, Ended, Opens, OnSavedAuth, SocketInv, AuthInv, TypeOK,
    CountType
<1>13. CASE CallDelete
  BY <1>13, TicketAssumption DEF CallDelete, Spend, BeginShutdown, NextGeneration,
    Detach, Ended, Opens, OnSavedAuth, SocketInv, AuthInv, TypeOK, CountType
<1>14. CASE ConnectCreates
  BY <1>14, TicketAssumption DEF ConnectCreates, Create, StartSocket,
    NextGeneration, Detach, Ended, Opens, OnSavedAuth, SocketInv, AuthInv, TypeOK,
    CountType
<1>15. CASE LeaveAfterLogout
  BY <1>15, TicketAssumption DEF LeaveAfterLogout, BeginShutdown, NextGeneration,
    Detach, Ended, Opens, OnSavedAuth, SocketInv, AuthInv, TypeOK, CountType
<1>16. CASE LogoutSucceeds
  BY <1>16, TicketAssumption DEF LogoutSucceeds, CloseSocket, NextGeneration,
    Detach, Ended, Retries, Opens, OnSavedAuth, SocketInv, AuthInv, TypeOK,
    CountType
<1>17. CASE SetupSettle \/ SetupSave \/ SetupFail \/ StartReturns \/ SockOpens
         \/ SockConnecting \/ SockReports \/ CredsUpdate \/ SilentClose
         \/ ResetRevoked \/ ShutdownDrained \/ ShutdownAuth \/ ShutdownEnds
         \/ ShutdownFails \/ CallReturns \/ LogoutFails \/ DisconnectForgets
         \/ DeleteForgets \/ DeleteCleans \/ CallFails
  BY <1>17 DEF SetupSettle, SetupSave, SetupFail, StartReturns, SockOpens,
    SockConnecting, SockReports, CredsUpdate, SilentClose, ResetRevoked,
    ShutdownDrained, ShutdownAuth, ShutdownEnds, ShutdownFails, CallReturns,
    LogoutFails, DisconnectForgets, DeleteForgets, DeleteCleans, CallFails,
    transport, Opens, OnSavedAuth, SocketInv, AuthInv, TypeOK, CountType
<1>18. ASSUME NEW t \in Ticket, BeginTask(t) \/ EndTask(t) \/ ShowCode(t) \/ CredsSaved(t)
      PROVE  OnSavedAuth
  BY <1>18 DEF BeginTask, EndTask, ShowCode, CredsSaved, transport, Opens,
    OnSavedAuth, SocketInv, AuthInv, TypeOK, CountType
<1>19. CASE UNCHANGED vars
  BY <1>19 DEF vars, transport, Opens, OnSavedAuth, SocketInv, AuthInv, TypeOK,
    CountType
<1> QED
  BY <1>1, <1>2, <1>3, <1>4, <1>5, <1>6, <1>7, <1>8, <1>9, <1>10, <1>11, <1>12,
    <1>13, <1>14, <1>15, <1>16, <1>17, <1>18, <1>19
  DEF Next, SetupStep, SockStep, TaskStep, ShutdownStep, CallStep

\* The step of FormerSocketInert.
FormerInert ==
  \A t \in Ticket :
    t \in Tasks /\ task'[t].pc # task[t].pc /\ (stopped \/ task[t].gen # gen)
      /\ task[t].pc # "limit" =>
      UNCHANGED <<gen, stopped, sock, live, status, timer, code>>

\* No handler of a former socket changes the connection that replaced it.
LEMMA InertStep == ASSUME IInv, [Next]_vars PROVE FormerInert
<1> USE DEF IInv
<1>1. CASE SockOpens
  BY <1>1, TicketAssumption DEF SockOpens, Report, NextTicket, FormerInert, TypeOK,
    TaskType, SocketInv, OneAttempt, Tasks, Active
<1>2. CASE SockConnecting
  BY <1>2, TicketAssumption DEF SockConnecting, Report, NextTicket, FormerInert,
    TypeOK, TaskType, SocketInv, OneAttempt, Tasks, Active
<1>3. CASE SockReports
  BY <1>3, TicketAssumption DEF SockReports, Report, NextTicket, FormerInert,
    TypeOK, TaskType, SocketInv, OneAttempt, Tasks, Active
<1>4. CASE CredsUpdate
  BY <1>4, TicketAssumption DEF CredsUpdate, Report, NextTicket, FormerInert,
    TypeOK, TaskType, SocketInv, OneAttempt, Tasks, Active
<1>5. ASSUME NEW t \in Ticket, BeginTask(t) PROVE FormerInert
  <2>1. \A u \in Ticket \ {t} : task'[u].pc = task[u].pc
    BY <1>5 DEF BeginTask, Settled, TypeOK, TaskType
  <2>2. CASE stopped \/ task[t].gen # gen
    BY <1>5, <2>1, <2>2 DEF BeginTask, Wanted, Current, Updates, Tasks, Active, Settled, control, transport, startup, FormerInert
  <2>3. CASE ~(stopped \/ task[t].gen # gen)
    BY <2>1, <2>3 DEF FormerInert
  <2> QED
    BY <2>2, <2>3
<1>6. ASSUME NEW t \in Ticket, EndTask(t) PROVE FormerInert
  <2>1. \A u \in Ticket \ {t} : task'[u].pc = task[u].pc
    BY <1>6 DEF EndTask, Settled, TypeOK, TaskType
  <2>2. CASE stopped \/ task[t].gen # gen
    BY <1>6, <2>1, <2>2 DEF EndTask, control, transport, startup, codes, FormerInert
  <2>3. CASE ~(stopped \/ task[t].gen # gen)
    BY <2>1, <2>3 DEF FormerInert
  <2> QED
    BY <2>2, <2>3
<1>7. ASSUME NEW t \in Ticket, ShowCode(t) PROVE FormerInert
  <2>1. \A u \in Ticket \ {t} : task'[u].pc = task[u].pc
    BY <1>7 DEF ShowCode, Settled, TypeOK, TaskType
  <2>2. CASE stopped \/ task[t].gen # gen
    BY <1>7, <2>1, <2>2 DEF ShowCode, CodeWanted, Current, control, transport, startup, FormerInert
  <2>3. CASE ~(stopped \/ task[t].gen # gen)
    BY <2>1, <2>3 DEF FormerInert
  <2> QED
    BY <2>2, <2>3
<1>8. ASSUME NEW t \in Ticket, QrLimitReached(t) PROVE FormerInert
  BY <1>8, TicketAssumption DEF QrLimitReached, Settled, NextGeneration, Detach,
    Ended, FormerInert, TypeOK, TaskType, SocketInv, OneAttempt, Tasks, Active
<1>9. ASSUME NEW t \in Ticket, CredsSaved(t) PROVE FormerInert
  <2>1. \A u \in Ticket \ {t} : task'[u].pc = task[u].pc
    BY <1>9 DEF CredsSaved, Settled, TypeOK, TaskType
  <2>2. CASE stopped \/ task[t].gen # gen
    BY <1>9, <2>1, <2>2 DEF CredsSaved, control, transport, startup, codes, FormerInert
  <2>3. CASE ~(stopped \/ task[t].gen # gen)
    BY <2>1, <2>3 DEF FormerInert
  <2> QED
    BY <2>2, <2>3
<1>10. ASSUME NEW t \in Ticket, FailTask(t) PROVE FormerInert
  <2>1. \A u \in Ticket \ {t} : task'[u].pc = task[u].pc
    BY <1>10 DEF FailTask, Settled, TypeOK, TaskType
  <2>2. CASE stopped \/ task[t].gen # gen
    BY <1>10, <2>1, <2>2 DEF FailTask, CloseAfterFailure, Current, transport, FormerInert
  <2>3. CASE ~(stopped \/ task[t].gen # gen)
    BY <2>1, <2>3 DEF FormerInert
  <2> QED
    BY <2>2, <2>3
<1>11. ASSUME NEW t \in Ticket, CredsFail(t) PROVE FormerInert
  <2>1. \A u \in Ticket \ {t} : task'[u].pc = task[u].pc
    BY <1>11 DEF CredsFail, Settled, TypeOK, TaskType
  <2>2. CASE stopped \/ task[t].gen # gen
    BY <1>11, <2>1, <2>2 DEF CredsFail, CloseAfterFailure, Current, transport, FormerInert
  <2>3. CASE ~(stopped \/ task[t].gen # gen)
    BY <2>1, <2>3 DEF FormerInert
  <2> QED
    BY <2>2, <2>3
<1>12. CASE SetupSettle \/ SetupSave \/ SetupOpen \/ SetupFail \/ StartReturns
         \/ TimerFires \/ SockCloses \/ PhoneLogout \/ SilentClose \/ CheckHealth
         \/ ResetRevoked \/ ShutdownSetup \/ ShutdownDrained \/ ShutdownAuth
         \/ ShutdownEnds \/ ShutdownFails \/ CallCreate \/ CallConnect
         \/ CallDisconnect \/ CallDelete \/ ConnectCreates \/ CallReturns
         \/ LogoutFails \/ LeaveAfterLogout \/ DisconnectForgets \/ DeleteForgets
         \/ DeleteCleans \/ LogoutSucceeds \/ CallFails
  BY <1>12 DEF SetupSettle, SetupSave, SetupOpen, SetupFail, StartReturns,
    TimerFires, SockCloses, PhoneLogout, SilentClose, CheckHealth, ResetRevoked,
    ShutdownSetup, ShutdownDrained, ShutdownAuth, ShutdownEnds, ShutdownFails,
    CallCreate, CallConnect, CallDisconnect, CallDelete, ConnectCreates,
    CallReturns, LogoutFails, LeaveAfterLogout, DisconnectForgets, DeleteForgets,
    DeleteCleans, LogoutSucceeds, CallFails, work, FormerInert, TypeOK, TaskType,
    SocketInv, OneAttempt, Tasks, Active
<1>13. CASE UNCHANGED vars
  BY <1>13 DEF vars, work, FormerInert, TypeOK, TaskType, SocketInv, OneAttempt,
    Tasks, Active
<1> QED
  BY <1>1, <1>2, <1>3, <1>4, <1>5, <1>6, <1>7, <1>8, <1>9, <1>10, <1>11, <1>12,
    <1>13
  DEF Next, SetupStep, SockStep, TaskStep, ShutdownStep, CallStep

-----------------------------------------------------------------------------
LEMMA SpendGrows ==
  ASSUME TypeOK, NEW kind \in Bounded, Spend(kind)
  PROVE  /\ spent'["drain"] = 0 => spent["drain"] = 0
         /\ kind = "drain" => spent'["drain"] # 0
BY DEF TypeOK, CountType, Spend, Bounded

LEMMA Kinds == {"close", "logout", "call", "fail", "setup", "drain"} = Bounded
BY DEF Bounded

\* What is shown when a new generation begins.
LEMMA Replaced ==
  ASSUME IInv, ShownInv, gen' = gen + 1, \A t \in Ticket : task'[t].gen = task[t].gen,
         draining' <=> down' # "none", down' = "report" => status' # "ONLINE",
         code' = 0 \/ stopped', status' # "ONLINE" \/ draining'
  PROVE  ShownInv'
<1>1. \A t \in Ticket : task'[t].gen # gen'
  BY DEF IInv, SocketInv, TypeOK, PlaceType, TaskType
<1> QED  BY <1>1 DEF ShownInv, ShownIsTrue, CodeOfCurrentSocket, OnlineHasSocket

\* What is shown while the socket stays, or the absence of one.
LEMMA Unreplaced ==
  ASSUME IInv, ShownInv, UNCHANGED <<gen, stopped, sock, opened, draining, down>>,
         status' \in {status, "OFFLINE", "REMOVED"}, code' \in {code, 0},
         spent'["drain"] = 0 => spent["drain"] = 0,
         \A t \in Ticket : \/ task'[t].gen = task[t].gen /\ task[t].pc # "none"
                          \/ task'[t].gen = sock
                          \/ UNCHANGED task
  PROVE  ShownInv'
BY DEF IInv, ShownInv, ShownIsTrue, CodeOfCurrentSocket, OnlineHasSocket,
       SocketInv, OneAttempt

\* Closing the socket starts a generation that shows nothing yet.
LEMMA ClosedNow ==
  ASSUME CloseSocket(TRUE) \/ CloseSocket(FALSE)
  PROVE  gen' = gen + 1 /\ code' = 0 /\ status' # "ONLINE"
BY DEF CloseSocket, NextGeneration

\* A new event is of the socket there is.
LEMMA Reported ==
  ASSUME TypeOK, NEW kind, NEW pc, NEW ver, Report(kind, pc, ver)
  PROVE  \A t \in Ticket : UNCHANGED task[t] \/ task'[t].gen = sock
BY DEF TypeOK, TaskType, Report

LEMMA ShutdownShows ==
  ASSUME IInv, ShownInv, BeginShutdown, UNCHANGED <<opened, status, task, code>>,
         spent'["drain"] = 0 => spent["drain"] = 0
  PROVE  ShownInv'
<1>1. CASE down = "none"
  BY <1>1, ShutdownBegun, Replaced DEF IInv, TypeOK, SocketInv, BeginShutdown
<1>2. CASE down # "none"
  BY <1>2, Unreplaced DEF BeginShutdown, control
<1> QED  BY <1>1, <1>2

LEMMA CreateShows ==
  ASSUME IInv, ShownInv, Create, setup.pc = "none", UNCHANGED <<draining, task, down>>,
         down = "none"
  PROVE  ShownInv'
<1>1. gen' = gen + 1 /\ code' = 0 /\ status' = "OFFLINE"
  BY Started DEF Create, IInv, TypeOK, SocketInv
<1> QED  BY <1>1, Replaced DEF ShownInv

\* Every step shows what is there.
LEMMA ShownStep == ASSUME IInv, ShownInv, [Next]_vars PROVE ShownInv'
<1>0. UNCHANGED spent => (spent'["drain"] = 0 => spent["drain"] = 0)
  OBVIOUS
<1>1. CASE SetupSettle \/ SetupSave \/ StartReturns \/ CallReturns
           \/ LogoutFails \/ DisconnectForgets \/ DeleteForgets \/ DeleteCleans
           \/ SetupFail \/ SilentClose \/ CallFails \/ ResetRevoked
  <2>1. /\ UNCHANGED <<gen, stopped, sock, opened, draining, down, task>>
        /\ status' \in {status, "OFFLINE", "REMOVED"} /\ code' \in {code, 0}
    <3>1. CASE SetupSettle \/ SetupSave \/ SetupFail
      BY <1>1, <3>1 DEF SetupSettle, SetupSave, SetupFail, control, transport, startup, work,
        codes
    <3>2. CASE StartReturns \/ CallReturns \/ LogoutFails \/ SilentClose
      BY <1>1, <3>2 DEF StartReturns, CallReturns, LogoutFails, SilentClose, control,
        transport, startup, work, codes
    <3>3. CASE DisconnectForgets \/ DeleteForgets \/ DeleteCleans
      BY <1>1, <3>3 DEF DisconnectForgets, DeleteForgets, DeleteCleans, control, transport,
        startup, work, codes
    <3>4. CASE CallFails
      <4>1. status' \in {status, "REMOVED"}
        BY <3>4 DEF CallFails
      <4> QED
        BY <3>4, <4>1 DEF CallFails, control, transport, startup, work, codes
    <3>5. CASE ResetRevoked
      BY <1>1, <3>5 DEF ResetRevoked, control, transport, startup, work, codes
    <3> QED  BY <1>1, <3>1, <3>2, <3>3, <3>4, <3>5
  <2>2. spent'["drain"] = 0 => spent["drain"] = 0
    BY <1>1, SpendGrows, Kinds DEF IInv, SetupSettle, SetupSave, StartReturns,
      CallReturns, LogoutFails, DisconnectForgets, DeleteForgets, DeleteCleans, SetupFail,
      SilentClose, CallFails, ResetRevoked
  <2> QED  BY <2>1, <2>2, Unreplaced
<1>2. CASE SetupOpen
  <2>1. /\ UNCHANGED <<gen, stopped, draining, down, task, status, code, spent>>
        /\ setup.pc # "none"
    BY <1>2 DEF SetupOpen, control, work, codes
  <2>2. CASE Current(setup.gen)
    <3>1. sock = 0 /\ down = "none" /\ ~stopped
      BY <2>1, <2>2 DEF Current, IInv, SocketInv, OneAttempt, ShutdownInv
    <3>2. status # "ONLINE" \/ spent["drain"] # 0
      BY <3>1 DEF ShownInv, ShownIsTrue, OnlineHasSocket
    <3>3. code = 0
      BY <3>1 DEF ShownInv, ShownIsTrue, CodeOfCurrentSocket, IInv, TypeOK, CountType
    <3>4. \A t \in Ticket : task[t].gen # gen
      BY <2>1 DEF IInv, SocketInv, TypeOK, PlaceType, TaskType
    <3> QED
      BY <2>1, <3>1, <3>2, <3>3, <3>4 DEF ShownInv, ShownIsTrue, CodeOfCurrentSocket,
        OnlineHasSocket
  <2>3. CASE ~Current(setup.gen)
    BY <1>2, <2>1, <2>3, Unreplaced DEF SetupOpen, MayOpen
  <2> QED  BY <2>2, <2>3
<1>3. CASE TimerFires
  <2>1. /\ UNCHANGED <<stopped, opened, draining, down, task, status, code, spent>> /\ timer
        /\ sock = 0
    BY <1>3 DEF TimerFires, work, codes, IInv, SocketInv, OneAttempt
  <2>2. CASE UNCHANGED <<gen, sock>>
    BY <2>1, <2>2, Unreplaced
  <2>3. CASE StartSocket /\ setup.pc = "none" /\ ~stopped
    <3>1. gen' = gen + 1 /\ sock' = 0
      BY <2>3, Started DEF IInv, TypeOK, SocketInv
    <3>2. code = 0 /\ down = "none"
      BY <2>1, <2>3 DEF ShownInv, ShownIsTrue, CodeOfCurrentSocket, IInv, ShutdownInv
    <3>3. status # "ONLINE" \/ spent["drain"] # 0
      BY <2>1, <3>2 DEF ShownInv, ShownIsTrue, OnlineHasSocket
    <3>4. \A t \in Ticket : task'[t].gen # gen'
      BY <2>1, <3>1 DEF IInv, SocketInv, TypeOK, PlaceType, TaskType
    <3> QED
      BY <2>1, <3>1, <3>2, <3>3, <3>4 DEF ShownInv, ShownIsTrue, CodeOfCurrentSocket,
        OnlineHasSocket
  <2> QED  BY <1>3, <2>2, <2>3 DEF TimerFires, StartSocket
<1>4. CASE SockOpens
  <2>1. /\ UNCHANGED <<gen, stopped, sock, draining, down, code>> /\ opened' = TRUE /\ sock # 0
        /\ \A t \in Ticket : UNCHANGED task[t] \/ task'[t].gen = sock
    BY <1>4, Reported DEF SockOpens, Report, control, codes, IInv
  <2>2. ~stopped /\ sock = gen /\ down = "none"
    BY <2>1 DEF IInv, SocketInv, OneAttempt, ShutdownInv
  <2> QED
    BY <2>1, <2>2 DEF ShownInv, ShownIsTrue, CodeOfCurrentSocket, OnlineHasSocket
<1>5. CASE SockConnecting \/ SockReports \/ CredsUpdate
  <2>1. /\ UNCHANGED <<gen, stopped, sock, opened, draining, down, code, spent>>
        /\ status' \in {status, "OFFLINE", "REMOVED"} /\ sock # 0
        /\ \A t \in Ticket : UNCHANGED task[t] \/ task'[t].gen = sock
    BY <1>5, Reported DEF SockConnecting, SockReports, CredsUpdate, Report, control, transport,
      codes, IInv
  <2>2. ~stopped /\ sock = gen
    BY <2>1 DEF IInv, SocketInv, OneAttempt
  <2> QED
    BY <2>1, <2>2 DEF ShownInv, ShownIsTrue, CodeOfCurrentSocket, OnlineHasSocket
<1>6. CASE SockCloses \/ PhoneLogout \/ CheckHealth \/ LogoutSucceeds
  <2>1. UNCHANGED <<draining, down, task>> /\ (CloseSocket(TRUE) \/ CloseSocket(FALSE))
    BY <1>6 DEF SockCloses, PhoneLogout, CheckHealth, LogoutSucceeds
  <2> QED  BY <2>1, ClosedNow, Replaced DEF ShownInv
<1>7. ASSUME NEW t \in Ticket, BeginTask(t) \/ EndTask(t) \/ CredsSaved(t) PROVE ShownInv'
  <2>1. /\ UNCHANGED <<gen, stopped, sock, opened, status, draining, down, spent>>
        /\ code' \in {code, 0} /\ task[t].pc # "none"
        /\ \A u \in Ticket : task'[u].gen = task[u].gen /\ (u # t => task'[u] = task[u])
    BY <1>7 DEF BeginTask, EndTask, CredsSaved, Settled, control, transport, codes, IInv, TypeOK,
      TaskType
  <2> QED
    BY <2>1 DEF ShownInv, ShownIsTrue, CodeOfCurrentSocket, OnlineHasSocket
<1>8. ASSUME NEW t \in Ticket, ShowCode(t) PROVE ShownInv'
  <2>1. /\ UNCHANGED <<gen, stopped, sock, opened, status, draining, down, spent>>
        /\ code' = code \/ (code' = task[t].gen /\ Current(task[t].gen))
        /\ task[t].pc # "none"
        /\ \A u \in Ticket : task'[u].gen = task[u].gen /\ (u # t => task'[u] = task[u])
    BY <1>8 DEF ShowCode, CodeWanted, Settled, control, transport, IInv, TypeOK, TaskType
  <2> QED
    BY <2>1 DEF ShownInv, ShownIsTrue, CodeOfCurrentSocket, OnlineHasSocket, Current
<1>9. ASSUME NEW t \in Ticket, QrLimitReached(t) PROVE ShownInv'
  <2>1. /\ UNCHANGED <<draining, down>> /\ gen' = gen + 1 /\ stopped' /\ status' = "OFFLINE"
        /\ \A u \in Ticket : task'[u].gen = task[u].gen
    BY <1>9 DEF QrLimitReached, NextGeneration, Settled, IInv, TypeOK, TaskType
  <2> QED  BY <2>1, Replaced DEF ShownInv
<1>10. ASSUME NEW t \in Ticket, FailTask(t) \/ CredsFail(t) PROVE ShownInv'
  <2>1. /\ UNCHANGED <<draining, down>>
        /\ CloseSocket(FALSE) \/ UNCHANGED <<gen, stopped, sock, opened, status, code>>
    BY <1>10 DEF FailTask, CredsFail, CloseAfterFailure, transport
  <2>3. \A u \in Ticket : /\ task'[u].gen = task[u].gen
                          /\ task[u].pc = "none" => task'[u].pc = "none"
    BY <1>10 DEF FailTask, CredsFail, Settled, IInv, TypeOK, TaskType
  <2>2. spent'["drain"] = 0 => spent["drain"] = 0
    BY <1>10, SpendGrows, Kinds DEF FailTask, CredsFail, IInv
  <2>4. CASE CloseSocket(FALSE)
    <3>1. gen' = gen + 1 /\ code' = 0 /\ status' # "ONLINE"
      BY <2>4, ClosedNow
    <3> QED  BY <2>1, <2>3, <3>1, Replaced DEF ShownInv
  <2>5. CASE UNCHANGED <<gen, stopped, sock, opened, status, code>>
    BY <2>1, <2>2, <2>3, <2>5 DEF ShownInv, ShownIsTrue, CodeOfCurrentSocket, OnlineHasSocket
  <2> QED  BY <2>1, <2>4, <2>5
<1>11. CASE ShutdownSetup
  <2>1. /\ UNCHANGED <<gen, stopped, draining, opened, status, task, code, spent>>
        /\ down = "setup" /\ down' = "drain" /\ stopped /\ draining
    BY <1>11 DEF ShutdownSetup, control, work, codes, IInv, ShutdownInv, ShownInv
  <2> QED
    BY <2>1 DEF ShownInv, ShownIsTrue, CodeOfCurrentSocket, OnlineHasSocket
<1>12. CASE ShutdownDrained \/ ShutdownAuth
  <2>1. /\ UNCHANGED <<gen, stopped, sock, opened, draining, task, code, spent>>
        /\ down # "none" /\ down' # "none" /\ draining
        /\ down' = "report" => status' # "ONLINE"
    BY <1>12 DEF ShutdownDrained, ShutdownAuth, FinalStatus, control, transport, work, codes,
      ShownInv
  <2> QED
    BY <2>1 DEF ShownInv, ShownIsTrue, CodeOfCurrentSocket, OnlineHasSocket
<1>13. CASE ShutdownEnds \/ ShutdownFails
  <2>1. /\ UNCHANGED <<gen, stopped, sock, opened, status, task, code>>
        /\ down' = "none" /\ draining' = FALSE
        /\ status # "ONLINE" \/ spent'["drain"] # 0
    BY <1>13, SpendGrows, Kinds DEF ShutdownEnds, ShutdownFails, transport, work, codes, IInv,
      ShownInv
  <2> QED
    BY <2>1 DEF ShownInv, ShownIsTrue, CodeOfCurrentSocket, OnlineHasSocket
<1>14. CASE CallConnect \/ CallDisconnect \/ CallDelete \/ LeaveAfterLogout
  <2>1. /\ UNCHANGED <<opened, status, task, code>>
        /\ BeginShutdown \/ UNCHANGED <<control, sock, live, broken, timer, down>>
    BY <1>14 DEF CallConnect, CallDisconnect, CallDelete, LeaveAfterLogout, work, codes
  <2>2. spent'["drain"] = 0 => spent["drain"] = 0
    BY <1>14, SpendGrows, Kinds DEF CallConnect, CallDisconnect, CallDelete, LeaveAfterLogout,
      IInv
  <2> QED  BY <2>1, <2>2, ShutdownShows, Unreplaced DEF control
<1>15. CASE CallCreate \/ ConnectCreates
  <2>1. Create /\ UNCHANGED <<draining, task, down>>
    BY <1>15 DEF CallCreate, ConnectCreates, work
  <2>2. setup.pc = "none" /\ down = "none"
    BY <1>15 DEF CallCreate, ConnectCreates, IInv, ShutdownInv, AtRest
  <2> QED  BY <2>1, <2>2, CreateShows
<1>16. CASE UNCHANGED vars
  BY <1>16, Unreplaced DEF vars, control, transport, work, codes
<1> QED
  BY <1>1, <1>2, <1>3, <1>4, <1>5, <1>6, <1>7, <1>8, <1>9, <1>10, <1>11, <1>12,
    <1>13, <1>14, <1>15, <1>16
  DEF Next, SetupStep, SockStep, TaskStep, ShutdownStep, CallStep

LEMMA ShownInit == Init => ShownInv
BY DEF Init, ShownInv, ShownIsTrue, CodeOfCurrentSocket, OnlineHasSocket, NoTask

-----------------------------------------------------------------------------
\* The invariant holds in every state of every behaviour.
LEMMA Invariant == Spec => [](IInv /\ NeverAbandoned)
<1>1. IInv /\ NeverAbandoned /\ [Next]_vars => (IInv /\ NeverAbandoned)'
  <2> SUFFICES ASSUME IInv, NeverAbandoned, [Next]_vars PROVE (IInv /\ NeverAbandoned)'
    OBVIOUS
  <2>1. TypeOK'
    BY FlagStep, PlaceStep, TaskTypeStep, CountStep DEF TypeOK
  <2> QED
    BY <2>1, SocketStep, DownStep, AuthStep, AliveStep DEF IInv
<1> QED
  BY InitCorrect, <1>1, PTL DEF Spec

\* Every variable keeps its type, for any events, QR limit and bounds.
THEOREM TypeCorrect == Spec => []TypeOK
BY Invariant, PTL DEF IInv

\* However setups, reconnects, failures, revocations and lifecycle calls are
\* interleaved, the instance has at most one socket that was not ended, and only
\* one attempt to get one is under way.
THEOREM SingleConnection == Spec => []ConnectsOnce
<1>1. IInv => ConnectsOnce
  BY DEF IInv, SocketInv, ConnectsOnce
<1> QED
  BY Invariant, <1>1, PTL

\* Whatever fails, an instance that is not stopped has a socket or will try again.
THEOREM NotAbandoned == Spec => []NeverAbandoned
BY Invariant, PTL

\* A device known to be revoked has no connection until its credentials are new.
THEOREM RevokedStaysOffline == Spec => []RevokedNeverReused
<1>1. IInv => RevokedNeverReused
  BY DEF IInv, SocketInv, OneSocket, OneAttempt, AuthInv, RevokedNeverReused
<1> QED
  BY Invariant, <1>1, PTL

\* Once the shutdown a call waits for has ended, and once the instance has been
\* deleted, no handler, setup, reconnect or reset of the instance is left.
THEOREM ShutdownIsQuiet == Spec => []QuietAfterShutdown
<1>1. IInv => QuietAfterShutdown
  <2> SUFFICES ASSUME IInv, call.pc \in {"create", "forget", "clean"} \/ ~present
               PROVE  Quiet
    BY DEF QuietAfterShutdown
  <2>1. AtRest
    BY DEF IInv, ShutdownInv
  <2>2. sock = 0
    BY <2>1 DEF IInv, SocketInv, OneAttempt, AtRest
  <2>3. live = {}
    BY <2>2 DEF IInv, SocketInv, OneSocket
  <2> QED
    BY <2>1, <2>3 DEF AtRest, Quiet
<1> QED
  BY Invariant, <1>1, PTL

\* A socket is opened only when the store has the credentials it opens with, and
\* no write of them is pending.
THEOREM OpensOnStored == Spec => OpensOnSavedAuth
<1>1. IInv /\ [Next]_vars => [OnSavedAuth]_vars
  BY OpenStep
<1> QED
  BY Invariant, <1>1, PTL DEF Spec, OpensOnSavedAuth, OnSavedAuth

\* A handler of a former socket that goes on after an await changes nothing of
\* the connection that replaced its own (the handler of the QR limit excepted).
THEOREM FormerSocketsInert == Spec => FormerSocketInert
<1>1. IInv /\ [Next]_vars =>
        [\A t \in Ticket :
           t \in Tasks /\ task'[t].pc # task[t].pc /\ (stopped \/ task[t].gen # gen)
             /\ task[t].pc # "limit" =>
             UNCHANGED <<gen, stopped, sock, live, status, timer, code>>]_vars
  BY InertStep DEF FormerInert
<1> QED
  BY Invariant, <1>1, PTL DEF Spec, FormerSocketInert

\* The code and the status that a client is shown are of the socket there is: no late
\* handler shows the code of a former socket, and an instance is ONLINE only while its
\* socket is open or its shutdown drains (unless the writes of a shutdown have failed).
THEOREM ShownTruly == Spec => []ShownIsTrue
<1>1. IInv /\ ShownInv /\ [Next]_vars => ShownInv'
  BY ShownStep
<1>2. Spec => []ShownInv
  BY ShownInit, <1>1, Invariant, PTL DEF Spec
<1>3. ShownInv => ShownIsTrue
  BY DEF ShownInv
<1> QED
  BY <1>2, <1>3, PTL
=============================================================================
