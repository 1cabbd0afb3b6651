---------------------------- MODULE DurableQueue ----------------------------
(* What a lane of the outbox promises as long as no dead letter is replayed: *)
(* an event it has accepted is kept until the receiver has got it or it is   *)
(* cancelled, whatever fails; what is sent waits in the directory then; and  *)
(* what was cancelled is not sent, until a restart forgets that it was.  An  *)
(* event may be sent again, and received more than once.                     *)

CONSTANT Event

VARIABLES
  waiting,    \* events to be sent
  parked,     \* events given up after too many attempts, retained
  sending,    \* events a request is under way for
  accepted,   \* events whose producer has been told so
  received,   \* events the receiver has got
  cancelled,  \* events nobody wants any more
  refused     \* those of them that the process knows of

queueVars == <<waiting, parked, sending, accepted, received, cancelled, refused>>

Outstanding == accepted \ (received \union cancelled)

QueueInit ==
  /\ waiting = {} /\ parked = {} /\ sending = {}
  /\ accepted = {} /\ received = {} /\ cancelled = {} /\ refused = {}

\* The event is put in the directory, for the first time or after an attempt.
Put(e) ==
  /\ waiting' = waiting \union {e}
  /\ UNCHANGED <<parked, sending, accepted, received, cancelled, refused>>

\* The producer is told when the event is safe, or has been dealt with already.
Accept(e) ==
  /\ e \in waiting \union parked \union received \union cancelled
  /\ accepted' = accepted \union {e}
  /\ UNCHANGED <<waiting, parked, sending, received, cancelled, refused>>

Send(e) ==
  /\ e \in waiting \ refused
  /\ sending' = sending \union {e}
  /\ UNCHANGED <<waiting, parked, accepted, received, cancelled, refused>>

\* The receiver gets it; another request for the same event may still be under way.
Receive(e) ==
  /\ e \in sending
  /\ received' = received \union {e}
  /\ sending' \in {sending, sending \ {e}}
  /\ UNCHANGED <<waiting, parked, accepted, cancelled, refused>>

\* Requests fail: the events stay where they are.
Abandon ==
  /\ sending' \in SUBSET sending
  /\ UNCHANGED <<waiting, parked, accepted, received, cancelled, refused>>

\* The process dies and another takes over, which knows nothing but the files.
Restart ==
  /\ sending' = {} /\ refused' = {}
  /\ UNCHANGED <<waiting, parked, accepted, received, cancelled>>

Park(e) ==
  /\ e \in waiting
  /\ waiting' = waiting \ {e} /\ parked' = parked \union {e}
  /\ UNCHANGED <<sending, accepted, received, cancelled, refused>>

\* Only what is not owed to anybody is removed.
Remove(e) ==
  /\ e \notin Outstanding
  /\ \/ waiting' = waiting \ {e} /\ UNCHANGED parked
     \/ parked' = parked \ {e} /\ UNCHANGED waiting
  /\ UNCHANGED <<sending, accepted, received, cancelled, refused>>

Cancel(S) ==
  /\ cancelled' = cancelled \union S /\ refused' = refused \union S
  /\ UNCHANGED <<waiting, parked, sending, accepted, received>>

QueueNext ==
  \/ \E e \in Event : \/ Put(e) \/ Accept(e) \/ Send(e) \/ Receive(e)
                      \/ Park(e) \/ Remove(e)
  \/ \E S \in SUBSET Event : Cancel(S)
  \/ Abandon \/ Restart

QueueSpec == QueueInit /\ [][QueueNext]_queueVars
=============================================================================
