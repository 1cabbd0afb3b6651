------------------------------ MODULE FifoLock ------------------------------
(* What a chain of promises promises: the calls of one name run one at a   *)
(* time, in the order they were made, whether or not the earlier failed.   *)
EXTENDS Integers

CONSTANTS
  Caller,  \* the calls
  Name     \* what they are serialized by

VARIABLES
  about,   \* the name each call is for
  made,    \* how many calls were made
  ticket,  \* the number of each call; 0 for one not made
  phase    \* "out", "waiting", "inside" or "done"

lockVars == <<about, made, ticket, phase>>

Earlier(c, d) == about[c] = about[d] /\ 0 < ticket[c] /\ ticket[c] < ticket[d]

LockInit ==
  /\ about \in [Caller -> Name]
  /\ made = 0 /\ ticket = [c \in Caller |-> 0]
  /\ phase = [c \in Caller |-> "out"]

Ask(c) ==
  /\ phase[c] = "out"
  /\ made' = made + 1
  /\ ticket' = [ticket EXCEPT ![c] = made + 1]
  /\ phase' = [phase EXCEPT ![c] = "waiting"]
  /\ UNCHANGED about

Enter(c) ==
  /\ phase[c] = "waiting"
  /\ \A d \in Caller : Earlier(d, c) => phase[d] = "done"
  /\ phase' = [phase EXCEPT ![c] = "inside"]
  /\ UNCHANGED <<about, made, ticket>>

Exit(c) ==
  /\ phase[c] = "inside"
  /\ phase' = [phase EXCEPT ![c] = "done"]
  /\ UNCHANGED <<about, made, ticket>>

LockNext == \E c \in Caller : Ask(c) \/ Enter(c) \/ Exit(c)

LockSpec == LockInit /\ [][LockNext]_lockVars
=============================================================================
