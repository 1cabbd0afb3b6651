---------------------------- MODULE PromiseChain ----------------------------
(***************************************************************************)
(* Calls that run one at a time by chaining promises: `exclusive' of the   *)
(* lifecycle controller and `serialized' of the database.  A map holds, by *)
(* name, the promise of the last call; a call chains its action on it and  *)
(* takes its place, and removes it if it still is the last when it ends.   *)
(*                                                                         *)
(* A call is identified with the promise it puts in the map.  A rejection  *)
(* is caught before the next action, which runs all the same.              *)
(***************************************************************************)
EXTENDS Integers

CONSTANTS
  Caller,  \* the calls, each made at most once
  Name,    \* what they are serialized by
  NoCall   \* the map has no entry

ASSUME CallerAssumption == NoCall \notin Caller

VARIABLES
  about,    \* the name each call is for
  last,     \* the map: the promise of the last call
  prior,    \* what each call's action is chained on
  promise,  \* of each call: "none", "chained", "running", "resolved", "rejected"
  gone,     \* the calls that have returned
  made,     \* history: how many calls were made
  ticket    \* history: the number of each call

chainVars == <<about, last, prior, promise, gone, made, ticket>>

Settled(c) == promise[c] \in {"resolved", "rejected"}

ChainInit ==
  /\ about \in [Caller -> Name]
  /\ last = [n \in Name |-> NoCall]
  /\ prior = [c \in Caller |-> NoCall]
  /\ promise = [c \in Caller |-> "none"]
  /\ gone = {}
  /\ made = 0 /\ ticket = [c \in Caller |-> 0]

Slot(c) == about[c]

Chain(c) ==
  /\ promise[c] = "none"
  /\ prior' = [prior EXCEPT ![c] = last[Slot(c)]]
  /\ last' = [last EXCEPT ![Slot(c)] = c]
  /\ promise' = [promise EXCEPT ![c] = "chained"]
  /\ made' = made + 1
  /\ ticket' = [ticket EXCEPT ![c] = made + 1]
  /\ UNCHANGED <<about, gone>>

\* Mutant: a rejection is not caught before the next action.
RunsAfterSuccess(c) == prior[c] # NoCall => promise[prior[c]] = "resolved"

MayRun(c) == prior[c] # NoCall => Settled(prior[c])

Run(c) ==
  /\ promise[c] = "chained" /\ MayRun(c)
  /\ promise' = [promise EXCEPT ![c] = "running"]
  /\ UNCHANGED <<about, last, prior, gone, made, ticket>>

Settle(c) ==
  /\ promise[c] = "running"
  /\ \E how \in {"resolved", "rejected"} : promise' = [promise EXCEPT ![c] = how]
  /\ UNCHANGED <<about, last, prior, gone, made, ticket>>

\* Mutant: the entry is removed whoever put it there.
DropsAny(c) == [last EXCEPT ![Slot(c)] = NoCall]
DropsOwn(c) == IF last[Slot(c)] = c THEN [last EXCEPT ![Slot(c)] = NoCall] ELSE last

\* finally: the caller's await is over.
Return(c) ==
  /\ Settled(c) /\ c \notin gone
  /\ gone' = gone \union {c}
  /\ last' = DropsOwn(c)
  /\ UNCHANGED <<about, prior, promise, made, ticket>>

ChainNext == \E c \in Caller : Chain(c) \/ Run(c) \/ Settle(c) \/ Return(c)

ChainSpec == ChainInit /\ [][ChainNext]_chainVars

\* An action that has begun ends.
ChainFairness == \A c \in Caller : WF_chainVars(Run(c) \/ Settle(c) \/ Return(c))

-----------------------------------------------------------------------------
(* Properties *)

\* The type of every variable; an entry of the map is a call of that name, so that a call
\* never waits for one of another name.
ChainTypeOK ==
  /\ about \in [Caller -> Name]
  /\ last \in [Name -> Caller \union {NoCall}]
  /\ \A n \in Name : last[n] # NoCall => about[last[n]] = n
  /\ prior \in [Caller -> Caller \union {NoCall}]
  /\ promise \in [Caller -> {"none", "chained", "running", "resolved", "rejected"}]
  /\ gone \subseteq Caller
  /\ made \in Nat /\ ticket \in [Caller -> 0 .. made]

\* Two calls of one name never run at the same time.
OneRuns == \A c, d \in Caller :
  promise[c] = "running" /\ promise[d] = "running" /\ about[c] = about[d] => c = d

\* The map holds nothing for a name none of whose calls is under way.
NoEntryLeft == \A n \in Name : last[n] # NoCall => last[n] \notin gone

\* The chain is a first-come first-served lock: the calls of a name run in the
\* order they were made, each after the ones before it have settled.
Phase == [c \in Caller |->
  IF promise[c] = "none" THEN "out" ELSE IF promise[c] = "chained" THEN "waiting"
  ELSE IF promise[c] = "running" THEN "inside" ELSE "done"]
Lock == INSTANCE FifoLock WITH phase <- Phase
ServesInOrder == Lock!LockSpec

\* Every call runs, whatever became of the ones before it.
EveryCallRuns == \A c \in Caller : []<>(promise[c] \notin {"chained", "running"})
=============================================================================
