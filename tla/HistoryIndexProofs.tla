------------------------- MODULE HistoryIndexProofs -------------------------
(***************************************************************************)
(* Theorems about HistoryIndex, for any runs, instances and bounds: the    *)
(* index denies no work enqueued by this process, but for a write that was *)
(* over before the scan that missed it, and claims no cancelled work.      *)
(***************************************************************************)
EXTENDS HistoryIndex, TLAPS

Writer == {"new", "write", "check", "undo", "reundo", "rewrite", "recheck", "forget", "idle"}

ScanState ==
  [pc : {"none", "list", "read"}, left : SUBSET HistoryEvent, found : SUBSET HistoryEvent,
   added : SUBSET HistoryEvent, began : SUBSET HistoryEvent,
   epochs : {<<>>} \union [Connection -> Nat]]

HistoryTyped ==
  /\ onDisk \subseteq HistoryEvent /\ deadDisk \subseteq HistoryEvent
  /\ stamp \in [HistoryEvent -> Nat] /\ postStamp \in [HistoryEvent -> Nat]
  /\ writer \in [HistoryEvent -> Writer]
  /\ post \in [HistoryEvent -> {"none", "posting", "acked"}]
  /\ epochOf \in [Connection -> Nat] /\ happened \in [HappensFew -> Nat]
  /\ index \subseteq HistoryEvent /\ fresh \in BOOLEAN
  /\ scan \in ScanState
  /\ scan.pc # "none" => scan.epochs \in [Connection -> Nat]
  /\ \A c \in lookups : c.runs \subseteq HistoryEvent /\ c.waited \subseteq c.runs

\* Epochs are counted, so the next closure's is new; what has not been enqueued has left no
\* trace.
NothingAhead ==
  /\ \A i \in Connection : epochOf[i] <= happened["closure"]
  /\ \A e \in HistoryEvent : stamp[e] <= happened["closure"]
  /\ scan.pc # "none" => \A i \in Connection : scan.epochs[i] <= happened["closure"]
  /\ \A e \in HistoryEvent : writer[e] = "new" =>
       /\ e \notin onDisk \union deadDisk \union index
       /\ e \notin scan.found \union scan.added
       /\ post[e] = "none"

\* The index holds events of the present epoch; so does what a scan has found, of an
\* instance that has not closed since it began.
OnlyCurrent ==
  /\ \A e \in index : IsCurrent(e, stamp[e])
  /\ scan.pc # "none" => \A e \in scan.found :
       scan.epochs[ConnOf[e]] = epochOf[ConnOf[e]] => IsCurrent(e, stamp[e])

\* On disk or about to be, in the present epoch.
Live(e) ==
  writer[e] # "new" /\ IsCurrent(e, stamp[e]) /\ (e \in onDisk \/ writer[e] # "idle")

\* A fresh index knows all that is live, but for what straddled the scan.
FreshKnows == fresh => \A e \in HistoryEvent : Live(e) => e \in index \union straddled

\* What the scan under way will know: writes of a later epoch began while it ran; a write
\* that is under way began before it or while it ran; and a file that is there has
\* been listed, added by its writer, or straddles.
ScanKnows == scan.pc # "none" =>
  /\ ~fresh
  /\ \A e \in HistoryEvent : Live(e) /\ scan.epochs[ConnOf[e]] # epochOf[ConnOf[e]]
       => e \in scan.added
  /\ \A e \in HistoryEvent : writer[e] \notin {"new", "idle"} => e \in scan.began \union scan.added
  /\ scan.pc = "read" => \A e \in HistoryEvent : Live(e) /\ writer[e] = "idle"
       => e \in scan.left \union scan.found \union scan.added \union straddled

IndexInv == HistoryTyped /\ NothingAhead /\ OnlyCurrent /\ FreshKnows /\ ScanKnows

-----------------------------------------------------------------------------
(* Steps *)

\* A bounded kind that happens is counted.
LEMMA HappensCounts ==
  ASSUME happened \in [HappensFew -> Nat], NEW kind \in HappensFew, Happens(kind)
  PROVE  /\ happened' \in [HappensFew -> Nat]
         /\ happened'[kind] = happened[kind] + 1
         /\ \A k \in HappensFew : k # kind => happened'[k] = happened[k]
<1>1. happened' = [happened EXCEPT ![kind] = @ + 1]
  BY DEF Happens
<1> HIDE DEF Happens
<1> QED  BY <1>1

LEMMA EnqueueHistoryKeeps ==
  ASSUME IndexInv, NEW e \in HistoryEvent, EnqueueHistory(e)
  PROVE  IndexInv'
<1> USE HistoryAssumption DEF IndexInv, HistoryTyped, laneVars, epochVars, indexVars, ScanState,
        Writer, EnqueueHistory, Track
<1>0. /\ happened' \in [HappensFew -> Nat]
      /\ happened["closure"] \in Nat /\ happened'["closure"] \in Nat
      /\ happened'["closure"] = happened["closure"]
  BY HappensCounts DEF HappensFew
<1>1. HistoryTyped'
  BY <1>0
<1>2. NothingAhead'
  BY <1>0 DEF NothingAhead
<1>3. OnlyCurrent'
  BY <1>0 DEF OnlyCurrent, NothingAhead, IsCurrent
<1>4. FreshKnows'
  BY <1>0 DEF FreshKnows, Live, IsCurrent, NothingAhead
<1>5. ScanKnows'
  BY <1>0 DEF ScanKnows, Live, IsCurrent, NothingAhead
<1> QED  BY <1>1, <1>2, <1>3, <1>4, <1>5

LEMMA FileAppearsKeeps ==
  ASSUME IndexInv, NEW e \in HistoryEvent, FileAppears(e)
  PROVE  IndexInv'
<1> USE HistoryAssumption DEF IndexInv, HistoryTyped, laneVars, epochVars, indexVars, ScanState,
        Writer, FileAppears
<1>1. HistoryTyped'
  OBVIOUS
<1>2. NothingAhead'
  BY DEF NothingAhead
<1>3. OnlyCurrent'
  BY DEF OnlyCurrent, NothingAhead, IsCurrent
<1>4. FreshKnows'
  BY DEF FreshKnows, Live, IsCurrent, NothingAhead
<1>5. ScanKnows'
  BY DEF ScanKnows, Live, IsCurrent, NothingAhead
<1> QED  BY <1>1, <1>2, <1>3, <1>4, <1>5

LEMMA EnqueueOverKeeps ==
  ASSUME IndexInv, NEW e \in HistoryEvent, EnqueueOver(e)
  PROVE  IndexInv'
<1> USE HistoryAssumption DEF IndexInv, HistoryTyped, laneVars, epochVars, indexVars, ScanState,
        Writer, EnqueueOver, WriteOver, Straddles
<1>1. HistoryTyped'
  OBVIOUS
<1>2. NothingAhead'
  BY DEF NothingAhead
<1>3. OnlyCurrent'
  BY DEF OnlyCurrent, NothingAhead, IsCurrent
<1>4. FreshKnows'
  BY DEF FreshKnows, Live, IsCurrent, NothingAhead
<1>5. ScanKnows'
  BY DEF ScanKnows, Live, IsCurrent, NothingAhead
<1> QED  BY <1>1, <1>2, <1>3, <1>4, <1>5

LEMMA UndoWriteKeeps ==
  ASSUME IndexInv, NEW e \in HistoryEvent, UndoWrite(e)
  PROVE  IndexInv'
<1> USE HistoryAssumption DEF IndexInv, HistoryTyped, laneVars, epochVars, indexVars, ScanState,
        Writer, UndoWrite, WriteOver, Straddles
<1>1. HistoryTyped'
  OBVIOUS
<1>2. NothingAhead'
  BY DEF NothingAhead
<1>3. OnlyCurrent'
  BY DEF OnlyCurrent, NothingAhead, IsCurrent
<1>4. FreshKnows'
  BY DEF FreshKnows, Live, IsCurrent, NothingAhead
<1>5. ScanKnows'
  BY DEF ScanKnows, Live, IsCurrent, NothingAhead
<1> QED  BY <1>1, <1>2, <1>3, <1>4, <1>5

LEMMA ReplayHistoryKeeps ==
  ASSUME IndexInv, NEW e \in HistoryEvent, ReplayHistory(e)
  PROVE  IndexInv'
<1> USE HistoryAssumption DEF IndexInv, HistoryTyped, laneVars, epochVars, indexVars, ScanState,
        Writer, ReplayHistory, Track, Cancelled
<1>1. HistoryTyped'
  OBVIOUS
<1>2. NothingAhead'
  BY DEF NothingAhead
<1>3. OnlyCurrent'
  BY DEF OnlyCurrent, NothingAhead, IsCurrent
<1>4. FreshKnows'
  BY DEF FreshKnows, Live, IsCurrent, NothingAhead
<1>5. ScanKnows'
  BY DEF ScanKnows, Live, IsCurrent, NothingAhead
<1> QED  BY <1>1, <1>2, <1>3, <1>4, <1>5

LEMMA ReplayChecksKeeps ==
  ASSUME IndexInv, NEW e \in HistoryEvent, ReplayChecks(e)
  PROVE  IndexInv'
<1> USE HistoryAssumption DEF IndexInv, HistoryTyped, laneVars, epochVars, indexVars, ScanState,
        Writer, ReplayChecks
<1>1. HistoryTyped'
  OBVIOUS
<1>2. NothingAhead'
  BY DEF NothingAhead
<1>3. OnlyCurrent'
  BY DEF OnlyCurrent, NothingAhead, IsCurrent
<1>4. FreshKnows'
  BY DEF FreshKnows, Live, IsCurrent, NothingAhead
<1>5. ScanKnows'
  BY DEF ScanKnows, Live, IsCurrent, NothingAhead
<1> QED  BY <1>1, <1>2, <1>3, <1>4, <1>5

LEMMA ReplayOverKeeps ==
  ASSUME IndexInv, NEW e \in HistoryEvent, ReplayOver(e)
  PROVE  IndexInv'
<1> USE HistoryAssumption DEF IndexInv, HistoryTyped, laneVars, epochVars, indexVars, ScanState,
        Writer, ReplayOver, WriteOver, Straddles
<1>1. HistoryTyped'
  OBVIOUS
<1>2. NothingAhead'
  BY DEF NothingAhead
<1>3. OnlyCurrent'
  BY DEF OnlyCurrent, NothingAhead, IsCurrent
<1>4. FreshKnows'
  BY DEF FreshKnows, Live, IsCurrent, NothingAhead
<1>5. ScanKnows'
  BY DEF ScanKnows, Live, IsCurrent, NothingAhead
<1> QED  BY <1>1, <1>2, <1>3, <1>4, <1>5

LEMMA PostHistoryKeeps ==
  ASSUME IndexInv, NEW e \in HistoryEvent, PostHistory(e)
  PROVE  IndexInv'
<1> USE HistoryAssumption DEF IndexInv, HistoryTyped, laneVars, epochVars, indexVars, ScanState,
        Writer, PostHistory
<1>0. /\ happened' \in [HappensFew -> Nat]
      /\ happened["closure"] \in Nat /\ happened'["closure"] \in Nat
      /\ happened'["closure"] = happened["closure"]
  BY HappensCounts DEF HappensFew
<1>1. HistoryTyped'
  BY <1>0
<1>2. NothingAhead'
  BY <1>0 DEF NothingAhead
<1>3. OnlyCurrent'
  BY <1>0 DEF OnlyCurrent, NothingAhead, IsCurrent
<1>4. FreshKnows'
  BY <1>0 DEF FreshKnows, Live, IsCurrent, NothingAhead
<1>5. ScanKnows'
  BY <1>0 DEF ScanKnows, Live, IsCurrent, NothingAhead
<1> QED  BY <1>1, <1>2, <1>3, <1>4, <1>5

LEMMA PostOverKeeps ==
  ASSUME IndexInv, NEW e \in HistoryEvent, PostOver(e)
  PROVE  IndexInv'
<1> USE HistoryAssumption DEF IndexInv, HistoryTyped, laneVars, epochVars, indexVars, ScanState,
        Writer, PostOver
<1>1. HistoryTyped'
  OBVIOUS
<1>2. NothingAhead'
  BY DEF NothingAhead
<1>3. OnlyCurrent'
  BY DEF OnlyCurrent, NothingAhead, IsCurrent
<1>4. FreshKnows'
  BY DEF FreshKnows, Live, IsCurrent, NothingAhead
<1>5. ScanKnows'
  BY DEF ScanKnows, Live, IsCurrent, NothingAhead
<1> QED  BY <1>1, <1>2, <1>3, <1>4, <1>5

LEMMA UnlinkedKeeps ==
  ASSUME IndexInv, NEW e \in HistoryEvent, Unlinked(e)
  PROVE  IndexInv'
<1> USE HistoryAssumption DEF IndexInv, HistoryTyped, laneVars, epochVars, indexVars, ScanState,
        Writer, Unlinked
<1>1. HistoryTyped'
  OBVIOUS
<1>2. NothingAhead'
  BY DEF NothingAhead
<1>3. OnlyCurrent'
  BY DEF OnlyCurrent, NothingAhead, IsCurrent
<1>4. FreshKnows'
  BY DEF FreshKnows, Live, IsCurrent, NothingAhead
<1>5. ScanKnows'
  BY DEF ScanKnows, Live, IsCurrent, NothingAhead
<1> QED  BY <1>1, <1>2, <1>3, <1>4, <1>5

LEMMA ScanReadsKeeps ==
  ASSUME IndexInv, NEW e \in HistoryEvent, ScanReads(e)
  PROVE  IndexInv'
<1> USE HistoryAssumption DEF IndexInv, HistoryTyped, laneVars, epochVars, indexVars, ScanState,
        Writer, ScanReads, Counted
<1>1. HistoryTyped'
  OBVIOUS
<1>2. NothingAhead'
  BY DEF NothingAhead
<1>3. OnlyCurrent'
  BY DEF OnlyCurrent, NothingAhead, IsCurrent
<1>4. FreshKnows'
  BY DEF FreshKnows, Live, IsCurrent, NothingAhead
<1>5. ScanKnows'
  BY DEF ScanKnows, Live, IsCurrent, NothingAhead
<1> QED  BY <1>1, <1>2, <1>3, <1>4, <1>5

LEMMA CloseConnectionKeeps ==
  ASSUME IndexInv, NEW i \in Connection, CloseConnection(i)
  PROVE  IndexInv'
<1> USE HistoryAssumption DEF IndexInv, HistoryTyped, laneVars, epochVars, indexVars, ScanState,
        Writer, CloseConnection, IndexWithout, EventsAt
<1>0. /\ happened' \in [HappensFew -> Nat]
      /\ happened["closure"] \in Nat /\ happened'["closure"] \in Nat
      /\ happened'["closure"] = happened["closure"] + 1
  BY HappensCounts DEF HappensFew
<1>1. HistoryTyped'
  BY <1>0
<1>2. NothingAhead'
  BY <1>0 DEF NothingAhead
<1>3. OnlyCurrent'
  BY <1>0 DEF OnlyCurrent, NothingAhead, IsCurrent
<1>4. FreshKnows'
  BY <1>0 DEF FreshKnows, Live, IsCurrent, NothingAhead
<1>5. ScanKnows'
  BY <1>0 DEF ScanKnows, Live, IsCurrent, NothingAhead
<1> QED  BY <1>1, <1>2, <1>3, <1>4, <1>5

LEMMA ScanListsKeeps ==
  ASSUME IndexInv, ScanLists
  PROVE  IndexInv'
<1> USE HistoryAssumption DEF IndexInv, HistoryTyped, laneVars, epochVars, indexVars, ScanState,
        Writer, ScanLists
<1>1. HistoryTyped'
  OBVIOUS
<1>2. NothingAhead'
  BY DEF NothingAhead
<1>3. OnlyCurrent'
  BY DEF OnlyCurrent, NothingAhead, IsCurrent
<1>4. FreshKnows'
  BY DEF FreshKnows, Live, IsCurrent, NothingAhead
<1>5. ScanKnows'
  BY DEF ScanKnows, Live, IsCurrent, NothingAhead
<1> QED  BY <1>1, <1>2, <1>3, <1>4, <1>5

LEMMA IndexExpiresKeeps ==
  ASSUME IndexInv, IndexExpires
  PROVE  IndexInv'
<1> USE HistoryAssumption DEF IndexInv, HistoryTyped, laneVars, epochVars, indexVars, ScanState,
        Writer, IndexExpires
<1>1. HistoryTyped'
  OBVIOUS
<1>2. NothingAhead'
  BY DEF NothingAhead
<1>3. OnlyCurrent'
  BY DEF OnlyCurrent, NothingAhead, IsCurrent
<1>4. FreshKnows'
  BY DEF FreshKnows, Live, IsCurrent, NothingAhead
<1>5. ScanKnows'
  BY DEF ScanKnows, Live, IsCurrent, NothingAhead
<1> QED  BY <1>1, <1>2, <1>3, <1>4, <1>5

LEMMA RestartProcessKeeps ==
  ASSUME IndexInv, RestartProcess
  PROVE  IndexInv'
<1> USE HistoryAssumption DEF IndexInv, HistoryTyped, laneVars, epochVars, indexVars, ScanState,
        Writer, RestartProcess, NoScan
<1>0. /\ happened' \in [HappensFew -> Nat]
      /\ happened["closure"] \in Nat /\ happened'["closure"] \in Nat
      /\ happened'["closure"] = happened["closure"]
  BY HappensCounts DEF HappensFew
<1>1. HistoryTyped'
  BY <1>0
<1>2. NothingAhead'
  BY <1>0 DEF NothingAhead
<1>3. OnlyCurrent'
  BY <1>0 DEF OnlyCurrent, NothingAhead, IsCurrent
<1>4. FreshKnows'
  BY <1>0 DEF FreshKnows, Live, IsCurrent, NothingAhead
<1>5. ScanKnows'
  BY <1>0 DEF ScanKnows, Live, IsCurrent, NothingAhead
<1> QED  BY <1>1, <1>2, <1>3, <1>4, <1>5

LEMMA ScanFailsKeeps ==
  ASSUME IndexInv, ScanFails
  PROVE  IndexInv'
<1> USE HistoryAssumption DEF IndexInv, HistoryTyped, laneVars, epochVars, indexVars, ScanState,
        Writer, ScanFails, NoScan
<1>1. HistoryTyped'
  OBVIOUS
<1>2. NothingAhead'
  BY DEF NothingAhead
<1>3. OnlyCurrent'
  BY DEF OnlyCurrent, NothingAhead, IsCurrent
<1>4. FreshKnows'
  BY DEF FreshKnows, Live, IsCurrent, NothingAhead
<1>5. ScanKnows'
  BY DEF ScanKnows, Live, IsCurrent, NothingAhead
<1> QED  BY <1>1, <1>2, <1>3, <1>4, <1>5

LEMMA AskPendingKeeps ==
  ASSUME IndexInv, NEW runs \in Scopes, AskPending(runs)
  PROVE  IndexInv'
<1> DEFINE call == [runs |-> runs, waited |-> {e \in runs : Waits(e)}]
<1>1. UNCHANGED <<laneVars, epochVars, index, fresh>>
  BY DEF AskPending
<1>2. lookups' \subseteq lookups \union {call}
  BY DEF AskPending, askVars
<1>3. UNCHANGED <<scan, straddled>> \/ (~fresh /\ scan.pc = "none" /\ BeginScan)
  BY DEF AskPending
<1>4. runs \subseteq HistoryEvent
  BY DEF Scopes, EventsAt
<1>5. \A c \in lookups' : c.runs \subseteq HistoryEvent /\ c.waited \subseteq c.runs
  BY <1>2, <1>4 DEF IndexInv, HistoryTyped
<1> HIDE DEF call
<1> USE HistoryAssumption DEF IndexInv, HistoryTyped, laneVars, epochVars, ScanState, BeginScan,
        NoScan, Tickets
<1>6. HistoryTyped'
  <2>1. CASE UNCHANGED <<scan, straddled>>
    BY <1>1, <1>5, <2>1
  <2>2. CASE BeginScan
    <3>1. scan' = [NoScan EXCEPT !.pc = "list", !.epochs = epochOf, !.began = Tickets]
      BY <2>2
    <3>2. Tickets \subseteq HistoryEvent /\ epochOf \in [Connection -> Nat]
      OBVIOUS
    <3>3. scan' \in ScanState /\ scan'.epochs \in [Connection -> Nat]
      BY <3>1, <3>2
    <3> QED  BY <1>1, <1>5, <3>3
  <2> QED  BY <1>3, <2>1, <2>2
<1>7. NothingAhead'
  BY <1>1, <1>3 DEF NothingAhead
<1>8. OnlyCurrent'
  BY <1>1, <1>3 DEF OnlyCurrent, IsCurrent
<1>9. FreshKnows'
  BY <1>1, <1>3 DEF FreshKnows, Live, IsCurrent
<1>10. ScanKnows'
  <2>1. CASE UNCHANGED <<scan, straddled>>
    BY <1>1, <2>1 DEF ScanKnows, Live, IsCurrent
  <2>2. CASE ~fresh /\ scan.pc = "none" /\ BeginScan
    <3>1. scan'.pc = "list" /\ scan'.epochs = epochOf /\ scan'.began = Tickets
      BY <2>2
    <3> QED  BY <1>1, <2>2, <3>1 DEF ScanKnows, Live, IsCurrent
  <2> QED  BY <1>3, <2>1, <2>2
<1> QED  BY <1>6, <1>7, <1>8, <1>9, <1>10

LEMMA ScanEndedKeeps ==
  ASSUME IndexInv, ScanEnded
  PROVE  IndexInv'
<1> USE HistoryAssumption DEF IndexInv, HistoryTyped, laneVars, epochVars, indexVars, ScanState,
        Writer, ScanEnded, FoundNow, Counted, Tickets, NoScan, Answered
<1>1. HistoryTyped'
  OBVIOUS
<1>2. NothingAhead'
  BY DEF NothingAhead
<1>3. OnlyCurrent'
  BY DEF OnlyCurrent, NothingAhead, IsCurrent
<1>4. FreshKnows'
  <2> SUFFICES ASSUME NEW e \in HistoryEvent, Live(e)
                PROVE  e \in index' \union straddled
    BY DEF FreshKnows, Live, IsCurrent
  <2>1. CASE writer[e] # "idle"
    BY <2>1 DEF Live, IsCurrent
  <2>2. CASE writer[e] = "idle" /\ scan.epochs[ConnOf[e]] # epochOf[ConnOf[e]]
    BY <2>2 DEF ScanKnows, Live, IsCurrent
  <2>3. CASE writer[e] = "idle" /\ scan.epochs[ConnOf[e]] = epochOf[ConnOf[e]]
    <3>1. e \in scan.found \union scan.added \union straddled
      BY <2>3 DEF ScanKnows
    <3> QED  BY <2>3, <3>1 DEF Live, IsCurrent
  <2> QED  BY <2>1, <2>2, <2>3
<1>5. ScanKnows'
  BY DEF ScanKnows, Live, IsCurrent, NothingAhead
<1> QED  BY <1>1, <1>2, <1>3, <1>4, <1>5

-----------------------------------------------------------------------------
(* The invariant *)

\* The invariant of the index, and the type of the state.
THEOREM IndexInvariant == HistorySpec => []IndexInv
<1>1. HistoryInit => IndexInv
  <2> SUFFICES ASSUME HistoryInit
               PROVE  IndexInv
    OBVIOUS
  <2> USE HistoryAssumption DEF HistoryInit
  <2>1. HistoryTyped
    BY DEF HistoryTyped, ScanState, NoScan, Writer
  <2>2. happened["closure"] = 0
    BY DEF HappensFew
  <2>3. NothingAhead
    BY <2>2 DEF NothingAhead, NoScan
  <2> QED  BY <2>1, <2>3 DEF IndexInv, OnlyCurrent, FreshKnows, ScanKnows, NoScan
<1>2. IndexInv /\ [HistoryNext]_historyVars => IndexInv'
  <2> SUFFICES ASSUME IndexInv, [HistoryNext]_historyVars
               PROVE  IndexInv'
    OBVIOUS
  <2>1. CASE UNCHANGED historyVars
    BY <2>1 DEF IndexInv, HistoryTyped, NothingAhead, OnlyCurrent, FreshKnows, ScanKnows, Live, IsCurrent,
       historyVars, laneVars, epochVars, indexVars, askVars
  <2>2. CASE Unasked
    <3>1. ASSUME NEW e \in HistoryEvent, Writing(e)
          PROVE  IndexInv'
      BY <3>1, EnqueueHistoryKeeps, FileAppearsKeeps, EnqueueOverKeeps, UndoWriteKeeps,
         ReplayHistoryKeeps, ReplayChecksKeeps, ReplayOverKeeps DEF Writing
    <3>2. ASSUME NEW e \in HistoryEvent, Delivering(e)
          PROVE  IndexInv'
      BY <3>2, PostHistoryKeeps, PostOverKeeps, UnlinkedKeeps DEF Delivering
    <3>3. ASSUME NEW e \in HistoryEvent, ScanReads(e)
          PROVE  IndexInv'
      BY <3>3, ScanReadsKeeps
    <3>4. ASSUME NEW i \in Connection, CloseConnection(i)
          PROVE  IndexInv'
      BY <3>4, CloseConnectionKeeps
    <3> QED  BY <2>2, <3>1, <3>2, <3>3, <3>4, ScanListsKeeps, IndexExpiresKeeps DEF Unasked
  <2>3. CASE \E runs \in Scopes : AskPending(runs)
    BY <2>3, AskPendingKeeps
  <2> QED  BY <2>1, <2>2, <2>3, ScanEndedKeeps, ScanFailsKeeps, RestartProcessKeeps DEF HistoryNext
<1> QED  BY <1>1, <1>2, PTL DEF HistorySpec

-----------------------------------------------------------------------------
(* Answers *)

\* What waits and is not of an earlier process is live.
LEMMA WaitingIsLive ==
  ASSUME IndexInv, NEW e \in HistoryEvent, Waits(e), ~Forgotten(e)
  PROVE  Live(e)
BY HistoryAssumption DEF IndexInv, HistoryTyped, NothingAhead, Waits, Forgotten, Cancelled, Live, IsCurrent

LEMMA OneAnswer ==
  ASSUME NEW r, NEW w, NEW y
  PROVE  Answered({[runs |-> r, waited |-> w]}, y) = {[runs |-> r, waited |-> w, yes |-> y]}
BY DEF Answered

\* A step that answers only because of what it finds under way or in the index.
LEMMA AnswersHold ==
  ASSUME IndexInv, [HistoryNext]_historyVars, NewBacklogSeen /\ NoCancelledBacklog
  PROVE  NewBacklogSeen' /\ NoCancelledBacklog'
<1> USE HistoryAssumption
<1>1. CASE UNCHANGED historyVars
  BY <1>1 DEF NewBacklogSeen, NoCancelledBacklog, Waits, Forgotten, Cancelled, IsCurrent,
     historyVars, laneVars, epochVars, indexVars, askVars
<1>2. CASE Unasked \/ ScanFails \/ RestartProcess
  <2>1. replies' = {}
    BY <1>2 DEF Unasked, ScanFails, RestartProcess
  <2> QED  BY <2>1 DEF NewBacklogSeen, NoCancelledBacklog
<1>3. ASSUME NEW runs \in Scopes, AskPending(runs)
      PROVE  NewBacklogSeen' /\ NoCancelledBacklog'
  <2> DEFINE waited == {e \in runs : Waits(e)}
             now == runs \intersect UnderWayNow # {}
             reply == [runs |-> runs, waited |-> waited, yes |-> now \/ runs \intersect index # {}]
  <2>1. /\ UNCHANGED <<laneVars, epochVars, index, fresh>>
        /\ replies' = {} \/ (replies' = {reply} /\ (now \/ fresh) /\ straddled' = straddled)
    <3>1. Answered({[runs |-> runs, waited |-> waited]}, now \/ runs \intersect index # {}) = {reply}
      BY OneAnswer
    <3> QED  BY <1>3, <3>1 DEF AskPending
  <2>2. runs \subseteq HistoryEvent
    BY DEF Scopes, EventsAt
  <2>3. ASSUME ~(now \/ runs \intersect index # {}), now \/ fresh, NEW e \in waited \ straddled
        PROVE  Forgotten(e)
    <3>1. e \in HistoryEvent /\ Waits(e) /\ fresh
      BY <2>2, <2>3
    <3>2. e \notin index \union straddled
      BY <2>3
    <3> QED  BY <3>1, <3>2, WaitingIsLive DEF IndexInv, FreshKnows
  <2>4. ASSUME now \/ runs \intersect index # {}
        PROVE  \E e \in runs : writer[e] # "new" /\ (IsCurrent(e, stamp[e]) \/ post[e] = "posting")
    <3>1. ASSUME NEW e \in runs, e \in UnderWayNow \union index
          PROVE  writer[e] # "new" /\ (IsCurrent(e, stamp[e]) \/ post[e] = "posting")
      BY <2>2, <3>1 DEF IndexInv, NothingAhead, OnlyCurrent, UnderWayNow, Counted, Tickets
    <3> QED  BY <2>4, <3>1
  <2>5. NewBacklogSeen'
    <3> SUFFICES ASSUME NEW t \in replies', ~t.yes, NEW e \in t.waited \ straddled'
                 PROVE  Forgotten(e)'
      BY DEF NewBacklogSeen
    <3>1. t = reply /\ (now \/ fresh) /\ straddled' = straddled
      BY <2>1
    <3>2. ~(now \/ runs \intersect index # {}) /\ e \in waited \ straddled
      BY <3>1
    <3>3. Forgotten(e)
      BY <2>3, <3>1, <3>2
    <3> QED  BY <2>1, <3>3 DEF Forgotten, laneVars, epochVars
  <2>6. NoCancelledBacklog'
    <3> SUFFICES ASSUME NEW t \in replies', t.yes
                 PROVE  \E e \in t.runs : (writer[e] # "new"
                                            /\ (IsCurrent(e, stamp[e]) \/ post[e] = "posting"))'
      BY DEF NoCancelledBacklog
    <3>1. t = reply
      BY <2>1
    <3>2. now \/ runs \intersect index # {}
      BY <3>1
    <3> QED  BY <2>1, <2>4, <3>1, <3>2 DEF IsCurrent, laneVars, epochVars
  <2> QED  BY <2>5, <2>6
<1>4. CASE ScanEnded
  <2>1. IndexInv'
    BY <1>4, ScanEndedKeeps
  <2>2. UNCHANGED <<laneVars, epochVars, straddled>> /\ fresh'
    BY <1>4 DEF ScanEnded
  <2>3. ASSUME NEW t \in replies'
        PROVE  /\ t.runs \subseteq HistoryEvent
               /\ t.yes <=> t.runs \intersect index' # {}
    <3>1. PICK c \in lookups : \/ t = [runs |-> c.runs, waited |-> c.waited, yes |-> TRUE]
                                   /\ t.runs \intersect index' # {}
                               \/ t = [runs |-> c.runs, waited |-> c.waited, yes |-> FALSE]
                                   /\ t.runs \intersect index' = {}
      BY <1>4, <2>3 DEF ScanEnded, Answered
    <3> QED  BY <3>1 DEF IndexInv, HistoryTyped
  <2>4. ASSUME NEW t \in replies'
        PROVE  t.waited \subseteq t.runs
    BY <1>4, <2>4 DEF ScanEnded, Answered, IndexInv, HistoryTyped
  <2>5. NewBacklogSeen'
    <3> SUFFICES ASSUME NEW t \in replies', ~t.yes, NEW e \in t.waited \ straddled,
                        Waits(e), ~Forgotten(e)
                 PROVE  FALSE
      BY <2>2 DEF NewBacklogSeen, Waits, Forgotten, Cancelled, IsCurrent, laneVars, epochVars
    <3>1. e \in HistoryEvent /\ e \notin index'
      BY <2>3, <2>4
    <3>2. Live(e)
      BY <3>1, WaitingIsLive
    <3>3. Live(e)'
      BY <2>2, <3>2 DEF Live, IsCurrent, laneVars, epochVars
    <3> QED  BY <2>1, <2>2, <3>1, <3>3 DEF IndexInv, FreshKnows
  <2>6. NoCancelledBacklog'
    <3> SUFFICES ASSUME NEW t \in replies', t.yes
                 PROVE  \E e \in t.runs : (writer[e] # "new" /\ IsCurrent(e, stamp[e]))'
      BY DEF NoCancelledBacklog
    <3>1. PICK e \in t.runs : e \in index'
      BY <2>3
    <3> QED  BY <2>1, <2>3, <3>1 DEF IndexInv, NothingAhead, OnlyCurrent
  <2> QED  BY <2>5, <2>6
<1> QED  BY <1>1, <1>2, <1>3, <1>4 DEF HistoryNext

\* Work enqueued in this process is seen from the moment it waits (outbox.ts:269-322).
THEOREM NewWorkSeen == HistorySpec => []NewBacklogSeen
<1>1. HistoryInit => NewBacklogSeen /\ NoCancelledBacklog
  BY DEF HistoryInit, NewBacklogSeen, NoCancelledBacklog
<1> QED  BY <1>1, AnswersHold, IndexInvariant, PTL DEF HistorySpec

\* What a closure cancelled is never said to wait (outbox.ts:312-318).
THEOREM NoCancelledClaimed == HistorySpec => []NoCancelledBacklog
<1>1. HistoryInit => NewBacklogSeen /\ NoCancelledBacklog
  BY DEF HistoryInit, NewBacklogSeen, NoCancelledBacklog
<1> QED  BY <1>1, AnswersHold, IndexInvariant, PTL DEF HistorySpec

\* Both, as the invariant IndexSafety.
THEOREM IndexIsSafe == HistorySpec => []IndexSafety
BY NewWorkSeen, NoCancelledClaimed, PTL DEF IndexSafety
=============================================================================
