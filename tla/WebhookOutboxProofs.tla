------------------------ MODULE WebhookOutboxProofs ------------------------
(* Theorems about the durable outbox, for any events, instances and limits. *)
EXTENDS WebhookOutbox, TLAPS

LEMMA TypeInit == Init => TypeOK
<1> SUFFICES ASSUME Init PROVE TypeOK
  OBVIOUS
<1>1. FilesType
  BY DEF Init, FilesType, NoFiles, RecordOrNone
<1>2. MemoryType
  BY DEF Init, MemoryType
<1>3. LaneType
  BY DEF Init, LaneType, NoGroups, NoTodo
<1>4. WorkerType
  <2>1. IdleWorker \in [pc : WorkerPc, inst : Instance \union {None},
                        ev : Event \union {None}, sent : Nat, rec : RecordOrNone]
    BY DEF IdleWorker, WorkerPc, RecordOrNone
  <2>2. \A w \in Worker : worker[w] = IdleWorker
    BY DEF Init, NoWork
  <2> QED
    BY <2>1, <2>2 DEF Init, NoWork, WorkerType, IdleWorker, Grouped, Holding, Reading
<1>5. ActorType
  <2>1. producer \in [Event -> [pc : ProducerPc, epoch : Nat]]
    BY DEF Init, ProducerPc
  <2>2. discard \in [Instance -> [pc : DiscardPc, left : SUBSET Event]]
    BY DEF Init, NoDiscard, DiscardPc
  <2>3. replay \in [pc : ReplayPc, left : SUBSET Event, ev : Event \union {None},
                    rec : RecordOrNone]
    BY DEF Init, NoReplay, ReplayPc, RecordOrNone
  <2> QED
    BY <2>1, <2>2, <2>3 DEF Init, NoReplay, ActorType
<1>6. HistoryType
  BY DEF Init, HistoryType
<1> QED
  BY <1>1, <1>2, <1>3, <1>4, <1>5, <1>6 DEF TypeOK

LEMMA KeepFilesType == FilesType /\ UNCHANGED files => FilesType'
BY DEF FilesType, files

LEMMA KeepMemoryType == MemoryType /\ UNCHANGED <<memory, spent>> => MemoryType'
BY DEF MemoryType, memory

LEMMA KeepLaneType == LaneType /\ UNCHANGED lane => LaneType'
BY DEF LaneType, lane

LEMMA KeepWorkerType == WorkerType /\ UNCHANGED worker => WorkerType'
BY DEF WorkerType

LEMMA KeepActorType == ActorType /\ UNCHANGED callers => ActorType'
BY DEF ActorType, callers

LEMMA KeepHistoryType == HistoryType /\ UNCHANGED history => HistoryType'
BY DEF HistoryType, history

LEMMA EnqueueType == ASSUME NEW e \in Event, TypeOK, Enqueue(e) PROVE TypeOK'
<1>1. ActorType'
  BY InstanceAssumption DEF Enqueue, ProducerPc, MemoryType, ActorType, TypeOK
<1>2. HistoryType'
  BY DEF Enqueue, HistoryType, history, TypeOK
<1> QED
  BY KeepFilesType, KeepMemoryType, KeepLaneType, KeepWorkerType, <1>1, <1>2
  DEF Enqueue, TypeOK

LEMMA EnqueueFailType == ASSUME NEW e \in Event, TypeOK, EnqueueFail(e) PROVE TypeOK'
<1>1. MemoryType'
  BY DEF EnqueueFail, Spend, Bounded, MemoryType, TypeOK, memory
<1>2. ActorType'
  BY DEF EnqueueFail, ProducerPc, ActorType, TypeOK
<1> QED
  BY KeepFilesType, <1>1, KeepLaneType, KeepWorkerType, <1>2, KeepHistoryType
  DEF EnqueueFail, TypeOK

LEMMA EnqueueWriteType == ASSUME NEW e \in Event, TypeOK, EnqueueWrite(e) PROVE TypeOK'
<1>1. FilesType'
  BY
  DEF FirstRecord, EnqueueWrite, NewRecord, Record, RecordOrNone, ActorType, FilesType,
      TypeOK
<1>2. ActorType'
  BY DEF EnqueueWrite, ProducerPc, ActorType, TypeOK
<1> QED
  BY <1>1, KeepMemoryType, KeepLaneType, KeepWorkerType, <1>2, KeepHistoryType
  DEF EnqueueWrite, TypeOK

LEMMA EnqueueCheckType == ASSUME NEW e \in Event, TypeOK, EnqueueCheck(e) PROVE TypeOK'
<1>1. MemoryType'
  BY DEF EnqueueCheck, Flush, MemoryType, TypeOK, memory
<1>2. LaneType'
  BY DEF EnqueueCheck, Flush, LaneType, lane, TypeOK
<1>3. ActorType'
  <2>1. producer' \in [Event -> [pc : ProducerPc, epoch : Nat]]
    <3>1. \/ producer' = [producer EXCEPT ![e].pc = "undo"]
          \/ producer' = [producer EXCEPT ![e].pc = "done"]
      BY DEF EnqueueCheck
    <3> QED
      BY <3>1 DEF ProducerPc, ActorType, TypeOK
  <2>2. UNCHANGED <<discard, replay>>
    BY DEF EnqueueCheck
  <2> QED
    BY <2>1, <2>2 DEF ActorType, TypeOK
<1>4. HistoryType'
  BY DEF EnqueueCheck, HistoryType, history, TypeOK
<1> QED
  BY KeepFilesType, <1>1, <1>2, KeepWorkerType, <1>3, <1>4 DEF EnqueueCheck, TypeOK

LEMMA EnqueueUndoType == ASSUME NEW e \in Event, TypeOK, EnqueueUndo(e) PROVE TypeOK'
<1>1. FilesType'
  BY DEF EnqueueUndo, RecordOrNone, FilesType, files, TypeOK
<1>2. ActorType'
  BY DEF EnqueueUndo, ProducerPc, ActorType, TypeOK
<1> QED
  BY <1>1, KeepMemoryType, KeepLaneType, KeepWorkerType, <1>2, KeepHistoryType
  DEF EnqueueUndo, TypeOK

LEMMA ElapseType == ASSUME NEW e \in Event, TypeOK, Elapse(e) PROVE TypeOK'
<1>1. FilesType'
  BY DEF Elapse, Record, RecordOrNone, FilesType, TypeOK
<1> QED
  BY <1>1, KeepMemoryType, KeepLaneType, KeepWorkerType, KeepActorType, KeepHistoryType
  DEF Elapse, TypeOK

LEMMA ScanType == ASSUME NEW f \in Flight, TypeOK, Scan(f) PROVE TypeOK'
<1>1. LaneType'
  BY InstanceAssumption DEF Scan, Present, LaneType, TypeOK
<1>2. WorkerType'
  BY
  DEF Scan, IdleWorker, WorkerPc, RecordOrNone, Grouped, Holding, Reading, WorkerType,
      TypeOK
<1> QED
  BY KeepFilesType, KeepMemoryType, <1>1, <1>2, KeepActorType, KeepHistoryType
  DEF Scan, TypeOK

LEMMA EndRoundType == ASSUME NEW f \in Flight, TypeOK, EndRound(f) PROVE TypeOK'
<1>1. MemoryType'
  BY DEF EndRound, MemoryType, TypeOK, memory
<1>2. LaneType'
  BY DEF EndRound, DropGroups, LaneType, lane, TypeOK
<1> QED
  BY KeepFilesType, <1>1, <1>2, KeepWorkerType, KeepActorType, KeepHistoryType
  DEF EndRound, TypeOK

LEMMA ReleaseFlightType == ASSUME NEW f \in Flight, TypeOK, ReleaseFlight(f) PROVE TypeOK'
<1>1. LaneType'
  BY DEF Released, ReleaseFlight, LaneType, TypeOK
<1> QED
  BY KeepFilesType, KeepMemoryType, <1>1, KeepWorkerType, KeepActorType, KeepHistoryType
  DEF ReleaseFlight, TypeOK

LEMMA ReapOrphanType == ASSUME NEW f \in Flight, TypeOK, ReapOrphan(f) PROVE TypeOK'
<1>1. LaneType'
  BY DEF ReapOrphan, DropGroups, LaneType, lane, TypeOK
<1> QED
  BY KeepFilesType, KeepMemoryType, <1>1, KeepWorkerType, KeepActorType, KeepHistoryType
  DEF ReapOrphan, TypeOK

LEMMA ScanFailType == ASSUME NEW f \in Flight, TypeOK, ScanFail(f) PROVE TypeOK'
<1>1. MemoryType'
  BY DEF ScanFail, Spend, Bounded, MemoryType, TypeOK, memory
<1>2. LaneType'
  BY DEF Released, ScanFail, LaneType, TypeOK
<1> QED
  BY KeepFilesType, <1>1, <1>2, KeepWorkerType, KeepActorType, KeepHistoryType
  DEF ScanFail, TypeOK

LEMMA PickType == ASSUME NEW w \in Worker, TypeOK, Pick(w) PROVE TypeOK'
<1>1. CASE ready[w[1]] = {} \/ stopped
  <2>1. WorkerType'
    <3>1. worker' = [worker EXCEPT ![w] = IdleWorker]
      BY <1>1 DEF Pick
    <3> QED
      BY <3>1
      DEF IdleWorker, WorkerPc, RecordOrNone, Grouped, Holding, Reading, WorkerType,
          TypeOK
  <2>2. LaneType'
    BY <1>1 DEF Pick, OthersUnchanged, LaneType, TypeOK
  <2> QED
    BY <2>1, <2>2, KeepFilesType, KeepMemoryType, KeepActorType, KeepHistoryType
    DEF Pick, OthersUnchanged, TypeOK, history
<1>2. CASE ~(ready[w[1]] = {} \/ stopped)
  <2>1. PICK i \in ready[w[1]] :
          /\ ready' = [ready EXCEPT ![w[1]] = @ \ {i}]
          /\ worker' = [worker EXCEPT ![w] = [IdleWorker EXCEPT !.pc = "item", !.inst = i]]
    BY <1>2 DEF GroupTaken, callers, memory, Pick
  <2>2. w[1] \in Flight /\ i \in Instance
    BY <2>1 DEF Worker, LaneType, TypeOK
  <2>3. WorkerType'
    BY <2>1, <2>2
    DEF IdleWorker, WorkerPc, RecordOrNone, Holding, Reading, WorkerType, TypeOK
  <2>4. LaneType'
    BY <2>1, <2>2 DEF Pick, OthersUnchanged, LaneType, TypeOK
  <2> QED
    BY <2>3, <2>4, KeepFilesType, KeepMemoryType, KeepActorType, KeepHistoryType
    DEF Pick, OthersUnchanged, TypeOK, history
<1> QED
  BY <1>1, <1>2

LEMMA NextItemType == ASSUME NEW w \in Worker, TypeOK, NextItem(w) PROVE TypeOK'
<1>1. w[1] \in Flight /\ worker[w].inst \in Instance
  BY DEF NextItem, Worker, WorkerType, Grouped, TypeOK
<1>2. Break(w) => WorkerType'
  BY
  DEF Break, IdleWorker, WorkerPc, RecordOrNone, Grouped, Holding, Reading, WorkerType,
      TypeOK
<1>3. WorkerType'
  <2>1. CASE Break(w)
    BY <1>2, <2>1
  <2>2. CASE ~Break(w)
    <3>1. PICK e \in todo[w[1]][worker[w].inst] :
            worker' = [worker EXCEPT ![w].pc = "read", ![w].ev = e, ![w].sent = @ + 1]
      BY <2>2 DEF NextItem
    <3>2. e \in Event
      BY <1>1, <3>1 DEF LaneType, TypeOK
    <3>3. worker[w].pc = "item" /\ w \in Worker
      BY DEF NextItem
    <3>4. worker' \in [Worker -> [pc : WorkerPc, inst : Instance \union {None},
                         ev : Event \union {None}, sent : Nat, rec : RecordOrNone]]
      BY <3>1, <3>2 DEF WorkerPc, WorkerType, TypeOK
    <3>5. ASSUME NEW v \in Worker
          PROVE  /\ worker'[v].pc \in Grouped => worker'[v].inst \in Instance
                 /\ worker'[v].pc \in Holding => worker'[v].ev \in Event
                 /\ worker'[v].pc \in Reading => worker'[v].rec \in Record
      BY <1>1, <3>1, <3>2, <3>3 DEF Grouped, Holding, Reading, WorkerType, TypeOK
    <3> QED
      BY <3>4, <3>5 DEF WorkerType
  <2> QED
    BY <2>1, <2>2
<1>4. LaneType'
  <2>1. ready' \in [Flight -> SUBSET Instance]
    <3>1. ready' = ready \/ ready' = [ready EXCEPT ![w[1]] = @ \union {worker[w].inst}]
      BY DEF NextItem
    <3> QED
      BY <1>1, <3>1 DEF LaneType, TypeOK
  <2>2. todo' \in [Flight -> [Instance -> SUBSET Event]]
    <3>1. \/ todo' = todo
          \/ \E e : todo' = [todo EXCEPT ![w[1]][worker[w].inst] = @ \ {e}]
      BY DEF NextItem
    <3>2. ASSUME NEW e, todo' = [todo EXCEPT ![w[1]][worker[w].inst] = @ \ {e}]
          PROVE  todo' \in [Flight -> [Instance -> SUBSET Event]]
      <4> DEFINE T == [todo[w[1]] EXCEPT ![worker[w].inst] = @ \ {e}]
      <4>1. T \in [Instance -> SUBSET Event]
        BY <1>1 DEF LaneType, TypeOK
      <4>2. todo' = [todo EXCEPT ![w[1]] = T]
        BY <3>2
      <4> QED
        BY <1>1, <4>1, <4>2 DEF LaneType, TypeOK
    <3> QED
      BY <3>1, <3>2 DEF LaneType, TypeOK
  <2> QED
    BY <2>1, <2>2 DEF NextItem, OthersUnchanged, LaneType, TypeOK
<1> QED
  BY <1>3, <1>4, KeepFilesType, KeepMemoryType, KeepActorType, KeepHistoryType
  DEF NextItem, OthersUnchanged, TypeOK, history

LEMMA ReadType == ASSUME NEW w \in Worker, TypeOK, Read(w) PROVE TypeOK'
<1>1. WorkerType'
  BY
  DEF Read, Goto, Continue, Break, IdleWorker, WorkerPc, RecordOrNone, Grouped, Holding,
      Reading, WorkerType, TypeOK
<1> QED
  BY KeepFilesType, KeepMemoryType, KeepLaneType, <1>1, KeepActorType, KeepHistoryType
  DEF Read, TypeOK, OthersUnchanged, lane, history

LEMMA PostOkType == ASSUME NEW w \in Worker, TypeOK, PostOk(w) PROVE TypeOK'
<1>1. WorkerType'
  BY DEF PostOk, Goto, WorkerPc, Grouped, Holding, Reading, WorkerType, TypeOK
<1>2. HistoryType'
  BY DEF PostOk, WorkerType, Holding, Grouped, HistoryType, OthersUnchanged, TypeOK
<1> QED
  BY KeepFilesType, KeepMemoryType, KeepLaneType, <1>1, KeepActorType, <1>2
  DEF PostOk, TypeOK, OthersUnchanged, lane

LEMMA PostFailType == ASSUME NEW w \in Worker, TypeOK, PostFail(w) PROVE TypeOK'
<1>1. WorkerType'
  BY
  DEF PostFail, AfterFailure, Goto, WorkerPc, Grouped, Holding, Reading, WorkerType,
      TypeOK
<1>2. HistoryType'
  BY DEF PostFail, WorkerType, Holding, Grouped, HistoryType, OthersUnchanged, TypeOK
<1> QED
  BY KeepFilesType, KeepMemoryType, KeepLaneType, <1>1, KeepActorType, <1>2
  DEF PostFail, TypeOK, OthersUnchanged, lane

LEMMA UnlinkType == ASSUME NEW w \in Worker, TypeOK, Unlink(w) PROVE TypeOK'
<1>1. FilesType'
  BY DEF Unlink, RecordOrNone, FilesType, TypeOK
<1>2. WorkerType'
  BY
  DEF Unlink, Continue, Break, IdleWorker, WorkerPc, RecordOrNone, Grouped, Holding,
      Reading, WorkerType, TypeOK
<1> QED
  BY <1>1, KeepMemoryType, KeepLaneType, <1>2, KeepActorType, KeepHistoryType
  DEF Unlink, TypeOK, OthersUnchanged, lane, history

LEMMA RewriteType == ASSUME NEW w \in Worker, TypeOK, Rewrite(w) PROVE TypeOK'
<1>1. FilesType'
  BY DEF Rewrite, WorkerType, FilesType, TypeOK
<1>2. WorkerType'
  BY DEF Rewrite, Goto, WorkerPc, Grouped, Holding, Reading, WorkerType, TypeOK
<1> QED
  BY <1>1, KeepMemoryType, KeepLaneType, <1>2, KeepActorType, KeepHistoryType
  DEF Rewrite, TypeOK, OthersUnchanged, lane, history

LEMMA SettleType == ASSUME NEW w \in Worker, TypeOK, Settle(w) PROVE TypeOK'
<1>1. WorkerType'
  BY
  DEF Settle, Goto, Break, IdleWorker, WorkerPc, RecordOrNone, Grouped, Holding, Reading,
      WorkerType, TypeOK
<1> QED
  BY KeepFilesType, KeepMemoryType, KeepLaneType, <1>1, KeepActorType, KeepHistoryType
  DEF Settle, TypeOK, OthersUnchanged, lane, history

LEMMA BuryType == ASSUME NEW w \in Worker, TypeOK, Bury(w) PROVE TypeOK'
<1>1. FilesType'
  BY DEF Bury, RecordOrNone, FilesType, files, TypeOK
<1>2. WorkerType'
  BY
  DEF Bury, Break, IdleWorker, WorkerPc, RecordOrNone, Grouped, Holding, Reading,
      WorkerType, TypeOK
<1>3. HistoryType'
  BY DEF Bury, WorkerType, Holding, Grouped, HistoryType, OthersUnchanged, TypeOK
<1> QED
  BY <1>1, KeepMemoryType, KeepLaneType, <1>2, KeepActorType, <1>3
  DEF Bury, TypeOK, OthersUnchanged, lane

LEMMA StorageErrorType == ASSUME NEW w \in Worker, TypeOK, StorageError(w) PROVE TypeOK'
<1>1. MemoryType'
  BY DEF StorageError, Spend, Bounded, MemoryType, memory, TypeOK
<1>2. LaneType'
  BY DEF Released, StorageError, LaneType, TypeOK
<1>3. WorkerType'
  BY
  DEF StorageError, AfterFailure, Goto, IdleWorker, WorkerPc, RecordOrNone, Grouped,
      Holding, Reading, WorkerType, TypeOK
<1> QED
  BY KeepFilesType, <1>1, <1>2, <1>3, KeepActorType, KeepHistoryType
  DEF StorageError, TypeOK

LEMMA BeginDiscardType == ASSUME NEW i \in Instance, TypeOK, BeginDiscard(i) PROVE TypeOK'
<1>1. MemoryType'
  BY DEF BeginDiscard, Spend, Bounded, MemoryType, TypeOK
<1>2. ActorType'
  BY DEF BeginDiscard, DiscardPc, ActorType, TypeOK
<1>3. HistoryType'
  BY DEF BeginDiscard, EventsOf, HistoryType, history, TypeOK
<1> QED
  BY KeepFilesType, <1>1, KeepLaneType, KeepWorkerType, <1>2, <1>3
  DEF BeginDiscard, TypeOK

LEMMA ListDirectoryType == ASSUME NEW i \in Instance, TypeOK, ListDirectory(i) PROVE TypeOK'
<1>1. ActorType'
  BY DEF ListDirectory, DiscardPc, Present, ActorType, TypeOK
<1> QED
  BY KeepFilesType, KeepMemoryType, KeepLaneType, KeepWorkerType, <1>1, KeepHistoryType
  DEF ListDirectory, TypeOK

LEMMA SweepType == ASSUME NEW i \in Instance, TypeOK, Sweep(i) PROVE TypeOK'
<1>1. FilesType'
  BY DEF Swept, Sweep, RecordOrNone, FilesType, files, TypeOK
<1>2. ActorType'
  BY DEF Sweep, DiscardPc, ActorType, TypeOK
<1> QED
  BY <1>1, KeepMemoryType, KeepLaneType, KeepWorkerType, <1>2, KeepHistoryType
  DEF Sweep, TypeOK

LEMMA DiscardFailType == ASSUME NEW i \in Instance, TypeOK, DiscardFail(i) PROVE TypeOK'
<1>1. MemoryType'
  BY DEF DiscardFail, Spend, Bounded, MemoryType, TypeOK, memory
<1>2. ActorType'
  BY DEF DiscardFail, DiscardPc, ActorType, TypeOK
<1> QED
  BY KeepFilesType, <1>1, KeepLaneType, KeepWorkerType, <1>2, KeepHistoryType
  DEF DiscardFail, TypeOK

LEMMA OpenType == ASSUME NEW i \in Instance, TypeOK, Open(i) PROVE TypeOK'
<1>1. MemoryType'
  BY DEF Open, MemoryType, TypeOK, memory
<1> QED
  BY KeepFilesType, <1>1, KeepLaneType, KeepWorkerType, KeepActorType, KeepHistoryType
  DEF Open, TypeOK

LEMMA BeginReplayType == ASSUME TypeOK, BeginReplay PROVE TypeOK'
<1>1. MemoryType'
  BY DEF BeginReplay, Spend, Bounded, MemoryType, TypeOK, memory
<1>2. ActorType'
  BY DEF BeginReplay, NoReplay, ReplayPc, Present, RecordOrNone, ActorType, TypeOK
<1> QED
  BY KeepFilesType, <1>1, KeepLaneType, KeepWorkerType, <1>2, KeepHistoryType
  DEF BeginReplay, TypeOK

LEMMA ReplayReadType == ASSUME TypeOK, ReplayRead PROVE TypeOK'
<1>1. ActorType'
  <2>1. CASE replay' = NoReplay
    BY <2>1 DEF ReplayRead, ActorType, NoReplay, ReplayPc, RecordOrNone, TypeOK
  <2>2. CASE replay' # NoReplay
    <3>1. PICK e \in replay.left :
            \/ replay' = [replay EXCEPT !.left = @ \ {e}, !.ev = e]
            \/ replay' = [replay EXCEPT !.left = @ \ {e}, !.ev = e, !.pc = "clear"]
            \/ /\ dead[e] # None
               /\ replay' = [replay EXCEPT !.left = @ \ {e}, !.ev = e, !.pc = "write",
                                           !.rec = NewRecord(dead[e].epoch)]
      BY <2>2 DEF Renewed, callers, memory, ReplayRead
    <3>2. e \in Event /\ replay.pc = "read"
      BY DEF ReplayRead, ActorType, TypeOK
    <3>3. dead[e] # None => NewRecord(dead[e].epoch) \in Record
      BY <3>2 DEF NewRecord, Record, RecordOrNone, FilesType, TypeOK
    <3>4. UNCHANGED <<producer, discard>>
      BY DEF ReplayRead
    <3>5. CASE replay' = [replay EXCEPT !.left = @ \ {e}, !.ev = e]
      BY <3>2, <3>4, <3>5 DEF ActorType, ReplayPc, TypeOK
    <3>6. CASE replay' = [replay EXCEPT !.left = @ \ {e}, !.ev = e, !.pc = "clear"]
      BY <3>2, <3>4, <3>6 DEF ActorType, ReplayPc, TypeOK
    <3>7. CASE /\ dead[e] # None
               /\ replay' = [replay EXCEPT !.left = @ \ {e}, !.ev = e, !.pc = "write",
                                           !.rec = NewRecord(dead[e].epoch)]
      BY <3>2, <3>3, <3>4, <3>7 DEF ActorType, ReplayPc, RecordOrNone, TypeOK
    <3> QED
      BY <3>1, <3>5, <3>6, <3>7
  <2> QED
    BY <2>1, <2>2
<1> QED
  BY KeepFilesType, KeepMemoryType, KeepLaneType, KeepWorkerType, <1>1, KeepHistoryType
  DEF ReplayRead, TypeOK

LEMMA ReplayWriteType == ASSUME TypeOK, ReplayWrite PROVE TypeOK'
<1>1. FilesType'
  BY DEF ReplayWrite, ActorType, FilesType, TypeOK
<1>2. ActorType'
  BY DEF ReplayWrite, ReplayPc, ActorType, TypeOK
<1> QED
  BY <1>1, KeepMemoryType, KeepLaneType, KeepWorkerType, <1>2, KeepHistoryType
  DEF ReplayWrite, TypeOK

LEMMA ReplayCheckType == ASSUME TypeOK, ReplayCheck PROVE TypeOK'
<1>1. ActorType'
  BY DEF ReplayCheck, ReplayPc, ActorType, TypeOK
<1> QED
  BY KeepFilesType, KeepMemoryType, KeepLaneType, KeepWorkerType, <1>1, KeepHistoryType
  DEF ReplayCheck, TypeOK

LEMMA ReplayUnlinkType == ASSUME TypeOK, ReplayUnlink PROVE TypeOK'
<1>1. FilesType'
  BY DEF ReplayUnlink, RecordOrNone, FilesType, TypeOK
<1>2. ActorType'
  BY DEF ReplayUnlink, ReplayPc, RecordOrNone, ActorType, TypeOK
<1> QED
  BY <1>1, KeepMemoryType, KeepLaneType, KeepWorkerType, <1>2, KeepHistoryType
  DEF ReplayUnlink, TypeOK

LEMMA ReplayFailType == ASSUME TypeOK, ReplayFail PROVE TypeOK'
<1>1. MemoryType'
  BY DEF ReplayFail, Spend, Bounded, MemoryType, TypeOK, memory
<1>2. ActorType'
  BY DEF ReplayFail, NoReplay, ReplayPc, RecordOrNone, ActorType, TypeOK
<1> QED
  BY KeepFilesType, <1>1, KeepLaneType, KeepWorkerType, <1>2, KeepHistoryType
  DEF ReplayFail, TypeOK

LEMMA TimerFlushType == ASSUME TypeOK, TimerFlush PROVE TypeOK'
<1>1. MemoryType'
  BY DEF TimerFlush, Flush, MemoryType, TypeOK, memory
<1>2. LaneType'
  BY DEF TimerFlush, Flush, LaneType, lane, TypeOK
<1> QED
  BY KeepFilesType, <1>1, <1>2, KeepWorkerType, KeepActorType, KeepHistoryType
  DEF TimerFlush, TypeOK

LEMMA StopType == ASSUME TypeOK, Stop PROVE TypeOK'
<1>1. MemoryType'
  BY DEF Stop, Spend, Bounded, MemoryType, TypeOK
<1> QED
  BY KeepFilesType, <1>1, KeepLaneType, KeepWorkerType, KeepActorType, KeepHistoryType
  DEF Stop, TypeOK

LEMMA CrashType == ASSUME TypeOK, Crash PROVE TypeOK'
<1>1. FilesType' /\ HistoryType'
  BY KeepFilesType, KeepHistoryType DEF Crash, TypeOK
<1>2. MemoryType'
  <2>1. epoch' \in [Instance -> Nat] /\ online' \in [Instance -> BOOLEAN]
        /\ stopped' \in BOOLEAN /\ pending' \in BOOLEAN
    BY DEF Crash
  <2>2. spent' \in [Bounded -> Nat]
    BY DEF Crash, Spend, Bounded, MemoryType, TypeOK
  <2> QED
    BY <2>1, <2>2 DEF MemoryType
<1>3. LaneType'
  BY DEF Crash, NoGroups, NoTodo, LaneType
<1>4. WorkerType'
  <2>1. IdleWorker \in [pc : WorkerPc, inst : Instance \union {None},
                        ev : Event \union {None}, sent : Nat, rec : RecordOrNone]
    BY DEF IdleWorker, WorkerPc, RecordOrNone
  <2> QED
    BY <2>1 DEF Crash, NoWork, WorkerType, IdleWorker, Grouped, Holding, Reading
<1>5. ActorType'
  <2>1. producer' \in [Event -> [pc : ProducerPc, epoch : Nat]]
    BY DEF Crash, ProducerPc, ActorType, TypeOK
  <2>2. discard' \in [Instance -> [pc : DiscardPc, left : SUBSET Event]]
    BY DEF Crash, NoDiscard, DiscardPc
  <2>3. replay' \in [pc : ReplayPc, left : SUBSET Event, ev : Event \union {None},
                     rec : RecordOrNone]
    BY DEF Crash, NoReplay, ReplayPc, RecordOrNone
  <2> QED
    BY <2>1, <2>2, <2>3 DEF Crash, NoReplay, ActorType
<1> QED
  BY <1>1, <1>2, <1>3, <1>4, <1>5 DEF TypeOK

LEMMA TypeStep == ASSUME TypeOK, [Next]_vars PROVE TypeOK'
<1>1. CASE UNCHANGED vars
  BY <1>1, KeepFilesType, KeepMemoryType, KeepLaneType, KeepWorkerType, KeepActorType,
     KeepHistoryType DEF TypeOK, vars
<1>2. ASSUME NEW w \in Worker, Run(w) PROVE TypeOK'
  BY <1>2, PickType, NextItemType DEF Run
<1>3. CASE Callback
  <2>1. ASSUME NEW e \in Event,
               Enqueue(e) \/ EnqueueFail(e) \/ ProducerStep(e) \/ Elapse(e)
        PROVE  TypeOK'
    BY <2>1, EnqueueType, EnqueueFailType, EnqueueWriteType, EnqueueCheckType,
       EnqueueUndoType, ElapseType DEF ProducerStep
  <2>2. ASSUME NEW f \in Flight, FlightStep(f) \/ ScanFail(f) PROVE TypeOK'
    BY <2>2, ScanType, EndRoundType, ReleaseFlightType, ReapOrphanType, ScanFailType
    DEF FlightStep
  <2>3. ASSUME NEW w \in Worker, WorkerStep(w) \/ StorageError(w) PROVE TypeOK'
    BY <2>3, ReadType, PostOkType, PostFailType, UnlinkType, RewriteType, SettleType,
       BuryType, StorageErrorType DEF WorkerStep
  <2>4. ASSUME NEW i \in Instance,
               BeginDiscard(i) \/ DiscardStep(i) \/ DiscardFail(i) \/ Open(i)
        PROVE  TypeOK'
    BY <2>4, BeginDiscardType, ListDirectoryType, SweepType, DiscardFailType, OpenType
    DEF DiscardStep
  <2>5. CASE BeginReplay \/ ReplayStep \/ ReplayFail
    BY <2>5, BeginReplayType, ReplayReadType, ReplayWriteType, ReplayCheckType,
       ReplayUnlinkType, ReplayFailType DEF ReplayStep
  <2>6. CASE TimerFlush \/ Stop \/ Crash
    BY <2>6, TimerFlushType, StopType, CrashType
  <2> QED
    BY <1>3, <2>1, <2>2, <2>3, <2>4, <2>5, <2>6 DEF Callback
<1> QED
  BY <1>1, <1>2, <1>3 DEF Next

(* The types hold for any number of events, instances, workers and faults:  *)
(* no actor ever holds a file it has no record of.                          *)
THEOREM TypeCorrect == Spec => []TypeOK
BY TypeInit, TypeStep, PTL DEF Spec

(***************************************************************************)
(* Copies of a record and the epochs they carry                            *)
(***************************************************************************)
LEMMA KeepCopies ==
  ASSUME NEW g \in Event, NEW k \in Nat, NoCopyWith(g, k),
         UNCHANGED <<producer, files, worker, replay>>
  PROVE  NoCopyWith(g, k)'
BY DEF NoCopyWith, files

LEMMA OneWorkerCopies ==
  ASSUME TypeOK, NEW w \in Worker, NEW g \in Event, NEW k \in Nat, NoCopyWith(g, k),
         \A v \in Worker : v # w => worker'[v] = worker[v],
         worker'[w].pc \in Reading /\ worker'[w].ev = g => worker'[w].rec.epoch # k,
         active'[g] \in {None, active[g]},
         UNCHANGED <<dead, producer, replay>>
  PROVE  NoCopyWith(g, k)'
BY DEF NoCopyWith

LEMMA EnqueueCopies ==
  ASSUME TypeOK, NEW e \in Event, Enqueue(e), NEW g \in Event, NEW k \in Nat,
         NoCopyWith(g, k), epoch[InstOf[g]] # k \/ producer[g].pc # "new"
  PROVE  NoCopyWith(g, k)'
BY InstanceAssumption DEF Enqueue, NoCopyWith, files

LEMMA EnqueueWriteCopies ==
  ASSUME TypeOK, NEW e \in Event, EnqueueWrite(e), NEW g \in Event, NEW k \in Nat,
         NoCopyWith(g, k)
  PROVE  NoCopyWith(g, k)'
BY DEF FirstRecord, EnqueueWrite, NoCopyWith, NewRecord

LEMMA EnqueueFailCopies ==
  ASSUME TypeOK, NEW e \in Event, EnqueueFail(e), NEW g \in Event, NEW k \in Nat,
         NoCopyWith(g, k)
  PROVE  NoCopyWith(g, k)'
BY DEF EnqueueFail, NoCopyWith, files

LEMMA EnqueueCheckCopies ==
  ASSUME TypeOK, NEW e \in Event, EnqueueCheck(e), NEW g \in Event, NEW k \in Nat,
         NoCopyWith(g, k)
  PROVE  NoCopyWith(g, k)'
<1>1. producer'[g].epoch = producer[g].epoch
  <2>1. \/ producer' = [producer EXCEPT ![e].pc = "undo"]
        \/ producer' = [producer EXCEPT ![e].pc = "done"]
    BY DEF EnqueueCheck
  <2> QED
    BY <2>1 DEF ActorType, TypeOK
<1> QED
  BY <1>1 DEF EnqueueCheck, NoCopyWith, files

LEMMA EnqueueUndoCopies ==
  ASSUME TypeOK, NEW e \in Event, EnqueueUndo(e), NEW g \in Event, NEW k \in Nat,
         NoCopyWith(g, k)
  PROVE  NoCopyWith(g, k)'
BY DEF EnqueueUndo, NoCopyWith

LEMMA ElapseCopies ==
  ASSUME TypeOK, NEW e \in Event, Elapse(e), NEW g \in Event, NEW k \in Nat,
         NoCopyWith(g, k)
  PROVE  NoCopyWith(g, k)'
BY DEF callers, Elapse, NoCopyWith

LEMMA ScanCopies ==
  ASSUME TypeOK, NEW f \in Flight, Scan(f), NEW g \in Event, NEW k \in Nat,
         NoCopyWith(g, k)
  PROVE  NoCopyWith(g, k)'
BY DEF callers, Scan, NoCopyWith, Reading, files

LEMMA PickCopies ==
  ASSUME TypeOK, NEW w \in Worker, Pick(w), NEW g \in Event, NEW k \in Nat,
         NoCopyWith(g, k)
  PROVE  NoCopyWith(g, k)'
<1>1. \A v \in Worker : v # w => worker'[v] = worker[v]
  BY DEF Pick, IdleWorker, WorkerType, TypeOK
<1>2. worker'[w].pc \notin Reading
  <2>1. \/ worker' = [worker EXCEPT ![w] = IdleWorker]
        \/ \E i : worker' = [worker EXCEPT ![w] = [IdleWorker EXCEPT !.pc = "item", !.inst = i]]
    BY DEF Pick
  <2>2. CASE worker' = [worker EXCEPT ![w] = IdleWorker]
    BY <2>2 DEF IdleWorker, Reading, WorkerType, TypeOK
  <2>3. ASSUME NEW i,
               worker' = [worker EXCEPT ![w] = [IdleWorker EXCEPT !.pc = "item", !.inst = i]]
        PROVE  worker'[w].pc = "item"
    BY <2>3 DEF IdleWorker, WorkerType, TypeOK
  <2> QED
    BY <2>1, <2>2, <2>3 DEF Reading
<1>3. active'[g] \in {None, active[g]} /\ UNCHANGED <<dead, producer, replay>>
  BY DEF Pick, OthersUnchanged, callers, files
<1> QED
  BY <1>1, <1>2, <1>3, OneWorkerCopies

LEMMA NextItemCopies ==
  ASSUME TypeOK, NEW w \in Worker, NextItem(w), NEW g \in Event, NEW k \in Nat,
         NoCopyWith(g, k)
  PROVE  NoCopyWith(g, k)'
<1>1. \A v \in Worker : v # w => worker'[v] = worker[v]
  BY DEF NextItem, Break, IdleWorker, WorkerType, TypeOK
<1>2. worker'[w].pc \notin Reading
  <2>1. \/ Break(w)
        \/ \E e : worker' = [worker EXCEPT ![w].pc = "read", ![w].ev = e, ![w].sent = @ + 1]
    BY DEF NextItem
  <2>2. CASE Break(w)
    BY <2>2 DEF Break, IdleWorker, Reading, WorkerType, TypeOK
  <2>3. ASSUME NEW e,
               worker' = [worker EXCEPT ![w].pc = "read", ![w].ev = e, ![w].sent = @ + 1]
        PROVE  worker'[w].pc = "read"
    BY <2>3 DEF WorkerType, TypeOK
  <2> QED
    BY <2>1, <2>2, <2>3 DEF Reading
<1>3. active'[g] \in {None, active[g]} /\ UNCHANGED <<dead, producer, replay>>
  BY DEF NextItem, OthersUnchanged, callers, files
<1> QED
  BY <1>1, <1>2, <1>3, OneWorkerCopies

LEMMA ReadCopies ==
  ASSUME TypeOK, NEW w \in Worker, Read(w), NEW g \in Event, NEW k \in Nat,
         NoCopyWith(g, k)
  PROVE  NoCopyWith(g, k)'
<1>1. \A v \in Worker : v # w => worker'[v] = worker[v]
  BY DEF Read, Goto, Continue, Break, WorkerType, TypeOK
<1>2. worker'[w].pc \in Reading => worker'[w].ev = worker[w].ev /\ worker'[w].rec = active[worker[w].ev]
                                   /\ active[worker[w].ev] # None
  BY DEF Read, Goto, Continue, Break, IdleWorker, Reading, WorkerType, TypeOK
<1>3. UNCHANGED <<active, dead, producer, replay>>
  BY DEF Read, OthersUnchanged, memory, callers, files
<1> QED
  BY <1>1, <1>2, <1>3, OneWorkerCopies DEF NoCopyWith

LEMMA PostOkCopies ==
  ASSUME TypeOK, NEW w \in Worker, PostOk(w), NEW g \in Event, NEW k \in Nat,
         NoCopyWith(g, k)
  PROVE  NoCopyWith(g, k)'
BY DEF PostOk, NoCopyWith, OthersUnchanged, callers, Goto, Reading, files

LEMMA PostFailCopies ==
  ASSUME TypeOK, NEW w \in Worker, PostFail(w), NEW g \in Event, NEW k \in Nat,
         NoCopyWith(g, k)
  PROVE  NoCopyWith(g, k)'
<1>1. \A v \in Worker : v # w => worker'[v] = worker[v]
  BY DEF PostFail, AfterFailure, Goto, WorkerType, TypeOK
<1>2. worker'[w].ev = worker[w].ev /\ worker[w].pc \in Reading
      /\ worker'[w].rec.epoch = worker[w].rec.epoch
  BY DEF PostFail, AfterFailure, Goto, Reading, WorkerType, TypeOK
<1>3. UNCHANGED <<active, dead, producer, replay>>
  BY DEF PostFail, OthersUnchanged, memory, callers, files
<1> QED
  BY <1>1, <1>2, <1>3, OneWorkerCopies DEF NoCopyWith

LEMMA UnlinkCopies ==
  ASSUME TypeOK, NEW w \in Worker, Unlink(w), NEW g \in Event, NEW k \in Nat,
         NoCopyWith(g, k)
  PROVE  NoCopyWith(g, k)'
<1>1. \A v \in Worker : v # w => worker'[v] = worker[v]
  BY DEF Unlink, Continue, Break, WorkerType, TypeOK
<1>2. worker'[w].pc \notin Reading
  BY DEF Unlink, Continue, Break, IdleWorker, Reading, WorkerType, TypeOK
<1>3. active'[g] \in {None, active[g]} /\ UNCHANGED <<dead, producer, replay>>
  BY DEF Unlink, OthersUnchanged, callers
<1> QED
  BY <1>1, <1>2, <1>3, OneWorkerCopies

LEMMA RewriteCopies ==
  ASSUME TypeOK, NEW w \in Worker, Rewrite(w), NEW g \in Event, NEW k \in Nat,
         NoCopyWith(g, k)
  PROVE  NoCopyWith(g, k)'
BY DEF Rewrite, NoCopyWith, OthersUnchanged, callers, Goto, Reading

LEMMA SettleCopies ==
  ASSUME TypeOK, NEW w \in Worker, Settle(w), NEW g \in Event, NEW k \in Nat,
         NoCopyWith(g, k)
  PROVE  NoCopyWith(g, k)'
<1>1. \A v \in Worker : v # w => worker'[v] = worker[v]
  BY DEF Settle, Goto, Break, WorkerType, TypeOK
<1>2. worker'[w].pc \notin Reading
  BY DEF Settle, Goto, Break, IdleWorker, Reading, WorkerType, TypeOK
<1>3. UNCHANGED <<active, dead, producer, replay>>
  BY DEF Settle, OthersUnchanged, memory, callers, files
<1> QED
  BY <1>1, <1>2, <1>3, OneWorkerCopies

LEMMA BuryCopies ==
  ASSUME TypeOK, NEW w \in Worker, Bury(w), NEW g \in Event, NEW k \in Nat,
         NoCopyWith(g, k)
  PROVE  NoCopyWith(g, k)'
BY
DEF Bury, NoCopyWith, OthersUnchanged, callers, Break, Reading, TypeOK, FilesType, files

LEMMA StorageErrorCopies ==
  ASSUME TypeOK, NEW w \in Worker, StorageError(w), NEW g \in Event, NEW k \in Nat,
         NoCopyWith(g, k)
  PROVE  NoCopyWith(g, k)'
<1>1. \A v \in Worker : v # w => worker'[v] = worker[v]
  BY DEF StorageError, AfterFailure, Goto, WorkerType, TypeOK
<1>2. UNCHANGED <<active, dead, producer, replay>>
  BY DEF Released, callers, memory, StorageError, files
<1>3. CASE worker[w].pc = "ack"
  <2>1. worker'[w].ev = worker[w].ev /\ worker[w].pc \in Reading
        /\ worker'[w].rec.epoch = worker[w].rec.epoch
    BY <1>3 DEF StorageError, AfterFailure, Goto, Reading, WorkerType, TypeOK
  <2> QED
    BY <1>1, <1>2, <2>1, OneWorkerCopies DEF NoCopyWith
<1>4. CASE worker[w].pc # "ack"
  <2>1. worker'[w].pc \notin Reading
    BY <1>4 DEF StorageError, IdleWorker, Reading, WorkerType, TypeOK
  <2> QED
    BY <1>1, <1>2, <2>1, OneWorkerCopies
<1> QED
  BY <1>3, <1>4

LEMMA SweepCopies ==
  ASSUME TypeOK, NEW i \in Instance, Sweep(i), NEW g \in Event, NEW k \in Nat,
         NoCopyWith(g, k)
  PROVE  NoCopyWith(g, k)'
BY DEF Swept, Sweep, NoCopyWith, TypeOK, FilesType, files

LEMMA BeginReplayCopies ==
  ASSUME TypeOK, BeginReplay, NEW g \in Event, NEW k \in Nat,
         NoCopyWith(g, k)
  PROVE  NoCopyWith(g, k)'
BY DEF BeginReplay, NoCopyWith, files

LEMMA ReplayReadCopies ==
  ASSUME TypeOK, ReplayRead, NEW g \in Event, NEW k \in Nat,
         NoCopyWith(g, k)
  PROVE  NoCopyWith(g, k)'
<1>1. UNCHANGED <<active, dead, producer, worker>>
  BY DEF ReplayRead, files
<1>2. replay'.pc \in {"write", "check"} =>
        replay'.ev \in replay.left /\ dead[replay'.ev] # None
        /\ replay'.rec = NewRecord(dead[replay'.ev].epoch)
  <2>1. replay.pc = "read"
    BY DEF ReplayRead
  <2>2. CASE replay' = NoReplay
    BY <2>2 DEF NoReplay
  <2>3. ASSUME NEW e \in replay.left,
               \/ replay' = [replay EXCEPT !.left = @ \ {e}, !.ev = e]
               \/ replay' = [replay EXCEPT !.left = @ \ {e}, !.ev = e, !.pc = "clear"]
               \/ /\ dead[e] # None
                  /\ replay' = [replay EXCEPT !.left = @ \ {e}, !.ev = e, !.pc = "write",
                                              !.rec = NewRecord(dead[e].epoch)]
        PROVE  replay'.pc \in {"write", "check"} =>
                 replay'.ev \in replay.left /\ dead[replay'.ev] # None
                 /\ replay'.rec = NewRecord(dead[replay'.ev].epoch)
    BY <2>1, <2>3 DEF ActorType, TypeOK
  <2> QED
    BY <2>2, <2>3 DEF Renewed, callers, memory, ReplayRead
<1> QED
  BY <1>1, <1>2 DEF NoCopyWith, NewRecord

LEMMA ReplayWriteCopies ==
  ASSUME TypeOK, ReplayWrite, NEW g \in Event, NEW k \in Nat,
         NoCopyWith(g, k)
  PROVE  NoCopyWith(g, k)'
BY DEF ReplayWrite, NoCopyWith

LEMMA ReplayCheckCopies ==
  ASSUME TypeOK, ReplayCheck, NEW g \in Event, NEW k \in Nat,
         NoCopyWith(g, k)
  PROVE  NoCopyWith(g, k)'
BY DEF ReplayCheck, NoCopyWith, files

LEMMA ReplayUnlinkCopies ==
  ASSUME TypeOK, ReplayUnlink, NEW g \in Event, NEW k \in Nat,
         NoCopyWith(g, k)
  PROVE  NoCopyWith(g, k)'
BY DEF ReplayUnlink, NoCopyWith, TypeOK, FilesType, ActorType

LEMMA ReplayFailCopies ==
  ASSUME TypeOK, ReplayFail, NEW g \in Event, NEW k \in Nat,
         NoCopyWith(g, k)
  PROVE  NoCopyWith(g, k)'
BY DEF ReplayFail, NoCopyWith, NoReplay, files

LEMMA CrashCopies ==
  ASSUME TypeOK, Crash, NEW g \in Event, NEW k \in Nat,
         NoCopyWith(g, k)
  PROVE  NoCopyWith(g, k)'
BY DEF Crash, NoCopyWith, NoReplay, NoWork, IdleWorker, Reading, files

(* What no step but a closure can do: put epoch k on a copy of g.  An enqueue *)
(* call that begins takes the current epoch, so k is not that one.            *)
LEMMA StepCopies ==
  ASSUME TypeOK, [Next]_vars, NEW g \in Event, NEW k \in Nat, NoCopyWith(g, k),
         epoch[InstOf[g]] # k \/ producer[g].pc # "new"
  PROVE  NoCopyWith(g, k)'
<1>1. CASE UNCHANGED vars
  BY <1>1, KeepCopies DEF vars, callers
<1>2. ASSUME NEW w \in Worker, Run(w) PROVE NoCopyWith(g, k)'
  BY <1>2, PickCopies, NextItemCopies DEF Run
<1>3. CASE Callback
  <2>1. ASSUME NEW e \in Event,
               Enqueue(e) \/ EnqueueFail(e) \/ ProducerStep(e) \/ Elapse(e)
        PROVE  NoCopyWith(g, k)'
    BY <2>1, EnqueueCopies, EnqueueFailCopies, EnqueueWriteCopies, EnqueueCheckCopies,
       EnqueueUndoCopies, ElapseCopies DEF ProducerStep
  <2>2. ASSUME NEW f \in Flight, FlightStep(f) \/ ScanFail(f) PROVE NoCopyWith(g, k)'
    <3>1. CASE Scan(f)
      BY <3>1, ScanCopies
    <3>2. CASE EndRound(f) \/ ReleaseFlight(f) \/ ReapOrphan(f) \/ ScanFail(f)
      BY <3>2, KeepCopies DEF callers, EndRound, ReleaseFlight, ReapOrphan, ScanFail
    <3> QED
      BY <2>2, <3>1, <3>2 DEF FlightStep
  <2>3. ASSUME NEW w \in Worker, WorkerStep(w) \/ StorageError(w) PROVE NoCopyWith(g, k)'
    BY <2>3, ReadCopies, PostOkCopies, PostFailCopies, UnlinkCopies, RewriteCopies,
       SettleCopies, BuryCopies, StorageErrorCopies DEF WorkerStep
  <2>4. ASSUME NEW i \in Instance,
               BeginDiscard(i) \/ DiscardStep(i) \/ DiscardFail(i) \/ Open(i)
        PROVE  NoCopyWith(g, k)'
    <3>1. CASE Sweep(i)
      BY <3>1, SweepCopies
    <3>2. CASE BeginDiscard(i) \/ ListDirectory(i) \/ DiscardFail(i) \/ Open(i)
      BY <3>2, KeepCopies DEF callers, BeginDiscard, ListDirectory, DiscardFail, Open
    <3> QED
      BY <2>4, <3>1, <3>2 DEF DiscardStep
  <2>5. CASE BeginReplay \/ ReplayStep \/ ReplayFail
    BY <2>5, BeginReplayCopies, ReplayReadCopies, ReplayWriteCopies, ReplayCheckCopies,
       ReplayUnlinkCopies, ReplayFailCopies DEF ReplayStep
  <2>6. CASE TimerFlush \/ Stop
    BY <2>6, KeepCopies DEF callers, memory, TimerFlush, Stop
  <2>7. CASE Crash
    BY <2>7, CrashCopies
  <2> QED
    BY <1>3, <2>1, <2>2, <2>3, <2>4, <2>5, <2>6, <2>7 DEF Callback
<1> QED
  BY <1>1, <1>2, <1>3 DEF Next

(***************************************************************************)
(* Work of a closed connection                                             *)
(***************************************************************************)

\* An epoch that has not been drawn yet is on no record.
EpochsFresh ==
  \A k \in Nat : k > spent["discard"] =>
    /\ \A i \in Instance : epoch[i] # k
    /\ \A e \in Event : NoCopyWith(e, k)

CloseInv == TypeOK /\ EpochsFresh /\ CancelledIsStale

LEMMA CloseInit == Init => CloseInv
<1> SUFFICES ASSUME Init PROVE EpochsFresh /\ CancelledIsStale
  BY TypeInit DEF CloseInv
<1>1. CancelledIsStale
  BY DEF Init, CancelledIsStale
<1>2. EpochsFresh
  <2> SUFFICES ASSUME NEW k \in Nat, k > 0
               PROVE  /\ \A i \in Instance : epoch[i] # k
                      /\ \A e \in Event : NoCopyWith(e, k)
    BY DEF Init, EpochsFresh, Bounded
  <2> QED
    BY DEF Init, NoCopyWith, NoFiles, NoWork, IdleWorker, NoReplay, Reading
<1> QED
  BY <1>1, <1>2

\* Only closures and crashes change an epoch, and only closures draw one.
LEMMA EpochStep ==
  ASSUME TypeOK, [Next]_vars, ~Crash, \A i \in Instance : ~BeginDiscard(i)
  PROVE  UNCHANGED <<epoch, obsolete>> /\ spent'["discard"] = spent["discard"]
<1>1. CASE UNCHANGED vars
  BY <1>1 DEF vars, memory, history
<1>2. ASSUME NEW w \in Worker, Run(w)
      PROVE  UNCHANGED <<epoch, obsolete>> /\ spent'["discard"] = spent["discard"]
  BY <1>2 DEF Run, Pick, NextItem, OthersUnchanged, memory
<1>3. CASE Callback
  <2>1. ASSUME NEW e \in Event,
               Enqueue(e) \/ EnqueueFail(e) \/ ProducerStep(e) \/ Elapse(e)
        PROVE  UNCHANGED <<epoch, obsolete>> /\ spent'["discard"] = spent["discard"]
    BY <2>1
    DEF memory, Enqueue, EnqueueFail, ProducerStep, EnqueueWrite, EnqueueCheck,
        EnqueueUndo, Elapse, Spend, history, MemoryType, Bounded, TypeOK
  <2>2. ASSUME NEW f \in Flight, FlightStep(f) \/ ScanFail(f)
        PROVE  UNCHANGED <<epoch, obsolete>> /\ spent'["discard"] = spent["discard"]
    BY <2>2
    DEF memory, FlightStep, Scan, EndRound, ReleaseFlight, ReapOrphan, ScanFail, Spend,
        history, MemoryType, Bounded, TypeOK
  <2>3. ASSUME NEW w \in Worker, WorkerStep(w) \/ StorageError(w)
        PROVE  UNCHANGED <<epoch, obsolete>> /\ spent'["discard"] = spent["discard"]
    BY <2>3
    DEF WorkerStep, Read, PostOk, PostFail, Unlink, Rewrite, Settle, Bury, StorageError,
        OthersUnchanged, memory, Spend, history, MemoryType, Bounded, TypeOK
  <2>4. ASSUME NEW i \in Instance, DiscardStep(i) \/ DiscardFail(i) \/ Open(i)
        PROVE  UNCHANGED <<epoch, obsolete>> /\ spent'["discard"] = spent["discard"]
    BY <2>4
    DEF memory, DiscardStep, ListDirectory, Sweep, DiscardFail, Open, Spend, history,
        MemoryType, Bounded, TypeOK
  <2>5. CASE BeginReplay \/ ReplayStep \/ ReplayFail
    BY <2>5
    DEF memory, BeginReplay, ReplayStep, ReplayRead, ReplayWrite, ReplayCheck,
        ReplayUnlink, ReplayFail, Spend, history, MemoryType, Bounded, TypeOK
  <2>6. CASE TimerFlush \/ Stop
    BY <2>6 DEF memory, TimerFlush, Stop, Spend, history, MemoryType, Bounded, TypeOK
  <2> QED
    BY <1>3, <2>1, <2>2, <2>3, <2>4, <2>5, <2>6 DEF Callback
<1> QED
  BY <1>1, <1>2, <1>3 DEF Next

\* An enqueue call never begins twice.
LEMMA NewIsFirst ==
  ASSUME TypeOK, [Next]_vars, NEW e \in Event, producer[e].pc # "new"
  PROVE  producer'[e].pc # "new"
<1>1. ASSUME NEW g \in Event, Enqueue(g) \/ EnqueueFail(g) \/ ProducerStep(g)
      PROVE  producer'[e].pc # "new"
  <2>1. producer \in [Event -> [pc : ProducerPc, epoch : Nat]]
    BY DEF ActorType, TypeOK
  <2>2. CASE Enqueue(g)
    BY <2>1, <2>2 DEF Enqueue
  <2>3. \/ Enqueue(g)
        \/ \E to \in {"check", "undo", "done", "failed"} :
             producer' = [producer EXCEPT ![g].pc = to]
    BY <1>1 DEF EnqueueFail, ProducerStep, EnqueueWrite, EnqueueCheck, EnqueueUndo
  <2> QED  BY <2>1, <2>2, <2>3
<1>2. CASE Crash
  BY <1>2 DEF Crash, ActorType, TypeOK
<1>3. CASE UNCHANGED producer
  BY <1>3
<1>4. CASE UNCHANGED vars
  BY <1>3, <1>4 DEF callers, memory, vars
<1>5. ASSUME NEW w \in Worker, Run(w) PROVE UNCHANGED producer
  BY <1>5 DEF Run, Pick, NextItem, OthersUnchanged, callers
<1>6. CASE Callback
  <2>1. ASSUME NEW g \in Event, Elapse(g) PROVE UNCHANGED producer
    BY <2>1 DEF callers, memory, Elapse
  <2>2. ASSUME NEW f \in Flight, FlightStep(f) \/ ScanFail(f) PROVE UNCHANGED producer
    BY <2>2 DEF callers, FlightStep, Scan, EndRound, ReleaseFlight, ReapOrphan, ScanFail
  <2>3. ASSUME NEW w \in Worker, WorkerStep(w) \/ StorageError(w) PROVE UNCHANGED producer
    BY <2>3
    DEF WorkerStep, Read, PostOk, PostFail, Unlink, Rewrite, Settle, Bury, StorageError,
        OthersUnchanged, callers
  <2>4. ASSUME NEW i \in Instance, BeginDiscard(i) \/ DiscardStep(i) \/ DiscardFail(i) \/ Open(i)
        PROVE  UNCHANGED producer
    BY <2>4
    DEF callers, BeginDiscard, DiscardStep, ListDirectory, Sweep, DiscardFail, Open
  <2>5. CASE BeginReplay \/ ReplayStep \/ ReplayFail
    BY <1>3, <2>5
    DEF BeginReplay, ReplayStep, ReplayRead, ReplayWrite, ReplayCheck, ReplayUnlink,
        ReplayFail
  <2>6. CASE TimerFlush \/ Stop
    BY <1>3, <2>6 DEF callers, memory, TimerFlush, Stop
  <2> QED
    BY <1>1, <1>2, <1>3, <1>6, <2>1, <2>2, <2>3, <2>4, <2>5, <2>6 DEF Callback
<1> QED
  BY <1>3, <1>4, <1>5, <1>6 DEF Next

\* The bounds allow no crash.
NoCrash == \A limit \in Limits : limit["crash"] = 0

LEMMA CloseStep == ASSUME CloseInv, [Next]_vars, NoCrash PROVE CloseInv'
<1> USE DEF CloseInv
<1>1. TypeOK'
  BY TypeStep
<1>2. ~Crash
  BY DEF Crash, Spend, NoCrash, Bounded, MemoryType, TypeOK
<1>3. CASE \A i \in Instance : ~BeginDiscard(i)
  <2>1. UNCHANGED <<epoch, obsolete>> /\ spent'["discard"] = spent["discard"]
    BY <1>2, <1>3, EpochStep
  <2>2. EpochsFresh'
    <3> SUFFICES ASSUME NEW k \in Nat, k > spent["discard"]
                 PROVE  /\ \A i \in Instance : epoch'[i] # k
                        /\ \A e \in Event : NoCopyWith(e, k)'
      BY <2>1 DEF EpochsFresh
    <3>1. \A i \in Instance : epoch[i] # k
      BY DEF EpochsFresh
    <3>2. ASSUME NEW e \in Event PROVE NoCopyWith(e, k)'
      BY <3>1, InstanceAssumption, StepCopies DEF EpochsFresh
    <3> QED
      BY <2>1, <3>1, <3>2
  <2>3. CancelledIsStale'
    <3> SUFFICES ASSUME NEW e \in obsolete
                 PROVE  /\ e \notin Lifecycle
                        /\ producer'[e].pc # "new"
                        /\ epoch[InstOf[e]] # 0
                        /\ NoCopyWith(e, epoch[InstOf[e]])'
      BY <2>1 DEF CancelledIsStale, NoCopyWith
    <3>1. e \in Event /\ epoch[InstOf[e]] \in Nat
      BY InstanceAssumption DEF HistoryType, MemoryType, TypeOK, memory
    <3>2. /\ e \notin Lifecycle
          /\ producer[e].pc # "new"
          /\ epoch[InstOf[e]] # 0
          /\ NoCopyWith(e, epoch[InstOf[e]])
      BY DEF CancelledIsStale
    <3>3. producer'[e].pc # "new"
      BY <3>1, <3>2, NewIsFirst
    <3> DEFINE k == epoch[InstOf[e]]
    <3>4. k \in Nat /\ NoCopyWith(e, k) /\ k' = k
      BY <2>1, <3>1, <3>2
    <3> HIDE DEF k
    <3>5. NoCopyWith(e, k)'
      BY <3>1, <3>2, <3>4, StepCopies
    <3> QED
      BY <3>2, <3>3, <3>4, <3>5 DEF k
  <2> QED
    BY <1>1, <2>2, <2>3
<1>4. ASSUME NEW i \in Instance, BeginDiscard(i) PROVE CloseInv'
  <2>1. PICK n \in Nat : /\ n > spent["discard"] /\ n # 0
                         /\ spent'["discard"] = n
                         /\ epoch' = [epoch EXCEPT ![i] = n]
    <3>1. spent["discard"] \in Nat
      BY DEF Bounded, MemoryType, TypeOK, memory
    <3>2. spent'["discard"] = spent["discard"] + 1
      BY <1>4 DEF BeginDiscard, Spend, Bounded, MemoryType, TypeOK
    <3>3. epoch' = [epoch EXCEPT ![i] = spent["discard"] + 1]
      BY <1>4 DEF BeginDiscard
    <3>4. /\ spent["discard"] + 1 \in Nat
          /\ spent["discard"] + 1 > spent["discard"]
          /\ spent["discard"] + 1 # 0
      BY <3>1
    <3> QED
      BY <3>2, <3>3, <3>4, Zenon
  <2>2. \A e \in Event : \A k \in Nat : NoCopyWith(e, k) => NoCopyWith(e, k)'
    BY <1>4, KeepCopies DEF BeginDiscard
  <2>3. EpochsFresh'
    <3> SUFFICES ASSUME NEW k \in Nat, k > n
                 PROVE  /\ \A j \in Instance : epoch'[j] # k
                        /\ \A e \in Event : NoCopyWith(e, k)'
      BY <2>1 DEF EpochsFresh
    <3>1. k > spent["discard"]
      BY <2>1 DEF MemoryType, Bounded, TypeOK
    <3> QED
      BY <2>1, <2>2, <3>1 DEF EpochsFresh, MemoryType, TypeOK, memory
  <2>4. CancelledIsStale'
    <3> SUFFICES ASSUME NEW e \in obsolete'
                 PROVE  /\ e \notin Lifecycle
                        /\ producer'[e].pc # "new"
                        /\ epoch'[InstOf[e]] # 0
                        /\ NoCopyWith(e, epoch[InstOf[e]])'
      BY DEF CancelledIsStale, NoCopyWith
    <3>1. e \in Event /\ e \notin Lifecycle /\ producer[e].pc # "new"
      BY <1>4 DEF BeginDiscard, EventsOf, CancelledIsStale, HistoryType, TypeOK
    <3>2. producer'[e].pc # "new"
      BY <1>4, <3>1 DEF BeginDiscard
    <3>3. CASE InstOf[e] = i
      <4>1. epoch'[InstOf[e]] = n
        BY <2>1, <3>3 DEF MemoryType, TypeOK, memory
      <4>2. NoCopyWith(e, n)'
        BY <2>1, <2>2, <3>1 DEF EpochsFresh
      <4> QED
        BY <2>1, <3>1, <3>2, <4>1, <4>2 DEF NoCopyWith
    <3>4. CASE InstOf[e] # i
      <4>1. e \in obsolete
        BY <1>4, <3>4 DEF BeginDiscard, EventsOf
      <4>2. epoch'[InstOf[e]] = epoch[InstOf[e]]
        BY <2>1, <3>4, <3>1, InstanceAssumption DEF MemoryType, TypeOK, memory
      <4>3. NoCopyWith(e, epoch[InstOf[e]]) /\ epoch[InstOf[e]] # 0
        BY <4>1 DEF CancelledIsStale
      <4> QED
        BY <1>4, <3>1, <3>2, <4>2, <4>3 DEF BeginDiscard, NoCopyWith, files
    <3> QED
      BY <3>3, <3>4
  <2> QED
    BY <1>1, <2>3, <2>4
<1> QED
  BY <1>3, <1>4

LEMMA CloseCorrect == ASSUME NoCrash PROVE Spec => []CloseInv
<1>1. CloseInv /\ [Next]_vars => CloseInv'
  BY CloseStep
<1> QED
  BY CloseInit, <1>1, PTL DEF Spec

(* As long as the process does not crash, every copy of an event of a closed *)
(* connection, on disk or in an actor's hands, carries an epoch that ended.  *)
THEOREM CancelledStaysStale ==
  ASSUME NoCrash PROVE Spec => []CancelledIsStale
<1>1. CloseInv => CancelledIsStale
  BY DEF CloseInv
<1> QED
  BY CloseCorrect, <1>1, PTL


\* A worker starts a request only with a file it has just read.
LEMMA OnlyReadPosts ==
  ASSUME TypeOK, [Next]_vars, NEW w \in Worker, StartsPost(w)
  PROVE  Read(w)
<1>1. worker[w].pc # "post" /\ worker'[w].pc = "post"
  BY DEF StartsPost, Posting
<1>2. ~(UNCHANGED worker)
  BY <1>1
<1>3. ASSUME NEW v \in Worker, Run(v) PROVE worker'[w].pc # "post"
  <2>1. CASE Pick(v)
    <3>1. \/ worker' = [worker EXCEPT ![v] = IdleWorker]
          \/ \E i : worker' = [worker EXCEPT ![v] = [IdleWorker EXCEPT !.pc = "item", !.inst = i]]
      BY <2>1 DEF Pick
    <3>2. CASE worker' = [worker EXCEPT ![v] = IdleWorker]
      BY <1>1, <3>2 DEF IdleWorker, WorkerType, TypeOK
    <3>3. ASSUME NEW i,
                 worker' = [worker EXCEPT ![v] = [IdleWorker EXCEPT !.pc = "item", !.inst = i]]
          PROVE  worker'[w].pc # "post"
      BY <1>1, <3>3 DEF IdleWorker, WorkerType, TypeOK
    <3> QED
      BY <3>1, <3>2, <3>3
  <2>2. CASE NextItem(v)
    <3>1. \/ Break(v)
          \/ \E e : worker' = [worker EXCEPT ![v].pc = "read", ![v].ev = e, ![v].sent = @ + 1]
      BY <2>2 DEF NextItem
    <3>2. CASE Break(v)
      BY <1>1, <3>2 DEF Break, IdleWorker, WorkerType, TypeOK
    <3>3. ASSUME NEW e,
                 worker' = [worker EXCEPT ![v].pc = "read", ![v].ev = e, ![v].sent = @ + 1]
          PROVE  worker'[w].pc # "post"
      BY <1>1, <3>3 DEF WorkerType, TypeOK
    <3> QED
      BY <3>1, <3>2, <3>3
  <2> QED
    BY <1>3, <2>1, <2>2 DEF Run
<1>4. ASSUME NEW v \in Worker, WorkerStep(v) \/ StorageError(v), ~(v = w /\ Read(v))
      PROVE  worker'[w].pc # "post"
  <2>1. CASE PostOk(v) \/ Rewrite(v)
    BY <1>1, <2>1 DEF PostOk, Rewrite, Goto, WorkerType, TypeOK
  <2>2. CASE Unlink(v) \/ Settle(v) \/ Bury(v)
    BY <1>1, <2>2
    DEF Unlink, Settle, Bury, Goto, Continue, Break, IdleWorker, WorkerType, TypeOK
  <2>3. CASE PostFail(v) \/ StorageError(v)
    BY <1>1, <2>3
    DEF PostFail, StorageError, AfterFailure, Goto, IdleWorker, WorkerType, TypeOK
  <2>4. CASE Read(v)
    BY <1>1, <1>4, <2>4 DEF Read, Goto, Continue, Break, WorkerType, TypeOK
  <2> QED
    BY <1>4, <2>1, <2>2, <2>3, <2>4 DEF WorkerStep
<1>5. ASSUME NEW f \in Flight, FlightStep(f) \/ ScanFail(f) PROVE worker'[w].pc # "post"
  <2>1. CASE Scan(f)
    BY <1>1, <2>1 DEF Scan, IdleWorker
  <2>2. CASE EndRound(f) \/ ReleaseFlight(f) \/ ReapOrphan(f) \/ ScanFail(f)
    BY <1>2, <2>2 DEF EndRound, ReleaseFlight, ReapOrphan, ScanFail
  <2> QED
    BY <1>5, <2>1, <2>2 DEF FlightStep
<1>6. ~Crash
  BY <1>1 DEF Crash, NoWork, IdleWorker
<1>7. ASSUME NEW e \in Event, Enqueue(e) \/ EnqueueFail(e) \/ ProducerStep(e) \/ Elapse(e)
      PROVE  UNCHANGED worker
  BY <1>7
  DEF Enqueue, EnqueueFail, ProducerStep, EnqueueWrite, EnqueueCheck, EnqueueUndo, Elapse
<1>8. ASSUME NEW i \in Instance, BeginDiscard(i) \/ DiscardStep(i) \/ DiscardFail(i) \/ Open(i)
      PROVE  UNCHANGED worker
  BY <1>8 DEF BeginDiscard, DiscardStep, ListDirectory, Sweep, DiscardFail, Open
<1>9. BeginReplay \/ ReplayStep \/ ReplayFail \/ TimerFlush \/ Stop => UNCHANGED worker
  BY
  DEF BeginReplay, ReplayStep, ReplayRead, ReplayWrite, ReplayCheck, ReplayUnlink,
      ReplayFail, TimerFlush, Stop
<1> QED
  BY <1>1, <1>2, <1>3, <1>4, <1>5, <1>6, <1>7, <1>8, <1>9 DEF Next, Callback, vars

(* As long as the process does not crash, no request is started for work of a *)
(* connection that has been closed since, however closures, deliveries,      *)
(* retries, replays and storage errors interleave.                           *)
THEOREM NothingAfterClose ==
  ASSUME NoCrash PROVE Spec => NoPostAfterClose
<1>1. ASSUME CloseInv, [Next]_vars, NEW w \in Worker, StartsPost(w)
      PROVE  worker'[w].ev \notin obsolete
  <2>1. Read(w)
    BY <1>1, OnlyReadPosts DEF CloseInv
  <2>2. worker'[w].ev = worker[w].ev
    BY <1>1, <2>1
    DEF CloseInv, Read, Goto, Continue, Break, IdleWorker, StartsPost, Posting,
        WorkerType, TypeOK
  <2>3. active[worker[w].ev] # None /\ ~Discarded(worker[w].ev, active[worker[w].ev])
    BY <1>1, <2>1
    DEF CloseInv, Read, Goto, Continue, StartsPost, Posting, WorkerType, TypeOK
  <2> QED
    BY <1>1, <2>2, <2>3 DEF CloseInv, CancelledIsStale, NoCopyWith, Discarded
<1>2. CloseInv /\ [Next]_vars =>
        [\A w \in Worker : StartsPost(w) => worker'[w].ev \notin obsolete]_vars
  BY <1>1
<1> QED
  BY CloseCorrect, <1>2, PTL DEF Spec, NoPostAfterClose

-----------------------------------------------------------------------------
(***************************************************************************)
(* What is known of every file, worker and caller                          *)
(***************************************************************************)

Started(e) == producer[e].pc # "new"

\* The enqueue call of e has put its file in the directory, or failed to.
Written(e) == producer[e].pc \notin {"new", "write"}

\* The connection of e has closed since its enqueue call began.
Stale(e) ==
  /\ e \notin Lifecycle
  /\ epoch[InstOf[e]] # 0
  /\ producer[e].epoch # epoch[InstOf[e]]

\* Who has a file, or wants one, has one that was written.
Possession ==
  /\ \A e \in Event : active[e] # None \/ dead[e] # None => Written(e)
  /\ \A w \in Worker : worker[w].pc \in Holding => Written(worker[w].ev)
  /\ \A f \in Flight : \A i \in Instance : \A e \in todo[f][i] : Written(e) /\ InstOf[e] = i
  /\ \A e \in replay.left : Written(e)
  /\ replay.pc \notin {"idle", "read"} => Written(replay.ev)

\* Only a dead letter is replayed.
DeadLetters ==
  /\ \A e \in Event : dead[e] # None => e \in buried
  /\ replay.left \subseteq buried
  /\ replay.pc \notin {"idle", "read"} => replay.ev \in buried

\* A record carries, wherever it is, the epoch its enqueue call began in.
OneEpoch == \A e \in Event : \A k \in Nat : k # producer[e].epoch => NoCopyWith(e, k)

\* What the history says of the enqueue calls.
Calls ==
  /\ \A e, g \in Event : Started(e) /\ g < e /\ g \notin Planned => Started(g)
  /\ \A e \in accepted : producer[e].pc = "done"
  /\ \A e \in Event : Started(e) /\ Stale(e) => e \in obsolete
  /\ \A e \in Event : \A g \in prior[e] : g \in accepted /\ InstOf[g] = InstOf[e]
  /\ \A e \in Event : \A g \in Ahead(e) : g < e

\* Why a worker removes a file, and why discardInstance looks for some.
Reasons ==
  /\ \A w \in Worker :
       /\ worker[w].pc = "ack" => worker[w].ev \in received
       /\ worker[w].pc \in {"skip", "drop"} => worker[w].ev \in obsolete
  /\ \A i \in Instance : discard[i].pc \notin {"idle", "failed"} => epoch[i] # 0

Found(e) == e \in Present(active) \union Present(dead) \union received \union obsolete

\* Replays apart, an event is found somewhere from the time its file is written.
Kept ==
  spent["replay"] = 0 =>
    /\ replay = NoReplay
    /\ \A e \in Event : e \in accepted \/ producer[e].pc = "check" => Found(e)

RecordInv == Possession /\ DeadLetters /\ OneEpoch /\ Calls /\ Reasons /\ Kept

-----------------------------------------------------------------------------
\* A group of a flight has one worker, and is not up for another one.
OneGroupEach ==
  \A w \in Worker : worker[w].pc \in Grouped =>
    /\ worker[w].inst \notin ready[w[1]]
    /\ worker[w].pc \in Holding => InstOf[worker[w].ev] = worker[w].inst
    /\ \A v \in Worker :
         v # w /\ v[1] = w[1] /\ worker[v].pc \in Grouped => worker[v].inst # worker[w].inst

\* The lock is held by the flight that is under way; only it has workers, and what a
\* failed flight left behind.
LockHeld ==
  /\ flight # None => phase[flight] \in {"scan", "run", "exit"}
  /\ \A f \in Flight : phase[f] \in {"scan", "run", "exit"} => flight = f
  /\ \A w \in Worker : worker[w].pc # "done" => phase[w[1]] \in {"run", "orphan"}

\* No storage error so far, or WEBHOOK_CONCURRENCY is 1, or there is one instance.
Calm ==
  \/ spent["error"] = 0
  \/ \A s, t \in Slot : s = t
  \/ \A i, j \in Instance : i = j

\* Then a failed flight leaves no worker behind that does anything.
OrphansIdle ==
  \A f \in Flight : phase[f] = "orphan" =>
    /\ \A w \in Worker : w[1] = f => worker[w].pc \notin Grouped
    /\ ready[f] = {} \/ AllReturned(f)

LaneInv == OneGroupEach /\ LockHeld /\ (Calm => OrphansIdle)

-----------------------------------------------------------------------------
\* Nothing of e waits in the directory any more, unless it was cancelled or refused for good.
Gone(e) == active[e] = None \/ e \in obsolete \union buried

\* The files of a group that are to be visited come after all that their connection had
\* accepted before, the one in hand apart.
InOrder(f, i, inHand) ==
  \A x \in todo[f][i] : \A e \in Ahead(x) : e \in todo[f][i] \/ e \in inHand \/ Gone(e)

ReadyInOrder ==
  \A f \in Flight : phase[f] = "run" => \A i \in ready[f] : InOrder(f, i, {})

WorkerInOrder ==
  \A w \in Worker :
    /\ worker[w].pc = "item" => InOrder(w[1], worker[w].inst, {})
    /\ worker[w].pc \in {"read", "post", "ack", "skip"} =>
         InOrder(w[1], worker[w].inst, {worker[w].ev})
    /\ worker[w].pc = "read" => \A e \in Ahead(worker[w].ev) : Gone(e)

OrderInv == Calm => ReadyInOrder /\ WorkerInOrder

-----------------------------------------------------------------------------
\* discardInstance has listed the active directory and dealt with e.
Past(e) ==
  LET d == discard[InstOf[e]] IN
  d.pc \in {"idle", "listDead", "sweepDead"} \/ (d.pc = "sweepActive" /\ e \notin d.left)

PastDead(e) ==
  LET d == discard[InstOf[e]] IN
  d.pc = "idle" \/ (d.pc = "sweepDead" /\ e \notin d.left)

Replaying(e, pcs) == replay.ev = e /\ replay.pc \in pcs

\* A file that reappears after discardInstance has someone to remove it.
Reappeared ==
  \A e \in Event : Stale(e) /\ Past(e) /\ active[e] # None =>
    \/ producer[e].pc \in {"check", "undo"}
    \/ \E w \in Worker : worker[w].ev = e /\ worker[w].pc \in {"settle", "drop"}
    \/ Replaying(e, {"check", "undo"})

\* A worker on its way to the dead letters with it finds nothing, or a replay's copy.
NotBuried ==
  \A w \in Worker : worker[w].pc = "bury" /\ Stale(worker[w].ev) /\ Past(worker[w].ev) =>
    active[worker[w].ev] = None \/ Replaying(worker[w].ev, {"check", "undo"})

DeadSwept ==
  \A e \in Event : Stale(e) /\ PastDead(e) /\ dead[e] # None =>
    Replaying(e, {"write", "check", "undo", "clear"})

DiscardInv == spent["error"] = 0 => Reappeared /\ NotBuried /\ DeadSwept

OutboxInv == RecordInv /\ LaneInv /\ OrderInv /\ DiscardInv
(***************************************************************************)
(* What one step does to each actor                                        *)
(***************************************************************************)
LEMMA Steps ==
  ASSUME [Next]_vars
  PROVE  \/ UNCHANGED vars
         \/ \E e \in Event : \/ Enqueue(e) \/ EnqueueFail(e) \/ EnqueueWrite(e)
                             \/ EnqueueCheck(e) \/ EnqueueUndo(e) \/ Elapse(e)
         \/ \E f \in Flight : \/ Scan(f) \/ EndRound(f) \/ ReleaseFlight(f)
                              \/ ReapOrphan(f) \/ ScanFail(f)
         \/ \E w \in Worker : \/ Pick(w) \/ NextItem(w) \/ Read(w) \/ PostOk(w) \/ PostFail(w)
                              \/ Unlink(w) \/ Rewrite(w) \/ Settle(w) \/ Bury(w)
                              \/ StorageError(w)
         \/ \E i \in Instance : \/ BeginDiscard(i) \/ ListDirectory(i) \/ Sweep(i)
                                \/ DiscardFail(i) \/ Open(i)
         \/ BeginReplay \/ ReplayRead \/ ReplayWrite \/ ReplayCheck \/ ReplayUnlink \/ ReplayFail
         \/ TimerFlush \/ Stop \/ Crash
<1>1. ASSUME NEW w \in Worker, Run(w) PROVE Pick(w) \/ NextItem(w)
  BY <1>1 DEF Run
<1> QED
  BY <1>1 DEF Next, Callback, ProducerStep, FlightStep, WorkerStep, DiscardStep, ReplayStep

\* What ends a call before its time.
Cut == Crash \/ spent'["error"] # 0

LEMMA ErrorCuts == ASSUME TypeOK, Spend("error") PROVE Cut
BY DEF Cut, Spend, MemoryType, TypeOK, Bounded

\* The enqueue call of e.
ProducerMove(e) ==
  LET old == producer[e]
      new == producer'[e]
  IN
  \/ new = old
  \/ old.pc = "new" /\ new = [pc |-> "write", epoch |-> epoch[InstOf[e]]] /\ Enqueue(e)
  \/ /\ new.epoch = old.epoch
     /\ \/ old.pc = "write" /\ new.pc = "check" /\ active'[e] # None
        \/ old.pc \in {"write", "check", "undo"} /\ new.pc = "failed" /\ Cut
        \/ old.pc = "check" /\ new.pc = "undo"
        \/ old.pc = "check" /\ new.pc = "done" /\ ~Superseded(e)
        \/ old.pc = "undo" /\ new.pc = "done" /\ active'[e] = None

LEMMA ProducerMoves == ASSUME TypeOK, [Next]_vars PROVE \A e \in Event : ProducerMove(e)
<1>1. CASE UNCHANGED producer
  BY <1>1 DEF ProducerMove
<1>2. ASSUME NEW e \in Event, Enqueue(e) \/ EnqueueFail(e)
      PROVE  \A g \in Event : ProducerMove(g)
  <2>1. CASE Enqueue(e)
    BY <2>1 DEF Enqueue, ProducerMove, ActorType, TypeOK
  <2>2. CASE EnqueueFail(e)
    <3>1. Cut
      BY <2>2, ErrorCuts DEF EnqueueFail
    <3> QED  BY <2>2, <3>1 DEF EnqueueFail, ProducerMove, ActorType, TypeOK
  <2> QED  BY <1>2, <2>1, <2>2
<1>3. ASSUME NEW e \in Event, EnqueueWrite(e)
      PROVE  \A g \in Event : ProducerMove(g)
  <2>1. active'[e] # None
    <3>1. FirstRecord(e) \in Record
      BY DEF FirstRecord, NewRecord, Record, ActorType, TypeOK
    <3>2. active'[e] = FirstRecord(e)
      BY <1>3 DEF EnqueueWrite, FilesType, TypeOK
    <3> QED  BY <3>1, <3>2, NoneAssumption
  <2> QED
    BY <1>3, <2>1 DEF EnqueueWrite, ProducerMove, ActorType, TypeOK
<1>4. ASSUME NEW e \in Event, EnqueueCheck(e) PROVE \A g \in Event : ProducerMove(g)
  <2>1. /\ producer[e].pc = "check"
        /\ \/ producer' = [producer EXCEPT ![e].pc = "undo"]
           \/ producer' = [producer EXCEPT ![e].pc = "done"] /\ ~Superseded(e)
    BY <1>4 DEF EnqueueCheck
  <2> QED
    BY <2>1 DEF ProducerMove, ActorType, TypeOK
<1>5. ASSUME NEW e \in Event, EnqueueUndo(e) PROVE \A g \in Event : ProducerMove(g)
  BY <1>5 DEF EnqueueUndo, ProducerMove, ActorType, FilesType, TypeOK
<1>6. CASE Crash
  BY <1>6 DEF Crash, Cut, ProducerMove, ActorType, TypeOK
<1> QED
  <2>1. ASSUME NEW e \in Event, Elapse(e) PROVE UNCHANGED producer
    BY <2>1 DEF Elapse, callers
  <2>2. ASSUME NEW f \in Flight,
               Scan(f) \/ EndRound(f) \/ ReleaseFlight(f) \/ ReapOrphan(f) \/ ScanFail(f)
        PROVE  UNCHANGED producer
    BY <2>2 DEF Scan, EndRound, ReleaseFlight, ReapOrphan, ScanFail, callers
  <2>3. ASSUME NEW w \in Worker, \/ Pick(w) \/ NextItem(w) \/ Read(w) \/ PostOk(w) \/ PostFail(w)
                                 \/ Unlink(w) \/ Rewrite(w) \/ Settle(w) \/ Bury(w)
                                 \/ StorageError(w)
        PROVE  UNCHANGED producer
    BY <2>3 DEF Pick, NextItem, Read, PostOk, PostFail, Unlink, Rewrite, Settle, Bury,
      StorageError, OthersUnchanged, callers
  <2>4. ASSUME NEW i \in Instance, \/ BeginDiscard(i) \/ ListDirectory(i) \/ Sweep(i)
                                   \/ DiscardFail(i) \/ Open(i)
        PROVE  UNCHANGED producer
    BY <2>4 DEF BeginDiscard, ListDirectory, Sweep, DiscardFail, Open, callers
  <2>5. ASSUME \/ BeginReplay \/ ReplayRead \/ ReplayWrite \/ ReplayCheck \/ ReplayUnlink
               \/ ReplayFail \/ TimerFlush \/ Stop \/ UNCHANGED vars
        PROVE  UNCHANGED producer
    BY <2>5 DEF BeginReplay, ReplayRead, ReplayWrite, ReplayCheck, ReplayUnlink, ReplayFail,
      TimerFlush, Stop, vars, callers
  <2> QED
    BY Steps, <1>1, <1>2, <1>3, <1>4, <1>5, <1>6, <2>1, <2>2, <2>3, <2>4, <2>5

\* A worker: what it has in hand, and why it goes on.
WorkerMove(w) ==
  LET old == worker[w]
      new == worker'[w]
      e   == old.ev
  IN
  \/ new = old
  \/ /\ new.pc \in {"done", "pick"}
     /\ \/ Cut \/ phase[w[1]] = "scan"
        \/ old.pc = "settle" /\ ~Discarded(e, old.rec)
        \/ old.pc = "drop" /\ active'[e] = None
        \/ old.pc \notin {"settle", "drop"}
  \/ old.pc = "pick" /\ new.pc = "item" /\ Pick(w)
  \/ /\ old.pc = "item" /\ new.pc = "read" /\ new.inst = old.inst
     /\ new.ev \in todo[w[1]][old.inst] /\ NextItem(w)
  \/ /\ new.pc = "item" /\ new.inst = old.inst
     /\ \/ old.pc = "read" /\ active[e] = None
        \/ old.pc \in {"ack", "skip"} /\ active'[e] = None
  \/ /\ new.ev = e /\ new.inst = old.inst
     /\ \/ /\ old.pc = "read" /\ active[e] # None
           /\ \/ new.pc = "skip" /\ Discarded(e, active[e])
              \/ new.pc = "post" /\ new.rec = active[e]
        \/ old.pc = "post" /\ new.pc = "ack" /\ new.rec = old.rec /\ e \in received'
        \/ old.pc \in {"post", "ack"} /\ new.pc = "rewrite" /\ new.rec.epoch = old.rec.epoch
        \/ old.pc \in {"post", "ack", "settle"} /\ new.pc = "drop" /\ Discarded(e, old.rec)
        \/ old.pc = "rewrite" /\ new.pc = "settle" /\ new.rec = old.rec
        \/ old.pc = "settle" /\ new.pc = "bury" /\ ~Discarded(e, old.rec)

LEMMA OneWorkerMoves ==
  ASSUME TypeOK, NEW w \in Worker,
         \/ Pick(w) \/ NextItem(w) \/ Read(w) \/ PostOk(w) \/ PostFail(w)
         \/ Unlink(w) \/ Rewrite(w) \/ Settle(w) \/ Bury(w) \/ StorageError(w)
  PROVE  WorkerMove(w) /\ \A v \in Worker : v # w => worker'[v] = worker[v]
<1>1. CASE Pick(w)
  <2>1. \/ worker' = [worker EXCEPT ![w] = IdleWorker]
        \/ \E i : worker' = [worker EXCEPT ![w] = [IdleWorker EXCEPT !.pc = "item", !.inst = i]]
    BY <1>1 DEF Pick
  <2>2. worker[w].pc = "pick"
    BY <1>1 DEF Pick
  <2>3. CASE worker' = [worker EXCEPT ![w] = IdleWorker]
    BY <2>2, <2>3 DEF IdleWorker, WorkerMove, WorkerType, TypeOK
  <2>4. ASSUME NEW i,
               worker' = [worker EXCEPT ![w] = [IdleWorker EXCEPT !.pc = "item", !.inst = i]]
        PROVE  worker'[w].pc = "item" /\ \A v \in Worker : v # w => worker'[v] = worker[v]
    BY <2>4 DEF IdleWorker, WorkerType, TypeOK
  <2> QED
    BY <1>1, <2>1, <2>2, <2>3, <2>4 DEF WorkerMove
<1>2. CASE NextItem(w)
  <2>1. CASE Break(w)
    BY <1>2, <2>1 DEF NextItem, Break, IdleWorker, WorkerMove, WorkerType, TypeOK
  <2>2. CASE ~Break(w)
    <3>1. PICK e \in todo[w[1]][worker[w].inst] :
            worker' = [worker EXCEPT ![w].pc = "read", ![w].ev = e, ![w].sent = @ + 1]
      BY <1>2, <2>2 DEF NextItem
    <3>2. worker[w].pc = "item"
      BY <1>2 DEF NextItem
    <3>3. /\ worker'[w].pc = "read" /\ worker'[w].ev = e /\ worker'[w].inst = worker[w].inst
          /\ \A v \in Worker : v # w => worker'[v] = worker[v]
      BY <3>1 DEF WorkerType, TypeOK
    <3> QED
      BY <1>2, <3>2, <3>3 DEF WorkerMove
  <2> QED  BY <2>1, <2>2
<1>3. CASE Read(w)
  BY <1>3 DEF Read, Goto, Continue, Break, IdleWorker, WorkerMove, WorkerType, TypeOK
<1>4. CASE PostOk(w)
  BY <1>4 DEF PostOk, Goto, WorkerMove, WorkerType, TypeOK
<1>5. CASE PostFail(w)
  BY <1>5 DEF PostFail, AfterFailure, Attempted, Goto, WorkerMove, WorkerType, Reading, Record,
    TypeOK
<1>6. CASE Unlink(w)
  <2>1. worker[w].pc \in Holding /\ worker[w].ev \in Event
    BY <1>6 DEF Unlink, Holding, Grouped, WorkerType, TypeOK
  <2>2. active'[worker[w].ev] = None
    BY <1>6, <2>1 DEF Unlink, FilesType, TypeOK
  <2> QED
    BY <1>6, <2>2 DEF Unlink, Continue, Break, IdleWorker, WorkerMove, WorkerType, TypeOK
<1>7. CASE Rewrite(w)
  BY <1>7 DEF Rewrite, Goto, WorkerMove, WorkerType, TypeOK
<1>8. CASE Settle(w)
  BY <1>8 DEF Settle, Goto, Break, IdleWorker, WorkerMove, WorkerType, TypeOK
<1>9. CASE Bury(w)
  BY <1>9 DEF Bury, Break, IdleWorker, WorkerMove, WorkerType, TypeOK
<1>10. CASE StorageError(w)
  <2>1. Cut
    BY <1>10, ErrorCuts DEF StorageError
  <2> QED
    BY <1>10, <2>1 DEF StorageError, AfterFailure, Attempted, Goto, IdleWorker, WorkerMove,
      WorkerType, Reading, Record, TypeOK
<1> QED
  BY <1>1, <1>2, <1>3, <1>4, <1>5, <1>6, <1>7, <1>8, <1>9, <1>10

LEMMA WorkerMoves == ASSUME TypeOK, [Next]_vars PROVE \A w \in Worker : WorkerMove(w)
<1>1. CASE UNCHANGED worker
  BY <1>1 DEF WorkerMove
<1>2. ASSUME NEW w \in Worker, \/ Pick(w) \/ NextItem(w) \/ Read(w) \/ PostOk(w) \/ PostFail(w)
                               \/ Unlink(w) \/ Rewrite(w) \/ Settle(w) \/ Bury(w)
                               \/ StorageError(w)
      PROVE  \A v \in Worker : WorkerMove(v)
  BY <1>2, OneWorkerMoves DEF WorkerMove
<1>3. ASSUME NEW f \in Flight, Scan(f) PROVE \A v \in Worker : WorkerMove(v)
  BY <1>3 DEF Scan, IdleWorker, WorkerMove, WorkerType, TypeOK
<1>4. CASE Crash
  BY <1>4 DEF Crash, Cut, NoWork, IdleWorker, WorkerMove
<1> QED
  <2>1. ASSUME NEW e \in Event, \/ Enqueue(e) \/ EnqueueFail(e) \/ EnqueueWrite(e)
                                \/ EnqueueCheck(e) \/ EnqueueUndo(e) \/ Elapse(e)
        PROVE  UNCHANGED worker
    BY <2>1 DEF Enqueue, EnqueueFail, EnqueueWrite, EnqueueCheck, EnqueueUndo, Elapse
  <2>2. ASSUME NEW f \in Flight, EndRound(f) \/ ReleaseFlight(f) \/ ReapOrphan(f) \/ ScanFail(f)
        PROVE  UNCHANGED worker
    BY <2>2 DEF EndRound, ReleaseFlight, ReapOrphan, ScanFail
  <2>4. ASSUME NEW i \in Instance, \/ BeginDiscard(i) \/ ListDirectory(i) \/ Sweep(i)
                                   \/ DiscardFail(i) \/ Open(i)
        PROVE  UNCHANGED worker
    BY <2>4 DEF BeginDiscard, ListDirectory, Sweep, DiscardFail, Open
  <2>5. ASSUME \/ BeginReplay \/ ReplayRead \/ ReplayWrite \/ ReplayCheck \/ ReplayUnlink
               \/ ReplayFail \/ TimerFlush \/ Stop \/ UNCHANGED vars
        PROVE  UNCHANGED worker
    BY <2>5 DEF BeginReplay, ReplayRead, ReplayWrite, ReplayCheck, ReplayUnlink, ReplayFail,
      TimerFlush, Stop, vars
  <2> QED
    BY Steps, <1>1, <1>2, <1>3, <1>4, <2>1, <2>2, <2>4, <2>5

\* The file of e.
FileMove(e) ==
  \/ active'[e] = active[e] /\ dead'[e] = dead[e]
  \/ /\ active'[e] = None /\ dead'[e] = dead[e]
     /\ \/ \E w \in Worker : worker[w].ev = e /\ worker[w].pc \in {"ack", "skip", "drop"}
        \/ producer[e].pc = "undo"
        \/ discard[InstOf[e]].pc = "sweepActive" /\ Obsolete(InstOf[e], e, active[e])
        \/ replay.ev = e /\ replay.pc = "undo"
  \/ /\ active'[e] = None /\ active[e] # None /\ dead'[e] = active[e] /\ e \in buried'
     /\ \E w \in Worker : worker[w].ev = e /\ worker[w].pc = "bury"
  \/ /\ active'[e] = active[e] /\ dead'[e] = None
     /\ \/ discard[InstOf[e]].pc = "sweepDead" /\ Obsolete(InstOf[e], e, dead[e])
        \/ replay.ev = e /\ replay.pc = "clear"
  \/ /\ active'[e] # None /\ dead'[e] = dead[e]
     /\ \/ producer[e].pc = "write" /\ producer'[e].pc = "check"
        \/ active[e] # None
        \/ \E w \in Worker : /\ worker[w].ev = e /\ worker[w].pc = "rewrite"
                             /\ worker'[w].ev = e /\ worker'[w].pc = "settle"
        \/ /\ replay.ev = e /\ replay.pc = "write"
           /\ replay'.ev = e /\ replay'.pc = "check"

LEMMA FileMoves == ASSUME TypeOK, [Next]_vars PROVE \A e \in Event : FileMove(e)
<1>1. CASE UNCHANGED files
  BY <1>1 DEF FileMove, files
<1>2. ASSUME NEW e \in Event, EnqueueWrite(e) PROVE \A g \in Event : FileMove(g)
  <2>0. FirstRecord(e) \in Record
    BY DEF FirstRecord, NewRecord, Record, ActorType, TypeOK
  <2>1. FirstRecord(e) # None
    BY <2>0, NoneAssumption
  <2> QED
    BY <1>2, <2>1 DEF EnqueueWrite, FileMove, FilesType, ActorType, TypeOK
<1>3. ASSUME NEW e \in Event, EnqueueUndo(e) PROVE \A g \in Event : FileMove(g)
  BY <1>3 DEF EnqueueUndo, FileMove, FilesType, TypeOK
<1>4. ASSUME NEW e \in Event, Elapse(e) PROVE \A g \in Event : FileMove(g)
  <2>1. active[e] \in Record /\ active' = [active EXCEPT ![e].due = TRUE] /\ dead' = dead
    BY <1>4 DEF Elapse, FilesType, RecordOrNone, TypeOK
  <2>2. active'[e] \in Record
    BY <2>1 DEF Record, FilesType, TypeOK
  <2>3. active[e] # None /\ active'[e] # None
    BY <2>1, <2>2, NoneAssumption
  <2> QED
    BY <2>1, <2>3 DEF FileMove, FilesType, TypeOK
<1>5. ASSUME NEW w \in Worker, Unlink(w) PROVE \A g \in Event : FileMove(g)
  BY <1>5 DEF Unlink, FileMove, FilesType, TypeOK
<1>6. ASSUME NEW w \in Worker, Rewrite(w) PROVE \A g \in Event : FileMove(g)
  <2>1. worker[w].rec # None
    BY <1>6, NoneAssumption DEF Rewrite, Reading, WorkerType, TypeOK
  <2>2. worker'[w].ev = worker[w].ev /\ worker'[w].pc = "settle" /\ worker[w].pc = "rewrite"
    BY <1>6 DEF Rewrite, Goto, WorkerType, TypeOK
  <2> QED
    BY <1>6, <2>1, <2>2 DEF Rewrite, FileMove, FilesType, TypeOK
<1>7. ASSUME NEW w \in Worker, Bury(w) PROVE \A g \in Event : FileMove(g)
  BY <1>7 DEF Bury, FileMove, FilesType, files, TypeOK
<1>8. ASSUME NEW i \in Instance, Sweep(i) PROVE \A g \in Event : FileMove(g)
  <2>1. CASE UNCHANGED files
    BY <1>1, <2>1
  <2>2. CASE \E e \in discard[i].left :
               \/ /\ discard[i].pc = "sweepActive" /\ Obsolete(i, e, active[e])
                  /\ active' = [active EXCEPT ![e] = None] /\ UNCHANGED dead
               \/ /\ discard[i].pc = "sweepDead" /\ Obsolete(i, e, dead[e])
                  /\ dead' = [dead EXCEPT ![e] = None] /\ UNCHANGED active
    BY <2>2 DEF Obsolete, FileMove, FilesType, TypeOK
  <2> QED
    BY <1>8, <2>1, <2>2 DEF Sweep, Swept, files
<1>9. CASE ReplayWrite
  <2>1. replay.rec # None
    BY <1>9, NoneAssumption DEF ReplayWrite, ActorType, TypeOK
  <2> QED
    BY <1>9, <2>1 DEF ReplayWrite, FileMove, FilesType, ActorType, TypeOK
<1>10. CASE ReplayUnlink
  BY <1>10 DEF ReplayUnlink, FileMove, FilesType, ActorType, TypeOK
<1> QED
  <2>1. ASSUME NEW e \in Event, Enqueue(e) \/ EnqueueFail(e) \/ EnqueueCheck(e)
        PROVE  UNCHANGED files
    BY <2>1 DEF Enqueue, EnqueueFail, EnqueueCheck
  <2>2. ASSUME NEW f \in Flight,
               Scan(f) \/ EndRound(f) \/ ReleaseFlight(f) \/ ReapOrphan(f) \/ ScanFail(f)
        PROVE  UNCHANGED files
    BY <2>2 DEF Scan, EndRound, ReleaseFlight, ReapOrphan, ScanFail
  <2>3. ASSUME NEW w \in Worker, \/ Pick(w) \/ NextItem(w) \/ Read(w) \/ PostOk(w)
                                 \/ PostFail(w) \/ Settle(w) \/ StorageError(w)
        PROVE  UNCHANGED files
    BY <2>3 DEF Pick, NextItem, Read, PostOk, PostFail, Settle, StorageError
  <2>4. ASSUME NEW i \in Instance, BeginDiscard(i) \/ ListDirectory(i) \/ DiscardFail(i) \/ Open(i)
        PROVE  UNCHANGED files
    BY <2>4 DEF BeginDiscard, ListDirectory, DiscardFail, Open
  <2>5. ASSUME \/ BeginReplay \/ ReplayRead \/ ReplayCheck
               \/ ReplayFail \/ TimerFlush \/ Stop \/ Crash \/ UNCHANGED vars
        PROVE  UNCHANGED files
    BY <2>5 DEF BeginReplay, ReplayRead, ReplayCheck, ReplayFail, TimerFlush, Stop, Crash, vars
  <2> QED
    BY Steps, <1>1, <1>2, <1>3, <1>4, <1>5, <1>6, <1>7, <1>8, <1>9, <1>10, <2>1, <2>2, <2>3,
      <2>4, <2>5

\* The replay.
ReplayMove ==
  LET new == replay' IN
  \/ new = replay
  \/ new = NoReplay /\ (replay.pc = "read" \/ Cut)
  \/ /\ new = [NoReplay EXCEPT !.pc = "read", !.left = Present(dead)]
     /\ replay.pc = "idle" /\ spent'["replay"] # 0
  \/ /\ replay.pc = "read" /\ new.ev \in replay.left /\ new.left \subseteq replay.left
     /\ \/ new.pc = "read" /\ (dead[new.ev] = None \/ ~Discarded(new.ev, dead[new.ev]))
        \/ new.pc = "clear" /\ dead[new.ev] # None
        \/ new.pc = "write" /\ dead[new.ev] # None
  \/ /\ new.ev = replay.ev /\ new.left = replay.left
     /\ \/ replay.pc = "write" /\ new.pc = "check" /\ new.rec = replay.rec
        \/ replay.pc = "check" /\ new.pc = "undo" /\ Discarded(replay.ev, replay.rec)
        \/ replay.pc = "check" /\ new.pc = "clear" /\ ~Discarded(replay.ev, replay.rec)
        \/ replay.pc = "undo" /\ new.pc = "clear" /\ active'[replay.ev] = None
  \/ /\ replay.pc = "clear" /\ dead'[replay.ev] = None
     /\ new.pc = "read" /\ new.ev = None /\ new.left = replay.left

LEMMA ReplayMoves == ASSUME TypeOK, [Next]_vars PROVE ReplayMove
<1>1. CASE UNCHANGED replay
  BY <1>1 DEF ReplayMove
<1>2. CASE BeginReplay
  <2>1. spent'["replay"] = spent["replay"] + 1 /\ spent["replay"] \in Nat
    BY <1>2 DEF BeginReplay, Spend, Bounded, MemoryType, TypeOK
  <2> QED
    BY <1>2, <2>1 DEF BeginReplay, ReplayMove
<1>3. CASE ReplayRead
  <2>1. CASE replay' = NoReplay
    BY <1>3, <2>1 DEF ReplayRead, ReplayMove
  <2>2. CASE replay' # NoReplay
    <3>1. PICK e \in replay.left :
            \/ /\ replay' = [replay EXCEPT !.left = @ \ {e}, !.ev = e]
               /\ dead[e] = None \/ ~Discarded(e, dead[e])
            \/ /\ replay' = [replay EXCEPT !.left = @ \ {e}, !.ev = e, !.pc = "clear"]
               /\ dead[e] # None
            \/ /\ replay' = [replay EXCEPT !.left = @ \ {e}, !.ev = e, !.pc = "write",
                                           !.rec = Renewed(e)]
               /\ dead[e] # None
      BY <1>3, <2>2 DEF ReplayRead
    <3>2. replay.pc = "read" /\ e \in replay.left
      BY <1>3 DEF ReplayRead
    <3>3. /\ replay'.ev = e /\ replay'.left = replay.left \ {e}
          /\ \/ replay'.pc = "read" /\ (dead[e] = None \/ ~Discarded(e, dead[e]))
             \/ replay'.pc = "clear" /\ dead[e] # None
             \/ replay'.pc = "write" /\ dead[e] # None
      <4>1. DOMAIN replay = {"pc", "left", "ev", "rec"}
        BY DEF ActorType, TypeOK
      <4> QED  BY <3>1, <3>2, <4>1
    <3> QED  BY <3>2, <3>3 DEF ReplayMove
  <2> QED  BY <2>1, <2>2
<1>4. CASE ReplayWrite
  BY <1>4 DEF ReplayWrite, ReplayMove, ActorType, TypeOK
<1>5. CASE ReplayCheck
  BY <1>5 DEF ReplayCheck, ClosedMeanwhile, ReplayMove, ActorType, TypeOK
<1>6. CASE ReplayUnlink
  BY <1>6 DEF ReplayUnlink, ReplayMove, FilesType, ActorType, TypeOK
<1>7. CASE ReplayFail \/ Crash
  <2>1. Cut
    BY <1>7, ErrorCuts DEF ReplayFail, Cut
  <2> QED  BY <1>7, <2>1 DEF ReplayFail, Crash, ReplayMove
<1> QED
  <2>1. ASSUME NEW e \in Event, \/ Enqueue(e) \/ EnqueueFail(e) \/ EnqueueWrite(e)
                                \/ EnqueueCheck(e) \/ EnqueueUndo(e) \/ Elapse(e)
        PROVE  UNCHANGED replay
    BY <2>1 DEF Enqueue, EnqueueFail, EnqueueWrite, EnqueueCheck, EnqueueUndo, Elapse, callers
  <2>2. ASSUME NEW f \in Flight,
               Scan(f) \/ EndRound(f) \/ ReleaseFlight(f) \/ ReapOrphan(f) \/ ScanFail(f)
        PROVE  UNCHANGED replay
    BY <2>2 DEF Scan, EndRound, ReleaseFlight, ReapOrphan, ScanFail, callers
  <2>3. ASSUME NEW w \in Worker, \/ Pick(w) \/ NextItem(w) \/ Read(w) \/ PostOk(w) \/ PostFail(w)
                                 \/ Unlink(w) \/ Rewrite(w) \/ Settle(w) \/ Bury(w)
                                 \/ StorageError(w)
        PROVE  UNCHANGED replay
    BY <2>3 DEF Pick, NextItem, Read, PostOk, PostFail, Unlink, Rewrite, Settle, Bury,
      StorageError, OthersUnchanged, callers
  <2>4. ASSUME NEW i \in Instance, \/ BeginDiscard(i) \/ ListDirectory(i) \/ Sweep(i)
                                   \/ DiscardFail(i) \/ Open(i)
        PROVE  UNCHANGED replay
    BY <2>4 DEF BeginDiscard, ListDirectory, Sweep, DiscardFail, Open, callers
  <2>5. ASSUME TimerFlush \/ Stop \/ UNCHANGED vars PROVE UNCHANGED replay
    BY <2>5 DEF TimerFlush, Stop, vars, callers
  <2> QED
    BY Steps, <1>1, <1>2, <1>3, <1>4, <1>5, <1>6, <1>7, <2>1, <2>2, <2>3, <2>4, <2>5

\* Nothing that happened is undone.
LEMMA Grows ==
  ASSUME TypeOK, [Next]_vars
  PROVE  /\ received \subseteq received' /\ obsolete \subseteq obsolete' /\ buried \subseteq buried'
         /\ \A k \in Bounded : spent'[k] = 0 => spent[k] = 0
         /\ UNCHANGED spent \/ \E limit \in Limits : \A k \in Bounded : spent'[k] <= limit[k]
<1>1. ASSUME NEW k \in Bounded, Spend(k)
      PROVE  /\ \A j \in Bounded : spent'[j] = 0 => spent[j] = 0
             /\ \E limit \in Limits : \A j \in Bounded : spent'[j] <= limit[j]
  BY <1>1 DEF Spend, MemoryType, TypeOK
<1>2. Bounded = {"discard", "replay", "error", "stop", "crash"}
  BY DEF Bounded
<1>3. ASSUME NEW e \in Event, Enqueue(e) \/ EnqueueWrite(e) \/ EnqueueCheck(e) \/ EnqueueUndo(e)
                              \/ Elapse(e) \/ EnqueueFail(e)
      PROVE  /\ UNCHANGED <<received, obsolete, buried>>
             /\ UNCHANGED spent \/ Spend("error")
  BY <1>3 DEF Enqueue, EnqueueWrite, EnqueueCheck, EnqueueUndo, Elapse, EnqueueFail, history
<1>4. ASSUME NEW f \in Flight,
             Scan(f) \/ EndRound(f) \/ ReleaseFlight(f) \/ ReapOrphan(f) \/ ScanFail(f)
      PROVE  /\ UNCHANGED <<received, obsolete, buried>>
             /\ UNCHANGED spent \/ Spend("error")
  BY <1>4 DEF Scan, EndRound, ReleaseFlight, ReapOrphan, ScanFail, history
<1>5. ASSUME NEW w \in Worker, \/ Pick(w) \/ NextItem(w) \/ Read(w) \/ PostOk(w) \/ PostFail(w)
                               \/ Unlink(w) \/ Rewrite(w) \/ Settle(w) \/ Bury(w)
                               \/ StorageError(w)
      PROVE  /\ received \subseteq received' /\ obsolete' = obsolete /\ buried \subseteq buried'
             /\ UNCHANGED spent \/ Spend("error")
  BY <1>5 DEF Pick, NextItem, Read, PostOk, PostFail, Unlink, Rewrite, Settle, Bury,
    StorageError, OthersUnchanged, history
<1>6. ASSUME NEW i \in Instance, \/ BeginDiscard(i) \/ ListDirectory(i) \/ Sweep(i)
                                 \/ DiscardFail(i) \/ Open(i)
      PROVE  /\ received' = received /\ obsolete \subseteq obsolete' /\ buried' = buried
             /\ UNCHANGED spent \/ Spend("error") \/ Spend("discard")
  BY <1>6 DEF BeginDiscard, ListDirectory, Sweep, DiscardFail, Open, history
<1>7. ASSUME \/ BeginReplay \/ ReplayRead \/ ReplayWrite \/ ReplayCheck \/ ReplayUnlink
             \/ ReplayFail \/ TimerFlush \/ Stop \/ Crash \/ UNCHANGED vars
      PROVE  /\ UNCHANGED <<received, obsolete, buried>>
             /\ UNCHANGED spent \/ Spend("error") \/ Spend("replay") \/ Spend("stop")
                \/ Spend("crash")
  BY <1>7 DEF BeginReplay, ReplayRead, ReplayWrite, ReplayCheck, ReplayUnlink, ReplayFail,
    TimerFlush, Stop, Crash, vars, history
<1> QED
  <2>1. /\ received \subseteq received' /\ obsolete \subseteq obsolete' /\ buried \subseteq buried'
        /\ \/ UNCHANGED spent \/ Spend("error") \/ Spend("discard") \/ Spend("replay")
           \/ Spend("stop") \/ Spend("crash")
    BY Steps, <1>3, <1>4, <1>5, <1>6, <1>7
  <2> QED  BY <1>1, <1>2, <2>1

\* An event becomes accepted when its own call returns; what came before it is settled
\* when that call begins.
LEMMA AcceptedMoves ==
  ASSUME TypeOK, [Next]_vars
  PROVE  /\ accepted \subseteq accepted'
         /\ \A e \in accepted' : e \in accepted \/ (producer[e].pc = "check" /\ producer'[e].pc = "done")
         /\ \A e \in Event : prior'[e] = prior[e] \/ (Enqueue(e) /\ accepted' = accepted
                                 /\ prior'[e] = accepted \intersect EventsOf(InstOf[e]))
<1>1. ASSUME NEW e \in Event, Enqueue(e)
      PROVE  /\ accepted' = accepted
             /\ \A g \in Event : prior'[g] = prior[g] \/ (Enqueue(g)
                                 /\ prior'[g] = accepted \intersect EventsOf(InstOf[g]))
  BY <1>1 DEF Enqueue, HistoryType, TypeOK
<1>2. ASSUME NEW e \in Event, EnqueueCheck(e)
      PROVE  /\ prior' = prior /\ accepted \subseteq accepted'
             /\ \A g \in accepted' : g \in accepted
                                     \/ (producer[g].pc = "check" /\ producer'[g].pc = "done")
  <2>1. CASE accepted' = accepted
    BY <1>2, <2>1 DEF EnqueueCheck
  <2>2. CASE accepted' # accepted
    <3>1. /\ producer[e].pc = "check" /\ producer' = [producer EXCEPT ![e].pc = "done"]
          /\ accepted' = accepted \union {e} /\ prior' = prior
      BY <1>2, <2>2 DEF EnqueueCheck
    <3> QED  BY <3>1 DEF ActorType, TypeOK
  <2> QED  BY <2>1, <2>2
<1>3. ASSUME UNCHANGED <<accepted, prior>>
      PROVE  /\ accepted \subseteq accepted'
             /\ \A e \in accepted' : e \in accepted
             /\ \A e \in Event : prior'[e] = prior[e]
  BY <1>3
<1>4. ASSUME NEW e \in Event, EnqueueWrite(e) \/ EnqueueUndo(e) \/ Elapse(e) \/ EnqueueFail(e)
      PROVE  UNCHANGED <<accepted, prior>>
  BY <1>4 DEF EnqueueWrite, EnqueueUndo, Elapse, EnqueueFail, history
<1>5. ASSUME NEW f \in Flight,
             Scan(f) \/ EndRound(f) \/ ReleaseFlight(f) \/ ReapOrphan(f) \/ ScanFail(f)
      PROVE  UNCHANGED <<accepted, prior>>
  BY <1>5 DEF Scan, EndRound, ReleaseFlight, ReapOrphan, ScanFail, history
<1>6. ASSUME NEW w \in Worker, \/ Pick(w) \/ NextItem(w) \/ Read(w) \/ PostOk(w) \/ PostFail(w)
                               \/ Unlink(w) \/ Rewrite(w) \/ Settle(w) \/ Bury(w)
                               \/ StorageError(w)
      PROVE  UNCHANGED <<accepted, prior>>
  BY <1>6 DEF Pick, NextItem, Read, PostOk, PostFail, Unlink, Rewrite, Settle, Bury,
    StorageError, OthersUnchanged, history
<1>7. ASSUME NEW i \in Instance, \/ BeginDiscard(i) \/ ListDirectory(i) \/ Sweep(i)
                                 \/ DiscardFail(i) \/ Open(i)
      PROVE  UNCHANGED <<accepted, prior>>
  BY <1>7 DEF BeginDiscard, ListDirectory, Sweep, DiscardFail, Open, history
<1>8. ASSUME \/ BeginReplay \/ ReplayRead \/ ReplayWrite \/ ReplayCheck \/ ReplayUnlink
             \/ ReplayFail \/ TimerFlush \/ Stop \/ Crash \/ UNCHANGED vars
      PROVE  UNCHANGED <<accepted, prior>>
  BY <1>8 DEF BeginReplay, ReplayRead, ReplayWrite, ReplayCheck, ReplayUnlink, ReplayFail,
    TimerFlush, Stop, Crash, vars, history
<1> QED
  BY Steps, <1>1, <1>2, <1>3, <1>4, <1>5, <1>6, <1>7, <1>8

\* A flight visits files it has found in the directory.
LEMMA TodoMoves ==
  ASSUME TypeOK, [Next]_vars, NEW f \in Flight, NEW i \in Instance, NEW e \in todo'[f][i]
  PROVE  e \in todo[f][i] \/ (Scan(f) /\ e \in Event /\ active[e] # None /\ InstOf[e] = i)
<1>1. ASSUME NEW g \in Flight, Scan(g)
      PROVE  e \in todo[f][i] \/ (Scan(f) /\ e \in Event /\ active[e] # None /\ InstOf[e] = i)
  BY <1>1 DEF Scan, Present, EventsOf, LaneType, TypeOK
<1>2. ASSUME NEW w \in Worker, NextItem(w) PROVE e \in todo[f][i]
  <2>1. \/ todo' = todo
        \/ \E g : todo' = [todo EXCEPT ![w[1]][worker[w].inst] = @ \ {g}]
    BY <1>2 DEF NextItem
  <2>2. ASSUME NEW g, todo' = [todo EXCEPT ![w[1]][worker[w].inst] = @ \ {g}]
        PROVE  e \in todo[f][i]
    BY <2>2 DEF LaneType, TypeOK
  <2> QED  BY <2>1, <2>2
<1>3. ASSUME NEW g \in Flight, DropGroups(g) PROVE e \in todo[f][i]
  BY <1>3 DEF DropGroups, LaneType, TypeOK
<1>4. CASE Crash
  BY <1>4 DEF Crash, NoTodo
<1> QED
  <2>1. ASSUME NEW g \in Event, \/ Enqueue(g) \/ EnqueueFail(g) \/ EnqueueWrite(g)
                                \/ EnqueueCheck(g) \/ EnqueueUndo(g) \/ Elapse(g)
        PROVE  UNCHANGED todo
    BY <2>1 DEF Enqueue, EnqueueFail, EnqueueWrite, EnqueueCheck, EnqueueUndo, Elapse, lane
  <2>2. ASSUME NEW g \in Flight, EndRound(g) \/ ReleaseFlight(g) \/ ReapOrphan(g) \/ ScanFail(g)
        PROVE  UNCHANGED todo \/ DropGroups(g)
    BY <2>2 DEF EndRound, ReleaseFlight, ReapOrphan, ScanFail
  <2>3. ASSUME NEW w \in Worker, \/ Pick(w) \/ Read(w) \/ PostOk(w) \/ PostFail(w) \/ Unlink(w)
                                 \/ Rewrite(w) \/ Settle(w) \/ Bury(w) \/ StorageError(w)
        PROVE  UNCHANGED todo
    BY <2>3 DEF Pick, Read, PostOk, PostFail, Unlink, Rewrite, Settle, Bury, StorageError
  <2>4. ASSUME NEW j \in Instance, \/ BeginDiscard(j) \/ ListDirectory(j) \/ Sweep(j)
                                   \/ DiscardFail(j) \/ Open(j)
        PROVE  UNCHANGED todo
    BY <2>4 DEF BeginDiscard, ListDirectory, Sweep, DiscardFail, Open, lane
  <2>5. ASSUME \/ BeginReplay \/ ReplayRead \/ ReplayWrite \/ ReplayCheck \/ ReplayUnlink
               \/ ReplayFail \/ TimerFlush \/ Stop \/ UNCHANGED vars
        PROVE  UNCHANGED todo
    BY <2>5 DEF BeginReplay, ReplayRead, ReplayWrite, ReplayCheck, ReplayUnlink, ReplayFail,
      TimerFlush, Stop, vars, lane
  <2> QED
    BY Steps, <1>1, <1>2, <1>3, <1>4, <2>1, <2>2, <2>3, <2>4, <2>5

-----------------------------------------------------------------------------
LEMMA WrittenStays ==
  ASSUME TypeOK, [Next]_vars, NEW e \in Event
  PROVE  /\ Started(e) => Started(e)' /\ producer'[e].epoch = producer[e].epoch
         /\ Written(e) => Written(e)'
         /\ ~Started(e) => ~Written(e)'
<1>1. ProducerMove(e)
  BY ProducerMoves
<1> QED  BY <1>1 DEF ProducerMove, Started, Written

LEMMA FileWritten ==
  ASSUME TypeOK, Possession, [Next]_vars, NEW e \in Event, active'[e] # None \/ dead'[e] # None
  PROVE  Written(e)'
<1>1. FileMove(e)
  BY FileMoves
<1>2. ASSUME NEW w \in Worker, worker[w].ev = e, worker[w].pc = "rewrite" PROVE Written(e)
  BY <1>2 DEF Possession, Holding, Grouped
<1>3. replay.ev = e /\ replay.pc = "write" => Written(e)
  BY DEF Possession
<1>4. CASE producer[e].pc = "write" /\ producer'[e].pc = "check"
  BY <1>4 DEF Written
<1>5. active[e] # None \/ dead[e] # None => Written(e)
  BY DEF Possession
<1>6. Written(e) \/ (producer[e].pc = "write" /\ producer'[e].pc = "check")
  BY <1>1, <1>2, <1>3, <1>5 DEF FileMove
<1> QED  BY <1>4, <1>6, WrittenStays

LEMMA WorkerWritten ==
  ASSUME TypeOK, Possession, [Next]_vars, NEW w \in Worker, worker'[w].pc \in Holding
  PROVE  Written(worker[w].ev)'
<1>0. worker'[w].ev \in Event
  BY TypeStep DEF TypeOK, WorkerType
<1>1. WorkerMove(w)
  BY WorkerMoves
<1>2. CASE worker[w].pc = "item"
  <2>1. worker'[w].pc = "read" /\ worker'[w].ev \in todo[w[1]][worker[w].inst]
    BY <1>1, <1>2 DEF WorkerMove, Holding, Grouped
  <2>2. w[1] \in Flight /\ worker[w].inst \in Instance
    BY <1>2 DEF Worker, Grouped, WorkerType, TypeOK
  <2> QED
    <3>1. Written(worker'[w].ev)
      BY <2>1, <2>2 DEF Possession
    <3>2. PICK e \in Event : e = worker'[w].ev
      BY <1>0
    <3> QED
      BY <3>1, <3>2, WrittenStays DEF Written
<1>3. CASE worker[w].pc # "item"
  <2>1. worker[w].pc \in Holding /\ worker'[w].ev = worker[w].ev
    BY <1>1, <1>3 DEF WorkerMove, Holding, Grouped
  <2> QED
    <3>1. Written(worker'[w].ev)
      BY <2>1 DEF Possession
    <3>2. PICK e \in Event : e = worker'[w].ev
      BY <1>0
    <3> QED
      BY <3>1, <3>2, WrittenStays DEF Written
<1> QED  BY <1>2, <1>3

\* The files a replay goes on with.
LEMMA ReplayListing ==
  ASSUME TypeOK, [Next]_vars, NEW e \in replay'.left
  PROVE  e \in replay.left \/ (e \in Event /\ dead[e] # None)
<1>1. replay'.left = replay.left \/ replay'.left = {} \/ replay'.left \subseteq replay.left
      \/ replay'.left = Present(dead)
  <2>1. ReplayMove
    BY ReplayMoves
  <2>2. NoReplay.left = {} /\ [NoReplay EXCEPT !.pc = "read", !.left = Present(dead)].left
                               = Present(dead)
    BY DEF NoReplay
  <2> QED  BY <2>1, <2>2 DEF ReplayMove
<1> QED  BY <1>1 DEF Present

LEMMA ReplayTarget ==
  ASSUME TypeOK, [Next]_vars, replay'.pc \notin {"idle", "read"}
  PROVE  \/ replay'.ev \in replay.left
         \/ replay'.ev = replay.ev /\ replay.pc \notin {"idle", "read"}
<1>1. ReplayMove
  BY ReplayMoves
<1>2. NoReplay.pc = "idle" /\ [NoReplay EXCEPT !.pc = "read", !.left = Present(dead)].pc = "read"
  BY DEF NoReplay
<1> QED  BY <1>1, <1>2 DEF ReplayMove

LEMMA ReplayWritten ==
  ASSUME TypeOK, Possession, [Next]_vars
  PROVE  /\ \A e \in replay'.left : Written(e)'
         /\ replay'.pc \notin {"idle", "read"} => Written(replay.ev)'
<1>0. ReplayMove /\ ActorType /\ ActorType'
  BY ReplayMoves, TypeStep DEF TypeOK
<1>1. \A e \in replay'.left : Written(e)
  BY <1>0, ReplayListing DEF Possession
<1>2. replay'.pc \notin {"idle", "read"} => replay'.ev \in Event /\ Written(replay'.ev)
  <2>1. replay'.pc \notin {"idle", "read"} => \/ replay'.ev \in replay.left
                                              \/ /\ replay'.ev = replay.ev
                                                 /\ replay.pc \notin {"idle", "read"}
    BY ReplayTarget
  <2>2. replay'.pc \notin {"idle", "read"} => replay'.ev \in Event
    BY <1>0 DEF ActorType, ReplayPc
  <2> QED
    BY <2>1, <2>2 DEF Possession
<1>3. replay'.left \subseteq Event
  BY <1>0 DEF ActorType
<1>4. replay'.pc \notin {"idle", "read"} => Written(replay.ev)'
  <2> SUFFICES ASSUME replay'.pc \notin {"idle", "read"} PROVE Written(replay.ev)'
    OBVIOUS
  <2>1. PICK e \in Event : e = replay'.ev /\ Written(e)
    BY <1>2
  <2> QED  BY <2>1, WrittenStays DEF Written
<1> QED  BY <1>1, <1>3, <1>4, WrittenStays

LEMMA PossessionStep == ASSUME TypeOK, Possession, [Next]_vars PROVE Possession'
<1>1. ASSUME NEW f \in Flight, NEW i \in Instance, NEW e \in todo'[f][i]
      PROVE  Written(e)' /\ InstOf[e] = i
  <2>1. e \in todo[f][i] \/ (e \in Event /\ active[e] # None /\ InstOf[e] = i)
    BY TodoMoves
  <2>2. e \in Event /\ Written(e) /\ InstOf[e] = i
    BY <2>1 DEF Possession, LaneType, TypeOK
  <2> QED  BY <2>2, WrittenStays
<1> QED
  BY <1>1, FileWritten, WorkerWritten, ReplayWritten DEF Possession

LEMMA DeadLettersStep == ASSUME TypeOK, DeadLetters, [Next]_vars PROVE DeadLetters'
<1>0. ReplayMove /\ ActorType /\ ActorType' /\ HistoryType' /\ buried \subseteq buried'
  BY ReplayMoves, TypeStep, Grows DEF TypeOK
<1>1. ASSUME NEW e \in Event, dead'[e] # None PROVE e \in buried'
  BY <1>0, <1>1, FileMoves DEF FileMove, DeadLetters
<1>2. replay'.left \subseteq buried'
  BY <1>0, ReplayListing DEF DeadLetters, ActorType
<1>3. replay'.pc \notin {"idle", "read"} => replay'.ev \in buried'
  BY <1>0, ReplayTarget DEF DeadLetters
<1> QED  BY <1>1, <1>2, <1>3 DEF DeadLetters

\* Before its enqueue call writes it, an event has no copy anywhere.
LEMMA NoCopyYet ==
  ASSUME TypeOK, Possession, NEW e \in Event, ~Written(e),
         NEW k \in Nat, k # producer[e].epoch
  PROVE  NoCopyWith(e, k)
<1>1. active[e] = None /\ dead[e] = None
  BY DEF Possession
<1>2. \A w \in Worker : worker[w].ev = e => worker[w].pc \notin Reading
  BY DEF Possession, Reading, Holding, Grouped
<1>3. replay.ev = e => replay.pc \notin {"write", "check"}
  BY DEF Possession
<1> QED  BY <1>1, <1>2, <1>3 DEF NoCopyWith

LEMMA OneEpochStep ==
  ASSUME TypeOK, Possession, OneEpoch, [Next]_vars PROVE OneEpoch'
<1> SUFFICES ASSUME NEW e \in Event, NEW k \in Nat, k # producer'[e].epoch
             PROVE  NoCopyWith(e, k)'
  BY DEF OneEpoch
<1>1. CASE Started(e)
  <2>1. k # producer[e].epoch
    BY <1>1, WrittenStays
  <2>2. NoCopyWith(e, k)
    BY <2>1 DEF OneEpoch
  <2> QED
    BY <1>1, <2>2, StepCopies DEF Started
<1>2. CASE ~Started(e)
  <2>1. TypeOK' /\ Possession' /\ ~Written(e)'
    BY <1>2, TypeStep, PossessionStep, WrittenStays
  <2>2. active'[e] = None /\ dead'[e] = None
    BY <2>1 DEF Possession
  <2>3. \A w \in Worker : worker'[w].ev = e => worker'[w].pc \notin Reading
    BY <2>1 DEF Possession, Reading, Holding, Grouped
  <2>4. replay'.ev = e => replay'.pc \notin {"write", "check"}
    BY <2>1 DEF Possession
  <2> QED  BY <2>2, <2>3, <2>4 DEF NoCopyWith
<1> QED  BY <1>1, <1>2

\* The epoch of a copy is that of the enqueue call.
LEMMA EpochOfCopy ==
  ASSUME TypeOK, OneEpoch, NEW e \in Event
  PROVE  /\ active[e] # None => active[e].epoch = producer[e].epoch
         /\ dead[e] # None => dead[e].epoch = producer[e].epoch
         /\ \A w \in Worker : worker[w].ev = e /\ worker[w].pc \in Reading =>
              worker[w].rec.epoch = producer[e].epoch
         /\ replay.ev = e /\ replay.pc \in {"write", "check"} =>
              replay.rec.epoch = producer[e].epoch
<1>1. active[e] # None => active[e].epoch \in Nat
  BY DEF FilesType, RecordOrNone, Record, TypeOK
<1>2. dead[e] # None => dead[e].epoch \in Nat
  BY DEF FilesType, RecordOrNone, Record, TypeOK
<1>3. \A w \in Worker : worker[w].pc \in Reading => worker[w].rec.epoch \in Nat
  BY DEF WorkerType, Record, TypeOK
<1>4. replay.pc \in {"write", "check"} => replay.rec.epoch \in Nat
  BY DEF ActorType, Record, TypeOK
<1> QED  BY <1>1, <1>2, <1>3, <1>4 DEF OneEpoch, NoCopyWith

-----------------------------------------------------------------------------
\* A record that looks discarded is of a call that began before a closure.
LEMMA DiscardedIsStale ==
  ASSUME TypeOK, OneEpoch, NEW e \in Event
  PROVE  /\ active[e] # None => (Discarded(e, active[e]) <=> Stale(e))
         /\ dead[e] # None => (Discarded(e, dead[e]) <=> Stale(e))
         /\ \A w \in Worker : worker[w].ev = e /\ worker[w].pc \in Reading =>
              (Discarded(e, worker[w].rec) <=> Stale(e))
         /\ replay.ev = e /\ replay.pc \in {"write", "check"} =>
              (Discarded(e, replay.rec) <=> Stale(e))
BY EpochOfCopy DEF Discarded, Stale

\* Epochs move when a connection closes or the process dies, and otherwise not.
LEMMA EpochMoves ==
  ASSUME TypeOK, [Next]_vars
  PROVE  \/ Crash \/ (\E i \in Instance : BeginDiscard(i)) \/ UNCHANGED <<epoch, obsolete>>
BY EpochStep

LEMMA StartedByEnqueue ==
  ASSUME TypeOK, [Next]_vars, NEW e \in Event, Started(e)', ~Started(e)
  PROVE  Enqueue(e)
<1>1. ProducerMove(e)
  BY ProducerMoves
<1> QED  BY <1>1 DEF ProducerMove, Started

LEMMA CallsInOrder ==
  ASSUME TypeOK, Calls, [Next]_vars, NEW e \in Event, NEW g \in Event, Started(e)', g < e,
         g \notin Planned
  PROVE  Started(g)'
<1>1. CASE Started(e)
  BY <1>1, WrittenStays DEF Calls
<1>2. CASE ~Started(e)
  <2>1. Started(g)
    BY <1>2, StartedByEnqueue DEF Enqueue, Started
  <2> QED  BY <2>1, WrittenStays
<1> QED  BY <1>1, <1>2

LEMMA AcceptedDone ==
  ASSUME TypeOK, Calls, [Next]_vars, NEW e \in accepted' PROVE producer'[e].pc = "done"
<1>1. e \in Event
  BY TypeStep DEF HistoryType, TypeOK
<1>2. CASE e \in accepted
  <2>1. producer[e].pc = "done" /\ ProducerMove(e)
    BY <1>1, <1>2, ProducerMoves DEF Calls
  <2> QED  BY <2>1 DEF ProducerMove
<1> QED  BY <1>1, <1>2, AcceptedMoves

LEMMA ClosedIsObsolete ==
  ASSUME TypeOK, Calls, [Next]_vars, NEW e \in Event, Started(e)', Stale(e)'
  PROVE  e \in obsolete'
<1>0. InstOf[e] \in Instance
  BY InstanceAssumption
<1>1. CASE Crash
  BY <1>0, <1>1 DEF Crash, Stale
<1>2. ASSUME NEW i \in Instance, BeginDiscard(i) PROVE e \in obsolete'
  <2>1. /\ producer' = producer /\ epoch' = [epoch EXCEPT ![i] = spent["discard"] + 1]
        /\ obsolete' = obsolete \union {g \in EventsOf(i) \ Lifecycle : producer[g].pc # "new"}
    BY <1>2 DEF BeginDiscard
  <2>2. CASE InstOf[e] = i
    BY <2>1, <2>2 DEF Stale, Started, EventsOf
  <2>3. CASE InstOf[e] # i
    BY <1>0, <2>1, <2>3 DEF Stale, Started, Calls, MemoryType, TypeOK
  <2> QED  BY <2>2, <2>3
<1>3. CASE UNCHANGED <<epoch, obsolete>>
  <2>1. CASE Started(e)
    <3>1. producer'[e].epoch = producer[e].epoch
      BY <2>1, WrittenStays
    <3> QED  BY <1>3, <2>1, <3>1 DEF Calls, Stale
  <2>2. CASE ~Started(e)
    <3>1. Enqueue(e)
      BY <2>2, StartedByEnqueue
    <3> QED
      BY <1>3, <3>1 DEF Enqueue, Stale, ActorType, TypeOK
  <2> QED  BY <2>1, <2>2
<1> QED  BY <1>1, <1>2, <1>3, EpochMoves

LEMMA PriorAccepted ==
  ASSUME TypeOK, Calls, [Next]_vars, NEW e \in Event, NEW g \in prior'[e]
  PROVE  g \in accepted' /\ InstOf[g] = InstOf[e]
<1>1. CASE prior'[e] = prior[e]
  BY <1>1, AcceptedMoves DEF Calls
<1>2. CASE prior'[e] # prior[e]
  BY <1>2, AcceptedMoves DEF EventsOf
<1> QED  BY <1>1, <1>2

\* A live event is stamped after all that was accepted before its call.
LEMMA AheadFirst ==
  ASSUME TypeOK, Calls, [Next]_vars, NEW e \in Event, NEW g \in Ahead(e)'
  PROVE  g < e
<1>1. CASE prior'[e] = prior[e]
  BY <1>1 DEF Calls, Ahead
<1>2. CASE e \in Planned
  BY <1>2 DEF Ahead
<1>3. CASE prior'[e] # prior[e] /\ e \notin Planned
  <2>1. Enqueue(e) /\ g \in accepted
    BY <1>3, AcceptedMoves DEF Ahead
  <2>2. g \in Event /\ Started(g) /\ ~Started(e)
    BY <2>1 DEF Enqueue, Started, Calls, HistoryType, TypeOK
  <2>3. ~(e < g) /\ e # g
    BY <1>3, <2>2 DEF Calls
  <2> QED
    BY <2>2, <2>3, EventAssumption
<1> QED  BY <1>1, <1>2, <1>3

LEMMA CallsStep == ASSUME TypeOK, Calls, [Next]_vars PROVE Calls'
BY CallsInOrder, AcceptedDone, ClosedIsObsolete, PriorAccepted, AheadFirst DEF Calls

\* A discardInstance call that is at work belongs to an epoch.
LEMMA DiscardWorks ==
  ASSUME TypeOK, Reasons, [Next]_vars, NEW i \in Instance, discard'[i].pc \notin {"idle", "failed"}
  PROVE  epoch'[i] # 0
<1>1. ~Crash
  BY DEF Crash, NoDiscard
<1>2. ASSUME NEW j \in Instance, BeginDiscard(j) PROVE epoch'[i] # 0
  <2>1. /\ epoch' = [epoch EXCEPT ![j] = spent["discard"] + 1]
        /\ i # j => discard'[i] = discard[i]
    BY <1>2 DEF BeginDiscard, ActorType, TypeOK
  <2> QED
    BY <2>1 DEF Reasons, MemoryType, Bounded, TypeOK
<1>3. CASE \A j \in Instance : ~BeginDiscard(j)
  <2>1. UNCHANGED epoch
    BY <1>1, <1>3, EpochStep
  <2>2. discard[i].pc \notin {"idle", "failed"}
    <3>1. CASE UNCHANGED discard
      BY <3>1
    <3>2. ASSUME NEW j \in Instance, ListDirectory(j) \/ Sweep(j) \/ DiscardFail(j)
          PROVE  discard[i].pc \notin {"idle", "failed"}
      BY <3>2 DEF ListDirectory, Sweep, DiscardFail, ActorType, TypeOK
    <3>3. ASSUME NEW e \in Event, \/ Enqueue(e) \/ EnqueueFail(e) \/ EnqueueWrite(e)
                                  \/ EnqueueCheck(e) \/ EnqueueUndo(e) \/ Elapse(e)
          PROVE  UNCHANGED discard
      BY <3>3 DEF Enqueue, EnqueueFail, EnqueueWrite, EnqueueCheck, EnqueueUndo, Elapse, callers
    <3>4. ASSUME NEW f \in Flight,
                 Scan(f) \/ EndRound(f) \/ ReleaseFlight(f) \/ ReapOrphan(f) \/ ScanFail(f)
          PROVE  UNCHANGED discard
      BY <3>4 DEF Scan, EndRound, ReleaseFlight, ReapOrphan, ScanFail, callers
    <3>5. ASSUME NEW w \in Worker, \/ Pick(w) \/ NextItem(w) \/ Read(w) \/ PostOk(w)
                                   \/ PostFail(w) \/ Unlink(w) \/ Rewrite(w) \/ Settle(w)
                                   \/ Bury(w) \/ StorageError(w)
          PROVE  UNCHANGED discard
      BY <3>5 DEF Pick, NextItem, Read, PostOk, PostFail, Unlink, Rewrite, Settle, Bury,
        StorageError, OthersUnchanged, callers
    <3>6. ASSUME \/ BeginReplay \/ ReplayRead \/ ReplayWrite \/ ReplayCheck \/ ReplayUnlink
                 \/ ReplayFail \/ TimerFlush \/ Stop \/ UNCHANGED vars
                 \/ \E j \in Instance : Open(j)
          PROVE  UNCHANGED discard
      BY <3>6 DEF BeginReplay, ReplayRead, ReplayWrite, ReplayCheck, ReplayUnlink, ReplayFail,
        TimerFlush, Stop, Open, vars, callers
    <3> QED
      BY Steps, <1>1, <1>3, <3>1, <3>2, <3>3, <3>4, <3>5, <3>6
  <2> QED  BY <2>1, <2>2 DEF Reasons
<1> QED  BY <1>2, <1>3

LEMMA ReasonsStep ==
  ASSUME TypeOK, Possession, OneEpoch, Calls, Reasons, [Next]_vars PROVE Reasons'
<1>0. received \subseteq received' /\ obsolete \subseteq obsolete'
  BY Grows
<1>1. ASSUME NEW w \in Worker, worker'[w].pc = "ack" PROVE worker'[w].ev \in received'
  <2>1. WorkerMove(w)
    BY WorkerMoves
  <2> QED  BY <1>0, <1>1, <2>1 DEF WorkerMove, Reasons
<1>2. ASSUME NEW w \in Worker, worker'[w].pc \in {"skip", "drop"}
      PROVE  worker'[w].ev \in obsolete'
  <2>1. WorkerMove(w)
    BY WorkerMoves
  <2>2. CASE worker'[w] = worker[w]
    BY <1>0, <1>2, <2>2 DEF Reasons
  <2>3. CASE worker'[w] # worker[w]
    <3> DEFINE e == worker[w].ev
    <3>1. /\ worker'[w].ev = e
          /\ \/ worker[w].pc = "read" /\ active[e] # None /\ Discarded(e, active[e])
             \/ worker[w].pc \in Reading /\ Discarded(e, worker[w].rec)
      BY <1>2, <2>1, <2>3 DEF WorkerMove, Reading
    <3>2. worker[w].pc \in Holding
      BY <3>1 DEF Reading, Holding, Grouped
    <3>3. e \in Event /\ Written(e)
      BY <3>2 DEF Possession, WorkerType, TypeOK
    <3>4. Stale(e)
      BY <3>1, <3>3, DiscardedIsStale
    <3>5. e \in obsolete
      BY <3>3, <3>4 DEF Calls, Started, Written
    <3> QED  BY <1>0, <3>1, <3>5
  <2> QED  BY <2>2, <2>3
<1> QED  BY <1>1, <1>2, DiscardWorks DEF Reasons

\* What discardInstance removes was cancelled.
LEMMA SweptIsObsolete ==
  ASSUME TypeOK, Possession, OneEpoch, Calls, Reasons, NEW e \in Event,
         discard[InstOf[e]].pc \in {"sweepActive", "sweepDead"},
         \/ Obsolete(InstOf[e], e, active[e]) \/ Obsolete(InstOf[e], e, dead[e])
  PROVE  e \in obsolete
<1>1. epoch[InstOf[e]] # 0
  BY InstanceAssumption DEF Reasons
<1>2. Stale(e) /\ Written(e)
  BY <1>1, EpochOfCopy DEF Obsolete, Stale, Possession
<1> QED  BY <1>2 DEF Calls, Started, Written

LEMMA KeptStep ==
  ASSUME TypeOK, Possession, OneEpoch, Calls, Reasons, Kept, [Next]_vars PROVE Kept'
<1> SUFFICES ASSUME spent'["replay"] = 0
             PROVE  /\ replay' = NoReplay
                    /\ \A e \in Event : e \in accepted' \/ producer'[e].pc = "check" => Found(e)'
  BY DEF Kept
<1>1. /\ replay = NoReplay
      /\ \A e \in Event : e \in accepted \/ producer[e].pc = "check" => Found(e)
  BY Grows DEF Kept, Bounded
<1>2. replay' = NoReplay
  BY <1>1, ReplayMoves DEF ReplayMove, NoReplay
<1>3. ASSUME NEW e \in Event, e \in accepted' \/ producer'[e].pc = "check" PROVE Found(e)'
  <2>0. /\ ProducerMove(e) /\ FileMove(e)
        /\ received \subseteq received' /\ obsolete \subseteq obsolete'
    BY ProducerMoves, FileMoves, Grows
  <2>1. CASE ~(e \in accepted \/ producer[e].pc = "check")
    <3>1. active'[e] # None
      BY <1>3, <2>0, <2>1, AcceptedMoves DEF ProducerMove
    <3> QED  BY <3>1 DEF Found, Present
  <2>2. CASE e \in accepted \/ producer[e].pc = "check"
    <3>1. Found(e) /\ producer[e].pc # "undo"
      BY <1>1, <2>2 DEF Calls
    <3>2. CASE e \in received \union obsolete
      BY <2>0, <3>2 DEF Found
    <3>3. CASE e \notin received \union obsolete
      <4>1. \A w \in Worker : worker[w].ev = e => worker[w].pc \notin {"ack", "skip", "drop"}
        BY <3>3 DEF Reasons
      <4>2. /\ ~(discard[InstOf[e]].pc = "sweepActive" /\ Obsolete(InstOf[e], e, active[e]))
            /\ ~(discard[InstOf[e]].pc = "sweepDead" /\ Obsolete(InstOf[e], e, dead[e]))
        BY <3>3, SweptIsObsolete
      <4>3. replay.pc \notin {"undo", "clear", "write"}
        BY <1>1 DEF NoReplay
      <4>4. active'[e] # None \/ dead'[e] # None
        BY <2>0, <3>1, <3>3, <4>1, <4>2, <4>3 DEF FileMove, Found, Present
      <4> QED  BY <4>4 DEF Found, Present
    <3> QED  BY <3>2, <3>3
  <2> QED  BY <2>1, <2>2
<1> QED  BY <1>2, <1>3

LEMMA RecordInit == Init => RecordInv
<1> SUFFICES ASSUME Init PROVE RecordInv
  OBVIOUS
<1>1. Possession /\ DeadLetters
  BY DEF Init, Possession, DeadLetters, NoFiles, NoWork, IdleWorker, Holding, Grouped, NoTodo,
    NoReplay
<1>2. OneEpoch
  BY DEF Init, OneEpoch, NoCopyWith, NoFiles, NoWork, IdleWorker, NoReplay, Reading
<1>3. Calls
  BY InstanceAssumption DEF Init, Calls, Ahead, Started
<1>4. Reasons /\ Kept
  BY DEF Init, Reasons, Kept, NoWork, IdleWorker, NoDiscard
<1> QED  BY <1>1, <1>2, <1>3, <1>4 DEF RecordInv

LEMMA RecordCorrect == Spec => [](TypeOK /\ RecordInv)
<1>1. TypeOK /\ RecordInv /\ [Next]_vars => (TypeOK /\ RecordInv)'
  BY TypeStep, PossessionStep, DeadLettersStep, OneEpochStep, CallsStep, ReasonsStep, KeptStep
  DEF RecordInv
<1> QED
  BY TypeInit, RecordInit, <1>1, PTL DEF Spec

(* An event whose enqueue call returned an id is never lost: it is on disk, or  *)
(* the receiver has got it, or its connection was closed, whatever crashes,    *)
(* stops, storage errors, retries and closures there are.  Only a replay of    *)
(* dead letters can lose one.                                                  *)
THEOREM NothingLost == Spec => [](spent["replay"] = 0 => NoLoss)
<1>1. TypeOK /\ RecordInv => (spent["replay"] = 0 => NoLoss)
  BY DEF TypeOK, HistoryType, RecordInv, Kept, NoLoss, Found
<1> QED
  BY RecordCorrect, <1>1, PTL

(***************************************************************************)
(* The lane is a durable queue                                             *)
(***************************************************************************)

\* Work that a closure cancelled is recognisable as old, as long as the process lives that
\* closed it: no call draws an epoch that another has, and only closures draw one.
ForceInv ==
  /\ \A i \in Instance : epoch[i] <= spent["discard"]
  /\ \A e \in Event : producer[e].epoch <= spent["discard"]
  /\ \A e \in obsolete : Started(e) /\ e \notin Lifecycle
  /\ \A e \in InForce : Stale(e)

LEMMA ForceInit == Init => ForceInv
BY DEF Init, ForceInv, InForce, Bounded

LEMMA ForceStep == ASSUME TypeOK, ForceInv, [Next]_vars PROVE ForceInv'
<1>0. /\ epoch \in [Instance -> Nat] /\ spent["discard"] \in Nat
      /\ producer \in [Event -> [pc : ProducerPc, epoch : Nat]]
      /\ obsolete \subseteq Event /\ InstOf \in [Event -> Instance]
  BY InstanceAssumption DEF MemoryType, Bounded, ActorType, HistoryType, TypeOK
<1>1. CASE Crash
  <2>1. /\ epoch' = [i \in Instance |-> 0] /\ obsolete' = obsolete
        /\ spent'["discard"] = spent["discard"]
        /\ \A e \in Event : producer'[e].epoch = producer[e].epoch /\ (Started(e)' <=> Started(e))
    BY <1>0, <1>1 DEF Crash, Spend, history, Started, MemoryType, Bounded, TypeOK
  <2>2. InForce' = {}
    BY <1>0, <2>1 DEF InForce
  <2> QED  BY <1>0, <2>1, <2>2 DEF ForceInv
<1>2. ASSUME NEW i \in Instance, BeginDiscard(i) PROVE ForceInv'
  <2>1. /\ epoch' = [epoch EXCEPT ![i] = spent["discard"] + 1] /\ producer' = producer
        /\ spent'["discard"] = spent["discard"] + 1
        /\ obsolete' = obsolete \union {e \in EventsOf(i) \ Lifecycle : producer[e].pc # "new"}
    BY <1>0, <1>2 DEF BeginDiscard, Spend, MemoryType, Bounded, TypeOK
  <2>2. \A j \in Instance : epoch'[j] <= spent'["discard"]
    BY <1>0, <2>1 DEF ForceInv
  <2>3. \A e \in Event : producer'[e].epoch <= spent["discard"] /\ producer'[e].epoch \in Nat
    BY <1>0, <2>1 DEF ForceInv
  <2>4. \A e \in obsolete' : e \in Event /\ Started(e)' /\ e \notin Lifecycle
    BY <1>0, <2>1 DEF ForceInv, Started, EventsOf
  <2>5. ASSUME NEW e \in InForce' PROVE Stale(e)'
    <3>0. e \in obsolete' /\ epoch'[InstOf[e]] # 0
      BY DEF InForce
    <3>1. CASE InstOf[e] = i
      <4>1. epoch'[InstOf[e]] = spent["discard"] + 1
        BY <1>0, <2>1, <3>1
      <4> QED  BY <1>0, <2>3, <2>4, <3>0, <4>1 DEF Stale
    <3>2. CASE InstOf[e] # i
      <4>1. e \in InForce /\ epoch'[InstOf[e]] = epoch[InstOf[e]]
        BY <1>0, <2>1, <2>4, <3>0, <3>2 DEF InForce, EventsOf
      <4> QED  BY <2>1, <4>1 DEF ForceInv, Stale
    <3> QED  BY <3>1, <3>2
  <2>6. \A e \in Event : producer'[e].epoch <= spent'["discard"]
    BY <1>0, <2>1, <2>3
  <2> QED  BY <2>2, <2>4, <2>5, <2>6 DEF ForceInv
<1>3. CASE ~Crash /\ \A i \in Instance : ~BeginDiscard(i)
  <2>1. UNCHANGED <<epoch, obsolete>> /\ spent'["discard"] = spent["discard"]
    BY <1>3, EpochStep
  <2>2. ASSUME NEW e \in Event, Started(e)
        PROVE  Started(e)' /\ producer'[e].epoch = producer[e].epoch
    BY <2>2, WrittenStays
  <2>3. ASSUME NEW e \in Event PROVE producer'[e].epoch <= spent["discard"]
    <3>1. CASE Started(e)
      BY <2>2, <3>1 DEF ForceInv
    <3>2. CASE ~Started(e) /\ Started(e)'
      <4>1. Enqueue(e)
        BY <3>2, StartedByEnqueue
      <4>2. producer'[e].epoch = epoch[InstOf[e]] /\ InstOf[e] \in Instance
        BY <1>0, <4>1 DEF Enqueue
      <4> QED  BY <4>2 DEF ForceInv
    <3>3. CASE ~Started(e) /\ ~Started(e)'
      <4>1. ProducerMove(e) /\ producer[e].pc = "new" /\ producer'[e].pc = "new"
        BY <3>3, ProducerMoves DEF Started
      <4>2. producer'[e] = producer[e]
        BY <4>1 DEF ProducerMove
      <4> QED  BY <4>2 DEF ForceInv
    <3> QED  BY <3>1, <3>2, <3>3
  <2>4. \A e \in obsolete : Started(e)' /\ e \notin Lifecycle
    BY <1>0, <2>2 DEF ForceInv
  <2>5. ASSUME NEW e \in InForce' PROVE Stale(e)'
    <3>1. e \in InForce /\ e \in obsolete /\ e \in Event
      BY <1>0, <2>1 DEF InForce
    <3>2. Started(e) /\ Stale(e)
      BY <3>1 DEF ForceInv
    <3> QED  BY <2>1, <2>2, <3>1, <3>2 DEF Stale
  <2> QED  BY <2>1, <2>3, <2>4, <2>5 DEF ForceInv
<1> QED  BY <1>1, <1>2, <1>3

LEMMA ForceCorrect == Spec => []ForceInv
BY TypeCorrect, ForceInit, ForceStep, PTL DEF Spec

\* One step of the queue for each kind of change to the files, the requests and the history.
FilesStand == Present(active)' = Present(active) /\ Present(dead)' = Present(dead)
HistoryStands == UNCHANGED <<accepted, received, obsolete, epoch>>
QueueStep == [Queue!QueueNext]_Queue!queueVars

LEMMA StandsStill == ASSUME FilesStand, HistoryStands, Sending' = Sending PROVE QueueStep
BY DEF FilesStand, HistoryStands, InForce, QueueStep, Queue!queueVars

LEMMA RequestsEnd == ASSUME FilesStand, HistoryStands, Sending' \subseteq Sending PROVE QueueStep
<1>1. Queue!Abandon
  BY DEF FilesStand, HistoryStands, InForce, Queue!Abandon
<1> QED  BY <1>1 DEF QueueStep, Queue!QueueNext

LEMMA IsPut ==
  ASSUME NEW e \in Event, HistoryStands, Sending' = Sending, dead' = dead,
         active \in [Event -> RecordOrNone], NEW r \in Record, active' = [active EXCEPT ![e] = r]
  PROVE  QueueStep
<1>1. r # None
  BY NoneAssumption
<1>2. Present(active)' = Present(active) \union {e} /\ Present(dead)' = Present(dead)
  BY <1>1 DEF Present
<1>3. Queue!Put(e)
  BY <1>2 DEF HistoryStands, InForce, Queue!Put
<1> QED  BY <1>3 DEF QueueStep, Queue!QueueNext

\* A file that is owed to nobody is unlinked, from either directory.
LEMMA IsRemoved ==
  ASSUME NEW e \in Event, HistoryStands, Sending' = Sending, TypeOK,
         \/ active' = [active EXCEPT ![e] = None] /\ dead' = dead
         \/ dead' = [dead EXCEPT ![e] = None] /\ active' = active,
         e \in accepted => e \in received \union obsolete
  PROVE  QueueStep
<1>0. active \in [Event -> RecordOrNone] /\ dead \in [Event -> RecordOrNone]
  BY DEF TypeOK, FilesType
<1>1. \/ Present(active)' = Present(active) \ {e} /\ Present(dead)' = Present(dead)
      \/ Present(dead)' = Present(dead) \ {e} /\ Present(active)' = Present(active)
  BY <1>0 DEF Present
<1>2. Queue!Remove(e)
  BY <1>1 DEF HistoryStands, InForce, Queue!Remove, Queue!Outstanding
<1> QED  BY <1>2 DEF QueueStep, Queue!QueueNext

\* What a step of one worker does to the requests.
LEMMA OneWorkerSends ==
  ASSUME NEW w \in Worker, \A v \in Worker : v # w => worker'[v] = worker[v]
  PROVE  /\ ~Posting(w) /\ ~Posting(w)' => Sending' = Sending
         /\ ~Posting(w) /\ Posting(w)' => Sending' = Sending \union {worker'[w].ev}
         /\ Posting(w) /\ ~Posting(w)' => Sending' \in {Sending, Sending \ {worker[w].ev}}
<1>1. \A x : x \in Sending <=> \E v \in Worker : Posting(v) /\ worker[v].ev = x
  BY DEF Sending
<1>2. \A x : x \in Sending' <=> \E v \in Worker : Posting(v)' /\ worker'[v].ev = x
  BY DEF Sending
<1>3. \A v \in Worker : v # w => (Posting(v)' <=> Posting(v)) /\ worker'[v].ev = worker[v].ev
  BY DEF Posting
<1>4. ~Posting(w) /\ ~Posting(w)' => Sending' = Sending
  BY <1>1, <1>2, <1>3
<1>5. ~Posting(w) /\ Posting(w)' => Sending' = Sending \union {worker'[w].ev}
  BY <1>1, <1>2, <1>3
<1>6. ASSUME Posting(w), ~Posting(w)', worker[w].ev \in Sending' PROVE Sending' = Sending
  BY <1>1, <1>2, <1>3, <1>6
<1>7. ASSUME Posting(w), ~Posting(w)', worker[w].ev \notin Sending'
      PROVE  Sending' = Sending \ {worker[w].ev}
  BY <1>1, <1>2, <1>3, <1>7
<1> QED  BY <1>4, <1>5, <1>6, <1>7

LEMMA NoneSends == ASSUME UNCHANGED worker PROVE Sending' = Sending
BY DEF Sending, Posting

LEMMA FilesUntouched == ASSUME UNCHANGED files PROVE FilesStand
BY DEF FilesStand, files, Present

LEMMA CallerQueues ==
  ASSUME TypeOK, RecordInv, spent["replay"] = 0, NEW e \in Event,
         \/ Enqueue(e) \/ EnqueueFail(e) \/ EnqueueWrite(e) \/ EnqueueCheck(e) \/ EnqueueUndo(e)
         \/ Elapse(e)
  PROVE  QueueStep
<1>0. Sending' = Sending
  BY NoneSends DEF Enqueue, EnqueueFail, EnqueueWrite, EnqueueCheck, EnqueueUndo, Elapse
<1>1. CASE Enqueue(e) \/ EnqueueFail(e)
  BY <1>0, <1>1, FilesUntouched, StandsStill DEF Enqueue, EnqueueFail, HistoryStands, memory, history
<1>2. CASE EnqueueWrite(e)
  <2>1. FirstRecord(e) \in Record
    BY DEF FirstRecord, NewRecord, Record, ActorType, TypeOK
  <2> QED
    BY <1>0, <1>2, <2>1, IsPut DEF EnqueueWrite, HistoryStands, memory, history, TypeOK, FilesType
<1>3. CASE EnqueueCheck(e)
  <2>1. FilesStand /\ UNCHANGED <<received, obsolete, epoch>>
    BY <1>3, FilesUntouched DEF EnqueueCheck, memory
  <2>2. CASE accepted' = accepted
    BY <1>0, <2>1, <2>2, StandsStill DEF HistoryStands
  <2>3. CASE accepted' # accepted
    <3>1. accepted' = accepted \union {e} /\ producer[e].pc = "check"
      BY <1>3, <2>3 DEF EnqueueCheck
    <3>2. Found(e)
      BY <3>1 DEF RecordInv, Kept
    <3>3. Queue!Accept(e)
      BY <1>0, <2>1, <3>1, <3>2 DEF Queue!Accept, Found, FilesStand, InForce
    <3> QED  BY <3>3 DEF QueueStep, Queue!QueueNext
  <2> QED  BY <2>2, <2>3
<1>4. CASE EnqueueUndo(e)
  <2>1. e \notin accepted
    BY <1>4 DEF EnqueueUndo, RecordInv, Calls
  <2> QED  BY <1>0, <1>4, <2>1, IsRemoved DEF EnqueueUndo, HistoryStands, memory, history
<1>5. CASE Elapse(e)
  <2>1. active[e] \in Record /\ active' = [active EXCEPT ![e].due = TRUE] /\ dead' = dead
    BY <1>5 DEF Elapse, FilesType, RecordOrNone, TypeOK
  <2>2. [active[e] EXCEPT !.due = TRUE] \in Record
    BY <2>1 DEF Record
  <2>3. active' = [active EXCEPT ![e] = [active[e] EXCEPT !.due = TRUE]]
    BY <2>1
  <2> QED
    BY <1>0, <1>5, <2>1, <2>2, <2>3, IsPut
    DEF Elapse, HistoryStands, memory, history, TypeOK, FilesType
<1> QED  BY <1>1, <1>2, <1>3, <1>4, <1>5

LEMMA FlightQueues ==
  ASSUME NEW f \in Flight,
         Scan(f) \/ EndRound(f) \/ ReleaseFlight(f) \/ ReapOrphan(f) \/ ScanFail(f)
  PROVE  QueueStep
<1>1. FilesStand /\ HistoryStands
  BY FilesUntouched
  DEF Scan, EndRound, ReleaseFlight, ReapOrphan, ScanFail, HistoryStands, memory, history
<1>2. CASE Scan(f)
  <2>1. \A w \in Worker : Posting(w)' => Posting(w) /\ worker'[w] = worker[w]
    BY <1>2 DEF Scan, IdleWorker, Posting
  <2>2. Sending' \subseteq Sending
    BY <2>1 DEF Sending
  <2> QED  BY <1>1, <2>2, RequestsEnd
<1>3. CASE EndRound(f) \/ ReleaseFlight(f) \/ ReapOrphan(f) \/ ScanFail(f)
  <2>1. Sending' = Sending
    BY <1>3, NoneSends DEF EndRound, ReleaseFlight, ReapOrphan, ScanFail
  <2> QED  BY <1>1, <2>1, StandsStill
<1> QED  BY <1>2, <1>3

\* Only Read starts a request, and only PostOk and PostFail end one.
LEMMA OneWorkerPosts ==
  ASSUME TypeOK, NEW w \in Worker,
         \/ Pick(w) \/ NextItem(w) \/ Unlink(w) \/ Rewrite(w) \/ Settle(w) \/ Bury(w)
         \/ StorageError(w)
  PROVE  Sending' = Sending
<1>1. worker[w].pc # "post"
  BY DEF Pick, NextItem, Unlink, Rewrite, Settle, Bury, StorageError
<1>2. WorkerMove(w) /\ \A v \in Worker : v # w => worker'[v] = worker[v]
  BY OneWorkerMoves
<1>3. worker[w].pc # "read" \/ StorageError(w)
  BY DEF Pick, NextItem, Unlink, Rewrite, Settle, Bury
<1>4. worker'[w].pc # "post"
  <2>1. CASE StorageError(w)
    BY <1>1, <2>1 DEF StorageError, AfterFailure, Goto, IdleWorker, WorkerType, TypeOK
  <2>2. CASE worker[w].pc # "read"
    BY <1>1, <1>2, <2>2 DEF WorkerMove
  <2> QED  BY <1>3, <2>1, <2>2
<1> QED  BY <1>1, <1>2, <1>4, OneWorkerSends DEF Posting

LEMMA WorkerQueues ==
  ASSUME TypeOK, RecordInv, ForceInv, NEW w \in Worker,
         \/ Pick(w) \/ NextItem(w) \/ Read(w) \/ PostOk(w) \/ PostFail(w)
         \/ Unlink(w) \/ Rewrite(w) \/ Settle(w) \/ Bury(w) \/ StorageError(w)
  PROVE  QueueStep
<1>0. /\ \A v \in Worker : v # w => worker'[v] = worker[v]
      /\ worker[w].pc \in Holding => worker[w].ev \in Event
  BY OneWorkerMoves DEF WorkerType, TypeOK
<1>1. CASE Pick(w) \/ NextItem(w) \/ Settle(w) \/ StorageError(w)
  <2>1. FilesStand /\ HistoryStands
    BY <1>1, FilesUntouched
    DEF Pick, NextItem, Settle, StorageError, OthersUnchanged, HistoryStands, memory, history
  <2> QED  BY <1>1, <2>1, OneWorkerPosts, StandsStill
<1>2. CASE Read(w)
  <2>1. FilesStand /\ HistoryStands
    BY <1>2, FilesUntouched DEF Read, OthersUnchanged, HistoryStands, memory
  <2>2. worker[w].pc = "read" /\ worker[w].ev \in Event
    BY <1>0, <1>2 DEF Read, Holding, Grouped
  <2>3. CASE worker'[w].pc = "post"
    <3>1. /\ active[worker[w].ev] # None /\ worker'[w].ev = worker[w].ev
          /\ ~Discarded(worker[w].ev, active[worker[w].ev])
      BY <1>2, <2>3 DEF Read, Continue, Goto, Break, IdleWorker, WorkerType, TypeOK
    <3>2. Sending' = Sending \union {worker[w].ev}
      BY <1>0, <2>2, <2>3, <3>1, OneWorkerSends DEF Posting
    <3>3. worker[w].ev \notin InForce
      BY <2>2, <3>1, DiscardedIsStale DEF ForceInv, RecordInv
    <3>4. Queue!Send(worker[w].ev)
      BY <2>1, <2>2, <3>1, <3>2, <3>3 DEF Queue!Send, FilesStand, HistoryStands, InForce, Present
    <3> QED  BY <2>2, <3>4 DEF QueueStep, Queue!QueueNext
  <2>4. CASE worker'[w].pc # "post"
    <3>1. Sending' = Sending
      BY <1>0, <2>2, <2>4, OneWorkerSends DEF Posting
    <3> QED  BY <2>1, <3>1, StandsStill
  <2> QED  BY <2>3, <2>4
<1>3. CASE PostOk(w) \/ PostFail(w)
  <2>1. /\ FilesStand /\ UNCHANGED <<accepted, obsolete, epoch>>
        /\ received' = received \/ received' = received \union {worker[w].ev}
    BY <1>3, FilesUntouched DEF PostOk, PostFail, OthersUnchanged, memory
  <2>2. worker[w].pc = "post" /\ worker[w].ev \in Event
    BY <1>0, <1>3 DEF PostOk, PostFail, Holding, Grouped
  <2>3. worker'[w].pc # "post"
    BY <1>3, <2>2 DEF PostOk, PostFail, AfterFailure, Goto, WorkerType, TypeOK
  <2>4. Sending' \in {Sending, Sending \ {worker[w].ev}} /\ worker[w].ev \in Sending
    BY <1>0, <2>2, <2>3, OneWorkerSends DEF Posting, Sending
  <2>5. CASE received' = received
    BY <2>1, <2>4, <2>5, RequestsEnd DEF HistoryStands
  <2>6. CASE received' = received \union {worker[w].ev}
    <3>1. Queue!Receive(worker[w].ev)
      BY <2>1, <2>4, <2>6 DEF Queue!Receive, FilesStand, InForce
    <3> QED  BY <2>2, <3>1 DEF QueueStep, Queue!QueueNext
  <2> QED  BY <2>1, <2>5, <2>6
<1>4. CASE Unlink(w)
  <2>1. worker[w].ev \in Event /\ worker[w].ev \in received \union obsolete
    BY <1>0, <1>4 DEF Unlink, Holding, Grouped, RecordInv, Reasons
  <2> QED
    BY <1>4, <2>1, OneWorkerPosts, IsRemoved DEF Unlink, OthersUnchanged, HistoryStands, memory
<1>5. CASE Rewrite(w)
  <2>1. worker[w].ev \in Event /\ worker[w].rec \in Record
    BY <1>0, <1>5 DEF Rewrite, Holding, Grouped, Reading, WorkerType, TypeOK
  <2> QED
    BY <1>5, <2>1, OneWorkerPosts, IsPut
    DEF Rewrite, OthersUnchanged, HistoryStands, memory, FilesType, TypeOK
<1>6. CASE Bury(w)
  <2>1. HistoryStands /\ Sending' = Sending /\ worker[w].ev \in Event
    BY <1>0, <1>6, OneWorkerPosts
    DEF Bury, OthersUnchanged, HistoryStands, memory, Holding, Grouped
  <2>2. CASE active[worker[w].ev] = None
    BY <1>6, <2>1, <2>2, FilesUntouched, StandsStill DEF Bury
  <2>3. CASE active[worker[w].ev] # None
    <3> DEFINE e == worker[w].ev
    <3>1. /\ dead' = [dead EXCEPT ![e] = active[e]] /\ active' = [active EXCEPT ![e] = None]
          /\ active \in [Event -> RecordOrNone] /\ dead \in [Event -> RecordOrNone]
      BY <1>6, <2>3 DEF Bury, FilesType, TypeOK
    <3> HIDE DEF e
    <3>2. e \in Present(active) /\ e \in Event
      BY <2>1, <2>3 DEF Present, e
    <3>3. /\ Present(active)' = Present(active) \ {e}
          /\ Present(dead)' = Present(dead) \union {e}
      BY <3>1, <3>2 DEF Present
    <3>4. Queue!Park(e)
      BY <2>1, <3>2, <3>3 DEF Queue!Park, HistoryStands, InForce
    <3> QED  BY <3>2, <3>4 DEF QueueStep, Queue!QueueNext
  <2> QED  BY <2>2, <2>3
<1> QED  BY <1>1, <1>2, <1>3, <1>4, <1>5, <1>6

LEMMA ClosureQueues ==
  ASSUME TypeOK, RecordInv, ForceInv, NEW i \in Instance,
         BeginDiscard(i) \/ ListDirectory(i) \/ Sweep(i) \/ DiscardFail(i) \/ Open(i)
  PROVE  QueueStep
<1>0. Sending' = Sending
  BY NoneSends DEF BeginDiscard, ListDirectory, Sweep, DiscardFail, Open
<1>1. CASE ListDirectory(i) \/ DiscardFail(i) \/ Open(i)
  BY <1>0, <1>1, FilesUntouched, StandsStill
  DEF ListDirectory, DiscardFail, Open, HistoryStands, memory, history
<1>2. CASE BeginDiscard(i)
  <2> DEFINE S == {e \in EventsOf(i) \ Lifecycle : producer[e].pc # "new"}
  <2>1. FilesStand /\ UNCHANGED <<accepted, received>> /\ obsolete' = obsolete \union S
    BY <1>2, FilesUntouched DEF BeginDiscard
  <2>2. S \in SUBSET Event
    BY DEF EventsOf
  <2>3. InForce' = InForce \union S
    <3>1. epoch' = [epoch EXCEPT ![i] = spent["discard"] + 1] /\ spent["discard"] + 1 # 0
      BY <1>2 DEF BeginDiscard, MemoryType, Bounded, TypeOK
    <3>2. epoch \in [Instance -> Nat]
      BY DEF MemoryType, TypeOK
    <3>3. ASSUME NEW e \in Event, InstOf[e] = i PROVE e \in InForce' <=> e \in obsolete \union S
      BY <2>1, <3>1, <3>2, <3>3 DEF InForce
    <3>4. ASSUME NEW e \in Event, InstOf[e] # i
          PROVE  /\ e \in InForce' <=> e \in InForce
                 /\ e \notin S
      BY <2>1, <3>1, <3>2, <3>4, InstanceAssumption DEF InForce, EventsOf
    <3>5. ASSUME NEW e \in obsolete, InstOf[e] = i PROVE e \in S
      BY <3>5 DEF ForceInv, Started, EventsOf, HistoryType, TypeOK
    <3>6. InForce \subseteq Event /\ InForce' \subseteq Event /\ InForce \subseteq obsolete
      BY <2>1, <2>2 DEF InForce, HistoryType, TypeOK
    <3> HIDE DEF S
    <3> QED  BY <2>2, <3>3, <3>4, <3>5, <3>6
  <2> HIDE DEF S
  <2>4. Queue!Cancel(S)
    BY <1>0, <2>1, <2>3 DEF Queue!Cancel, FilesStand
  <2> QED  BY <2>2, <2>4 DEF QueueStep, Queue!QueueNext
<1>3. CASE Sweep(i)
  <2>0. HistoryStands
    BY <1>3 DEF Sweep, HistoryStands, memory, history
  <2>1. CASE UNCHANGED files
    BY <1>0, <2>0, <2>1, FilesUntouched, StandsStill
  <2>2. CASE ~(UNCHANGED files)
    <3>1. PICK e \in discard[i].left :
            \/ /\ discard[i].pc = "sweepActive" /\ Obsolete(i, e, active[e])
               /\ active' = [active EXCEPT ![e] = None] /\ dead' = dead
            \/ /\ discard[i].pc = "sweepDead" /\ Obsolete(i, e, dead[e])
               /\ dead' = [dead EXCEPT ![e] = None] /\ active' = active
      BY <1>3, <2>2 DEF Sweep, Swept, files
    <3>2. e \in Event /\ InstOf[e] = i
      BY <3>1 DEF Obsolete, ActorType, TypeOK
    <3>3. e \in obsolete
      BY <3>1, <3>2, SweptIsObsolete DEF RecordInv
    <3> QED  BY <1>0, <2>0, <3>1, <3>2, <3>3, IsRemoved
  <2> QED  BY <2>1, <2>2
<1> QED  BY <1>1, <1>2, <1>3

LEMMA OthersQueue ==
  ASSUME TypeOK, TimerFlush \/ Stop \/ Crash \/ UNCHANGED vars PROVE QueueStep
<1>1. FilesStand
  BY FilesUntouched DEF TimerFlush, Stop, Crash, vars
<1>2. CASE TimerFlush \/ Stop \/ UNCHANGED vars
  <2>1. Sending' = Sending
    BY <1>2, NoneSends DEF TimerFlush, Stop, vars
  <2>2. HistoryStands
    BY <1>2 DEF TimerFlush, Stop, HistoryStands, memory, history, vars
  <2> QED  BY <1>1, <2>1, <2>2, StandsStill
<1>3. CASE Crash
  <2>1. \A w \in Worker : ~Posting(w)'
    BY <1>3 DEF Crash, NoWork, IdleWorker, Posting
  <2>2. Sending' = {}
    BY <2>1 DEF Sending
  <2>3. UNCHANGED <<accepted, received, obsolete>> /\ epoch' = [i \in Instance |-> 0]
    BY <1>3 DEF Crash, history
  <2>4. InForce' = {}
    BY <2>3, InstanceAssumption DEF InForce, HistoryType, TypeOK
  <2>5. Queue!Restart
    BY <1>1, <2>2, <2>3, <2>4 DEF Queue!Restart, FilesStand
  <2> QED  BY <2>5 DEF QueueStep, Queue!QueueNext
<1> QED  BY <1>2, <1>3

\* No replay of dead letters is asked for.
NoReplays == \A limit \in Limits : limit["replay"] = 0

(* The lane implements the durable queue, with any number of events, instances, *)
(* workers and attempts: every step, a crash, a stop, a storage error, a retry  *)
(* or a closure among them, is a step of the queue or leaves it as it is.  What *)
(* is removed from a directory was received, cancelled or never acknowledged,   *)
(* and what is sent is in the directory at that time.  Without the assumption   *)
(* it is false: a replay can lose an event (run replayLoss).                    *)
THEOREM LaneIsADurableQueue == ASSUME NoReplays PROVE Spec => KeepsAccepted
<1>1. Init => Queue!QueueInit
  <2>1. Init => Present(active) = {} /\ Present(dead) = {}
    BY DEF Init, NoFiles, Present
  <2>2. Init => Sending = {}
    BY DEF Init, NoWork, IdleWorker, Sending, Posting
  <2>3. Init => InForce = {}
    BY DEF Init, InForce
  <2> QED  BY <2>1, <2>2, <2>3 DEF Init, Queue!QueueInit
<1>2. Init => spent["replay"] = 0
  BY DEF Init, Bounded
<1>3. TypeOK /\ spent["replay"] = 0 /\ [Next]_vars => (spent["replay"] = 0)'
  <2> SUFFICES ASSUME TypeOK, spent["replay"] = 0, [Next]_vars PROVE spent'["replay"] = 0
    OBVIOUS
  <2>1. CASE UNCHANGED spent
    BY <2>1
  <2>2. ASSUME NEW limit \in Limits, \A k \in Bounded : spent'[k] <= limit[k]
        PROVE  spent'["replay"] = 0
    <3>1. spent'["replay"] <= limit["replay"] /\ limit["replay"] = 0
      BY <2>2 DEF Bounded, NoReplays
    <3>2. spent'["replay"] \in Nat
      BY TypeStep DEF TypeOK, MemoryType, Bounded
    <3> QED  BY <3>1, <3>2
  <2> QED  BY <2>1, <2>2, Grows
<1>4. ASSUME TypeOK, RecordInv, ForceInv, spent["replay"] = 0, spent'["replay"] = 0, [Next]_vars
      PROVE  QueueStep
  <2> USE <1>4
  <2>1. replay = NoReplay
    BY DEF RecordInv, Kept
  <2>2. ~(ReplayRead \/ ReplayWrite \/ ReplayCheck \/ ReplayUnlink \/ ReplayFail)
    BY <2>1 DEF NoReplay, ReplayRead, ReplayWrite, ReplayCheck, ReplayUnlink, ReplayFail
  <2>3. ~BeginReplay
    BY DEF BeginReplay, Spend, TypeOK, MemoryType, Bounded
  <2> QED
    BY Steps, <2>2, <2>3, CallerQueues, FlightQueues, WorkerQueues, ClosureQueues, OthersQueue
<1>5. TypeOK /\ RecordInv /\ ForceInv /\ spent["replay"] = 0 /\ (spent["replay"] = 0)' /\ [Next]_vars
        => [Queue!QueueNext]_Queue!queueVars
  BY <1>4 DEF QueueStep
<1>6. Spec => [](spent["replay"] = 0)
  BY TypeCorrect, <1>2, <1>3, PTL DEF Spec
<1> QED
  BY RecordCorrect, ForceCorrect, <1>1, <1>5, <1>6, PTL DEF Spec, KeepsAccepted, Queue!QueueSpec

(* That is what it takes to lose nothing: a durable queue always has every event *)
(* it accepted, unless the receiver has it too or it was cancelled.              *)
THEOREM QueuesLoseNothing == KeepsAccepted => []NoLoss
<1> DEFINE Here == Queue!Outstanding \subseteq Present(active) \union Present(dead)
<1>1. Queue!QueueInit => Here
  BY DEF Queue!QueueInit, Queue!Outstanding
<1>2. Here /\ [Queue!QueueNext]_Queue!queueVars => Here'
  BY DEF Queue!Outstanding, Queue!QueueNext, Queue!queueVars, Queue!Put, Queue!Accept,
    Queue!Send, Queue!Receive, Queue!Abandon, Queue!Restart, Queue!Park, Queue!Remove,
    Queue!Cancel
<1>3. Here => NoLoss
  BY DEF Queue!Outstanding, NoLoss
<1> QED  BY <1>1, <1>2, <1>3, PTL DEF KeepsAccepted, Queue!QueueSpec

(***************************************************************************)
(* One flight, one worker per group                                        *)
(***************************************************************************)

\* Which steps touch the groups that are up, and which wake a worker.
LEMMA ReadyMoves ==
  ASSUME TypeOK, [Next]_vars
  PROVE  \/ UNCHANGED ready
         \/ Crash \/ \E f \in Flight : Scan(f) \/ DropGroups(f)
         \/ \E w \in Worker : Pick(w) \/ NextItem(w)
<1>1. ASSUME NEW g \in Event, \/ Enqueue(g) \/ EnqueueFail(g) \/ EnqueueWrite(g)
                              \/ EnqueueCheck(g) \/ EnqueueUndo(g) \/ Elapse(g)
      PROVE  UNCHANGED ready
  BY <1>1 DEF Enqueue, EnqueueFail, EnqueueWrite, EnqueueCheck, EnqueueUndo, Elapse, lane
<1>2. ASSUME NEW g \in Flight, EndRound(g) \/ ReleaseFlight(g) \/ ReapOrphan(g) \/ ScanFail(g)
      PROVE  UNCHANGED ready \/ DropGroups(g)
  BY <1>2 DEF EndRound, ReleaseFlight, ReapOrphan, ScanFail
<1>3. ASSUME NEW w \in Worker, \/ Read(w) \/ PostOk(w) \/ PostFail(w) \/ Unlink(w)
                               \/ Rewrite(w) \/ Settle(w) \/ Bury(w) \/ StorageError(w)
      PROVE  UNCHANGED ready
  BY <1>3 DEF Read, PostOk, PostFail, Unlink, Rewrite, Settle, Bury, StorageError
<1>4. ASSUME NEW j \in Instance, \/ BeginDiscard(j) \/ ListDirectory(j) \/ Sweep(j)
                                 \/ DiscardFail(j) \/ Open(j)
      PROVE  UNCHANGED ready
  BY <1>4 DEF BeginDiscard, ListDirectory, Sweep, DiscardFail, Open, lane
<1>5. ASSUME \/ BeginReplay \/ ReplayRead \/ ReplayWrite \/ ReplayCheck \/ ReplayUnlink
             \/ ReplayFail \/ TimerFlush \/ Stop \/ UNCHANGED vars
      PROVE  UNCHANGED ready
  BY <1>5 DEF BeginReplay, ReplayRead, ReplayWrite, ReplayCheck, ReplayUnlink, ReplayFail,
    TimerFlush, Stop, vars, lane
<1> QED  BY Steps, <1>1, <1>2, <1>3, <1>4, <1>5

\* A worker that has returned works again when its flight scans the directory.
LEMMA WokenByScan ==
  ASSUME TypeOK, [Next]_vars, NEW w \in Worker, worker[w].pc = "done", worker'[w].pc # "done"
  PROVE  Scan(w[1])
<1>1. ~UNCHANGED worker
  OBVIOUS
<1>2. ~Crash
  BY DEF Crash, NoWork, IdleWorker
<1>3. ASSUME NEW v \in Worker, \/ Pick(v) \/ NextItem(v) \/ Read(v) \/ PostOk(v) \/ PostFail(v)
                               \/ Unlink(v) \/ Rewrite(v) \/ Settle(v) \/ Bury(v)
                               \/ StorageError(v)
      PROVE  FALSE
  <2>1. worker[v].pc # "done"
    BY <1>3 DEF Pick, NextItem, Read, PostOk, PostFail, Unlink, Rewrite, Settle, Bury, StorageError
  <2> QED  BY <1>3, <2>1, OneWorkerMoves
<1>4. ASSUME NEW f \in Flight, Scan(f) PROVE f = w[1]
  BY <1>1, <1>4 DEF Scan
<1>5. ASSUME NEW e \in Event, \/ Enqueue(e) \/ EnqueueFail(e) \/ EnqueueWrite(e)
                              \/ EnqueueCheck(e) \/ EnqueueUndo(e) \/ Elapse(e)
      PROVE  UNCHANGED worker
  BY <1>5 DEF Enqueue, EnqueueFail, EnqueueWrite, EnqueueCheck, EnqueueUndo, Elapse
<1>6. ASSUME NEW f \in Flight, EndRound(f) \/ ReleaseFlight(f) \/ ReapOrphan(f) \/ ScanFail(f)
      PROVE  UNCHANGED worker
  BY <1>6 DEF EndRound, ReleaseFlight, ReapOrphan, ScanFail
<1>7. ASSUME NEW i \in Instance, \/ BeginDiscard(i) \/ ListDirectory(i) \/ Sweep(i)
                                 \/ DiscardFail(i) \/ Open(i)
      PROVE  UNCHANGED worker
  BY <1>7 DEF BeginDiscard, ListDirectory, Sweep, DiscardFail, Open
<1>8. ASSUME \/ BeginReplay \/ ReplayRead \/ ReplayWrite \/ ReplayCheck \/ ReplayUnlink
             \/ ReplayFail \/ TimerFlush \/ Stop \/ UNCHANGED vars
      PROVE  UNCHANGED worker
  BY <1>8 DEF BeginReplay, ReplayRead, ReplayWrite, ReplayCheck, ReplayUnlink, ReplayFail,
    TimerFlush, Stop, vars
<1> QED  BY Steps, <1>1, <1>2, <1>3, <1>4, <1>5, <1>6, <1>7, <1>8

\* Apart from taking up a group, a worker stays with the one it has.
LEMMA StaysGrouped ==
  ASSUME TypeOK, [Next]_vars, NEW w \in Worker, worker'[w].pc \in Grouped, ~Pick(w)
  PROVE  /\ worker[w].pc \in Grouped /\ worker'[w].inst = worker[w].inst
         /\ worker'[w].pc \in Holding => \/ /\ worker[w].pc \in Holding
                                           /\ worker'[w].ev = worker[w].ev
                                        \/ /\ worker[w].pc = "item"
                                           /\ worker'[w].ev \in todo[w[1]][worker[w].inst]
<1>1. WorkerMove(w)
  BY WorkerMoves
<1> QED  BY <1>1 DEF WorkerMove, Grouped, Holding

LEMMA HoldsOfGroup ==
  ASSUME TypeOK, Possession, OneGroupEach, [Next]_vars, NEW w \in Worker,
         worker'[w].pc \in Holding
  PROVE  InstOf[worker'[w].ev] = worker'[w].inst
<1>1. ~Pick(w)
  <2>1. Pick(w) => worker[w].pc = "pick"
    BY DEF Pick
  <2>2. WorkerMove(w)
    BY WorkerMoves
  <2> QED  BY <2>1, <2>2 DEF WorkerMove, Holding, Grouped
<1>2. worker'[w].pc \in Grouped
  BY DEF Holding
<1>3. w[1] \in Flight /\ (worker[w].pc \in Grouped => worker[w].inst \in Instance)
  BY DEF Worker, WorkerType, TypeOK
<1> QED
  BY <1>1, <1>2, <1>3, StaysGrouped DEF OneGroupEach, Possession

\* The groups a flight has: those up for a worker and those with one.
LEMMA GroupStep ==
  ASSUME TypeOK, OneGroupEach, [Next]_vars, NEW w \in Worker, worker'[w].pc \in Grouped
  PROVE  /\ worker'[w].inst \notin ready'[w[1]]
         /\ \A v \in Worker : v # w /\ v[1] = w[1] /\ worker'[v].pc \in Grouped =>
              worker'[v].inst # worker'[w].inst
<1>0. \A v \in Worker : v[1] \in Flight
  BY DEF Worker
<1>1. ASSUME NEW u \in Worker, Pick(u)
      PROVE  /\ worker'[w].inst \notin ready'[w[1]]
             /\ \A v \in Worker : v # w /\ v[1] = w[1] /\ worker'[v].pc \in Grouped =>
                  worker'[v].inst # worker'[w].inst
  <2>1. \A v \in Worker : v # u => worker'[v] = worker[v]
    BY <1>1, OneWorkerMoves
  <2>2. CASE worker'[u].pc \notin Grouped
    <3>1. ready' = ready
      <4>1. ASSUME NEW i,
                   worker' = [worker EXCEPT ![u] = [IdleWorker EXCEPT !.pc = "item", !.inst = i]]
            PROVE  FALSE
        BY <2>2, <4>1 DEF IdleWorker, Grouped, WorkerType, TypeOK
      <4> QED  BY <1>1, <4>1 DEF Pick
    <3> QED  BY <2>1, <2>2, <3>1 DEF OneGroupEach
  <2>3. CASE worker'[u].pc \in Grouped
    <3>1. ~(worker' = [worker EXCEPT ![u] = IdleWorker])
      BY <2>3 DEF IdleWorker, Grouped, WorkerType, TypeOK
    <3>2. PICK i \in ready[u[1]] :
            /\ ready' = [ready EXCEPT ![u[1]] = @ \ {i}]
            /\ worker' = [worker EXCEPT ![u] = [IdleWorker EXCEPT !.pc = "item", !.inst = i]]
      BY <1>1, <3>1 DEF Pick, GroupTaken
    <3>3. worker'[u].inst = i /\ i \notin ready'[u[1]]
      BY <1>0, <3>2 DEF IdleWorker, WorkerType, LaneType, TypeOK
    <3>4. \A f \in Flight : ready'[f] \subseteq ready[f]
      BY <1>0, <3>2 DEF LaneType, TypeOK
    <3>5. \A v \in Worker : v # u /\ v[1] = u[1] /\ worker[v].pc \in Grouped => worker[v].inst # i
      BY <3>2 DEF OneGroupEach
    <3> QED  BY <1>0, <2>1, <3>3, <3>4, <3>5 DEF OneGroupEach
  <2> QED  BY <2>2, <2>3
<1>2. ASSUME \A v \in Worker : ~Pick(v) /\ ~NextItem(v), \A f \in Flight : ready'[f] \subseteq ready[f]
      PROVE  /\ worker'[w].inst \notin ready'[w[1]]
             /\ \A v \in Worker : v # w /\ v[1] = w[1] /\ worker'[v].pc \in Grouped =>
                  worker'[v].inst # worker'[w].inst
  BY <1>0, <1>2, StaysGrouped DEF OneGroupEach
<1>3. ASSUME NEW u \in Worker, NextItem(u)
      PROVE  /\ worker'[w].inst \notin ready'[w[1]]
             /\ \A v \in Worker : v # w /\ v[1] = w[1] /\ worker'[v].pc \in Grouped =>
                  worker'[v].inst # worker'[w].inst
  <2>1. \A v \in Worker : v # u => worker'[v] = worker[v]
    BY <1>3, OneWorkerMoves
  <2>2. worker[u].pc = "item"
    BY <1>3 DEF NextItem
  <2>3. CASE ready' = ready
    <3>1. ~Pick(w)
      BY <2>1, <2>2 DEF Pick, Grouped
    <3>2. \A v \in Worker : ~Pick(v) \/ worker'[v] = worker[v]
      BY <2>1, <2>2 DEF Pick
    <3> QED  BY <2>3, <3>1, <3>2, StaysGrouped DEF OneGroupEach
  <2>4. CASE ready' # ready
    <3>1. /\ ready' = [ready EXCEPT ![u[1]] = @ \union {worker[u].inst}] /\ Break(u)
      BY <1>3, <2>4 DEF NextItem
    <3>2. worker'[u].pc = "pick"
      BY <3>1 DEF Break, IdleWorker, WorkerType, TypeOK
    <3>3. w # u /\ worker'[w] = worker[w]
      BY <2>1, <3>2 DEF Grouped
    <3>4. w[1] = u[1] => worker[w].inst # worker[u].inst
      BY <2>2, <3>3 DEF OneGroupEach, Grouped
    <3>5. \A f \in Flight : ready'[f] = ready[f] \/ (f = u[1] /\ ready'[f] = ready[f] \union {worker[u].inst})
      BY <1>0, <3>1 DEF LaneType, TypeOK
    <3>6. worker'[w].inst \notin ready'[w[1]]
      BY <1>0, <3>3, <3>4, <3>5 DEF OneGroupEach
    <3>7. \A v \in Worker : worker'[v].pc \in Grouped => worker'[v] = worker[v]
      BY <2>1, <3>2 DEF Grouped
    <3> QED  BY <3>3, <3>6, <3>7 DEF OneGroupEach
  <2> QED  BY <2>3, <2>4
<1>4. ASSUME NEW f \in Flight, Scan(f)
      PROVE  /\ worker'[w].inst \notin ready'[w[1]]
             /\ \A v \in Worker : v # w /\ v[1] = w[1] /\ worker'[v].pc \in Grouped =>
                  worker'[v].inst # worker'[w].inst
  <2>1. \A v \in Worker : worker'[v].pc \in Grouped => v[1] # f /\ worker'[v] = worker[v]
    BY <1>4 DEF Scan, IdleWorker, Grouped
  <2>2. \A g \in Flight : g # f => ready'[g] = ready[g]
    BY <1>4 DEF Scan, LaneType, TypeOK
  <2> QED  BY <1>0, <2>1, <2>2 DEF OneGroupEach
<1>5. ~Crash
  BY DEF Crash, NoWork, IdleWorker, Grouped
<1>6. ASSUME NEW f \in Flight, DropGroups(f) PROVE \A g \in Flight : ready'[g] \subseteq ready[g]
  BY <1>6 DEF DropGroups, LaneType, TypeOK
<1> QED
  BY <1>1, <1>2, <1>3, <1>4, <1>5, <1>6, ReadyMoves

LEMMA OneGroupEachStep ==
  ASSUME TypeOK, Possession, OneGroupEach, [Next]_vars PROVE OneGroupEach'
BY GroupStep, HoldsOfGroup DEF OneGroupEach

\* The flights and their phases.
PhaseMove ==
  \/ UNCHANGED <<flight, phase>>
  \/ Crash
  \/ /\ flight = None
     /\ \E f \in Flight : /\ phase[f] = "none" /\ flight' = f
                          /\ phase' = [phase EXCEPT ![f] = "scan"]
  \/ \E f \in Flight : Scan(f) /\ phase[f] = "scan" /\ phase' = [phase EXCEPT ![f] = "run"]
                       /\ flight' = flight
  \/ \E f \in Flight : phase[f] \in {"scan", "exit"} /\ phase' = [phase EXCEPT ![f] = "none"]
                       /\ flight' = Released(f)
  \/ \E f \in Flight : phase[f] = "run" /\ AllReturned(f) /\ flight' = flight
                       /\ phase' \in {[phase EXCEPT ![f] = "scan"], [phase EXCEPT ![f] = "exit"]}
  \/ \E f \in Flight : phase[f] = "orphan" /\ AllReturned(f) /\ flight' = flight
                       /\ phase' = [phase EXCEPT ![f] = "none"]
  \/ \E w \in Worker : /\ StorageError(w) /\ worker[w].pc # "done"
                       /\ worker' = [worker EXCEPT ![w] = IdleWorker]
                       /\ phase' = [phase EXCEPT ![w[1]] = "orphan"] /\ flight' = Released(w[1])

LEMMA PhaseMoves == ASSUME TypeOK, [Next]_vars PROVE PhaseMove
<1>1. ASSUME NEW b \in BOOLEAN, Flush(b) PROVE PhaseMove
  BY <1>1 DEF Flush, PhaseMove
<1>2. ASSUME NEW e \in Event, EnqueueCheck(e) PROVE PhaseMove
  BY <1>1, <1>2 DEF EnqueueCheck, PhaseMove
<1>3. CASE TimerFlush
  BY <1>1, <1>3 DEF TimerFlush, LaneType, TypeOK
<1>4. ASSUME NEW f \in Flight,
             Scan(f) \/ EndRound(f) \/ ReleaseFlight(f) \/ ReapOrphan(f) \/ ScanFail(f)
      PROVE  PhaseMove
  BY <1>4 DEF Scan, EndRound, ReleaseFlight, ReapOrphan, ScanFail, PhaseMove
<1>5. ASSUME NEW w \in Worker, StorageError(w) PROVE PhaseMove
  <2>1. CASE UNCHANGED <<phase, flight>>
    BY <2>1 DEF PhaseMove
  <2>2. CASE /\ worker[w].pc # "done" /\ worker' = [worker EXCEPT ![w] = IdleWorker]
             /\ phase' = [phase EXCEPT ![w[1]] = "orphan"] /\ flight' = Released(w[1])
    BY <1>5, <2>2 DEF PhaseMove
  <2> QED  BY <1>5, <2>1, <2>2 DEF StorageError
<1>6. CASE Crash
  BY <1>6 DEF PhaseMove
<1>7. CASE UNCHANGED <<flight, phase>>
  BY <1>7 DEF PhaseMove
<1> QED
  <2>1. ASSUME NEW e \in Event, \/ Enqueue(e) \/ EnqueueFail(e) \/ EnqueueWrite(e)
                                \/ EnqueueUndo(e) \/ Elapse(e)
        PROVE  UNCHANGED <<flight, phase>>
    BY <2>1 DEF Enqueue, EnqueueFail, EnqueueWrite, EnqueueUndo, Elapse, lane
  <2>2. ASSUME NEW w \in Worker, \/ Pick(w) \/ NextItem(w) \/ Read(w) \/ PostOk(w) \/ PostFail(w)
                                 \/ Unlink(w) \/ Rewrite(w) \/ Settle(w) \/ Bury(w)
        PROVE  UNCHANGED <<flight, phase>>
    BY <2>2 DEF Pick, NextItem, Read, PostOk, PostFail, Unlink, Rewrite, Settle, Bury,
      OthersUnchanged
  <2>3. ASSUME NEW i \in Instance, \/ BeginDiscard(i) \/ ListDirectory(i) \/ Sweep(i)
                                   \/ DiscardFail(i) \/ Open(i)
        PROVE  UNCHANGED <<flight, phase>>
    BY <2>3 DEF BeginDiscard, ListDirectory, Sweep, DiscardFail, Open, lane
  <2>4. ASSUME \/ BeginReplay \/ ReplayRead \/ ReplayWrite \/ ReplayCheck \/ ReplayUnlink
               \/ ReplayFail \/ Stop \/ UNCHANGED vars
        PROVE  UNCHANGED <<flight, phase>>
    BY <2>4 DEF BeginReplay, ReplayRead, ReplayWrite, ReplayCheck, ReplayUnlink, ReplayFail,
      Stop, vars, lane
  <2> QED
    BY Steps, <1>2, <1>3, <1>4, <1>5, <1>6, <1>7, <2>1, <2>2, <2>3, <2>4

LEMMA LockHeldStep == ASSUME TypeOK, LockHeld, [Next]_vars PROVE LockHeld'
<1>1. CASE Crash
  BY <1>1, NoneAssumption DEF Crash, LockHeld, NoWork, IdleWorker
<1>2. CASE ~Crash
  <2>0. PhaseMove /\ LaneType /\ LaneType'
    BY PhaseMoves, TypeStep DEF TypeOK
  <2>1. flight' # None => phase'[flight'] \in {"scan", "run", "exit"}
    BY <1>2, <2>0, NoneAssumption DEF PhaseMove, LockHeld, LaneType, Released, Worker
  <2>2. \A f \in Flight : phase'[f] \in {"scan", "run", "exit"} => flight' = f
    BY <1>2, <2>0, NoneAssumption DEF PhaseMove, LockHeld, LaneType, Released, Worker
  <2>3. ASSUME NEW w \in Worker, worker'[w].pc # "done" PROVE phase'[w[1]] \in {"run", "orphan"}
    <3>0. w[1] \in Flight
      BY DEF Worker
    <3>1. CASE worker[w].pc = "done"
      BY <2>3, <3>0, <3>1, WokenByScan DEF Scan, LaneType, TypeOK
    <3>2. CASE worker[w].pc # "done"
      <4>1. phase[w[1]] \in {"run", "orphan"} /\ ~AllReturned(w[1])
        BY <3>2 DEF LockHeld, AllReturned
      <4> QED  BY <1>2, <2>0, <3>0, <4>1 DEF PhaseMove, LaneType, Worker
    <3> QED  BY <3>1, <3>2
  <2> QED  BY <2>1, <2>2, <2>3 DEF LockHeld
<1> QED  BY <1>1, <1>2

LEMMA CalmBefore == ASSUME TypeOK, [Next]_vars, Calm' PROVE Calm
BY Grows DEF Calm, Bounded

\* The failed flight's other workers find no group.
LEMMA OrphanedIdle ==
  ASSUME TypeOK, OneGroupEach, Calm', [Next]_vars, NEW w \in Worker, StorageError(w),
         worker' = [worker EXCEPT ![w] = IdleWorker], worker[w].pc \in Grouped
  PROVE  /\ \A v \in Worker : v[1] = w[1] => worker'[v].pc \notin Grouped
         /\ ready'[w[1]] = {} \/ AllReturned(w[1])'
<1>0. /\ w[1] \in Flight /\ w[2] \in Slot /\ worker[w].inst \in Instance
      /\ \A v \in Worker : v = <<v[1], v[2]>> /\ v[2] \in Slot
  BY DEF Worker, WorkerType, TypeOK
<1>1. ready' = ready /\ worker'[w].pc = "done" /\ \A v \in Worker : v # w => worker'[v] = worker[v]
  BY DEF StorageError, IdleWorker, WorkerType, TypeOK
<1>2. spent'["error"] # 0
  BY DEF StorageError, Spend, Bounded, MemoryType, TypeOK
<1>3. CASE \A s, t \in Slot : s = t
  <2>1. \A v \in Worker : v[1] = w[1] => v = w
    BY <1>0, <1>3
  <2> QED  BY <1>1, <2>1 DEF AllReturned, Grouped
<1>4. CASE \A i, j \in Instance : i = j
  <2>1. \A v \in Worker : v[1] = w[1] /\ v # w => worker[v].pc \notin Grouped
    BY <1>0, <1>4 DEF OneGroupEach, WorkerType, TypeOK
  <2>2. ready[w[1]] = {}
    BY <1>0, <1>4 DEF OneGroupEach, LaneType, TypeOK
  <2> QED  BY <1>1, <2>1, <2>2 DEF Grouped
<1> QED  BY <1>2, <1>3, <1>4 DEF Calm

LEMMA OrphansIdleStep ==
  ASSUME TypeOK, OneGroupEach, Calm => OrphansIdle, Calm', [Next]_vars PROVE OrphansIdle'
<1> SUFFICES ASSUME NEW f \in Flight, phase'[f] = "orphan"
             PROVE  /\ \A w \in Worker : w[1] = f => worker'[w].pc \notin Grouped
                    /\ ready'[f] = {} \/ AllReturned(f)'
  BY DEF OrphansIdle
<1>1. OrphansIdle
  BY CalmBefore
<1>2. CASE phase[f] = "orphan"
  <2>1. ~Scan(f)
    BY <1>2 DEF Scan
  <2>2. \A w \in Worker : w[1] = f /\ worker[w].pc = "pick" => ready[f] = {}
    BY <1>1, <1>2 DEF OrphansIdle, AllReturned
  <2>3. ASSUME NEW w \in Worker, w[1] = f PROVE worker'[w].pc \notin Grouped
    <3>1. CASE ~Pick(w)
      BY <1>1, <1>2, <2>3, <3>1, StaysGrouped DEF OrphansIdle
    <3>2. CASE Pick(w)
      <4>1. ready[f] = {}
        BY <2>2, <2>3, <3>2 DEF Pick
      <4>2. worker' = [worker EXCEPT ![w] = IdleWorker]
        BY <2>3, <3>2, <4>1 DEF Pick
      <4> QED  BY <4>2 DEF IdleWorker, Grouped, WorkerType, TypeOK
    <3> QED  BY <3>1, <3>2
  <2>4. AllReturned(f) => AllReturned(f)'
    BY <2>1, WokenByScan DEF AllReturned
  <2>5. ready[f] = {} => ready'[f] = {}
    <3>1. CASE UNCHANGED ready \/ Crash
      BY <3>1 DEF Crash, NoGroups
    <3>2. ASSUME NEW g \in Flight, Scan(g) \/ DropGroups(g) PROVE ready[f] = {} => ready'[f] = {}
      BY <2>1, <3>2 DEF Scan, DropGroups, LaneType, TypeOK
    <3>3. ASSUME NEW w \in Worker, Pick(w) PROVE ready[f] = {} => ready'[f] = {}
      BY <3>3 DEF Pick, GroupTaken, LaneType, TypeOK, Worker
    <3>4. ASSUME NEW w \in Worker, NextItem(w) PROVE ready[f] = {} => ready'[f] = {}
      <4>1. w[1] # f
        BY <1>1, <1>2, <3>4 DEF NextItem, OrphansIdle, Grouped
      <4>2. ready' = ready \/ ready' = [ready EXCEPT ![w[1]] = @ \union {worker[w].inst}]
        BY <3>4 DEF NextItem
      <4> QED  BY <4>1, <4>2 DEF LaneType, TypeOK
    <3> QED  BY <3>1, <3>2, <3>3, <3>4, ReadyMoves
  <2> QED  BY <1>1, <1>2, <2>3, <2>4, <2>5 DEF OrphansIdle
<1>3. CASE phase[f] # "orphan"
  <2>0. PhaseMove /\ LaneType
    BY PhaseMoves DEF TypeOK
  <2>1. PICK w \in Worker : /\ StorageError(w) /\ worker[w].pc # "done"
                            /\ worker' = [worker EXCEPT ![w] = IdleWorker]
                            /\ phase' = [phase EXCEPT ![w[1]] = "orphan"]
    BY <1>3, <2>0 DEF PhaseMove, LaneType, Crash
  <2>2. w[1] = f
    BY <1>3, <2>0, <2>1 DEF LaneType, Worker
  <2>3. worker[w].pc \in Grouped
    BY <2>1 DEF StorageError, Grouped
  <2> QED  BY <2>1, <2>2, <2>3, OrphanedIdle
<1> QED  BY <1>2, <1>3

LEMMA LaneInit == Init => LaneInv
BY NoneAssumption DEF Init, LaneInv, OneGroupEach, LockHeld, OrphansIdle, NoWork, IdleWorker, Grouped

LEMMA LaneStep ==
  ASSUME TypeOK, RecordInv, LaneInv, [Next]_vars PROVE LaneInv'
<1>1. OneGroupEach' /\ LockHeld'
  BY OneGroupEachStep, LockHeldStep DEF LaneInv, RecordInv
<1>2. Calm' => OrphansIdle'
  BY OrphansIdleStep DEF LaneInv
<1> QED  BY <1>1, <1>2 DEF LaneInv

LEMMA LaneCorrect == Spec => [](TypeOK /\ RecordInv /\ LaneInv)
<1>1. TypeOK /\ RecordInv /\ LaneInv /\ [Next]_vars => LaneInv'
  BY LaneStep
<1> QED
  BY RecordCorrect, LaneInit, <1>1, PTL DEF Spec

\* While the lane is calm, whoever has a group is a worker of the flight under way.
LEMMA GroupedInFlight ==
  ASSUME TypeOK, LaneInv, Calm, NEW w \in Worker, worker[w].pc \in Grouped
  PROVE  phase[w[1]] = "run" /\ flight = w[1]
<1>1. w[1] \in Flight /\ worker[w].pc # "done"
  BY DEF Worker, Grouped
<1> QED  BY <1>1 DEF LaneInv, LockHeld, OrphansIdle

(* As long as no storage error has struck, a lane has one flight, a flight has *)
(* one request per instance, and the lock is held while a request runs; with   *)
(* one worker per flight or one instance, whatever errors strike.  The storage *)
(* run shows what an error does otherwise.                                     *)
THEOREM LaneIsSerial == Spec => [](Calm => LaneSerial)
<1>1. ASSUME TypeOK, LaneInv, Calm PROVE LaneSerial
  <2>1. \A w \in Worker : Posting(w) => worker[w].pc \in Holding /\ worker[w].pc \in Grouped
    BY DEF Posting, Holding, Grouped
  <2>2. LockCoversPosts
    BY <1>1, <2>1, GroupedInFlight DEF LockCoversPosts
  <2>3. OnePostPerInstance
    BY <1>1, <2>1, GroupedInFlight DEF OnePostPerInstance, LaneInv, OneGroupEach
  <2> QED  BY <2>2, <2>3 DEF LaneSerial
<1> QED
  BY <1>1, LaneCorrect, PTL

(***************************************************************************)
(* The order of deliveries                                                 *)
(***************************************************************************)
LEMMA TodoChanges ==
  ASSUME TypeOK, [Next]_vars
  PROVE  \/ UNCHANGED todo \/ Crash
         \/ \E f \in Flight : Scan(f) \/ EndRound(f) \/ ReapOrphan(f)
         \/ \E w \in Worker : NextItem(w)
<1>1. ASSUME NEW g \in Event, \/ Enqueue(g) \/ EnqueueFail(g) \/ EnqueueWrite(g)
                              \/ EnqueueCheck(g) \/ EnqueueUndo(g) \/ Elapse(g)
      PROVE  UNCHANGED todo
  BY <1>1 DEF Enqueue, EnqueueFail, EnqueueWrite, EnqueueCheck, EnqueueUndo, Elapse, lane
<1>2. ASSUME NEW g \in Flight, ReleaseFlight(g) \/ ScanFail(g) PROVE UNCHANGED todo
  BY <1>2 DEF ReleaseFlight, ScanFail
<1>3. ASSUME NEW w \in Worker, \/ Pick(w) \/ Read(w) \/ PostOk(w) \/ PostFail(w) \/ Unlink(w)
                               \/ Rewrite(w) \/ Settle(w) \/ Bury(w) \/ StorageError(w)
      PROVE  UNCHANGED todo
  BY <1>3 DEF Pick, Read, PostOk, PostFail, Unlink, Rewrite, Settle, Bury, StorageError
<1>4. ASSUME NEW j \in Instance, \/ BeginDiscard(j) \/ ListDirectory(j) \/ Sweep(j)
                                 \/ DiscardFail(j) \/ Open(j)
      PROVE  UNCHANGED todo
  BY <1>4 DEF BeginDiscard, ListDirectory, Sweep, DiscardFail, Open, lane
<1>5. ASSUME \/ BeginReplay \/ ReplayRead \/ ReplayWrite \/ ReplayCheck \/ ReplayUnlink
             \/ ReplayFail \/ TimerFlush \/ Stop \/ UNCHANGED vars
      PROVE  UNCHANGED todo
  BY <1>5 DEF BeginReplay, ReplayRead, ReplayWrite, ReplayCheck, ReplayUnlink, ReplayFail,
    TimerFlush, Stop, vars, lane
<1> QED  BY Steps, <1>1, <1>2, <1>3, <1>4, <1>5

\* Until the flight ends its round, the files of a group that are left to visit stay what
\* they are, unless the worker of the group takes one.
LEMMA TodoStays ==
  ASSUME TypeOK, [Next]_vars, NEW f \in Flight, NEW i \in Instance,
         \A w \in Worker : NextItem(w) => ~(w[1] = f /\ worker[w].inst = i),
         ~Scan(f), phase'[f] = "run"
  PROVE  todo'[f][i] = todo[f][i]
<1>1. ASSUME NEW w \in Worker, NextItem(w) PROVE todo'[f][i] = todo[f][i]
  <2>1. worker[w].pc = "item" /\ w[1] \in Flight /\ worker[w].inst \in Instance
    BY <1>1 DEF NextItem, Grouped, Worker, WorkerType, TypeOK
  <2>2. ~(w[1] = f /\ worker[w].inst = i)
    BY <1>1
  <2>3. \/ todo' = todo
        \/ \E g : todo' = [todo EXCEPT ![w[1]][worker[w].inst] = @ \ {g}]
    BY <1>1 DEF NextItem
  <2>4. ASSUME NEW g, todo' = [todo EXCEPT ![w[1]][worker[w].inst] = @ \ {g}]
        PROVE  todo'[f][i] = todo[f][i]
    BY <2>1, <2>2, <2>4 DEF LaneType, TypeOK
  <2> QED  BY <2>3, <2>4
<1>2. ASSUME NEW g \in Flight, Scan(g) PROVE todo'[f][i] = todo[f][i]
  BY <1>2 DEF Scan, LaneType, TypeOK
<1>3. ASSUME NEW g \in Flight, EndRound(g) \/ ReapOrphan(g) PROVE todo'[f][i] = todo[f][i]
  BY <1>3 DEF EndRound, ReapOrphan, DropGroups, LaneType, TypeOK
<1>4. ~Crash
  BY DEF Crash
<1> QED  BY <1>1, <1>2, <1>3, <1>4, TodoChanges

\* Nobody rewrites a file of a group that is up or whose worker does something else.
LEMMA NoRewriter ==
  ASSUME TypeOK, LaneInv, Calm, NEW f \in Flight, NEW i \in Instance, phase[f] = "run",
         \/ i \in ready[f]
         \/ \E w \in Worker : /\ w[1] = f /\ worker[w].inst = i
                              /\ worker[w].pc \in Grouped \ {"rewrite"},
         NEW v \in Worker, worker[v].pc = "rewrite"
  PROVE  InstOf[worker[v].ev] # i
<1>1. worker[v].pc \in Grouped /\ worker[v].pc \in Holding
  BY DEF Grouped, Holding
<1>2. flight = f /\ flight = v[1]
  BY <1>1, GroupedInFlight DEF LaneInv, LockHeld
<1> QED  BY <1>1, <1>2 DEF LaneInv, OneGroupEach

\* What came before x stays gone, unless a worker writes it again.
LEMMA GoneStays ==
  ASSUME TypeOK, RecordInv, [Next]_vars, NEW x \in Event, Written(x), NEW e \in Ahead(x)',
         \A w \in Worker : worker[w].pc = "rewrite" => InstOf[worker[w].ev] # InstOf[x]
  PROVE  /\ e \in Ahead(x) /\ e \in Event /\ InstOf[e] = InstOf[x] /\ e < x
         /\ Gone(e) => Gone(e)'
<1>1. e \in Ahead(x) /\ e \in prior[x]
  BY AcceptedMoves DEF Enqueue, Written, Ahead
<1>2. e \in accepted /\ e \in Event /\ InstOf[e] = InstOf[x] /\ e < x
  BY <1>1 DEF RecordInv, Calls, HistoryType, TypeOK
<1>3. producer[e].pc = "done"
  BY <1>2 DEF RecordInv, Calls
<1>4. \A w \in Worker : worker[w].ev = e => worker[w].pc # "rewrite"
  BY <1>2
<1>5. replay.ev = e /\ replay.pc = "write" => e \in buried
  BY DEF RecordInv, DeadLetters
<1>6. FileMove(e) /\ obsolete \subseteq obsolete' /\ buried \subseteq buried'
  BY <1>2, FileMoves, Grows
<1> QED  BY <1>1, <1>2, <1>3, <1>4, <1>5, <1>6 DEF FileMove, Gone

\* A group in order stays in order while its files are the same.
LEMMA OrderStays ==
  ASSUME TypeOK, RecordInv, [Next]_vars, NEW f \in Flight, NEW i \in Instance, NEW a, NEW b,
         InOrder(f, i, a), todo'[f][i] \subseteq todo[f][i],
         \A w \in Worker : worker[w].pc = "rewrite" => InstOf[worker[w].ev] # i,
         \A e \in todo[f][i] : e \in todo'[f][i] \/ e \in b,
         \A e \in a : e \in b \/ active[e] = None \/ active'[e] = None
  PROVE  InOrder(f, i, b)'
<1> SUFFICES ASSUME NEW x \in todo'[f][i], NEW e \in Ahead(x)'
             PROVE  e \in todo'[f][i] \/ e \in b \/ Gone(e)'
  BY DEF InOrder
<1>1. x \in Event /\ x \in todo[f][i] /\ Written(x) /\ InstOf[x] = i
  BY DEF RecordInv, Possession, LaneType, TypeOK
<1>2. e \in Ahead(x) /\ (Gone(e) => Gone(e)')
  BY <1>1, GoneStays
<1>3. e \in todo[f][i] \/ e \in a \/ Gone(e)
  BY <1>1, <1>2 DEF InOrder
<1> QED  BY <1>2, <1>3 DEF Gone

\* A group that is up is in order: as it was, just scanned, or given back by its worker.
LEMMA ReadyOrderStep ==
  ASSUME TypeOK, RecordInv, LaneInv, Calm, ReadyInOrder, WorkerInOrder, [Next]_vars,
         NEW f \in Flight, phase'[f] = "run", NEW i \in ready'[f]
  PROVE  InOrder(f, i, {})'
<1>0. i \in Instance /\ LaneType /\ LaneType' /\ todo'[f][i] \subseteq Event
  BY TypeStep DEF LaneType, TypeOK
<1>1. CASE Scan(f)
  <2>1. /\ todo'[f][i] = Present(active) \intersect EventsOf(i)
        /\ UNCHANGED <<active, prior, obsolete, buried>>
    BY <1>0, <1>1 DEF Scan, LaneType, files, history
  <2>2. ASSUME NEW x \in todo'[f][i], NEW e \in prior[x] PROVE e \in Event /\ InstOf[e] = i
    BY <2>1, <2>2 DEF RecordInv, Calls, HistoryType, TypeOK, EventsOf
  <2> QED  BY <2>1, <2>2 DEF InOrder, Ahead, Gone, Present, EventsOf
<1>2. CASE ~Scan(f)
  <2>1. phase[f] = "run"
    <3>1. PhaseMove
      BY PhaseMoves
    <3> QED  BY <1>0, <1>2, <3>1 DEF PhaseMove, LaneType, Worker, Crash
  <2>2. CASE i \in ready[f]
    <3>1. \A w \in Worker : NextItem(w) => ~(w[1] = f /\ worker[w].inst = i)
      BY <2>2 DEF NextItem, LaneInv, OneGroupEach, Grouped
    <3>2. todo'[f][i] = todo[f][i]
      BY <1>0, <1>2, <3>1, TodoStays
    <3>3. \A w \in Worker : worker[w].pc = "rewrite" => InstOf[worker[w].ev] # i
      BY <1>0, <2>1, <2>2, NoRewriter
    <3>4. InOrder(f, i, {})
      BY <2>1, <2>2 DEF ReadyInOrder
    <3> QED  BY <1>0, <3>2, <3>3, <3>4, OrderStays
  <2>3. CASE i \notin ready[f]
    <3>1. PICK w \in Worker : NextItem(w) /\ w[1] = f /\ worker[w].inst = i /\ UNCHANGED todo
      <4>1. ~Crash
        BY DEF Crash
      <4>2. ASSUME NEW g \in Flight, Scan(g) \/ DropGroups(g) PROVE FALSE
        <5>1. CASE DropGroups(g)
          BY <1>0, <2>3, <5>1 DEF DropGroups, LaneType
        <5>2. CASE Scan(g)
          <6>1. g # f
            BY <1>2, <5>2
          <6> QED  BY <1>0, <2>3, <5>2, <6>1 DEF Scan, LaneType
        <5> QED  BY <4>2, <5>1, <5>2
      <4>3. ASSUME NEW w \in Worker, Pick(w) PROVE FALSE
        <5>1. \/ ready' = ready
              \/ \E j : ready' = [ready EXCEPT ![w[1]] = @ \ {j}]
          BY <4>3 DEF Pick, GroupTaken
        <5>2. ready \in [Flight -> SUBSET Instance] /\ i \in ready'[f]
          BY <1>0 DEF LaneType
        <5> QED  BY <2>3, <5>1, <5>2
      <4>4. ASSUME NEW w \in Worker, NextItem(w)
            PROVE  w[1] = f /\ worker[w].inst = i /\ UNCHANGED todo
        <5>1. ready' = [ready EXCEPT ![w[1]] = @ \union {worker[w].inst}] /\ UNCHANGED todo
          BY <2>3, <4>4 DEF NextItem
        <5> QED  BY <1>0, <2>3, <5>1 DEF LaneType, Worker
      <4> QED  BY <2>3, <4>1, <4>2, <4>3, <4>4, ReadyMoves
    <3>2. worker[w].pc = "item"
      BY <3>1 DEF NextItem
    <3>3. InOrder(f, i, {})
      BY <3>1, <3>2 DEF WorkerInOrder
    <3>4. \A v \in Worker : worker[v].pc = "rewrite" => InstOf[worker[v].ev] # i
      BY <1>0, <2>1, <3>1, <3>2, NoRewriter DEF Grouped
    <3>5. todo'[f][i] = todo[f][i]
      BY <3>1
    <3> QED  BY <1>0, <3>3, <3>4, <3>5, OrderStays
  <2> QED  BY <2>2, <2>3
<1> QED  BY <1>1, <1>2

Visiting == {"item", "read", "post", "ack", "skip"}

\* The file a worker is at.
InHand(w) == IF worker[w].pc = "item" THEN {} ELSE {worker[w].ev}

\* A worker's group stays in order, from the time it takes it up.
LEMMA VisitInOrder ==
  ASSUME TypeOK, RecordInv, LaneInv, Calm, Calm', ReadyInOrder, WorkerInOrder, [Next]_vars,
         NEW w \in Worker, worker'[w].pc \in Visiting,
         NEW i, i = worker'[w].inst, NEW b, b = InHand(w)'
  PROVE  InOrder(w[1], i, b)'
<1> DEFINE f == w[1]
<1>0. f \in Flight /\ i \in Instance /\ TypeOK' /\ LaneType /\ worker'[w].pc \in Grouped
  BY TypeStep DEF Worker, Visiting, Grouped, WorkerType, TypeOK
<1>1. phase'[f] = "run"
  <2>1. LaneInv'
    BY LaneStep
  <2>2. worker'[w].pc # "done"
    BY DEF Visiting
  <2> QED  BY <1>0, <2>1, <2>2 DEF LaneInv, LockHeld, OrphansIdle
<1>2. CASE Pick(w)
  <2>1. PICK j \in ready[f] :
          worker' = [worker EXCEPT ![w] = [IdleWorker EXCEPT !.pc = "item", !.inst = j]]
    <3>1. worker' # [worker EXCEPT ![w] = IdleWorker]
      BY DEF IdleWorker, Visiting, WorkerType, TypeOK
    <3> QED  BY <1>2, <3>1 DEF Pick
  <2>2. i = j /\ worker'[w].pc = "item" /\ UNCHANGED <<todo, phase>>
    BY <1>2, <2>1 DEF IdleWorker, WorkerType, TypeOK, Pick, OthersUnchanged
  <2>3. phase[f] = "run"
    BY <1>1, <2>2
  <2>4. \A v \in Worker : worker[v].pc = "rewrite" => InstOf[worker[v].ev] # i
    BY <1>0, <2>1, <2>2, <2>3, NoRewriter
  <2>5. InOrder(f, i, {})
    BY <1>0, <2>1, <2>2, <2>3 DEF ReadyInOrder
  <2> QED  BY <1>0, <2>2, <2>4, <2>5, OrderStays DEF InHand
<1>3. CASE ~Pick(w)
  <2>1. worker[w].pc \in Grouped /\ worker[w].inst = i
    BY <1>0, <1>3, StaysGrouped
  <2>2. phase[f] = "run" /\ ~Scan(f)
    BY <1>0, <2>1, GroupedInFlight DEF Scan
  <2>3. worker[w].pc \in Visiting /\ InOrder(f, i, InHand(w))
    <3>1. WorkerMove(w)
      BY WorkerMoves
    <3>2. worker[w].pc \in Visiting
      BY <1>3, <3>1 DEF WorkerMove, Visiting
    <3> QED  BY <2>1, <3>2 DEF WorkerInOrder, InHand, Visiting
  <2>4. \A v \in Worker : worker[v].pc = "rewrite" => InstOf[worker[v].ev] # i
    BY <1>0, <2>1, <2>2, <2>3, NoRewriter DEF Visiting, Grouped
  <2>5. CASE NextItem(w)
    <3>0. ~Break(w)
      BY DEF Break, IdleWorker, Visiting, WorkerType, TypeOK
    <3>1. PICK x : todo' = [todo EXCEPT ![f][i] = @ \ {x}]
                   /\ worker' = [worker EXCEPT ![w].pc = "read", ![w].ev = x, ![w].sent = @ + 1]
      BY <2>1, <2>5, <3>0 DEF NextItem
    <3>2. todo'[f][i] = todo[f][i] \ {x} /\ worker'[w].pc = "read" /\ worker'[w].ev = x
      <4>1. todo \in [Flight -> [Instance -> SUBSET Event]] /\ f \in Flight /\ i \in Instance
        BY <1>0 DEF LaneType
      <4>2. todo'[f][i] = todo[f][i] \ {x}
        BY <3>1, <4>1
      <4>3. worker'[w].pc = "read" /\ worker'[w].ev = x
        BY <3>1 DEF WorkerType, TypeOK
      <4> QED  BY <4>2, <4>3
    <3>3. InHand(w) = {}
      BY <2>5 DEF NextItem, InHand
    <3>4. b = {x}
      BY <3>2 DEF InHand
    <3> QED  BY <1>0, <2>3, <2>4, <3>2, <3>3, <3>4, OrderStays
  <2>6. CASE ~NextItem(w)
    <3>1. \A v \in Worker : NextItem(v) => ~(v[1] = f /\ worker[v].inst = i)
      <4>0. \A v \in Worker : NextItem(v) => v # w
        BY <2>6
      <4>1. \A v \in Worker : NextItem(v) => v # w /\ worker[v].pc = "item"
        BY <4>0 DEF NextItem
      <4>2. worker[w].pc \in Grouped /\ worker[w].inst = i /\ w[1] = f
        BY <2>1, <2>3 DEF Visiting, Grouped
      <4> QED  BY <4>1, <4>2 DEF LaneInv, OneGroupEach, Grouped
    <3>2. todo'[f][i] = todo[f][i]
      BY <1>0, <1>1, <2>2, <3>1, TodoStays
    <3>3. \A e \in InHand(w) : e \in b \/ active[e] = None \/ active'[e] = None
      <4>1. WorkerMove(w)
        BY WorkerMoves
      <4> QED  BY <1>3, <2>3, <2>6, <4>1 DEF WorkerMove, InHand, Visiting
    <3> QED  BY <1>0, <2>3, <2>4, <3>2, <3>3, OrderStays
  <2> QED  BY <2>5, <2>6
<1> QED  BY <1>2, <1>3

\* What a worker is about to read comes first.
LEMMA ReadInOrder ==
  ASSUME TypeOK, RecordInv, LaneInv, Calm, WorkerInOrder, [Next]_vars,
         NEW w \in Worker, worker'[w].pc = "read", NEW e \in Ahead(worker[w].ev)'
  PROVE  Gone(e)'
<1> DEFINE x == worker'[w].ev
           i == worker[w].inst
<1>0. x \in Event /\ worker'[w].pc \in Grouped
  BY TypeStep DEF Grouped, Holding, WorkerType, TypeOK
<1>1. WorkerMove(w) /\ ~Pick(w)
  <2>1. WorkerMove(w)
    BY WorkerMoves
  <2>2. ASSUME Pick(w) PROVE FALSE
    <3>1. \/ worker' = [worker EXCEPT ![w] = IdleWorker]
          \/ \E j : worker' = [worker EXCEPT ![w] = [IdleWorker EXCEPT !.pc = "item", !.inst = j]]
      BY <2>2 DEF Pick
    <3>2. \A j : worker' # [worker EXCEPT ![w] = [IdleWorker EXCEPT !.pc = "item", !.inst = j]]
      BY DEF IdleWorker, WorkerType, TypeOK
    <3>3. worker' # [worker EXCEPT ![w] = IdleWorker]
      BY DEF IdleWorker, WorkerType, TypeOK
    <3> QED  BY <3>1, <3>2, <3>3
  <2> QED  BY <2>1, <2>2
<1>2. worker[w].pc \in Grouped \ {"rewrite"} /\ i \in Instance /\ w[1] \in Flight
      /\ InstOf[x] = i /\ Written(x)
  <2>1. worker[w].pc \in {"item", "read"} /\ i \in Instance /\ w[1] \in Flight
    BY <1>1 DEF WorkerMove, Worker, Grouped, WorkerType, TypeOK
  <2>2. CASE worker[w].pc = "item"
    <3>1. x \in todo[w[1]][i]
      BY <1>1, <2>2 DEF WorkerMove
    <3> QED  BY <2>1, <2>2, <3>1 DEF RecordInv, Possession, Grouped
  <2>3. CASE worker[w].pc = "read"
    <3>1. x = worker[w].ev
      BY <1>1, <2>3 DEF WorkerMove
    <3> QED  BY <2>1, <2>3, <3>1 DEF RecordInv, Possession, LaneInv, OneGroupEach, Grouped, Holding
  <2> QED  BY <2>1, <2>2, <2>3
<1>3. phase[w[1]] = "run"
  BY <1>2, GroupedInFlight
<1>4. \A v \in Worker : worker[v].pc = "rewrite" => InstOf[worker[v].ev] # i
  BY <1>2, <1>3, NoRewriter
<1>5. e \in Ahead(x) /\ e \in Event /\ e < x /\ (Gone(e) => Gone(e)')
  BY <1>0, <1>2, <1>4, GoneStays
<1>6. Gone(e)
  <2>1. CASE worker[w].pc = "read"
    BY <1>1, <1>5, <2>1 DEF WorkerMove, WorkerInOrder
  <2>2. CASE worker[w].pc # "read"
    <3>1. worker[w].pc = "item" /\ NextItem(w) /\ x \in todo[w[1]][i]
      BY <1>1, <2>2 DEF WorkerMove
    <3>2. \A g \in todo[w[1]][i] : x <= g
      <4>1. ~Break(w)
        BY <1>0 DEF Break, IdleWorker, Grouped, WorkerType, TypeOK
      <4>2. PICK y \in todo[w[1]][i] :
              /\ \A g \in todo[w[1]][i] : y <= g
              /\ worker' = [worker EXCEPT ![w].pc = "read", ![w].ev = y, ![w].sent = @ + 1]
        BY <3>1, <4>1 DEF NextItem
      <4>3. worker'[w].ev = y
        BY <4>2 DEF WorkerType, TypeOK
      <4> QED  BY <4>2, <4>3
    <3>3. e \in todo[w[1]][i] \/ Gone(e)
      BY <1>5, <3>1 DEF WorkerInOrder, InOrder
    <3>4. ~(x <= e)
      <4>1. x \in Nat /\ e \in Nat /\ e < x
        BY <1>0, <1>5, EventAssumption
      <4> QED  BY <4>1
    <3> QED  BY <3>2, <3>3, <3>4
  <2> QED  BY <2>1, <2>2
<1> QED  BY <1>5, <1>6

LEMMA OrderInit == Init => OrderInv
BY DEF Init, OrderInv, ReadyInOrder, WorkerInOrder, NoWork, IdleWorker

LEMMA OrderStep ==
  ASSUME TypeOK, RecordInv, LaneInv, OrderInv, [Next]_vars PROVE OrderInv'
<1> SUFFICES ASSUME Calm' PROVE ReadyInOrder' /\ WorkerInOrder'
  BY DEF OrderInv
<1>1. Calm /\ ReadyInOrder /\ WorkerInOrder
  BY CalmBefore DEF OrderInv
<1>2. ReadyInOrder'
  BY <1>1, ReadyOrderStep DEF ReadyInOrder
<1>3. \A w \in Worker : worker'[w].pc \in Visiting =>
        \A i, b : i = worker'[w].inst /\ b = InHand(w)' => InOrder(w[1], i, b)'
  BY <1>1, VisitInOrder
<1>4. \A w \in Worker : worker'[w].pc = "read" => \A e \in Ahead(worker[w].ev)' : Gone(e)'
  BY <1>1, ReadInOrder
<1>5. \A w \in Worker : worker'[w].pc \in Visiting => InOrder(w[1], worker[w].inst, InHand(w))'
  BY <1>3 DEF InOrder
<1> QED  BY <1>2, <1>4, <1>5 DEF WorkerInOrder, Visiting, InHand

LEMMA OrderCorrect == Spec => [](TypeOK /\ OrderInv)
<1>1. TypeOK /\ RecordInv /\ LaneInv /\ OrderInv /\ [Next]_vars => OrderInv'
  BY OrderStep
<1> QED
  BY LaneCorrect, OrderInit, <1>1, PTL DEF Spec

\* No storage error ever, or WEBHOOK_CONCURRENCY is 1, or there is one instance.
AlwaysCalm ==
  \/ \A limit \in Limits : limit["error"] = 0
  \/ \A s, t \in Slot : s = t
  \/ \A i, j \in Instance : i = j

LEMMA NoErrorYet ==
  ASSUME \A limit \in Limits : limit["error"] = 0 PROVE Spec => [](spent["error"] = 0)
<1>1. Init => spent["error"] = 0
  BY DEF Init, Bounded
<1>2. ASSUME TypeOK, TypeOK', [Next]_vars, spent["error"] = 0 PROVE (spent["error"] = 0)'
  <2>1. CASE UNCHANGED spent
    BY <1>2, <2>1
  <2>2. ASSUME NEW limit \in Limits, \A j \in Bounded : spent'[j] <= limit[j]
        PROVE  spent'["error"] = 0
    BY <1>2, <2>2 DEF MemoryType, TypeOK, Bounded
  <2> QED  BY <1>2, <2>1, <2>2, Grows
<1> QED  BY <1>1, <1>2, TypeCorrect, PTL DEF Spec

(* Retries stay ordered: an event is not sent while an event of the same       *)
(* instance that had been accepted before it waits in the directory, wherever  *)
(* events of a rescan, stamped when their pages were planned, come in between; *)
(* they alone go before a waiting event that is stamped after them - provided  *)
(* no storage error strikes, or one worker or one instance is all there is.    *)
(* The storage run shows how an error breaks it: the flight that rejects is    *)
(* forgotten while its other workers go on, and a second one starts.           *)
THEOREM RetriesStayOrdered ==
  ASSUME AlwaysCalm PROVE Spec => OrderedRetries
<1>1. Spec => []Calm
  <2>1. CASE \A limit \in Limits : limit["error"] = 0
    <3>1. Spec => [](spent["error"] = 0)
      BY <2>1, NoErrorYet
    <3>2. spent["error"] = 0 => Calm
      BY DEF Calm
    <3> QED  BY <3>1, <3>2, PTL
  <2>2. CASE (\A s, t \in Slot : s = t) \/ (\A i, j \in Instance : i = j)
    <3>1. Calm
      BY <2>2 DEF Calm
    <3> QED  BY <3>1, PTL
  <2> QED  BY <2>1, <2>2 DEF AlwaysCalm
<1>2. ASSUME TypeOK, TypeOK', OrderInv, Calm, [Next]_vars, NEW w \in Worker, StartsPost(w),
             NEW e \in Ahead(worker'[w].ev)
      PROVE  active[e] = None \/ e \in obsolete \union buried
  <2>1. Read(w)
    BY <1>2, OnlyReadPosts
  <2>2. worker[w].pc = "read" /\ worker'[w].ev = worker[w].ev
    BY <1>2, <2>1 DEF Read, StartsPost, Posting, Goto, Continue, Break, IdleWorker, WorkerType,
      TypeOK
  <2>3. Gone(e)
    BY <1>2, <2>2 DEF OrderInv, WorkerInOrder
  <2> QED  BY <2>3 DEF Gone
<1>3. TypeOK /\ TypeOK' /\ OrderInv /\ Calm /\ [Next]_vars =>
        [\A w \in Worker : StartsPost(w) =>
           \A e \in Ahead(worker'[w].ev) : active[e] = None \/ e \in obsolete \union buried]_vars
  BY <1>2
<1> QED
  BY <1>1, <1>3, OrderCorrect, TypeCorrect, PTL DEF Spec, OrderedRetries
-----------------------------------------------------------------------------
(***************************************************************************)
(* What discardInstance leaves                                             *)
(***************************************************************************)
\* The discardInstance call of i.
DiscardMove(i) ==
  LET old == discard[i]
      new == discard'[i]
  IN
  \/ new = old
  \/ new.pc \in {"listActive", "failed"} \/ Crash
  \/ /\ old.pc = "listActive" /\ new.pc = "sweepActive"
     /\ new.left = Present(active) \intersect EventsOf(i) /\ UNCHANGED files
  \/ /\ old.pc = "listDead" /\ new.pc = "sweepDead"
     /\ new.left = Present(dead) \intersect EventsOf(i) /\ UNCHANGED files
  \/ \E e \in old.left :
       /\ new.pc = old.pc /\ new.left = old.left \ {e}
       /\ \/ old.pc = "sweepActive" /\ active' = Swept(i, e, active)
          \/ old.pc = "sweepDead" /\ dead' = Swept(i, e, dead)
  \/ /\ old.left = {}
     /\ \/ old.pc = "sweepActive" /\ new.pc = "listDead"
        \/ old.pc = "sweepDead" /\ new.pc = "idle"

LEMMA DiscardMoves == ASSUME TypeOK, [Next]_vars, NEW i \in Instance PROVE DiscardMove(i)
<1>1. CASE UNCHANGED discard \/ Crash
  BY <1>1 DEF DiscardMove
<1>2. ASSUME NEW j \in Instance, BeginDiscard(j) \/ DiscardFail(j) PROVE DiscardMove(i)
  BY <1>2 DEF BeginDiscard, DiscardFail, DiscardMove, ActorType, TypeOK
<1>3. ASSUME NEW j \in Instance, ListDirectory(j) PROVE DiscardMove(i)
  BY <1>3 DEF ListDirectory, DiscardMove, ActorType, TypeOK
<1>4. ASSUME NEW j \in Instance, Sweep(j) PROVE DiscardMove(i)
  <2>1. CASE i # j
    <3>1. \/ \E e : discard' = [discard EXCEPT ![j].left = @ \ {e}]
          \/ discard' = [discard EXCEPT ![j].pc = IF @ = "sweepActive" THEN "listDead" ELSE "idle"]
      BY <1>4 DEF Sweep
    <3> QED  BY <2>1, <3>1 DEF DiscardMove, ActorType, TypeOK
  <2>2. ASSUME NEW e \in discard[i].left, discard' = [discard EXCEPT ![i].left = @ \ {e}]
        PROVE  discard'[i].pc = discard[i].pc /\ discard'[i].left = discard[i].left \ {e}
    BY <2>2 DEF ActorType, TypeOK
  <2>3. CASE i = j /\ \E e \in discard[i].left :
                        /\ discard' = [discard EXCEPT ![i].left = @ \ {e}]
                        /\ \/ discard[i].pc = "sweepActive" /\ active' = Swept(i, e, active)
                           \/ discard[i].pc = "sweepDead" /\ dead' = Swept(i, e, dead)
    BY <2>2, <2>3 DEF DiscardMove
  <2>4. CASE i = j /\ discard[i].left = {} /\ discard' =
               [discard EXCEPT ![i].pc = IF @ = "sweepActive" THEN "listDead" ELSE "idle"]
    BY <1>4, <2>4 DEF Sweep, DiscardMove, ActorType, TypeOK
  <2> QED  BY <1>4, <2>1, <2>3, <2>4 DEF Sweep
<1> QED
  <2>1. ASSUME NEW e \in Event, \/ Enqueue(e) \/ EnqueueFail(e) \/ EnqueueWrite(e)
                                \/ EnqueueCheck(e) \/ EnqueueUndo(e) \/ Elapse(e)
        PROVE  UNCHANGED discard
    BY <2>1 DEF Enqueue, EnqueueFail, EnqueueWrite, EnqueueCheck, EnqueueUndo, Elapse, callers
  <2>2. ASSUME NEW f \in Flight,
               Scan(f) \/ EndRound(f) \/ ReleaseFlight(f) \/ ReapOrphan(f) \/ ScanFail(f)
        PROVE  UNCHANGED discard
    BY <2>2 DEF Scan, EndRound, ReleaseFlight, ReapOrphan, ScanFail, callers
  <2>3. ASSUME NEW w \in Worker, \/ Pick(w) \/ NextItem(w) \/ Read(w) \/ PostOk(w) \/ PostFail(w)
                                 \/ Unlink(w) \/ Rewrite(w) \/ Settle(w) \/ Bury(w)
                                 \/ StorageError(w)
        PROVE  UNCHANGED discard
    BY <2>3 DEF Pick, NextItem, Read, PostOk, PostFail, Unlink, Rewrite, Settle, Bury,
      StorageError, OthersUnchanged, callers
  <2>4. ASSUME NEW j \in Instance, Open(j) PROVE UNCHANGED discard
    BY <2>4 DEF Open, callers
  <2>5. ASSUME \/ BeginReplay \/ ReplayRead \/ ReplayWrite \/ ReplayCheck \/ ReplayUnlink
               \/ ReplayFail \/ TimerFlush \/ Stop \/ UNCHANGED vars
        PROVE  UNCHANGED discard
    BY <2>5 DEF BeginReplay, ReplayRead, ReplayWrite, ReplayCheck, ReplayUnlink, ReplayFail,
      TimerFlush, Stop, vars, callers
  <2> QED  BY Steps, <1>1, <1>2, <1>3, <1>4, <2>1, <2>2, <2>3, <2>4, <2>5

\* Only the beginning of a discardInstance call makes old work of an event.
LEMMA StaleSince ==
  ASSUME TypeOK, [Next]_vars, NEW e \in Event, Stale(e)', discard'[InstOf[e]].pc # "listActive"
  PROVE  Stale(e) /\ ~Crash
<1>0. InstOf[e] \in Instance
  BY InstanceAssumption
<1>1. ~Crash
  BY <1>0 DEF Crash, Stale
<1>2. epoch'[InstOf[e]] = epoch[InstOf[e]]
  <2>1. ASSUME NEW i \in Instance, BeginDiscard(i) PROVE epoch'[InstOf[e]] = epoch[InstOf[e]]
    <3>1. i # InstOf[e]
      BY <1>0, <2>1 DEF BeginDiscard, ActorType, TypeOK
    <3> QED  BY <1>0, <2>1, <3>1 DEF BeginDiscard, MemoryType, TypeOK
  <2> QED  BY <1>1, <2>1, EpochMoves
<1>3. producer'[e].epoch = producer[e].epoch
  <2>1. ProducerMove(e)
    BY ProducerMoves
  <2> QED  BY <1>0, <1>2, <2>1 DEF ProducerMove, Stale, ActorType, TypeOK
<1> QED  BY <1>1, <1>2, <1>3 DEF Stale

\* discardInstance deals with an old file by leaving none.
LEMMA PastSince ==
  ASSUME TypeOK, OneEpoch, [Next]_vars, NEW e \in Event, Stale(e)', Past(e)'
  PROVE  Stale(e) /\ ~Crash /\ (Past(e) \/ active'[e] = None)
<1>0. InstOf[e] \in Instance /\ e \in EventsOf(InstOf[e])
  BY InstanceAssumption DEF EventsOf
<1>1. Stale(e) /\ ~Crash
  BY StaleSince DEF Past
<1>2. ASSUME ~Past(e) PROVE active'[e] = None
  <2>1. DiscardMove(InstOf[e])
    BY <1>0, DiscardMoves
  <2>2. CASE discard[InstOf[e]].pc = "listActive" /\ e \notin Present(active) /\ UNCHANGED files
    BY <2>2 DEF Present, files
  <2>3. CASE discard[InstOf[e]].pc = "sweepActive" /\ active' = Swept(InstOf[e], e, active)
    <3>1. active[e] # None => Obsolete(InstOf[e], e, active[e])
      BY <1>1, EpochOfCopy DEF Stale, Obsolete
    <3> QED  BY <2>3, <3>1 DEF Swept, FilesType, TypeOK
  <2> QED  BY <1>0, <1>1, <1>2, <2>1, <2>2, <2>3 DEF DiscardMove, Past
<1> QED  BY <1>1, <1>2

LEMMA PastDeadSince ==
  ASSUME TypeOK, OneEpoch, [Next]_vars, NEW e \in Event, Stale(e)', PastDead(e)'
  PROVE  Stale(e) /\ ~Crash /\ (PastDead(e) \/ dead'[e] = None)
<1>0. InstOf[e] \in Instance /\ e \in EventsOf(InstOf[e])
  BY InstanceAssumption DEF EventsOf
<1>1. Stale(e) /\ ~Crash
  BY StaleSince DEF PastDead
<1>2. ASSUME ~PastDead(e) PROVE dead'[e] = None
  <2>1. DiscardMove(InstOf[e])
    BY <1>0, DiscardMoves
  <2>2. CASE discard[InstOf[e]].pc = "listDead" /\ e \notin Present(dead) /\ UNCHANGED files
    BY <2>2 DEF Present, files
  <2>3. CASE discard[InstOf[e]].pc = "sweepDead" /\ dead' = Swept(InstOf[e], e, dead)
    <3>1. dead[e] # None => Obsolete(InstOf[e], e, dead[e])
      BY <1>1, EpochOfCopy DEF Stale, Obsolete
    <3> QED  BY <2>3, <3>1 DEF Swept, FilesType, TypeOK
  <2> QED  BY <1>0, <1>1, <1>2, <2>1, <2>2, <2>3 DEF DiscardMove, PastDead
<1> QED  BY <1>1, <1>2

\* An actor that will take an old file away again goes on until it has.
LEMMA ReplayTakesBack ==
  ASSUME TypeOK, OneEpoch, [Next]_vars, ~Cut, NEW e \in Event, Stale(e),
         Replaying(e, {"check", "undo"}), active'[e] # None
  PROVE  Replaying(e, {"check", "undo"})'
<1>1. ReplayMove
  BY ReplayMoves
<1>2. replay.pc = "check" => Discarded(e, replay.rec)
  BY DiscardedIsStale DEF Replaying
<1> QED  BY <1>1, <1>2 DEF ReplayMove, Replaying

LEMMA WorkerTakesBack ==
  ASSUME TypeOK, OneEpoch, LockHeld, [Next]_vars, ~Cut, NEW e \in Event, Stale(e), NEW w \in Worker,
         worker[w].ev = e, worker[w].pc \in {"settle", "drop"}, active'[e] # None
  PROVE  worker'[w].ev = e /\ worker'[w].pc \in {"settle", "drop"}
<1>1. WorkerMove(w)
  BY WorkerMoves
<1>2. worker[w].pc = "settle" => Discarded(e, worker[w].rec)
  BY DiscardedIsStale DEF Reading
<1>3. phase[w[1]] # "scan"
  BY DEF LockHeld
<1> QED  BY <1>1, <1>2, <1>3 DEF WorkerMove

LEMMA CallTakesBack ==
  ASSUME TypeOK, [Next]_vars, ~Cut, NEW e \in Event, Stale(e),
         producer[e].pc \in {"check", "undo"}, active'[e] # None
  PROVE  producer'[e].pc \in {"check", "undo"}
<1>1. ProducerMove(e)
  BY ProducerMoves
<1> QED  BY <1>1 DEF ProducerMove, Superseded, Stale

LEMMA ReappearedStep ==
  ASSUME TypeOK, RecordInv, LaneInv, Reappeared, [Next]_vars, ~Cut PROVE Reappeared'
<1> SUFFICES ASSUME NEW e \in Event, Stale(e)', Past(e)', active'[e] # None
             PROVE  \/ producer'[e].pc \in {"check", "undo"}
                    \/ \E w \in Worker : worker'[w].ev = e /\ worker'[w].pc \in {"settle", "drop"}
                    \/ Replaying(e, {"check", "undo"})'
  BY DEF Reappeared
<1>1. Stale(e) /\ Past(e) /\ OneEpoch
  BY PastSince DEF RecordInv
<1>2. CASE active[e] # None
  <2>1. CASE producer[e].pc \in {"check", "undo"}
    BY <1>1, <2>1, CallTakesBack
  <2>2. ASSUME NEW w \in Worker, worker[w].ev = e, worker[w].pc \in {"settle", "drop"}
        PROVE  worker'[w].ev = e /\ worker'[w].pc \in {"settle", "drop"}
    BY <1>1, <2>2, WorkerTakesBack DEF LaneInv
  <2>3. CASE Replaying(e, {"check", "undo"})
    BY <1>1, <2>3, ReplayTakesBack
  <2> QED  BY <1>1, <1>2, <2>1, <2>2, <2>3 DEF Reappeared
<1>3. CASE active[e] = None
  <2>1. FileMove(e)
    BY FileMoves
  <2> QED  BY <1>3, <2>1 DEF FileMove, Replaying
<1> QED  BY <1>2, <1>3

LEMMA NotBuriedStep ==
  ASSUME TypeOK, RecordInv, LaneInv, NotBuried, [Next]_vars, ~Cut, spent["error"] = 0
  PROVE  NotBuried'
<1> SUFFICES ASSUME NEW w \in Worker, worker'[w].pc = "bury", NEW e, e = worker'[w].ev,
                    Stale(e)', Past(e)', active'[e] # None
             PROVE  Replaying(e, {"check", "undo"})'
  BY DEF NotBuried
<1>0. e \in Event
  BY TypeStep DEF WorkerType, TypeOK, Holding, Grouped
<1>1. Stale(e) /\ Past(e) /\ OneEpoch
  BY <1>0, PastSince DEF RecordInv
<1>2. worker[w].pc = "bury" /\ worker[w].ev = e
  <2>1. WorkerMove(w)
    BY WorkerMoves
  <2>2. worker[w].ev = e /\ worker[w].pc = "settle" => Discarded(e, worker[w].rec)
    BY <1>0, <1>1, DiscardedIsStale DEF Reading
  <2> QED  BY <2>1, <2>2 DEF WorkerMove
<1>3. CASE active[e] # None
  BY <1>0, <1>1, <1>2, <1>3, ReplayTakesBack DEF NotBuried
<1>4. CASE active[e] = None
  <2>1. FileMove(e)
    BY <1>0, FileMoves
  <2>2. producer[e].pc # "write"
    BY <1>2 DEF RecordInv, Possession, Written, Holding, Grouped
  <2>3. ASSUME NEW v \in Worker, worker[v].ev = e, worker[v].pc = "rewrite" PROVE FALSE
    <3>1. Calm
      BY DEF Calm
    <3>2. v[1] = w[1]
      BY <1>2, <2>3, <3>1, GroupedInFlight DEF Grouped
    <3> QED  BY <1>2, <2>3, <3>2 DEF LaneInv, OneGroupEach, Grouped, Holding
  <2> QED  BY <1>4, <2>1, <2>2, <2>3 DEF FileMove, Replaying
<1> QED  BY <1>3, <1>4

LEMMA DeadSweptStep ==
  ASSUME TypeOK, RecordInv, NotBuried, DeadSwept, [Next]_vars, ~Cut PROVE DeadSwept'
<1> SUFFICES ASSUME NEW e \in Event, Stale(e)', PastDead(e)', dead'[e] # None
             PROVE  Replaying(e, {"write", "check", "undo", "clear"})'
  BY DEF DeadSwept
<1>1. Stale(e) /\ PastDead(e) /\ Past(e)
  BY PastDeadSince DEF RecordInv, Past, PastDead
<1>2. Replaying(e, {"write", "check", "undo", "clear"})
  <2>1. CASE dead[e] # None
    BY <1>1, <2>1 DEF DeadSwept
  <2>2. CASE dead[e] = None
    <3>1. FileMove(e)
      BY FileMoves
    <3>2. PICK w \in Worker : worker[w].ev = e /\ worker[w].pc = "bury" /\ active[e] # None
      BY <2>2, <3>1 DEF FileMove
    <3> QED  BY <1>1, <3>2 DEF NotBuried, Replaying
  <2> QED  BY <2>1, <2>2
<1>3. ReplayMove
  BY ReplayMoves
<1> QED  BY <1>2, <1>3 DEF ReplayMove, Replaying

LEMMA DiscardInit == Init => DiscardInv
BY DEF Init, DiscardInv, Reappeared, NotBuried, DeadSwept, NoFiles, NoWork, IdleWorker

LEMMA DiscardInvStep ==
  ASSUME TypeOK, RecordInv, LaneInv, DiscardInv, [Next]_vars PROVE DiscardInv'
<1> SUFFICES ASSUME spent'["error"] = 0 PROVE Reappeared' /\ NotBuried' /\ DeadSwept'
  BY DEF DiscardInv
<1>1. spent["error"] = 0 /\ Reappeared /\ NotBuried /\ DeadSwept
  BY Grows DEF DiscardInv, Bounded
<1>2. CASE Crash
  BY <1>2, InstanceAssumption
    DEF Crash, Reappeared, NotBuried, DeadSwept, Stale, NoWork, IdleWorker
<1>3. CASE ~Crash
  <2>1. ~Cut
    BY <1>3 DEF Cut
  <2> QED  BY <1>1, <2>1, ReappearedStep, NotBuriedStep, DeadSweptStep
<1> QED  BY <1>2, <1>3

(* As long as no file operation has failed, discardInstance leaves nothing of  *)
(* the closed connection in the directory or among the dead letters, but what  *)
(* another actor is about to remove.                                           *)
THEOREM ClosuresLeaveNothing == Spec => []DiscardComplete
<1>1. TypeOK /\ RecordInv /\ LaneInv /\ DiscardInv /\ [Next]_vars => DiscardInv'
  BY DiscardInvStep
<1>2. ASSUME TypeOK, RecordInv, DiscardInv PROVE DiscardComplete
  <2> SUFFICES ASSUME spent["error"] = 0, NEW e \in Event, epoch[InstOf[e]] # 0
      PROVE /\ (/\ discard[InstOf[e]].pc \in {"idle", "listDead", "sweepDead"}
                /\ Obsolete(InstOf[e], e, active[e])) => Handled(e)
            /\ (discard[InstOf[e]].pc = "idle" /\ Obsolete(InstOf[e], e, dead[e])) =>
                 replay.ev = e /\ replay.pc \in {"write", "check", "undo", "clear"}
    BY DEF DiscardComplete
  <2>1. \/ Obsolete(InstOf[e], e, active[e]) \/ Obsolete(InstOf[e], e, dead[e]) => Stale(e)
    BY <1>2, EpochOfCopy DEF RecordInv, Obsolete, Stale
  <2>2. ASSUME Obsolete(InstOf[e], e, active[e]),
               discard[InstOf[e]].pc \in {"idle", "listDead", "sweepDead"}
        PROVE  Handled(e)
    <3>1. Stale(e) /\ Past(e) /\ active[e] # None
      BY <2>1, <2>2 DEF Past, Obsolete
    <3> QED  BY <1>2, <3>1 DEF DiscardInv, Reappeared, Handled, Replaying
  <2>3. ASSUME Obsolete(InstOf[e], e, dead[e]), discard[InstOf[e]].pc = "idle"
        PROVE  replay.ev = e /\ replay.pc \in {"write", "check", "undo", "clear"}
    <3>1. Stale(e) /\ PastDead(e) /\ dead[e] # None
      BY <2>1, <2>3 DEF PastDead, Obsolete
    <3> QED  BY <1>2, <3>1 DEF DiscardInv, DeadSwept, Replaying
  <2> QED  BY <2>2, <2>3
<1> QED
  BY <1>1, <1>2, DiscardInit, LaneCorrect, PTL DEF Spec

(* Together: without crashes, what a closure cancels is recognisable as old    *)
(* wherever a copy of it is, and goes away.  A crash forgets the epochs, and   *)
(* with them what had been cancelled.                                          *)
THEOREM ClosuresAreComplete ==
  ASSUME NoCrash PROVE Spec => []ClosuresCancel
<1>1. CancelledIsStale /\ DiscardComplete => ClosuresCancel
  BY DEF ClosuresCancel
<1> QED
  BY <1>1, CancelledStaysStale, ClosuresLeaveNothing, PTL
=============================================================================
