------------------------ MODULE BatchSubmissionProofs ------------------------
(***************************************************************************)
(* Theorems about BatchSubmission, for every set of blocks, every batch    *)
(* size, every chain settled before, and any number of blocks and faults.  *)
(* Three inductive invariants carry them: IInv; StoredInv, that a batch    *)
(* agrees with the store; and OneBatchInv, that one batch is on its way at *)
(* a time, which needs a node that is Reliable.  First, every step         *)
(* preserves IInv: start and end of the process, produceBlock, SubmitLoop, *)
(* the settlement client, the sync loops and the hub; then StoredInv.      *)
(***************************************************************************)
EXTENDS BatchSubmission, TLAPS

-----------------------------------------------------------------------------
(* Data *)

LEMMA BatchFields ==
  ASSUME NEW b \in Batches
  PROVE  /\ b.StartHeight \in Nat
         /\ b.EndHeight \in Nat
         /\ b.Blocks \in Seq(Blocks)
  BY Zenon DEF Batches

LEMMA HeadTail ==
  ASSUME NEW S, NEW q \in Seq(S), q # <<>>
  PROVE  Head(q) \in S /\ Tail(q) \in Seq(S)
  OBVIOUS

LEMMA HubHeightIsNat ==
  ASSUME hub \in Seq(Batches)
  PROVE  HubHeight \in Nat
<1>1. CASE hub = <<>>
  BY <1>1, Zenon DEF HubHeight, LastHeight
<1>2. CASE hub # <<>>
  <2>1. hub[Len(hub)] \in Batches
    BY <1>2
  <2> QED
    BY <1>2, <2>1, BatchFields, Zenon DEF HubHeight, LastHeight
<1> QED
  BY <1>1, <1>2, Zenon

LEMMA HubHeightUnchanged ==
  ASSUME UNCHANGED hub
  PROVE  HubHeight' = HubHeight
  BY Zenon DEF HubHeight, LastHeight

-----------------------------------------------------------------------------
(* Steps that leave a part of the invariant alone *)

LEMMA StoreStays ==
  ASSUME StoreInv, UNCHANGED <<store, production>>
  PROVE  StoreInv'
  BY Zenon DEF StoreInv, store, production

\* The batch at hand stays sound while the store, the DA layer and the hub grow.
LEMMA SubmitStays ==
  ASSUME SubmitInv, UNCHANGED submitLoop,
         HubHeight \in Nat, HubHeight' \in Nat, HubHeight <= HubHeight',
         da \subseteq da',
         Len(stored) \in Nat, Len(stored') \in Nat, Len(stored) <= Len(stored')
  PROVE  SubmitInv'
<1>1. CASE batch = None
  BY <1>1, Zenon DEF SubmitInv, submitLoop
<1>2. CASE batch \in Batches
  <2>1. batch.StartHeight \in Nat /\ batch.EndHeight \in Nat
    BY <1>2, BatchFields, Zenon
  <2> QED
    BY <1>2, <2>1 DEF SubmitInv, submitLoop
<1> QED
  BY <1>1, <1>2, Zenon DEF SubmitInv

LEMMA HubStays ==
  ASSUME HubInv, UNCHANGED <<hub, hubMempool>>, da' \subseteq Batches, da \subseteq da'
  PROVE  HubInv'
<1>1. HubHeight' = HubHeight
  BY HubHeightUnchanged, Zenon
<1> QED
  BY <1>1, Zenon DEF HubInv, Covered, Sound

LEMMA HeightsStay ==
  ASSUME HeightsInv,
         UNCHANGED <<syncTarget, latestHeight, syncLoops, queue, handling, hubEvents>>,
         UNCHANGED hub
  PROVE  HeightsInv'
<1>1. HubHeight' = HubHeight
  BY HubHeightUnchanged, Zenon
<1> QED
  BY <1>1, Zenon DEF HeightsInv, syncLoops, convertToNewBatchEvent

LEMMA ControlStays ==
  ASSUME ControlInv,
         up' \in {"up", "down", "panicked"}, UNCHANGED <<listening, batchInProcess>>,
         UNCHANGED <<emptyCh, target, open>>,
         UNCHANGED faults \/ \E f \in FaultKinds : Fault(f)
  PROVE  ControlInv'
<1>1. faults' \in 0..MaxFaults
  BY BatchAssumption DEF ControlInv, Fault
<1> QED
  BY <1>1, Zenon DEF ControlInv

\* The facts about numbers that the steps below share.
LEMMA Numbers ==
  ASSUME IInv
  PROVE  /\ HubHeight \in Nat
         /\ Len(stored) \in Nat
         /\ height \in Nat /\ lastBlockHeight \in Nat
         /\ syncTarget \in Nat /\ latestHeight \in Nat
         /\ da \subseteq Batches
<1>1. HubHeight \in Nat
  BY HubHeightIsNat, Zenon DEF IInv, HubInv
<1>2. syncTarget \in Nat /\ latestHeight \in Nat
  BY <1>1 DEF IInv, HeightsInv
<1> QED
  BY <1>1, <1>2 DEF IInv, StoreInv, HubInv

\* The batch at hand does not depend on the queues.
LEMMA SubmitUntouched ==
  ASSUME IInv, UNCHANGED <<store, submitLoop, hub, da>>
  PROVE  SubmitInv'
<1>1. HubHeight' = HubHeight
  BY HubHeightUnchanged, Zenon
<1> QED
  BY <1>1, Numbers, SubmitStays DEF IInv, store

-----------------------------------------------------------------------------
(* Start and end of the process *)

\* A crash or a panic changes only whether the process is up.
LEMMA ProcessEnds ==
  ASSUME IInv, up' \in {"down", "panicked"},
         UNCHANGED <<store, production, submitLoop, syncLoops, pubsub, hubVars, listening,
                     memory, da>>,
         UNCHANGED faults \/ \E f \in FaultKinds : Fault(f)
  PROVE  IInv'
<1>0. HubHeight \in Nat /\ Len(stored) \in Nat /\ da \subseteq Batches
  BY Numbers, Zenon
<1>1. HubHeight' = HubHeight
  BY HubHeightUnchanged, Zenon DEF hubVars
<1>2. StoreInv'
  BY StoreStays, Zenon DEF IInv
<1>3. SubmitInv'
  BY <1>0, <1>1, SubmitStays DEF IInv, store
<1>4. HubInv'
  BY <1>0, HubStays, Zenon DEF IInv, hubVars
<1>5. HeightsInv'
  BY HeightsStay, Zenon DEF IInv, hubVars, pubsub, memory
<1>6. ControlInv'
  BY ControlStays, Zenon DEF IInv, memory, pubsub, submitLoop
<1> QED
  BY <1>2, <1>3, <1>4, <1>5, <1>6, Zenon DEF IInv

LEMMA EndSteps ==
  ASSUME IInv,
         \/ Crash \/ CreatePanics \/ DAPanics \/ SubmitBatchPanics
         \/ Disconnected
  PROVE  IInv'
<1>1. /\ up' \in {"down", "panicked"}
      /\ UNCHANGED <<store, production, submitLoop, syncLoops, pubsub, hubVars, listening,
                     memory, da>>
  BY Zenon
  DEF Crash, CreatePanics, DAPanics, SubmitBatchPanics, Disconnected,
         Panic
<1>2. UNCHANGED faults \/ \E f \in FaultKinds : Fault(f)
  BY Zenon
  DEF Crash, CreatePanics, DAPanics, SubmitBatchPanics, Disconnected,
         FaultKinds
<1> QED
  BY <1>1, <1>2, ProcessEnds, Zenon

LEMMA BootStep ==
  ASSUME IInv, Boot
  PROVE  IInv'
<1>0. HubHeight \in Nat /\ Len(stored) \in Nat /\ da \subseteq Batches
  BY Numbers, Zenon
<1>1. HubHeight' = HubHeight
  BY HubHeightUnchanged, Zenon DEF Boot
<1>2. StoreInv'
  BY Zenon DEF IInv, StoreInv, Boot, Fresh
<1>3. SubmitInv'
  BY Zenon DEF IInv, SubmitInv, Boot, Fresh
<1>4. HubInv'
  BY <1>0, HubStays, Zenon DEF IInv, Boot
<1>5. HeightsInv'
  <2>1. /\ syncTarget' \in 0..HubHeight' /\ latestHeight' \in 0..HubHeight'
        /\ handling' = None
        /\ loopPc' = "start" /\ syncPc' = "start"
        /\ hubEvents' = <<>>
    BY <1>0, <1>1 DEF Boot, Fresh
  <2>2. queue' \in [Subs -> Seq(0..HubHeight')]
    <3>1. queue' = [s \in Subs |-> <<>>]
      BY Zenon DEF Boot, Fresh
    <3> QED
      BY <3>1
  <2>3. fetched' \in [{"loop", "sync"} -> (0..HubHeight') \cup {None}]
    BY Zenon DEF Boot, Fresh
  <2> QED
    BY <2>1, <2>2, <2>3 DEF HeightsInv
<1>6. ControlInv'
  <2>1. open' \in [Subs -> BOOLEAN]
    BY Zenon DEF Boot, Fresh
  <2>2. up' = "up" /\ emptyCh' = 0 /\ target' = 0
    BY Zenon DEF Boot, Fresh
  <2>3. listening' \in BOOLEAN /\ batchInProcess' \in BOOLEAN
    BY Zenon DEF Boot, Fresh
  <2>4. faults' \in 0..MaxFaults
    BY BatchAssumption DEF IInv, ControlInv, Boot, Fault
  <2> QED
    BY <2>1, <2>2, <2>3, <2>4 DEF ControlInv
<1> QED
  BY <1>2, <1>3, <1>4, <1>5, <1>6, Zenon DEF IInv

LEMMA ListenStep ==
  ASSUME IInv, Listen
  PROVE  IInv'
<1>0. HubHeight \in Nat /\ Len(stored) \in Nat /\ da \subseteq Batches
  BY Numbers
<1>1. HubHeight' = HubHeight
  BY HubHeightUnchanged, Zenon DEF Listen, hubVars
<1>2. StoreInv'
  BY StoreStays, Zenon DEF IInv, Listen
<1>3. SubmitInv'
  BY <1>0, <1>1, SubmitStays DEF IInv, store, Listen
<1>4. HubInv'
  BY <1>0, HubStays, Zenon DEF IInv, hubVars, Listen
<1>5. HeightsInv'
  BY HeightsStay, Zenon DEF IInv, hubVars, pubsub, memory, Listen
<1>6. ControlInv'
  BY Zenon DEF IInv, ControlInv, Listen, memory, pubsub, submitLoop
<1> QED
  BY <1>2, <1>3, <1>4, <1>5, <1>6 DEF IInv

-----------------------------------------------------------------------------
(* produceBlock *)

\* What is left to show for a step of produceBlock.
LEMMA ProductionStep ==
  ASSUME IInv, StoreInv', SubmitInv',
         UNCHANGED <<target, syncLoops, pubsub, hubVars, node, memory, da>>,
         UNCHANGED faults \/ \E f \in FaultKinds : Fault(f)
  PROVE  IInv'
<1>1. da \subseteq Batches
  BY Numbers, Zenon
<1>2. HubInv'
  BY <1>1, HubStays, Zenon DEF IInv, hubVars
<1>3. HeightsInv'
  BY HeightsStay, Zenon DEF IInv, hubVars, pubsub, memory
<1>4. ControlInv'
  BY ControlStays, Zenon DEF IInv, ControlInv, memory, pubsub, node
<1> QED
  BY <1>2, <1>3, <1>4, Zenon DEF IInv

LEMMA SaveBlockStep ==
  ASSUME IInv, NEW p \in Producers, SaveBlock(p)
  PROVE  IInv'
<1>0. HubHeight \in Nat /\ height \in Nat /\ stored \in Seq(Blocks)
  BY Numbers, Zenon DEF IInv, StoreInv
<1>1. /\ stored' \in Seq(Blocks) /\ Len(stored) <= Len(stored')
      /\ height < Len(stored')
  <2>1. CASE Len(stored) > height
    BY <1>0, <2>1 DEF SaveBlock
  <2>2. CASE ~(Len(stored) > height)
    <3>1. PICK b \in Blocks : stored' = Append(stored, b)
      BY <2>2, Zenon DEF SaveBlock
    <3> QED
      BY <1>0, <3>1 DEF IInv, StoreInv
  <2> QED
    BY <2>1, <2>2, Zenon
<1>2. StoreInv'
  BY <1>0, <1>1, BatchAssumption DEF SaveBlock, IInv, StoreInv
<1>3. HubHeight' = HubHeight
  BY HubHeightUnchanged, Zenon DEF SaveBlock, hubVars
<1>4. SubmitInv'
  BY <1>0, <1>1, <1>3, SubmitStays DEF IInv, SaveBlock
<1> QED
  BY <1>2, <1>4, ProductionStep, Zenon DEF SaveBlock, submitLoop

LEMMA UpdateStateStep ==
  ASSUME IInv, NEW p \in Producers, UpdateState(p) \/ SaveState(p)
  PROVE  IInv'
<1>0. HubHeight \in Nat /\ height \in Nat /\ Len(stored) \in Nat
  BY Numbers, Zenon
<1>2. StoreInv'
  BY <1>0, BatchAssumption DEF UpdateState, SaveState, IInv, StoreInv, Producers
<1>3. HubHeight' = HubHeight
  BY HubHeightUnchanged, Zenon DEF UpdateState, SaveState, hubVars
<1>4. SubmitInv'
  BY <1>0, <1>3, SubmitStays DEF IInv, UpdateState, SaveState
<1> QED
  BY <1>2, <1>4, ProductionStep, Zenon DEF UpdateState, SaveState, submitLoop

\* SubmitLoop holds no batch while it produces.
LEMMA ReturnKeepsSubmit ==
  ASSUME IInv, NEW p \in Producers, ProduceReturns(p), UNCHANGED <<stored, batch, hub,
  da>>
  PROVE  SubmitInv'
<1>1. HubHeight' = HubHeight
  BY HubHeightUnchanged, Zenon
<1>2. CASE p = "submit"
  BY <1>2, Zenon DEF IInv, SubmitInv, ProduceReturns
<1>3. CASE p # "submit"
  BY <1>1, <1>3, Zenon DEF IInv, SubmitInv, ProduceReturns
<1> QED
  BY <1>2, <1>3, Zenon

LEMMA SetHeightStep ==
  ASSUME IInv, NEW p \in Producers, SetHeight(p)
  PROVE  IInv'
<1>0. HubHeight \in Nat /\ height \in Nat /\ Len(stored) \in Nat
  BY Numbers
<1>2. StoreInv'
  BY <1>0 DEF SetHeight, ProduceReturns, IInv, StoreInv
<1>4. SubmitInv'
  BY ReturnKeepsSubmit, Zenon DEF SetHeight, hubVars
<1> QED
  BY <1>2, <1>4, ProductionStep, Zenon DEF SetHeight

LEMMA ProduceFailsStep ==
  ASSUME IInv, NEW p \in Producers, ProduceFails(p)
  PROVE  IInv'
<1>1. StoreInv'
  BY Zenon DEF ProduceFails, ProduceReturns, IInv, StoreInv, store
<1>2. SubmitInv'
  BY ReturnKeepsSubmit, Zenon DEF ProduceFails, hubVars, store
<1>3. UNCHANGED faults \/ \E f \in FaultKinds : Fault(f)
  BY Zenon DEF ProduceFails, FaultKinds
<1> QED
  BY <1>1, <1>2, <1>3, ProductionStep, Zenon DEF ProduceFails

\* A settled height has a block.
LEMMA SettledBlockType ==
  ASSUME IInv, NEW h \in 1..HubHeight
  PROVE  SettledBlock(h) \in Blocks
<1>0. HubHeight \in Nat
  BY Numbers, Zenon
<1>1. \E i \in DOMAIN hub : h \in hub[i].StartHeight..hub[i].EndHeight
  BY Zenon DEF IInv, HubInv, Covered
<1> DEFINE i == CHOOSE i \in DOMAIN hub : h \in hub[i].StartHeight..hub[i].EndHeight
<1>2. i \in DOMAIN hub /\ h \in hub[i].StartHeight..hub[i].EndHeight
  BY <1>1, Zenon
<1>3. hub[i] \in Batches /\ Sound(hub[i])
  BY <1>2, Zenon DEF IInv, HubInv
<1> HIDE DEF i
<1>4. /\ hub[i].StartHeight \in Nat /\ hub[i].EndHeight \in Nat
      /\ hub[i].Blocks \in Seq(Blocks)
  BY <1>3, BatchFields, Zenon
<1>5. h - hub[i].StartHeight + 1 \in 1..Len(hub[i].Blocks)
  BY <1>0, <1>2, <1>3, <1>4 DEF Sound
<1>6. hub[i].Blocks[h - hub[i].StartHeight + 1] \in Blocks
  BY <1>4, <1>5
<1> QED
  BY <1>6, Zenon DEF SettledBlock, i

LEMMA SyncBlockStep ==
  ASSUME IInv, SyncBlock
  PROVE  IInv'
<1>0. /\ HubHeight \in Nat /\ height \in Nat /\ stored \in Seq(Blocks)
      /\ syncTarget \in Nat /\ syncTarget <= HubHeight
      /\ height <= Len(stored) /\ Len(stored) \in Nat
  BY Numbers DEF IInv, StoreInv, HeightsInv
<1> DEFINE n == IF Len(stored) > height THEN Len(stored) ELSE height + 1
           s == [i \in 1..n |-> IF i = height + 1 THEN SettledBlock(i) ELSE stored[i]]
<1>1. stored' = s
  BY Zenon DEF SyncBlock
<1>2. height + 1 \in 1..HubHeight
  BY <1>0 DEF SyncBlock
<1>3. SettledBlock(height + 1) \in Blocks
  BY <1>2, SettledBlockType, Zenon
<1>4. n \in Nat /\ Len(stored) <= n /\ height < n
  BY <1>0
<1>5. ASSUME NEW i \in 1..n PROVE s[i] \in Blocks
  <2>1. CASE i = height + 1
    BY <1>3, <2>1, Zenon
  <2>2. CASE i # height + 1
    <3>1. i \in 1..Len(stored)
      BY <1>0, <2>2
    <3> QED
      BY <1>0, <2>2, <3>1
  <2> QED
    BY <2>1, <2>2, Zenon
<1>6. s \in [1..n -> Blocks]
  BY <1>5, Zenon
<1> HIDE DEF n
<1>7. s \in Seq(Blocks) /\ Len(s) = n
  BY <1>4, <1>6
<1> HIDE DEF s
<1>8. StoreInv'
  BY <1>0, <1>1, <1>4, <1>7 DEF SyncBlock, IInv, StoreInv, production
<1>9. HubHeight' = HubHeight
  BY HubHeightUnchanged, Zenon DEF SyncBlock, hubVars
<1>10. SubmitInv'
  BY <1>0, <1>1, <1>4, <1>7, <1>9, SubmitStays DEF IInv, SyncBlock
<1> QED
  BY <1>8, <1>10, ProductionStep, Zenon DEF SyncBlock, submitLoop

-----------------------------------------------------------------------------
(* SubmitLoop *)

\* What is left to show for a step of SubmitLoop that sends nothing.
LEMMA SubmitLoopStep ==
  ASSUME IInv, SubmitInv', ControlInv',
         UNCHANGED <<store, production, syncLoops, queue, handling, hubVars>>,
         UNCHANGED <<syncTarget, latestHeight>>,
         da \subseteq da', da' \subseteq Batches
  PROVE  IInv'
<1>1. StoreInv'
  BY StoreStays, Zenon DEF IInv
<1>2. HubInv'
  BY HubStays, Zenon DEF IInv, hubVars
<1>3. HeightsInv'
  BY HeightsStay, Zenon DEF IInv, hubVars
<1> QED
  BY <1>1, <1>2, <1>3, Zenon DEF IInv

LEMMA TickSteps ==
  ASSUME IInv, Tick \/ NothingToSubmit \/ StartBatch
  PROVE  IInv'
<1>0. da \subseteq Batches /\ syncTarget \in Nat
  BY Numbers, Zenon
<1>1. /\ UNCHANGED <<store, production, batch, syncLoops, pubsub, hubVars, node>>
      /\ UNCHANGED <<syncTarget, latestHeight, emptyCh, da, faults>>
      /\ pc' \in {"ticked", "idle", "produceBlock"}
      /\ target' \in {target, syncTarget}
  BY Zenon DEF Tick, NothingToSubmit, StartBatch, memory
<1>2. batchInProcess' = batchInProcess \/ batchInProcess' = TRUE
  BY Zenon DEF Tick, NothingToSubmit, StartBatch, memory
<1>3. SubmitInv'
  BY <1>1, Zenon DEF IInv, SubmitInv
<1>4. ControlInv'
  BY <1>0, <1>1, <1>2, Zenon DEF IInv, ControlInv, node, pubsub
<1> QED
  BY <1>0, <1>1, <1>3, <1>4, SubmitLoopStep, Zenon DEF pubsub

LEMMA BatchBoundsStep ==
  ASSUME IInv, BatchBounds
  PROVE  IInv'
<1>0. /\ da \subseteq Batches /\ syncTarget \in Nat /\ lastBlockHeight \in Nat
      /\ Len(stored) \in Nat /\ stored \in Seq(Blocks)
  BY Numbers, Zenon DEF IInv, StoreInv
<1> DEFINE b == [StartHeight |-> syncTarget + 1, EndHeight |-> lastBlockHeight,
                 Blocks |-> <<>>]
<1>1. /\ b \in Batches
      /\ b.StartHeight = syncTarget + 1 /\ b.EndHeight = lastBlockHeight
  BY <1>0 DEF Batches
<1> HIDE DEF b
<1>2. batch' = b /\ pc' \in {"create", "request"}
  BY Zenon DEF BatchBounds, b
<1>3. lastBlockHeight <= Len(stored)
  BY <1>0 DEF BatchBounds
<1>4. UNCHANGED stored
  BY Zenon DEF BatchBounds, store
<1>5. SubmitInv'
  BY <1>0, <1>1, <1>2, <1>3, <1>4, BatchAssumption DEF SubmitInv
<1>6. ControlInv'
  BY ControlStays, Zenon DEF IInv, ControlInv, BatchBounds, node, pubsub, memory
<1> QED
  BY <1>0, <1>5, <1>6, SubmitLoopStep, Zenon DEF BatchBounds, pubsub, memory

LEMMA LoadFailsStep ==
  ASSUME IInv, LoadFails
  PROVE  IInv'
<1>0. da \subseteq Batches
  BY Numbers, Zenon
<1>1. SubmitInv'
  BY Zenon DEF LoadFails, SubmitInv
<1>2. UNCHANGED faults \/ \E f \in FaultKinds : Fault(f)
  BY Zenon DEF LoadFails, FaultKinds
<1>3. ControlInv'
  BY <1>2, ControlStays, Zenon DEF IInv, ControlInv, LoadFails, node, pubsub, memory
<1> QED
  BY <1>0, <1>1, <1>3, SubmitLoopStep, Zenon DEF LoadFails, pubsub, memory

LEMMA RequestEmptyBlockStep ==
  ASSUME IInv, RequestEmptyBlock
  PROVE  IInv'
<1>0. da \subseteq Batches
  BY Numbers
<1>1. HubHeight' = HubHeight
  BY HubHeightUnchanged, Zenon DEF RequestEmptyBlock, hubVars
<1>2. SubmitInv'
  BY <1>1, Zenon DEF RequestEmptyBlock, IInv, SubmitInv, store
<1>3. ControlInv'
  BY DEF RequestEmptyBlock, IInv, ControlInv, node, pubsub
<1> QED
  BY <1>0, <1>2, <1>3, SubmitLoopStep, Zenon DEF RequestEmptyBlock, pubsub

LEMMA TakeEmptyBlockRequestStep ==
  ASSUME IInv, TakeEmptyBlockRequest
  PROVE  IInv'
<1>0. da \subseteq Batches
  BY Numbers
<1>1. SubmitInv'
  BY SubmitUntouched, Zenon DEF TakeEmptyBlockRequest, hubVars
<1>2. ControlInv'
  BY DEF TakeEmptyBlockRequest, IInv, ControlInv, node, pubsub, submitLoop
<1> QED
  BY <1>0, <1>1, <1>2, SubmitLoopStep, Zenon DEF TakeEmptyBlockRequest, pubsub

LEMMA CreateStep ==
  ASSUME IInv, CreateNextDABatch
  PROVE  IInv'
<1>0. /\ da \subseteq Batches /\ Len(stored) \in Nat /\ stored \in Seq(Blocks)
  BY Numbers, Zenon DEF IInv, StoreInv
<1>1. batch \in Batches /\ batch.StartHeight >= 1 /\ batch.EndHeight <= Len(stored)
  BY Zenon DEF CreateNextDABatch, IInv, SubmitInv
<1>2. batch.StartHeight \in Nat /\ batch.EndHeight \in Nat
  BY <1>1, BatchFields, Zenon
<1> DEFINE start == batch.StartHeight
<1>3. PICK n \in 0..(batch.EndHeight - start + 1) :
        batch' = [StartHeight |-> start, EndHeight |-> start + n - 1,
                  Blocks |-> SubSeq(stored, start, start + n - 1)]
  BY Zenon DEF CreateNextDABatch
<1> DEFINE end == start + n - 1
           blocks == SubSeq(stored, start, end)
<1>4. n \in Nat /\ end \in Nat /\ end <= Len(stored)
  BY <1>1, <1>2
<1>5. blocks \in Seq(Blocks) /\ Len(blocks) = end - start + 1
  <2>1. CASE n = 0
    BY <1>0, <1>1, <1>2, <2>1
  <2>2. CASE n # 0
    <3>1. start \in 1..Len(stored) /\ end \in start..Len(stored)
      BY <1>1, <1>2, <1>4, <2>2
    <3> QED
      BY <1>0, <3>1
  <2> QED
    BY <2>1, <2>2, Zenon
<1> HIDE DEF blocks
<1> DEFINE b == [StartHeight |-> start, EndHeight |-> end, Blocks |-> blocks]
<1>6. /\ b \in Batches
      /\ b.StartHeight = start /\ b.EndHeight = end /\ b.Blocks = blocks
  BY <1>2, <1>4, <1>5, Zenon DEF Batches
<1> HIDE DEF b
<1>7. batch' = b /\ pc' = "submitToDA"
  BY <1>3, Zenon DEF CreateNextDABatch, b, blocks
<1>8. SubmitInv'
  BY <1>1, <1>5, <1>6, <1>7, BatchAssumption, Zenon DEF SubmitInv
<1>9. ControlInv'
  BY ControlStays, Zenon DEF IInv, ControlInv, CreateNextDABatch, node, pubsub, memory
<1> QED
  BY <1>0, <1>8, <1>9, SubmitLoopStep, Zenon DEF CreateNextDABatch, pubsub, memory

LEMMA SubmitToDAStep ==
  ASSUME IInv, SubmitToDA
  PROVE  IInv'
<1>1. da \subseteq Batches /\ batch \in Batches
  BY Numbers, Zenon DEF SubmitToDA, IInv, SubmitInv
<1>2. da' = da \cup {batch}
  BY Zenon DEF SubmitToDA
<1>3. SubmitInv'
  BY <1>2, Zenon DEF SubmitToDA, IInv, SubmitInv
<1>4. ControlInv'
  BY ControlStays, Zenon DEF IInv, ControlInv, SubmitToDA, node, pubsub, memory
<1> QED
  BY <1>1, <1>2, <1>3, <1>4, SubmitLoopStep, Zenon DEF SubmitToDA, pubsub, memory

LEMMA SubmitBatchStep ==
  ASSUME IInv, SubmitBatch
  PROVE  IInv'
<1>0. da \subseteq Batches /\ HubHeight \in Nat /\ latestHeight <= HubHeight
  BY Numbers DEF IInv, HeightsInv
<1>1. HubHeight' = HubHeight
  BY HubHeightUnchanged, Zenon DEF SubmitBatch, hubVars
<1>2. latestHeight \in Nat /\ batch \in Batches
  BY Numbers, Zenon DEF SubmitBatch, IInv, SubmitInv
<1>3. batch.StartHeight <= HubHeight + 1 /\ batch.EndHeight >= batch.StartHeight
  BY <1>0, <1>2 DEF SubmitBatch, ValidateBatch
<1>4. SubmitInv'
  BY <1>1, <1>3, Zenon DEF SubmitBatch, IInv, SubmitInv, store
<1>5. open' \in [Subs -> BOOLEAN]
  BY Zenon DEF SubmitBatch, IInv, ControlInv
<1>6. ControlInv'
  BY <1>5, Zenon DEF IInv, ControlInv, SubmitBatch, node, memory
<1> QED
  BY <1>0, <1>4, <1>6, SubmitLoopStep, Zenon DEF SubmitBatch, memory

LEMMA RetrySteps ==
  ASSUME IInv, BroadcastFails \/ PollNotIncluded
  PROVE  IInv'
<1>0. da \subseteq Batches
  BY Numbers, Zenon
<1>1. /\ UNCHANGED <<store, production, target, batch, syncLoops, pubsub, hubVars, node,
                     memory, da>>
      /\ pc \in {"postBatch", "wait"} /\ pc' = "postBatch"
  BY Zenon DEF BroadcastFails, PollNotIncluded, TimedOut, submitLoop
<1>2. UNCHANGED faults \/ \E f \in FaultKinds : Fault(f)
  BY Zenon DEF BroadcastFails, PollNotIncluded, TimedOut, FaultKinds
<1>3. HubHeight' = HubHeight
  BY <1>1, HubHeightUnchanged, Zenon DEF hubVars
<1>4. SubmitInv'
  BY <1>1, <1>3, Zenon DEF IInv, SubmitInv, store
<1>5. ControlInv'
  BY <1>1, <1>2, ControlStays, Zenon DEF IInv, ControlInv, node, pubsub, memory
<1> QED
  BY <1>0, <1>1, <1>4, <1>5, SubmitLoopStep, Zenon DEF pubsub, memory

-----------------------------------------------------------------------------
(* The pubsub server and the settlement client *)

LEMMA DeliveredType ==
  ASSUME NEW H \in Nat, queue \in [Subs -> Seq(0..H)], NEW subs, NEW e \in 0..H
  PROVE  Delivered(subs, e) \in [Subs -> Seq(0..H)]
<1>1. ASSUME NEW s \in Subs
      PROVE  Append(queue[s], e) \in Seq(0..H) /\ queue[s] \in Seq(0..H)
  BY <1>1
<1> QED
  BY <1>1, Zenon DEF Delivered

LEMMA StillOpenType ==
  ASSUME NEW subs, open \in [Subs -> BOOLEAN]
  PROVE  StillOpen(subs) \in [Subs -> BOOLEAN]
  BY Zenon DEF StillOpen

\* What is left to show for a step that moves heights within the node.
LEMMA SettlementStep ==
  ASSUME IInv, HeightsInv', SubmitInv', ControlInv',
         UNCHANGED <<store, production, hub, hubMempool, da>>
  PROVE  IInv'
<1>1. StoreInv'
  BY StoreStays, Zenon DEF IInv
<1>2. HubInv'
  BY Numbers, HubStays, Zenon DEF IInv
<1> QED
  BY <1>1, <1>2, Zenon DEF IInv

LEMMA PostNotifiedStep ==
  ASSUME IInv, PostNotified
  PROVE  IInv'
<1>1. HubHeight' = HubHeight
  BY HubHeightUnchanged, Zenon DEF PostNotified, hubVars
<1>2. queue' \in [Subs -> Seq(0..HubHeight)]
  BY DEF PostNotified, PostReturns, IInv, HeightsInv, Subs
<1>3. HeightsInv'
  BY <1>1, <1>2, Zenon
  DEF PostNotified, IInv, HeightsInv, convertToNewBatchEvent, syncLoops,
                    hubVars, memory
<1>4. SubmitInv'
  BY Zenon DEF PostNotified, PostReturns, SubmitInv
<1>5. open' \in [Subs -> BOOLEAN]
  BY Zenon DEF PostNotified, PostReturns, IInv, ControlInv
<1>6. ControlInv'
  BY <1>5, Zenon DEF PostNotified, IInv, ControlInv, node, memory
<1> QED
  BY <1>3, <1>4, <1>6, SettlementStep, Zenon DEF PostNotified, hubVars

LEMMA PollIncludedStep ==
  ASSUME IInv, PollIncluded
  PROVE  IInv'
<1>0. HubHeight \in Nat
  BY Numbers, Zenon
<1>1. HubHeight' = HubHeight
  BY HubHeightUnchanged, Zenon DEF PollIncluded, hubVars
<1> DEFINE q == Delivered(BatchAcceptedSubs, HubHeight)
           o == StillOpen(BatchAcceptedSubs)
<1>2. q \in [Subs -> Seq(0..HubHeight)]
  <2>1. queue \in [Subs -> Seq(0..HubHeight)] /\ HubHeight \in 0..HubHeight
    BY <1>0 DEF IInv, HeightsInv
  <2> QED
    BY <1>0, <2>1, DeliveredType, Zenon
<1>3. o \in [Subs -> BOOLEAN]
  BY StillOpenType, Zenon DEF IInv, ControlInv
<1>4. PostReturns(q, o)
  BY Zenon DEF PollIncluded
<1> HIDE DEF q, o
<1>5. queue' \in [Subs -> Seq(0..HubHeight)] /\ open' \in [Subs -> BOOLEAN]
  BY <1>2, <1>3, <1>4 DEF PostReturns, Subs
<1>6. HeightsInv'
  BY <1>1, <1>5, Zenon
  DEF PollIncluded, IInv, HeightsInv, convertToNewBatchEvent, syncLoops,
                    hubVars, memory
<1>7. SubmitInv'
  BY <1>4, Zenon DEF PostReturns, SubmitInv
<1>8. faults' \in 0..MaxFaults
  BY BatchAssumption DEF PollIncluded, TimedOut, Fault, IInv, ControlInv
<1>9. ControlInv'
  BY <1>5, <1>8, Zenon DEF PollIncluded, IInv, ControlInv, node, memory
<1> QED
  BY <1>6, <1>7, <1>9, SettlementStep, Zenon DEF PollIncluded, hubVars

LEMMA EventHandlerStep ==
  ASSUME IInv, EventHandler
  PROVE  IInv'
<1>0. HubHeight \in Nat
  BY Numbers
<1>1. HubHeight' = HubHeight
  BY HubHeightUnchanged, Zenon DEF EventHandler
<1> DEFINE e == convertToNewBatchEvent(Head(hubEvents))
<1>2. hubEvents \in Seq([startHeight : Nat, numBlocks : Nat]) /\ hubEvents # <<>>
  BY Zenon DEF EventHandler, IInv, HeightsInv
<1>3. Head(hubEvents) = hubEvents[1] /\ 1 \in DOMAIN hubEvents
  BY <1>2
<1>4. e \in 0..HubHeight
  BY <1>3, Zenon DEF IInv, HeightsInv
<1> HIDE DEF e
<1>5. queue' \in [Subs -> Seq(0..HubHeight)]
  <2>1. queue' = Delivered(BatchAcceptedSubs, e)
    BY Zenon DEF EventHandler, e
  <2> QED
    BY <1>0, <1>4, <2>1, DeliveredType, Zenon DEF IInv, HeightsInv
<1>6. /\ hubEvents' \in Seq([startHeight : Nat, numBlocks : Nat])
      /\ \A i \in DOMAIN hubEvents' : i + 1 \in DOMAIN hubEvents
                                      /\ hubEvents'[i] = hubEvents[i + 1]
  BY <1>2 DEF EventHandler
<1>7. \A i \in DOMAIN hubEvents' :
        convertToNewBatchEvent(hubEvents'[i]) \in 0..HubHeight
  BY <1>6, Zenon DEF IInv, HeightsInv
<1>8. HeightsInv'
  BY <1>1, <1>5, <1>6, <1>7 DEF EventHandler, IInv, HeightsInv, syncLoops, memory,
                                convertToNewBatchEvent
<1>9. open' \in [Subs -> BOOLEAN]
  BY StillOpenType, Zenon DEF EventHandler, IInv, ControlInv
<1>10. ControlInv'
  BY <1>9, Zenon DEF EventHandler, IInv, ControlInv, node, memory, submitLoop
<1>11. SubmitInv'
  BY SubmitUntouched, Zenon DEF EventHandler
<1> QED
  BY <1>8, <1>10, <1>11, SettlementStep, Zenon DEF EventHandler

LEMMA StateUpdateStep ==
  ASSUME IInv, StateUpdate
  PROVE  IInv'
<1>0. HubHeight \in Nat /\ queue \in [Subs -> Seq(0..HubHeight)]
  BY Numbers, Zenon DEF IInv, HeightsInv
<1>1. HubHeight' = HubHeight
  BY HubHeightUnchanged, Zenon DEF StateUpdate, hubVars
<1> DEFINE q == queue["stateUpdatesHandler"]
<1>2. q \in Seq(0..HubHeight) /\ q # <<>>
  BY <1>0, Zenon DEF StateUpdate, Subs
<1> HIDE DEF q
<1>3. Head(q) \in 0..HubHeight /\ Tail(q) \in Seq(0..HubHeight)
  BY <1>2, HeadTail, Zenon
<1> USE DEF q
<1>4. queue' \in [Subs -> Seq(0..HubHeight)]
  BY <1>0, <1>3, Zenon DEF StateUpdate
<1>5. handling' \in 0..HubHeight /\ latestHeight' \in 0..HubHeight
  BY <1>3, Zenon DEF StateUpdate
<1>6. HeightsInv'
  BY <1>1, <1>4, <1>5, Zenon DEF StateUpdate, IInv, HeightsInv, syncLoops, hubVars,
                          convertToNewBatchEvent
<1>7. ControlInv'
  BY Zenon DEF StateUpdate, IInv, ControlInv, node, submitLoop
<1>8. SubmitInv'
  BY SubmitUntouched, Zenon DEF StateUpdate, hubVars
<1> QED
  BY <1>6, <1>7, <1>8, SettlementStep, Zenon DEF StateUpdate, hubVars

LEMMA EmitStep ==
  ASSUME IInv, EmitNewBatchAccepted
  PROVE  IInv'
<1>0. HubHeight \in Nat /\ queue \in [Subs -> Seq(0..HubHeight)]
  BY Numbers DEF IInv, HeightsInv
<1>1. HubHeight' = HubHeight
  BY HubHeightUnchanged, Zenon DEF EmitNewBatchAccepted, hubVars
<1>2. handling \in 0..HubHeight
  BY Zenon DEF EmitNewBatchAccepted, IInv, HeightsInv
<1>3. queue' \in [Subs -> Seq(0..HubHeight)]
  BY <1>0, <1>2, DeliveredType, Zenon DEF EmitNewBatchAccepted
<1>4. HeightsInv'
  BY <1>1, <1>3, Zenon
  DEF EmitNewBatchAccepted, IInv, HeightsInv, syncLoops, hubVars, memory,
                    convertToNewBatchEvent
<1>5. open' \in [Subs -> BOOLEAN]
  BY StillOpenType, Zenon DEF EmitNewBatchAccepted, IInv, ControlInv
<1>6. ControlInv'
  BY <1>5, Zenon DEF EmitNewBatchAccepted, IInv, ControlInv, node, submitLoop, memory
<1>7. SubmitInv'
  BY SubmitUntouched, Zenon DEF EmitNewBatchAccepted, hubVars
<1> QED
  BY <1>4, <1>6, <1>7, SettlementStep, Zenon DEF EmitNewBatchAccepted, hubVars

LEMMA LoopEndsStep ==
  ASSUME IInv, NEW s \in Subs, LoopEnds(s)
  PROVE  IInv'
<1>1. HubHeight' = HubHeight
  BY HubHeightUnchanged, Zenon DEF LoopEnds, hubVars
<1>2. queue' \in [Subs -> Seq(0..HubHeight)]
  BY DEF LoopEnds, IInv, HeightsInv
<1>3. HeightsInv'
  BY <1>1, <1>2, Zenon DEF LoopEnds, IInv, HeightsInv, syncLoops, hubVars, memory,
                    convertToNewBatchEvent
<1>4. ControlInv'
  BY Zenon DEF LoopEnds, IInv, ControlInv, node, submitLoop, memory
<1>5. SubmitInv'
  BY SubmitUntouched, Zenon DEF LoopEnds, hubVars
<1> QED
  BY <1>3, <1>4, <1>5, SettlementStep, Zenon DEF LoopEnds, hubVars

-----------------------------------------------------------------------------
(* SyncTargetLoop and waitForSync *)

\* What is left to show for a step of the two loops.
LEMMA SyncLoopStep ==
  ASSUME IInv, HeightsInv',
         UNCHANGED <<store, production, submitLoop, hub, hubMempool, da>>,
         UNCHANGED <<node, open, emptyCh>>, batchInProcess' \in BOOLEAN,
         UNCHANGED faults \/ \E f \in FaultKinds : Fault(f)
  PROVE  IInv'
<1>1. SubmitInv'
  BY SubmitUntouched, Zenon
<1>2. faults' \in 0..MaxFaults
  BY BatchAssumption DEF IInv, ControlInv, Fault
<1>3. ControlInv'
  BY <1>2, Zenon DEF IInv, ControlInv, node, submitLoop
<1> QED
  BY <1>1, <1>3, SettlementStep, Zenon

LEMMA FetchSteps ==
  ASSUME IInv, FetchSyncTarget \/ FetchForProduction
  PROVE  IInv'
<1>0. HubHeight \in Nat
  BY Numbers, Zenon
<1>1. /\ UNCHANGED <<store, production, submitLoop, pubsub, hubVars, node, memory, da>>
      /\ UNCHANGED faults \/ \E f \in FaultKinds : Fault(f)
  BY Zenon DEF FetchSyncTarget, FetchForProduction, FaultKinds
<1>2. HubHeight' = HubHeight
  BY <1>1, HubHeightUnchanged, Zenon DEF hubVars
<1>3. /\ fetched' \in [{"loop", "sync"} -> (0..HubHeight) \cup {None}]
      /\ loopPc' \in {"start", "store", "waiting", "ready"}
      /\ syncPc' \in {"start", "store", "loop"}
      /\ loopPc' = "store" => fetched'["loop"] # None
      /\ syncPc' = "store" => fetched'["sync"] # None
  <2>1. CASE FetchSyncTarget
    BY <1>0, <2>1, BatchAssumption DEF FetchSyncTarget, IInv, HeightsInv
  <2>2. CASE FetchForProduction
    BY <1>0, <2>2, BatchAssumption DEF FetchForProduction, IInv, HeightsInv
  <2> QED
    BY <2>1, <2>2, Zenon
<1>4. HeightsInv'
  BY <1>1, <1>2, <1>3, Zenon DEF IInv, HeightsInv, pubsub, memory, hubVars,
                          convertToNewBatchEvent
<1>5. batchInProcess' \in BOOLEAN
  BY <1>1, Zenon DEF IInv, ControlInv, memory
<1> QED
  BY <1>1, <1>4, <1>5, SyncLoopStep, Zenon DEF hubVars, pubsub, memory

LEMMA StoreSteps ==
  ASSUME IInv, StoreSyncTarget \/ StoreForProduction \/ Synced
  PROVE  IInv'
<1>1. /\ UNCHANGED <<store, production, submitLoop, fetched, pubsub, hubVars, node, da>>
      /\ UNCHANGED <<latestHeight, emptyCh, faults>>
  BY Zenon DEF StoreSyncTarget, StoreForProduction, Synced, memory
<1>2. UNCHANGED batchInProcess
  BY Zenon DEF StoreSyncTarget, StoreForProduction, Synced, memory
<1>3. HubHeight' = HubHeight
  BY <1>1, HubHeightUnchanged, Zenon DEF hubVars
<1>4. /\ syncTarget' \in 0..HubHeight
      /\ loopPc' \in {"start", "store", "waiting", "ready"}
      /\ syncPc' \in {"start", "store", "loop"}
      /\ loopPc' = "store" => loopPc = "store"
      /\ syncPc' = "store" => syncPc = "store"
  <2>1. CASE StoreSyncTarget
    BY <2>1, Zenon DEF StoreSyncTarget, IInv, HeightsInv
  <2>2. CASE StoreForProduction
    BY <2>2, Zenon DEF StoreForProduction, IInv, HeightsInv
  <2>3. CASE Synced
    BY <2>3, Zenon DEF Synced, IInv, HeightsInv, memory
  <2> QED
    BY <2>1, <2>2, <2>3, Zenon
<1>5. HeightsInv'
  BY <1>1, <1>3, <1>4, Zenon DEF IInv, HeightsInv, pubsub, hubVars, convertToNewBatchEvent
<1>6. batchInProcess' \in BOOLEAN
  BY <1>2, Zenon DEF IInv, ControlInv
<1> QED
  BY <1>1, <1>5, <1>6, SyncLoopStep, Zenon DEF hubVars, pubsub

LEMMA NewBatchAcceptedStep ==
  ASSUME IInv, NewBatchAccepted
  PROVE  IInv'
<1>0. HubHeight \in Nat /\ queue \in [Subs -> Seq(0..HubHeight)]
  BY Numbers DEF IInv, HeightsInv
<1>1. HubHeight' = HubHeight
  BY HubHeightUnchanged, Zenon DEF NewBatchAccepted, hubVars
<1> DEFINE q == queue["syncTargetLoop"]
<1>2. q \in Seq(0..HubHeight) /\ q # <<>>
  BY <1>0, Zenon DEF NewBatchAccepted, Subs
<1> HIDE DEF q
<1>3. Head(q) \in 0..HubHeight /\ Tail(q) \in Seq(0..HubHeight)
  BY <1>2, HeadTail, Zenon
<1> USE DEF q
<1>4. queue' \in [Subs -> Seq(0..HubHeight)]
  BY <1>0, <1>3, Zenon DEF NewBatchAccepted
<1>5. syncTarget' \in 0..HubHeight
  BY <1>3, Zenon DEF NewBatchAccepted
<1>6. HeightsInv'
  BY <1>1, <1>4, <1>5 DEF NewBatchAccepted, IInv, HeightsInv, syncLoops, hubVars,
                          convertToNewBatchEvent
<1> QED
  BY <1>6, SyncLoopStep, Zenon DEF NewBatchAccepted, hubVars

-----------------------------------------------------------------------------
(* The hub *)

\* The heights stay valid while the hub grows.
LEMMA HeightsGrow ==
  ASSUME HeightsInv, HubHeight \in Nat, HubHeight' \in Nat, HubHeight <= HubHeight',
         UNCHANGED <<syncTarget, latestHeight, syncLoops, queue, handling>>,
         hubEvents' \in Seq([startHeight : Nat, numBlocks : Nat]),
         \A i \in DOMAIN hubEvents' :
           convertToNewBatchEvent(hubEvents'[i]) \in 0..HubHeight'
  PROVE  HeightsInv'
<1>1. 0..HubHeight \subseteq 0..HubHeight'
  OBVIOUS
<1>2. queue \in [Subs -> Seq(0..HubHeight')]
  <2>1. ASSUME NEW s \in Subs PROVE queue[s] \in Seq(0..HubHeight')
    <3>1. queue[s] \in Seq(0..HubHeight)
      BY <2>1, Zenon DEF HeightsInv
    <3> QED
      BY <1>1, <3>1
  <2> QED
    BY <2>1, Zenon DEF HeightsInv
<1>3. fetched \in [{"loop", "sync"} -> (0..HubHeight') \cup {None}]
  BY <1>1, Zenon DEF HeightsInv
<1>4. /\ syncTarget \in 0..HubHeight' /\ latestHeight \in 0..HubHeight'
      /\ handling \in (0..HubHeight') \cup {None}
  BY <1>1, Zenon DEF HeightsInv
<1> QED
  BY <1>2, <1>3, <1>4, Zenon DEF HeightsInv, syncLoops, convertToNewBatchEvent

\* What is left to show for a step between the node and the hub.
LEMMA HubStep ==
  ASSUME IInv, SubmitInv', HubInv', HeightsInv',
         UNCHANGED <<store, production, target, open, node, memory>>,
         UNCHANGED faults \/ \E f \in FaultKinds : Fault(f)
  PROVE  IInv'
<1>1. StoreInv'
  BY StoreStays, Zenon DEF IInv
<1>2. ControlInv'
  BY ControlStays, Zenon DEF IInv, ControlInv, node, memory
<1> QED
  BY <1>1, <1>2, Zenon DEF IInv

LEMMA BroadcastStep ==
  ASSUME IInv, Broadcast
  PROVE  IInv'
<1>1. HubHeight' = HubHeight
  BY HubHeightUnchanged, Zenon DEF Broadcast
<1>2. SubmitInv'
  BY <1>1, Zenon DEF Broadcast, IInv, SubmitInv, store
<1>3. batch \in da /\ Sound(batch) /\ batch.StartHeight <= HubHeight + 1
  BY Zenon DEF Broadcast, IInv, SubmitInv, Sound
<1>4. HubInv'
  BY <1>1, <1>3, Zenon DEF Broadcast, IInv, HubInv, Sound, Covered
<1>5. HeightsInv'
  BY HeightsStay, Zenon DEF Broadcast, IInv, pubsub, memory
<1> QED
  BY <1>2, <1>4, <1>5, HubStep, Zenon DEF Broadcast, pubsub

LEMMA AcceptStep ==
  ASSUME IInv, NEW m \in hubMempool, Accept(m)
  PROVE  IInv'
<1>0. HubHeight \in Nat /\ hub \in Seq(Batches) /\ Len(stored) \in Nat
  BY Numbers, Zenon DEF IInv, HubInv
<1>1. m \in Batches /\ m \in da /\ Sound(m) /\ m.StartHeight = HubHeight + 1
  BY Zenon DEF Accept, IInv, HubInv
<1>2. m.StartHeight \in Nat /\ m.EndHeight \in Nat /\ m.EndHeight > HubHeight
  BY <1>0, <1>1, BatchFields DEF Sound
<1>3. /\ hub' \in Seq(Batches) /\ Len(hub') = Len(hub) + 1
      /\ hub'[Len(hub) + 1] = m
      /\ \A i \in DOMAIN hub : hub'[i] = hub[i]
      /\ DOMAIN hub' = DOMAIN hub \cup {Len(hub) + 1}
  BY <1>0, <1>1 DEF Accept
<1>4. HubHeight' = m.EndHeight
  <2>1. hub' # <<>>
    BY <1>0, <1>3
  <2> QED
    BY <1>3, <2>1, Zenon DEF HubHeight, LastHeight
<1>5. SubmitInv'
  BY <1>0, <1>2, <1>4, SubmitStays DEF Accept, IInv, store
<1>6. HubInv'
  <2>1. \A i \in DOMAIN hub' : Sound(hub'[i]) /\ hub'[i] \in da
    BY <1>1, <1>3, Zenon DEF IInv, HubInv
  <2>2. Covered(hub', HubHeight')
    <3> SUFFICES ASSUME NEW h \in 1..m.EndHeight
                 PROVE  \E i \in DOMAIN hub' :
                          h \in hub'[i].StartHeight..hub'[i].EndHeight
      BY <1>4, Zenon DEF Covered
    <3>1. CASE h <= HubHeight
      <4>1. PICK i \in DOMAIN hub : h \in hub[i].StartHeight..hub[i].EndHeight
        BY <1>0, <3>1 DEF IInv, HubInv, Covered
      <4> QED
        BY <1>3, <4>1, Zenon
    <3>2. CASE h > HubHeight
      <4>1. h \in m.StartHeight..m.EndHeight
        BY <1>0, <1>1, <1>2, <3>2
      <4> QED
        BY <1>3, <4>1, Zenon
    <3> QED
      BY <1>0, <3>1, <3>2
  <2>3. ASSUME NEW x \in hubMempool'
        PROVE  x \in da /\ Sound(x) /\ x.StartHeight <= HubHeight' + 1
    <3>1. x \in hubMempool
      BY <2>3, Zenon DEF Accept
    <3>2. x \in da /\ x \in Batches /\ Sound(x) /\ x.StartHeight <= HubHeight + 1
      BY <3>1, Zenon DEF IInv, HubInv
    <3>3. x.StartHeight \in Nat
      BY <3>2, BatchFields, Zenon
    <3> QED
      BY <1>0, <1>2, <1>4, <3>2, <3>3
  <2>4. UNCHANGED da /\ da \subseteq Batches
    BY Numbers, Zenon DEF Accept
  <2> QED
    BY <1>3, <2>1, <2>2, <2>3, <2>4, Zenon DEF HubInv, Sound
<1>7. HeightsInv'
  <2> DEFINE e == StateUpdateEvent(m)
  <2>1. /\ e \in [startHeight : Nat, numBlocks : Nat]
        /\ convertToNewBatchEvent(e) = m.EndHeight
    BY <1>0, <1>1, <1>2 DEF StateUpdateEvent, convertToNewBatchEvent, Sound
  <2>2. hubEvents \in Seq([startHeight : Nat, numBlocks : Nat])
    BY Zenon DEF IInv, HeightsInv
  <2>3. ASSUME NEW i \in DOMAIN hubEvents
        PROVE  convertToNewBatchEvent(hubEvents[i]) \in 0..m.EndHeight
    BY <1>0, <1>2 DEF IInv, HeightsInv
  <2> HIDE DEF e
  <2>4. hubEvents' \in {hubEvents, Append(hubEvents, e)}
    BY Zenon DEF Accept, e
  <2>5. CASE hubEvents' = hubEvents
    BY SMTT(30), <1>0, <1>2, <1>4, <2>2, <2>3, <2>5, HeightsGrow
       DEF Accept, IInv, pubsub, memory
  <2>6. CASE hubEvents' = Append(hubEvents, e)
    <3>1. hubEvents' \in Seq([startHeight : Nat, numBlocks : Nat])
      BY <2>1, <2>2, <2>6
    <3>2. ASSUME NEW i \in DOMAIN hubEvents'
          PROVE  convertToNewBatchEvent(hubEvents'[i]) \in 0..HubHeight'
      <4>1. CASE i \in DOMAIN hubEvents
        BY <1>4, <2>2, <2>3, <2>6, <4>1
      <4>2. CASE i = Len(hubEvents) + 1
        BY <1>2, <1>4, <2>1, <2>2, <2>6, <4>2
      <4> QED
        BY <2>1, <2>2, <2>6, <4>1, <4>2
    <3> QED
      BY <1>0, <1>2, <1>4, <3>1, <3>2, HeightsGrow DEF Accept, IInv, pubsub, memory
  <2> QED
    BY <2>4, <2>5, <2>6, Zenon
<1> QED
  BY <1>5, <1>6, <1>7, HubStep, Zenon DEF Accept, submitLoop, pubsub

LEMMA RefuseStep ==
  ASSUME IInv, NEW m \in hubMempool, Refuse(m)
  PROVE  IInv'
<1>1. HubHeight' = HubHeight
  BY HubHeightUnchanged, Zenon DEF Refuse
<1>2. SubmitInv'
  BY SubmitUntouched, Zenon DEF Refuse
<1>3. HubInv'
  BY <1>1, Zenon DEF Refuse, IInv, HubInv, Sound, Covered
<1>4. HeightsInv'
  BY HeightsStay, Zenon DEF Refuse, IInv, pubsub, memory
<1>5. UNCHANGED faults \/ \E f \in FaultKinds : Fault(f)
  BY Zenon DEF Refuse, FaultKinds
<1> QED
  BY <1>2, <1>3, <1>4, <1>5, HubStep, Zenon DEF Refuse, submitLoop, pubsub

LEMMA LoseEventStep ==
  ASSUME IInv, LoseEvent
  PROVE  IInv'
<1>0. HubHeight \in Nat
  BY Numbers
<1>1. HubHeight' = HubHeight
  BY HubHeightUnchanged, Zenon DEF LoseEvent
<1>2. SubmitInv'
  BY SubmitUntouched, Zenon DEF LoseEvent
<1>3. HubInv'
  BY Numbers, HubStays, Zenon DEF LoseEvent, IInv
<1>4. hubEvents \in Seq([startHeight : Nat, numBlocks : Nat]) /\ hubEvents # <<>>
  BY Zenon DEF LoseEvent, IInv, HeightsInv
<1>5. /\ hubEvents' \in Seq([startHeight : Nat, numBlocks : Nat])
      /\ \A i \in DOMAIN hubEvents' : i + 1 \in DOMAIN hubEvents
                                      /\ hubEvents'[i] = hubEvents[i + 1]
  BY <1>4 DEF LoseEvent
<1>6. \A i \in DOMAIN hubEvents' :
        convertToNewBatchEvent(hubEvents'[i]) \in 0..HubHeight'
  BY <1>1, <1>5, Zenon DEF IInv, HeightsInv
<1>7. HeightsInv'
  BY <1>0, <1>1, <1>5, <1>6, HeightsGrow DEF LoseEvent, IInv, pubsub, memory
<1>8. \E f \in FaultKinds : Fault(f)
  BY Zenon DEF LoseEvent, FaultKinds
<1> QED
  BY <1>2, <1>3, <1>7, <1>8, HubStep, Zenon DEF LoseEvent, submitLoop, pubsub

-----------------------------------------------------------------------------
(* Every step *)

LEMMA StutterStep ==
  ASSUME IInv, UNCHANGED vars
  PROVE  IInv'
<1>1. /\ UNCHANGED <<store, production, submitLoop, syncLoops, pubsub, hubVars, node>>
      /\ UNCHANGED <<memory, da, faults>>
  BY Zenon DEF vars
<1>2. SubmitInv'
  BY <1>1, SubmitUntouched, Zenon DEF hubVars
<1>3. HubInv'
  BY <1>1, Numbers, HubStays, Zenon DEF IInv, hubVars
<1>4. HeightsInv'
  BY <1>1, HeightsStay, Zenon DEF IInv, hubVars, pubsub, memory
<1> QED
  BY <1>1, <1>2, <1>3, <1>4, HubStep, Zenon DEF submitLoop, pubsub

LEMMA InitIInv ==
  ASSUME Init
  PROVE  IInv
<1>0. HubHeight = LastHeight(Earlier) /\ hub \in Seq(Batches)
  BY BatchAssumption, Zenon DEF Init, HubHeight
<1>1. HubHeight \in Nat
  BY <1>0, HubHeightIsNat, Zenon
<1>2. StoreInv
  BY DEF Init, StoreInv
<1>3. ControlInv
  <2>1. open \in [Subs -> BOOLEAN]
    BY Zenon DEF Init
  <2>2. up = "down" /\ listening \in BOOLEAN /\ batchInProcess \in BOOLEAN
    BY Zenon DEF Init
  <2>3. emptyCh = 0 /\ target = 0 /\ faults \in 0..MaxFaults
    BY BatchAssumption DEF Init
  <2> QED
    BY <2>1, <2>2, <2>3 DEF ControlInv
<1>4. SubmitInv
  BY Zenon DEF Init, SubmitInv
<1>5. HubInv
  BY <1>0, BatchAssumption DEF Init, HubInv
<1>6. HeightsInv
  <2>1. /\ syncTarget = 0 /\ latestHeight = 0 /\ handling = None
        /\ loopPc = "start" /\ syncPc = "start" /\ hubEvents = <<>>
    BY Zenon DEF Init
  <2>2. queue \in [Subs -> Seq(0..HubHeight)]
    BY DEF Init
  <2>3. fetched \in [{"loop", "sync"} -> (0..HubHeight) \cup {None}]
    BY Zenon DEF Init
  <2> QED
    BY <1>1, <2>1, <2>2, <2>3 DEF HeightsInv
<1> QED
  BY <1>2, <1>3, <1>4, <1>5, <1>6, Zenon DEF IInv

LEMMA NextIInv ==
  ASSUME IInv, [Next]_vars
  PROVE  IInv'
<1>1. ASSUME NEW p \in Producers, Produce(p) PROVE IInv'
  BY <1>1, SaveBlockStep, UpdateStateStep, SetHeightStep, ProduceFailsStep, Zenon
  DEF Produce
<1>2. CASE Submit
  BY <1>2, TickSteps, BatchBoundsStep, LoadFailsStep, RequestEmptyBlockStep, CreateStep,
     EndSteps, SubmitToDAStep, SubmitBatchStep, BroadcastStep, RetrySteps,
     PostNotifiedStep, PollIncludedStep, Zenon
  DEF Submit
<1>3. CASE Settlement
  BY <1>3, EventHandlerStep, EndSteps, StateUpdateStep, EmitStep, LoopEndsStep, Zenon
  DEF Settlement
<1>4. CASE Sync
  BY <1>4, FetchSteps, StoreSteps, NewBatchAcceptedStep, EndSteps, SyncBlockStep,
     TakeEmptyBlockRequestStep, Zenon
  DEF Sync
<1>5. CASE Hub
  BY <1>5, AcceptStep, RefuseStep, LoseEventStep, Zenon DEF Hub
<1>6. CASE Boot \/ Listen \/ Crash
  BY <1>6, BootStep, ListenStep, EndSteps, Zenon
<1>7. CASE UNCHANGED vars
  BY <1>7, StutterStep, Zenon
<1> QED
  BY <1>1, <1>2, <1>3, <1>4, <1>5, <1>6, <1>7, Zenon DEF Next

-----------------------------------------------------------------------------
(* What is settled is stored *)

LEMMA SubSeqAgrees ==
  ASSUME NEW S, NEW s \in Seq(S), NEW t \in Seq(S), NEW m \in Nat, NEW n \in Nat,
         1 <= m, n <= Len(s), Len(s) <= Len(t), \A i \in m..n : t[i] = s[i]
  PROVE  SubSeq(t, m, n) = SubSeq(s, m, n)
<1>1. CASE n < m
  BY <1>1
<1>2. CASE m <= n
  <2>1. /\ SubSeq(s, m, n) \in Seq(S) /\ SubSeq(t, m, n) \in Seq(S)
        /\ Len(SubSeq(s, m, n)) = n - m + 1 /\ Len(SubSeq(t, m, n)) = n - m + 1
    BY <1>2
  <2>2. ASSUME NEW i \in 1..(n - m + 1)
        PROVE  SubSeq(t, m, n)[i] = SubSeq(s, m, n)[i]
    <3>1. SubSeq(s, m, n)[i] = s[m + i - 1] /\ SubSeq(t, m, n)[i] = t[m + i - 1]
      BY <1>2
    <3>2. m + i - 1 \in m..n
      BY <1>2
    <3> QED
      BY <3>1, <3>2, Zenon
  <2> QED
    BY <2>1, <2>2
<1> QED
  BY <1>1, <1>2

\* A batch agrees with the store as long as no block of this node is replaced.
LEMMA FromStoreKept ==
  ASSUME LastHeight(Earlier) \in Nat, stored \in Seq(Blocks), stored' \in Seq(Blocks),
         Len(stored) <= Len(stored'),
         \A i \in 1..Len(stored) : i > LastHeight(Earlier) => stored'[i] = stored[i],
         NEW b \in Batches, FromStore(b)
  PROVE  b.StartHeight > LastHeight(Earlier) =>
           /\ b.EndHeight <= Len(stored')
           /\ b.Blocks = SubSeq(stored', b.StartHeight, b.EndHeight)
<1> SUFFICES ASSUME b.StartHeight > LastHeight(Earlier)
             PROVE  /\ b.EndHeight <= Len(stored')
                    /\ b.Blocks = SubSeq(stored', b.StartHeight, b.EndHeight)
  BY Zenon
<1> DEFINE first == b.StartHeight
           last == b.EndHeight
<1>1. /\ first \in Nat /\ last \in Nat /\ 1 <= first
      /\ last <= Len(stored) /\ b.Blocks = SubSeq(stored, first, last)
  BY BatchFields DEF FromStore
<1>2. \A i \in first..last : stored'[i] = stored[i]
  BY <1>1
<1> HIDE DEF first, last
<1>3. SubSeq(stored', first, last) = SubSeq(stored, first, last)
  BY <1>1, <1>2, SubSeqAgrees
<1>4. last <= Len(stored') /\ b.Blocks = SubSeq(stored', first, last)
  BY <1>1, <1>3
<1> QED
  BY <1>4, Zenon DEF first, last

LEMMA EarlierHeight == LastHeight(Earlier) \in Nat /\ Len(Earlier) \in Nat
<1>0. Earlier \in Seq(Batches)
  BY BatchAssumption, Zenon
<1>1. CASE Earlier = <<>>
  BY <1>1, Zenon DEF LastHeight
<1>2. CASE Earlier # <<>>
  <2>1. Earlier[Len(Earlier)] \in Batches
    BY <1>0, <1>2
  <2> QED
    BY <1>2, <2>1, BatchFields DEF LastHeight
<1> QED
  BY <1>0, <1>1, <1>2, Zenon

\* What is left to show for a step that neither makes nor accepts a batch.
LEMMA StoredKept ==
  ASSUME IInv, StoredInv, UNCHANGED hub, hubMempool' \subseteq hubMempool,
         pc' \in {"submitToDA", "submitToSL", "postBatch", "wait"} =>
           pc \in {"submitToDA", "submitToSL", "postBatch", "wait"} /\ UNCHANGED batch,
         stored' \in Seq(Blocks), Len(stored) <= Len(stored'),
         \A i \in 1..Len(stored) : i > LastHeight(Earlier) => stored'[i] = stored[i]
  PROVE  StoredInv'
<1>0. /\ LastHeight(Earlier) \in Nat /\ Len(Earlier) \in Nat /\ stored \in Seq(Blocks)
      /\ hub \in Seq(Batches) /\ hubMempool \subseteq Batches
  BY EarlierHeight, Zenon DEF IInv, StoreInv, HubInv
<1>1. HubHeight' = HubHeight
  BY HubHeightUnchanged, Zenon
<1>2. ASSUME NEW i \in (Len(Earlier) + 1)..Len(hub)
      PROVE  hub[i].StartHeight > LastHeight(Earlier) /\ FromStore(hub[i])'
  <2>1. hub[i] \in Batches /\ hub[i].StartHeight > LastHeight(Earlier) /\ FromStore(hub[i])
    <3>1. i \in 1..Len(hub)
      BY <1>0, <1>2
    <3> QED
      BY <1>0, <1>2, <3>1 DEF StoredInv
  <2> QED
    BY <1>0, <2>1, FromStoreKept, Zenon DEF FromStore
<1>3. ASSUME NEW m \in hubMempool'
      PROVE  FromStore(m)'
  <2>1. m \in Batches /\ FromStore(m)
    BY <1>0, <1>3, Zenon DEF StoredInv
  <2> QED
    BY <1>0, <2>1, FromStoreKept, Zenon DEF FromStore
<1>4. ASSUME pc' \in {"submitToDA", "submitToSL", "postBatch", "wait"}
      PROVE  FromStore(batch)'
  <2>1. batch \in Batches /\ batch' = batch /\ FromStore(batch)
    BY <1>4, Zenon DEF IInv, SubmitInv, StoredInv
  <2> QED
    BY <1>0, <2>1, FromStoreKept, Zenon DEF FromStore
<1> QED
  BY <1>1, <1>2, <1>3, <1>4, Zenon DEF StoredInv

\* What is left to show for a step that leaves the store alone as well.
LEMMA StoredUntouched ==
  ASSUME IInv, StoredInv, UNCHANGED <<stored, hub>>, hubMempool' \subseteq hubMempool,
         pc' \in {"submitToDA", "submitToSL", "postBatch", "wait"} =>
           pc \in {"submitToDA", "submitToSL", "postBatch", "wait"} /\ UNCHANGED batch
  PROVE  StoredInv'
<1>1. /\ stored' \in Seq(Blocks) /\ Len(stored) <= Len(stored')
      /\ \A i \in 1..Len(stored) : stored'[i] = stored[i]
  BY DEF IInv, StoreInv
<1> QED
  BY <1>1, StoredKept, Zenon

LEMMA SaveBlockStored ==
  ASSUME IInv, StoredInv, NEW p \in Producers, SaveBlock(p)
  PROVE  StoredInv'
<1>0. stored \in Seq(Blocks)
  BY Zenon DEF IInv, StoreInv
<1>1. /\ stored' \in Seq(Blocks) /\ Len(stored) <= Len(stored')
      /\ \A i \in 1..Len(stored) : stored'[i] = stored[i]
  <2>1. CASE UNCHANGED stored
    BY <1>0, <2>1
  <2>2. CASE \E b \in Blocks : stored' = Append(stored, b)
    BY <1>0, <2>2
  <2> QED
    BY <2>1, <2>2, Zenon DEF SaveBlock
<1>2. UNCHANGED <<hub, hubMempool, pc, batch>>
  BY Zenon DEF SaveBlock, hubVars, submitLoop
<1> QED
  BY <1>1, <1>2, StoredKept, Zenon

\* A settled block of this node is the one in its store.
LEMMA SettledIsOwn ==
  ASSUME IInv, StoredInv, NEW h \in 1..HubHeight, h > LastHeight(Earlier)
  PROVE  SettledBlock(h) = stored[h]
<1>0. /\ HubHeight \in Nat /\ LastHeight(Earlier) \in Nat
      /\ hub \in Seq(Batches) /\ stored \in Seq(Blocks)
  BY Numbers, EarlierHeight DEF IInv, HubInv, StoreInv
<1>1. \E i \in DOMAIN hub : h \in hub[i].StartHeight..hub[i].EndHeight
  BY Zenon DEF IInv, HubInv, Covered
<1> DEFINE i == CHOOSE i \in DOMAIN hub : h \in hub[i].StartHeight..hub[i].EndHeight
           b == hub[i]
<1>2. i \in DOMAIN hub /\ h \in b.StartHeight..b.EndHeight
  BY <1>1, Zenon
<1>3. SettledBlock(h) = b.Blocks[h - b.StartHeight + 1]
  BY Zenon DEF SettledBlock
<1> HIDE DEF i
<1>4. b \in Batches /\ i \in 1..Len(hub)
  BY <1>0, <1>2
<1>5. b.StartHeight \in Nat /\ b.EndHeight \in Nat
  BY <1>4, BatchFields, Zenon
<1>6. ~(i \in 1..Len(Earlier))
  <2>1. SUFFICES ASSUME i \in 1..Len(Earlier) PROVE FALSE
    BY Zenon
  <2>2. b = Earlier[i] /\ i \in DOMAIN Earlier
    BY <2>1, BatchAssumption DEF StoredInv
  <2>3. b.EndHeight <= LastHeight(Earlier)
    BY <2>2, BatchAssumption, Zenon
  <2> QED
    BY <1>0, <1>2, <1>5, <2>3
<1>7. i \in (Len(Earlier) + 1)..Len(hub)
  BY <1>0, <1>4, <1>6, BatchAssumption
<1>8. /\ b.StartHeight > LastHeight(Earlier) /\ b.EndHeight <= Len(stored)
      /\ b.Blocks = SubSeq(stored, b.StartHeight, b.EndHeight)
  BY <1>7, Zenon DEF StoredInv, FromStore
<1> DEFINE first == b.StartHeight
           last == b.EndHeight
<1>9. /\ first \in Nat /\ last \in Nat /\ h \in first..last
      /\ first > LastHeight(Earlier) /\ last <= Len(stored)
      /\ b.Blocks = SubSeq(stored, first, last)
      /\ SettledBlock(h) = b.Blocks[h - first + 1]
  BY <1>2, <1>3, <1>5, <1>8, Zenon
<1> HIDE DEF first, last, b
<1>10. /\ first \in 1..Len(stored) /\ last \in first..Len(stored)
       /\ h - first + 1 \in 1..(last - first + 1)
       /\ first + (h - first + 1) - 1 = h
  BY <1>0, <1>9
<1>11. SubSeq(stored, first, last)[h - first + 1] = stored[first + (h - first + 1) - 1]
  BY <1>0, <1>10
<1> QED
  BY <1>9, <1>10, <1>11, Zenon

LEMMA SyncBlockStored ==
  ASSUME IInv, StoredInv, SyncBlock
  PROVE  StoredInv'
<1>0. /\ HubHeight \in Nat /\ height \in Nat /\ stored \in Seq(Blocks)
      /\ syncTarget \in Nat /\ syncTarget <= HubHeight
      /\ height <= Len(stored) /\ Len(stored) \in Nat
  BY Numbers DEF IInv, StoreInv, HeightsInv
<1>1. stored' \in Seq(Blocks)
  BY SyncBlockStep, Zenon DEF IInv, StoreInv
<1> DEFINE n == IF Len(stored) > height THEN Len(stored) ELSE height + 1
           s == [i \in 1..n |-> IF i = height + 1 THEN SettledBlock(i) ELSE stored[i]]
<1>2. stored' = s /\ n \in Nat /\ Len(stored) <= n
  BY <1>0 DEF SyncBlock
<1> HIDE DEF n
<1>3. Len(stored') = n
  BY <1>1, <1>2
<1>4. ASSUME NEW i \in 1..Len(stored), i > LastHeight(Earlier)
      PROVE  stored'[i] = stored[i]
  <2>1. i \in 1..n /\ stored'[i] = IF i = height + 1 THEN SettledBlock(i) ELSE stored[i]
    BY <1>0, <1>2
  <2>2. CASE i = height + 1
    <3>1. i \in 1..HubHeight
      BY <1>0, <2>2 DEF SyncBlock
    <3> QED
      BY <1>4, <2>1, <2>2, <3>1, SettledIsOwn, Zenon
  <2> QED
    BY <2>1, <2>2, Zenon
<1>5. UNCHANGED <<hub, hubMempool, pc, batch>>
  BY Zenon DEF SyncBlock, hubVars, submitLoop
<1> QED
  BY <1>1, <1>2, <1>3, <1>4, <1>5, StoredKept

LEMMA CreateStored ==
  ASSUME IInv, StoredInv, CreateNextDABatch
  PROVE  StoredInv'
<1>0. UNCHANGED <<stored, hub, hubMempool>>
  BY Zenon DEF CreateNextDABatch, store, hubVars
<1>1. batch \in Batches /\ batch.EndHeight <= Len(stored) /\ Len(stored) \in Nat
  BY Numbers, Zenon DEF CreateNextDABatch, IInv, SubmitInv
<1>2. batch.StartHeight \in Nat /\ batch.EndHeight \in Nat
  BY <1>1, BatchFields, Zenon
<1> DEFINE start == batch.StartHeight
<1>3. PICK n \in 0..(batch.EndHeight - start + 1) :
        batch' = [StartHeight |-> start, EndHeight |-> start + n - 1,
                  Blocks |-> SubSeq(stored, start, start + n - 1)]
  BY Zenon DEF CreateNextDABatch
<1>4. start + n - 1 <= Len(stored)
  BY <1>1, <1>2
<1>5. FromStore(batch)'
  BY <1>0, <1>3, <1>4, Zenon DEF FromStore
<1>6. HubHeight' = HubHeight
  BY <1>0, HubHeightUnchanged, Zenon
<1> QED
  BY <1>0, <1>5, <1>6, Zenon DEF StoredInv, FromStore

LEMMA BroadcastStored ==
  ASSUME IInv, StoredInv, Broadcast
  PROVE  StoredInv'
<1>1. /\ UNCHANGED <<stored, hub, batch>> /\ hubMempool' = hubMempool \cup {batch}
      /\ pc = "postBatch"
  BY Zenon DEF Broadcast, store
<1>2. HubHeight' = HubHeight
  BY <1>1, HubHeightUnchanged, Zenon
<1> QED
  BY <1>1, <1>2, Zenon DEF StoredInv, FromStore

LEMMA AcceptStored ==
  ASSUME IInv, StoredInv, NEW m \in hubMempool, Accept(m)
  PROVE  StoredInv'
<1>0. /\ HubHeight \in Nat /\ LastHeight(Earlier) \in Nat /\ hub \in Seq(Batches)
      /\ m \in Batches /\ Sound(m) /\ HubHeight >= LastHeight(Earlier)
      /\ Len(Earlier) \in Nat /\ Len(hub) >= Len(Earlier)
  BY Numbers, EarlierHeight, Zenon DEF IInv, HubInv, StoredInv
<1>1. m.StartHeight \in Nat /\ m.EndHeight \in Nat
  BY <1>0, BatchFields, Zenon
<1>2. /\ UNCHANGED <<stored, batch, pc>> /\ hubMempool' \subseteq hubMempool
      /\ hub' = Append(hub, m) /\ m.StartHeight = HubHeight + 1
  BY Zenon DEF Accept, store, submitLoop
<1>3. /\ Len(hub') = Len(hub) + 1 /\ hub'[Len(hub) + 1] = m /\ hub' # <<>>
      /\ \A i \in 1..Len(hub) : hub'[i] = hub[i]
  BY <1>0, <1>2
<1>4. HubHeight' = m.EndHeight
  BY <1>3, Zenon DEF HubHeight, LastHeight
<1>5. HubHeight' >= LastHeight(Earlier)
  BY <1>0, <1>1, <1>2, <1>4 DEF Sound
<1>6. ASSUME NEW i \in (Len(Earlier) + 1)..Len(hub')
      PROVE  hub'[i].StartHeight > LastHeight(Earlier) /\ FromStore(hub[i])'
  <2>1. CASE i = Len(hub) + 1
    <3>1. hub'[i] = m
      BY <1>3, <2>1, Zenon
    <3>2. FromStore(m)
      BY Zenon DEF StoredInv
    <3>3. m.StartHeight > LastHeight(Earlier)
      BY <1>0, <1>1, <1>2
    <3> QED
      BY <1>2, <3>1, <3>2, <3>3, Zenon DEF FromStore
  <2>2. CASE i # Len(hub) + 1
    <3>1. i \in (Len(Earlier) + 1)..Len(hub) /\ i \in 1..Len(hub)
      BY <1>0, <1>3, <1>6, <2>2
    <3> QED
      BY <1>2, <1>3, <3>1, Zenon DEF StoredInv, FromStore
  <2> QED
    BY <2>1, <2>2, Zenon
<1>7. \A i \in 1..Len(Earlier) : hub'[i] = Earlier[i]
  BY <1>0, <1>3 DEF StoredInv
<1>8. Len(hub') >= Len(Earlier)
  BY <1>0, <1>3
<1> QED
  BY <1>2, <1>5, <1>6, <1>7, <1>8 DEF StoredInv, FromStore

\* The other steps neither make a batch nor touch the store.
LEMMA OtherStored ==
  ASSUME IInv, StoredInv,
         \/ Boot \/ Listen \/ Crash
         \/ \E p \in Producers :
              UpdateState(p) \/ SaveState(p) \/ SetHeight(p) \/ ProduceFails(p)
         \/ Tick \/ NothingToSubmit \/ StartBatch \/ BatchBounds \/ LoadFails
         \/ RequestEmptyBlock \/ CreatePanics \/ SubmitToDA \/ DAPanics
         \/ SubmitBatch \/ SubmitBatchPanics \/ BroadcastFails
         \/ PostNotified \/ PollIncluded \/ PollNotIncluded
         \/ Settlement
         \/ FetchSyncTarget \/ StoreSyncTarget \/ NewBatchAccepted
         \/ FetchForProduction \/ StoreForProduction \/ Synced
         \/ TakeEmptyBlockRequest
         \/ LoseEvent \/ \E m \in hubMempool : Refuse(m)
  PROVE  StoredInv'
<1>1. /\ UNCHANGED <<stored, hub>> /\ hubMempool' \subseteq hubMempool
      /\ pc' \in {"submitToDA", "submitToSL", "postBatch", "wait"} =>
           pc \in {"submitToDA", "submitToSL", "postBatch", "wait"} /\ UNCHANGED batch
  <2>1. CASE Boot \/ Listen \/ Crash
    BY <2>1, Zenon DEF Boot, Listen, Crash, Fresh, store, hubVars, submitLoop
  <2>2. CASE \E p \in Producers :
               UpdateState(p) \/ SaveState(p) \/ SetHeight(p) \/ ProduceFails(p)
    BY <2>2, Zenon
    DEF UpdateState, SaveState, SetHeight, ProduceFails, ProduceReturns, store, hubVars,
                submitLoop
  <2>3. CASE \/ Tick \/ NothingToSubmit \/ StartBatch \/ BatchBounds \/ LoadFails
             \/ RequestEmptyBlock \/ SubmitToDA
    BY <2>3, Zenon DEF Tick, NothingToSubmit, StartBatch, BatchBounds, LoadFails,
                RequestEmptyBlock, SubmitToDA, store, hubVars
  <2>4. CASE CreatePanics \/ DAPanics \/ SubmitBatchPanics
    BY <2>4, Zenon
    DEF CreatePanics, DAPanics, SubmitBatchPanics, Panic, store,
                hubVars, submitLoop
  <2>5. CASE \/ SubmitBatch \/ BroadcastFails \/ PostNotified \/ PollIncluded
             \/ PollNotIncluded
    BY <2>5, Zenon
    DEF SubmitBatch, BroadcastFails, PostNotified, PollIncluded, PollNotIncluded,
                PostReturns, TimedOut, store, hubVars, submitLoop
  <2>6. CASE Settlement
    BY <2>6, Zenon DEF Settlement, EventHandler, Disconnected, Panic, StateUpdate,
                EmitNewBatchAccepted, LoopEnds, store, hubVars, submitLoop
  <2>7. CASE \/ FetchSyncTarget \/ StoreSyncTarget \/ NewBatchAccepted
             \/ FetchForProduction \/ StoreForProduction \/ Synced
             \/ TakeEmptyBlockRequest
    BY <2>7, Zenon
    DEF FetchSyncTarget, StoreSyncTarget, NewBatchAccepted, FetchForProduction,
                StoreForProduction, Synced, TakeEmptyBlockRequest, store, hubVars,
                submitLoop
  <2>8. CASE LoseEvent \/ \E m \in hubMempool : Refuse(m)
    BY <2>8, Zenon DEF LoseEvent, Refuse, store, submitLoop
  <2> QED
    BY <2>1, <2>2, <2>3, <2>4, <2>5, <2>6, <2>7, <2>8, Zenon
<1> QED
  BY <1>1, StoredUntouched, Zenon

LEMMA NextStored ==
  ASSUME IInv, StoredInv, [Next]_vars
  PROVE  StoredInv'
<1>1. ASSUME NEW p \in Producers, Produce(p) PROVE StoredInv'
  BY <1>1, SaveBlockStored, OtherStored, Zenon DEF Produce
<1>2. CASE Submit
  BY <1>2, CreateStored, BroadcastStored, OtherStored, Zenon DEF Submit
<1>3. CASE Settlement
  BY <1>3, OtherStored, Zenon
<1>4. CASE Sync
  BY <1>4, SyncBlockStored, OtherStored, Zenon DEF Sync
<1>5. CASE Hub
  BY <1>5, AcceptStored, OtherStored, Zenon DEF Hub
<1>6. CASE Boot \/ Listen \/ Crash
  BY <1>6, OtherStored, Zenon
<1>7. CASE UNCHANGED vars
  BY <1>7, StoredUntouched, Zenon DEF vars, store, hubVars, submitLoop
<1> QED
  BY <1>1, <1>2, <1>3, <1>4, <1>5, <1>6, <1>7, Zenon DEF Next

LEMMA InitStored ==
  ASSUME Init
  PROVE  StoredInv
<1>1. HubHeight = LastHeight(Earlier) /\ LastHeight(Earlier) \in Nat /\ Len(Earlier) \in Nat
  BY EarlierHeight, BatchAssumption, Zenon DEF Init, HubHeight
<1> QED
  BY <1>1 DEF Init, StoredInv

-----------------------------------------------------------------------------
(* What follows from IInv and StoredInv *)

\* The inductive invariants of batch submission, for any blocks, batch size, settled
\* chain, and number of blocks, crashes and failed calls.
THEOREM Invariance == Spec => []SubmissionInv
<1>1. Init => SubmissionInv
  BY InitIInv, InitStored DEF SubmissionInv
<1>2. SubmissionInv /\ [Next]_vars => SubmissionInv'
  BY NextIInv, NextStored DEF SubmissionInv
<1> QED
  BY <1>1, <1>2, PTL DEF Spec

LEMMA AlwaysIInv == Spec => []IInv
<1>1. SubmissionInv => IInv
  BY DEF SubmissionInv
<1> QED
  BY <1>1, Invariance, PTL

\* submitNextBatch submits to the DA layer first, and a restart forgets the
\* batch at hand but not where it was submitted: whatever the hub accepts is
\* retrievable.
THEOREM Availability == Spec => []SettledIsAvailable
<1>1. IInv => SettledIsAvailable
  BY Zenon DEF IInv, HubInv, SettledIsAvailable
<1> QED
  BY <1>1, AlwaysIInv, PTL

\* Neither a stale answer, a lost, late or repeated event, nor a batch that was
\* sent twice with different ends makes SyncTargetLoop or stateUpdatesHandler
\* take more blocks for settled than the hub accepted.
THEOREM NotAhead == Spec => []NeverAheadOfHub
<1>1. IInv => NeverAheadOfHub
  BY Numbers DEF IInv, HeightsInv, NeverAheadOfHub
<1> QED
  BY <1>1, AlwaysIInv, PTL

\* validateBatch lets no batch pass that leaves a gap on the hub or is empty,
\* and createNextDABatch fills it with one block per height.
THEOREM PostedSound == Spec => []PostedBatchIsSound
<1>1. IInv => PostedBatchIsSound
  BY Zenon DEF IInv, HubInv, PostedBatchIsSound
<1> QED
  BY <1>1, AlwaysIInv, PTL

\* The variables keep the types of the Go declarations; in particular the blocks
\* RetriveLoop takes from settled batches exist.
THEOREM TypeCorrect == Spec => []TypeOK
<1>1. ASSUME IInv PROVE TypeOK
  <2>1. HubHeight \in Nat
    BY <1>1, Numbers, Zenon
  <2>2. syncTarget \in Nat /\ latestHeight \in Nat /\ handling \in Nat \cup {None}
    BY <1>1, <2>1 DEF IInv, HeightsInv
  <2>3. fetched \in [{"loop", "sync"} -> Nat \cup {None}]
    BY <1>1, <2>1 DEF IInv, HeightsInv
  <2>4. queue \in [Subs -> Seq(Nat)]
    <3>1. queue \in [Subs -> Seq(0..HubHeight)]
      BY <1>1, Zenon DEF IInv, HeightsInv
    <3>2. ASSUME NEW s \in Subs PROVE queue[s] \in Seq(Nat)
      BY <2>1, <3>1
    <3> QED
      BY <3>1, <3>2, Zenon
  <2>5. /\ hub \in Seq(Batches) /\ hubMempool \subseteq Batches /\ da \subseteq Batches
        /\ hubEvents \in Seq([startHeight : Nat, numBlocks : Nat])
    BY <1>1, Zenon DEF IInv, HubInv, HeightsInv
  <2> QED
    BY SMTT(30), <1>1, <2>2, <2>3, <2>4, <2>5
    DEF IInv, StoreInv, ControlInv, SubmitInv, HeightsInv, TypeOK
<1> QED
  BY <1>1, AlwaysIInv, PTL

\* Whatever crashes, which calls fail and how far production is when submitNextBatch
\* takes lastState.LastBlockHeight for the end of a batch: the blocks the hub has
\* accepted from this node are those in its store.
THEOREM SettledBlocksAreStored == Spec => []SettledIsStored
<1>1. SubmissionInv => SettledIsStored
  BY DEF SubmissionInv, StoredInv, FromStore, SettledIsStored
<1> QED
  BY <1>1, Invariance, PTL

-----------------------------------------------------------------------------
(* One batch at a time *)

\* The numbers and fields the steps below share.
LEMMA OneBatchNumbers ==
  ASSUME IInv
  PROVE  /\ HubHeight \in Nat /\ Len(stored) \in Nat
         /\ height \in Nat /\ lastBlockHeight \in Nat
         /\ syncTarget \in Nat /\ latestHeight \in Nat
         /\ MaxHeight \in Nat
         /\ pc \in {"request", "create", "submitToDA", "submitToSL", "postBatch", "wait"} =>
              batch.StartHeight \in Nat /\ batch.EndHeight \in Nat
<1>1. pc \in {"request", "create", "submitToDA", "submitToSL", "postBatch", "wait"} =>
        batch \in Batches
  BY Zenon DEF IInv, SubmitInv
<1> QED
  BY <1>1, Numbers, BatchFields, BatchAssumption, Zenon

\* A call that may not fail does not.
LEMMA NoSuchFault ==
  ASSUME Reliable, NEW f, Fault(f)
  PROVE  f \in {"load", "broadcast", "drop", "lost"}
  BY Zenon DEF Reliable, Fault

LEMMA ProductionKept ==
  ASSUME IInv, ProductionInv, UNCHANGED <<store, production, hub>>,
         producer = "submit" => pc' = "produceBlock"
  PROVE  ProductionInv'
<1>1. HubHeight' = HubHeight
  BY HubHeightUnchanged, Zenon
<1> QED
  BY <1>1, Zenon DEF ProductionInv, store, production

LEMMA StartKept ==
  ASSUME StartInv, UNCHANGED <<up, loopPc, syncPc, fetched, height, producer, hub>>,
         loopPc = "ready" \/ UNCHANGED savedHeight,
         hubMempool' \subseteq hubMempool, UNCHANGED syncTarget,
         target' \in {target, syncTarget},
         pc' \in {"idle", "ticked"} \/ loopPc = "ready"
  PROVE  StartInv'
<1>1. HubHeight' = HubHeight
  BY HubHeightUnchanged, Zenon
<1> QED
  BY <1>1, Zenon DEF StartInv

\* A step that moves nothing on the way of a batch, though the store may grow.
LEMMA CycleKept ==
  ASSUME IInv, NoticeInv, AtHandInv, OpenInv,
         UNCHANGED <<open, queue, handling, hubVars, pc, batch, batchInProcess>>,
         UNCHANGED <<syncTarget, latestHeight>>,
         lastBlockHeight' \in Nat, lastBlockHeight <= lastBlockHeight'
  PROVE  NoticeInv' /\ AtHandInv' /\ OpenInv'
<1>0. UNCHANGED <<hub, hubMempool, hubEvents>>
  BY Zenon DEF hubVars
<1>1. HubHeight' = HubHeight
  BY <1>0, HubHeightUnchanged, Zenon
<1>2. /\ NoNotice' = NoNotice /\ Notified' = Notified /\ Unnoticed' = Unnoticed
      /\ FromHub' = FromHub /\ ToHandler' = ToHandler /\ AtHandler' = AtHandler
      /\ ToSyncTarget' = ToSyncTarget /\ Accepted' = Accepted
  BY <1>0, <1>1, Zenon DEF NoNotice, Notified, Unnoticed, FromHub, ToHandler, AtHandler,
                    ToSyncTarget, Accepted, convertToNewBatchEvent
<1>3. NoticeInv'
  BY <1>2, Zenon DEF NoticeInv
<1>4. OpenInv'
  BY Zenon DEF OpenInv
<1>5. pc \in {"request", "create", "submitToDA", "submitToSL", "postBatch", "wait"} =>
        (Awaited => Awaited')
  BY <1>1, <1>2, OneBatchNumbers DEF Awaited
<1>6. AtHandInv'
  BY <1>0, <1>1, <1>2, <1>5, OneBatchNumbers DEF AtHandInv
<1> QED
  BY <1>3, <1>4, <1>6, Zenon

-----------------------------------------------------------------------------
(* produceBlock *)

LEMMA SaveBlockOne ==
  ASSUME IInv, OneBatchInv, NEW p \in Producers, SaveBlock(p)
  PROVE  OneBatchInv'
<1>0. height \in Nat /\ stored \in Seq(Blocks) /\ stage = "none" /\ MaxHeight \in Nat
  BY OneBatchNumbers, Zenon DEF IInv, StoreInv, SaveBlock
<1>1. /\ Len(stored) = height /\ lastBlockHeight = height /\ height < MaxHeight
      /\ HubHeight <= height
  BY <1>0, Zenon DEF OneBatchInv, ProductionInv, SaveBlock
<1>2. Len(stored') = height + 1
  <2>1. PICK b \in Blocks : stored' = Append(stored, b)
    BY <1>0, <1>1 DEF SaveBlock
  <2> QED
    BY <1>0, <1>1, <2>1
<1>3. HubHeight' = HubHeight
  BY HubHeightUnchanged, Zenon DEF SaveBlock, hubVars
<1>4. p = "submit" => pc = "produceBlock"
  BY Zenon DEF SaveBlock, MayProduce
<1>5. ProductionInv'
  BY <1>0, <1>1, <1>2, <1>3, <1>4, BatchAssumption
  DEF SaveBlock, ProductionInv, submitLoop, Producers
<1>6. loopPc = "ready"
  BY Zenon DEF SaveBlock, MayProduce, OneBatchInv, StartInv, Producers
<1>7. StartInv'
  BY <1>3, <1>6, Zenon
  DEF SaveBlock, OneBatchInv, StartInv, syncLoops, submitLoop, hubVars, node,
                    memory
<1>8. NoticeInv' /\ AtHandInv' /\ OpenInv'
  BY <1>0, <1>1, CycleKept DEF SaveBlock, OneBatchInv, pubsub, submitLoop, memory
<1> QED
  BY <1>5, <1>7, <1>8, Zenon DEF OneBatchInv

LEMMA SaveStateOne ==
  ASSUME IInv, OneBatchInv, NEW p \in Producers, SaveState(p)
  PROVE  OneBatchInv'
<1>0. producer # None /\ loopPc = "ready"
  BY BatchAssumption, Zenon DEF OneBatchInv, StartInv, SaveState, Producers
<1>1. HubHeight' = HubHeight
  BY HubHeightUnchanged, Zenon DEF SaveState, hubVars
<1>2. ProductionInv'
  BY <1>0, <1>1, Zenon DEF SaveState, OneBatchInv, ProductionInv, submitLoop
<1>3. StartInv'
  BY <1>0, <1>1, Zenon
  DEF SaveState, OneBatchInv, StartInv, syncLoops, submitLoop, hubVars, node, memory
<1>4. NoticeInv' /\ AtHandInv' /\ OpenInv'
  BY OneBatchNumbers, CycleKept DEF SaveState, OneBatchInv, pubsub, submitLoop, memory
<1> QED
  BY <1>2, <1>3, <1>4 DEF OneBatchInv

LEMMA UpdateStateOne ==
  ASSUME IInv, OneBatchInv, NEW p \in Producers, UpdateState(p)
  PROVE  OneBatchInv'
<1>0. /\ height \in Nat /\ MaxHeight \in Nat /\ lastBlockHeight = height
      /\ Len(stored) = height + 1
      /\ HubHeight \in Nat
  BY OneBatchNumbers, Zenon DEF OneBatchInv, ProductionInv, UpdateState
<1>1. HubHeight' = HubHeight
  BY HubHeightUnchanged, Zenon DEF UpdateState, hubVars
<1>2. ProductionInv'
  BY <1>0, <1>1 DEF UpdateState, OneBatchInv, ProductionInv, submitLoop
<1>3. StartInv'
  BY StartKept, Zenon
  DEF UpdateState, OneBatchInv, StartInv, syncLoops, submitLoop, hubVars, node,
                   memory
<1>4. NoticeInv' /\ AtHandInv' /\ OpenInv'
  BY <1>0, CycleKept DEF UpdateState, OneBatchInv, pubsub, submitLoop, memory
<1> QED
  BY <1>2, <1>3, <1>4 DEF OneBatchInv

\* SubmitLoop goes on with a block that is not settled yet.
LEMMA SubmitGoesOn ==
  ASSUME IInv, OneBatchInv, pc = "produceBlock", pc' = "submitNextBatch",
         HubHeight < lastBlockHeight,
         UNCHANGED <<lastBlockHeight, batch, pubsub, hubVars, memory>>
  PROVE  NoticeInv' /\ AtHandInv' /\ OpenInv'
<1>1. HubHeight' = HubHeight
  BY HubHeightUnchanged, Zenon DEF hubVars
<1>2. Notified /\ batchInProcess /\ hubMempool = {} /\ queue["postBatch"] = <<>>
  BY Zenon DEF OneBatchInv, AtHandInv
<1>3. Notified'
  BY <1>1, <1>2, Zenon DEF Notified, NoNotice, pubsub, hubVars, memory
<1>4. OpenInv'
  BY Zenon DEF OneBatchInv, OpenInv, pubsub
<1>5. NoticeInv' /\ AtHandInv'
  BY <1>1, <1>2, <1>3, Zenon DEF NoticeInv, AtHandInv, pubsub, hubVars, memory
<1> QED
  BY <1>4, <1>5, Zenon

LEMMA SetHeightOne ==
  ASSUME IInv, OneBatchInv, NEW p \in Producers, SetHeight(p)
  PROVE  OneBatchInv'
<1>0. /\ height \in Nat /\ MaxHeight \in Nat /\ lastBlockHeight = height + 1
      /\ Len(stored) = height + 1 /\ HubHeight \in Nat /\ height < MaxHeight
      /\ p = "submit" => pc = "produceBlock" /\ HubHeight <= height
  BY OneBatchNumbers, BatchAssumption, Zenon DEF OneBatchInv, ProductionInv, SetHeight
<1>1. HubHeight' = HubHeight
  BY HubHeightUnchanged, Zenon DEF SetHeight, hubVars
<1>2. ProductionInv'
  BY <1>0, <1>1, BatchAssumption
  DEF SetHeight, ProduceReturns, OneBatchInv, ProductionInv, Producers
<1>3. StartInv'
  <2>1. loopPc = "ready"
    BY BatchAssumption, Zenon DEF SetHeight, OneBatchInv, StartInv
  <2> QED
    BY <1>1, <2>1, Zenon
    DEF SetHeight, OneBatchInv, StartInv, syncLoops, hubVars, node, memory
<1>4. CASE p = "submit"
  <2>1. pc = "produceBlock" /\ HubHeight < lastBlockHeight
    BY <1>0, <1>4
  <2>2. pc' = "submitNextBatch"
    BY <1>4, Zenon DEF SetHeight, ProduceReturns
  <2>3. NoticeInv' /\ AtHandInv' /\ OpenInv'
    BY <2>1, <2>2, SubmitGoesOn, Zenon DEF SetHeight
  <2> QED
    BY <1>2, <1>3, <2>3 DEF OneBatchInv
<1>5. CASE p # "submit"
  <2>1. NoticeInv' /\ AtHandInv' /\ OpenInv'
    BY <1>0, <1>5, CycleKept DEF SetHeight, ProduceReturns, OneBatchInv, pubsub, memory
  <2> QED
    BY <1>2, <1>3, <2>1 DEF OneBatchInv
<1> QED
  BY <1>4, <1>5, Zenon

\* At MaxHeight SubmitLoop submits what there is.
LEMMA ProduceFailsOne ==
  ASSUME Reliable, IInv, OneBatchInv, NEW p \in Producers, ProduceFails(p)
  PROVE  OneBatchInv'
<1>0. HubHeight \in Nat /\ MaxHeight \in Nat
  BY OneBatchNumbers, Zenon
<1>1. p = "submit" /\ producer = None /\ height = MaxHeight
  BY NoSuchFault DEF ProduceFails
<1>2. pc = "produceBlock" /\ pc' = "submitNextBatch" /\ stage = "none"
  BY <1>1, BatchAssumption, Zenon
  DEF ProduceFails, ProduceReturns, MayProduce, Producers, IInv, StoreInv
<1>3. HubHeight < lastBlockHeight
  BY <1>0, <1>1, <1>2, Zenon DEF OneBatchInv, ProductionInv, AtHandInv
<1>4. NoticeInv' /\ AtHandInv' /\ OpenInv'
  BY <1>2, <1>3, SubmitGoesOn, Zenon DEF ProduceFails, store
<1>5. HubHeight' = HubHeight
  BY HubHeightUnchanged, Zenon DEF ProduceFails, hubVars
<1>6. ProductionInv'
  BY <1>1, <1>2, <1>5, BatchAssumption, Zenon
  DEF ProduceFails, ProduceReturns, OneBatchInv, ProductionInv, store, Producers
<1>7. StartInv'
  BY <1>1, <1>2, <1>5, Zenon
  DEF ProduceFails, ProduceReturns, OneBatchInv, StartInv, syncLoops,
                          hubVars, node, memory, store
<1> QED
  BY <1>4, <1>6, <1>7, Zenon DEF OneBatchInv

-----------------------------------------------------------------------------
(* Start of the process, and SubmitLoop *)

LEMMA BootOne ==
  ASSUME IInv, OneBatchInv, Boot
  PROVE  OneBatchInv'
<1>1. /\ up = "down" /\ loopPc = "start"
      /\ height = 0 /\ savedHeight = 0 /\ producer = None /\ hub = <<>> /\ hubMempool = {}
  BY Zenon DEF OneBatchInv, StartInv, Boot, Up
<1>2. HubHeight' = 0 /\ HubHeight = 0
  BY <1>1, Zenon DEF Boot, HubHeight, LastHeight
<1>3. stage = "none" /\ lastBlockHeight = 0 /\ Len(stored) = 0
  BY <1>1, Zenon DEF IInv, StoreInv, OneBatchInv, ProductionInv
<1>4. ProductionInv'
  <2>1. 0 <= MaxHeight /\ 0 <= 0
    BY BatchAssumption
  <2>2. None # "submit"
    BY BatchAssumption, Zenon DEF Producers
  <2> QED
    BY <1>1, <1>2, <1>3, <2>1, <2>2, Zenon DEF Boot, Fresh, ProductionInv
<1>5. StartInv'
  BY <1>1, <1>2, Zenon DEF Boot, Fresh, StartInv
<1>6. NoticeInv' /\ AtHandInv'
  BY <1>1, <1>2, Zenon DEF Boot, Fresh, NoticeInv, AtHandInv, Notified, NoNotice, Subs
<1>7. OpenInv'
  <2>1. open' = [s \in Subs |-> s # "postBatch"] /\ pc' = "idle"
    BY Zenon DEF Boot, Fresh
  <2> QED
    BY <2>1 DEF OpenInv, Subs
<1> QED
  BY <1>4, <1>5, <1>6, <1>7, Zenon DEF OneBatchInv

\* What is left to show for a step of SubmitLoop outside produceBlock.
LEMMA SubmitLoopOne ==
  ASSUME IInv, OneBatchInv, NoticeInv', AtHandInv', OpenInv',
         UNCHANGED <<store, production, hub, syncLoops, node, syncTarget>>,
         hubMempool' \subseteq hubMempool \cup {batch},
         pc # "produceBlock", target' \in {target, syncTarget},
         \/ pc' \in {"idle", "ticked"} /\ hubMempool' \subseteq hubMempool
         \/ loopPc = "ready"
  PROVE  OneBatchInv'
<1>1. producer # "submit"
  BY Zenon DEF OneBatchInv, ProductionInv
<1>2. ProductionInv'
  BY <1>1, ProductionKept, Zenon DEF OneBatchInv
<1>3. HubHeight' = HubHeight
  BY HubHeightUnchanged, Zenon
<1>4. StartInv'
  BY <1>3, Zenon DEF OneBatchInv, StartInv, syncLoops, node, store, production
<1> QED
  BY <1>2, <1>4, Zenon DEF OneBatchInv

LEMMA TickOne ==
  ASSUME IInv, OneBatchInv, Tick \/ NothingToSubmit
  PROVE  OneBatchInv'
<1>1. /\ UNCHANGED <<store, production, batch, syncLoops, pubsub, hubVars, node, memory>>
      /\ pc \in {"idle", "ticked"} /\ pc' \in {"idle", "ticked"}
      /\ target' \in {target, syncTarget}
  BY Zenon DEF Tick, NothingToSubmit
<1>2. HubHeight' = HubHeight
  BY <1>1, HubHeightUnchanged, Zenon DEF hubVars
<1>3. OpenInv' /\ AtHandInv'
  BY <1>1, Zenon DEF OneBatchInv, OpenInv, AtHandInv, pubsub, hubVars
<1>4. NoticeInv'
  <2>1. CASE Notified
    BY <1>1, <1>2, <2>1, Zenon DEF NoticeInv, Notified, NoNotice, pubsub, hubVars, memory
  <2>2. CASE batchInProcess /\ (ToHandler \/ AtHandler \/ ToSyncTarget)
    BY <1>1, <1>2, <2>2, Zenon
    DEF NoticeInv, ToHandler, AtHandler, ToSyncTarget, pubsub, hubVars,
                            memory
  <2> QED
    BY <1>1, <2>1, <2>2, Zenon DEF OneBatchInv, NoticeInv, Unnoticed, FromHub
<1> QED
  BY <1>1, <1>3, <1>4, SubmitLoopOne, Zenon DEF hubVars, memory

LEMMA StartBatchOne ==
  ASSUME IInv, OneBatchInv, StartBatch
  PROVE  OneBatchInv'
<1>0. HubHeight \in Nat /\ MaxHeight \in Nat /\ Len(stored) \in Nat /\ height \in Nat
      /\ lastBlockHeight \in Nat
  BY OneBatchNumbers, Zenon
<1>1. HubHeight' = HubHeight
  BY HubHeightUnchanged, Zenon DEF StartBatch, hubVars
<1>2. Notified
  BY Zenon DEF OneBatchInv, NoticeInv, StartBatch, MustSubmit
<1>3. loopPc = "ready"
  BY Zenon DEF OneBatchInv, StartInv, StartBatch, MustSubmit
<1>4. HubHeight < MaxHeight
  <2>1. HubHeight <= lastBlockHeight /\ lastBlockHeight <= Len(stored)
        /\ Len(stored) <= MaxHeight
    BY <1>0 DEF OneBatchInv, ProductionInv, IInv, StoreInv
  <2> QED
    BY <1>0, <2>1 DEF StartBatch, MustSubmit
<1>5. Notified'
  BY <1>1, <1>2, Zenon DEF StartBatch, Notified, NoNotice, pubsub, hubVars
<1>6. OpenInv'
  BY Zenon DEF StartBatch, OneBatchInv, OpenInv, pubsub
<1>7. hubMempool = {} /\ queue["postBatch"] = <<>>
  BY Zenon DEF StartBatch, OneBatchInv, AtHandInv
<1>8. NoticeInv' /\ AtHandInv'
  BY <1>1, <1>4, <1>5, <1>7, Zenon DEF StartBatch, NoticeInv, AtHandInv, pubsub, hubVars
<1> QED
  BY <1>3, <1>6, <1>8, SubmitLoopOne, Zenon DEF StartBatch, hubVars

\* What is left to show for a step that leaves the notices alone.
LEMMA AwaitedOne ==
  ASSUME IInv, OneBatchInv, Notified, batchInProcess, hubMempool = {},
         queue["postBatch"] = <<>>,
         UNCHANGED <<store, production, syncLoops, hub, hubEvents, node>>,
         UNCHANGED <<syncTarget, batchInProcess, latestHeight>>,
         UNCHANGED <<queue, handling, target>>, OpenInv',
         pc \notin {"idle", "ticked", "produceBlock"},
         \/ /\ pc' \in {"request", "create", "submitToDA", "submitToSL", "postBatch"}
            /\ UNCHANGED hubMempool
         \/ pc' = "wait" /\ UNCHANGED batch /\ hubMempool' = {batch},
         batch'.StartHeight = HubHeight + 1, batch'.StartHeight <= batch'.EndHeight,
         batch'.EndHeight <= lastBlockHeight
  PROVE  OneBatchInv'
<1>1. HubHeight' = HubHeight
  BY HubHeightUnchanged, Zenon
<1>2. loopPc = "ready"
  BY Zenon DEF OneBatchInv, StartInv
<1>3. Notified'
  BY <1>1, Zenon DEF Notified, NoNotice
<1>4. Awaited'
  BY <1>1, <1>3, Zenon DEF Awaited, store
<1>5. NoticeInv'
  BY <1>3, Zenon DEF NoticeInv
<1>6. AtHandInv'
  BY <1>4, Zenon DEF AtHandInv
<1> QED
  BY <1>2, <1>5, <1>6, SubmitLoopOne, Zenon

LEMMA BatchBoundsOne ==
  ASSUME IInv, OneBatchInv, BatchBounds
  PROVE  OneBatchInv'
<1>0. HubHeight \in Nat /\ lastBlockHeight \in Nat /\ syncTarget \in Nat
  BY OneBatchNumbers, Zenon
<1>1. /\ Notified /\ batchInProcess /\ HubHeight < lastBlockHeight
      /\ hubMempool = {} /\ queue["postBatch"] = <<>>
  BY Zenon DEF OneBatchInv, AtHandInv, BatchBounds
<1>2. /\ batch'.StartHeight = syncTarget + 1 /\ batch'.EndHeight = lastBlockHeight
      /\ pc' \in {"request", "create"}
  BY Zenon DEF BatchBounds
<1>3. batch'.StartHeight = HubHeight + 1 /\ batch'.StartHeight <= batch'.EndHeight
  BY <1>0, <1>1, <1>2 DEF Notified
<1>4. OpenInv'
  BY <1>2, Zenon DEF BatchBounds, OneBatchInv, OpenInv, pubsub
<1>5. /\ UNCHANGED <<store, production, syncLoops, hub, hubEvents, node>>
      /\ UNCHANGED <<syncTarget, batchInProcess, latestHeight>>
      /\ UNCHANGED <<queue, handling, target>> /\ UNCHANGED hubMempool
      /\ pc \notin {"idle", "ticked", "produceBlock"}
  BY DEF BatchBounds, pubsub, hubVars, memory
<1>6. batch'.EndHeight <= lastBlockHeight
  BY <1>0, <1>2
<1>7. pc' \in {"request", "create", "submitToDA", "submitToSL", "postBatch"}
  BY <1>2, Zenon
<1> QED
  BY <1>1, <1>3, <1>4, <1>5, <1>6, <1>7, AwaitedOne, Zenon

LEMMA LoadFailsOne ==
  ASSUME IInv, OneBatchInv, LoadFails
  PROVE  OneBatchInv'
<1>1. /\ UNCHANGED <<store, production, target, syncLoops, pubsub, hubVars, node, memory>>
      /\ pc \in {"submitNextBatch", "create"} /\ pc' = "idle"
  BY Zenon DEF LoadFails
<1>2. HubHeight' = HubHeight
  BY <1>1, HubHeightUnchanged, Zenon DEF hubVars
<1>3. Notified /\ hubMempool = {} /\ queue["postBatch"] = <<>>
  BY <1>1, Zenon DEF OneBatchInv, AtHandInv, Awaited
<1>4. Notified'
  BY <1>1, <1>2, <1>3, Zenon DEF Notified, NoNotice, pubsub, hubVars, memory
<1>5. NoticeInv' /\ AtHandInv'
  BY <1>1, <1>3, <1>4, Zenon DEF NoticeInv, AtHandInv, pubsub, hubVars
<1>6. OpenInv'
  BY <1>1, Zenon DEF OneBatchInv, OpenInv, pubsub
<1> QED
  BY <1>1, <1>5, <1>6, SubmitLoopOne, Zenon DEF hubVars, memory

\* The size of a batch of one block.
LEMMA OneBlockSize ==
  ASSUME NEW start \in Nat, stored[start].size \in Nat
  PROVE  SizeOf(start, 1) = stored[start].size
<1> DEFINE Step(f) == [k \in 0..1 |-> IF k = 0 THEN 0
                                       ELSE f[k - 1] + stored[start + k - 1].size]
           size == CHOOSE f : f = Step(f)
           w == [k \in 0..1 |-> IF k = 0 THEN 0 ELSE stored[start].size]
<1>1. w = Step(w)
  <2>1. ASSUME NEW k \in 0..1
        PROVE  w[k] = IF k = 0 THEN 0 ELSE w[k - 1] + stored[start + k - 1].size
    <3>1. CASE k = 0
      BY <3>1, Zenon
    <3>2. CASE k = 1
      <4>1. w[1] = stored[start].size /\ w[0] = 0 /\ start + 1 - 1 = start
        OBVIOUS
      <4> QED
        BY <3>2, <4>1
    <3> QED
      BY <3>1, <3>2
  <2> QED
    BY <2>1, Zenon
<1>2. \E f : f = Step(f)
  BY <1>1, Zenon
<1> HIDE DEF Step
<1>3. size = Step(size)
  BY <1>2, Zenon
<1> HIDE DEF size
<1> USE DEF Step
<1>4. size[0] = 0
  BY <1>3
<1>5. size[1] = size[0] + stored[start + 1 - 1].size
  BY <1>3
<1>6. size[1] = stored[start].size
  <2>1. start + 1 - 1 = start
    OBVIOUS
  <2> QED
    BY <1>4, <1>5, <2>1
<1> QED
  BY <1>6, Zenon DEF SizeOf, size

LEMMA AtHand ==
  ASSUME IInv, OneBatchInv,
         pc \in {"request", "create", "submitToDA", "submitToSL", "postBatch"}
  PROVE  /\ Notified /\ batchInProcess /\ hubMempool = {} /\ queue["postBatch"] = <<>>
         /\ batch.StartHeight = HubHeight + 1 /\ batch.StartHeight <= batch.EndHeight
         /\ batch.EndHeight <= lastBlockHeight
  BY Zenon DEF OneBatchInv, AtHandInv, Awaited

LEMMA CreateOne ==
  ASSUME Reliable, IInv, OneBatchInv, CreateNextDABatch
  PROVE  OneBatchInv'
<1>0. /\ HubHeight \in Nat /\ lastBlockHeight \in Nat /\ stored \in Seq(Blocks)
      /\ batch.StartHeight \in Nat /\ batch.EndHeight \in Nat
      /\ lastBlockHeight <= Len(stored) /\ height \in Nat
  <2>1. lastBlockHeight <= Len(stored)
    BY OneBatchNumbers DEF OneBatchInv, ProductionInv, IInv, StoreInv
  <2> QED
    BY <2>1, OneBatchNumbers, Zenon DEF CreateNextDABatch, IInv, StoreInv
<1>1. /\ Notified /\ batchInProcess /\ hubMempool = {} /\ queue["postBatch"] = <<>>
      /\ batch.StartHeight = HubHeight + 1 /\ batch.StartHeight <= batch.EndHeight
      /\ batch.EndHeight <= lastBlockHeight
  BY AtHand, Zenon DEF CreateNextDABatch
<1> DEFINE start == batch.StartHeight
<1>2. PICK n \in 0..(batch.EndHeight - start + 1) :
        /\ Takes(start, batch.EndHeight, n)
        /\ batch' = [StartHeight |-> start, EndHeight |-> start + n - 1,
                     Blocks |-> SubSeq(stored, start, start + n - 1)]
  BY Zenon DEF CreateNextDABatch
<1>3. n # 0
  <2>1. SUFFICES ASSUME n = 0 PROVE FALSE
    BY Zenon
  <2>2. SizeOf(start, 1) > BlockBatchMaxSizeBytes
    <3>1. 0 <= batch.EndHeight - start /\ 0 + 1 = 1
      BY <1>0, <1>1
    <3> QED
      BY <1>2, <2>1, <3>1, Zenon DEF Takes
  <2>3. stored[start] \in Blocks
    BY <1>0, <1>1
  <2>4. stored[start].size \in Nat /\ stored[start].size <= BlockBatchMaxSizeBytes
    BY <2>3, BatchAssumption, Zenon DEF Reliable
  <2>5. SizeOf(start, 1) = stored[start].size
    BY <1>0, <2>4, OneBlockSize, Zenon
  <2> QED
    BY <2>2, <2>4, <2>5, BatchAssumption
<1>4. /\ batch'.StartHeight = HubHeight + 1 /\ batch'.StartHeight <= batch'.EndHeight
      /\ batch'.EndHeight <= lastBlockHeight
  <2>1. batch'.StartHeight = start /\ batch'.EndHeight = start + n - 1
    BY <1>2, Zenon
  <2> QED
    BY <1>0, <1>1, <1>3, <2>1
<1>5. OpenInv'
  BY Zenon DEF CreateNextDABatch, OneBatchInv, OpenInv, pubsub
<1> QED
  BY <1>1, <1>4, <1>5, AwaitedOne, Zenon DEF CreateNextDABatch, pubsub, hubVars, memory

\* The steps that hand the batch on.
LEMMA HandOnOne ==
  ASSUME IInv, OneBatchInv, RequestEmptyBlock \/ SubmitToDA \/ SubmitBatch \/ Broadcast
  PROVE  OneBatchInv'
<1>1. /\ pc \in {"request", "create", "submitToDA", "submitToSL", "postBatch"}
      /\ UNCHANGED <<store, production, target, batch, syncLoops, queue, handling, hub,
                     hubEvents, node, syncTarget, batchInProcess, latestHeight>>
      /\ \/ /\ pc' \in {"create", "submitToSL", "postBatch"}
            /\ UNCHANGED hubMempool
         \/ pc' = "wait" /\ hubMempool' = hubMempool \cup {batch}
  BY Zenon
  DEF RequestEmptyBlock, SubmitToDA, SubmitBatch, Broadcast, pubsub, hubVars, memory
<1>2. OpenInv'
  <2>1. CASE SubmitBatch
    BY <2>1, Zenon DEF SubmitBatch, OneBatchInv, OpenInv, IInv, ControlInv, Subs
  <2>2. CASE RequestEmptyBlock \/ SubmitToDA \/ Broadcast
    BY <2>2, Zenon
    DEF RequestEmptyBlock, SubmitToDA, Broadcast, OneBatchInv, OpenInv, pubsub
  <2> QED
    BY <2>1, <2>2, Zenon
<1>3. /\ Notified /\ batchInProcess /\ hubMempool = {} /\ queue["postBatch"] = <<>>
      /\ batch.StartHeight = HubHeight + 1 /\ batch.StartHeight <= batch.EndHeight
      /\ batch.EndHeight <= lastBlockHeight
  BY <1>1, AtHand, Zenon
<1> QED
  BY <1>1, <1>2, <1>3, AwaitedOne, Zenon

\* No step of SubmitLoop or of the settlement client panics.
LEMMA NobodyPanics ==
  ASSUME Reliable, IInv, OneBatchInv,
         CreatePanics \/ DAPanics \/ SubmitBatchPanics \/ Disconnected \/ Crash
  PROVE  FALSE
<1>1. CASE CreatePanics
  <2>1. /\ batch.StartHeight \in Nat /\ batch.EndHeight \in Nat
        /\ batch.StartHeight <= batch.EndHeight
        /\ batch.StartHeight > batch.EndHeight + 1
    BY <1>1, AtHand, OneBatchNumbers, Zenon DEF CreatePanics
  <2> QED
    BY <2>1
<1>2. CASE SubmitBatchPanics
  <2>1. /\ batch.StartHeight \in Nat /\ batch.EndHeight \in Nat
        /\ batch.StartHeight <= batch.EndHeight
        /\ batch.StartHeight = HubHeight + 1 /\ Notified /\ ~ValidateBatch
    BY <1>2, AtHand, OneBatchNumbers, Zenon DEF SubmitBatchPanics
  <2> QED
    BY <2>1, Zenon DEF Notified, ValidateBatch
<1>3. CASE DAPanics \/ Disconnected \/ Crash
  <2>1. \E f \in {"da", "disconnect", "crash"} : Fault(f)
    BY <1>3, Zenon DEF DAPanics, Disconnected, Crash
  <2> QED
    BY <2>1, NoSuchFault, Zenon
<1> QED
  BY <1>1, <1>2, <1>3, Zenon

-----------------------------------------------------------------------------
(* PostBatch and the notices *)

\* The queues hold one element at most.
LEMMA OneElement ==
  ASSUME NEW S, NEW s \in Seq(S), Len(s) = 1
  PROVE  Head(s) = s[1] /\ Tail(s) = <<>>
<1>1. Head(s) = s[1] /\ Tail(s) \in Seq(S) /\ Len(Tail(s)) = 0
  OBVIOUS
<1> DEFINE t == Tail(s)
<1>2. t \in Seq(S) /\ Len(t) = 0
  BY <1>1, Zenon
<1> HIDE DEF t
<1>3. t = <<>>
  BY <1>2
<1> QED
  BY <1>1, <1>3, Zenon DEF t

LEMMA OneQueued ==
  ASSUME IInv, NEW s \in Subs, NEW e, queue[s] = <<e>>
  PROVE  Head(queue[s]) = e /\ Tail(queue[s]) = <<>>
<1>1. queue[s] \in Seq(0..HubHeight) /\ Len(queue[s]) = 1 /\ queue[s][1] = e
  <2>1. Len(<<e>>) = 1 /\ <<e>>[1] = e
    BY Zenon
  <2>2. queue[s] \in Seq(0..HubHeight)
    BY Zenon DEF IInv, HeightsInv
  <2> QED
    BY <2>1, <2>2, Zenon
<1> QED
  BY <1>1, OneElement, Zenon

\* An event reaches every subscription that is open and has read the last one.
LEMMA DeliveredToAll ==
  ASSUME NEW subs \in SUBSET Subs, NEW e,
         \A s \in subs : open[s] /\ queue[s] = <<>>
  PROVE  /\ \A s \in subs : Delivered(subs, e)[s] = <<e>>
         /\ \A s \in Subs : s \notin subs => Delivered(subs, e)[s] = queue[s]
         /\ \A s \in Subs : open[s] => StillOpen(subs)[s]
<1>0. Len(<<>>) < OutCapacity /\ Append(<<>>, e) = <<e>>
  BY DEF OutCapacity
<1>1. \A s \in subs : Len(queue[s]) < OutCapacity /\ Append(queue[s], e) = <<e>>
  BY <1>0, Zenon
<1>2. \A s \in Subs : Delivered(subs, e)[s] =
        IF s \in subs /\ open[s] /\ Len(queue[s]) < OutCapacity
        THEN Append(queue[s], e) ELSE queue[s]
  BY Zenon DEF Delivered
<1>3. \A s \in Subs : StillOpen(subs)[s] =
        (open[s] /\ (s \in subs => Len(queue[s]) < OutCapacity))
  BY Zenon DEF StillOpen
<1> QED
  BY <1>1, <1>2, <1>3, Zenon

LEMMA BatchAcceptedDelivered ==
  ASSUME NEW e, OpenInv, open["postBatch"],
         queue["stateUpdatesHandler"] = <<>>, queue["postBatch"] = <<>>
  PROVE  /\ Delivered(BatchAcceptedSubs, e)["stateUpdatesHandler"] = <<e>>
         /\ Delivered(BatchAcceptedSubs, e)["postBatch"] = <<e>>
         /\ Delivered(BatchAcceptedSubs, e)["syncTargetLoop"] = queue["syncTargetLoop"]
         /\ StillOpen(BatchAcceptedSubs)["stateUpdatesHandler"]
         /\ StillOpen(BatchAcceptedSubs)["postBatch"]
         /\ StillOpen(BatchAcceptedSubs)["syncTargetLoop"]
<1> DEFINE subs == BatchAcceptedSubs
<1>1. /\ subs \in SUBSET Subs /\ "stateUpdatesHandler" \in subs /\ "postBatch" \in subs
      /\ "syncTargetLoop" \notin subs /\ "syncTargetLoop" \in Subs
      /\ "stateUpdatesHandler" \in Subs /\ "postBatch" \in Subs
  BY Zenon DEF BatchAcceptedSubs, Subs
<1>2. \A s \in subs : open[s] /\ queue[s] = <<>>
  BY Zenon DEF BatchAcceptedSubs, OpenInv
<1> HIDE DEF subs
<1>3. /\ \A s \in subs : Delivered(subs, e)[s] = <<e>>
      /\ \A s \in Subs : s \notin subs => Delivered(subs, e)[s] = queue[s]
      /\ \A s \in Subs : open[s] => StillOpen(subs)[s]
  BY <1>1, <1>2, DeliveredToAll
<1> QED
  BY <1>1, <1>3, Zenon DEF subs, OpenInv

LEMMA AcceptedDelivered ==
  ASSUME NEW e, open["syncTargetLoop"], queue["syncTargetLoop"] = <<>>
  PROVE  /\ Delivered({"syncTargetLoop"}, e)["syncTargetLoop"] = <<e>>
         /\ \A s \in {"stateUpdatesHandler", "postBatch"} :
              Delivered({"syncTargetLoop"}, e)[s] = queue[s]
         /\ \A s \in Subs : open[s] => StillOpen({"syncTargetLoop"})[s]
<1> DEFINE subs == {"syncTargetLoop"}
<1>1. /\ subs \in SUBSET Subs /\ "syncTargetLoop" \in subs
      /\ \A s \in {"stateUpdatesHandler", "postBatch"} : s \in Subs /\ s \notin subs
  BY Zenon DEF Subs
<1>2. \A s \in subs : open[s] /\ queue[s] = <<>>
  BY Zenon
<1> HIDE DEF subs
<1>3. /\ \A s \in subs : Delivered(subs, e)[s] = <<e>>
      /\ \A s \in Subs : s \notin subs => Delivered(subs, e)[s] = queue[s]
      /\ \A s \in Subs : open[s] => StillOpen(subs)[s]
  BY <1>1, <1>2, DeliveredToAll, Zenon
<1> QED
  BY <1>1, <1>3, Zenon DEF subs

LEMMA PostNotifiedOne ==
  ASSUME IInv, OneBatchInv, PostNotified
  PROVE  OneBatchInv'
<1>1. HubHeight' = HubHeight
  BY HubHeightUnchanged, Zenon DEF PostNotified, hubVars
<1>2. queue["postBatch"] # <<>>
  BY Zenon DEF OneBatchInv, OpenInv, PostNotified
<1>3. Accepted
  BY <1>2 DEF OneBatchInv, AtHandInv, PostNotified
<1>4. /\ queue'["stateUpdatesHandler"] = queue["stateUpdatesHandler"]
      /\ queue'["syncTargetLoop"] = queue["syncTargetLoop"]
      /\ queue'["postBatch"] = <<>> /\ pc' = "idle"
  BY Zenon DEF PostNotified, PostReturns, IInv, HeightsInv, Subs
<1>5. NoticeInv'
  <2>1. CASE Notified
    BY <1>1, <1>4, <2>1, Zenon
    DEF NoticeInv, Notified, NoNotice, PostNotified, hubVars, memory
  <2>2. CASE batchInProcess /\ (ToHandler \/ AtHandler \/ ToSyncTarget)
    BY <1>1, <1>4, <2>2, Zenon
    DEF NoticeInv, ToHandler, AtHandler, ToSyncTarget, PostNotified,
                            hubVars, memory
  <2> QED
    BY <1>2, <2>1, <2>2 DEF OneBatchInv, NoticeInv, Unnoticed, FromHub
<1>6. AtHandInv'
  BY <1>3, <1>4, Zenon DEF AtHandInv, Accepted, PostNotified, hubVars
<1>7. OpenInv'
  BY <1>4, Zenon
  DEF OneBatchInv, OpenInv, PostNotified, PostReturns, IInv, ControlInv, Subs
<1> QED
  BY <1>4, <1>5, <1>6, <1>7, SubmitLoopOne, Zenon DEF PostNotified, hubVars, memory

\* When PostBatch waits in vain, the notice of an accepted batch is lost.
LEMMA TimedOutOne ==
  ASSUME Reliable, IInv, OneBatchInv, TimedOut
  PROVE  /\ pc = "wait" /\ hubMempool = {} /\ queue["postBatch"] = <<>>
         /\ Awaited \/ (Accepted /\ Unnoticed)
<1>1. /\ pc = "wait" /\ batch \notin hubMempool
      /\ hubEvents = <<>> /\ queue["postBatch"] = <<>>
  BY NoSuchFault DEF TimedOut
<1>2. CASE Awaited /\ hubMempool \subseteq {batch}
  <2>1. hubMempool = {}
    BY <1>1, <1>2, Zenon
  <2> QED
    BY <1>1, <1>2, <2>1, Zenon
<1>3. CASE Accepted /\ (Unnoticed \/ FromHub)
  <2>1. Unnoticed
    BY <1>1, <1>3 DEF FromHub
  <2> QED
    BY <1>1, <1>3, <2>1, Zenon DEF Accepted, Unnoticed
<1> QED
  BY <1>1, <1>2, <1>3 DEF OneBatchInv, AtHandInv

\* PostBatch finds the batch on the hub and emits the notice itself.
LEMMA PollIncludedOne ==
  ASSUME Reliable, IInv, OneBatchInv, PollIncluded
  PROVE  OneBatchInv'
<1>1. HubHeight' = HubHeight
  BY HubHeightUnchanged, Zenon DEF PollIncluded, hubVars
<1>2. /\ pc = "wait" /\ hubMempool = {} /\ queue["postBatch"] = <<>>
      /\ Awaited \/ (Accepted /\ Unnoticed)
  BY TimedOutOne, Zenon DEF PollIncluded
<1>3. Accepted /\ Unnoticed
  <2>1. SUFFICES ASSUME Awaited PROVE FALSE
    BY <1>2, Zenon
  <2>2. /\ hub \in Seq(Batches) /\ hub # <<>>
        /\ hub[Len(hub)].StartHeight = HubHeight + 1
    BY <2>1, Zenon DEF PollIncluded, Awaited, IInv, HubInv
  <2>3. Len(hub) \in DOMAIN hub /\ hub[Len(hub)] \in Batches
    BY <2>2
  <2>4. Sound(hub[Len(hub)]) /\ HubHeight = hub[Len(hub)].EndHeight
    BY <2>2, <2>3 DEF IInv, HubInv, HubHeight, LastHeight
  <2>5. HubHeight \in Nat
    BY OneBatchNumbers, Zenon
  <2> QED
    BY <2>2, <2>4, <2>5 DEF Sound
<1> DEFINE q == Delivered(BatchAcceptedSubs, HubHeight)
           o == StillOpen(BatchAcceptedSubs)
<1>4. open["postBatch"] /\ OpenInv
  BY <1>2, Zenon DEF OneBatchInv, OpenInv
<1>7. /\ q["stateUpdatesHandler"] = <<HubHeight>>
      /\ q["syncTargetLoop"] = queue["syncTargetLoop"]
  BY <1>2, <1>3, <1>4, BatchAcceptedDelivered, Zenon DEF Unnoticed, NoNotice
<1>8. o["stateUpdatesHandler"] /\ o["syncTargetLoop"]
  BY <1>2, <1>3, <1>4, BatchAcceptedDelivered, Zenon DEF Unnoticed, NoNotice
<1>9. DOMAIN q = Subs /\ DOMAIN o = Subs
  BY Zenon DEF Delivered, StillOpen
<1>10. /\ pc' = "idle" /\ queue' = [q EXCEPT !["postBatch"] = <<>>]
       /\ open' = [o EXCEPT !["postBatch"] = FALSE]
  BY Zenon DEF PollIncluded, PostReturns
<1> HIDE DEF q, o
<1>11. /\ queue'["stateUpdatesHandler"] = <<HubHeight>>
       /\ queue'["syncTargetLoop"] = <<>> /\ queue'["postBatch"] = <<>>
  BY <1>3, <1>7, <1>9, <1>10, Zenon DEF Subs, Unnoticed, NoNotice
<1>12. OpenInv'
  BY <1>8, <1>9, <1>10, Zenon DEF OpenInv, Subs
<1>13. ToHandler'
  BY <1>1, <1>3, <1>11, Zenon DEF ToHandler, Unnoticed, NoNotice, PollIncluded, hubVars
<1>14. NoticeInv' /\ AtHandInv'
  BY <1>2, <1>3, <1>10, <1>11, <1>13, Zenon
  DEF NoticeInv, AtHandInv, Unnoticed, PollIncluded, hubVars, memory
<1> QED
  BY <1>2, <1>10, <1>12, <1>14, SubmitLoopOne DEF PollIncluded, hubVars, memory

LEMMA PollNotIncludedOne ==
  ASSUME Reliable, IInv, OneBatchInv, PollNotIncluded
  PROVE  OneBatchInv'
<1>1. TimedOut /\ (hub # <<>> => hub[Len(hub)].StartHeight # batch.StartHeight)
  BY NoSuchFault DEF PollNotIncluded
<1>2. Awaited /\ hubMempool = {} /\ queue["postBatch"] = <<>> /\ pc = "wait"
  BY <1>1, TimedOutOne, Zenon DEF Accepted
<1>3. OpenInv'
  BY <1>2, Zenon DEF OneBatchInv, OpenInv, PollNotIncluded, pubsub
<1> QED
  BY <1>2, <1>3, AwaitedOne, Zenon DEF Awaited, PollNotIncluded, pubsub, hubVars, memory

LEMMA EventHandlerOne ==
  ASSUME IInv, OneBatchInv, EventHandler
  PROVE  OneBatchInv'
<1>1. HubHeight' = HubHeight
  BY HubHeightUnchanged, Zenon DEF EventHandler
<1>2. FromHub /\ Accepted /\ pc = "wait"
  BY Zenon
  DEF EventHandler, OneBatchInv, NoticeInv, Notified, NoNotice, Unnoticed, FromHub,
         ToHandler, AtHandler, ToSyncTarget
<1>3. hubEvents' = <<>> /\ convertToNewBatchEvent(Head(hubEvents)) = HubHeight
  <2>1. hubEvents \in Seq([startHeight : Nat, numBlocks : Nat]) /\ Len(hubEvents) = 1
    BY <1>2, Zenon DEF IInv, HeightsInv, FromHub
  <2>2. Head(hubEvents) = hubEvents[1] /\ Tail(hubEvents) = <<>>
    BY <2>1, OneElement, Zenon
  <2> QED
    BY <1>2, <2>2, Zenon DEF EventHandler, FromHub
<1>4. open["postBatch"] /\ OpenInv
  BY <1>2, Zenon DEF OneBatchInv, OpenInv
<1>6. /\ queue' = Delivered(BatchAcceptedSubs, HubHeight)
      /\ open' = StillOpen(BatchAcceptedSubs)
  BY <1>3, Zenon DEF EventHandler
<1>8. /\ queue'["stateUpdatesHandler"] = <<HubHeight>>
      /\ queue'["postBatch"] = <<HubHeight>>
      /\ queue'["syncTargetLoop"] = <<>>
  BY <1>2, <1>4, <1>6, BatchAcceptedDelivered, Zenon DEF FromHub
<1>9. OpenInv'
  <2>1. open'["stateUpdatesHandler"] /\ open'["syncTargetLoop"] /\ open'["postBatch"]
    BY <1>2, <1>4, <1>6, BatchAcceptedDelivered, Zenon DEF FromHub
  <2> QED
    BY <2>1, Zenon DEF OpenInv
<1>10. ToHandler' /\ Accepted'
  BY <1>1, <1>2, <1>3, <1>8, Zenon
  DEF ToHandler, Accepted, FromHub, EventHandler, submitLoop
<1>11. NoticeInv' /\ AtHandInv'
  <2>1. queue'["postBatch"] # <<>>
    BY <1>8
  <2> QED
    BY <1>2, <1>10, <2>1, Zenon
    DEF NoticeInv, AtHandInv, FromHub, EventHandler, submitLoop, memory
<1>12. loopPc = "ready"
  BY <1>2, Zenon DEF OneBatchInv, StartInv
<1> QED
  BY <1>2, <1>9, <1>11, <1>12, SubmitLoopOne, Zenon DEF EventHandler, submitLoop, memory

-----------------------------------------------------------------------------
(* The settlement client and the sync target *)

\* A notice moves on towards SyncTargetLoop.
LEMMA NoticeMoves ==
  ASSUME IInv, OneBatchInv, ToHandler \/ AtHandler \/ ToSyncTarget,
         UNCHANGED <<store, production, submitLoop, hub, hubMempool>>,
         queue'["postBatch"] = queue["postBatch"],
         \/ Notified'
         \/ UNCHANGED batchInProcess /\ (AtHandler' \/ ToSyncTarget')
  PROVE  ProductionInv' /\ NoticeInv' /\ AtHandInv'
<1>1. ~Notified /\ ~Unnoticed /\ ~FromHub /\ ~Awaited
  <2>1. <<HubHeight>> # <<>> /\ Len(<<>>) # 1
    OBVIOUS
  <2>2. HubHeight # None
    BY OneBatchNumbers, BatchAssumption, Zenon
  <2>3. hubEvents = <<>> /\ ~NoNotice
    <3>1. CASE ToHandler
      BY <2>1, <3>1, Zenon DEF ToHandler, NoNotice
    <3>2. CASE AtHandler
      BY <2>2, <3>2, Zenon DEF AtHandler, NoNotice
    <3>3. CASE ToSyncTarget
      BY <2>1, <3>3, Zenon DEF ToSyncTarget, NoNotice
    <3> QED
      BY <3>1, <3>2, <3>3, Zenon
  <2> QED
    BY <2>1, <2>3, Zenon DEF Notified, Unnoticed, FromHub, Awaited
<1>2. /\ batchInProcess /\ pc \in {"idle", "ticked", "wait"}
      /\ pc = "wait" => Accepted /\ queue["postBatch"] # <<>>
      /\ pc # "wait" => hubMempool = {} /\ queue["postBatch"] = <<>>
  BY <1>1, Zenon DEF OneBatchInv, NoticeInv, AtHandInv
<1>3. pc' = pc /\ (Accepted => Accepted')
  BY Zenon DEF Accepted, submitLoop
<1>4. AtHandInv'
  BY <1>2, <1>3, Zenon DEF AtHandInv
<1>5. NoticeInv'
  BY <1>2, <1>3, Zenon DEF NoticeInv
<1>6. producer # "submit"
  BY <1>2, Zenon DEF OneBatchInv, ProductionInv
<1> QED
  BY <1>4, <1>5, <1>6, ProductionKept, Zenon DEF OneBatchInv

LEMMA StateUpdateOne ==
  ASSUME IInv, OneBatchInv, StateUpdate
  PROVE  OneBatchInv'
<1>1. HubHeight' = HubHeight
  BY HubHeightUnchanged, Zenon DEF StateUpdate, hubVars
<1>2. ToHandler
  BY Zenon
  DEF StateUpdate, OneBatchInv, NoticeInv, Notified, NoNotice, Unnoticed, FromHub,
         AtHandler, ToSyncTarget
<1>3. /\ Head(queue["stateUpdatesHandler"]) = HubHeight
      /\ Tail(queue["stateUpdatesHandler"]) = <<>>
  BY <1>2, OneQueued DEF ToHandler, Subs
<1>4. /\ queue'["stateUpdatesHandler"] = <<>>
      /\ queue'["syncTargetLoop"] = queue["syncTargetLoop"]
      /\ queue'["postBatch"] = queue["postBatch"]
  BY <1>3, Zenon DEF StateUpdate, IInv, HeightsInv, Subs
<1>5. AtHandler'
  BY <1>1, <1>2, <1>3, <1>4, Zenon DEF AtHandler, ToHandler, StateUpdate, hubVars
<1>6. ProductionInv' /\ NoticeInv' /\ AtHandInv'
  BY <1>2, <1>4, <1>5, NoticeMoves, Zenon DEF StateUpdate, hubVars
<1>7. OpenInv'
  BY Zenon DEF OneBatchInv, OpenInv, StateUpdate, submitLoop
<1>8. StartInv'
  BY StartKept, Zenon
  DEF OneBatchInv, StateUpdate, StartInv, node, syncLoops, store, production, hubVars,
      submitLoop
<1> QED
  BY <1>6, <1>7, <1>8, Zenon DEF OneBatchInv

LEMMA EmitOne ==
  ASSUME IInv, OneBatchInv, EmitNewBatchAccepted
  PROVE  OneBatchInv'
<1>1. HubHeight' = HubHeight
  BY HubHeightUnchanged, Zenon DEF EmitNewBatchAccepted, hubVars
<1>2. AtHandler
  BY Zenon
  DEF EmitNewBatchAccepted, OneBatchInv, NoticeInv, Notified, NoNotice, Unnoticed,
         FromHub, ToHandler, ToSyncTarget
<1>3. open["syncTargetLoop"] /\ queue["syncTargetLoop"] = <<>>
  BY <1>2, Zenon DEF AtHandler, OneBatchInv, OpenInv
<1>4. /\ queue' = Delivered({"syncTargetLoop"}, HubHeight)
      /\ open' = StillOpen({"syncTargetLoop"})
  BY <1>2, Zenon DEF EmitNewBatchAccepted, AtHandler
<1>7. /\ queue'["syncTargetLoop"] = <<HubHeight>>
      /\ queue'["stateUpdatesHandler"] = queue["stateUpdatesHandler"]
      /\ queue'["postBatch"] = queue["postBatch"]
  BY <1>3, <1>4, AcceptedDelivered, Zenon
<1>8. /\ open["stateUpdatesHandler"] => open'["stateUpdatesHandler"]
      /\ open["syncTargetLoop"] => open'["syncTargetLoop"]
      /\ open["postBatch"] => open'["postBatch"]
  <2>1. \A s \in Subs : open[s] => StillOpen({"syncTargetLoop"})[s]
    BY <1>3, AcceptedDelivered, Zenon
  <2> QED
    BY <1>4, <2>1, Zenon DEF Subs
<1>9. OpenInv'
  BY <1>8, Zenon DEF OneBatchInv, OpenInv, EmitNewBatchAccepted, submitLoop
<1>10. ToSyncTarget'
  BY <1>1, <1>2, <1>7, Zenon
  DEF ToSyncTarget, AtHandler, EmitNewBatchAccepted, hubVars, memory
<1>11. ProductionInv' /\ NoticeInv' /\ AtHandInv'
  BY <1>2, <1>7, <1>10, NoticeMoves, Zenon DEF EmitNewBatchAccepted, hubVars, memory
<1>12. StartInv'
  BY StartKept, Zenon
  DEF OneBatchInv, EmitNewBatchAccepted, StartInv, node, syncLoops, store, production,
      hubVars, submitLoop, memory
<1> QED
  BY <1>9, <1>11, <1>12, Zenon DEF OneBatchInv

LEMMA NewBatchAcceptedOne ==
  ASSUME IInv, OneBatchInv, NewBatchAccepted
  PROVE  OneBatchInv'
<1>1. HubHeight' = HubHeight
  BY HubHeightUnchanged, Zenon DEF NewBatchAccepted, hubVars
<1>2. ToSyncTarget
  BY Zenon
  DEF NewBatchAccepted, OneBatchInv, NoticeInv, Notified, NoNotice, Unnoticed, FromHub,
         AtHandler, ToHandler
<1>3. /\ Head(queue["syncTargetLoop"]) = HubHeight
      /\ Tail(queue["syncTargetLoop"]) = <<>>
  BY <1>2, OneQueued DEF ToSyncTarget, Subs
<1>4. /\ queue'["syncTargetLoop"] = <<>>
      /\ queue'["stateUpdatesHandler"] = queue["stateUpdatesHandler"]
      /\ queue'["postBatch"] = queue["postBatch"]
  BY <1>3, Zenon DEF NewBatchAccepted, IInv, HeightsInv, Subs
<1>5. Notified'
  BY <1>1, <1>2, <1>3, <1>4, Zenon
  DEF Notified, NoNotice, ToSyncTarget, NewBatchAccepted, hubVars
<1>6. ProductionInv' /\ NoticeInv' /\ AtHandInv'
  BY <1>2, <1>4, <1>5, NoticeMoves, Zenon DEF NewBatchAccepted, hubVars
<1>7. OpenInv'
  BY Zenon DEF OneBatchInv, OpenInv, NewBatchAccepted, submitLoop
<1>8. StartInv'
  <2>1. loopPc # "ready" => HubHeight = 0
    BY Zenon DEF OneBatchInv, StartInv, HubHeight, LastHeight
  <2>2. syncTarget' = HubHeight /\ syncPc' = "loop"
    BY <1>3, Zenon DEF NewBatchAccepted, syncLoops
  <2> QED
    BY <2>1, <2>2
    DEF OneBatchInv, NewBatchAccepted, StartInv, node, syncLoops, store, production,
        hubVars, submitLoop
<1> QED
  BY <1>6, <1>7, <1>8 DEF OneBatchInv

\* What SyncTargetLoop reads before its first notice is no more than that tells.
LEMMA FetchOne ==
  ASSUME Reliable, IInv, OneBatchInv, FetchSyncTarget \/ FetchForProduction
  PROVE  OneBatchInv'
<1>0. /\ UNCHANGED <<store, production, submitLoop, pubsub, hubVars, node, memory>>
      /\ UNCHANGED <<up, height, savedHeight, lastBlockHeight, producer, pc, target, batch>>
      /\ UNCHANGED <<queue, open>>
      /\ UNCHANGED <<hub, hubMempool, syncTarget, handling, batchInProcess, latestHeight>>
  BY Zenon
  DEF FetchSyncTarget, FetchForProduction, store, production, submitLoop, pubsub, hubVars,
         node, memory
<1>1. HubHeight' = HubHeight
  BY <1>0, HubHeightUnchanged, Zenon
<1>2. ProductionInv'
  BY <1>0, ProductionKept, Zenon DEF OneBatchInv, ProductionInv
<1>3. NoticeInv' /\ AtHandInv' /\ OpenInv'
  BY <1>0, CycleKept, OneBatchNumbers DEF OneBatchInv
<1>4. StartInv'
  <2>0. DOMAIN fetched = {"loop", "sync"}
    BY Zenon DEF IInv, HeightsInv
  <2>1. CASE FetchSyncTarget
    <3>1. fetched' = [fetched EXCEPT !["sync"] = HubHeight]
      BY <2>1, NoSuchFault DEF FetchSyncTarget
    <3>2. fetched'["sync"] = HubHeight /\ fetched'["loop"] = fetched["loop"]
      BY <2>0, <3>1, Zenon
    <3> QED
      BY <1>0, <1>1, <2>1, <3>2 DEF OneBatchInv, StartInv, FetchSyncTarget
  <2>2. CASE FetchForProduction
    <3>1. hub = <<>> /\ HubHeight = 0
      BY <2>2, Zenon DEF OneBatchInv, StartInv, FetchForProduction, HubHeight, LastHeight
    <3>2. fetched'["sync"] = fetched["sync"] /\ fetched'["loop"] = 0
      BY <2>0, <2>2, <3>1, Zenon DEF FetchForProduction
    <3>3. up = "up"
      BY <2>2, Zenon DEF FetchForProduction, Up
    <3> QED
      BY <1>0, <1>1, <2>2, <3>2, <3>3, Zenon DEF OneBatchInv, StartInv, FetchForProduction
  <2> QED
    BY <2>1, <2>2
<1> QED
  BY <1>2, <1>3, <1>4, Zenon DEF OneBatchInv

LEMMA StoreSyncTargetOne ==
  ASSUME IInv, OneBatchInv, StoreSyncTarget
  PROVE  OneBatchInv'
<1>0. /\ UNCHANGED <<store, production, submitLoop, pubsub, hubVars, node, batchInProcess>>
      /\ UNCHANGED <<up, height, savedHeight, lastBlockHeight, producer, pc, target, batch>>
      /\ UNCHANGED <<queue, open>>
      /\ UNCHANGED <<hub, hubMempool, handling, latestHeight, hubEvents, loopPc, fetched>>
  BY Zenon DEF StoreSyncTarget, store, production, submitLoop, pubsub, hubVars, node
<1>1. HubHeight' = HubHeight
  BY <1>0, HubHeightUnchanged, Zenon
<1>2. syncTarget = 0 /\ fetched["sync"] \in {0, HubHeight} /\ HubHeight \in Nat
  BY OneBatchNumbers, Zenon DEF OneBatchInv, StartInv, StoreSyncTarget
<1>3. syncTarget' \in {syncTarget, HubHeight}
  BY <1>2, Zenon DEF StoreSyncTarget
<1>4. ProductionInv'
  BY <1>0, ProductionKept, Zenon DEF OneBatchInv, ProductionInv
<1>5. /\ NoNotice' = NoNotice /\ (Notified => Notified') /\ Unnoticed' = Unnoticed
      /\ FromHub' = FromHub /\ ToHandler' = ToHandler /\ AtHandler' = AtHandler
      /\ ToSyncTarget' = ToSyncTarget /\ Accepted' = Accepted
  BY <1>0, <1>1, <1>3, Zenon
  DEF NoNotice, Notified, Unnoticed, FromHub, ToHandler, AtHandler,
                          ToSyncTarget, Accepted, convertToNewBatchEvent
<1>6. NoticeInv'
  BY <1>0, <1>5, Zenon DEF OneBatchInv, NoticeInv
<1>7. Awaited => Awaited'
  BY <1>0, <1>1, <1>5, Zenon DEF Awaited
<1>8. AtHandInv'
  BY <1>0, <1>1, <1>5, <1>7 DEF OneBatchInv, AtHandInv
<1>9. OpenInv'
  BY <1>0, Zenon DEF OneBatchInv, OpenInv
<1>10. StartInv'
  <2>1. loopPc # "ready" => HubHeight = 0
    BY DEF OneBatchInv, StartInv, HubHeight, LastHeight
  <2>2. syncPc' = "loop"
    BY Zenon DEF StoreSyncTarget
  <2> QED
    BY <1>0, <1>2, <1>3, <2>1, <2>2 DEF OneBatchInv, StartInv
<1> QED
  BY <1>4, <1>6, <1>8, <1>9, <1>10, Zenon DEF OneBatchInv

LEMMA StoreForProductionOne ==
  ASSUME IInv, OneBatchInv, StoreForProduction
  PROVE  OneBatchInv'
<1>0. /\ UNCHANGED <<store, production, submitLoop, pubsub, hubVars, node, batchInProcess>>
      /\ UNCHANGED <<up, height, savedHeight, lastBlockHeight, producer, pc, target, batch>>
      /\ UNCHANGED <<queue, open>>
      /\ UNCHANGED <<hub, hubMempool, handling, latestHeight, hubEvents, syncPc, fetched>>
  BY Zenon DEF StoreForProduction, store, production, submitLoop, pubsub, hubVars, node
<1>1. HubHeight' = HubHeight
  BY <1>0, HubHeightUnchanged
<1>2. syncTarget' = syncTarget /\ syncTarget = 0 /\ loopPc' = "ready" /\ up = "up"
  BY DEF OneBatchInv, StartInv, StoreForProduction, Up
<1>3. ProductionInv'
  BY <1>0, ProductionKept DEF OneBatchInv, ProductionInv
<1>4. NoticeInv' /\ AtHandInv' /\ OpenInv'
  BY <1>0, <1>2, CycleKept, OneBatchNumbers DEF OneBatchInv
<1>5. StartInv'
  BY <1>0, <1>1, <1>2 DEF OneBatchInv, StartInv
<1> QED
  BY <1>3, <1>4, <1>5, Zenon DEF OneBatchInv

\* The node settles what it has produced: it has nothing to sync.
LEMMA NothingToSync ==
  ASSUME IInv, OneBatchInv, Synced \/ SyncBlock \/ (\E s \in Subs : LoopEnds(s))
  PROVE  FALSE
<1>1. CASE Synced
  BY <1>1, Zenon DEF Synced, OneBatchInv, StartInv
<1>2. CASE SyncBlock
  <2>1. HubHeight <= lastBlockHeight /\ (stage = "none" => lastBlockHeight = height)
    BY Zenon DEF OneBatchInv, ProductionInv
  <2>2. stage = "none" /\ height < syncTarget
    BY <1>2 DEF SyncBlock, IInv, StoreInv
  <2>3. syncTarget \in 0..HubHeight
    BY Zenon DEF IInv, HeightsInv
  <2> QED
    BY <2>1, <2>2, <2>3, OneBatchNumbers
<1>3. CASE \E s \in Subs : LoopEnds(s)
  BY <1>3, Zenon DEF LoopEnds, OneBatchInv, OpenInv, Subs
<1> QED
  BY <1>1, <1>2, <1>3, Zenon

LEMMA QuietOne ==
  ASSUME IInv, OneBatchInv,
         Listen \/ TakeEmptyBlockRequest \/ BroadcastFails \/ UNCHANGED vars
  PROVE  OneBatchInv'
<1>0. /\ UNCHANGED <<store, production, submitLoop, syncLoops, pubsub, hubVars, up>>
      /\ UNCHANGED <<height, lastBlockHeight, producer, pc, target, batch, queue, open>>
      /\ UNCHANGED <<savedHeight, hub, hubMempool, handling, loopPc, syncPc, fetched>>
      /\ UNCHANGED <<syncTarget, batchInProcess, latestHeight>>
  BY Zenon DEF Listen, TakeEmptyBlockRequest, BroadcastFails, vars, store, production,
         submitLoop, syncLoops, pubsub, hubVars, node, memory
<1>1. ProductionInv'
  BY <1>0, ProductionKept DEF OneBatchInv, ProductionInv
<1>2. NoticeInv' /\ AtHandInv' /\ OpenInv'
  BY <1>0, CycleKept, OneBatchNumbers DEF OneBatchInv
<1>3. StartInv'
  BY <1>0, StartKept DEF OneBatchInv, StartInv
<1> QED
  BY <1>1, <1>2, <1>3, Zenon DEF OneBatchInv

-----------------------------------------------------------------------------
(* The hub *)

\* The one transaction there can be is the batch PostBatch waits for.
LEMMA PostedOne ==
  ASSUME OneBatchInv, NEW m \in hubMempool
  PROVE  /\ pc = "wait" /\ m = batch /\ hubMempool = {m}
         /\ Awaited /\ queue["postBatch"] = <<>>
<1>1. pc = "wait" /\ ~Accepted
  BY Zenon DEF OneBatchInv, AtHandInv, Accepted
<1>2. Awaited /\ hubMempool \subseteq {batch} /\ queue["postBatch"] = <<>>
  BY <1>1, Zenon DEF OneBatchInv, AtHandInv
<1> QED
  BY <1>1, <1>2, Zenon

LEMMA AcceptOne ==
  ASSUME IInv, OneBatchInv, NEW m \in hubMempool, Accept(m)
  PROVE  OneBatchInv'
<1>0. /\ UNCHANGED <<store, production, submitLoop, syncLoops, pubsub, memory>>
      /\ UNCHANGED <<up, height, savedHeight, lastBlockHeight, producer, pc, target, batch>>
      /\ UNCHANGED <<queue, open>>
      /\ UNCHANGED <<stored, stage, handling, loopPc, syncPc, fetched>>
      /\ UNCHANGED <<syncTarget, batchInProcess, latestHeight>>
  BY Zenon DEF Accept, store, production, submitLoop, syncLoops, pubsub, node, memory
<1>1. pc = "wait" /\ m = batch /\ hubMempool = {m} /\ Awaited /\ queue["postBatch"] = <<>>
  BY PostedOne
<1>2. hub \in Seq(Batches) /\ batch \in Batches /\ HubHeight \in Nat
  BY <1>1, OneBatchNumbers DEF IInv, HubInv, SubmitInv
<1>3. /\ batch.StartHeight \in Nat /\ batch.EndHeight \in Nat
      /\ batch.StartHeight = HubHeight + 1 /\ batch.StartHeight <= batch.EndHeight
      /\ batch.EndHeight <= lastBlockHeight
  BY <1>1, <1>2, OneBatchNumbers, Zenon DEF Awaited
<1>4. hub' # <<>> /\ hub'[Len(hub')] = batch /\ hubMempool' = {}
  <2>1. hub' = Append(hub, batch) /\ hubMempool' = {}
    BY <1>1, Zenon DEF Accept
  <2>2. Len(hub') = Len(hub) + 1 /\ hub'[Len(hub) + 1] = batch /\ Len(hub) \in Nat
    BY <1>2, <2>1
  <2> QED
    BY <2>1, <2>2
<1>5. HubHeight' = batch.EndHeight
  BY <1>0, <1>4, Zenon DEF HubHeight, LastHeight
<1>6. Accepted'
  BY <1>0, <1>4, Zenon DEF Accepted
<1>7. NoNotice /\ batchInProcess
  BY <1>1, Zenon DEF Awaited, Notified
<1>8. Unnoticed' \/ FromHub'
  <2>1. CASE Up /\ listening
    <3> DEFINE e == StateUpdateEvent(m)
    <3>0. e.startHeight = m.StartHeight /\ e.numBlocks = m.EndHeight - m.StartHeight + 1
      BY Zenon DEF StateUpdateEvent
    <3> HIDE DEF e
    <3>1. convertToNewBatchEvent(e) = HubHeight'
      <4>1. e.startHeight = batch.StartHeight
            /\ e.numBlocks = batch.EndHeight - batch.StartHeight + 1
        BY <1>1, <3>0, Zenon
      <4>2. batch.StartHeight \in Int /\ batch.EndHeight \in Int
        BY <1>3
      <4>3. e.startHeight + e.numBlocks - 1 = batch.EndHeight
        BY <4>1, <4>2
      <4> QED
        BY <1>5, <4>3, Zenon DEF convertToNewBatchEvent
    <3>2. Append(<<>>, e) = <<e>> /\ Len(<<e>>) = 1 /\ <<e>>[1] = e
      OBVIOUS
    <3>3. hubEvents' = <<e>>
      BY <1>7, <2>1, <3>2, Zenon DEF Accept, NoNotice, e
    <3>4. Len(hubEvents') = 1 /\ convertToNewBatchEvent(hubEvents'[1]) = HubHeight'
      BY <3>1, <3>2, <3>3, Zenon
    <3> QED
      BY <1>0, <1>1, <1>7, <3>4, Zenon DEF FromHub, NoNotice, convertToNewBatchEvent
  <2>2. CASE ~(Up /\ listening)
    BY <1>0, <1>1, <1>7, <2>2, Zenon DEF Unnoticed, NoNotice, Accept
  <2> QED
    BY <2>1, <2>2, Zenon
<1>9. NoticeInv' /\ AtHandInv'
  BY <1>0, <1>1, <1>6, <1>7, <1>8 DEF NoticeInv, AtHandInv
<1>10. OpenInv'
  BY <1>0, Zenon DEF OneBatchInv, OpenInv
<1>11. ProductionInv'
  BY <1>0, <1>1, <1>3, <1>5 DEF OneBatchInv, ProductionInv
<1>12. StartInv'
  <2>1. loopPc = "ready"
    BY <1>1, Zenon DEF OneBatchInv, StartInv
  <2>2. syncPc = "store" => fetched["sync"] = 0
    BY <1>1, Zenon DEF OneBatchInv, StartInv, Awaited, Notified
  <2> QED
    BY <1>0, <2>1, <2>2 DEF OneBatchInv, StartInv
<1> QED
  BY <1>9, <1>10, <1>11, <1>12, Zenon DEF OneBatchInv

LEMMA RefuseOne ==
  ASSUME IInv, OneBatchInv, NEW m \in hubMempool, Refuse(m)
  PROVE  OneBatchInv'
<1>0. /\ UNCHANGED <<store, production, submitLoop, syncLoops, pubsub, hub, memory, node>>
      /\ UNCHANGED <<lastBlockHeight, producer, pc, target, batch, queue, open, handling>>
      /\ UNCHANGED <<hubEvents, syncTarget, batchInProcess, latestHeight, up>>
  BY Zenon DEF Refuse, store, production, submitLoop, syncLoops, pubsub, node, memory
<1>1. pc = "wait" /\ m = batch /\ hubMempool = {m} /\ Awaited /\ queue["postBatch"] = <<>>
  BY PostedOne
<1>2. hubMempool' = {} /\ loopPc = "ready"
  BY <1>1, Zenon DEF Refuse, OneBatchInv, StartInv
<1>3. HubHeight' = HubHeight
  BY <1>0, HubHeightUnchanged, Zenon
<1>4. Awaited'
  BY <1>0, <1>1, <1>3, Zenon DEF Awaited, Notified, NoNotice
<1>5. NoticeInv' /\ AtHandInv'
  BY <1>0, <1>1, <1>2, <1>4, Zenon DEF NoticeInv, AtHandInv, Awaited
<1>6. OpenInv'
  BY <1>0, Zenon DEF OneBatchInv, OpenInv
<1> QED
  BY <1>0, <1>1, <1>2, <1>5, <1>6, SubmitLoopOne, Zenon

LEMMA LoseEventOne ==
  ASSUME IInv, OneBatchInv, LoseEvent
  PROVE  OneBatchInv'
<1>0. /\ UNCHANGED <<store, production, submitLoop, syncLoops, pubsub, hub, memory, node>>
      /\ UNCHANGED <<lastBlockHeight, producer, pc, target, batch, queue, open, handling>>
      /\ UNCHANGED <<hubMempool, syncTarget, batchInProcess, latestHeight, up>>
  BY Zenon DEF LoseEvent, store, production, submitLoop, syncLoops, pubsub, node, memory
<1>1. FromHub /\ Accepted
  BY Zenon DEF LoseEvent, OneBatchInv, NoticeInv, Notified, NoNotice, Unnoticed, FromHub,
         ToHandler, AtHandler, ToSyncTarget
<1>2. hubEvents' = <<>>
  <2>1. hubEvents \in Seq([startHeight : Nat, numBlocks : Nat]) /\ Len(hubEvents) = 1
    BY <1>1, Zenon DEF IInv, HeightsInv, FromHub
  <2> QED
    BY <2>1, OneElement, Zenon DEF LoseEvent
<1>3. Unnoticed' /\ Accepted' /\ pc' = "wait" /\ batchInProcess'
  BY <1>0, <1>1, <1>2, Zenon DEF Unnoticed, Accepted, FromHub, NoNotice
<1>4. NoticeInv' /\ AtHandInv'
  BY <1>3, Zenon DEF NoticeInv, AtHandInv
<1>5. OpenInv'
  BY <1>0, Zenon DEF OneBatchInv, OpenInv
<1>6. pc # "produceBlock" /\ loopPc = "ready"
  BY <1>1, Zenon DEF FromHub, OneBatchInv, StartInv
<1> QED
  BY <1>0, <1>4, <1>5, <1>6, SubmitLoopOne, Zenon

-----------------------------------------------------------------------------
(* The theorems *)

LEMMA NextOne ==
  ASSUME Reliable, IInv, OneBatchInv, [Next]_vars
  PROVE  OneBatchInv'
<1>1. ASSUME NEW p \in Producers, Produce(p) PROVE OneBatchInv'
  BY <1>1, SaveBlockOne, UpdateStateOne, SaveStateOne, SetHeightOne, ProduceFailsOne, Zenon DEF Produce
<1>2. CASE Submit
  BY <1>2, TickOne, StartBatchOne, BatchBoundsOne, LoadFailsOne, CreateOne, HandOnOne,
     NobodyPanics, QuietOne, PostNotifiedOne, PollIncludedOne, PollNotIncludedOne
  DEF Submit
<1>3. CASE Settlement
  BY <1>3, EventHandlerOne, NobodyPanics, StateUpdateOne, EmitOne, NothingToSync, Zenon
  DEF Settlement
<1>4. CASE Sync
  BY <1>4, FetchOne, StoreSyncTargetOne, NewBatchAcceptedOne, NobodyPanics,
     StoreForProductionOne, NothingToSync, QuietOne, Zenon
  DEF Sync
<1>5. CASE Hub
  BY <1>5, AcceptOne, RefuseOne, LoseEventOne, Zenon DEF Hub
<1>6. CASE Boot \/ Listen \/ Crash
  BY <1>6, BootOne, QuietOne, NobodyPanics, Zenon
<1>7. CASE UNCHANGED vars
  BY <1>7, QuietOne, Zenon
<1> QED
  BY <1>1, <1>2, <1>3, <1>4, <1>5, <1>6, <1>7, Zenon DEF Next

LEMMA InitOne ==
  ASSUME Reliable, Init
  PROVE  OneBatchInv
<1>1. HubHeight = 0 /\ hub = <<>>
  BY Zenon DEF Init, Reliable, HubHeight, LastHeight
<1>2. \A s \in Subs : queue[s] = <<>>
  BY Zenon DEF Init
<1>3. open["stateUpdatesHandler"] /\ open["syncTargetLoop"]
  BY Zenon DEF Init, Subs
<1>4. NoNotice /\ Notified
  BY <1>1, <1>2, Zenon DEF Init, NoNotice, Notified, Subs
<1>5. ProductionInv
  <2>1. 0 <= MaxHeight /\ 0 <= 0 /\ Len(<<>>) = 0
    BY BatchAssumption
  <2>2. None # "submit"
    BY BatchAssumption, Zenon DEF Producers
  <2> QED
    BY <1>1, <2>1, <2>2, Zenon DEF Init, ProductionInv
<1>6. StartInv
  BY <1>1, Zenon DEF Init, StartInv
<1>7. NoticeInv /\ AtHandInv /\ OpenInv
  BY <1>2, <1>3, <1>4, Zenon DEF Init, NoticeInv, AtHandInv, OpenInv, Subs
<1> QED
  BY <1>5, <1>6, <1>7, Zenon DEF OneBatchInv

LEMMA OneBatchAtATime ==
  ASSUME Reliable
  PROVE  Spec => []OneBatchInv
<1>1. Init => OneBatchInv
  BY InitOne, Zenon
<1>2. IInv /\ OneBatchInv /\ [Next]_vars => OneBatchInv'
  BY NextOne, Zenon
<1> QED
  BY <1>1, <1>2, AlwaysIInv, PTL DEF Spec

\* The bounds that createNextDABatch and validateBatch are given fit together, so
\* no goroutine of an aggregator panics, though loads and broadcasts fail, the hub
\* drops transactions, and its events are lost.
THEOREM GoesOn ==
  ASSUME Reliable
  PROVE  Spec => []NoPanic
<1>1. OneBatchInv => NoPanic
  BY Zenon DEF OneBatchInv, StartInv, NoPanic
<1> QED
  BY <1>1, OneBatchAtATime, PTL

\* PostBatch returns on any event of an accepted batch; it is the batch it posted,
\* for there is one on its way at a time.
THEOREM WaitsForItsOwn ==
  ASSUME Reliable
  PROVE  Spec => []EventIsForPostedBatch
<1>1. IInv /\ OneBatchInv => EventIsForPostedBatch
  <2> SUFFICES ASSUME IInv, OneBatchInv, pc = "wait", queue["postBatch"] # <<>>
               PROVE  \E i \in DOMAIN hub : hub[i] = batch
    BY Zenon DEF EventIsForPostedBatch
  <2>1. hub # <<>> /\ batch = hub[Len(hub)] /\ hub \in Seq(Batches)
    BY Zenon DEF OneBatchInv, AtHandInv, Accepted, IInv, HubInv
  <2> QED
    BY <2>1
<1> QED
  BY <1>1, AlwaysIInv, OneBatchAtATime, PTL

LEMMA NextGrows ==
  ASSUME Reliable, IInv, OneBatchInv, [Next]_vars, Up
  PROVE  syncTarget' >= syncTarget
<1>0. syncTarget \in 0..HubHeight /\ HubHeight \in Nat
  BY OneBatchNumbers, Zenon DEF IInv, HeightsInv
<1>1. CASE StoreSyncTarget
  <2>1. fetched["sync"] \in {0, HubHeight}
    BY <1>1, Zenon DEF StoreSyncTarget, OneBatchInv, StartInv
  <2> QED
    BY <1>0, <1>1, <2>1 DEF StoreSyncTarget
<1>2. CASE StoreForProduction
  BY <1>0, <1>2 DEF StoreForProduction, OneBatchInv, StartInv
<1>3. CASE NewBatchAccepted
  <2>1. ToSyncTarget
    BY <1>3, Zenon
    DEF NewBatchAccepted, OneBatchInv, NoticeInv, Notified, NoNotice, Unnoticed,
                FromHub, AtHandler, ToHandler
  <2>2. Head(queue["syncTargetLoop"]) = HubHeight
    BY <2>1, OneQueued, Zenon DEF ToSyncTarget, Subs
  <2> QED
    BY <1>0, <1>3, <2>2 DEF NewBatchAccepted
<1>4. CASE UNCHANGED syncTarget
  BY <1>0, <1>4
<1>5. CASE \E p \in Producers : Produce(p)
  BY <1>4, <1>5, Zenon
  DEF Produce, SaveBlock, UpdateState, SaveState, SetHeight, ProduceFails, memory
<1>6. CASE Submit
  BY <1>4, <1>6, NobodyPanics, Zenon
  DEF Submit, Tick, NothingToSubmit, StartBatch, BatchBounds, LoadFails, RequestEmptyBlock,
      CreateNextDABatch, SubmitToDA, SubmitBatch, Broadcast, BroadcastFails, PostNotified,
      PollIncluded, PollNotIncluded, memory
<1>7. CASE Settlement
  BY <1>4, <1>7, NobodyPanics, Zenon
  DEF Settlement, EventHandler, StateUpdate, EmitNewBatchAccepted, LoopEnds, memory
<1>8. CASE Sync
  BY <1>1, <1>2, <1>3, <1>4, <1>8, NobodyPanics
  DEF Sync, FetchSyncTarget, FetchForProduction, Synced, SyncBlock, TakeEmptyBlockRequest,
      memory
<1>9. CASE Hub
  BY <1>4, <1>9, Zenon DEF Hub, LoseEvent, Accept, Refuse, memory
<1>10. CASE Boot \/ Listen \/ Crash
  BY <1>4, <1>10, NobodyPanics, Zenon DEF Boot, Listen, memory
<1>11. CASE UNCHANGED vars
  BY <1>4, <1>11, Zenon DEF vars, memory
<1> QED
  BY <1>5, <1>6, <1>7, <1>8, <1>9, <1>10, <1>11, Zenon DEF Next

\* Neither the target that SyncTargetLoop read when it started, nor an event that
\* waited in a queue, takes the place of a later one.
THEOREM TargetGrows ==
  ASSUME Reliable
  PROVE  Spec => SyncTargetGrows
<1>1. IInv /\ OneBatchInv /\ [Next]_vars =>
        [Up /\ up' = "up" => syncTarget' >= syncTarget]_vars
  BY NextGrows, Zenon
<1> QED
  BY <1>1, AlwaysIInv, OneBatchAtATime, PTL DEF Spec, SyncTargetGrows
==============================================================================
