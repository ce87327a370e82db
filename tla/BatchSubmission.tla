--------------------------- MODULE BatchSubmission ---------------------------
(***************************************************************************)
(* How an aggregator settles its blocks: SubmitLoop and submitNextBatch    *)
(* (block/submit.go), SyncTargetLoop (block/synctarget.go), waitForSync    *)
(* (block/produce.go), the settlement client (settlement/base.go) with the *)
(* Dymension HubClient (settlement/dymension/dymension.go), the pubsub     *)
(* server between them, the DA layer, and the hub that accepts batches.    *)
(*                                                                         *)
(* Block production appears as the points that SubmitLoop or a restart can *)
(* tell apart: the block is in the store, lastState names it, the state on *)
(* disk does, the store height is it.                                      *)
(* ApplyBlock.tla has the rest.  Heights start at 1.                       *)
(***************************************************************************)
EXTENDS Integers, Sequences

CONSTANTS
  Blocks,                  \* what a produced block may be: [empty, size]
  BlockBatchMaxSizeBytes,  \* the configured size of a batch
  Earlier,                 \* the batches an earlier sequencer settled
  None,                    \* no value
  PromptStart,             \* the start-up queries end before the first tick
  MaxHeight,               \* bound: the highest block produced
  MaxFaults,               \* bound: faults in a behaviour
  Faults                   \* what may fail (see Fault)

Producers == {"loop", "submit"}

Subs == {"stateUpdatesHandler", "postBatch", "syncTargetLoop"}

\* The default output capacity of a pubsub subscription.
OutCapacity == 1

FaultKinds == {"crash", "produce", "load", "da", "broadcast", "drop", "lost",
               "disconnect", "late", "query"}

\* types.Batch, and the MsgUpdateState made of it.
Batches == [StartHeight : Nat, EndHeight : Nat, Blocks : Seq(Blocks)]

\* A batch with one block for each of its heights.
Sound(b) ==
  /\ b.EndHeight >= b.StartHeight
  /\ Len(b.Blocks) = b.EndHeight - b.StartHeight + 1

\* The heights up to last are those of a sequence of batches.
Covered(batches, last) ==
  \A h \in 1..last :
    \E i \in DOMAIN batches : h \in batches[i].StartHeight..batches[i].EndHeight

\* The last height of a sequence of batches.
LastHeight(batches) == IF batches = <<>> THEN 0 ELSE batches[Len(batches)].EndHeight

ASSUME BatchAssumption ==
  /\ Blocks \subseteq [empty : BOOLEAN, size : Nat]
  /\ BlockBatchMaxSizeBytes \in Nat
  /\ Earlier \in Seq(Batches)
  /\ \A i \in DOMAIN Earlier :
       Sound(Earlier[i]) /\ Earlier[i].EndHeight <= LastHeight(Earlier)
  /\ Covered(Earlier, LastHeight(Earlier))
  /\ PromptStart \in BOOLEAN
  /\ MaxHeight \in Nat
  /\ MaxFaults \in Nat
  /\ Faults \subseteq FaultKinds
  /\ None \notin Nat \cup Producers /\ None \notin Batches

VARIABLES
  stored,           \* disk: the blocks of heights 1 .. Len(stored)
  height,           \* store.Height(), which a restart reloads
  lastBlockHeight,  \* m.lastState.LastBlockHeight
  savedHeight,      \* disk: LastBlockHeight of the state that was saved
  up,               \* "up", "down", or "panicked"
  listening,        \* eventHandler has subscribed to the events of the hub
  syncTarget,       \* m.syncTarget
  batchInProcess,   \* m.batchInProcess
  latestHeight,     \* BaseLayerClient.latestHeight
  producer,         \* holder of produceBlockMutex, or None
  stage,            \* where it is in produceBlock
  emptyCh,          \* entries of produceEmptyBlockCh
  pc,               \* SubmitLoop: where it is
  target,           \* SubmitLoop: its copy of syncTarget
  batch,            \* SubmitLoop: the batch at hand
  loopPc,           \* ProduceBlockLoop: where it is in waitForSync
  syncPc,           \* SyncTargetLoop: where it is
  fetched,          \* what the last two read from the hub
  handling,         \* stateUpdatesHandler: the event it is about to pass on
  queue, open,      \* the subscriptions of the pubsub server
  hub,              \* the batches the hub accepted
  hubMempool,       \* MsgUpdateState transactions on their way
  hubEvents,        \* acceptance events on their way to eventHandler
  da,               \* the batches the DA layer holds
  faults            \* faults so far

store == <<stored, height, lastBlockHeight, savedHeight>>
production == <<producer, stage>>
submitLoop == <<pc, target, batch>>
syncLoops == <<loopPc, syncPc, fetched>>
pubsub == <<queue, open, handling>>
hubVars == <<hub, hubMempool, hubEvents>>
node == <<up, listening>>
memory == <<syncTarget, batchInProcess, latestHeight, emptyCh>>
vars == <<store, production, submitLoop, syncLoops, pubsub, hubVars, node, memory,
          da, faults>>

\* The last height the hub accepted, 0 when it has no batch (ErrBatchNotFound).
HubHeight == LastHeight(hub)

\* A fault of kind f happens, if the instance allows it.
Fault(f) ==
  /\ f \in Faults
  /\ faults < MaxFaults
  /\ faults' = faults + 1

-----------------------------------------------------------------------------
(* Start and end of the process *)

\* The process is up; every action of the node but Boot needs it.
Up == up = "up"

\* A panic of any goroutine ends the process.
Panic ==
  /\ up' = "panicked"
  /\ UNCHANGED <<store, production, submitLoop, syncLoops, pubsub, hubVars, listening,
                 memory, da>>

Crash ==
  /\ Up
  /\ Fault("crash")
  /\ up' = "down"
  /\ UNCHANGED <<store, production, submitLoop, syncLoops, pubsub, hubVars, listening,
                 memory, da>>

Fresh_NoLatestHeight(latest) ==
  /\ listening' = FALSE
  /\ syncTarget' = 0
  /\ batchInProcess' = FALSE
  /\ latestHeight' = 0
  /\ producer' = None /\ stage' = "none"
  /\ emptyCh' = 0
  /\ pc' = "idle" /\ target' = 0 /\ batch' = None
  /\ loopPc' = "start" /\ syncPc' = "start"
  /\ fetched' = [g \in {"loop", "sync"} |-> None]
  /\ handling' = None
  /\ queue' = [s \in Subs |-> <<>>]
  /\ open' = [s \in Subs |-> s # "postBatch"]

\* What a process holds in memory when its loops start: BaseLayerClient.Init has
\* read the latest height from the hub, NewManager has made the rest.
Fresh(latest) ==
  /\ listening' = FALSE
  /\ syncTarget' = 0
  /\ batchInProcess' = FALSE
  /\ latestHeight' = latest
  /\ producer' = None /\ stage' = "none"
  /\ emptyCh' = 0
  /\ pc' = "idle" /\ target' = 0 /\ batch' = None
  /\ loopPc' = "start" /\ syncPc' = "start"
  /\ fetched' = [g \in {"loop", "sync"} |-> None]
  /\ handling' = None
  /\ queue' = [s \in Subs |-> <<>>]
  /\ open' = [s \in Subs |-> s # "postBatch"]

\* A failed query looks like ErrBatchNotFound, to Init as to the others: GetLatestBatch
\* tests the response, which is nil then, before the error.
Boot ==
  /\ ~Up
  /\ up' = "up"
  /\ \/ Fresh(HubHeight) /\ UNCHANGED faults
     \/ Fresh(0) /\ Fault("query")
  /\ lastBlockHeight' = savedHeight
  /\ hubEvents' = <<>>
  /\ UNCHANGED <<stored, height, savedHeight, hub, hubMempool, da>>

\* HubClient.Start leaves the subscription to a goroutine; what the hub emits
\* before it is not delivered.
Listen ==
  /\ Up /\ ~listening
  /\ listening' = TRUE
  /\ UNCHANGED <<store, production, submitLoop, syncLoops, pubsub, hubVars, up, memory,
                 da, faults>>

-----------------------------------------------------------------------------
(* produceBlock *)

\* ProduceBlockLoop produces once waitForSync has returned, SubmitLoop whenever
\* it is about to submit.
MayProduce(p) == IF p = "loop" THEN loopPc = "ready" ELSE pc = "produceBlock"

SaveBlock_IgnoresPending(p) ==
  /\ Up /\ MayProduce(p)
  /\ producer = None
  /\ height < MaxHeight
  /\ producer' = p /\ stage' = "saved"
  /\ \E b \in Blocks : stored' = Append(SubSeq(stored, 1, height), b)
  /\ UNCHANGED <<height, lastBlockHeight, savedHeight, submitLoop, syncLoops, pubsub,
                 hubVars, node, memory, da, faults>>

\* produceBlock takes the mutex and applyBlock saves the block; a block the
\* store already holds for that height is used again.
SaveBlock(p) ==
  /\ Up /\ MayProduce(p)
  /\ producer = None
  /\ height < MaxHeight
  /\ producer' = p /\ stage' = "saved"
  /\ IF Len(stored) > height
     THEN UNCHANGED stored
     ELSE \E b \in Blocks : stored' = Append(stored, b)
  /\ UNCHANGED <<height, lastBlockHeight, savedHeight, submitLoop, syncLoops, pubsub,
                 hubVars, node, memory, da, faults>>

\* applyBlock assigns lastState, then commits the batch with it.
UpdateState(p) ==
  /\ Up
  /\ producer = p /\ stage = "saved"
  /\ stage' = "assigned"
  /\ lastBlockHeight' = height + 1
  /\ UNCHANGED <<stored, height, savedHeight, producer, submitLoop, syncLoops, pubsub,
                 hubVars, node, memory, da, faults>>

SaveState(p) ==
  /\ Up
  /\ producer = p /\ stage = "assigned"
  /\ stage' = "updated"
  /\ savedHeight' = height + 1
  /\ UNCHANGED <<stored, height, lastBlockHeight, producer, submitLoop, syncLoops, pubsub,
                 hubVars, node, memory, da, faults>>

\* produceBlock returns: SubmitLoop goes on whatever the result.
ProduceReturns(p) ==
  /\ producer' = None /\ stage' = "none"
  /\ pc' = IF p = "submit" THEN "submitNextBatch" ELSE pc

SetHeight(p) ==
  /\ Up
  /\ producer = p /\ stage = "updated"
  /\ height' = height + 1
  /\ ProduceReturns(p)
  /\ UNCHANGED <<stored, lastBlockHeight, savedHeight, target, batch, syncLoops, pubsub,
                 hubVars, node, memory, da, faults>>

\* An error before the block is saved, or at a later step of applyBlock.  At
\* MaxHeight the instance produces no block.
ProduceFails(p) ==
  /\ Up
  /\ \/ producer = None /\ MayProduce(p)
     \/ producer = p
  /\ \/ Fault("produce")
     \/ p = "submit" /\ producer = None /\ height = MaxHeight /\ UNCHANGED faults
  /\ ProduceReturns(p)
  /\ UNCHANGED <<store, target, batch, syncLoops, pubsub, hubVars, node, memory, da>>

-----------------------------------------------------------------------------
(* SubmitLoop *)

\* The ticker: syncTarget is read first, batchInProcess last.  Its period is
\* BatchSubmitMaxTime, which the queries at the start may exceed or not.
Tick ==
  /\ Up /\ pc = "idle"
  /\ PromptStart => syncPc = "loop" /\ loopPc \in {"waiting", "ready"}
  /\ pc' = "ticked"
  /\ target' = syncTarget
  /\ UNCHANGED <<store, production, batch, syncLoops, pubsub, hubVars, node, memory, da,
                 faults>>

MustSubmit_WhileInProcess ==
  /\ height # target
  /\ Len(stored) = MaxHeight => HubHeight < MaxHeight

\* The difference is one of uint64 values, so it is zero only when they are
\* equal.  Bounded: with MaxHeight blocks a batch starts only while some are
\* unsettled.
MustSubmit ==
  /\ height # target
  /\ ~batchInProcess
  /\ Len(stored) = MaxHeight => HubHeight < MaxHeight

NothingToSubmit ==
  /\ Up /\ pc = "ticked"
  /\ ~MustSubmit
  /\ pc' = "idle"
  /\ UNCHANGED <<store, production, target, batch, syncLoops, pubsub, hubVars, node,
                 memory, da, faults>>

StartBatch ==
  /\ Up /\ pc = "ticked"
  /\ MustSubmit
  /\ batchInProcess' = TRUE
  /\ pc' = "produceBlock"
  /\ UNCHANGED <<store, production, target, batch, syncLoops, pubsub, hubVars, node,
                 syncTarget, latestHeight, emptyCh, da, faults>>

\* submitNextBatch up to validateLastBlockInBatchIsEmpty.
BatchBounds ==
  /\ Up /\ pc = "submitNextBatch"
  /\ lastBlockHeight \in DOMAIN stored
  /\ batch' = [StartHeight |-> syncTarget + 1, EndHeight |-> lastBlockHeight,
               Blocks |-> <<>>]
  /\ pc' = IF stored[lastBlockHeight].empty THEN "create" ELSE "request"
  /\ UNCHANGED <<store, production, target, syncLoops, pubsub, hubVars, node, memory,
                 da, faults>>

\* LoadBlock fails; submitNextBatch returns with batchInProcess set.
LoadFails ==
  /\ Up
  /\ \/ pc = "submitNextBatch" /\ lastBlockHeight \notin DOMAIN stored /\ UNCHANGED faults
     \/ pc \in {"submitNextBatch", "create"} /\ Fault("load")
  /\ pc' = "idle" /\ batch' = None
  /\ UNCHANGED <<store, production, target, syncLoops, pubsub, hubVars, node, memory, da>>

\* The send blocks while the channel, of capacity 1, is full.
RequestEmptyBlock ==
  /\ Up /\ pc = "request"
  /\ emptyCh = 0
  /\ emptyCh' = 1
  /\ pc' = "create"
  /\ UNCHANGED <<store, production, target, batch, syncLoops, pubsub, hubVars, node,
                 syncTarget, batchInProcess, latestHeight, da, faults>>

\* ProduceBlockLoop receives the request; it does not while in waitForSync.
TakeEmptyBlockRequest ==
  /\ Up /\ loopPc = "ready"
  /\ emptyCh = 1
  /\ emptyCh' = 0
  /\ UNCHANGED <<store, production, submitLoop, syncLoops, pubsub, hubVars, node,
                 syncTarget, batchInProcess, latestHeight, da, faults>>

\* The size of a batch of n blocks from start.
SizeOf(start, n) ==
  LET size[k \in 0..n] == IF k = 0 THEN 0 ELSE size[k - 1] + stored[start + k - 1].size
  IN size[n]

\* A batch takes n of the blocks from start to end: those before the first that
\* makes it too large.

Takes(start, end, n) ==
  /\ \A k \in 1..n : SizeOf(start, k) <= BlockBatchMaxSizeBytes
  /\ n <= end - start => SizeOf(start, n + 1) > BlockBatchMaxSizeBytes

\* The slices of a batch are made with a uint64 capacity: it wraps, and make
\* panics, unless end + 1 >= start.
CreateNextDABatch ==
  /\ Up /\ pc = "create"
  /\ batch.StartHeight <= batch.EndHeight + 1
  /\ \E n \in 0..(batch.EndHeight - batch.StartHeight + 1) :
       LET start == batch.StartHeight
           end == start + n - 1
       IN /\ Takes(start, batch.EndHeight, n)
          /\ batch' = [StartHeight |-> start, EndHeight |-> end,
                       Blocks |-> SubSeq(stored, start, end)]
  /\ pc' = "submitToDA"
  /\ UNCHANGED <<store, production, target, syncLoops, pubsub, hubVars, node, memory,
                 da, faults>>

CreatePanics ==
  /\ Up /\ pc = "create"
  /\ batch.StartHeight > batch.EndHeight + 1
  /\ Panic /\ UNCHANGED faults

SubmitToDA_IgnoresResult ==
  /\ Up /\ pc = "submitToDA"
  /\ da' = da \/ da' = da \cup {batch}
  /\ pc' = "submitToSL"
  /\ UNCHANGED <<store, production, target, batch, syncLoops, pubsub, hubVars, node,
                 memory, faults>>

SubmitToDA ==
  /\ Up /\ pc = "submitToDA"
  /\ da' = da \cup {batch}
  /\ pc' = "submitToSL"
  /\ UNCHANGED <<store, production, target, batch, syncLoops, pubsub, hubVars, node,
                 memory, faults>>

DAPanics ==
  /\ Up /\ pc = "submitToDA"
  /\ Fault("da")
  /\ Panic

-----------------------------------------------------------------------------
(* The settlement client *)

ValidateBatch_StartOnly == batch.StartHeight = latestHeight + 1

ValidateBatch ==
  /\ batch.StartHeight = latestHeight + 1
  /\ batch.EndHeight >= batch.StartHeight

\* SubmitBatch, and PostBatch up to its loop.
SubmitBatch ==
  /\ Up /\ pc = "submitToSL"
  /\ ValidateBatch
  /\ pc' = "postBatch"
  /\ open' = [open EXCEPT !["postBatch"] = TRUE]
  /\ UNCHANGED <<store, production, target, batch, syncLoops, queue, handling, hubVars,
                 node, memory, da, faults>>

SubmitBatchPanics ==
  /\ Up /\ pc = "submitToSL"
  /\ ~ValidateBatch
  /\ Panic /\ UNCHANGED faults

\* submitBatch of the HubClient.  A transaction the hub refuses at once (Code # 0
\* without an error) counts as submitted too.
Broadcast ==
  /\ Up /\ pc = "postBatch"
  /\ pc' = "wait"
  /\ hubMempool' = hubMempool \cup {batch}
  /\ UNCHANGED <<store, production, target, batch, syncLoops, pubsub, hub, hubEvents,
                 node, memory, da, faults>>

BroadcastFails ==
  /\ Up /\ pc = "postBatch"
  /\ Fault("broadcast")
  /\ UNCHANGED <<store, production, submitLoop, syncLoops, pubsub, hubVars, node, memory,
                 da>>

\* PublishWithEvents: an event goes into the buffer of each subscription; a
\* subscription whose buffer is full is cancelled.
Delivered(subs, e) ==
  [s \in Subs |-> IF s \in subs /\ open[s] /\ Len(queue[s]) < OutCapacity
                  THEN Append(queue[s], e)
                  ELSE queue[s]]

StillOpen(subs) ==
  [s \in Subs |-> open[s] /\ (s \in subs => Len(queue[s]) < OutCapacity)]

PostReturns_StaysSubscribed(q, o) ==
  /\ pc' = "idle" /\ batch' = None
  /\ queue' = q
  /\ open' = o

\* Who subscribes to EventNewSettlementBatchAccepted.
BatchAcceptedSubs == {"stateUpdatesHandler", "postBatch"}

\* PostBatch unsubscribes and SubmitLoop waits for its next tick.
PostReturns(q, o) ==
  /\ pc' = "idle" /\ batch' = None
  /\ queue' = [q EXCEPT !["postBatch"] = <<>>]
  /\ open' = [o EXCEPT !["postBatch"] = FALSE]

\* An acceptance event, or the end of the subscription.
PostNotified ==
  /\ Up /\ pc = "wait"
  /\ queue["postBatch"] # <<>> \/ ~open["postBatch"]
  /\ PostReturns(queue, open)
  /\ UNCHANGED <<store, production, target, syncLoops, handling, hubVars, node, memory,
                 da, faults>>

\* batchAcceptanceTimeout passes.  It is a fault ("late") when the batch or an
\* event of it is still on its way.
TimedOut ==
  /\ Up /\ pc = "wait"
  /\ IF batch \notin hubMempool /\ hubEvents = <<>> /\ queue["postBatch"] = <<>>
     THEN UNCHANGED faults
     ELSE Fault("late")

PollIncluded_OwnEndHeight ==
  /\ TimedOut
  /\ hub # <<>> /\ hub[Len(hub)].StartHeight = batch.StartHeight
  /\ PostReturns(Delivered(BatchAcceptedSubs, batch.EndHeight),
                 StillOpen(BatchAcceptedSubs))
  /\ UNCHANGED <<store, production, target, syncLoops, handling, hubVars, node, memory,
                 da>>

PollIncluded_NoEvent ==
  /\ TimedOut
  /\ hub # <<>> /\ hub[Len(hub)].StartHeight = batch.StartHeight
  /\ PostReturns(queue, open)
  /\ UNCHANGED <<store, production, target, syncLoops, handling, hubVars, node, memory,
                 da>>

\* waitForBatchInclusion finds the batch; PostBatch emits the event itself.
PollIncluded ==
  /\ TimedOut
  /\ hub # <<>> /\ hub[Len(hub)].StartHeight = batch.StartHeight
  /\ PostReturns(Delivered(BatchAcceptedSubs, HubHeight), StillOpen(BatchAcceptedSubs))
  /\ UNCHANGED <<store, production, target, syncLoops, handling, hubVars, node, memory,
                 da>>

\* The latest batch is another one, or the query fails: submit again.
PollNotIncluded ==
  /\ \/ TimedOut /\ (hub # <<>> => hub[Len(hub)].StartHeight # batch.StartHeight)
     \/ Up /\ pc = "wait" /\ Fault("query")
  /\ pc' = "postBatch"
  /\ UNCHANGED <<store, production, target, batch, syncLoops, pubsub, hubVars, node,
                 memory, da>>

\* The height an event of the hub reports.
convertToNewBatchEvent_NumBlocks(e) == e.numBlocks

convertToNewBatchEvent_OffByOne(e) == e.startHeight + e.numBlocks

convertToNewBatchEvent(e) == e.startHeight + e.numBlocks - 1

\* eventHandler of the HubClient.
EventHandler ==
  /\ Up /\ listening
  /\ hubEvents # <<>>
  /\ hubEvents' = Tail(hubEvents)
  /\ queue' = Delivered(BatchAcceptedSubs, convertToNewBatchEvent(Head(hubEvents)))
  /\ open' = StillOpen(BatchAcceptedSubs)
  /\ UNCHANGED <<store, production, submitLoop, syncLoops, handling, hub, hubMempool,
                 node, memory, da, faults>>

Disconnected ==
  /\ Up /\ listening
  /\ Fault("disconnect")
  /\ Panic

\* stateUpdatesHandler stores the height, then passes the event on.
StateUpdate ==
  /\ Up /\ handling = None
  /\ queue["stateUpdatesHandler"] # <<>>
  /\ handling' = Head(queue["stateUpdatesHandler"])
  /\ latestHeight' = handling'
  /\ queue' = [queue EXCEPT !["stateUpdatesHandler"] = Tail(@)]
  /\ UNCHANGED <<store, production, submitLoop, syncLoops, open, hubVars, node,
                 syncTarget, batchInProcess, emptyCh, da, faults>>

EmitNewBatchAccepted ==
  /\ Up /\ handling # None
  /\ handling' = None
  /\ queue' = Delivered({"syncTargetLoop"}, handling)
  /\ open' = StillOpen({"syncTargetLoop"})
  /\ UNCHANGED <<store, production, submitLoop, syncLoops, hubVars, node, memory, da,
                 faults>>

\* A cancelled subscription ends its loop, which may leave an event unread.
LoopEnds(s) ==
  /\ Up /\ s # "postBatch"
  /\ s = "stateUpdatesHandler" => handling = None
  /\ s = "syncTargetLoop" => syncPc = "loop"
  /\ ~open[s] /\ queue[s] # <<>>
  /\ queue' = [queue EXCEPT ![s] = <<>>]
  /\ UNCHANGED <<store, production, submitLoop, syncLoops, open, handling, hubVars, node,
                 memory, da, faults>>

-----------------------------------------------------------------------------
(* SyncTargetLoop, waitForSync and the sync of blocks *)

\* getLatestBatchFromSL, by SyncTargetLoop.
FetchSyncTarget ==
  /\ Up /\ syncPc = "start"
  /\ \/ fetched' = [fetched EXCEPT !["sync"] = HubHeight] /\ UNCHANGED faults
     \/ fetched' = [fetched EXCEPT !["sync"] = 0] /\ Fault("query")
  /\ syncPc' = "store"
  /\ UNCHANGED <<store, production, submitLoop, loopPc, pubsub, hubVars, node, memory, da>>

\* Without a batch, or on an error, the target stays as it is.
StoreSyncTarget ==
  /\ Up /\ syncPc = "store"
  /\ syncTarget' = IF fetched["sync"] > 0 THEN fetched["sync"] ELSE syncTarget
  /\ syncPc' = "loop"
  /\ UNCHANGED <<store, production, submitLoop, loopPc, fetched, pubsub, hubVars, node,
                 batchInProcess, latestHeight, emptyCh, da, faults>>

\* updateSyncParams, and the next batch may be submitted.
NewBatchAccepted ==
  /\ Up /\ syncPc = "loop"
  /\ queue["syncTargetLoop"] # <<>>
  /\ syncTarget' = Head(queue["syncTargetLoop"])
  /\ batchInProcess' = FALSE
  /\ queue' = [queue EXCEPT !["syncTargetLoop"] = Tail(@)]
  /\ UNCHANGED <<store, production, submitLoop, syncLoops, handling, open, hubVars, node,
                 latestHeight, emptyCh, da, faults>>

\* waitForSync: the latest batch is read and stored; then it waits.  Without a batch,
\* and so after a failed query, it takes the chain for a new one.
FetchForProduction ==
  /\ Up /\ loopPc = "start"
  /\ \/ fetched' = [fetched EXCEPT !["loop"] = HubHeight] /\ UNCHANGED faults
     \/ fetched' = [fetched EXCEPT !["loop"] = 0] /\ Fault("query")
  /\ loopPc' = "store"
  /\ UNCHANGED <<store, production, submitLoop, syncPc, pubsub, hubVars, node, memory, da>>

StoreForProduction ==
  /\ Up /\ loopPc = "store"
  /\ syncTarget' = fetched["loop"]
  /\ loopPc' = IF fetched["loop"] = 0 THEN "ready" ELSE "waiting"
  /\ UNCHANGED <<store, production, submitLoop, syncPc, fetched, pubsub, hubVars, node,
                 batchInProcess, latestHeight, emptyCh, da, faults>>

Synced ==
  /\ Up /\ loopPc = "waiting"
  /\ height >= syncTarget
  /\ loopPc' = "ready"
  /\ UNCHANGED <<store, production, submitLoop, syncPc, fetched, pubsub, hubVars, node,
                 memory, da, faults>>

\* The block of height h in the batches of the hub.
SettledBlock(h) ==
  LET i == CHOOSE i \in DOMAIN hub : h \in hub[i].StartHeight..hub[i].EndHeight
  IN hub[i].Blocks[h - hub[i].StartHeight + 1]

\* RetriveLoop applies the next settled block, here in one step and not while
\* produceBlock applies another; the code has no lock between the two.
SyncBlock ==
  /\ Up /\ producer = None
  /\ height < syncTarget
  /\ stored' = [i \in 1..(IF Len(stored) > height THEN Len(stored) ELSE height + 1) |->
                  IF i = height + 1 THEN SettledBlock(i) ELSE stored[i]]
  /\ height' = height + 1
  /\ lastBlockHeight' = height + 1 /\ savedHeight' = height + 1
  /\ UNCHANGED <<production, submitLoop, syncLoops, pubsub, hubVars, node, memory, da,
                 faults>>

-----------------------------------------------------------------------------
(* The hub *)

\* The event of a batch the hub accepts.
StateUpdateEvent(m) ==
  [startHeight |-> m.StartHeight, numBlocks |-> m.EndHeight - m.StartHeight + 1]

\* A batch that follows the last one is accepted.  Its event reaches a node that
\* listens.
Accept(m) ==
  /\ m \in hubMempool
  /\ m.StartHeight = HubHeight + 1
  /\ hub' = Append(hub, m)
  /\ hubMempool' = hubMempool \ {m}
  /\ hubEvents' = IF Up /\ listening THEN Append(hubEvents, StateUpdateEvent(m))
                  ELSE hubEvents
  /\ UNCHANGED <<store, production, submitLoop, syncLoops, pubsub, node, memory, da,
                 faults>>

\* Any other batch is refused; a transaction may also vanish.
Refuse(m) ==
  /\ m \in hubMempool
  /\ \/ m.StartHeight # HubHeight + 1 /\ UNCHANGED faults
     \/ Fault("drop")
  /\ hubMempool' = hubMempool \ {m}
  /\ UNCHANGED <<store, production, submitLoop, syncLoops, pubsub, hub, hubEvents, node,
                 memory, da>>

LoseEvent ==
  /\ hubEvents # <<>>
  /\ Fault("lost")
  /\ hubEvents' = Tail(hubEvents)
  /\ UNCHANGED <<store, production, submitLoop, syncLoops, pubsub, hub, hubMempool, node,
                 memory, da>>

-----------------------------------------------------------------------------
(* The specification *)

Init ==
  /\ stored = <<>> /\ height = 0 /\ lastBlockHeight = 0 /\ savedHeight = 0
  /\ up = "down" /\ listening = FALSE
  /\ syncTarget = 0 /\ batchInProcess = FALSE /\ latestHeight = 0 /\ emptyCh = 0
  /\ producer = None /\ stage = "none"
  /\ pc = "idle" /\ target = 0 /\ batch = None
  /\ loopPc = "start" /\ syncPc = "start"
  /\ fetched = [g \in {"loop", "sync"} |-> None]
  /\ handling = None
  /\ queue = [s \in Subs |-> <<>>]
  /\ open = [s \in Subs |-> s # "postBatch"]
  /\ hub = Earlier /\ hubMempool = {} /\ hubEvents = <<>>
  /\ da = {Earlier[i] : i \in DOMAIN Earlier}
  /\ faults = 0

Produce(p) ==
  SaveBlock(p) \/ UpdateState(p) \/ SaveState(p) \/ SetHeight(p) \/ ProduceFails(p)

Submit ==
  \/ Tick \/ NothingToSubmit \/ StartBatch \/ BatchBounds \/ LoadFails
  \/ RequestEmptyBlock \/ CreateNextDABatch \/ CreatePanics \/ SubmitToDA \/ DAPanics
  \/ SubmitBatch \/ SubmitBatchPanics \/ Broadcast \/ BroadcastFails
  \/ PostNotified \/ PollIncluded \/ PollNotIncluded

Settlement ==
  \/ EventHandler \/ Disconnected \/ StateUpdate \/ EmitNewBatchAccepted
  \/ \E s \in Subs : LoopEnds(s)

Sync ==
  \/ FetchSyncTarget \/ StoreSyncTarget \/ NewBatchAccepted
  \/ FetchForProduction \/ StoreForProduction \/ Synced
  \/ SyncBlock \/ TakeEmptyBlockRequest

Hub == LoseEvent \/ \E m \in hubMempool : Accept(m) \/ Refuse(m)

Next ==
  \/ Boot \/ Listen \/ Crash
  \/ \E p \in Producers : Produce(p)
  \/ Submit \/ Settlement \/ Sync \/ Hub

Spec == Init /\ [][Next]_vars

\* Every goroutine that can go on does, the hub handles every transaction that
\* reaches it, and the process is started again after it ends.  No fault has to
\* happen, nor does ProduceBlockLoop have to produce.
NoFault(A) == A /\ UNCHANGED faults

Fairness ==
  /\ WF_vars(NoFault(Boot)) /\ WF_vars(Listen)
  /\ \A p \in Producers : WF_vars(UpdateState(p) \/ SaveState(p) \/ SetHeight(p))
  /\ WF_vars(NoFault(SaveBlock("submit") \/ ProduceFails("submit")))
  /\ WF_vars(NoFault(Submit))
  /\ WF_vars(EventHandler)
  /\ WF_vars(StateUpdate \/ EmitNewBatchAccepted)
  /\ WF_vars(NoFault(FetchSyncTarget) \/ StoreSyncTarget \/ NewBatchAccepted)
  /\ WF_vars(NoFault(FetchForProduction) \/ StoreForProduction \/ Synced)
  /\ WF_vars(TakeEmptyBlockRequest) /\ WF_vars(SyncBlock)
  /\ WF_vars(NoFault(Hub))

FairSpec == Spec /\ Fairness

-----------------------------------------------------------------------------
(* Properties *)

\* The variables have the types of the Go declarations.
TypeOK ==
  /\ stored \in Seq(Blocks)
  /\ height \in Nat /\ lastBlockHeight \in Nat /\ savedHeight \in Nat
  /\ up \in {"up", "down", "panicked"} /\ listening \in BOOLEAN
  /\ syncTarget \in Nat /\ batchInProcess \in BOOLEAN /\ latestHeight \in Nat
  /\ emptyCh \in 0..1
  /\ producer \in Producers \cup {None} /\ stage \in {"none", "saved", "assigned", "updated"}
  /\ pc \in {"idle", "ticked", "produceBlock", "submitNextBatch", "request", "create",
             "submitToDA", "submitToSL", "postBatch", "wait"}
  /\ target \in Nat
  /\ batch \in Batches \cup {None}
  /\ loopPc \in {"start", "store", "waiting", "ready"}
  /\ syncPc \in {"start", "store", "loop"}
  /\ fetched \in [{"loop", "sync"} -> Nat \cup {None}]
  /\ handling \in Nat \cup {None}
  /\ queue \in [Subs -> Seq(Nat)] /\ open \in [Subs -> BOOLEAN]
  /\ hub \in Seq(Batches) /\ hubMempool \subseteq Batches
  /\ hubEvents \in Seq([startHeight : Nat, numBlocks : Nat])
  /\ da \subseteq Batches
  /\ faults \in 0..MaxFaults

\* Whatever the hub has accepted is on the DA layer, in the very batch it
\* accepted: a full node can always retrieve it (submitNextBatch submits to the
\* DA layer before it submits to the settlement layer).
SettledIsAvailable == \A i \in DOMAIN hub : hub[i] \in da

\* Whatever the hub has accepted from this node is the chain in its store, also
\* when a batch ends with a block whose production was still under way, and
\* after crashes (submitNextBatch takes the end of a batch from lastState).
SettledIsStored ==
  \A i \in (Len(Earlier) + 1)..Len(hub) :
    hub[i].Blocks = SubSeq(stored, hub[i].StartHeight, hub[i].EndHeight)

\* What the node takes for settled is settled: neither syncTarget nor
\* latestHeight is ever ahead of the hub, whichever event or answer set it.
NeverAheadOfHub == syncTarget <= HubHeight /\ latestHeight <= HubHeight

\* A batch sent to the hub never leaves a gap after what the hub has, and holds
\* one block per height of a range that is not empty, whatever the bounds
\* submitNextBatch started from (createNextDABatch, validateBatch).
PostedBatchIsSound ==
  \A m \in hubMempool : m.StartHeight <= HubHeight + 1 /\ Sound(m)

\* "it's safe to assume that if a batch is accepted, it refers to the last batch
\* we've sent" (settlement/dymension/dymension.go:97): the event that lets
\* PostBatch return is about the batch it posted.
EventIsForPostedBatch ==
  pc = "wait" /\ queue["postBatch"] # <<>> => \E i \in DOMAIN hub : hub[i] = batch

\* No goroutine of an aggregator panics unless a call it depends on fails: the
\* bounds createNextDABatch and validateBatch are given fit together.
NoPanic == up # "panicked"

\* A running node never forgets that a batch was accepted: syncTarget does not
\* go back, so no settled block is submitted again.
SyncTargetGrows == [][Up /\ up' = "up" => syncTarget' >= syncTarget]_vars

\* "waitForSync enforces the aggregator to be synced before it can produce
\* blocks" (block/produce.go:19): no block is produced below the height the hub
\* reported when the node started.
ProducesOnlyInSync == Up /\ producer # None => height >= latestHeight

\* Every block is settled eventually: SubmitLoop, PostBatch and SyncTargetLoop
\* together recover from transactions the hub drops, lost acceptance events and
\* failed broadcasts.
EveryBlockSettles ==
  \A h \in 1..MaxHeight : (height >= h) ~> (HubHeight >= h)

\* EveryBlockSettles after a crash at any step or a failed query, with one
\* exception: a batch sent by the process before is accepted, the new process
\* sends it again and both learns of the acceptance and finds it by polling; the
\* second event can meet a full buffer, and the subscription of
\* stateUpdatesHandler or SyncTargetLoop is cancelled for good.
SettlesAfterCrash ==
  \A h \in 1..MaxHeight :
    (height >= h) ~> \/ HubHeight >= h
                      \/ ~open["stateUpdatesHandler"] \/ ~open["syncTargetLoop"]

-----------------------------------------------------------------------------
(* The inductive invariant *)

\* The store: lastState may name the block under way, never one beyond it.
StoreInv ==
  /\ stored \in Seq(Blocks) /\ height \in Nat /\ lastBlockHeight \in Nat
  /\ savedHeight \in Nat
  /\ producer \in Producers \cup {None} /\ stage \in {"none", "saved", "assigned", "updated"}
  /\ height <= Len(stored)
  /\ producer = None => stage = "none"
  /\ stage # "none" => height < Len(stored)

\* Control, flags and counters.
ControlInv ==
  /\ up \in {"up", "down", "panicked"} /\ listening \in BOOLEAN
  /\ batchInProcess \in BOOLEAN /\ emptyCh \in 0..1
  /\ target \in Nat
  /\ open \in [Subs -> BOOLEAN]
  /\ faults \in 0..MaxFaults

\* The batch at hand, by the step of submitNextBatch and PostBatch it is at.
SubmitInv ==
  /\ pc \in {"idle", "ticked", "produceBlock", "submitNextBatch", "request", "create",
             "submitToDA", "submitToSL", "postBatch", "wait"}
  /\ batch \in Batches \cup {None}
  /\ pc \in {"request", "create", "submitToDA", "submitToSL", "postBatch", "wait"} =>
       batch # None /\ batch.StartHeight >= 1
  /\ pc \in {"request", "create"} => batch.EndHeight <= Len(stored)
  /\ pc \in {"submitToDA", "submitToSL", "postBatch", "wait"} =>
       Len(batch.Blocks) = batch.EndHeight - batch.StartHeight + 1
  /\ pc \in {"submitToSL", "postBatch", "wait"} => batch \in da
  /\ pc \in {"postBatch", "wait"} =>
       batch.StartHeight <= HubHeight + 1 /\ batch.EndHeight >= batch.StartHeight

\* What the hub has and what is on its way to it.
HubInv ==
  /\ hub \in Seq(Batches) /\ da \subseteq Batches
  /\ \A i \in DOMAIN hub : Sound(hub[i]) /\ hub[i] \in da
  /\ Covered(hub, HubHeight)
  /\ hubMempool \subseteq da
  /\ \A m \in hubMempool : Sound(m) /\ m.StartHeight <= HubHeight + 1

\* Every height that was read from the hub, in an answer or an event.
HeightsInv ==
  /\ syncTarget \in 0..HubHeight /\ latestHeight \in 0..HubHeight
  /\ handling \in (0..HubHeight) \cup {None}
  /\ queue \in [Subs -> Seq(0..HubHeight)]
  /\ fetched \in [{"loop", "sync"} -> (0..HubHeight) \cup {None}]
  /\ loopPc \in {"start", "store", "waiting", "ready"}
  /\ loopPc = "store" => fetched["loop"] # None
  /\ syncPc \in {"start", "store", "loop"}
  /\ syncPc = "store" => fetched["sync"] # None
  /\ hubEvents \in Seq([startHeight : Nat, numBlocks : Nat])
  /\ \A i \in DOMAIN hubEvents : convertToNewBatchEvent(hubEvents[i]) \in 0..HubHeight

\* The type invariant and the safety invariants above, made inductive: a batch is
\* on the DA layer from SubmitToDA on, and every height the node has heard of, in
\* whichever queue or variable it is, is at most the last one the hub accepted.
IInv == StoreInv /\ ControlInv /\ SubmitInv /\ HubInv /\ HeightsInv

\* A batch of this node, and no earlier sequencer's, holds blocks of the store.
FromStore(b) ==
  b.StartHeight > LastHeight(Earlier) =>
    /\ b.EndHeight <= Len(stored)
    /\ b.Blocks = SubSeq(stored, b.StartHeight, b.EndHeight)

\* SettledIsStored, made inductive: from createNextDABatch to the hub a batch agrees
\* with the store, which changes only where an earlier sequencer settled a block.
StoredInv ==
  /\ Len(hub) >= Len(Earlier) /\ HubHeight >= LastHeight(Earlier)
  /\ \A i \in 1..Len(Earlier) : hub[i] = Earlier[i]
  /\ \A i \in (Len(Earlier) + 1)..Len(hub) :
       hub[i].StartHeight > LastHeight(Earlier) /\ FromStore(hub[i])
  /\ \A m \in hubMempool : FromStore(m)
  /\ pc \in {"submitToDA", "submitToSL", "postBatch", "wait"} => FromStore(batch)

\* The two together are inductive: whatever createNextDABatch, PostBatch, the sync
\* loops and the hub do, each batch under way is available, sound, and in the store.
SubmissionInv == IInv /\ StoredInv

-----------------------------------------------------------------------------
(* One batch at a time *)

\* A new chain, blocks that fit in a batch, and a process that goes on: only loads,
\* broadcasts, transactions and events of the hub may fail.
Reliable ==
  /\ Earlier = <<>>
  /\ \A b \in Blocks : b.size <= BlockBatchMaxSizeBytes
  /\ Faults \subseteq {"load", "broadcast", "drop", "lost"}

\* Production alone moves the store, and what is settled is in it.
ProductionInv ==
  /\ height <= MaxHeight
  /\ stage = "none" => producer = None /\ lastBlockHeight = height /\ Len(stored) = height
  /\ stage = "saved" => lastBlockHeight = height /\ Len(stored) = height + 1
  /\ stage \in {"assigned", "updated"} => lastBlockHeight = height + 1 /\ Len(stored) = height + 1
  /\ producer # None => height < MaxHeight
  /\ producer = "submit" => pc = "produceBlock" /\ HubHeight <= height
  /\ HubHeight <= lastBlockHeight

\* Nothing is settled before ProduceBlockLoop is ready, and SyncTargetLoop knows
\* nothing before it has stored what it read.
StartInv ==
  /\ up \in {"down", "up"}
  /\ up = "down" => loopPc = "start"
  /\ loopPc # "ready" =>
       /\ loopPc \in {"start", "store"} /\ pc \in {"idle", "ticked"}
       /\ height = 0 /\ savedHeight = 0 /\ producer = None /\ hub = <<>> /\ hubMempool = {}
       /\ syncTarget = 0 /\ target = 0
  /\ loopPc = "store" => fetched["loop"] = 0
  /\ syncPc # "loop" => syncTarget = 0
  /\ syncPc = "store" => fetched["sync"] \in {0, HubHeight}

\* Where the notice of the last accepted batch is.
NoNotice ==
  /\ hubEvents = <<>> /\ handling = None
  /\ queue["stateUpdatesHandler"] = <<>> /\ queue["syncTargetLoop"] = <<>>

Notified == NoNotice /\ syncTarget = HubHeight /\ latestHeight = HubHeight

Unnoticed == NoNotice /\ batchInProcess /\ pc = "wait" /\ queue["postBatch"] = <<>>

FromHub ==
  /\ Len(hubEvents) = 1 /\ convertToNewBatchEvent(hubEvents[1]) = HubHeight
  /\ handling = None /\ batchInProcess /\ pc = "wait" /\ queue["postBatch"] = <<>>
  /\ queue["stateUpdatesHandler"] = <<>> /\ queue["syncTargetLoop"] = <<>>

ToHandler ==
  /\ hubEvents = <<>> /\ handling = None
  /\ queue["stateUpdatesHandler"] = <<HubHeight>> /\ queue["syncTargetLoop"] = <<>>

AtHandler ==
  /\ hubEvents = <<>> /\ handling = HubHeight /\ latestHeight = HubHeight
  /\ queue["stateUpdatesHandler"] = <<>> /\ queue["syncTargetLoop"] = <<>>

ToSyncTarget ==
  /\ hubEvents = <<>> /\ handling = None /\ latestHeight = HubHeight
  /\ queue["stateUpdatesHandler"] = <<>> /\ queue["syncTargetLoop"] = <<HubHeight>>

\* The hub has accepted the batch at hand; or it is the one the hub waits for, and
\* the node knows of every batch before it.
Accepted == hub # <<>> /\ batch = hub[Len(hub)] /\ hubMempool = {}

Awaited ==
  /\ Notified /\ batchInProcess
  /\ batch.StartHeight = HubHeight + 1
  /\ batch.StartHeight <= batch.EndHeight /\ batch.EndHeight <= lastBlockHeight

\* There is one notice at a time, and until it arrives no batch is begun.
NoticeInv ==
  \/ Notified
  \/ /\ batchInProcess /\ pc \in {"idle", "ticked", "wait"}
     /\ pc = "wait" => Accepted
     /\ Unnoticed \/ FromHub \/ ToHandler \/ AtHandler \/ ToSyncTarget

\* The batch at hand follows what the hub has, until the hub has it.
AtHandInv ==
  /\ pc # "wait" => hubMempool = {} /\ queue["postBatch"] = <<>>
  /\ pc = "produceBlock" => Notified /\ batchInProcess /\ HubHeight < MaxHeight
  /\ pc = "submitNextBatch" => Notified /\ batchInProcess /\ HubHeight < lastBlockHeight
  /\ pc \in {"request", "create", "submitToDA", "submitToSL", "postBatch"} => Awaited
  /\ pc = "wait" =>
       \/ Awaited /\ hubMempool \subseteq {batch} /\ queue["postBatch"] = <<>>
       \/ Accepted /\ (queue["postBatch"] = <<>> => Unnoticed \/ FromHub)

\* No subscription is cancelled.
OpenInv ==
  /\ open["stateUpdatesHandler"] /\ open["syncTargetLoop"]
  /\ pc \in {"postBatch", "wait"} => open["postBatch"]

\* NoPanic, EventIsForPostedBatch and SyncTargetGrows, made inductive.
OneBatchInv == ProductionInv /\ StartInv /\ NoticeInv /\ AtHandInv /\ OpenInv
=============================================================================
