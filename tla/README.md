# A TLA+ verification of dymint

dymint is the node of a rollup. An *aggregator* (sequencer) produces blocks, has
an ABCI application execute them, publishes batches of blocks to a data
availability (DA) layer and registers each batch with a settlement layer (the
hub). A *full node* applies the same blocks, which reach it by gossip or from the
DA layer. This directory models the parts of the node whose correctness depends
on order, concurrency, crashes and failed calls, checks them with TLC on small
instances, and proves the most important results with TLAPS for every size.

## 1. The system

### Parts and their state

| Part | Source | State | Operations |
|---|---|---|---|
| Block application | `block/block.go`, `state/executor.go` | `lastState`, the application | `applyBlock`, `alignStoreWithApp`, `executeBlock` |
| Store | `store/` | blocks, commits, responses, validators and the state record in a key-value database; `height` and `baseHeight` in memory | `SaveBlock`, `UpdateState`, `LoadState`, `PruneBlocks`, ... |
| Production | `block/produce.go` | `produceBlockMutex`, `shouldProduceBlocksCh`, `produceEmptyBlockCh` | `waitForSync`, `ProduceBlockLoop`, `produceBlock` |
| Submission | `block/submit.go` | `batchInProcess`, `syncTarget`, `lastSubmissionTime` | `SubmitLoop`, `submitNextBatch`, `createNextDABatch` |
| Synchronisation | `block/synctarget.go`, `block/retriever.go` | `syncTarget`, `syncTargetDiode`, `isSyncedCond`, `SLStateIndex` | `SyncTargetLoop`, `RetriveLoop`, `syncUntilTarget` |
| Settlement client | `settlement/` | `latestHeight`, `sequencersList`, the hub's batches | `SubmitBatch`, `RetrieveBatch`, `stateUpdatesHandler`, `PostBatch` |
| DA clients | `da/` | the DA layer's blobs | `SubmitBatch`, `RetrieveBatches`, `CheckBatchAvailability` |
| Health | `node/node.go`, `da/utils.go`, `utils/events.go` | the last status of both base layers | `healthStatusHandler`, `healthStatusEventCallback` |
| Mempool | `mempool/`, `node/mempool/` | the transaction list, its indexes and sizes, the LRU cache, peer ids | `CheckTx`, `Update`, recheck, `ReserveForPeer`, ... |
| Gossip | `p2p/` | topics, validators | `ProcessMessages`, `TxValidator`, `BlockValidator` |
| Indexers | `state/txindex/`, `state/indexer/` | indexed transactions and blocks | `OnStart`, `AddBatch`, `Index`, `Search` |
| RPC | `rpc/` | subscriptions | handlers |
| Types, conversions, configuration | `types/`, `conv/`, `config/` | none | conversions, validation |

### How they interact

`ProduceBlockLoop` and `SubmitLoop` (aggregator only) call `produceBlock`, which
gossips a block and applies it. `SubmitLoop` cuts a batch, submits it to the DA
layer, then to the settlement client. The hub's acceptance comes back as an event
that raises `latestHeight` in the client and `syncTarget` in the manager and clears
`batchInProcess`. `SyncTargetLoop` writes the target to a one-element ring buffer;
`RetriveLoop` takes it and applies the batches that are missing. On a full node the
gossip subscription applies blocks too. Failed submissions publish health events;
an unhealthy layer pauses production.

### What makes it hard

* `applyBlock` writes the store and the application in several steps, none of them
  atomic with the next. A crash between any two must be repaired by
  `alignStoreWithApp`.
* The goroutines share `lastState` and the store without a lock.
* The acceptance of a batch, a timeout and the next submission race.
* Channels of capacity one connect loops to themselves and to each other.
* Messages are delayed, lost or repeated: gossip, hub events, DA blobs.

### What has to be true

1. A block reaches the application once, after its predecessor.
2. After any crash the disk can be aligned with the application.
3. A node serves the blocks its application executed.
4. Batches reach the hub in order, without gap or overlap.
5. A node that is behind catches up; a healthy aggregator keeps producing and
   submitting.
6. Pruning and eviction never remove what is still needed.
7. What is written or sent is what is read, also by another release.
8. A transaction is pooled once, a block fits its limits, and a search finds exactly
   what was indexed.

## 2. The modules

| Module | Models | Instances and proofs |
|---|---|---|
| `ApplyBlock` | block application, store, pruning, restart and alignment | `MCApplyBlock`; `ApplyBlockProofs` |
| `Ledger` | what `ApplyBlock` promises | instantiated by `ApplyBlock` |
| `BatchSubmission` | batches from the store to the hub and back | `MCBatchSubmission`; `BatchSubmissionProofs` |
| `ProduceLoop` | when blocks are produced, and health events | `ProduceLoopProofs` |
| `DAClient` | publication and retrieval of a batch with Celestia, Avail and the mock | extended by `SyncLoop` |
| `SyncLoop` | how a node catches up: targets, ring buffer, retrieval, gossip | `SyncLoopProofs` |
| `CList`, `Mempool` | the linked list and the priority mempool with its threads | `MCMempool`; `CListProofs`, `PoolProofs`, `MempoolProofs` |
| `PeerIDs` | the ids of peers in the mempool | `MCMempool`; `MempoolProofs` |
| `Basics`, `Wire`, `Messages` | results of calls, and the encoding of every message to bytes | `MCCodec` |
| `Conversion` | the node's types to and from messages, validation | `MCCodec` |
| `BlockStore` | the store with its keys, write batches and pruning, over any encoding | `MCCodec`; `StorageProofs` |
| `StoreBytes` | the store's encoding of heights, states and contents, and what an old release wrote | `MCCodec` |
| `Link` | messages between processes: gossip, DA batches, gRPC | `MCCodec` |
| `IndexerService` | the indexer service with its subscriptions, and what it writes to both indexes | `MCIndexer`, `MCCodec`; `StorageProofs` |
| `Indexer` | searches in both indexes, and their pages | `MCIndexer`, `MCCodec` |

The modules meet at `produceBlock`, at the acceptance of a batch, and at the bytes.
`ApplyBlock` has all the steps of `produceBlock` and takes acceptances as given.
`BatchSubmission` has the acceptance in detail and keeps three points of
`produceBlock`, the ones `SubmitLoop` can tell apart. `ProduceLoop` has the channels
around both and keeps only the results. `SyncLoop` is composed with `DAClient`: one
side publishes and posts, the other retrieves; it keeps `applyBlock` as one step.
`ApplyBlock` works with blocks as values, and `BlockStore` shows that what the same
calls write is what they read back.

`PROJECT.json` maps every definition to the source lines it models. Operators whose
comment calls them a mutant are variants of a definition, each with a plausible bug;
they are used only to confirm that the properties can fail.

### `ApplyBlock`

Variables: `kvState`, `kvBlock`, `kvResp` are the database, `appLog` the commits of the
application; these survive a restart. `height`, `base`, `lastState`, `syncTarget` are the
fields of the manager and the store of the same name, and `appExec` is what the
application executed since its last commit. `pc` and the locals `block`, `responses`,
`newState`, `retain` exist once per goroutine. `loop` says whether `ProduceBlockLoop` waits
for the node to sync, ticks, or is stopped.

| Actions | Code |
|---|---|
| `Receive`, `Produce` | `applyBlockCallback`, `processNextDABatch`; `produceBlock` with its mutex and the pending block |
| `AppInfoFails`, `AlignNotRequired`, `AlignStoreWithApp`, `AlignFails` | `alignStoreWithApp` |
| `SaveBlock`, `Execute`, `ValidationFails`, `UpdateState`, `Commit` | the calls of `applyBlock`, in order |
| `PruneBlocks`, `NothingPruned`, `FinalState`, `SetStoreHeight` | the end of `applyBlock` |
| `...Fails` | the error return of each call |
| `UpdateStateIndex`, `PersistIndex`, `UpdateSyncParams` | the other writers of `lastState` and `syncTarget` |
| `WaitForSync`, `CheckSynced`, `Signalled`, `ShouldProduceBlocks` | what lets `ProduceBlockLoop` call `produceBlock`, as far as it matters here: `waitForSync`, and the stop after an error or a health event |
| `Restart` | a crash at any point, then `NewManager` |

A step is the code between two points at which the process can stop or another
goroutine can run. Digests (`AppHash`, `LastResultsHash`) are modelled by the history they
digest, so a block is valid exactly if its proposer saw the same history.

### `BatchSubmission`

Each goroutine has its own place: `pc` for `SubmitLoop` and `PostBatch`, `loopPc` for
`waitForSync`, `syncPc` for `SyncTargetLoop`, `handling` for `stateUpdatesHandler`, `producer`
and `stage` for the holder of `produceBlockMutex`. Between them are the subscriptions of
the pubsub server (`queue`, `open`) with a buffer of one: an event that meets a full
buffer cancels the subscription, and the loop that reads it ends. Outside are the hub
(`hub`, `hubMempool`, `hubEvents`) and the DA layer (`da`).

`Submit` is `SubmitLoop` down to `PostBatch`; `Settlement` is `eventHandler` and
`stateUpdatesHandler`; `Sync` is `SyncTargetLoop`, `waitForSync` and, in one action,
`RetriveLoop`; `Hub` accepts, refuses or loses. A panic ends the process, `Boot` starts it
again from the disk: `lastBlockHeight`, which `applyBlock` assigns (`UpdateState`) before it
writes it (`SaveState`), goes back to `savedHeight`. A failed query of the hub looks like a
hub without batches, because the client tests the response, which is nil, before the
error: after it `Init` starts from height 0, and `waitForSync` returns at once. `SyncBlock` does
not run while `produceBlock` does; the code has no lock between the two, and no run mixes
a producer with a receiver. The constant `Faults` says what may fail in an instance: crashes,
production, loads, the DA layer, broadcasts, transactions that are dropped, events that
are lost or late, the websocket, queries.

### `ProduceLoop`

`SubmitLoop` meets the base layers and reports their health; the two handlers of the
node (`handler`, `report`) store a report, read the status of both layers and publish, in
three separate steps. What they publish goes to two subscriptions, each with a buffer of
one and each cancelled when it overflows: that of the manager, whose callback sends to
`shouldProduceBlocksCh`, and that of the RPC server, whose callback stores the status
(`RPCHealthStatus`). `ProduceBlockLoop` (`loop`) takes from both channels; a tick may or may
not produce a block, which leaves out when an empty one is due. `SubmitFails`, `SubmitToDA`
and `PostBatch` are the DA and settlement clients as far as their health events go;
`PostBatchCancelled` is the return of `PostBatch` when its own subscription was cancelled,
which reports nothing.

### `DAClient` and `SyncLoop`

`sub` is `SubmitBatch` of the client in use (`client`). A transaction (`txs`) gets a height
when a block of the DA layer (`da`, `daHeight`) includes it, which may be long after the
client gave up on it. Celestia sends again when there is no response or when
`waitForTXInclusion` has used up its attempts; Avail when the extrinsic is not finalized
in time; the mock writes a key and then a blob (`keys`, `blobs`). `HubAccepts` posts the
batch with the DA height that `SubmitBatch` returned; the mock hub saves the batch and
its index in two writes.

The node has the setters of the sync target (`setter`: `SyncTargetLoop` and
`waitForSync`), the ring buffer of one entry (`diode`), `RetriveLoop` (`ret`: `NextTarget`,
`RetrieveBatch`, `FetchBatch`, `ApplyNext`, `UpdateStateIndex`, `CheckTarget`, `Signal`), and
gossip. `GossipStarts` and `GossipEnds` are two steps, because `applyBlock` stores a copy of
`lastState`, with the state index of the time when it began. `disk` survives a crash. A
failed query (`FetchNone`) looks like a hub without batches here too: `waitForSync` resets
the target and returns.

### `Mempool`, `CList`, `PeerIDs`

`Mempool` has the two mutexes that matter, that of the mempool and that of the local
ABCI client. A step is what happens under one of them: a caller goes through `CheckTx`
(with the cache), `AppCheckTx`, `GlobalCallback`, `InitialCallback` (insertion and eviction) and,
for RPC, `GossipTx`; the committing thread through `CommitLock`, `CommitUpdate` and the
recheck, one transaction at a time. `Flush` can come at any time, and calls can fail.
The loops of the code over the list, the victims and the block are `Loop`s with the loop's
body; `sort.Slice` is external (`InOrder`: some sequence of the elements in the order asked
for). The position in the list stands for the timestamp of a transaction, which the code
takes before it has the lock; no property depends on the difference. `CList` has the
pointers and the wait groups of the list. `PeerIDs` has `ReserveForPeer`, `Reclaim` and the
counter that wraps around.

### `Wire`, `Messages`, `Conversion`, `BlockStore`, `StoreBytes`, `Link`

The generated code of `types/pb` repeats three functions for each message. `Wire` has each
of them once, over a table of fields, and `Messages` has the tables. Unknown fields,
repeated fields and input that ends early behave as in the code. `Conversion` has
`ToProto`, `FromProto` and `ValidateBasic` of each type; a conversion that dereferences nil
returns `"panic"`. `BlockStore` has every call of the store with its key, its bytes and the
batch it writes to; `Crash` loses the open batch, and `StoreInit` starts from an empty
store or from one that an old release wrote. Its encoding is a parameter, to which
`StoreBytes` gives the one of the code, through `Conversion` and `Wire`. Two callers in `block/`
shape the writes of a state: the block it is for is at most one ahead of the store
(`Saveable`, from the first test of `applyBlock`), and its base may be older than that of the
store, since `updateStateIndex` writes the state of the last block at any time, also while
`PruneBlocks` runs. `SaveBlock` has the `SetHeight` with which `applyBlock` ends. `Link` sends
an object, after a fault or none: the sender is newer, the end is cut off.

### `IndexerService`, `Indexer`

In `IndexerService`, `PublishHeader` and `PublishTx` put a header and its transactions on the two
subscriptions; the service takes them one at a time and commits the block, then its
transactions. Each commit can fail,
a crash can come at any point, and a full subscription is cancelled. The searches of
`Indexer` are operators: `LookForRanges`, the matching of one condition, the intersection in the
order of the code, and the pages of `TxSearch` and `BlockSearch`. `BlockSearch` loads the
blocks of its page, so that a page with a pruned block is an error; the indexes are not
pruned.

## 3. What TLC checks

| Run | Shows | Distinct states |
|---|---|---|
| `fullnode` | a full node, any three crashes or failed calls: what is on disk can be aligned with the application, every block is executed once after its predecessor, the store serves what was executed, pruning keeps what is needed; the node implements `Ledger` | 203,737 |
| `aggregator` | two producing loops, every call may fail: a pending block is valid, a height never gets a second block, a store left behind catches up unless `ProduceBlockLoop` is stopped or waits for the node to sync | 484,889 |
| `submission` | any two faults: what is settled is available and stored, nobody is ahead of the hub, batches are not empty and leave no gap | 4,168,532 |
| `settles` | no panic, events are for the batch at hand, every block settles although transactions, events and broadcasts fail | 167,871 |
| `settles_after_crash` | every block settles after a crash at any step or a failed query, for a sequencer that joins a settled chain; the exception is a cancelled subscription | 387,244 |
| `health` | a recovery of the base layers is seen by the loop and by the RPC server, production resumes, no loop waits for ever for the other; the exceptions are a cancelled subscription and an error of `produceBlock` | 619,543 |
| `mempool` | RPC calls, gossip, flushes and commits interleaved: list, indexes and byte count agree, the limits hold, a remembered transaction is pooled once, a reaped block fits; ids of peers are distinct | 646,771 |
| `codec` | what is stored or sent is read back, from old stores and from newer releases too; a size is exact; a cut message is refused or shows its end; pruning in several batches removes what it should; every published block is indexed and the pages of a search are exactly what matches, those of blocks as long as the blocks are not pruned | 15,784 |
| `sync` | settled batches are where the hub says; the state index stays behind the blocks; every target is reached and `waitForSync` woken, unless `syncUntilTarget` gave up | 441,725 |

Three more runs each end in a counterexample. In each, a comment of the repository states
something that the code does not do:

| Run | Counterexample |
|---|---|
| `two_receivers` | gossip and `RetriveLoop` apply the same height together, and a block goes to an application that has committed it (`block/block.go:15`) |
| `produce_before_sync` | `SubmitLoop` produces before the node is in sync (`block/produce.go:19`) |
| `loop_blocks` | `ProduceBlockLoop` waits for itself on a full channel (`block/manager.go:163`) |

### Disagreements that the models have and no run shows

The models follow the code where a comment says something else, and the properties leave
these cases out:

* `PruneBlocks` raises the base in memory, and the last `UpdateState` of `applyBlock` writes
  it (`block/block.go:101`). After a crash in between, `Base` is not the "height of the
  earliest block saved in the Store" (`store/store.go:70`). `PruneIsExact` says that a later
  prune still removes what is left.
* `PostBatch` takes any acceptance event for that of its batch
  (`settlement/dymension/dymension.go:254`), also a late one. `EventIsForPostedBatch` is
  checked for events that are lost, not for late ones.
* An error of `submitNextBatch` leaves `batchInProcess` set (`block/submit.go:57`), and
  nothing is submitted until a restart. The liveness runs have no failed loads.
* The recheck of the mempool ends early when it removes the transaction it has come to
  (`mempool/v1/mempool.go:721`). The comment at line 387 says that every transaction is
  rechecked.
* A transaction that the cache has forgotten can be in the mempool twice, and a failed
  gossip in `BroadcastTxSync` leaves the transaction in the cache. `PooledOnce` is about
  the transactions the cache remembers.
* The indexer service subscribes with buffers of 10 and 10000, where its comment
  (`state/txindex/indexer_service.go:42`) explains why it must be unbuffered. A full buffer
  cancels the subscription; `EveryBlockIsIndexed` leaves out what is lost then.
* `BlockSearch` answers with an error if a block of the page was pruned
  (`rpc/client/client.go:674`), although the index still has it.
* A failed query of the hub is taken for a chain without batches
  (`settlement/dymension/dymension.go:297`), and `waitForSync`, which "enforces the aggregator
  to be synced before it can produce blocks" (`block/produce.go:19`), lets it produce.
* A subscription that was cancelled is not renewed. After that the RPC server keeps the
  status it had, and a stopped loop stays stopped.
* A state of an old release at height 1 is not migrated by `FromProto`.

### Bounds

* `ApplyBlock`: three heights, so that there is a block before, at and after a crash, and
  three faults, so that a crash hits the repair of a crash. Two payloads compete for
  every height. They are interchangeable, and `fullnode`, which has safety properties
  only, uses the symmetry. `Retains` holds 0, a height that prunes nothing, and one that
  prunes.
* `BatchSubmission`: a batch holds a large block and a small one, so that three or four
  blocks make at least two batches and the size limit cuts one. Two faults suffice for
  a fault and a second one during its repair.
* `DAClient`, `SyncLoop`: two blocks in one batch or two, three DA heights and two
  transactions, so that a batch is sent twice and both copies get included, in one
  block or in two. Two attempts, so that one can fail and another succeed. One fault,
  of eight kinds; the proofs do without this bound.
* `Mempool`: three transactions, of which two have one sender and one does not fit
  beside the others, a pool and a cache of two, two heights and three calls: every
  insertion can evict, and the cache can forget what is pooled.
* `PeerIDs`: an id space of four for three peers: the counter wraps, and the limit on
  ids is reached.
* `Wire`, `Conversion`, `BlockStore`, `Link`: integers of 16 bits, so that one, two and three
  groups and a value beyond the width occur. The samples have every field set and
  unset. Three blocks and three writes, with a flush after each pruned height.
* `Indexer`: a chain of four blocks with none, one and two transactions, buffers of one,
  one fault, `int64` of 4 bits.
* `ProduceLoop`: two blocks, which can be two batches, so that the request channel
  fills up; two faults, so that both layers can be unhealthy together.

Four runs are checked without deadlock checking, because the system may stop. `health`:
after an error of `produceBlock` with nothing to submit, no health event comes and both
loops wait. `mempool`, `codec`: the calls and writes are used up. `sync`: every loop waits
for a batch.

### Fairness

Weak fairness of each goroutine: Go schedules every runnable one. No fault is fair, and
`ProduceBlockLoop` need not produce in `BatchSubmission`. In `ApplyBlock` a goroutine inside
`applyBlock` goes on, `ProduceBlockLoop` gets through `waitForSync` when the node is in sync,
and its ticker calls `produceBlock` while it is not stopped. That `SubmitLoop` produces, or
that a health event resumes the loop, is not assumed: `AlignmentCompletes` excepts a loop
that is stopped or waiting. In `ProduceLoop` the two receiving
cases of the `select` are strongly fair, because Go chooses at random among the cases
that are ready; the ticker would otherwise win for ever. `settles_after_crash` assumes
`PromptStart`: the start-up queries of the process end before the first tick of
`SubmitLoop`, which is `BatchSubmitMaxTime` (seconds to minutes) later. In `SyncLoop` the
loops of a node that is up are fair, a block that is being applied gets applied, and a
node that is down is started. Nothing is assumed of the sequencer, the DA layer, the hub
or gossip: the target may stay where it is.

## 4. What TLAPS proves

The theorems hold for every value of the constants: any number of heights, payloads,
block sizes, faults. A proof starts from an inductive invariant that TLC has checked
first. The runs check `IInv` of `ApplyBlock` and `ProduceLoop` and `SubmissionInv` of
`BatchSubmission`; the others were checked on instances of their own, named below.

**`ApplyBlockProofs`.** `Invariance`, `TypeCorrect`, `CommitRule` (a block goes to the
application only after its predecessor), `CrashLeavesRecoverable`, `InitChainRule`,
`NeededBlocksStay`, `ExecutesOnce`, `ServesWhatWasExecuted`, and `Refinement`
(`ApplyBlock` implements `Ledger`). Hypotheses, each a formula on the constants:

* `Serial`: one goroutine at a time applies blocks. It holds for an aggregator
  (`produceBlockMutex`) and for a full node with one source. `two_receivers` shows that it
  is needed.
* `AlignFailsOnlyAlone`: `alignStoreWithApp` does not fail on a node that also updates the
  state index, because a failure leaves `lastState` ahead of the disk.
* `NoRetryInProcess`, for `ExecutesOnce`, `ServesWhatWasExecuted` and `Refinement`: no call
  fails between the execution of a block and its commit. Otherwise the loop applies the
  block again in the same process and the application executes it twice.

`RecoverableFromDisk` is not inductive: whether a step keeps it depends on what the
goroutine holds. `IInv` adds what each place in `applyBlock` knows (`KnowsAt`), how height
and state relate to the log (`StateMatchesLog`), that nothing executed is left over
(`ExecMatchesBlock`), and which blocks exist (`BlocksKept`). Each action has a lemma.

`ProducedBlocksAreValid` and `StoredBlocksAreFinal` are about an aggregator (`Receivers = {}`,
which implies the first two hypotheses). A crash leaves a block in the store that was
made for an earlier `lastState`. `PendingContinuesLog` says that it continues the log of
the application, which neither a crash nor a restart changes, so that it is still the
next block; that nothing is stored beyond it; and that a block at hand is that one.

**`BatchSubmissionProofs`.** `Invariance`, `Availability` (what is settled is on the DA
layer), `NotAhead`, `PostedSound`, `SettledBlocksAreStored`, `TypeCorrect`, without
hypotheses beyond `BatchAssumption`: the types of the constants, and that the batches
the hub has at the start are sound and leave no height out. A height travels through
answers, queues and variables before it is `syncTarget`; `IInv` bounds it at every place
by the height of the hub, and follows the batch from `createNextDABatch` to the hub.
`StoredInv` follows the contents: a batch at hand, in the mempool of the hub or accepted
holds the blocks the store has at its heights. It is needed because a crash can leave
two different batches for the same heights on their way.

`GoesOn` (no goroutine panics), `WaitsForItsOwn` (`PostBatch` takes no other batch's event
for its own) and `TargetGrows` have the hypothesis `Reliable`: a chain that starts with this
sequencer, blocks that fit in a batch, and faults limited to failed loads and broadcasts,
dropped transactions and lost events. Without it they are false: a crash, a late poll, a
failed query or production, or an earlier chain puts two notices on their way, and the
older one can arrive last. `OneBatchInv` is what makes them inductive: the notice of the
last accepted batch is in one place at a time, no batch is begun before it has reached
`SubmitLoop`, so that no subscription overflows (`NoticeInv`, `AtHandInv`, `OpenInv`), and
production moves the store step by step (`ProductionInv`, `StartInv`). TLC checked it with
four heights and two faults (174,015 states) and with three heights and five faults
(73,271 states).

**`ProduceLoopProofs`.** `Invariance`, `Recovery` (once both layers are healthy and the handlers
are done, an unhealthy event is not the last one heard, by the loop or by the RPC server,
if the subscription of each was not cancelled), `TypeCorrect`. The two handlers
interleave without a lock. `IInv` says that a handler that is going to publish
"unhealthy" still has an unhealthy layer, which nobody else can change, and that
whoever heard "unhealthy" last in a healthy node will be corrected by a handler that
has read, or is about to read, the status.

**`SyncLoopProofs`.** `SettledBatchesAreRetrievable` and `StateIndexIsApplied`, for the clients of
Celestia and Avail (hypothesis `NoMock`), any number of blocks, DA blocks, transactions,
attempts and faults. `Inv` follows a batch: a transaction with a height is in the block
of that height (`TxsIncluded`), what `SubmitBatch` returns is such a height (`SubKnows`), so
the batches of the hub follow each other and are on the DA layer (`HubSound`). On the
other side, the batch that `syncUntilTarget` works on starts at the next height of the
node or below, and its blocks are applied or still to come (`RetKnows`), whatever else is
in the same DA block; and the index in memory, the one on disk and the copy a gossiped
block holds all stay behind the blocks (`NodeSound`). `RetrieveBatch` takes the batch after
the index, so that none is left out.

**`StorageProofs`**, of the block store. `PruningIsExact` (`PruneIsExact`) and `StoreReadsBack`
(`ReadBack`), for any number of blocks, writes, crashes and heights per batch. The
encoding is any that meets the assumptions of `BlockStore`, which TLC evaluates on the
encoding of the code in the run `codec`:

* `StoreConstants`: heights have different bytes, a hash has its length, a state that may be
  saved is read back with the base and the height it was saved with.
* `OldStore`: an old release kept no base, and wrote a block and its commit with the index.
* `Hashes`: blocks of different heights have different hashes, and Tendermint's form of a
  block has the same hash.
* `RoundTrip`: a single object that is encoded is decoded as it was. That the encoder does
  this for every input is not proved.

For pruning, `SInv` says where blocks can be: none below the base, or below the next height
of a running `PruneBlocks` (`From`), none missing at or above the highest height asked for.
Two parts make it inductive. Responses and validators are beside an index (`Beside`), in the
batch as well, because the loop finds what to delete by the index and passes over heights
without one. And the base on disk, to which a crash goes back, is not above the one in
memory (`StateFrom`), so that a crash between two batches hides nothing that is left.

For reading back, `RInv` relates the bytes to what was saved: every object known is in the
database and decodes to itself, an index has its block and its commit, and no two heights
share a hash, so that pruning one height cannot take the block of another. Key by key,
a write or a delete changes one record because no two records have the same key
(`SameParts`, `StoredAt`, `WithoutAt`). TLC checked both invariants on the store part of
`codec` (9,397 states).

**`StorageProofs`**, of the indexer service. `BlocksAreIndexed`: it skips no published block
and mixes no two, for every chain, every capacity of the two subscriptions and any number of lost
events and restarts (`ChainAssumption` only says that the chain is a sequence of
blocks with sequences of transactions). The service pairs a header with the next events
of another subscription by their number. `ServiceInv` says why they are the right ones:
headers and transactions wait in the order of publication (`HeadersInv`, `OrderInv`), the
transactions that wait belong to blocks whose headers wait or are at hand (`UntakenInv`),
and none of them is missing unless the subscription was cancelled before it
(`CompleteInv`); the bus publishes the transactions of a block whose header has got through,
or has cancelled the headers (`BusInv`). TLC checked it with a chain of five blocks, two
faults and the capacities (1, 1), (2, 1), (2, 3), (3, 2), each with 5,600 to 7,100 states.

**`CListProofs`.** Of the linked list, for lists of every length: `NewListIsSound`,
`PushBackAppends` and `RemoveTakesOne` (`Remove`, `DetachPrev`, `DetachNext` as the mempool
calls them). `WellLinked` and `WaitersWake`, which `IndexesAgree` checks, are kept; the
elements change as those of a sequence do; `Remove` does not panic and no wait group is
done twice. `Elements` is a recursive function along the pointers. That it yields the
sequence the pointers stand for (`ElementsOf`) is an induction, written as the choice of
a least counterexample (`Least`).

**`MempoolProofs`**, with the lemmas on the pool in `PoolProofs`. All four invariants of the
mempool, for any number of callers and transactions, every configuration and every
interleaving: `MempoolIsConsistent` (`IndexesAgree`), `MempoolWithinCapacity`,
`MempoolPoolsOnce`, `MempoolReapFits`. The assumptions are the types of the constants
(`MempoolConstants`) and `EnoughElems`: the runtime finds memory for a new element, that is,
there are two more elements than the pool may hold, one for the new transaction and one
for an element that left the list while the recheck loop still stands on it.
`MempoolPoolsOnce` has the hypothesis `CacheSize # 0`: the code tests with the cache
whether a transaction is already pooled, and without a cache TLC finds it there twice.

`IndexesAgree` is not inductive. `Consistent` adds to it that an element out of the list
points nowhere (`Sound`) and that each listed element has a transaction; the limits
(`Fitting`), and that a transaction checked after the first block fits into a block of its
own (`PoolOK`), are kept with it. `MInv` is `PoolOK` with what is held between two locks: a
caller checked its transaction at a height not above that of the pool (`CallInv`), and the
element of the recheck loop may have left the list (`ComInv`). The argument:

* A removal, an expiry, a flush, a recheck or a block makes the pool smaller and keeps it
  consistent (`Shrunk`). A loop does what its steps do: its recursion has a solution that
  stays in the sets given for each step (`LoopExists`, `LoopRuns`).
* An eviction ends when enough bytes are free or the victims are used up. What it has
  counted is what the byte count lost (`Evicted`), and the victims were large enough
  together, so the new transaction has room (`EvictFrees`). The byte count is a sum over the
  list, which `SumAppend` and `SumWithout` follow through insertions and removals.
* `Victims` and `AllEntriesSorted` exist because a finite set with a total order can be listed in
  that order (`SortedExists`), and no two elements have one position in the list.
* Reaping ends before the first entry too many, or with the list (`ReapStops`).

`OnceInv` is for `PooledOnce`: a transaction that has come to a caller is in the cache, no
second caller has it, and it is not listed; a listed one is in the cache and is the one its
key names. TLC checked `MInv` and `OnceInv` on the instance of the run `mempool`.

`UniqueIDs`: two peers never have the same id, for every id space. The
invariant ties `activeIDs` to the ids in `peerMap` and bounds their number. `nextPeerID`
searches until it meets a free id; that there is one follows from the number of ids,
and that the search returns the first one from the well-foundedness of the naturals.

Only model-checked:

* the liveness properties (`AlignmentCompletes`, `EveryBlockSettles`, `SettlesAfterCrash`,
  `ProductionResumes`, `RequestIsTaken`, `SyncCompletes`), which the prover does not handle;
* `SizeIsExact`, `Delivered`, `TruncationShows` of the encoder, and that it meets `RoundTrip`.
  Encoding is recursive over nested messages and over bytes, and what it computes for
  every input is an induction over data, which the prover does not do with a formula as
  its parameter;
* `SearchIsExact`, whose answers are folds over sorted sets;
* the mocks in `SyncLoop`.

## 5. What is not modelled

* The application beyond "executes and commits what it is told", the changes of validator
  sets and consensus parameters, signatures. Hashes are injective operators.
* The database below its transactions, and the network below messages that are lost,
  repeated, delayed or cut: badger, libp2p, the websocket of the hub, gRPC.
* Blobs of the DA layer that do not decode: there Celestia's `RetrieveBatches` keeps a nil
  batch (`da/celestia/celestia.go:270`), and Avail's tries the same bytes again and does not
  return (`da/avail/avail.go:186`). Transport errors of the gRPC client
  (`da/grpc/grpc.go:86`), which it returns as an error. `CheckBatchAvailability`, which the
  node does not call, is modelled only as an answer of the gRPC client.
* Expiry of transactions by wall-clock time, a negative amount of gas, which
  `PostCheckMaxGas` refuses, and the metrics of the mempool. Expiry by height is modelled.
* A batch that the hub accepts after its sequencer has stopped, while the next aggregator
  starts with an empty store: `SyncLoop` has the hub at rest then. (`BatchSubmission` has
  such a batch, for a sequencer that starts again with its own store.)
* Searches with times or floats, with values that contain the separator of the keys,
  or over a chain with the same transaction twice: the answers of the code are not exact
  there. Of bounds, `SearchIsExact` has one on each side of a key.
* RPC handlers that only read, the JSON codec and the websocket of the server. The
  searches, `BroadcastTxSync` and the health status are modelled.
* The order in which the services of the node start and stop, the queries for
  sequencers, the configuration, the command line, getters and stubs of generated code,
  and the mocks made for tests: they have no state that changes, or are read at the
  start only.

## 6. Possible extensions

* `SyncLoop` keeps `applyBlock` as one step and `ApplyBlock` keeps the acceptance of batches
  as given; their composition has more states than TLC can explore in minutes.
* The proof of `SyncLoop` could include the mock, with an invariant on keys and blobs.

## 7. Running

`tlc -config ApplyBlockFullNode.cfg MCApplyBlock` checks one run; `PROJECT.json` lists the
module and the configuration of each. `tlapm ApplyBlockProofs.tla` checks the proofs of a
module. The longest run takes about two and a half minutes on two cores, the longest
proof modules (`PoolProofs`, `MempoolProofs`, `StorageProofs`) about fifteen minutes.
