------------------------------ MODULE ApplyBlock ------------------------------
(***************************************************************************)
(* How a node applies a block: Manager.applyBlock (block/block.go) with    *)
(* the store it writes, the ABCI application it drives, the restart that   *)
(* reloads the state, and the alignment that repairs the difference a      *)
(* crash leaves between the store and the application.                     *)
(*                                                                         *)
(* Each action is the code between two points at which the process can     *)
(* stop or another goroutine can run: one durable write, one call to the   *)
(* application, or one publication of a shared variable.                   *)
(*                                                                         *)
(* Simplifications.                                                        *)
(*  - A block is its height, an identity that stands for its payload, and  *)
(*    the two digests its header carries, each modelled by the history of  *)
(*    the application that it digests.                                     *)
(*  - The application runs in the process of the node, so a crash discards *)
(*    what it executed and did not commit.  Its state is the sequence of   *)
(*    its commits, each commit the sequence of the blocks executed since   *)
(*    the previous one: an ABCI application is told to execute and to      *)
(*    commit by separate calls and does what it is told.                   *)
(*  - The block, its commit and the height index are one map: SaveBlock    *)
(*    writes the three in one database batch.                              *)
(*  - Validator sets are left out.  Signatures and versions are valid: the *)
(*    gossip validator and the DA layer only deliver blocks that the       *)
(*    proposer signed.                                                     *)
(***************************************************************************)
EXTENDS Integers, Sequences

CONSTANTS
  Receivers,     \* goroutines that apply delivered blocks: gossip callback, RetriveLoop
  Producers,     \* goroutines that call produceBlock: ProduceBlockLoop, SubmitLoop
  Ids,           \* payloads that tell blocks of one height apart
  None,          \* a key that is not in the database, a variable out of scope
  MaxHeight,     \* bound on the height of a block
  MaxFaults,     \* bound on the number of crashes and failed calls
  BatchEnd,      \* BatchEnd[i] is the last height of the batch with state index i
  Retains,       \* values the application may return as RetainHeight
  FaultPoints    \* calls of applyBlock that may return an error

ASSUME ConstantsAssumption ==
  /\ MaxHeight \in Nat \ {0}
  /\ MaxFaults \in Nat
  /\ BatchEnd \in Seq(Nat)
  /\ Retains \subseteq Nat

VARIABLES
  \* on disk
  kvState,       \* the State record under the state key
  kvBlock,       \* height -> block saved by SaveBlock
  kvResp,        \* height -> responses saved by SaveBlockResponses
  appLog,        \* the application: one entry for each Commit
  \* in memory
  height,        \* DefaultStore.height
  base,          \* DefaultStore.baseHeight
  lastState,     \* Manager.lastState
  syncTarget,    \* Manager.syncTarget
  appExec,       \* blocks the application executed since its last Commit
  appInit,       \* the application was given InitChain or has committed
  \* each goroutine: its place in applyBlock and its locals
  pc, block, responses, newState, retain,
  loop,          \* ProduceBlockLoop: in waitForSync, serving its ticker, or stopped
  \* outside the node
  accepted,      \* last height the settlement layer accepted
  faults         \* crashes and failed calls so far

disk   == <<kvState, kvBlock, kvResp, appLog>>
memory == <<height, base, lastState, syncTarget>>
app    == <<appLog, appExec, appInit>>
locals == <<block, responses, newState, retain>>
vars   == <<disk, memory, appExec, appInit, pc, locals, loop, accepted, faults>>

-----------------------------------------------------------------------------
Appliers == Receivers \cup Producers

\* The producer that a ticker drives; the other, SubmitLoop, produces a block only
\* when it is about to submit a batch.
ProduceBlockLoop == "produceLoop"

\* Where ProduceBlockLoop is: in waitForSync before and after the answer of the
\* settlement layer, asleep in it, or in its select, with production on or off.
LoopPCs == {"start", "check", "waiting", "ticking", "stopped"}

InitialHeight == 1
Heights == InitialHeight..MaxHeight
History == Seq(Seq(Ids))

Blocks == [height: Heights, id: Ids, AppHash: History, LastResultsHash: History]

ASSUME NoneAssumption == None \notin History /\ None \notin Blocks

States ==
  [LastBlockHeight: Nat, LastStoreHeight: Nat, BaseHeight: Nat,
   SLStateIndex: Nat, AppHash: History, LastResultsHash: History]

NewFromGenesisDoc ==
  [LastBlockHeight |-> 0, LastStoreHeight |-> 0, BaseHeight |-> 0,
   SLStateIndex |-> 0, AppHash |-> <<>>, LastResultsHash |-> <<>>]

\* The application of a node that executed each of h blocks once.
OnceExecuted(h) == [1..h -> {<<i>> : i \in Ids}]

\* Blocks of proposers that executed every earlier block once.
DeliveredBlocks(h) ==
  {[height |-> h, id |-> i, AppHash |-> p, LastResultsHash |-> p] :
     i \in Ids, p \in OnceExecuted(h - 1)}

CreateBlock(h, state) ==
  {[height |-> h, id |-> i, AppHash |-> state.AppHash,
    LastResultsHash |-> state.LastResultsHash] : i \in Ids}

\* ResponseInfo.LastBlockHeight
AppHeight == Len(appLog)

Init ==
  /\ kvState = NewFromGenesisDoc
  /\ kvBlock = [h \in Heights |-> None]
  /\ kvResp = [h \in Heights |-> None]
  /\ appLog = <<>>
  /\ height = 0
  /\ base = 0
  /\ lastState = NewFromGenesisDoc
  /\ syncTarget = 0
  /\ appExec = <<>>
  /\ appInit = TRUE
  /\ pc = [a \in Appliers |-> "idle"]
  /\ block = [a \in Appliers |-> None]
  /\ responses = [a \in Appliers |-> None]
  /\ newState = [a \in Appliers |-> None]
  /\ retain = [a \in Appliers |-> None]
  /\ loop = "start"
  /\ accepted = 0
  /\ faults = 0

-----------------------------------------------------------------------------
(* Control *)

Goto(a, from, to) ==
  /\ pc[a] = from
  /\ pc' = [pc EXCEPT ![a] = to]

\* applyBlock or updateStateIndex returns.
Return(a, from) ==
  /\ Goto(a, from, "idle")
  /\ block' = [block EXCEPT ![a] = None]
  /\ responses' = [responses EXCEPT ![a] = None]
  /\ newState' = [newState EXCEPT ![a] = None]
  /\ retain' = [retain EXCEPT ![a] = None]

\* An error of produceBlock stops ProduceBlockLoop until it is told of a healthy
\* node; SubmitLoop and the receivers log it and go on.
Stops(a) == loop' = IF a = ProduceBlockLoop THEN "stopped" ELSE loop

\* A call that can fail returns an error.
Fault(point) ==
  /\ point \in FaultPoints
  /\ faults < MaxFaults
  /\ faults' = faults + 1

SetHeight(h) == height' = IF h > height THEN h ELSE height

-----------------------------------------------------------------------------
(* applyBlock *)

\* Any other height returns at once and changes nothing.
ApplyBlock(a, b) ==
  /\ Goto(a, "idle", "align")
  /\ b.height = height + 1
  /\ block' = [block EXCEPT ![a] = b]
  /\ UNCHANGED <<disk, memory, appExec, appInit, responses, newState, retain,
                 loop, accepted, faults>>

Receive(a) ==
  /\ a \in Receivers
  /\ height < MaxHeight
  /\ \E b \in DeliveredBlocks(height + 1) : ApplyBlock(a, b)

\* Mutant of Produce: the pending block is ignored.
ProduceIgnoringPending(a) ==
  /\ a \in Producers
  /\ a = ProduceBlockLoop => loop = "ticking"
  /\ \A p \in Producers : pc[p] = "idle"
  /\ height < MaxHeight
  /\ \E b \in CreateBlock(height + 1, lastState) : ApplyBlock(a, b)

\* produceBlock holds produceBlockMutex until applyBlock returns.
Produce(a) ==
  /\ a \in Producers
  /\ a = ProduceBlockLoop => loop = "ticking"
  /\ \A p \in Producers : pc[p] = "idle"
  /\ height < MaxHeight
  /\ height + 1 # InitialHeight => kvBlock[height] # None
  /\ \E b \in IF kvBlock[height + 1] # None
              THEN {kvBlock[height + 1]}
              ELSE CreateBlock(height + 1, lastState) : ApplyBlock(a, b)

\* Mutant of AlignNotRequired: the application is not asked for its height.
AlignNeverRequired(a) ==
  /\ Goto(a, "align", "save")
  /\ UNCHANGED <<disk, memory, appExec, appInit, locals, loop, accepted, faults>>

\* GetAppInfo fails: nothing was assigned.
AppInfoFails(a) ==
  /\ Return(a, "align")
  /\ Fault("appInfo")
  /\ Stops(a)
  /\ UNCHANGED <<disk, memory, appExec, appInit, accepted>>

\* alignStoreWithApp finds the application behind the block.
AlignNotRequired(a) ==
  /\ Goto(a, "align", "save")
  /\ AppHeight # block[a].height
  /\ UNCHANGED <<disk, memory, appExec, appInit, locals, loop, accepted, faults>>

\* alignStoreWithApp up to the load of the responses, and after it.
WithAppInfo(state, log, h) ==
  [state EXCEPT !.AppHash = log, !.LastStoreHeight = h]
WithResults(state, resp) == [state EXCEPT !.LastResultsHash = resp]

\* Mutants of AlignStoreWithApp: the block is saved first; nothing is persisted.
AlignAfterSave(a) ==
  LET h == block[a].height
      aligned == WithResults(WithAppInfo(lastState, appLog, h), kvResp[h])
  IN /\ Return(a, "align")
     /\ AppHeight = h
     /\ lastState' = aligned
     /\ kvState' = aligned
     /\ kvBlock' = [kvBlock EXCEPT ![h] = block[a]]
     /\ SetHeight(h)
     /\ UNCHANGED <<kvResp, appLog, base, syncTarget, appExec, appInit, loop, accepted,
                    faults>>
AlignInMemory(a) ==
  LET h == block[a].height
  IN /\ Return(a, "align")
     /\ AppHeight = h
     /\ lastState' = WithResults(WithAppInfo(lastState, appLog, h), kvResp[h])
     /\ SetHeight(h)
     /\ UNCHANGED <<disk, base, syncTarget, appExec, appInit, loop, accepted, faults>>

AlignStoreWithApp(a) ==
  LET h == block[a].height
      aligned == WithResults(WithAppInfo(lastState, appLog, h), kvResp[h])
  IN /\ Return(a, "align")
     /\ AppHeight = h
     /\ kvResp[h] # None
     /\ lastState' = aligned
     /\ kvState' = aligned
     /\ SetHeight(h)
     /\ UNCHANGED <<kvBlock, kvResp, appLog, base, syncTarget, appExec, appInit,
                    loop, accepted, faults>>

\* LoadBlockResponses or UpdateState fails: the fields assigned so far stay.
AlignFails(a) ==
  LET h == block[a].height
  IN /\ Return(a, "align")
     /\ AppHeight = h
     /\ \/ /\ Fault("alignLoad") \/ (kvResp[h] = None /\ UNCHANGED faults)
           /\ lastState' = WithAppInfo(lastState, appLog, h)
        \/ /\ Fault("alignUpdate")
           /\ kvResp[h] # None
           /\ lastState' = WithResults(WithAppInfo(lastState, appLog, h), kvResp[h])
     /\ Stops(a)
     /\ UNCHANGED <<disk, height, base, syncTarget, appExec, appInit, accepted>>

SaveBlock(a) ==
  /\ Goto(a, "save", "execute")
  /\ kvBlock' = [kvBlock EXCEPT ![block[a].height] = block[a]]
  /\ UNCHANGED <<kvState, kvResp, appLog, memory, appExec, appInit, locals,
                 loop, accepted, faults>>

SaveFails(a) ==
  /\ Return(a, "save")
  /\ Fault("save")
  /\ Stops(a)
  /\ UNCHANGED <<disk, memory, appExec, appInit, accepted>>

Validate(state, b) ==
  /\ state.LastBlockHeight <= 0 => b.height = InitialHeight
  /\ state.LastBlockHeight > 0 => b.height = state.LastStoreHeight + 1
  /\ b.AppHash = state.AppHash
  /\ b.LastResultsHash = state.LastResultsHash

\* BeginBlock to EndBlock.  The results digest what was executed, and on what.
Execute(a) ==
  /\ Goto(a, "execute", "update")
  /\ Validate(lastState, block[a])
  /\ appExec' = Append(appExec, block[a].id)
  /\ responses' = [responses EXCEPT ![a] = Append(appLog, appExec')]
  /\ UNCHANGED <<disk, memory, appInit, block, newState, retain, loop, accepted, faults>>

\* Mutant of ValidationFails: the block is executed and validated afterwards.
ValidationAfterExecution(a) ==
  /\ Return(a, "execute")
  /\ ~Validate(lastState, block[a])
  /\ appExec' = Append(appExec, block[a].id)
  /\ Stops(a)
  /\ UNCHANGED <<disk, memory, appInit, accepted, faults>>

ValidationFails(a) ==
  /\ Return(a, "execute")
  /\ ~Validate(lastState, block[a])
  /\ Stops(a)
  /\ UNCHANGED <<disk, memory, appExec, appInit, accepted, faults>>

\* The application may have executed the block when the call fails.
ExecutionFails(a) ==
  /\ Return(a, "execute")
  /\ Validate(lastState, block[a])
  /\ Fault("execute")
  /\ appExec' \in {appExec, Append(appExec, block[a].id)}
  /\ Stops(a)
  /\ UNCHANGED <<disk, memory, appInit, accepted>>

\* Mutants of UpdateStateFromResponses: the height is forgotten; the store
\* height, or the results hash, is set before the application commits.
UpdateWithoutHeight(state, h) == state
UpdateWithStoreHeight(state, h) ==
  [state EXCEPT !.LastBlockHeight = h, !.LastStoreHeight = h]
UpdateWithResults(state, h) ==
  [state EXCEPT !.LastBlockHeight = h,
                !.LastResultsHash = Append(appLog, appExec)]

UpdateStateFromResponses(state, h) == [state EXCEPT !.LastBlockHeight = h]

\* Mutant of UpdateState: the responses are not saved.
UpdateStateWithoutResponses(a) ==
  LET s == UpdateStateFromResponses(lastState, block[a].height)
  IN /\ Goto(a, "update", "commit")
     /\ newState' = [newState EXCEPT ![a] = s]
     /\ lastState' = s
     /\ kvState' = s
     /\ UNCHANGED <<kvBlock, kvResp, app, height, base, syncTarget, block,
                    responses, retain, loop, accepted, faults>>

\* The responses and the state reach the disk in one database batch.
UpdateState(a) ==
  LET s == UpdateStateFromResponses(lastState, block[a].height)
  IN /\ Goto(a, "update", "commit")
     /\ newState' = [newState EXCEPT ![a] = s]
     /\ lastState' = s
     /\ kvState' = s
     /\ kvResp' = [kvResp EXCEPT ![block[a].height] = responses[a]]
     /\ UNCHANGED <<kvBlock, app, height, base, syncTarget, block, responses,
                    retain, loop, accepted, faults>>

\* The batch fails before or after lastState was assigned.
UpdateFails(a) ==
  /\ Return(a, "update")
  /\ Fault("batch")
  /\ lastState' \in {lastState, UpdateStateFromResponses(lastState, block[a].height)}
  /\ Stops(a)
  /\ UNCHANGED <<disk, height, base, syncTarget, appExec, appInit, accepted>>

AppCommit ==
  /\ appLog' = Append(appLog, appExec)
  /\ appExec' = <<>>
  /\ appInit' = TRUE

Committed(state, log, resp) ==
  [state EXCEPT !.AppHash = log, !.LastResultsHash = resp]

Commit(a) ==
  /\ Goto(a, "commit", "prune")
  /\ AppCommit
  /\ newState' = [newState EXCEPT
                    ![a] = Committed(newState[a], appLog', responses[a])]
  /\ \E r \in Retains : retain' = [retain EXCEPT ![a] = r]
  /\ UNCHANGED <<kvState, kvBlock, kvResp, memory, block, responses, loop, accepted,
                 faults>>

\* FlushAppConn or CommitSync fails, or mempool.Update or publishEvents does
\* after the application committed.
CommitFails(a) ==
  /\ Return(a, "commit")
  /\ \/ Fault("commit") /\ UNCHANGED app
     \/ Fault("afterCommit") /\ AppCommit
  /\ Stops(a)
  /\ UNCHANGED <<kvState, kvBlock, kvResp, memory, accepted>>

\* Mutant of CanPrune: blocks the settlement layer lacks may be pruned.
CanPruneUnaccepted(r) ==
  /\ r > 0
  /\ r <= height
  /\ r >= base

CanPrune(r) ==
  /\ r > 0
  /\ r <= syncTarget
  /\ r <= height
  /\ r >= base

PruneBlocks(a) ==
  LET pruned == {h \in Heights : base <= h /\ h < retain[a]}
      Delete(kv) == [h \in Heights |-> IF h \in pruned /\ kvBlock[h] # None
                                       THEN None ELSE kv[h]]
  IN /\ Goto(a, "prune", "final")
     /\ CanPrune(retain[a])
     /\ kvBlock' = Delete(kvBlock)
     /\ kvResp' = Delete(kvResp)
     /\ base' = retain[a]
     /\ UNCHANGED <<kvState, app, height, lastState, syncTarget, locals,
                    loop, accepted, faults>>

\* Nothing to prune, or an error that is only logged.
NothingPruned(a) ==
  /\ Goto(a, "prune", "final")
  /\ \/ ~CanPrune(retain[a]) /\ UNCHANGED faults
     \/ CanPrune(retain[a]) /\ Fault("prune")
  /\ UNCHANGED <<disk, memory, appExec, appInit, locals, loop, accepted>>

Stored(state, h, b) == [state EXCEPT !.LastStoreHeight = h, !.BaseHeight = b]

FinalState(a) ==
  LET s == Stored(newState[a], block[a].height, base)
  IN /\ Goto(a, "final", "setHeight")
     /\ kvState' = s
     /\ lastState' = s
     /\ UNCHANGED <<kvBlock, kvResp, app, height, base, syncTarget, locals,
                    loop, accepted, faults>>

FinalStateFails(a) ==
  /\ Return(a, "final")
  /\ Fault("final")
  /\ Stops(a)
  /\ UNCHANGED <<disk, memory, appExec, appInit, accepted>>

SetStoreHeight(a) ==
  /\ Return(a, "setHeight")
  /\ SetHeight(block[a].height)
  /\ UNCHANGED <<disk, base, lastState, syncTarget, appExec, appInit, loop, accepted,
                 faults>>

-----------------------------------------------------------------------------
(* The other writers of the state *)

Indexed(state, i) == [state EXCEPT !.SLStateIndex = i]

\* updateStateIndex, once every block of the batch went through applyBlock.
\* The argument of UpdateState is a copy of lastState.
UpdateStateIndex(a) ==
  LET i == lastState.SLStateIndex + 1
      s == Indexed(lastState, i)
  IN /\ a \in Receivers
     /\ i <= Len(BatchEnd)
     /\ BatchEnd[i] <= height
     /\ Goto(a, "idle", "persistIndex")
     /\ lastState' = s
     /\ newState' = [newState EXCEPT ![a] = s]
     /\ UNCHANGED <<disk, height, base, syncTarget, appExec, appInit, block,
                    responses, retain, loop, accepted, faults>>

PersistIndex(a) ==
  /\ Return(a, "persistIndex")
  /\ \/ kvState' = newState[a] /\ UNCHANGED faults
     \/ UNCHANGED kvState /\ Fault("index")
  /\ UNCHANGED <<kvBlock, kvResp, app, memory, loop, accepted>>

\* SyncTargetLoop learns that the settlement layer accepted blocks up to t, from
\* its latest batch or from an event that may be late.
UpdateSyncParams ==
  \E t \in Heights :
    /\ accepted' = IF t > accepted THEN t ELSE accepted
    /\ syncTarget' = t
    /\ UNCHANGED <<disk, height, base, lastState, appExec, appInit, pc, locals,
                   loop, faults>>

-----------------------------------------------------------------------------
(* ProduceBlockLoop, as far as it decides whether produceBlock is called *)

LoopOnly == UNCHANGED <<disk, height, base, lastState, appExec, appInit, pc, locals,
                        accepted, faults>>

\* waitForSync asks for the latest batch.  A query that fails looks like a
\* settlement layer without batches, and then production starts at once.
WaitForSync ==
  /\ ProduceBlockLoop \in Producers
  /\ loop = "start"
  /\ \E t \in {0, accepted} :
       /\ syncTarget' = t
       /\ loop' = IF t = 0 THEN "ticking" ELSE "check"
  /\ LoopOnly

CheckSynced ==
  /\ loop = "check"
  /\ loop' = IF height < syncTarget THEN "waiting" ELSE "ticking"
  /\ LoopOnly /\ UNCHANGED syncTarget

\* RetriveLoop signals isSyncedCond (SyncLoop has the rest).
Signalled ==
  /\ loop = "waiting"
  /\ height >= syncTarget
  /\ loop' = "ticking"
  /\ LoopOnly /\ UNCHANGED syncTarget

\* A health event of the node, or an error of produceBlock before applyBlock
\* (ProduceLoop has the rest).
ShouldProduceBlocks ==
  /\ loop \in {"ticking", "stopped"}
  /\ pc[ProduceBlockLoop] = "idle"
  /\ loop' \in {"ticking", "stopped"} \ {loop}
  /\ LoopOnly /\ UNCHANGED syncTarget

-----------------------------------------------------------------------------
(* Start *)

\* Mutant of FromProto: the rule for old files also takes the first block.
FromProtoFirstBlock(s) ==
  IF s.LastStoreHeight = 0 /\ s.LastBlockHeight > 0
  THEN [s EXCEPT !.LastStoreHeight = s.LastBlockHeight]
  ELSE s

\* State.FromProto with its rule for state files without LastStoreHeight.
FromProto(s) ==
  IF s.LastStoreHeight = 0 /\ s.LastBlockHeight > 1
  THEN [s EXCEPT !.LastStoreHeight = s.LastBlockHeight]
  ELSE s

\* updateInitChainState
InitChainState(s) == [s EXCEPT !.AppHash = <<>>, !.LastResultsHash = <<>>]

\* The process stops at any point; NewManager loads what reached the disk.
Restart ==
  LET loaded == FromProto(kvState)
      isInitChain == loaded.LastBlockHeight + 1 = InitialHeight
      s == IF isInitChain THEN InitChainState(loaded) ELSE loaded
  IN /\ faults < MaxFaults
     /\ faults' = faults + 1
     /\ height' = loaded.LastStoreHeight
     /\ base' = loaded.BaseHeight
     /\ lastState' = s
     /\ kvState' = IF isInitChain THEN s ELSE kvState
     /\ syncTarget' = 0
     /\ appExec' = <<>>
     /\ appInit' = (appLog # <<>> \/ isInitChain)
     /\ pc' = [a \in Appliers |-> "idle"]
     /\ block' = [a \in Appliers |-> None]
     /\ responses' = [a \in Appliers |-> None]
     /\ newState' = [a \in Appliers |-> None]
     /\ retain' = [a \in Appliers |-> None]
     /\ loop' = "start"
     /\ UNCHANGED <<kvBlock, kvResp, appLog, accepted>>

-----------------------------------------------------------------------------
Step(a) ==
  \/ AlignNotRequired(a)
  \/ AlignStoreWithApp(a)
  \/ SaveBlock(a)
  \/ Execute(a)
  \/ ValidationFails(a)
  \/ UpdateState(a)
  \/ Commit(a)
  \/ PruneBlocks(a)
  \/ NothingPruned(a)
  \/ FinalState(a)
  \/ SetStoreHeight(a)
  \/ PersistIndex(a)

StepFails(a) ==
  \/ AppInfoFails(a)
  \/ AlignFails(a)
  \/ SaveFails(a)
  \/ ExecutionFails(a)
  \/ UpdateFails(a)
  \/ CommitFails(a)
  \/ FinalStateFails(a)

LoopStep == WaitForSync \/ CheckSynced \/ Signalled \/ ShouldProduceBlocks

Next ==
  \/ \E a \in Appliers :
       \/ Receive(a)
       \/ Produce(a)
       \/ UpdateStateIndex(a)
       \/ Step(a)
       \/ StepFails(a)
  \/ UpdateSyncParams
  \/ LoopStep
  \/ Restart

Spec == Init /\ [][Next]_vars

\* A goroutine inside applyBlock is scheduled, and so is ProduceBlockLoop: it gets
\* through waitForSync if the node is in sync, and its ticker calls produceBlock
\* while it is not stopped.  Nothing makes SubmitLoop produce, a signal or a health
\* event come, or a crash or a failed call happen.
Fairness ==
  /\ \A a \in Appliers : WF_vars(Step(a))
  /\ WF_vars(WaitForSync \/ CheckSynced)
  /\ WF_vars(Produce(ProduceBlockLoop))

FairSpec == Spec /\ Fairness

-----------------------------------------------------------------------------
(* Properties *)

PCs == {"idle", "align", "save", "execute", "update", "commit", "prune",
        "final", "setHeight", "persistIndex"}

\* The variables that applyBlock, the store and the application read and write.
ApplyTypeOK ==
  /\ kvState \in States
  /\ kvBlock \in [Heights -> Blocks \cup {None}]
  /\ kvResp \in [Heights -> History \cup {None}]
  /\ appLog \in History
  /\ height \in Nat
  /\ base \in Nat
  /\ lastState \in States
  /\ syncTarget \in Nat
  /\ appExec \in Seq(Ids)
  /\ appInit \in BOOLEAN
  /\ pc \in [Appliers -> PCs]
  /\ block \in [Appliers -> Blocks \cup {None}]
  /\ responses \in [Appliers -> History \cup {None}]
  /\ newState \in [Appliers -> States \cup {None}]
  /\ retain \in [Appliers -> Nat \cup {None}]
  /\ accepted \in Nat
  /\ faults \in 0..MaxFaults

\* The variables have the types of the Go declarations: block/block.go,
\* store/store.go, types/state.go, block/produce.go.
TypeOK == ApplyTypeOK /\ loop \in LoopPCs

\* The condition the comment of applyBlock asks for: while a block is on its
\* way to the application, "block height - 1 == abci app last block height"
\* (block/block.go:15-16).
ExecuteOnlyOnPredecessor ==
  \A a \in Appliers :
    pc[a] \in {"save", "execute", "update", "commit"} =>
      block[a].height = AppHeight + 1

\* Whatever the crash, what is on disk is either level with the application,
\* digests included, or exactly one block behind it with the responses that
\* alignStoreWithApp needs to catch up.
RecoverableFromDisk ==
  \/ /\ kvState.LastStoreHeight = AppHeight
     /\ kvState.AppHash = appLog
     /\ kvState.LastResultsHash = appLog
  \/ /\ kvState.LastStoreHeight + 1 = AppHeight
     /\ kvState.LastBlockHeight = AppHeight
     /\ kvResp[AppHeight] = appLog

\* The application commits every block after executing it exactly once: no
\* crash makes applyBlock execute a committed block again or commit an empty
\* or a doubled execution.
ExecutedOnce ==
  \A h \in 1..AppHeight : Len(appLog[h]) = 1

\* The block a node serves for a height it has applied (LoadBlock) is the block
\* its application executed there, although SaveBlock precedes validation.
StoredBlockIsExecuted ==
  \A h \in Heights :
    (h <= height /\ kvBlock[h] # None) => appLog[h] = <<kvBlock[h].id>>

\* Pruning leaves what is still needed: the blocks the settlement layer has not
\* accepted, which createNextDABatch loads, and the last block, without which
\* produceBlock cannot build the next one.
NeededBlocksKept ==
  \A h \in Heights :
    (h <= height /\ (h > accepted \/ h = height)) => kvBlock[h] # None

\* NewManager calls InitChain exactly when the application has committed
\* nothing, with one exception: a crash around the commit of the first block.
InitChainMatchesApp ==
  /\ kvState.LastBlockHeight = 0 => appLog = <<>> /\ appInit
  /\ ~appInit => /\ appLog = <<>>
                 /\ kvState.LastBlockHeight = InitialHeight
                 /\ kvState.LastStoreHeight = 0

\* A block the aggregator produced, the pending one it found in the store after
\* a crash included, passes validation.  produceBlock reuses the pending block
\* for ever, so that a pending block that fails would stop the chain.
ProducedBlockIsValid ==
  \A a \in Producers :
    pc[a] = "execute" => Validate(lastState, block[a])

\* The aggregator never stores two different blocks for one height: what it
\* saved stays until it is pruned, and a pruned height stays empty.
StoredBlockIsFinal ==
  [][\A h \in Heights :
       /\ kvBlock[h] # None => kvBlock'[h] \in {kvBlock[h], None}
       /\ kvBlock[h] = None /\ h <= height => kvBlock'[h] = None]_vars

\* A store that a crash, or a failed call of SubmitLoop, left behind the application
\* catches up, because ProduceBlockLoop takes the pending block up again.  It does
\* not have to in two cases: an error of its own or a health event has stopped the
\* loop, or the node starts behind the settlement layer and waits in waitForSync.
AlignmentCompletes ==
  (kvState.LastStoreHeight < AppHeight) ~>
    (kvState.LastStoreHeight = AppHeight \/ loop \in {"stopped", "waiting"})

-----------------------------------------------------------------------------
(* The promise *)

LedgerOfApp ==
  INSTANCE Ledger WITH
    log <- appLog,
    acknowledged <- kvState.LastStoreHeight,
    Entries <- {<<i>> : i \in Ids}

\* applyBlock with its crashes, restarts and alignment implements the ledger:
\* the application commits one block, executed once, the store height follows
\* on disk, and only then does the application commit the next.
ImplementsLedger == LedgerOfApp!Spec

-----------------------------------------------------------------------------
(* The inductive invariant *)

\* One goroutine at a time is inside applyBlock or updateStateIndex: a full node
\* with one receiver, or an aggregator, where produceBlockMutex sees to it.
Serial ==
  \/ Receivers = {}
  \/ Producers = {} /\ \A a, b \in Receivers : a = b

\* A failed alignment leaves lastState ahead of the disk; nothing may write it
\* to the disk before the alignment is repeated.
AlignFailsOnlyAlone ==
  Receivers = {} \/ FaultPoints \cap {"alignLoad", "alignUpdate"} = {}

\* No call fails between the execution of a block and its commit.
NoRetryInProcess == FaultPoints \cap {"execute", "batch", "commit"} = {}

MutualExclusion ==
  \A a, b \in Appliers : pc[a] # "idle" /\ pc[b] # "idle" => a = b

\* What each place in applyBlock knows.
KnowsAt(a) ==
  LET b == block[a]
      s == newState[a]
  IN /\ pc[a] \notin {"idle", "persistIndex"} =>
          b \in Blocks /\ b.height = height + 1
     /\ pc[a] \in {"save", "execute", "update", "commit"} =>
          b.height = AppHeight + 1
     /\ pc[a] \in {"execute", "update", "commit"} => kvBlock[b.height] = b
     /\ pc[a] \in {"update", "commit"} => responses[a] = Append(appLog, appExec)
     /\ pc[a] = "commit" => /\ s = lastState
                            /\ kvState.LastBlockHeight = b.height
                            /\ s.LastBlockHeight = b.height
                            /\ kvResp[b.height] = responses[a]
     /\ pc[a] \in {"prune", "final"} => /\ b.height = AppHeight
                                        /\ s \in States
                                        /\ s.LastBlockHeight = AppHeight
                                        /\ s.AppHash = appLog
                                        /\ s.LastResultsHash = appLog
     /\ pc[a] = "prune" => retain[a] \in Nat
     /\ pc[a] = "setHeight" => b.height = kvState.LastStoreHeight
     /\ pc[a] = "persistIndex" => s = lastState /\ a \in Receivers

\* The height in memory and the state on disk and in memory, against the log.
StateMatchesLog ==
  /\ (\A a \in Appliers : pc[a] # "setHeight") => height = kvState.LastStoreHeight
  /\ kvState.LastBlockHeight \in {kvState.LastStoreHeight, kvState.LastStoreHeight + 1}
  /\ kvState.LastBlockHeight <= lastState.LastBlockHeight
  /\ lastState.LastBlockHeight \in {AppHeight, AppHeight + 1}
  /\ kvState.LastStoreHeight = AppHeight =>
       /\ lastState.LastStoreHeight = AppHeight
       /\ lastState.AppHash = appLog
       /\ lastState.LastResultsHash = appLog
  /\ kvState.LastStoreHeight + 1 = AppHeight =>
       /\ lastState.LastBlockHeight = AppHeight
       /\ Receivers # {} => lastState.LastStoreHeight = kvState.LastStoreHeight

\* Execution: nothing is left over from an earlier attempt.
ExecMatchesBlock ==
  /\ (\A a \in Appliers : pc[a] \notin {"update", "commit"}) => appExec = <<>>
  /\ \A a \in Appliers : pc[a] \in {"update", "commit"} => appExec = <<block[a].id>>
  /\ \A h \in 1..AppHeight : Len(appLog[h]) = 1
  /\ \A h \in Heights :
       (h <= AppHeight /\ kvBlock[h] # None) => appLog[h] = <<kvBlock[h].id>>

BlocksKept ==
  /\ syncTarget <= accepted
  /\ \A h \in Heights :
       (h <= AppHeight /\ (h > accepted \/ h >= height)) => kvBlock[h] # None

\* The invariant that every step of a serial node preserves: it says, for each
\* place at which applyBlock can stop, what the disk and lastState hold.
IInv ==
  /\ ApplyTypeOK
  /\ MutualExclusion
  /\ \A a \in Appliers : KnowsAt(a)
  /\ RecoverableFromDisk
  /\ StateMatchesLog
  /\ InitChainMatchesApp
  /\ BlocksKept
  /\ NoRetryInProcess => ExecMatchesBlock

\* A block that validation accepts after the log.
Continues(b) ==
  b.height = AppHeight + 1 /\ b.AppHash = appLog /\ b.LastResultsHash = appLog

\* An aggregator, where nobody else delivers blocks: the store holds no block
\* beyond the next one, the pending block and the block at hand continue the log
\* of the application, and a block at hand is the pending one if there is one.
PendingContinuesLog ==
  /\ \A h \in Heights :
       kvBlock[h] # None =>
         /\ h <= AppHeight + 1
         /\ h = AppHeight + 1 => Continues(kvBlock[h])
  /\ \A a \in Appliers :
       pc[a] # "idle" /\ block[a].height = AppHeight + 1 =>
         /\ Continues(block[a])
         /\ kvBlock[AppHeight + 1] \in {None, block[a]}

=============================================================================
