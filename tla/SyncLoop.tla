------------------------------ MODULE SyncLoop -------------------------------
(***************************************************************************)
(* How a node catches up with the hub: SyncTargetLoop and updateSyncParams *)
(* (block/synctarget.go), RetriveLoop and syncUntilTarget                  *)
(* (block/retriever.go), waitForSync (block/produce.go), with the batches  *)
(* that a sequencer puts on the DA layer (DAClient) and posts to the hub,  *)
(* the Dymension hub or the mock of settlement/mock/mock.go.               *)
(*                                                                         *)
(* A full node runs beside the sequencer.  An aggregator starts when the   *)
(* sequencer before it has stopped, and waits until it is synced.  Blocks  *)
(* also come by gossip; that RetriveLoop and the gossip callback apply a   *)
(* block at the same time is the subject of ApplyBlock.                    *)
(***************************************************************************)
EXTENDS DAClient

CONSTANTS
  Roles,      \* of {"full", "aggregator"}
  None,       \* no value
  Faults,     \* what may fail (see Fault)
  MaxFaults   \* bound: faults in a behaviour

FaultKinds == {"sequencer", "query", "lost", "overflow", "da", "apply", "persist", "crash"}

ASSUME SyncAssumption ==
  /\ Roles \subseteq {"full", "aggregator"}
  /\ Faults \subseteq FaultKinds
  /\ MaxFaults \in Nat
  /\ None \notin Nat

VARIABLES
  hub,         \* the batches at the hub, by state index
  hubIndex,    \* the state index of the latest batch
  role,        \* what the node is
  up,          \* "down" or "up"
  height,      \* store.Height()
  index,       \* m.lastState.SLStateIndex
  disk,        \* the persisted state: its store height and state index
  syncTarget,  \* m.syncTarget
  diode,       \* m.syncTargetDiode: the latest target that was not read, or None
  queue,       \* the subscription of SyncTargetLoop: end heights
  open,        \* FALSE once it is cancelled
  setter,      \* SyncTargetLoop and waitForSync: where they are, and the target at hand
  ret,         \* RetriveLoop: where it is, and its local variables
  gossip,      \* applyBlockCallback: the state index of the block being applied, or None
  gaveUp,      \* syncUntilTarget returned early, and no target came after
  faults       \* faults so far

hubVars == <<hub, hubIndex>>
state == <<height, index, disk>>
targets == <<syncTarget, diode>>
events == <<queue, open>>
node == <<role, up>>
vars == <<daVars, hubVars, node, state, targets, events, setter, ret, gossip, gaveUp, faults>>

Setters == {"syncTargetLoop", "waitForSync"}

\* The default output capacity of a pubsub subscription.
OutCapacity == 1

HubHeight == IF hubIndex = 0 THEN 0 ELSE hub[hubIndex].end

\* A fault of kind f happens, if the instance allows it.
Fault(f) ==
  /\ f \in Faults
  /\ faults < MaxFaults
  /\ faults' = faults + 1

Waiting == [pc |-> "wait", target |-> 0, cur |-> 0, entry |-> 0, todo |-> <<>>, i |-> 0]

Starting == [s \in Setters |-> [pc |-> "start", target |-> 0]]

\* The mocks live in the process of the node that uses them, an aggregator.
Init ==
  /\ DAInit
  /\ hub = <<>> /\ hubIndex = 0
  /\ role \in (IF client = "mock" THEN Roles \ {"full"} ELSE Roles) /\ up = "down"
  /\ height = 0 /\ index = 0 /\ disk = [height |-> 0, index |-> 0]
  /\ syncTarget = 0 /\ diode = None
  /\ queue = <<>> /\ open = FALSE
  /\ setter = Starting
  /\ ret = Waiting
  /\ gossip = None /\ gaveUp = FALSE
  /\ faults = 0

-----------------------------------------------------------------------------
(* The sequencer *)

\* The next batch starts after the last one the hub accepted; validateBatch sees to it.
StartBatch ==
  /\ \E end \in (HubHeight + 1)..MaxHeight : Submit([start |-> HubHeight + 1, end |-> end])
  /\ UNCHANGED <<hubVars, node, state, targets, events, setter, ret, gossip, gaveUp, faults>>

SequencerSubmits ==
  /\ SubmitStep
  /\ UNCHANGED <<hubVars, node, state, targets, events, setter, ret, gossip, gaveUp, faults>>

DALayer ==
  /\ DABlock \/ UpdateDAHeight
  /\ UNCHANGED <<hubVars, node, state, targets, events, setter, ret, gossip, gaveUp, faults>>

\* What the hub keeps of a batch.
Entry == [start |-> sub.batch.start, end |-> sub.batch.end, daHeight |-> sub.height]

\* The event of an accepted batch gets to SyncTargetLoop, if its subscription has room;
\* else the subscription is cancelled.  Without the fault the loop is fast enough.
Notify(end) ==
  \/ ~open /\ UNCHANGED <<events, faults>>
  \/ open /\ Len(queue) < OutCapacity /\ queue' = Append(queue, end) /\ UNCHANGED <<open, faults>>
  \/ open /\ Len(queue) = OutCapacity /\ Fault("overflow") /\ open' = FALSE /\ UNCHANGED queue
  \/ open /\ Fault("lost") /\ UNCHANGED events

\* The Dymension hub accepts the batch that the DA layer has.
HubAccepts ==
  /\ client # "mock" /\ sub.pc = "success"
  /\ hub' = Append(hub, Entry) /\ hubIndex' = hubIndex + 1
  /\ Notify(sub.batch.end)
  /\ sub' = Idle
  /\ UNCHANGED <<client, chain, kv, node, state, targets, setter, ret, gossip, gaveUp>>

\* saveBatch of the mock: first the batch, under the next index...
MockSavesBatch ==
  /\ client = "mock" /\ sub.pc = "success"
  /\ hub' = Append(SubSeq(hub, 1, hubIndex), Entry)
  /\ sub' = [sub EXCEPT !.pc = "index"]
  /\ UNCHANGED <<client, chain, kv, hubIndex, node, state, targets, events, setter, ret,
                 gossip, gaveUp, faults>>

\* ... then the index, in memory and in the store (a crash between the two is one before
\* both); PostBatch publishes the event.
MockSavesIndex ==
  /\ client = "mock" /\ sub.pc = "index"
  /\ hubIndex' = hubIndex + 1
  /\ Notify(sub.batch.end)
  /\ sub' = Idle
  /\ UNCHANGED <<client, chain, kv, hub, node, state, targets, setter, ret, gossip, gaveUp>>

\* The sequencer crashes and starts again: its next batch may end at another height.
SequencerRestarts ==
  /\ sub.pc \notin {"idle", "stopped"}
  /\ Fault("sequencer")
  /\ ClientRestarts
  /\ UNCHANGED <<hubVars, node, state, targets, events, setter, ret, gossip, gaveUp>>

\* It stops for good, which ends a submission; so does the panic after an error.  (To a
\* full node this is the same as a sequencer that does nothing.)
SequencerStops ==
  /\ role = "aggregator"
  /\ sub.pc # "stopped"
  /\ sub' = [Idle EXCEPT !.pc = "stopped"]
  /\ UNCHANGED <<client, chain, kv, hubVars, node, state, targets, events, setter, ret,
                 gossip, gaveUp, faults>>

-----------------------------------------------------------------------------
(* Start and end of the node *)

\* NewManager loads the state and Start starts the loops.
Boot ==
  /\ up = "down"
  /\ role = "aggregator" => sub.pc = "stopped"
  /\ up' = "up"
  /\ height' = disk.height /\ index' = disk.index
  /\ syncTarget' = 0 /\ diode' = None
  /\ queue' = <<>> /\ open' = TRUE
  /\ setter' = [Starting EXCEPT !["waitForSync"].pc = IF role = "full" THEN "none" ELSE "start"]
  /\ ret' = Waiting /\ gossip' = None /\ gaveUp' = FALSE
  /\ UNCHANGED <<daVars, hubVars, role, disk, faults>>

Crash ==
  /\ up = "up"
  /\ Fault("crash")
  /\ up' = "down"
  /\ open' = FALSE
  /\ UNCHANGED <<daVars, hubVars, role, state, targets, queue, setter, ret, gossip, gaveUp>>

-----------------------------------------------------------------------------
(* SyncTargetLoop and waitForSync *)

SetterOnly == UNCHANGED <<daVars, hubVars, node, state, events, ret, gossip, gaveUp>>

GoTo(s, p, t) == setter' = [setter EXCEPT ![s] = [pc |-> p, target |-> t]]

\* getLatestBatchFromSL.
Fetch(s) ==
  /\ up = "up" /\ setter[s].pc = "start"
  /\ hubIndex > 0
  /\ GoTo(s, "store", HubHeight)
  /\ SetterOnly /\ UNCHANGED <<targets, faults>>

\* The hub has no batch, or the query failed: GetLatestBatch tests the response, which is
\* nil then, before the error, and both are ErrBatchNotFound.  SyncTargetLoop goes on
\* without a target; waitForSync resets it and returns as if the chain were new.
FetchNone(s) ==
  /\ up = "up" /\ setter[s].pc = "start"
  /\ \/ hubIndex = 0 /\ UNCHANGED faults
     \/ Fault("query")
  /\ GoTo(s, IF s = "waitForSync" THEN "ready" ELSE "loop", 0)
  /\ syncTarget' = IF s = "waitForSync" THEN 0 ELSE syncTarget
  /\ SetterOnly /\ UNCHANGED diode

\* An event of the subscription.
NewBatchAccepted ==
  /\ up = "up" /\ setter["syncTargetLoop"].pc = "loop"
  /\ queue # <<>>
  /\ GoTo("syncTargetLoop", "store", Head(queue))
  /\ queue' = Tail(queue)
  /\ UNCHANGED <<daVars, hubVars, node, state, targets, open, ret, gossip, gaveUp, faults>>

\* updateSyncParams stores the target, then puts it in the ring buffer of one entry.
StoreTarget(s) ==
  /\ up = "up" /\ setter[s].pc = "store"
  /\ syncTarget' = setter[s].target
  /\ GoTo(s, "set", setter[s].target)
  /\ SetterOnly /\ UNCHANGED <<diode, faults>>

SetDiode(s) ==
  /\ up = "up" /\ setter[s].pc = "set"
  /\ diode' = setter[s].target
  /\ GoTo(s, IF s = "waitForSync" THEN "check" ELSE "loop", 0)
  /\ SetterOnly /\ UNCHANGED <<syncTarget, faults>>

\* With the lock of isSyncedCond, which Wait gives up: it waits, or it is synced.
CheckSynced ==
  /\ up = "up" /\ setter["waitForSync"].pc = "check"
  /\ GoTo("waitForSync", IF height < syncTarget THEN "wait" ELSE "ready", 0)
  /\ SetterOnly /\ UNCHANGED <<targets, faults>>

-----------------------------------------------------------------------------
(* RetriveLoop *)

RetOnly == UNCHANGED <<daVars, hubVars, node, syncTarget, events, gossip>>

\* The poller waits for a target.
NextTarget ==
  /\ up = "up" /\ ret.pc = "wait"
  /\ diode # None
  /\ diode' = None
  /\ ret' = [Waiting EXCEPT !.pc = "sync", !.target = diode, !.cur = height]
  /\ gaveUp' = FALSE
  /\ RetOnly /\ UNCHANGED <<state, setter, faults>>

\* RetrieveBatch of the index after the last one.  An error is tried again at once, with
\* the same current height.
RetrieveBatch ==
  /\ up = "up" /\ ret.pc = "sync" /\ ret.cur < ret.target
  /\ index + 1 \in DOMAIN hub
  /\ ret' = [ret EXCEPT !.pc = "fetch", !.entry = index + 1]
  /\ RetOnly /\ UNCHANGED <<diode, state, setter, gaveUp, faults>>

\* syncUntilTarget returns before the target.
Abort == ret' = [ret EXCEPT !.pc = "done", !.todo = <<>>, !.i = 0] /\ gaveUp' = TRUE

\* Mutant: the code of the result is not looked at.
FetchBatch_IgnoresCode ==
  /\ up = "up" /\ ret.pc = "fetch"
  /\ LET h == hub[ret.entry].daHeight IN
       ret' = [ret EXCEPT !.pc = "apply",
                          !.todo = IF RetrieveFails(h) THEN <<>> ELSE BatchesAt(h)]
  /\ RetOnly /\ UNCHANGED <<diode, state, setter, gaveUp, faults>>

FetchBatch ==
  /\ up = "up" /\ ret.pc = "fetch"
  /\ LET h == hub[ret.entry].daHeight IN
       \/ ~RetrieveFails(h)
          /\ ret' = [ret EXCEPT !.pc = "apply", !.todo = BatchesAt(h)]
          /\ UNCHANGED <<gaveUp, faults>>
       \/ RetrieveFails(h) /\ Abort /\ UNCHANGED faults
       \/ Fault("da") /\ Abort
  /\ RetOnly /\ UNCHANGED <<diode, state, setter>>

\* The block that processNextDABatch has come to: the i-th after the first of a batch.
Block == Head(ret.todo).start + ret.i

\* applyBlock of the next block: one that is not at the next height is skipped.
ApplyNext ==
  /\ up = "up" /\ ret.pc = "apply" /\ ret.todo # <<>>
  /\ gossip = None
  /\ ret' = IF Block < Head(ret.todo).end
            THEN [ret EXCEPT !.i = @ + 1]
            ELSE [ret EXCEPT !.todo = Tail(ret.todo), !.i = 0]
  /\ IF Block = height + 1
     THEN height' = height + 1 /\ disk' = [height |-> height + 1, index |-> index]
     ELSE UNCHANGED <<height, disk>>
  /\ RetOnly /\ UNCHANGED <<diode, index, setter, gaveUp, faults>>

ApplyFails ==
  /\ up = "up" /\ ret.pc = "apply" /\ ret.todo # <<>>
  /\ Block = height + 1
  /\ Fault("apply")
  /\ Abort
  /\ RetOnly /\ UNCHANGED <<diode, state, setter>>

\* updateStateIndex, and the height is read again.
UpdateStateIndex ==
  /\ up = "up" /\ ret.pc = "apply" /\ ret.todo = <<>>
  /\ index' = ret.entry
  /\ \/ disk' = [height |-> height, index |-> ret.entry]
        /\ ret' = [ret EXCEPT !.pc = "sync", !.cur = height]
        /\ UNCHANGED <<gaveUp, faults>>
     \/ Fault("persist") /\ Abort /\ UNCHANGED disk
  /\ RetOnly /\ UNCHANGED <<diode, height, setter>>

TargetReached ==
  /\ up = "up" /\ ret.pc = "sync" /\ ret.cur >= ret.target
  /\ ret' = [ret EXCEPT !.pc = "done"]
  /\ RetOnly /\ UNCHANGED <<diode, state, setter, gaveUp, faults>>

\* Mutant: the height must be above the target.
CheckTarget_Above ==
  /\ up = "up" /\ ret.pc = "done"
  /\ ret' = [Waiting EXCEPT !.pc = IF height > syncTarget THEN "signal" ELSE "wait"]
  /\ RetOnly /\ UNCHANGED <<diode, state, setter, gaveUp, faults>>

CheckTarget ==
  /\ up = "up" /\ ret.pc = "done"
  /\ ret' = [Waiting EXCEPT !.pc = IF height >= syncTarget THEN "signal" ELSE "wait"]
  /\ RetOnly /\ UNCHANGED <<diode, state, setter, gaveUp, faults>>

\* Signal wakes waitForSync if it waits, and is lost if not.
Signal ==
  /\ up = "up" /\ ret.pc = "signal"
  /\ ret' = Waiting
  /\ setter' = IF setter["waitForSync"].pc = "wait"
               THEN [setter EXCEPT !["waitForSync"].pc = "check"] ELSE setter
  /\ RetOnly /\ UNCHANGED <<diode, state, gaveUp, faults>>

-----------------------------------------------------------------------------
(* Gossip *)

\* applyBlock of a gossiped block takes a copy of lastState...
GossipStarts ==
  /\ up = "up" /\ gossip = None
  /\ height < MaxHeight
  /\ gossip' = index
  /\ UNCHANGED <<daVars, hubVars, node, state, targets, events, setter, ret, gaveUp, faults>>

\* ... and stores it, with the state index of then, when the block is committed.
GossipEnds ==
  /\ up = "up" /\ gossip # None
  /\ height' = height + 1 /\ index' = gossip
  /\ disk' = [height |-> height + 1, index |-> gossip]
  /\ gossip' = None
  /\ UNCHANGED <<daVars, hubVars, node, targets, events, setter, ret, gaveUp, faults>>

-----------------------------------------------------------------------------

Sequencer ==
  \/ StartBatch \/ SequencerSubmits \/ DALayer
  \/ HubAccepts \/ MockSavesBatch \/ MockSavesIndex
  \/ SequencerRestarts \/ SequencerStops

SyncTargetLoop(s) == Fetch(s) \/ FetchNone(s) \/ StoreTarget(s) \/ SetDiode(s)

RetriveLoop ==
  \/ NextTarget \/ RetrieveBatch \/ FetchBatch \/ ApplyNext \/ ApplyFails
  \/ UpdateStateIndex \/ TargetReached \/ CheckTarget \/ Signal

Next ==
  \/ Sequencer
  \/ Boot \/ Crash
  \/ \E s \in Setters : SyncTargetLoop(s)
  \/ NewBatchAccepted \/ CheckSynced
  \/ RetriveLoop
  \/ GossipStarts \/ GossipEnds

\* The loops of a node that is up go on, a block that is being applied gets applied, and a
\* node that went down is started.  Nothing is assumed of the sequencer, of gossip, or of
\* the DA layer.
Fairness ==
  /\ WF_vars(Boot)
  /\ \A s \in Setters : WF_vars(SyncTargetLoop(s))
  /\ WF_vars(NewBatchAccepted) /\ WF_vars(CheckSynced)
  /\ WF_vars(RetriveLoop)
  /\ WF_vars(GossipEnds)

Spec == Init /\ [][Next]_vars /\ Fairness

-----------------------------------------------------------------------------
(* Properties *)

\* A batch that the hub accepted is at the DA height the hub names, whatever was sent
\* twice, lost, timed out or left behind by a crash of the sequencer: what SubmitBatch
\* returns is what RetrieveBatches needs.
SettledIsRetrievable ==
  \A i \in 1..hubIndex :
    \E k \in DOMAIN BatchesAt(hub[i].daHeight) :
      /\ BatchesAt(hub[i].daHeight)[k].start = hub[i].start
      /\ BatchesAt(hub[i].daHeight)[k].end = hub[i].end

\* The state index never gets ahead of the blocks, in memory or on disk: syncUntilTarget
\* asks for the batch after it, so that a batch it had skipped would be missed for good.
IndexIsApplied ==
  /\ index > 0 => hub[index].end <= height
  /\ disk.index > 0 => hub[disk.index].end <= disk.height

\* In the end the node has reached its sync target and waitForSync has returned, unless
\* syncUntilTarget gave up on the last target: no target is lost in the ring buffer, and no
\* signal is.  (An aggregator starts when the sequencer before it has stopped.)
SyncCompletes ==
  <>[](\/ gaveUp
       \/ up = "up" /\ height >= syncTarget /\ setter["waitForSync"].pc \in {"none", "ready"}
       \/ role = "aggregator" /\ sub.pc # "stopped")
=============================================================================
