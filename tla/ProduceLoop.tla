----------------------------- MODULE ProduceLoop -----------------------------
(***************************************************************************)
(* When an aggregator produces blocks: ProduceBlockLoop (block/produce.go) *)
(* with the two channels that control it, and the way of a health report   *)
(* from SubmitLoop, which meets the base layers, through the node's two    *)
(* handlers (node/node.go) to the manager and to the RPC server.           *)
(*                                                                         *)
(*   SubmitLoop --> da, settlement handlers --> manager --> ProduceBlockLoop *)
(*       |                                 \--> RPC server        ^        *)
(*       +---------------- request for an empty block ------------+        *)
(*                                                                         *)
(* Simplifications.                                                        *)
(*  - A report is whether the layer is healthy; it carries an error exactly *)
(*    when it is not.                                                      *)
(*  - The acceptance of a batch, which BatchSubmission has in detail, is   *)
(*    one step, and batchInProcess is cleared by it.                       *)
(*  - produceBlock is the result with which it returns; produceBlockMutex  *)
(*    puts the results of the two loops in an order.  ApplyBlock has what  *)
(*    produceBlock does.                                                   *)
(*  - A tick may or may not produce a block: it skips an empty one unless  *)
(*    produceEmptyBlock is set, as a request and a timer set it.           *)
(*  - The callback of the RPC server only stores the status, so that it    *)
(*    receives and stores an event in one step.                            *)
(***************************************************************************)
EXTENDS Integers, Sequences

CONSTANTS
  MaxHeight,  \* bound on the blocks
  MaxFaults   \* bound on the failed submissions to the base layers and the errors
              \* of produceBlock, together

ASSUME ProduceAssumption == MaxHeight \in Nat /\ MaxFaults \in Nat

VARIABLES
  \* SubmitLoop
  submit,       \* where SubmitLoop is
  batchEnd,     \* last height of the batch at hand
  syncTarget,   \* Manager.syncTarget
  retries,      \* failed submissions so far
  unreported,   \* the last PostBatch returned without a health event
  \* the pubsub server
  queue, open,  \* of each subscription: its buffer, and whether it was cancelled
  \* the node
  status,       \* BaseLayersHealthStatus
  handler,      \* where healthStatusEventCallback is, for each layer
  report,       \* the event it handles, then the one it publishes, or "healthy"
  \* the consumers
  callback,     \* the value the manager's callback is sending, if any
  rpcStatus,    \* Server.healthStatus
  \* ProduceBlockLoop
  loop,         \* where it is
  shouldProduceBlocksCh, produceEmptyBlockCh,
  height,       \* of the store
  errors        \* errors of produceBlock in ProduceBlockLoop so far

submitLoop == <<submit, batchEnd, syncTarget, retries, unreported>>
pubsub     == <<queue, open>>
node       == <<status, handler, report>>
consumers  == <<callback, rpcStatus>>
production == <<loop, height, errors>>
channels   == <<shouldProduceBlocksCh, produceEmptyBlockCh>>
vars == <<submitLoop, pubsub, node, consumers, production, channels>>

-----------------------------------------------------------------------------
Layers == {"da", "settlement"}

\* The field Healthy of a health event.
Statuses == {"healthy", "unhealthy"}

\* Who subscribes to the health events of the node: the manager and the RPC server.
HealthSubs == {"manager", "rpc"}

\* The handlers of the node subscribe to the events of the base layers.
Subs == Layers \cup HealthSubs

\* The default capacity of a subscription, and the capacity of both channels.
OutCapacity == 1
ChCapacity == 1

Init ==
  /\ submit = "idle" /\ batchEnd = 0 /\ syncTarget = 0 /\ retries = 0
  /\ unreported = FALSE
  /\ queue = [s \in Subs |-> <<>>] /\ open = [s \in Subs |-> TRUE]
  /\ status = [l \in Layers |-> "healthy"]
  /\ handler = [l \in Layers |-> "idle"]
  /\ report = [l \in Layers |-> "healthy"]
  /\ callback = <<>> /\ rpcStatus = "healthy"
  /\ loop = "waitForSync"
  /\ shouldProduceBlocksCh = <<>> /\ produceEmptyBlockCh = 0
  /\ height = 0 /\ errors = 0

-----------------------------------------------------------------------------
(* The pubsub server *)

HasRoom(s) == Len(queue[s]) < OutCapacity

\* An event goes to the subscriptions for it; one whose buffer is full is cancelled.
Publish(subs, event) ==
  /\ queue' = [s \in Subs |-> IF s \in subs /\ open[s] /\ HasRoom(s)
                              THEN Append(queue[s], event) ELSE queue[s]]
  /\ open' = [s \in Subs |-> open[s] /\ (s \in subs => HasRoom(s))]

\* SubscribeAndHandleEvents receives the next event.
Receive(s, event) ==
  /\ queue[s] # <<>>
  /\ event = Head(queue[s])
  /\ queue' = [queue EXCEPT ![s] = Tail(@)]
  /\ UNCHANGED open

\* SubscribeAndHandleEvents returns, whether or not an event is left.
Cancelled(s) ==
  /\ ~open[s] /\ queue[s] # <<>>
  /\ s \in Layers => handler[s] = "idle"
  /\ s = "manager" => callback = <<>>
  /\ queue' = [queue EXCEPT ![s] = <<>>]
  /\ UNCHANGED <<submitLoop, open, node, consumers, production, channels>>

-----------------------------------------------------------------------------
(* SubmitLoop *)

\* The batch ends with the last block, or before the one that makes it too large.
BatchEnds(last) == (syncTarget + 1)..last

\* There are blocks to submit, and will be until they are.  SubmitLoop produces
\* one more; an error of produceBlock is only logged.  Then the last block of the
\* batch is empty, or an empty block is requested.
SubmitTick ==
  /\ submit = "idle"
  /\ height # syncTarget
  /\ height' \in {height, height + 1} /\ height' <= MaxHeight
  /\ batchEnd' \in BatchEnds(height')
  /\ submit' \in {"request", "submitToDA"}
  /\ UNCHANGED <<syncTarget, retries, unreported, pubsub, node, consumers,
                 loop, errors, channels>>

RequestEmptyBlock ==
  /\ submit = "request"
  /\ produceEmptyBlockCh < ChCapacity
  /\ produceEmptyBlockCh' = produceEmptyBlockCh + 1
  /\ submit' = "submitToDA"
  /\ UNCHANGED <<batchEnd, syncTarget, retries, unreported, pubsub, node, consumers,
                 production, shouldProduceBlocksCh>>

\* A failed attempt is reported and repeated.
SubmitFails(stage, layer) ==
  /\ submit = stage
  /\ retries + errors < MaxFaults
  /\ retries' = retries + 1
  /\ Publish({layer}, "unhealthy")
  /\ UNCHANGED <<submit, batchEnd, syncTarget, unreported, node, consumers, production,
                 channels>>

SubmitToDA ==
  /\ submit = "submitToDA"
  /\ submit' = "postBatch"
  /\ Publish({"da"}, "healthy")
  /\ UNCHANGED <<batchEnd, syncTarget, retries, unreported, node, consumers, production,
                 channels>>

\* The settlement layer accepted the batch.
PostBatch ==
  /\ submit = "postBatch"
  /\ submit' = "idle"
  /\ syncTarget' = batchEnd
  /\ Publish({"settlement"}, "healthy")
  /\ unreported' = FALSE
  /\ UNCHANGED <<batchEnd, retries, node, consumers, production, channels>>

\* It accepted the batch, but a second event of it cancelled the subscription of
\* PostBatch, which then returns without a word.  (Counted as a failed submission.)
PostBatchCancelled ==
  /\ submit = "postBatch"
  /\ retries + errors < MaxFaults
  /\ retries' = retries + 1
  /\ submit' = "idle"
  /\ syncTarget' = batchEnd
  /\ unreported' = TRUE
  /\ UNCHANGED <<batchEnd, pubsub, node, consumers, production, channels>>

-----------------------------------------------------------------------------
(* The handlers of the node *)

\* healthStatusEventCallback stores the status of the layer.
SetHealth(l) ==
  /\ handler[l] = "idle"
  /\ \E event \in Statuses :
       /\ Receive(l, event)
       /\ status' = [status EXCEPT ![l] = event]
       /\ report' = [report EXCEPT ![l] = event]
  /\ handler' = [handler EXCEPT ![l] = "get"]
  /\ UNCHANGED <<submitLoop, consumers, production, channels>>

AllHealthy == \A l \in Layers : status[l] = "healthy"

\* Mutant of HealthStatusHandler: an unhealthy node is always published.
HealthStatusHandler_AlwaysPublishes(l) ==
  /\ handler[l] = "get"
  /\ report' = [report EXCEPT ![l] = IF AllHealthy THEN "healthy" ELSE "unhealthy"]
  /\ handler' = [handler EXCEPT ![l] = "publish"]
  /\ UNCHANGED <<submitLoop, pubsub, status, consumers, production, channels>>

\* healthStatusHandler reads the status of both.  It publishes that all is well,
\* or else the error of the event, if it has one.
HealthStatusHandler(l) ==
  /\ handler[l] = "get"
  /\ report' = [report EXCEPT ![l] = IF AllHealthy THEN "healthy" ELSE @]
  /\ handler' = [handler EXCEPT ![l] = IF AllHealthy \/ report[l] = "unhealthy"
                                       THEN "publish" ELSE "idle"]
  /\ UNCHANGED <<submitLoop, pubsub, status, consumers, production, channels>>

PublishHealth(l) ==
  /\ handler[l] = "publish"
  /\ Publish(HealthSubs, report[l])
  /\ handler' = [handler EXCEPT ![l] = "idle"]
  /\ report' = [report EXCEPT ![l] = "healthy"]
  /\ UNCHANGED <<submitLoop, status, consumers, production, channels>>

-----------------------------------------------------------------------------
(* The callbacks of the RPC server and of the manager *)

\* Server.healthStatusEventCallback
RPCHealthStatus ==
  /\ \E event \in Statuses : Receive("rpc", event) /\ rpcStatus' = event
  /\ UNCHANGED <<submitLoop, node, callback, production, channels>>

\* Manager.healthStatusEventCallback, and its send, which blocks.
ReceiveHealth ==
  /\ callback = <<>>
  /\ \E event \in Statuses : Receive("manager", event) /\ callback' = <<event>>
  /\ UNCHANGED <<submitLoop, node, rpcStatus, production, channels>>

\* Mutant of SendHealth: the value is dropped if the channel is full.
SendHealth_Drops ==
  /\ callback # <<>>
  /\ shouldProduceBlocksCh' = IF Len(shouldProduceBlocksCh) < ChCapacity
                              THEN shouldProduceBlocksCh \o callback
                              ELSE shouldProduceBlocksCh
  /\ callback' = <<>>
  /\ UNCHANGED <<submitLoop, pubsub, node, rpcStatus, production,
                 produceEmptyBlockCh>>

SendHealth ==
  /\ callback # <<>>
  /\ Len(shouldProduceBlocksCh) < ChCapacity
  /\ shouldProduceBlocksCh' = shouldProduceBlocksCh \o callback
  /\ callback' = <<>>
  /\ UNCHANGED <<submitLoop, pubsub, node, rpcStatus, production,
                 produceEmptyBlockCh>>

-----------------------------------------------------------------------------
(* ProduceBlockLoop *)

WaitForSync ==
  /\ loop = "waitForSync"
  /\ loop' = "select"
  /\ UNCHANGED <<submitLoop, pubsub, node, consumers, height, errors,
                 channels>>

\* Mutant of TakeEmptyBlockRequest: a request is left in the channel until all
\* blocks are submitted.
TakeEmptyBlockRequest_WhenSubmitted ==
  /\ loop = "select" /\ height = syncTarget
  /\ produceEmptyBlockCh > 0
  /\ produceEmptyBlockCh' = produceEmptyBlockCh - 1
  /\ UNCHANGED <<submitLoop, pubsub, node, consumers, production, shouldProduceBlocksCh>>

TakeEmptyBlockRequest ==
  /\ loop = "select"
  /\ produceEmptyBlockCh > 0
  /\ produceEmptyBlockCh' = produceEmptyBlockCh - 1
  /\ UNCHANGED <<submitLoop, pubsub, node, consumers, production, shouldProduceBlocksCh>>

\* The ticker runs produceBlock.  (One that skips an empty block changes nothing.)
Produced ==
  /\ loop = "select"
  /\ height < MaxHeight
  /\ height' = height + 1
  /\ UNCHANGED <<submitLoop, pubsub, node, consumers, loop, errors, channels>>

ProduceFails ==
  /\ loop = "select"
  /\ retries + errors < MaxFaults
  /\ errors' = errors + 1
  /\ loop' = "stop"
  /\ UNCHANGED <<submitLoop, pubsub, node, consumers, height, channels>>

\* The loop sends to the channel that it alone receives from.
StopProduction ==
  /\ loop = "stop"
  /\ Len(shouldProduceBlocksCh) < ChCapacity
  /\ shouldProduceBlocksCh' = Append(shouldProduceBlocksCh, "unhealthy")
  /\ loop' = "select"
  /\ UNCHANGED <<submitLoop, pubsub, node, consumers, height, errors,
                 produceEmptyBlockCh>>

\* A health status stops the loop or lets it go on.
TakeHealth ==
  /\ loop \in {"select", "stopped"}
  /\ shouldProduceBlocksCh # <<>>
  /\ loop' = IF Head(shouldProduceBlocksCh) = "healthy" THEN "select" ELSE "stopped"
  /\ shouldProduceBlocksCh' = Tail(shouldProduceBlocksCh)
  /\ UNCHANGED <<submitLoop, pubsub, node, consumers, height, errors,
                 produceEmptyBlockCh>>

-----------------------------------------------------------------------------
SubmitLoop ==
  SubmitTick \/ RequestEmptyBlock \/ SubmitToDA \/ PostBatch

Handler(l) == SetHealth(l) \/ HealthStatusHandler(l) \/ PublishHealth(l)

Callback == ReceiveHealth \/ SendHealth

ProduceBlockLoop == WaitForSync \/ Produced \/ StopProduction

Next ==
  \/ SubmitLoop
  \/ SubmitFails("submitToDA", "da")
  \/ SubmitFails("postBatch", "settlement")
  \/ PostBatchCancelled
  \/ \E l \in Layers : Handler(l)
  \/ \E s \in Subs : Cancelled(s)
  \/ RPCHealthStatus
  \/ Callback
  \/ ProduceBlockLoop
  \/ TakeEmptyBlockRequest
  \/ ProduceFails
  \/ TakeHealth

Spec == Init /\ [][Next]_vars

\* Every goroutine is scheduled, and select chooses at random among the cases
\* that are ready, so none is passed over for ever.
Fairness ==
  /\ WF_vars(SubmitLoop)
  /\ \A l \in Layers : WF_vars(Handler(l))
  /\ WF_vars(Callback)
  /\ WF_vars(ProduceBlockLoop)
  /\ SF_vars(TakeEmptyBlockRequest)
  /\ SF_vars(TakeHealth)

FairSpec == Spec /\ Fairness

-----------------------------------------------------------------------------
(* Properties *)

\* What a subscription or a channel holds.
Buffers == {<<>>, <<"healthy">>, <<"unhealthy">>}

\* The variables have the types of the Go declarations; no channel and no
\* subscription holds more than its capacity.
TypeOK ==
  /\ submit \in {"idle", "request", "submitToDA", "postBatch"}
  /\ batchEnd \in 0..MaxHeight /\ syncTarget \in 0..MaxHeight /\ height \in 0..MaxHeight
  /\ retries \in 0..MaxFaults /\ errors \in 0..MaxFaults
  /\ unreported \in BOOLEAN
  /\ queue \in [Subs -> Buffers]
  /\ open \in [Subs -> BOOLEAN]
  /\ status \in [Layers -> Statuses] /\ report \in [Layers -> Statuses]
  /\ handler \in [Layers -> {"idle", "get", "publish"}]
  /\ callback \in Buffers
  /\ rpcStatus \in Statuses
  /\ loop \in {"waitForSync", "select", "stop", "stopped"}
  /\ shouldProduceBlocksCh \in Buffers
  /\ produceEmptyBlockCh \in 0..ChCapacity

\* A health event on its way to the loop was not delivered: a subscription on the way
\* was cancelled, or PostBatch returned without a word.
EventMissed == unreported \/ \E s \in Layers \cup {"manager"} : ~open[s]

\* No handler is at work, and no health status is under way to the loop.
HandlersIdle == \A l \in Layers : handler[l] = "idle"
LoopIsQuiet == queue["manager"] = <<>> /\ callback = <<>> /\ shouldProduceBlocksCh = <<>>

\* When both layers are healthy and the events are handled, the RPC server says
\* so, and ProduceBlockLoop is not held back unless produceBlock itself failed:
\* no order in which the two handlers of the node store the status, read it and
\* publish it leaves an unhealthy event last (node/node.go:398-415).  Each of the
\* two learns it as long as its own subscription is not cancelled.
RecoveryIsSeen ==
  AllHealthy /\ HandlersIdle =>
    /\ queue["rpc"] = <<>> /\ open["rpc"] => rpcStatus = "healthy"
    /\ LoopIsQuiet /\ open["manager"] /\ errors = 0 => loop # "stopped"

\* ProduceBlockLoop goes on after the base layers stopped it, and after an error
\* of produceBlock once a batch is submitted, unless a health event was not
\* delivered: a subscription on its way was cancelled for an event too many.  The
\* subscription of the RPC server is not on the way.
ProductionResumes ==
  (loop = "stopped" /\ (errors = 0 \/ submit \in {"submitToDA", "postBatch"}))
    ~> (loop = "select" \/ EventMissed)

\* SubmitLoop does not wait for ever to request an empty block, as long as
\* produceBlock does not fail and the health events are delivered
\* (block/submit.go:61).
RequestIsTaken ==
  (submit = "request") ~> (submit # "request" \/ errors > 0 \/ EventMissed)

\* What the comment on the channels of the manager says: they "are buffered to
\* avoid blocking on input/output operations" (block/manager.go:163).  The loop,
\* their only receiver, would wait for itself.
LoopDoesNotBlock ==
  loop = "stop" => Len(shouldProduceBlocksCh) < ChCapacity

-----------------------------------------------------------------------------
(* The inductive invariant of RecoveryIsSeen *)

\* A handler that knows of the current status has not published it yet.
Promised ==
  \E l \in Layers : handler[l] = "get" \/ (handler[l] = "publish" /\ report[l] = "healthy")

\* The last status on the way to the loop is unhealthy.
LoopHearsUnhealthy ==
  \/ queue["manager"] = <<"unhealthy">>
  \/ /\ queue["manager"] = <<>>
     /\ \/ callback = <<"unhealthy">>
        \/ /\ callback = <<>>
           /\ \/ shouldProduceBlocksCh = <<"unhealthy">>
              \/ shouldProduceBlocksCh = <<>> /\ loop = "stopped"

\* The last status on the way to the RPC server is unhealthy.
RPCHearsUnhealthy ==
  \/ queue["rpc"] = <<"unhealthy">>
  \/ queue["rpc"] = <<>> /\ rpcStatus = "unhealthy"

\* What a handler knows: nobody else stores the status of its layer.
HandlerKnows(l) ==
  /\ handler[l] = "get" => status[l] = report[l]
  /\ handler[l] = "publish" /\ report[l] = "unhealthy" => status[l] = "unhealthy"

\* Nobody hears last that the node is unhealthy when it is healthy, unless a
\* handler is going to correct it.
NothingForgotten ==
  AllHealthy /\ ~Promised =>
    /\ open["rpc"] => ~RPCHearsUnhealthy
    /\ open["manager"] /\ errors = 0 => ~LoopHearsUnhealthy

IInv ==
  /\ TypeOK
  /\ \A l \in Layers : HandlerKnows(l)
  /\ NothingForgotten
  /\ loop = "stop" => errors > 0

=============================================================================
