-------------------------- MODULE ProduceLoopProofs --------------------------
(* Proofs about ProduceLoop: the recovery of the base layers is seen. *)
EXTENDS ProduceLoop, TLAPS

LEMMA InitIInv == Init => IInv
<1> SUFFICES ASSUME Init PROVE IInv
  BY Zenon
<1>1. TypeOK
  <2>1. 0 \in 0..MaxHeight /\ 0 \in 0..MaxFaults /\ 0 \in 0..ChCapacity
    BY ProduceAssumption DEF ChCapacity
  <2> QED
    BY <2>1, Zenon DEF Init, TypeOK, Statuses, Buffers
<1>2. "rpc" \in Subs /\ "manager" \in Subs /\ <<>> # <<"unhealthy">>
  BY Zenon DEF Subs, HealthSubs
<1>3. \A l \in Layers : HandlerKnows(l)
  BY Zenon DEF Init, HandlerKnows
<1>4. ~RPCHearsUnhealthy /\ ~LoopHearsUnhealthy
  BY <1>2, Zenon DEF Init, RPCHearsUnhealthy, LoopHearsUnhealthy
<1> QED
  BY <1>1, <1>3, <1>4, Zenon DEF Init, IInv, NothingForgotten

LEMMA OneEvent ==
  ASSUME NEW event \in Statuses
  PROVE  /\ Append(<<>>, event) = <<event>>
         /\ Head(<<event>>) = event
         /\ Tail(<<event>>) = <<>>
  OBVIOUS

\* An event that is published to subscriptions is the last one at those of them that
\* stay open; the other subscriptions do not change.
LEMMA Published ==
  ASSUME NEW subs \in SUBSET Subs, NEW event \in Statuses,
         queue \in [Subs -> Buffers], open \in [Subs -> BOOLEAN],
         Publish(subs, event)
  PROVE  /\ queue' \in [Subs -> Buffers] /\ open' \in [Subs -> BOOLEAN]
         /\ \A t \in Subs \ subs : queue'[t] = queue[t] /\ open'[t] = open[t]
         /\ \A s \in subs : open'[s] => queue'[s] = <<event>>
<1>1. ASSUME NEW s \in Subs PROVE HasRoom(s) => Append(queue[s], event) = <<event>>
  <2>1. queue[s] \in Buffers
    BY Zenon
  <2>2. HasRoom(s) => queue[s] = <<>>
    BY <2>1 DEF HasRoom, OutCapacity, Buffers
  <2> QED
    BY <2>2, OneEvent, Zenon
<1>2. <<event>> \in Buffers
  BY Zenon DEF Buffers, Statuses
<1>3. queue' \in [Subs -> Buffers] /\ \A t \in Subs \ subs : queue'[t] = queue[t]
  BY <1>1, <1>2, Zenon DEF Publish
<1>4. open' \in [Subs -> BOOLEAN] /\ \A t \in Subs \ subs : open'[t] = open[t]
  BY Zenon DEF Publish, HasRoom
<1>5. ASSUME NEW s \in subs, open'[s] PROVE queue'[s] = <<event>>
  BY <1>1, <1>5, Zenon DEF Publish
<1> QED
  BY <1>3, <1>4, <1>5, Zenon

\* An event that is received was alone in its buffer.
LEMMA Received ==
  ASSUME NEW s \in Subs, NEW event \in Statuses,
         queue \in [Subs -> Buffers], Receive(s, event)
  PROVE  /\ queue' \in [Subs -> Buffers] /\ UNCHANGED open
         /\ queue[s] = <<event>> /\ queue'[s] = <<>>
         /\ \A t \in Subs \ {s} : queue'[t] = queue[t]
<1>1. queue[s] \in Buffers
  BY Zenon
<1>2. PICK e \in Statuses : queue[s] = <<e>>
  BY <1>1, Zenon DEF Receive, Buffers, Statuses
<1>3. queue[s] = <<event>> /\ Tail(queue[s]) = <<>>
  BY <1>2, OneEvent, Zenon DEF Receive
<1> QED
  BY <1>3, Zenon DEF Receive, Buffers
-----------------------------------------------------------------------------
(* Steps that leave the health events alone *)

\* A step that moves no event and neither stops nor resumes the loop.
LEMMA Frame ==
  ASSUME IInv, TypeOK',
         UNCHANGED <<queue, open, status, handler, report, callback, rpcStatus,
                     shouldProduceBlocksCh>>,
         loop' = "stopped" => loop = "stopped",
         errors' = 0 => errors = 0,
         loop' = "stop" => errors' > 0
  PROVE  IInv'
<1>1. \A l \in Layers : HandlerKnows(l)'
  BY Zenon DEF IInv, HandlerKnows
<1>2. (AllHealthy' <=> AllHealthy) /\ (Promised' <=> Promised)
  BY Zenon DEF AllHealthy, Promised
<1>3. NothingForgotten'
  BY <1>2, Zenon DEF IInv, NothingForgotten, LoopHearsUnhealthy, RPCHearsUnhealthy
<1> QED
  BY <1>1, <1>3, Zenon DEF IInv

LEMMA SubmitLoopStep ==
  ASSUME IInv, SubmitTick \/ RequestEmptyBlock \/ PostBatchCancelled
  PROVE  IInv'
<1>1. UNCHANGED <<queue, open, status, handler, report, callback, rpcStatus,
                  shouldProduceBlocksCh, loop, errors>>
  BY Zenon DEF SubmitTick, RequestEmptyBlock, PostBatchCancelled, pubsub, node,
     consumers, production, channels
<1>2. TypeOK'
  <2>1. /\ submit' \in {"idle", "request", "submitToDA", "postBatch"}
        /\ unreported' \in BOOLEAN
    BY Zenon DEF IInv, TypeOK, SubmitTick, RequestEmptyBlock, PostBatchCancelled
  <2>2. /\ batchEnd' \in 0..MaxHeight /\ syncTarget' \in 0..MaxHeight
        /\ height' \in 0..MaxHeight /\ retries' \in 0..MaxFaults
        /\ produceEmptyBlockCh' \in 0..ChCapacity
    BY ProduceAssumption
    DEF IInv, TypeOK, SubmitTick, RequestEmptyBlock, PostBatchCancelled,
        production, channels, ChCapacity, BatchEnds
  <2> QED
    BY <1>1, <2>1, <2>2, Zenon DEF IInv, TypeOK
<1> QED
  BY <1>1, <1>2, Frame, Zenon DEF IInv

LEMMA ProduceBlockLoopStep ==
  ASSUME IInv,
         WaitForSync \/ TakeEmptyBlockRequest \/ Produced \/ ProduceFails
  PROVE  IInv'
<1>1. /\ UNCHANGED <<submit, batchEnd, syncTarget, retries, unreported, queue, open, status,
                     handler, report, callback, rpcStatus, shouldProduceBlocksCh>>
      /\ loop' \in {loop, "select", "stop"}
      /\ errors' \in {errors, errors + 1}
      /\ loop' = "stop" => errors' = errors + 1 \/ (loop = "stop" /\ errors' = errors)
  BY Zenon
  DEF WaitForSync, TakeEmptyBlockRequest, Produced, ProduceFails,
      submitLoop, pubsub, node, consumers, production, channels
<1>2. TypeOK'
  <2>1. /\ height' \in 0..MaxHeight /\ errors' \in 0..MaxFaults
        /\ produceEmptyBlockCh' \in 0..ChCapacity
    BY ProduceAssumption
    DEF IInv, TypeOK, WaitForSync, TakeEmptyBlockRequest, Produced, ProduceFails,
        production, channels, ChCapacity
  <2> QED
    BY <1>1, <2>1, Zenon DEF IInv, TypeOK
<1>3. errors \in Nat
  BY ProduceAssumption DEF IInv, TypeOK
<1> QED
  BY <1>1, <1>2, <1>3, Frame DEF IInv

-----------------------------------------------------------------------------
(* Steps that move health events *)

\* SubmitLoop reports to the handler of a layer.
LEMMA ReportStep ==
  ASSUME IInv, NEW layer \in Layers, NEW event \in Statuses, Publish({layer}, event),
         UNCHANGED <<node, consumers, production, channels, batchEnd>>,
         submit' \in {"idle", "submitToDA", "postBatch"},
         syncTarget' \in {syncTarget, batchEnd}, retries' \in 0..MaxFaults,
         unreported' \in BOOLEAN
  PROVE  IInv'
<1> USE DEF node, consumers, production, channels
<1>1. {layer} \in SUBSET Subs /\ HealthSubs \subseteq Subs \ {layer}
  BY Zenon DEF Subs, Layers, HealthSubs
<1>2. /\ queue' \in [Subs -> Buffers] /\ open' \in [Subs -> BOOLEAN]
      /\ \A s \in HealthSubs : queue'[s] = queue[s] /\ open'[s] = open[s]
  BY <1>1, Published, Zenon DEF IInv, TypeOK
<1>3. TypeOK'
  BY <1>2, Zenon DEF IInv, TypeOK
<1>4. \A l \in Layers : HandlerKnows(l)'
  BY Zenon DEF IInv, HandlerKnows
<1>5. (AllHealthy' <=> AllHealthy) /\ (Promised' <=> Promised)
  BY Zenon DEF AllHealthy, Promised
<1>6. NothingForgotten'
  <2>1. /\ queue'["manager"] = queue["manager"] /\ open'["manager"] = open["manager"]
        /\ queue'["rpc"] = queue["rpc"] /\ open'["rpc"] = open["rpc"]
    BY <1>2, Zenon DEF HealthSubs
  <2> QED
    BY <1>5, <2>1, Zenon
    DEF IInv, NothingForgotten, LoopHearsUnhealthy, RPCHearsUnhealthy
<1> QED
  BY <1>3, <1>4, <1>6, Zenon DEF IInv

LEMMA SubmissionStep ==
  ASSUME IInv,
         \/ SubmitFails("submitToDA", "da") \/ SubmitFails("postBatch", "settlement")
         \/ SubmitToDA \/ PostBatch
  PROVE  IInv'
<1>1. "da" \in Layers /\ "settlement" \in Layers
      /\ "healthy" \in Statuses /\ "unhealthy" \in Statuses
  BY Zenon DEF Layers, Statuses
<1>2. retries' \in 0..MaxFaults
  BY ProduceAssumption DEF IInv, TypeOK, SubmitFails, SubmitToDA, PostBatch
<1> unreported' \in BOOLEAN
  BY Zenon DEF IInv, TypeOK, SubmitFails, SubmitToDA, PostBatch
<1>3. CASE SubmitFails("submitToDA", "da")
  BY <1>1, <1>2, <1>3, ReportStep, Zenon DEF SubmitFails
<1>4. CASE SubmitFails("postBatch", "settlement")
  BY <1>1, <1>2, <1>4, ReportStep, Zenon DEF SubmitFails
<1>5. CASE SubmitToDA
  BY <1>1, <1>2, <1>5, ReportStep, Zenon DEF SubmitToDA
<1>6. CASE PostBatch
  BY <1>1, <1>2, <1>6, ReportStep, Zenon DEF PostBatch
<1> QED
  BY <1>3, <1>4, <1>5, <1>6, Zenon

\* The status of a layer changes: its handler is about to read both.
LEMMA SetHealthStep ==
  ASSUME IInv, NEW l \in Layers, SetHealth(l)
  PROVE  IInv'
<1> USE DEF submitLoop, consumers, production, channels
<1>1. PICK event \in Statuses :
        /\ Receive(l, event)
        /\ status' = [status EXCEPT ![l] = event]
        /\ report' = [report EXCEPT ![l] = event]
  BY Zenon DEF SetHealth
<1>2. handler' = [handler EXCEPT ![l] = "get"]
  BY Zenon DEF SetHealth
<1>3. l \in Subs
  BY Zenon DEF Subs
<1>4. queue' \in [Subs -> Buffers] /\ UNCHANGED open
  BY <1>1, <1>3, Received, Zenon DEF IInv, TypeOK
<1>5. TypeOK'
  BY <1>1, <1>2, <1>4, Zenon DEF IInv, TypeOK, SetHealth
<1>6. \A k \in Layers : HandlerKnows(k)'
  BY <1>1, <1>2, Zenon DEF IInv, TypeOK, HandlerKnows
<1>7. Promised'
  BY <1>2, Zenon DEF IInv, TypeOK, Promised
<1>8. loop' = "stop" => errors' > 0
  BY Zenon DEF IInv, SetHealth
<1> QED
  BY <1>5, <1>6, <1>7, <1>8, Zenon DEF IInv, NothingForgotten

\* A handler reads the status of both layers.
LEMMA HealthStatusHandlerStep ==
  ASSUME IInv, NEW l \in Layers, HealthStatusHandler(l)
  PROVE  IInv'
<1> USE DEF submitLoop, pubsub, consumers, production, channels
<1>1. /\ report' = [report EXCEPT ![l] = IF AllHealthy THEN "healthy" ELSE @]
      /\ handler' = [handler EXCEPT ![l] = IF AllHealthy \/ report[l] = "unhealthy"
                                           THEN "publish" ELSE "idle"]
      /\ handler[l] = "get" /\ UNCHANGED status
  BY Zenon DEF HealthStatusHandler
<1>2. report' \in [Layers -> Statuses]
  BY <1>1, Zenon DEF IInv, TypeOK, Statuses
<1>3. TypeOK'
  BY <1>1, <1>2, Zenon DEF IInv, TypeOK, HealthStatusHandler
<1>4. \A k \in Layers : HandlerKnows(k)'
  <2>1. HandlerKnows(l)'
    BY <1>1, <1>2, Zenon DEF IInv, TypeOK, HandlerKnows
  <2>2. ASSUME NEW k \in Layers \ {l} PROVE HandlerKnows(k)'
    BY <1>1, Zenon DEF IInv, TypeOK, HandlerKnows
  <2> QED
    BY <2>1, <2>2, Zenon
<1>5. AllHealthy' => Promised'
  BY <1>1, <1>2, Zenon DEF IInv, TypeOK, AllHealthy, Promised
<1>6. loop' = "stop" => errors' > 0
  BY Zenon DEF IInv, HealthStatusHandler
<1> QED
  BY <1>3, <1>4, <1>5, <1>6, Zenon DEF IInv, NothingForgotten

\* A handler publishes what it read: a report of an unhealthy node means that
\* the handler's own layer is unhealthy still.
LEMMA PublishHealthStep ==
  ASSUME IInv, NEW l \in Layers, PublishHealth(l)
  PROVE  IInv'
<1> USE DEF submitLoop, consumers, production, channels
<1>1. HealthSubs \in SUBSET Subs /\ report[l] \in Statuses
  BY Zenon DEF IInv, TypeOK, Subs
<1>2. /\ queue' \in [Subs -> Buffers] /\ open' \in [Subs -> BOOLEAN]
      /\ \A s \in HealthSubs : open'[s] => queue'[s] = <<report[l]>>
  BY <1>1, Published, Zenon DEF IInv, TypeOK, PublishHealth
<1>3. TypeOK'
  BY <1>1, <1>2, Zenon DEF IInv, TypeOK, PublishHealth, Statuses
<1>4. \A k \in Layers : HandlerKnows(k)'
  BY Zenon DEF IInv, TypeOK, HandlerKnows, PublishHealth
<1>5. AllHealthy' => report[l] = "healthy"
  BY <1>1, Zenon DEF IInv, HandlerKnows, AllHealthy, PublishHealth, Statuses
<1>6. report[l] = "healthy" => /\ open'["manager"] => ~LoopHearsUnhealthy'
                               /\ open'["rpc"] => ~RPCHearsUnhealthy'
  <2>1. <<"healthy">> # <<"unhealthy">> /\ <<"healthy">> # <<>>
    BY Zenon
  <2>2. "manager" \in HealthSubs /\ "rpc" \in HealthSubs
    BY Zenon DEF HealthSubs
  <2> QED
    BY <1>2, <2>1, <2>2, Zenon DEF LoopHearsUnhealthy, RPCHearsUnhealthy
<1>7. NothingForgotten'
  BY <1>5, <1>6, Zenon DEF NothingForgotten
<1>8. loop' = "stop" => errors' > 0
  BY Zenon DEF IInv, PublishHealth
<1> QED
  BY <1>3, <1>4, <1>7, <1>8, Zenon DEF IInv

\* What a cancelled subscription held does not count.
LEMMA CancelledStep ==
  ASSUME IInv, NEW s \in Subs, Cancelled(s)
  PROVE  IInv'
<1> USE DEF submitLoop, node, consumers, production, channels
<1>1. /\ queue' = [queue EXCEPT ![s] = <<>>] /\ UNCHANGED open /\ ~open[s]
      /\ "manager" \in Subs /\ "rpc" \in Subs
  BY Zenon DEF Cancelled, Subs, HealthSubs
<1>2. TypeOK'
  BY <1>1 DEF IInv, TypeOK, Cancelled, Buffers
<1>3. /\ open["manager"] => queue'["manager"] = queue["manager"]
      /\ open["rpc"] => queue'["rpc"] = queue["rpc"]
  BY <1>1, Zenon DEF IInv, TypeOK
<1>4. \A l \in Layers : HandlerKnows(l)'
  BY Zenon DEF IInv, HandlerKnows, Cancelled
<1>5. (AllHealthy' <=> AllHealthy) /\ (Promised' <=> Promised)
  BY Zenon DEF AllHealthy, Promised, Cancelled
<1>6. NothingForgotten'
  BY <1>1, <1>3, <1>5, Zenon
  DEF IInv, NothingForgotten, LoopHearsUnhealthy, RPCHearsUnhealthy, Cancelled
<1>7. loop' = "stop" => errors' > 0
  BY Zenon DEF IInv, Cancelled
<1> QED
  BY <1>2, <1>4, <1>6, <1>7, Zenon DEF IInv

\* The RPC server stores the event that was under way to it.
LEMMA RPCStep ==
  ASSUME IInv, RPCHealthStatus
  PROVE  IInv'
<1> USE DEF submitLoop, node, production, channels
<1>1. PICK event \in Statuses : Receive("rpc", event) /\ rpcStatus' = event
  BY Zenon DEF RPCHealthStatus
<1>2. "rpc" \in Subs /\ "manager" \in Subs \ {"rpc"}
  BY Zenon DEF Subs, HealthSubs
<1>3. /\ queue' \in [Subs -> Buffers] /\ UNCHANGED open
      /\ queue["rpc"] = <<event>> /\ queue'["rpc"] = <<>>
      /\ queue'["manager"] = queue["manager"]
  BY <1>1, <1>2, Received, Zenon DEF IInv, TypeOK
<1>4. TypeOK'
  BY <1>1, <1>3, Zenon DEF IInv, TypeOK, RPCHealthStatus
<1>5. \A l \in Layers : HandlerKnows(l)'
  BY Zenon DEF IInv, HandlerKnows, RPCHealthStatus
<1>6. (AllHealthy' <=> AllHealthy) /\ (Promised' <=> Promised)
  BY Zenon DEF AllHealthy, Promised, RPCHealthStatus
<1>7. <<>> # <<"unhealthy">>
  BY Zenon
<1>8. RPCHearsUnhealthy' => RPCHearsUnhealthy
  BY <1>1, <1>3, <1>7, Zenon DEF RPCHearsUnhealthy
<1>9. LoopHearsUnhealthy' => LoopHearsUnhealthy
  BY <1>3, Zenon DEF LoopHearsUnhealthy, RPCHealthStatus
<1>10. NothingForgotten' /\ (loop' = "stop" => errors' > 0)
  BY <1>3, <1>6, <1>8, <1>9, Zenon DEF IInv, NothingForgotten, RPCHealthStatus
<1> QED
  BY <1>4, <1>5, <1>10, Zenon DEF IInv

\* The callback of the manager passes events on, one at a time.
LEMMA CallbackStep ==
  ASSUME IInv, ReceiveHealth \/ SendHealth
  PROVE  IInv'
<1> USE DEF submitLoop, pubsub, node, production, channels
<1>1. UNCHANGED <<submit, batchEnd, syncTarget, retries, unreported, status, handler, report,
                  rpcStatus, loop, height, errors, open, produceEmptyBlockCh>>
  BY Zenon DEF ReceiveHealth, SendHealth, Receive
<1>2. \A l \in Layers : HandlerKnows(l)'
  BY <1>1, Zenon DEF IInv, HandlerKnows
<1>3. (AllHealthy' <=> AllHealthy) /\ (Promised' <=> Promised)
  BY <1>1, Zenon DEF AllHealthy, Promised
<1>4. SUFFICES /\ queue' \in [Subs -> Buffers] /\ callback' \in Buffers
               /\ shouldProduceBlocksCh' \in Buffers
               /\ queue'["rpc"] = queue["rpc"]
               /\ LoopHearsUnhealthy' => LoopHearsUnhealthy
  BY <1>1, <1>2, <1>3, Zenon DEF IInv, TypeOK, NothingForgotten, RPCHearsUnhealthy
<1>5. "manager" \in Subs /\ "rpc" \in Subs \ {"manager"}
  BY Zenon DEF Subs, HealthSubs
<1>6. CASE ReceiveHealth
  <2>1. PICK event \in Statuses : Receive("manager", event) /\ callback' = <<event>>
    BY <1>6, Zenon DEF ReceiveHealth
  <2>2. /\ queue' \in [Subs -> Buffers] /\ queue["manager"] = <<event>>
        /\ queue'["manager"] = <<>> /\ queue'["rpc"] = queue["rpc"]
    BY <1>5, <2>1, Received, Zenon DEF IInv, TypeOK
  <2>3. UNCHANGED shouldProduceBlocksCh
    BY <1>6, Zenon DEF ReceiveHealth
  <2>4. <<event>> # <<>> /\ <<event>> \in Buffers
    BY Zenon DEF Buffers, Statuses
  <2>5. LoopHearsUnhealthy' => LoopHearsUnhealthy
    BY <2>1, <2>2, <2>4 DEF LoopHearsUnhealthy
  <2> QED
    BY <2>1, <2>2, <2>3, <2>4, <2>5, Zenon DEF IInv, TypeOK
<1>7. CASE SendHealth
  <2>1. UNCHANGED queue /\ callback' = <<>> /\ callback # <<>>
    BY <1>7, Zenon DEF SendHealth
  <2>2. shouldProduceBlocksCh = <<>>
    BY <1>7 DEF SendHealth, IInv, TypeOK, Buffers, ChCapacity
  <2>3. shouldProduceBlocksCh' = callback
    BY <1>7, <2>2 DEF SendHealth, IInv, TypeOK, Buffers
  <2>4. LoopHearsUnhealthy' => LoopHearsUnhealthy
    BY <2>1, <2>3, Zenon DEF LoopHearsUnhealthy
  <2>5. <<>> \in Buffers
    BY Zenon DEF Buffers
  <2> QED
    BY <2>1, <2>3, <2>4, <2>5, Zenon DEF IInv, TypeOK
<1> QED
  BY <1>6, <1>7, Zenon

\* The loop stops itself after an error only, and otherwise does what it hears.
LEMMA StopStep ==
  ASSUME IInv, StopProduction \/ TakeHealth
  PROVE  IInv'
<1> USE DEF submitLoop, pubsub, node, consumers
<1>1. UNCHANGED <<submit, batchEnd, syncTarget, retries, unreported, queue, open, status,
                  handler, report, callback, rpcStatus, height, errors, produceEmptyBlockCh>>
  BY Zenon DEF StopProduction, TakeHealth
<1>2. \A l \in Layers : HandlerKnows(l)'
  BY <1>1, Zenon DEF IInv, HandlerKnows
<1>3. (AllHealthy' <=> AllHealthy) /\ (Promised' <=> Promised)
  BY <1>1, Zenon DEF AllHealthy, Promised
<1>5. SUFFICES /\ loop' \in {"select", "stopped"} /\ shouldProduceBlocksCh' \in Buffers
               /\ errors = 0 /\ LoopHearsUnhealthy' => LoopHearsUnhealthy
  BY <1>1, <1>2, <1>3, Zenon DEF IInv, TypeOK, NothingForgotten, RPCHearsUnhealthy
<1>6. CASE StopProduction
  <2>1. errors # 0 /\ loop' = "select"
    BY <1>6, ProduceAssumption DEF IInv, TypeOK, StopProduction
  <2>2. shouldProduceBlocksCh = <<>> /\ "unhealthy" \in Statuses
    BY <1>6 DEF StopProduction, IInv, TypeOK, Buffers, ChCapacity, Statuses
  <2>3. shouldProduceBlocksCh' = <<"unhealthy">>
    BY <1>6, <2>2, OneEvent, Zenon DEF StopProduction
  <2> QED
    BY <2>1, <2>3, Zenon DEF Buffers
<1>7. CASE TakeHealth
  <2>1. PICK event \in Statuses : shouldProduceBlocksCh = <<event>>
    BY <1>7, Zenon DEF TakeHealth, IInv, TypeOK, Buffers, Statuses
  <2>2. /\ shouldProduceBlocksCh' = <<>>
        /\ loop' = IF event = "healthy" THEN "select" ELSE "stopped"
    BY <1>7, <2>1, OneEvent, Zenon DEF TakeHealth
  <2>3. <<>> # <<"unhealthy">> /\ <<>> \in Buffers
    BY Zenon DEF Buffers
  <2>4. LoopHearsUnhealthy' => LoopHearsUnhealthy
    BY <1>1, <2>1, <2>2, <2>3, Zenon DEF LoopHearsUnhealthy, Statuses
  <2> QED
    BY <2>2, <2>3, <2>4, Zenon
<1> QED
  BY <1>6, <1>7, Zenon

-----------------------------------------------------------------------------
(* The theorems *)

LEMMA NextIInv == IInv /\ [Next]_vars => IInv'
<1> SUFFICES ASSUME IInv, [Next]_vars PROVE IInv'
  BY Zenon
<1>1. CASE SubmitLoop
  BY <1>1, SubmitLoopStep, SubmissionStep, Zenon DEF SubmitLoop
<1>2. CASE \/ SubmitFails("submitToDA", "da") \/ SubmitFails("postBatch", "settlement")
           \/ PostBatchCancelled
  BY <1>2, SubmissionStep, SubmitLoopStep, Zenon
<1>3. CASE \E l \in Layers : Handler(l)
  BY <1>3, SetHealthStep, HealthStatusHandlerStep, PublishHealthStep, Zenon DEF Handler
<1>4. CASE \E s \in Subs : Cancelled(s)
  BY <1>4, CancelledStep, Zenon
<1>5. CASE Callback \/ RPCHealthStatus
  BY <1>5, CallbackStep, RPCStep, Zenon DEF Callback
<1>6. CASE ProduceBlockLoop \/ TakeEmptyBlockRequest \/ ProduceFails
  BY <1>6, ProduceBlockLoopStep, StopStep, Zenon DEF ProduceBlockLoop
<1>7. CASE TakeHealth
  BY <1>7, StopStep, Zenon
<1>8. CASE UNCHANGED vars
  <2>1. UNCHANGED <<submit, batchEnd, syncTarget, retries, unreported, queue, open, status,
                    handler, report, callback, rpcStatus, shouldProduceBlocksCh, loop,
                    height, errors, produceEmptyBlockCh>>
    BY <1>8, Zenon DEF vars, submitLoop, pubsub, node, consumers, production, channels
  <2>2. TypeOK'
    BY <2>1, Zenon DEF IInv, TypeOK
  <2> QED
    BY <2>1, <2>2, Frame, Zenon DEF IInv
<1> QED
  BY <1>1, <1>2, <1>3, <1>4, <1>5, <1>6, <1>7, <1>8, Zenon DEF Next

\* The invariant from which the others follow: between them, the two handlers of
\* the node forget no recovery, whatever the number of blocks, of failed
\* submissions and of errors.
THEOREM Invariance == Spec => []IInv
<1>1. Init => IInv
  BY InitIInv, Zenon
<1>2. IInv /\ [Next]_vars => IInv'
  BY NextIInv, Zenon
<1> QED
  BY <1>1, <1>2, PTL DEF Spec

LEMMA IInvRecovery == IInv => RecoveryIsSeen
<1> SUFFICES ASSUME IInv, AllHealthy, HandlersIdle
             PROVE  /\ queue["rpc"] = <<>> /\ open["rpc"] => rpcStatus = "healthy"
                    /\ LoopIsQuiet /\ open["manager"] /\ errors = 0 => loop # "stopped"
  BY Zenon DEF RecoveryIsSeen
<1>1. ~Promised
  BY Zenon DEF HandlersIdle, Promised
<1> QED
  BY <1>1, Zenon
  DEF IInv, TypeOK, Statuses, NothingForgotten, LoopIsQuiet, LoopHearsUnhealthy,
      RPCHearsUnhealthy

\* Once both base layers are healthy and their events are handled, the RPC server
\* says so and production is not held back, each of the two as long as its
\* subscription is not cancelled (node/node.go:398-415).
THEOREM Recovery == Spec => []RecoveryIsSeen
  BY Invariance, IInvRecovery, PTL

\* No channel and no subscription ever holds more than its capacity.
THEOREM TypeCorrect == Spec => []TypeOK
<1>1. IInv => TypeOK
  BY Zenon DEF IInv
<1> QED
  BY <1>1, Invariance, PTL

=============================================================================
