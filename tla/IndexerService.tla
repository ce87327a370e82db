--------------------------- MODULE IndexerService ---------------------------
(***************************************************************************)
(* The indexes of executed transactions and blocks and the service that    *)
(* writes them: the indexer service (state/txindex), what the transaction  *)
(* index (state/txindex/kv) and the block index (state/indexer/block/kv)   *)
(* put into the key-value store for one block.                             *)
(*                                                                         *)
(* The executor publishes a header and then the transactions of each block *)
(* on the event bus; the service, a goroutine of its own, takes one header *)
(* and as many transactions as the header counts, and writes the block and *)
(* then the batch, each in one commit of the key-value store.  The service *)
(* keeps nothing on disk: a crash forgets what was published and not yet   *)
(* written, and no block is published twice.                               *)
(*                                                                         *)
(* Names, values and operands are strings; Num gives the ones that         *)
(* ParseInt accepts and FormatInt writes.                                  *)
(***************************************************************************)
EXTENDS Integers, Sequences, Functions

CONSTANTS
  Chain,            \* the blocks to be published: sequence of [txs, begin, end]
  Num,              \* the numbers that occur, by their decimal string
  HeaderCap,        \* buffer of the header subscription (10 in the code)
  TxCap,            \* buffer of the transaction subscription (10000)
  MaxIndexFaults    \* bound: crashes and failed commits of a behaviour

\* The chain is a sequence of blocks, each with a sequence of transactions.
ASSUME ChainAssumption ==
  Len(Chain) \in Nat /\ \A h \in 1..Len(Chain) : Len(Chain[h].txs) \in Nat

VARIABLES
  bus,              \* [height, sent]: the last header published, its transactions published
  headers, txs,     \* the buffers of the two subscriptions
  open,             \* the subscriptions that are not cancelled: subset of {"header", "tx"}
  service,          \* [pc, height, left, batch]: the goroutine of the service
  txIndex,          \* [rows, results]: what the transaction index stores
  blockIndex,       \* the rows of the block index
  lost,             \* ghost: the heights a cancelled subscription, a crash or a failed
                    \*   commit kept from an index
  indexFaults       \* how many of those happened

indexVars == <<bus, headers, txs, open, service, txIndex, blockIndex, lost, indexFaults>>

TxHeightKey == <<"tx", "height">>
BlockHeightKey == <<"block", "height">>

Dec(n) == CHOOSE s \in DOMAIN Num : Num[s] = n

-----------------------------------------------------------------------------
(* What one block puts into the indexes. *)

\* The attributes of a sequence of events that are indexed.
IndexedAttrs(events) == {e \in Range(events) : e.type # "" /\ e.key # "" /\ e.index}

CompositeKey(e) == <<e.type, e.key>>

TxResult(h, i) == [hash |-> Chain[h].txs[i].hash, height |-> h, index |-> i]

keyForEvent(e, r) == <<CompositeKey(e), e.value, Dec(r.height), r.index>>

keyForHeight(r) == <<TxHeightKey, Dec(r.height), Dec(r.height), r.index>>

\* The rows that AddBatch sets for result r.
TxRows(r) ==
  {[key |-> k, hash |-> r.hash] :
     k \in {keyForEvent(e, r) : e \in IndexedAttrs(Chain[r.height].txs[r.index].events)}
             \cup {keyForHeight(r)}}

\* An event that takes the reserved key fails the whole block.
ReservedKey(h) ==
  \E e \in Range(Chain[h].begin \o Chain[h].end) :
    e.type # "" /\ e.key # "" /\ CompositeKey(e) = BlockHeightKey

eventKey(e, typ, h) == <<CompositeKey(e), e.value, h, typ>>

heightKey(h) == <<BlockHeightKey, h>>

BlockRows(h) ==
  {[key |-> k, height |-> h] :
     k \in {heightKey(h)}
             \cup {eventKey(e, "begin_block", h) : e \in IndexedAttrs(Chain[h].begin)}
             \cup {eventKey(e, "end_block", h) : e \in IndexedAttrs(Chain[h].end)}}

-----------------------------------------------------------------------------
(* The service. *)

AtHeader == [pc |-> "header", height |-> 0, left |-> 0, batch |-> {}]

IndexInit ==
  /\ bus = [height |-> 0, sent |-> 0]
  /\ headers = <<>> /\ txs = <<>>
  /\ open = {"header", "tx"}
  /\ service = AtHeader
  /\ txIndex = [rows |-> {}, results |-> {}]
  /\ blockIndex = {}
  /\ lost = {}
  /\ indexFaults = 0

NumTxs(h) == IF h = 0 THEN 0 ELSE Len(Chain[h].txs)

\* The bus cancels a subscription whose buffer is full; what it does not deliver is lost.
Delivers(sub, queue, cap) == sub \in open /\ Len(queue) < cap

Publish(sub, queue, cap, height) ==
  IF Delivers(sub, queue, cap)
  THEN UNCHANGED <<open, lost>>
  ELSE open' = open \ {sub} /\ lost' = lost \cup {height}

PublishHeader ==
  /\ bus.sent = NumTxs(bus.height)
  /\ bus.height < Len(Chain)
  /\ bus' = [height |-> bus.height + 1, sent |-> 0]
  /\ headers' = IF Delivers("header", headers, HeaderCap)
                 THEN Append(headers, bus.height + 1) ELSE headers
  /\ Publish("header", headers, HeaderCap, bus.height + 1)
  /\ UNCHANGED <<txs, service, txIndex, blockIndex, indexFaults>>

PublishTx ==
  /\ bus.sent < NumTxs(bus.height)
  /\ bus' = [bus EXCEPT !.sent = @ + 1]
  /\ txs' = IF Delivers("tx", txs, TxCap)
             THEN Append(txs, TxResult(bus.height, bus.sent + 1)) ELSE txs
  /\ Publish("tx", txs, TxCap, bus.height)
  /\ UNCHANGED <<headers, service, txIndex, blockIndex, indexFaults>>

\* After a header the service waits for left transactions.
Collect(s) == IF s.left = 0 THEN [s EXCEPT !.pc = "block"] ELSE s

\* Mutant: the header is taken with one transaction less than it counts.
TakeHeader_OneLess ==
  /\ service.pc = "header"
  /\ headers # <<>>
  /\ LET n == NumTxs(Head(headers))
     IN  service' = Collect([pc |-> "txs", height |-> Head(headers),
                             left |-> IF n = 0 THEN 0 ELSE n - 1, batch |-> {}])
  /\ headers' = Tail(headers)
  /\ UNCHANGED <<bus, txs, open, txIndex, blockIndex, lost, indexFaults>>

TakeHeader ==
  /\ service.pc = "header"
  /\ headers # <<>>
  /\ service' = Collect([pc |-> "txs", height |-> Head(headers),
                         left |-> NumTxs(Head(headers)), batch |-> {}])
  /\ headers' = Tail(headers)
  /\ UNCHANGED <<bus, txs, open, txIndex, blockIndex, lost, indexFaults>>

\* An entry of a batch is addressed by the index of its result.
Add(batch, r) == {b \in batch : b.index # r.index} \cup {r}

TakeTx ==
  /\ service.pc = "txs"
  /\ txs # <<>>
  /\ service' = Collect([service EXCEPT !.left = @ - 1, !.batch = Add(@, Head(txs))])
  /\ txs' = Tail(txs)
  /\ UNCHANGED <<bus, headers, open, txIndex, blockIndex, lost, indexFaults>>

\* A commit that fails is logged and passed over.
Commits(works) ==
  IF works THEN UNCHANGED <<lost, indexFaults>>
           ELSE /\ lost' = lost \cup {service.height}
                /\ indexFaults' = indexFaults + 1

IndexBlock ==
  /\ service.pc = "block"
  /\ service' = [service EXCEPT !.pc = "batch"]
  /\ \E works \in BOOLEAN :
       /\ works \/ indexFaults < MaxIndexFaults
       /\ LET good == works /\ ~ReservedKey(service.height)
          IN  blockIndex' = IF good THEN blockIndex \cup BlockRows(service.height) ELSE blockIndex
       /\ Commits(works)
  /\ UNCHANGED <<bus, headers, txs, open, txIndex>>

\* One commit sets the rows and the result of every transaction of the batch.
AddBatch ==
  /\ service.pc = "batch"
  /\ service' = AtHeader
  /\ \E works \in BOOLEAN :
       /\ works \/ indexFaults < MaxIndexFaults
       /\ txIndex' = IF works
                     THEN [rows |-> txIndex.rows \cup UNION {TxRows(r) : r \in service.batch},
                           results |-> txIndex.results \cup service.batch]
                     ELSE txIndex
       /\ Commits(works)
  /\ UNCHANGED <<bus, headers, txs, open, blockIndex>>

\* The heights that are published, and not yet through the service.
Pending ==
  Range(headers) \cup (IF service.pc = "header" THEN {} ELSE {service.height})
    \cup (IF bus.sent < NumTxs(bus.height) THEN {bus.height} ELSE {})

\* A crash of the node.  The block committed last may not have been published at all.
IndexCrash ==
  /\ indexFaults < MaxIndexFaults
  /\ \E h \in {bus.height, bus.height + 1} \cap 0..Len(Chain) :
       /\ h = bus.height \/ bus.sent = NumTxs(bus.height)
       /\ bus' = [height |-> h, sent |-> NumTxs(h)]
       /\ lost' = lost \cup Pending \cup ((bus.height + 1)..h)
  /\ headers' = <<>> /\ txs' = <<>>
  /\ open' = {"header", "tx"}
  /\ service' = AtHeader
  /\ indexFaults' = indexFaults + 1
  /\ UNCHANGED <<txIndex, blockIndex>>

IndexNext ==
  \/ PublishHeader \/ PublishTx
  \/ TakeHeader \/ TakeTx \/ IndexBlock \/ AddBatch
  \/ IndexCrash

IndexSpec == IndexInit /\ [][IndexNext]_indexVars

-----------------------------------------------------------------------------

Has(h) == \E row \in blockIndex : row.key = heightKey(h)

\* The transactions of height h that wait in the buffer, and those still to be published.
Coming(h) ==
  {n \in 1..NumTxs(h) : TxResult(h, n) \in Range(txs)}
    \cup (IF h = bus.height THEN (bus.sent + 1)..NumTxs(h) ELSE {})

\* No published block is skipped or mixed with another (OnStart of
\* state/txindex/indexer_service.go): unless a crash, a failed commit or a cancelled
\* subscription lost it, it is in both indexes, or its header waits and all its
\* transactions are to come, or the service works on it, has the first ones in its
\* batch, and exactly the ones it still waits for are to come.  A block that uses the
\* reserved key is not in the block index.
EveryBlockIsIndexed ==
  \A h \in (1..bus.height) \ lost :
    LET blockIn == Has(h) \/ ReservedKey(h)
        batchIn == \A n \in 1..NumTxs(h) : TxResult(h, n) \in txIndex.results
        taken == NumTxs(h) - service.left
    IN  \/ blockIn /\ batchIn
        \/ h \in Range(headers) /\ Coming(h) = 1..NumTxs(h)
        \/ /\ service.pc # "header" /\ service.height = h
           /\ service.batch = {TxResult(h, n) : n \in 1..taken}
           /\ Coming(h) = (taken + 1)..NumTxs(h)
           /\ service.pc = "batch" => blockIn
=============================================================================
