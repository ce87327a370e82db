------------------------------ MODULE DAClient -------------------------------
(***************************************************************************)
(* How a batch gets on the DA layer and back: SubmitBatch and              *)
(* RetrieveBatches of the Celestia client (da/celestia/celestia.go), the   *)
(* Avail client (da/avail/avail.go) and the mock (da/mock/mock.go), and    *)
(* the DA chain they talk to.                                              *)
(*                                                                         *)
(* A batch is its first and last height.  The health events that a         *)
(* submission publishes are in ProduceLoop, the bytes in Conversion.       *)
(***************************************************************************)
EXTENDS Integers, Sequences, Functions, TLC

CONSTANTS
  Clients,      \* the kinds of client explored, of ClientKinds
  MaxHeight,    \* bound: the highest block of the rollup
  MaxDAHeight,  \* bound: the highest block of the DA layer
  MaxTxs,       \* bound: transactions sent to the DA layer
  Attempts      \* txPollingAttempts

ClientKinds == {"celestia", "avail", "mock"}

ASSUME DAAssumption ==
  /\ Clients \subseteq ClientKinds
  /\ MaxHeight \in Nat /\ MaxDAHeight \in Nat \ {0} /\ MaxTxs \in Nat
  /\ Attempts \in Nat \ {0}

Batches == [start : 1..MaxHeight, end : 1..MaxHeight]

NoBatch == [start |-> 0, end |-> 0]

VARIABLES
  client,    \* the kind of client the chain is configured with
  daHeight,  \* the last block of the DA layer; m.daHeight of the mock
  da,        \* Celestia, Avail: the batches in each block of the DA layer
  txs,       \* Celestia, Avail: the transactions sent; height 0 until in a block
  keys,      \* mock: the hash stored for a DA height and a start height
  blobs,     \* mock: the batch stored for a hash
  sub        \* SubmitBatch: where it is, its batch, transaction and DA height

daVars == <<client, daHeight, da, txs, keys, blobs, sub>>
chain == <<daHeight, da, txs>>
kv == <<keys, blobs>>

Idle == [pc |-> "idle", batch |-> NoBatch, tx |-> 0, tries |-> 0, height |-> 0]

DAInit ==
  /\ client \in Clients
  /\ daHeight = 1
  /\ da = [h \in 1..MaxDAHeight |-> <<>>]
  /\ txs = <<>>
  /\ keys = <<>> /\ blobs = <<>>
  /\ sub = Idle

-----------------------------------------------------------------------------
(* The DA chain *)

\* The elements of S, at most n, one after the other in each order.
Orders(S, n) == UNION {Bijection(1..k, S) : k \in 0..n}

Pending == {t \in DOMAIN txs : txs[t].height = 0}

\* Transactions T get into the next block, in an order the DA layer chooses.
Include(T) ==
  /\ daHeight < MaxDAHeight
  /\ daHeight' = daHeight + 1
  /\ \E order \in Orders(T, Len(txs)) :
       da' = [da EXCEPT ![daHeight + 1] = [i \in DOMAIN order |-> txs[order[i]].batch]]
  /\ txs' = [t \in DOMAIN txs |-> IF t \in T THEN [txs[t] EXCEPT !.height = daHeight + 1]
                                             ELSE txs[t]]

DABlock ==
  /\ client # "mock"
  /\ \E T \in (SUBSET Pending) \ {{}} : Include(T)
  /\ UNCHANGED <<client, kv, sub>>

\* updateDAHeight of the mock, a random step at a time.
UpdateDAHeight ==
  /\ client = "mock"
  /\ \E step \in 1..2 : daHeight + step <= MaxDAHeight /\ daHeight' = daHeight + step
  /\ UNCHANGED <<client, da, txs, kv, sub>>

-----------------------------------------------------------------------------
(* SubmitBatch *)

\* submitNextBatch hands a batch over.  The mock reads the DA height first.  Bounded: not
\* at the last DA height, which the mock never shows.
Submit(b) ==
  /\ sub.pc = "idle"
  /\ daHeight < MaxDAHeight
  /\ sub' = [Idle EXCEPT !.pc = IF client = "mock" THEN "key" ELSE "submit",
                         !.batch = b,
                         !.height = IF client = "mock" THEN daHeight ELSE 0]
  /\ UNCHANGED <<client, chain, kv>>

Sent == Append(txs, [batch |-> sub.batch, height |-> 0])

Send ==
  /\ Len(txs) < MaxTxs
  /\ txs' = Sent

\* SubmitPFB gives no response, or a code: the loop tries again.  The transaction may
\* have been sent.  Bounded: the last transaction is sent with a response.
SubmitPFBFails ==
  /\ client = "celestia" /\ sub.pc = "submit"
  /\ Len(txs) < MaxTxs - 1
  /\ txs' = Sent
  /\ UNCHANGED <<client, daHeight, da, kv, sub>>

\* The transaction is in a block when the response comes.
SubmitPFBIncluded ==
  /\ client = "celestia" /\ sub.pc = "submit"
  /\ Len(txs) < MaxTxs /\ daHeight < MaxDAHeight
  /\ txs' = Append(txs, [batch |-> sub.batch, height |-> daHeight + 1])
  /\ da' = [da EXCEPT ![daHeight + 1] = <<sub.batch>>]
  /\ daHeight' = daHeight + 1
  /\ sub' = [sub EXCEPT !.pc = "success", !.height = daHeight + 1]
  /\ UNCHANGED <<client, kv>>

\* A response without a height: waitForTXInclusion polls.
SubmitPFBPending ==
  /\ client = "celestia" /\ sub.pc = "submit"
  /\ Send
  /\ sub' = [sub EXCEPT !.pc = "poll", !.tx = Len(txs) + 1, !.tries = 0]
  /\ UNCHANGED <<client, daHeight, da, kv>>

\* Mutant: when the attempts are used up, the transaction is taken for included.
PollFails_Optimistic ==
  /\ client = "celestia" /\ sub.pc = "poll"
  /\ sub' = [sub EXCEPT !.tries = @ + 1,
                        !.pc = IF sub.tries + 1 = Attempts THEN "success" ELSE "poll",
                        !.height = daHeight]
  /\ UNCHANGED <<client, chain, kv>>

\* The node does not know the transaction, or cannot be asked.  After the last attempt
\* the batch is sent again.
PollFails ==
  /\ client = "celestia" /\ sub.pc = "poll"
  /\ sub' = [sub EXCEPT !.tries = @ + 1,
                        !.pc = IF sub.tries + 1 = Attempts THEN "submit" ELSE "poll"]
  /\ UNCHANGED <<client, chain, kv>>

\* broadcastTx sends the extrinsic.
BroadcastTx ==
  /\ client = "avail" /\ sub.pc = "submit"
  /\ Send
  /\ sub' = [sub EXCEPT !.pc = "watch", !.tx = Len(txs) + 1]
  /\ UNCHANGED <<client, daHeight, da, kv>>

\* broadcastTx ends with an error: the subscription, the inclusion timer, or the header
\* of the block it was finalized in.  retry.Do, or after its attempts the loop around it,
\* sends the batch again.  An error before the extrinsic is sent changes nothing here.
BroadcastTxFails ==
  /\ client = "avail" /\ sub.pc = "watch"
  /\ sub' = [sub EXCEPT !.pc = "submit"]
  /\ UNCHANGED <<client, chain, kv>>

\* A wrong configuration is not retried; the caller panics.
ConfigError ==
  /\ client = "avail" /\ sub.pc = "submit"
  /\ sub' = [sub EXCEPT !.pc = "error"]
  /\ UNCHANGED <<client, chain, kv>>

\* The block of the transaction is known: from its result, or its finalization.
Included ==
  /\ \/ client = "celestia" /\ sub.pc = "poll"
     \/ client = "avail" /\ sub.pc = "watch"
  /\ txs[sub.tx].height > 0
  /\ sub' = [sub EXCEPT !.pc = "success", !.height = txs[sub.tx].height]
  /\ UNCHANGED <<client, chain, kv>>

\* The mock stores a hash of the end height under the DA height and the start height...
SetKey ==
  /\ client = "mock" /\ sub.pc = "key"
  /\ keys' = (<<sub.height, sub.batch.start>> :> sub.batch.end) @@ keys
  /\ sub' = [sub EXCEPT !.pc = "blob"]
  /\ UNCHANGED <<client, chain, blobs>>

\* ... and the batch under the hash.
SetBlob ==
  /\ client = "mock" /\ sub.pc = "blob"
  /\ blobs' = (sub.batch.end :> sub.batch) @@ blobs
  /\ sub' = [sub EXCEPT !.pc = "success"]
  /\ UNCHANGED <<client, chain, keys>>

\* The process of the client ends.  The mock starts with DA height 1 again.
ClientRestarts ==
  /\ sub' = Idle
  /\ daHeight' = IF client = "mock" THEN 1 ELSE daHeight
  /\ UNCHANGED <<client, da, txs, kv>>

SubmitStep ==
  \/ SubmitPFBFails \/ SubmitPFBIncluded \/ SubmitPFBPending \/ PollFails
  \/ BroadcastTx \/ BroadcastTxFails \/ ConfigError \/ Included
  \/ SetKey \/ SetBlob

-----------------------------------------------------------------------------
(* RetrieveBatches *)

\* The start heights of the batches the mock has at DA height h, in the iterator's order.
StartsAt(h) ==
  LET S == {k[2] : k \in {k \in DOMAIN keys : k[1] = h /\ keys[k] \in DOMAIN blobs}}
  IN CHOOSE s \in Orders(S, MaxHeight) : \A i, j \in DOMAIN s : i < j => s[i] < s[j]

\* The mock fails when the batch of one of the hashes is missing.
MockFails(h) ==
  \/ h >= daHeight
  \/ \E k \in DOMAIN keys : k[1] = h /\ keys[k] \notin DOMAIN blobs

\* The batches at DA height h.  Every blob is the encoding of a batch.
BatchesAt(h) ==
  IF client = "mock"
  THEN [i \in DOMAIN StartsAt(h) |-> blobs[keys[<<h, StartsAt(h)[i]>>]]]
  ELSE da[h]

\* The code of the result; an error of the DA node is up to the caller of the model.
RetrieveFails(h) == IF client = "mock" THEN MockFails(h) ELSE h > daHeight
=============================================================================
