--------------------------- MODULE SyncLoopProofs ---------------------------
(***************************************************************************)
(* What the hub has accepted can be retrieved, and the state index never   *)
(* gets ahead of the blocks of the node: proved for the clients of         *)
(* Celestia and Avail, and every number of batches, DA blocks, retries,    *)
(* faults and crashes.                                                     *)
(***************************************************************************)
EXTENDS SyncLoop, TLAPS

-----------------------------------------------------------------------------
(* The inductive invariant *)

\* The mocks, which are for tests and live in one process, are left out.
NoMock == "mock" \notin Clients

Transactions == [batch : Batches, height : 0..MaxDAHeight]

Entries == [start : 1..MaxHeight, end : 1..MaxHeight, daHeight : 1..MaxDAHeight]

SubRecords ==
  [pc : {"idle", "submit", "poll", "watch", "error", "success", "stopped"},
   batch : Batches \cup {NoBatch}, tx : Nat, tries : Nat, height : 0..MaxDAHeight]

SetterRecords ==
  [pc : {"start", "loop", "store", "set", "check", "wait", "ready", "none"}, target : Nat]

RetRecords ==
  [pc : {"wait", "sync", "fetch", "apply", "done", "signal"},
   target : Nat, cur : Nat, entry : Nat, todo : Seq(Batches), i : Nat]

Types ==
  /\ client \in {"celestia", "avail"}
  /\ daHeight \in 1..MaxDAHeight
  /\ da \in [1..MaxDAHeight -> Seq(Batches)]
  /\ txs \in Seq(Transactions)
  /\ sub \in SubRecords
  /\ hub \in Seq(Entries) /\ hubIndex = Len(hub)
  /\ height \in Nat /\ index \in Nat /\ gossip \in Nat \cup {None}
  /\ disk \in [height : Nat, index : Nat]
  /\ syncTarget \in Nat /\ diode \in Nat \cup {None}
  /\ queue \in Seq(Nat)
  /\ setter \in [Setters -> SetterRecords]
  /\ ret \in RetRecords

\* Batch b is in block h of the DA layer.
On(b, h) == \E k \in DOMAIN da[h] : da[h][k] = b

BatchOf(e) == [start |-> e.start, end |-> e.end]

\* A transaction that has a height is in the block of that height.
TxsIncluded ==
  \A t \in DOMAIN txs :
    txs[t].height > 0 => txs[t].height <= daHeight /\ On(txs[t].batch, txs[t].height)

\* What SubmitBatch knows of its batch.
SubKnows ==
  /\ sub.pc \notin {"idle", "stopped"} =>
       /\ sub.batch \in Batches
       /\ sub.batch.start = HubHeight + 1
  /\ sub.pc \in {"poll", "watch"} =>
       sub.tx \in DOMAIN txs /\ txs[sub.tx].batch = sub.batch
  /\ sub.pc = "success" => sub.height \in 1..daHeight /\ On(sub.batch, sub.height)

\* The batches of the hub follow each other and are on the DA layer.
HubSound ==
  \A i \in DOMAIN hub :
    /\ hub[i].daHeight <= daHeight
    /\ On(BatchOf(hub[i]), hub[i].daHeight)
    /\ i = 1 => hub[i].start = 1
    /\ i > 1 => hub[i].start = hub[i - 1].end + 1

\* The blocks of the batches up to state index i are below h.
Applied(i, h) == i \in 0..Len(hub) /\ (i > 0 => hub[i].end <= h)

NodeSound ==
  /\ Applied(index, height)
  /\ Applied(disk.index, disk.height)
  /\ gossip # None => Applied(gossip, height)

\* The batch that syncUntilTarget works on follows the blocks of the node, and its
\* blocks are applied or still to come.
RetKnows ==
  /\ ret.pc # "apply" \/ ret.todo = <<>> => ret.i = 0
  /\ ret.pc \in {"fetch", "apply"} =>
       ret.entry \in 1..Len(hub) /\ hub[ret.entry].start <= height + 1
  /\ ret.pc = "apply" =>
       \/ hub[ret.entry].end <= height
       \/ \E k \in DOMAIN ret.todo :
            ret.todo[k] = BatchOf(hub[ret.entry]) /\ (k = 1 => Block <= height + 1)

Inv == Types /\ TxsIncluded /\ SubKnows /\ HubSound /\ NodeSound /\ RetKnows

\* The numbers of a state of the right type.
LEMMA Numbers ==
  ASSUME Types
  PROVE  /\ Len(hub) \in Nat /\ DOMAIN hub = 1..Len(hub) /\ hubIndex = Len(hub)
         /\ \A i \in 1..Len(hub) : hub[i] \in Entries
         /\ height \in Nat /\ index \in Nat
         /\ daHeight \in 1..MaxDAHeight /\ daHeight \in Nat /\ MaxDAHeight \in Nat
<1>1. hub \in Seq(Entries) /\ hubIndex = Len(hub)
  BY Zenon DEF Types
<1>2. height \in Nat /\ index \in Nat /\ daHeight \in 1..MaxDAHeight
  BY Zenon DEF Types
<1>3. MaxDAHeight \in Nat
  BY DAAssumption, Zenon
<1>4. daHeight \in Nat
  BY <1>2, <1>3
<1> QED
  BY <1>1, <1>2, <1>3, <1>4

-----------------------------------------------------------------------------
(* Frames *)

\* A step of the node changes neither the DA layer nor the hub.
LEMMA NodeFrame ==
  ASSUME Inv, Types', NodeSound', RetKnows', UNCHANGED <<daVars, hubVars>>
  PROVE  Inv'
  BY Zenon DEF Inv, daVars, hubVars, TxsIncluded, SubKnows, HubSound, On, HubHeight

\* The steps of SyncTargetLoop and waitForSync only pass targets on.
LEMMA TargetFrame ==
  ASSUME Inv, Types', UNCHANGED <<daVars, hubVars, state, ret, gossip>>
  PROVE  Inv'
<1>1. NodeSound' /\ RetKnows'
  BY Zenon DEF Inv, hubVars, state, NodeSound, RetKnows, Applied, Block
<1> QED
  BY <1>1, NodeFrame, Zenon

\* A step of the sequencer changes nothing in the node.
LEMMA SequencerFrame ==
  ASSUME Inv, Types', TxsIncluded', SubKnows', HubSound',
         UNCHANGED <<hubVars, state, ret, gossip>>
  PROVE  Inv'
  BY Zenon DEF Inv, hubVars, state, NodeSound, RetKnows, Applied, Block

\* ... and if the DA layer stays, neither what is on it.
LEMMA SubFrame ==
  ASSUME Inv, Types', SubKnows', UNCHANGED <<hubVars, chain, state, ret, gossip>>
  PROVE  Inv'
<1>1. TxsIncluded' /\ HubSound'
  BY Zenon DEF Inv, hubVars, chain, TxsIncluded, HubSound, On
<1> QED
  BY <1>1, SequencerFrame, Zenon

-----------------------------------------------------------------------------
(* The sequencer and the DA layer *)

LEMMA BatchType ==
  ASSUME NEW e \in Entries
  PROVE  BatchOf(e) \in Batches
  BY Zenon DEF Entries, BatchOf, Batches

LEMMA HubHeightType ==
  ASSUME Types
  PROVE  HubHeight \in Nat
<1>1. CASE hubIndex = 0
  BY <1>1, Zenon DEF HubHeight
<1>2. CASE hubIndex # 0
  <2>1. hubIndex \in 1..Len(hub)
    BY <1>2 DEF Types
  <2>2. hub[hubIndex] \in Entries
    BY <2>1 DEF Types
  <2> QED
    BY <1>2, <2>2, DAAssumption DEF HubHeight, Entries
<1> QED
  BY <1>1, <1>2, Zenon

LEMMA StartBatchStep ==
  ASSUME Inv, StartBatch
  PROVE  Inv'
<1>1. PICK end \in (HubHeight + 1)..MaxHeight : Submit([start |-> HubHeight + 1, end |-> end])
  BY Zenon DEF StartBatch
<1>2. /\ sub.pc = "idle"
      /\ sub' = [Idle EXCEPT !.pc = "submit",
                             !.batch = [start |-> HubHeight + 1, end |-> end],
                             !.height = 0]
  BY <1>1, Zenon DEF Submit, Inv, Types
<1>3. [start |-> HubHeight + 1, end |-> end] \in Batches
  BY <1>1, HubHeightType, DAAssumption DEF Inv, Batches
<1>4. sub' = [pc |-> "submit", batch |-> [start |-> HubHeight + 1, end |-> end], tx |-> 0,
              tries |-> 0, height |-> 0]
  BY <1>2, Zenon DEF Idle
<1>5. UNCHANGED <<client, chain, kv, hubVars, node, state, targets, events, setter, ret, gossip>>
  BY <1>1, Zenon DEF StartBatch, Submit
<1>6. Types'
  BY <1>3, <1>4, <1>5, DAAssumption
  DEF Inv, Types, SubRecords, chain, hubVars, state, targets, events
<1>7. SubKnows'
  BY <1>3, <1>4, <1>5, Zenon DEF SubKnows, hubVars, HubHeight
<1> QED
  BY <1>5, <1>6, <1>7, SubFrame, Zenon

\* SubmitBatch goes on without the DA layer changing.
LEMMA SubmitControl ==
  ASSUME Inv, UNCHANGED <<client, chain, kv, hubVars, state, targets, events, setter, ret, gossip>>,
         sub'.pc \in {"submit", "poll", "error"}, sub.pc \in {"submit", "poll", "watch"},
         sub'.pc = "poll" => sub.pc = "poll",
         sub' \in SubRecords,
         sub'.batch = sub.batch, sub'.tx = sub.tx
  PROVE  Inv'
<1>1. Types'
  BY Zenon DEF Inv, Types, chain, hubVars, state, targets, events
<1>2. SubKnows'
  BY Zenon DEF Inv, SubKnows, chain, hubVars, HubHeight
<1> QED
  BY <1>1, <1>2, SubFrame, Zenon

LEMMA PollFailsStep ==
  ASSUME Inv, PollFails, UNCHANGED <<hubVars, state, targets, events, setter, ret, gossip>>
  PROVE  Inv'
<1>1. sub \in SubRecords
  BY Zenon DEF Inv, Types
<1>2. PICK pc \in {"submit", "poll"} : sub' = [sub EXCEPT !.tries = @ + 1, !.pc = pc]
  BY Zenon DEF PollFails
<1>3. /\ sub'.pc \in {"submit", "poll"}
      /\ sub'.batch = sub.batch /\ sub'.tx = sub.tx
  BY <1>1, <1>2, Zenon DEF SubRecords
<1>4. sub.tries + 1 \in Nat
  BY <1>1 DEF SubRecords
<1>5. sub' \in SubRecords
  BY <1>1, <1>2, <1>4, Zenon DEF SubRecords
<1>6. sub.pc = "poll" /\ UNCHANGED <<client, chain, kv>>
  BY Zenon DEF PollFails
<1> QED
  BY <1>3, <1>5, <1>6, SubmitControl, Zenon

LEMMA BroadcastTxFailsStep ==
  ASSUME Inv, BroadcastTxFails \/ ConfigError,
         UNCHANGED <<hubVars, state, targets, events, setter, ret, gossip>>
  PROVE  Inv'
<1> USE DEF BroadcastTxFails, ConfigError
<1>1. sub \in SubRecords
  BY Zenon DEF Inv, Types
<1>2. /\ sub'.pc \in {"submit", "error"} /\ sub.pc \in {"watch", "submit"}
      /\ sub'.batch = sub.batch /\ sub'.tx = sub.tx
      /\ sub' \in SubRecords
  BY <1>1, Zenon DEF SubRecords
<1> QED
  BY <1>2, SubmitControl, Zenon

LEMMA IncludedStep ==
  ASSUME Inv, Included, UNCHANGED <<hubVars, state, targets, events, setter, ret, gossip>>
  PROVE  Inv'
<1> USE DEF Included
<1>1. /\ sub \in SubRecords
      /\ txs \in Seq(Transactions) /\ daHeight \in 1..MaxDAHeight
  BY Zenon DEF Inv, Types
<1>2. sub.pc \in {"poll", "watch"}
  BY Zenon
<1>3. sub.tx \in DOMAIN txs /\ txs[sub.tx].batch = sub.batch
  BY <1>2, Zenon DEF Inv, SubKnows
<1>4. txs[sub.tx] \in Transactions
  BY <1>1, <1>3
<1>5. txs[sub.tx].height \in 1..MaxDAHeight
  BY <1>4, DAAssumption DEF Transactions
<1>6. txs[sub.tx].height <= daHeight /\ On(sub.batch, txs[sub.tx].height)
  BY <1>3, <1>5, Zenon DEF Inv, TxsIncluded
<1>7. /\ sub'.pc = "success" /\ sub'.height = txs[sub.tx].height /\ sub'.batch = sub.batch
      /\ sub' \in SubRecords
  <2>1. txs[sub.tx].height \in 0..MaxDAHeight
    BY <1>5
  <2> QED
    BY <1>1, <2>1, Zenon DEF SubRecords
<1>8. Types'
  BY <1>7, Zenon DEF Inv, Types, chain, hubVars, state, targets, events
<1>9. SubKnows'
  <2>1. sub.batch \in Batches /\ sub.batch.start = HubHeight + 1
    BY <1>2, Zenon DEF Inv, SubKnows
  <2>2. HubHeight' = HubHeight /\ UNCHANGED <<da, daHeight>>
    BY Zenon DEF hubVars, chain, HubHeight
  <2>3. sub'.height \in 1..daHeight
    BY <1>1, <1>5, <1>6, <1>7, DAAssumption
  <2>4. On(sub.batch, sub.height)'
    BY <1>6, <1>7, <2>2, Zenon DEF On
  <2> QED
    BY <1>7, <2>1, <2>2, <2>3, <2>4, Zenon DEF SubKnows
<1> QED
  BY <1>8, <1>9, SubFrame, Zenon

\* A transaction is sent, and SubmitBatch goes on.
LEMMA Sends ==
  ASSUME Inv, sub.pc = "submit",
         txs' = Sent, sub' \in SubRecords, sub'.batch = sub.batch,
         sub'.pc \in {"submit", "poll", "watch"},
         sub'.pc # "submit" => sub'.tx = Len(txs) + 1,
         UNCHANGED <<client, daHeight, da, kv, hubVars, state, targets, events, setter, ret,
                     gossip>>
  PROVE  Inv'
<1>1. Types /\ sub.batch \in Batches
  BY Zenon DEF Inv, SubKnows
<1>2. [batch |-> sub.batch, height |-> 0] \in Transactions
  BY <1>1, DAAssumption DEF Transactions
<1>3. /\ txs' \in Seq(Transactions)
      /\ Len(txs') = Len(txs) + 1
      /\ \A t \in DOMAIN txs : txs'[t] = txs[t]
      /\ txs'[Len(txs) + 1] = [batch |-> sub.batch, height |-> 0]
      /\ DOMAIN txs' = 1..(Len(txs) + 1) /\ DOMAIN txs = 1..Len(txs) /\ Len(txs) \in Nat
  BY <1>1, <1>2 DEF Types, Sent
<1>4. Types'
  BY <1>1, <1>3, Zenon DEF Types, hubVars, state, targets, events
<1>5. TxsIncluded'
  BY <1>3 DEF Inv, TxsIncluded, On
<1>6. SubKnows'
  BY <1>1, <1>3 DEF Inv, SubKnows, hubVars, HubHeight
<1>7. HubSound'
  BY Zenon DEF Inv, HubSound, hubVars, On
<1> QED
  BY <1>4, <1>5, <1>6, <1>7, SequencerFrame, Zenon

LEMMA SendSteps ==
  ASSUME Inv, SubmitPFBFails \/ SubmitPFBPending \/ BroadcastTx,
         UNCHANGED <<hubVars, state, targets, events, setter, ret, gossip>>
  PROVE  Inv'
<1>1. sub \in SubRecords /\ Len(txs) + 1 \in Nat
  BY DEF Inv, Types
<1>2. CASE SubmitPFBFails
  BY <1>1, <1>2, Sends, Zenon DEF SubmitPFBFails
<1>3. CASE SubmitPFBPending
  <2>1. /\ sub' \in SubRecords /\ sub'.batch = sub.batch
        /\ sub'.pc = "poll" /\ sub'.tx = Len(txs) + 1
    BY <1>1, <1>3, Zenon DEF SubmitPFBPending, SubRecords
  <2> QED
    BY <1>3, <2>1, Sends, Zenon DEF SubmitPFBPending, Send
<1>4. CASE BroadcastTx
  <2>1. /\ sub' \in SubRecords /\ sub'.batch = sub.batch
        /\ sub'.pc = "watch" /\ sub'.tx = Len(txs) + 1
    BY <1>1, <1>4, Zenon DEF BroadcastTx, SubRecords
  <2> QED
    BY <1>4, <2>1, Sends, Zenon DEF BroadcastTx, Send
<1> QED
  BY <1>2, <1>3, <1>4, Zenon

\* A new block leaves the blocks before it as they are.
LEMMA NewBlock ==
  ASSUME Inv, daHeight < MaxDAHeight, daHeight' = daHeight + 1,
         NEW s \in Seq(Batches), da' = [da EXCEPT ![daHeight + 1] = s]
  PROVE  /\ daHeight' \in 1..MaxDAHeight
         /\ da' \in [1..MaxDAHeight -> Seq(Batches)]
         /\ da'[daHeight + 1] = s
         /\ \A b, h : h \in 1..daHeight /\ On(b, h) => h \in 1..daHeight' /\ On(b, h)'
<1>1. daHeight \in 1..MaxDAHeight /\ da \in [1..MaxDAHeight -> Seq(Batches)]
  BY Zenon DEF Inv, Types
<1>2. daHeight + 1 \in 1..MaxDAHeight
  BY <1>1, DAAssumption
<1>3. \A h \in 1..daHeight : h \in 1..daHeight' /\ da'[h] = da[h]
  BY <1>1, <1>2, DAAssumption
<1>4. da' \in [1..MaxDAHeight -> Seq(Batches)] /\ da'[daHeight + 1] = s
  BY <1>1, <1>2, Zenon
<1> QED
  BY <1>2, <1>3, <1>4, Zenon DEF On

\* What is on the DA layer stays there, and the hub with it.
LEMMA HubStays ==
  ASSUME Inv, UNCHANGED hubVars,
         \A b, h : h \in 1..daHeight /\ On(b, h) => h \in 1..daHeight' /\ On(b, h)'
  PROVE  HubSound'
<1>1. \A i \in DOMAIN hub : hub[i].daHeight \in 1..daHeight
  <2> SUFFICES ASSUME NEW i \in DOMAIN hub PROVE hub[i].daHeight \in 1..daHeight
    BY Zenon
  <2>1. hub[i] \in Entries
    BY DEF Inv, Types
  <2>2. hub[i].daHeight \in 1..MaxDAHeight /\ hub[i].daHeight <= daHeight /\ daHeight \in 1..MaxDAHeight
    BY <2>1, Zenon DEF Entries, Inv, HubSound, Types
  <2> QED
    BY <2>2, DAAssumption
<1>2. \A i \in DOMAIN hub : hub[i].daHeight \in 1..daHeight' /\ On(BatchOf(hub[i]), hub[i].daHeight)'
  BY <1>1, Zenon DEF Inv, HubSound, hubVars, BatchOf
<1>3. \A i \in DOMAIN hub : hub[i].daHeight <= daHeight'
  BY <1>2
<1> QED
  BY <1>2, <1>3, Zenon DEF Inv, HubSound, hubVars

LEMMA SubmitPFBIncludedStep ==
  ASSUME Inv, SubmitPFBIncluded,
         UNCHANGED <<hubVars, state, targets, events, setter, ret, gossip>>
  PROVE  Inv'
<1>1. Types /\ sub.batch \in Batches
  BY Zenon DEF Inv, SubKnows, SubmitPFBIncluded
<1>2. /\ daHeight < MaxDAHeight /\ daHeight' = daHeight + 1 /\ sub.pc = "submit"
      /\ txs' = Append(txs, [batch |-> sub.batch, height |-> daHeight + 1])
      /\ da' = [da EXCEPT ![daHeight + 1] = <<sub.batch>>]
      /\ sub' = [sub EXCEPT !.pc = "success", !.height = daHeight + 1]
      /\ UNCHANGED <<client, kv>>
  BY Zenon DEF SubmitPFBIncluded
<1>3. <<sub.batch>> \in Seq(Batches)
  BY <1>1
<1>4. /\ daHeight' \in 1..MaxDAHeight
      /\ da' \in [1..MaxDAHeight -> Seq(Batches)]
      /\ da'[daHeight + 1] = <<sub.batch>>
      /\ \A b, h : h \in 1..daHeight /\ On(b, h) => h \in 1..daHeight' /\ On(b, h)'
  BY <1>2, <1>3, NewBlock, Zenon
<1>5. \E k \in DOMAIN da'[daHeight + 1] : da'[daHeight + 1][k] = sub.batch
  <2>1. da'[daHeight + 1][1] = sub.batch /\ 1 \in DOMAIN da'[daHeight + 1]
    BY <1>4
  <2> QED
    BY <2>1, Zenon
<1>6. daHeight + 1 \in 1..MaxDAHeight
  BY <1>2, <1>4, Zenon
<1>7. /\ sub' \in SubRecords /\ sub'.pc = "success" /\ sub'.batch = sub.batch
      /\ sub'.height = daHeight + 1
  <2>1. daHeight + 1 \in 0..MaxDAHeight
    BY <1>6
  <2> QED
    BY <1>1, <1>2, <2>1, Zenon DEF Types, SubRecords
<1>8. [batch |-> sub.batch, height |-> daHeight + 1] \in Transactions
  BY <1>1, <1>6, DAAssumption DEF Transactions
<1>9. /\ txs' \in Seq(Transactions)
      /\ DOMAIN txs' = 1..(Len(txs) + 1) /\ DOMAIN txs = 1..Len(txs) /\ Len(txs) \in Nat
      /\ \A t \in DOMAIN txs : txs'[t] = txs[t]
      /\ txs'[Len(txs) + 1] = [batch |-> sub.batch, height |-> daHeight + 1]
  BY <1>1, <1>2, <1>8 DEF Types
<1>10. Types'
  BY <1>1, <1>2, <1>4, <1>7, <1>9, Zenon DEF Types, hubVars, state, targets, events
<1>11. TxsIncluded'
  <2> SUFFICES ASSUME NEW t \in DOMAIN txs', txs'[t].height > 0
               PROVE  txs'[t].height <= daHeight' /\ On(txs[t].batch, txs[t].height)'
    BY Zenon DEF TxsIncluded
  <2>1. CASE t \in DOMAIN txs
    <3>1. txs[t] \in Transactions
      BY <1>1, <2>1 DEF Types
    <3>2. txs[t].height \in 1..daHeight /\ On(txs[t].batch, txs[t].height)
      <4>1. txs[t].height > 0 /\ txs[t].height \in Nat
        BY <1>9, <2>1, <3>1, DAAssumption DEF Transactions
      <4>2. txs[t].height <= daHeight /\ On(txs[t].batch, txs[t].height)
        BY <2>1, <4>1, Zenon DEF Inv, TxsIncluded
      <4> QED
        BY <1>1, <4>1, <4>2, Numbers
    <3>3. txs[t].height \in 1..daHeight' /\ \E k \in DOMAIN da'[txs[t].height] : da'[txs[t].height][k] = txs[t].batch
      BY <1>4, <3>2, Zenon DEF On
    <3> QED
      BY <1>9, <2>1, <3>3 DEF On
  <2>2. CASE t = Len(txs) + 1
    BY <1>2, <1>5, <1>9, <1>6, <2>2 DEF On
  <2> QED
    BY <1>9, <2>1, <2>2
<1>12. SubKnows'
  <2>1. sub'.height \in 1..daHeight'
    BY <1>2, <1>6, <1>7
  <2>2. On(sub.batch, sub.height)'
    BY <1>5, <1>7, Zenon DEF On
  <2> QED
    BY <1>1, <1>2, <1>7, <2>1, <2>2, Zenon DEF Inv, SubKnows, hubVars, HubHeight
<1>13. HubSound'
  BY <1>4, HubStays, Zenon
<1> QED
  BY <1>10, <1>11, <1>12, <1>13, SequencerFrame, Zenon

LEMMA DABlockStep ==
  ASSUME Inv, DABlock, UNCHANGED <<hubVars, state, targets, events, setter, ret, gossip>>
  PROVE  Inv'
<1>1. Types
  BY Zenon DEF Inv
<1>2. PICK T \in SUBSET Pending : Include(T)
  BY Zenon DEF DABlock
<1>3. PICK order \in Orders(T, Len(txs)) :
        da' = [da EXCEPT ![daHeight + 1] = [i \in DOMAIN order |-> txs[order[i]].batch]]
  BY <1>2, Zenon DEF Include
<1>4. /\ DOMAIN txs = 1..Len(txs) /\ Len(txs) \in Nat /\ T \subseteq DOMAIN txs
      /\ \A t \in DOMAIN txs : txs[t] \in Transactions
  BY <1>1, <1>2 DEF Types, Pending
<1>5. PICK n \in 0..Len(txs) : order \in Bijection(1..n, T)
  BY Zenon DEF Orders
<1>6. /\ order \in [1..n -> T] /\ n \in Nat
      /\ \A t \in T : \E i \in DOMAIN order : order[i] = t
  BY <1>4, <1>5 DEF Bijection, Injection, Surjection
<1> DEFINE s == [i \in DOMAIN order |-> txs[order[i]].batch]
<1>7. s \in Seq(Batches) /\ DOMAIN s = DOMAIN order /\ \A i \in DOMAIN order : s[i] = txs[order[i]].batch
  <2>1. \A i \in DOMAIN order : txs[order[i]].batch \in Batches
    BY <1>4, <1>6, Zenon DEF Transactions
  <2> QED
    BY <1>5, <1>6, <2>1
<1>8. /\ daHeight < MaxDAHeight /\ daHeight' = daHeight + 1
      /\ txs' = [t \in DOMAIN txs |-> IF t \in T THEN [txs[t] EXCEPT !.height = daHeight + 1]
                                                 ELSE txs[t]]
      /\ UNCHANGED <<client, kv, sub>>
  BY <1>2, Zenon DEF Include, DABlock
<1> HIDE DEF s
<1>9. /\ daHeight' \in 1..MaxDAHeight
      /\ da' \in [1..MaxDAHeight -> Seq(Batches)]
      /\ da'[daHeight + 1] = s
      /\ \A b, h : h \in 1..daHeight /\ On(b, h) => h \in 1..daHeight' /\ On(b, h)'
  <2>1. da' = [da EXCEPT ![daHeight + 1] = s]
    BY <1>3, Zenon DEF s
  <2> QED
    BY <1>7, <1>8, <2>1, NewBlock, Zenon
<1>10. /\ DOMAIN txs' = DOMAIN txs
       /\ \A t \in DOMAIN txs : txs'[t] \in Transactions /\ txs'[t].batch = txs[t].batch
       /\ \A t \in T : txs'[t].height = daHeight + 1
       /\ \A t \in DOMAIN txs \ T : txs'[t] = txs[t]
  <2>1. daHeight + 1 \in 0..MaxDAHeight
    BY <1>1, <1>8, <1>9 DEF Types
  <2> QED
    BY <1>4, <1>8, <2>1, Zenon DEF Transactions
<1>11. txs' \in Seq(Transactions)
  BY <1>4, <1>8, <1>10
<1>12. Types'
  BY <1>1, <1>8, <1>9, <1>11, Zenon DEF Types, hubVars, state, targets, events
<1>13. TxsIncluded'
  <2> SUFFICES ASSUME NEW t \in DOMAIN txs, txs'[t].height > 0
               PROVE  txs'[t].height <= daHeight' /\ On(txs[t].batch, txs[t].height)'
    BY <1>10, Zenon DEF TxsIncluded
  <2>1. CASE t \in T
    <3>1. PICK i \in DOMAIN order : order[i] = t
      BY <1>6, <2>1, Zenon
    <3>2. s[i] = txs[t].batch /\ i \in DOMAIN s
      BY <1>7, <3>1, Zenon
    <3>3. txs'[t].height = daHeight + 1 /\ txs'[t].batch = txs[t].batch
      BY <1>10, <2>1, Zenon
    <3>4. On(txs[t].batch, txs[t].height)'
      BY <1>9, <3>2, <3>3, Zenon DEF On
    <3> QED
      BY <1>1, <1>8, <3>3, <3>4, DAAssumption DEF Types
  <2>2. CASE t \notin T
    <3>1. txs[t].height \in 1..daHeight /\ On(txs[t].batch, txs[t].height)
      <4>1. txs[t].height > 0 /\ txs[t].height \in Nat
        BY <1>4, <1>10, <2>2, DAAssumption DEF Transactions
      <4>2. txs[t].height <= daHeight /\ On(txs[t].batch, txs[t].height)
        BY <4>1, Zenon DEF Inv, TxsIncluded
      <4> QED
        BY <1>1, <4>1, <4>2, Numbers
    <3>2. /\ txs[t].height \in 1..daHeight'
          /\ \E k \in DOMAIN da'[txs[t].height] : da'[txs[t].height][k] = txs[t].batch
      BY <1>9, <3>1, Zenon DEF On
    <3> QED
      BY <1>10, <2>2, <3>2 DEF On
  <2> QED
    BY <2>1, <2>2, Zenon
<1>14. SubKnows'
  <2>1. sub.pc = "success" => sub'.height \in 1..daHeight' /\ On(sub.batch, sub.height)'
    BY <1>8, <1>9 DEF Inv, SubKnows, On
  <2> QED
    BY <1>8, <1>10, <2>1, Zenon DEF Inv, SubKnows, hubVars, HubHeight
<1>15. HubSound'
  BY <1>9, HubStays, Zenon
<1> QED
  BY <1>12, <1>13, <1>14, <1>15, SequencerFrame, Zenon

LEMMA HubAcceptsStep ==
  ASSUME Inv, HubAccepts
  PROVE  Inv'
<1>1. Types /\ sub.batch \in Batches /\ sub.batch.start = HubHeight + 1
      /\ sub.height \in 1..daHeight /\ On(sub.batch, sub.height)
  BY Zenon DEF Inv, SubKnows, HubAccepts
<1>2. /\ hub' = Append(hub, Entry) /\ hubIndex' = hubIndex + 1 /\ sub' = Idle
      /\ UNCHANGED <<client, daHeight, da, txs, kv, state, targets, setter, ret, gossip>>
  BY Zenon DEF HubAccepts, chain
<1>3. sub.batch.start \in 1..MaxHeight /\ sub.batch.end \in 1..MaxHeight
      /\ sub.batch = [start |-> sub.batch.start, end |-> sub.batch.end]
  BY <1>1, Zenon DEF Batches
<1>4. sub.height \in 1..MaxDAHeight
  BY <1>1, DAAssumption DEF Types
<1>5. Entry \in Entries /\ BatchOf(Entry) = sub.batch /\ Entry.start = HubHeight + 1
      /\ Entry.daHeight = sub.height
  BY <1>1, <1>3, <1>4, Zenon DEF Entry, Entries, BatchOf
<1>6. /\ hub' \in Seq(Entries) /\ hubIndex' = Len(hub')
      /\ Len(hub) \in Nat /\ DOMAIN hub = 1..Len(hub) /\ Len(hub') = Len(hub) + 1
      /\ DOMAIN hub' = 1..(Len(hub) + 1)
      /\ \A i \in DOMAIN hub : hub'[i] = hub[i]
      /\ hub'[Len(hub) + 1] = Entry
  <2>1. hub \in Seq(Entries) /\ hubIndex = Len(hub)
    BY <1>1, Zenon DEF Types
  <2> QED
    BY <1>2, <1>5, <2>1
<1>7. queue' \in Seq(Nat)
  <2>1. sub.batch.end \in Nat
    <3>1. sub.batch.end \in 1..MaxHeight /\ MaxHeight \in Nat
      BY <1>3, DAAssumption, Zenon
    <3> QED
      BY <3>1
  <2>2. queue' = queue \/ queue' = Append(queue, sub.batch.end)
    BY Zenon DEF HubAccepts, Notify, events
  <2>3. queue \in Seq(Nat)
    BY <1>1, Zenon DEF Types
  <2>4. Append(queue, sub.batch.end) \in Seq(Nat)
    BY <2>1, <2>3
  <2> QED
    BY <2>2, <2>3, <2>4, Zenon
<1>8. Idle \in SubRecords /\ Idle.pc = "idle"
  BY DAAssumption DEF Idle, SubRecords
<1>9. Types'
  BY <1>1, <1>2, <1>6, <1>7, <1>8, Zenon DEF Types, state, targets
<1>10. TxsIncluded'
  BY <1>2, Zenon DEF Inv, TxsIncluded, On
<1>11. SubKnows'
  BY <1>2, <1>8, Zenon DEF SubKnows
<1>12. HubSound'
  <2> SUFFICES ASSUME NEW i \in DOMAIN hub'
               PROVE  /\ hub'[i].daHeight <= daHeight
                      /\ \E k \in DOMAIN da[hub'[i].daHeight] :
                           da[hub'[i].daHeight][k] = BatchOf(hub'[i])
                      /\ i = 1 => hub'[i].start = 1
                      /\ i > 1 => hub'[i].start = hub'[i - 1].end + 1
    BY <1>2 DEF HubSound, On, BatchOf
  <2>1. CASE i \in DOMAIN hub
    <3>1. i > 1 => i - 1 \in DOMAIN hub
      BY <1>6, <2>1
    <3> QED
      BY <1>6, <2>1, <3>1, Zenon DEF Inv, HubSound, On
  <2>2. CASE i = Len(hub) + 1
    <3>1. hub'[i] = Entry /\ Entry.daHeight <= daHeight
      BY <1>1, <1>5, <1>6, <2>2, Numbers
    <3>2. \E k \in DOMAIN da[hub'[i].daHeight] : da[hub'[i].daHeight][k] = BatchOf(hub'[i])
      BY <1>1, <1>5, <3>1, Zenon DEF On
    <3>3. i = 1 => hub'[i].start = 1
      BY <1>1, <1>5, <2>2, <3>1, Numbers DEF HubHeight
    <3>4. i > 1 => hub'[i].start = hub'[i - 1].end + 1
      <4> SUFFICES ASSUME i > 1 PROVE hub'[i].start = hub'[i - 1].end + 1
        BY Zenon
      <4>1. i - 1 = hubIndex /\ i - 1 \in DOMAIN hub /\ hubIndex # 0
        BY <1>1, <1>6, <2>2, Numbers
      <4> QED
        BY <1>5, <1>6, <3>1, <4>1, Zenon DEF HubHeight
    <3> QED
      BY <3>1, <3>2, <3>3, <3>4, Zenon
  <2> QED
    BY <1>6, <2>1, <2>2
<1>13. \A i \in Nat, h \in Nat : Applied(i, h) => Applied(i, h)'
  BY <1>6 DEF Applied
<1>14. NodeSound'
  BY <1>1, <1>2, <1>13, SyncAssumption, Zenon DEF Inv, NodeSound, Types, state, Applied
<1>15. RetKnows'
  <2>1. ret.pc \in {"fetch", "apply"} => ret.entry \in DOMAIN hub /\ ret.entry \in 1..Len(hub')
                                        /\ hub'[ret.entry] = hub[ret.entry]
    <3>1. ret.pc \in {"fetch", "apply"} => ret.entry \in 1..Len(hub)
      BY Zenon DEF Inv, RetKnows
    <3> QED
      BY <1>6, <3>1
  <2> QED
    BY <1>2, <1>6, <2>1, Zenon DEF Inv, RetKnows, state, Block, BatchOf
<1> QED
  BY <1>9, <1>10, <1>11, <1>12, <1>14, <1>15, Zenon DEF Inv

\* The sequencer ends, for a time or for good.
LEMMA SequencerEnds ==
  ASSUME Inv, UNCHANGED <<client, chain, kv, hubVars, state, targets, events, setter, ret, gossip>>,
         sub' \in {Idle, [Idle EXCEPT !.pc = "stopped"]}
  PROVE  Inv'
<1>1. sub' \in SubRecords /\ sub'.pc \in {"idle", "stopped"}
  BY DAAssumption DEF Idle, SubRecords
<1>2. Types'
  BY <1>1, Zenon DEF Inv, Types, chain, hubVars, state, targets, events
<1>3. SubKnows'
  BY <1>1, Zenon DEF SubKnows
<1> QED
  BY <1>2, <1>3, SubFrame, Zenon

-----------------------------------------------------------------------------
(* The node *)

LEMMA BootStep ==
  ASSUME Inv, Boot
  PROVE  Inv'
<1>1. /\ height' = disk.height /\ index' = disk.index /\ syncTarget' = 0 /\ diode' = None
      /\ queue' = <<>> /\ ret' = Waiting /\ gossip' = None
      /\ UNCHANGED <<daVars, hubVars, disk>>
      /\ setter' \in [Setters -> SetterRecords]
  <2>1. setter' \in [Setters -> SetterRecords]
    BY Zenon DEF Boot, Starting, Setters, SetterRecords
  <2> QED
    BY <2>1, Zenon DEF Boot
<1>2. Waiting \in RetRecords /\ Waiting.pc = "wait" /\ Waiting.i = 0
  BY DEF Waiting, RetRecords
<1>3. Types'
  BY <1>1, <1>2 DEF Inv, Types, daVars, chain, hubVars
<1>4. NodeSound'
  BY <1>1, SyncAssumption, Zenon DEF Inv, NodeSound, Applied, hubVars
<1>5. RetKnows'
  BY <1>1, <1>2, Zenon DEF RetKnows
<1> QED
  BY <1>1, <1>3, <1>4, <1>5, NodeFrame, Zenon

LEMMA CrashStep ==
  ASSUME Inv, Crash
  PROVE  Inv'
<1>1. UNCHANGED <<daVars, hubVars, state, targets, queue, setter, ret, gossip>>
  BY Zenon DEF Crash
<1>2. Types'
  BY <1>1, Zenon DEF Inv, Types, daVars, chain, hubVars, state, targets
<1> QED
  BY <1>1, <1>2, TargetFrame, Zenon

-----------------------------------------------------------------------------
(* SyncTargetLoop and waitForSync *)

LEMMA GoToType ==
  ASSUME Types, NEW s \in Setters, NEW t \in Nat,
         NEW p \in {"loop", "store", "set", "check", "wait", "ready"}, GoTo(s, p, t)
  PROVE  setter' \in [Setters -> SetterRecords]
<1>1. [pc |-> p, target |-> t] \in SetterRecords
  BY Zenon DEF SetterRecords
<1> QED
  BY <1>1, Zenon DEF Types, GoTo

LEMMA SetterTarget ==
  ASSUME Types, NEW s \in Setters
  PROVE  setter[s].target \in Nat
  BY Zenon DEF Types, SetterRecords

LEMMA SyncTargetLoopStep ==
  ASSUME Inv, NEW s \in Setters, SyncTargetLoop(s)
  PROVE  Inv'
<1>1. Types /\ HubHeight \in Nat /\ setter[s].target \in Nat
  BY HubHeightType, SetterTarget, Zenon DEF Inv
<1>2. /\ UNCHANGED <<daVars, hubVars, state, events, ret, gossip>>
      /\ syncTarget' \in Nat /\ diode' \in Nat \cup {None}
      /\ setter' \in [Setters -> SetterRecords]
  <2>1. CASE Fetch(s)
    BY <1>1, <2>1, GoToType, Zenon DEF Fetch, SetterOnly, targets, Types
  <2>2. CASE FetchNone(s)
    <3>1. PICK p \in {"ready", "loop"} : GoTo(s, p, 0)
      BY <2>2, Zenon DEF FetchNone
    <3>2. setter' \in [Setters -> SetterRecords]
      BY <1>1, <3>1, GoToType, Zenon
    <3>3. syncTarget' \in {0, syncTarget} /\ UNCHANGED diode
      BY <2>2, Zenon DEF FetchNone
    <3> QED
      BY <1>1, <2>2, <3>2, <3>3, Zenon DEF FetchNone, SetterOnly, Types
  <2>3. CASE StoreTarget(s)
    BY <1>1, <2>3, GoToType, Zenon DEF StoreTarget, SetterOnly, Types
  <2>4. CASE SetDiode(s)
    <3>1. PICK p \in {"check", "loop"} : GoTo(s, p, 0)
      BY <2>4, Zenon DEF SetDiode
    <3>2. setter' \in [Setters -> SetterRecords]
      BY <1>1, <3>1, GoToType, Zenon
    <3> QED
      BY <1>1, <2>4, <3>2, Zenon DEF SetDiode, SetterOnly, Types
  <2> QED
    BY <2>1, <2>2, <2>3, <2>4, Zenon DEF SyncTargetLoop
<1>3. Types'
  BY <1>1, <1>2, Zenon DEF Types, daVars, chain, hubVars, state, events
<1> QED
  BY <1>2, <1>3, TargetFrame, Zenon

LEMMA SetterStep ==
  ASSUME Inv, NewBatchAccepted \/ CheckSynced
  PROVE  Inv'
<1>1. Types
  BY Zenon DEF Inv
<1>2. /\ UNCHANGED <<daVars, hubVars, state, targets, ret, gossip>>
      /\ queue' \in Seq(Nat)
      /\ setter' \in [Setters -> SetterRecords]
  <2>1. CASE NewBatchAccepted
    <3>1. Head(queue) \in Nat /\ Tail(queue) \in Seq(Nat)
      BY <1>1, <2>1 DEF NewBatchAccepted, Types
    <3> QED
      BY <1>1, <2>1, <3>1, GoToType, Zenon DEF NewBatchAccepted, Setters
  <2>2. CASE CheckSynced
    <3>1. PICK p \in {"wait", "ready"} : GoTo("waitForSync", p, 0)
      BY <2>2, Zenon DEF CheckSynced
    <3>2. setter' \in [Setters -> SetterRecords]
      BY <1>1, <3>1, GoToType, Zenon DEF Setters
    <3> QED
      BY <1>1, <2>2, <3>2, Zenon DEF CheckSynced, SetterOnly, events, Types
  <2> QED
    BY <2>1, <2>2, Zenon
<1>3. Types'
  BY <1>1, <1>2, Zenon DEF Types, daVars, chain, hubVars, state, targets
<1> QED
  BY <1>2, <1>3, TargetFrame, Zenon

-----------------------------------------------------------------------------
(* RetriveLoop *)

\* A step of RetriveLoop that leaves the state and works on no batch.
LEMMA RetFrame ==
  ASSUME Inv, RetOnly, UNCHANGED state, ret' \in RetRecords, ret'.pc \notin {"fetch", "apply"},
         ret'.i = 0, diode' \in Nat \cup {None}, setter' \in [Setters -> SetterRecords]
  PROVE  Inv'
<1>1. Types'
  BY Zenon DEF Inv, Types, RetOnly, daVars, chain, hubVars, state, events
<1>2. NodeSound'
  BY Zenon DEF Inv, RetOnly, NodeSound, Applied, hubVars, state
<1>3. RetKnows'
  BY Zenon DEF RetKnows
<1> QED
  BY <1>1, <1>2, <1>3, NodeFrame, Zenon DEF RetOnly

LEMMA AbortType ==
  ASSUME Inv, Abort
  PROVE  ret' \in RetRecords /\ ret'.pc = "done" /\ ret'.i = 0
<1>1. <<>> \in Seq(Batches)
  OBVIOUS
<1> QED
  BY <1>1, Zenon DEF Inv, Types, RetRecords, Abort

LEMMA TargetStep ==
  ASSUME Inv, NextTarget \/ TargetReached \/ CheckTarget \/ Signal \/ ApplyFails
  PROVE  Inv'
<1>1. Types /\ RetKnows
  BY Zenon DEF Inv
<1>2. CASE NextTarget
  <2>1. diode \in Nat /\ ret' \in RetRecords /\ ret'.pc = "sync" /\ ret'.i = 0
    <3>1. diode \in Nat /\ height \in Nat /\ <<>> \in Seq(Batches)
      BY <1>1, <1>2 DEF NextTarget, Types
    <3>2. ret' = [pc |-> "sync", target |-> diode, cur |-> height, entry |-> 0,
                  todo |-> <<>>, i |-> 0]
      BY <1>2, Zenon DEF NextTarget, Waiting
    <3> QED
      BY <3>1, <3>2, Zenon DEF RetRecords
  <2> QED
    BY <1>1, <1>2, <2>1, RetFrame, Zenon DEF NextTarget, Types
<1>3. CASE TargetReached
  <2>1. ret' \in RetRecords /\ ret'.pc = "done" /\ ret'.i = 0
    BY <1>1, <1>3, Zenon DEF TargetReached, Types, RetKnows, RetRecords
  <2> QED
    BY <1>1, <1>3, <2>1, RetFrame, Zenon DEF TargetReached, Types
<1>4. CASE CheckTarget
  <2>1. PICK p \in {"signal", "wait"} : ret' = [Waiting EXCEPT !.pc = p]
    BY <1>4, Zenon DEF CheckTarget
  <2>2. ret' \in RetRecords /\ ret'.pc = p /\ ret'.i = 0
    <3>1. ret' = [pc |-> p, target |-> 0, cur |-> 0, entry |-> 0, todo |-> <<>>, i |-> 0]
      BY <2>1, Zenon DEF Waiting
    <3>2. <<>> \in Seq(Batches)
      OBVIOUS
    <3> QED
      BY <3>1, <3>2, Zenon DEF RetRecords
  <2> QED
    BY <1>1, <1>4, <2>2, RetFrame, Zenon DEF CheckTarget, Types
<1>5. CASE Signal
  <2>1. ret' \in RetRecords /\ ret'.pc = "wait" /\ ret'.i = 0
    BY <1>5 DEF Signal, Waiting, RetRecords
  <2>2. setter' \in [Setters -> SetterRecords]
    <3>1. [setter EXCEPT !["waitForSync"].pc = "check"] \in [Setters -> SetterRecords]
      BY <1>1, Zenon DEF Types, Setters, SetterRecords
    <3> QED
      BY <1>1, <1>5, <3>1, Zenon DEF Signal, Types
  <2> QED
    BY <1>1, <1>5, <2>1, <2>2, RetFrame, Zenon DEF Signal, Types
<1>6. CASE ApplyFails
  BY <1>1, <1>6, AbortType, RetFrame, Zenon DEF ApplyFails, Types
<1> QED
  BY <1>2, <1>3, <1>4, <1>5, <1>6, Zenon

LEMMA HubEntry ==
  ASSUME Inv, NEW i \in 1..Len(hub)
  PROVE  hub[i] \in Entries /\ hub[i].start \in Nat /\ hub[i].end \in Nat
         /\ hub[i].daHeight \in 1..daHeight
<1>0. Types
  BY Zenon DEF Inv
<1>1. hub[i] \in Entries /\ hub[i].daHeight <= daHeight
  <2>1. hub[i] \in Entries /\ i \in DOMAIN hub
    BY <1>0, Numbers, Zenon
  <2> QED
    BY <2>1, Zenon DEF Inv, HubSound
<1>2. /\ hub[i].start \in 1..MaxHeight /\ hub[i].end \in 1..MaxHeight
      /\ hub[i].daHeight \in 1..MaxDAHeight
  BY <1>1, Zenon DEF Entries
<1>3. hub[i].start \in Nat /\ hub[i].end \in Nat
  BY <1>2, DAAssumption
<1>4. hub[i].daHeight \in 1..daHeight
  BY <1>0, <1>1, <1>2, Numbers
<1> QED
  BY <1>1, <1>3, <1>4, Zenon

\* The batch after the state index starts at the next height or below.
LEMMA RetrieveBatchStep ==
  ASSUME Inv, RetrieveBatch
  PROVE  Inv'
<1>1. Types /\ RetKnows /\ Applied(index, height) /\ DOMAIN hub = 1..Len(hub)
  BY DEF Inv, NodeSound, Types
<1>2. /\ ret' = [ret EXCEPT !.pc = "fetch", !.entry = index + 1]
      /\ index + 1 \in 1..Len(hub) /\ ret.pc = "sync"
      /\ UNCHANGED <<diode, height, index, disk, setter>> /\ RetOnly
  BY <1>1, Zenon DEF RetrieveBatch, state
<1>3. /\ ret' \in RetRecords /\ ret'.pc = "fetch" /\ ret'.entry = index + 1
      /\ ret'.i = 0
  <2>1. ret \in RetRecords /\ ret.i = 0 /\ index + 1 \in Nat
    BY <1>1, <1>2 DEF Types, RetKnows
  <2> QED
    BY <1>2, <2>1, Zenon DEF RetRecords
<1>4. hub[index + 1].start <= height + 1
  <2>1. CASE index = 0
    <3>1. hub[1].start = 1
      BY <1>1, <1>2, <2>1 DEF Inv, HubSound
    <3> QED
      BY <1>1, <2>1, <3>1, Numbers
  <2>2. CASE index > 0
    <3>1. hub[index + 1].start = hub[index].end + 1 /\ hub[index].end <= height
      <4>1. index + 1 \in DOMAIN hub /\ index + 1 > 1 /\ (index + 1) - 1 = index
        BY <1>1, <1>2, <2>2, Numbers
      <4>2. hub[index + 1].start = hub[(index + 1) - 1].end + 1
        BY <4>1, Zenon DEF Inv, HubSound
      <4> QED
        BY <1>1, <2>2, <4>1, <4>2, Zenon DEF Applied
    <3>2. hub[index].end \in Nat
      <4>1. index \in 1..Len(hub)
        BY <1>1, <2>2, Numbers DEF Applied
      <4> QED
        BY <4>1, HubEntry, Zenon
    <3> QED
      BY <1>1, <3>1, <3>2, Numbers
  <2> QED
    BY <1>1, <2>1, <2>2, Numbers
<1>5. Types'
  BY <1>1, <1>2, <1>3, Zenon DEF Types, RetOnly, daVars, chain, hubVars, events
<1>6. NodeSound'
  BY <1>2, Zenon DEF Inv, RetOnly, NodeSound, Applied, hubVars
<1>7. RetKnows'
  BY <1>2, <1>3, <1>4, Zenon DEF RetKnows, RetOnly, hubVars
<1> QED
  BY <1>2, <1>5, <1>6, <1>7, NodeFrame, Zenon DEF RetOnly

\* RetrieveBatches returns the batch that the hub named, among others.
LEMMA FetchBatchStep ==
  ASSUME Inv, FetchBatch
  PROVE  Inv'
<1>1. Types /\ RetKnows /\ RetOnly /\ UNCHANGED <<diode, state, setter>> /\ ret.pc = "fetch"
  BY Zenon DEF Inv, FetchBatch
<1>2. CASE Abort
  BY <1>1, <1>2, AbortType, RetFrame, Zenon DEF Types
<1>3. CASE ~Abort
  <2> DEFINE h == hub[ret.entry].daHeight
  <2>1. /\ ret.entry \in 1..Len(hub) /\ hub[ret.entry].start <= height + 1 /\ ret.i = 0
        /\ ret \in RetRecords
    BY <1>1, Zenon DEF RetKnows, Types
  <2>2. /\ h \in 1..daHeight /\ h \in 1..MaxDAHeight /\ On(BatchOf(hub[ret.entry]), h)
        /\ hub[ret.entry].start \in Nat
    <3>1. h \in 1..daHeight /\ hub[ret.entry].start \in Nat
      BY <2>1, HubEntry, Zenon
    <3>2. ret.entry \in DOMAIN hub
      BY <1>1, <2>1, Numbers, Zenon
    <3>3. On(BatchOf(hub[ret.entry]), h)
      BY <3>2, Zenon DEF Inv, HubSound
    <3> QED
      <4>1. h \in 1..MaxDAHeight
        BY <1>1, <3>1, Numbers
      <4> QED
        BY <3>1, <3>3, <4>1, Zenon
  <2>3. ret' = [ret EXCEPT !.pc = "apply", !.todo = da[h]]
    BY <1>1, <1>3, Zenon DEF FetchBatch, BatchesAt, Types
  <2> HIDE DEF h
  <2>4. da[h] \in Seq(Batches)
    BY <1>1, <2>2, Zenon DEF Types
  <2>5. /\ ret' \in RetRecords /\ ret'.pc = "apply" /\ ret'.entry = ret.entry /\ ret'.i = 0
        /\ ret'.todo = da[h]
    BY <2>1, <2>3, <2>4, Zenon DEF RetRecords
  <2>6. Types'
    BY <1>1, <2>5, Zenon DEF Types, RetOnly, daVars, chain, hubVars, state, events
  <2>7. NodeSound'
    BY <1>1, Zenon DEF Inv, RetOnly, NodeSound, Applied, hubVars, state
  <2>8. PICK k \in DOMAIN da[h] : da[h][k] = BatchOf(hub[ret.entry])
    BY <2>2, Zenon DEF On
  <2>9. k = 1 => Block' <= height + 1
    <3> SUFFICES ASSUME k = 1 PROVE Block' <= height + 1
      BY Zenon
    <3>1. da[h] # <<>> /\ Head(da[h]) = da[h][1]
      BY <2>4, <2>8
    <3>2. Block' = hub[ret.entry].start + 0
      BY <2>5, <2>8, <3>1 DEF Block, BatchOf
    <3> QED
      BY <2>1, <2>2, <3>2
  <2>10. RetKnows'
    BY <1>1, <2>1, <2>5, <2>8, <2>9, Zenon DEF RetKnows, RetOnly, hubVars, state, BatchOf
  <2> QED
    BY <1>1, <2>6, <2>7, <2>10, NodeFrame, Zenon DEF RetOnly
<1> QED
  BY <1>2, <1>3, Zenon

\* A block above the next height stands in no way of the batch of the hub.
LEMMA ApplyNextStep ==
  ASSUME Inv, ApplyNext
  PROVE  Inv'
<1>1. /\ Types /\ RetKnows /\ RetOnly /\ UNCHANGED <<diode, index, setter>>
      /\ ret.pc = "apply" /\ ret.todo # <<>> /\ gossip = None
  BY Zenon DEF Inv, ApplyNext
<1>2. /\ ret \in RetRecords /\ ret.todo \in Seq(Batches) /\ Len(ret.todo) \in Nat \ {0}
      /\ DOMAIN ret.todo = 1..Len(ret.todo) /\ ret.i \in Nat /\ height \in Nat
      /\ Head(ret.todo) = ret.todo[1] /\ ret.todo[1] \in Batches
  <2>1. ret \in RetRecords /\ height \in Nat
    BY <1>1, Zenon DEF Types
  <2>2. ret.todo \in Seq(Batches) /\ ret.i \in Nat
    BY <2>1, Zenon DEF RetRecords
  <2> QED
    BY <1>1, <2>1, <2>2
<1>3. Block \in Nat /\ ret.todo[1].end \in Nat /\ Block = ret.todo[1].start + ret.i
      /\ ret.todo[1].start \in Nat
  <2>1. ret.todo[1].start \in Nat /\ ret.todo[1].end \in Nat
    BY <1>2, DAAssumption DEF Batches
  <2> QED
    BY <1>2, <2>1 DEF Block
<1>4. /\ height' = height \/ height' = height + 1
      /\ Block = height + 1 => height' = height + 1
      /\ disk' = disk \/ disk' = [height |-> height', index |-> index]
  BY Zenon DEF ApplyNext
<1>h. height \in Nat /\ height' \in Nat /\ height <= height' /\ index \in Nat
  <2>1. height \in Nat /\ index \in Nat
    BY <1>1, Numbers, Zenon
  <2> QED
    BY <1>4, <2>1
<1>5. \/ Block < ret.todo[1].end /\ ret' = [ret EXCEPT !.i = @ + 1]
      \/ Block >= ret.todo[1].end /\ ret' = [ret EXCEPT !.todo = Tail(ret.todo), !.i = 0]
  BY <1>2, <1>3 DEF ApplyNext
<1>6. /\ Tail(ret.todo) \in Seq(Batches) /\ Len(Tail(ret.todo)) = Len(ret.todo) - 1
      /\ DOMAIN Tail(ret.todo) = 1..(Len(ret.todo) - 1)
      /\ \A k \in 1..(Len(ret.todo) - 1) : Tail(ret.todo)[k] = ret.todo[k + 1]
      /\ Tail(ret.todo) # <<>> => Head(Tail(ret.todo)) = Tail(ret.todo)[1]
  BY <1>2
<1>7. ret' \in RetRecords /\ ret'.pc = "apply" /\ ret'.entry = ret.entry
  <2>1. CASE ret' = [ret EXCEPT !.i = @ + 1]
    <3>1. ret' = [ret EXCEPT !.i = ret.i + 1] /\ ret.i + 1 \in Nat
      BY <1>2, <2>1
    <3> QED
      BY <1>1, <1>2, <3>1, Zenon DEF RetRecords
  <2>2. CASE ret' = [ret EXCEPT !.todo = Tail(ret.todo), !.i = 0]
    BY <1>1, <1>2, <1>6, <2>2, Zenon DEF RetRecords
  <2> QED
    BY <1>5, <2>1, <2>2, Zenon
<1>8. Types'
  <2>1. disk \in [height : Nat, index : Nat]
    BY <1>1, Zenon DEF Types
  <2>2. disk' \in [height : Nat, index : Nat]
    BY <1>4, <1>h, <2>1
  <2> QED
    BY <1>1, <1>7, <1>h, <2>2, Zenon DEF Types, RetOnly, daVars, chain, hubVars, events
<1>9. NodeSound'
  <2>1. Applied(index, height) /\ Applied(disk.index, disk.height)
    BY Zenon DEF Inv, NodeSound
  <2>2. Applied(index, height')
    <3>1. index > 0 => hub[index].end \in Nat
      BY <1>h, <2>1, HubEntry DEF Applied
    <3> QED
      BY <1>h, <2>1, <3>1 DEF Applied
  <2>3. Applied(disk'.index, disk'.height)
    BY <1>4, <2>1, <2>2
  <2> QED
    BY <1>1, <2>2, <2>3, Zenon DEF RetOnly, NodeSound, Applied, hubVars
<1>10. RetKnows'
  <2> DEFINE e == hub[ret.entry]
  <2>1. /\ ret.entry \in 1..Len(hub) /\ e.start <= height + 1
        /\ e.start \in Nat /\ e.end \in Nat
    BY <1>1, HubEntry, Zenon DEF RetKnows
  <2>2. \/ e.end <= height
        \/ \E k \in DOMAIN ret.todo : ret.todo[k] = BatchOf(e) /\ (k = 1 => Block <= height + 1)
    BY <1>1, Zenon DEF RetKnows
  <2>3. hub' = hub /\ BatchOf(e)' = BatchOf(e)
    BY <1>1, <1>7, Zenon DEF RetOnly, hubVars, BatchOf
  <2>4. BatchOf(e).start = e.start /\ BatchOf(e).end = e.end
    BY Zenon DEF BatchOf
  <2> HIDE DEF e
  <2> DEFINE Ahead == \E k \in DOMAIN ret'.todo :
                        ret'.todo[k] = BatchOf(e) /\ (k = 1 => Block' <= height' + 1)
  <2>5. e.end <= height' \/ Ahead
    <3>1. CASE e.end <= height
      BY <1>h, <2>1, <3>1
    <3>2. ASSUME NEW k \in DOMAIN ret.todo, ret.todo[k] = BatchOf(e), k = 1,
                 Block <= height + 1
          PROVE  e.end <= height' \/ Ahead
      <4>1. Block <= height'
        <5>1. Block \in Nat /\ Block <= height + 1
          BY <1>3, <3>2, Zenon
        <5> QED
          BY <1>4, <1>h, <5>1
      <4>2. CASE Block < ret.todo[1].end /\ ret' = [ret EXCEPT !.i = @ + 1]
        <5>1. ret'.todo = ret.todo /\ ret'.i = ret.i + 1
          BY <1>2, <4>2, Zenon DEF RetRecords
        <5>2. Block' = Block + 1
          <6>1. Block' = ret.todo[1].start + (ret.i + 1)
            BY <1>2, <5>1, Zenon DEF Block
          <6>2. ret.i \in Nat /\ ret.todo[1].start \in Nat /\ Block = ret.todo[1].start + ret.i
            BY <1>2, <1>3, Zenon
          <6> QED
            BY <6>1, <6>2
        <5>3. Block' <= height' + 1
          BY <1>3, <1>h, <4>1, <5>2
        <5> QED
          BY <3>2, <5>1, <5>3, Zenon
      <4>3. CASE Block >= ret.todo[1].end
        <5>1. ret.todo[1].end = e.end /\ Block \in Nat /\ e.end \in Nat
          BY <1>3, <2>1, <2>4, <3>2, Zenon
        <5> QED
          BY <1>h, <4>1, <4>3, <5>1
      <4> QED
        BY <1>5, <4>2, <4>3, Zenon
    <3>3. ASSUME NEW k \in DOMAIN ret.todo, ret.todo[k] = BatchOf(e), k # 1
          PROVE  Ahead
      <4>1. CASE ret' = [ret EXCEPT !.i = @ + 1]
        <5>1. ret'.todo = ret.todo
          BY <1>2, <4>1, Zenon DEF RetRecords
        <5> QED
          BY <3>3, <5>1, Zenon
      <4>2. CASE ret' = [ret EXCEPT !.todo = Tail(ret.todo), !.i = 0]
        <5>1. ret'.todo = Tail(ret.todo) /\ ret'.i = 0
          BY <1>2, <4>2, Zenon DEF RetRecords
        <5>2. k - 1 \in DOMAIN ret'.todo /\ ret'.todo[k - 1] = BatchOf(e)
          <6>1. k - 1 \in 1..(Len(ret.todo) - 1) /\ (k - 1) + 1 = k
            BY <1>2, <3>3
          <6>2. Tail(ret.todo)[k - 1] = ret.todo[k]
            BY <1>6, <6>1, Zenon
          <6> QED
            BY <1>6, <3>3, <5>1, <6>1, <6>2, Zenon
        <5>3. k - 1 = 1 => Block' = e.start
          <6> SUFFICES ASSUME k - 1 = 1 PROVE Block' = e.start
            BY Zenon
          <6>1. Head(Tail(ret.todo)) = BatchOf(e)
            BY <1>6, <5>1, <5>2
          <6>2. Block' = e.start + 0
            BY <2>4, <5>1, <6>1, Zenon DEF Block
          <6> QED
            BY <2>1, <6>2
        <5>4. e.start <= height' + 1
          BY <1>h, <2>1
        <5> QED
          BY <5>2, <5>3, <5>4, Zenon
      <4> QED
        BY <1>5, <4>1, <4>2, Zenon
    <3> QED
      BY <2>2, <3>1, <3>2, <3>3, Zenon
  <2>6. ret'.todo = <<>> => ret'.i = 0
    BY <1>1, <1>2, <1>5, Zenon DEF RetRecords
  <2>7. e.start <= height' + 1
    BY <1>h, <2>1
  <2> QED
    BY <1>7, <2>1, <2>3, <2>5, <2>6, <2>7, Zenon DEF RetKnows, e
<1> QED
  BY <1>1, <1>8, <1>9, <1>10, NodeFrame, Zenon DEF RetOnly

\* The state index moves on when the blocks of its batch are applied.
LEMMA UpdateStateIndexStep ==
  ASSUME Inv, UpdateStateIndex
  PROVE  Inv'
<1>1. /\ Types /\ RetKnows /\ RetOnly /\ UNCHANGED <<diode, height, setter>>
      /\ ret.pc = "apply" /\ ret.todo = <<>> /\ index' = ret.entry
  BY Zenon DEF Inv, UpdateStateIndex
<1>2. /\ ret.entry \in 1..Len(hub) /\ hub[ret.entry].end <= height /\ ret.i = 0
      /\ ret \in RetRecords /\ ret.entry \in Nat /\ height \in Nat
  <2>1. ret \in RetRecords /\ height \in Nat
    BY <1>1, Zenon DEF Types
  <2>2. ret.entry \in 1..Len(hub) /\ ret.i = 0
    BY <1>1, Zenon DEF RetKnows
  <2>3. hub[ret.entry].end <= height
    BY <1>1 DEF RetKnows
  <2> QED
    BY <2>1, <2>2, <2>3
<1>3. disk' = disk \/ disk' = [height |-> height, index |-> ret.entry]
  BY Zenon DEF UpdateStateIndex
<1>4. ret' \in RetRecords /\ ret'.pc \in {"sync", "done"} /\ ret'.i = 0
  <2>1. CASE Abort
    BY <2>1, AbortType, Zenon
  <2>2. CASE ret' = [ret EXCEPT !.pc = "sync", !.cur = height]
    BY <1>2, <2>2, Zenon DEF RetRecords
  <2> QED
    BY <2>1, <2>2, Zenon DEF UpdateStateIndex
<1>5. Types'
  <2>1. disk' \in [height : Nat, index : Nat]
    <3>1. disk \in [height : Nat, index : Nat]
      BY <1>1, Zenon DEF Types
    <3> QED
      <4>1. [height |-> height, index |-> ret.entry] \in [height : Nat, index : Nat]
        BY <1>2, Zenon
      <4> QED
        BY <1>3, <3>1, <4>1, Zenon
  <2> QED
    BY <1>1, <1>2, <1>4, <2>1, Zenon DEF Types, RetOnly, daVars, chain, hubVars, events
<1>6. Applied(ret.entry, height)
  <2>1. ret.entry \in 1..Len(hub) /\ hub[ret.entry].end <= height /\ Len(hub) \in Nat
    BY <1>1, <1>2, Numbers, Zenon
  <2>2. ret.entry \in 0..Len(hub)
    BY <2>1
  <2> QED
    BY <2>1, <2>2, Zenon DEF Applied
<1>7. NodeSound'
  <2>1. (Applied(index, height) /\ (gossip # None => Applied(gossip, height)))'
    BY <1>1, <1>6, Zenon DEF Inv, RetOnly, NodeSound, Applied, hubVars
  <2>2. CASE disk' = disk
    BY <1>1, <2>1, <2>2, Zenon DEF Inv, RetOnly, NodeSound, Applied, hubVars
  <2>3. CASE disk' = [height |-> height, index |-> ret.entry]
    BY <1>1, <1>6, <2>1, <2>3, Zenon DEF RetOnly, NodeSound, Applied, hubVars
  <2> QED
    BY <1>3, <2>2, <2>3, Zenon
<1>8. RetKnows'
  BY <1>4, Zenon DEF RetKnows
<1> QED
  BY <1>1, <1>5, <1>7, <1>8, NodeFrame, Zenon DEF RetOnly

-----------------------------------------------------------------------------
(* Gossip *)

LEMMA GossipStartsStep ==
  ASSUME Inv, GossipStarts
  PROVE  Inv'
<1>1. gossip' = index /\ UNCHANGED <<daVars, hubVars, state, targets, events, setter, ret>>
  BY Zenon DEF GossipStarts
<1>2. Types'
  BY <1>1, Zenon DEF Inv, Types, daVars, chain, hubVars, state, targets, events
<1>3. NodeSound' /\ RetKnows'
  BY <1>1, Zenon DEF Inv, NodeSound, RetKnows, Applied, Block, hubVars, state
<1> QED
  BY <1>1, <1>2, <1>3, NodeFrame, Zenon

\* A gossiped block that ends may take the state index back, never ahead.
LEMMA GossipEndsStep ==
  ASSUME Inv, GossipEnds
  PROVE  Inv'
<1>1. /\ height' = height + 1 /\ index' = gossip /\ gossip' = None /\ gossip # None
      /\ disk' = [height |-> height + 1, index |-> gossip]
      /\ UNCHANGED <<daVars, hubVars, targets, events, setter, ret>>
  BY Zenon DEF GossipEnds
<1>2. Types /\ gossip \in Nat /\ Applied(gossip, height)
  BY <1>1, Zenon DEF Inv, Types, NodeSound
<1>h. height \in Nat
  BY <1>2, Numbers, Zenon
<1>3. Types'
  <2>1. height' \in Nat /\ index' \in Nat /\ disk' \in [height : Nat, index : Nat]
    BY <1>1, <1>2, <1>h
  <2> QED
    BY <1>1, <1>2, <2>1, Zenon DEF Types, daVars, chain, hubVars, targets, events
<1>4. Applied(gossip, height + 1)
  <2>1. gossip > 0 => hub[gossip].end \in Nat
    BY <1>2, HubEntry DEF Applied
  <2> QED
    BY <1>2, <1>h, <2>1 DEF Applied
<1>5. NodeSound'
  BY <1>1, <1>4, Zenon DEF NodeSound, Applied, hubVars
<1>6. RetKnows'
  <2>1. ret.pc \in {"fetch", "apply"} =>
          /\ ret.entry \in 1..Len(hub) /\ hub[ret.entry].start <= height + 2
          /\ hub[ret.entry].end \in Nat
    <3> SUFFICES ASSUME ret.pc \in {"fetch", "apply"}
                 PROVE  /\ ret.entry \in 1..Len(hub) /\ hub[ret.entry].start <= height + 2
                        /\ hub[ret.entry].end \in Nat
      BY Zenon
    <3>1. ret.entry \in 1..Len(hub) /\ hub[ret.entry].start <= height + 1
      BY Zenon DEF Inv, RetKnows
    <3>2. hub[ret.entry].start \in Nat /\ hub[ret.entry].end \in Nat
      BY <3>1, HubEntry, Zenon
    <3> QED
      BY <1>h, <3>1, <3>2
  <2>2. ret.pc = "apply" /\ ret.todo # <<>> => Block \in Nat
    <3> SUFFICES ASSUME ret.todo # <<>> PROVE Block \in Nat
      BY Zenon
    <3>1. ret.todo \in Seq(Batches) /\ ret.i \in Nat
      BY <1>2, Zenon DEF Types, RetRecords
    <3>2. Head(ret.todo) \in Batches
      BY <3>1
    <3>3. Head(ret.todo).start \in Nat
      BY <3>2, DAAssumption DEF Batches
    <3> QED
      BY <3>1, <3>3 DEF Block
  <2>3. UNCHANGED <<ret, hub, Block>>
    BY <1>1, Zenon DEF Block, hubVars
  <2>4. ASSUME ret.pc = "apply"
        PROVE  \/ hub[ret.entry].end <= height + 1
               \/ \E k \in DOMAIN ret.todo :
                    ret.todo[k] = BatchOf(hub[ret.entry]) /\ (k = 1 => Block <= height + 2)
    <3>1. CASE hub[ret.entry].end <= height
      <4>1. hub[ret.entry].end \in Nat
        BY <2>1, <2>4, Zenon
      <4> QED
        BY <1>h, <3>1, <4>1
    <3>2. ASSUME NEW k \in DOMAIN ret.todo, ret.todo[k] = BatchOf(hub[ret.entry]),
                 k = 1 => Block <= height + 1
          PROVE  k = 1 => Block <= height + 2
      <4>1. ret.todo # <<>>
        BY <3>2
      <4> QED
        BY <1>h, <2>2, <2>4, <3>2, <4>1
    <3> QED
      BY <2>4, <3>1, <3>2, Zenon DEF Inv, RetKnows
  <2>5. (height + 1) + 1 = height + 2
    BY <1>h
  <2> QED
    BY <1>1, <2>1, <2>3, <2>4, <2>5, Zenon DEF Inv, RetKnows, BatchOf
<1> QED
  BY <1>1, <1>3, <1>5, <1>6, NodeFrame, Zenon

-----------------------------------------------------------------------------
(* The theorems *)

LEMMA InitInv ==
  ASSUME NoMock, Init
  PROVE  Inv
<1>1. client \in {"celestia", "avail"}
  BY DAAssumption, Zenon DEF Init, DAInit, NoMock, ClientKinds
<1>2. sub \in SubRecords /\ sub.pc = "idle"
  <2>1. 0 \in 0..MaxDAHeight
    BY DAAssumption
  <2> QED
    BY <2>1, Zenon DEF Init, DAInit, Idle, SubRecords
<1>3. ret \in RetRecords /\ ret.pc = "wait" /\ ret.i = 0
  <2>1. <<>> \in Seq(Batches)
    OBVIOUS
  <2> QED
    BY <2>1, Zenon DEF Init, Waiting, RetRecords
<1>4. setter \in [Setters -> SetterRecords]
  BY Zenon DEF Init, Starting, Setters, SetterRecords
<1>5. da \in [1..MaxDAHeight -> Seq(Batches)] /\ daHeight \in 1..MaxDAHeight
      /\ txs \in Seq(Transactions) /\ DOMAIN txs = {}
  BY DAAssumption DEF Init, DAInit
<1>6. Types
  <2>1. /\ hub \in Seq(Entries) /\ hubIndex = Len(hub) /\ queue \in Seq(Nat)
    BY DEF Init
  <2>2. /\ height \in Nat /\ index \in Nat /\ gossip \in Nat \cup {None}
        /\ disk \in [height : Nat, index : Nat]
        /\ syncTarget \in Nat /\ diode \in Nat \cup {None}
    BY Zenon DEF Init
  <2> QED
    BY <1>1, <1>2, <1>3, <1>4, <1>5, <2>1, <2>2, Zenon DEF Types
<1>7. TxsIncluded
  BY <1>5, Zenon DEF TxsIncluded
<1>8. SubKnows
  BY <1>2, Zenon DEF SubKnows
<1>9. HubSound
  <2>1. DOMAIN hub = {}
    BY DEF Init
  <2> QED
    BY <2>1, Zenon DEF HubSound
<1>10. NodeSound
  <2>1. index = 0 /\ disk.index = 0 /\ gossip = None /\ Len(hub) \in Nat
    BY <1>6, Zenon DEF Init, Types
  <2> QED
    BY <2>1 DEF NodeSound, Applied
<1>11. RetKnows
  BY <1>3, Zenon DEF RetKnows
<1> QED
  BY <1>6, <1>7, <1>8, <1>9, <1>10, <1>11, Zenon DEF Inv

LEMMA SequencerStep ==
  ASSUME Inv, Sequencer
  PROVE  Inv'
<1>1. client # "mock"
  BY Zenon DEF Inv, Types
<1>2. CASE StartBatch
  BY <1>2, StartBatchStep, Zenon
<1>3. CASE SequencerSubmits
  <2>1. UNCHANGED <<hubVars, state, targets, events, setter, ret, gossip>>
    BY <1>3, Zenon DEF SequencerSubmits
  <2>2. \/ SubmitPFBFails \/ SubmitPFBPending \/ BroadcastTx \/ SubmitPFBIncluded
        \/ PollFails \/ BroadcastTxFails \/ ConfigError \/ Included
    BY <1>1, <1>3, Zenon DEF SequencerSubmits, SubmitStep, SetKey, SetBlob
  <2> QED
    BY <2>1, <2>2, SendSteps, SubmitPFBIncludedStep, PollFailsStep, BroadcastTxFailsStep,
       IncludedStep, Zenon
<1>4. CASE DALayer
  BY <1>1, <1>4, DABlockStep, Zenon DEF DALayer, UpdateDAHeight
<1>5. CASE HubAccepts
  BY <1>5, HubAcceptsStep
<1>6. CASE SequencerRestarts \/ SequencerStops
  BY <1>1, <1>6, SequencerEnds, Zenon
  DEF SequencerRestarts, SequencerStops, ClientRestarts, chain
<1> QED
  BY <1>1, <1>2, <1>3, <1>4, <1>5, <1>6, Zenon
  DEF Sequencer, MockSavesBatch, MockSavesIndex

LEMMA NextInv ==
  ASSUME Inv, [Next]_vars
  PROVE  Inv'
<1>1. CASE Sequencer
  BY <1>1, SequencerStep, Zenon
<1>2. CASE Boot \/ Crash
  BY <1>2, BootStep, CrashStep, Zenon
<1>3. CASE \E s \in Setters : SyncTargetLoop(s)
  BY <1>3, SyncTargetLoopStep, Zenon
<1>4. CASE NewBatchAccepted \/ CheckSynced
  BY <1>4, SetterStep, Zenon
<1>5. CASE RetriveLoop
  BY <1>5, TargetStep, RetrieveBatchStep, FetchBatchStep, ApplyNextStep,
     UpdateStateIndexStep, Zenon
     DEF RetriveLoop
<1>6. CASE GossipStarts \/ GossipEnds
  BY <1>6, GossipStartsStep, GossipEndsStep
<1>7. CASE UNCHANGED vars
  <2>1. UNCHANGED <<daVars, hubVars, state, targets, events, setter, ret, gossip>>
    BY <1>7, Zenon DEF vars
  <2>2. Types'
    BY <2>1, Zenon DEF Inv, Types, daVars, chain, hubVars, state, targets, events
  <2> QED
    BY <2>1, <2>2, TargetFrame, Zenon
<1> QED
  BY <1>1, <1>2, <1>3, <1>4, <1>5, <1>6, <1>7, Zenon DEF Next

LEMMA AlwaysInv ==
  ASSUME NoMock
  PROVE  Spec => []Inv
  BY InitInv, NextInv, PTL DEF Spec

\* With Celestia or Avail, SubmitBatch never lets the hub accept a batch that
\* RetrieveBatches does not find at the DA height the hub names.
THEOREM SettledBatchesAreRetrievable ==
  ASSUME NoMock
  PROVE  Spec => []SettledIsRetrievable
<1>1. ASSUME Inv PROVE SettledIsRetrievable
  <2> SUFFICES ASSUME NEW i \in 1..hubIndex
               PROVE  \E k \in DOMAIN BatchesAt(hub[i].daHeight) :
                        /\ BatchesAt(hub[i].daHeight)[k].start = hub[i].start
                        /\ BatchesAt(hub[i].daHeight)[k].end = hub[i].end
    BY Zenon DEF SettledIsRetrievable
  <2>1. BatchesAt(hub[i].daHeight) = da[hub[i].daHeight]
    BY <1>1, Zenon DEF BatchesAt, Inv, Types
  <2>2. PICK k \in DOMAIN da[hub[i].daHeight] : da[hub[i].daHeight][k] = BatchOf(hub[i])
    <3>1. i \in DOMAIN hub
      BY <1>1 DEF Inv, Types
    <3> QED
      BY <1>1, <3>1, Zenon DEF Inv, HubSound, On
  <2>3. BatchOf(hub[i]).start = hub[i].start /\ BatchOf(hub[i]).end = hub[i].end
    BY Zenon DEF BatchOf
  <2>4. k \in DOMAIN BatchesAt(hub[i].daHeight) /\ BatchesAt(hub[i].daHeight)[k] = BatchOf(hub[i])
    BY <2>1, <2>2, Zenon
  <2> QED
    BY <2>3, <2>4, Zenon
<1> QED
  BY <1>1, AlwaysInv, PTL

\* With Celestia or Avail, the state index of a node, in memory and on disk, never gets
\* ahead of its blocks, whatever syncUntilTarget, gossip and crashes do.
THEOREM StateIndexIsApplied ==
  ASSUME NoMock
  PROVE  Spec => []IndexIsApplied
<1>1. Inv => IndexIsApplied
  BY Zenon DEF Inv, NodeSound, Applied, IndexIsApplied
<1> QED
  BY <1>1, AlwaysInv, PTL

=============================================================================
