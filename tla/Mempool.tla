------------------------------- MODULE Mempool -------------------------------
(***************************************************************************)
(* The priority mempool (mempool/v1/mempool.go, mempool/cache.go), used by *)
(* three kinds of threads: RPC calls that broadcast a transaction          *)
(* (rpc/client/client.go), the validator of gossiped transactions          *)
(* (p2p/validator.go) and the block manager, which commits a block         *)
(* (state/executor.go).                                                    *)
(*                                                                         *)
(* The threads meet in two mutexes: that of the mempool, and that of the   *)
(* application, which the in-process ABCI client holds during a call and   *)
(* during the response callback the mempool has set (external).  The       *)
(* second one matters because the mempool gives up its own lock around its *)
(* calls.  A step of the model is a section of code under one lock.        *)
(*                                                                         *)
(* A transaction is a model value; its size, gas and sender are constants, *)
(* its priority and validity are what the application answers at the time. *)
(* The order of the list is the order of the timestamps.                   *)
(***************************************************************************)
EXTENDS CList, FiniteSetsExt

CONSTANTS
  Txs,           \* the transactions
  TxSize,        \* their sizes in bytes
  GasWanted,     \* the gas they want
  Sender,        \* the sender the application names, or NoSender
  NoSender,      \* the empty sender, not restricted to one transaction
  Priorities,    \* the priorities the application gives
  Callers,       \* threads that call CheckTx
  IsValidator,   \* those of them that are gossip validators, not RPC calls
  AppErrors,     \* TRUE iff the connection to the application may report errors
  MaxSize,       \* config.Size
  MaxTxsBytes,   \* config.MaxTxsBytes
  MaxTxBytes,    \* config.MaxTxBytes
  CacheSize,     \* config.CacheSize, 0 for no cache
  KeepInvalid,   \* config.KeepInvalidTxsInCache
  Recheck,       \* config.Recheck
  TTLNumBlocks,  \* config.TTLNumBlocks, 0 for no limit
  MaxBytes,      \* ConsensusParams.Block.MaxBytes
  MaxGas,        \* ConsensusParams.Block.MaxGas, negative for no limit
  MaxBlockTxs,   \* bound: transactions of a committed block
  MaxHeight,     \* bound: blocks
  MaxCalls       \* bound: calls of CheckTx and Flush

ASSUME MempoolConstants ==
  /\ TxSize \in [Txs -> Nat] /\ GasWanted \in [Txs -> Nat]
  /\ IsValidator \subseteq Callers /\ NoSender # Nil
  /\ Priorities \subseteq Int /\ Elems \subseteq Nat
  /\ {MaxSize, MaxTxsBytes, MaxTxBytes, CacheSize, TTLNumBlocks, MaxBytes} \subseteq Nat
  /\ MaxGas \in Int

\* The runtime always finds memory for a new element, besides those of a full pool and
\* the one that the recheck loop holds.
ASSUME EnoughElems == IsFiniteSet(Elems) => Cardinality(Elems) >= MaxSize + 2

Senders == {Sender[t] : t \in Txs} \ {NoSender}

VARIABLES
  mp,        \* what the mempool's mutex protects, see NewTxMempool
  height,    \* the height of the last Update; preCheck and postCheck are set iff > 0
  txRecheck, \* the recheck responses still expected; -1 for any negative number
  mtx,       \* holder of the mempool's mutex across steps: "committer" or "free"
  appMtx,    \* the caller that holds the application's mutex across steps, or Nil
  call,      \* per caller: where it is, its transaction and the answer it got
  com,       \* the committing thread: where it is, and its recheck cursor
  calls,     \* calls of CheckTx and Flush so far
  forgotten  \* history: transactions the cache lost while they were on their way
             \* into the pool or in it

vars == <<mp, height, txRecheck, mtx, appMtx, call, com, calls, forgotten>>

-----------------------------------------------------------------------------

\* A loop over q: op, with what the loop has computed so far, for each element in order.
Loop(op(_, _), base, q) ==
  LET done[i \in 0..Len(q)] == IF i = 0 THEN base ELSE op(done[i - 1], q[i])
  IN  done[Len(q)]

-----------------------------------------------------------------------------
(* The cache of seen transactions: the keys, least recently pushed first *)

Seen(cache, t) == t \in Range(cache)

\* LRUTxCache.Remove; the cache holds a key at most once.
CacheRemove(cache, t) ==
  LET i == CHOOSE i \in DOMAIN cache : cache[i] = t IN
  IF Seen(cache, t) THEN SubSeq(cache, 1, i - 1) \o SubSeq(cache, i + 1, Len(cache)) ELSE cache

\* Mutant: a full cache takes no more transactions.
CachePush_Full(cache, t) ==
  IF Seen(cache, t) \/ Len(cache) >= CacheSize THEN cache ELSE Append(cache, t)

\* LRUTxCache.Push; NopTxCache if the size is 0.
CachePush(cache, t) ==
  IF CacheSize = 0 THEN <<>>
  ELSE IF Seen(cache, t) THEN Append(CacheRemove(cache, t), t)
  ELSE IF Len(cache) >= CacheSize THEN Append(Tail(cache), t)
  ELSE Append(cache, t)

-----------------------------------------------------------------------------
(* The pool.  Removing and inserting keep the list, the two indexes and    *)
(* the byte count together.                                                *)

NoWtx == [tx |-> Nil, height |-> 0, priority |-> 0]

NewTxMempool ==
  [txs |-> NewList, wtx |-> [e \in Elems |-> NoWtx],
   txByKey |-> [t \in Txs |-> Nil], txBySender |-> [s \in Senders |-> Nil],
   txsBytes |-> 0, cache |-> <<>>]

Listed(m) == Elems \ m.txs.removed

Size(m) == m.txs.len

\* Mutant: the sender stays taken when its transaction leaves.
RemoveTxByElement_KeepsSender(m, e) ==
  LET t == m.wtx[e].tx IN
  [m EXCEPT !.txByKey[t] = Nil, !.wtx[e] = NoWtx, !.txsBytes = @ - TxSize[t],
            !.txs = DetachNext(DetachPrev(ListRemove(@, e), e), e)]

RemoveTxByElement(m, e) ==
  LET t == m.wtx[e].tx IN
  [m EXCEPT !.txByKey[t] = Nil, !.wtx[e] = NoWtx, !.txsBytes = @ - TxSize[t],
            !.txBySender = [s \in Senders |-> IF s = Sender[t] THEN Nil ELSE @[s]],
            !.txs = DetachNext(DetachPrev(ListRemove(@, e), e), e)]

RemoveTxByKey(m, t) ==
  IF m.txByKey[t] = Nil THEN m ELSE RemoveTxByElement(m, m.txByKey[t])

InsertTx(m, e, w) ==
  [m EXCEPT !.txs = PushBack(@, e), !.wtx[e] = w, !.txByKey[w.tx] = e,
            !.txBySender = [s \in Senders |-> IF s = Sender[w.tx] THEN e ELSE @[s]],
            !.txsBytes = @ + TxSize[w.tx]]

CanAddTx(m, t) == Size(m) < MaxSize /\ TxSize[t] + m.txsBytes <= MaxTxsBytes

\* Where an element is in the list.  It stands for the timestamp, which the code takes
\* before the lock: of two concurrent calls the second in the list may have the earlier one.
Position(m, e) == CHOOSE i \in 1..Size(m) : Elements(m.txs)[i] = e

\* The elements of S, sorted (sort.Slice, external).
InOrder(S, Before(_, _)) ==
  CHOOSE q \in [1..Cardinality(S) -> S] : \A i, j \in DOMAIN q : i < j => Before(q[i], q[j])

\* The victims of a new transaction of that priority: lowest priority first, and
\* among equals the newest first.
Victims(m, priority) ==
  InOrder({e \in Listed(m) : m.wtx[e].priority < priority},
          LAMBDA d, e : \/ m.wtx[d].priority < m.wtx[e].priority
                        \/ m.wtx[d].priority = m.wtx[e].priority
                           /\ Position(m, d) > Position(m, e))

\* The transactions of the elements, weighed and added up.
Total(weight, m, elements) ==
  Loop(LAMBDA sum, e : sum + weight[m.wtx[e].tx], 0, elements)

SizeOf(m, elements) == Total(TxSize, m, elements)

\* Evicts the first victim, and on until size bytes are free.
Evict(m, victims, size) ==
  Loop(LAMBDA done, e :
         IF done.bytes >= size /\ done.m # m THEN done
         ELSE LET t == done.m.wtx[e].tx IN
              [bytes |-> done.bytes + TxSize[t],
               m |-> [RemoveTxByElement(done.m, e) EXCEPT !.cache = CacheRemove(@, t)]],
       [bytes |-> 0, m |-> m], victims).m

ForgetInvalid(m, t) ==
  IF KeepInvalid THEN m ELSE [m EXCEPT !.cache = CacheRemove(@, t)]

\* postCheck, set by the first Update.  (No application wants a negative amount of gas,
\* which the code refuses too.)
PostCheckMaxGas(t) == height > 0 /\ MaxGas # -1 => GasWanted[t] <= MaxGas

\* An element not in the list, nor held by the recheck loop.
FreeElem == CHOOSE e \in Elems : e \notin Listed(mp) /\ e # com.elem

\* Mutant: the victims' bytes are not compared with what the transaction needs.
InitialTxCallback_EvictsAnyway(m, w, ok) ==
  LET victims == Victims(m, w.priority) IN
  IF ~ok \/ ~PostCheckMaxGas(w.tx) THEN ForgetInvalid(m, w.tx)
  ELSE IF Sender[w.tx] \in Senders /\ m.txBySender[Sender[w.tx]] # Nil THEN m
  ELSE IF CanAddTx(m, w.tx) THEN InsertTx(m, FreeElem, w)
  ELSE IF victims = <<>>
       THEN [m EXCEPT !.cache = CacheRemove(@, w.tx)]
  ELSE InsertTx(Evict(m, victims, TxSize[w.tx]), FreeElem, w)

\* initialTxCallback: the transaction w, with the application's verdict, enters the
\* pool, at the cost of less important ones if it is full.
InitialTxCallback(m, w, ok) ==
  LET victims == Victims(m, w.priority) IN
  IF ~ok \/ ~PostCheckMaxGas(w.tx) THEN ForgetInvalid(m, w.tx)
  ELSE IF Sender[w.tx] \in Senders /\ m.txBySender[Sender[w.tx]] # Nil THEN m
  ELSE IF CanAddTx(m, w.tx) THEN InsertTx(m, FreeElem, w)
  ELSE IF victims = <<>> \/ SizeOf(m, victims) < TxSize[w.tx]
       THEN [m EXCEPT !.cache = CacheRemove(@, w.tx)]
  ELSE InsertTx(Evict(m, victims, TxSize[w.tx]), FreeElem, w)

\* The part of recheckTxCallback under the lock: the application's second verdict.
RecheckTxCallback(m, t, ok, priority) ==
  IF m.txByKey[t] = Nil THEN m
  ELSE IF ok /\ PostCheckMaxGas(t)
       THEN [m EXCEPT !.wtx[m.txByKey[t]].priority = priority]
  ELSE ForgetInvalid(RemoveTxByElement(m, m.txByKey[t]), t)

PurgeExpiredTxs(m, blockHeight) ==
  Loop(LAMBDA n, e :
         LET w == n.wtx[e] IN
         IF TTLNumBlocks > 0 /\ blockHeight - w.height > TTLNumBlocks
         THEN [RemoveTxByElement(n, e) EXCEPT !.cache = CacheRemove(@, w.tx)]
         ELSE n,
       m, Elements(m.txs))

\* Update, up to the recheck: block is a sequence of transactions and results.
Update(m, blockHeight, block) ==
  PurgeExpiredTxs(Loop(LAMBDA n, d :
                         RemoveTxByKey(IF d.ok
                                       THEN [n EXCEPT !.cache = CachePush(@, d.tx)]
                                       ELSE ForgetInvalid(n, d.tx),
                                       d.tx),
                       m, block),
                  blockHeight)

-----------------------------------------------------------------------------
(* Reaping a block *)

\* Highest priority first, then oldest first.
AllEntriesSorted(m) ==
  InOrder({m.txByKey[t] : t \in Txs} \ {Nil},
          LAMBDA d, e : \/ m.wtx[d].priority > m.wtx[e].priority
                        \/ m.wtx[d].priority = m.wtx[e].priority
                           /\ Position(m, d) < Position(m, e))

\* types.ComputeProtoSizeForTxs of one transaction: a tag, and the length as a varint
\* with seven bits in each byte (transactions have less than 2^35 bytes).
ProtoSize ==
  [t \in Txs |-> 1 + (1 + Cardinality({k \in 1..4 : TxSize[t] >= 2^(7 * k)})) + TxSize[t]]

\* Mutant: the bytes are compared without the encoding's overhead.
Fits_RawBytes(entries, m) ==
  /\ MaxGas >= 0 => Total(GasWanted, m, entries) <= MaxGas
  /\ Total(TxSize, m, entries) <= MaxBytes

Fits(entries, m) ==
  /\ MaxGas >= 0 => Total(GasWanted, m, entries) <= MaxGas
  /\ Total(ProtoSize, m, entries) <= MaxBytes

\* The longest prefix that fits: the loop ends at the first one too many.
ReapMaxBytesMaxGas(m) ==
  LET all == AllEntriesSorted(m)
      n == CHOOSE i \in 0..Len(all) :
             /\ \A j \in 1..i : Fits(SubSeq(all, 1, j), m)
             /\ i < Len(all) => ~Fits(SubSeq(all, 1, i + 1), m)
  IN  SubSeq(all, 1, n)

ReapMaxTxs(m, max) ==
  LET all == AllEntriesSorted(m) IN
  IF max < 0 THEN all ELSE SubSeq(all, 1, Min({max, Len(all)}))

-----------------------------------------------------------------------------
(* Callers of CheckTx *)

Idle == [pc |-> "idle", tx |-> Nil, height |-> 0, ok |-> FALSE, priority |-> 0]

NoCursor == [pc |-> "idle", elem |-> Nil, tx |-> Nil]

Init ==
  /\ mp = NewTxMempool
  /\ height = 0
  /\ txRecheck = 0
  /\ mtx = "free"
  /\ appMtx = Nil
  /\ call = [c \in Callers |-> Idle]
  /\ com = NoCursor
  /\ calls = 0
  /\ forgotten = {}

\* The transactions on their way into the pool, or in it.
Pending(t) ==
  \/ \E c \in Callers : call[c].tx = t /\ call[c].pc \in {"app", "global", "initial"}
  \/ \E e \in Listed(mp) : mp.wtx[e].tx = t

\* The history variable, in terms of the step's other variables.
Remember ==
  forgotten' = {t \in Txs : /\ Pending(t)'
                            /\ t \in forgotten \/ (Seen(mp.cache, t) /\ ~Seen(mp.cache', t))}

\* The caller's CheckTx returned err.  The validator compares it with empty error
\* values, which match none of those CheckTx makes but ErrTxInCache, and goes on to
\* wait for a response that will not come.
Failed(c) ==
  call' = [call EXCEPT ![c] = IF c \in IsValidator THEN [Idle EXCEPT !.pc = "stuck"] ELSE Idle]

\* preCheck, set by the first Update.
PreCheckMaxBytes(t) == height > 0 => ProtoSize[t] <= MaxBytes

\* CheckTx up to the call of the application, under the read lock.
CheckTx(c, t) ==
  /\ call[c].pc = "idle" /\ mtx = "free" /\ calls < MaxCalls
  /\ calls' = calls + 1
  /\ \/ /\ TxSize[t] > MaxTxBytes \/ ~PreCheckMaxBytes(t) \/ AppErrors
        /\ Failed(c)
        /\ UNCHANGED mp
     \/ /\ TxSize[t] <= MaxTxBytes /\ PreCheckMaxBytes(t)
        /\ mp' = [mp EXCEPT !.cache = CachePush(@, t)]
        /\ call' = IF Seen(mp.cache, t) THEN call
                   ELSE [call EXCEPT ![c] = [Idle EXCEPT !.pc = "app", !.tx = t,
                                                         !.height = height]]
  /\ UNCHANGED <<height, txRecheck, mtx, appMtx, com>>
  /\ Remember

\* What the application may answer; the priority counts if it accepts.
Verdicts == [ok : {TRUE}, priority : Priorities] \cup {[ok |-> FALSE, priority |-> 0]}

\* The recheck counter after one more response; what counts is whether it is negative.
OneLess(n) == IF n <= 0 THEN -1 ELSE n - 1

\* The application's CheckTx, and the start of the response callback, which the
\* client runs for this response as for every other: while the mempool expects
\* rechecks it takes this for one, and needs the mempool's lock.
AppCheckTx(c) ==
  /\ call[c].pc = "app" /\ appMtx = Nil
  /\ \E v \in Verdicts :
       call' = [call EXCEPT ![c].pc = IF OneLess(txRecheck) < 0 THEN "initial" ELSE "global",
                            ![c].ok = v.ok, ![c].priority = v.priority]
  /\ appMtx' = IF OneLess(txRecheck) < 0 THEN Nil ELSE c
  /\ txRecheck' = OneLess(txRecheck)
  /\ UNCHANGED <<mp, height, mtx, com, calls, forgotten>>

\* recheckTxCallback for the response of an initial check.
GlobalCallback(c) ==
  /\ call[c].pc = "global" /\ mtx = "free"
  /\ mp' = RecheckTxCallback(mp, call[c].tx, call[c].ok, call[c].priority)
  /\ call' = [call EXCEPT ![c].pc = "initial"]
  /\ appMtx' = Nil
  /\ UNCHANGED <<height, txRecheck, mtx, com, calls>>
  /\ Remember

\* The callback of the initial check.  A caller of the RPC goes on to gossip the
\* transaction if the application accepted it, whatever the pool did with it.
\* Or FlushSync fails, and the transaction stays in the cache.
InitialCallback(c) ==
  /\ call[c].pc = "initial"
  /\ \/ /\ mtx = "free"
        /\ mp' = InitialTxCallback(mp, [tx |-> call[c].tx, height |-> call[c].height,
                                        priority |-> call[c].priority], call[c].ok)
        /\ call' = [call EXCEPT ![c] = IF call[c].ok /\ c \notin IsValidator
                                       THEN [Idle EXCEPT !.pc = "gossip", !.tx = call[c].tx]
                                       ELSE Idle]
     \/ /\ AppErrors
        /\ Failed(c)
        /\ UNCHANGED mp
  /\ UNCHANGED <<height, txRecheck, mtx, appMtx, com, calls>>
  /\ Remember

\* GossipTx succeeds, or BroadcastTxSync takes the transaction out of the pool;
\* BroadcastTxAsync and BroadcastTxCommit leave it there.
GossipTx(c) ==
  /\ call[c].pc = "gossip"
  /\ \/ UNCHANGED mp
     \/ mtx = "free" /\ mp' = RemoveTxByKey(mp, call[c].tx)
  /\ call' = [call EXCEPT ![c] = Idle]
  /\ UNCHANGED <<height, txRecheck, mtx, appMtx, com, calls>>
  /\ Remember

\* Flush: the pool and the cache are emptied, rechecks under way are ignored.
Flush ==
  /\ mtx = "free" /\ calls < MaxCalls
  /\ mp' = [Loop(RemoveTxByElement, mp, Elements(mp.txs)) EXCEPT !.cache = <<>>]
  /\ txRecheck' = 0
  /\ calls' = calls + 1
  /\ UNCHANGED <<height, mtx, appMtx, call, com>>
  /\ Remember

-----------------------------------------------------------------------------
(* The thread that commits a block: BlockExecutor.commit *)

\* Lock, and FlushAppConn, which gives the lock up and takes it again.
CommitLock ==
  /\ com.pc = "idle" /\ mtx = "free" /\ height < MaxHeight
  /\ mtx' = "committer"
  /\ com' = [com EXCEPT !.pc = "locked"]
  /\ UNCHANGED <<mp, height, txRecheck, appMtx, call, calls, forgotten>>

Blocks == UNION {[1..n -> [tx : Txs, ok : BOOLEAN]] : n \in 0..MaxBlockTxs}

\* CommitSync, which needs the application's mutex, and Update.  If transactions are
\* left, the lock is given up for the recheck of all of them.
CommitUpdate ==
  /\ com.pc = "locked" /\ appMtx = Nil
  /\ height' = height + 1
  /\ mtx' = "free"
  /\ \E block \in Blocks : mp' = Update(mp, height + 1, block)
  /\ com' = IF Recheck /\ Size(mp') > 0 THEN [NoCursor EXCEPT !.pc = "recheck"] ELSE NoCursor
  /\ UNCHANGED <<txRecheck, appMtx, call, calls>>
  /\ Remember

\* The loop of recheckTransactions stands on an element, or ends, when the lock is taken
\* again and given up by commit.
At(e) == IF e = Nil THEN NoCursor ELSE [pc |-> "call", elem |-> e, tx |-> mp.wtx[e].tx]

\* The number of responses to expect, and the first element.
RecheckStart ==
  /\ com.pc = "recheck"
  /\ txRecheck' = Size(mp)
  /\ com' = At(mp.txs.head)
  /\ UNCHANGED <<mp, height, mtx, appMtx, call, calls, forgotten>>

\* One CheckTx call of recheckTransactions, with its callback.  The element may have
\* left the list since the cursor read it.  An error of FlushSync counts once more.
RecheckCall ==
  /\ com.pc = "call" /\ appMtx = Nil
  /\ \/ txRecheck' = OneLess(txRecheck)
     \/ AppErrors /\ txRecheck' = OneLess(OneLess(txRecheck))
  /\ \/ /\ OneLess(txRecheck) >= 0
        /\ \E v \in Verdicts : mp' = RecheckTxCallback(mp, com.tx, v.ok, v.priority)
     \/ /\ OneLess(txRecheck) < 0
        /\ UNCHANGED mp
  /\ com' = [com EXCEPT !.pc = "next"]
  /\ UNCHANGED <<height, mtx, appMtx, call, calls>>
  /\ Remember

\* e = e.Next()
RecheckNext ==
  /\ com.pc = "next"
  /\ com' = At(mp.txs.next[com.elem])
  /\ UNCHANGED <<mp, height, txRecheck, mtx, appMtx, call, calls, forgotten>>

Next ==
  \/ \E c \in Callers :
       \/ \E t \in Txs : CheckTx(c, t)
       \/ AppCheckTx(c)
       \/ GlobalCallback(c)
       \/ InitialCallback(c)
       \/ GossipTx(c)
  \/ Flush
  \/ CommitLock
  \/ CommitUpdate
  \/ RecheckStart
  \/ RecheckCall
  \/ RecheckNext

Spec == Init /\ [][Next]_vars

-----------------------------------------------------------------------------
(* Properties *)

\* The mempool's structures stay consistent: the list's pointers are those of a
\* sequence, its wait groups wake exactly those who may go on, and no element of it
\* makes Remove panic; the indexes by key and by sender refer to listed transactions of
\* that key and sender; a sender the application names has at most one; the byte count
\* is their sum.
IndexesAgree ==
  /\ WellLinked(mp.txs) /\ WaitersWake(mp.txs)
  /\ \A e \in Listed(mp) : ~RemovePanics(mp.txs, e)
  /\ \A t \in Txs : mp.txByKey[t] # Nil =>
       mp.txByKey[t] \in Listed(mp) /\ mp.wtx[mp.txByKey[t]].tx = t
  /\ \A s \in Senders :
       {e \in Listed(mp) : Sender[mp.wtx[e].tx] = s} = {mp.txBySender[s]} \ {Nil}
  /\ mp.txsBytes = SizeOf(mp, Elements(mp.txs))

\* The pool never exceeds its configured number of transactions and of bytes,
\* evictions included.
WithinCapacity == Size(mp) <= MaxSize /\ mp.txsBytes <= MaxTxsBytes

\* A transaction is in the pool or on its way into it once, and is found by its key
\* when it is in: the cache stands in for a test that initialTxCallback does not make.
\* It no longer holds of a transaction the cache lost meanwhile.
PooledOnce ==
  \A t \in Txs \ forgotten :
    LET listed == {e \in Listed(mp) : mp.wtx[e].tx = t}
        coming == {c \in Callers : call[c].tx = t /\ call[c].pc \in {"app", "global", "initial"}}
    IN  /\ Cardinality(listed) + Cardinality(coming) <= 1
        /\ listed = {mp.txByKey[t]} \ {Nil}

\* What CreateBlock reaps at any moment respects the limits of the block and the order
\* of priorities, is a prefix of what ReapMaxTxs shows, and is empty only if the pool
\* is, or if the most important transaction was checked before the first block set
\* the limits: no other transaction can block the ones behind it.
ReapedBlockFits ==
  LET reaped == ReapMaxBytesMaxGas(mp)
      all == ReapMaxTxs(mp, -1)
  IN  /\ Total(ProtoSize, mp, reaped) <= MaxBytes
      /\ MaxGas >= 0 => Total(GasWanted, mp, reaped) <= MaxGas
      /\ reaped = ReapMaxTxs(mp, Len(reaped))
      /\ \A i, j \in DOMAIN all : i < j => mp.wtx[all[i]].priority >= mp.wtx[all[j]].priority
      /\ reaped = <<>> /\ all # <<>> => mp.wtx[all[1]].height = 0
=============================================================================
