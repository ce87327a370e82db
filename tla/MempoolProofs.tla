---------------------------- MODULE MempoolProofs ----------------------------
(***************************************************************************)
(* Theorems about the mempool, for every set of callers and transactions   *)
(* and every size of pool, cache and block.  Every step preserves MInv:    *)
(* the pool is Consistent and Fitting, the calls and the recheck loop hold *)
(* what they need; so IndexesAgree, WithinCapacity and ReapedBlockFits     *)
(* hold.  With MInv every step preserves OnceInv, from which PooledOnce    *)
(* follows if there is a cache.  At the end, the ids of peers.             *)
(***************************************************************************)
EXTENDS PoolProofs, PeerIDs

-----------------------------------------------------------------------------
(* The invariant of the mempool *)

\* A transaction that fits into a block of its own.
FitsAlone(t) == (MaxGas >= 0 => GasWanted[t] <= MaxGas) /\ ProtoSize[t] <= MaxBytes

\* The pool is consistent and not too large, and only what was checked before the first
\* block may be too large for a block.
PoolOK(m) ==
  /\ Consistent(m) /\ Fitting(m)
  /\ \A e \in Listed(m) : m.wtx[e].height > 0 => FitsAlone(m.wtx[e].tx)

Coming == {"app", "global", "initial"}

Calls ==
  [pc : {"idle", "stuck", "gossip"} \cup Coming, tx : Txs \cup {Nil}, height : Nat, ok : BOOLEAN,
   priority : Int]

\* A caller has a transaction while it needs one, and checked its size if it could.
CallOK(r, h) ==
  /\ r \in Calls
  /\ r.pc \in Coming \cup {"gossip"} => r.tx \in Txs
  /\ r.pc \in Coming => r.height <= h /\ (r.height > 0 => ProtoSize[r.tx] <= MaxBytes)

CallInv == call \in [Callers -> Calls] /\ \A c \in Callers : CallOK(call[c], height)

Cursors == [pc : {"idle", "locked", "recheck", "call", "next"}, elem : Links, tx : Txs \cup {Nil}]

\* The recheck loop stands on an element with a transaction, in the list or not.
ComInv == com \in Cursors /\ (com.pc \in {"call", "next"} => com.elem \in Elems /\ com.tx \in Txs)

MInv == PoolOK(mp) /\ height \in Nat /\ CallInv /\ ComInv

\* A pool that shrinks stays as good as it was.
LEMMA PoolShrinks ==
  ASSUME NEW m, NEW n, PoolOK(m), Shrunk(m, n)
  PROVE  PoolOK(n)
<1>1. Consistent(m) /\ Consistent(n) /\ Size(n) <= Size(m) /\ n.txsBytes <= m.txsBytes
  BY Zenon DEF PoolOK, Shrunk
<1>2. /\ Size(m) <= MaxSize /\ m.txsBytes <= MaxTxsBytes /\ MaxSize \in Nat
      /\ MaxTxsBytes \in Nat
  BY MempoolConstants, Zenon DEF PoolOK, Fitting
<1>3. Size(m) \in Nat /\ Size(n) \in Nat /\ m.txsBytes \in Int /\ n.txsBytes \in Int
  BY <1>1, PoolNumbers, Zenon
<1>4. Size(n) <= MaxSize /\ n.txsBytes <= MaxTxsBytes
  BY <1>1, <1>2, <1>3
<1>5. \A e \in Listed(n) : n.wtx[e].height > 0 => FitsAlone(n.wtx[e].tx)
  <2>1. \A e \in Listed(n) :
          e \in Listed(m) /\ n.wtx[e].tx = m.wtx[e].tx /\ n.wtx[e].height = m.wtx[e].height
    BY Zenon DEF Shrunk
  <2>2. \A e \in Listed(m) : m.wtx[e].height > 0 => FitsAlone(m.wtx[e].tx)
    BY Zenon DEF PoolOK
  <2> QED
    BY <2>1, <2>2, Zenon
<1> QED
  BY <1>1, <1>4, <1>5, Zenon DEF PoolOK, Fitting

\* One caller goes on.
LEMMA CallSteps ==
  ASSUME CallInv, height \in Nat, height' \in Nat, height <= height',
         NEW c \in Callers, NEW r, CallOK(r, height'),
         call' = [call EXCEPT ![c] = r]
  PROVE  CallInv'
<1>1. call \in [Callers -> Calls] /\ r \in Calls
  BY Zenon DEF CallInv, CallOK
<1>2. /\ call' \in [Callers -> Calls] /\ call'[c] = r
      /\ \A d \in Callers : d # c => call'[d] = call[d]
  BY <1>1, Zenon
<1>3. ASSUME NEW d \in Callers PROVE CallOK(call'[d], height')
  <2>1. CASE d = c
    BY <1>2, <2>1, Zenon
  <2>2. CASE d # c
    <3>1. CallOK(call[d], height) /\ call[d].height \in Nat
      BY Zenon DEF CallInv, CallOK, Calls
    <3>2. call[d].height <= height => call[d].height <= height'
      BY <3>1
    <3>3. CallOK(call[d], height')
      BY <3>1, <3>2, Zenon DEF CallOK
    <3> QED
      BY <3>3, <1>2, <2>2, Zenon
  <2> QED
    BY <2>1, <2>2, Zenon
<1> QED
  BY <1>2, <1>3, Zenon DEF CallInv

\* No caller goes on, and the height may grow.
LEMMA CallStays ==
  ASSUME CallInv, height \in Nat, height' \in Nat, height <= height', call' = call
  PROVE  CallInv'
<1>1. \A d \in Callers : CallOK(call[d], height) /\ call[d].height \in Nat
  BY Zenon DEF CallInv, CallOK, Calls
<1>2. \A d \in Callers : call[d].height <= height => call[d].height <= height'
  BY <1>1
<1>3. \A d \in Callers : CallOK(call[d], height')
  BY <1>1, <1>2, Zenon DEF CallOK
<1> QED
  BY <1>3, Zenon DEF CallInv

LEMMA IdleOK ==
  ASSUME NEW h \in Nat
  PROVE  CallOK(Idle, h) /\ CallOK([Idle EXCEPT !.pc = "stuck"], h)
<1>1. Idle \in Calls /\ Idle.pc = "idle"
  BY DEF Idle, Calls
<1>2. [Idle EXCEPT !.pc = "stuck"] \in Calls /\ [Idle EXCEPT !.pc = "stuck"].pc = "stuck"
  BY <1>1, Zenon DEF Calls
<1>3. "idle" \notin Coming \cup {"gossip"} /\ "stuck" \notin Coming \cup {"gossip"}
  BY DEF Coming
<1> QED
  BY <1>1, <1>2, <1>3, Zenon DEF CallOK

LEMMA FailedOK ==
  ASSUME CallInv, height \in Nat, UNCHANGED height, NEW c \in Callers, Failed(c)
  PROVE  CallInv'
<1>1. height' \in Nat /\ height <= height'
  OBVIOUS
<1>2. \E r : CallOK(r, height') /\ call' = [call EXCEPT ![c] = r]
  <2>1. CASE c \in IsValidator
    BY <1>1, <2>1, IdleOK, Zenon DEF Failed
  <2>2. CASE c \notin IsValidator
    BY <1>1, <2>2, IdleOK, Zenon DEF Failed
  <2> QED
    BY <2>1, <2>2, Zenon
<1> QED
  BY <1>1, <1>2, CallSteps, Zenon

\* The calls of the application that CheckTx and initialTxCallback leave.
LEMMA CheckedOK ==
  ASSUME NEW t \in Txs, NEW h \in Nat, h > 0 => ProtoSize[t] <= MaxBytes
  PROVE  /\ CallOK([Idle EXCEPT !.pc = "app", !.tx = t, !.height = h], h)
         /\ CallOK([Idle EXCEPT !.pc = "gossip", !.tx = t], h)
<1> DEFINE r == [Idle EXCEPT !.pc = "app", !.tx = t, !.height = h]
           s == [Idle EXCEPT !.pc = "gossip", !.tx = t]
<1>1. Idle \in Calls
  BY DEF Idle, Calls
<1>2. {"app", "gossip"} \subseteq {"idle", "stuck", "gossip"} \cup Coming
  BY DEF Coming
<1>3. r \in Calls /\ s \in Calls
  BY <1>1, <1>2, Zenon DEF Calls
<1>4. r.pc = "app" /\ r.tx = t /\ r.height = h /\ s.pc = "gossip" /\ s.tx = t
  BY <1>1, Zenon DEF Calls
<1>5. h <= h /\ "gossip" \notin Coming
  BY DEF Coming
<1> HIDE DEF r, s
<1>6. CallOK(r, h) /\ CallOK(s, h)
  BY <1>3, <1>4, <1>5, Zenon DEF CallOK
<1> QED
  BY <1>6, Zenon DEF r, s

\* The calls that the application answered.
LEMMA AnsweredOK ==
  ASSUME NEW r, NEW h, CallOK(r, h), r.pc \in Coming, NEW pc \in Coming,
         NEW ok \in BOOLEAN, NEW priority \in Int
  PROVE  /\ CallOK([r EXCEPT !.pc = pc, !.ok = ok, !.priority = priority], h)
         /\ CallOK([r EXCEPT !.pc = pc], h)
<1> DEFINE a == [r EXCEPT !.pc = pc, !.ok = ok, !.priority = priority]
           b == [r EXCEPT !.pc = pc]
<1>1. r \in Calls
  BY Zenon DEF CallOK
<1>2. a \in Calls /\ b \in Calls
  BY <1>1, Zenon DEF Calls
<1>3. /\ a.pc = pc /\ a.tx = r.tx /\ a.height = r.height
      /\ b.pc = pc /\ b.tx = r.tx /\ b.height = r.height
  BY <1>1, Zenon DEF Calls
<1> HIDE DEF a, b
<1>4. CallOK(a, h) /\ CallOK(b, h)
  BY <1>2, <1>3, Zenon DEF CallOK
<1> QED
  BY <1>4, Zenon DEF a, b

LEMMA VerdictType == ASSUME NEW v \in Verdicts PROVE v.ok \in BOOLEAN /\ v.priority \in Int
<1>1. CASE v \in [ok : {TRUE}, priority : Priorities]
  <2>1. Priorities \subseteq Int
    BY MempoolConstants, Zenon
  <2> QED
    BY <1>1, <2>1, Zenon
<1>2. CASE v = [ok |-> FALSE, priority |-> 0]
  BY <1>2
<1> QED
  BY <1>1, <1>2, Zenon DEF Verdicts

\* The recheck loop's next element is in the list.
LEMMA AtListed ==
  ASSUME Consistent(mp), NEW e \in Links, e # Nil => e \in Listed(mp)
  PROVE  At(e) \in Cursors /\ (At(e).pc \in {"call", "next"} => At(e).elem \in Elems /\ At(e).tx \in Txs)
<1>1. CASE e = Nil
  <2>1. At(e) = NoCursor
    BY <1>1, Zenon DEF At
  <2>2. NoCursor \in Cursors /\ NoCursor.pc = "idle"
    BY DEF NoCursor, Cursors, Links
  <2> QED
    BY <2>1, <2>2
<1>2. CASE e # Nil
  <2>1. e \in Elems /\ mp.wtx[e].tx \in Txs
    BY <1>2, Zenon DEF Consistent, Listed
  <2>2. At(e) = [pc |-> "call", elem |-> e, tx |-> mp.wtx[e].tx]
    BY <1>2, Zenon DEF At
  <2>3. e \in Links /\ mp.wtx[e].tx \in Txs \cup {Nil}
    BY <2>1, Zenon
  <2> QED
    BY <2>1, <2>2, <2>3 DEF Cursors
<1> QED
  BY <1>1, <1>2, Zenon

LEMMA NextListed ==
  ASSUME NEW m, Consistent(m)
  PROVE  /\ m.txs.head \in Links /\ (m.txs.head # Nil => m.txs.head \in Listed(m))
         /\ \A e \in Elems :
              m.txs.next[e] \in Links /\ (m.txs.next[e] # Nil => m.txs.next[e] \in Listed(m))
<1> DEFINE l == m.txs
           s == Elements(l)
<1>1. l \in Lists /\ Sound(l)
  BY FieldTypes, Zenon DEF Consistent
<1>2. Linked(l, s)
  BY <1>1, ListFacts, Zenon DEF Sound, WellLinked
<1>3. l.head \in Links /\ \A e \in Elems : l.next[e] \in Links
  BY <1>1, Zenon DEF Lists
<1> HIDE DEF s
<1>4. Len(s) \in Nat /\ \A i \in 1..Len(s) : s[i] \in Listed(m)
  BY <1>2, Zenon DEF Linked, Listed
<1>5. l.head # Nil => l.head \in Listed(m)
  <2>1. Len(s) # 0 => 1 \in 1..Len(s)
    BY <1>4
  <2> QED
    BY <2>1, <1>2, <1>4, Zenon DEF Linked
<1>6. ASSUME NEW e \in Elems, l.next[e] # Nil PROVE l.next[e] \in Listed(m)
  <2>1. e \notin l.removed
    BY <1>1, <1>6, Zenon DEF Sound, Detached
  <2>2. PICK i \in 1..Len(s) : s[i] = e
    BY <2>1, <1>2, Zenon DEF Linked
  <2>3. l.next[e] = IF i = Len(s) THEN Nil ELSE s[i + 1]
    BY <2>2, <1>2, Zenon DEF Linked
  <2>4. i # Len(s) => i + 1 \in 1..Len(s)
    BY <1>4
  <2> QED
    BY <1>4, <1>6, <2>3, <2>4, Zenon
<1> QED
  BY <1>3, <1>5, <1>6, Zenon

-----------------------------------------------------------------------------
(* The steps *)

LEMMA CallOf ==
  ASSUME MInv, NEW c \in Callers
  PROVE  /\ call \in [Callers -> Calls] /\ CallOK(call[c], height) /\ call[c] \in Calls
         /\ call[c].tx \in Txs \cup {Nil} /\ call[c].height \in Nat
         /\ call[c].ok \in BOOLEAN /\ call[c].priority \in Int
<1>1. call \in [Callers -> Calls] /\ CallOK(call[c], height) /\ call[c] \in Calls
  BY Zenon DEF MInv, CallInv
<1> QED
  BY <1>1, Zenon DEF Calls

\* What is left of the invariant when the pool shrinks and one caller goes on.
LEMMA StepShrinks ==
  ASSUME MInv, height' \in Nat, height <= height', Shrunk(mp, mp'), CallInv', ComInv'
  PROVE  MInv'
<1>1. PoolOK(mp')
  BY PoolShrinks, Zenon DEF MInv
<1> QED
  BY <1>1, Zenon DEF MInv

LEMMA HeightStays ==
  ASSUME MInv, UNCHANGED height
  PROVE  height \in Nat /\ height' \in Nat /\ height <= height'
<1>1. height \in Nat
  BY Zenon DEF MInv
<1> QED
  BY <1>1

LEMMA ShrunkNot == ASSUME MInv, UNCHANGED mp PROVE Shrunk(mp, mp')
  BY ShrunkSelf, Zenon DEF MInv, PoolOK

\* CheckTx refuses the transaction, or pushes it to the cache and calls the
\* application.
LEMMA CheckTxStep ==
  ASSUME MInv, NEW c \in Callers, NEW t \in Txs, CheckTx(c, t)
  PROVE  MInv' /\ Shrunk(mp, mp')
<1>1. height \in Nat /\ height' \in Nat /\ height <= height' /\ height' = height
  BY HeightStays, Zenon DEF CheckTx
<1>2. ComInv' /\ CallInv
  BY Zenon DEF MInv, ComInv, CheckTx
<1>3. CASE Failed(c) /\ UNCHANGED mp
  <2>1. CallInv'
    BY <1>1, <1>2, <1>3, FailedOK, Zenon
  <2> QED
    BY <1>1, <1>2, <1>3, <2>1, ShrunkNot, StepShrinks, Zenon
<1>4. CASE /\ PreCheckMaxBytes(t) /\ mp' = [mp EXCEPT !.cache = CachePush(@, t)]
           /\ call' = IF Seen(mp.cache, t) THEN call
                      ELSE [call EXCEPT ![c] = [Idle EXCEPT !.pc = "app", !.tx = t, !.height = height]]
  <2>1. Consistent(mp)
    BY Zenon DEF MInv, PoolOK
  <2>2. Shrunk(mp, mp')
    BY <1>4, <2>1, ShrunkPush, Zenon
  <2>3. CallInv'
    <3>1. CASE Seen(mp.cache, t)
      BY <1>1, <1>2, <1>4, <3>1, CallStays, Zenon
    <3>2. CASE ~Seen(mp.cache, t)
      <4>1. CallOK([Idle EXCEPT !.pc = "app", !.tx = t, !.height = height], height')
        BY <1>1, <1>4, CheckedOK, Zenon DEF PreCheckMaxBytes
      <4> QED
        BY <1>1, <1>2, <1>4, <3>2, <4>1, CallSteps, Zenon
    <3> QED
      BY <3>1, <3>2, Zenon
  <2> QED
    BY <1>1, <1>2, <2>2, <2>3, StepShrinks, Zenon
<1> QED
  BY <1>3, <1>4, Zenon DEF CheckTx

\* The application's answer.
LEMMA AppCheckTxStep ==
  ASSUME MInv, NEW c \in Callers, AppCheckTx(c)
  PROVE  MInv' /\ Shrunk(mp, mp')
<1>1. height \in Nat /\ height' \in Nat /\ height <= height' /\ height' = height
  BY HeightStays, Zenon DEF AppCheckTx
<1>2. ComInv' /\ CallInv
  BY Zenon DEF MInv, ComInv, AppCheckTx
<1>3. PICK v \in Verdicts :
        call' = [call EXCEPT ![c].pc = IF OneLess(txRecheck) < 0 THEN "initial" ELSE "global",
                             ![c].ok = v.ok, ![c].priority = v.priority]
  BY Zenon DEF AppCheckTx
<1> DEFINE pc == IF OneLess(txRecheck) < 0 THEN "initial" ELSE "global"
           r == [call[c] EXCEPT !.pc = pc, !.ok = v.ok, !.priority = v.priority]
<1>4. pc \in Coming /\ call[c].pc \in Coming
  BY Zenon DEF Coming, AppCheckTx
<1>5. call \in [Callers -> Calls] /\ CallOK(call[c], height)
  BY CallOf, Zenon
<1> HIDE DEF pc
<1>6. call' = [call EXCEPT ![c] = r]
  BY <1>3, <1>5, Zenon DEF pc
<1>7. CallOK(r, height')
  BY <1>1, <1>4, <1>5, VerdictType, AnsweredOK, Zenon
<1> HIDE DEF r
<1>8. CallInv'
  BY <1>1, <1>2, <1>6, <1>7, CallSteps, Zenon
<1>9. Shrunk(mp, mp')
  BY ShrunkNot, Zenon DEF AppCheckTx
<1> QED
  BY <1>1, <1>2, <1>8, <1>9, StepShrinks, Zenon

\* The callback of the proxy, which belongs to the recheck.
LEMMA GlobalCallbackStep ==
  ASSUME MInv, NEW c \in Callers, GlobalCallback(c)
  PROVE  MInv' /\ Shrunk(mp, mp')
<1>1. height \in Nat /\ height' \in Nat /\ height <= height' /\ height' = height
  BY HeightStays, Zenon DEF GlobalCallback
<1>2. ComInv' /\ CallInv /\ Consistent(mp)
  BY Zenon DEF MInv, ComInv, PoolOK, GlobalCallback
<1>3. /\ call \in [Callers -> Calls] /\ CallOK(call[c], height) /\ call[c].pc \in Coming
      /\ call[c].priority \in Int
  BY CallOf, Zenon DEF GlobalCallback, Coming
<1>4. call[c].tx \in Txs /\ "initial" \in Coming
  BY <1>3, Zenon DEF CallOK, Coming
<1>5. Shrunk(mp, mp')
  BY <1>2, <1>3, <1>4, RecheckTxFields, Zenon DEF GlobalCallback
<1>6. call' = [call EXCEPT ![c] = [call[c] EXCEPT !.pc = "initial"]]
  BY Zenon DEF GlobalCallback
<1>7. CallOK([call[c] EXCEPT !.pc = "initial"], height')
  <2>1. TRUE \in BOOLEAN /\ 0 \in Int
    OBVIOUS
  <2> QED
    BY <2>1, <1>1, <1>3, <1>4, AnsweredOK, Zenon
<1>8. CallInv'
  BY <1>1, <1>2, <1>6, <1>7, CallSteps, Zenon
<1> QED
  BY <1>1, <1>2, <1>5, <1>8, StepShrinks, Zenon

\* What InitialCallback checks in.
Checked(c) == [tx |-> call[c].tx, height |-> call[c].height, priority |-> call[c].priority]

\* The callback of CheckTx: the transaction is refused or enters the pool, after an
\* eviction or without one.
LEMMA InitialCallbackStep ==
  ASSUME MInv, NEW c \in Callers, InitialCallback(c)
  PROVE  /\ MInv'
         /\ Shrunk(mp, mp') \/ \E e \in Elems : Entered(mp, e, Checked(c), mp')
<1> DEFINE w == Checked(c)
<1>1. height \in Nat /\ height' \in Nat /\ height <= height' /\ height' = height
  BY HeightStays, Zenon DEF InitialCallback
<1>2. ComInv' /\ CallInv /\ Consistent(mp) /\ Fitting(mp) /\ PoolOK(mp)
  BY Zenon DEF MInv, ComInv, PoolOK, InitialCallback
<1>3. CASE Failed(c) /\ UNCHANGED mp
  <2>1. CallInv'
    BY <1>1, <1>2, <1>3, FailedOK, Zenon
  <2> QED
    BY <1>1, <1>2, <1>3, <2>1, ShrunkNot, StepShrinks, Zenon
<1>4. CASE /\ mp' = InitialTxCallback(mp, w, call[c].ok)
           /\ call' = [call EXCEPT ![c] = IF call[c].ok /\ c \notin IsValidator
                                          THEN [Idle EXCEPT !.pc = "gossip", !.tx = call[c].tx]
                                          ELSE Idle]
  <2>1. /\ CallOK(call[c], height) /\ call[c].pc \in Coming /\ call[c].priority \in Int
        /\ call[c].height \in Nat
    BY CallOf, Zenon DEF InitialCallback, Coming
  <2>2. /\ call[c].tx \in Txs /\ call[c].height <= height
        /\ call[c].height > 0 => ProtoSize[call[c].tx] <= MaxBytes
    BY <2>1, Zenon DEF CallOK
  <2>3. w \in Wtxs /\ w.tx = call[c].tx /\ w.height = call[c].height
    BY <2>1, <2>2, Zenon DEF Wtxs, Checked
  <2>4. CallInv'
    <3>1. CallOK([Idle EXCEPT !.pc = "gossip", !.tx = call[c].tx], height')
      <4>1. CallOK([Idle EXCEPT !.pc = "gossip", !.tx = call[c].tx], 0)
        <5>1. 0 \in Nat /\ ~(0 > 0)
          OBVIOUS
        <5> QED
          BY <5>1, <2>2, CheckedOK, Zenon
      <4>2. [Idle EXCEPT !.pc = "gossip", !.tx = call[c].tx].pc = "gossip"
        BY DEF Idle
      <4>3. "gossip" \notin Coming
        BY DEF Coming
      <4> QED
        BY <4>1, <4>2, <4>3, Zenon DEF CallOK
    <3>2. \E r : CallOK(r, height') /\ call' = [call EXCEPT ![c] = r]
      BY <1>1, <1>4, <3>1, IdleOK, Zenon
    <3> QED
      BY <1>1, <1>2, <3>2, CallSteps, Zenon
  <2> HIDE DEF w
  <2>5. Shrunk(mp, mp') \/ (PostCheckMaxGas(w.tx) /\ \E e \in Elems : Entered(mp, e, w, mp'))
    BY <1>2, <1>4, <2>2, <2>3, InitialTxFields, Zenon
  <2>6. CASE Shrunk(mp, mp')
    BY <1>1, <1>2, <2>4, <2>6, StepShrinks, Zenon
  <2>7. CASE PostCheckMaxGas(w.tx) /\ \E e \in Elems : Entered(mp, e, w, mp')
    <3>1. PICK e \in Elems : Entered(mp, e, w, mp')
      BY <2>7, Zenon
    <3>2. ASSUME w.height > 0 PROVE FitsAlone(w.tx)
      <4>1. height > 0
        BY <1>1, <2>1, <2>2, <2>3, <3>2
      <4>2. MaxGas # -1 => GasWanted[w.tx] <= MaxGas
        BY <4>1, <2>7, Zenon DEF PostCheckMaxGas
      <4>3. MaxGas >= 0 => MaxGas # -1
        OBVIOUS
      <4>4. ProtoSize[w.tx] <= MaxBytes
        BY <2>2, <2>3, <3>2, Zenon
      <4> QED
        BY <4>2, <4>3, <4>4, Zenon DEF FitsAlone
    <3>3. ASSUME NEW x \in Listed(mp'), mp'.wtx[x].height > 0 PROVE FitsAlone(mp'.wtx[x].tx)
      <4>1. CASE x = e
        BY <3>1, <3>2, <3>3, <4>1, Zenon DEF Entered
      <4>2. CASE x # e
        <5>1. /\ x \in Listed(mp) /\ mp'.wtx[x].tx = mp.wtx[x].tx
              /\ mp'.wtx[x].height = mp.wtx[x].height
          BY <3>1, <4>2, Zenon DEF Entered
        <5> QED
          BY <1>2, <3>3, <5>1, Zenon DEF PoolOK
      <4> QED
        BY <4>1, <4>2, Zenon
    <3>4. PoolOK(mp')
      BY <3>1, <3>3, Zenon DEF PoolOK, Entered
    <3> QED
      BY <1>1, <1>2, <2>4, <3>1, <3>4, Zenon DEF MInv, w
  <2> QED
    BY <2>5, <2>6, <2>7, Zenon
<1> QED
  BY <1>3, <1>4, Zenon DEF InitialCallback, Checked

LEMMA GossipTxStep ==
  ASSUME MInv, NEW c \in Callers, GossipTx(c)
  PROVE  MInv' /\ Shrunk(mp, mp')
<1>1. height \in Nat /\ height' \in Nat /\ height <= height' /\ height' = height
  BY HeightStays, Zenon DEF GossipTx
<1>2. ComInv' /\ CallInv /\ Consistent(mp)
  BY Zenon DEF MInv, ComInv, PoolOK, GossipTx
<1>3. call[c].tx \in Txs
  <2>1. CallOK(call[c], height) /\ call[c].pc \in Coming \cup {"gossip"}
    BY CallOf, Zenon DEF GossipTx
  <2> QED
    BY <2>1, Zenon DEF CallOK
<1>4. Shrunk(mp, mp')
  <2>1. CASE UNCHANGED mp
    BY <2>1, ShrunkNot, Zenon
  <2>2. CASE mp' = RemoveTxByKey(mp, call[c].tx)
    BY <1>2, <1>3, <2>2, ShrunkByKey, Zenon
  <2> QED
    BY <2>1, <2>2, Zenon DEF GossipTx
<1>5. CallInv'
  <2>1. call' = [call EXCEPT ![c] = Idle]
    BY Zenon DEF GossipTx
  <2> QED
    BY <2>1, <1>1, <1>2, IdleOK, CallSteps, Zenon
<1> QED
  BY <1>1, <1>2, <1>4, <1>5, StepShrinks, Zenon

\* Flush empties the list.
LEMMA FlushStep ==
  ASSUME MInv, Flush
  PROVE  MInv' /\ Shrunk(mp, mp')
<1>1. height \in Nat /\ height' \in Nat /\ height <= height' /\ height' = height
  BY HeightStays, Zenon DEF Flush
<1>2. ComInv' /\ CallInv /\ Consistent(mp) /\ call' = call
  BY Zenon DEF MInv, ComInv, PoolOK, Flush
<1> DEFINE n == Loop(RemoveTxByElement, mp, Elements(mp.txs))
<1>3. Shrunk(mp, n)
  BY <1>2, FlushLoop, Zenon
<1>4. mp' = [n EXCEPT !.cache = <<>>]
  BY Zenon DEF Flush
<1> HIDE DEF n
<1>5. Consistent(n) /\ n \in Pools
  BY <1>3, Zenon DEF Shrunk, Consistent
<1>6. <<>> \in Seq(Txs)
  OBVIOUS
<1>7. Alike(n, mp')
  BY <1>4, <1>5, <1>6, CacheFields, RecachedAlike, Zenon
<1>8. Shrunk(mp, mp')
  BY <1>2, <1>3, <1>5, <1>7, ShrunkAlike, ShrunkMore, Zenon
<1>9. CallInv'
  BY <1>1, <1>2, CallStays, Zenon
<1> QED
  BY <1>1, <1>2, <1>8, <1>9, StepShrinks, Zenon

LEMMA CursorType ==
  ASSUME MInv, NEW pc \in {"idle", "locked", "recheck", "call", "next"}
  PROVE  /\ [com EXCEPT !.pc = pc] \in Cursors /\ [com EXCEPT !.pc = pc].pc = pc
         /\ [com EXCEPT !.pc = pc].elem = com.elem /\ [com EXCEPT !.pc = pc].tx = com.tx
<1>1. com \in Cursors
  BY Zenon DEF MInv, ComInv
<1> QED
  BY <1>1, Zenon DEF Cursors

LEMMA CommitLockStep ==
  ASSUME MInv, CommitLock
  PROVE  MInv' /\ Shrunk(mp, mp')
<1>1. height \in Nat /\ height' \in Nat /\ height <= height'
  BY HeightStays, Zenon DEF CommitLock
<1>2. CallInv /\ call' = call /\ UNCHANGED mp /\ com' = [com EXCEPT !.pc = "locked"]
  BY Zenon DEF MInv, CommitLock
<1>3. com' \in Cursors /\ com'.pc = "locked"
  BY <1>2, CursorType, Zenon
<1>4. ComInv'
  BY <1>3 DEF ComInv
<1>5. CallInv'
  BY <1>1, <1>2, CallStays, Zenon
<1> QED
  BY <1>1, <1>2, <1>4, <1>5, ShrunkNot, StepShrinks, Zenon

\* Update with a block: its transactions go, then what has expired.
LEMMA CommitUpdateStep ==
  ASSUME MInv, CommitUpdate
  PROVE  MInv' /\ Shrunk(mp, mp')
<1>0. height \in Nat /\ height' = height + 1
  BY Zenon DEF MInv, CommitUpdate
<1>1. height \in Nat /\ height' \in Nat /\ height <= height'
  BY <1>0
<1>2. CallInv /\ call' = call /\ Consistent(mp)
  BY Zenon DEF MInv, PoolOK, CommitUpdate
<1>3. PICK block \in Blocks : mp' = Update(mp, height + 1, block)
  BY Zenon DEF CommitUpdate
<1>4. Shrunk(mp, mp')
  BY <1>2, <1>3, UpdateLoop, Zenon
<1>5. ComInv'
  <2>1. NoCursor \in Cursors /\ NoCursor.pc = "idle"
    BY DEF NoCursor, Cursors, Links
  <2>2. /\ [NoCursor EXCEPT !.pc = "recheck"] \in Cursors
        /\ [NoCursor EXCEPT !.pc = "recheck"].pc = "recheck"
    BY <2>1, Zenon DEF Cursors
  <2>3. com' = NoCursor \/ com' = [NoCursor EXCEPT !.pc = "recheck"]
    BY Zenon DEF CommitUpdate
  <2>4. com' \in Cursors /\ (com'.pc = "idle" \/ com'.pc = "recheck")
    BY <2>1, <2>2, <2>3, Zenon
  <2> QED
    BY <2>4 DEF ComInv
<1>6. CallInv'
  BY <1>1, <1>2, CallStays, Zenon
<1> QED
  BY <1>1, <1>4, <1>5, <1>6, StepShrinks, Zenon

LEMMA RecheckStartStep ==
  ASSUME MInv, RecheckStart
  PROVE  MInv' /\ Shrunk(mp, mp')
<1>1. height \in Nat /\ height' \in Nat /\ height <= height'
  BY HeightStays, Zenon DEF RecheckStart
<1>2. CallInv /\ call' = call /\ UNCHANGED mp /\ com' = At(mp.txs.head) /\ Consistent(mp)
  BY Zenon DEF MInv, PoolOK, RecheckStart
<1>3. ComInv'
  BY <1>2, NextListed, AtListed, Zenon DEF ComInv
<1>4. CallInv'
  BY <1>1, <1>2, CallStays, Zenon
<1> QED
  BY <1>1, <1>2, <1>3, <1>4, ShrunkNot, StepShrinks, Zenon

LEMMA RecheckNextStep ==
  ASSUME MInv, RecheckNext
  PROVE  MInv' /\ Shrunk(mp, mp')
<1>1. height \in Nat /\ height' \in Nat /\ height <= height'
  BY HeightStays, Zenon DEF RecheckNext
<1>2. /\ CallInv /\ call' = call /\ UNCHANGED mp /\ com' = At(mp.txs.next[com.elem])
      /\ Consistent(mp)
  BY Zenon DEF MInv, PoolOK, RecheckNext
<1>3. com.elem \in Elems
  BY Zenon DEF MInv, ComInv, RecheckNext
<1>4. ComInv'
  BY <1>2, <1>3, NextListed, AtListed, Zenon DEF ComInv
<1>5. CallInv'
  BY <1>1, <1>2, CallStays, Zenon
<1> QED
  BY <1>1, <1>2, <1>4, <1>5, ShrunkNot, StepShrinks, Zenon

LEMMA RecheckCallStep ==
  ASSUME MInv, RecheckCall
  PROVE  MInv' /\ Shrunk(mp, mp')
<1>1. height \in Nat /\ height' \in Nat /\ height <= height'
  BY HeightStays, Zenon DEF RecheckCall
<1>2. CallInv /\ call' = call /\ com' = [com EXCEPT !.pc = "next"] /\ Consistent(mp)
  BY Zenon DEF MInv, PoolOK, RecheckCall
<1>3. com.elem \in Elems /\ com.tx \in Txs
  BY Zenon DEF MInv, ComInv, RecheckCall
<1>4. Shrunk(mp, mp')
  <2>1. CASE UNCHANGED mp
    BY <2>1, ShrunkNot, Zenon
  <2>2. CASE \E v \in Verdicts : mp' = RecheckTxCallback(mp, com.tx, v.ok, v.priority)
    BY <1>2, <1>3, <2>2, VerdictType, RecheckTxFields, Zenon
  <2> QED
    BY <2>1, <2>2, Zenon DEF RecheckCall
<1>5. com' \in Cursors /\ com'.elem \in Elems /\ com'.tx \in Txs
  BY <1>2, <1>3, CursorType, Zenon
<1>6. ComInv'
  BY <1>5, Zenon DEF ComInv
<1>7. CallInv'
  BY <1>1, <1>2, CallStays, Zenon
<1> QED
  BY <1>1, <1>4, <1>6, <1>7, StepShrinks, Zenon

LEMMA StutterStep == ASSUME MInv, UNCHANGED vars PROVE MInv'
<1>1. UNCHANGED <<mp, height, call, com>>
  BY Zenon DEF vars
<1> QED
  BY <1>1, Zenon DEF MInv, CallInv, ComInv

\* A new mempool.
LEMMA InitHolds == ASSUME Init PROVE MInv
<1> DEFINE m == NewTxMempool
<1>1. /\ Sound(NewList) /\ Elements(NewList) = <<>> /\ NewList \in Lists
      /\ NewList.removed = Elems /\ NewList.len = 0
  BY NewListIsSound, Zenon DEF Sound, NewList
<1>2. NoWtx \in Wtxs
  BY DEF Wtxs, NoWtx
<1>3. <<>> \in Seq(Txs) /\ 0 \in Int /\ Nil \in Links
  BY DEF Links
<1>4. [e \in Elems |-> NoWtx] \in [Elems -> Wtxs] /\ [t \in Txs |-> Nil] \in [Txs -> Links]
      /\ [s \in Senders |-> Nil] \in [Senders -> Links]
  BY <1>2, <1>3, Zenon
<1>5. m \in Pools
  BY <1>1, <1>3, <1>4, Zenon DEF Pools, NewTxMempool
<1>6. /\ /\ m.txs = NewList /\ m.txByKey = [t \in Txs |-> Nil]
      /\ m.txBySender = [s \in Senders |-> Nil]
      /\ m.txsBytes = 0
  BY Zenon DEF NewTxMempool
<1> HIDE DEF m
<1>7. Listed(m) = {} /\ Size(m) = 0
  BY <1>1, <1>6, Zenon DEF Listed, Size
<1>8. SizeOf(m, <<>>) = 0
  <2>1. 0 \in Nat /\ Len(<<>>) = 0 /\ 1..0 = {}
    OBVIOUS
  <2>2. IsSum(0, [i \in 1..0 |-> TxSize[m.wtx[<<>>[i]].tx]], Total(TxSize, m, <<>>))
    BY <2>1, MempoolConstants, TotalIsSum, Zenon
  <2> QED
    BY <2>2, Zenon DEF IsSum, Sums, SizeOf
<1>9. \A s \in Senders, e \in Elems :
        m.txBySender[s] = e <=> e \in Listed(m) /\ Sender[m.wtx[e].tx] = s
  BY <1>6, <1>7, NilAssumption, Zenon
<1>10. Consistent(m)
  BY <1>1, <1>5, <1>6, <1>7, <1>8, <1>9, Zenon DEF Consistent
<1>11. Fitting(m)
  BY <1>6, <1>7, MempoolConstants DEF Fitting
<1>12. PoolOK(mp)
  BY <1>7, <1>10, <1>11, Zenon DEF PoolOK, Init, m
<1>13. height \in Nat
  BY DEF Init
<1>14. CallInv
  <2>1. CallOK(Idle, height) /\ Idle \in Calls
    BY <1>13, IdleOK, Zenon DEF CallOK
  <2> QED
    BY <2>1, Zenon DEF CallInv, Init
<1>15. ComInv
  <2>1. NoCursor \in Cursors /\ NoCursor.pc = "idle"
    BY DEF NoCursor, Cursors, Links
  <2>2. com \in Cursors /\ com.pc = "idle"
    BY <2>1, Zenon DEF Init
  <2> QED
    BY <2>2 DEF ComInv
<1> QED
  BY <1>12, <1>13, <1>14, <1>15, Zenon DEF MInv

\* Every step.
LEMMA NextHolds == ASSUME MInv, [Next]_vars PROVE MInv'
<1>1. ASSUME NEW c \in Callers, NEW t \in Txs, CheckTx(c, t) PROVE MInv'
  BY <1>1, CheckTxStep, Zenon
<1>2. ASSUME NEW c \in Callers, AppCheckTx(c) PROVE MInv'
  BY <1>2, AppCheckTxStep, Zenon
<1>3. ASSUME NEW c \in Callers, GlobalCallback(c) PROVE MInv'
  BY <1>3, GlobalCallbackStep, Zenon
<1>4. ASSUME NEW c \in Callers, InitialCallback(c) PROVE MInv'
  BY <1>4, InitialCallbackStep, Zenon
<1>5. ASSUME NEW c \in Callers, GossipTx(c) PROVE MInv'
  BY <1>5, GossipTxStep, Zenon
<1>6. ASSUME Flush \/ CommitLock \/ CommitUpdate PROVE MInv'
  BY <1>6, FlushStep, CommitLockStep, CommitUpdateStep, Zenon
<1>7. ASSUME RecheckStart \/ RecheckCall \/ RecheckNext PROVE MInv'
  BY <1>7, RecheckStartStep, RecheckCallStep, RecheckNextStep, Zenon
<1> QED
  BY <1>1, <1>2, <1>3, <1>4, <1>5, <1>6, <1>7, StutterStep, Zenon DEF Next

\* MInv is an invariant of the mempool.
LEMMA MempoolInvariant == Spec => []MInv
<1>1. Init => MInv
  BY InitHolds, Zenon
<1>2. MInv /\ [Next]_vars => MInv'
  BY NextHolds, Zenon
<1> QED
  BY <1>1, <1>2, PTL DEF Spec

\* The mempool's structures stay consistent.
THEOREM MempoolIsConsistent == Spec => []IndexesAgree
<1>1. ASSUME MInv PROVE IndexesAgree
  <2>1. Consistent(mp) /\ Sound(mp.txs)
    BY <1>1, Zenon DEF MInv, PoolOK, Consistent
  <2>2. \A e \in Listed(mp) : ~RemovePanics(mp.txs, e)
    BY <2>1, RemoveTakesOne, Zenon DEF Listed
  <2>3. ASSUME NEW s \in Senders
        PROVE  {e \in Listed(mp) : Sender[mp.wtx[e].tx] = s} = {mp.txBySender[s]} \ {Nil}
    <3>1. \A e \in Elems : mp.txBySender[s] = e <=> e \in Listed(mp) /\ Sender[mp.wtx[e].tx] = s
      BY <2>1, Zenon DEF Consistent
    <3>2. mp.txBySender \in [Senders -> Links]
      BY <2>1, FieldTypes, Zenon DEF Consistent
    <3>3. mp.txBySender[s] # Nil => mp.txBySender[s] \in Elems
      BY <3>2, Zenon DEF Links
    <3>4. \A e \in Listed(mp) : e \in Elems /\ e # Nil
      BY NilAssumption, Zenon DEF Listed
    <3> QED
      BY <3>1, <3>3, <3>4, Zenon
  <2>4. WellLinked(mp.txs) /\ WaitersWake(mp.txs)
    BY <2>1, Zenon DEF Sound
  <2>5. /\ \A t \in Txs :
             mp.txByKey[t] # Nil => mp.txByKey[t] \in Listed(mp) /\ mp.wtx[mp.txByKey[t]].tx = t
        /\ mp.txsBytes = SizeOf(mp, Elements(mp.txs))
    BY <2>1, Zenon DEF Consistent
  <2> QED
    BY <2>2, <2>3, <2>4, <2>5, Zenon DEF IndexesAgree
<1>2. MInv => IndexesAgree
  BY <1>1, Zenon
<1> QED
  BY <1>2, MempoolInvariant, PTL

\* The mempool never holds more transactions or bytes than its configuration allows: an
\* eviction makes room before the insertion, for every MaxSize and MaxTxsBytes.
THEOREM MempoolWithinCapacity == Spec => []WithinCapacity
<1>1. MInv => WithinCapacity
  BY Zenon DEF MInv, PoolOK, Fitting, WithinCapacity
<1> QED
  BY <1>1, MempoolInvariant, PTL

-----------------------------------------------------------------------------
(* A transaction is in the pool once *)

CameTo(r, t) == r.tx = t /\ r.pc \in Coming

\* Pending, of a pool and calls.
Pends(m, k, t) == (\E c \in Callers : CameTo(k[c], t)) \/ (\E e \in Listed(m) : m.wtx[e].tx = t)

\* t comes once or is in the pool, where its key finds it, and the cache knows it.
OnceFor(m, k, t) ==
  /\ Indexed(m, t)
  /\ \A c, d \in Callers : CameTo(k[c], t) /\ CameTo(k[d], t) => c = d
  /\ \A c \in Callers : CameTo(k[c], t) => \A e \in Listed(m) : m.wtx[e].tx # t
  /\ Pends(m, k, t) => Seen(m.cache, t)

OnceInv == \A t \in Txs \ forgotten : OnceFor(mp, call, t)

LEMMA NotPending == ASSUME NEW m, NEW k, NEW t, ~Pends(m, k, t) PROVE OnceFor(m, k, t)
  BY Zenon DEF Pends, OnceFor, Indexed

LEMMA Remembered ==
  ASSUME Remember, NEW t \in Txs, t \notin forgotten', Pends(mp', call', t)
  PROVE  t \notin forgotten /\ (Seen(mp.cache, t) => Seen(mp'.cache, t))
<1>1. Pending(t)'
  BY Zenon DEF Pends, Pending, CameTo, Coming
<1> QED
  BY <1>1, Zenon DEF Remember

\* The pool shrinks and nothing new comes.
LEMMA OnceKept ==
  ASSUME OnceInv, Shrunk(mp, mp'), Remember \/ UNCHANGED <<mp, forgotten>>,
         \A c \in Callers, t \in Txs : CameTo(call'[c], t) => CameTo(call[c], t)
  PROVE  OnceInv'
<1>1. ASSUME NEW t \in Txs, t \notin forgotten' PROVE OnceFor(mp', call', t)
  <2>1. CASE ~Pends(mp', call', t)
    BY <2>1, NotPending, Zenon
  <2>2. CASE Pends(mp', call', t)
    <3>1. t \notin forgotten /\ (Seen(mp.cache, t) => Seen(mp'.cache, t))
      BY <1>1, <2>2, Remembered, Zenon
    <3>2. OnceFor(mp, call, t)
      BY <3>1, Zenon DEF OnceInv
    <3>3. \A e \in Listed(mp') : e \in Listed(mp) /\ mp'.wtx[e].tx = mp.wtx[e].tx
      BY Zenon DEF Shrunk
    <3>4. Indexed(mp', t)
      BY <3>2, Zenon DEF OnceFor, Shrunk
    <3>5. Pends(mp, call, t)
      BY <2>2, <3>3, Zenon DEF Pends
    <3> QED
      BY <3>1, <3>2, <3>3, <3>4, <3>5, Zenon DEF OnceFor
  <2> QED
    BY <2>1, <2>2, Zenon
<1> QED
  BY <1>1, Zenon DEF OnceInv

\* A caller that goes on brings nothing new.
LEMMA GoesOn ==
  ASSUME MInv, NEW c \in Callers, NEW r, call' = [call EXCEPT ![c] = r],
         \A t \in Txs : CameTo(r, t) => CameTo(call[c], t)
  PROVE  \A d \in Callers, t \in Txs : CameTo(call'[d], t) => CameTo(call[d], t)
<1>1. call \in [Callers -> Calls]
  BY CallOf, Zenon
<1>2. call'[c] = r /\ \A d \in Callers : d # c => call'[d] = call[d]
  BY <1>1, Zenon
<1> QED
  BY <1>2, Zenon

LEMMA IdleComesNot ==
  /\ Idle.pc \notin Coming /\ [Idle EXCEPT !.pc = "stuck"].pc \notin Coming
  /\ \A t : [Idle EXCEPT !.pc = "gossip", !.tx = t].pc \notin Coming
<1>1. Idle \in Calls /\ Idle.pc = "idle"
  BY DEF Idle, Calls
<1>2. /\ [Idle EXCEPT !.pc = "stuck"].pc = "stuck"
      /\ \A t : [Idle EXCEPT !.pc = "gossip", !.tx = t].pc = "gossip"
  BY <1>1, Zenon DEF Calls
<1>3. "idle" \notin Coming /\ "stuck" \notin Coming /\ "gossip" \notin Coming
  BY DEF Coming
<1> QED
  BY <1>1, <1>2, <1>3, Zenon

LEMMA FailedGoesOn ==
  ASSUME MInv, NEW c \in Callers, Failed(c)
  PROVE  \A d \in Callers, t \in Txs : CameTo(call'[d], t) => CameTo(call[d], t)
<1>1. \E r : call' = [call EXCEPT ![c] = r] /\ r.pc \notin Coming
  BY IdleComesNot, Zenon DEF Failed
<1> QED
  BY <1>1, GoesOn, Zenon DEF CameTo

\* CheckTx: what the cache has not seen was not pending.
LEMMA OnceCheckTx ==
  ASSUME MInv, OnceInv, CacheSize # 0, NEW c \in Callers, NEW t \in Txs, CheckTx(c, t)
  PROVE  OnceInv'
<1>1. Shrunk(mp, mp') /\ Remember
  BY CheckTxStep, Zenon DEF CheckTx
<1>2. CASE Failed(c)
  BY <1>1, <1>2, FailedGoesOn, OnceKept, Zenon
<1>3. CASE call' = call
  BY <1>1, <1>3, OnceKept, Zenon
<1>4. CASE /\ ~Seen(mp.cache, t) /\ mp' = [mp EXCEPT !.cache = CachePush(@, t)]
           /\ call' = [call EXCEPT ![c] = [Idle EXCEPT !.pc = "app", !.tx = t, !.height = height]]
  <2> DEFINE r == [Idle EXCEPT !.pc = "app", !.tx = t, !.height = height]
  <2>1. r.tx = t
    <3>1. Idle \in Calls
      BY DEF Idle, Calls
    <3> QED
      BY <3>1, Zenon DEF Calls
  <2> HIDE DEF r
  <2>2. call \in [Callers -> Calls] /\ mp \in Pools /\ Consistent(mp)
    BY CallOf, Zenon DEF MInv, PoolOK, Consistent
  <2>3. call'[c] = r /\ \A d \in Callers : d # c => call'[d] = call[d]
    BY <1>4, <2>2, Zenon DEF r
  <2>4. \A e \in Listed(mp') : e \in Listed(mp) /\ mp'.wtx[e].tx = mp.wtx[e].tx
    BY <1>1, Zenon DEF Shrunk
  <2>5. ASSUME NEW u \in Txs, u \notin forgotten' PROVE OnceFor(mp', call', u)
    <3>1. CASE ~Pends(mp', call', u)
      BY <3>1, NotPending, Zenon
    <3>2. CASE Pends(mp', call', u)
      <4>1. u \notin forgotten /\ (Seen(mp.cache, u) => Seen(mp'.cache, u))
        BY <1>1, <2>5, <3>2, Remembered, Zenon
      <4>2. OnceFor(mp, call, u)
        BY <4>1, Zenon DEF OnceInv
      <4>3. Indexed(mp', u)
        BY <1>1, <4>2, Zenon DEF OnceFor, Shrunk
      <4>4. CASE u = t
        <5>1. ~Pends(mp, call, u)
          BY <1>4, <4>2, <4>4, Zenon DEF OnceFor
        <5>2. (\A d \in Callers : CameTo(call'[d], u) => d = c) /\ \A e \in Listed(mp') : mp'.wtx[e].tx # u
          BY <2>3, <2>4, <5>1, Zenon DEF Pends
        <5>3. Seen(mp'.cache, u)
          <6>1. mp.cache \in Seq(Txs) /\ mp'.cache = CachePush(mp.cache, t)
            BY <1>4, <2>2, FieldTypes, ShrunkPush, Zenon
          <6> QED
            BY <6>1, <1>4, <4>4, PushIsSeen, Zenon
        <5> QED
          BY <4>3, <5>2, <5>3, Zenon DEF OnceFor
      <4>5. CASE u # t
        <5>1. \A d \in Callers : CameTo(call'[d], u) => CameTo(call[d], u)
          BY <2>1, <2>3, <4>5, Zenon DEF CameTo
        <5>2. Pends(mp, call, u)
          BY <2>4, <3>2, <5>1, Zenon DEF Pends
        <5> QED
          BY <2>4, <4>1, <4>2, <4>3, <5>1, <5>2, Zenon DEF OnceFor
      <4> QED
        BY <4>4, <4>5, Zenon
    <3> QED
      BY <3>1, <3>2, Zenon
  <2> QED
    BY <2>5, Zenon DEF OnceInv
<1> QED
  BY <1>2, <1>3, <1>4, Zenon DEF CheckTx

\* initialTxCallback: what was coming is in the pool, or nowhere.
LEMMA OnceInitialCallback ==
  ASSUME MInv, OnceInv, NEW c \in Callers, InitialCallback(c)
  PROVE  OnceInv'
<1>1. Remember /\ (Shrunk(mp, mp') \/ \E e \in Elems : Entered(mp, e, Checked(c), mp'))
  BY InitialCallbackStep, Zenon DEF InitialCallback
<1>2. call \in [Callers -> Calls]
  BY CallOf, Zenon
<1>3. PICK r : call' = [call EXCEPT ![c] = r] /\ r.pc \notin Coming
  <2>1. CASE Failed(c)
    BY <2>1, IdleComesNot, Zenon DEF Failed
  <2>2. CASE call' = [call EXCEPT ![c] = IF call[c].ok /\ c \notin IsValidator
                                         THEN [Idle EXCEPT !.pc = "gossip", !.tx = call[c].tx]
                                         ELSE Idle]
    <3>1. CASE call[c].ok /\ c \notin IsValidator
      BY <2>2, <3>1, IdleComesNot, Zenon
    <3>2. CASE ~(call[c].ok /\ c \notin IsValidator)
      BY <2>2, <3>2, IdleComesNot, Zenon
    <3> QED
      BY <3>1, <3>2, Zenon
  <2> QED
    BY <2>1, <2>2, Zenon DEF InitialCallback
<1>4. \A d \in Callers, t \in Txs : CameTo(call'[d], t) => CameTo(call[d], t)
  BY <1>3, GoesOn, Zenon DEF CameTo
<1>5. CASE Shrunk(mp, mp')
  BY <1>1, <1>4, <1>5, OnceKept, Zenon
<1>6. CASE \E e \in Elems : Entered(mp, e, Checked(c), mp')
  <2>1. PICK e \in Elems : Entered(mp, e, Checked(c), mp')
    BY <1>6, Zenon
  <2> DEFINE t == call[c].tx
  <2>2. Checked(c).tx = t
    BY Zenon DEF Checked
  <2>3. /\ mp'.wtx[e].tx = t /\ mp'.txByKey[t] = e /\ e \in Listed(mp')
        /\ \A x \in Listed(mp') : x # e => x \in Listed(mp) /\ mp'.wtx[x].tx = mp.wtx[x].tx
        /\ \A u \in Txs : u # t /\ Indexed(mp, u) => Indexed(mp', u)
    BY <2>1, <2>2, Zenon DEF Entered
  <2>4. CameTo(call[c], t)
    BY Zenon DEF CameTo, Coming, InitialCallback
  <2>5. ~CameTo(call'[c], t)
    BY <1>2, <1>3, Zenon DEF CameTo
  <2> HIDE DEF t
  <2>6. ASSUME NEW u \in Txs, u \notin forgotten' PROVE OnceFor(mp', call', u)
    <3>1. CASE ~Pends(mp', call', u)
      BY <3>1, NotPending, Zenon
    <3>2. CASE Pends(mp', call', u)
      <4>1. u \notin forgotten /\ (Seen(mp.cache, u) => Seen(mp'.cache, u))
        BY <1>1, <2>6, <3>2, Remembered, Zenon
      <4>2. OnceFor(mp, call, u)
        BY <4>1, Zenon DEF OnceInv
      <4>3. Pends(mp, call, u)
        <5>1. CASE u = t
          BY <5>1, <2>4, Zenon DEF Pends
        <5>2. CASE u # t
          BY <1>4, <2>3, <3>2, <5>2, Zenon DEF Pends
        <5> QED
          BY <5>1, <5>2, Zenon
      <4>4. Seen(mp'.cache, u)
        BY <4>1, <4>2, <4>3, Zenon DEF OnceFor
      <4>5. CASE u = t
        <5>1. \A x \in Listed(mp) : mp.wtx[x].tx # u
          BY <2>4, <4>2, <4>5, Zenon DEF OnceFor
        <5>2. \A x \in Listed(mp') : mp'.wtx[x].tx = u => x = e
          BY <2>3, <5>1, Zenon
        <5>3. Indexed(mp', u)
          BY <2>3, <4>5, <5>2, Zenon DEF Indexed
        <5>4. \A d \in Callers : ~CameTo(call'[d], u)
          BY <1>4, <2>4, <2>5, <4>2, <4>5, Zenon DEF OnceFor
        <5> QED
          BY <4>4, <5>3, <5>4, Zenon DEF OnceFor
      <4>6. CASE u # t
        <5>1. Indexed(mp', u)
          BY <2>3, <4>2, <4>6, Zenon DEF OnceFor
        <5>2. \A x \in Listed(mp') : mp'.wtx[x].tx = u => x \in Listed(mp) /\ mp.wtx[x].tx = u
          BY <2>3, <4>6, Zenon
        <5>3. \A d \in Callers : CameTo(call'[d], u) => CameTo(call[d], u)
          BY <1>4, Zenon
        <5> QED
          BY <4>2, <4>4, <5>1, <5>2, <5>3, Zenon DEF OnceFor
      <4> QED
        BY <4>5, <4>6, Zenon
    <3> QED
      BY <3>1, <3>2, Zenon
  <2> QED
    BY <2>6, Zenon DEF OnceInv
<1> QED
  BY <1>1, <1>5, <1>6, Zenon

LEMMA OnceAppCheckTx ==
  ASSUME MInv, OnceInv, NEW c \in Callers, AppCheckTx(c)
  PROVE  OnceInv'
<1>1. Shrunk(mp, mp') /\ UNCHANGED <<mp, forgotten>>
  BY AppCheckTxStep, Zenon DEF AppCheckTx
<1>2. call \in [Callers -> Calls] /\ call[c] \in Calls /\ call[c].pc \in Coming
  BY CallOf, Zenon DEF AppCheckTx, Coming
<1>3. PICK r : call' = [call EXCEPT ![c] = r] /\ r.tx = call[c].tx
  <2>1. PICK v \in Verdicts :
          call' = [call EXCEPT ![c].pc = IF OneLess(txRecheck) < 0 THEN "initial" ELSE "global",
                               ![c].ok = v.ok, ![c].priority = v.priority]
    BY Zenon DEF AppCheckTx
  <2> DEFINE pc == IF OneLess(txRecheck) < 0 THEN "initial" ELSE "global"
             r == [call[c] EXCEPT !.pc = pc, !.ok = v.ok, !.priority = v.priority]
  <2> HIDE DEF pc
  <2>2. call' = [call EXCEPT ![c] = r]
    BY <2>1, <1>2, Zenon DEF pc
  <2>3. r.tx = call[c].tx
    BY <1>2, Zenon DEF Calls
  <2> QED
    BY <2>2, <2>3, Zenon
<1>4. \A t \in Txs : CameTo(r, t) => CameTo(call[c], t)
  BY <1>2, <1>3, Zenon DEF CameTo
<1>5. \A d \in Callers, t \in Txs : CameTo(call'[d], t) => CameTo(call[d], t)
  BY <1>3, <1>4, GoesOn, Zenon
<1> QED
  BY <1>1, <1>5, OnceKept, Zenon

LEMMA OnceGlobalCallback ==
  ASSUME MInv, OnceInv, NEW c \in Callers, GlobalCallback(c)
  PROVE  OnceInv'
<1>1. Shrunk(mp, mp') /\ Remember
  BY GlobalCallbackStep, Zenon DEF GlobalCallback
<1>2. call[c] \in Calls /\ call[c].pc \in Coming
  BY CallOf, Zenon DEF GlobalCallback, Coming
<1>3. PICK r : call' = [call EXCEPT ![c] = r] /\ r.tx = call[c].tx
  <2> DEFINE r == [call[c] EXCEPT !.pc = "initial"]
  <2>1. call' = [call EXCEPT ![c] = r]
    BY Zenon DEF GlobalCallback
  <2>2. r.tx = call[c].tx
    BY <1>2, Zenon DEF Calls
  <2> QED
    BY <2>1, <2>2, Zenon
<1>4. \A t \in Txs : CameTo(r, t) => CameTo(call[c], t)
  BY <1>2, <1>3, Zenon DEF CameTo
<1>5. \A d \in Callers, t \in Txs : CameTo(call'[d], t) => CameTo(call[d], t)
  BY <1>3, <1>4, GoesOn, Zenon
<1> QED
  BY <1>1, <1>5, OnceKept, Zenon

LEMMA OnceGossipTx ==
  ASSUME MInv, OnceInv, NEW c \in Callers, GossipTx(c)
  PROVE  OnceInv'
<1>1. Shrunk(mp, mp') /\ Remember /\ call' = [call EXCEPT ![c] = Idle]
  BY GossipTxStep, Zenon DEF GossipTx
<1>2. \A d \in Callers, t \in Txs : CameTo(call'[d], t) => CameTo(call[d], t)
  BY <1>1, IdleComesNot, GoesOn, Zenon DEF CameTo
<1> QED
  BY <1>1, <1>2, OnceKept, Zenon

\* The steps that move no caller.
LEMMA OnceOthers ==
  ASSUME MInv, OnceInv,
         Flush \/ CommitLock \/ CommitUpdate \/ RecheckStart \/ RecheckCall \/ RecheckNext \/ UNCHANGED vars
  PROVE  OnceInv'
<1>1. Shrunk(mp, mp')
  <2>1. CASE UNCHANGED vars
    BY <2>1, ShrunkNot, Zenon DEF vars
  <2> QED
    BY <2>1, FlushStep, CommitLockStep, CommitUpdateStep, RecheckStartStep,
       RecheckCallStep,
       RecheckNextStep, Zenon
<1>2. call' = call
  BY Zenon
  DEF Flush, CommitLock, CommitUpdate, RecheckStart, RecheckCall, RecheckNext, vars
<1>3. Remember \/ UNCHANGED <<mp, forgotten>>
  BY Zenon
  DEF Flush, CommitLock, CommitUpdate, RecheckStart, RecheckCall, RecheckNext, vars
<1> QED
  BY <1>1, <1>2, <1>3, OnceKept, Zenon

LEMMA OnceNext ==
  ASSUME MInv, OnceInv, CacheSize # 0, [Next]_vars
  PROVE  OnceInv'
<1>1. ASSUME NEW c \in Callers, NEW t \in Txs, CheckTx(c, t) PROVE OnceInv'
  BY <1>1, OnceCheckTx, Zenon
<1>2. ASSUME NEW c \in Callers, AppCheckTx(c) PROVE OnceInv'
  BY <1>2, OnceAppCheckTx, Zenon
<1>3. ASSUME NEW c \in Callers, GlobalCallback(c) PROVE OnceInv'
  BY <1>3, OnceGlobalCallback, Zenon
<1>4. ASSUME NEW c \in Callers, InitialCallback(c) PROVE OnceInv'
  BY <1>4, OnceInitialCallback, Zenon
<1>5. ASSUME NEW c \in Callers, GossipTx(c) PROVE OnceInv'
  BY <1>5, OnceGossipTx, Zenon
<1> QED
  BY <1>1, <1>2, <1>3, <1>4, <1>5, OnceOthers, Zenon DEF Next

\* The invariant says what PooledOnce says.
LEMMA OnceMeans == ASSUME MInv, OnceInv PROVE PooledOnce
<1> SUFFICES ASSUME NEW t \in Txs \ forgotten
             PROVE  LET listed == {e \in Listed(mp) : mp.wtx[e].tx = t}
                        coming == {c \in Callers : call[c].tx = t /\ call[c].pc \in {"app", "global", "initial"}}
                    IN  /\ Cardinality(listed) + Cardinality(coming) <= 1
                        /\ listed = {mp.txByKey[t]} \ {Nil}
  BY Zenon DEF PooledOnce
<1> DEFINE listed == {e \in Listed(mp) : mp.wtx[e].tx = t}
           coming == {c \in Callers : call[c].tx = t /\ call[c].pc \in {"app", "global", "initial"}}
<1>1. OnceFor(mp, call, t) /\ Consistent(mp)
  BY Zenon DEF OnceInv, MInv, PoolOK
<1>2. \A e \in listed : mp.txByKey[t] = e /\ e # Nil
  BY <1>1, NilAssumption, Zenon DEF OnceFor, Indexed, Listed
<1>3. mp.txByKey[t] # Nil => mp.txByKey[t] \in listed
  BY <1>1, Zenon DEF Consistent
<1>4. listed = {mp.txByKey[t]} \ {Nil}
  <2> HIDE DEF listed
  <2> QED
    BY <1>2, <1>3, Zenon
<1>5. \A c, d \in coming : c = d
  BY <1>1, Zenon DEF OnceFor, CameTo, Coming
<1>6. coming # {} => listed = {}
  BY <1>1, Zenon DEF OnceFor, CameTo, Coming
<1> HIDE DEF listed, coming
<1>7. Cardinality({}) = 0 /\ \A x : Cardinality({x}) = 1
  BY FS_EmptySet, FS_Singleton, Zenon
<1>8. listed = {} \/ \E x : listed = {x}
  BY <1>4, Zenon
<1>9. coming = {} \/ \E x : coming = {x}
  <2>1. ASSUME NEW x \in coming PROVE coming = {x}
    BY <1>5, Zenon
  <2> QED
    BY <2>1, Zenon
<1>10. \/ Cardinality(listed) = 0 /\ Cardinality(coming) = 0
       \/ Cardinality(listed) = 0 /\ Cardinality(coming) = 1
       \/ Cardinality(listed) = 1 /\ Cardinality(coming) = 0
  BY <1>6, <1>7, <1>8, <1>9, Zenon
<1>11. Cardinality(listed) + Cardinality(coming) <= 1
  BY <1>10
<1> QED
  BY <1>4, <1>11, Zenon DEF listed, coming

\* A transaction that the cache never forgot while it was pending is in the pool or on
\* its way at most once, and its key finds it, for every size of cache but none
\* (without a cache CheckTx lets the same transaction come twice).
THEOREM MempoolPoolsOnce ==
  ASSUME CacheSize # 0
  PROVE  Spec => []PooledOnce
<1>1. Init => OnceInv
  <2> SUFFICES ASSUME Init PROVE OnceInv
    BY Zenon
  <2>1. Listed(mp) = {}
    BY Zenon DEF Init, NewTxMempool, NewList, Listed
  <2>2. \A c \in Callers : call[c].pc \notin Coming
    BY IdleComesNot, Zenon DEF Init
  <2>3. \A t \in Txs : ~Pends(mp, call, t)
    BY <2>1, <2>2, Zenon DEF Pends, CameTo
  <2> QED
    BY <2>3, NotPending, Zenon DEF OnceInv
<1>2. MInv /\ OnceInv /\ [Next]_vars => OnceInv'
  BY OnceNext, Zenon
<1>3. MInv /\ OnceInv => PooledOnce
  BY OnceMeans, Zenon
<1> QED
  BY <1>1, <1>2, <1>3, MempoolInvariant, PTL DEF Spec

-----------------------------------------------------------------------------
(* Reaping a block *)

LEMMA SumOfFew ==
  /\ \A w, x : IsSum(0, w, x) => x = 0
  /\ \A w, x : IsSum(1, w, x) /\ w[1] \in Int => x = w[1]
<1>1. ASSUME NEW w, NEW x, IsSum(0, w, x) PROVE x = 0
  BY <1>1, Zenon DEF IsSum, Sums
<1>2. ASSUME NEW w, NEW x, IsSum(1, w, x), w[1] \in Int PROVE x = w[1]
  <2>1. PICK t : Sums(1, w, t) /\ x = t[1]
    BY <1>2, Zenon DEF IsSum
  <2>2. 1 \in 1..1 /\ 1 - 1 = 0
    OBVIOUS
  <2>3. t[1] = t[1 - 1] + w[1] /\ t[0] = 0
    BY <2>1, <2>2, Zenon DEF Sums
  <2>4. t[1] = 0 + w[1]
    BY <2>2, <2>3, Zenon
  <2> QED
    BY <1>2, <2>1, <2>4
<1> QED
  BY <1>1, <1>2, Zenon

\* The total of no and of one transaction.
LEMMA TotalOfFew ==
  ASSUME NEW weight \in [Txs -> Nat], NEW m,
         NEW q, Len(q) = 0 \/ (Len(q) = 1 /\ m.wtx[q[1]].tx \in Txs)
  PROVE  Total(weight, m, q) = IF Len(q) = 0 THEN 0 ELSE weight[m.wtx[q[1]].tx]
<1> DEFINE n == Len(q)
           w == [i \in 1..n |-> weight[m.wtx[q[i]].tx]]
<1>1. n \in Nat /\ \A i \in 1..n : n = 1 /\ i = 1
  <2>1. n = 0 \/ n = 1
    BY Zenon
  <2> HIDE DEF n
  <2> QED
    BY <2>1
<1>2. \A i \in 1..n : m.wtx[q[i]].tx \in Txs
  <2>1. ASSUME NEW i \in 1..n PROVE m.wtx[q[i]].tx \in Txs
    <3>1. Len(q) = 1 /\ i = 1
      BY <1>1
    <3> QED
      BY <3>1
  <2> QED
    BY <2>1, Zenon
<1>3. IsSum(n, w, Total(weight, m, q))
  BY <1>1, <1>2, TotalIsSum, Zenon
<1>4. CASE Len(q) = 0
  BY <1>3, <1>4, SumOfFew, Zenon
<1>5. CASE Len(q) = 1
  <2>1. 1 \in 1..n /\ 1 # 0
    BY <1>5
  <2>2. w[1] = weight[m.wtx[q[1]].tx] /\ weight[m.wtx[q[1]].tx] \in Nat
    BY <1>2, <2>1, Zenon
  <2> HIDE DEF w
  <2>3. w[1] \in Int
    BY <2>2
  <2>4. Total(weight, m, q) = w[1]
    BY <1>3, <1>5, <2>3, SumOfFew, Zenon
  <2> QED
    BY <1>5, <2>1, <2>2, <2>4, Zenon
<1> QED
  BY <1>4, <1>5, Zenon

\* n transactions of all are reaped.
Reaps(m, all, n) ==
  /\ n \in 0..Len(all)
  /\ \A j \in 1..n : Fits(SubSeq(all, 1, j), m)
  /\ n < Len(all) => ~Fits(SubSeq(all, 1, n + 1), m)

\* The loop of ReapMaxBytesMaxGas stops somewhere.
LEMMA ReapStops ==
  ASSUME NEW m, NEW all, Len(all) \in Nat
  PROVE  \E n \in 0..Len(all) : Reaps(m, all, n)
<1> DEFINE F(j) == Fits(SubSeq(all, 1, j), m)
           D == {k \in 0..Len(all) : \A j \in 1..k : F(j)}
<1> HIDE DEF F
<1> SUFFICES ASSUME \A n \in 0..Len(all) : ~Reaps(m, all, n) PROVE FALSE
  BY Zenon
<1>1. ASSUME NEW k \in D PROVE k < Len(all) /\ F(k + 1)
  BY <1>1, Zenon DEF Reaps, F
<1>2. 0 \in D
  OBVIOUS
<1>3. ASSUME NEW k \in 1..Len(all), k - 1 \in D PROVE k \in D
  <2>1. (k - 1) + 1 = k /\ k \in 0..Len(all) /\ \A j \in 1..k : j \in 1..(k - 1) \/ j = k
    OBVIOUS
  <2>2. F(k)
    BY <1>1, <1>3, <2>1, Zenon
  <2>3. \A j \in 1..(k - 1) : F(j)
    BY <1>3, Zenon
  <2> QED
    BY <2>1, <2>2, <2>3, Zenon
<1> HIDE DEF D
<1>4. Len(all) \in D
  <2>1. \A k \in 0..Len(all) : k \in D
    BY <1>2, <1>3, UpTo, Zenon
  <2>2. Len(all) \in 0..Len(all)
    OBVIOUS
  <2> QED
    BY <2>1, <2>2, Zenon
<1>5. Len(all) < Len(all)
  BY <1>1, <1>4, Zenon
<1> QED
  BY <1>5

\* The first k elements.
LEMMA Prefix ==
  ASSUME NEW S, NEW all \in Seq(S), NEW k \in 0..Len(all)
  PROVE  Len(SubSeq(all, 1, k)) = k /\ \A i \in 1..k : SubSeq(all, 1, k)[i] = all[i]
  OBVIOUS

\* What is reaped fits, by MInv.
LEMMA ReapFits == ASSUME MInv PROVE ReapedBlockFits
<1> DEFINE all == AllEntriesSorted(mp)
           r == CHOOSE n \in 0..Len(all) : Reaps(mp, all, n)
           reaped == SubSeq(all, 1, r)
<1>1. ReapMaxBytesMaxGas(mp) = reaped
  <2>1. \A n \in 0..Len(all) :
          Reaps(mp, all, n) <=> /\ \A j \in 1..n : Fits(SubSeq(all, 1, j), mp)
                                /\ n < Len(all) => ~Fits(SubSeq(all, 1, n + 1), mp)
    BY Zenon DEF Reaps
  <2> QED
    BY <2>1, Zenon DEF ReapMaxBytesMaxGas
<1>2. Consistent(mp) /\ PoolOK(mp)
  BY Zenon DEF MInv, PoolOK
<1>3. PICK n \in Nat : /\ Chosen(mp, all, n)
                       /\ \A i, j \in 1..n : i < j => Earlier(mp, all[j], all[i])
  BY <1>2, EntriesSorted, Zenon
<1>4. /\ all \in Seq(Elems) /\ Len(all) = n /\ DOMAIN all = 1..n
      /\ \A i \in 1..n : all[i] \in Listed(mp)
  BY <1>3, Zenon DEF Chosen
<1>5. \A i \in 1..n : /\ mp.wtx[all[i]].tx \in Txs
                      /\ mp.wtx[all[i]].priority \in Int /\ mp.wtx[all[i]].height \in Nat
  <2>1. \A e \in Listed(mp) : mp.wtx[e].tx \in Txs
    BY <1>2, Zenon DEF Consistent
  <2> QED
    BY <1>2, <1>4, <2>1, PriorityType, Zenon
<1>6. /\ ReapMaxTxs(mp, -1) = all
      /\ \A k \in Nat : ReapMaxTxs(mp, k) = SubSeq(all, 1, Min({k, Len(all)}))
  <2>1. -1 < 0 /\ \A k \in Nat : ~(k < 0)
    OBVIOUS
  <2> QED
    BY <2>1, Zenon DEF ReapMaxTxs
<1>7. ProtoSize \in [Txs -> Nat] /\ GasWanted \in [Txs -> Nat] /\ MaxBytes \in Nat
  <2>1. ASSUME NEW t \in Txs
        PROVE  Cardinality({k \in 1..4 : TxSize[t] >= 2^(7 * k)}) \in Nat
    <3> DEFINE K == {k \in 1..4 : TxSize[t] >= 2^(7 * k)}
    <3>1. K \subseteq 1..4
      BY Zenon
    <3> HIDE DEF K
    <3>2. 1 \in Int /\ 4 \in Int
      OBVIOUS
    <3>3. Cardinality(K) \in Nat
      BY <3>1, <3>2, FS_Interval, FS_Subset, FS_CardinalityType, Zenon
    <3> QED
      BY <3>3, Zenon DEF K
  <2>2. ASSUME NEW t \in Txs PROVE ProtoSize[t] \in Nat
    <3>1. TxSize[t] \in Nat
      BY MempoolConstants, Zenon
    <3>2. \A k, x \in Nat : 1 + (1 + k) + x \in Nat
      OBVIOUS
    <3> QED
      BY <2>1, <3>1, <3>2, Zenon DEF ProtoSize
  <2>3. DOMAIN ProtoSize = Txs /\ ProtoSize = [t \in Txs |-> ProtoSize[t]]
    BY Zenon DEF ProtoSize
  <2> QED
    BY <2>2, <2>3, MempoolConstants, Zenon
<1> HIDE DEF all, r
<1>8. Reaps(mp, all, r) /\ r \in 0..n
  <2>1. r \in 0..Len(all) /\ Reaps(mp, all, r)
    BY <1>4, ReapStops, Zenon DEF r
  <2> QED
    BY <1>4, <2>1, Zenon
<1>9. r \in Nat /\ Len(reaped) = r
  BY <1>4, <1>8, Prefix
<1>10. Fits(reaped, mp)
  <2>1. CASE r = 0
    <3>1. Total(ProtoSize, mp, reaped) = 0 /\ Total(GasWanted, mp, reaped) = 0
      BY <1>7, <1>9, <2>1, TotalOfFew, Zenon
    <3>2. 0 <= MaxBytes
      BY <1>7
    <3>3. MaxGas >= 0 => 0 <= MaxGas
      BY MempoolConstants
    <3> QED
      BY <3>1, <3>2, <3>3, Zenon DEF Fits
  <2>2. CASE r # 0
    <3>1. r \in 1..r
      BY <1>9, <2>2
    <3> QED
      BY <1>8, <3>1, Zenon DEF Reaps
  <2> QED
    BY <2>1, <2>2, Zenon
<1>11. reaped = ReapMaxTxs(mp, Len(reaped))
  <2>1. Min({r, Len(all)}) = r
    <3>1. \A x \in {r, Len(all)} : (\A y \in {r, Len(all)} : x <= y) <=> x = r
      BY <1>4, <1>8, <1>9
    <3> QED
      BY <3>1, Zenon DEF Min
  <2> QED
    BY <1>6, <1>9, <2>1, Zenon
<1>12. \A i, j \in DOMAIN all : i < j => mp.wtx[all[i]].priority >= mp.wtx[all[j]].priority
  <2> SUFFICES ASSUME NEW i \in 1..n, NEW j \in 1..n, i < j
               PROVE  mp.wtx[all[i]].priority >= mp.wtx[all[j]].priority
    BY <1>4, Zenon
  <2>1. Earlier(mp, all[j], all[i])
    BY <1>3, Zenon
  <2>2. \/ mp.wtx[all[j]].priority < mp.wtx[all[i]].priority
        \/ mp.wtx[all[j]].priority = mp.wtx[all[i]].priority
    BY <2>1, Zenon DEF Earlier
  <2> QED
    BY <1>5, <2>2
<1>13. ASSUME reaped = <<>>, all # <<>> PROVE mp.wtx[all[1]].height = 0
  <2> DEFINE first == SubSeq(all, 1, 1)
             t == mp.wtx[all[1]].tx
  <2>1. r = 0 /\ 1 \in 1..n /\ r < Len(all) /\ r + 1 = 1
    <3>1. Len(reaped) = 0
      <4>1. Len(<<>>) = 0
        OBVIOUS
      <4> QED
        BY <1>13, <4>1, Zenon
    <3>2. Len(all) # 0
      BY <1>4, <1>13
    <3> QED
      BY <1>4, <1>9, <3>1, <3>2
  <2>2. ~Fits(first, mp)
    BY <1>8, <2>1, Zenon DEF Reaps
  <2>3. Len(first) = 1 /\ first[1] = all[1]
    BY <1>4, <2>1
  <2> HIDE DEF first
  <2>4. t \in Txs /\ mp.wtx[first[1]].tx = t
    BY <1>5, <2>1, <2>3, Zenon
  <2>5. /\ Total(ProtoSize, mp, first) = ProtoSize[t]
        /\ Total(GasWanted, mp, first) = GasWanted[t]
    <3>1. Len(first) # 0
      BY <2>3
    <3>2. \A weight \in [Txs -> Nat] : Total(weight, mp, first) = weight[mp.wtx[first[1]].tx]
      BY <2>3, <2>4, <3>1, TotalOfFew, Zenon
    <3> QED
      BY <1>7, <2>4, <3>2, Zenon
  <2>6. ~FitsAlone(t)
    BY <2>2, <2>5, Zenon DEF Fits, FitsAlone
  <2>7. ~(mp.wtx[all[1]].height > 0)
    BY <1>2, <1>4, <2>1, <2>6, Zenon DEF PoolOK
  <2> QED
    BY <1>5, <2>1, <2>7
<1> QED
  BY <1>1, <1>6, <1>10, <1>11, <1>12, <1>13, Zenon DEF Fits, ReapedBlockFits

\* A reaped block fits into its limits, is a prefix of what ReapMaxTxs shows, in the
\* order of priorities, and is empty only if the pool is or its first transaction was
\* checked before the first block set the limits, for every block size, gas limit and
\* pool.
THEOREM MempoolReapFits == Spec => []ReapedBlockFits
<1>1. MInv => ReapedBlockFits
  BY ReapFits, Zenon
<1> QED
  BY <1>1, MempoolInvariant, PTL

-----------------------------------------------------------------------------
(* The ids of peers *)

\* What is kept by every step: PeerIDsUnique follows from it.
IDInv ==
  /\ PeerTypeOK
  /\ \A p, q \in Peers : peerMap[p] # NoID =>
       /\ peerMap[p] \in activeIDs \ {0}
       /\ p # q => peerMap[p] # peerMap[q]
  /\ 0 \in activeIDs
  /\ Cardinality(activeIDs) <= maxActiveIDs

LEMMA ActiveIsFinite ==
  ASSUME activeIDs \subseteq IDs
  PROVE  IsFiniteSet(activeIDs) /\ Cardinality(activeIDs) \in Nat
<1>1. IsFiniteSet(IDs)
  BY IDAssumption, FS_Interval DEF IDs
<1>2. IsFiniteSet(activeIDs)
  BY <1>1, FS_Subset, Zenon
<1> QED
  BY <1>2, FS_CardinalityType, Zenon

\* With fewer ids in use than there are, the search of nextPeerID ends.
LEMMA FreeIDExists ==
  ASSUME nextID \in IDs, activeIDs \subseteq IDs, Cardinality(activeIDs) < IDSpace
  PROVE  \E n \in 0..(IDSpace - 1) : FirstFree(n)
<1>1. IsFiniteSet(IDs) /\ Cardinality(IDs) = IDSpace
  BY IDAssumption, FS_Interval DEF IDs
<1>2. activeIDs # IDs
  BY <1>1, ActiveIsFinite, IDAssumption
<1>3. PICK id \in IDs : id \notin activeIDs
  BY <1>2, Zenon
<1> DEFINE T == {n \in 0..(IDSpace - 1) : Wrap(nextID + n) \notin activeIDs}
           k == IF id >= nextID THEN id - nextID ELSE id - nextID + IDSpace
<1>4. k \in 0..(IDSpace - 1) /\ Wrap(nextID + k) = id
  BY <1>3, IDAssumption DEF IDs, Wrap
<1>5. T # {} /\ T \subseteq Nat
  BY <1>3, <1>4, IDAssumption
<1> HIDE DEF T
<1>6. PICK n \in T : \A m \in T : n <= m
  BY <1>5, Least, Zenon
<1>7. n \in 0..(IDSpace - 1) /\ Wrap(nextID + n) \notin activeIDs
  BY <1>6, Zenon DEF T
<1>8. ASSUME NEW j \in 0..(n - 1) PROVE Wrap(nextID + j) \in activeIDs
  <2>1. j \in 0..(IDSpace - 1) /\ ~(n <= j)
    BY <1>7, IDAssumption
  <2> QED
    BY <1>6, <2>1, Zenon DEF T
<1> QED
  BY <1>7, <1>8, Zenon DEF FirstFree

LEMMA InitIDInv == PeerInit => IDInv
<1> SUFFICES ASSUME PeerInit PROVE IDInv
  BY Zenon
<1>1. activeIDs = {0} /\ Cardinality({0}) = 1
  BY FS_Singleton, Zenon DEF PeerInit
<1>2. Cardinality(activeIDs) <= maxActiveIDs
  BY <1>1, IDAssumption DEF maxActiveIDs
<1>3. panicked \in BOOLEAN
  BY Zenon DEF PeerInit
<1>4. peerMap \in [Peers -> IDs \cup {NoID}] /\ nextID \in IDs /\ activeIDs \subseteq IDs
  BY <1>1, IDAssumption DEF PeerInit, IDs
<1>5. \A p \in Peers : peerMap[p] = NoID
  BY Zenon DEF PeerInit
<1> QED
  BY <1>1, <1>2, <1>3, <1>4, <1>5, Zenon DEF IDInv, PeerTypeOK

\* A new id is one that no peer has.
LEMMA AssignStep ==
  ASSUME IDInv, NEW p \in Peers, Assign(p)
  PROVE  IDInv'
<1>1. CASE Cardinality(activeIDs) = maxActiveIDs
  BY <1>1, Zenon DEF Assign, IDInv, PeerTypeOK
<1>2. CASE Cardinality(activeIDs) # maxActiveIDs
  <2>1. PICK n \in 0..(IDSpace - 1) :
          /\ FirstFree(n)
          /\ peerMap' = [peerMap EXCEPT ![p] = Wrap(nextID + n)]
          /\ activeIDs' = activeIDs \cup {Wrap(nextID + n)}
          /\ nextID' = Wrap(Wrap(nextID + n) + 1)
    BY <1>2, Zenon DEF Assign
  <2> DEFINE id == Wrap(nextID + n)
  <2>2. id \in IDs /\ Wrap(id + 1) \in IDs
    BY <2>1, IDAssumption DEF IDInv, PeerTypeOK, IDs, Wrap
  <2>3. id \notin activeIDs
    BY <2>1, Zenon DEF FirstFree
  <2>4. Cardinality(activeIDs') = Cardinality(activeIDs) + 1
    BY <2>1, <2>3, ActiveIsFinite, FS_AddElement, Zenon DEF IDInv, PeerTypeOK
  <2>5. Cardinality(activeIDs') <= maxActiveIDs
    BY <1>2, <2>4, ActiveIsFinite, IDAssumption DEF IDInv, PeerTypeOK, maxActiveIDs
  <2> HIDE DEF id
  <2>6. panicked' = panicked
    BY <1>2, Zenon DEF Assign
  <2>7. peerMap' \in [Peers -> IDs \cup {NoID}] /\ peerMap'[p] = id
        /\ \A q \in Peers \ {p} : peerMap'[q] = peerMap[q]
    BY <2>1, <2>2, Zenon DEF IDInv, PeerTypeOK, id
  <2>8. PeerTypeOK'
    BY <2>1, <2>2, <2>6, <2>7, Zenon DEF IDInv, PeerTypeOK, id
  <2>9. ASSUME NEW r \in Peers, NEW q \in Peers, peerMap'[r] # NoID
        PROVE  peerMap'[r] \in activeIDs' \ {0} /\ (r # q => peerMap'[r] # peerMap'[q])
    <3>1. activeIDs' = activeIDs \cup {id} /\ 0 \in activeIDs
      BY <2>1, Zenon DEF IDInv, id
    <3>2. CASE r = p
      BY <2>3, <2>7, <2>9, <3>1, <3>2, Zenon DEF IDInv
    <3>3. CASE r # p
      BY <2>3, <2>7, <2>9, <3>1, <3>3, Zenon DEF IDInv
    <3> QED
      BY <3>2, <3>3, Zenon
  <2> QED
    BY <2>1, <2>5, <2>8, <2>9, Zenon DEF IDInv
<1> QED
  BY <1>1, <1>2, Zenon

LEMMA ReclaimStep ==
  ASSUME IDInv, NEW p \in Peers, Reclaim(p)
  PROVE  IDInv'
<1>1. Cardinality(activeIDs') <= Cardinality(activeIDs) /\ Cardinality(activeIDs') \in Nat
  <2>1. Cardinality(activeIDs') = IF peerMap[p] \in activeIDs THEN Cardinality(activeIDs) - 1
                                                              ELSE Cardinality(activeIDs)
    BY ActiveIsFinite, FS_RemoveElement, Zenon DEF IDInv, PeerTypeOK, Reclaim
  <2>2. activeIDs' \subseteq activeIDs /\ activeIDs \subseteq IDs
    BY Zenon DEF IDInv, PeerTypeOK, Reclaim
  <2>3. IsFiniteSet(activeIDs')
    BY <2>2, ActiveIsFinite, FS_Subset, Zenon
  <2> QED
    BY <2>1, <2>3, ActiveIsFinite, FS_CardinalityType DEF IDInv, PeerTypeOK
<1>2. Cardinality(activeIDs') <= maxActiveIDs
  BY <1>1, ActiveIsFinite, IDAssumption DEF IDInv, PeerTypeOK, maxActiveIDs
<1>3. PeerTypeOK'
  BY Zenon DEF IDInv, PeerTypeOK, Reclaim
<1>4. 0 \in activeIDs'
  BY IDAssumption DEF IDInv, Reclaim, PeerTypeOK
<1>5. ASSUME NEW r \in Peers, NEW q \in Peers, peerMap'[r] # NoID
      PROVE  peerMap'[r] \in activeIDs' \ {0} /\ (r # q => peerMap'[r] # peerMap'[q])
  <2>1. r # p /\ peerMap'[r] = peerMap[r] /\ peerMap[r] # NoID
    BY <1>5, Zenon DEF IDInv, PeerTypeOK, Reclaim
  <2>2. peerMap'[q] = NoID \/ peerMap'[q] = peerMap[q]
    BY Zenon DEF IDInv, PeerTypeOK, Reclaim
  <2> QED
    BY <2>1, <2>2, <1>5 DEF IDInv, Reclaim
<1> QED
  BY <1>2, <1>3, <1>4, <1>5, Zenon DEF IDInv

LEMMA NextIDInv == IDInv /\ [PeerNext]_peerVars => IDInv'
<1> SUFFICES ASSUME IDInv, [PeerNext]_peerVars PROVE IDInv'
  BY Zenon
<1>1. ASSUME NEW p \in Peers, ReserveForPeer(p) \/ GetForPeer(p) \/ Reclaim(p)
      PROVE  IDInv'
  <2>1. CASE ReserveForPeer(p)
    BY <2>1, AssignStep, Zenon DEF ReserveForPeer
  <2>2. CASE GetForPeer(p)
    <3>1. CASE Assign(p)
      BY <3>1, AssignStep, Zenon
    <3>2. CASE UNCHANGED peerVars
      BY <3>2, Zenon DEF IDInv, PeerTypeOK, peerVars
    <3> QED
      BY <2>2, <3>1, <3>2, Zenon DEF GetForPeer
  <2>3. CASE Reclaim(p)
    BY <2>3, ReclaimStep
  <2> QED
    BY <1>1, <2>1, <2>2, <2>3, Zenon
<1>2. CASE UNCHANGED peerVars
  BY <1>2, Zenon DEF IDInv, PeerTypeOK, peerVars
<1> QED
  BY <1>1, <1>2, Zenon DEF PeerNext

LEMMA IDInvUnique == IDInv => PeerIDsUnique
<1> SUFFICES ASSUME IDInv PROVE PeerIDsUnique
  BY Zenon
<1>1. Cardinality(activeIDs) < IDSpace
  BY ActiveIsFinite, IDAssumption DEF IDInv, PeerTypeOK, maxActiveIDs
<1> QED
  BY <1>1, FreeIDExists, Zenon DEF IDInv, PeerIDsUnique, PeerTypeOK

\* MempoolIDs gives distinct ids other than 0 and, below its limit, always finds one, for
\* every number of ids and every sequence of reservations, look-ups and reclaims.
THEOREM UniqueIDs == PeerSpec => []PeerIDsUnique
<1>1. IDInv /\ [PeerNext]_peerVars => IDInv'
  BY NextIDInv, Zenon
<1> QED
  BY <1>1, InitIDInv, IDInvUnique, PTL DEF PeerSpec
=============================================================================
