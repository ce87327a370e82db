----------------------------- MODULE PoolProofs -----------------------------
(***************************************************************************)
(* What the operations of the mempool, and its loops over the list, do to  *)
(* a pool whose parts agree (Consistent): a removal, an expiry, a block or *)
(* an eviction shrinks it (Shrunk), an accepted transaction enters it      *)
(* (Entered), after an eviction that makes room.  For pools of every       *)
(* length; the loops, sums and orders they need come first.                *)
(***************************************************************************)
EXTENDS Mempool, CListProofs, FiniteSetTheorems

\* Induction up to n.
LEMMA UpTo ==
  ASSUME NEW n \in Nat, NEW D, 0 \in D, \A k \in 1..n : k - 1 \in D => k \in D
  PROVE  \A k \in 0..n : k \in D
<1> DEFINE K == {k \in 0..n : k \notin D}
<1> SUFFICES ASSUME K # {} PROVE FALSE
  BY Zenon
<1>1. K \subseteq Nat
  OBVIOUS
<1>2. PICK k \in K : \A y \in K : k <= y
  BY <1>1, Least, Zenon
<1>3. k \in 0..n /\ k \notin D
  BY <1>2, Zenon
<1>4. k # 0
  BY <1>3, Zenon
<1>5. k \in 1..n /\ k - 1 \in 0..n /\ ~(k <= k - 1)
  BY <1>3, <1>4
<1>6. k - 1 \in D
  BY <1>5, <1>2, Zenon
<1> QED
  BY <1>6, <1>5, <1>3, Zenon

-----------------------------------------------------------------------------
(* Loops over sequences: recursive functions of the number of elements done. *)

\* f is what a loop from base over n elements computes, when g[k][u] is the result of the
\* step with the k-th element from u, and R[k] holds what may be there after k elements.
Runs(n, base, g, R, f) ==
  /\ f[0] = base /\ \A k \in 1..n : f[k] = g[k][f[k - 1]]
  /\ \A k \in 0..n : f[k] \in R[k]

\* The loop's function exists.
LEMMA LoopExists ==
  ASSUME NEW n \in Nat, NEW U, NEW base, NEW R \in [0..n -> SUBSET U], base \in R[0], NEW g,
         \A k \in 1..n : \A u \in R[k - 1] : g[k][u] \in R[k]
  PROVE  \E f \in [0..n -> U] : Runs(n, base, g, R, f)
<1> DEFINE Works(k) == \E f \in [0..k -> U] : Runs(k, base, g, R, f)
           D == {k \in 0..n : Works(k)}
<1>1. Works(0)
  <2> DEFINE f == [i \in 0..0 |-> base]
  <2>1. 1..0 = {} /\ 0..0 = {0} /\ 0 \in 0..n
    OBVIOUS
  <2>2. f \in [0..0 -> U] /\ f[0] = base
    BY <2>1, Zenon
  <2>3. Runs(0, base, g, R, f)
    BY <2>1, <2>2, Zenon DEF Runs
  <2> QED
    BY <2>2, <2>3, Zenon
<1>2. ASSUME NEW k \in 1..n, Works(k - 1) PROVE Works(k)
  <2>1. PICK h \in [0..(k - 1) -> U] : Runs(k - 1, base, g, R, h)
    BY <1>2, Zenon
  <2> DEFINE f == [i \in 0..k |-> IF i = k THEN g[k][h[k - 1]] ELSE h[i]]
  <2>2. /\ k - 1 \in 0..(k - 1) /\ k \in 0..k /\ k \in 0..n /\ k - 1 \in 0..k /\ k - 1 # k
        /\ k # 0
        /\ 0 \in 0..k
    OBVIOUS
  <2>3. \A i \in 0..k : i # k => i \in 0..(k - 1) /\ i \in 0..n
    OBVIOUS
  <2>4. \A i \in 1..k : i \in 0..k /\ i - 1 \in 0..k /\ i - 1 # k /\ (i # k => i \in 1..(k - 1))
    OBVIOUS
  <2>5. f[k] = g[k][h[k - 1]] /\ \A i \in 0..k : i # k => f[i] = h[i]
    BY <2>2, Zenon
  <2>6. h[k - 1] \in R[k - 1]
    BY <2>1, <2>2, Zenon DEF Runs
  <2>7. f[k] \in R[k] /\ f[k] \in U
    BY <2>2, <2>5, <2>6, Zenon
  <2>8. f \in [0..k -> U]
    BY <2>1, <2>3, <2>5, <2>7, Zenon
  <2> HIDE DEF f
  <2>9. f[0] = base
    BY <2>1, <2>2, <2>5, Zenon DEF Runs
  <2>10. ASSUME NEW i \in 1..k PROVE f[i] = g[i][f[i - 1]]
    <3>1. f[i - 1] = h[i - 1]
      BY <2>4, <2>5, Zenon
    <3>2. CASE i = k
      BY <3>1, <3>2, <2>5, Zenon
    <3>3. CASE i # k
      BY <3>1, <3>3, <2>1, <2>4, <2>5, Zenon DEF Runs
    <3> QED
      BY <3>2, <3>3, Zenon
  <2>11. ASSUME NEW i \in 0..k PROVE f[i] \in R[i]
    <3>1. CASE i = k
      BY <3>1, <2>7, Zenon
    <3>2. CASE i # k
      BY <3>2, <2>1, <2>3, <2>5, Zenon DEF Runs
    <3> QED
      BY <3>1, <3>2, Zenon
  <2>12. Runs(k, base, g, R, f)
    BY <2>9, <2>10, <2>11, Zenon DEF Runs
  <2> QED
    BY <2>8, <2>12, Zenon
<1>3. 0 \in D /\ \A k \in 1..n : k - 1 \in D => k \in D
  <2> HIDE DEF Works
  <2>1. 0 \in 0..n /\ \A k \in 1..n : k \in 0..n
    OBVIOUS
  <2> QED
    BY <2>1, <1>1, <1>2, Zenon
<1> HIDE DEF D
<1>4. \A k \in 0..n : k \in D
  BY <1>3, UpTo, Zenon
<1>5. n \in 0..n
  OBVIOUS
<1> QED
  BY <1>4, <1>5, Zenon DEF D

\* Any function with the loop's recursion runs like that.
LEMMA LoopRuns ==
  ASSUME NEW n \in Nat, NEW base, NEW R, base \in R[0], NEW g,
         \A k \in 1..n : \A u \in R[k - 1] : g[k][u] \in R[k],
         NEW f, f[0] = base, \A k \in 1..n : f[k - 1] \in R[k - 1] => f[k] = g[k][f[k - 1]]
  PROVE  Runs(n, base, g, R, f)
<1> DEFINE D == {k \in 0..n : f[k] \in R[k]}
<1>1. 0 \in D
  <2>1. 0 \in 0..n
    OBVIOUS
  <2> QED
    BY <2>1, Zenon
<1>2. \A k \in 1..n : k - 1 \in D => k \in D
  <2>1. \A k \in 1..n : k \in 0..n
    OBVIOUS
  <2> QED
    BY <2>1, Zenon
<1> HIDE DEF D
<1>3. \A k \in 0..n : k \in D
  BY <1>1, <1>2, UpTo, Zenon
<1>4. \A k \in 0..n : f[k] \in R[k]
  BY <1>3, Zenon DEF D
<1>5. \A k \in 1..n : k - 1 \in 0..n
  OBVIOUS
<1> QED
  BY <1>4, <1>5, Zenon DEF Runs

-----------------------------------------------------------------------------
(* Sums *)

\* t holds the partial sums of the first n weights w.
Sums(n, w, t) == t \in [0..n -> Int] /\ t[0] = 0 /\ \A i \in 1..n : t[i] = t[i - 1] + w[i]

IsSum(n, w, x) == \E t : Sums(n, w, t) /\ x = t[n]

\* The sum of the same weights is the same.
LEMMA SumIsOne ==
  ASSUME NEW n \in Nat, NEW w, NEW v, \A i \in 1..n : w[i] = v[i], NEW x, NEW y,
         IsSum(n, w, x), IsSum(n, v, y)
  PROVE  x = y
<1>1. PICK t : Sums(n, w, t) /\ x = t[n]
  BY Zenon DEF IsSum
<1>2. PICK u : Sums(n, v, u) /\ y = u[n]
  BY Zenon DEF IsSum
<1> DEFINE D == {k \in 0..n : t[k] = u[k]}
<1>3. 0 \in D
  BY <1>1, <1>2 DEF Sums
<1>4. ASSUME NEW k \in 1..n, k - 1 \in D PROVE k \in D
  <2>1. /\ t[k] = t[k - 1] + w[k] /\ u[k] = u[k - 1] + v[k] /\ w[k] = v[k]
        /\ t[k - 1] = u[k - 1]
    BY <1>1, <1>2, <1>4, Zenon DEF Sums
  <2>2. k \in 0..n
    OBVIOUS
  <2> QED
    BY <2>1, <2>2, Zenon
<1> HIDE DEF D
<1>5. \A k \in 0..n : k \in D
  BY <1>3, <1>4, UpTo, Zenon
<1>6. n \in 0..n
  OBVIOUS
<1> QED
  BY <1>1, <1>2, <1>5, <1>6, Zenon DEF D

\* One more weight.
LEMMA SumAppend ==
  ASSUME NEW n \in Nat, NEW w, NEW v, \A i \in 1..n : w[i] = v[i], NEW x, NEW y,
         IsSum(n, w, x), IsSum(n + 1, v, y)
  PROVE  y = x + v[n + 1]
<1>1. PICK u : Sums(n + 1, v, u) /\ y = u[n + 1]
  BY Zenon DEF IsSum
<1> DEFINE t == [i \in 0..n |-> u[i]]
<1>2. Sums(n, v, t)
  BY <1>1 DEF Sums
<1>3. t[n] = u[n]
  OBVIOUS
<1>4. IsSum(n, v, u[n])
  BY <1>2, <1>3, Zenon DEF IsSum
<1>5. u[n] = x
  BY <1>4, SumIsOne, Zenon
<1>6. n + 1 \in 1..(n + 1) /\ (n + 1) - 1 = n
  OBVIOUS
<1>7. u[n + 1] = u[(n + 1) - 1] + v[n + 1]
  BY <1>6, <1>1, Zenon DEF Sums
<1> QED
  BY <1>1, <1>5, <1>6, <1>7, Zenon

\* One weight less.
LEMMA SumWithout ==
  ASSUME NEW n \in Nat, NEW i \in 1..n, NEW w \in [1..n -> Int], NEW v,
         \A j \in 1..(n - 1) : v[j] = IF j < i THEN w[j] ELSE w[j + 1], NEW x, NEW y,
         IsSum(n, w, x), IsSum(n - 1, v, y)
  PROVE  y = x - w[i]
<1>1. PICK t : Sums(n, w, t) /\ x = t[n]
  BY Zenon DEF IsSum
<1> DEFINE u == [j \in 0..(n - 1) |-> IF j < i THEN t[j] ELSE t[j + 1] - w[i]]
<1>2. /\ n - 1 \in Nat /\ t \in [0..n -> Int] /\ t[0] = 0
      /\ \A j \in 1..n : t[j] = t[j - 1] + w[j]
  BY <1>1 DEF Sums
<1>a. (\A j \in 0..n : t[j] \in Int) /\ (\A j \in 1..n : w[j] \in Int) /\ w[i] \in Int
  BY <1>2, Zenon
<1>3. u \in [0..(n - 1) -> Int] /\ u[0] = 0
  <2>1. \A j \in 0..(n - 1) : j \in 0..n /\ j + 1 \in 0..n
    OBVIOUS
  <2>2. 0 < i /\ 0 \in 0..(n - 1)
    OBVIOUS
  <2>3. ASSUME NEW j \in 0..(n - 1) PROVE u[j] \in Int
    <3>1. t[j] \in Int /\ t[j + 1] \in Int /\ w[i] \in Int
      BY <1>a, <2>1, Zenon
    <3>2. u[j] = IF j < i THEN t[j] ELSE t[j + 1] - w[i]
      BY Zenon
    <3> HIDE DEF u
    <3> QED
      BY <3>1, <3>2
  <2> QED
    BY <2>2, <2>3, <1>2, Zenon
<1>4. ASSUME NEW j \in 1..(n - 1) PROVE u[j] = u[j - 1] + v[j]
  <2>1. /\ j \in 1..n /\ j + 1 \in 1..n /\ j - 1 \in 0..(n - 1) /\ (j + 1) - 1 = j
        /\ (j - 1) + 1 = j
    OBVIOUS
  <2>a. j \in 0..n /\ j + 1 \in 0..n /\ j - 1 \in 0..n
    OBVIOUS
  <2>2. t[j] = t[j - 1] + w[j] /\ t[j + 1] = t[j] + w[j + 1]
    BY <2>1, <1>2
  <2>3. /\ t[j] \in Int /\ t[j + 1] \in Int /\ t[j - 1] \in Int /\ w[j] \in Int
        /\ w[j + 1] \in Int /\ w[i] \in Int
    BY <2>1, <2>a, <1>a, Zenon
  <2>4. CASE j < i
    <3>1. u[j] = t[j] /\ u[j - 1] = t[j - 1] /\ v[j] = w[j]
      BY <2>4, <2>1
    <3> QED
      BY <3>1, <2>2, Zenon
  <2>5. CASE j = i
    <3>1. u[j] = t[j + 1] - w[j] /\ u[j - 1] = t[j - 1] /\ v[j] = w[j + 1]
      BY <2>5, <2>1
    <3> HIDE DEF u
    <3>2. t[j + 1] - w[j] = t[j - 1] + w[j + 1]
      BY <2>2, <2>3
    <3> QED
      BY <3>1, <3>2, Zenon
  <2>6. CASE j > i
    <3>1. u[j] = t[j + 1] - w[i] /\ u[j - 1] = t[j] - w[i] /\ v[j] = w[j + 1]
      BY <2>6, <2>1
    <3> HIDE DEF u
    <3> QED
      BY <3>1, <2>2, <2>3
  <2> QED
    BY <2>4, <2>5, <2>6
<1>5. u[n - 1] = t[n] - w[i]
  <2>1. CASE i = n
    <3>1. u[n - 1] = t[n - 1] /\ t[n] = t[n - 1] + w[n] /\ t[n - 1] \in Int /\ w[n] \in Int
      BY <2>1, <1>2
    <3> HIDE DEF u
    <3> QED
      BY <3>1, <2>1
  <2>2. CASE i # n
    BY <2>2, <1>2
  <2> QED
    BY <2>1, <2>2, Zenon
<1> HIDE DEF u
<1>6. IsSum(n - 1, v, u[n - 1])
  BY <1>3, <1>4, Zenon DEF IsSum, Sums
<1>7. y = u[n - 1]
  BY <1>2, <1>6, SumIsOne, Zenon
<1> QED
  BY <1>1, <1>5, <1>7, Zenon

-----------------------------------------------------------------------------
(* Sorting *)

\* R is a strict total order on S.
TotalOrder(S, R) ==
  /\ \A x \in S : <<x, x>> \notin R
  /\ \A x, y, z \in S : <<x, y>> \in R /\ <<y, z>> \in R => <<x, z>> \in R
  /\ \A x, y \in S : x # y => <<x, y>> \in R \/ <<y, x>> \in R

\* A finite set on which R is a strict total order can be listed in that order.
LEMMA SortedExists ==
  ASSUME NEW S, IsFiniteSet(S), NEW R, TotalOrder(S, R)
  PROVE  \E q \in [1..Cardinality(S) -> S] :
           \A i, j \in DOMAIN q : i < j => <<q[i], q[j]>> \in R
<1>0. /\ \A x \in S : <<x, x>> \notin R
      /\ \A x, y, z \in S : <<x, y>> \in R /\ <<y, z>> \in R => <<x, z>> \in R
      /\ \A x, y \in S : x # y => <<x, y>> \in R \/ <<y, x>> \in R
  BY Zenon DEF TotalOrder
<1> DEFINE n == Cardinality(S)
           Below(x) == {y \in S : <<y, x>> \in R}
           rank == [x \in S |-> Cardinality(Below(x)) + 1]
<1>1. n \in Nat
  BY FS_CardinalityType, Zenon
<1>2. ASSUME NEW x \in S
      PROVE  /\ IsFiniteSet(Below(x)) /\ Cardinality(Below(x)) \in Nat
             /\ Cardinality(Below(x)) + 1 <= n
  <2>1. Below(x) \in SUBSET S /\ x \notin Below(x)
    BY <1>0, Zenon
  <2>2. IsFiniteSet(Below(x))
    BY <2>1, FS_Subset, Zenon
  <2> HIDE DEF Below
  <2>3. Cardinality(Below(x)) \in Nat
    BY <2>2, FS_CardinalityType, Zenon
  <2>4. Cardinality(Below(x) \cup {x}) = Cardinality(Below(x)) + 1
    BY <2>1, <2>2, FS_AddElement, Zenon
  <2>5. Below(x) \cup {x} \in SUBSET S
    BY <2>1, Zenon
  <2>6. Cardinality(Below(x) \cup {x}) <= Cardinality(S)
    BY <2>5, FS_Subset, Zenon
  <2> QED
    BY <2>2, <2>3, <2>4, <2>6, Zenon
<1>3. ASSUME NEW x \in S, NEW y \in S, <<x, y>> \in R
      PROVE  rank[x] < rank[y]
  <2>1. Below(x) \cup {x} \in SUBSET Below(y) /\ x \notin Below(x)
    BY <1>0, <1>3, Zenon
  <2>2. IsFiniteSet(Below(x)) /\ IsFiniteSet(Below(y)) /\ Cardinality(Below(x)) \in Nat
        /\ Cardinality(Below(y)) \in Nat
    BY <1>2, Zenon
  <2>3. rank[x] = Cardinality(Below(x)) + 1 /\ rank[y] = Cardinality(Below(y)) + 1
    BY Zenon
  <2> HIDE DEF Below, rank
  <2>4. Cardinality(Below(x) \cup {x}) = Cardinality(Below(x)) + 1
    BY <2>1, <2>2, FS_AddElement, Zenon
  <2>5. Cardinality(Below(x) \cup {x}) <= Cardinality(Below(y))
    BY <2>1, <2>2, FS_Subset, Zenon
  <2> QED
    BY <2>2, <2>3, <2>4, <2>5
<1>4. \A x \in S : rank[x] \in 1..n
  <2> SUFFICES ASSUME NEW x \in S PROVE rank[x] \in 1..n
    BY Zenon
  <2>1. rank[x] = Cardinality(Below(x)) + 1
    BY Zenon
  <2> HIDE DEF Below, rank, n
  <2> QED
    BY <2>1, <1>2, <1>1
<1>5. \A x, y \in S : rank[x] = rank[y] => x = y
  <2> SUFFICES ASSUME NEW x \in S, NEW y \in S, rank[x] = rank[y], x # y PROVE FALSE
    BY Zenon
  <2>1. rank[x] < rank[y] \/ rank[y] < rank[x]
    BY <1>0, <1>3, Zenon
  <2>2. rank[x] \in 1..n /\ rank[y] \in 1..n
    BY <1>4, Zenon
  <2> HIDE DEF rank
  <2> QED
    BY <2>1, <2>2
<1>6. rank \in [S -> 1..n]
  BY <1>4, Zenon
<1>7. rank \in Injection(S, 1..n)
  <2> HIDE DEF rank
  <2> QED
    BY <1>5, <1>6, Zenon DEF Injection, IsInjective
<1>8. IsFiniteSet(1..n) /\ Cardinality(1..n) = n
  <2>1. n \in Int /\ 1 \in Int
    BY <1>1
  <2>2. IsFiniteSet(1..n) /\ Cardinality(1..n) = IF 1 > n THEN 0 ELSE n - 1 + 1
    BY <2>1, FS_Interval, Zenon
  <2> HIDE DEF n
  <2> QED
    BY <2>2, <1>1
<1>9. rank \in Surjection(S, 1..n)
  BY <1>7, <1>8, FS_Injection, Zenon
<1> HIDE DEF rank, n
<1>10. \A i \in 1..n : \E x \in S : rank[x] = i
  BY <1>9, Zenon DEF Surjection
<1> DEFINE q == [i \in 1..n |-> CHOOSE x \in S : rank[x] = i]
<1>11. \A i \in 1..n : q[i] \in S /\ rank[q[i]] = i
  BY <1>10, Zenon
<1>12. q \in [1..n -> S] /\ DOMAIN q = 1..n
  BY <1>11, Zenon
<1> HIDE DEF q
<1>13. ASSUME NEW i \in 1..n, NEW j \in 1..n, i < j PROVE <<q[i], q[j]>> \in R
  <2>1. q[i] \in S /\ q[j] \in S /\ rank[q[i]] = i /\ rank[q[j]] = j
    BY <1>11, Zenon
  <2>2. i # j /\ ~(j < i)
    BY <1>13
  <2>3. q[i] # q[j]
    BY <2>1, <2>2, Zenon
  <2>4. <<q[j], q[i]>> \notin R
    <3> SUFFICES ASSUME <<q[j], q[i]>> \in R PROVE FALSE
      BY Zenon
    <3>1. rank[q[j]] < rank[q[i]]
      BY <2>1, <1>3, Zenon
    <3> QED
      BY <3>1, <2>1, <2>2, Zenon
  <2> QED
    BY <1>0, <2>1, <2>3, <2>4, Zenon
<1> QED
  BY <1>12, <1>13, Zenon DEF n

-----------------------------------------------------------------------------
(* The pool: what its operations do to each field. *)

Wtxs == [tx : Txs \cup {Nil}, height : Nat, priority : Int]

Pools ==
  [txs : Lists, wtx : [Elems -> Wtxs], txByKey : [Txs -> Links], txBySender : [Senders -> Links],
   txsBytes : Int, cache : Seq(Txs)]

PoolFields == {"txs", "wtx", "txByKey", "txBySender", "txsBytes", "cache"}

LEMMA PoolFieldsOf == ASSUME NEW m \in Pools PROVE DOMAIN m = PoolFields
  BY Zenon DEF Pools, PoolFields

LEMMA PoolOfFields ==
  ASSUME NEW m, m = [x \in PoolFields |-> m[x]], m.txs \in Lists, m.wtx \in [Elems -> Wtxs],
         m.txByKey \in [Txs -> Links], m.txBySender \in [Senders -> Links], m.txsBytes \in Int,
         m.cache \in Seq(Txs)
  PROVE  m \in Pools
  BY Zenon DEF Pools, PoolFields

\* The types of the fields.
LEMMA FieldTypes ==
  ASSUME NEW m \in Pools
  PROVE  /\ m.txs \in Lists /\ m.wtx \in [Elems -> Wtxs] /\ m.txByKey \in [Txs -> Links]
         /\ m.txBySender \in [Senders -> Links] /\ m.txsBytes \in Int
         /\ m.cache \in Seq(Txs)
  BY Zenon DEF Pools

\* n is m without the transaction at e.
Taken(m, e, n) ==
  LET t == m.wtx[e].tx IN
  /\ n \in Pools
  /\ n.txs = Unlink(m.txs, e) /\ n.txsBytes = m.txsBytes - TxSize[t] /\ n.cache = m.cache
  /\ n.wtx[e] = NoWtx /\ \A x \in Elems \ {e} : n.wtx[x] = m.wtx[x]
  /\ n.txByKey[t] = Nil /\ \A u \in Txs \ {t} : n.txByKey[u] = m.txByKey[u]
  /\ \A s \in Senders : n.txBySender[s] = IF s = Sender[t] THEN Nil ELSE m.txBySender[s]

\* removeTxByElement.
LEMMA RemoveTxFields ==
  ASSUME NEW m \in Pools, NEW e \in Elems, m.wtx[e].tx \in Txs, Unlink(m.txs, e) \in Lists
  PROVE  Taken(m, e, RemoveTxByElement(m, e))
<1> DEFINE t == m.wtx[e].tx
           n == RemoveTxByElement(m, e)
           bySender == [s \in Senders |-> IF s = Sender[t] THEN Nil ELSE m.txBySender[s]]
<1>0. /\ m.txs \in Lists /\ m.wtx \in [Elems -> Wtxs] /\ m.txByKey \in [Txs -> Links]
      /\ m.txBySender \in [Senders -> Links] /\ m.txsBytes \in Int /\ m.cache \in Seq(Txs)
  BY FieldTypes, Zenon
<1>1. n = [m EXCEPT !.txByKey[t] = Nil, !.wtx[e] = NoWtx, !.txsBytes = @ - TxSize[t],
                    !.txBySender = [s \in Senders |-> IF s = Sender[t] THEN Nil ELSE @[s]],
                    !.txs = Unlink(@, e)]
  BY Zenon DEF RemoveTxByElement, Unlink
<1>2. t \in Txs /\ TxSize[t] \in Nat /\ Nil \in Links
  BY MempoolConstants, Zenon DEF Links
<1>a. NoWtx \in Wtxs
  BY DEF Wtxs, NoWtx
<1> HIDE DEF n, t
<1>3. n.cache = m.cache /\ n.txs = Unlink(m.txs, e) /\ n.txsBytes = m.txsBytes - TxSize[t]
  BY <1>1, Zenon DEF Pools
<1>4. /\ n.wtx = [m.wtx EXCEPT ![e] = NoWtx] /\ n.txByKey = [m.txByKey EXCEPT ![t] = Nil]
      /\ n.txBySender = bySender
  BY <1>1, Zenon DEF Pools
<1>5. n = [x \in PoolFields |-> n[x]]
  BY <1>1, PoolFieldsOf, Zenon
<1>6. /\ bySender \in [Senders -> Links]
      /\ \A s \in Senders : bySender[s] = IF s = Sender[t] THEN Nil ELSE m.txBySender[s]
  BY <1>0, <1>2, Zenon
<1> HIDE DEF bySender
<1>7. n.wtx \in [Elems -> Wtxs] /\ n.txByKey \in [Txs -> Links]
  BY <1>0, <1>2, <1>a, <1>4, Zenon
<1>8. n.txsBytes \in Int
  BY <1>0, <1>2, <1>3
<1>9. n \in Pools
  BY <1>0, <1>3, <1>4, <1>5, <1>6, <1>7, <1>8, PoolOfFields, Zenon
<1>10. /\ n.wtx[e] = NoWtx /\ \A x \in Elems \ {e} : n.wtx[x] = m.wtx[x]
       /\ n.txByKey[t] = Nil /\ \A u \in Txs \ {t} : n.txByKey[u] = m.txByKey[u]
  BY <1>0, <1>2, <1>4, Zenon
<1> QED
  BY <1>3, <1>4, <1>6, <1>9, <1>10, Zenon DEF Taken, n, t

\* n is m with the transaction w at e.
Added(m, e, w, n) ==
  /\ n \in Pools
  /\ n.txs = PushBack(m.txs, e) /\ n.txsBytes = m.txsBytes + TxSize[w.tx]
  /\ n.cache = m.cache
  /\ n.wtx[e] = w /\ \A x \in Elems \ {e} : n.wtx[x] = m.wtx[x]
  /\ n.txByKey[w.tx] = e /\ \A u \in Txs \ {w.tx} : n.txByKey[u] = m.txByKey[u]
  /\ \A s \in Senders : n.txBySender[s] = IF s = Sender[w.tx] THEN e ELSE m.txBySender[s]

\* insertTx.
LEMMA InsertTxFields ==
  ASSUME NEW m \in Pools, NEW e \in Elems,
         NEW w \in Wtxs, w.tx \in Txs, PushBack(m.txs, e) \in Lists
  PROVE  Added(m, e, w, InsertTx(m, e, w))
<1> DEFINE t == w.tx
           n == InsertTx(m, e, w)
           bySender == [s \in Senders |-> IF s = Sender[t] THEN e ELSE m.txBySender[s]]
<1>0. /\ m.txs \in Lists /\ m.wtx \in [Elems -> Wtxs] /\ m.txByKey \in [Txs -> Links]
      /\ m.txBySender \in [Senders -> Links] /\ m.txsBytes \in Int /\ m.cache \in Seq(Txs)
  BY FieldTypes, Zenon
<1>1. n = [m EXCEPT !.txs = PushBack(@, e), !.wtx[e] = w, !.txByKey[t] = e,
                    !.txBySender = [s \in Senders |-> IF s = Sender[t] THEN e ELSE @[s]],
                    !.txsBytes = @ + TxSize[t]]
  BY Zenon DEF InsertTx
<1>2. t \in Txs /\ TxSize[t] \in Nat /\ e \in Links
  BY MempoolConstants, Zenon DEF Links
<1> HIDE DEF n, t
<1>3. n.cache = m.cache /\ n.txs = PushBack(m.txs, e) /\ n.txsBytes = m.txsBytes + TxSize[t]
  BY <1>1, Zenon DEF Pools
<1>4. /\ n.wtx = [m.wtx EXCEPT ![e] = w] /\ n.txByKey = [m.txByKey EXCEPT ![t] = e]
      /\ n.txBySender = bySender
  BY <1>1, Zenon DEF Pools
<1>5. n = [x \in PoolFields |-> n[x]]
  BY <1>1, PoolFieldsOf, Zenon
<1>6. /\ bySender \in [Senders -> Links]
      /\ \A s \in Senders : bySender[s] = IF s = Sender[t] THEN e ELSE m.txBySender[s]
  BY <1>0, <1>2, Zenon
<1> HIDE DEF bySender
<1>7. n.wtx \in [Elems -> Wtxs] /\ n.txByKey \in [Txs -> Links]
  BY <1>0, <1>2, <1>4, Zenon
<1>8. n.txsBytes \in Int
  BY <1>0, <1>2, <1>3
<1>9. n \in Pools
  BY <1>0, <1>3, <1>4, <1>5, <1>6, <1>7, <1>8, PoolOfFields, Zenon
<1>10. /\ n.wtx[e] = w /\ \A x \in Elems \ {e} : n.wtx[x] = m.wtx[x]
       /\ n.txByKey[t] = e /\ \A u \in Txs \ {t} : n.txByKey[u] = m.txByKey[u]
  BY <1>0, <1>2, <1>4, Zenon
<1> QED
  BY <1>3, <1>4, <1>6, <1>9, <1>10, Zenon DEF Added, n, t

\* n is m with another cache.
Recached(m, n) ==
  /\ n \in Pools
  /\ n.txs = m.txs /\ n.wtx = m.wtx /\ n.txByKey = m.txByKey /\ n.txBySender = m.txBySender
  /\ n.txsBytes = m.txsBytes

\* Operations on the cache leave the rest of the pool.
LEMMA CacheFields ==
  ASSUME NEW m \in Pools, NEW cache \in Seq(Txs)
  PROVE  Recached(m, [m EXCEPT !.cache = cache]) /\ [m EXCEPT !.cache = cache].cache = cache
<1> DEFINE n == [m EXCEPT !.cache = cache]
<1>1. /\ /\ n.txs = m.txs /\ n.wtx = m.wtx /\ n.txByKey = m.txByKey
      /\ n.txBySender = m.txBySender
      /\ n.txsBytes = m.txsBytes /\ n.cache = cache
  BY Zenon DEF Pools
<1>2. n = [x \in PoolFields |-> n[x]]
  BY PoolFieldsOf, Zenon
<1> HIDE DEF n
<1>3. n \in Pools
  BY <1>1, <1>2, FieldTypes, PoolOfFields, Zenon
<1> QED
  BY <1>1, <1>3, Zenon DEF Recached, n

\* The cache stays a sequence of transactions.
LEMMA CacheTypes ==
  ASSUME NEW cache \in Seq(Txs), NEW t \in Txs
  PROVE  CacheRemove(cache, t) \in Seq(Txs) /\ CachePush(cache, t) \in Seq(Txs)
<1>1. CacheRemove(cache, t) \in Seq(Txs)
  <2>1. CASE Seen(cache, t)
    <3> DEFINE i == CHOOSE i \in DOMAIN cache : cache[i] = t
    <3>1. \E j \in DOMAIN cache : cache[j] = t
      BY <2>1, Zenon DEF Seen, Range
    <3>2. i \in DOMAIN cache
      BY <3>1, Zenon
    <3>3. CacheRemove(cache, t) = SubSeq(cache, 1, i - 1) \o SubSeq(cache, i + 1, Len(cache))
      BY <2>1, Zenon DEF CacheRemove
    <3> HIDE DEF i
    <3>4. i \in 1..Len(cache) /\ Len(cache) \in Nat
      BY <3>2
    <3>5. /\ SubSeq(cache, 1, i - 1) \in Seq(Txs)
          /\ SubSeq(cache, i + 1, Len(cache)) \in Seq(Txs)
      BY <3>4
    <3> QED
      BY <3>3, <3>5
  <2>2. CASE ~Seen(cache, t)
    BY <2>2, Zenon DEF CacheRemove
  <2> QED
    BY <2>1, <2>2, Zenon
<1>2. CachePush(cache, t) \in Seq(Txs)
  <2>1. /\ Append(CacheRemove(cache, t), t) \in Seq(Txs) /\ Append(cache, t) \in Seq(Txs)
        /\ <<>> \in Seq(Txs)
    BY <1>1
  <2>2. CacheSize # 0 /\ Len(cache) >= CacheSize => Append(Tail(cache), t) \in Seq(Txs)
    <3> SUFFICES ASSUME CacheSize # 0, Len(cache) >= CacheSize PROVE Append(Tail(cache), t) \in Seq(Txs)
      BY Zenon
    <3>1. Len(cache) \in Nat /\ CacheSize \in Nat
      BY MempoolConstants
    <3>2. cache # <<>>
      BY <3>1
    <3>3. Tail(cache) \in Seq(Txs)
      BY <3>2
    <3> QED
      BY <3>3
  <2> QED
    BY <2>1, <2>2, Zenon DEF CachePush
<1> QED
  BY <1>1, <1>2, Zenon

\* LRUTxCache.Push: what was pushed last is in the cache.
LEMMA PushIsSeen ==
  ASSUME NEW cache \in Seq(Txs), NEW t \in Txs, CacheSize # 0, ~Seen(cache, t)
  PROVE  Seen(CachePush(cache, t), t)
<1>1. \A q \in Seq(Txs) : Seen(Append(q, t), t)
  <2> SUFFICES ASSUME NEW q \in Seq(Txs) PROVE Seen(Append(q, t), t)
    BY Zenon
  <2> DEFINE a == Append(q, t)
  <2>1. Len(a) \in DOMAIN a /\ a[Len(a)] = t
    OBVIOUS
  <2> HIDE DEF a
  <2>2. Seen(a, t)
    BY <2>1, Zenon DEF Seen, Range
  <2> QED
    BY <2>2, Zenon DEF a
<1>2. CASE Len(cache) >= CacheSize
  <2>1. Len(cache) \in Nat /\ CacheSize \in Nat
    BY MempoolConstants
  <2>2. cache # <<>>
    BY <1>2, <2>1
  <2>3. Tail(cache) \in Seq(Txs)
    BY <2>2
  <2> QED
    BY <1>1, <1>2, <2>3, Zenon DEF CachePush
<1>3. CASE ~(Len(cache) >= CacheSize)
  BY <1>1, <1>3, Zenon DEF CachePush
<1> QED
  BY <1>2, <1>3, Zenon

-----------------------------------------------------------------------------
(* The pool: its parts agree. *)

\* The loop that adds up a weight computes the sum.
LEMMA TotalIsSum ==
  ASSUME NEW weight \in [Txs -> Nat], NEW m, NEW q, NEW n \in Nat, Len(q) = n,
         \A i \in 1..n : m.wtx[q[i]].tx \in Txs
  PROVE  IsSum(n, [i \in 1..n |-> weight[m.wtx[q[i]].tx]], Total(weight, m, q))
<1> DEFINE w == [i \in 1..n |-> weight[m.wtx[q[i]].tx]]
           g == [i \in 1..n |-> [u \in Int |-> u + w[i]]]
           R == [i \in 0..n |-> Int]
           Rec(f) == f = [i \in 0..n |-> IF i = 0 THEN 0 ELSE f[i - 1] + weight[m.wtx[q[i]].tx]]
           f == CHOOSE f : Rec(f)
<1>1. Total(weight, m, q) = f[n]
  BY Zenon DEF Total, Loop
<1>2. \A i \in 1..n : w[i] \in Nat /\ w[i] = weight[m.wtx[q[i]].tx]
  BY Zenon
<1>3. \A i \in 1..n : w[i] \in Int
  BY <1>2
<1>4. n \in 0..n /\ 0 \in 0..n /\ \A i \in 0..n : i # 0 => i \in 1..n
  OBVIOUS
<1>5. \A i \in 1..n : i \in 0..n /\ i # 0 /\ i - 1 \in 0..n
  OBVIOUS
<1> HIDE DEF w
<1>6. R \in [0..n -> SUBSET Int] /\ 0 \in R[0] /\ \A i \in 0..n : R[i] = Int
  OBVIOUS
<1>7. \A k \in 1..n : \A u \in Int : g[k][u] = u + w[k] /\ g[k][u] \in Int
  <2> SUFFICES ASSUME NEW k \in 1..n, NEW u \in Int PROVE g[k][u] = u + w[k] /\ g[k][u] \in Int
    BY Zenon
  <2>1. g[k][u] = u + w[k]
    BY Zenon
  <2> HIDE DEF g
  <2> QED
    BY <2>1, <1>3
<1> HIDE DEF g, R
<1>8. \A k \in 1..n : \A u \in R[k - 1] : g[k][u] \in R[k]
  BY <1>5, <1>6, <1>7, Zenon
<1>9. \E h : Rec(h)
  <2>1. PICK h \in [0..n -> Int] : Runs(n, 0, g, R, h)
    BY <1>6, <1>8, LoopExists, Zenon
  <2>2. ASSUME NEW i \in 1..n PROVE h[i] = h[i - 1] + weight[m.wtx[q[i]].tx]
    <3>1. h[i] = g[i][h[i - 1]] /\ h[i - 1] \in Int
      BY <2>1, <1>5, Zenon DEF Runs
    <3>2. g[i][h[i - 1]] = h[i - 1] + w[i] /\ w[i] = weight[m.wtx[q[i]].tx]
      BY <3>1, <1>2, <1>7, Zenon
    <3> QED
      BY <3>1, <3>2, Zenon
  <2>3. h[0] = 0
    BY <2>1, Zenon DEF Runs
  <2>4. \A i \in 0..n : h[i] = IF i = 0 THEN 0 ELSE h[i - 1] + weight[m.wtx[q[i]].tx]
    BY <2>2, <2>3, <1>4, Zenon
  <2>5. Rec(h)
    BY <2>1, <2>4, Zenon
  <2> QED
    BY <2>5, Zenon
<1>10. Rec(f)
  BY <1>9, Zenon
<1> HIDE DEF f
<1>11. f[0] = 0 /\ \A k \in 1..n : f[k] = f[k - 1] + w[k]
  <2>1. \A i \in 0..n : f[i] = IF i = 0 THEN 0 ELSE f[i - 1] + weight[m.wtx[q[i]].tx]
    BY <1>10, Zenon
  <2>2. ASSUME NEW k \in 1..n PROVE f[k] = f[k - 1] + w[k]
    <3>1. k \in 0..n /\ k # 0 /\ w[k] = weight[m.wtx[q[k]].tx]
      BY <1>2, <1>5, Zenon
    <3>2. f[k] = f[k - 1] + weight[m.wtx[q[k]].tx]
      BY <3>1, <2>1, Zenon
    <3> QED
      BY <3>1, <3>2, Zenon
  <2> QED
    BY <1>4, <2>1, <2>2, Zenon
<1>12. Runs(n, 0, g, R, f)
  <2>1. ASSUME NEW k \in 1..n, f[k - 1] \in R[k - 1] PROVE f[k] = g[k][f[k - 1]]
    <3>1. f[k - 1] \in Int
      BY <2>1, <1>5, <1>6, Zenon
    <3>2. g[k][f[k - 1]] = f[k - 1] + w[k] /\ f[k] = f[k - 1] + w[k]
      BY <3>1, <1>7, <1>11, Zenon
    <3> QED
      BY <3>2, Zenon
  <2> QED
    BY <2>1, <1>6, <1>8, <1>11, LoopRuns, Zenon
<1>13. \A k \in 0..n : f[k] \in Int
  BY <1>12, <1>6, Zenon DEF Runs
<1>14. Sums(n, w, f)
  BY <1>10, <1>11, <1>13, Zenon DEF Sums
<1> QED
  BY <1>1, <1>14, Zenon DEF IsSum, w

\* The total depends on the transactions of the elements only.
LEMMA SameTotal ==
  ASSUME NEW weight \in [Txs -> Nat], NEW m, NEW n, NEW q, NEW k \in Nat, Len(q) = k,
         \A i \in 1..k : m.wtx[q[i]].tx \in Txs /\ n.wtx[q[i]].tx = m.wtx[q[i]].tx
  PROVE  Total(weight, n, q) = Total(weight, m, q)
<1> DEFINE w == [i \in 1..k |-> weight[m.wtx[q[i]].tx]]
           v == [i \in 1..k |-> weight[n.wtx[q[i]].tx]]
<1>1. IsSum(k, w, Total(weight, m, q))
  BY TotalIsSum, Zenon
<1>2. IsSum(k, v, Total(weight, n, q))
  BY TotalIsSum, Zenon
<1>3. \A i \in 1..k : v[i] = w[i]
  BY Zenon
<1> HIDE DEF v, w
<1> QED
  BY <1>1, <1>2, <1>3, SumIsOne, Zenon

\* q holds the elements of the pool's list, each of them once.
Ordered(m, q) ==
  /\ Size(m) \in Nat /\ q \in Seq(Elems) /\ Len(q) = Size(m) /\ DOMAIN q = 1..Size(m)
  /\ \A i \in 1..Size(m) : q[i] \in Listed(m)
  /\ \A e \in Listed(m) : \E i \in 1..Size(m) : q[i] = e
  /\ \A i, j \in 1..Size(m) : q[i] = q[j] => i = j

\* The list of a sound pool holds its elements in order.
LEMMA InList ==
  ASSUME NEW m, Sound(m.txs)
  PROVE  Ordered(m, Elements(m.txs))
<1> DEFINE q == Elements(m.txs)
<1>1. m.txs \in Lists /\ q \in Seq(Elems) /\ IsListOf(m.txs, q)
  BY Zenon DEF Sound, WellLinked
<1> HIDE DEF q
<1>2. Linked(m.txs, q)
  BY <1>1, ListFacts, Zenon
<1>3. DOMAIN q = 1..Len(q)
  BY <1>1
<1> QED
  BY <1>1, <1>2, <1>3, Zenon DEF Ordered, Linked, Size, Listed, q

\* The parts of the pool agree.
Consistent(m) ==
  /\ m \in Pools /\ Sound(m.txs)
  /\ \A e \in Listed(m) : m.wtx[e].tx \in Txs
  /\ \A t \in Txs : m.txByKey[t] # Nil => m.txByKey[t] \in Listed(m) /\ m.wtx[m.txByKey[t]].tx = t
  /\ \A s \in Senders, e \in Elems :
       m.txBySender[s] = e <=> e \in Listed(m) /\ Sender[m.wtx[e].tx] = s
  /\ m.txsBytes = SizeOf(m, Elements(m.txs))

\* n is m, but for the cache and what the application thinks of the transactions.
Alike(m, n) ==
  /\ n \in Pools
  /\ n.txs = m.txs /\ n.txByKey = m.txByKey /\ n.txBySender = m.txBySender
  /\ n.txsBytes = m.txsBytes
  /\ \A e \in Elems : n.wtx[e].tx = m.wtx[e].tx /\ n.wtx[e].height = m.wtx[e].height

\* Consistent does not look at the cache and the verdicts.
LEMMA AlikeConsistent ==
  ASSUME NEW m, NEW n, Consistent(m), Alike(m, n)
  PROVE  Consistent(n) /\ Listed(n) = Listed(m) /\ Size(n) = Size(m)
<1> DEFINE q == Elements(m.txs)
<1>1. Ordered(m, q)
  BY InList, Zenon DEF Consistent
<1>2. /\ Listed(n) = Listed(m) /\ Size(n) = Size(m) /\ q = Elements(n.txs)
      /\ \A e \in Listed(m) : e \in Elems
  BY Zenon DEF Listed, Size, Alike
<1>3. TxSize \in [Txs -> Nat]
  BY MempoolConstants, Zenon
<1> HIDE DEF q
<1>4. \A i \in 1..Size(m) : m.wtx[q[i]].tx \in Txs /\ n.wtx[q[i]].tx = m.wtx[q[i]].tx
  BY <1>1, <1>2, Zenon DEF Ordered, Consistent, Alike
<1>5. Total(TxSize, n, q) = Total(TxSize, m, q)
  <2>1. Size(m) \in Nat /\ Len(q) = Size(m)
    BY <1>1, Zenon DEF Ordered
  <2> QED
    BY <1>3, <1>4, <2>1, SameTotal, Zenon
<1>6. n.txsBytes = SizeOf(n, Elements(n.txs))
  BY <1>2, <1>5, Zenon DEF Consistent, Alike, SizeOf, q
<1>7. \A e \in Listed(n) : n.wtx[e].tx \in Txs
  BY <1>2, Zenon DEF Consistent, Alike
<1>a. /\ n.txByKey = m.txByKey /\ n.txBySender = m.txBySender
      /\ \A e \in Elems : n.wtx[e].tx = m.wtx[e].tx
  BY Zenon DEF Alike
<1>8. ASSUME NEW t \in Txs, n.txByKey[t] # Nil
      PROVE  n.txByKey[t] \in Listed(n) /\ n.wtx[n.txByKey[t]].tx = t
  <2>1. m.txByKey[t] \in Listed(m) /\ m.wtx[m.txByKey[t]].tx = t
    BY <1>a, <1>8, Zenon DEF Consistent
  <2> QED
    BY <2>1, <1>2, <1>a, Zenon
<1>9. ASSUME NEW s \in Senders, NEW e \in Elems
      PROVE  n.txBySender[s] = e <=> e \in Listed(n) /\ Sender[n.wtx[e].tx] = s
  <2>1. m.txBySender[s] = e <=> e \in Listed(m) /\ Sender[m.wtx[e].tx] = s
    BY Zenon DEF Consistent
  <2> QED
    BY <2>1, <1>2, <1>a, Zenon
<1> QED
  BY <1>2, <1>6, <1>7, <1>8, <1>9, Zenon DEF Consistent, Alike

LEMMA RecachedAlike == ASSUME NEW m, NEW n, Recached(m, n) PROVE Alike(m, n)
  BY Zenon DEF Recached, Alike

-----------------------------------------------------------------------------

\* n is m without e, and as consistent.
TakenOut(m, e, n) ==
  Consistent(n) /\ Taken(m, e, n) /\ Listed(n) = Listed(m) \ {e} /\ Size(n) = Size(m) - 1 /\ Size(m) > 0

\* Taking an element out keeps the parts in agreement: it is unlinked, its key and its
\* sender are free, and its bytes are subtracted.
LEMMA TakeOut ==
  ASSUME NEW m, Consistent(m), NEW e \in Listed(m)
  PROVE  TakenOut(m, e, RemoveTxByElement(m, e))
<1> DEFINE n == RemoveTxByElement(m, e)
           t == m.wtx[e].tx
           q == Elements(m.txs)
           k == Size(m)
<1>1. /\ m \in Pools /\ Sound(m.txs) /\ e \in Elems /\ e \in Elems \ m.txs.removed
      /\ t \in Txs /\ m.txs \in Lists
  BY FieldTypes, Zenon DEF Consistent, Listed
<1>2. Ordered(m, q)
  BY <1>1, InList, Zenon
<1>3. /\ Sound(Unlink(m.txs, e))
      /\ \E i \in 1..k : q[i] = e /\ Elements(Unlink(m.txs, e)) = Without(q, i)
  BY <1>1, RemoveTakesOne, Zenon DEF Size
<1>4. Unlink(m.txs, e) \in Lists
  BY <1>3, Zenon DEF Sound
<1>5. Taken(m, e, n)
  BY <1>1, <1>4, RemoveTxFields, Zenon
<1> HIDE DEF n, q, t, k
<1>6. PICK i \in 1..k : q[i] = e /\ Elements(Unlink(m.txs, e)) = Without(q, i)
  BY <1>3, Zenon
<1> DEFINE p == Without(q, i)
<1>7. n.txs = Unlink(m.txs, e) /\ Sound(n.txs) /\ Elements(n.txs) = p /\ n \in Pools
  BY <1>3, <1>5, <1>6, Zenon DEF Taken
<1>8. Ordered(n, p)
  BY <1>7, InList, Zenon
<1>9. k \in Nat /\ q \in Seq(Elems) /\ Len(q) = k /\ DOMAIN q = 1..k
  BY <1>2, Zenon DEF Ordered, k
<1>10. Len(p) = k - 1 /\ \A j \in 1..(k - 1) : p[j] = IF j < i THEN q[j] ELSE q[j + 1]
  BY <1>6, <1>9, WithoutSeq, Zenon
<1>11. Size(n) = k - 1 /\ DOMAIN p = 1..(k - 1) /\ k - 1 \in Nat /\ k > 0
  <2>1. Size(n) = k - 1 /\ DOMAIN p = 1..(k - 1) /\ k - 1 \in Nat
    BY <1>8, <1>10, Zenon DEF Ordered
  <2> QED
    BY <2>1, <1>9
<1>12. Listed(n) = Listed(m) \ {e}
  <2>0. e \in m.txs.removed => FALSE
    BY <1>1, Zenon
  <2>1. n.txs.removed = m.txs.removed \cup {e}
    <3>1. Linked(m.txs, q)
      BY <1>1, ListFacts, Zenon DEF Sound, WellLinked, q
    <3>2. \A j \in 1..k :
            m.txs.prev[q[j]] = (IF j = 1 THEN Nil ELSE q[j - 1]) /\ m.txs.next[q[j]] = IF j = k THEN Nil ELSE q[j + 1]
      BY <3>1, <1>9, Zenon DEF Linked
    <3>3. \A j, h \in 1..k : q[j] = q[h] => j = h
      BY <1>2, Zenon DEF Ordered, k
    <3>4. m.txs.prev[e] # e
      <4>1. CASE i = 1
        <5>1. m.txs.prev[e] = Nil
          BY <4>1, <3>2, <1>6, Zenon
        <5> QED
          BY <5>1, <1>1, NilAssumption, Zenon
      <4>2. CASE i # 1
        <5>1. i - 1 \in 1..k /\ i - 1 # i
          BY <4>2, <1>6, <1>9
        <5>2. m.txs.prev[e] = q[i - 1] /\ q[i] = e
          BY <4>2, <3>2, <1>6, Zenon
        <5> QED
          BY <5>1, <5>2, <3>3, <1>6, Zenon
      <4> QED
        BY <4>1, <4>2, Zenon
    <3>5. m.txs.next[e] # e
      <4>1. CASE i = k
        <5>1. m.txs.next[e] = Nil
          BY <4>1, <3>2, <1>6, Zenon
        <5> QED
          BY <5>1, <1>1, NilAssumption, Zenon
      <4>2. CASE i # k
        <5>1. i + 1 \in 1..k /\ i + 1 # i
          BY <4>2, <1>6, <1>9
        <5>2. m.txs.next[e] = q[i + 1] /\ q[i] = e
          BY <4>2, <3>2, <1>6, Zenon
        <5> QED
          BY <5>1, <5>2, <3>3, <1>6, Zenon
      <4> QED
        BY <4>1, <4>2, Zenon
    <3>6. m.txs.len > 0
      BY <1>11, Zenon DEF k, Size
    <3>7. Unlinked(m.txs, e, Unlink(m.txs, e))
      BY <3>4, <3>5, <3>6, <1>1, RemoveFields, Zenon
    <3> QED
      BY <3>7, <1>7, Zenon DEF Unlinked
  <2> QED
    BY <2>1, Zenon DEF Listed
<1>13. \A x \in Listed(n) :
         x \in Elems \ {e} /\ x \in Listed(m) /\ n.wtx[x] = m.wtx[x] /\ n.wtx[x].tx \in Txs
  BY <1>5, <1>12, Zenon DEF Taken, Listed, Consistent
<1>14. ASSUME NEW u \in Txs, n.txByKey[u] # Nil
       PROVE  n.txByKey[u] \in Listed(n) /\ n.wtx[n.txByKey[u]].tx = u
  <2>1. u # t /\ n.txByKey[u] = m.txByKey[u]
    BY <1>5, <1>14, Zenon DEF Taken, t
  <2>2. m.txByKey[u] \in Listed(m) /\ m.wtx[m.txByKey[u]].tx = u
    BY <1>14, <2>1, Zenon DEF Consistent
  <2>3. m.txByKey[u] # e
    BY <2>1, <2>2, Zenon DEF t
  <2> QED
    BY <1>12, <1>13, <2>1, <2>2, <2>3, Zenon
<1>15. ASSUME NEW s \in Senders, NEW x \in Elems
       PROVE  n.txBySender[s] = x <=> x \in Listed(n) /\ Sender[n.wtx[x].tx] = s
  <2>1. n.txBySender[s] = IF s = Sender[t] THEN Nil ELSE m.txBySender[s]
    BY <1>5, Zenon DEF Taken, t
  <2>2. \A y \in Elems : m.txBySender[s] = y <=> y \in Listed(m) /\ Sender[m.wtx[y].tx] = s
    BY Zenon DEF Consistent
  <2>3. x # Nil
    BY NilAssumption, Zenon
  <2>4. CASE s = Sender[t]
    <3>1. m.txBySender[s] = e
      BY <1>1, <2>2, <2>4, Zenon DEF t
    <3> QED
      BY <1>12, <1>13, <2>1, <2>2, <2>3, <2>4, <3>1, Zenon
  <2>5. CASE s # Sender[t]
    <3>1. n.txBySender[s] = m.txBySender[s]
      BY <2>1, <2>5, Zenon
    <3>2. x \in Listed(n) => n.wtx[x] = m.wtx[x]
      BY <1>13, Zenon
    <3>3. CASE x = e
      BY <3>3, <3>1, <2>2, <2>5, <1>12, Zenon DEF t
    <3>4. CASE x # e
      BY <3>4, <3>1, <3>2, <2>2, <1>12, Zenon
    <3> QED
      BY <3>3, <3>4, Zenon
  <2> QED
    BY <2>4, <2>5, Zenon
<1>16. n.txsBytes = SizeOf(n, p)
  <2> DEFINE w == [j \in 1..k |-> TxSize[m.wtx[q[j]].tx]]
             v == [j \in 1..(k - 1) |-> TxSize[n.wtx[p[j]].tx]]
  <2>1. TxSize \in [Txs -> Nat]
    BY MempoolConstants, Zenon
  <2>2. \A j \in 1..k : m.wtx[q[j]].tx \in Txs
    BY <1>2, Zenon DEF Ordered, Consistent, k
  <2>3. IsSum(k, w, Total(TxSize, m, q))
    BY <2>1, <2>2, <1>9, TotalIsSum, Zenon
  <2>4. \A j \in 1..(k - 1) : p[j] \in Listed(n)
    BY <1>8, <1>11, Zenon DEF Ordered
  <2>5. \A j \in 1..(k - 1) : n.wtx[p[j]].tx \in Txs /\ n.wtx[p[j]] = m.wtx[p[j]]
    BY <2>4, <1>13, Zenon
  <2>6. IsSum(k - 1, v, Total(TxSize, n, p))
    BY <2>1, <2>5, <1>10, <1>11, TotalIsSum, Zenon
  <2>7. \A j \in 1..(k - 1) : v[j] = IF j < i THEN w[j] ELSE w[j + 1]
    <3> SUFFICES ASSUME NEW j \in 1..(k - 1) PROVE v[j] = IF j < i THEN w[j] ELSE w[j + 1]
      BY Zenon
    <3>1. j \in 1..k /\ j + 1 \in 1..k
      BY <1>9
    <3>2. /\ v[j] = TxSize[m.wtx[p[j]].tx] /\ w[j] = TxSize[m.wtx[q[j]].tx]
          /\ w[j + 1] = TxSize[m.wtx[q[j + 1]].tx]
      BY <3>1, <2>5, Zenon
    <3>3. p[j] = IF j < i THEN q[j] ELSE q[j + 1]
      BY <1>10, Zenon
    <3> HIDE DEF v, w, p
    <3> QED
      BY <3>2, <3>3, Zenon
  <2>8. w[i] = TxSize[t] /\ \A j \in 1..k : w[j] \in Nat
    BY <2>1, <2>2, <1>6, Zenon DEF t
  <2>9. w \in [1..k -> Int]
    <3>1. \A j \in 1..k : w[j] \in Int
      BY <2>8
    <3> QED
      BY <3>1, Zenon
  <2> HIDE DEF v, w
  <2>10. Total(TxSize, n, p) = Total(TxSize, m, q) - w[i]
    BY <2>3, <2>6, <2>7, <2>9, <1>9, SumWithout, Zenon
  <2>11. m.txsBytes = Total(TxSize, m, q)
    BY Zenon DEF Consistent, SizeOf, q
  <2>12. n.txsBytes = m.txsBytes - TxSize[t]
    BY <1>5, Zenon DEF Taken, t
  <2> QED
    BY <2>8, <2>10, <2>11, <2>12, Zenon DEF SizeOf
<1>17. Consistent(n)
  BY <1>7, <1>13, <1>14, <1>15, <1>16, Zenon DEF Consistent
<1> QED
  BY <1>5, <1>11, <1>12, <1>17, Zenon DEF TakenOut, n, k

\* n is m with w at e, and as consistent.
PutIn(m, e, w, n) ==
  Consistent(n) /\ Added(m, e, w, n) /\ Listed(n) = Listed(m) \cup {e} /\ Size(n) = Size(m) + 1

\* Putting in an element that is not in the list, of a sender that has none, keeps the
\* parts in agreement.
LEMMA PutOneIn ==
  ASSUME NEW m, Consistent(m), NEW e \in Elems, e \notin Listed(m),
         NEW w \in Wtxs, w.tx \in Txs,
         Sender[w.tx] \in Senders => m.txBySender[Sender[w.tx]] = Nil
  PROVE  PutIn(m, e, w, InsertTx(m, e, w))
<1> DEFINE n == InsertTx(m, e, w)
           t == w.tx
           q == Elements(m.txs)
           p == Append(q, e)
           k == Size(m)
<1>1. m \in Pools /\ Sound(m.txs) /\ e \in m.txs.removed /\ m.txs \in Lists
  BY FieldTypes, Zenon DEF Consistent, Listed
<1>2. Ordered(m, q)
  BY <1>1, InList, Zenon
<1>3. Sound(PushBack(m.txs, e)) /\ Elements(PushBack(m.txs, e)) = p
  BY <1>1, PushBackAppends, Zenon
<1>4. PushBack(m.txs, e) \in Lists
  BY <1>3, Zenon DEF Sound
<1>5. Added(m, e, w, n)
  BY <1>1, <1>4, InsertTxFields, Zenon
<1> HIDE DEF n, q, t, k
<1>7. n.txs = PushBack(m.txs, e) /\ Sound(n.txs) /\ Elements(n.txs) = p /\ n \in Pools
  BY <1>3, <1>5, Zenon DEF Added
<1>8. Ordered(n, p)
  BY <1>7, InList, Zenon
<1>9. k \in Nat /\ q \in Seq(Elems) /\ Len(q) = k /\ DOMAIN q = 1..k
  BY <1>2, Zenon DEF Ordered, k
<1>10. Len(p) = k + 1 /\ p[k + 1] = e /\ \A j \in 1..k : p[j] = q[j]
  BY <1>9
<1> HIDE DEF p
<1>11. Size(n) = k + 1 /\ DOMAIN p = 1..(k + 1) /\ k + 1 \in Nat
  BY <1>8, <1>10, Zenon DEF Ordered
<1>12. Listed(n) = Listed(m) \cup {e}
  <2>1. m.txs.tail # e
    <3>1. Linked(m.txs, q)
      BY <1>1, ListFacts, Zenon DEF Sound, WellLinked, q
    <3>2. m.txs.tail # Nil => \E j \in 1..k : m.txs.tail = q[j]
      <4>1. k # 0 => k \in 1..k
        BY <1>9
      <4> QED
        BY <4>1, <3>1, <1>9, Zenon DEF Linked
    <3>3. \A j \in 1..k : q[j] \in Listed(m)
      BY <1>2, Zenon DEF Ordered, k
    <3> QED
      BY <3>2, <3>3, NilAssumption, Zenon
  <2>2. Pushed(m.txs, e, PushBack(m.txs, e))
    BY <2>1, <1>1, PushBackFields, Zenon
  <2>3. n.txs.removed = m.txs.removed \ {e}
    BY <2>2, <1>7, Zenon DEF Pushed
  <2> QED
    BY <2>3, Zenon DEF Listed
<1>13. \A x \in Listed(n) :
         x \in Elems /\ n.wtx[x] = (IF x = e THEN w ELSE m.wtx[x]) /\ n.wtx[x].tx \in Txs
  BY <1>5, <1>12, Zenon DEF Added, Listed, Consistent
<1>a. \A x \in Listed(m) : x # e /\ n.wtx[x] = m.wtx[x] /\ x \in Listed(n)
  BY <1>12, <1>13, Zenon
<1>14. ASSUME NEW u \in Txs, n.txByKey[u] # Nil
       PROVE  n.txByKey[u] \in Listed(n) /\ n.wtx[n.txByKey[u]].tx = u
  <2>1. CASE u = t
    <3>1. n.txByKey[u] = e /\ n.wtx[e] = w
      BY <2>1, <1>5, Zenon DEF Added, t
    <3> QED
      BY <3>1, <2>1, <1>12, Zenon DEF t
  <2>2. CASE u # t
    <3>1. n.txByKey[u] = m.txByKey[u]
      BY <2>2, <1>5, Zenon DEF Added, t
    <3>2. m.txByKey[u] \in Listed(m) /\ m.wtx[m.txByKey[u]].tx = u
      BY <1>14, <3>1, Zenon DEF Consistent
    <3> QED
      BY <1>a, <3>1, <3>2, Zenon
  <2> QED
    BY <2>1, <2>2, Zenon
<1>15. ASSUME NEW s \in Senders, NEW x \in Elems
       PROVE  n.txBySender[s] = x <=> x \in Listed(n) /\ Sender[n.wtx[x].tx] = s
  <2>1. n.txBySender[s] = IF s = Sender[t] THEN e ELSE m.txBySender[s]
    BY <1>5, Zenon DEF Added, t
  <2>2. \A y \in Elems : m.txBySender[s] = y <=> y \in Listed(m) /\ Sender[m.wtx[y].tx] = s
    BY Zenon DEF Consistent
  <2>3. x # Nil
    BY NilAssumption, Zenon
  <2>4. n.wtx[e] = w /\ e \in Listed(n)
    BY <1>12, <1>13, Zenon
  <2>5. CASE s = Sender[t]
    <3>1. m.txBySender[s] = Nil
      BY <2>5, Zenon DEF t
    <3>2. CASE x = e
      BY <3>2, <2>1, <2>4, <2>5, Zenon DEF t
    <3>3. CASE x # e
      <4>1. ~(x \in Listed(m) /\ Sender[m.wtx[x].tx] = s)
        BY <2>2, <2>3, <3>1, Zenon
      <4>2. x \in Listed(n) => x \in Listed(m) /\ n.wtx[x] = m.wtx[x]
        BY <3>3, <1>12, <1>13, Zenon
      <4> QED
        BY <2>1, <2>5, <3>3, <4>1, <4>2, Zenon
    <3> QED
      BY <3>2, <3>3, Zenon
  <2>6. CASE s # Sender[t]
    <3>1. n.txBySender[s] = m.txBySender[s]
      BY <2>1, <2>6, Zenon
    <3>2. CASE x = e
      BY <3>1, <3>2, <2>2, <2>4, <2>6, Zenon DEF t
    <3>3. CASE x # e
      BY <3>1, <3>3, <2>2, <1>12, <1>a, Zenon
    <3> QED
      BY <3>2, <3>3, Zenon
  <2> QED
    BY <2>5, <2>6, Zenon
<1>16. n.txsBytes = SizeOf(n, p)
  <2> DEFINE w0 == [j \in 1..k |-> TxSize[m.wtx[q[j]].tx]]
             v == [j \in 1..(k + 1) |-> TxSize[n.wtx[p[j]].tx]]
  <2>1. TxSize \in [Txs -> Nat]
    BY MempoolConstants, Zenon
  <2>2. \A j \in 1..k : q[j] \in Listed(m) /\ m.wtx[q[j]].tx \in Txs
    BY <1>2, Zenon DEF Ordered, Consistent, k
  <2>3. IsSum(k, w0, Total(TxSize, m, q))
    BY <2>1, <2>2, <1>9, TotalIsSum, Zenon
  <2>4. \A j \in 1..(k + 1) : n.wtx[p[j]].tx \in Txs
    BY <1>8, <1>11, <1>13, Zenon DEF Ordered
  <2>6. IsSum(k + 1, v, Total(TxSize, n, p))
    BY <2>1, <2>4, <1>10, <1>11, TotalIsSum, Zenon
  <2>7. \A j \in 1..k : w0[j] = v[j]
    <3> SUFFICES ASSUME NEW j \in 1..k PROVE w0[j] = v[j]
      BY Zenon
    <3>1. j \in 1..(k + 1)
      BY <1>9
    <3>2. n.wtx[q[j]] = m.wtx[q[j]] /\ p[j] = q[j]
      BY <1>a, <1>10, <2>2, Zenon
    <3> QED
      BY <3>1, <3>2, Zenon
  <2>8. v[k + 1] = TxSize[t]
    <3>1. k + 1 \in 1..(k + 1)
      BY <1>9
    <3>2. n.wtx[p[k + 1]] = w
      BY <1>10, <1>12, <1>13, Zenon
    <3> QED
      BY <3>1, <3>2, Zenon DEF t
  <2> HIDE DEF v, w0
  <2>10. Total(TxSize, n, p) = Total(TxSize, m, q) + v[k + 1]
    BY <2>3, <2>6, <2>7, <1>9, SumAppend, Zenon
  <2>11. m.txsBytes = Total(TxSize, m, q)
    BY Zenon DEF Consistent, SizeOf, q
  <2>12. n.txsBytes = m.txsBytes + TxSize[t]
    BY <1>5, Zenon DEF Added, t
  <2> QED
    BY <2>8, <2>10, <2>11, <2>12, Zenon DEF SizeOf
<1>b. \A x \in Listed(n) : n.wtx[x].tx \in Txs
  BY <1>13, Zenon
<1>17. Consistent(n)
  BY <1>7, <1>b, <1>14, <1>15, <1>16, Zenon DEF Consistent
<1> QED
  BY <1>5, <1>11, <1>12, <1>17, Zenon DEF PutIn, n, k

-----------------------------------------------------------------------------
(* The pool shrinks: what removals, and loops of them, leave. *)

\* The index finds what the pool holds of t.
Indexed(m, t) == \A e \in Listed(m) : m.wtx[e].tx = t => m.txByKey[t] = e

\* n holds less of the same.
Shrunk(m, n) ==
  /\ Consistent(n) /\ \A e \in Listed(n) : e \in Listed(m)
  /\ \A e \in Listed(n) : n.wtx[e].tx = m.wtx[e].tx /\ n.wtx[e].height = m.wtx[e].height
  /\ Size(n) <= Size(m) /\ n.txsBytes <= m.txsBytes
  /\ \A t \in Txs : Indexed(m, t) => Indexed(n, t)

\* The numbers of a consistent pool.
LEMMA PoolNumbers ==
  ASSUME NEW m, Consistent(m)
  PROVE  m \in Pools /\ Size(m) \in Nat /\ m.txsBytes \in Int
<1>1. m \in Pools
  BY Zenon DEF Consistent
<1>2. Ordered(m, Elements(m.txs))
  BY InList, Zenon DEF Consistent
<1> QED
  BY <1>1, <1>2, FieldTypes, Zenon DEF Ordered

\* A change of the cache and of verdicts shrinks nothing.
LEMMA ShrunkAlike ==
  ASSUME NEW m, NEW n, Consistent(m), Alike(m, n)
  PROVE  Shrunk(m, n)
<1>1. Consistent(n) /\ Listed(n) = Listed(m) /\ Size(n) = Size(m) /\ n.txsBytes = m.txsBytes
  BY AlikeConsistent, Zenon DEF Alike
<1>2. Size(m) <= Size(m) /\ m.txsBytes <= m.txsBytes
  BY PoolNumbers
<1>3. \A e \in Listed(n) : n.wtx[e].tx = m.wtx[e].tx /\ n.wtx[e].height = m.wtx[e].height
  BY Zenon DEF Alike, Listed
<1>4. n.txByKey = m.txByKey
  BY Zenon DEF Alike
<1>5. \A t \in Txs : Indexed(m, t) => Indexed(n, t)
  BY <1>1, <1>3, <1>4, Zenon DEF Indexed
<1> QED
  BY <1>1, <1>2, <1>3, <1>5, Zenon DEF Shrunk

LEMMA ShrunkSelf == ASSUME NEW m, Consistent(m) PROVE Shrunk(m, m)
<1>1. Alike(m, m)
  BY Zenon DEF Alike, Consistent
<1> QED
  BY <1>1, ShrunkAlike, Zenon

\* Shrinking twice is shrinking.
LEMMA ShrunkMore ==
  ASSUME NEW m, NEW n, NEW k, Consistent(m), Shrunk(m, n), Shrunk(n, k)
  PROVE  Shrunk(m, k)
<1>1. Consistent(n) /\ Consistent(k)
  BY Zenon DEF Shrunk
<1>2. /\ Size(n) <= Size(m) /\ n.txsBytes <= m.txsBytes /\ Size(k) <= Size(n)
      /\ k.txsBytes <= n.txsBytes
  BY Zenon DEF Shrunk
<1>3. /\ Size(m) \in Nat /\ Size(n) \in Nat /\ Size(k) \in Nat
      /\ m.txsBytes \in Int /\ n.txsBytes \in Int /\ k.txsBytes \in Int
  BY <1>1, PoolNumbers, Zenon
<1>4. Size(k) <= Size(m) /\ k.txsBytes <= m.txsBytes
  BY <1>2, <1>3
<1>5. \A e \in Listed(k) :
        e \in Listed(m) /\ k.wtx[e].tx = m.wtx[e].tx /\ k.wtx[e].height = m.wtx[e].height
  BY Zenon DEF Shrunk
<1>6. \A t \in Txs : Indexed(m, t) => Indexed(k, t)
  BY Zenon DEF Shrunk
<1> QED
  BY <1>1, <1>4, <1>5, <1>6, Zenon DEF Shrunk

\* Taking one element out shrinks the pool.
LEMMA ShrunkTaken ==
  ASSUME NEW m, NEW e \in Listed(m), NEW n, Consistent(m), TakenOut(m, e, n)
  PROVE  Shrunk(m, n)
<1> DEFINE t == m.wtx[e].tx
<1>1. Consistent(n) /\ Listed(n) = Listed(m) \ {e} /\ Size(n) = Size(m) - 1
  BY Zenon DEF TakenOut
<1>2. \A x \in Listed(n) : x \in Elems \ {e}
  BY <1>1, Zenon DEF Listed
<1>3. /\ \A x \in Elems \ {e} : n.wtx[x] = m.wtx[x]
      /\ n.txsBytes = m.txsBytes - TxSize[t]
      /\ \A u \in Txs \ {t} : n.txByKey[u] = m.txByKey[u]
  BY Zenon DEF TakenOut, Taken
<1>4. t \in Txs /\ TxSize \in [Txs -> Nat]
  BY MempoolConstants, Zenon DEF Consistent
<1> HIDE DEF t
<1>5. TxSize[t] \in Nat
  BY <1>4, Zenon
<1>6. Size(n) <= Size(m) /\ n.txsBytes <= m.txsBytes
  BY <1>1, <1>3, <1>5, PoolNumbers
<1>7. ASSUME NEW u \in Txs, Indexed(m, u) PROVE Indexed(n, u)
  <2>1. CASE u = t
    <3>1. \A x \in Listed(m) : m.wtx[x].tx = u => x = e
      BY <2>1, <1>7, Zenon DEF Indexed, t
    <3> QED
      BY <3>1, <1>1, <1>2, <1>3, Zenon DEF Indexed
  <2>2. CASE u # t
    <3>1. n.txByKey[u] = m.txByKey[u]
      BY <2>2, <1>3, Zenon
    <3> QED
      BY <3>1, <1>1, <1>2, <1>3, <1>7, Zenon DEF Indexed
  <2> QED
    BY <2>1, <2>2, Zenon
<1>8. \A x \in Listed(n) : n.wtx[x].tx = m.wtx[x].tx /\ n.wtx[x].height = m.wtx[x].height
  BY <1>2, <1>3, Zenon
<1>9. \A x \in Listed(n) : x \in Listed(m)
  BY <1>1, Zenon
<1> QED
  BY <1>1, <1>6, <1>7, <1>8, <1>9, Zenon DEF Shrunk

\* The cache after a removal, and after a failed check.
LEMMA ShrunkRemove ==
  ASSUME NEW m, Consistent(m), NEW t \in Txs
  PROVE  /\ Shrunk(m, [m EXCEPT !.cache = CacheRemove(@, t)])
         /\ Listed([m EXCEPT !.cache = CacheRemove(@, t)]) = Listed(m)
         /\ Alike(m, [m EXCEPT !.cache = CacheRemove(@, t)])
<1> DEFINE cache == CacheRemove(m.cache, t)
<1>1. m \in Pools /\ cache \in Seq(Txs)
  BY FieldTypes, CacheTypes, Zenon DEF Consistent
<1>2. [m EXCEPT !.cache = CacheRemove(@, t)] = [m EXCEPT !.cache = cache]
  BY Zenon
<1> HIDE DEF cache
<1>3. Recached(m, [m EXCEPT !.cache = cache])
  BY <1>1, CacheFields, Zenon
<1>4. Alike(m, [m EXCEPT !.cache = cache])
  BY <1>3, RecachedAlike, Zenon
<1> QED
  BY <1>2, <1>4, ShrunkAlike, AlikeConsistent, Zenon

LEMMA ShrunkForget ==
  ASSUME NEW m, Consistent(m), NEW t \in Txs
  PROVE  Shrunk(m, ForgetInvalid(m, t)) /\ Listed(ForgetInvalid(m, t)) = Listed(m)
<1>1. CASE KeepInvalid
  BY <1>1, ShrunkSelf, Zenon DEF ForgetInvalid
<1>2. CASE ~KeepInvalid
  BY <1>2, ShrunkRemove, Zenon DEF ForgetInvalid
<1> QED
  BY <1>1, <1>2, Zenon

\* Pushing to the cache, as CheckTx does.
LEMMA ShrunkPush ==
  ASSUME NEW m, Consistent(m), NEW t \in Txs
  PROVE  /\ Shrunk(m, [m EXCEPT !.cache = CachePush(@, t)])
         /\ Listed([m EXCEPT !.cache = CachePush(@, t)]) = Listed(m)
         /\ [m EXCEPT !.cache = CachePush(@, t)].cache = CachePush(m.cache, t)
<1> DEFINE cache == CachePush(m.cache, t)
<1>1. m \in Pools /\ cache \in Seq(Txs)
  BY FieldTypes, CacheTypes, Zenon DEF Consistent
<1>2. [m EXCEPT !.cache = CachePush(@, t)] = [m EXCEPT !.cache = cache]
  BY Zenon
<1> HIDE DEF cache
<1>3. Recached(m, [m EXCEPT !.cache = cache]) /\ [m EXCEPT !.cache = cache].cache = cache
  BY <1>1, CacheFields, Zenon
<1>4. Alike(m, [m EXCEPT !.cache = cache])
  BY <1>3, RecachedAlike, Zenon
<1> QED
  BY <1>2, <1>3, <1>4, ShrunkAlike, AlikeConsistent, Zenon DEF cache

\* RemoveTxByKey, which finds its element by the key.
LEMMA ShrunkByKey ==
  ASSUME NEW m, Consistent(m), NEW t \in Txs
  PROVE  Shrunk(m, RemoveTxByKey(m, t))
<1>1. CASE m.txByKey[t] = Nil
  BY <1>1, ShrunkSelf, Zenon DEF RemoveTxByKey
<1>2. CASE m.txByKey[t] # Nil
  <2>1. m.txByKey[t] \in Listed(m)
    BY <1>2, Zenon DEF Consistent
  <2> QED
    BY <1>2, <2>1, TakeOut, ShrunkTaken, Zenon DEF RemoveTxByKey
<1> QED
  BY <1>1, <1>2, Zenon

\* The loops that take elements out go over the list as it was: those still to come are
\* in the list.
Left(m, q, n, k) == {u \in Pools : Shrunk(m, u) /\ \A j \in 1..n : j > k => q[j] \in Listed(u)}

LEMMA LeftStart ==
  ASSUME NEW m, Consistent(m)
  PROVE  m \in Left(m, Elements(m.txs), Size(m), 0)
<1>1. Ordered(m, Elements(m.txs)) /\ m \in Pools
  BY InList, Zenon DEF Consistent
<1> QED
  BY <1>1, ShrunkSelf, Zenon DEF Left, Ordered

\* The next element goes or stays.
LEMMA LeftStep ==
  ASSUME NEW m, Consistent(m), NEW q, NEW n \in Nat, NEW k \in 1..n,
         NEW u \in Left(m, q, n, k - 1),
         \A i, j \in 1..n : q[i] = q[j] => i = j
  PROVE  /\ Consistent(u) /\ q[k] \in Listed(u) /\ u \in Left(m, q, n, k)
         /\ RemoveTxByElement(u, q[k]) \in Left(m, q, n, k)
         /\ [RemoveTxByElement(u, q[k]) EXCEPT !.cache = CacheRemove(@, u.wtx[q[k]].tx)] \in Left(m, q, n, k)
<1> DEFINE e == q[k]
           v == RemoveTxByElement(u, e)
           t == u.wtx[e].tx
           x == [v EXCEPT !.cache = CacheRemove(@, t)]
<1>1. k > k - 1 /\ \A j \in 1..n : j > k => j > k - 1 /\ j # k
  OBVIOUS
<1>2. u \in Pools /\ Shrunk(m, u) /\ \A j \in 1..n : j > k - 1 => q[j] \in Listed(u)
  BY Zenon DEF Left
<1>3. Consistent(u) /\ e \in Listed(u) /\ t \in Txs
  BY <1>1, <1>2, Zenon DEF Shrunk, Consistent
<1>4. u \in Left(m, q, n, k)
  BY <1>1, <1>2, Zenon DEF Left
<1>5. TakenOut(u, e, v)
  BY <1>3, TakeOut, Zenon
<1> HIDE DEF v, t
<1>6. Shrunk(u, v) /\ Consistent(v) /\ Listed(v) = Listed(u) \ {e} /\ v \in Pools
  <2>1. Shrunk(u, v)
    BY <1>3, <1>5, ShrunkTaken, Zenon
  <2>2. Consistent(v) /\ Listed(v) = Listed(u) \ {e}
    BY <1>5, Zenon DEF TakenOut
  <2> QED
    BY <2>1, <2>2, Zenon DEF Consistent
<1>7. \A j \in 1..n : j > k => q[j] \in Listed(v)
  BY <1>1, <1>2, <1>6, Zenon
<1>8. Shrunk(m, v)
  BY <1>2, <1>6, ShrunkMore, Zenon
<1>9. v \in Left(m, q, n, k)
  BY <1>6, <1>7, <1>8, Zenon DEF Left
<1>10. Shrunk(v, x) /\ Listed(x) = Listed(v)
  BY <1>3, <1>6, ShrunkRemove, Zenon
<1> HIDE DEF x
<1>11. Shrunk(m, x) /\ x \in Pools
  BY <1>8, <1>10, ShrunkMore, Zenon DEF Shrunk, Consistent
<1>12. x \in Left(m, q, n, k)
  BY <1>7, <1>10, <1>11, Zenon DEF Left
<1> QED
  BY <1>3, <1>4, <1>9, <1>12, Zenon DEF v, t, x

\* Flush's loop.
LEMMA FlushLoop ==
  ASSUME NEW m, Consistent(m)
  PROVE  Shrunk(m, Loop(RemoveTxByElement, m, Elements(m.txs)))
<1> DEFINE q == Elements(m.txs)
           n == Size(m)
           g == [k \in 1..n |-> [u \in Pools |-> RemoveTxByElement(u, q[k])]]
           R == [k \in 0..n |-> Left(m, q, n, k)]
           Rec(f) == f = [i \in 0..Len(q) |-> IF i = 0 THEN m ELSE RemoveTxByElement(f[i - 1], q[i])]
           f == CHOOSE f : Rec(f)
<1>1. Loop(RemoveTxByElement, m, q) = f[Len(q)]
  BY Zenon DEF Loop
<1>2. n \in Nat /\ Len(q) = n /\ \A i, j \in 1..n : q[i] = q[j] => i = j
  BY InList, Zenon DEF Consistent, Ordered
<1>3. m \in Left(m, q, n, 0)
  BY LeftStart, Zenon
<1> HIDE DEF q, n
<1>4. n \in 0..n /\ 0 \in 0..n /\ \A i \in 0..n : i # 0 => i \in 1..n
  BY <1>2
<1>5. \A i \in 1..n : i \in 0..n /\ i # 0 /\ i - 1 \in 0..n
  BY <1>2
<1>6. /\ R \in [0..n -> SUBSET Pools]
      /\ \A i \in 0..n : R[i] = Left(m, q, n, i) /\ R[i] \subseteq Pools
  BY Zenon DEF Left
<1>7. ASSUME NEW k \in 1..n, NEW u \in R[k - 1]
      PROVE  g[k][u] = RemoveTxByElement(u, q[k]) /\ g[k][u] \in R[k]
  <2>1. u \in Left(m, q, n, k - 1) /\ u \in Pools
    BY <1>5, <1>6, Zenon
  <2>2. RemoveTxByElement(u, q[k]) \in Left(m, q, n, k)
    BY <1>2, <2>1, LeftStep, Zenon
  <2>3. g[k][u] = RemoveTxByElement(u, q[k])
    BY <2>1, Zenon
  <2> QED
    BY <1>5, <1>6, <2>2, <2>3, Zenon
<1> HIDE DEF g, R
<1>8. m \in R[0]
  BY <1>3, <1>4, <1>6, Zenon
<1>9. PICK h \in [0..n -> Pools] : Runs(n, m, g, R, h)
  BY <1>2, <1>6, <1>7, <1>8, LoopExists, Zenon
<1>10. Rec(h)
  <2>1. \A i \in 1..n : h[i] = RemoveTxByElement(h[i - 1], q[i])
    BY <1>5, <1>7, <1>9, Zenon DEF Runs
  <2> QED
    BY <2>1, <1>2, <1>4, <1>9, Zenon DEF Runs
<1>11. Rec(f)
  BY <1>10, Zenon
<1> HIDE DEF f
<1>12. f[0] = m /\ \A k \in 1..n : f[k] = RemoveTxByElement(f[k - 1], q[k])
  BY <1>2, <1>4, <1>5, <1>11, Zenon
<1>13. Runs(n, m, g, R, f)
  <2>1. \A k \in 1..n : f[k - 1] \in R[k - 1] => f[k] = g[k][f[k - 1]]
    BY <1>7, <1>12, Zenon
  <2>2. \A k \in 1..n : \A u \in R[k - 1] : g[k][u] \in R[k]
    BY <1>7, Zenon
  <2> QED
    BY <1>2, <1>8, <1>12, <2>1, <2>2, LoopRuns, Zenon
<1>14. f[n] \in Left(m, q, n, n)
  BY <1>4, <1>6, <1>13, Zenon DEF Runs
<1> QED
  BY <1>1, <1>2, <1>14, Zenon DEF Left, q

\* One element of PurgeExpiredTxs.
PurgeOne(u, e, blockHeight) ==
  IF TTLNumBlocks > 0 /\ blockHeight - u.wtx[e].height > TTLNumBlocks
  THEN [RemoveTxByElement(u, e) EXCEPT !.cache = CacheRemove(@, u.wtx[e].tx)]
  ELSE u

\* purgeExpiredTxs shrinks the pool.
LEMMA PurgeLoop ==
  ASSUME NEW m, Consistent(m), NEW blockHeight
  PROVE  Shrunk(m, PurgeExpiredTxs(m, blockHeight))
<1> DEFINE q == Elements(m.txs)
           n == Size(m)
           g == [k \in 1..n |-> [u \in Pools |-> PurgeOne(u, q[k], blockHeight)]]
           R == [k \in 0..n |-> Left(m, q, n, k)]
           Rec(f) == f = [i \in 0..Len(q) |-> IF i = 0 THEN m ELSE PurgeOne(f[i - 1], q[i], blockHeight)]
           f == CHOOSE f : Rec(f)
<1>1. PurgeExpiredTxs(m, blockHeight) = f[Len(q)]
  BY Zenon DEF PurgeExpiredTxs, Loop, PurgeOne
<1>2. n \in Nat /\ Len(q) = n /\ \A i, j \in 1..n : q[i] = q[j] => i = j
  BY InList, Zenon DEF Consistent, Ordered
<1>3. m \in Left(m, q, n, 0)
  BY LeftStart, Zenon
<1> HIDE DEF q, n
<1>4. n \in 0..n /\ 0 \in 0..n /\ \A i \in 0..n : i # 0 => i \in 1..n
  BY <1>2
<1>5. \A i \in 1..n : i \in 0..n /\ i # 0 /\ i - 1 \in 0..n
  BY <1>2
<1>6. /\ R \in [0..n -> SUBSET Pools]
      /\ \A i \in 0..n : R[i] = Left(m, q, n, i) /\ R[i] \subseteq Pools
  BY Zenon DEF Left
<1>7. ASSUME NEW k \in 1..n, NEW u \in R[k - 1]
      PROVE  g[k][u] = PurgeOne(u, q[k], blockHeight) /\ g[k][u] \in R[k]
  <2>1. u \in Left(m, q, n, k - 1) /\ u \in Pools
    BY <1>5, <1>6, Zenon
  <2>2. PurgeOne(u, q[k], blockHeight) \in Left(m, q, n, k)
    BY <1>2, <2>1, LeftStep, Zenon DEF PurgeOne
  <2>3. g[k][u] = PurgeOne(u, q[k], blockHeight)
    BY <2>1, Zenon
  <2> QED
    BY <1>5, <1>6, <2>2, <2>3, Zenon
<1> HIDE DEF g, R
<1>8. m \in R[0]
  BY <1>3, <1>4, <1>6, Zenon
<1>9. PICK h \in [0..n -> Pools] : Runs(n, m, g, R, h)
  BY <1>2, <1>6, <1>7, <1>8, LoopExists, Zenon
<1>10. Rec(h)
  <2>1. \A i \in 1..n : h[i] = PurgeOne(h[i - 1], q[i], blockHeight)
    BY <1>5, <1>7, <1>9, Zenon DEF Runs
  <2> QED
    BY <2>1, <1>2, <1>4, <1>9, Zenon DEF Runs
<1>11. Rec(f)
  BY <1>10, Zenon
<1> HIDE DEF f
<1>12. f[0] = m /\ \A k \in 1..n : f[k] = PurgeOne(f[k - 1], q[k], blockHeight)
  BY <1>2, <1>4, <1>5, <1>11, Zenon
<1>13. Runs(n, m, g, R, f)
  <2>1. \A k \in 1..n : f[k - 1] \in R[k - 1] => f[k] = g[k][f[k - 1]]
    BY <1>7, <1>12, Zenon
  <2>2. \A k \in 1..n : \A u \in R[k - 1] : g[k][u] \in R[k]
    BY <1>7, Zenon
  <2> QED
    BY <1>2, <1>8, <1>12, <2>1, <2>2, LoopRuns, Zenon
<1>14. f[n] \in Left(m, q, n, n)
  BY <1>4, <1>6, <1>13, Zenon DEF Runs
<1> QED
  BY <1>1, <1>2, <1>14, Zenon DEF Left

\* One transaction of a block in Update.
UpdateOne(u, d) ==
  RemoveTxByKey(IF d.ok THEN [u EXCEPT !.cache = CachePush(@, d.tx)] ELSE ForgetInvalid(u, d.tx), d.tx)

LEMMA UpdateStep ==
  ASSUME NEW m, Consistent(m), NEW u, Shrunk(m, u), NEW d \in [tx : Txs, ok : BOOLEAN]
  PROVE  Shrunk(m, UpdateOne(u, d))
<1> DEFINE v == IF d.ok THEN [u EXCEPT !.cache = CachePush(@, d.tx)] ELSE ForgetInvalid(u, d.tx)
<1>1. Consistent(u) /\ d.tx \in Txs
  BY Zenon DEF Shrunk
<1>2. Shrunk(u, v)
  BY <1>1, ShrunkPush, ShrunkForget, Zenon
<1> HIDE DEF v
<1>3. Consistent(v)
  BY <1>2, Zenon DEF Shrunk
<1>4. Shrunk(v, RemoveTxByKey(v, d.tx))
  BY <1>1, <1>3, ShrunkByKey, Zenon
<1>5. Shrunk(m, RemoveTxByKey(v, d.tx))
  BY <1>1, <1>2, <1>4, ShrunkMore, Zenon
<1> QED
  BY <1>5, Zenon DEF UpdateOne, v

\* The loop of Update over the transactions of a block shrinks the pool.
LEMMA UpdateLoop ==
  ASSUME NEW m, Consistent(m), NEW q \in Blocks, NEW blockHeight
  PROVE  Shrunk(m, Update(m, blockHeight, q))
<1> DEFINE n == Len(q)
           D == [tx : Txs, ok : BOOLEAN]
           S == {u \in Pools : Shrunk(m, u)}
           g == [k \in 1..n |-> [u \in Pools |-> UpdateOne(u, q[k])]]
           R == [k \in 0..n |-> S]
           Rec(f) == f = [i \in 0..n |-> IF i = 0 THEN m ELSE UpdateOne(f[i - 1], q[i])]
           f == CHOOSE f : Rec(f)
<1>1. Update(m, blockHeight, q) = PurgeExpiredTxs(f[n], blockHeight)
  BY Zenon DEF Update, Loop, UpdateOne
<1>2. n \in Nat /\ \A i \in 1..n : q[i] \in D
  <2>1. PICK k \in 0..MaxBlockTxs : q \in [1..k -> D]
    BY Zenon DEF Blocks
  <2> HIDE DEF D
  <2>2. k \in Nat
    OBVIOUS
  <2>3. q \in Seq(D) /\ Len(q) = k
    BY <2>1, <2>2
  <2> QED
    BY <2>1, <2>2, <2>3, Zenon
<1>3. m \in S
  BY ShrunkSelf, Zenon DEF Consistent
<1> HIDE DEF n
<1>4. n \in 0..n /\ 0 \in 0..n /\ \A i \in 0..n : i # 0 => i \in 1..n
  BY <1>2
<1>5. \A i \in 1..n : i \in 0..n /\ i # 0 /\ i - 1 \in 0..n
  BY <1>2
<1>6. R \in [0..n -> SUBSET Pools] /\ \A i \in 0..n : R[i] = S
  BY Zenon
<1>7. ASSUME NEW k \in 1..n, NEW u \in R[k - 1]
      PROVE  g[k][u] = UpdateOne(u, q[k]) /\ g[k][u] \in R[k]
  <2>1. u \in Pools /\ Shrunk(m, u)
    BY <1>5, <1>6, Zenon
  <2>2. Shrunk(m, UpdateOne(u, q[k]))
    BY <1>2, <2>1, UpdateStep, Zenon
  <2>3. UpdateOne(u, q[k]) \in Pools
    BY <2>2, Zenon DEF Shrunk, Consistent
  <2>4. g[k][u] = UpdateOne(u, q[k])
    BY <2>1, Zenon
  <2> QED
    BY <1>5, <1>6, <2>2, <2>3, <2>4, Zenon
<1> HIDE DEF g, R
<1>8. m \in R[0]
  BY <1>3, <1>4, <1>6, Zenon
<1>9. PICK h \in [0..n -> Pools] : Runs(n, m, g, R, h)
  BY <1>2, <1>6, <1>7, <1>8, LoopExists, Zenon
<1>10. Rec(h)
  <2>1. \A i \in 1..n : h[i] = UpdateOne(h[i - 1], q[i])
    BY <1>5, <1>7, <1>9, Zenon DEF Runs
  <2> QED
    BY <2>1, <1>2, <1>4, <1>9, Zenon DEF Runs
<1>11. Rec(f)
  BY <1>10, Zenon
<1> HIDE DEF f
<1>12. f[0] = m /\ \A k \in 1..n : f[k] = UpdateOne(f[k - 1], q[k])
  BY <1>4, <1>5, <1>11, Zenon
<1>13. Runs(n, m, g, R, f)
  <2>1. \A k \in 1..n : f[k - 1] \in R[k - 1] => f[k] = g[k][f[k - 1]]
    BY <1>7, <1>12, Zenon
  <2>2. \A k \in 1..n : \A u \in R[k - 1] : g[k][u] \in R[k]
    BY <1>7, Zenon
  <2> QED
    BY <1>2, <1>8, <1>12, <2>1, <2>2, LoopRuns, Zenon
<1>14. Shrunk(m, f[n])
  BY <1>4, <1>6, <1>13, Zenon DEF Runs
<1>15. Shrunk(f[n], PurgeExpiredTxs(f[n], blockHeight))
  BY <1>14, PurgeLoop, Zenon DEF Shrunk
<1> QED
  BY <1>1, <1>14, <1>15, ShrunkMore, Zenon

-----------------------------------------------------------------------------
(* The sorted elements of the pool *)

\* x comes before y by one number, or if that is the same, by another.
Sooner(a, b, x, y) == a[x] < a[y] \/ (a[x] = a[y] /\ b[x] < b[y])

\* A finite set can be sorted by one number, and among equals by another.
LEMMA Lexicographic ==
  ASSUME NEW S, IsFiniteSet(S), NEW a \in [S -> Int], NEW b \in [S -> Int],
         \A x, y \in S : b[x] = b[y] => x = y
  PROVE  \E q \in [1..Cardinality(S) -> S] : \A i, j \in DOMAIN q :
           i < j => Sooner(a, b, q[i], q[j])
<1> DEFINE Lt(x, y) == Sooner(a, b, x, y)
           R == {p \in S \X S : Lt(p[1], p[2])}
<1>1. \A x \in S : a[x] \in Int /\ b[x] \in Int
  BY Zenon
<1>2. \A x \in S : ~Lt(x, x)
  BY <1>1 DEF Sooner
<1>3. \A x, y, z \in S : Lt(x, y) /\ Lt(y, z) => Lt(x, z)
  BY <1>1 DEF Sooner
<1>4. ASSUME NEW x \in S, NEW y \in S, x # y PROVE Lt(x, y) \/ Lt(y, x)
  <2>1. b[x] # b[y]
    BY <1>4, Zenon
  <2> QED
    BY <1>1, <2>1 DEF Sooner
<1> HIDE DEF Lt
<1>5. \A x, y \in S : <<x, y>> \in R <=> Lt(x, y)
  OBVIOUS
<1> HIDE DEF R
<1>6. \A x \in S : <<x, x>> \notin R
  BY <1>2, <1>5, Zenon
<1>7. \A x, y, z \in S : <<x, y>> \in R /\ <<y, z>> \in R => <<x, z>> \in R
  BY <1>3, <1>5, Zenon
<1>8. \A x, y \in S : x # y => <<x, y>> \in R \/ <<y, x>> \in R
  BY <1>4, <1>5, Zenon
<1>9. PICK q \in [1..Cardinality(S) -> S] : \A i, j \in DOMAIN q : i < j => <<q[i], q[j]>> \in R
  <2>1. TotalOrder(S, R)
    BY <1>6, <1>7, <1>8, Zenon DEF TotalOrder
  <2> QED
    BY <2>1, SortedExists, Zenon
<1>10. \A i, j \in DOMAIN q : i < j => Lt(q[i], q[j])
  BY <1>5, <1>9, Zenon
<1> QED
  BY <1>10, Zenon DEF Lt

\* The list has as many elements as it has places.
LEMMA ListedFinite ==
  ASSUME NEW m, Sound(m.txs)
  PROVE  /\ IsFiniteSet(Listed(m)) /\ Cardinality(Listed(m)) \in Nat
         /\ Cardinality(Listed(m)) <= Size(m)
<1> DEFINE q == Elements(m.txs)
<1>1. Ordered(m, q)
  BY InList, Zenon
<1> HIDE DEF q
<1>2. Size(m) \in Nat /\ q \in [1..Size(m) -> Elems]
  BY <1>1, LenProperties, Zenon DEF Ordered
<1>3. q \in Surjection(1..Size(m), Listed(m))
  BY <1>1, <1>2, Zenon DEF Surjection, Ordered
<1>4. ExistsSurjection(1..Size(m), Listed(m))
  BY <1>3, Zenon DEF ExistsSurjection
<1> QED
  BY <1>2, <1>4, FS_NatSurjection, FS_SurjCardinalityBound, FS_CardinalityType, Zenon

\* Places in the list differ.
LEMMA Positions ==
  ASSUME NEW m, Sound(m.txs)
  PROVE  /\ \A e \in Listed(m) : Position(m, e) \in Int
         /\ \A d, e \in Listed(m) : Position(m, d) = Position(m, e) => d = e
<1> DEFINE q == Elements(m.txs)
<1>1. Ordered(m, q)
  BY InList, Zenon
<1>2. \A e \in Listed(m) : Position(m, e) \in 1..Size(m) /\ q[Position(m, e)] = e
  BY <1>1, Zenon DEF Ordered, Position
<1>3. \A i \in 1..Size(m) : i \in Int
  OBVIOUS
<1> QED
  BY <1>2, <1>3, Zenon

\* q holds n different elements of the pool.
Chosen(m, q, n) ==
  /\ n \in Nat /\ q \in Seq(Elems) /\ Len(q) = n /\ DOMAIN q = 1..n
  /\ \A i \in 1..n : q[i] \in Listed(m)
  /\ \A i, j \in 1..n : q[i] = q[j] => i = j

\* A list without repetitions of some elements of the pool.
LEMMA ChosenOf ==
  ASSUME NEW m, NEW S, S \subseteq Listed(m), NEW n \in Nat, NEW q \in [1..n -> S],
         \A i, j \in DOMAIN q : i < j => q[i] # q[j]
  PROVE  Chosen(m, q, n)
<1>1. q \in Seq(S) /\ Len(q) = n /\ DOMAIN q = 1..n
  OBVIOUS
<1>2. S \subseteq Elems
  BY Zenon DEF Listed
<1>3. q \in Seq(Elems)
  BY <1>1, <1>2
<1>4. \A i, j \in 1..n : i # j => i < j \/ j < i
  OBVIOUS
<1>5. \A i, j \in 1..n : q[i] = q[j] => i = j
  BY <1>1, <1>4, Zenon
<1>6. \A i \in 1..n : q[i] \in Listed(m)
  BY Zenon
<1> QED
  BY <1>1, <1>3, <1>5, <1>6, Zenon DEF Chosen

\* What is before what, in Victims.
Earlier(m, d, e) ==
  \/ m.wtx[d].priority < m.wtx[e].priority
  \/ m.wtx[d].priority = m.wtx[e].priority /\ Position(m, d) > Position(m, e)

LEMMA PriorityType ==
  ASSUME NEW m, Consistent(m), NEW e \in Listed(m)
  PROVE  e \in Elems /\ m.wtx[e].priority \in Int /\ m.wtx[e].height \in Nat
<1>1. m.wtx \in [Elems -> Wtxs] /\ e \in Elems
  BY FieldTypes, Zenon DEF Consistent, Listed
<1>2. m.wtx[e] \in Wtxs
  BY <1>1, Zenon
<1> QED
  BY <1>1, <1>2, Zenon DEF Wtxs

\* The victims of an eviction are different elements of the pool.
LEMMA VictimsChosen ==
  ASSUME NEW m, Consistent(m), NEW priority
  PROVE  \E n \in Nat : Chosen(m, Victims(m, priority), n)
<1> DEFINE S == {e \in Listed(m) : m.wtx[e].priority < priority}
           n == Cardinality(S)
           Good(q) == \A i, j \in DOMAIN q : i < j => Earlier(m, q[i], q[j])
           q == CHOOSE q \in [1..n -> S] : Good(q)
           a == [e \in S |-> m.wtx[e].priority]
           b == [e \in S |-> -Position(m, e)]
<1>1. Victims(m, priority) = q
  BY Zenon DEF Victims, InOrder, Earlier
<1>2. Sound(m.txs) /\ S \subseteq Listed(m)
  BY Zenon DEF Consistent
<1>3. IsFiniteSet(S) /\ n \in Nat
  BY <1>2, ListedFinite, FS_Subset, FS_CardinalityType, Zenon
<1>4. /\ \A e \in S : m.wtx[e].priority \in Int /\ Position(m, e) \in Int
      /\ \A d, e \in S : Position(m, d) = Position(m, e) => d = e
  BY <1>2, PriorityType, Positions, Zenon
<1> HIDE DEF S, n
<1>5. \A e \in S : a[e] = m.wtx[e].priority /\ b[e] = -Position(m, e)
  BY Zenon
<1>6. a \in [S -> Int] /\ b \in [S -> Int]
  <2>1. \A e \in S : -Position(m, e) \in Int
    BY <1>4
  <2> QED
    BY <1>4, <2>1, Zenon
<1> HIDE DEF a, b
<1>7. \A x, y \in S : b[x] = b[y] => x = y
  <2> SUFFICES ASSUME NEW x \in S, NEW y \in S, b[x] = b[y] PROVE x = y
    BY Zenon
  <2>1. Position(m, x) = Position(m, y)
    BY <1>4, <1>5
  <2> QED
    BY <1>4, <2>1, Zenon
<1>8. PICK s \in [1..n -> S] : \A i, j \in DOMAIN s :
        i < j => Sooner(a, b, s[i], s[j])
  BY <1>3, <1>6, <1>7, Lexicographic, Zenon DEF n
<1>9. Good(s)
  <2>1. \A d, e \in S : Sooner(a, b, d, e) => Earlier(m, d, e)
    BY <1>4, <1>5 DEF Earlier, Sooner
  <2> QED
    BY <1>8, <2>1, Zenon
<1>10. q \in [1..n -> S] /\ Good(q)
  <2> HIDE DEF Good
  <2> QED
    BY <1>9, Zenon
<1> HIDE DEF q
<1>11. \A e \in S : ~Earlier(m, e, e)
  BY <1>4 DEF Earlier
<1>12. Chosen(m, q, n)
  <2>1. \A i, j \in DOMAIN q : i < j => q[i] # q[j]
    BY <1>10, <1>11, Zenon
  <2> QED
    BY <2>1, <1>2, <1>3, <1>10, ChosenOf, Zenon
<1> QED
  BY <1>1, <1>3, <1>12, Zenon

\* allEntriesSorted has each entry once, the most important one first.
LEMMA EntriesSorted ==
  ASSUME NEW m, Consistent(m)
  PROVE  \E n \in Nat : /\ Chosen(m, AllEntriesSorted(m), n)
                        /\ \A i, j \in 1..n :
                             i < j => Earlier(m, AllEntriesSorted(m)[j], AllEntriesSorted(m)[i])
<1> DEFINE S == {m.txByKey[t] : t \in Txs} \ {Nil}
           n == Cardinality(S)
           Later(d, e) == \/ m.wtx[d].priority > m.wtx[e].priority
                          \/ m.wtx[d].priority = m.wtx[e].priority /\ Position(m, d) < Position(m, e)
           Good(q) == \A i, j \in DOMAIN q : i < j => Later(q[i], q[j])
           q == CHOOSE q \in [1..n -> S] : Good(q)
           a == [e \in S |-> -m.wtx[e].priority]
           b == [e \in S |-> Position(m, e)]
<1>1. AllEntriesSorted(m) = q
  BY Zenon DEF AllEntriesSorted, InOrder
<1>2. Sound(m.txs) /\ S \subseteq Listed(m)
  <2>1. \A t \in Txs : m.txByKey[t] # Nil => m.txByKey[t] \in Listed(m)
    BY Zenon DEF Consistent
  <2>2. S \subseteq Listed(m)
    BY <2>1, Zenon
  <2> QED
    BY <2>2, Zenon DEF Consistent
<1>3. IsFiniteSet(S) /\ n \in Nat
  BY <1>2, ListedFinite, FS_Subset, FS_CardinalityType, Zenon
<1>4. /\ \A e \in S : m.wtx[e].priority \in Int /\ Position(m, e) \in Int
      /\ \A d, e \in S : Position(m, d) = Position(m, e) => d = e
  BY <1>2, PriorityType, Positions, Zenon
<1> HIDE DEF S, n
<1>5. \A e \in S : a[e] = -m.wtx[e].priority /\ b[e] = Position(m, e)
  BY Zenon
<1>6. a \in [S -> Int] /\ b \in [S -> Int]
  <2>1. \A e \in S : -m.wtx[e].priority \in Int
    BY <1>4
  <2> QED
    BY <1>4, <2>1, Zenon
<1> HIDE DEF a, b
<1>7. \A x, y \in S : b[x] = b[y] => x = y
  BY <1>4, <1>5, Zenon
<1>8. PICK s \in [1..n -> S] : \A i, j \in DOMAIN s :
        i < j => Sooner(a, b, s[i], s[j])
  BY <1>3, <1>6, <1>7, Lexicographic, Zenon DEF n
<1>9. Good(s)
  <2>1. \A d, e \in S : Sooner(a, b, d, e) => Later(d, e)
    BY <1>4, <1>5 DEF Sooner
  <2> QED
    BY <1>8, <2>1, Zenon
<1>10. q \in [1..n -> S] /\ Good(q)
  <2> HIDE DEF Good
  <2> QED
    BY <1>9, Zenon
<1> HIDE DEF q
<1>11. \A e \in S : ~Later(e, e)
  BY <1>4
<1>12. Chosen(m, q, n)
  <2>1. \A i, j \in DOMAIN q : i < j => q[i] # q[j]
    BY <1>10, <1>11, Zenon
  <2> QED
    BY <2>1, <1>2, <1>3, <1>10, ChosenOf, Zenon
<1>13. \A d, e \in S : Later(d, e) => Earlier(m, e, d)
  BY <1>4 DEF Earlier
<1>14. \A i, j \in 1..n : i < j => Earlier(m, q[j], q[i])
  BY <1>10, <1>13, Zenon
<1> QED
  BY <1>1, <1>3, <1>12, <1>14, Zenon

-----------------------------------------------------------------------------
(* Evicting *)

\* One victim of Evict.
EvictOne(u, e, m, size) ==
  IF u.bytes >= size /\ u.m # m THEN u
  ELSE [bytes |-> u.bytes + TxSize[u.m.wtx[e].tx],
        m |-> [RemoveTxByElement(u.m, e) EXCEPT !.cache = CacheRemove(@, u.m.wtx[e].tx)]]

Evictions == [bytes : Int, m : Pools]

\* After k victims: the bytes they had are counted, t being the sums of the victims' bytes.
Evicted(m, q, n, size, t, k) ==
  {u \in Evictions :
     /\ Shrunk(m, u.m) /\ u.m.txsBytes + u.bytes = m.txsBytes
     /\ k # 0 \/ u.m # m => Size(u.m) < Size(m)
     /\ \/ u.bytes >= size /\ u.m # m
        \/ u.bytes = t[k] /\ \A j \in 1..n : j > k => q[j] \in Listed(u.m)}

\* One victim of the loop: it is taken out unless enough was evicted before.
LEMMA EvictStep ==
  ASSUME NEW m, Consistent(m), NEW q, NEW n \in Nat, Chosen(m, q, n), NEW size, NEW t,
         Sums(n, [i \in 1..n |-> TxSize[m.wtx[q[i]].tx]], t),
         NEW k \in 1..n, NEW u \in Evicted(m, q, n, size, t, k - 1)
  PROVE  EvictOne(u, q[k], m, size) \in Evicted(m, q, n, size, t, k)
<1> DEFINE e == q[k]
           tx == u.m.wtx[e].tx
           v == RemoveTxByElement(u.m, e)
           x == [v EXCEPT !.cache = CacheRemove(@, tx)]
<1>1. k # 0 /\ k > k - 1 /\ \A j \in 1..n : j > k => j > k - 1 /\ j # k
  OBVIOUS
<1>2. /\ u \in Evictions /\ Shrunk(m, u.m) /\ u.m.txsBytes + u.bytes = m.txsBytes
      /\ u.m # m => Size(u.m) < Size(m)
      /\ \/ u.bytes >= size /\ u.m # m
         \/ u.bytes = t[k - 1] /\ \A j \in 1..n : j > k - 1 => q[j] \in Listed(u.m)
  BY Zenon DEF Evicted
<1>3. u.bytes \in Int /\ u.m \in Pools
  BY <1>2, Zenon DEF Evictions
<1>4. CASE u.bytes >= size /\ u.m # m
  <2>1. u \in Evicted(m, q, n, size, t, k)
    BY <1>2, <1>4, Zenon DEF Evicted
  <2> QED
    BY <2>1, <1>4, Zenon DEF EvictOne
<1>5. CASE ~(u.bytes >= size /\ u.m # m)
  <2>1. u.bytes = t[k - 1] /\ \A j \in 1..n : j > k - 1 => q[j] \in Listed(u.m)
    BY <1>2, <1>5, Zenon
  <2>2. Consistent(u.m) /\ e \in Listed(u.m) /\ tx \in Txs
    BY <1>1, <1>2, <2>1, Zenon DEF Shrunk, Consistent
  <2>3. TakenOut(u.m, e, v)
    BY <2>2, TakeOut, Zenon
  <2>4. Shrunk(u.m, v)
    BY <2>2, <2>3, ShrunkTaken, Zenon
  <2>5. /\ Consistent(v) /\ Listed(v) = Listed(u.m) \ {e} /\ Size(v) = Size(u.m) - 1
        /\ v.txsBytes = u.m.txsBytes - TxSize[tx]
    BY <2>3, Zenon DEF TakenOut, Taken
  <2>6. Shrunk(v, x) /\ Listed(x) = Listed(v) /\ Alike(v, x)
    BY <2>2, <2>5, ShrunkRemove, Zenon
  <2>7. TxSize[tx] \in Nat
    BY <2>2, MempoolConstants, Zenon
  <2>8. tx = m.wtx[e].tx
    BY <1>2, <2>2, Zenon DEF Shrunk
  <2> HIDE DEF v, tx, x
  <2>9. Size(x) = Size(v) /\ x.txsBytes = v.txsBytes /\ Consistent(x) /\ x \in Pools
    BY <2>5, <2>6, AlikeConsistent, Zenon DEF Alike
  <2>10. Shrunk(m, x)
    BY <1>2, <2>2, <2>4, <2>6, ShrunkMore, Zenon
  <2>11. Size(x) < Size(m)
    <3>1. Size(u.m) \in Nat /\ Size(m) \in Nat
      BY <2>2, PoolNumbers, Zenon
    <3>2. Size(u.m) <= Size(m)
      BY <1>2, Zenon DEF Shrunk
    <3> QED
      BY <2>5, <2>9, <3>1, <3>2
  <2>12. u.m.txsBytes \in Int /\ m.txsBytes \in Int
    BY <2>2, PoolNumbers, Zenon
  <2>13. x.txsBytes + (u.bytes + TxSize[tx]) = m.txsBytes /\ u.bytes + TxSize[tx] \in Int
    BY <1>2, <1>3, <2>5, <2>7, <2>9, <2>12
  <2>14. u.bytes + TxSize[tx] = t[k]
    <3>1. t[k] = t[k - 1] + [i \in 1..n |-> TxSize[m.wtx[q[i]].tx]][k]
      BY Zenon DEF Sums
    <3>2. [i \in 1..n |-> TxSize[m.wtx[q[i]].tx]][k] = TxSize[tx]
      BY <2>8, Zenon
    <3> QED
      BY <2>1, <3>1, <3>2, Zenon
  <2>15. \A j \in 1..n : j > k => q[j] \in Listed(x)
    <3>1. \A j \in 1..n : j > k => q[j] # q[k]
      BY <1>1, Zenon DEF Chosen
    <3> QED
      BY <3>1, <1>1, <2>1, <2>5, <2>6, Zenon
  <2> DEFINE r == [bytes |-> u.bytes + TxSize[tx], m |-> x]
  <2>16. r.bytes = u.bytes + TxSize[tx] /\ r.m = x
    BY Zenon
  <2>17. r \in Evictions
    BY <2>9, <2>13, Zenon DEF Evictions
  <2>18. EvictOne(u, q[k], m, size) = r
    BY <1>5, Zenon DEF EvictOne, v, x, tx
  <2> HIDE DEF r
  <2> QED
    BY <2>10, <2>11, <2>13, <2>14, <2>15, <2>16, <2>17, <2>18, Zenon DEF Evicted
<1> QED
  BY <1>4, <1>5, Zenon

\* Evicting victims that together are large enough makes room for one more transaction of
\* that size.
LEMMA EvictFrees ==
  ASSUME NEW m, Consistent(m), NEW q, NEW n \in Nat, n # 0, Chosen(m, q, n), NEW size,
         size \in Nat, SizeOf(m, q) >= size
  PROVE  /\ Shrunk(m, Evict(m, q, size)) /\ Size(Evict(m, q, size)) < Size(m)
         /\ Evict(m, q, size).txsBytes + size <= m.txsBytes
<1> DEFINE w == [i \in 1..n |-> TxSize[m.wtx[q[i]].tx]]
           b == [bytes |-> 0, m |-> m]
           Rec(f) == f = [i \in 0..Len(q) |-> IF i = 0 THEN b ELSE EvictOne(f[i - 1], q[i], m, size)]
           f == CHOOSE f : Rec(f)
<1>1. Evict(m, q, size) = f[Len(q)].m
  BY Zenon DEF Evict, Loop, EvictOne
<1>2. Len(q) = n /\ \A i \in 1..n : m.wtx[q[i]].tx \in Txs
  BY Zenon DEF Chosen, Consistent
<1>3. IsSum(n, w, SizeOf(m, q))
  BY <1>2, MempoolConstants, TotalIsSum, Zenon DEF SizeOf
<1>4. PICK t : Sums(n, w, t) /\ SizeOf(m, q) = t[n]
  BY <1>3, Zenon DEF IsSum
<1> DEFINE g == [k \in 1..n |-> [u \in Evictions |-> EvictOne(u, q[k], m, size)]]
           R == [k \in 0..n |-> Evicted(m, q, n, size, t, k)]
<1>5. n \in 0..n /\ 0 \in 0..n /\ \A i \in 0..n : i # 0 => i \in 1..n
  OBVIOUS
<1>6. \A i \in 1..n : i \in 0..n /\ i # 0 /\ i - 1 \in 0..n
  OBVIOUS
<1>7. R \in [0..n -> SUBSET Evictions]
      /\ \A i \in 0..n : R[i] = Evicted(m, q, n, size, t, i) /\ R[i] \subseteq Evictions
  BY Zenon DEF Evicted
<1>8. ASSUME NEW k \in 1..n, NEW u \in R[k - 1]
      PROVE  g[k][u] = EvictOne(u, q[k], m, size) /\ g[k][u] \in R[k]
  <2>1. u \in Evicted(m, q, n, size, t, k - 1) /\ u \in Evictions
    BY <1>6, <1>7, Zenon
  <2>2. EvictOne(u, q[k], m, size) \in Evicted(m, q, n, size, t, k)
    BY <1>4, <2>1, EvictStep, Zenon
  <2>3. g[k][u] = EvictOne(u, q[k], m, size)
    BY <2>1, Zenon
  <2> QED
    BY <1>6, <1>7, <2>2, <2>3, Zenon
<1> HIDE DEF g, R, w
<1>9. b \in R[0]
  <2>1. b.bytes = 0 /\ b.m = m
    BY Zenon
  <2>2. t[0] = 0
    BY <1>4, Zenon DEF Sums
  <2>3. m \in Pools /\ m.txsBytes \in Int
    BY PoolNumbers, Zenon
  <2>4. m.txsBytes + 0 = m.txsBytes /\ 0 \in Int
    BY <2>3
  <2>5. b \in Evictions
    BY <2>3, <2>4, Zenon DEF Evictions
  <2>6. \A j \in 1..n : q[j] \in Listed(m)
    BY Zenon DEF Chosen
  <2> HIDE DEF b
  <2>7. b \in Evicted(m, q, n, size, t, 0)
    BY <2>1, <2>2, <2>4, <2>5, <2>6, ShrunkSelf, Zenon DEF Evicted
  <2> QED
    BY <1>5, <1>7, <2>7, Zenon
<1> HIDE DEF b
<1>a. \A k \in 1..n : \A u \in R[k - 1] : g[k][u] \in R[k]
  BY <1>8, Zenon
<1>10. PICK h \in [0..n -> Evictions] : Runs(n, b, g, R, h)
  BY <1>7, <1>9, <1>a, LoopExists, Zenon
<1>11. Rec(h)
  <2>1. \A i \in 1..n : h[i] = EvictOne(h[i - 1], q[i], m, size)
    BY <1>6, <1>8, <1>10, Zenon DEF Runs
  <2> QED
    BY <2>1, <1>2, <1>5, <1>10, Zenon DEF Runs
<1>12. Rec(f)
  BY <1>11, Zenon
<1> HIDE DEF f
<1>13. f[0] = b /\ \A k \in 1..n : f[k] = EvictOne(f[k - 1], q[k], m, size)
  BY <1>2, <1>5, <1>6, <1>12, Zenon
<1>14. Runs(n, b, g, R, f)
  <2>1. \A k \in 1..n : f[k - 1] \in R[k - 1] => f[k] = g[k][f[k - 1]]
    BY <1>8, <1>13, Zenon
  <2> QED
    BY <1>9, <1>13, <1>a, <2>1, LoopRuns, Zenon
<1> DEFINE r == f[n]
<1>15. r \in Evicted(m, q, n, size, t, n)
  BY <1>5, <1>7, <1>14, Zenon DEF Runs
<1> HIDE DEF r
<1>16. /\ r \in Evictions /\ Shrunk(m, r.m) /\ r.m.txsBytes + r.bytes = m.txsBytes
       /\ Size(r.m) < Size(m) /\ (r.bytes >= size \/ r.bytes = t[n])
  BY <1>15, Zenon DEF Evicted
<1>17. r.bytes \in Int /\ r.m.txsBytes \in Int /\ m.txsBytes \in Int
  BY <1>16, PoolNumbers, Zenon DEF Evictions, Shrunk
<1>18. r.bytes >= size
  BY <1>4, <1>16, Zenon
<1>19. r.m.txsBytes + size <= m.txsBytes
  BY <1>16, <1>17, <1>18
<1>20. Evict(m, q, size) = r.m
  BY <1>1, <1>2, Zenon DEF r
<1> QED
  BY <1>16, <1>19, <1>20, Zenon

-----------------------------------------------------------------------------
(* The callbacks *)

Fitting(m) == Size(m) <= MaxSize /\ m.txsBytes <= MaxTxsBytes

\* There is memory for a new element.
LEMMA FreeElemIs ==
  ASSUME Sound(mp.txs), Size(mp) <= MaxSize
  PROVE  FreeElem \in Elems /\ FreeElem \notin Listed(mp) /\ FreeElem # com.elem
<1> DEFINE L == Listed(mp)
           T == L \cup {com.elem}
<1>1. IsFiniteSet(L) /\ Cardinality(L) \in Nat /\ Cardinality(L) <= Size(mp)
  BY ListedFinite, Zenon
<1>2. Size(mp) \in Nat /\ MaxSize \in Nat
  BY InList, MempoolConstants, Zenon DEF Ordered
<1> HIDE DEF L
<1>3. IsFiniteSet(T) /\ Cardinality(T) = IF com.elem \in L THEN Cardinality(L) ELSE Cardinality(L) + 1
  BY <1>1, FS_AddElement, Zenon
<1> HIDE DEF T
<1>4. Cardinality(T) \in Nat /\ Cardinality(T) <= MaxSize + 1
  BY <1>1, <1>2, <1>3
<1>5. ASSUME Elems \in SUBSET T PROVE FALSE
  <2>1. IsFiniteSet(Elems) /\ Cardinality(Elems) <= Cardinality(T)
    BY <1>3, <1>5, FS_Subset, Zenon
  <2>2. Cardinality(Elems) \in Nat /\ Cardinality(Elems) >= MaxSize + 2
    BY <2>1, EnoughElems, FS_CardinalityType, Zenon
  <2> QED
    BY <1>2, <1>4, <2>1, <2>2
<1>6. \E e \in Elems : e \notin Listed(mp) /\ e # com.elem
  BY <1>5, Zenon DEF T, L
<1> QED
  BY <1>6, Zenon DEF FreeElem

\* n is m with w as a new element e, and perhaps without some others.
Entered(m, e, w, n) ==
  /\ Consistent(n) /\ Fitting(n)
  /\ e \in Elems /\ e \notin Listed(m) /\ e \in Listed(n) /\ n.wtx[e] = w
  /\ n.txByKey[w.tx] = e
  /\ \A x \in Listed(n) : x # e => x \in Listed(m)
  /\ \A x \in Listed(n) : x # e => n.wtx[x].tx = m.wtx[x].tx /\ n.wtx[x].height = m.wtx[x].height
  /\ \A t \in Txs : t # w.tx /\ Indexed(m, t) => Indexed(n, t)

\* Inserting into a pool with room for the transaction.
LEMMA Enters ==
  ASSUME NEW m, Consistent(m), NEW k, Shrunk(m, k), NEW e \in Elems, e \notin Listed(m),
         NEW w \in Wtxs, w.tx \in Txs, Sender[w.tx] \in Senders => m.txBySender[Sender[w.tx]] = Nil,
         Size(k) < MaxSize, TxSize[w.tx] + k.txsBytes <= MaxTxsBytes
  PROVE  Entered(m, e, w, InsertTx(k, e, w))
<1> DEFINE n == InsertTx(k, e, w)
           s == Sender[w.tx]
<1>1. Consistent(k) /\ e \notin Listed(k)
  BY Zenon DEF Shrunk
<1>2. ASSUME s \in Senders PROVE k.txBySender[s] = Nil
  <2>1. m.txBySender[s] = Nil
    BY <1>2, Zenon
  <2>2. \A x \in Elems : ~(x \in Listed(m) /\ Sender[m.wtx[x].tx] = s)
    <3>1. \A x \in Elems : m.txBySender[s] = x <=> x \in Listed(m) /\ Sender[m.wtx[x].tx] = s
      BY <1>2, Zenon DEF Consistent
    <3> QED
      BY <2>1, <3>1, NilAssumption, Zenon
  <2>3. \A x \in Elems : ~(x \in Listed(k) /\ Sender[k.wtx[x].tx] = s)
    BY <2>2, Zenon DEF Shrunk
  <2>4. \A x \in Elems : k.txBySender[s] # x
    <3>1. \A x \in Elems : k.txBySender[s] = x <=> x \in Listed(k) /\ Sender[k.wtx[x].tx] = s
      BY <1>1, <1>2, Zenon DEF Consistent
    <3> QED
      BY <2>3, <3>1, Zenon
  <2>5. k.txBySender \in [Senders -> Links]
    BY <1>1, FieldTypes, Zenon DEF Consistent
  <2>6. k.txBySender[s] \in Links
    BY <2>5, <1>2, Zenon
  <2> QED
    BY <2>4, <2>6, Zenon DEF Links
<1>3. PutIn(k, e, w, n)
  BY <1>1, <1>2, PutOneIn, Zenon
<1> HIDE DEF n, s
<1>4. /\ Consistent(n) /\ Listed(n) = Listed(k) \cup {e} /\ Size(n) = Size(k) + 1
      /\ n.txsBytes = k.txsBytes + TxSize[w.tx] /\ n.wtx[e] = w /\ n.txByKey[w.tx] = e
      /\ \A x \in Elems \ {e} : n.wtx[x] = k.wtx[x]
      /\ \A u \in Txs \ {w.tx} : n.txByKey[u] = k.txByKey[u]
  BY <1>3, Zenon DEF PutIn, Added
<1>5. Fitting(n)
  <2>1. Size(k) \in Nat /\ k.txsBytes \in Int /\ MaxSize \in Nat /\ TxSize[w.tx] \in Nat
    BY <1>1, PoolNumbers, MempoolConstants, Zenon
  <2>2. Size(n) <= MaxSize /\ n.txsBytes <= MaxTxsBytes
    BY <1>4, <2>1
  <2> QED
    BY <2>2, Zenon DEF Fitting
<1>6. \A x \in Listed(n) : x # e => x \in Listed(k) /\ x \in Elems \ {e}
  BY <1>4, Zenon DEF Listed
<1>7. \A x \in Listed(n) :
        x # e => x \in Listed(m) /\ n.wtx[x].tx = m.wtx[x].tx /\ n.wtx[x].height = m.wtx[x].height
  BY <1>4, <1>6, Zenon DEF Shrunk
<1>8. ASSUME NEW t \in Txs, t # w.tx, Indexed(m, t) PROVE Indexed(n, t)
  <2>1. Indexed(k, t)
    BY <1>8, Zenon DEF Shrunk
  <2>2. n.txByKey[t] = k.txByKey[t]
    BY <1>4, <1>8, Zenon
  <2>3. ASSUME NEW x \in Listed(n), n.wtx[x].tx = t PROVE n.txByKey[t] = x
    <3>1. x # e
      BY <1>4, <1>8, <2>3, Zenon
    <3>2. x \in Listed(k) /\ n.wtx[x] = k.wtx[x]
      BY <1>4, <1>6, <3>1, Zenon
    <3> QED
      BY <2>1, <2>2, <2>3, <3>2, Zenon DEF Indexed
  <2> QED
    BY <2>3, Zenon DEF Indexed
<1>9. e \in Listed(n)
  BY <1>4, Zenon
<1> QED
  BY <1>4, <1>5, <1>7, <1>8, <1>9, Zenon DEF Entered, n

\* What initialTxCallback makes of the pool.
LEMMA InitialTxFields ==
  ASSUME Consistent(mp), Fitting(mp), NEW w \in Wtxs, w.tx \in Txs, NEW ok
  PROVE  \/ Shrunk(mp, InitialTxCallback(mp, w, ok))
         \/ PostCheckMaxGas(w.tx) /\ \E e \in Elems : Entered(mp, e, w, InitialTxCallback(mp, w, ok))
<1> DEFINE n == InitialTxCallback(mp, w, ok)
           v == Victims(mp, w.priority)
           size == TxSize[w.tx]
           s == Sender[w.tx]
<1>1. Sound(mp.txs) /\ Size(mp) <= MaxSize /\ mp.txsBytes <= MaxTxsBytes
  BY Zenon DEF Consistent, Fitting
<1>2. FreeElem \in Elems /\ FreeElem \notin Listed(mp)
  BY <1>1, FreeElemIs, Zenon
<1>3. size \in Nat /\ MaxTxsBytes \in Nat /\ MaxSize \in Nat
  BY MempoolConstants, Zenon
<1>4. CASE ~ok \/ ~PostCheckMaxGas(w.tx)
  BY <1>4, ShrunkForget, Zenon DEF InitialTxCallback
<1>5. CASE ok /\ PostCheckMaxGas(w.tx) /\ s \in Senders /\ mp.txBySender[s] # Nil
  BY <1>5, ShrunkSelf, Zenon DEF InitialTxCallback
<1>6. CASE /\ ok /\ PostCheckMaxGas(w.tx) /\ (s \in Senders => mp.txBySender[s] = Nil)
           /\ CanAddTx(mp, w.tx)
  <2>1. n = InsertTx(mp, FreeElem, w)
    BY <1>6, Zenon DEF InitialTxCallback
  <2>2. Entered(mp, FreeElem, w, InsertTx(mp, FreeElem, w))
    BY <1>2, <1>6, ShrunkSelf, Enters, Zenon DEF CanAddTx
  <2> QED
    BY <1>2, <1>6, <2>1, <2>2, Zenon
<1>7. CASE /\ ok /\ PostCheckMaxGas(w.tx) /\ (s \in Senders => mp.txBySender[s] = Nil)
           /\ ~CanAddTx(mp, w.tx)
  <2>1. CASE v = <<>> \/ SizeOf(mp, v) < size
    BY <1>7, <2>1, ShrunkRemove, Zenon DEF InitialTxCallback
  <2>2. CASE ~(v = <<>> \/ SizeOf(mp, v) < size)
    <3> DEFINE k == Evict(mp, v, size)
    <3>1. n = InsertTx(k, FreeElem, w)
      BY <1>7, <2>2, Zenon DEF InitialTxCallback
    <3>2. PICK j \in Nat : Chosen(mp, v, j)
      BY VictimsChosen, Zenon
    <3> HIDE DEF v
    <3>3. v \in Seq(Elems) /\ Len(v) = j /\ v # <<>>
      BY <2>2, <3>2, Zenon DEF Chosen
    <3>4. j # 0
      BY <3>3
    <3>5. SizeOf(mp, v) >= size
      <4>1. IsSum(j, [i \in 1..j |-> TxSize[mp.wtx[v[i]].tx]], SizeOf(mp, v))
        <5>1. \A i \in 1..j : mp.wtx[v[i]].tx \in Txs
          BY <3>2, Zenon DEF Chosen, Consistent
        <5> QED
          BY <3>3, <5>1, MempoolConstants, TotalIsSum, Zenon DEF SizeOf
      <4>2. SizeOf(mp, v) \in Int
        BY <4>1 DEF IsSum, Sums
      <4> QED
        BY <4>2, <2>2, <1>3
    <3> HIDE DEF size
    <3>6. Shrunk(mp, k) /\ Size(k) < Size(mp) /\ k.txsBytes + size <= mp.txsBytes
      BY <1>3, <3>2, <3>4, <3>5, EvictFrees, Zenon
    <3>7. Consistent(k)
      BY <3>6, Zenon DEF Shrunk
    <3> HIDE DEF k
    <3>8. Size(k) \in Nat /\ k.txsBytes \in Int /\ Size(mp) \in Nat /\ mp.txsBytes \in Int
      BY <3>7, PoolNumbers, Zenon
    <3>9. Size(k) < MaxSize /\ size + k.txsBytes <= MaxTxsBytes
      BY <1>1, <1>3, <3>6, <3>8
    <3>10. Entered(mp, FreeElem, w, InsertTx(k, FreeElem, w))
      BY <1>2, <1>7, <3>6, <3>9, Enters, Zenon DEF size
    <3> QED
      BY <1>2, <1>7, <3>1, <3>10, Zenon
  <2> QED
    BY <2>1, <2>2, Zenon
<1> QED
  BY <1>4, <1>5, <1>6, <1>7, Zenon

\* What recheckTxCallback makes of the pool.
LEMMA RecheckTxFields ==
  ASSUME NEW m, Consistent(m), NEW t \in Txs, NEW ok, NEW priority \in Int
  PROVE  Shrunk(m, RecheckTxCallback(m, t, ok, priority))
<1> DEFINE e == m.txByKey[t]
<1>1. CASE e = Nil
  BY <1>1, ShrunkSelf, Zenon DEF RecheckTxCallback
<1>2. CASE e # Nil /\ ok /\ PostCheckMaxGas(t)
  <2> DEFINE r == [m.wtx[e] EXCEPT !.priority = priority]
             n == [m EXCEPT !.wtx[e].priority = priority]
  <2>1. RecheckTxCallback(m, t, ok, priority) = n
    BY <1>2, Zenon DEF RecheckTxCallback
  <2>2. m \in Pools /\ e \in Elems /\ m.wtx \in [Elems -> Wtxs]
    BY <1>2, FieldTypes, Zenon DEF Consistent, Listed
  <2>3. m.wtx[e] \in Wtxs
    BY <2>2, Zenon
  <2>4. r \in Wtxs /\ r.tx = m.wtx[e].tx /\ r.height = m.wtx[e].height
    BY <2>3, Zenon DEF Wtxs
  <2>5. n = [m EXCEPT !.wtx = [m.wtx EXCEPT ![e] = r]]
    BY Zenon
  <2> HIDE DEF n, r, e
  <2>6. /\ n.txs = m.txs /\ n.txByKey = m.txByKey /\ n.txBySender = m.txBySender
        /\ n.txsBytes = m.txsBytes /\ n.cache = m.cache /\ n.wtx = [m.wtx EXCEPT ![e] = r]
    BY <2>2, <2>5, Zenon DEF Pools
  <2>7. n = [x \in PoolFields |-> n[x]]
    BY <2>2, <2>5, PoolFieldsOf, Zenon
  <2>8. /\ n.wtx \in [Elems -> Wtxs] /\ n.wtx[e] = r
        /\ \A x \in Elems : x # e => n.wtx[x] = m.wtx[x]
    BY <2>2, <2>4, <2>6, Zenon
  <2>9. n \in Pools
    BY <2>2, <2>6, <2>7, <2>8, FieldTypes, PoolOfFields, Zenon
  <2>10. \A x \in Elems : n.wtx[x].tx = m.wtx[x].tx /\ n.wtx[x].height = m.wtx[x].height
    BY <2>4, <2>8, Zenon
  <2>11. Alike(m, n)
    BY <2>6, <2>9, <2>10, Zenon DEF Alike
  <2> QED
    BY <2>1, <2>11, ShrunkAlike, Zenon
<1>3. CASE e # Nil /\ ~(ok /\ PostCheckMaxGas(t))
  <2> DEFINE v == RemoveTxByElement(m, e)
  <2>1. RecheckTxCallback(m, t, ok, priority) = ForgetInvalid(v, t)
    BY <1>3, Zenon DEF RecheckTxCallback
  <2>2. e \in Listed(m)
    BY <1>3, Zenon DEF Consistent
  <2>3. Shrunk(m, v)
    BY <2>2, TakeOut, ShrunkTaken, Zenon
  <2>4. Consistent(v)
    BY <2>3, Zenon DEF Shrunk
  <2>5. Shrunk(v, ForgetInvalid(v, t))
    BY <2>4, ShrunkForget, Zenon
  <2> QED
    BY <2>1, <2>3, <2>5, ShrunkMore, Zenon
<1> QED
  BY <1>1, <1>2, <1>3, Zenon
=============================================================================
