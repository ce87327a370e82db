----------------------------- MODULE CListProofs -----------------------------
(***************************************************************************)
(* Proofs about the linked list of the mempool: for lists of every length, *)
(* inserting and removing keep the pointers those of a sequence, wake      *)
(* exactly the readers that may go on and do not panic.                    *)
(***************************************************************************)
EXTENDS CList, SequenceTheorems, WellFoundedInduction, TLAPS

\* A set of natural numbers that is not empty has a least element.
LEMMA Least ==
  ASSUME NEW T, T \subseteq Nat, T # {}
  PROVE  \E x \in T : \A y \in T : x <= y
<1>1. PICK x \in T : \A y \in T : ~(<<y, x>> \in OpToRel(<, Nat))
  BY NatLessThanWellFounded, WFMin, Zenon
<1>2. ASSUME NEW y \in T PROVE x <= y
  <2>1. x \in Nat /\ y \in Nat
    BY <1>1, Zenon
  <2>2. y < x => <<y, x>> \in OpToRel(<, Nat)
    BY <2>1, Zenon DEF OpToRel
  <2>3. ~(y < x)
    BY <1>1, <2>2, Zenon
  <2> QED
    BY <2>1, <2>3
<1> QED
  BY <1>2, Zenon

-----------------------------------------------------------------------------
(* The linked list: following the pointers gives the sequence they stand for. *)

Links == Elems \cup {Nil}

Lists ==
  [head : Links, tail : Links, len : Nat, wg : Int, next : [Elems -> Links],
   prev : [Elems -> Links], nextWg : [Elems -> Int], prevWg : [Elems -> Int],
   removed : SUBSET Elems]

\* What Walk has seen of s after i steps, and where it is.
Walked(s, i) ==
  IF i < Len(s) THEN [at |-> s[i + 1], seen |-> SubSeq(s, 1, i)]
                ELSE [at |-> Nil, seen |-> s]

LEMMA WalkedSteps ==
  ASSUME NEW l \in Lists, NEW s \in Seq(Elems), IsListOf(l, s), NEW i \in Nat
  PROVE  /\ Walked(s, 0) = [at |-> l.head, seen |-> <<>>]
         /\ Walked(s, i + 1) = Follow(l, Walked(s, i))
<1>0. Len(s) \in Nat /\ \A k \in 1..Len(s) : s[k] \in Elems /\ s[k] # Nil
  BY NilAssumption
<1>1. Walked(s, 0) = [at |-> l.head, seen |-> <<>>]
  <2>1. CASE Len(s) = 0
    <3>1. s = <<>>
      BY <2>1
    <3> QED
      BY <2>1, <3>1 DEF Walked, IsListOf
  <2>2. CASE Len(s) # 0
    <3>1. SubSeq(s, 1, 0) = <<>>
      BY SubSeqEmpty
    <3> QED
      BY <1>0, <2>2, <3>1 DEF Walked, IsListOf
  <2> QED
    BY <2>1, <2>2, Zenon
<1>2. CASE i >= Len(s)
  <2>1. ~(i < Len(s)) /\ ~(i + 1 < Len(s))
    BY <1>0, <1>2
  <2>2. /\ Walked(s, i) = [at |-> Nil, seen |-> s]
        /\ Walked(s, i + 1) = [at |-> Nil, seen |-> s]
    BY <2>1, Zenon DEF Walked
  <2>3. Walked(s, i).at = Nil
    BY <2>2
  <2> QED
    BY <1>1, <2>2, <2>3, Zenon DEF Follow
<1>3. CASE i < Len(s)
  <2>1. /\ Walked(s, i).at = s[i + 1] /\ Walked(s, i).seen = SubSeq(s, 1, i)
        /\ i + 1 \in 1..Len(s) /\ s[i + 1] # Nil
    BY <1>0, <1>3 DEF Walked
  <2>2. SubSeq(s, 1, i + 1) = Append(SubSeq(s, 1, i), s[i + 1])
    <3>1. SubSeq(s, 1, i + 1) = SubSeq(s, 1, i) \o <<s[i + 1]>>
      BY <1>0, <1>3, SubSeqRecursiveSecond
    <3>2. SubSeq(s, 1, i) \in Seq(Elems) /\ s[i + 1] \in Elems
      BY <1>0, <1>3
    <3> QED
      BY <3>1, <3>2, AppendIsConcat, Zenon
  <2>3. l.next[s[i + 1]] = IF i + 1 = Len(s) THEN Nil ELSE s[i + 2]
    BY <1>0, <2>1 DEF IsListOf
  <2>4. Follow(l, Walked(s, i)) = [at |-> l.next[s[i + 1]], seen |-> SubSeq(s, 1, i + 1)]
    BY <2>1, <2>2, Zenon DEF Follow
  <2>5. CASE i + 1 < Len(s)
    <3>1. l.next[s[i + 1]] = s[(i + 1) + 1]
      BY <1>0, <2>3, <2>5
    <3> QED
      BY <1>1, <2>4, <2>5, <3>1, Zenon DEF Walked
  <2>6. CASE i + 1 = Len(s)
    <3>1. SubSeq(s, 1, i + 1) = s
      BY <2>6, SubSeqFull, Zenon
    <3>2. ~(i + 1 < Len(s)) /\ l.next[s[i + 1]] = Nil
      BY <1>0, <2>3, <2>6
    <3> QED
      BY <1>1, <2>4, <3>1, <3>2, Zenon DEF Walked
  <2> QED
    BY <1>0, <1>3, <2>5, <2>6
<1> QED
  BY <1>0, <1>2, <1>3

\* The walk of clist.go's readers along next meets the elements of s, in order, and ends.
LEMMA ElementsOf ==
  ASSUME NEW l \in Lists, NEW s \in Seq(Elems), IsListOf(l, s)
  PROVE  Elements(l) = s
<1> DEFINE n == l.len + 1
           Rec(f) == f = [i \in 0..n |-> IF i = 0 THEN [at |-> l.head, seen |-> <<>>] ELSE Follow(l, f[i - 1])]
           g == [i \in 0..n |-> Walked(s, i)]
           step == CHOOSE f : Rec(f)
<1>0. l.len \in Nat /\ n \in Nat /\ Len(s) = l.len
  BY DEF Lists, IsListOf
<1>1. \A i \in 0..n : i # 0 => i - 1 \in 0..n /\ i - 1 \in Nat /\ (i - 1) + 1 = i
  BY <1>0
<1>2. Rec(g)
  <2>1. ASSUME NEW i \in 0..n
        PROVE  Walked(s, i) = IF i = 0 THEN [at |-> l.head, seen |-> <<>>] ELSE Follow(l, g[i - 1])
    <3>1. CASE i = 0
      BY <3>1, WalkedSteps, Zenon
    <3>2. CASE i # 0
      <4>1. g[i - 1] = Walked(s, i - 1)
        BY <1>1, <3>2, Zenon
      <4>2. Walked(s, (i - 1) + 1) = Follow(l, Walked(s, i - 1))
        BY <1>1, <3>2, WalkedSteps, Zenon
      <4> QED
        BY <1>1, <3>2, <4>1, <4>2, Zenon
    <3> QED
      BY <3>1, <3>2, Zenon
  <2> QED
    BY <2>1, Zenon
<1>3. Rec(step)
  BY <1>2, Zenon
<1> HIDE DEF step
<1>4. \A i \in 0..n : step[i] = Walked(s, i)
  <2> DEFINE T == {i \in 0..n : step[i] # Walked(s, i)}
  <2>1. SUFFICES ASSUME T # {} PROVE FALSE
    BY Zenon
  <2>2. T \subseteq Nat
    BY <1>0
  <2> HIDE DEF T
  <2>3. PICK i \in T : \A j \in T : i <= j
    BY <2>1, <2>2, Least, Zenon
  <2>4. i \in 0..n /\ step[i] # Walked(s, i)
    BY <2>3, Zenon DEF T
  <2>5. i # 0
    BY <1>3, <2>4, WalkedSteps, Zenon
  <2>6. step[i - 1] = Walked(s, i - 1)
    <3>1. ~(i <= i - 1)
      BY <1>0, <2>4
    <3> QED
      BY <1>1, <2>3, <2>4, <2>5, <3>1, Zenon DEF T
  <2>7. step[i] = Follow(l, step[i - 1])
    BY <1>3, <2>4, <2>5, Zenon
  <2>8. Walked(s, (i - 1) + 1) = Follow(l, Walked(s, i - 1))
    BY <1>1, <2>4, <2>5, WalkedSteps, Zenon
  <2> QED
    BY <1>1, <2>4, <2>5, <2>6, <2>7, <2>8, Zenon
<1>5. step[n].seen = s
  <2>1. n \in 0..n /\ ~(n < Len(s))
    BY <1>0
  <2>2. step[n] = [at |-> Nil, seen |-> s]
    BY <1>4, <2>1, Zenon DEF Walked
  <2> QED
    BY <2>2
<1> QED
  BY <1>5, Zenon DEF Elements, Walk, step

-----------------------------------------------------------------------------
(* The linked list: what PushBack and Remove do to each field. *)

Fields == {"head", "tail", "len", "wg", "next", "prev", "nextWg", "prevWg", "removed"}

LEMMA FieldsOf == ASSUME NEW l \in Lists PROVE DOMAIN l = Fields
  BY Zenon DEF Lists, Fields

LEMMA ListOfFields ==
  ASSUME NEW m, m = [x \in Fields |-> m[x]], m.head \in Links, m.tail \in Links,
         m.len \in Nat,
         m.wg \in Int, m.next \in [Elems -> Links], m.prev \in [Elems -> Links],
         m.nextWg \in [Elems -> Int], m.prevWg \in [Elems -> Int], m.removed \in SUBSET Elems
  PROVE  m \in Lists
  BY Zenon DEF Lists, Fields

\* m is l after e's pointer to the next element became new.
NextIs(l, e, new, m) ==
  /\ m \in Lists
  /\ m.head = l.head /\ m.tail = l.tail /\ m.len = l.len /\ m.wg = l.wg
  /\ m.removed = l.removed /\ m.prev = l.prev /\ m.prevWg = l.prevWg
  /\ m.next[e] = new /\ m.nextWg[e] = Rewait(l.nextWg[e], l.next[e], new)
  /\ \A x \in Elems \ {e} : m.next[x] = l.next[x] /\ m.nextWg[x] = l.nextWg[x]

LEMMA SetNextFields ==
  ASSUME NEW l \in Lists, NEW e \in Elems, NEW new \in Links
  PROVE  NextIs(l, e, new, SetNext(l, e, new))
<1> DEFINE m == SetNext(l, e, new)
           wait == Rewait(l.nextWg[e], l.next[e], new)
<1>1. m = [l EXCEPT !.next[e] = new, !.nextWg[e] = Rewait(@, l.next[e], new)]
  BY Zenon DEF SetNext
<1>2. wait \in Int
  BY DEF Lists, Rewait
<1> HIDE DEF m, wait
<1>3. /\ m.head = l.head /\ m.tail = l.tail /\ m.len = l.len /\ m.wg = l.wg
      /\ m.removed = l.removed /\ m.prev = l.prev /\ m.prevWg = l.prevWg
  BY <1>1, Zenon DEF Lists
<1>4. /\ m.next = [l.next EXCEPT ![e] = new] /\ m.nextWg = [l.nextWg EXCEPT ![e] = wait]
  BY <1>1, Zenon DEF Lists, wait
<1>5. m = [x \in Fields |-> m[x]]
  BY <1>1, FieldsOf, Zenon
<1>6. m.next \in [Elems -> Links] /\ m.nextWg \in [Elems -> Int]
  BY <1>2, <1>4 DEF Lists
<1>7. m \in Lists
  BY <1>3, <1>5, <1>6, ListOfFields, Zenon DEF Lists
<1>8. /\ m.next[e] = new /\ m.nextWg[e] = wait
      /\ \A x \in Elems \ {e} : m.next[x] = l.next[x] /\ m.nextWg[x] = l.nextWg[x]
  BY <1>4, Zenon DEF Lists
<1> QED
  BY <1>3, <1>7, <1>8, Zenon DEF NextIs, m, wait

\* m is l after e's pointer to the previous element became new.
PrevIs(l, e, new, m) ==
  /\ m \in Lists
  /\ m.head = l.head /\ m.tail = l.tail /\ m.len = l.len /\ m.wg = l.wg
  /\ m.removed = l.removed /\ m.next = l.next /\ m.nextWg = l.nextWg
  /\ m.prev[e] = new /\ m.prevWg[e] = Rewait(l.prevWg[e], l.prev[e], new)
  /\ \A x \in Elems \ {e} : m.prev[x] = l.prev[x] /\ m.prevWg[x] = l.prevWg[x]

LEMMA SetPrevFields ==
  ASSUME NEW l \in Lists, NEW e \in Elems, NEW new \in Links
  PROVE  PrevIs(l, e, new, SetPrev(l, e, new))
<1> DEFINE m == SetPrev(l, e, new)
           wait == Rewait(l.prevWg[e], l.prev[e], new)
<1>1. m = [l EXCEPT !.prev[e] = new, !.prevWg[e] = Rewait(@, l.prev[e], new)]
  BY Zenon DEF SetPrev
<1>2. wait \in Int
  BY DEF Lists, Rewait
<1> HIDE DEF m, wait
<1>3. /\ m.head = l.head /\ m.tail = l.tail /\ m.len = l.len /\ m.wg = l.wg
      /\ m.removed = l.removed /\ m.next = l.next /\ m.nextWg = l.nextWg
  BY <1>1, Zenon DEF Lists
<1>4. /\ m.prev = [l.prev EXCEPT ![e] = new] /\ m.prevWg = [l.prevWg EXCEPT ![e] = wait]
  BY <1>1, Zenon DEF Lists, wait
<1>5. m = [x \in Fields |-> m[x]]
  BY <1>1, FieldsOf, Zenon
<1>6. m.prev \in [Elems -> Links] /\ m.prevWg \in [Elems -> Int]
  BY <1>2, <1>4 DEF Lists
<1>7. m \in Lists
  BY <1>3, <1>5, <1>6, ListOfFields, Zenon DEF Lists
<1>8. /\ m.prev[e] = new /\ m.prevWg[e] = wait
      /\ \A x \in Elems \ {e} : m.prev[x] = l.prev[x] /\ m.prevWg[x] = l.prevWg[x]
  BY <1>4, Zenon DEF Lists
<1> QED
  BY <1>3, <1>7, <1>8, Zenon DEF PrevIs, m, wait

\* m is l with e behind its tail.
Pushed(l, e, m) ==
  /\ m \in Lists
  /\ m.head = IF l.tail = Nil THEN e ELSE l.head
  /\ m.tail = e /\ m.len = l.len + 1 /\ m.removed = l.removed \ {e}
  /\ m.wg = IF l.len = 0 THEN l.wg - 1 ELSE l.wg
  /\ m.next[e] = Nil /\ m.nextWg[e] = 1
  /\ m.prev[e] = l.tail /\ m.prevWg[e] = IF l.tail = Nil THEN 1 ELSE 0
  /\ l.tail # Nil => /\ m.next[l.tail] = e
                     /\ m.nextWg[l.tail] = Rewait(l.nextWg[l.tail], l.next[l.tail], e)
  /\ \A x \in Elems \ {e} :
       /\ m.prev[x] = l.prev[x] /\ m.prevWg[x] = l.prevWg[x]
       /\ x # l.tail => m.next[x] = l.next[x] /\ m.nextWg[x] = l.nextWg[x]

LEMMA PushBackFields ==
  ASSUME NEW l \in Lists, NEW e \in Elems, l.tail # e
  PROVE  Pushed(l, e, PushBack(l, e))
<1> DEFINE fresh == [l EXCEPT !.removed = @ \ {e}, !.next[e] = Nil, !.prev[e] = Nil,
                              !.nextWg[e] = 1, !.prevWg[e] = 1,
                              !.wg = IF l.len = 0 THEN @ - 1 ELSE @,
                              !.len = @ + 1]
           m == PushBack(l, e)
<1>0. /\ l.head \in Links /\ l.tail \in Links /\ l.len \in Nat /\ l.wg \in Int
      /\ l.next \in [Elems -> Links] /\ l.prev \in [Elems -> Links]
      /\ l.nextWg \in [Elems -> Int] /\ l.prevWg \in [Elems -> Int]
      /\ l.removed \in SUBSET Elems
      /\ Nil \in Links /\ Nil # e /\ e \in Links
      /\ l.tail # Nil => l.tail \in Elems
  BY NilAssumption, Zenon DEF Lists, Links
<1>1. /\ fresh.removed = l.removed \ {e} /\ fresh.len = l.len + 1
      /\ fresh.wg = (IF l.len = 0 THEN l.wg - 1 ELSE l.wg)
      /\ fresh.head = l.head /\ fresh.tail = l.tail
  BY Zenon DEF Lists
<1>2. /\ fresh.next = [l.next EXCEPT ![e] = Nil] /\ fresh.prev = [l.prev EXCEPT ![e] = Nil]
      /\ fresh.nextWg = [l.nextWg EXCEPT ![e] = 1]
      /\ fresh.prevWg = [l.prevWg EXCEPT ![e] = 1]
  BY Zenon DEF Lists
<1>3. fresh = [x \in Fields |-> fresh[x]]
  BY FieldsOf, Zenon
<1>4. m = IF l.tail = Nil THEN [fresh EXCEPT !.head = e, !.tail = e]
          ELSE [SetNext(SetPrev(fresh, e, l.tail), l.tail, e) EXCEPT !.tail = e]
  BY Zenon DEF PushBack
<1> HIDE DEF fresh, m
<1>5. fresh \in Lists
  <2>1. /\ fresh.next \in [Elems -> Links] /\ fresh.prev \in [Elems -> Links]
        /\ fresh.nextWg \in [Elems -> Int] /\ fresh.prevWg \in [Elems -> Int]
    BY <1>0, <1>2
  <2>2. /\ fresh.removed \in SUBSET Elems /\ fresh.len \in Nat /\ fresh.wg \in Int
        /\ fresh.head \in Links /\ fresh.tail \in Links
    BY <1>0, <1>1
  <2> QED
    BY <1>3, <2>1, <2>2, ListOfFields, Zenon
<1>6. CASE l.tail = Nil
  <2>1. m = [fresh EXCEPT !.head = e, !.tail = e]
    BY <1>4, <1>6, Zenon
  <2>2. /\ m.head = e /\ m.tail = e /\ m.len = fresh.len /\ m.removed = fresh.removed
        /\ m.wg = fresh.wg /\ m.next = fresh.next /\ m.prev = fresh.prev
        /\ m.nextWg = fresh.nextWg /\ m.prevWg = fresh.prevWg
    BY <1>5, <2>1, Zenon DEF Lists
  <2>3. m \in Lists
    BY <1>0, <1>5, <2>1, Zenon DEF Lists
  <2>4. /\ m.next[e] = Nil /\ m.nextWg[e] = 1 /\ m.prev[e] = Nil /\ m.prevWg[e] = 1
        /\ \A x \in Elems \ {e} :
              /\ m.prev[x] = l.prev[x] /\ m.prevWg[x] = l.prevWg[x]
              /\ m.next[x] = l.next[x] /\ m.nextWg[x] = l.nextWg[x]
    BY <1>0, <1>2, <2>2
  <2> QED
    BY <1>1, <1>6, <2>2, <2>3, <2>4, Zenon DEF m, Pushed
<1>7. CASE l.tail # Nil
  <2> DEFINE first == SetPrev(fresh, e, l.tail)
             second == SetNext(first, l.tail, e)
  <2>0. l.tail \in Elems
    BY <1>0, <1>7, Zenon
  <2>1. fresh.prev[e] = Nil /\ fresh.prevWg[e] = 1 /\ 1 - 1 = 0
    BY <1>0, <1>2
  <2>2. Rewait(fresh.prevWg[e], fresh.prev[e], l.tail) = 0
    BY <1>7, <2>1, Zenon DEF Rewait
  <2>3. /\ first \in Lists
        /\ first.head = fresh.head /\ first.len = fresh.len /\ first.wg = fresh.wg
        /\ first.removed = fresh.removed /\ first.next = fresh.next
        /\ first.nextWg = fresh.nextWg
        /\ first.prev[e] = l.tail
        /\ first.prevWg[e] = Rewait(fresh.prevWg[e], fresh.prev[e], l.tail)
        /\ \A x \in Elems \ {e} : first.prev[x] = fresh.prev[x] /\ first.prevWg[x] = fresh.prevWg[x]
    <3>1. l.tail \in Links
      BY <1>0, Zenon
    <3>2. PrevIs(fresh, e, l.tail, first)
      BY <1>5, <3>1, SetPrevFields, Zenon
    <3> HIDE DEF first
    <3> QED
      BY <3>2, Zenon DEF PrevIs
  <2> HIDE DEF first
  <2>4. /\ second \in Lists
        /\ second.head = first.head /\ second.len = first.len /\ second.wg = first.wg
        /\ second.removed = first.removed /\ second.prev = first.prev
        /\ second.prevWg = first.prevWg
        /\ second.next[l.tail] = e
        /\ second.nextWg[l.tail] = Rewait(first.nextWg[l.tail], first.next[l.tail], e)
        /\ \A x \in Elems \ {l.tail} :
             second.next[x] = first.next[x] /\ second.nextWg[x] = first.nextWg[x]
    <3>1. first \in Lists /\ e \in Links
      BY <1>0, <2>3, Zenon
    <3>2. NextIs(first, l.tail, e, second)
      BY <2>0, <3>1, SetNextFields, Zenon
    <3> HIDE DEF second
    <3> QED
      BY <3>2, Zenon DEF NextIs
  <2>5. m = [second EXCEPT !.tail = e]
    BY <1>4, <1>7, Zenon DEF first
  <2> HIDE DEF second
  <2>6. /\ /\ m.head = second.head /\ m.tail = e /\ m.len = second.len
        /\ m.removed = second.removed
        /\ m.wg = second.wg /\ m.next = second.next /\ m.prev = second.prev
        /\ m.nextWg = second.nextWg /\ m.prevWg = second.prevWg
    BY <2>4, <2>5, Zenon DEF Lists
  <2>7. m \in Lists
    BY <1>0, <2>4, <2>5, Zenon DEF Lists
  <2>8. /\ fresh.next[e] = Nil /\ fresh.nextWg[e] = 1
        /\ \A x \in Elems \ {e} : /\ fresh.prev[x] = l.prev[x] /\ fresh.prevWg[x] = l.prevWg[x]
                                  /\ fresh.next[x] = l.next[x]
                                  /\ fresh.nextWg[x] = l.nextWg[x]
    BY <1>0, <1>2, Zenon
  <2>9. /\ m.head = l.head /\ m.tail = e /\ m.len = l.len + 1 /\ m.removed = l.removed \ {e}
        /\ m.wg = IF l.len = 0 THEN l.wg - 1 ELSE l.wg
    <3>1. /\ /\ m.head = fresh.head /\ m.len = fresh.len /\ m.wg = fresh.wg
          /\ m.removed = fresh.removed
      BY <2>3, <2>4, <2>6, Zenon
    <3> QED
      BY <1>1, <2>6, <3>1, Zenon
  <2>10. /\ m.prev[e] = l.tail /\ m.prevWg[e] = 0
         /\ \A x \in Elems \ {e} : m.prev[x] = l.prev[x] /\ m.prevWg[x] = l.prevWg[x]
    BY <2>2, <2>3, <2>4, <2>6, <2>8
  <2>11. /\ m.next[l.tail] = e
         /\ m.nextWg[l.tail] = Rewait(l.nextWg[l.tail], l.next[l.tail], e)
    <3>1. fresh.nextWg[l.tail] = l.nextWg[l.tail] /\ fresh.next[l.tail] = l.next[l.tail]
      BY <2>0, <2>8, Zenon
    <3> QED
      BY <2>3, <2>4, <2>6, <3>1, Zenon
  <2>12. /\ m.next[e] = Nil /\ m.nextWg[e] = 1
         /\ \A x \in Elems \ {e} : x # l.tail => m.next[x] = l.next[x] /\ m.nextWg[x] = l.nextWg[x]
    BY <2>3, <2>4, <2>6, <2>8
  <2> QED
    BY <1>7, <2>7, <2>9, <2>10, <2>11, <2>12, Zenon DEF m, Pushed
<1> QED
  BY <1>6, <1>7, Zenon DEF Pushed, m

\* How the mempool removes an element (removeTxByElement): Remove, DetachPrev, DetachNext.
Unlink(l, e) == DetachNext(DetachPrev(ListRemove(l, e), e), e)

\* m is l after e was marked removed and gave up its own pointers.
Released(l, e, m) ==
  /\ m \in Lists
  /\ m.head = l.head /\ m.tail = l.tail /\ m.len = l.len /\ m.wg = l.wg
  /\ m.removed = l.removed \cup {e} /\ m.next[e] = Nil
  /\ \A x \in Elems \ {e} : /\ m.next[x] = l.next[x] /\ m.nextWg[x] = l.nextWg[x]
                            /\ m.prev[x] = l.prev[x] /\ m.prevWg[x] = l.prevWg[x]

LEMMA SetRemovedFields ==
  ASSUME NEW l \in Lists, NEW e \in Elems
  PROVE  Released(l, e, DetachNext(DetachPrev(SetRemoved(l, e), e), e))
<1> DEFINE k == SetRemoved(l, e)
           n == DetachPrev(k, e)
           m == DetachNext(n, e)
           p == IF l.prev[e] = Nil THEN l.prevWg[e] - 1 ELSE l.prevWg[e]
           q == IF l.next[e] = Nil THEN l.nextWg[e] - 1 ELSE l.nextWg[e]
<1>0. /\ l.head \in Links /\ l.tail \in Links /\ l.len \in Nat /\ l.wg \in Int
      /\ l.next \in [Elems -> Links] /\ l.prev \in [Elems -> Links]
      /\ l.nextWg \in [Elems -> Int] /\ l.prevWg \in [Elems -> Int]
      /\ l.removed \in SUBSET Elems
      /\ Nil \in Links
  BY Zenon DEF Lists, Links
<1>1. p \in Int /\ q \in Int
  BY <1>0
<1>2. k = [l EXCEPT !.removed = @ \cup {e}, !.prevWg[e] = IF l.prev[e] = Nil THEN @ - 1 ELSE @,
                    !.nextWg[e] = IF l.next[e] = Nil THEN @ - 1 ELSE @]
  BY Zenon DEF SetRemoved
<1>3. n = [k EXCEPT !.prev[e] = Nil] /\ m = [n EXCEPT !.next[e] = Nil]
  BY Zenon DEF DetachPrev, DetachNext
<1> HIDE DEF k, n, m
<1>4. /\ k.head = l.head /\ k.tail = l.tail /\ k.len = l.len /\ k.wg = l.wg
      /\ k.removed = l.removed \cup {e} /\ k.next = l.next /\ k.prev = l.prev
      /\ k.prevWg = [l.prevWg EXCEPT ![e] = p] /\ k.nextWg = [l.nextWg EXCEPT ![e] = q]
  BY <1>2, Zenon DEF Lists
<1> HIDE DEF p, q
<1>5. k = [x \in Fields |-> k[x]]
  BY <1>2, FieldsOf, Zenon
<1>6. /\ k.prevWg \in [Elems -> Int] /\ k.nextWg \in [Elems -> Int]
      /\ k.removed \in SUBSET Elems
  BY <1>0, <1>1, <1>4
<1>7. k \in Lists
  BY <1>0, <1>4, <1>5, <1>6, ListOfFields, Zenon
<1>8. /\ n \in Lists /\ n.head = l.head /\ n.tail = l.tail /\ n.len = l.len /\ n.wg = l.wg
      /\ n.removed = k.removed /\ n.next = l.next /\ n.prev = [l.prev EXCEPT ![e] = Nil]
      /\ n.prevWg = k.prevWg /\ n.nextWg = k.nextWg
  BY <1>0, <1>3, <1>4, <1>7, Zenon DEF Lists
<1>9. /\ m \in Lists /\ m.head = l.head /\ m.tail = l.tail /\ m.len = l.len /\ m.wg = l.wg
      /\ m.removed = k.removed /\ m.next = [l.next EXCEPT ![e] = Nil] /\ m.prev = n.prev
      /\ m.prevWg = k.prevWg /\ m.nextWg = k.nextWg
  BY <1>0, <1>3, <1>8 DEF Lists
<1>10. \A x \in Elems \ {e} : /\ m.next[x] = l.next[x] /\ m.nextWg[x] = l.nextWg[x]
                              /\ m.prev[x] = l.prev[x] /\ m.prevWg[x] = l.prevWg[x]
  BY <1>0, <1>4, <1>8, <1>9
<1>11. m.next[e] = Nil
  BY <1>0, <1>9, Zenon
<1> QED
  BY <1>4, <1>9, <1>10, <1>11, Zenon DEF Released, m, n, k

\* m is l without e: its neighbours are linked to each other.
Unlinked(l, e, m) ==
  LET p == l.prev[e]
      q == l.next[e] IN
  /\ m \in Lists
  /\ m.len = l.len - 1 /\ m.removed = l.removed \cup {e} /\ m.next[e] = Nil
  /\ m.wg = IF l.len = 1 THEN 1 ELSE l.wg
  /\ m.head = IF p = Nil THEN q ELSE l.head
  /\ m.tail = IF q = Nil THEN p ELSE l.tail
  /\ \A x \in Elems \ {e} :
       /\ m.next[x] = IF x = p THEN q ELSE l.next[x]
       /\ m.nextWg[x] = IF x = p THEN Rewait(l.nextWg[x], l.next[x], q) ELSE l.nextWg[x]
       /\ m.prev[x] = IF x = q THEN p ELSE l.prev[x]
       /\ m.prevWg[x] = IF x = q THEN Rewait(l.prevWg[x], l.prev[x], p) ELSE l.prevWg[x]

LEMMA RemoveFields ==
  ASSUME NEW l \in Lists, NEW e \in Elems, l.len > 0, l.prev[e] # e, l.next[e] # e
  PROVE  Unlinked(l, e, Unlink(l, e))
<1> DEFINE p == l.prev[e]
           q == l.next[e]
           counted == [l EXCEPT !.len = @ - 1, !.wg = IF l.len = 1 THEN 1 ELSE @]
           linked == IF p = Nil THEN [counted EXCEPT !.head = q] ELSE SetNext(counted, p, q)
           unlinked == IF q = Nil THEN [linked EXCEPT !.tail = p] ELSE SetPrev(linked, q, p)
           m == Unlink(l, e)
<1>0. /\ p \in Links /\ q \in Links /\ Nil \notin Elems
      /\ p # Nil => p \in Elems
      /\ q # Nil => q \in Elems
      /\ l.head \in Links /\ l.tail \in Links
  BY NilAssumption, Zenon DEF Lists, Links
<1>1. m = DetachNext(DetachPrev(SetRemoved(unlinked, e), e), e)
  BY Zenon DEF Unlink, ListRemove
<1>2. /\ counted \in Lists /\ counted.len = l.len - 1 /\ counted.wg = IF l.len = 1 THEN 1 ELSE l.wg
      /\ counted.head = l.head /\ counted.tail = l.tail /\ counted.removed = l.removed
      /\ counted.next = l.next /\ counted.prev = l.prev
      /\ counted.nextWg = l.nextWg /\ counted.prevWg = l.prevWg
  <2>1. counted = [[l EXCEPT !.len = l.len - 1] EXCEPT !.wg = IF l.len = 1 THEN 1 ELSE l.wg]
    BY Zenon DEF Lists
  <2>2. l.len - 1 \in Nat /\ (IF l.len = 1 THEN 1 ELSE l.wg) \in Int
    BY DEF Lists
  <2> HIDE DEF counted
  <2> QED
    BY <2>1, <2>2, Zenon DEF Lists
<1> HIDE DEF p, q, counted, m
<1>3. /\ linked \in Lists /\ linked.len = counted.len /\ linked.wg = counted.wg
      /\ linked.head = (IF p = Nil THEN q ELSE counted.head)
      /\ linked.tail = counted.tail /\ linked.removed = counted.removed
      /\ linked.prev = counted.prev /\ linked.prevWg = counted.prevWg
      /\ \A x \in Elems :
           /\ linked.next[x] = IF x = p THEN q ELSE counted.next[x]
           /\ linked.nextWg[x] = IF x = p THEN Rewait(counted.nextWg[x], counted.next[x], q)
                                 ELSE counted.nextWg[x]
  <2>1. CASE p = Nil
    <3>1. linked = [counted EXCEPT !.head = q]
      BY <2>1, Zenon
    <3> HIDE DEF linked
    <3>2. /\ linked \in Lists /\ linked.len = counted.len /\ linked.wg = counted.wg
          /\ linked.head = q /\ linked.tail = counted.tail
          /\ linked.removed = counted.removed
          /\ linked.prev = counted.prev /\ linked.prevWg = counted.prevWg
          /\ linked.next = counted.next /\ linked.nextWg = counted.nextWg
      BY <1>0, <1>2, <3>1, Zenon DEF Lists
    <3>3. \A x \in Elems : x # p
      BY <1>0, <2>1, Zenon
    <3> QED
      BY <2>1, <3>2, <3>3, Zenon
  <2>2. CASE p # Nil
    <3>1. linked = SetNext(counted, p, q)
      BY <2>2, Zenon
    <3>2. counted \in Lists /\ p \in Elems /\ q \in Links
      BY <1>0, <1>2, <2>2, Zenon
    <3> HIDE DEF linked
    <3>3. /\ linked \in Lists
          /\ linked.head = counted.head /\ linked.tail = counted.tail
          /\ linked.len = counted.len /\ linked.wg = counted.wg
          /\ linked.removed = counted.removed
          /\ linked.prev = counted.prev /\ linked.prevWg = counted.prevWg
          /\ linked.next[p] = q
          /\ linked.nextWg[p] = Rewait(counted.nextWg[p], counted.next[p], q)
          /\ \A x \in Elems \ {p} :
               linked.next[x] = counted.next[x] /\ linked.nextWg[x] = counted.nextWg[x]
      <4>1. NextIs(counted, p, q, linked)
        BY <3>1, <3>2, SetNextFields, Zenon
      <4> QED
        BY <4>1, Zenon DEF NextIs
    <3> QED
      BY <2>2, <3>2, <3>3, Zenon
  <2> QED
    BY <2>1, <2>2, Zenon
<1> HIDE DEF linked
<1>4. /\ unlinked \in Lists /\ unlinked.len = linked.len /\ unlinked.wg = linked.wg
      /\ unlinked.tail = (IF q = Nil THEN p ELSE linked.tail)
      /\ unlinked.head = linked.head /\ unlinked.removed = linked.removed
      /\ unlinked.next = linked.next /\ unlinked.nextWg = linked.nextWg
      /\ \A x \in Elems :
           /\ unlinked.prev[x] = IF x = q THEN p ELSE linked.prev[x]
           /\ unlinked.prevWg[x] = IF x = q THEN Rewait(linked.prevWg[x], linked.prev[x], p)
                                   ELSE linked.prevWg[x]
  <2>1. CASE q = Nil
    <3>1. unlinked = [linked EXCEPT !.tail = p]
      BY <2>1, Zenon
    <3> HIDE DEF unlinked
    <3>2. /\ unlinked \in Lists /\ unlinked.len = linked.len /\ unlinked.wg = linked.wg
          /\ unlinked.tail = p /\ unlinked.head = linked.head
          /\ unlinked.removed = linked.removed
          /\ unlinked.prev = linked.prev /\ unlinked.prevWg = linked.prevWg
          /\ unlinked.next = linked.next /\ unlinked.nextWg = linked.nextWg
      BY <1>0, <1>3, <3>1, Zenon DEF Lists
    <3>3. \A x \in Elems : x # q
      BY <1>0, <2>1, Zenon
    <3> QED
      BY <2>1, <3>2, <3>3, Zenon
  <2>2. CASE q # Nil
    <3>1. unlinked = SetPrev(linked, q, p)
      BY <2>2, Zenon
    <3>2. linked \in Lists /\ q \in Elems /\ p \in Links
      BY <1>0, <1>3, <2>2, Zenon
    <3> HIDE DEF unlinked
    <3>3. /\ unlinked \in Lists
          /\ unlinked.head = linked.head /\ unlinked.tail = linked.tail
          /\ unlinked.len = linked.len /\ unlinked.wg = linked.wg
          /\ unlinked.removed = linked.removed
          /\ unlinked.next = linked.next /\ unlinked.nextWg = linked.nextWg
          /\ unlinked.prev[q] = p
          /\ unlinked.prevWg[q] = Rewait(linked.prevWg[q], linked.prev[q], p)
          /\ \A x \in Elems \ {q} :
               unlinked.prev[x] = linked.prev[x] /\ unlinked.prevWg[x] = linked.prevWg[x]
      <4>1. PrevIs(linked, q, p, unlinked)
        BY <3>1, <3>2, SetPrevFields, Zenon
      <4> QED
        BY <4>1, Zenon DEF PrevIs
    <3> QED
      BY <2>2, <3>2, <3>3, Zenon
  <2> QED
    BY <2>1, <2>2, Zenon
<1> HIDE DEF unlinked
<1>5. /\ m \in Lists
      /\ m.head = unlinked.head /\ m.tail = unlinked.tail /\ m.len = unlinked.len
      /\ m.wg = unlinked.wg
      /\ m.removed = unlinked.removed \cup {e} /\ m.next[e] = Nil
      /\ \A x \in Elems \ {e} : /\ m.next[x] = unlinked.next[x] /\ m.nextWg[x] = unlinked.nextWg[x]
                                /\ m.prev[x] = unlinked.prev[x]
                                /\ m.prevWg[x] = unlinked.prevWg[x]
  <2>1. unlinked \in Lists
    BY <1>4, Zenon
  <2>2. Released(unlinked, e, m)
    BY <1>1, <2>1, SetRemovedFields, Zenon
  <2> QED
    BY <2>2, Zenon DEF Released
<1>6. /\ m.len = l.len - 1 /\ m.removed = l.removed \cup {e}
      /\ m.wg = IF l.len = 1 THEN 1 ELSE l.wg
      /\ m.head = IF p = Nil THEN q ELSE l.head
      /\ m.tail = IF q = Nil THEN p ELSE l.tail
  BY <1>2, <1>3, <1>4, <1>5
<1>7. ASSUME NEW x \in Elems \ {e}
      PROVE  /\ m.next[x] = IF x = p THEN q ELSE l.next[x]
             /\ m.nextWg[x] = IF x = p THEN Rewait(l.nextWg[x], l.next[x], q) ELSE l.nextWg[x]
  BY <1>2, <1>3, <1>4, <1>5
<1>8. ASSUME NEW x \in Elems \ {e}
      PROVE  /\ m.prev[x] = IF x = q THEN p ELSE l.prev[x]
             /\ m.prevWg[x] = IF x = q THEN Rewait(l.prevWg[x], l.prev[x], p) ELSE l.prevWg[x]
  BY <1>2, <1>3, <1>4, <1>5
<1> QED
  BY <1>5, <1>6, <1>7, <1>8, Zenon DEF Unlinked, m, p, q

\* What IsListOf says, spelled out.
Linked(l, s) ==
  /\ Len(s) \in Nat /\ l.len = Len(s)
  /\ \A i \in 1..Len(s) : s[i] \in Elems \ l.removed /\ s[i] # Nil
  /\ \A e \in Elems \ l.removed : \E i \in 1..Len(s) : s[i] = e
  /\ Len(s) = 0 => l.head = Nil /\ l.tail = Nil
  /\ Len(s) # 0 => l.head = s[1] /\ l.tail = s[Len(s)] /\ l.head # Nil /\ l.tail # Nil
  /\ \A i, j \in 1..Len(s) : s[i] = s[j] => i = j
  /\ \A i \in 1..Len(s) : /\ l.prev[s[i]] = IF i = 1 THEN Nil ELSE s[i - 1]
                          /\ l.next[s[i]] = IF i = Len(s) THEN Nil ELSE s[i + 1]

LEMMA ListFacts ==
  ASSUME NEW l \in Lists, NEW s \in Seq(Elems), IsListOf(l, s)
  PROVE  Linked(l, s)
<1>1. Len(s) \in Nat /\ \A i \in 1..Len(s) : s[i] \in Elems
  OBVIOUS
<1>2. /\ Len(s) = l.len
      /\ \A e \in Elems : e \notin l.removed <=> \E i \in 1..Len(s) : s[i] = e
      /\ l.head = IF Len(s) = 0 THEN Nil ELSE s[1]
      /\ l.tail = IF Len(s) = 0 THEN Nil ELSE s[Len(s)]
      /\ \A i, j \in 1..Len(s) : s[i] = s[j] => i = j
      /\ \A i \in 1..Len(s) : /\ l.prev[s[i]] = IF i = 1 THEN Nil ELSE s[i - 1]
                              /\ l.next[s[i]] = IF i = Len(s) THEN Nil ELSE s[i + 1]
  BY Zenon DEF IsListOf
<1>3. \A i \in 1..Len(s) : s[i] \in Elems \ l.removed /\ s[i] # Nil
  BY <1>1, <1>2, NilAssumption
<1>4. \A e \in Elems \ l.removed : \E i \in 1..Len(s) : s[i] = e
  BY <1>2, Zenon
<1>5. Len(s) # 0 => 1 \in 1..Len(s) /\ Len(s) \in 1..Len(s)
  BY <1>1
<1>6. Len(s) # 0 => l.head = s[1] /\ l.tail = s[Len(s)] /\ l.head # Nil /\ l.tail # Nil
  <2>1. Len(s) # 0 => l.head = s[1] /\ l.tail = s[Len(s)]
    BY <1>2, Zenon
  <2> QED
    BY <1>3, <1>5, <2>1, Zenon
<1>7. Len(s) = 0 => l.head = Nil /\ l.tail = Nil
  BY <1>2, Zenon
<1> QED
  BY <1>1, <1>2, <1>3, <1>4, <1>6, <1>7, Zenon DEF Linked

LEMMA PushBackList ==
  ASSUME NEW l \in Lists, NEW s \in Seq(Elems), IsListOf(l, s), WaitersWake(l),
         NEW e \in l.removed
  PROVE  /\ PushBack(l, e) \in Lists /\ Append(s, e) \in Seq(Elems)
         /\ IsListOf(PushBack(l, e), Append(s, e)) /\ WaitersWake(PushBack(l, e))
<1> DEFINE n == Len(s)
           t == Append(s, e)
           m == PushBack(l, e)
<1>1. e \in Elems
  BY Zenon DEF Lists
<1>2. /\ n \in Nat /\ l.len = n /\ \A i \in 1..n : s[i] \in Elems \ l.removed /\ s[i] # Nil
      /\ \A x \in Elems \ l.removed : \E i \in 1..n : s[i] = x
      /\ n = 0 => l.head = Nil /\ l.tail = Nil
      /\ n # 0 => l.head = s[1] /\ l.tail = s[n] /\ l.head # Nil /\ l.tail # Nil
      /\ \A i, j \in 1..n : s[i] = s[j] => i = j
      /\ \A i \in 1..n : /\ l.prev[s[i]] = IF i = 1 THEN Nil ELSE s[i - 1]
                         /\ l.next[s[i]] = IF i = n THEN Nil ELSE s[i + 1]
  <2>1. Linked(l, s)
    BY ListFacts, Zenon
  <2> QED
    BY <2>1, Zenon DEF Linked
<1>3. t \in Seq(Elems) /\ Len(t) = n + 1 /\ t[n + 1] = e /\ \A i \in 1..n : t[i] = s[i]
  BY <1>1
<1> HIDE DEF t, n
<1>4. l.tail # e
  <2>1. n # 0 => n \in 1..n
    BY <1>2
  <2> QED
    BY <1>1, <1>2, <2>1, NilAssumption
<1>5. /\ m \in Lists
      /\ m.head = IF l.tail = Nil THEN e ELSE l.head
      /\ m.tail = e /\ m.len = l.len + 1 /\ m.removed = l.removed \ {e}
      /\ m.wg = IF l.len = 0 THEN l.wg - 1 ELSE l.wg
      /\ m.next[e] = Nil /\ m.nextWg[e] = 1
      /\ m.prev[e] = l.tail /\ m.prevWg[e] = IF l.tail = Nil THEN 1 ELSE 0
      /\ l.tail # Nil => /\ m.next[l.tail] = e
                         /\ m.nextWg[l.tail] = Rewait(l.nextWg[l.tail], l.next[l.tail], e)
      /\ \A x \in Elems \ {e} :
           /\ m.prev[x] = l.prev[x] /\ m.prevWg[x] = l.prevWg[x]
           /\ x # l.tail => m.next[x] = l.next[x] /\ m.nextWg[x] = l.nextWg[x]
  <2>1. Pushed(l, e, m)
    BY <1>1, <1>4, PushBackFields, Zenon
  <2> HIDE DEF m
  <2> QED
    BY <2>1, Zenon DEF Pushed
<1> HIDE DEF m
<1>6. l.tail = Nil <=> n = 0
  BY <1>2, Zenon
<1>7. IsListOf(m, t)
  <2>1. Len(t) = m.len
    BY <1>2, <1>3, <1>5, Zenon
  <2>2. \A x \in Elems : x \notin m.removed <=> \E i \in 1..Len(t) : t[i] = x
    <3>1. ASSUME NEW x \in Elems, x \notin m.removed PROVE \E i \in 1..Len(t) : t[i] = x
      BY <1>2, <1>3, <1>5, <3>1
    <3>2. ASSUME NEW i \in 1..Len(t), NEW x \in Elems, t[i] = x PROVE x \notin m.removed
      <4>1. CASE i = n + 1
        BY <1>3, <1>5, <3>2, <4>1, Zenon
      <4>2. CASE i # n + 1
        <5>1. i \in 1..n
          BY <1>2, <1>3, <4>2
        <5> QED
          BY <1>2, <1>3, <1>5, <3>2, <5>1, Zenon
      <4> QED
        BY <4>1, <4>2, Zenon
    <3> QED
      BY <3>1, <3>2, Zenon
  <2>3. m.head = (IF Len(t) = 0 THEN Nil ELSE t[1]) /\ m.tail = (IF Len(t) = 0 THEN Nil ELSE t[Len(t)])
    BY <1>2, <1>3, <1>5, <1>6
  <2>4. \A i, j \in 1..Len(t) : t[i] = t[j] => i = j
    <3>1. \A i \in 1..n : t[i] # e
      BY <1>2, <1>3, Zenon
    <3> QED
      BY <1>2, <1>3, <3>1
  <2>5. ASSUME NEW i \in 1..Len(t)
        PROVE  /\ m.prev[t[i]] = IF i = 1 THEN Nil ELSE t[i - 1]
               /\ m.next[t[i]] = IF i = Len(t) THEN Nil ELSE t[i + 1]
    <3>1. CASE i = n + 1
      <4>1. m.prev[e] = IF n + 1 = 1 THEN Nil ELSE t[(n + 1) - 1]
        BY <1>2, <1>3, <1>5
      <4> QED
        BY <1>3, <1>5, <3>1, <4>1, Zenon
    <3>2. CASE i = n
      <4>1. n \in 1..n /\ n # n + 1 /\ s[n] = l.tail /\ s[n] \in Elems \ {e}
        BY <1>2, <3>2
      <4>2. n # 1 => n - 1 \in 1..n
        BY <1>2, <4>1
      <4>3. m.next[s[n]] = e
        BY <1>2, <1>5, <4>1
      <4> QED
        BY <1>2, <1>3, <1>5, <3>2, <4>1, <4>2, <4>3
    <3>3. CASE i < n
      <4>1. i \in 1..n /\ i # Len(t) /\ i + 1 \in 1..n /\ i # n /\ n \in 1..n
        BY <1>2, <1>3, <3>3
      <4>2. i # 1 => i - 1 \in 1..n
        BY <1>2, <4>1
      <4>3. s[i] # l.tail /\ s[i] \in Elems \ {e}
        BY <1>2, <4>1
      <4>4. m.prev[s[i]] = l.prev[s[i]] /\ m.next[s[i]] = l.next[s[i]]
        BY <1>5, <4>3, Zenon
      <4>5. /\ l.prev[s[i]] = IF i = 1 THEN Nil ELSE s[i - 1]
            /\ l.next[s[i]] = s[i + 1]
        BY <1>2, <4>1, Zenon
      <4>6. t[i] = s[i] /\ t[i + 1] = s[i + 1] /\ (i # 1 => t[i - 1] = s[i - 1])
        BY <1>3, <4>1, <4>2, Zenon
      <4> QED
        BY <4>1, <4>4, <4>5, <4>6, Zenon
    <3> QED
      BY <1>2, <1>3, <3>1, <3>2, <3>3
  <2> QED
    BY <2>1, <2>2, <2>3, <2>4, <2>5, Zenon DEF IsListOf
<1>8. WaitersWake(m)
  <2>1. /\ l.wg = IF l.head # Nil THEN 0 ELSE 1
        /\ \A x \in Elems \ l.removed :
             /\ l.nextWg[x] = IF l.next[x] # Nil THEN 0 ELSE 1
             /\ l.prevWg[x] = IF l.prev[x] # Nil THEN 0 ELSE 1
    BY Zenon DEF WaitersWake, FrontWaitReturns, NextWaitReturns, PrevWaitReturns
  <2>2. e # Nil
    BY <1>1, NilAssumption, Zenon
  <2>3. m.wg = 0 /\ m.head # Nil
    BY <1>2, <1>5, <1>6, <2>1, <2>2
  <2>4. ASSUME NEW x \in Elems \ m.removed
        PROVE  /\ m.nextWg[x] = IF m.next[x] # Nil THEN 0 ELSE 1
               /\ m.prevWg[x] = IF m.prev[x] # Nil THEN 0 ELSE 1
    <3>1. CASE x = e
      BY <1>5, <3>1, Zenon
    <3>2. CASE x # e /\ x = l.tail
      <4>1. x \in Elems \ l.removed /\ x \in Elems \ {e}
        BY <1>5, <3>2, Zenon
      <4>2. n # 0 /\ n \in 1..n
        BY <1>2, <1>6, <3>2, <4>1, NilAssumption
      <4>3. l.next[x] = Nil /\ l.tail # Nil
        BY <1>2, <1>6, <3>2, <4>2, Zenon
      <4>4. l.nextWg[x] = 1 /\ 1 - 1 = 0
        BY <2>1, <4>1, <4>3
      <4>5. m.next[x] = e /\ m.nextWg[x] = 0
        BY <1>5, <2>2, <3>2, <4>3, <4>4, Zenon DEF Rewait
      <4> QED
        BY <1>5, <2>1, <2>2, <4>1, <4>5
    <3>3. CASE x # e /\ x # l.tail
      <4>1. x \in Elems \ l.removed /\ x \in Elems \ {e}
        BY <1>5, <3>3, Zenon
      <4> QED
        BY <1>5, <2>1, <3>3, <4>1
    <3> QED
      BY <3>1, <3>2, <3>3, Zenon
  <2> QED
    BY <2>3, <2>4, Zenon
    DEF WaitersWake, FrontWaitReturns, NextWaitReturns, PrevWaitReturns
<1> QED
  BY <1>3, <1>5, <1>7, <1>8, Zenon DEF m, t

\* s without its i-th element.
Without(s, i) == [j \in 1..(Len(s) - 1) |-> IF j < i THEN s[j] ELSE s[j + 1]]

LEMMA WithoutSeq ==
  ASSUME NEW s \in Seq(Elems), NEW i \in 1..Len(s)
  PROVE  /\ Without(s, i) \in Seq(Elems) /\ Len(Without(s, i)) = Len(s) - 1
         /\ \A j \in 1..(Len(s) - 1) : Without(s, i)[j] = IF j < i THEN s[j] ELSE s[j + 1]
<1>1. Len(s) \in Nat /\ Len(s) - 1 \in Nat /\ \A j \in 1..Len(s) : s[j] \in Elems
  OBVIOUS
<1>2. \A j \in 1..(Len(s) - 1) : (IF j < i THEN s[j] ELSE s[j + 1]) \in Elems
  BY <1>1
<1>3. Without(s, i) \in [1..(Len(s) - 1) -> Elems]
  BY <1>2, Zenon DEF Without
<1>4. Without(s, i) \in Seq(Elems) /\ Len(Without(s, i)) = Len(s) - 1
  BY <1>1, <1>3
<1> QED
  BY <1>4, Zenon DEF Without

LEMMA RemoveList ==
  ASSUME NEW l \in Lists, NEW s \in Seq(Elems), IsListOf(l, s), WaitersWake(l),
         NEW i \in 1..Len(s)
  PROVE  /\ ~RemovePanics(l, s[i])
         /\ Unlink(l, s[i]) \in Lists /\ Without(s, i) \in Seq(Elems)
         /\ IsListOf(Unlink(l, s[i]), Without(s, i)) /\ WaitersWake(Unlink(l, s[i]))
<1> DEFINE n == Len(s)
           t == Without(s, i)
           e == s[i]
           p == l.prev[e]
           q == l.next[e]
           m == Unlink(l, e)
<1>1. /\ n \in Nat /\ l.len = n /\ \A j \in 1..n : s[j] \in Elems \ l.removed /\ s[j] # Nil
      /\ \A x \in Elems \ l.removed : \E j \in 1..n : s[j] = x
      /\ n # 0 => l.head = s[1] /\ l.tail = s[n] /\ l.head # Nil /\ l.tail # Nil
      /\ \A j, k \in 1..n : s[j] = s[k] => j = k
      /\ \A j \in 1..n : /\ l.prev[s[j]] = IF j = 1 THEN Nil ELSE s[j - 1]
                         /\ l.next[s[j]] = IF j = n THEN Nil ELSE s[j + 1]
  <2>1. Linked(l, s)
    BY ListFacts, Zenon
  <2> QED
    BY <2>1, Zenon DEF Linked
<1>1a. \A j, k \in 1..n : s[j] = s[k] => j = k
  BY <1>1, Zenon
<1>2. /\ t \in Seq(Elems) /\ Len(t) = n - 1
      /\ \A j \in 1..(n - 1) : t[j] = IF j < i THEN s[j] ELSE s[j + 1]
  BY WithoutSeq, Zenon
<1>3. i \in 1..n /\ n # 0 /\ 1 \in 1..n /\ n \in 1..n /\ i \in Nat
  BY <1>1
<1>4. e \in Elems /\ e \notin l.removed /\ e # Nil
  BY <1>1, <1>3, Zenon
<1>5. /\ p = (IF i = 1 THEN Nil ELSE s[i - 1]) /\ q = (IF i = n THEN Nil ELSE s[i + 1])
      /\ i # 1 => i - 1 \in 1..n
      /\ i # n => i + 1 \in 1..n
  BY <1>1, <1>3
<1>5a. (p = Nil <=> i = 1) /\ (q = Nil <=> i = n)
  <2>1. (i # 1 => s[i - 1] # Nil) /\ (i # n => s[i + 1] # Nil)
    BY <1>1, <1>5, Zenon
  <2> HIDE DEF p, q, n
  <2> QED
    BY <1>5, <2>1, Zenon
<1>5b. \A k \in 1..n : k # i => s[k] # e
  BY <1>1, <1>3, Zenon
<1> HIDE DEF t, n, e, m, p, q
<1>6. p # e /\ q # e
  BY <1>1, <1>3, <1>4, <1>5 DEF e
<1>7. ~RemovePanics(l, e)
  <2>1. l.prev[e] = Nil => l.head = e
    BY <1>1, <1>3, <1>5a, Zenon DEF p, e
  <2>2. l.next[e] = Nil => l.tail = e
    BY <1>1, <1>3, <1>5a, Zenon DEF q, e
  <2> QED
    BY <1>1, <1>3, <2>1, <2>2, Zenon DEF RemovePanics
<1>8. /\ m \in Lists
      /\ m.len = l.len - 1 /\ m.removed = l.removed \cup {e}
      /\ m.wg = IF l.len = 1 THEN 1 ELSE l.wg
      /\ m.head = IF p = Nil THEN q ELSE l.head
      /\ m.tail = IF q = Nil THEN p ELSE l.tail
      /\ \A x \in Elems \ {e} :
           /\ m.next[x] = IF x = p THEN q ELSE l.next[x]
           /\ m.nextWg[x] = IF x = p THEN Rewait(l.nextWg[x], l.next[x], q) ELSE l.nextWg[x]
           /\ m.prev[x] = IF x = q THEN p ELSE l.prev[x]
           /\ m.prevWg[x] = IF x = q THEN Rewait(l.prevWg[x], l.prev[x], p) ELSE l.prevWg[x]
  <2>1. l.len > 0
    BY <1>1, <1>3
  <2>2. Unlinked(l, e, m)
    BY <1>4, <1>6, <2>1, RemoveFields, Zenon DEF m, p, q
  <2> QED
    BY <2>2, Zenon DEF Unlinked, p, q
\* Where the elements of t are in s.
<1> DEFINE at(j) == IF j < i THEN j ELSE j + 1
<1>9. \A j \in 1..(n - 1) : at(j) \in 1..n /\ at(j) # i /\ t[j] = s[at(j)]
  BY <1>1, <1>2, <1>3
<1>10. \A j \in 1..n : j # i => \E k \in 1..(n - 1) : at(k) = j
  <2> SUFFICES ASSUME NEW j \in 1..n, j # i PROVE \E k \in 1..(n - 1) : at(k) = j
    BY Zenon
  <2>1. CASE j < i
    <3>1. j \in 1..(n - 1) /\ at(j) = j
      BY <1>1, <1>3, <2>1
    <3> QED
      BY <3>1, Zenon
  <2>2. CASE ~(j < i)
    <3>1. j - 1 \in 1..(n - 1) /\ at(j - 1) = j
      BY <1>1, <1>3, <2>2
    <3> QED
      BY <3>1, Zenon
  <2> QED
    BY <2>1, <2>2, Zenon
<1>11. \A j \in 1..(n - 1) : s[at(j)] \in Elems \ {e} /\ s[at(j)] \notin l.removed
  BY <1>1, <1>5b, <1>9, Zenon
<1>12. IsListOf(m, t)
  <2>1. Len(t) = m.len
    BY <1>1, <1>2, <1>8, Zenon
  <2>2. \A x \in Elems : x \notin m.removed <=> \E j \in 1..Len(t) : t[j] = x
    <3>1. ASSUME NEW x \in Elems, x \notin m.removed PROVE \E j \in 1..Len(t) : t[j] = x
      <4>1. PICK j \in 1..n : s[j] = x
        BY <1>1, <1>8, <3>1, Zenon
      <4>2. j # i
        BY <1>8, <3>1, <4>1, Zenon DEF e
      <4> QED
        BY <1>2, <1>9, <1>10, <4>1, <4>2, Zenon
    <3>2. ASSUME NEW j \in 1..Len(t), NEW x \in Elems, t[j] = x PROVE x \notin m.removed
      BY <1>2, <1>8, <1>9, <1>11, <3>2
    <3> QED
      BY <3>1, <3>2, Zenon
  <2>3. m.head = (IF Len(t) = 0 THEN Nil ELSE t[1])
    BY <1>1, <1>2, <1>3, <1>5, <1>8
  <2>4. m.tail = (IF Len(t) = 0 THEN Nil ELSE t[Len(t)])
    <3>1. m.tail = IF i = n THEN p ELSE s[n]
      BY <1>1, <1>3, <1>5a, <1>8, Zenon
    <3>2. CASE i = n
      <4>1. n # 1 => n - 1 \in 1..(n - 1) /\ t[n - 1] = s[n - 1]
        BY <1>1, <1>2, <1>3, <3>2
      <4>2. n - 1 = 0 <=> n = 1
        BY <1>1
      <4> QED
        BY <1>2, <1>5, <3>1, <3>2, <4>1, <4>2, Zenon
    <3>3. CASE i # n
      <4>1. n - 1 \in 1..(n - 1) /\ ~(n - 1 < i) /\ (n - 1) + 1 = n /\ n - 1 # 0
        BY <1>1, <1>3, <3>3
      <4> QED
        BY <1>2, <3>1, <3>3, <4>1, Zenon
    <3> QED
      BY <3>2, <3>3, Zenon
  <2>5. ASSUME NEW j \in 1..Len(t), NEW k \in 1..Len(t), t[j] = t[k] PROVE j = k
    <3>1. at(j) = at(k)
      <4>1. at(j) \in 1..n /\ at(k) \in 1..n /\ s[at(j)] = s[at(k)]
        BY <1>2, <1>9, <2>5, Zenon
      <4> HIDE DEF at
      <4> QED
        BY <1>1a, <4>1, Zenon
    <3> QED
      BY <1>1, <1>2, <1>3, <3>1
  <2>6. ASSUME NEW j \in 1..Len(t)
        PROVE  /\ m.prev[t[j]] = IF j = 1 THEN Nil ELSE t[j - 1]
               /\ m.next[t[j]] = IF j = Len(t) THEN Nil ELSE t[j + 1]
    <3>1. /\ j \in 1..(n - 1) /\ at(j) \in 1..n /\ at(j) # i /\ t[j] = s[at(j)]
          /\ s[at(j)] \in Elems \ {e}
      BY <1>2, <1>9, <1>11, Zenon
    <3>2. m.prev[t[j]] = IF j = 1 THEN Nil ELSE t[j - 1]
      <4>1. s[at(j)] = q <=> j = i
        <5>1. s[at(j)] # Nil
          BY <1>1, <3>1, Zenon
        <5>2. s[at(j)] = q <=> i # n /\ at(j) = i + 1
          <6> HIDE DEF at
          <6>1. i # n => (s[at(j)] = s[i + 1] <=> at(j) = i + 1)
            BY <1>1a, <1>5, <3>1, Zenon
          <6> QED
            BY <1>5, <1>5a, <5>1, <6>1, Zenon
        <5> QED
          BY <1>1, <1>3, <3>1, <5>2
      <4>2. CASE j = i
        <5>1. m.prev[t[j]] = p
          BY <1>8, <3>1, <4>1, <4>2
        <5>2. j # 1 => t[j - 1] = s[i - 1]
          BY <1>1, <1>2, <1>3, <3>1, <4>2
        <5> QED
          BY <1>5, <4>2, <5>1, <5>2, Zenon
      <4>3. CASE j # i
        <5>1. m.prev[t[j]] = l.prev[s[at(j)]]
          BY <1>8, <3>1, <4>1, <4>3
        <5>2. l.prev[s[at(j)]] = IF at(j) = 1 THEN Nil ELSE s[at(j) - 1]
          BY <1>1, <3>1
        <5>3. j # 1 => at(j) # 1 /\ t[j - 1] = s[at(j) - 1]
          <6>1. j # 1 => j - 1 \in 1..(n - 1) /\ at(j) # 1 /\ at(j - 1) = at(j) - 1
            BY <1>1, <1>3, <3>1, <4>3
          <6> QED
            BY <1>9, <6>1, Zenon
        <5>4. j = 1 => at(j) = 1
          BY <1>3, <4>3
        <5> QED
          BY <5>1, <5>2, <5>3, <5>4, Zenon
      <4> QED
        BY <4>2, <4>3, Zenon
    <3>3. m.next[t[j]] = IF j = Len(t) THEN Nil ELSE t[j + 1]
      <4>1. s[at(j)] = p <=> j + 1 = i
        <5>1. s[at(j)] # Nil
          BY <1>1, <3>1, Zenon
        <5>2. s[at(j)] = p <=> i # 1 /\ at(j) = i - 1
          <6> HIDE DEF at
          <6>1. i # 1 => (s[at(j)] = s[i - 1] <=> at(j) = i - 1)
            BY <1>1a, <1>5, <3>1, Zenon
          <6> QED
            BY <1>5, <1>5a, <5>1, <6>1, Zenon
        <5> QED
          BY <1>1, <1>3, <3>1, <5>2
      <4>2. CASE j + 1 = i
        <5>1. m.next[t[j]] = q
          BY <1>8, <3>1, <4>1, <4>2, Zenon
        <5>2. j # Len(t) => t[j + 1] = s[i + 1] /\ i # n
          <6>1. j # n - 1 => j + 1 \in 1..(n - 1) /\ i # n /\ at(j + 1) = i + 1
            BY <1>1, <1>3, <3>1, <4>2
          <6> QED
            BY <1>2, <1>9, <6>1
        <5>3. j = Len(t) => i = n
          BY <1>1, <1>2, <3>1, <4>2
        <5> QED
          BY <1>5, <5>1, <5>2, <5>3, Zenon
      <4>3. CASE j + 1 # i
        <5>1. m.next[t[j]] = l.next[s[at(j)]]
          BY <1>8, <3>1, <4>1, <4>3
        <5>2. l.next[s[at(j)]] = IF at(j) = n THEN Nil ELSE s[at(j) + 1]
          BY <1>1, <3>1, Zenon
        <5>3. j # Len(t) => at(j) # n /\ t[j + 1] = s[at(j) + 1]
          <6>1. j # n - 1 => j + 1 \in 1..(n - 1) /\ at(j) # n /\ at(j + 1) = at(j) + 1
            BY <1>1, <1>3, <3>1, <4>3
          <6> QED
            BY <1>2, <1>9, <6>1, Zenon
        <5>4. j = Len(t) => at(j) = n
          BY <1>1, <1>2, <1>3, <3>1, <4>3
        <5> QED
          BY <5>1, <5>2, <5>3, <5>4
      <4> QED
        BY <4>2, <4>3, Zenon
    <3> QED
      BY <3>2, <3>3, Zenon
  <2> QED
    BY <2>1, <2>2, <2>3, <2>4, <2>5, <2>6, Zenon DEF IsListOf
<1>13. WaitersWake(m)
  <2>1. /\ l.wg = IF l.head # Nil THEN 0 ELSE 1
        /\ \A x \in Elems \ l.removed :
             /\ l.nextWg[x] = IF l.next[x] # Nil THEN 0 ELSE 1
             /\ l.prevWg[x] = IF l.prev[x] # Nil THEN 0 ELSE 1
    BY Zenon DEF WaitersWake, FrontWaitReturns, NextWaitReturns, PrevWaitReturns
  <2>2. m.wg = IF m.head # Nil THEN 0 ELSE 1
    <3>1. l.wg = 0 /\ l.head # Nil
      BY <1>1, <1>3, <2>1, Zenon
    <3>2. m.head # Nil <=> n # 1
      <4>1. i = 1 /\ i = n <=> n = 1
        BY <1>1, <1>3
      <4> QED
        BY <1>5a, <1>8, <3>1, <4>1, Zenon
    <3> QED
      BY <1>1, <1>8, <3>1, <3>2, Zenon
  <2>3. ASSUME NEW x \in Elems \ m.removed
        PROVE  /\ m.nextWg[x] = IF m.next[x] # Nil THEN 0 ELSE 1
               /\ m.prevWg[x] = IF m.prev[x] # Nil THEN 0 ELSE 1
    <3>1. x \in Elems \ l.removed /\ x \in Elems \ {e}
      BY <1>8, Zenon
    <3>2. ASSUME x = p PROVE l.next[x] = e
      <4>1. i # 1
        BY <1>5a, <3>1, <3>2, NilAssumption, Zenon
      <4>2. x = s[i - 1] /\ i - 1 \in 1..n
        BY <1>5, <3>2, <4>1, Zenon
      <4>3. i - 1 # n /\ (i - 1) + 1 = i
        BY <1>1, <1>3
      <4>4. l.next[s[i - 1]] = s[(i - 1) + 1]
        BY <1>1, <4>2, <4>3, Zenon
      <4> QED
        BY <4>2, <4>3, <4>4, Zenon DEF e
    <3>3. ASSUME x = q PROVE l.prev[x] = e
      <4>1. i # n
        BY <1>5a, <3>1, <3>3, NilAssumption, Zenon
      <4>2. x = s[i + 1] /\ i + 1 \in 1..n
        BY <1>5, <3>3, <4>1, Zenon
      <4>3. i + 1 # 1 /\ (i + 1) - 1 = i
        BY <1>1, <1>3
      <4>4. l.prev[s[i + 1]] = s[(i + 1) - 1]
        BY <1>1, <4>2, <4>3, Zenon
      <4> QED
        BY <4>2, <4>3, <4>4, Zenon DEF e
    <3>4. m.nextWg[x] = IF m.next[x] # Nil THEN 0 ELSE 1
      BY <1>4, <1>8, <2>1, <3>1, <3>2 DEF Rewait
    <3>5. m.prevWg[x] = IF m.prev[x] # Nil THEN 0 ELSE 1
      BY <1>4, <1>8, <2>1, <3>1, <3>3 DEF Rewait
    <3> QED
      BY <3>4, <3>5, Zenon
  <2> QED
    BY <2>2, <2>3, Zenon
    DEF WaitersWake, FrontWaitReturns, NextWaitReturns, PrevWaitReturns
<1> QED
  BY <1>2, <1>7, <1>8, <1>12, <1>13, Zenon DEF m, t, e

-----------------------------------------------------------------------------
(* The linked list: what its operations guarantee, for lists of every length. *)

\* An element that is not in the list leads nowhere.
Detached(l) == \A e \in l.removed : l.next[e] = Nil

LEMMA PushBackDetached ==
  ASSUME NEW l \in Lists, NEW s \in Seq(Elems), IsListOf(l, s),
         NEW e \in l.removed, Detached(l)
  PROVE  Detached(PushBack(l, e))
<1>1. Linked(l, s)
  BY ListFacts, Zenon
<1>2. e \in Elems /\ l.tail \notin l.removed
  <2>1. l.removed \subseteq Elems /\ Nil \notin l.removed
    BY NilAssumption, Zenon DEF Lists
  <2>2. CASE Len(s) = 0
    BY <1>1, <2>1, <2>2, Zenon DEF Linked
  <2>3. CASE Len(s) # 0
    <3>1. Len(s) \in 1..Len(s)
      BY <2>3
    <3> QED
      BY <1>1, <2>1, <2>3, <3>1, Zenon DEF Linked
  <2> QED
    BY <2>2, <2>3, Zenon
<1>3. Pushed(l, e, PushBack(l, e))
  BY <1>2, PushBackFields, Zenon
<1> DEFINE m == PushBack(l, e)
<1>4. /\ m.removed = l.removed \ {e}
      /\ \A x \in Elems \ {e} : x # l.tail => m.next[x] = l.next[x]
  BY <1>3, Zenon DEF Pushed
<1> HIDE DEF m
<1>5. l.removed \subseteq Elems
  BY Zenon DEF Lists
<1> QED
  BY <1>2, <1>4, <1>5, Zenon DEF Detached, m

LEMMA RemoveDetached ==
  ASSUME NEW l \in Lists, NEW s \in Seq(Elems), IsListOf(l, s),
         NEW i \in 1..Len(s), Detached(l)
  PROVE  Detached(Unlink(l, s[i]))
<1> DEFINE e == s[i]
           m == Unlink(l, e)
<1>1. Linked(l, s)
  BY ListFacts, Zenon
<1>2. e \in Elems /\ e \notin l.removed /\ l.len = Len(s)
  BY <1>1, Zenon DEF Linked
<1>3. /\ l.len > 0 /\ Len(s) \in Nat /\ l.removed \subseteq Elems /\ Nil \notin l.removed
      /\ Nil \notin Elems
  BY <1>2, NilAssumption DEF Lists
<1>4. l.prev[e] = (IF i = 1 THEN Nil ELSE s[i - 1]) /\ l.next[e] = (IF i = Len(s) THEN Nil ELSE s[i + 1])
  BY Zenon DEF IsListOf
<1>5. i # 1 => i - 1 \in 1..Len(s) /\ i - 1 # i
  BY <1>3
<1>6. i # Len(s) => i + 1 \in 1..Len(s) /\ i + 1 # i
  BY <1>3
<1>7. l.prev[e] # e /\ l.next[e] # e
  <2>1. \A j \in 1..Len(s) : s[j] = e => j = i
    BY Zenon DEF IsListOf
  <2>2. l.prev[e] # e
    BY <1>2, <1>3, <1>4, <1>5, <2>1, Zenon
  <2>3. l.next[e] # e
    BY <1>2, <1>3, <1>4, <1>6, <2>1, Zenon
  <2> QED
    BY <2>2, <2>3, Zenon
<1>8. l.prev[e] \notin l.removed
  BY <1>1, <1>3, <1>4, <1>5, Zenon DEF Linked
<1> HIDE DEF e
<1>9. Unlinked(l, e, m)
  BY <1>2, <1>3, <1>7, RemoveFields, Zenon
<1>10. /\ m.removed = l.removed \cup {e} /\ m.next[e] = Nil
       /\ \A x \in Elems \ {e} : m.next[x] = IF x = l.prev[e] THEN l.next[e] ELSE l.next[x]
  BY <1>9, Zenon DEF Unlinked
<1> HIDE DEF m
<1>11. Detached(m)
  BY <1>3, <1>8, <1>10, Zenon DEF Detached
<1> QED
  BY <1>11, Zenon DEF m, e

\* A list as the mempool keeps it.
Sound(l) ==
  /\ l \in Lists /\ Elements(l) \in Seq(Elems)
  /\ WellLinked(l) /\ WaitersWake(l) /\ Detached(l)

LEMMA SoundList ==
  ASSUME NEW l \in Lists, NEW s \in Seq(Elems), IsListOf(l, s), WaitersWake(l), Detached(l)
  PROVE  Sound(l) /\ Elements(l) = s
<1>1. Elements(l) = s
  BY ElementsOf, Zenon
<1> QED
  BY <1>1, Zenon DEF Sound, WellLinked

\* CList.Init makes a sound list without elements, on which FrontWait blocks.
THEOREM NewListIsSound == Sound(NewList) /\ Elements(NewList) = <<>>
<1> DEFINE l == NewList
           s == <<>>
<1>1. l \in Lists
  BY DEF NewList, Lists, Links
<1>2. s \in Seq(Elems) /\ Len(s) = 0 /\ \A i \in 1..Len(s) : FALSE
  OBVIOUS
<1>3. /\ l.len = 0 /\ l.wg = 1 /\ l.head = Nil /\ l.tail = Nil /\ l.removed = Elems
      /\ l.next = [e \in Elems |-> Nil]
  BY Zenon DEF NewList
<1> HIDE DEF l, s
<1>4. IsListOf(l, s)
  BY <1>2, <1>3, Zenon DEF IsListOf
<1>5. WaitersWake(l)
  BY <1>3, Zenon DEF WaitersWake, FrontWaitReturns
<1>6. Detached(l)
  BY <1>3, Zenon DEF Detached
<1> QED
  BY <1>1, <1>2, <1>4, <1>5, <1>6, SoundList, Zenon DEF l, s

\* PushBack puts a new element behind the others and leaves their order alone.  It
\* wakes who waited for a first element or for a successor of the last one, once:
\* no wait group is done twice, which would panic.
THEOREM PushBackAppends ==
  ASSUME NEW l, Sound(l), NEW e \in l.removed
  PROVE  Sound(PushBack(l, e)) /\ Elements(PushBack(l, e)) = Append(Elements(l), e)
<1> DEFINE s == Elements(l)
<1>1. l \in Lists /\ s \in Seq(Elems) /\ IsListOf(l, s) /\ WaitersWake(l) /\ Detached(l)
  BY Zenon DEF Sound, WellLinked
<1> HIDE DEF s
<1>2. /\ PushBack(l, e) \in Lists /\ Append(s, e) \in Seq(Elems)
      /\ IsListOf(PushBack(l, e), Append(s, e)) /\ WaitersWake(PushBack(l, e))
  BY <1>1, PushBackList, Zenon
<1>3. Detached(PushBack(l, e))
  BY <1>1, PushBackDetached, Zenon
<1> QED
  BY <1>2, <1>3, SoundList, Zenon DEF s

\* Removing an element of the list the way the mempool does it does not panic, takes
\* out that element only, wherever it stands, and leaves waiting exactly the readers
\* that have nothing to return: a reader of a neighbour that lost its successor waits
\* again, on a fresh wait group.
THEOREM RemoveTakesOne ==
  ASSUME NEW l, Sound(l), NEW e \in Elems \ l.removed
  PROVE  /\ ~RemovePanics(l, e)
         /\ Sound(Unlink(l, e))
         /\ \E i \in 1..l.len : /\ Elements(l)[i] = e
                                /\ Elements(Unlink(l, e)) = Without(Elements(l), i)
<1> DEFINE s == Elements(l)
<1>1. l \in Lists /\ s \in Seq(Elems) /\ IsListOf(l, s) /\ WaitersWake(l) /\ Detached(l)
  BY Zenon DEF Sound, WellLinked
<1> HIDE DEF s
<1>2. PICK i \in 1..Len(s) : s[i] = e
  BY <1>1, Zenon DEF IsListOf
<1>3. Len(s) = l.len
  BY <1>1, Zenon DEF IsListOf
<1>4. /\ ~RemovePanics(l, s[i])
      /\ Unlink(l, s[i]) \in Lists /\ Without(s, i) \in Seq(Elems)
      /\ IsListOf(Unlink(l, s[i]), Without(s, i)) /\ WaitersWake(Unlink(l, s[i]))
  BY <1>1, RemoveList, Zenon
<1>a. Detached(Unlink(l, s[i]))
  BY <1>1, RemoveDetached, Zenon
<1>5. Sound(Unlink(l, e)) /\ Elements(Unlink(l, e)) = Without(s, i)
  BY <1>2, <1>4, <1>a, SoundList, Zenon
<1> QED
  BY <1>2, <1>3, <1>4, <1>5, Zenon DEF s
=============================================================================
