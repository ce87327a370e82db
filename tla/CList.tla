-------------------------------- MODULE CList --------------------------------
(***************************************************************************)
(* The linked list of the mempool (mempool/clist/clist.go): elements with  *)
(* pointers in both directions, the flag removed, and the wait groups that *)
(* block readers until there is a neighbour.  A list is a record and an    *)
(* operation maps it to the next one; the list's mutex makes each          *)
(* operation atomic.  A wait group (and the channel closed with it) is its *)
(* count: 1 while readers wait, 0 after Done; -1, a Go panic, after a      *)
(* second Done.                                                            *)
(***************************************************************************)
EXTENDS Integers, FiniteSets, Sequences

CONSTANTS
  Elems,  \* the elements
  Nil     \* the nil pointer

ASSUME NilAssumption == Nil \notin Elems

\* CList.Init.  An element that does not exist yet counts as removed.
NewList ==
  [head |-> Nil, tail |-> Nil, len |-> 0, wg |-> 1,
   next |-> [e \in Elems |-> Nil], prev |-> [e \in Elems |-> Nil],
   nextWg |-> [e \in Elems |-> 0], prevWg |-> [e \in Elems |-> 0],
   removed |-> Elems]

\* The wait group of a pointer that changes from old to new: a fresh one when the
\* neighbour is lost, Done when there is one for the first time.
Rewait(wg, old, new) ==
  IF old # Nil /\ new = Nil THEN 1
  ELSE IF old = Nil /\ new # Nil THEN wg - 1
  ELSE wg

SetNext(l, e, new) ==
  [l EXCEPT !.next[e] = new, !.nextWg[e] = Rewait(@, l.next[e], new)]

SetPrev(l, e, new) ==
  [l EXCEPT !.prev[e] = new, !.prevWg[e] = Rewait(@, l.prev[e], new)]

\* Wakes whoever waits for a neighbour that will not come.
SetRemoved(l, e) ==
  [l EXCEPT !.removed = @ \cup {e},
            !.prevWg[e] = IF l.prev[e] = Nil THEN @ - 1 ELSE @,
            !.nextWg[e] = IF l.next[e] = Nil THEN @ - 1 ELSE @]

\* The element is new: nothing refers to e.
PushBack(l, e) ==
  LET fresh == [l EXCEPT !.removed = @ \ {e}, !.next[e] = Nil, !.prev[e] = Nil,
                         !.nextWg[e] = 1, !.prevWg[e] = 1,
                         !.wg = IF l.len = 0 THEN @ - 1 ELSE @,
                         !.len = @ + 1]
  IN  IF l.tail = Nil
      THEN [fresh EXCEPT !.head = e, !.tail = e]
      ELSE [SetNext(SetPrev(fresh, e, l.tail), l.tail, e) EXCEPT !.tail = e]

DetachNext(l, e) == [l EXCEPT !.next[e] = Nil]

DetachPrev(l, e) == [l EXCEPT !.prev[e] = Nil]

\* CList.Remove, which keeps e's own pointers.
ListRemove(l, e) ==
  LET prev == l.prev[e]
      next == l.next[e]
      counted == [l EXCEPT !.len = @ - 1, !.wg = IF l.len = 1 THEN 1 ELSE @]
      linked == IF prev = Nil THEN [counted EXCEPT !.head = next]
                ELSE SetNext(counted, prev, next)
      unlinked == IF next = Nil THEN [linked EXCEPT !.tail = prev]
                  ELSE SetPrev(linked, next, prev)
  IN  SetRemoved(unlinked, e)

\* Remove panics on an element that is not in the list, if it can tell.
RemovePanics(l, e) ==
  \/ l.head = Nil \/ l.tail = Nil
  \/ l.prev[e] = Nil /\ l.head # e
  \/ l.next[e] = Nil /\ l.tail # e

\* When the blocking readers return: NextWait, PrevWait, FrontWait (BackWait).
NextWaitReturns(l, e) == l.next[e] # Nil \/ e \in l.removed

PrevWaitReturns(l, e) == l.prev[e] # Nil \/ e \in l.removed

FrontWaitReturns(l) == l.head # Nil

-----------------------------------------------------------------------------
(* What the pointers stand for *)

\* One step further along next; the end stays the end.
Follow(l, w) ==
  IF w.at = Nil THEN w ELSE [at |-> l.next[w.at], seen |-> Append(w.seen, w.at)]

\* The first n elements from e on.
Walk(l, e, n) ==
  LET step[i \in 0..n] ==
        IF i = 0 THEN [at |-> e, seen |-> <<>>] ELSE Follow(l, step[i - 1])
  IN  step[n].seen

\* The elements in order.  One step more than len tells a cycle or an end too late.
Elements(l) == Walk(l, l.head, l.len + 1)

\* The list holds the elements of s, in that order.
IsListOf(l, s) ==
  /\ Len(s) = l.len
  /\ \A e \in Elems : e \notin l.removed <=> \E i \in 1..Len(s) : s[i] = e
  /\ l.head = IF Len(s) = 0 THEN Nil ELSE s[1]
  /\ l.tail = IF Len(s) = 0 THEN Nil ELSE s[Len(s)]
  /\ \A i, j \in 1..Len(s) : s[i] = s[j] => i = j
  /\ \A i \in 1..Len(s) : /\ l.prev[s[i]] = IF i = 1 THEN Nil ELSE s[i - 1]
                          /\ l.next[s[i]] = IF i = Len(s) THEN Nil ELSE s[i + 1]

\* The pointers are those of a sequence, in both directions.
WellLinked(l) == IsListOf(l, Elements(l))

\* A wait group is done exactly when the reader waiting on it may return, and none
\* is done twice: no reader sleeps through what it waits for, nothing panics.
WaitersWake(l) ==
  /\ l.wg = IF FrontWaitReturns(l) THEN 0 ELSE 1
  /\ \A e \in Elems \ l.removed :
       /\ l.nextWg[e] = IF NextWaitReturns(l, e) THEN 0 ELSE 1
       /\ l.prevWg[e] = IF PrevWaitReturns(l, e) THEN 0 ELSE 1
=============================================================================
