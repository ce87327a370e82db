------------------------------ MODULE Indexer ------------------------------
(***************************************************************************)
(* The searches of the two indexes that IndexerService writes: Search of   *)
(* the transaction index (state/txindex/kv) and of the block index         *)
(* (state/indexer/block/kv), the query ranges they share (state/indexer)   *)
(* and TxSearch and BlockSearch of the RPC client with their pages.        *)
(*                                                                         *)
(* Values hold no separator "/", and every transaction of the chain is a   *)
(* different one: the searches of the code are not exact otherwise.        *)
(***************************************************************************)
EXTENDS IndexerService, FiniteSets, SequencesExt, FiniteSetsExt

CONSTANTS
  ContainsPairs,    \* <<s, t>> when string s contains string t
  IntWidth,         \* the width of int64 in the model
  DefaultPerPage,   \* defaultPerPage of rpc/client (30)
  MaxPerPage,       \* maxPerPage of rpc/client (100)
  TxQueries,        \* the transaction queries that are asked
  BlockQueries      \* the block queries that are asked

TxHashKey == <<"tx", "hash">>

Int64(n) == ((n + 2^(IntWidth - 1)) % 2^IntWidth) - 2^(IntWidth - 1)

-----------------------------------------------------------------------------
(* Query ranges.  A condition is [key, op, val]; a bound that is nil is {}. *)

IsRangeOperation(op) == op \in {">", ">=", "<", "<="}

NoRange == [lower |-> {}, upper |-> {}, includeLower |-> FALSE, includeUpper |-> FALSE]

\* The bound of a later condition replaces the one of an earlier; a flag stays set.
AddBound(r, c) ==
  IF c.op \in {">", ">="}
  THEN [r EXCEPT !.lower = {Num[c.val]}, !.includeLower = @ \/ c.op = ">="]
  ELSE [r EXCEPT !.upper = {Num[c.val]}, !.includeUpper = @ \/ c.op = "<="]

\* The range that the conditions set for a key.
LookForRanges(conds) ==
  [k \in {c.key : c \in {d \in Range(conds) : IsRangeOperation(d.op)}} |->
     FoldLeft(AddBound, NoRange,
              SelectSeq(conds, LAMBDA c : c.key = k /\ IsRangeOperation(c.op)))]

\* Mutant: an exclusive bound is taken as an inclusive one.
LowerBoundValue_Includes(r) == r.lower

LowerBoundValue(r) == {IF r.includeLower THEN n ELSE Int64(n + 1) : n \in r.lower}

UpperBoundValue(r) == {IF r.includeUpper THEN n ELSE Int64(n - 1) : n \in r.upper}

InRange(v, r) ==
  /\ v \in DOMAIN Num
  /\ \A n \in LowerBoundValue(r) : Num[v] >= n
  /\ \A n \in UpperBoundValue(r) : Num[v] <= n

-----------------------------------------------------------------------------
(* Search of the two indexes: what each condition finds is intersected. *)

Intersect(found) == {x \in UNION found : \A s \in found : x \in s}

Others(conds) == {c \in Range(conds) : ~IsRangeOperation(c.op)}

lookForHash(conds) == SelectSeq(conds, LAMBDA c : c.key = TxHashKey)

\* The height of the first condition tx.height = H, or 0.
lookForHeight(conds) ==
  LET eqs == SelectSeq(conds, LAMBDA c : c.key = TxHeightKey /\ c.op = "=")
  IN  IF eqs = <<>> THEN 0 ELSE Num[Head(eqs).val]

startKeyForCondition(c, height) ==
  IF height > 0 THEN <<c.key, c.val, Dec(height)>> ELSE <<c.key, c.val>>

TxMatch(c, height) ==
  {row.hash : row \in {r \in txIndex.rows :
     CASE c.op = "=" -> IsPrefix(startKeyForCondition(c, height), r.key)
       [] c.op = "EXISTS" -> r.key[1] = c.key
       [] c.op = "CONTAINS" -> r.key[1] = c.key /\ <<r.key[2], c.val>> \in ContainsPairs}}

TxMatchRange(k, range) ==
  {row.hash : row \in {r \in txIndex.rows : r.key[1] = k /\ InRange(r.key[2], range)}}

\* The results that are stored under the hashes.
GetResults(hashes) == {r \in txIndex.results : r.hash \in hashes}

TxIndexSearch(conds) ==
  LET ranges == LookForRanges(conds)
      byHash == lookForHash(conds)
  IN  IF byHash # <<>>
      THEN GetResults({Head(byHash).val})
      ELSE GetResults(Intersect({TxMatchRange(k, ranges[k]) : k \in DOMAIN ranges}
                           \cup {TxMatch(c, lookForHeight(conds)) : c \in Others(conds)}))

\* The value in a row of key k: the height of a primary key is formatted.
RowValue(k, row) == IF k = BlockHeightKey THEN Dec(row.key[2]) ELSE row.key[2]

BlockMatch(c) ==
  {row.height : row \in {r \in blockIndex : r.key[1] = c.key /\
     CASE c.op = "=" -> r.key[2] = c.val
       [] c.op = "EXISTS" -> TRUE
       [] c.op = "CONTAINS" -> c.key # BlockHeightKey /\ <<r.key[2], c.val>> \in ContainsPairs}}

BlockMatchRange(k, range) ==
  {row.height : row \in {r \in blockIndex : r.key[1] = k /\ InRange(RowValue(k, r), range)}}

\* A condition block.height = H decides alone.
BlockIndexSearch(conds) ==
  LET ranges == LookForRanges(conds)
      byHeight == SelectSeq(conds, LAMBDA c : c.key = BlockHeightKey /\ c.op = "=")
      found == IF byHeight # <<>>
               THEN {Num[Head(byHeight).val]}
               ELSE Intersect({BlockMatchRange(k, ranges[k]) : k \in DOMAIN ranges}
                                \cup {BlockMatch(c) : c \in Others(conds)})
  IN  {h \in found : Has(h)}

-----------------------------------------------------------------------------
(* The pages of the RPC client.  A page or a size that is not given is 0; a page *)
(* is the set of its one sequence of items, and {} is the error.              *)

\* Division of Go rounds towards zero.
Quotient(a, b) == IF a >= 0 THEN a \div b ELSE -((-a) \div b)

validatePerPage(n) == IF n < 1 THEN DefaultPerPage ELSE Min({n, MaxPerPage})

\* The number of pages; one page even if it is empty.
PageCount(perPage, total) == LET n == Quotient(total - 1, perPage) + 1 IN IF n = 0 THEN 1 ELSE n

validatePage(page, perPage, total) ==
  IF page <= 0 THEN 1 ELSE IF page > PageCount(perPage, total) THEN -1 ELSE page

validateSkipCount(page, perPage) == Max({0, (page - 1) * perPage})

Paginate(results, pageArg, perPageArg) ==
  LET perPage == validatePerPage(perPageArg)
      page == validatePage(pageArg, perPage, Len(results))
      skipCount == validateSkipCount(page, perPage)
      pageSize == Min({perPage, Len(results) - skipCount})
  IN  IF page = -1 THEN {} ELSE {SubSeq(results, skipCount + 1, skipCount + pageSize)}

TxBefore(a, b) == a.height < b.height \/ (a.height = b.height /\ a.index < b.index)

\* The results in order, as a page is given: an unknown order is an error.
InOrder(asc, order) ==
  CASE order \in {"asc", ""} -> {asc} [] order = "desc" -> {Reverse(asc)} [] OTHER -> {}

\* The sorted results of TxSearch and BlockSearch.
TxSearchResults(conds, order) == InOrder(SetToSortSeq(TxIndexSearch(conds), TxBefore), order)

BlockSearchResults(conds, order) == InOrder(SetToSortSeq(BlockIndexSearch(conds), <), order)

TxSearch(results, page, perPage) == UNION {Paginate(r, page, perPage) : r \in results}

\* BlockSearch loads the blocks of the page, and fails if one was pruned: the store
\* has the blocks from its base on, and the indexes are never pruned.
BlockSearch(results, page, perPage, base) ==
  {heights \in UNION {Paginate(r, page, perPage) : r \in results} :
     \A i \in DOMAIN heights : heights[i] >= base}

-----------------------------------------------------------------------------
(* What the searches are for: the reference reads the chain, not the indexes. *)

Compare(op, a, b) ==
  CASE op = ">" -> a > b [] op = ">=" -> a >= b [] op = "<" -> a < b [] op = "<=" -> a <= b

Holds(c, v) ==
  CASE IsRangeOperation(c.op) -> v \in DOMAIN Num /\ Compare(c.op, Num[v], Num[c.val])
    [] c.op = "=" -> v = c.val
    [] c.op = "EXISTS" -> TRUE
    [] c.op = "CONTAINS" -> <<v, c.val>> \in ContainsPairs

\* One attribute is in all the ranges of its key, and one meets each other condition.
Meets(attrs, conds) ==
  LET ranged == {c \in Range(conds) : IsRangeOperation(c.op)}
  IN  /\ \A d \in ranged : \E a \in attrs :
           a[1] = d.key /\ \A c \in ranged : c.key = d.key => Holds(c, a[2])
      /\ \A c \in Others(conds) : \E a \in attrs : a[1] = c.key /\ Holds(c, a[2])

Attrs(events) == {<<CompositeKey(e), e.value>> : e \in IndexedAttrs(events)}

TxAttrs(h, i) ==
  Attrs(Chain[h].txs[i].events)
    \cup {<<TxHeightKey, Dec(h)>>, <<TxHashKey, Chain[h].txs[i].hash>>}

BlockAttrs(h) == Attrs(Chain[h].begin \o Chain[h].end) \cup {<<BlockHeightKey, Dec(h)>>}

\* Each key has one lower and one upper bound at most, and an exclusive bound is
\* not the last number of its width: LookForRanges keeps the flag of an earlier
\* bound, and the sums of the bounds wrap.
Plain(conds) ==
  /\ \A i, j \in DOMAIN conds :
       i # j /\ conds[i].key = conds[j].key
         => ~({conds[i].op, conds[j].op} \subseteq {">", ">="} \/ {conds[i].op, conds[j].op} \subseteq {"<", "<="})
  /\ \A c \in Range(conds) : c.op = ">" => Num[c.val] # 2^(IntWidth - 1) - 1
  /\ \A c \in Range(conds) : c.op = "<" => Num[c.val] # -(2^(IntWidth - 1))

\* The conditions that decide: a hash, or the height of a block, decides alone.
Deciding(conds, key, ops) ==
  LET sole == SelectSeq(conds, LAMBDA c : c.key = key /\ c.op \in ops)
  IN  IF sole = <<>> THEN conds ELSE <<Head(sole)>>

\* The blocks that passed through a step of the service that did not fail.
BlocksIn == {h \in 1..bus.height : heightKey(h) \in {row.key : row \in blockIndex}}
BatchesIn == {h \in 1..bus.height : \E r \in txIndex.results : r.height = h}

\* All pages, in order, are the answer, and there is no page after them.
PagesAre(Search(_, _), answer) ==
  \A perPage \in 0..(MaxPerPage + 1) :
    LET page == [n \in 0..(Len(answer) + 2) |-> Search(n, perPage)]
        last == Max({0} \cup {n \in DOMAIN page : page[n] # {}})
    IN  /\ page[0] = page[1]
        /\ \A n \in 1..last : page[n] # {}
        /\ FlattenSeq([n \in 1..last |-> CHOOSE items \in page[n] : TRUE]) = answer
        /\ last > 1 => page[last] # {<<>>}

\* The pages of TxSearch (rpc/client/client.go) are, in the order asked for, the
\* transactions of all indexed batches whose events meet every condition of the
\* query, each once, whatever was published, lost or cancelled before; and the
\* pages of BlockSearch are the indexed blocks whose events do, as long as the
\* store was not pruned beyond the first of them.
PagesAreTheAnswer ==
  \A order \in {"", "desc"} :
    /\ \A q \in TxQueries : Plain(q) =>
         LET conds == Deciding(q, TxHashKey, {"="})
             found == UNION {{TxResult(h, i) : i \in {j \in 1..NumTxs(h) : Meets(TxAttrs(h, j), conds)}} :
                             h \in BatchesIn}
             results == TxSearchResults(q, order)
         IN  \A answer \in InOrder(SetToSortSeq(found, TxBefore), order) :
               PagesAre(LAMBDA page, perPage : TxSearch(results, page, perPage), answer)
    /\ \A q \in BlockQueries : Plain(q) =>
         LET conds == Deciding(q, BlockHeightKey, {"="})
             found == {h \in BlocksIn : Meets(BlockAttrs(h), conds)}
             results == BlockSearchResults(q, order)
             base == Min(found \cup {bus.height})
         IN  \A answer \in InOrder(SetToSortSeq(found, <), order) :
               PagesAre(LAMBDA page, perPage : BlockSearch(results, page, perPage, base), answer)
=============================================================================
