----------------------------- MODULE MCIndexer -----------------------------
(***************************************************************************)
(* The chain and the queries for which TLC checks Indexer.  A transaction  *)
(* has one attribute twice, one that is not indexed and one without a key; *)
(* a block has no transaction, another uses the reserved key.              *)
(***************************************************************************)
EXTENDS Indexer, TLC

Attr(type, key, value, index) == [type |-> type, key |-> key, value |-> value, index |-> index]
AX(v) == Attr("a", "x", v, TRUE)
AY(v) == Attr("a", "y", v, TRUE)

MCChain ==
  <<[txs |-> <<[hash |-> "t1", events |-> <<AX("1"), AX("3"), AY("ab"), Attr("b", "z", "2", FALSE)>>]>>,
     begin |-> <<AX("1")>>, end |-> <<AX("1"), Attr("", "y", "a", TRUE)>>],
    [txs |-> <<>>, begin |-> <<AY("ab")>>, end |-> <<AX("2")>>],
    [txs |-> <<[hash |-> "t2", events |-> <<AX("2"), Attr("a", "", "1", TRUE)>>],
               [hash |-> "t3", events |-> <<AX("a"), AY("a"), AX("2")>>]>>,
     begin |-> <<AX("3")>>, end |-> <<AY("a")>>],
    [txs |-> <<[hash |-> "t4", events |-> <<AX("4")>>]>>,
     begin |-> <<>>, end |-> <<AX("1"), Attr("block", "height", "1", FALSE)>>]>>

MCNum == "0" :> 0 @@ "1" :> 1 @@ "2" :> 2 @@ "3" :> 3 @@ "4" :> 4 @@ "7" :> 7

MCContains == {<<"ab", "a">>, <<"ab", "ab">>, <<"a", "a">>}

Cond(key, op, val) == [key |-> key, op |-> op, val |-> val]

MCConds(heightKeyOf) ==
  <<Cond(<<"a", "x">>, "=", "2"), Cond(<<"a", "x">>, ">", "1"), Cond(<<"a", "x">>, ">=", "2"),
    Cond(<<"a", "x">>, "<", "3"), Cond(<<"a", "x">>, "<=", "7"), Cond(<<"a", "y">>, "EXISTS", ""),
    Cond(<<"a", "y">>, "CONTAINS", "a"), Cond(<<"b", "z">>, "EXISTS", ""),
    Cond(heightKeyOf, "=", "3"), Cond(heightKeyOf, ">", "1"), Cond(heightKeyOf, "<=", "3")>>

\* All single conditions and, of each two, one order.
Queries(conds) ==
  {<<conds[i]>> : i \in DOMAIN conds}
    \cup UNION {{<<conds[i], conds[j]>> : j \in (i + 1)..Len(conds)} : i \in DOMAIN conds}

MCTxQueries == Queries(MCConds(TxHeightKey) \o <<Cond(TxHashKey, "=", "t2")>>)

MCBlockQueries == Queries(MCConds(BlockHeightKey))
=============================================================================
