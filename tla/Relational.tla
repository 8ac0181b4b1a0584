----------------------------- MODULE Relational -----------------------------
(***************************************************************************)
(* Tables, and what the queries say of them.  A database is a record of    *)
(* tables, a table the sequence of its rows.  The rows of a table differ in*)
(* its primary key, so where the order does not matter it is a set.        *)
(***************************************************************************)
EXTENDS Integers, Sequences, SequencesExt, FiniteSetsExt, TLC

CONSTANT MinBlock    \* BlockRelation::minBlockSize: 128

\* The results of the queries.
B == INSTANCE BlockRelation WITH minBlockSize <- MinBlock

\* Numbers carry the two digits behind the point of their columns.
one == 100
DiscPrice(l) == l.l_extendedprice * (one - l.l_discount)

\* "select Group, sum(Val) from S group by Group" as a set of records.
GroupedBy(S, Group(_), Val(_)) ==
  LET keys == {Group(t) : t \in S}
      group(k) == {t \in S : Group(t) = k}
      sums(k) == LET vals == Val(CHOOSE t \in group(k) : TRUE)
                 IN  [a \in DOMAIN vals |-> MapThenSumSet(LAMBDA t : Val(t)[a], group(k))]
  IN  {k @@ sums(k) : k \in keys}

\* The same without a group by: no key.
Summed(S, Val(_)) == GroupedBy(S, LAMBDA t : <<>>, Val)

----------------------------------------------------------------------------
(***************************************************************************)
(* What the compiled queries (qXX_hyper) share.  A hash table for a join is*)
(* built from the rows of a table that pass a test (PARALLEL_SCAN,         *)
(* PARALLEL_SELECT, parallel_insert); findOne() gives the value of one     *)
(* entry with the key, contains() tells whether there is one: a function.  *)
(***************************************************************************)
Entry(key, val) == [key |-> key, val |-> val]
Key(key) == Entry(key, {})    \* of a Hashset

Build(entries) ==
  [k \in {e.key : e \in entries} |-> (CHOOSE e \in entries : e.key = k).val]

Has(ht, k) == k \in DOMAIN ht

\* A pipeline that ends in an aggregation: what it consumes for each row of the
\* table it scans, with the names of the key and value parts in the result.  A
\* total is the result of tbb::parallel_reduce, which is there without any row.
Pipeline(consumed, keys, vals, total) ==
  [consumed |-> consumed, keys |-> keys, vals |-> vals, total |-> total]

\* The pipeline over the rows of a table: those that pass the tests of the loop, the
\* domain of `pairs`, give one pair.
ForEach(table, pairs) ==
  [i \in DOMAIN table |-> IF table[i] \in DOMAIN pairs THEN <<pairs[table[i]]>> ELSE <<>>]

\* A finished aggregation over pairs.
Plus(x, y) == [i \in DOMAIN x |-> x[i] + y[i]]
Groups(pairs) ==
  [k \in {pairs[i].key : i \in DOMAIN pairs} |->
     LET ofKey(p) == p.key = k
         own == SelectSeq(pairs, ofKey)
     IN  FoldLeft(LAMBDA acc, p : Plus(acc, p.val), [j \in DOMAIN own[1].val |-> 0], own)]
=============================================================================
