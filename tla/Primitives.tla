----------------------------- MODULE Primitives -----------------------------
(***************************************************************************)
(* The vectorized primitives (src/vectorwise/primitives): loops over the   *)
(* n rows of vectors.  What a primitive writes is the sequence it returns; *)
(* places that are not written hold Junk.  The plain loops and their       *)
(* AVX-512 variants, which take Lanes rows at a time and the rest by itself*)
(* or with a mask, are different definitions, as they are in the code.     *)
(***************************************************************************)
EXTENDS Integers, Sequences, SequencesExt, FiniteSetsExt, TLC

CONSTANTS
  Lanes,     \* values in a register: 8 or 16
  Junk       \* what a place of a buffer holds that has not been written

\* A vector of n elements.  (SubSeq has TLC compute them once.)
Vec(n, Element(_)) == SubSeq([i \in 1..n |-> Element(i)], 1, n)

At(vec, i) == IF i \in DOMAIN vec THEN vec[i] ELSE Junk

\* The rows of a loop over registers: i, i + 1, ... of each block, then the rest.
rest(n) == n % Lanes
Blocks(n) ==
  [b \in 1 .. n \div Lanes |-> [lane \in 1 .. Lanes |-> (b - 1) * Lanes + lane]]
    \o << [j \in 1 .. rest(n) |-> n - rest(n) + j] >>
InBlocks(n, vec) ==
  LET rows == FlattenSeq(Blocks(n)) IN [i \in 1..n |-> vec[rows[i]]]

----------------------------------------------------------------------------
\* Selections: the rows that an operator holds for (op[i], for row i); a selsel_
\* primitive looks at the rows of a selection vector only.

Compare(op, x, y) ==
  CASE op = "=" -> x = y
    [] op = "<" -> x < y
    [] op = "<=" -> x <= y
    [] op = ">" -> x > y
    [] op = ">=" -> x >= y
    [] op = "or" -> x \in y         \* sel_equal_to_..._val_or_..._val
    [] op = "contains" -> y \in x   \* of a Varchar, seen as the set of its words

Identity(n) == Vec(n, LAMBDA i : i)

\* if (Op()(...)) result[found++] = i;
Qualifying(idxs, op) == SelectSeq(idxs, LAMBDA i : op[i])
sel_col(n, op) == Qualifying(Identity(n), op)
selsel_col(n, inSel, op) == Qualifying(Vec(n, LAMBDA i : At(inSel, i)), op)

\* The branch-free loop: *result = i; result += decision;  A row that does not
\* qualify is overwritten by the next one, or lies behind what is returned.
sel_col_bf(n, op) ==
  LET step(st, i) == [at |-> st.at + (IF op[i] THEN 1 ELSE 0),
                      written |-> (st.at :> i) @@ st.written]
      end == FoldLeft(step, [at |-> 1, written |-> <<>>], Identity(n))
  IN  Vec(end.at - 1, LAMBDA k : At(end.written, k))

selsel_col_bf(n, inSel, op) ==
  LET places == sel_col_bf(n, [i \in 1..n |-> op[At(inSel, i)]])
  IN  Vec(Len(places), LAMBDA k : At(inSel, places[k]))

\* The lanes of each block for which the comparison holds are compressed and
\* stored behind what has been found so far.
sel_avx512(n, op) ==
  LET blocks == Blocks(n)
  IN  FlattenSeq([b \in DOMAIN blocks |-> Qualifying(blocks[b], op)])

\* The idxs of a block are loaded from inSel, and the column gathered with them.
selsel_avx512(n, inSel, op) ==
  LET blocks == Blocks(n)
      idxs(block) == [lane \in DOMAIN block |-> At(inSel, block[lane])]
  IN  FlattenSeq([b \in DOMAIN blocks |-> Qualifying(idxs(blocks[b]), op)])

----------------------------------------------------------------------------
\* Projections: result[i] from the values of the parameters for row i.

Apply(op, x, y) ==
  CASE op = "+" -> x + y
    [] op = "-" -> x - y
    [] op = "*" -> x * y
    [] op = "year" -> x \div 10000   \* extractYear; a date is written yyyymmdd

proj(n, op, x, y) == Vec(n, LAMBDA i : Apply(op, x[i], y[i]))
proj8(n, op, x, y) == InBlocks(n, proj(n, op, x, y))

\* Mutant: the idxs are ignored.
lookup_sel_Direct(n, idxs, source) == Vec(n, LAMBDA i : At(source, i))

\* target[i] = source[idxs[i]]
lookup_sel(n, idxs, source) == Vec(n, LAMBDA i : At(source, At(idxs, i)))

----------------------------------------------------------------------------
\* Hashes.  They are taken to be free of collisions: the hash of several values
\* is the sequence of them, begun by hash and continued by rehash.

hash(n, input) == Vec(n, LAMBDA i : << At(input, i) >>)
hash_sel(n, inSel, input) == Vec(n, LAMBDA i : << At(input, At(inSel, i)) >>)
rehash(n, result, input) == Vec(n, LAMBDA i : Append(result[i], At(input, i)))
rehash_sel(n, inSel, result, input) ==
  Vec(n, LAMBDA i : Append(result[i], At(input, At(inSel, i))))

hash4(n, input) == InBlocks(n, hash(n, input))
hash4_sel(n, inSel, input) == InBlocks(n, hash_sel(n, inSel, input))
rehash4(n, result, input) == InBlocks(n, rehash(n, result, input))
rehash4_sel(n, inSel, result, input) == InBlocks(n, rehash_sel(n, inSel, result, input))

----------------------------------------------------------------------------
\* Hash table entries.

\* The pairs of an entry and a probe row whose keys are equal, both compacted.
keys_equal(n, entries, idxs, probeKey, offset) ==
  LET equal(i) == entries[i].key[offset] = At(probeKey, At(idxs, i))
      kept == SelectSeq(Identity(n), equal)
  IN  [entries |-> Vec(Len(kept), LAMBDA k : entries[kept[k]]),
       idxs |-> Vec(Len(kept), LAMBDA k : At(idxs, kept[k]))]

\* A column of the entries of a join, by its place in the value part.
gather(n, entries, offset) == Vec(n, LAMBDA i : entries[i].val[offset])

\* The entries that the scatters of a build side write.
scatter(n, keys, vals) == Vec(n, LAMBDA i : [key |-> keys[i], val |-> vals[i]])

\* aggregator = Op()(param1[i], aggregator), and whether there was a row.
aggr_static_plus(n, aggregator, param1) ==
  [result |-> FoldLeft(LAMBDA sum, i : sum + At(param1, i), aggregator, Identity(n)),
   found |-> IF n > 0 THEN 1 ELSE 0]

\* The aggregate of one group: the rows whose entry is the group.
aggr_plus(n, aggregate, entries, entry, param1) ==
  FoldLeft(LAMBDA sum, i : IF entries[i] = entry THEN sum + param1[i] ELSE sum,
           aggregate, Identity(n))
=============================================================================
