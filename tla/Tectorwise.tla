----------------------------- MODULE Tectorwise -----------------------------
(***************************************************************************)
(* What a Tectorwise plan computes.  getQuery() of a query's builder pushes*)
(* operators on a stack (src/vectorwise/QueryBuilder.cpp); a plan is here  *)
(* the sequence of these operators, in the order in which they are pushed, *)
(* and an operator that consumes others finds them in front of it, as      *)
(* popOperator() does.  The operators work on vectors: columns of the      *)
(* current scan vector, and buffers, that earlier operators have filled.   *)
(* Which buffer an operator reads through which selection vector is wired  *)
(* by hand in every query; reading a place that nobody has written for this*)
(* vector gives Junk.                                                      *)
(*                                                                         *)
(* Hashes are taken to be free of collisions here, and a hash table to hold*)
(* what was inserted: Hashjoin, Hashmap and HashGroup are about that.      *)
(***************************************************************************)
EXTENDS Primitives

\* The global `conf`, set from the environment before a query is run, with the
\* vector size that is given to every qXX_vectorwise().
VARIABLE conf

Conf(vectorSize, simd) ==
  [vectorSize |-> vectorSize, useSimdHash |-> simd, useSimdSel |-> simd, useSimdProj |-> simd]

----------------------------------------------------------------------------
\* A frame is what the operators of a pipeline share: the number of current rows,
\* and the columns and buffers by name.

Read(frame, name) == IF name \in DOMAIN frame.v THEN frame.v[name] ELSE <<>>

Write(frame, name, vec) == [frame EXCEPT !.v = (name :> vec) @@ @]

\* What a primitive is given for a parameter: a column or buffer, one that is
\* read through a selection vector, or a value.
C(name) == [col |-> name]
S(sel, name) == [col |-> name, sel |-> sel]
V(value) == [val |-> value]

\* Where a parameter is read for row i, and what is found there; Param: for all rows.
Place(frame, p, i) == IF "sel" \in DOMAIN p THEN At(Read(frame, p.sel), i) ELSE i
Fetch(frame, p, i) ==
  IF "val" \in DOMAIN p THEN p.val ELSE At(Read(frame, p.col), Place(frame, p, i))
Param(frame, p) == Vec(frame.n, LAMBDA i : Fetch(frame, p, i))

----------------------------------------------------------------------------
\* The steps of an expression: the sel_ and selsel_ primitives write the rows
\* that qualify to a selection vector and shrink the vector to them, the proj_
\* and apply_ primitives compute a buffer.

\* `by` says how the query names the primitive: as it is ("plain"), with BF(),
\* which makes it the branch-free one, or by asking conf.

Sel(out, op, x, y) ==
  [kind |-> "sel", out |-> out, op |-> op, x |-> x, y |-> y,
   by |-> IF op = "contains" THEN "plain" ELSE "bf"]
Proj(out, op, x, y) ==
  [kind |-> "proj", out |-> out, op |-> op, x |-> x, y |-> y, by |-> "plain"]
Plain(step) == [step EXCEPT !.by = "plain"]
OfConf(step) == [step EXCEPT !.by = "conf"]

Selected(frame, s) ==
  LET column == Read(frame, s.x.col)
      op == [idx \in DOMAIN column |-> Compare(s.op, column[idx], s.y.val)]
      inSel == Read(frame, s.x.sel)
      input == "sel" \in DOMAIN s.x
      simd == s.by = "conf" /\ conf.useSimdSel
  IN  CASE simd /\ ~input -> sel_avx512(frame.n, op)
        [] simd /\ input -> selsel_avx512(frame.n, inSel, op)
        [] s.by = "plain" /\ ~input -> sel_col(frame.n, op)
        [] s.by = "plain" /\ input -> selsel_col(frame.n, inSel, op)
        [] OTHER -> IF input THEN selsel_col_bf(frame.n, inSel, op) ELSE sel_col_bf(frame.n, op)

Projected(frame, s) ==
  LET x == Param(frame, s.x)
      y == Param(frame, s.y)
  IN  IF s.by = "conf" /\ conf.useSimdProj THEN proj8(frame.n, s.op, x, y)
                                          ELSE proj(frame.n, s.op, x, y)

RunStep(frame, s) ==
  IF s.kind = "sel"
  THEN LET found == Selected(frame, s) IN [Write(frame, s.out, found) EXCEPT !.n = Len(found)]
  ELSE Write(frame, s.out, Projected(frame, s))

RunSteps(frame, steps) == FoldLeft(RunStep, frame, steps)

----------------------------------------------------------------------------
\* The operators, as the builder's methods make them.

Scan(relation) == [kind |-> "scan", relation |-> relation]
Select(steps) == [kind |-> "select", steps |-> steps]
Project(steps) == [kind |-> "project", steps |-> steps]
FixedAggregation(name, p) == [kind |-> "fixedaggr", name |-> name, p |-> p]
HashJoin(probeMatches, calls) ==
  [kind |-> "join", matches |-> probeMatches, calls |-> calls, by |-> "conf"]
HashGroup(calls) == [kind |-> "group", calls |-> calls]
Result(attributes) == [kind |-> "result", attributes |-> attributes]

\* Two plans name the hash primitives of their joins themselves.
PlainHashes(p) == [i \in DOMAIN p |-> IF p[i].kind = "join" THEN Plain(p[i]) ELSE p[i]]

\* The methods of a HashJoinBuilder and a HashGroupBuilder, in the order of the
\* calls.  selEq and scat are the selection vectors of the two long addProbeKey
\* and addKey: the one the key comparison uses, and shrinks, and the one that the
\* key of a new group is copied with.
setProbeSelVector(sel) == [call |-> "probeSel", sel |-> sel]
addBuildKey(p) == [call |-> "buildKey", p |-> p]
addBuildValue(p, target) == [call |-> "buildValue", p |-> p, target |-> target]
addProbeKey(p) == [call |-> "probeKey", p |-> p, selEq |-> ""]
addProbeKeyEq(p, selEq) == [call |-> "probeKey", p |-> p, selEq |-> selEq]
pushProbeSelVector(sel, target) == [call |-> "push", sel |-> sel, target |-> target]
addKey(p, out) == [call |-> "key", p |-> p, scat |-> "", out |-> out]
addKeySel(p, scat, out) == [call |-> "key", p |-> p, scat |-> scat, out |-> out]
addValue(p, out) == [call |-> "value", p |-> p, count |-> FALSE, out |-> out]
addCount(out) == [call |-> "value", p |-> V(1), count |-> TRUE, out |-> out]
pushKeySelVec(sel, target) == [call |-> "push", sel |-> sel, target |-> target]

Calls(op, name) == LET is(c) == c.call = name IN SelectSeq(op.calls, is)

\* The operator stack: where the operators that operator i consumes begin.  A
\* hash join pops its probe side (right) first, then its build side (left).
RECURSIVE Begin(_, _)
Begin(plan, i) ==
  CASE plan[i].kind = "scan" -> i
    [] plan[i].kind = "join" -> Begin(plan, Begin(plan, i - 1) - 1)
    [] OTHER -> Begin(plan, i - 1)

Right(plan, i) == i - 1
Left(plan, i) == Begin(plan, i - 1) - 1

\* Where the pipeline that ends in operator i takes its vectors from: a scan, or a
\* grouping, which has to have seen all of its input.
RECURSIVE Leaf(_, _)
Leaf(plan, i) == IF plan[i].kind \in {"scan", "group"} THEN i ELSE Leaf(plan, i - 1)

----------------------------------------------------------------------------
\* A sequence in pieces of the vector size.
Cut(seq) ==
  LET size == conf.vectorSize
      piece(k) == SubSeq(seq, (k - 1) * size + 1, Min({k * size, Len(seq)}))
  IN  Vec((Len(seq) + size - 1) \div size, piece)

\* Scan: the vectors of a relation, a sequence of rows.
Vectors(rows) ==
  LET cols == IF rows = <<>> THEN {} ELSE DOMAIN rows[1]
      frame(vec) == [n |-> Len(vec), v |-> [c \in cols |-> Vec(Len(vec), LAMBDA i : vec[i][c])]]
      pieces == Cut(rows)
  IN  Vec(Len(pieces), LAMBDA k : frame(pieces[k]))

\* The hashes of keys: the first by a hash primitive, the others by rehash.
Hashes(frame, keys, simd) ==
  LET n == frame.n
      in(p) == Read(frame, p.col)
      inSel(p) == Read(frame, p.sel)
      sels(p) == "sel" \in DOMAIN p
      first(p) == CASE ~simd /\ ~sels(p) -> hash(n, in(p))
                    [] ~simd /\ sels(p) -> hash_sel(n, inSel(p), in(p))
                    [] simd /\ ~sels(p) -> hash4(n, in(p))
                    [] simd /\ sels(p) -> hash4_sel(n, inSel(p), in(p))
      next(h, c) == CASE ~simd /\ ~sels(c.p) -> rehash(n, h, in(c.p))
                      [] ~simd /\ sels(c.p) -> rehash_sel(n, inSel(c.p), h, in(c.p))
                      [] simd /\ ~sels(c.p) -> rehash4(n, h, in(c.p))
                      [] simd /\ sels(c.p) -> rehash4_sel(n, inSel(c.p), h, in(c.p))
  IN  FoldLeft(next, first(keys[1].p), Tail(keys))

\* The hashes go to a buffer of each vector.
WithHashes(frames, buffer, keys, simd) ==
  FoldLeft(LAMBDA seq, f : Append(seq, Write(f, buffer, Hashes(f, keys, simd))), <<>>, frames)

SimdHash(op) == op.by = "conf" /\ conf.useSimdHash

\* The entries of a join's hash table, from the vectors of its build side.
Entries(op, frames) ==
  LET keys == Calls(op, "buildKey")
      vals == Calls(op, "buildValue")
      values(f, i) == Vec(Len(vals), LAMBDA k : Fetch(f, vals[k].p, i))
      scattered(f) == scatter(f.n, Hashes(f, keys, SimdHash(op)),
                              Vec(f.n, LAMBDA i : values(f, i)))
  IN  FoldLeft(LAMBDA seq, f : seq \o scattered(f), <<>>, frames)

ProbeHashes(op, frames) ==
  WithHashes(frames, "probeHashes", Calls(op, "probeKey"), SimdHash(op))

\* joinAll and joinSel: all the pairs of an entry and a probe row with the same
\* hash, cut into vectors.  The probe row is its place in the vector, or with a
\* probe selection vector what that has there.
Matches(op, table, frame) ==
  LET probeHashes == Read(frame, "probeHashes")
      probeSel == Calls(op, "probeSel")
      probe(i) == IF probeSel = <<>> THEN i ELSE At(Read(frame, probeSel[1].sel), i)
      ofRow(i) == LET same(e) == e.key = probeHashes[i]
                      hits == SelectSeq(table, same)
                  IN  Vec(Len(hits), LAMBDA k : [entry |-> hits[k], probe |-> probe(i)])
  IN  Cut(FlattenSeq(Vec(frame.n, ofRow)))

\* keyEquality: the lookups and the key comparisons, in the order in which the
\* builder has appended them.  A comparison shrinks the matched entries and the
\* selection vector it compares with, and no other.
keyEquality(op, frame, entries) ==
  LET nth(j) == Cardinality({k \in 1..j : op.calls[k].call = "probeKey"})
      step(st, j) ==
        LET c == op.calls[j]
            n == st.frame.n
            idxs == IF c.call = "probeKey" /\ c.selEq # "" THEN c.selEq ELSE op.matches
            equal == keys_equal(n, st.entries, Read(st.frame, idxs),
                                Read(st.frame, c.p.col), nth(j))
        IN  CASE c.call = "push" ->
                   [st EXCEPT !.frame =
                      Write(@, c.target, lookup_sel(n, Read(@, op.matches), Read(@, c.sel)))]
              [] c.call = "probeKey" ->
                   [frame |-> [Write(st.frame, idxs, equal.idxs) EXCEPT !.n = Len(equal.idxs)],
                    entries |-> equal.entries]
              [] OTHER -> st
  IN  FoldLeft(step, [frame |-> frame, entries |-> entries], Identity(Len(op.calls)))

\* The columns of the build side, for the entries that are left.
buildGather(op, m) ==
  LET vals == Calls(op, "buildValue")
      column(f, k) == Write(f, vals[k].target, gather(f.n, m.entries, k))
  IN  FoldLeft(column, m.frame, Identity(Len(vals)))

\* Hashjoin::next() after the build: what the join makes of one probe vector.
Probe(op, table, frame) ==
  LET matched(pairs) ==
        keyEquality(op, [Write(frame, op.matches, Vec(Len(pairs), LAMBDA i : pairs[i].probe))
                         EXCEPT !.n = Len(pairs)],
                    Vec(Len(pairs), LAMBDA i : pairs[i].entry))
      pieces == Matches(op, table, frame)
      nonEmpty(f) == f.n > 0
  IN  SelectSeq(Vec(Len(pieces), LAMBDA j : buildGather(op, matched(pieces[j]))), nonEmpty)

----------------------------------------------------------------------------
\* HashGroup: the groups one worker has made of the vectors it has seen.

\* groupHash: conf may choose hash4 for a key of int32, too; the plain hashes are as
\* good.
GroupHashes(op, frames) == WithHashes(frames, "groupHash", Calls(op, "key"), FALSE)

\* New groups are made for the first rows of the keys that are not there yet
\* (groupRepresentatives); the pushed selection vectors are looked up for these
\* rows, and each key is copied with the selection vector named for that.
Consume(op, groups, frame) ==
  LET keys == Calls(op, "key")
      vals == Calls(op, "value")
      groupHash == Read(frame, "groupHash")
      missing == [i \in 1..frame.n |->
                    /\ \A g \in DOMAIN groups : groups[g].hash # groupHash[i]
                    /\ \A j \in 1..(i - 1) : groupHash[j] # groupHash[i]]
      reps == sel_col(frame.n, missing)
      lookedUp(f, c) == Write(f, c.target, lookup_sel(Len(reps), reps, Read(f, c.sel)))
      pushed == FoldLeft(lookedUp, frame, Calls(op, "push"))
      copied(c, j) == IF c.scat = "" THEN At(Read(frame, c.p.col), reps[j])
                      ELSE At(Read(frame, c.p.col), At(Read(pushed, c.scat), j))
      created == Vec(Len(reps), LAMBDA j :
                    [hash |-> groupHash[reps[j]],
                     key |-> Vec(Len(keys), LAMBDA k : copied(keys[k], j)),
                     val |-> Vec(Len(vals), LAMBDA k : 0)])
      updated(g) == [g EXCEPT !.val = Vec(Len(vals), LAMBDA k :
                       aggr_plus(frame.n, @[k], groupHash, g.hash, Param(frame, vals[k].p)))]
  IN  Vec(Len(groups) + Len(reps), LAMBDA g : updated((groups \o created)[g]))

\* The global aggregation unites the groups of all workers that have the same
\* keys, and hands them on in vectors.
Emit(op, locals) ==
  LET keys == Calls(op, "key")
      vals == Calls(op, "value")
      all == FlattenSeq(locals)
      found == SetToSeq({all[g].key : g \in DOMAIN all})
      total(key, k) == FoldLeft(LAMBDA acc, g : IF g.key = key THEN acc + g.val[k] ELSE acc,
                                0, all)
      outs(group) == [name \in {keys[k].out : k \in DOMAIN keys}
                                 \cup {vals[k].out : k \in DOMAIN vals} |->
                       IF \E k \in DOMAIN keys : keys[k].out = name
                       THEN group[CHOOSE k \in DOMAIN keys : keys[k].out = name]
                       ELSE total(group, CHOOSE k \in DOMAIN vals : vals[k].out = name)]
  IN  Vectors(Vec(Len(found), LAMBDA g : outs(found[g])))

----------------------------------------------------------------------------
\* The vectors that operator i yields if its pipeline is given these vectors, and
\* the joins have these hash tables.
RECURSIVE Pipe(_, _, _, _)
Pipe(plan, i, tables, frames) ==
  LET op == plan[i]
      below == Pipe(plan, i - 1, tables, frames)
      nonEmpty(f) == f.n > 0
  IN  CASE i = Leaf(plan, i) -> frames
        [] op.kind = "select" ->
             SelectSeq(Vec(Len(below), LAMBDA k : RunSteps(below[k], op.steps)), nonEmpty)
        [] op.kind = "project" -> Vec(Len(below), LAMBDA k : RunSteps(below[k], op.steps))
        [] op.kind = "join" ->
             FoldLeft(LAMBDA seq, f : seq \o Probe(op, tables[i], f), <<>>, ProbeHashes(op, below))

\* The vectors that operator i yields over the whole of db.
RECURSIVE Exec(_, _, _, _)
Exec(plan, i, tables, db) ==
  LET leaf == Leaf(plan, i)
      consume(groups, f) == Consume(plan[leaf], groups, f)
  IN  Pipe(plan, i, tables,
           IF plan[leaf].kind = "scan" THEN Vectors(db[plan[leaf].relation])
           ELSE LET input == GroupHashes(plan[leaf], Exec(plan, leaf - 1, tables, db))
                IN  Emit(plan[leaf], <<FoldLeft(consume, <<>>, input)>>))

\* The hash table of each join, from its build side, which has been pushed before.
HashTables(plan, db) ==
  LET add(tables, i) ==
        IF plan[i].kind # "join" THEN tables
        ELSE (i :> Entries(plan[i], Exec(plan, Left(plan, i), tables, db))) @@ tables
  IN  FoldLeft(add, <<>>, [i \in DOMAIN plan |-> i])
=============================================================================
