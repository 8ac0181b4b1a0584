------------------------- MODULE TectorwisePipeline -------------------------
(***************************************************************************)
(* The root of a Tectorwise query, run by all workers of a group           *)
(* (qXX_vectorwise): each has a copy of the operators, built by getQuery().*)
(* The workers take the vectors of one scan, run the pipeline above it, and*)
(* aggregate what comes out.  With a fixed aggregation they add their sums *)
(* to an atomic of the driver, and the leader of a barrier writes the row. *)
(* With a grouping they share the partitions of the groups, and what the   *)
(* operators above it yield goes to the shared result (ResultWriter).      *)
(*                                                                         *)
(* A vector is taken and run in one step, as is a partition; Scan and      *)
(* HashGroup have the steps in between, and JoinTable the build of a table.*)
(***************************************************************************)
EXTENDS Relational, Tectorwise

CONSTANTS
  Workers,          \* of the WorkerGroup
  NrPartitions      \* HashGroup's partitions

VARIABLES
  plan,         \* the operators
  hashTables,   \* the tables of the joins among them
  vectors,      \* the vectors of the scan that feeds the aggregation
  nextVector,   \* how many have been taken
  localGroups,  \* of each worker: the groups it has made
  aggregator,   \* query->aggregator of each worker
  found,        \* n_: what FixedAggr::next() is going to return to each worker
  aggr, n,      \* the atomics of the driver
  arrived,      \* the workers at the barrier behind their input
  unclaimed,    \* the partitions of the groups nobody has taken
  result,       \* a BlockRelation of the rows that have been written
  currentBlock, \* ResultWriter::currentBlock of each worker
  phase         \* "idle", "input", "output" or "done"

tectorwiseVars == <<plan, hashTables, vectors, nextVector, localGroups, aggregator, found,
                    aggr, n, arrived, unclaimed, result, currentBlock, phase>>

TectorwiseInit ==
  /\ plan = <<>> /\ hashTables = <<>> /\ vectors = <<>>
  /\ nextVector = 0
  /\ localGroups = [w \in Workers |-> <<>>]
  /\ aggregator = [w \in Workers |-> 0]
  /\ found = [w \in Workers |-> 0]
  /\ aggr = 0 /\ n = 0
  /\ arrived = {}
  /\ unclaimed = {}
  /\ result = <<>>
  /\ currentBlock = [w \in Workers |-> 0]
  /\ phase = "idle"

----------------------------------------------------------------------------
\* The aggregation of a plan is its last operator, or a grouping that the last
\* pipeline, which ends in a ResultWriter, takes its vectors from.
IsFixed(p) == Last(p).kind = "fixedaggr"
Aggregation(p) == IF IsFixed(p) THEN Len(p) ELSE Leaf(p, Len(p) - 1)

\* workers.run(...): getQuery(), and the joins build their tables.
StartTectorwise(p, db) ==
  /\ phase = "idle"
  /\ plan' = p
  /\ hashTables' = HashTables(p, db)
  /\ vectors' = Vectors(db[p[Leaf(p, Aggregation(p) - 1)].relation])
  /\ phase' = "input"
  /\ UNCHANGED <<nextVector, localGroups, aggregator, found, aggr, n, arrived, unclaimed, result,
                 currentBlock>>

\* What is aggregated of the next vector: the pipeline may yield none of it, or
\* several vectors.
Input ==
  Pipe(plan, Aggregation(plan) - 1, hashTables, <<vectors[nextVector + 1]>>)

\* FixedAggr::next(): aggr_static_plus() adds a vector to the aggregator and
\* returns whether it has rows; the last answer is the one that stays.
AggregateVector(w) ==
  LET col == plan[Len(plan)].p.col
      next(last, f) == aggr_static_plus(f.n, last.result, Read(f, col))
      st == FoldLeft(next, [result |-> aggregator[w], found |-> found[w]], Input)
  IN  /\ phase = "input" /\ IsFixed(plan)
      /\ w \notin arrived
      /\ nextVector < Len(vectors)
      /\ nextVector' = nextVector + 1
      /\ aggregator' = [aggregator EXCEPT ![w] = st.result]
      /\ found' = [found EXCEPT ![w] = st.found]
      /\ UNCHANGED <<plan, hashTables, vectors, localGroups, aggr, n, arrived, unclaimed,
                     result, currentBlock, phase>>

\* HashGroup::next(), its first phase.
GroupVector(w) ==
  LET op == plan[Aggregation(plan)]
      consume(groups, f) == Consume(op, groups, f)
  IN  /\ phase = "input" /\ ~IsFixed(plan)
      /\ w \notin arrived
      /\ nextVector < Len(vectors)
      /\ nextVector' = nextVector + 1
      /\ localGroups' = [localGroups EXCEPT ![w] = FoldLeft(consume, @, GroupHashes(op, Input))]
      /\ UNCHANGED <<plan, hashTables, vectors, aggregator, found, aggr, n, arrived, unclaimed,
                     result, currentBlock, phase>>

\* if (n_) { aggr.fetch_add(query->aggregator); n.fetch_add(n_); }  barrier();
Deliver(w) ==
  /\ phase = "input" /\ IsFixed(plan)
  /\ w \notin arrived
  /\ nextVector = Len(vectors)
  /\ arrived' = arrived \cup {w}
  /\ IF found[w] > 0 THEN aggr' = aggr + aggregator[w] /\ n' = n + found[w]
                     ELSE UNCHANGED <<aggr, n>>
  /\ UNCHANGED <<plan, hashTables, vectors, nextVector, localGroups, aggregator, found,
                 unclaimed, result, currentBlock, phase>>

\* The leader writes a row, if any worker has found something.
WriteTotal ==
  /\ phase = "input" /\ IsFixed(plan)
  /\ arrived = Workers
  /\ result' = IF n > 0
               THEN B!Written(B!createBlock(result, 1), 1, << Last(plan).name :> aggr >>)
               ELSE result
  /\ phase' = "done"
  /\ UNCHANGED <<plan, hashTables, vectors, nextVector, localGroups, aggregator, found,
                 aggr, n, arrived, unclaimed, currentBlock>>

\* A worker has grouped the rest of its input; it goes to the barrier, ...
GroupsDone(w) ==
  /\ phase = "input" /\ ~IsFixed(plan)
  /\ w \notin arrived
  /\ nextVector = Len(vectors)
  /\ arrived' = arrived \cup {w}
  /\ UNCHANGED <<plan, hashTables, vectors, nextVector, localGroups, aggregator, found, aggr,
                 n, unclaimed, result, currentBlock, phase>>

\* ... which the last one opens.
ShareGroups ==
  /\ phase = "input" /\ ~IsFixed(plan)
  /\ arrived = Workers
  /\ unclaimed' = 0 .. NrPartitions - 1
  /\ phase' = "output"
  /\ UNCHANGED <<plan, hashTables, vectors, nextVector, localGroups, aggregator, found, aggr,
                 n, arrived, result, currentBlock>>

\* A group is in the partition that its hash selects, whoever has made it.
AllHashes == {g.hash : g \in UNION {ToSet(localGroups[w]) : w \in Workers}}
InPartition(p, g) ==
  LET hashes == SetToSeq(AllHashes)
  IN  (CHOOSE i \in DOMAIN hashes : hashes[i] = g.hash) % NrPartitions = p

\* ResultWriter::next(): the rows of a vector, by the names of the attributes.
RowsOf(f, attributes) ==
  [i \in 1..f.n |-> [a \in DOMAIN attributes |-> At(Read(f, attributes[a]), i)]]

\* Mutant: nobody looks how much space the block of the worker has.
WriteVector_AnyBlock(st, f) ==
  LET rel == IF st.block = 0 THEN B!createBlock(st.rel, f.n) ELSE st.rel
      b == IF st.block = 0 THEN Len(rel) ELSE st.block
  IN  [rel |-> B!Written(rel, b, RowsOf(f, Last(plan).attributes)), block |-> b]

\* ResultWriter::next(), one vector: a worker writes to the block it has made last,
\* if the vector fits into it, or to a new one.
WriteVector(st, f) ==
  LET fits == B!spaceRemaining(st.rel, st.block) >= f.n
      rel == IF fits THEN st.rel ELSE B!createBlock(st.rel, f.n)
      b == IF fits THEN st.block ELSE Len(rel)
  IN  [rel |-> B!Written(rel, b, RowsOf(f, Last(plan).attributes)), block |-> b]

\* A worker takes a partition, unites the groups of all workers in it, runs the
\* operators above and writes what they yield.
WriteGroups(w, p) ==
  LET mine(g) == InPartition(p, g)
      workers == SetToSeq(Workers)
      locals == [i \in DOMAIN workers |-> SelectSeq(localGroups[workers[i]], mine)]
      groups == Emit(plan[Aggregation(plan)], locals)
      st == FoldLeft(WriteVector, [rel |-> result, block |-> currentBlock[w]],
                     Pipe(plan, Len(plan) - 1, hashTables, groups))
  IN  /\ phase = "output"
      /\ p \in unclaimed
      /\ unclaimed' = unclaimed \ {p}
      /\ result' = st.rel
      /\ currentBlock' = [currentBlock EXCEPT ![w] = st.block]
      /\ UNCHANGED <<plan, hashTables, vectors, nextVector, localGroups, aggregator, found,
                     aggr, n, arrived, phase>>

\* The barrier of the driver; its leader takes the result.
FinishTectorwise ==
  /\ phase = "output"
  /\ unclaimed = {}
  /\ phase' = "done"
  /\ UNCHANGED <<plan, hashTables, vectors, nextVector, localGroups, aggregator, found, aggr,
                 n, arrived, unclaimed, result, currentBlock>>

TectorwiseNext ==
  \/ \E w \in Workers : AggregateVector(w) \/ GroupVector(w) \/ Deliver(w) \/ GroupsDone(w)
  \/ WriteTotal
  \/ ShareGroups
  \/ \E w \in Workers : \E p \in 0 .. NrPartitions - 1 : WriteGroups(w, p)
  \/ FinishTectorwise
=============================================================================
