--------------------------- MODULE TyperPipeline ----------------------------
(***************************************************************************)
(* The last pipeline of a compiled query (qXX_hyper): the threads of TBB   *)
(* take morsels of a table and aggregate what the pipeline makes of the    *)
(* rows, either into one total (tbb::parallel_reduce) or into groups:      *)
(* GroupBy (include/hyper/GroupBy.hpp), with a hash table per thread that  *)
(* is spilled to partitions when it is full.                               *)
(*                                                                         *)
(* TBB gives any morsel and any partition to any thread.                   *)
(***************************************************************************)
EXTENDS Relational

CONSTANTS
  Threads,         \* the threads of TBB
  HashNumber(_),   \* the hash of the i-th key of a query
  HashBits,        \* sizeof(hash_t) * 8
  StackSize,       \* Stack::initialSize: 1024
  TableSize,       \* the entries a table is first made for: 1024
  DequeChunk,      \* elements of a chunk of a PartitionedDeque: 1024
  NrDeques         \* partitions that are asked for: nrThreads * 4

\* The hash tables with their Stacks, and the spilled entries.
H == INSTANCE Hashmapx WITH initialSize <- StackSize
D == INSTANCE PartitionedDeque WITH chunkSize <- DequeChunk, hashBits <- HashBits

VARIABLES
  pipe,          \* the pipeline, see Pipeline in Relational; with the hashes of its keys
  morsel,        \* how many morsels (here: rows) the threads have taken
  sums,          \* parallel_reduce: the sum of each thread that has one
  tables,        \* GroupBy::groups and entries, of each thread that has them
  spillStorage,  \* GroupBy::partitionedDeques, of each thread that has one
  toSpill,       \* the threads whose entries spillAll() has still to spill
  partitions,    \* the partitions that have not been aggregated
  output,        \* the result: a BlockRelation of groups
  stage          \* "idle", "scan", "spill", "aggregate" or "done"

typerVars ==
  <<pipe, morsel, sums, tables, spillStorage, toSpill, partitions, output, stage>>

Empty == <<>>    \* no thread-local object exists before its thread asks for it

TyperInit ==
  /\ pipe = Pipeline(<<>>, <<>>, <<>>, FALSE)
  /\ morsel = 0
  /\ sums = Empty /\ tables = Empty /\ spillStorage = Empty
  /\ toSpill = {}
  /\ partitions = {}
  /\ output = <<>>
  /\ stage = "idle"

\* hash(key), for the keys that the pipeline consumes.
Hashed(p) ==
  LET keys == SetToSeq({pair.key : pair \in UNION {ToSet(c) : c \in ToSet(p.consumed)}})
  IN  [key \in ToSet(keys) |-> HashNumber(CHOOSE i \in DOMAIN keys : keys[i] = key)]

\* The pipelines before the last have built their hash tables, in morsels that
\* end before the next begins: see Build in Relational.
StartTyper(p) ==
  /\ stage = "idle"
  /\ pipe' = p @@ [hash |-> Hashed(p)]
  /\ stage' = "scan"
  /\ UNCHANGED <<morsel, sums, tables, spillStorage, toSpill, partitions, output>>

----------------------------------------------------------------------------
\* update(*group, value), for the group at its place in the Stack.
Updated(locals, group, val) ==
  [locals EXCEPT !.entries.chunks[group[1]][group[2]].val = Plus(@, val)]

init(val) == [i \in DOMAIN val |-> 0]

\* Locals::spill()
Spilled(deque, entries) == FoldLeft(D!push_back, deque, H!Elements(entries))

\* Whether a table is to be spilled, or to grow, before it takes a group.
Full(locals) == locals.groups.nrEntries >= H!MaxFill(locals.groups)

\* Mutant: the entries stay in the Stack when they are spilled.
consume_NotCleared(locals, pair) ==
  LET spill(l) ==
        IF Full(l)
        THEN [l EXCEPT !.deque = Spilled(@, l.entries), !.groups = H!Clear(@)]
        ELSE l
      made == H!findOrCreate(locals, spill(locals), pair.key, pipe.hash[pair.key],
                             init(pair.val))
  IN  Updated(made.locals, made.group, pair.val)

\* Locals::consume: a table that is full is spilled and emptied before a group is
\* created.
consume(locals, pair) ==
  LET spill(l) ==
        IF Full(l)
        THEN [deque |-> Spilled(l.deque, l.entries),
              groups |-> H!Clear(l.groups), entries |-> H!clear(l.entries)]
        ELSE l
      made == H!findOrCreate(locals, spill(locals), pair.key, pipe.hash[pair.key],
                             init(pair.val))
  IN  Updated(made.locals, made.group, pair.val)

\* What a thread finds, or makes, when it asks for its table and its deque.
TableOf(t) ==
  IF t \in DOMAIN tables THEN tables[t]
  ELSE [groups |-> H!setSize(TableSize), entries |-> H!NewStack]
DequeOf(t) ==
  IF t \in DOMAIN spillStorage THEN spillStorage[t] ELSE D!postConstruct(NrDeques)

\* A morsel: preAggLocals(), and consume() for what the pipeline makes of it.
ConsumeMorsel(t) ==
  LET locals == [groups |-> TableOf(t).groups, entries |-> TableOf(t).entries,
                 deque |-> DequeOf(t)]
      st == FoldLeft(consume, locals, pipe.consumed[morsel + 1])
  IN  /\ stage = "scan" /\ ~pipe.total
      /\ morsel < Len(pipe.consumed)
      /\ morsel' = morsel + 1
      /\ tables' = (t :> [groups |-> st.groups, entries |-> st.entries]) @@ tables
      /\ spillStorage' = (t :> st.deque) @@ spillStorage
      /\ UNCHANGED <<pipe, sums, toSpill, partitions, output, stage>>

\* The end of the parallel_for, and the begin of forallGroups().
StartSpill ==
  /\ stage = "scan" /\ ~pipe.total
  /\ morsel = Len(pipe.consumed)
  /\ stage' = "spill"
  /\ toSpill' = DOMAIN tables
  /\ UNCHANGED <<pipe, morsel, sums, tables, spillStorage, partitions, output>>

\* spillAll(): thread t spills the entries of thread u to its own partitions.
Spill(t, u) ==
  /\ stage = "spill"
  /\ u \in toSpill
  /\ toSpill' = toSpill \ {u}
  /\ spillStorage' = (t :> Spilled(DequeOf(t), tables[u].entries)) @@ spillStorage
  /\ UNCHANGED <<pipe, morsel, sums, tables, partitions, output, stage>>

\* The partitions are those of the first deque; the morsels have made one.
StartAggregate ==
  /\ stage = "spill"
  /\ toSpill = {}
  /\ stage' = "aggregate"
  /\ partitions' = DOMAIN spillStorage[CHOOSE t \in DOMAIN spillStorage : TRUE].partitions
  /\ UNCHANGED <<pipe, morsel, sums, tables, spillStorage, toSpill, output>>

\* grow(): a larger table with the entries there are.
grow(locals) ==
  [locals EXCEPT !.groups = H!insertAll(H!setSize(2 * @.nrEntries), locals.entries)]

\* A spilled entry is added to the group of its key.
Add(locals, e) ==
  LET growIfFull(l) == IF Full(l) THEN grow(l) ELSE l
      made == H!findOrCreate(locals, growIfFull(locals), e.key, e.hash, init(e.val))
  IN  Updated(made.locals, made.group, e.val)

\* Partition p of all deques.
SpilledIn(p) ==
  LET deques == SetToSeq(DOMAIN spillStorage)
  IN  FlattenSeq([i \in DOMAIN deques |-> D!InPartition(spillStorage[deques[i]], p)])

\* The consumer of forallGroups(): a block for the groups, if there are any.
WriteBlock(rel, entries) ==
  IF H!empty(entries) THEN rel
  ELSE B!Written(B!createBlock(rel, H!size(entries)), Len(rel) + 1, H!Elements(entries))

\* Mutant: the Stack still has the groups that the thread has had before.
Aggregate_OldGroups(t, p) ==
  LET locals == FoldLeft(Add, [TableOf(t) EXCEPT !.groups = H!Clear(@)], SpilledIn(p))
  IN  /\ stage = "aggregate"
      /\ p \in partitions
      /\ partitions' = partitions \ {p}
      /\ tables' = (t :> locals) @@ tables
      /\ output' = WriteBlock(output, locals.entries)
      /\ UNCHANGED <<pipe, morsel, sums, spillStorage, toSpill, stage>>

\* Thread t aggregates partition p of all deques in its own table, emptied; the
\* table grows when it is full.
Aggregate(t, p) ==
  LET emptied == [groups |-> H!Clear(TableOf(t).groups), entries |-> H!clear(TableOf(t).entries)]
      locals == FoldLeft(Add, emptied, SpilledIn(p))
  IN  /\ stage = "aggregate"
      /\ p \in partitions
      /\ partitions' = partitions \ {p}
      /\ tables' = (t :> locals) @@ tables
      /\ output' = WriteBlock(output, locals.entries)
      /\ UNCHANGED <<pipe, morsel, sums, spillStorage, toSpill, stage>>

AggregateDone ==
  /\ stage = "aggregate"
  /\ partitions = {}
  /\ stage' = "done"
  /\ UNCHANGED <<pipe, morsel, sums, tables, spillStorage, toSpill, partitions, output>>

----------------------------------------------------------------------------
\* tbb::parallel_reduce: a thread adds to a sum of its own, which begins with the
\* identity, and the sums are added in the end.
Reduce(t) ==
  LET add(sum, pair) == Plus(sum, pair.val)
      zero == [i \in DOMAIN pipe.vals |-> 0]
  IN  /\ stage = "scan" /\ pipe.total
      /\ morsel < Len(pipe.consumed)
      /\ morsel' = morsel + 1
      /\ sums' = (t :> FoldLeft(add, IF t \in DOMAIN sums THEN sums[t] ELSE zero,
                                pipe.consumed[morsel + 1])) @@ sums
      /\ UNCHANGED <<pipe, tables, spillStorage, toSpill, partitions, output, stage>>

\* The result is there without any row, too.
ReduceDone ==
  LET zero == [i \in DOMAIN pipe.vals |-> 0]
      total == FoldLeft(LAMBDA sum, t : Plus(sum, sums[t]), zero, SetToSeq(DOMAIN sums))
  IN  /\ stage = "scan" /\ pipe.total
      /\ morsel = Len(pipe.consumed)
      /\ stage' = "done"
      /\ output' = B!Written(B!createBlock(output, 1), Len(output) + 1,
                             << [key |-> <<>>, val |-> total] >>)
      /\ UNCHANGED <<pipe, morsel, sums, tables, spillStorage, toSpill, partitions>>

TyperNext ==
  \/ \E t \in Threads : ConsumeMorsel(t) \/ Reduce(t)
  \/ StartSpill
  \/ \E t, u \in Threads : Spill(t, u)
  \/ StartAggregate
  \/ \E t \in Threads : \E p \in partitions : Aggregate(t, p)
  \/ AggregateDone
  \/ ReduceDone

\* The rows of the result: the key and the value parts by their names.
RowOf(group) ==
  [a \in ToSet(pipe.keys) \cup ToSet(pipe.vals) |->
     IF \E i \in DOMAIN pipe.keys : pipe.keys[i] = a
     THEN group.key[CHOOSE i \in DOMAIN pipe.keys : pipe.keys[i] = a]
     ELSE group.val[CHOOSE i \in DOMAIN pipe.vals : pipe.vals[i] = a]]

TyperRows == [i \in DOMAIN B!Rows(output) |-> RowOf(B!Rows(output)[i])]

----------------------------------------------------------------------------
\* What is in all places that groups are in between the scan and the result.
InFlight ==
  LET inTables == {<<"table", t, H!Elements(tables[t].entries)>> :
                     t \in IF stage = "spill" THEN toSpill ELSE DOMAIN tables}
      spilledIn(ps) == {<<"spilled", p, SpilledIn(p)>> : p \in ps}
  IN  IF stage \in {"idle", "scan", "spill"}
      THEN inTables \cup spilledIn(UNION {DOMAIN spillStorage[t].partitions :
                                           t \in DOMAIN spillStorage})
      ELSE spilledIn(partitions) \cup {<<"output", 0, B!Rows(output)>>}

\* Nothing is lost and nothing counted twice between the thread-local tables, the
\* spilled partitions and the result, whichever thread does what: at any time,
\* together they hold the groups of the rows taken so far.
TyperKeepsAll ==
  ~pipe.total =>
    Groups(FlattenSeq([i \in 1 .. morsel |-> pipe.consumed[i]]))
      = Groups(FlattenSeq(LET places == SetToSeq(InFlight)
                          IN  [i \in DOMAIN places |-> places[i][3]]))
=============================================================================
