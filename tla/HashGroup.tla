------------------------------ MODULE HashGroup -----------------------------
(***************************************************************************)
(* vectorwise::HashGroup (src/vectorwise/Operators.cpp), run by all        *)
(* workers of a group.  In phase 1 a worker groups the tuples of its child *)
(* in a table of its own and spills the groups, by hash partition, to a    *)
(* storage that only it writes.  Behind a barrier, the workers draw        *)
(* partitions from a shared counter; whoever draws one groups what all     *)
(* workers have spilled to it, and returns the groups block by block.      *)
(***************************************************************************)
EXTENDS GroupLookup

CONSTANTS
  Workers,
  NrPartitions,  \* nrPartitions, rounded up to what PartitionedDeque creates
  VecSize,       \* vecSize
  MaxFill,       \* maxFill: when the table of phase 1 is flushed
  Inputs         \* what a child may return: sequences of vectors of keys

ASSUME PartitionsAssumption ==
  NrPartitions \in Nat /\ \A k \in Keys : Hash[k].part \in 0 .. NrPartitions - 1
ASSUME VecSizeAssumption == VecSize \in Nat \ {0}
ASSUME InputsAssumption == Inputs \subseteq Seq(Seq(Keys))

VARIABLES
  input,       \* what the child of each worker returns
  nread,       \* how many of these vectors it has returned
  ngroups,     \* the local variable groups of next(): groups created so far
  groups,      \* the groups in the table of each worker
  blocks,      \* allocations: where each block of them ends
  spill,       \* spillStorage: of each worker, for each partition
  partition,   \* Shared::partition
  mine,        \* cont.partition
  unread,      \* whose storage has to be aggregated into this partition yet
  rows,        \* what is left of the storage that is being aggregated
  iter,        \* cont.iter: the blocks that have been returned
  pc,          \* see Location
  remaining    \* history: the tuples that have not been returned in a group

shared == <<spill, partition>>
source == <<input, nread, ngroups>>
table == <<groups, blocks>>
vars == <<input, nread, ngroups, groups, blocks, spill, partition, mine, unread,
          rows, iter, pc, remaining>>

(***************************************************************************)
(* "consume"    phase 1                     "waiting"    in barrier()      *)
(* "partition"  a partition is drawn        "aggregate"  phase 2           *)
(* "emit"       about to return a block     "return"     behind that       *)
(* "end"        behind EndOfStream                                         *)
(***************************************************************************)
Location == {"consume", "waiting", "partition", "aggregate", "emit", "return", "end"}

\* The nth vector of worker w, as rows: a tuple is named by where it is.
Vector(w, n) ==
  [i \in DOMAIN input[w][n] |-> [key |-> input[w][n][i], tuples |-> {<<w, n, i>>}]]

KeyOf(t) == input[t[1]][t[2]][t[3]]
Tuples ==
  UNION {UNION {{<<w, n, i>> : i \in DOMAIN input[w][n]} : n \in DOMAIN input[w]} : w \in Workers}

Init ==
  /\ input \in [Workers -> Inputs]
  /\ nread  = [w \in Workers |-> 0]
  /\ ngroups = [w \in Workers |-> 0]
  /\ groups = [w \in Workers |-> <<>>]
  /\ blocks = [w \in Workers |-> <<>>]
  /\ spill  = [w \in Workers |-> [p \in 0 .. NrPartitions - 1 |-> <<>>]]
  /\ partition = 0
  /\ mine   = [w \in Workers |-> 0]
  /\ unread = [w \in Workers |-> {}]
  /\ rows   = [w \in Workers |-> <<>>]
  /\ iter   = [w \in Workers |-> 0]
  /\ pc     = [w \in Workers |-> "consume"]
  /\ remaining = Tuples

Goto(w, l) == pc' = [pc EXCEPT ![w] = l]

\* The table behind a vector, with a block for the groups that are new.
SetTable(w, all) ==
  /\ groups' = [groups EXCEPT ![w] = all]
  /\ blocks' = [blocks EXCEPT ![w] = IF Len(all) > Len(groups[w]) THEN Append(@, Len(all)) ELSE @]

-----------------------------------------------------------------------------
\* The storage of worker w with its groups flushed: push_back() to the
\* partition that the upper bits of the hash select.
Flushed(w, all) ==
  [p \in 0 .. NrPartitions - 1 |->
     spill[w][p] \o Kept(all, {g \in ToSet(all) : HashOf(g).part = p})]

flushAndClear(w, all) ==
  /\ spill' = [spill EXCEPT ![w] = Flushed(w, all)]
  /\ groups' = [groups EXCEPT ![w] = <<>>]
  /\ blocks' = [blocks EXCEPT ![w] = <<>>]

\* A vector of phase 1; ngroups is not set back when the table is flushed.
ConsumeVector(w) ==
  LET all == AddRows(groups[w], Vector(w, nread[w] + 1))
      count == ngroups[w] + Len(all) - Len(groups[w])
  IN /\ pc[w] = "consume"
     /\ nread[w] < Len(input[w])
     /\ nread' = [nread EXCEPT ![w] = @ + 1]
     /\ ngroups' = [ngroups EXCEPT ![w] = count]
     /\ IF count >= MaxFill
        THEN flushAndClear(w, all)
        ELSE SetTable(w, all) /\ UNCHANGED spill
     /\ UNCHANGED <<input, partition, mine, unread, rows, iter, pc, remaining>>

\* flushAndClear(); barrier();
Arrive(w) ==
  /\ pc[w] = "consume"
  /\ nread[w] = Len(input[w])
  /\ flushAndClear(w, groups[w])
  /\ Goto(w, "waiting")
  /\ UNCHANGED <<source, partition, mine, unread, rows, iter, remaining>>

\* Mutant: phase 2 is begun without waiting for the others.
Leave_NoBarrier(w) ==
  /\ pc[w] = "waiting"
  /\ mine' = [mine EXCEPT ![w] = partition]
  /\ partition' = partition + 1
  /\ Goto(w, "partition")
  /\ UNCHANGED <<source, table, spill, unread, rows, iter, remaining>>

\* The barrier opens when all have arrived;
\* cont.partition = shared.partition.fetch_add(1);
Leave(w) ==
  /\ pc[w] = "waiting"
  /\ \A u \in Workers : pc[u] # "consume"
  /\ mine' = [mine EXCEPT ![w] = partition]
  /\ partition' = partition + 1
  /\ Goto(w, "partition")
  /\ UNCHANGED <<source, table, spill, unread, rows, iter, remaining>>

\* for (; cont.partition < nrPartitions;)  if (cont.partitionNeedsAggregation)
BeginPartition(w) ==
  /\ pc[w] = "partition"
  /\ mine[w] < NrPartitions
  /\ unread' = [unread EXCEPT ![w] = Workers]
  /\ Goto(w, "aggregate")
  /\ UNCHANGED <<source, table, shared, mine, rows, iter, remaining>>

\* return EndOfStream;
End(w) ==
  /\ pc[w] = "partition"
  /\ mine[w] >= NrPartitions
  /\ Goto(w, "end")
  /\ UNCHANGED <<source, table, shared, mine, unread, rows, iter, remaining>>

\* The next of the thread local partitions, in whatever order they are.
OpenSpill(w, u) ==
  /\ pc[w] = "aggregate"
  /\ rows[w] = <<>>
  /\ u \in unread[w]
  /\ unread' = [unread EXCEPT ![w] = @ \ {u}]
  /\ rows' = [rows EXCEPT ![w] = spill[u][mine[w]]]
  /\ UNCHANGED <<source, table, shared, mine, iter, pc, remaining>>

\* n = std::min(nPart, vecSize) rows of it.
AggregateVector(w) ==
  LET n == IF Len(rows[w]) <= VecSize THEN Len(rows[w]) ELSE VecSize
  IN /\ pc[w] = "aggregate"
     /\ rows[w] # <<>>
     /\ SetTable(w, AddRows(groups[w], SubSeq(rows[w], 1, n)))
     /\ rows' = [rows EXCEPT ![w] = SubSeq(@, n + 1, Len(@))]
     /\ UNCHANGED <<source, shared, mine, unread, iter, pc, remaining>>

\* The partition is aggregated.
Aggregated(w) ==
  /\ pc[w] = "aggregate"
  /\ rows[w] = <<>>
  /\ unread[w] = {}
  /\ iter' = [iter EXCEPT ![w] = 0]
  /\ Goto(w, "emit")
  /\ UNCHANGED <<source, table, shared, mine, unread, rows, remaining>>

\* The groups of block b of a table: one call of createMissingGroups.
BlockAt(w, b) == SubSeq(groups[w], IF b = 1 THEN 1 ELSE blocks[w][b - 1] + 1, blocks[w][b])

\* The block that has just been returned.
Returned(w) == BlockAt(w, iter[w])

TuplesOf(block) == UNION {g.tuples : g \in ToSet(block)}

\* if (cont.iter != globalAggregation.allocations.end()) ... return n;
ReturnBlock(w) ==
  /\ pc[w] = "emit"
  /\ iter[w] < Len(blocks[w])
  /\ iter' = [iter EXCEPT ![w] = @ + 1]
  /\ Goto(w, "return")
  /\ remaining' = remaining \ TuplesOf(BlockAt(w, iter[w] + 1))
  /\ UNCHANGED <<source, table, shared, mine, unread, rows>>

\* The operator above calls next() again.
CallNext(w) ==
  /\ pc[w] = "return"
  /\ Goto(w, "emit")
  /\ UNCHANGED <<source, table, shared, mine, unread, rows, iter, remaining>>

\* Mutant: the worker goes on with the partition behind its last one.
NextPartition_NotShared(w) ==
  /\ pc[w] = "emit"
  /\ iter[w] = Len(blocks[w])
  /\ groups' = [groups EXCEPT ![w] = <<>>]
  /\ blocks' = [blocks EXCEPT ![w] = <<>>]
  /\ mine' = [mine EXCEPT ![w] = @ + 1]
  /\ Goto(w, "partition")
  /\ UNCHANGED <<source, shared, unread, rows, iter, remaining>>

\* Mutant: the partition is not left.
NextPartition_Stays(w) ==
  /\ pc[w] = "emit"
  /\ iter[w] = Len(blocks[w])
  /\ groups' = [groups EXCEPT ![w] = <<>>]
  /\ blocks' = [blocks EXCEPT ![w] = <<>>]
  /\ Goto(w, "partition")
  /\ UNCHANGED <<source, shared, mine, unread, rows, iter, remaining>>

\* clearHashtable(ht);  cont.partition = shared.partition.fetch_add(1);
NextPartition(w) ==
  /\ pc[w] = "emit"
  /\ iter[w] = Len(blocks[w])
  /\ groups' = [groups EXCEPT ![w] = <<>>]
  /\ blocks' = [blocks EXCEPT ![w] = <<>>]
  /\ mine' = [mine EXCEPT ![w] = partition]
  /\ partition' = partition + 1
  /\ Goto(w, "partition")
  /\ UNCHANGED <<source, spill, unread, rows, iter, remaining>>

Step(w) ==
  \/ ConsumeVector(w)
  \/ Arrive(w)
  \/ Leave(w)
  \/ BeginPartition(w)
  \/ End(w)
  \/ \E u \in Workers : OpenSpill(w, u)
  \/ AggregateVector(w)
  \/ Aggregated(w)
  \/ ReturnBlock(w)
  \/ CallNext(w)
  \/ NextPartition(w)

Terminated == (\A w \in Workers : pc[w] = "end") /\ UNCHANGED vars

Next == (\E w \in Workers : Step(w)) \/ Terminated

Spec == Init /\ [][Next]_vars

\* Worker threads that can run do run.
FairSpec == Spec /\ \A w \in Workers : WF_vars(Step(w))

-----------------------------------------------------------------------------
(***************************************************************************)
(* Every tuple is returned in a group, exactly once, to whichever worker,  *)
(* and all of them before the last worker ends.                            *)
(***************************************************************************)
Result == INSTANCE Handout WITH
  holding  <- [w \in Workers |-> IF pc[w] = "return" THEN TuplesOf(Returned(w)) ELSE {}],
  finished <- {w \in Workers : pc[w] = "end"}

Implements == Result!Spec

\* A group that is returned has all tuples of its key, and no others: it has
\* neither been split between workers, nor been returned before it was whole.
GroupsAreWhole ==
  \A w \in Workers : pc[w] = "return" =>
     \A g \in ToSet(Returned(w)) : g.tuples = {t \in Tuples : KeyOf(t) = g.key}

(***************************************************************************)
(* What "Find group entries for all in flight tuples" (Operators.hpp:317)  *)
(* promises: no tuple is aggregated into the group of another key.  The    *)
(* code breaks it where two keys have the same hash: see htFollow.         *)
(***************************************************************************)
NoForeignTuples ==
  \A w \in Workers : \A g \in ToSet(groups[w]) : \A t \in g.tuples : KeyOf(t) = g.key

\* Every worker comes to the end of its stream.
EveryWorkerEnds == <>(\A w \in Workers : pc[w] = "end")
=============================================================================
