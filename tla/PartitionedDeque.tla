-------------------------- MODULE PartitionedDeque --------------------------
(***************************************************************************)
(* runtime::PartitionedDeque (include/common/runtime/PartitionedDeque.hpp):*)
(* copies of entries, in partitions by the upper bits of their hashes.  A  *)
(* partition is a list of chunks of the same size; a chunk is the sequence *)
(* of the elements before "current" in it, if it is the last one.          *)
(***************************************************************************)
EXTENDS Integers, Sequences, SequencesExt

CONSTANTS
  chunkSize,    \* elements of a chunk: 1024
  hashBits      \* sizeof(hash_t) * 8

\* 64 - __builtin_clzll(n)
Bits(n) == CHOOSE e \in 1 .. 64 : 2^(e - 1) <= n /\ n < 2^e

postConstruct(nrPartitions) ==
  [shift |-> hashBits - Bits(nrPartitions),
   partitions |-> [p \in 0 .. 2^Bits(nrPartitions) - 1 |-> <<>>]]

\* Partition::push_back(): a new chunk if there is none or the last is full.
Pushed(partition, e) ==
  IF partition = <<>> \/ Len(Last(partition)) = chunkSize
  THEN Append(partition, <<e>>)
  ELSE [partition EXCEPT ![Len(partition)] = Append(@, e)]

push_back(deque, e) ==
  [deque EXCEPT !.partitions[e.hash \div 2^deque.shift] = Pushed(@, e)]

\* Partition::size(): all chunks but the last are full.
Size(partition, c) == IF c = Len(partition) THEN Len(partition[c]) ELSE chunkSize

InPartition(deque, p) ==
  LET partition == deque.partitions[p]
  IN  FlattenSeq([c \in DOMAIN partition |-> SubSeq(partition[c], 1, Size(partition, c))])
=============================================================================
