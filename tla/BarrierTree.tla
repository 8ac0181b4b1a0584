---------------------------- MODULE BarrierTree -----------------------------
(***************************************************************************)
(* The shape of the tree that HierarchicBarrier::create builds and destroy *)
(* frees (include/common/runtime/Barrier.hpp), and the assignment of the   *)
(* workers to its leaves in WorkerGroup::run (Concurrency.hpp).            *)
(*                                                                         *)
(* create(n) builds the barriers of one level for n participants and calls *)
(* itself for the level above, whose participants are these barriers.  The *)
(* number of participants shrinks from level to level, so the pair         *)
(* <<n, i>> names the i-th barrier of the level with n participants.       *)
(***************************************************************************)
EXTENDS Naturals, FiniteSets, Sequences

CONSTANT ThreadsPerBarrier  \* 8 in the code

ASSUME ThreadsPerBarrierAssumption ==
  ThreadsPerBarrier \in Nat /\ ThreadsPerBarrier >= 2

NoParent == <<0, 0>>

nrBarriersFull(n) == n \div ThreadsPerBarrier
threadsInRestBarrier(n) == n % ThreadsPerBarrier

\* How many barriers the level with n participants has.
nrBarriers(n) ==
  IF n <= ThreadsPerBarrier THEN 1
  ELSE nrBarriersFull(n) + (IF threadsInRestBarrier(n) > 0 THEN 1 ELSE 0)

\* result of create(n), and the barrier at its back().
Level(n) == {<<n, i>> : i \in 0 .. nrBarriers(n) - 1}
Back(n) == <<n, nrBarriers(n) - 1>>

\* The constructor argument nrThreads of a barrier.
threadCount(b) ==
  LET n == b[1] IN
  IF n <= ThreadsPerBarrier THEN n
  ELSE IF b[2] < nrBarriersFull(n) THEN ThreadsPerBarrier
  ELSE threadsInRestBarrier(n)

\* Mutant: the rest barrier hangs under the first barrier of the level above.
Parent_RestUnderFirst(b) ==
  LET n == b[1] IN
  IF n <= ThreadsPerBarrier THEN NoParent
  ELSE IF b[2] < nrBarriersFull(n)
       THEN <<nrBarriers(n), b[2] \div ThreadsPerBarrier>>
  ELSE <<nrBarriers(n), 0>>

\* The parent of a full barrier advances with every ThreadsPerBarrier-th of
\* them; the rest barrier hangs under the last barrier of the level above.
Parent(b) ==
  LET n == b[1] IN
  IF n <= ThreadsPerBarrier THEN NoParent
  ELSE IF b[2] < nrBarriersFull(n)
       THEN <<nrBarriers(n), b[2] \div ThreadsPerBarrier>>
  ELSE Back(nrBarriers(n))

\* Worker i < size - 1 is spawned with barriers[i / threadsPerBarrier]; the
\* calling thread, worker size - 1 here, takes barriers.back().
Leaf(size, i) ==
  IF i < size - 1 THEN <<size, i \div ThreadsPerBarrier>> ELSE Back(size)

\* The numbers of participants of all levels of create(size): a function of
\* the size, by recursion on the size of the level above.
Levels[n \in Nat] ==
  IF n <= ThreadsPerBarrier THEN {n} ELSE {n} \cup Levels[nrBarriers(n)]

Tree(size) == UNION {Level(n) : n \in Levels[size]}

\* Who waits at a barrier: the workers of a leaf, the barriers below others.
Participants(size, b) ==
  IF b[1] = size THEN {i \in 0 .. size - 1 : Leaf(size, i) = b}
  ELSE {c \in Tree(size) : Parent(c) = b}

-----------------------------------------------------------------------------
LevelSeq(n) == [k \in 1 .. nrBarriers(n) |-> <<n, k - 1>>]

\* Mutant: the parent of the last barriers, fewer than threadsPerBarrier, is
\* left out.
parents_OfFull(these) ==
  [k \in 1 .. Len(these) \div ThreadsPerBarrier |-> Parent(these[(k - 1) * ThreadsPerBarrier + 1])]

\* for (i = 0; i < these.size(); i += threadsPerBarrier) parents.push_back(...)
parents(these) ==
  LET count == (Len(these) + ThreadsPerBarrier - 1) \div ThreadsPerBarrier
  IN  [k \in 1 .. count |-> Parent(these[(k - 1) * ThreadsPerBarrier + 1])]

\* The barriers that destroy(these) frees, in this order: the level, and what
\* destroy frees of the parents, or the only one; free(nullptr) does nothing.
destroy[these \in Seq(Nat \X Nat)] ==
  LET up == parents(these)
  IN  these \o (IF Len(up) > 1 THEN destroy[up]
                ELSE IF up = <<NoParent>> THEN <<>> ELSE up)

Freed(size) == destroy[LevelSeq(size)]

-----------------------------------------------------------------------------
(***************************************************************************)
(* No barrier waits for somebody who never comes, or opens too early:      *)
(* every barrier is created for exactly as many participants as it has.    *)
(***************************************************************************)
CountsMatch(size) ==
  \A b \in Tree(size) :
     Cardinality(Participants(size, b)) = threadCount(b) /\ threadCount(b) > 0

\* There is one root, and every other barrier hangs under a barrier of the tree.
OneRoot(size) ==
  /\ Cardinality({b \in Tree(size) : Parent(b) = NoParent}) = 1
  /\ \A b \in Tree(size) : Parent(b) = NoParent \/ Parent(b) \in Tree(size)

\* destroy frees every barrier of the tree, and none of them twice.
FreedOnce(size) ==
  LET freed == Freed(size)
  IN  /\ {freed[k] : k \in DOMAIN freed} = Tree(size)
      /\ Len(freed) = Cardinality(Tree(size))
=============================================================================
