------------------------- MODULE WorkerGroupProofs --------------------------
(***************************************************************************)
(* Proofs about the tree of barriers (BarrierTree, HierarchicBarrier) and  *)
(* about the group of workers that uses it (WorkerGroup), for any number   *)
(* of workers, of participants per barrier, of rounds that are two or      *)
(* more, of meetings, and of threads in the pool.                          *)
(*                                                                         *)
(* 1. The tree.  create and the leaves of run divide by ThreadsPerBarrier  *)
(*    with two exceptions, for the rest barrier and for the calling        *)
(*    thread; both lead where the division would have led (ParentIs,       *)
(*    LeafIs).  So the worker t belongs, at each level k, to the           *)
(*    participant Index[k][t], and comes on its way to the barriers        *)
(*    Up(t, 0), Up(t, 1), ... to the root.  From this: every barrier is    *)
(*    created for as many as come to it (AllCountsMatch), there is one     *)
(*    root (AllOneRoot), and destroy frees each barrier once               *)
(*    (AllFreedOnce).                                                      *)
(*                                                                         *)
(* 2. The barrier.  Rank(t) is how many barriers of its way the worker t   *)
(*    has closed.  The invariant says of each barrier whether it is        *)
(*    closed: if it is, by one worker only, everybody below it waits       *)
(*    (Alone), every barrier below it is closed too (Cover), and all these *)
(*    calls are of the same meeting (Agree); if it is not, its counter and *)
(*    the participants that wait at it make up threadCount (OpenCounter).  *)
(*    The second is why the thread that finds 1 in the counter is the last *)
(*    (Arrivals), the first why the finalizer of the root is alone         *)
(*    (FinalizerMeets) and why nobody is passed over by a round that       *)
(*    wraps.  The tree then implements the abstract barrier, Rendezvous.   *)
(*                                                                         *)
(* 3. The group.  Who is through with its calls is outside of the tree,    *)
(*    and nobody comes through before all have come.                       *)
(***************************************************************************)
EXTENDS WorkerGroup, Induction, TLAPS

\* Division with remainder, the definition the solvers know.
LEMMA DivIs ==
  ASSUME NEW i \in Nat
  PROVE  /\ i \div ThreadsPerBarrier \in Nat
         /\ ThreadsPerBarrier * (i \div ThreadsPerBarrier) <= i
         /\ i < ThreadsPerBarrier * (i \div ThreadsPerBarrier) + ThreadsPerBarrier
         /\ i % ThreadsPerBarrier = i - ThreadsPerBarrier * (i \div ThreadsPerBarrier)
  BY ThreadsPerBarrierAssumption

\* And its quotient is the only one.
LEMMA DivUnique ==
  ASSUME NEW i \in Nat, NEW q \in Nat, ThreadsPerBarrier * q <= i, i < ThreadsPerBarrier * q + ThreadsPerBarrier
  PROVE  i \div ThreadsPerBarrier = q
  <1> DEFINE p == i \div ThreadsPerBarrier
  <1>1. p \in Nat /\ ThreadsPerBarrier * p <= i /\ i < ThreadsPerBarrier * p + ThreadsPerBarrier
    BY DivIs
  <1> HIDE DEF p
  <1>2. ASSUME p < q PROVE FALSE
    <2>1. PICK d \in Nat : q = p + 1 + d
      <3>1. q - p - 1 \in Nat
        BY <1>1, <1>2
      <3> QED
       BY <3>1, <1>1
    <2>2. ThreadsPerBarrier * q = ThreadsPerBarrier * p + ThreadsPerBarrier + ThreadsPerBarrier * d
      BY <1>1, <2>1, ThreadsPerBarrierAssumption
    <2>3. ThreadsPerBarrier * d \in Nat
      BY <2>1, ThreadsPerBarrierAssumption
    <2> QED
      BY <1>1, <2>2, <2>3, ThreadsPerBarrierAssumption
  <1>3. ASSUME q < p PROVE FALSE
    <2>1. PICK d \in Nat : p = q + 1 + d
      <3>1. p - q - 1 \in Nat
        BY <1>1, <1>3
      <3> QED
       BY <3>1, <1>1
    <2>2. ThreadsPerBarrier * p = ThreadsPerBarrier * q + ThreadsPerBarrier + ThreadsPerBarrier * d
      BY <1>1, <2>1, ThreadsPerBarrierAssumption
    <2>3. ThreadsPerBarrier * d \in Nat
      BY <2>1, ThreadsPerBarrierAssumption
    <2> QED
      BY <1>1, <2>2, <2>3, ThreadsPerBarrierAssumption
  <1> QED
    BY <1>1, <1>2, <1>3 DEF p

\* How many barriers a level has: just enough for its participants.
LEMMA EnoughBarriers ==
  ASSUME NEW n \in Nat \ {0}
  PROVE  /\ nrBarriers(n) \in Nat \ {0}
         /\ n <= ThreadsPerBarrier * nrBarriers(n)
         /\ ThreadsPerBarrier * (nrBarriers(n) - 1) < n
         /\ n > ThreadsPerBarrier => nrBarriers(n) < n
         /\ n <= ThreadsPerBarrier => nrBarriers(n) = 1
  <1> DEFINE q == n \div ThreadsPerBarrier
             m == nrBarriers(n)
  <1>1. /\ q \in Nat /\ ThreadsPerBarrier * q <= n /\ n < ThreadsPerBarrier * q + ThreadsPerBarrier
        /\ n % ThreadsPerBarrier = n - ThreadsPerBarrier * q
    BY DivIs
  <1>2. CASE n <= ThreadsPerBarrier
    BY <1>2, ThreadsPerBarrierAssumption DEF nrBarriers
  <1>3. CASE n > ThreadsPerBarrier /\ n = ThreadsPerBarrier * q
    <2>1. m = q
      BY <1>1, <1>3, ThreadsPerBarrierAssumption DEF nrBarriers, nrBarriersFull, threadsInRestBarrier
    <2> HIDE DEF q, m
    <2>2. q >= 1
      BY <1>1, <1>3, ThreadsPerBarrierAssumption
    <2>3. q < ThreadsPerBarrier * q
      BY <1>1, <2>2, ThreadsPerBarrierAssumption
    <2>4. ThreadsPerBarrier * (q - 1) < ThreadsPerBarrier * q
      BY <1>1, <2>2, ThreadsPerBarrierAssumption
    <2> QED
      BY <1>1, <1>3, <2>1, <2>2, <2>3, <2>4, ThreadsPerBarrierAssumption DEF m
  <1>4. CASE n > ThreadsPerBarrier /\ n # ThreadsPerBarrier * q
    <2>1. m = q + 1
      BY <1>1, <1>4, ThreadsPerBarrierAssumption DEF nrBarriers, nrBarriersFull, threadsInRestBarrier
    <2> HIDE DEF q, m
    <2>2. q >= 1
      BY <1>1, <1>4, ThreadsPerBarrierAssumption
    <2>3. q + 1 <= ThreadsPerBarrier * q
      BY <1>1, <2>2, ThreadsPerBarrierAssumption
    <2>4. ThreadsPerBarrier * (q + 1) = ThreadsPerBarrier * q + ThreadsPerBarrier
      BY <1>1, <2>2, ThreadsPerBarrierAssumption
    <2> QED
      BY <1>1, <1>4, <2>1, <2>2, <2>3, <2>4, ThreadsPerBarrierAssumption DEF m
  <1> QED
    BY <1>2, <1>3, <1>4, ThreadsPerBarrierAssumption

\* The i-th participant of a level comes to its (i div ThreadsPerBarrier)-th
\* barrier.
LEMMA InsideLevel ==
  ASSUME NEW n \in Nat \ {0}, NEW i \in 0 .. n - 1
  PROVE  i \div ThreadsPerBarrier \in 0 .. nrBarriers(n) - 1
  <1> DEFINE q == i \div ThreadsPerBarrier
             m == nrBarriers(n)
  <1>1. q \in Nat /\ ThreadsPerBarrier * q <= i
    BY DivIs
  <1>2. m \in Nat \ {0} /\ n <= ThreadsPerBarrier * m
    BY EnoughBarriers
  <1> HIDE DEF q, m
  <1>3. ASSUME q >= m PROVE FALSE
    <2>1. PICK d \in Nat : q = m + d
      <3>1. q - m \in Nat
        BY <1>1, <1>2, <1>3
      <3> QED
        BY <3>1, <1>1, <1>2
    <2>2. ThreadsPerBarrier * q = ThreadsPerBarrier * m + ThreadsPerBarrier * d
      BY <1>2, <2>1, ThreadsPerBarrierAssumption
    <2>3. ThreadsPerBarrier * d \in Nat
      BY <2>1, ThreadsPerBarrierAssumption
    <2> QED
      BY <1>1, <1>2, <2>2, <2>3, ThreadsPerBarrierAssumption
  <1> QED
    BY <1>1, <1>2, <1>3 DEF q, m

\* The last participant of a level comes to its last barrier.
LEMMA LastBarrier ==
  ASSUME NEW n \in Nat \ {0}
  PROVE  (n - 1) \div ThreadsPerBarrier = nrBarriers(n) - 1
  <1>1. /\ nrBarriers(n) \in Nat \ {0}
        /\ n <= ThreadsPerBarrier * nrBarriers(n)
        /\ ThreadsPerBarrier * (nrBarriers(n) - 1) < n
    BY EnoughBarriers
  <1> DEFINE q == nrBarriers(n) - 1
  <1>2. q \in Nat /\ nrBarriers(n) = q + 1 /\ n - 1 \in Nat
    BY <1>1
  <1>3. ThreadsPerBarrier * nrBarriers(n) = ThreadsPerBarrier * q + ThreadsPerBarrier
    BY <1>2, ThreadsPerBarrierAssumption
  <1> HIDE DEF q
  <1>4. ThreadsPerBarrier * q <= n - 1 /\ n - 1 < ThreadsPerBarrier * q + ThreadsPerBarrier
    <2>1. ThreadsPerBarrier * q < n
      BY <1>1 DEF q
    <2>2. ThreadsPerBarrier * q \in Nat
      BY <1>2, ThreadsPerBarrierAssumption
    <2> QED
      BY <1>1, <1>2, <1>3, <2>1, <2>2, ThreadsPerBarrierAssumption
  <1> QED
    BY <1>2, <1>4, DivUnique DEF q

\* Where create hangs a barrier, the rest barrier included.
LEMMA ParentIs ==
  ASSUME NEW n \in Nat \ {0}, NEW i \in 0 .. nrBarriers(n) - 1
  PROVE  Parent(<<n, i>>) = IF n <= ThreadsPerBarrier THEN NoParent
                            ELSE <<nrBarriers(n), i \div ThreadsPerBarrier>>
  <1>1. CASE n <= ThreadsPerBarrier
    BY <1>1 DEF Parent
  <1>2. CASE n > ThreadsPerBarrier /\ i < nrBarriersFull(n)
    BY <1>2, ThreadsPerBarrierAssumption DEF Parent
  <1>3. CASE n > ThreadsPerBarrier /\ ~(i < nrBarriersFull(n))
    <2>1. Parent(<<n, i>>) = Back(nrBarriers(n))
      BY <1>3, ThreadsPerBarrierAssumption DEF Parent
    <2>2. nrBarriers(n) \in Nat \ {0}
      BY EnoughBarriers
    <2>3. nrBarriersFull(n) \in Nat
      BY DivIs DEF nrBarriersFull
    <2>4. i = nrBarriers(n) - 1
      BY <1>3, <2>2, <2>3, ThreadsPerBarrierAssumption DEF nrBarriers
    <2>5. (nrBarriers(n) - 1) \div ThreadsPerBarrier = nrBarriers(nrBarriers(n)) - 1
      BY <2>2, LastBarrier
    <2> QED
      BY <1>3, <2>1, <2>4, <2>5, ThreadsPerBarrierAssumption DEF Back
  <1> QED
    BY <1>1, <1>2, <1>3, ThreadsPerBarrierAssumption

\* The leaf of a worker, the calling thread included.
LEMMA LeafIs ==
  ASSUME NEW n \in Nat \ {0}, NEW i \in 0 .. n - 1
  PROVE  Leaf(n, i) = <<n, i \div ThreadsPerBarrier>>
  <1>1. CASE i < n - 1
    BY <1>1 DEF Leaf
  <1>2. CASE i = n - 1
    BY <1>2, LastBarrier DEF Leaf, Back
  <1> QED
    BY <1>1, <1>2

\* The participants that come to the j-th barrier of a level.
Share(n, j) == {i \in 0 .. n - 1 : i \div ThreadsPerBarrier = j}

\* A barrier is created for as many participants as come to it.
LEMMA ShareIs ==
  ASSUME NEW n \in Nat \ {0}, NEW j \in 0 .. nrBarriers(n) - 1
  PROVE  /\ IsFiniteSet(Share(n, j))
         /\ Cardinality(Share(n, j)) = threadCount(<<n, j>>)
         /\ threadCount(<<n, j>>) \in Nat \ {0}
  <1> DEFINE q == n \div ThreadsPerBarrier
             m == nrBarriers(n)
             a == ThreadsPerBarrier * j
             c == threadCount(<<n, j>>)
  <1>1. /\ m \in Nat \ {0} /\ n <= ThreadsPerBarrier * m /\ ThreadsPerBarrier * (m - 1) < n
        /\ n <= ThreadsPerBarrier => m = 1
        /\ q \in Nat /\ ThreadsPerBarrier * q <= n /\ n < ThreadsPerBarrier * q + ThreadsPerBarrier
        /\ n % ThreadsPerBarrier = n - ThreadsPerBarrier * q
    BY EnoughBarriers, DivIs
  <1>2. /\ j \in Nat /\ a \in Nat
        /\ c = IF n <= ThreadsPerBarrier THEN n
               ELSE IF j < q THEN ThreadsPerBarrier ELSE n % ThreadsPerBarrier
    BY ThreadsPerBarrierAssumption DEF threadCount, nrBarriersFull, threadsInRestBarrier
  <1>3. c \in Nat \ {0} /\ a + c <= n /\ c <= ThreadsPerBarrier /\ (c = ThreadsPerBarrier \/ a + c = n)
    <2>1. CASE n <= ThreadsPerBarrier
      <3>1. j = 0 /\ a = 0
        BY <1>1, <2>1, ThreadsPerBarrierAssumption
      <3> QED
        BY <1>2, <2>1, <3>1
    <2>2. CASE n > ThreadsPerBarrier /\ j < q
      <3>1. PICK d \in Nat : q = j + 1 + d
        <4>1. q - j - 1 \in Nat
          BY <1>1, <1>2, <2>2
        <4> HIDE DEF q, m, a, c
        <4> QED
          BY <4>1, <1>1, <1>2
      <3>2. ThreadsPerBarrier * q = a + ThreadsPerBarrier + ThreadsPerBarrier * d
        BY <1>1, <1>2, <3>1, ThreadsPerBarrierAssumption
      <3>3. ThreadsPerBarrier * d \in Nat
        BY <3>1, ThreadsPerBarrierAssumption
      <3>4. c = ThreadsPerBarrier
        BY <1>2, <2>2, ThreadsPerBarrierAssumption
      <3> HIDE DEF q, a, c
      <3> QED
        BY <1>1, <1>2, <3>2, <3>3, <3>4, ThreadsPerBarrierAssumption
    <2>3. CASE n > ThreadsPerBarrier /\ ~(j < q)
      <3>1. m = q \/ (m = q + 1 /\ n % ThreadsPerBarrier > 0)
        BY <1>1, <2>3, ThreadsPerBarrierAssumption DEF nrBarriers, nrBarriersFull, threadsInRestBarrier
      <3>2. j = q /\ n % ThreadsPerBarrier > 0
        BY <1>1, <1>2, <2>3, <3>1
      <3>3. a = ThreadsPerBarrier * q /\ c = n - ThreadsPerBarrier * q
        BY <1>1, <1>2, <2>3, <3>2, ThreadsPerBarrierAssumption
      <3> HIDE DEF a, c
      <3> QED
        BY <1>1, <1>2, <3>2, <3>3, ThreadsPerBarrierAssumption
    <2> QED
      BY <2>1, <2>2, <2>3, <1>1, ThreadsPerBarrierAssumption
  <1>4. Share(n, j) = a .. a + c - 1
    <2> HIDE DEF a, c
    <2>1. ASSUME NEW i \in a .. a + c - 1 PROVE i \in 0 .. n - 1 /\ i \div ThreadsPerBarrier = j
      <3>1. i \in Nat /\ i <= n - 1 /\ a <= i /\ i < a + ThreadsPerBarrier
        BY <1>2, <1>3, ThreadsPerBarrierAssumption
      <3> QED
        BY <1>2, <3>1, DivUnique DEF a
    <2>2. ASSUME NEW i \in 0 .. n - 1, i \div ThreadsPerBarrier = j PROVE i \in a .. a + c - 1
      <3>1. i \in Nat /\ a <= i /\ i < a + ThreadsPerBarrier
        BY <1>2, <2>2, DivIs DEF a
      <3> QED
        BY <1>2, <1>3, <3>1, ThreadsPerBarrierAssumption
    <2> QED
      BY <2>1, <2>2 DEF Share
  <1>5. IsFiniteSet(a .. a + c - 1) /\ Cardinality(a .. a + c - 1) = c
    <2> HIDE DEF a, c
    <2>1. a \in Int /\ a + c - 1 \in Int /\ ~(a > a + c - 1) /\ (a + c - 1) - a + 1 = c
      BY <1>2, <1>3
    <2>2. /\ IsFiniteSet(a .. a + c - 1)
          /\ Cardinality(a .. a + c - 1) = IF a > a + c - 1 THEN 0 ELSE (a + c - 1) - a + 1
      BY <2>1, FS_Interval
    <2> QED
      BY <2>1, <2>2
  <1> QED
    BY <1>3, <1>4, <1>5

-----------------------------------------------------------------------------
\* Iterates(h)[k][n] is the k-th iterate of h, taken of n.
IterateSteps(h) == [k \in Nat |-> [g \in [Nat -> Nat] |-> [n \in Nat |-> h[g[n]]]]]
Iterates(h) == CHOOSE f : Follows(f, [Nat -> Nat], [n \in Nat |-> n], IterateSteps(h))

\* The iterates satisfy their recursion.
LEMMA IteratesAre ==
  ASSUME NEW h \in [Nat -> Nat]
  PROVE  /\ Iterates(h) \in [Nat -> [Nat -> Nat]]
         /\ \A n \in Nat : Iterates(h)[0][n] = n
         /\ \A k \in Nat, n \in Nat : Iterates(h)[k + 1][n] = h[Iterates(h)[k][n]]
  <1> DEFINE V == [Nat -> Nat]
             a == [n \in Nat |-> n]
             step == IterateSteps(h)
             f == Iterates(h)
  <1>1. a \in V /\ step \in Steps(V)
    BY DEF Steps, IterateSteps
  <1>2. \E g : Follows(g, V, a, step)
    <2> HIDE DEF V, a, step
    <2> QED
      BY <1>1, RecursionOnNat
  <1>3. f \in [Nat -> V] /\ f[0] = a /\ \A k \in Nat : f[k + 1] = step[k][f[k]]
    <2>1. Follows(f, V, a, step)
      BY <1>2 DEF Iterates
    <2> HIDE DEF f, V, a, step
    <2> QED
      BY <2>1 DEF Follows
  <1>4. ASSUME NEW k \in Nat, NEW n \in Nat PROVE f[k + 1][n] = h[f[k][n]]
    <2> HIDE DEF f
    <2>1. f[k] \in V /\ f[k + 1] = step[k][f[k]]
      BY <1>3
    <2> QED
      BY <2>1 DEF IterateSteps
  <1> QED
    BY <1>3, <1>4

\* How many participants the k-th level of create(n) has, counted from the
\* leaves, and to which of them the i-th worker belongs.
Width == Iterates([n \in Nat |-> nrBarriers(n)])
Index == Iterates([i \in Nat |-> i \div ThreadsPerBarrier])

\* A level has as many participants as the level below it has barriers.
LEMMA WidthSteps ==
  /\ Width \in [Nat -> [Nat -> Nat]]
  /\ \A n \in Nat : Width[0][n] = n
  /\ \A k \in Nat, n \in Nat : Width[k + 1][n] = nrBarriers(Width[k][n])
  <1> DEFINE h == [n \in Nat |-> nrBarriers(n)]
  <1>1. h \in [Nat -> Nat]
    <2>1. \A n \in Nat : nrBarriers(n) \in Nat
      BY EnoughBarriers, ThreadsPerBarrierAssumption DEF nrBarriers
    <2> QED
      BY <2>1
  <1>2. \A n \in Nat : h[n] = nrBarriers(n)
    OBVIOUS
  <1>3. Width = Iterates(h)
    BY DEF Width
  <1> HIDE DEF h
  <1>4. /\ Width \in [Nat -> [Nat -> Nat]]
        /\ \A n \in Nat : Width[0][n] = n
        /\ \A k \in Nat, n \in Nat : Width[k + 1][n] = h[Width[k][n]]
    BY <1>1, <1>3, IteratesAre
  <1> QED
    BY <1>2, <1>4

\* ThreadsPerBarrier neighbours become one participant of the next level.
LEMMA IndexSteps ==
  /\ Index \in [Nat -> [Nat -> Nat]]
  /\ \A i \in Nat : Index[0][i] = i
  /\ \A k \in Nat, i \in Nat : Index[k + 1][i] = Index[k][i] \div ThreadsPerBarrier
  <1> DEFINE h == [i \in Nat |-> i \div ThreadsPerBarrier]
  <1>1. h \in [Nat -> Nat] /\ \A i \in Nat : h[i] = i \div ThreadsPerBarrier
    BY DivIs
  <1>2. Index = Iterates(h)
    BY DEF Index
  <1> HIDE DEF h
  <1>3. /\ Index \in [Nat -> [Nat -> Nat]]
        /\ \A i \in Nat : Index[0][i] = i
        /\ \A k \in Nat, i \in Nat : Index[k + 1][i] = h[Index[k][i]]
    BY <1>1, <1>2, IteratesAre
  <1> QED
    BY <1>1, <1>3, ZenonT(30)

\* The highest level: the first that has one barrier.
Height(n) == CHOOSE k \in Nat : /\ Width[k][n] <= ThreadsPerBarrier
                                /\ \A j \in Nat : j < k => Width[j][n] > ThreadsPerBarrier

\* The levels of create(n) shrink up to the highest, which has one barrier.
LEMMA LevelsShrink ==
  ASSUME NEW n \in Nat \ {0}
  PROVE  /\ \A k \in Nat : Width[k][n] \in Nat \ {0}
         /\ Height(n) \in Nat
         /\ Width[Height(n)][n] <= ThreadsPerBarrier
         /\ Width[Height(n) + 1][n] = 1
         /\ \A k \in Nat : k < Height(n) => Width[k][n] > ThreadsPerBarrier
         /\ \A k \in Nat : k < Height(n) => Width[k + 1][n] < Width[k][n]
  <1> DEFINE W(k) == Width[k][n]
  <1>1. \A k \in Nat : W(k) \in Nat \ {0}
    <2> DEFINE S == {k \in Nat : W(k) \in Nat \ {0}}
    <2>1. 0 \in S
      BY WidthSteps
    <2>2. ASSUME NEW k \in Nat, k \in S PROVE k + 1 \in S
      <3>1. W(k) \in Nat \ {0} /\ W(k + 1) = nrBarriers(W(k))
        BY <2>2, WidthSteps
      <3> HIDE DEF W
      <3> QED
        BY <3>1, EnoughBarriers
    <2> HIDE DEF S
    <2>3. Nat \subseteq S
      BY <2>1, <2>2, InductionOnNat
    <2> QED
      BY <2>3 DEF S
  <1>2. \A k \in Nat : W(k + 1) = nrBarriers(W(k))
    BY WidthSteps
  <1> HIDE DEF W
  <1>3. \A k \in Nat : W(k) > ThreadsPerBarrier => W(k + 1) < W(k)
    BY <1>1, <1>2, EnoughBarriers
  <1> DEFINE Low == {k \in Nat : W(k) <= ThreadsPerBarrier}
  <1>4. Low # {}
    <2> DEFINE R == {W(k) : k \in Nat}
    <2>1. R \subseteq Nat /\ R # {}
      BY <1>1
    <2>2. PICK x \in R : \A y \in R : x <= y
      BY <2>1, LeastNatural
    <2>3. PICK k \in Nat : x = W(k)
      BY <2>2
    <2>4. W(k + 1) \in R /\ W(k + 1) \in Nat /\ W(k) \in Nat
      BY <1>1
    <2>5. ~(W(k) > ThreadsPerBarrier)
      BY <1>3, <2>2, <2>3, <2>4
    <2>6. k \in Low
      BY <2>4, <2>5, ThreadsPerBarrierAssumption
    <2> QED
      BY <2>6
  <1>5. PICK h \in Low : \A k \in Low : h <= k
    BY <1>4, LeastNatural
  <1>6. h \in Nat /\ W(h) <= ThreadsPerBarrier /\ \A j \in Nat : j < h => W(j) > ThreadsPerBarrier
    BY <1>1, <1>5, ThreadsPerBarrierAssumption
  <1>7. /\ Height(n) \in Nat
        /\ W(Height(n)) <= ThreadsPerBarrier
        /\ \A j \in Nat : j < Height(n) => W(j) > ThreadsPerBarrier
    BY <1>6 DEF Height, W
  <1>8. W(Height(n) + 1) = 1
    BY <1>1, <1>2, <1>7, EnoughBarriers
  <1> QED
    BY <1>1, <1>3, <1>7, <1>8 DEF W

\* The levels up to the highest have different numbers of participants.
LEMMA LevelsDiffer ==
  ASSUME NEW n \in Nat \ {0}, NEW j \in Nat, NEW k \in Nat, j < k, k <= Height(n)
  PROVE  Width[k][n] < Width[j][n]
  <1> DEFINE S == {d \in Nat : j + 1 + d <= Height(n) => Width[j + 1 + d][n] < Width[j][n]}
  <1>1. /\ Height(n) \in Nat
        /\ \A i \in Nat : Width[i][n] \in Nat
        /\ \A i \in Nat : i < Height(n) => Width[i + 1][n] < Width[i][n]
    BY LevelsShrink
  <1>2. 0 \in S
    BY <1>1
  <1>3. ASSUME NEW d \in Nat, d \in S PROVE d + 1 \in S
    <2>1. j + 1 + d \in Nat /\ j + 1 + (d + 1) = (j + 1 + d) + 1
      OBVIOUS
    <2> QED
      BY <1>1, <1>3, <2>1
  <1> HIDE DEF S
  <1>4. Nat \subseteq S
    BY <1>2, <1>3, InductionOnNat
  <1>5. k - j - 1 \in Nat /\ j + 1 + (k - j - 1) = k
    OBVIOUS
  <1>6. k - j - 1 \in S
    BY <1>4, <1>5
  <1> QED
    BY <1>5, <1>6 DEF S

\* Every participant of a level stands for workers, and each worker belongs to one.
LEMMA IndexInLevel ==
  ASSUME NEW n \in Nat \ {0}, NEW k \in Nat
  PROVE  /\ \A i \in 0 .. n - 1 : Index[k][i] \in 0 .. Width[k][n] - 1
         /\ \A j \in 0 .. Width[k][n] - 1 : \E i \in 0 .. n - 1 : Index[k][i] = j
  <1> DEFINE S == {m \in Nat : /\ \A i \in 0 .. n - 1 : Index[m][i] \in 0 .. Width[m][n] - 1
                               /\ \A j \in 0 .. Width[m][n] - 1 : \E i \in 0 .. n - 1 : Index[m][i] = j}
  <1>1. 0 \in S
    <2>1. Width[0][n] = n
      BY WidthSteps
    <2>2. \A i \in 0 .. n - 1 : Index[0][i] = i
      BY IndexSteps
    <2> QED
      BY <2>1, <2>2
  <1>2. ASSUME NEW m \in Nat, m \in S PROVE m + 1 \in S
    <2> DEFINE w == Width[m][n]
    <2>1. w \in Nat \ {0} /\ Width[m + 1][n] = nrBarriers(w)
      BY LevelsShrink, WidthSteps
    <2>2. \A i \in 0 .. n - 1 : Index[m][i] \in 0 .. w - 1
      BY <1>2
    <2>3. \A j \in 0 .. w - 1 : \E i \in 0 .. n - 1 : Index[m][i] = j
      BY <1>2
    <2>4. \A i \in 0 .. n - 1 : Index[m + 1][i] = Index[m][i] \div ThreadsPerBarrier
      BY IndexSteps
    <2> HIDE DEF w
    <2>5. \A i \in 0 .. n - 1 : Index[m + 1][i] \in 0 .. nrBarriers(w) - 1
      BY <2>1, <2>2, <2>4, InsideLevel
    <2>6. ASSUME NEW j \in 0 .. nrBarriers(w) - 1
          PROVE  \E i \in 0 .. n - 1 : Index[m + 1][i] = j
      <3>1. Share(w, j) # {}
        <4>1. IsFiniteSet(Share(w, j)) /\ Cardinality(Share(w, j)) # 0
          BY <2>1, ShareIs
        <4> QED
          BY <4>1, FS_EmptySet
      <3>2. PICK x \in 0 .. w - 1 : x \div ThreadsPerBarrier = j
        BY <3>1 DEF Share
      <3> QED
        BY <2>3, <2>4, <3>2
    <2> QED
      BY <2>1, <2>5, <2>6
  <1> HIDE DEF S
  <1>3. Nat \subseteq S
    BY <1>1, <1>2, InductionOnNat
  <1> QED
    BY <1>3 DEF S

\* The levels above the leaves are those of a smaller tree.
LEMMA LevelsAbove ==
  ASSUME NEW n \in Nat, n > ThreadsPerBarrier
  PROVE  /\ nrBarriers(n) \in Nat \ {0} /\ nrBarriers(n) < n
         /\ \A k \in Nat : Width[k + 1][n] = Width[k][nrBarriers(n)]
         /\ Height(n) = Height(nrBarriers(n)) + 1
  <1> DEFINE m == nrBarriers(n)
             S == {k \in Nat : Width[k + 1][n] = Width[k][m]}
  <1>1. n \in Nat \ {0}
    BY ThreadsPerBarrierAssumption
  <1>2. m \in Nat \ {0} /\ m < n
    BY <1>1, EnoughBarriers
  <1>3. \A k \in Nat : Width[k + 1][n] = Width[k][m]
    <2>1. 0 \in S
      BY <1>1, <1>2, WidthSteps
    <2>2. ASSUME NEW k \in Nat, k \in S PROVE k + 1 \in S
      <3>1. Width[(k + 1) + 1][n] = nrBarriers(Width[k + 1][n])
        BY WidthSteps
      <3>2. Width[k + 1][m] = nrBarriers(Width[k][m])
        BY <1>2, WidthSteps
      <3>3. Width[k + 1][n] = Width[k][m]
        BY <2>2
      <3> HIDE DEF m
      <3> QED
        BY <3>1, <3>2, <3>3
    <2>3. Nat \subseteq S
      <3> HIDE DEF S
      <3> QED
        BY <2>1, <2>2, InductionOnNat
    <2> QED
      BY <2>3
  <1> DEFINE h == Height(m)
             g == Height(n)
  <1>4. /\ h \in Nat /\ Width[h][m] <= ThreadsPerBarrier
        /\ \A k \in Nat : k < h => Width[k][m] > ThreadsPerBarrier
    BY <1>2, LevelsShrink
  <1>5. /\ g \in Nat /\ Width[g][n] <= ThreadsPerBarrier
        /\ \A k \in Nat : k < g => Width[k][n] > ThreadsPerBarrier
        /\ Width[0][n] = n
    BY <1>1, LevelsShrink, WidthSteps
  <1>6. \A k \in Nat : Width[k][n] \in Nat
    BY <1>1, LevelsShrink
  <1> HIDE DEF h, g, m, S
  <1>7. g # 0
    BY <1>5, ThreadsPerBarrierAssumption
  <1>8. g - 1 \in Nat /\ (g - 1) + 1 = g
    BY <1>5, <1>7
  <1>9. Width[g - 1][m] <= ThreadsPerBarrier
    BY <1>3, <1>5, <1>8
  <1>10. ~(g - 1 < h)
    <2>1. Width[g - 1][m] = Width[g][n] /\ Width[g][n] \in Nat
      BY <1>3, <1>5, <1>6, <1>8
    <2> QED
      BY <1>4, <1>8, <1>9, <2>1, ThreadsPerBarrierAssumption
  <1>11. ~(h + 1 < g)
    <2>1. Width[h + 1][n] <= ThreadsPerBarrier /\ Width[h + 1][n] \in Nat /\ h + 1 \in Nat
      BY <1>3, <1>4, <1>6
    <2> QED
      BY <1>5, <2>1, ThreadsPerBarrierAssumption
  <1>12. g = h + 1
    BY <1>4, <1>5, <1>10, <1>11
  <1> QED
    BY <1>2, <1>3, <1>12 DEF g, h, m

\* One barrier is enough.
LEMMA LowTree ==
  ASSUME NEW n \in Nat, n <= ThreadsPerBarrier
  PROVE  Height(n) = 0 /\ Width[0][n] = n
  <1>1. Width[0][n] = n
    BY WidthSteps
  <1>2. ASSUME NEW k \in Nat,
               \A j \in Nat : j < k => Width[j][n] > ThreadsPerBarrier
        PROVE  k = 0
    BY <1>1, <1>2, ThreadsPerBarrierAssumption
  <1>3. /\ 0 \in Nat
        /\ Width[0][n] <= ThreadsPerBarrier
        /\ \A j \in Nat : j < 0 => Width[j][n] > ThreadsPerBarrier
    BY <1>1
  <1> QED
    BY <1>1, <1>2, <1>3 DEF Height

\* The recursion of create ends, and this is what it visits.
LEMMA LevelsAre ==
  ASSUME NEW n \in Nat
  PROVE  Levels[n] = {Width[k][n] : k \in 0 .. Height(n)}
  <1> DEFINE f == [x \in Nat |-> {Width[k][x] : k \in 0 .. Height(x)}]
             body(g) == [x \in Nat |-> IF x <= ThreadsPerBarrier THEN {x} ELSE {x} \cup g[nrBarriers(x)]]
  <1>1. ASSUME NEW x \in Nat, x <= ThreadsPerBarrier
        PROVE  f[x] = {x}
    <2>1. Height(x) = 0 /\ Width[0][x] = x
      BY <1>1, LowTree
    <2>2. 0 .. Height(x) = {0}
      BY <2>1
    <2> QED
      BY <2>1, <2>2
  <1>2. ASSUME NEW x \in Nat, x > ThreadsPerBarrier
        PROVE  f[x] = {x} \cup f[nrBarriers(x)]
    <2> DEFINE m == nrBarriers(x)
    <2>1. /\ m \in Nat \ {0} /\ Height(x) = Height(m) + 1
          /\ \A k \in Nat : Width[k + 1][x] = Width[k][m]
      BY <1>2, LevelsAbove
    <2>2. Height(m) \in Nat /\ Width[0][x] = x
      BY <2>1, LevelsShrink, WidthSteps
    <2>3. f[x] = {Width[k][x] : k \in 0 .. Height(x)} /\ f[m] = {Width[k][m] : k \in 0 .. Height(m)}
      BY <2>1
    <2> HIDE DEF m, f
    <2>4. ASSUME NEW y \in f[x] PROVE y = x \/ y \in f[m]
      <3>1. PICK k \in 0 .. Height(x) : y = Width[k][x]
        BY <2>3, <2>4
      <3>2. CASE k = 0
        BY <2>2, <3>1, <3>2
      <3>3. CASE k # 0
        <4>1. k - 1 \in 0 .. Height(m) /\ k - 1 \in Nat /\ (k - 1) + 1 = k
          BY <2>1, <2>2, <3>3
        <4>2. y = Width[k - 1][m]
          BY <2>1, <3>1, <4>1
        <4> QED
          BY <2>3, <4>1, <4>2
      <3> QED
        BY <3>2, <3>3
    <2>5. x \in f[x]
      <3>1. 0 \in 0 .. Height(x)
        BY <2>1, <2>2
      <3> QED
        BY <2>2, <2>3, <3>1
    <2>6. ASSUME NEW y \in f[m] PROVE y \in f[x]
      <3>1. PICK k \in 0 .. Height(m) : y = Width[k][m]
        BY <2>3, <2>6
      <3>2. k + 1 \in 0 .. Height(x) /\ y = Width[k + 1][x]
        BY <2>1, <2>2, <3>1
      <3> QED
        BY <2>3, <3>2
    <2> QED
      BY <2>4, <2>5, <2>6 DEF m
  <1>3. f = body(f)
    <2>1. \A x \in Nat : f[x] = IF x <= ThreadsPerBarrier THEN {x} ELSE {x} \cup f[nrBarriers(x)]
      <3> SUFFICES ASSUME NEW x \in Nat
                   PROVE  f[x] = IF x <= ThreadsPerBarrier THEN {x} ELSE {x} \cup f[nrBarriers(x)]
        OBVIOUS
      <3> HIDE DEF f
      <3>1. CASE x <= ThreadsPerBarrier
        BY <1>1, <3>1
      <3>2. CASE ~(x <= ThreadsPerBarrier)
        <4>1. x > ThreadsPerBarrier
          BY <3>2, ThreadsPerBarrierAssumption
        <4> QED
          BY <1>2, <3>2, <4>1
      <3> QED
        BY <3>1, <3>2
    <2>2. f = [x \in Nat |-> f[x]]
      OBVIOUS
    <2> HIDE DEF f
    <2> QED
      BY <2>1, <2>2
  <1>4. Levels = body(Levels)
    <2>1. Levels = CHOOSE g : g = body(g)
      BY DEF Levels
    <2> HIDE DEF body, f
    <2> QED
      BY <1>3, <2>1
  <1> HIDE DEF f
  <1>5. ASSUME NEW x \in Nat
        PROVE  /\ x <= ThreadsPerBarrier => Levels[x] = {x}
               /\ ~(x <= ThreadsPerBarrier) => Levels[x] = {x} \cup Levels[nrBarriers(x)]
    <2>1. Levels[x] = body(Levels)[x]
      BY <1>4
    <2>2. Levels[x] = IF x <= ThreadsPerBarrier THEN {x} ELSE {x} \cup Levels[nrBarriers(x)]
      BY <2>1
    <2> QED
      BY <2>2
  <1> HIDE DEF body
  <1> DEFINE Bad == {x \in Nat : Levels[x] # f[x]}
  <1>6. Bad = {}
    <2>1. SUFFICES ASSUME Bad # {} PROVE FALSE
      OBVIOUS
    <2>2. PICK x \in Bad : \A y \in Bad : x <= y
      BY <2>1, LeastNatural
    <2>3. x \in Nat /\ Levels[x] # f[x]
      BY <2>2
    <2>4. ~(x <= ThreadsPerBarrier) /\ x > ThreadsPerBarrier
      <3>1. ~(x <= ThreadsPerBarrier)
        BY <1>1, <1>5, <2>3
      <3> QED
        BY <2>3, <3>1, ThreadsPerBarrierAssumption
    <2>5. nrBarriers(x) \in Nat /\ nrBarriers(x) < x
      BY <2>3, <2>4, LevelsAbove
    <2>6. nrBarriers(x) \notin Bad
      BY <2>2, <2>3, <2>5
    <2>7. Levels[nrBarriers(x)] = f[nrBarriers(x)]
      BY <2>5, <2>6
    <2>8. Levels[x] = {x} \cup Levels[nrBarriers(x)]
      BY <1>5, <2>3, <2>4
    <2> QED
      BY <1>2, <2>3, <2>4, <2>7, <2>8
  <1> QED
    BY <1>6 DEF f

\* The barriers of the tree.
LEMMA TreeIs ==
  ASSUME NEW n \in Nat \ {0}, NEW b
  PROVE  b \in Tree(n) <=>
           \E k \in 0 .. Height(n) : \E i \in 0 .. Width[k + 1][n] - 1 : b = <<Width[k][n], i>>
  <1>1. \A k \in Nat : Width[k + 1][n] = nrBarriers(Width[k][n])
    BY WidthSteps
  <1>2. Levels[n] = {Width[k][n] : k \in 0 .. Height(n)}
    BY LevelsAre
  <1>3. b \in Tree(n) <=> \E k \in 0 .. Height(n) : b \in Level(Width[k][n])
    BY <1>2 DEF Tree
  <1>4. \A k \in 0 .. Height(n) : b \in Level(Width[k][n]) <=>
                                    \E i \in 0 .. Width[k + 1][n] - 1 : b = <<Width[k][n], i>>
    BY <1>1 DEF Level
  <1> QED
    BY <1>3, <1>4

\* The parents of the barriers of a level are the barriers of the next.
LEMMA ParentInTree ==
  ASSUME NEW n \in Nat \ {0}, NEW k \in 0 .. Height(n), NEW i \in 0 .. Width[k + 1][n] - 1
  PROVE  Parent(<<Width[k][n], i>>) = IF k = Height(n) THEN NoParent
                                      ELSE <<Width[k + 1][n], i \div ThreadsPerBarrier>>
  <1> DEFINE w == Width[k][n]
  <1>1. w \in Nat \ {0} /\ Width[k + 1][n] = nrBarriers(w) /\ Height(n) \in Nat
    BY LevelsShrink, WidthSteps
  <1>2. Parent(<<w, i>>) = IF w <= ThreadsPerBarrier THEN NoParent
                           ELSE <<nrBarriers(w), i \div ThreadsPerBarrier>>
    <2> HIDE DEF w
    <2> QED
      BY <1>1, ParentIs
  <1>3. k = Height(n) => w <= ThreadsPerBarrier
    BY LevelsShrink
  <1>4. k # Height(n) => ~(w <= ThreadsPerBarrier)
    <2> SUFFICES ASSUME k # Height(n) PROVE ~(w <= ThreadsPerBarrier)
      OBVIOUS
    <2>1. k \in Nat /\ k < Height(n)
      BY <1>1
    <2>2. w > ThreadsPerBarrier
      BY <2>1, LevelsShrink
    <2> HIDE DEF w
    <2> QED
      BY <1>1, <2>2, ThreadsPerBarrierAssumption
  <1> HIDE DEF w
  <1>5. Parent(<<w, i>>) = IF k = Height(n) THEN NoParent
                           ELSE <<Width[k + 1][n], i \div ThreadsPerBarrier>>
    BY <1>1, <1>2, <1>3, <1>4
  <1> QED
    BY <1>5 DEF w

\* A barrier of the tree is of one level only.
LEMMA SameLevel ==
  ASSUME NEW n \in Nat \ {0}, NEW j \in 0 .. Height(n), NEW k \in 0 .. Height(n),
         Width[j][n] = Width[k][n]
  PROVE  j = k
  <1>1. /\ Height(n) \in Nat /\ \A i \in Nat : Width[i][n] \in Nat
    BY LevelsShrink
  <1>2. ASSUME j < k PROVE FALSE
    BY <1>1, <1>2, LevelsDiffer
  <1>3. ASSUME k < j PROVE FALSE
    BY <1>1, <1>3, LevelsDiffer
  <1> QED
    BY <1>1, <1>2, <1>3

\* Every barrier of every tree is created for as many as come to it.
LEMMA AllCountsMatch ==
  ASSUME NEW n \in Nat \ {0}
  PROVE  CountsMatch(n)
  <1> SUFFICES ASSUME NEW b \in Tree(n)
               PROVE  Cardinality(Participants(n, b)) = threadCount(b) /\ threadCount(b) > 0
    BY DEF CountsMatch
  <1>0. PICK k \in 0 .. Height(n) : \E j \in 0 .. Width[k + 1][n] - 1 : b = <<Width[k][n], j>>
    BY TreeIs
  <1>1. PICK j \in 0 .. Width[k + 1][n] - 1 : b = <<Width[k][n], j>>
    BY <1>0
  <1>2. Height(n) \in Nat /\ k \in Nat
    BY LevelsShrink
  <1> DEFINE w == Width[k][n]
  <1>3. w \in Nat \ {0} /\ Width[k + 1][n] = nrBarriers(w)
    BY <1>2, LevelsShrink, WidthSteps
  <1>4. /\ IsFiniteSet(Share(w, j))
        /\ Cardinality(Share(w, j)) = threadCount(b)
        /\ threadCount(b) \in Nat \ {0}
    <2> HIDE DEF w
    <2> QED
      BY <1>1, <1>3, ShareIs DEF w
  <1>5. CASE k = 0
    <2>1. w = n
      BY <1>5, WidthSteps
    <2>2. b[1] = n /\ Participants(n, b) = {i \in 0 .. n - 1 : Leaf(n, i) = b}
      BY <1>1, <2>1 DEF Participants
    <2>3. \A i \in 0 .. n - 1 : Leaf(n, i) = <<n, i \div ThreadsPerBarrier>>
      BY LeafIs
    <2>4. b = <<n, j>>
      BY <1>1, <2>1
    <2>5. Participants(n, b) = Share(n, j)
      BY <2>2, <2>3, <2>4 DEF Share
    <2> QED
      BY <1>4, <2>1, <2>5
  <1>6. CASE k # 0
    <2> DEFINE v == Width[k - 1][n]
               P == Participants(n, b)
               f == [i \in Share(w, j) |-> <<v, i>>]
    <2>1. k - 1 \in 0 .. Height(n) /\ (k - 1) + 1 = k /\ k - 1 # Height(n)
      BY <1>2, <1>6
    <2>2. w < n
      <3>1. Width[k][n] < Width[0][n]
        BY <1>2, <1>6, LevelsDiffer
      <3> QED
        BY <3>1, WidthSteps
    <2>3. P = {c \in Tree(n) : Parent(c) = b}
      BY <1>1, <1>3, <2>2 DEF Participants
    <2>4. ASSUME NEW i \in Share(w, j) PROVE <<v, i>> \in P
      <3>1. i \in 0 .. w - 1 /\ i \div ThreadsPerBarrier = j
        BY DEF Share
      <3>2. <<v, i>> \in Tree(n)
        BY <2>1, <3>1, TreeIs
      <3>3. Parent(<<v, i>>) = b
        BY <1>1, <2>1, <3>1, ParentInTree
      <3> QED
        BY <2>3, <3>2, <3>3
    <2>5. ASSUME NEW c \in P PROVE \E i \in Share(w, j) : c = <<v, i>>
      <3>1. c \in Tree(n) /\ Parent(c) = b
        BY <2>3
      <3>0. PICK l \in 0 .. Height(n) : \E i \in 0 .. Width[l + 1][n] - 1 : c = <<Width[l][n], i>>
        BY <3>1, TreeIs
      <3>2. PICK i \in 0 .. Width[l + 1][n] - 1 : c = <<Width[l][n], i>>
        BY <3>0
      <3>3. Parent(c) = IF l = Height(n) THEN NoParent
                        ELSE <<Width[l + 1][n], i \div ThreadsPerBarrier>>
        BY <3>2, ParentInTree
      <3>4. b # NoParent
        BY <1>1, <1>3 DEF NoParent
      <3>5. l # Height(n) /\ Width[l + 1][n] = w /\ i \div ThreadsPerBarrier = j
        BY <1>1, <3>1, <3>3, <3>4
      <3>6. l + 1 = k
        <4>1. l + 1 \in 0 .. Height(n)
          BY <1>2, <3>5
        <4> QED
          BY <3>5, <4>1, SameLevel
      <3>7. l = k - 1
        BY <1>2, <3>6
      <3> QED
        BY <3>2, <3>5, <3>7 DEF Share
    <2> HIDE DEF P, v, w
    <2>6. f \in [Share(w, j) -> P]
      BY <2>4
    <2>7. f \in Bijection(Share(w, j), P)
      <3>1. \A x, y \in Share(w, j) : f[x] = f[y] => x = y
        OBVIOUS
      <3>2. \A c \in P : \E i \in Share(w, j) : f[i] = c
        BY <2>5
      <3> HIDE DEF f
      <3> QED
        BY <2>6, <3>1, <3>2 DEF Bijection, Injection, Surjection, IsInjective
    <2>8. Cardinality(P) = Cardinality(Share(w, j))
      BY <1>4, <2>7, FS_Bijection DEF ExistsBijection
    <2> QED
      BY <1>4, <2>8 DEF P
  <1> QED
    BY <1>5, <1>6

\* Every tree has one root, and no barrier hangs in the air.
LEMMA AllOneRoot ==
  ASSUME NEW n \in Nat \ {0}
  PROVE  OneRoot(n)
  <1> DEFINE root == <<Width[Height(n)][n], 0>>
  <1>1. Height(n) \in Nat /\ Width[Height(n) + 1][n] = 1
    BY LevelsShrink
  <1>2. root \in Tree(n) /\ Parent(root) = NoParent
    <2>1. Height(n) \in 0 .. Height(n) /\ 0 \in 0 .. Width[Height(n) + 1][n] - 1
      BY <1>1
    <2> QED
      BY <2>1, TreeIs, ParentInTree
  <1>3. ASSUME NEW b \in Tree(n)
        PROVE  (Parent(b) = NoParent => b = root) /\ (Parent(b) = NoParent \/ Parent(b) \in Tree(n))
    <2>0. PICK k \in 0 .. Height(n) : \E i \in 0 .. Width[k + 1][n] - 1 : b = <<Width[k][n], i>>
      BY TreeIs
    <2>1. PICK i \in 0 .. Width[k + 1][n] - 1 : b = <<Width[k][n], i>>
      BY <2>0
    <2>2. Parent(b) = IF k = Height(n) THEN NoParent
                      ELSE <<Width[k + 1][n], i \div ThreadsPerBarrier>>
      BY <2>1, ParentInTree
    <2>3. CASE k = Height(n)
      BY <1>1, <2>1, <2>2, <2>3
    <2>4. CASE k # Height(n)
      <3> DEFINE v == Width[k + 1][n]
      <3>1. k + 1 \in 0 .. Height(n) /\ k \in Nat
        BY <1>1, <2>4
      <3>2. v \in Nat \ {0} /\ Width[(k + 1) + 1][n] = nrBarriers(v)
        BY <3>1, LevelsShrink, WidthSteps
      <3>3. i \div ThreadsPerBarrier \in 0 .. nrBarriers(v) - 1
        <4> HIDE DEF v
        <4> QED
          BY <3>2, InsideLevel DEF v
      <3>4. <<v, i \div ThreadsPerBarrier>> \in Tree(n)
        BY <3>1, <3>2, <3>3, TreeIs
      <3>5. <<v, i \div ThreadsPerBarrier>> # NoParent
        BY <3>2 DEF NoParent
      <3> QED
        BY <2>2, <2>4, <3>4, <3>5
    <2> QED
      BY <2>3, <2>4
  <1> HIDE DEF root
  <1>4. {b \in Tree(n) : Parent(b) = NoParent} = {root}
    BY <1>2, <1>3
  <1>5. Cardinality({root}) = 1
    BY FS_Singleton
  <1> QED
    BY <1>3, <1>4, <1>5 DEF OneRoot
-----------------------------------------------------------------------------
\* The sequences of barriers, as destroy takes them.
Barrier2 == Nat \X Nat
Rows == Seq(Barrier2)

\* The parents of a row of barriers are a shorter row.
LEMMA ParentsShrink ==
  ASSUME NEW these \in Rows
  PROVE  /\ parents(these) \in Rows
         /\ Len(parents(these)) > 1 => Len(parents(these)) < Len(these)
  <1> DEFINE l == Len(these)
             c == (l + ThreadsPerBarrier - 1) \div ThreadsPerBarrier
  <1>1. l \in Nat /\ \A i \in 1 .. l : these[i] \in Barrier2
    BY DEF Rows
  <1>2. l + ThreadsPerBarrier - 1 \in Nat
    <2> HIDE DEF l
    <2> QED
      BY <1>1, ThreadsPerBarrierAssumption
  <1>3. /\ c \in Nat /\ ThreadsPerBarrier * c <= l + ThreadsPerBarrier - 1
    <2> HIDE DEF l
    <2> QED
      BY <1>2, DivIs
  <1>4. ASSUME NEW k \in 1 .. c PROVE (k - 1) * ThreadsPerBarrier + 1 \in 1 .. l
    <2> HIDE DEF l, c
    <2>1. PICK d \in Nat : c = k + d
      <3>1. c - k \in Nat /\ c = k + (c - k)
        BY <1>3
      <3> QED
        BY <3>1
    <2>2. k \in Nat /\ k >= 1 /\ k - 1 \in Nat
      BY <1>3
    <2>3. ThreadsPerBarrier * c = (k - 1) * ThreadsPerBarrier + ThreadsPerBarrier + ThreadsPerBarrier * d
      BY <2>1, <2>2, ThreadsPerBarrierAssumption
    <2>4. ThreadsPerBarrier * d \in Nat /\ (k - 1) * ThreadsPerBarrier \in Nat
      BY <2>1, <2>2, ThreadsPerBarrierAssumption
    <2> QED
      BY <1>1, <1>3, <2>3, <2>4, ThreadsPerBarrierAssumption
  <1>5. ASSUME NEW b \in Barrier2 PROVE Parent(b) \in Barrier2
    <2>1. b[1] \in Nat /\ b[2] \in Nat
      BY <1>5 DEF Barrier2
    <2>2. b[2] \div ThreadsPerBarrier \in Nat
      BY <2>1, DivIs
    <2>3. CASE b[1] <= ThreadsPerBarrier
      BY <2>3 DEF Parent, NoParent, Barrier2
    <2>4. CASE ~(b[1] <= ThreadsPerBarrier)
      <3>1. b[1] \in Nat \ {0}
        BY <2>1, <2>4, ThreadsPerBarrierAssumption
      <3>2. nrBarriers(b[1]) \in Nat \ {0}
        BY <3>1, EnoughBarriers
      <3>3. nrBarriers(nrBarriers(b[1])) \in Nat \ {0}
        BY <3>2, EnoughBarriers
      <3>4. nrBarriers(nrBarriers(b[1])) - 1 \in Nat
        BY <3>3
      <3> QED
        BY <2>2, <2>4, <3>2, <3>4 DEF Parent, Back, Barrier2
    <2> QED
      BY <2>3, <2>4
  <1>6. parents(these) = [k \in 1 .. c |-> Parent(these[(k - 1) * ThreadsPerBarrier + 1])]
    BY DEF parents
  <1> HIDE DEF l, c
  <1>7. parents(these) \in [1 .. c -> Barrier2]
    BY <1>1, <1>4, <1>5, <1>6
  <1>8. parents(these) \in Rows /\ Len(parents(these)) = c
    BY <1>3, <1>7 DEF Rows
  <1>9. c > 1 => c < l
    <2> SUFFICES ASSUME c > 1, ~(c < l) PROVE FALSE
      BY <1>1, <1>3
    <2>1. PICK d \in Nat : c = d + 2
      <3>1. c - 2 \in Nat /\ c = (c - 2) + 2
        BY <1>3
      <3> QED
        BY <3>1
    <2>2. ThreadsPerBarrier * c = ThreadsPerBarrier * d + 2 * ThreadsPerBarrier
      BY <2>1, ThreadsPerBarrierAssumption
    <2>3. ThreadsPerBarrier * d >= 2 * d
      BY <2>1, ThreadsPerBarrierAssumption
    <2>4. ThreadsPerBarrier * d \in Nat
      BY <2>1, ThreadsPerBarrierAssumption
    <2> QED
      BY <1>1, <1>3, <2>1, <2>2, <2>3, <2>4, ThreadsPerBarrierAssumption
  <1> QED
    BY <1>8, <1>9 DEF l

\* What destroy does with the parents, given what it does above them.
Rest(g, up) == IF Len(up) > 1 THEN g[up] ELSE IF up = <<NoParent>> THEN <<>> ELSE up

\* The recursion of destroy ends: it is a function that satisfies its equation.
DestroySteps == [k \in Nat |-> [g \in [Rows -> Rows] |-> [these \in Rows |-> these \o Rest(g, parents(these))]]]
Destroys == CHOOSE f : Follows(f, [Rows -> Rows], [these \in Rows |-> <<>>], DestroySteps)

\* That is a row of barriers again.
LEMMA RestIsRow ==
  ASSUME NEW g \in [Rows -> Rows], NEW up \in Rows
  PROVE  Rest(g, up) \in Rows
  <1>1. <<>> \in Rows
    BY DEF Rows
  <1> QED
    BY <1>1 DEF Rest

\* Destroys[k] is destroy as far as k calls of it reach.
LEMMA DestroysAre ==
  /\ Destroys \in [Nat -> [Rows -> Rows]]
  /\ \A k \in Nat, these \in Rows :
       Destroys[k + 1][these] = these \o Rest(Destroys[k], parents(these))
  <1> DEFINE V == [Rows -> Rows]
             a == [these \in Rows |-> <<>>]
             f == Destroys
  <1>1. a \in V
    <2>1. <<>> \in Rows
      BY DEF Rows
    <2> QED
      BY <2>1
  <1>2. DestroySteps \in Steps(V)
    <2>1. ASSUME NEW g \in V, NEW these \in Rows PROVE these \o Rest(g, parents(these)) \in Rows
      <3>1. Rest(g, parents(these)) \in Rows
        BY ParentsShrink, RestIsRow
      <3> QED
        BY <3>1 DEF Rows
    <2> QED
      BY <2>1 DEF Steps, DestroySteps
  <1>3. \E g : Follows(g, V, a, DestroySteps)
    <2> HIDE DEF V, a
    <2> QED
      BY <1>1, <1>2, RecursionOnNat
  <1>4. f \in [Nat -> V] /\ \A k \in Nat : f[k + 1] = DestroySteps[k][f[k]]
    <2>1. Follows(f, V, a, DestroySteps)
      BY <1>3 DEF Destroys
    <2> HIDE DEF f, V, a
    <2> QED
      BY <2>1 DEF Follows
  <1>5. ASSUME NEW k \in Nat, NEW these \in Rows
        PROVE  f[k + 1][these] = these \o Rest(f[k], parents(these))
    <2> HIDE DEF f
    <2>1. f[k] \in V /\ f[k + 1] = DestroySteps[k][f[k]]
      BY <1>4
    <2> QED
      BY <2>1 DEF DestroySteps
  <1> QED
    BY <1>4, <1>5

\* Once it is deep enough, the depth of the recursion makes no difference.
Settled(k) == \A these \in Rows : Len(these) < k => Destroys[k][these] = Destroys[Len(these) + 1][these]

\* By induction on the depth: the rows get shorter from call to call.
LEMMA AllSettled == \A k \in Nat : Settled(k)
  <1> DEFINE Bad == {k \in Nat : ~Settled(k)}
  <1> SUFFICES ASSUME Bad # {} PROVE FALSE
    OBVIOUS
  <1>1. PICK k \in Bad : \A j \in Bad : k <= j
    BY LeastNatural
  <1>2. k \in Nat /\ ~Settled(k) /\ \A j \in Nat : j < k => Settled(j)
    BY <1>1
  <1> HIDE DEF Bad
  <1>3. PICK these \in Rows : Len(these) < k /\ Destroys[k][these] # Destroys[Len(these) + 1][these]
    BY <1>2 DEF Settled
  <1> DEFINE l == Len(these)
             up == parents(these)
  <1>4. l \in Nat /\ l < k /\ l + 1 # k
    <2>1. l \in Nat
      BY DEF Rows
    <2> QED
      BY <1>3, <2>1
  <1>5. up \in Rows /\ Len(up) \in Nat /\ (Len(up) > 1 => Len(up) < l)
    <2>1. up \in Rows /\ (Len(up) > 1 => Len(up) < l)
      BY ParentsShrink
    <2> HIDE DEF up
    <2> QED
      BY <2>1 DEF Rows
  <1> HIDE DEF l, up
  <1>6. k - 1 \in Nat /\ (k - 1) + 1 = k /\ k - 1 < k /\ l < k - 1
    BY <1>2, <1>4
  <1>7. /\ Destroys[k][these] = these \o Rest(Destroys[k - 1], up)
        /\ Destroys[l + 1][these] = these \o Rest(Destroys[l], up)
    BY <1>4, <1>6, DestroysAre DEF up
  <1>8. Len(up) > 1 => Destroys[k - 1][up] = Destroys[l][up]
    <2> SUFFICES ASSUME Len(up) > 1 PROVE Destroys[k - 1][up] = Destroys[l][up]
      OBVIOUS
    <2>1. Len(up) < l /\ Len(up) < k - 1
      BY <1>4, <1>5, <1>6
    <2>2. Settled(k - 1) /\ Settled(l)
      BY <1>2, <1>4, <1>6
    <2> QED
      BY <1>5, <2>1, <2>2 DEF Settled
  <1>9. Rest(Destroys[k - 1], up) = Rest(Destroys[l], up)
    BY <1>8 DEF Rest
  <1> QED
    BY <1>3, <1>7, <1>9 DEF l

\* destroy is the limit of Destroys, so its definition is not empty.
LEMMA DestroyIs ==
  ASSUME NEW these \in Rows
  PROVE  destroy[these] = these \o Rest(destroy, parents(these)) /\ destroy[these] \in Rows
  <1> DEFINE body(g) == [x \in Rows |-> x \o Rest(g, parents(x))]
             f == [x \in Rows |-> Destroys[Len(x) + 1][x]]
  <1>1. ASSUME NEW x \in Rows PROVE f[x] = x \o Rest(f, parents(x))
    <2> DEFINE up == parents(x)
               l == Len(x)
    <2>1. up \in Rows /\ (Len(up) > 1 => Len(up) < l) /\ l \in Nat
      BY ParentsShrink DEF Rows
    <2>2. f[x] = x \o Rest(Destroys[l], up)
      BY <2>1, DestroysAre
    <2>3. Len(up) > 1 => Destroys[l][up] = f[up]
      <3>1. Settled(l)
        BY <2>1, AllSettled
      <3> HIDE DEF up, l
      <3> QED
        BY <2>1, <3>1 DEF Settled
    <2> HIDE DEF f, up
    <2>4. Rest(Destroys[l], up) = Rest(f, up)
      BY <2>3 DEF Rest
    <2> QED
      BY <2>2, <2>4 DEF up
  <1>2. f = body(f)
    <2>1. f = [x \in Rows |-> f[x]]
      OBVIOUS
    <2> HIDE DEF f
    <2> QED
      BY <1>1, <2>1
  <1>3. destroy = CHOOSE g : g = body(g)
    BY DEF destroy, Rows, Barrier2, Rest
  <1>4. destroy = body(destroy)
    <2> HIDE DEF body, f
    <2> QED
      BY <1>2, <1>3
  <1>5. \A x \in Rows : destroy[x] = x \o Rest(destroy, parents(x))
    <2> DEFINE g == destroy
    <2>1. g = body(g)
      BY <1>4
    <2> HIDE DEF g
    <2>2. \A x \in Rows : g[x] = x \o Rest(g, parents(x))
      BY <2>1
    <2> QED
      BY <2>2 DEF g
  <1>6. destroy[these] \in Rows
    <2> DEFINE Bad == {k \in Nat : \E x \in Rows : Len(x) = k /\ destroy[x] \notin Rows}
    <2>1. Bad = {}
      <3> SUFFICES ASSUME Bad # {} PROVE FALSE
        OBVIOUS
      <3>1. PICK k \in Bad : \A j \in Bad : k <= j
        BY LeastNatural
      <3>2. PICK x \in Rows : Len(x) = k /\ destroy[x] \notin Rows
        BY <3>1
      <3> DEFINE up == parents(x)
      <3>3. up \in Rows /\ (Len(up) > 1 => Len(up) < k) /\ k \in Nat /\ Len(up) \in Nat
        BY <3>2, ParentsShrink DEF Rows
      <3> HIDE DEF up
      <3>4. Len(up) > 1 => destroy[up] \in Rows
        BY <3>1, <3>3
      <3>5. Rest(destroy, up) \in Rows
        <4>1. <<>> \in Rows
          BY DEF Rows
        <4> QED
          BY <3>3, <3>4, <4>1 DEF Rest
      <3>6. x \o Rest(destroy, up) \in Rows
        BY <3>5 DEF Rows
      <3> QED
        BY <1>5, <3>2, <3>6 DEF up
    <2>2. Len(these) \in Nat
      BY DEF Rows
    <2> QED
      BY <2>1, <2>2
  <1> QED
    BY <1>5, <1>6

\* The parents of the barriers of a level are the barriers of the next, in
\* their order, the one under which the rest barrier hangs included.
LEMMA LevelParents ==
  ASSUME NEW n \in Nat \ {0}
  PROVE  /\ LevelSeq(n) \in Rows /\ Len(LevelSeq(n)) = nrBarriers(n)
         /\ n > ThreadsPerBarrier => parents(LevelSeq(n)) = LevelSeq(nrBarriers(n))
         /\ n <= ThreadsPerBarrier => parents(LevelSeq(n)) = <<NoParent>>
  <1> DEFINE m == nrBarriers(n)
             s == LevelSeq(n)
             c == (m + ThreadsPerBarrier - 1) \div ThreadsPerBarrier
  <1>1. m \in Nat \ {0} /\ (n <= ThreadsPerBarrier => m = 1)
    BY EnoughBarriers
  <1>2. s = [k \in 1 .. m |-> <<n, k - 1>>]
    BY DEF LevelSeq
  <1> HIDE DEF m
  <1>3. s \in Rows /\ Len(s) = m
    <2>1. \A k \in 1 .. m : <<n, k - 1>> \in Barrier2
      BY <1>1 DEF Barrier2
    <2>2. s \in [1 .. m -> Barrier2]
      BY <1>2, <2>1
    <2> HIDE DEF s
    <2> QED
      BY <1>1, <2>2 DEF Rows
  <1>4. c = nrBarriers(m)
    <2> DEFINE q == nrBarriers(m)
    <2>1. q \in Nat \ {0} /\ m <= ThreadsPerBarrier * q /\ ThreadsPerBarrier * (q - 1) < m
      BY <1>1, EnoughBarriers
    <2> HIDE DEF q
    <2>2. ThreadsPerBarrier * (q - 1) = ThreadsPerBarrier * q - ThreadsPerBarrier /\ ThreadsPerBarrier * q \in Nat
      BY <2>1, ThreadsPerBarrierAssumption
    <2> DEFINE p == ThreadsPerBarrier * q
    <2>3. p \in Nat /\ m <= p /\ p - ThreadsPerBarrier < m
      BY <2>1, <2>2
    <2> HIDE DEF p
    <2>4. m + ThreadsPerBarrier - 1 \in Nat /\ p <= m + ThreadsPerBarrier - 1 /\ m + ThreadsPerBarrier - 1 < p + ThreadsPerBarrier
      BY <1>1, <2>3, ThreadsPerBarrierAssumption
    <2>5. c = q
      BY <2>1, <2>4, DivUnique DEF p
    <2> QED
      BY <2>5 DEF q
  <1>5. parents(s) = [k \in 1 .. c |-> Parent(s[(k - 1) * ThreadsPerBarrier + 1])]
    <2> HIDE DEF s
    <2> QED
      BY <1>3 DEF parents
  <1>6. CASE n <= ThreadsPerBarrier
    <2>1. m = 1
      BY <1>1, <1>6
    <2>2. c = 1
      BY <1>4, <2>1, ThreadsPerBarrierAssumption DEF nrBarriers
    <2>3. Parent(<<n, 0>>) = NoParent
      BY <1>6 DEF Parent
    <2>4. s[(1 - 1) * ThreadsPerBarrier + 1] = <<n, 0>>
      BY <1>2, <2>1, ThreadsPerBarrierAssumption
    <2> HIDE DEF s, c
    <2>5. parents(s) = <<NoParent>>
      BY <1>5, <2>2, <2>3, <2>4
    <2> QED
      BY <1>3, <1>6, <2>5, ThreadsPerBarrierAssumption DEF s, m
  <1>7. CASE n > ThreadsPerBarrier
    <2>1. ASSUME NEW k \in 1 .. c
          PROVE  Parent(s[(k - 1) * ThreadsPerBarrier + 1]) = <<m, k - 1>>
      <3> DEFINE i == (k - 1) * ThreadsPerBarrier
      <3>1. c \in Nat \ {0} /\ ThreadsPerBarrier * (c - 1) < m
        BY <1>1, <1>4, EnoughBarriers
      <3> HIDE DEF c
      <3>2. k - 1 \in Nat /\ k - 1 <= c - 1
        BY <3>1
      <3>3. i \in Nat /\ i <= ThreadsPerBarrier * (c - 1)
        <4>1. PICK d \in Nat : c - 1 = (k - 1) + d
          <5>1. c - k \in Nat /\ c - 1 = (k - 1) + (c - k)
            BY <3>1
          <5> QED
            BY <5>1
        <4>2. ThreadsPerBarrier * (c - 1) = i + ThreadsPerBarrier * d
          BY <3>2, <4>1, ThreadsPerBarrierAssumption
        <4>3. i \in Nat /\ ThreadsPerBarrier * d \in Nat
          BY <3>2, <4>1, ThreadsPerBarrierAssumption
        <4> HIDE DEF i
        <4> QED
          BY <4>2, <4>3
      <3>4. ThreadsPerBarrier * (c - 1) \in Nat
        <4>1. c - 1 \in Nat
          BY <3>1
        <4> QED
          BY <4>1, ThreadsPerBarrierAssumption
      <3>5. i \div ThreadsPerBarrier = k - 1
        <4>1. ThreadsPerBarrier * (k - 1) = i
          BY <3>2, ThreadsPerBarrierAssumption
        <4>2. ThreadsPerBarrier * (k - 1) <= i /\ i < ThreadsPerBarrier * (k - 1) + ThreadsPerBarrier
          <5> HIDE DEF i
          <5> QED
            BY <3>3, <4>1, ThreadsPerBarrierAssumption
        <4> HIDE DEF i
        <4> QED
          BY <3>2, <3>3, <4>2, DivUnique
      <3> HIDE DEF i
      <3>6. i \in 0 .. m - 1 /\ i + 1 \in 1 .. m /\ (i + 1) - 1 = i
        BY <1>1, <3>1, <3>3, <3>4
      <3>7. s[i + 1] = <<n, i>>
        BY <1>2, <3>6
      <3>8. Parent(<<n, i>>) = <<m, i \div ThreadsPerBarrier>>
        <4>1. ~(n <= ThreadsPerBarrier)
          BY <1>7, ThreadsPerBarrierAssumption
        <4>2. i \in 0 .. nrBarriers(n) - 1
          BY <3>6 DEF m
        <4> QED
          BY <4>1, <4>2, ParentIs DEF m
      <3> QED
        BY <3>5, <3>7, <3>8 DEF i
    <2>2. LevelSeq(m) = [k \in 1 .. c |-> <<m, k - 1>>]
      BY <1>4 DEF LevelSeq
    <2>3. ~(n <= ThreadsPerBarrier)
      BY <1>7, ThreadsPerBarrierAssumption
    <2> HIDE DEF s, c
    <2>4. parents(s) = LevelSeq(m)
      BY <1>5, <2>1, <2>2
    <2> QED
      BY <1>3, <2>3, <2>4 DEF s, m
  <1> QED
    BY <1>6, <1>7, ThreadsPerBarrierAssumption

\* The tree of a group is its lowest level and the tree above it.
LEMMA TreeAbove ==
  ASSUME NEW n \in Nat, n > ThreadsPerBarrier
  PROVE  Tree(n) = Level(n) \cup Tree(nrBarriers(n)) /\ Level(n) \cap Tree(nrBarriers(n)) = {}
  <1> DEFINE m == nrBarriers(n)
  <1>1. /\ m \in Nat \ {0} /\ n \in Nat \ {0}
        /\ \A k \in Nat : Width[k + 1][n] = Width[k][m]
        /\ Height(n) = Height(m) + 1 /\ Height(m) \in Nat
    <2>1. m \in Nat \ {0}
      BY LevelsAbove
    <2> QED
      BY <2>1, LevelsAbove, LevelsShrink, ThreadsPerBarrierAssumption
  <1>2. Levels[n] = {n} \cup Levels[m]
    <2>1. Levels[n] = {Width[k][n] : k \in 0 .. Height(n)} /\ Levels[m] = {Width[k][m] : k \in 0 .. Height(m)}
      BY <1>1, LevelsAre
    <2>2. Width[0][n] = n /\ 0 \in 0 .. Height(n)
      BY <1>1, WidthSteps
    <2>3. ASSUME NEW k \in 0 .. Height(n) PROVE Width[k][n] = n \/ Width[k][n] \in Levels[m]
      <3>1. CASE k = 0
        BY <2>2, <3>1
      <3>2. CASE k # 0
        <4>1. k - 1 \in 0 .. Height(m) /\ k - 1 \in Nat /\ (k - 1) + 1 = k
          BY <1>1, <3>2
        <4>2. Width[k][n] = Width[k - 1][m]
          BY <1>1, <4>1
        <4> QED
          BY <2>1, <4>1, <4>2
      <3> QED
        BY <3>1, <3>2
    <2>4. ASSUME NEW k \in 0 .. Height(m) PROVE Width[k][m] \in Levels[n]
      <3>1. k + 1 \in 0 .. Height(n) /\ Width[k + 1][n] = Width[k][m]
        BY <1>1
      <3> HIDE DEF m
      <3> QED
        BY <2>1, <3>1
    <2> HIDE DEF m
    <2> QED
      BY <2>1, <2>2, <2>3, <2>4
  <1>3. Tree(n) = Level(n) \cup Tree(m)
    BY <1>2 DEF Tree
  <1>4. ASSUME NEW b \in Level(n), b \in Tree(m) PROVE FALSE
    <2>1. PICK k \in 0 .. Height(m) : \E i \in 0 .. Width[k + 1][m] - 1 : b = <<Width[k][m], i>>
      BY <1>1, <1>4, TreeIs, ZenonT(30)
    <2>2. b[1] = Width[k][m]
      BY <2>1
    <2>3. b[1] = n
      BY <1>4 DEF Level
    <2>4. k + 1 \in Nat /\ 0 < k + 1 /\ k + 1 <= Height(n) /\ Width[k + 1][n] = Width[k][m]
      BY <1>1
    <2>5. Width[k + 1][n] < Width[0][n] /\ Width[0][n] = n
      BY <1>1, <2>4, LevelsDiffer, WidthSteps
    <2>6. Width[k + 1][n] = n
      BY <2>2, <2>3, <2>4
    <2> QED
      BY <1>1, <2>5, <2>6
  <1> QED
    BY <1>3, <1>4

\* destroy frees every barrier of every tree, and none of them twice.
FreedRight(n) ==
  /\ {Freed(n)[k] : k \in 1 .. Len(Freed(n))} = Tree(n)
  /\ IsFiniteSet(Tree(n)) /\ Len(Freed(n)) = Cardinality(Tree(n))

\* The row of a level holds each of its barriers once.
LEMMA LevelFreed ==
  ASSUME NEW n \in Nat \ {0}
  PROVE  /\ {LevelSeq(n)[k] : k \in 1 .. nrBarriers(n)} = Level(n)
         /\ IsFiniteSet(Level(n)) /\ Cardinality(Level(n)) = nrBarriers(n)
  <1> DEFINE m == nrBarriers(n)
             s == LevelSeq(n)
  <1>1. m \in Nat \ {0}
    BY EnoughBarriers
  <1>2. s = [k \in 1 .. m |-> <<n, k - 1>>] /\ Level(n) = {<<n, i>> : i \in 0 .. m - 1}
    BY DEF LevelSeq, Level
  <1> HIDE DEF m, s
  <1>3. \A i \in 0 .. m - 1 : i + 1 \in 1 .. m /\ (i + 1) - 1 = i
    BY <1>1
  <1>4. \A k \in 1 .. m : k - 1 \in 0 .. m - 1
    BY <1>1
  <1>5. {s[k] : k \in 1 .. m} = Level(n)
    BY <1>2, <1>3, <1>4
  <1>6. s \in Bijection(1 .. m, Level(n))
    <2>1. s \in [1 .. m -> Level(n)]
      BY <1>2, <1>4
    <2>2. \A j, k \in 1 .. m : s[j] = s[k] => j = k
      BY <1>1, <1>2
    <2>3. \A b \in Level(n) : \E k \in 1 .. m : s[k] = b
      BY <1>5
    <2> QED
      BY <2>1, <2>2, <2>3 DEF Bijection, Injection, Surjection, IsInjective
  <1>7. IsFiniteSet(1 .. m) /\ Cardinality(1 .. m) = m
    <2>1. /\ IsFiniteSet(1 .. m)
          /\ Cardinality(1 .. m) = IF 1 > m THEN 0 ELSE m - 1 + 1
      BY <1>1, FS_Interval
    <2> QED
      BY <1>1, <2>1
  <1>8. IsFiniteSet(Level(n)) /\ Cardinality(Level(n)) = Cardinality(1 .. m)
    BY <1>6, <1>7, FS_Bijection DEF ExistsBijection
  <1> QED
    BY <1>5, <1>7, <1>8 DEF m, s

\* By induction on the number of participants.
LEMMA AllFreedRight == \A n \in Nat \ {0} : FreedRight(n)
  <1> DEFINE Bad == {n \in Nat : n # 0 /\ ~FreedRight(n)}
  <1> SUFFICES ASSUME Bad # {} PROVE FALSE
    OBVIOUS
  <1>1. PICK n \in Bad : \A j \in Bad : n <= j
    BY LeastNatural
  <1>2. n \in Nat \ {0} /\ ~FreedRight(n) /\ \A j \in Nat \ {0} : j < n => FreedRight(j)
    BY <1>1
  <1> HIDE DEF Bad
  <1> DEFINE m == nrBarriers(n)
             s == LevelSeq(n)
             f == Freed(n)
             up == parents(s)
  <1>3. /\ m \in Nat \ {0} /\ s \in Rows /\ Len(s) = m
        /\ {s[k] : k \in 1 .. m} = Level(n)
        /\ IsFiniteSet(Level(n)) /\ Cardinality(Level(n)) = m
    BY <1>2, EnoughBarriers, LevelParents, LevelFreed
  <1>4. f = s \o Rest(destroy, up)
    BY <1>3, DestroyIs DEF Freed
  <1>5. CASE n <= ThreadsPerBarrier
    <2>1. up = <<NoParent>>
      BY <1>2, <1>5, LevelParents
    <2> HIDE DEF up, f, s, m
    <2>2. Rest(destroy, up) = <<>>
      BY <2>1 DEF Rest
    <2>3. f = s
      BY <1>3, <1>4, <2>2 DEF Rows
    <2>4. Tree(n) = Level(n)
      <3>1. Levels[n] = {n}
        <4>1. Height(n) = 0 /\ Width[0][n] = n
          BY <1>2, <1>5, LowTree
        <4>2. Levels[n] = {Width[k][n] : k \in 0 .. Height(n)}
          BY <1>2, LevelsAre
        <4>3. 0 .. Height(n) = {0}
          BY <4>1
        <4> QED
          BY <4>1, <4>2, <4>3
      <3> QED
        BY <3>1 DEF Tree
    <2>5. {f[k] : k \in 1 .. Len(f)} = Tree(n) /\ IsFiniteSet(Tree(n)) /\ Len(f) = Cardinality(Tree(n))
      BY <1>3, <2>3, <2>4
    <2> QED
      BY <1>2, <2>5 DEF FreedRight, f
  <1>6. CASE n > ThreadsPerBarrier
    <2> DEFINE g == Freed(m)
    <2>1. m < n /\ up = LevelSeq(m)
      BY <1>2, <1>6, LevelParents, EnoughBarriers
    <2>2. FreedRight(m)
      BY <1>2, <1>3, <2>1
    <2>3. g \in Rows /\ up \in Rows /\ Len(up) = nrBarriers(m)
      BY <1>3, <2>1, LevelParents, DestroyIs DEF Freed
    <2>4. Rest(destroy, up) = g
      <3>1. CASE m > ThreadsPerBarrier
        <4>1. nrBarriers(m) > 1
          <5>1. nrBarriers(m) \in Nat \ {0} /\ m <= ThreadsPerBarrier * nrBarriers(m)
            BY <1>3, EnoughBarriers
          <5> HIDE DEF m
          <5>2. nrBarriers(m) # 1
            BY <1>3, <3>1, <5>1, ThreadsPerBarrierAssumption
          <5> QED
            BY <5>1, <5>2
        <4> QED
          BY <2>1, <2>3, <4>1 DEF Rest, Freed
      <3>2. CASE ~(m > ThreadsPerBarrier)
        <4>1. m <= ThreadsPerBarrier
          BY <1>3, <3>2, ThreadsPerBarrierAssumption
        <4>2. nrBarriers(m) = 1
          BY <1>3, <4>1, EnoughBarriers
        <4>3. up = [k \in 1 .. 1 |-> <<m, k - 1>>]
          BY <2>1, <4>2 DEF LevelSeq
        <4>4. up[1] = <<m, 0>>
          BY <4>3
        <4>5. up # <<NoParent>>
          <5>1. <<NoParent>>[1] = NoParent /\ <<m, 0>> # NoParent
            BY <1>3 DEF NoParent
          <5> HIDE DEF up
          <5> QED
            BY <4>4, <5>1
        <4>6. parents(LevelSeq(m)) = <<NoParent>>
          BY <1>3, <4>1, LevelParents
        <4>7. g = up \o Rest(destroy, <<NoParent>>)
          BY <2>1, <2>3, <4>6, DestroyIs DEF Freed
        <4>8. Rest(destroy, <<NoParent>>) = <<>>
          BY DEF Rest
        <4> HIDE DEF g, up
        <4>9. g = up
          BY <2>3, <4>7, <4>8 DEF Rows
        <4>10. Rest(destroy, up) = up
          BY <2>3, <4>2, <4>5 DEF Rest
        <4> QED
          BY <4>9, <4>10
      <3> QED
        BY <3>1, <3>2
    <2>5. /\ Tree(n) = Level(n) \cup Tree(m) /\ Level(n) \cap Tree(m) = {}
      BY <1>2, <1>6, TreeAbove
    <2>6. {g[k] : k \in 1 .. Len(g)} = Tree(m) /\ IsFiniteSet(Tree(m)) /\ Len(g) = Cardinality(Tree(m))
      BY <2>2 DEF FreedRight
    <2> HIDE DEF g, f, s, m, up
    <2>7. f = s \o g
      BY <1>4, <2>4
    <2>8. Len(f) = m + Len(g) /\ Len(g) \in Nat
      BY <1>3, <2>3, <2>7, SMTT(30) DEF Rows
    <2>9. /\ \A k \in 1 .. m : f[k] = s[k]
          /\ \A k \in 1 .. Len(g) : f[m + k] = g[k]
      BY <1>3, <2>3, <2>7 DEF Rows
    <2>10. {f[k] : k \in 1 .. Len(f)} = Tree(n)
      <3>1. ASSUME NEW k \in 1 .. Len(f) PROVE f[k] \in Tree(n)
        <4>1. CASE k \in 1 .. m
          BY <1>3, <2>5, <2>9, <4>1
        <4>2. CASE k \notin 1 .. m
          <5>1. k - m \in 1 .. Len(g) /\ m + (k - m) = k
            BY <1>3, <2>8, <4>2
          <5>2. f[k] = g[k - m]
            BY <2>9, <5>1
          <5> QED
            BY <2>5, <2>6, <5>1, <5>2
        <4> QED
          BY <4>1, <4>2
      <3>2. ASSUME NEW b \in Tree(n) PROVE \E k \in 1 .. Len(f) : b = f[k]
        <4>1. CASE b \in Level(n)
          <5>1. PICK k \in 1 .. m : b = s[k]
            BY <1>3, <4>1
          <5>2. k \in 1 .. Len(f)
            BY <1>3, <2>8
          <5> QED
            BY <2>9, <5>1, <5>2
        <4>2. CASE b \in Tree(m)
          <5>1. PICK k \in 1 .. Len(g) : b = g[k]
            BY <2>6, <4>2
          <5>2. m + k \in 1 .. Len(f)
            BY <1>3, <2>8
          <5> QED
            BY <2>9, <5>1, <5>2
        <4> QED
          BY <2>5, <4>1, <4>2
      <3> QED
        BY <3>1, <3>2
    <2>11. IsFiniteSet(Tree(n)) /\ Cardinality(Tree(n)) = m + Len(g)
      <3>1. IsFiniteSet(Level(n) \cup Tree(m))
        BY <1>3, <2>6, FS_Union
      <3>2. Cardinality(Level(n) \cup Tree(m))
              = Cardinality(Level(n)) + Cardinality(Tree(m)) - Cardinality(Level(n) \cap Tree(m))
        BY <1>3, <2>6, FS_Union
      <3>3. Cardinality(Level(n) \cap Tree(m)) = 0
        BY <2>5, FS_EmptySet
      <3> QED
        BY <1>3, <2>5, <2>6, <2>8, <3>1, <3>2, <3>3
    <2>12. /\ {f[k] : k \in 1 .. Len(f)} = Tree(n)
           /\ IsFiniteSet(Tree(n)) /\ Len(f) = Cardinality(Tree(n))
      BY <2>8, <2>10, <2>11
    <2> QED
      BY <1>2, <2>12 DEF FreedRight, f
  <1> QED
    BY <1>2, <1>5, <1>6, ThreadsPerBarrierAssumption

\* The same, as module BarrierTree says it.
LEMMA AllFreedOnce ==
  ASSUME NEW n \in Nat \ {0}
  PROVE  FreedOnce(n)
  <1> DEFINE f == Freed(n)
  <1>1. f \in Rows
    BY LevelParents, DestroyIs DEF Freed
  <1>2. {f[k] : k \in 1 .. Len(f)} = Tree(n) /\ Len(f) = Cardinality(Tree(n))
    BY AllFreedRight DEF FreedRight
  <1> HIDE DEF f
  <1>3. DOMAIN f = 1 .. Len(f)
    BY <1>1 DEF Rows
  <1>4. {f[k] : k \in DOMAIN f} = Tree(n) /\ Len(f) = Cardinality(Tree(n))
    BY <1>2, <1>3
  <1> QED
    BY <1>4 DEF FreedOnce, f

-----------------------------------------------------------------------------
\* The levels of the tree of the group, and the barrier of a worker's path at
\* each of them.  Two workers are the same below a level if they belong to the
\* same participant of it.
TopLevel == Height(Size)
Depths == 0 .. TopLevel
Up(t, k) == <<Width[k][Size], Index[k + 1][t]>>
Same(t, u, k) == Index[k][t] = Index[k][u]

\* A thread that is the last to arrive closes the barrier, until it opens it.
closing == {"last", "finalize", "publish"}

\* How many barriers of its path, from the leaf on, a thread has closed.
Rank(t) == IF pc[t] \in closing THEN Len(frames[t]) ELSE Len(frames[t]) - 1

\* It spins and has not been released.
Waiting(t) == pc[t] = "spin" /\ prevRound[t] = round[at(t)]

\* Its meeting is over, but it has not returned.
Late(t) == passed[t] # finals

TypeInv ==
  /\ pc        \in [Threads -> Location]
  /\ frames    \in [Threads -> Seq(Barriers)]
  /\ prevRound \in [Threads -> 0 .. RoundMod - 1]
  /\ result    \in [Threads -> BOOLEAN]
  /\ cntr      \in [Barriers -> Nat]
  /\ round     \in [Barriers -> 0 .. RoundMod - 1]
  /\ passed    \in [Threads -> Nat]
  /\ finals    \in Nat
  /\ leader    \in Threads
  /\ trues     \in Nat

\* The barriers that a thread is in are the first of its path, and the round that
\* it has read is still the barrier's.
PathOf(t) ==
  /\ Len(frames[t]) \in 1 .. TopLevel + 1
  /\ \A i \in 1 .. Len(frames[t]) : frames[t][i] = Up(t, i - 1)
  /\ pc[t] = "out" => Len(frames[t]) = 1
  /\ pc[t] = "enter" => Len(frames[t]) > 1
  /\ pc[t] = "loaded" => prevRound[t] = round[at(t)]

PathInv == \A t \in Threads : PathOf(t)

\* Who has closed a barrier has everybody below it wait, at it or further down.
Alone ==
  \A t, u \in Threads, k \in Depths :
    Rank(t) > k /\ u # t /\ Same(t, u, k + 1) => Waiting(u) /\ Rank(u) <= k

\* And every barrier below it has been closed by somebody.
Cover ==
  \A t, u \in Threads, k \in Depths : \A j \in 0 .. k :
    Rank(t) > k /\ Same(t, u, k + 1) => \E v \in Threads : Rank(v) >= j /\ Same(u, v, j)

\* The participants that have arrived at a barrier.
Arrived(t, k) == {u \in Threads : Same(t, u, k + 1) /\ Waiting(u) /\ Rank(u) = k}

\* The counter of a barrier that is closed, and of one that is not.
ClosedCounter ==
  \A t \in Threads, k \in Depths :
    Rank(t) > k => cntr[Up(t, k)] = IF pc[t] = "last" /\ Rank(t) = k + 1 THEN 0 ELSE threadCount(Up(t, k))

OpenCounter ==
  \A t \in Threads, k \in Depths :
    (\A v \in Threads : Same(t, v, k + 1) => Rank(v) <= k) =>
       cntr[Up(t, k)] + Cardinality(Arrived(t, k)) = threadCount(Up(t, k))

TreeInv == Alone /\ Cover /\ ClosedCounter /\ OpenCounter

\* The calls of those below a closed barrier are of the same meeting.
Agree ==
  \A t, u \in Threads, k \in Depths : Rank(t) > k /\ Same(t, u, k + 1) => passed[u] = passed[t]

MeetingOf(t) ==
  /\ passed[t] = finals \/ passed[t] + 1 = finals
  /\ Late(t) => pc[t] \in {"publish", "spin"}
  /\ pc[t] = "publish" \/ (pc[t] = "spin" /\ ~Waiting(t)) => Late(t)
  /\ Late(t) /\ Waiting(t) => \E v \in Threads : Rank(v) > Rank(t) /\ Same(t, v, Rank(t) + 1)
  /\ passed[t] <= MaxMeetings /\ (pc[t] # "out" => passed[t] < MaxMeetings)
  /\ pc[t] = "publish" => (result[t] <=> leader = t)
  /\ pc[t] = "spin" /\ Late(t) => leader # t

MeetingInv == \A t \in Threads : MeetingOf(t)

\* The invariant that every step of the barriers preserves.
IInv == TypeInv /\ PathInv /\ TreeInv /\ Agree /\ MeetingInv

-----------------------------------------------------------------------------
\* To which participant of a level a worker belongs.
LEMMA ParticipantOf ==
  ASSUME NEW t \in Threads, NEW k \in Nat
  PROVE  /\ Index[k][t] \in 0 .. Width[k][Size] - 1
         /\ Index[k + 1][t] = Index[k][t] \div ThreadsPerBarrier
  <1>1. Size \in Nat \ {0} /\ t \in 0 .. Size - 1 /\ t \in Nat
    BY SizeAssumption DEF Threads
  <1> QED
    BY <1>1, IndexInLevel, IndexSteps

\* The path of a worker through the tree of its group.
LEMMA Paths ==
  /\ TopLevel \in Nat
  /\ \A t \in Threads : leaf(t) = Up(t, 0)
  /\ \A t \in Threads, k \in Depths :
       /\ Up(t, k) \in Barriers
       /\ Up(t, k) # NoParent
       /\ Parent(Up(t, k)) = IF k = TopLevel THEN NoParent ELSE Up(t, k + 1)
  /\ \A t, u \in Threads, j, k \in Depths : Up(t, j) = Up(u, k) <=> j = k /\ Same(t, u, k + 1)
  <1>1. Size \in Nat \ {0} /\ TopLevel \in Nat
    BY SizeAssumption, LevelsShrink DEF TopLevel
  <1>2. \A t \in Threads, k \in Nat : /\ Index[k][t] \in 0 .. Width[k][Size] - 1
                                     /\ Index[k + 1][t] = Index[k][t] \div ThreadsPerBarrier
    BY ParticipantOf
  <1>3. ASSUME NEW t \in Threads PROVE leaf(t) = Up(t, 0)
    <2>1. Width[0][Size] = Size /\ Index[0][t] = t
      BY <1>1, WidthSteps, IndexSteps DEF Threads
    <2>2. Index[0 + 1][t] = t \div ThreadsPerBarrier
      BY <1>2, <2>1
    <2>3. leaf(t) = <<Size, t \div ThreadsPerBarrier>>
      BY <1>1, LeafIs DEF leaf, Threads
    <2> QED
      BY <2>1, <2>2, <2>3 DEF Up
  <1>4. ASSUME NEW t \in Threads, NEW k \in Depths
        PROVE  /\ Up(t, k) \in Barriers
               /\ Up(t, k) # NoParent
               /\ Parent(Up(t, k)) = IF k = TopLevel THEN NoParent ELSE Up(t, k + 1)
    <2>1. k \in 0 .. Height(Size) /\ k \in Nat /\ k + 1 \in Nat
      BY <1>1 DEF Depths, TopLevel
    <2>2. Index[k + 1][t] \in 0 .. Width[k + 1][Size] - 1
      BY <1>2, <2>1
    <2>3. Index[(k + 1) + 1][t] = Index[k + 1][t] \div ThreadsPerBarrier
      BY <1>2, <2>1
    <2>4. Width[k][Size] # 0
      BY <1>1, <2>1, LevelsShrink
    <2>5. Up(t, k) \in Barriers
      BY <1>1, <2>1, <2>2, TreeIs DEF Up, Barriers
    <2>6. Parent(Up(t, k)) = IF k = Height(Size) THEN NoParent
                             ELSE <<Width[k + 1][Size], Index[k + 1][t] \div ThreadsPerBarrier>>
      BY <1>1, <2>1, <2>2, ParentInTree DEF Up
    <2> QED
      BY <2>3, <2>4, <2>5, <2>6 DEF Up, TopLevel, NoParent
  <1>5. ASSUME NEW t \in Threads, NEW u \in Threads, NEW j \in Depths, NEW k \in Depths
        PROVE  Up(t, j) = Up(u, k) <=> j = k /\ Same(t, u, k + 1)
    <2>1. Width[j][Size] = Width[k][Size] => j = k
      BY <1>1, SameLevel DEF Depths, TopLevel
    <2> QED
      BY <2>1 DEF Up, Same
  <1> QED
    BY <1>1, <1>3, <1>4, <1>5

\* To belong to the same participant of a level.
LEMMA SameIs ==
  /\ \A t, u \in Threads : Same(t, u, 0) => t = u
  /\ \A t, u \in Threads : Same(t, u, TopLevel + 1)
  /\ \A t, u \in Threads, j, k \in Nat : Same(t, u, j) /\ j <= k => Same(t, u, k)
  /\ \A t, u, v \in Threads, k \in Nat : Same(t, u, k) => Same(u, t, k) /\ Same(t, t, k)
  /\ \A t, u, v \in Threads, k \in Nat : Same(t, u, k) /\ Same(u, v, k) => Same(t, v, k)
  <1>1. Size \in Nat \ {0} /\ TopLevel \in Nat /\ Width[TopLevel + 1][Size] = 1
    BY SizeAssumption, LevelsShrink DEF TopLevel
  <1>2. \A t \in Threads, k \in Nat : /\ Index[k][t] \in 0 .. Width[k][Size] - 1
                                     /\ Index[k + 1][t] = Index[k][t] \div ThreadsPerBarrier
    BY ParticipantOf
  <1>3. \A t \in Threads : Index[0][t] = t
    BY <1>1, IndexSteps DEF Threads
  <1>4. ASSUME NEW t \in Threads, NEW u \in Threads PROVE Same(t, u, TopLevel + 1)
    <2>1. TopLevel + 1 \in Nat
      BY <1>1
    <2>2. Index[TopLevel + 1][t] \in 0 .. 0 /\ Index[TopLevel + 1][u] \in 0 .. 0
      BY <1>1, <1>2, <2>1
    <2> QED
      BY <2>2 DEF Same
  <1>5. ASSUME NEW t \in Threads, NEW u \in Threads, NEW j \in Nat, NEW k \in Nat,
               Same(t, u, j), j <= k
        PROVE  Same(t, u, k)
    <2> DEFINE S == {d \in Nat : Index[j + d][t] = Index[j + d][u]}
    <2>1. 0 \in S
      BY <1>5 DEF Same
    <2>2. ASSUME NEW d \in Nat, d \in S PROVE d + 1 \in S
      <3>1. j + d \in Nat /\ j + (d + 1) = (j + d) + 1
        OBVIOUS
      <3> QED
        BY <1>2, <2>2, <3>1
    <2>3. k - j \in Nat /\ j + (k - j) = k
      BY <1>5
    <2>4. k - j \in S
      <3> HIDE DEF S
      <3> QED
        BY <2>1, <2>2, <2>3, InductionOnNat
    <2> QED
      BY <2>3, <2>4 DEF Same
  <1> QED
    BY <1>3, <1>4, <1>5 DEF Same

\* The participants of a barrier, by their numbers in the level below it.
Below(t, k) == Share(Width[k][Size], Index[k + 1][t])

\* There are as many of them as the barrier is created for.
LEMMA BelowIs ==
  ASSUME NEW t \in Threads, NEW k \in Depths
  PROVE  /\ IsFiniteSet(Below(t, k)) /\ Cardinality(Below(t, k)) = threadCount(Up(t, k))
         /\ threadCount(Up(t, k)) \in Nat \ {0}
         /\ \A u \in Threads : Same(t, u, k + 1) => Index[k][u] \in Below(t, k)
  <1>1. Size \in Nat \ {0} /\ k \in Nat /\ k + 1 \in Nat
    BY SizeAssumption, Paths DEF Depths
  <1> DEFINE w == Width[k][Size]
             j == Index[k + 1][t]
  <1>2. w \in Nat \ {0} /\ Width[k + 1][Size] = nrBarriers(w)
    BY <1>1, LevelsShrink, WidthSteps
  <1>3. j \in 0 .. nrBarriers(w) - 1
    <2>1. t \in 0 .. Size - 1
      BY DEF Threads
    <2>2. j \in 0 .. Width[k + 1][Size] - 1
      BY <1>1, <2>1, IndexInLevel
    <2> QED
      BY <1>2, <2>2
  <1>4. ASSUME NEW u \in Threads, Same(t, u, k + 1) PROVE Index[k][u] \in Below(t, k)
    <2>1. u \in 0 .. Size - 1 /\ u \in Nat
      BY <1>1 DEF Threads
    <2>2. Index[k][u] \in 0 .. w - 1
      BY <1>1, <2>1, IndexInLevel
    <2>3. Index[k][u] \div ThreadsPerBarrier = j
      BY <1>1, <1>4, <2>1, IndexSteps DEF Same
    <2> QED
      BY <2>2, <2>3 DEF Below, Share
  <1>5. /\ IsFiniteSet(Share(w, j)) /\ Cardinality(Share(w, j)) = threadCount(<<w, j>>)
        /\ threadCount(<<w, j>>) \in Nat \ {0}
    <2> HIDE DEF w, j
    <2> QED
      BY <1>2, <1>3, ShareIs
  <1> QED
    BY <1>4, <1>5 DEF Below, Up

-----------------------------------------------------------------------------
\* Where a thread is on its path.
LEMMA Place ==
  ASSUME TypeInv, PathInv, NEW t \in Threads
  PROVE  /\ Len(frames[t]) \in Nat /\ Len(frames[t]) - 1 \in Depths
         /\ frames[t] \in Seq(Barriers)
         /\ at(t) = Up(t, Len(frames[t]) - 1) /\ at(t) \in Barriers
         /\ Parent(at(t)) = IF Len(frames[t]) = TopLevel + 1 THEN NoParent ELSE Up(t, Len(frames[t]))
         /\ Parent(at(t)) = NoParent <=> Len(frames[t]) = TopLevel + 1
         /\ Rank(t) \in 0 .. TopLevel + 1
  <1> DEFINE n == Len(frames[t])
  <1>1. TopLevel \in Nat
    BY Paths
  <1>2. /\ frames[t] \in Seq(Barriers) /\ n \in 1 .. TopLevel + 1
        /\ \A i \in 1 .. n : frames[t][i] = Up(t, i - 1)
    BY DEF TypeInv, PathInv, PathOf
  <1>3. n \in Nat /\ n - 1 \in Depths /\ n \in 1 .. n /\ (n - 1) + 1 = n
    BY <1>1, <1>2 DEF Depths
  <1>4. at(t) = Up(t, n - 1)
    BY <1>2, <1>3 DEF at, Last
  <1> HIDE DEF n
  <1>5. /\ at(t) \in Barriers
        /\ Parent(at(t)) = IF n - 1 = TopLevel THEN NoParent ELSE Up(t, (n - 1) + 1)
    BY <1>3, <1>4, Paths
  <1>6. n # TopLevel + 1 => n \in Depths /\ Up(t, n) # NoParent
    <2>1. n # TopLevel + 1 => n \in Depths
      BY <1>1, <1>2, <1>3 DEF Depths
    <2> QED
      BY <2>1, Paths
  <1>7. (n - 1 = TopLevel) <=> (n = TopLevel + 1)
    BY <1>1, <1>3
  <1>8. Rank(t) \in 0 .. TopLevel + 1
    BY <1>1, <1>2, <1>3 DEF Rank, n
  <1> QED
    BY <1>2, <1>3, <1>4, <1>5, <1>6, <1>7, <1>8 DEF n

\* Nobody below a closed barrier is on its way but the thread that has closed it.
LEMMA OnlyOne ==
  ASSUME Alone, NEW t \in Threads, NEW u \in Threads, NEW k \in Depths,
         Rank(t) > k, Same(t, u, k + 1), ~Waiting(u) \/ Rank(u) > k, Rank(u) \in Nat
  PROVE  u = t
  <1> SUFFICES ASSUME u # t PROVE FALSE
    OBVIOUS
  <1>1. Waiting(u) /\ Rank(u) <= k
    BY DEF Alone
  <1> QED
    BY <1>1, Paths DEF Depths

\* No barrier is closed, and nobody has arrived.
LEMMA InitIInv == Init => IInv
  <1> SUFFICES ASSUME Init PROVE IInv
    OBVIOUS
  <1>1. TopLevel \in Nat /\ Size \in Nat \ {0}
    BY Paths, SizeAssumption
  <1>2. \A t \in Threads : leaf(t) = Up(t, 0) /\ Up(t, 0) \in Barriers
    BY <1>1, Paths DEF Depths
  <1>3. ASSUME NEW t \in Threads
        PROVE  /\ Len(frames[t]) = 1 /\ frames[t][1] = Up(t, 0) /\ pc[t] = "out"
               /\ Rank(t) = 0 /\ ~Waiting(t)
    BY <1>2 DEF Init, Rank, Waiting, closing
  <1>4. \A b \in Barriers : threadCount(b) \in Nat
    <2> SUFFICES ASSUME NEW b \in Barriers PROVE threadCount(b) \in Nat
      OBVIOUS
    <2>1. b \in Tree(Size) /\ CountsMatch(Size)
      BY <1>1, AllCountsMatch DEF Barriers
    <2>2. PICK k \in 0 .. Height(Size) : \E i \in 0 .. Width[k + 1][Size] - 1 : b = <<Width[k][Size], i>>
      BY <1>1, <2>1, TreeIs
    <2>3. PICK i \in 0 .. Width[k + 1][Size] - 1 : b = <<Width[k][Size], i>>
      BY <2>2
    <2>4. k \in Nat
      BY <1>1 DEF TopLevel
    <2>5. Width[k][Size] \in Nat \ {0} /\ Width[k + 1][Size] = nrBarriers(Width[k][Size])
      BY <1>1, <2>4, LevelsShrink, WidthSteps
    <2> QED
      BY <2>3, <2>5, ShareIs
  <1>5. TypeInv
    BY <1>1, <1>2, <1>4, RoundModAssumption DEF Init, TypeInv, Location, Threads
  <1>6. PathInv
    <2> SUFFICES ASSUME NEW t \in Threads
                 PROVE  /\ Len(frames[t]) \in 1 .. TopLevel + 1
                        /\ \A i \in 1 .. Len(frames[t]) : frames[t][i] = Up(t, i - 1)
      BY <1>3 DEF PathInv, PathOf
    <2>1. Len(frames[t]) = 1 /\ frames[t][1] = Up(t, 0) /\ 1 - 1 = 0
      BY <1>3
    <2>2. \A i \in 1 .. 1 : i = 1
      OBVIOUS
    <2> QED
      BY <1>1, <2>1, <2>2
  <1>7. TreeInv
    <2>1. \A t \in Threads, k \in Depths : ~(Rank(t) > k)
      BY <1>1, <1>3 DEF Depths
    <2>2. ASSUME NEW t \in Threads, NEW k \in Depths
          PROVE  cntr[Up(t, k)] + Cardinality(Arrived(t, k)) = threadCount(Up(t, k))
      <3>1. Arrived(t, k) = {}
        BY <1>3 DEF Arrived
      <3>2. cntr[Up(t, k)] = threadCount(Up(t, k))
        BY Paths DEF Init
      <3> QED
        BY <3>1, <3>2, BelowIs, FS_EmptySet
    <2> QED
      BY <2>1, <2>2 DEF TreeInv, Alone, Cover, ClosedCounter, OpenCounter
  <1>8. Agree
    <2>1. \A t \in Threads, k \in Depths : ~(Rank(t) > k)
      BY <1>1, <1>3 DEF Depths
    <2> QED
      BY <2>1 DEF Agree
  <1>9. MeetingInv
    <2>1. \A t \in Threads : passed[t] = 0 /\ pc[t] = "out"
      BY DEF Init
    <2>2. finals = 0
      BY DEF Init
    <2> QED
      BY <2>1, <2>2, MaxMeetingsAssumption DEF MeetingInv, MeetingOf, Late
  <1> QED
    BY <1>5, <1>6, <1>7, <1>8, <1>9 DEF IInv

-----------------------------------------------------------------------------
\* A thread that takes no step is where it was.
LEMMA OthersStay ==
  ASSUME NEW u \in Threads, pc'[u] = pc[u], frames'[u] = frames[u], prevRound'[u] = prevRound[u]
  PROVE  /\ Rank(u)' = Rank(u) /\ at(u)' = at(u)
         /\ round'[at(u)] = round[at(u)] => (Waiting(u)' <=> Waiting(u))
  BY DEF Rank, at, Waiting

\* Nor does what it is in change under it.
LEMMA PathStays ==
  ASSUME PathInv, NEW u \in Threads, pc'[u] = pc[u], frames'[u] = frames[u], prevRound'[u] = prevRound[u],
         pc[u] = "loaded" => round'[at(u)] = round[at(u)]
  PROVE  PathOf(u)'
  BY DEF PathInv, PathOf, at

\* Steps that close and open nothing, by threads that do not wait.
LEMMA QuietKeepsTree ==
  ASSUME TypeInv, PathInv, TreeInv, UNCHANGED cntr,
         \A u \in Threads : Rank(u)' = Rank(u),
         \A u \in Threads : Waiting(u)' <=> Waiting(u),
         \A u \in Threads : pc'[u] = "last" <=> pc[u] = "last"
  PROVE  TreeInv'
  <1>1. Alone'
    BY DEF TreeInv, Alone
  <1>2. Cover'
    BY DEF TreeInv, Cover
  <1>3. ClosedCounter'
    BY DEF TreeInv, ClosedCounter
  <1>4. OpenCounter'
    <2> SUFFICES ASSUME NEW t \in Threads, NEW k \in Depths,
                        \A v \in Threads : Same(t, v, k + 1) => Rank(v)' <= k
                 PROVE  cntr'[Up(t, k)] + Cardinality(Arrived(t, k)') = threadCount(Up(t, k))
      BY DEF OpenCounter
    <2>1. Arrived(t, k)' = Arrived(t, k)
      BY DEF Arrived
    <2> QED
      BY <2>1 DEF TreeInv, OpenCounter
  <1> QED
    BY <1>1, <1>2, <1>3, <1>4 DEF TreeInv

\* Steps that close nothing.
LEMMA AgreeStays ==
  ASSUME TypeInv, PathInv, Alone, Agree, NEW t \in Threads,
         \A u \in Threads : Rank(u)' \in Nat /\ Rank(u)' <= Rank(u),
         \A u \in Threads \ {t} : passed'[u] = passed[u],
         passed'[t] = passed[t] \/ (Rank(t)' = 0 /\ ~Waiting(t))
  PROVE  Agree'
  <1> SUFFICES ASSUME NEW v \in Threads, NEW u \in Threads, NEW k \in Depths,
                      Rank(v)' > k, Same(v, u, k + 1)
               PROVE  passed'[u] = passed'[v]
    BY DEF Agree
  <1>1. Rank(v) \in Nat /\ Rank(v) > k /\ k \in Nat /\ Rank(u) \in Nat
    BY Place, Paths DEF Depths
  <1>2. passed[u] = passed[v]
    BY <1>1 DEF Agree
  <1>3. CASE passed'[t] = passed[t]
    BY <1>2, <1>3
  <1>4. CASE Rank(t)' = 0 /\ ~Waiting(t)
    <2>1. v # t
      BY <1>1, <1>4
    <2>2. u # t
      BY <1>1, <1>4, <2>1, OnlyOne
    <2> QED
      BY <1>2, <2>1, <2>2
  <1> QED
    BY <1>3, <1>4

\* What a step does not touch of the meeting of a thread.
LEMMA MeetingStays ==
  ASSUME MeetingInv, UNCHANGED <<finals, leader>>, NEW u \in Threads,
         pc'[u] = pc[u], passed'[u] = passed[u], result'[u] = result[u], Waiting(u)' <=> Waiting(u),
         \A v \in Threads : Rank(v)' = Rank(v)
  PROVE  MeetingOf(u)'
  BY DEF MeetingInv, MeetingOf, Late

\* The reads of the round, before the thread comes to the counter.
LEMMA ReadKeeps ==
  ASSUME IInv, NEW t \in Threads, Call(t) \/ LoadRound(t)
  PROVE  IInv'
  <1>1. TypeInv /\ PathInv /\ TreeInv /\ Alone /\ Agree /\ MeetingInv
    BY DEF IInv, TreeInv
  <1>2. /\ pc[t] \in {"out", "enter"} /\ pc' = [pc EXCEPT ![t] = "loaded"]
        /\ prevRound' = [prevRound EXCEPT ![t] = round[at(t)]]
        /\ UNCHANGED <<frames, result, cntr, round, passed, finals, leader, trues>>
        /\ passed[t] < MaxMeetings
    BY <1>1 DEF Call, LoadRound, shared, history, MeetingInv, MeetingOf
  <1>3. /\ pc \in [Threads -> Location] /\ prevRound \in [Threads -> 0 .. RoundMod - 1]
        /\ round[at(t)] \in 0 .. RoundMod - 1
    BY <1>1, Place DEF TypeInv
  <1>4. /\ pc'[t] = "loaded" /\ prevRound'[t] = round[at(t)] /\ at(t)' = at(t)
        /\ \A u \in Threads \ {t} : pc'[u] = pc[u] /\ prevRound'[u] = prevRound[u]
    BY <1>2, <1>3 DEF at
  <1>5. TypeInv'
    BY <1>1, <1>2, <1>3 DEF TypeInv, Location
  <1>6. PathInv'
    BY <1>1, <1>2, <1>4, OthersStay DEF PathInv, PathOf
  <1>7. \A u \in Threads : Rank(u)' = Rank(u) /\ (Waiting(u)' <=> Waiting(u))
    <2>1. Rank(t)' = Rank(t) /\ ~Waiting(t) /\ ~Waiting(t)'
      BY <1>2, <1>4 DEF Rank, Waiting, closing
    <2> QED
      BY <1>2, <1>4, <2>1, OthersStay
  <1>8. TreeInv'
    BY <1>1, <1>2, <1>4, <1>7, QuietKeepsTree
  <1>9. Agree'
    BY <1>1, <1>2, <1>7 DEF Agree
  <1>10. MeetingInv'
    <2>1. MeetingOf(t)'
      BY <1>1, <1>2, <1>4 DEF MeetingInv, MeetingOf, Late, Waiting
    <2>2. \A u \in Threads \ {t} : MeetingOf(u)'
      BY <1>1, <1>2, <1>4, <1>7, MeetingStays
    <2> QED
      BY <2>1, <2>2 DEF MeetingInv
  <1> QED
    BY <1>5, <1>6, <1>8, <1>9, <1>10 DEF IInv

\* The thread that has closed a barrier goes on to the one above it.
LEMMA WaitAtParentKeeps ==
  ASSUME IInv, NEW t \in Threads, WaitAtParent(t)
  PROVE  IInv'
  <1> DEFINE n == Len(frames[t])
  <1>1. TypeInv /\ PathInv /\ TreeInv /\ Alone /\ Agree /\ MeetingInv
    BY DEF IInv, TreeInv
  <1>2. /\ pc[t] = "finalize" /\ pc' = [pc EXCEPT ![t] = "enter"]
        /\ frames' = [frames EXCEPT ![t] = Append(@, Parent(at(t)))]
        /\ UNCHANGED <<prevRound, result, cntr, round, passed, finals, leader, trues>>
        /\ Parent(at(t)) # NoParent
    BY DEF WaitAtParent, shared, history
  <1>3. /\ TopLevel \in Nat /\ n \in 1 .. TopLevel + 1 /\ n # TopLevel + 1 /\ Parent(at(t)) = Up(t, n)
        /\ n \in Depths /\ frames[t] \in Seq(Barriers) /\ Up(t, n) \in Barriers
    <2>1. TopLevel \in Nat /\ n \in 1 .. TopLevel + 1
      BY <1>1, Paths DEF PathInv, PathOf
    <2>2. n # TopLevel + 1 /\ Parent(at(t)) = Up(t, n) /\ frames[t] \in Seq(Barriers)
      BY <1>1, <1>2, Place
    <2>3. n \in Depths
      BY <2>1, <2>2 DEF Depths
    <2> QED
      BY <2>1, <2>2, <2>3, Paths
  <1>4. /\ pc'[t] = "enter" /\ frames'[t] = Append(frames[t], Up(t, n))
        /\ \A u \in Threads \ {t} : pc'[u] = pc[u] /\ frames'[u] = frames[u]
    BY <1>1, <1>2, <1>3 DEF TypeInv
  <1> HIDE DEF n
  <1>5. /\ frames'[t] \in Seq(Barriers) /\ Len(frames'[t]) = n + 1
        /\ \A i \in 1 .. n : frames'[t][i] = frames[t][i]
        /\ frames'[t][n + 1] = Up(t, n)
    BY <1>3, <1>4 DEF n
  <1>6. TypeInv'
    <2>1. frames' \in [Threads -> Seq(Barriers)]
      BY <1>1, <1>2, <1>4, <1>5 DEF TypeInv
    <2> QED
      BY <1>1, <1>2, <2>1 DEF TypeInv, Location
  <1>7. PathInv'
    <2>1. \A i \in 1 .. n + 1 : frames'[t][i] = Up(t, i - 1)
      <3> SUFFICES ASSUME NEW i \in 1 .. n + 1 PROVE frames'[t][i] = Up(t, i - 1)
        OBVIOUS
      <3>1. CASE i = n + 1
        BY <1>3, <1>5, <3>1
      <3>2. CASE i \in 1 .. n
        BY <1>1, <1>5, <3>2 DEF PathInv, PathOf, n
      <3> QED
        BY <1>3, <3>1, <3>2
    <2>2. Len(frames'[t]) \in 1 .. TopLevel + 1 /\ Len(frames'[t]) > 1
      BY <1>3, <1>5
    <2>3. \A u \in Threads \ {t} : at(u)' = at(u)
      BY <1>4 DEF at
    <2> QED
      BY <1>1, <1>2, <1>4, <1>5, <2>1, <2>2, <2>3 DEF PathInv, PathOf
  <1>8. \A u \in Threads : Rank(u)' = Rank(u) /\ (Waiting(u)' <=> Waiting(u))
    <2>1. Rank(t)' = Rank(t)
      BY <1>2, <1>3, <1>4, <1>5 DEF Rank, closing, n
    <2>2. ~Waiting(t) /\ ~Waiting(t)'
      BY <1>2, <1>4 DEF Waiting
    <2> QED
      BY <1>2, <1>4, <2>1, <2>2, OthersStay
  <1>9. TreeInv'
    BY <1>1, <1>2, <1>4, <1>8, QuietKeepsTree
  <1>10. Agree'
    BY <1>1, <1>2, <1>8 DEF Agree
  <1>11. MeetingInv'
    <2>1. MeetingOf(t)'
      BY <1>1, <1>2, <1>4 DEF MeetingInv, MeetingOf, Late, Waiting
    <2>2. \A u \in Threads \ {t} : MeetingOf(u)'
      BY <1>1, <1>2, <1>4, <1>8, MeetingStays
    <2> QED
      BY <2>1, <2>2 DEF MeetingInv
  <1> QED
    BY <1>6, <1>7, <1>9, <1>10, <1>11 DEF IInv

-----------------------------------------------------------------------------
\* Who has closed the root has everybody else wait somewhere in the tree.
LEMMA AtTheRoot ==
  ASSUME TypeInv, PathInv, Alone, NEW t \in Threads, pc[t] \in closing, Parent(at(t)) = NoParent
  PROVE  /\ Rank(t) = TopLevel + 1
         /\ \A u \in Threads : /\ Same(t, u, TopLevel + 1)
                               /\ u # t => Waiting(u) /\ Rank(u) \in Depths
  <1>1. TopLevel \in Nat /\ TopLevel \in Depths
    BY Paths DEF Depths
  <1>2. Rank(t) = TopLevel + 1 /\ Rank(t) > TopLevel
    BY <1>1, Place DEF Rank, closing
  <1>3. ASSUME NEW u \in Threads, u # t PROVE Waiting(u) /\ Rank(u) \in Depths
    <2>1. Waiting(u) /\ Rank(u) <= TopLevel
      BY <1>1, <1>2, <1>3, SameIs DEF Alone
    <2>2. Rank(u) \in 0 .. TopLevel + 1
      BY Place
    <2> QED
      BY <1>1, <2>1, <2>2 DEF Depths
  <1> QED
    BY <1>2, <1>3, SameIs

\* When the caller's finalizer is due, everybody is in the same meeting.
LEMMA FinalizerMeets ==
  ASSUME IInv, NEW t \in Threads, pc[t] = "finalize", Parent(at(t)) = NoParent
  PROVE  \A u \in Threads : passed[u] = finals /\ (u # t => Waiting(u) /\ Rank(u) \in Depths)
  <1>1. TypeInv /\ PathInv /\ Alone /\ Agree /\ MeetingInv
    BY DEF IInv, TreeInv
  <1>2. TopLevel \in Nat /\ TopLevel \in Depths
    BY Paths DEF Depths
  <1>3. /\ Rank(t) = TopLevel + 1
        /\ \A u \in Threads : /\ Same(t, u, TopLevel + 1)
                              /\ u # t => Waiting(u) /\ Rank(u) \in Depths
    BY <1>1, AtTheRoot DEF closing
  <1>4. passed[t] = finals
    BY <1>1 DEF MeetingInv, MeetingOf, Late
  <1>5. \A u \in Threads : passed[u] = passed[t]
    BY <1>1, <1>2, <1>3 DEF Agree
  <1> QED
    BY <1>3, <1>4, <1>5

\* The caller's finalizer runs while everybody else waits; all are late then.
LEMMA RunFinalizerKeeps ==
  ASSUME IInv, NEW t \in Threads, RunFinalizer(t)
  PROVE  IInv'
  <1>1. TypeInv /\ PathInv /\ TreeInv /\ Alone /\ Cover /\ Agree /\ MeetingInv
    BY DEF IInv, TreeInv
  <1>2. /\ pc[t] = "finalize" /\ pc' = [pc EXCEPT ![t] = "publish"]
        /\ Parent(at(t)) = NoParent
        /\ finals' = finals + 1 /\ leader' = t /\ result' = [result EXCEPT ![t] = TRUE]
        /\ UNCHANGED <<frames, prevRound, cntr, round, passed, trues>>
    BY DEF RunFinalizer, shared
  <1>3. /\ pc'[t] = "publish" /\ result'[t] = TRUE
        /\ \A u \in Threads \ {t} : pc'[u] = pc[u]
    BY <1>1, <1>2 DEF TypeInv
  <1>4. TopLevel \in Nat /\ TopLevel \in Depths /\ finals \in Nat
    BY <1>1, Paths DEF Depths, TypeInv
  <1>5. Rank(t) = TopLevel + 1
    BY <1>1, <1>2, AtTheRoot DEF closing
  <1>6. \A u \in Threads : passed[u] = finals /\ (u # t => Waiting(u) /\ Rank(u) \in Depths)
    BY <1>2, FinalizerMeets
  <1>7. TypeInv'
    BY <1>1, <1>2, <1>4 DEF TypeInv, Location
  <1>8. PathInv'
    BY <1>1, <1>2, <1>3 DEF PathInv, PathOf, at
  <1>9. \A u \in Threads : Rank(u)' = Rank(u) /\ (Waiting(u)' <=> Waiting(u))
    <2>1. Rank(t)' = Rank(t) /\ ~Waiting(t) /\ ~Waiting(t)'
      BY <1>2, <1>3 DEF Rank, Waiting, closing
    <2> QED
      BY <1>2, <1>3, <2>1, OthersStay
  <1>10. TreeInv'
    BY <1>1, <1>2, <1>3, <1>9, QuietKeepsTree
  <1>11. Agree'
    BY <1>1, <1>2, <1>9 DEF Agree
  <1>12. MeetingInv'
    <2>1. MeetingOf(t)'
      <3>1. passed[t] < MaxMeetings /\ passed[t] = finals
        BY <1>1, <1>2, <1>6 DEF MeetingInv, MeetingOf
      <3>2. passed[t] <= MaxMeetings /\ passed[t] + 1 = finals + 1
        BY <1>1, <3>1 DEF MeetingInv, MeetingOf
      <3>3. ~Waiting(t)'
        BY <1>3 DEF Waiting
      <3>4. passed'[t] # finals'
        BY <1>2, <1>4, <3>1
      <3> QED
        BY <1>2, <1>3, <3>1, <3>2, <3>3, <3>4 DEF MeetingOf, Late
    <2>2. ASSUME NEW u \in Threads \ {t} PROVE MeetingOf(u)'
      <3>1. Waiting(u) /\ pc[u] = "spin" /\ Rank(u) \in Depths /\ passed[u] = finals
        BY <1>6 DEF Waiting
      <3>2. passed[u] < MaxMeetings /\ passed[u] <= MaxMeetings
        BY <1>1, <3>1 DEF MeetingInv, MeetingOf
      <3>3. \E v \in Threads : Rank(v) > Rank(u) /\ Same(u, v, Rank(u) + 1)
        <4>1. CASE Rank(u) = TopLevel
          <5>1. Same(u, t, TopLevel + 1) /\ Rank(t) > TopLevel
            BY <1>4, <1>5, SameIs
          <5> QED
            BY <4>1, <5>1
        <4>2. CASE Rank(u) # TopLevel
          <5>1. Rank(u) \in Nat /\ Rank(u) + 1 \in 0 .. TopLevel
            BY <1>4, <3>1, <4>2 DEF Depths
          <5>2. Rank(t) > TopLevel /\ Same(t, u, TopLevel + 1)
            BY <1>4, <1>5, SameIs
          <5>3. PICK v \in Threads : Rank(v) >= Rank(u) + 1 /\ Same(u, v, Rank(u) + 1)
            BY <1>1, <1>4, <5>1, <5>2 DEF Cover
          <5>4. Rank(v) \in Nat
            BY <1>1, Place
          <5>5. Rank(v) > Rank(u)
            BY <5>1, <5>3, <5>4
          <5> QED
            BY <5>3, <5>5
        <4> QED
          BY <4>1, <4>2
      <3>4. \E v \in Threads : Rank(v)' > Rank(u)' /\ Same(u, v, Rank(u)' + 1)
        BY <1>9, <3>3
      <3>5. pc'[u] = "spin" /\ Waiting(u)' /\ passed'[u] + 1 = finals' /\ leader' # u
        BY <1>2, <1>3, <1>9, <3>1
      <3> QED
        BY <1>2, <3>2, <3>4, <3>5 DEF MeetingOf
    <2> QED
      BY <2>1, <2>2 DEF MeetingInv
  <1> QED
    BY <1>7, <1>8, <1>10, <1>11, <1>12 DEF IInv

\* wait() of a barrier returns: to the caller, or to the barrier below.
LEMMA Returns ==
  ASSUME TypeInv, PathInv, NEW t \in Threads, NEW r \in BOOLEAN, ReturnFrom(t, r)
  PROVE  /\ pc'[t] = IF Len(frames[t]) = 1 THEN "out" ELSE "publish"
         /\ passed'[t] = IF Len(frames[t]) = 1 THEN passed[t] + 1 ELSE passed[t]
         /\ result'[t] = r /\ Rank(t)' = Len(frames[t]) - 1 /\ Rank(t)' \in Nat
         /\ \A u \in Threads \ {t} : /\ pc'[u] = pc[u] /\ frames'[u] = frames[u]
                                     /\ passed'[u] = passed[u] /\ result'[u] = result[u]
         /\ pc' \in [Threads -> Location] /\ frames' \in [Threads -> Seq(Barriers)]
         /\ passed' \in [Threads -> Nat] /\ result' \in [Threads -> BOOLEAN] /\ trues' \in Nat
         /\ Len(frames'[t]) \in 1 .. TopLevel + 1
         /\ \A i \in 1 .. Len(frames'[t]) : frames'[t][i] = Up(t, i - 1)
         /\ Len(frames[t]) = 1 => Len(frames'[t]) = 1
  <1> DEFINE n == Len(frames[t])
  <1>1. /\ pc \in [Threads -> Location] /\ frames \in [Threads -> Seq(Barriers)]
        /\ passed \in [Threads -> Nat] /\ result \in [Threads -> BOOLEAN] /\ trues \in Nat
        /\ TopLevel \in Nat /\ n \in 1 .. TopLevel + 1
        /\ \A i \in 1 .. n : frames[t][i] = Up(t, i - 1)
    BY Paths DEF TypeInv, PathInv, PathOf
  <1>2. CASE n = 1
    <2>1. /\ pc' = [pc EXCEPT ![t] = "out"]
          /\ passed' = [passed EXCEPT ![t] = @ + 1]
          /\ trues' = IF r THEN trues + 1 ELSE trues
          /\ result' = [result EXCEPT ![t] = r]
          /\ frames' = frames
      BY <1>2 DEF ReturnFrom, AtLeaf
    <2>2. frames'[t] = frames[t] /\ pc'[t] = "out" /\ passed'[t] = passed[t] + 1 /\ result'[t] = r
      BY <1>1, <2>1
    <2>3. Rank(t)' = n - 1
      BY <2>2 DEF Rank, closing
    <2>4. pc' \in [Threads -> Location] /\ result' \in [Threads -> BOOLEAN]
      BY <1>1, <2>1 DEF Location
    <2>5. passed' \in [Threads -> Nat] /\ trues' \in Nat
      BY <1>1, <2>1
    <2>6. \A u \in Threads \ {t} : /\ pc'[u] = pc[u] /\ frames'[u] = frames[u]
                                  /\ passed'[u] = passed[u] /\ result'[u] = result[u]
      BY <1>1, <2>1
    <2> HIDE DEF n
    <2>7. n - 1 \in Nat
      BY <1>2
    <2> QED
      BY <1>1, <1>2, <2>1, <2>2, <2>3, <2>4, <2>5, <2>6, <2>7 DEF n
  <1>3. CASE n # 1
    <2>1. /\ pc' = [pc EXCEPT ![t] = "publish"]
          /\ frames' = [frames EXCEPT ![t] = Front(@)]
          /\ result' = [result EXCEPT ![t] = r]
          /\ passed' = passed /\ trues' = trues
      BY <1>3 DEF ReturnFrom, AtLeaf
    <2> DEFINE f == Front(frames[t])
    <2>2. frames[t] \in Seq(Barriers) /\ n \in Nat /\ n > 1
      <3>1. frames[t] \in Seq(Barriers)
        BY <1>1
      <3> HIDE DEF n
      <3>2. n \in Nat /\ n > 1
        BY <1>1, <1>3
      <3> QED
        BY <3>1, <3>2
    <2>3. f \in Seq(Barriers) /\ Len(f) = n - 1 /\ \A i \in 1 .. n - 1 : f[i] = frames[t][i]
      BY <2>2 DEF Front
    <2> HIDE DEF f
    <2>4. frames'[t] = f /\ pc'[t] = "publish" /\ result'[t] = r
      BY <1>1, <2>1 DEF f
    <2>5. frames' \in [Threads -> Seq(Barriers)] /\ pc' \in [Threads -> Location]
      BY <1>1, <2>1, <2>3, <2>4 DEF f, Location
    <2>6. Rank(t)' = n - 1
      BY <2>3, <2>4 DEF Rank, closing
    <2>7. Len(f) \in 1 .. TopLevel + 1 /\ \A i \in 1 .. Len(f) : f[i] = Up(t, i - 1)
      BY <1>1, <2>2, <2>3
    <2> QED
      BY <1>1, <1>3, <2>1, <2>2, <2>4, <2>5, <2>6, <2>7
  <1> QED
    BY <1>2, <1>3

\* A thread that was released returns to the barrier below, or to the caller.
LEMMA LeaveKeeps ==
  ASSUME IInv, NEW t \in Threads, Leave(t)
  PROVE  IInv'
  <1> DEFINE n == Len(frames[t])
  <1>1. TypeInv /\ PathInv /\ TreeInv /\ Alone /\ Agree /\ MeetingInv
    BY DEF IInv, TreeInv
  <1>2. /\ pc[t] = "spin" /\ ReturnFrom(t, FALSE) /\ ~Waiting(t)
        /\ UNCHANGED <<prevRound, cntr, round, finals, leader>>
    BY DEF Leave, shared, Waiting
  <1>3. /\ n \in Nat /\ n - 1 \in Nat /\ Rank(t) = n - 1
    BY <1>1, <1>2, Place, Paths DEF Rank, closing, Depths
  <1>4. /\ pc'[t] = IF n = 1 THEN "out" ELSE "publish"
        /\ passed'[t] = IF n = 1 THEN passed[t] + 1 ELSE passed[t]
        /\ result'[t] = FALSE /\ Rank(t)' = n - 1
        /\ \A u \in Threads \ {t} : /\ pc'[u] = pc[u] /\ frames'[u] = frames[u]
                                    /\ passed'[u] = passed[u] /\ result'[u] = result[u]
        /\ pc' \in [Threads -> Location] /\ frames' \in [Threads -> Seq(Barriers)]
        /\ passed' \in [Threads -> Nat] /\ result' \in [Threads -> BOOLEAN] /\ trues' \in Nat
        /\ Len(frames'[t]) \in 1 .. TopLevel + 1
        /\ \A i \in 1 .. Len(frames'[t]) : frames'[t][i] = Up(t, i - 1)
        /\ n = 1 => Len(frames'[t]) = 1
    BY <1>1, <1>2, Returns
  <1> HIDE DEF n
  <1>5. TypeInv'
    BY <1>1, <1>2, <1>4 DEF TypeInv
  <1>6. PathInv'
    <2>1. pc'[t] \in {"out", "publish"} /\ (pc'[t] = "out" => Len(frames'[t]) = 1)
      BY <1>4
    <2>2. \A u \in Threads \ {t} : PathOf(u)'
      BY <1>1, <1>2, <1>4, PathStays
    <2>3. PathOf(t)'
      BY <1>4, <2>1 DEF PathOf
    <2> QED
      BY <2>2, <2>3 DEF PathInv
  <1>7. \A u \in Threads : Rank(u)' = Rank(u) /\ (Waiting(u)' <=> Waiting(u))
    <2>1. ~Waiting(t)'
      BY <1>4 DEF Waiting
    <2> QED
      BY <1>2, <1>3, <1>4, <2>1, OthersStay
  <1>8. TreeInv'
    BY <1>1, <1>2, <1>4, <1>7, QuietKeepsTree
  <1>9. Agree'
    <2>1. passed'[t] = passed[t] \/ (Rank(t)' = 0 /\ ~Waiting(t))
      BY <1>2, <1>3, <1>4
    <2>2. \A u \in Threads : Rank(u)' \in Nat /\ Rank(u)' <= Rank(u)
      <3>1. \A u \in Threads : Rank(u) \in Nat
        BY <1>1, Place
      <3> QED
        BY <1>7, <3>1
    <2> QED
      BY <1>1, <1>4, <2>1, <2>2, AgreeStays
  <1>10. MeetingInv'
    <2>1. /\ passed[t] # finals /\ passed[t] + 1 = finals /\ leader # t /\ passed[t] < MaxMeetings
          /\ passed[t] <= MaxMeetings
      BY <1>1, <1>2 DEF MeetingInv, MeetingOf, Late
    <2>2. passed[t] + 1 <= MaxMeetings
      BY <1>1, <2>1, MaxMeetingsAssumption DEF TypeInv
    <2>3. MeetingOf(t)'
      <3>1. ~Waiting(t)'
        BY <1>4 DEF Waiting
      <3>2. CASE n = 1
        BY <1>2, <1>4, <2>1, <2>2, <3>1, <3>2 DEF MeetingOf, Late
      <3>3. CASE n # 1
        BY <1>2, <1>4, <2>1, <2>2, <3>1, <3>3 DEF MeetingOf, Late
      <3> QED
        BY <3>2, <3>3
    <2>4. \A u \in Threads \ {t} : MeetingOf(u)'
      BY <1>1, <1>2, <1>4, <1>7, MeetingStays
    <2> QED
      BY <2>3, <2>4 DEF MeetingInv
  <1> QED
    BY <1>5, <1>6, <1>8, <1>9, <1>10 DEF IInv

\* The counter of a closed barrier is set back for the next meeting.
LEMMA ResetCounterKeeps ==
  ASSUME IInv, NEW t \in Threads, ResetCounter(t)
  PROVE  IInv'
  <1> DEFINE m == Len(frames[t]) - 1
             b == at(t)
  <1>1. TypeInv /\ PathInv /\ TreeInv /\ Alone /\ Cover /\ ClosedCounter /\ OpenCounter /\ Agree /\ MeetingInv
    BY DEF IInv, TreeInv
  <1>2. /\ pc[t] = "last" /\ pc' = [pc EXCEPT ![t] = "finalize"]
        /\ cntr' = [cntr EXCEPT ![b] = threadCount(b)]
        /\ UNCHANGED <<frames, prevRound, result, round, passed, finals, leader, trues>>
    BY DEF ResetCounter, history
  <1>3. m \in Depths /\ m \in Nat /\ b = Up(t, m) /\ b \in Barriers /\ Rank(t) = m + 1
    <2>1. Len(frames[t]) \in Nat /\ m \in Depths /\ b = Up(t, m) /\ b \in Barriers
      BY <1>1, Place
    <2>2. Rank(t) = Len(frames[t])
      BY <1>2 DEF Rank, closing
    <2> HIDE DEF b
    <2>3. m \in Nat
      BY <2>1, Paths DEF Depths
    <2> QED
      BY <2>1, <2>2, <2>3
  <1>4. /\ pc'[t] = "finalize" /\ cntr'[b] = threadCount(b)
        /\ \A u \in Threads \ {t} : pc'[u] = pc[u]
        /\ \A c \in Barriers \ {b} : cntr'[c] = cntr[c]
    BY <1>1, <1>2, <1>3 DEF TypeInv
  <1>5. threadCount(b) \in Nat
    BY <1>3, BelowIs
  <1> HIDE DEF m, b
  <1>6. TypeInv'
    BY <1>1, <1>2, <1>3, <1>5 DEF TypeInv, Location
  <1>7. PathInv'
    <2>1. \A u \in Threads \ {t} : PathOf(u)'
      BY <1>1, <1>2, <1>4, PathStays
    <2>2. PathOf(t)'
      BY <1>1, <1>2, <1>4 DEF PathInv, PathOf
    <2> QED
      BY <2>1, <2>2 DEF PathInv
  <1>8. \A u \in Threads : Rank(u)' = Rank(u) /\ (Waiting(u)' <=> Waiting(u))
    <2>1. Rank(t)' = Rank(t) /\ ~Waiting(t) /\ ~Waiting(t)'
      BY <1>2, <1>4 DEF Rank, Waiting, closing
    <2> QED
      BY <1>2, <1>4, <2>1, OthersStay
  <1>9. ASSUME NEW v \in Threads, NEW k \in Depths
        PROVE  /\ Up(v, k) \in Barriers /\ k \in Nat
               /\ Up(v, k) = b <=> k = m /\ Same(t, v, m + 1)
    BY <1>3, Paths, SameIs DEF Depths
  <1>10. TreeInv'
    <2>1. Alone' /\ Cover'
      BY <1>1, <1>8 DEF Alone, Cover
    <2>2. ASSUME NEW v \in Threads, NEW k \in Depths, Rank(v) > k
          PROVE  cntr'[Up(v, k)] = IF pc'[v] = "last" /\ Rank(v) = k + 1 THEN 0 ELSE threadCount(Up(v, k))
      <3>1. CASE Up(v, k) = b
        <4>1. k = m /\ Same(t, v, m + 1) /\ Rank(v) \in Nat
          BY <1>1, <1>9, <2>2, <3>1, Place
        <4>2. v = t
          BY <1>1, <1>3, <2>2, <4>1, OnlyOne
        <4> QED
          BY <1>4, <3>1, <4>2
      <3>2. CASE Up(v, k) # b
        <4>1. cntr'[Up(v, k)] = cntr[Up(v, k)]
          BY <1>4, <1>9, <3>2
        <4>2. pc'[v] = "last" /\ Rank(v) = k + 1 <=> pc[v] = "last" /\ Rank(v) = k + 1
          <5>1. CASE v # t
            BY <1>4, <5>1
          <5>2. CASE v = t
            <6>1. Rank(t) # k + 1
              BY <1>3, <1>9, <3>2, <5>2, SameIs
            <6> QED
              BY <5>2, <6>1
          <5> QED
            BY <5>1, <5>2
        <4> QED
          BY <1>1, <2>2, <4>1, <4>2 DEF ClosedCounter
      <3> QED
        BY <3>1, <3>2
    <2>3. ASSUME NEW v \in Threads, NEW k \in Depths,
                 \A w \in Threads : Same(v, w, k + 1) => Rank(w) <= k
          PROVE  cntr'[Up(v, k)] + Cardinality(Arrived(v, k)') = threadCount(Up(v, k))
      <3>1. Arrived(v, k)' = Arrived(v, k)
        BY <1>8 DEF Arrived
      <3>2. Up(v, k) # b
        <4> SUFFICES ASSUME Up(v, k) = b PROVE FALSE
          OBVIOUS
        <4>1. k = m /\ Same(v, t, k + 1)
          BY <1>3, <1>9, SameIs
        <4> QED
          BY <1>3, <2>3, <4>1
      <3> QED
        BY <1>1, <1>4, <1>9, <2>3, <3>1, <3>2 DEF OpenCounter
    <2>4. ClosedCounter'
      BY <1>8, <2>2 DEF ClosedCounter
    <2>5. OpenCounter'
      BY <1>8, <2>3 DEF OpenCounter
    <2> QED
      BY <2>1, <2>4, <2>5 DEF TreeInv
  <1>11. Agree'
    BY <1>1, <1>2, <1>8 DEF Agree
  <1>12. MeetingInv'
    <2>1. MeetingOf(t)'
      BY <1>1, <1>2, <1>4 DEF MeetingInv, MeetingOf, Late, Waiting
    <2>2. \A u \in Threads \ {t} : MeetingOf(u)'
      BY <1>1, <1>2, <1>4, <1>8, MeetingStays
    <2> QED
      BY <2>1, <2>2 DEF MeetingInv
  <1> QED
    BY <1>6, <1>7, <1>10, <1>11, <1>12 DEF IInv

\* A barrier is opened: those who wait at it are released, and nobody else.
LEMMA PublishKeeps ==
  ASSUME IInv, NEW t \in Threads, Publish(t)
  PROVE  IInv'
  <1> DEFINE m == Len(frames[t]) - 1
             b == at(t)
  <1>1. TypeInv /\ PathInv /\ TreeInv /\ Alone /\ Cover /\ ClosedCounter /\ OpenCounter /\ Agree /\ MeetingInv
    BY DEF IInv, TreeInv
  <1>2. /\ pc[t] = "publish" /\ ReturnFrom(t, result[t])
        /\ round' = [round EXCEPT ![b] = (@ + 1) % RoundMod]
        /\ UNCHANGED <<prevRound, cntr, finals, leader>>
    BY DEF Publish
  <1>3. m \in Depths /\ m \in Nat /\ b = Up(t, m) /\ b \in Barriers /\ Rank(t) = m + 1 /\ Len(frames[t]) = m + 1
    <2>1. Len(frames[t]) \in Nat /\ m \in Depths /\ b = Up(t, m) /\ b \in Barriers
      BY <1>1, Place
    <2>2. Rank(t) = Len(frames[t])
      BY <1>2 DEF Rank, closing
    <2> HIDE DEF b
    <2>3. m \in Nat
      BY <2>1, Paths DEF Depths
    <2> QED
      BY <2>1, <2>2, <2>3
  <1>4. /\ pc'[t] = IF m = 0 THEN "out" ELSE "publish"
        /\ passed'[t] = IF m = 0 THEN passed[t] + 1 ELSE passed[t]
        /\ result'[t] = result[t] /\ Rank(t)' = m
        /\ \A u \in Threads \ {t} : /\ pc'[u] = pc[u] /\ frames'[u] = frames[u]
                                    /\ passed'[u] = passed[u] /\ result'[u] = result[u]
        /\ pc' \in [Threads -> Location] /\ frames' \in [Threads -> Seq(Barriers)]
        /\ passed' \in [Threads -> Nat] /\ result' \in [Threads -> BOOLEAN] /\ trues' \in Nat
        /\ Len(frames'[t]) \in 1 .. TopLevel + 1
        /\ \A i \in 1 .. Len(frames'[t]) : frames'[t][i] = Up(t, i - 1)
        /\ m = 0 => Len(frames'[t]) = 1
    <2>1. result[t] \in BOOLEAN
      BY <1>1 DEF TypeInv
    <2>2. Len(frames[t]) = 1 <=> m = 0
      BY <1>3
    <2> HIDE DEF m, b
    <2>3. Len(frames[t]) - 1 = m
      BY <1>3
    <2> QED
      BY <1>1, <1>2, <2>1, <2>2, <2>3, Returns
  <1>5. /\ round'[b] # round[b] /\ \A c \in Barriers \ {b} : round'[c] = round[c]
        /\ round' \in [Barriers -> 0 .. RoundMod - 1]
    <2>1. round[b] \in 0 .. RoundMod - 1 /\ round \in [Barriers -> 0 .. RoundMod - 1]
      BY <1>1, <1>3 DEF TypeInv
    <2>2. (round[b] + 1) % RoundMod \in 0 .. RoundMod - 1 /\ (round[b] + 1) % RoundMod # round[b]
      BY <2>1, RoundModAssumption
    <2> HIDE DEF b
    <2> QED
      BY <1>2, <1>3, <2>1, <2>2
  <1> HIDE DEF m, b
  <1>6. ASSUME NEW u \in Threads \ {t}, at(u) = b
        PROVE  Waiting(u) /\ Rank(u) = m /\ Same(t, u, m + 1)
    <2>1. Len(frames[u]) \in Nat /\ Len(frames[u]) - 1 \in Depths /\ at(u) = Up(u, Len(frames[u]) - 1)
      BY <1>1, Place
    <2>2. Len(frames[u]) - 1 = m /\ Same(t, u, m + 1)
      <3> DEFINE p == Len(frames[u]) - 1
      <3>1. p \in Depths /\ Up(u, p) = Up(t, m)
        BY <1>3, <1>6, <2>1
      <3> HIDE DEF p
      <3>2. p = m /\ Same(u, t, p + 1)
        BY <1>3, <3>1, Paths
      <3>3. Same(t, u, m + 1)
        BY <1>3, <3>2, SameIs
      <3> QED
        BY <3>2, <3>3 DEF p
    <2>3. Rank(t) > m
      BY <1>3
    <2>4. Waiting(u)
      BY <1>1, <1>3, <1>6, <2>2, <2>3 DEF Alone
    <2> QED
      BY <2>2, <2>4 DEF Rank, Waiting, closing
  <1>7. ASSUME NEW u \in Threads, Waiting(u), Rank(u) = m, Same(t, u, m + 1)
        PROVE  at(u) = b
    <2>1. at(u) = Up(u, Len(frames[u]) - 1) /\ Rank(u) = Len(frames[u]) - 1
      BY <1>1, <1>7, Place DEF Rank, Waiting, closing
    <2> QED
      BY <1>3, <1>7, <2>1, Paths
  <1>8. \A u \in Threads : Waiting(u)' <=> Waiting(u) /\ at(u) # b
    <2>1. ~Waiting(t) /\ ~Waiting(t)'
      BY <1>2, <1>4 DEF Waiting
    <2>2. ASSUME NEW u \in Threads \ {t}, at(u) = b PROVE ~Waiting(u)'
      <3>1. prevRound[u] = round[b]
        BY <1>6, <2>2 DEF Waiting
      <3>2. at(u)' = b
        BY <1>4, <2>2 DEF at
      <3> QED
        BY <1>2, <1>5, <3>1, <3>2 DEF Waiting
    <2>3. ASSUME NEW u \in Threads \ {t}, at(u) # b PROVE Waiting(u)' <=> Waiting(u)
      <3>1. at(u) \in Barriers \ {b}
        BY <1>1, <2>3, Place
      <3>2. round'[at(u)] = round[at(u)] /\ prevRound'[u] = prevRound[u]
        BY <1>2, <1>5, <3>1
      <3> QED
        BY <1>4, <3>2, OthersStay
    <2> QED
      BY <2>1, <2>2, <2>3
  <1>9. ASSUME NEW u \in Threads
        PROVE  /\ Rank(u) \in Nat /\ Rank(u)' \in Nat /\ Rank(u)' <= Rank(u)
               /\ u # t => Rank(u)' = Rank(u)
    <2>1. Rank(u) \in Nat
      BY <1>1, Place, Paths
    <2>2. u # t => Rank(u)' = Rank(u)
      BY <1>4 DEF Rank
    <2> QED
      BY <1>3, <1>4, <2>1, <2>2
  <1>10. ~Waiting(t)
    BY <1>2 DEF Waiting
  <1>11. TypeInv'
    BY <1>1, <1>2, <1>4, <1>5 DEF TypeInv
  <1>12. PathInv'
    <2>1. ASSUME NEW u \in Threads \ {t} PROVE PathOf(u)'
      <3>1. at(u) \in Barriers
        BY <1>1, Place
      <3>2. pc[u] = "loaded" => round'[at(u)] = round[at(u)]
        BY <1>5, <1>6, <3>1 DEF Waiting
      <3> QED
        BY <1>1, <1>2, <1>4, <3>2, PathStays
    <2>2. pc'[t] \in {"out", "publish"} /\ (pc'[t] = "out" => Len(frames'[t]) = 1)
      BY <1>4
    <2>3. PathOf(t)'
      BY <1>4, <2>2 DEF PathOf
    <2> QED
      BY <2>1, <2>3 DEF PathInv
  <1>13. \A k \in Depths : k \in Nat
    BY Paths DEF Depths
  <1>14. Alone'
    <2> SUFFICES ASSUME NEW v \in Threads, NEW u \in Threads, NEW k \in Depths,
                        Rank(v)' > k, u # v, Same(v, u, k + 1)
                 PROVE  Waiting(u)' /\ Rank(u)' <= k
      BY DEF Alone
    <2>1. k \in Nat /\ Rank(v) > k
      BY <1>9, <1>13
    <2>2. Waiting(u) /\ Rank(u) <= k
      BY <1>1, <2>1 DEF Alone
    <2>3. u # t
      BY <1>10, <2>2
    <2>4. at(u) # b
      <3> SUFFICES ASSUME at(u) = b PROVE FALSE
        OBVIOUS
      <3>1. Rank(u) = m /\ Same(t, u, m + 1)
        BY <1>6, <2>3
      <3>2. m + 1 <= k + 1 /\ m + 1 \in Nat /\ k + 1 \in Nat
        BY <1>3, <2>1, <2>2, <3>1
      <3>3. Same(v, t, k + 1)
        BY <3>1, <3>2, SameIs
      <3>4. v # t
        BY <1>3, <1>4, <2>1, <3>2
      <3> QED
        BY <1>1, <1>10, <2>1, <3>3, <3>4 DEF Alone
    <2> QED
      BY <1>8, <1>9, <2>2, <2>3, <2>4
  <1>15. Cover'
    <2> SUFFICES ASSUME NEW v \in Threads, NEW u \in Threads, NEW k \in Depths, NEW j \in 0 .. k,
                        Rank(v)' > k, Same(v, u, k + 1)
                 PROVE  \E w \in Threads : Rank(w)' >= j /\ Same(u, w, j)
      BY DEF Cover
    <2>1. k \in Nat /\ Rank(v) > k /\ j \in Nat /\ j <= k
      BY <1>9, <1>13
    <2>2. PICK w \in Threads : Rank(w) >= j /\ Same(u, w, j)
      BY <1>1, <2>1 DEF Cover
    <2>3. CASE w # t
      BY <1>9, <2>2, <2>3
    <2>4. CASE w = t /\ m >= j
      BY <1>4, <2>2, <2>4
    <2>5. CASE w = t /\ ~(m >= j)
      <3>1. j = m + 1 /\ k > m
        BY <1>3, <2>1, <2>2, <2>5
      <3>2. Same(u, t, k + 1)
        <4>1. k + 1 \in Nat /\ j <= k + 1
          BY <2>1
        <4> QED
          BY <2>1, <2>2, <2>5, <4>1, SameIs
      <3>3. Same(v, t, k + 1)
        BY <2>1, <3>2, SameIs
      <3>4. v # t
        BY <1>3, <1>4, <2>1, <3>1
      <3> QED
        BY <1>1, <1>10, <2>1, <3>3, <3>4 DEF Alone
    <2> QED
      BY <2>3, <2>4, <2>5
  <1>16. ClosedCounter'
    <2> SUFFICES ASSUME NEW v \in Threads, NEW k \in Depths, Rank(v)' > k
                 PROVE  cntr[Up(v, k)] = IF pc'[v] = "last" /\ Rank(v)' = k + 1 THEN 0 ELSE threadCount(Up(v, k))
      BY <1>2 DEF ClosedCounter
    <2>1. Rank(v) > k
      BY <1>9, <1>13
    <2>2. v # t => Rank(v)' = Rank(v) /\ pc'[v] = pc[v]
      BY <1>4, <1>9
    <2>3. pc[t] # "last" /\ pc'[t] # "last"
      BY <1>2, <1>4
    <2> QED
      BY <1>1, <2>1, <2>2, <2>3 DEF ClosedCounter
  <1>17. OpenCounter'
    <2> SUFFICES ASSUME NEW v \in Threads, NEW k \in Depths,
                        \A w \in Threads : Same(v, w, k + 1) => Rank(w)' <= k
                 PROVE  cntr[Up(v, k)] + Cardinality(Arrived(v, k)') = threadCount(Up(v, k))
      BY <1>2 DEF OpenCounter
    <2>1. CASE \A w \in Threads : Same(v, w, k + 1) => Rank(w) <= k
      <3>1. ASSUME NEW u \in Threads, Same(v, u, k + 1), Waiting(u), Rank(u) = k PROVE at(u) # b
        <4> SUFFICES ASSUME at(u) = b PROVE FALSE
          OBVIOUS
        <4>1. k = m /\ Same(t, u, m + 1)
          BY <1>6, <1>10, <3>1
        <4>2. Same(v, t, k + 1)
          BY <1>13, <3>1, <4>1, SameIs
        <4> QED
          BY <1>3, <2>1, <4>1, <4>2
      <3>2. Arrived(v, k)' = Arrived(v, k)
        <4>1. ASSUME NEW u \in Threads
              PROVE  Same(v, u, k + 1) /\ Waiting(u)' /\ Rank(u)' = k
                       <=> Same(v, u, k + 1) /\ Waiting(u) /\ Rank(u) = k
          BY <1>8, <1>9, <1>10, <3>1
        <4> QED
          BY <4>1 DEF Arrived
      <3> QED
        BY <1>1, <2>1, <3>2 DEF OpenCounter
    <2>2. ASSUME NEW w \in Threads, Same(v, w, k + 1), ~(Rank(w) <= k)
          PROVE  cntr[Up(v, k)] + Cardinality(Arrived(v, k)') = threadCount(Up(v, k))
      <3>1. w = t
        BY <1>9, <2>2
      <3>2. k = m
        BY <1>3, <1>4, <1>13, <2>2, <3>1
      <3>3. Up(v, k) = b
        BY <1>3, <2>2, <3>1, <3>2, Paths
      <3>4. cntr[b] = threadCount(b)
        <4>1. Rank(t) > m
          BY <1>3
        <4> QED
          BY <1>1, <1>2, <1>3, <4>1 DEF ClosedCounter
      <3>5. Arrived(v, k)' = {}
        <4>1. ASSUME NEW u \in Threads, Same(v, u, k + 1), Waiting(u)', Rank(u)' = k PROVE FALSE
          <5>1. Waiting(u) /\ at(u) # b /\ u # t
            BY <1>8, <1>10, <4>1
          <5>2. Rank(u) = m
            BY <1>9, <3>2, <4>1, <5>1
          <5>3. Same(t, u, m + 1)
            BY <1>13, <2>2, <3>1, <3>2, <4>1, SameIs
          <5> QED
            BY <1>7, <5>1, <5>2, <5>3
        <4> QED
          BY <4>1 DEF Arrived
      <3>6. threadCount(b) \in Nat
        BY <1>3, BelowIs
      <3> QED
        BY <3>3, <3>4, <3>5, <3>6, FS_EmptySet
    <2> QED
      BY <2>1, <2>2
  <1>18. Agree'
    <2>1. passed'[t] = passed[t] \/ (Rank(t)' = 0 /\ ~Waiting(t))
      BY <1>4, <1>10
    <2> QED
      BY <1>1, <1>4, <1>9, <2>1, AgreeStays
  <1>19. MeetingInv'
    <2>1. /\ Late(t) /\ passed[t] + 1 = finals /\ (result[t] <=> leader = t) /\ passed[t] < MaxMeetings
          /\ passed[t] <= MaxMeetings
      BY <1>1, <1>2 DEF MeetingInv, MeetingOf, Late
    <2>2. passed[t] + 1 <= MaxMeetings
      BY <1>1, <2>1, MaxMeetingsAssumption DEF TypeInv
    <2>3. MeetingOf(t)'
      <3>1. ~Waiting(t)'
        BY <1>8, <1>10
      <3>2. CASE m = 0
        BY <1>2, <1>4, <2>1, <2>2, <3>1, <3>2 DEF MeetingOf, Late
      <3>3. CASE m # 0
        BY <1>2, <1>4, <2>1, <2>2, <3>1, <3>3 DEF MeetingOf, Late
      <3> QED
        BY <3>2, <3>3
    <2>4. ASSUME NEW u \in Threads \ {t} PROVE MeetingOf(u)'
      <3>1. pc'[u] = pc[u] /\ passed'[u] = passed[u] /\ result'[u] = result[u] /\ Rank(u)' = Rank(u)
        BY <1>4, <1>9
      <3>2. Late(u)' <=> Late(u)
        BY <1>2, <3>1 DEF Late
      <3>3. pc[u] = "spin" /\ ~Waiting(u)' => Late(u)
        <4>1. CASE at(u) = b
          <5>1. Rank(t) > m /\ Same(t, u, m + 1)
            BY <1>3, <1>6, <4>1
          <5> QED
            BY <1>1, <1>3, <2>1, <5>1 DEF Agree, Late
        <4>2. CASE at(u) # b
          BY <1>1, <1>8, <4>2 DEF MeetingInv, MeetingOf
        <4> QED
          BY <4>1, <4>2
      <3>4. ASSUME Late(u), Waiting(u)' PROVE \E v \in Threads : Rank(v)' > Rank(u)' /\ Same(u, v, Rank(u)' + 1)
        <4>1. Waiting(u) /\ at(u) # b
          BY <1>8, <3>4
        <4>2. PICK v \in Threads : Rank(v) > Rank(u) /\ Same(u, v, Rank(u) + 1)
          BY <1>1, <3>4, <4>1 DEF MeetingInv, MeetingOf
        <4>3. CASE v # t
          BY <1>9, <3>1, <4>2, <4>3
        <4>4. CASE v = t /\ m > Rank(u)
          BY <1>4, <3>1, <4>2, <4>4
        <4>5. CASE v = t /\ ~(m > Rank(u))
          <5>1. Rank(u) = m
            BY <1>3, <1>9, <4>2, <4>5
          <5>2. Same(t, u, m + 1)
            BY <1>3, <4>2, <4>5, <5>1, SameIs
          <5> QED
            BY <1>7, <4>1, <5>1, <5>2
        <4> QED
          BY <4>3, <4>4, <4>5
      <3>5. MeetingOf(u)
        BY <1>1 DEF MeetingInv
      <3> QED
        BY <1>2, <3>1, <3>2, <3>3, <3>4, <3>5 DEF MeetingOf
    <2> QED
      BY <2>3, <2>4 DEF MeetingInv
  <1> QED
    BY <1>11, <1>12, <1>14, <1>15, <1>16, <1>17, <1>18, <1>19 DEF IInv, TreeInv

\* The level below another one.
LEMMA LevelBelow ==
  ASSUME NEW k \in Depths, k # 0
  PROVE  k - 1 \in Depths /\ (k - 1) + 1 = k /\ k > k - 1 /\ ~(k <= k - 1)
  BY Paths DEF Depths

\* What the counter of the barrier that a thread comes to says: this thread has
\* not been counted yet, and it is 1 if all the other participants have.
LEMMA Arrivals ==
  ASSUME TypeInv, PathInv, TreeInv, NEW t \in Threads, pc[t] = "loaded",
         NEW m \in Nat, m = Len(frames[t]) - 1
  PROVE  /\ m \in Depths /\ at(t) = Up(t, m) /\ Rank(t) = m
         /\ \A v \in Threads : Same(t, v, m + 1) => Rank(v) <= m
         /\ IsFiniteSet(Arrived(t, m)) /\ t \notin Arrived(t, m)
         /\ cntr[Up(t, m)] + Cardinality(Arrived(t, m)) = threadCount(Up(t, m))
         /\ cntr[Up(t, m)] >= 1
         /\ cntr[Up(t, m)] = 1 =>
              \A u \in Threads : Same(t, u, m + 1) => \E w \in Arrived(t, m) \cup {t} : Same(u, w, m)
  <1>1. Alone /\ Cover /\ OpenCounter
    BY DEF TreeInv
  <1>2. m \in Depths /\ at(t) = Up(t, m) /\ Up(t, m) \in Barriers /\ Rank(t) = m /\ ~Waiting(t)
    BY Place DEF Rank, Waiting, closing
  <1>3. ASSUME NEW v \in Threads, Same(t, v, m + 1) PROVE Rank(v) <= m
    <2>1. Rank(v) \in Nat /\ Same(v, t, m + 1)
      BY <1>3, Place, SameIs
    <2>2. ASSUME Rank(v) > m PROVE FALSE
      <3>1. v # t
        BY <1>2, <2>2
      <3> QED
        BY <1>1, <1>2, <2>1, <2>2, <3>1 DEF Alone
    <2> QED
      BY <2>1, <2>2
  <1>4. cntr[Up(t, m)] + Cardinality(Arrived(t, m)) = threadCount(Up(t, m))
    BY <1>1, <1>2, <1>3 DEF OpenCounter
  <1>5. t \notin Arrived(t, m)
    BY <1>2 DEF Arrived
  <1> DEFINE A == Arrived(t, m) \cup {t}
             B == Below(t, m)
             f == [u \in A |-> Index[m][u]]
  <1>6. /\ IsFiniteSet(B) /\ Cardinality(B) = threadCount(Up(t, m))
        /\ threadCount(Up(t, m)) \in Nat \ {0}
        /\ \A u \in Threads : Same(t, u, m + 1) => Index[m][u] \in B
    BY <1>2, BelowIs
  <1>7. \A u \in A : u \in Threads /\ Rank(u) = m /\ Same(t, u, m + 1)
    <2>1. m + 1 \in Nat
      OBVIOUS
    <2>2. Same(t, t, m + 1)
      BY DEF Same
    <2> QED
      BY <1>2, <2>2 DEF Arrived
  <1>8. ASSUME NEW u \in A, NEW w \in A, Same(u, w, m) PROVE u = w
    <2>1. CASE m = 0
      <3>1. u \in Threads /\ w \in Threads /\ Same(u, w, 0)
        BY <1>7, <1>8, <2>1
      <3> QED
        BY <3>1, SameIs
    <2>2. CASE m # 0
      <3> DEFINE k == m - 1
      <3>1. k \in Depths /\ k + 1 = m /\ m > k /\ ~(m <= k)
        BY <1>2, <2>2, LevelBelow
      <3> HIDE DEF k, A
      <3>2. u \in Threads /\ w \in Threads /\ Rank(u) > k /\ Rank(w) > k /\ Same(u, w, k + 1) /\ ~(Rank(w) <= k)
        BY <1>7, <1>8, <3>1
      <3> QED
        BY <1>1, <3>1, <3>2 DEF Alone
    <2> QED
      BY <2>1, <2>2
  <1>9. f \in Injection(A, B)
    <2>1. f \in [A -> B]
      BY <1>6, <1>7
    <2>2. \A u, w \in A : f[u] = f[w] => u = w
      BY <1>8 DEF Same
    <2> HIDE DEF A, B, f
    <2> QED
      BY <2>1, <2>2 DEF Injection, IsInjective
  <1> HIDE DEF B, f
  <1>10. IsFiniteSet(A) /\ Cardinality(A) <= Cardinality(B)
    <2>1. IsFiniteSet(A)
      <3> HIDE DEF A
      <3>1. IsFiniteSet(A) /\ Cardinality(A) <= Cardinality(B)
        BY <1>6, <1>9, FS_Injection
      <3> QED
        BY <3>1
    <2> HIDE DEF A
    <2> QED
      BY <1>6, <1>9, FS_Injection
  <1>11. IsFiniteSet(Arrived(t, m)) /\ Cardinality(Arrived(t, m)) \in Nat
         /\ Cardinality(A) = Cardinality(Arrived(t, m)) + 1
    <2>1. Arrived(t, m) \subseteq A
      OBVIOUS
    <2>2. IsFiniteSet(Arrived(t, m))
      <3> HIDE DEF A
      <3> QED
        BY <1>10, <2>1, FS_Subset
    <2>3. Cardinality(A) = IF t \in Arrived(t, m) THEN Cardinality(Arrived(t, m)) ELSE Cardinality(Arrived(t, m)) + 1
      BY <2>2, FS_AddElement
    <2>4. Cardinality(Arrived(t, m)) \in Nat
      BY <2>2, FS_CardinalityType
    <2> QED
      BY <1>5, <2>2, <2>3, <2>4
  <1>12. cntr[Up(t, m)] \in Nat
    BY <1>2 DEF TypeInv
  <1>13. cntr[Up(t, m)] >= 1
    <2> HIDE DEF A
    <2> QED
      BY <1>4, <1>6, <1>10, <1>11, <1>12
  <1>14. ASSUME cntr[Up(t, m)] = 1, NEW u \in Threads, Same(t, u, m + 1)
         PROVE  \E w \in A : Same(u, w, m)
    <2> HIDE DEF A
    <2>1. Cardinality(A) = Cardinality(B)
      BY <1>4, <1>6, <1>11, <1>14
    <2>2. f \in Surjection(A, B)
      BY <1>6, <1>9, <1>10, <2>1, FS_Injection
    <2>3. Index[m][u] \in B
      BY <1>6, <1>14
    <2>4. PICK w \in A : f[w] = Index[m][u]
      BY <2>2, <2>3 DEF Surjection
    <2> QED
      BY <2>4 DEF f, Same
  <1> QED
    BY <1>2, <1>3, <1>4, <1>5, <1>11, <1>13, <1>14

\* A thread that is not the last comes to a barrier, and waits.
LEMMA FetchSubKeeps ==
  ASSUME IInv, NEW t \in Threads, FetchSub(t), cntr[at(t)] # 1
  PROVE  IInv'
  <1> DEFINE m == Len(frames[t]) - 1
             b == at(t)
  <1>1. TypeInv /\ PathInv /\ TreeInv /\ Alone /\ Cover /\ ClosedCounter /\ OpenCounter /\ Agree /\ MeetingInv
    BY DEF IInv, TreeInv
  <1>2. /\ pc[t] = "loaded" /\ pc' = [pc EXCEPT ![t] = "spin"]
        /\ cntr' = [cntr EXCEPT ![b] = @ - 1]
        /\ UNCHANGED <<frames, prevRound, result, round, passed, finals, leader, trues>>
    BY DEF FetchSub, history
  <1>3. /\ m \in Depths /\ m \in Nat /\ b = Up(t, m) /\ Rank(t) = m /\ b \in Barriers
        /\ \A v \in Threads : Same(t, v, m + 1) => Rank(v) <= m
        /\ IsFiniteSet(Arrived(t, m)) /\ t \notin Arrived(t, m)
        /\ cntr[b] + Cardinality(Arrived(t, m)) = threadCount(b)
        /\ cntr[b] >= 1 /\ cntr[b] # 1
    <2>1. m \in Depths /\ b \in Barriers /\ cntr[b] # 1
      BY <1>1, Place
    <2>2. m \in Nat
      BY <2>1, Paths DEF Depths
    <2> HIDE DEF m
    <2>3. m = Len(frames[t]) - 1
      BY DEF m
    <2> QED
      BY <1>1, <1>2, <2>1, <2>2, <2>3, Arrivals
  <1>4. cntr[b] \in Nat /\ cntr[b] - 1 \in Nat
    <2>1. cntr[b] \in Nat
      BY <1>1, <1>3 DEF TypeInv
    <2> HIDE DEF b
    <2> QED
      BY <1>3, <2>1
  <1>5. /\ pc'[t] = "spin" /\ cntr'[b] = cntr[b] - 1
        /\ \A u \in Threads \ {t} : pc'[u] = pc[u]
        /\ \A c \in Barriers \ {b} : cntr'[c] = cntr[c]
    BY <1>1, <1>2, <1>3 DEF TypeInv
  <1> HIDE DEF m, b
  <1>6. TypeInv'
    BY <1>1, <1>2, <1>3, <1>4 DEF TypeInv, Location
  <1>7. PathInv'
    <2>1. \A u \in Threads \ {t} : PathOf(u)'
      BY <1>1, <1>2, <1>5, PathStays
    <2>2. PathOf(t)'
      BY <1>1, <1>2, <1>5 DEF PathInv, PathOf
    <2> QED
      BY <2>1, <2>2 DEF PathInv
  <1>8. \A u \in Threads : /\ Rank(u)' = Rank(u) /\ Rank(u) \in Nat
                           /\ u # t => (Waiting(u)' <=> Waiting(u))
                           /\ Waiting(u) => Waiting(u)'
    <2>1. Rank(t)' = Rank(t) /\ ~Waiting(t)
      BY <1>2, <1>5 DEF Rank, Waiting, closing
    <2>2. \A u \in Threads : Rank(u) \in Nat
      BY <1>1, Place, Paths
    <2> QED
      BY <1>2, <1>5, <2>1, <2>2, OthersStay
  <1>9. Waiting(t)'
    BY <1>1, <1>2, <1>5 DEF PathInv, PathOf, Waiting, at
  <1>10. ASSUME NEW v \in Threads, NEW k \in Depths
         PROVE  /\ Up(v, k) \in Barriers /\ k \in Nat
                /\ Up(v, k) = b <=> k = m /\ Same(t, v, m + 1)
    BY <1>3, Paths, SameIs DEF Depths
  <1>11. Alone' /\ Cover'
    BY <1>1, <1>8 DEF Alone, Cover
  <1>12. ClosedCounter'
    <2> SUFFICES ASSUME NEW v \in Threads, NEW k \in Depths, Rank(v) > k
                 PROVE  cntr'[Up(v, k)] = IF pc'[v] = "last" /\ Rank(v) = k + 1 THEN 0 ELSE threadCount(Up(v, k))
      BY <1>8 DEF ClosedCounter
    <2>1. Up(v, k) # b
      <3>1. ASSUME k = m, Same(t, v, m + 1) PROVE FALSE
        <4>1. Rank(v) <= m /\ Rank(v) > m /\ Rank(v) \in Nat
          BY <1>3, <1>8, <3>1
        <4> QED
          BY <1>3, <4>1
      <3> QED
        BY <1>10, <3>1
    <2>2. cntr'[Up(v, k)] = cntr[Up(v, k)]
      BY <1>5, <1>10, <2>1
    <2>3. pc'[v] = "last" <=> pc[v] = "last"
      BY <1>2, <1>5
    <2> QED
      BY <1>1, <2>2, <2>3 DEF ClosedCounter
  <1>13. OpenCounter'
    <2> SUFFICES ASSUME NEW v \in Threads, NEW k \in Depths,
                        \A w \in Threads : Same(v, w, k + 1) => Rank(w) <= k
                 PROVE  cntr'[Up(v, k)] + Cardinality(Arrived(v, k)') = threadCount(Up(v, k))
      BY <1>8 DEF OpenCounter
    <2>1. CASE Up(v, k) = b
      <3>1. k = m /\ \A u \in Threads : Same(v, u, k + 1) <=> Same(t, u, m + 1)
        BY <1>3, <1>10, <2>1 DEF Same
      <3>2. Arrived(v, k)' = Arrived(t, m) \cup {t}
        <4>1. Same(t, t, m + 1)
          BY DEF Same
        <4>2. ASSUME NEW u \in Threads
              PROVE  Same(v, u, k + 1) /\ Waiting(u)' /\ Rank(u)' = k
                       <=> (Same(t, u, m + 1) /\ Waiting(u) /\ Rank(u) = m) \/ u = t
          BY <1>3, <1>8, <1>9, <3>1, <4>1
        <4> QED
          BY <4>2 DEF Arrived
      <3>3. Cardinality(Arrived(v, k)') = Cardinality(Arrived(t, m)) + 1 /\ Cardinality(Arrived(t, m)) \in Nat
        BY <1>3, <3>2, FS_AddElement, FS_CardinalityType
      <3> QED
        BY <1>3, <1>4, <1>5, <2>1, <3>3
    <2>2. CASE Up(v, k) # b
      <3>1. ~(Same(v, t, k + 1) /\ Rank(t) = k)
        BY <1>3, <1>10, <2>2, SameIs
      <3>2. Arrived(v, k)' = Arrived(v, k)
        <4>1. ASSUME NEW u \in Threads
              PROVE  Same(v, u, k + 1) /\ Waiting(u)' /\ Rank(u)' = k
                       <=> Same(v, u, k + 1) /\ Waiting(u) /\ Rank(u) = k
          BY <1>8, <3>1
        <4> QED
          BY <4>1 DEF Arrived
      <3>3. cntr'[Up(v, k)] = cntr[Up(v, k)]
        BY <1>5, <1>10, <2>2
      <3> QED
        BY <1>1, <3>2, <3>3 DEF OpenCounter
    <2> QED
      BY <2>1, <2>2
  <1>14. Agree'
    BY <1>1, <1>2, <1>8 DEF Agree
  <1>15. MeetingInv'
    <2>1. ~Late(t) /\ passed[t] < MaxMeetings /\ passed[t] <= MaxMeetings /\ passed[t] = finals
      BY <1>1, <1>2 DEF MeetingInv, MeetingOf, Late
    <2>2. MeetingOf(t)'
      BY <1>2, <1>5, <1>9, <2>1 DEF MeetingOf, Late
    <2>3. \A u \in Threads \ {t} : MeetingOf(u)'
      BY <1>1, <1>2, <1>5, <1>8, MeetingStays
    <2> QED
      BY <2>2, <2>3 DEF MeetingInv
  <1> QED
    BY <1>6, <1>7, <1>11, <1>12, <1>13, <1>14, <1>15 DEF IInv, TreeInv

\* The last thread comes to a barrier, and closes it.
LEMMA LastFetchSubKeeps ==
  ASSUME IInv, NEW t \in Threads, FetchSub(t), cntr[at(t)] = 1
  PROVE  IInv'
  <1> DEFINE m == Len(frames[t]) - 1
             b == at(t)
             A == Arrived(t, m) \cup {t}
  <1>1. TypeInv /\ PathInv /\ TreeInv /\ Alone /\ Cover /\ ClosedCounter /\ OpenCounter /\ Agree /\ MeetingInv
    BY DEF IInv, TreeInv
  <1>2. /\ pc[t] = "loaded" /\ pc' = [pc EXCEPT ![t] = "last"]
        /\ cntr' = [cntr EXCEPT ![b] = 0]
        /\ UNCHANGED <<frames, prevRound, result, round, passed, finals, leader, trues>>
    BY DEF FetchSub, history
  <1>3. /\ m \in Depths /\ m \in Nat /\ b = Up(t, m) /\ Rank(t) = m /\ b \in Barriers
        /\ Len(frames[t]) = m + 1
        /\ \A v \in Threads : Same(t, v, m + 1) => Rank(v) <= m
        /\ \A u \in Threads : Same(t, u, m + 1) => \E w \in A : Same(u, w, m)
    <2>1. m \in Depths /\ b \in Barriers /\ cntr[b] = 1
      BY <1>1, Place
    <2>2. m \in Nat
      BY <2>1, Paths DEF Depths
    <2>3. Len(frames[t]) = m + 1
      BY <1>1, Place
    <2> HIDE DEF m
    <2>4. m = Len(frames[t]) - 1
      BY DEF m
    <2> QED
      BY <1>1, <1>2, <2>1, <2>2, <2>3, <2>4, Arrivals
  <1>4. /\ pc'[t] = "last" /\ cntr'[b] = 0
        /\ \A u \in Threads \ {t} : pc'[u] = pc[u]
        /\ \A c \in Barriers \ {b} : cntr'[c] = cntr[c]
    BY <1>1, <1>2, <1>3 DEF TypeInv
  <1> HIDE DEF m, b
  <1>5. \A w \in A : w \in Threads /\ Rank(w) = m /\ Same(t, w, m + 1) /\ (w # t => Waiting(w))
    <2>1. Same(t, t, m + 1)
      BY DEF Same
    <2> QED
      BY <1>3, <2>1 DEF Arrived
  <1> HIDE DEF A
  <1>6. TypeInv'
    BY <1>1, <1>2, <1>3 DEF TypeInv, Location
  <1>7. PathInv'
    <2>1. \A u \in Threads \ {t} : PathOf(u)'
      BY <1>1, <1>2, <1>4, PathStays
    <2>2. PathOf(t)'
      BY <1>1, <1>2, <1>4 DEF PathInv, PathOf
    <2> QED
      BY <2>1, <2>2 DEF PathInv
  <1>8. /\ Rank(t)' = m + 1 /\ ~Waiting(t) /\ ~Waiting(t)'
        /\ \A u \in Threads : /\ Rank(u) \in Nat /\ Rank(u)' \in Nat /\ Rank(u)' >= Rank(u)
                              /\ u # t => Rank(u)' = Rank(u)
                              /\ Waiting(u)' <=> Waiting(u)
    <2>1. Rank(t)' = m + 1 /\ ~Waiting(t) /\ ~Waiting(t)'
      BY <1>2, <1>3, <1>4 DEF Rank, Waiting, closing
    <2>2. \A u \in Threads : Rank(u) \in Nat
      BY <1>1, Place, Paths
    <2>3. \A u \in Threads \ {t} : Rank(u)' = Rank(u) /\ (Waiting(u)' <=> Waiting(u))
      BY <1>2, <1>4, OthersStay
    <2> QED
      BY <1>3, <2>1, <2>2, <2>3
  <1>9. ASSUME NEW v \in Threads, NEW k \in Depths
        PROVE  /\ Up(v, k) \in Barriers /\ k \in Nat
               /\ Up(v, k) = b <=> k = m /\ Same(t, v, m + 1)
    BY <1>3, Paths, SameIs DEF Depths
  <1>10. ASSUME NEW v \in Threads, NEW k \in Depths, Rank(v)' > k
         PROVE  Rank(v) > k \/ (v = t /\ k = m)
    BY <1>3, <1>8, <1>9, <1>10
  <1>11. m # 0 => m - 1 \in Depths /\ (m - 1) + 1 = m /\ m > m - 1 /\ m - 1 <= m /\ m - 1 \in Nat
    BY <1>3, LevelBelow
  <1>12. ASSUME NEW u \in Threads, NEW w \in A, Same(u, w, m), u # w
         PROVE  /\ m # 0 /\ Rank(w) > m - 1 /\ Same(w, u, (m - 1) + 1)
                /\ Waiting(u) /\ Rank(u) <= m
    <2>1. m # 0
      BY <1>5, <1>12, SameIs
    <2>2. w \in Threads /\ Rank(w) > m - 1 /\ Same(w, u, (m - 1) + 1)
      BY <1>3, <1>5, <1>11, <1>12, <2>1, SameIs
    <2>3. Waiting(u) /\ Rank(u) <= m - 1
      BY <1>1, <1>11, <1>12, <2>1, <2>2 DEF Alone
    <2> QED
      BY <1>3, <1>8, <1>11, <2>1, <2>2, <2>3
  <1>13. Alone'
    <2> SUFFICES ASSUME NEW v \in Threads, NEW u \in Threads, NEW k \in Depths,
                        Rank(v)' > k, u # v, Same(v, u, k + 1)
                 PROVE  Waiting(u) /\ Rank(u)' <= k
      BY <1>8 DEF Alone
    <2>1. CASE Rank(v) > k
      <3>1. Waiting(u) /\ Rank(u) <= k
        BY <1>1, <2>1 DEF Alone
      <3> QED
        BY <1>8, <3>1
    <2>2. CASE v = t /\ k = m
      <3>1. PICK w \in A : Same(u, w, m)
        BY <1>3, <2>2
      <3>2. Waiting(u) /\ Rank(u) <= m
        <4>1. CASE u = w
          BY <1>3, <1>5, <2>2, <4>1
        <4>2. CASE u # w
          BY <1>12, <3>1, <4>2
        <4> QED
          BY <4>1, <4>2
      <3> QED
        BY <1>8, <2>2, <3>2
    <2> QED
      BY <1>10, <2>1, <2>2
  <1>14. Cover'
    <2> SUFFICES ASSUME NEW v \in Threads, NEW u \in Threads, NEW k \in Depths, NEW j \in 0 .. k,
                        Rank(v)' > k, Same(v, u, k + 1)
                 PROVE  \E w \in Threads : Rank(w) >= j /\ Same(u, w, j)
      <3>1. \A w \in Threads, j \in Nat : Rank(w) >= j => Rank(w)' >= j
        BY <1>8
      <3>2. \A k \in Depths : k \in Nat
        BY <1>9
      <3> QED
        BY <3>1, <3>2 DEF Cover
    <2>1. CASE Rank(v) > k
      BY <1>1, <2>1 DEF Cover
    <2>2. CASE v = t /\ k = m
      <3>1. PICK w \in A : Same(u, w, m)
        BY <1>3, <2>2
      <3>2. w \in Threads /\ Rank(w) = m /\ j \in 0 .. m
        BY <1>5, <2>2
      <3>3. CASE j = m
        BY <1>3, <3>1, <3>2, <3>3
      <3>4. CASE j # m
        <4>1. m # 0 /\ j \in 0 .. m - 1
          BY <1>3, <3>2, <3>4
        <4>2. Rank(w) > m - 1 /\ Same(w, u, (m - 1) + 1)
          BY <1>3, <1>11, <3>1, <3>2, <4>1, SameIs
        <4> QED
          BY <1>1, <1>11, <3>2, <4>1, <4>2 DEF Cover
      <3> QED
        BY <3>3, <3>4
    <2> QED
      BY <1>10, <2>1, <2>2
  <1>15. ClosedCounter'
    <2> SUFFICES ASSUME NEW v \in Threads, NEW k \in Depths, Rank(v)' > k
                 PROVE  cntr'[Up(v, k)] = IF pc'[v] = "last" /\ Rank(v)' = k + 1 THEN 0 ELSE threadCount(Up(v, k))
      BY DEF ClosedCounter
    <2>1. CASE v = t /\ k = m
      BY <1>3, <1>4, <1>8, <2>1
    <2>2. CASE Rank(v) > k /\ ~(v = t /\ k = m)
      <3>1. Up(v, k) # b
        <4>1. ASSUME k = m, Same(t, v, m + 1) PROVE FALSE
          <5>1. Rank(v) <= m /\ Rank(v) > m /\ Rank(v) \in Nat
            BY <1>3, <1>8, <2>2, <4>1
          <5> QED
            BY <1>3, <5>1
        <4> QED
          BY <1>9, <4>1
      <3>2. cntr'[Up(v, k)] = cntr[Up(v, k)]
        BY <1>4, <1>9, <3>1
      <3>3. pc'[v] = "last" /\ Rank(v)' = k + 1 <=> pc[v] = "last" /\ Rank(v) = k + 1
        <4>1. CASE v # t
          BY <1>4, <1>8, <4>1
        <4>2. CASE v = t
          <5>1. m + 1 # k + 1
            BY <1>3, <1>9, <2>2, <4>2
          <5> QED
            BY <1>2, <1>8, <4>2, <5>1
        <4> QED
          BY <4>1, <4>2
      <3>4. cntr[Up(v, k)] = IF pc[v] = "last" /\ Rank(v) = k + 1 THEN 0 ELSE threadCount(Up(v, k))
        BY <1>1, <2>2 DEF ClosedCounter
      <3> QED
        BY <3>2, <3>3, <3>4
    <2> QED
      BY <1>10, <2>1, <2>2
  <1>16. OpenCounter'
    <2> SUFFICES ASSUME NEW v \in Threads, NEW k \in Depths,
                        \A w \in Threads : Same(v, w, k + 1) => Rank(w)' <= k
                 PROVE  cntr'[Up(v, k)] + Cardinality(Arrived(v, k)') = threadCount(Up(v, k))
      BY DEF OpenCounter
    <2>1. \A w \in Threads : Same(v, w, k + 1) => Rank(w) <= k
      BY <1>8, <1>9
    <2>2. Up(v, k) # b
      <3>1. ASSUME k = m, Same(t, v, m + 1) PROVE FALSE
        <4>1. Same(v, t, k + 1)
          BY <3>1 DEF Same
        <4>2. m + 1 <= m
          BY <1>8, <3>1, <4>1
        <4> QED
          BY <1>3, <4>2
      <3> QED
        BY <1>9, <3>1
    <2>3. cntr'[Up(v, k)] = cntr[Up(v, k)]
      BY <1>4, <1>9, <2>2
    <2>4. Arrived(v, k)' = Arrived(v, k)
      <3>1. ASSUME NEW u \in Threads
            PROVE  Same(v, u, k + 1) /\ Waiting(u)' /\ Rank(u)' = k
                     <=> Same(v, u, k + 1) /\ Waiting(u) /\ Rank(u) = k
        BY <1>8
      <3> QED
        BY <3>1 DEF Arrived
    <2> QED
      BY <1>1, <2>1, <2>3, <2>4 DEF OpenCounter
  <1>17. passed[t] = finals /\ passed[t] < MaxMeetings /\ passed[t] <= MaxMeetings
    BY <1>1, <1>2 DEF MeetingInv, MeetingOf, Late
  <1>18. Agree'
    <2> SUFFICES ASSUME NEW v \in Threads, NEW u \in Threads, NEW k \in Depths,
                        Rank(v)' > k, Same(v, u, k + 1)
                 PROVE  passed[u] = passed[v]
      BY <1>2 DEF Agree
    <2>1. CASE Rank(v) > k
      BY <1>1, <2>1 DEF Agree
    <2>2. CASE v = t /\ k = m
      <3>1. PICK w \in A : Same(u, w, m)
        BY <1>3, <2>2
      <3>2. passed[u] = passed[w]
        <4>1. CASE u = w
          BY <4>1
        <4>2. CASE u # w
          <5>1. w \in Threads /\ m # 0 /\ Rank(w) > m - 1 /\ Same(w, u, (m - 1) + 1)
            BY <1>5, <1>12, <3>1, <4>2
          <5> QED
            BY <1>1, <1>11, <5>1 DEF Agree
        <4> QED
          BY <4>1, <4>2
      <3>3. passed[w] = finals
        <4>1. CASE w = t
          BY <1>17, <4>1
        <4>2. CASE w # t
          <5>1. w \in Threads /\ Waiting(w) /\ Rank(w) = m /\ Same(t, w, m + 1)
            BY <1>5, <4>2
          <5>2. ASSUME NEW x \in Threads, Rank(x) > m, Same(w, x, m + 1) PROVE FALSE
            <6>1. Same(t, x, m + 1)
              BY <5>1, <5>2 DEF Same
            <6>2. Rank(x) <= m
              BY <1>3, <6>1
            <6> QED
              BY <1>3, <1>8, <5>2, <6>2
          <5> QED
            BY <1>1, <5>1, <5>2 DEF MeetingInv, MeetingOf, Late
        <4> QED
          BY <4>1, <4>2
      <3> QED
        BY <1>17, <2>2, <3>2, <3>3
    <2> QED
      BY <1>10, <2>1, <2>2
  <1>19. MeetingInv'
    <2>1. MeetingOf(t)'
      BY <1>2, <1>4, <1>8, <1>17 DEF MeetingOf, Late
    <2>2. ASSUME NEW u \in Threads \ {t} PROVE MeetingOf(u)'
      <3>1. /\ MeetingOf(u) /\ pc'[u] = pc[u] /\ Rank(u)' = Rank(u) /\ (Waiting(u)' <=> Waiting(u))
            /\ Late(u)' <=> Late(u)
        BY <1>1, <1>2, <1>4, <1>8 DEF MeetingInv, Late
      <3>2. ASSUME Late(u), Waiting(u)
            PROVE  \E v \in Threads : Rank(v)' > Rank(u) /\ Same(u, v, Rank(u) + 1)
        <4>1. PICK v \in Threads : Rank(v) > Rank(u) /\ Same(u, v, Rank(u) + 1)
          BY <3>1, <3>2 DEF MeetingOf
        <4>2. Rank(v)' > Rank(u)
          BY <1>8, <4>1
        <4> QED
          BY <4>1, <4>2
      <3> QED
        BY <1>2, <3>1, <3>2 DEF MeetingOf
    <2> QED
      BY <2>1, <2>2 DEF MeetingInv
  <1> QED
    BY <1>6, <1>7, <1>13, <1>14, <1>15, <1>16, <1>18, <1>19 DEF IInv, TreeInv

-----------------------------------------------------------------------------
\* Every step of barrier() preserves the invariant.
LEMMA StepKeeps ==
  ASSUME IInv, NEW t \in Threads, Step(t)
  PROVE  IInv'
  BY ReadKeeps, FetchSubKeeps, LastFetchSubKeeps, ResetCounterKeeps, WaitAtParentKeeps,
     RunFinalizerKeeps, PublishKeeps, LeaveKeeps DEF Step

\* And so does every step that leaves the barriers alone.
LEMMA StutterKeeps == IInv /\ UNCHANGED vars => IInv'
  <1> SUFFICES ASSUME IInv, UNCHANGED vars PROVE IInv'
    OBVIOUS
  <1>1. /\ pc' = pc /\ frames' = frames /\ prevRound' = prevRound /\ result' = result /\ cntr' = cntr
        /\ round' = round /\ passed' = passed /\ finals' = finals /\ leader' = leader /\ trues' = trues
    BY DEF vars
  <1>2. \A t \in Threads : Rank(t)' = Rank(t) /\ (Waiting(t)' <=> Waiting(t))
    BY <1>1 DEF Rank, Waiting, at
  <1>3. TypeInv'
    BY <1>1 DEF IInv, TypeInv
  <1>4. PathInv'
    BY <1>1 DEF IInv, PathInv, PathOf, at
  <1>5. TreeInv'
    BY <1>1, <1>2, QuietKeepsTree DEF IInv
  <1>6. Agree'
    BY <1>1, <1>2 DEF IInv, Agree
  <1>7. MeetingInv'
    <2>1. \A t \in Threads : MeetingOf(t)'
      BY <1>1, <1>2, MeetingStays DEF IInv
    <2> QED
      BY <2>1 DEF MeetingInv
  <1> QED
    BY <1>3, <1>4, <1>5, <1>6, <1>7 DEF IInv

(***************************************************************************)
(* The invariant of the tree of barriers, for every number of workers and  *)
(* every number of participants per barrier.                               *)
(***************************************************************************)
THEOREM TreeInvariant == Spec => []IInv
  <1>1. IInv /\ [Next]_vars => IInv'
    BY StepKeeps, StutterKeeps DEF Next
  <1> QED
    BY <1>1, InitIInv, PTL DEF Spec

-----------------------------------------------------------------------------
\* The barriers that a thread has closed are the first of its path.
LEMMA ClosedIs ==
  ASSUME TypeInv, PathInv, NEW t \in Threads
  PROVE  \A b : b \in Closed(t) <=> \E k \in Depths : k < Rank(t) /\ b = Up(t, k)
  <1> DEFINE n == Len(frames[t])
             shut(j) == j = n => pc[t] \in closing
  <1>1. /\ TopLevel \in Nat /\ n \in 1 .. TopLevel + 1 /\ DOMAIN frames[t] = 1 .. n
        /\ \A i \in 1 .. n : frames[t][i] = Up(t, i - 1)
    BY Paths DEF TypeInv, PathInv, PathOf
  <1>2. Rank(t) = IF pc[t] \in closing THEN n ELSE n - 1
    BY DEF Rank
  <1>3. Closed(t) = {frames[t][i] : i \in {j \in 1 .. n : shut(j)}}
    BY <1>1 DEF Closed, closing
  <1> HIDE DEF n
  <1>4. \A j \in 1 .. n : shut(j) <=> j <= Rank(t)
    BY <1>1, <1>2
  <1> HIDE DEF shut
  <1>5. ASSUME NEW b, b \in Closed(t) PROVE \E k \in Depths : k < Rank(t) /\ b = Up(t, k)
    <2>1. PICK i \in 1 .. n : shut(i) /\ b = frames[t][i]
      BY <1>3, <1>5
    <2>2. i <= Rank(t) /\ b = Up(t, i - 1)
      BY <1>1, <1>4, <2>1
    <2>3. i - 1 \in Depths /\ i - 1 < Rank(t)
      BY <1>1, <1>2, <2>2 DEF Depths
    <2> QED
      BY <2>2, <2>3
  <1>6. ASSUME NEW k \in Depths, k < Rank(t) PROVE Up(t, k) \in Closed(t)
    <2>1. k + 1 \in 1 .. n /\ k + 1 <= Rank(t) /\ (k + 1) - 1 = k
      BY <1>1, <1>2, <1>6 DEF Depths
    <2>2. shut(k + 1) /\ frames[t][k + 1] = Up(t, k)
      BY <1>1, <1>4, <2>1
    <2> QED
      BY <1>3, <2>1, <2>2
  <1> QED
    BY <1>5, <1>6

\* The participants of a barrier: the workers of a leaf, and above those barriers
\* of the level below whose workers come to it.
LEMMA ParticipantsAre ==
  ASSUME NEW t \in Threads, NEW k \in Depths, NEW p \in Participants(Size, Up(t, k))
  PROVE  /\ k = 0 => Up(t, k)[1] = Size /\ p \in Threads /\ Same(t, p, 1)
         /\ k # 0 => /\ Up(t, k)[1] # Size
                     /\ k - 1 \in Depths
                     /\ \E u \in Threads : p = Up(u, k - 1) /\ Same(t, u, k + 1)
  <1>1. Size \in Nat \ {0} /\ TopLevel \in Nat /\ k \in Nat /\ TopLevel = Height(Size)
    BY SizeAssumption, Paths DEF Depths, TopLevel
  <1>2. Up(t, k)[1] = Width[k][Size] /\ Width[0][Size] = Size
    BY <1>1, WidthSteps DEF Up
  <1>3. ASSUME k = 0 PROVE Up(t, k)[1] = Size /\ p \in Threads /\ Same(t, p, 1)
    <2>1. p \in 0 .. Size - 1 /\ Leaf(Size, p) = Up(t, k)
      BY <1>2, <1>3 DEF Participants
    <2>2. p \in Threads /\ Up(p, 0) = Up(t, 0)
      BY <1>3, <2>1, Paths DEF leaf, Threads
    <2>3. Same(t, p, 0 + 1)
      BY <1>3, <2>2, Paths
    <2> QED
      BY <1>2, <1>3, <2>2, <2>3
  <1>4. ASSUME k # 0
        PROVE  /\ Up(t, k)[1] # Size
               /\ k - 1 \in Depths
               /\ \E u \in Threads : p = Up(u, k - 1) /\ Same(t, u, k + 1)
    <2>1. k - 1 \in Depths /\ (k - 1) + 1 = k
      BY <1>1, <1>4 DEF Depths
    <2>2. Width[k][Size] < Width[0][Size]
      BY <1>1, <1>4, LevelsDiffer DEF Depths
    <2>3. Up(t, k)[1] # Size
      BY <1>1, <1>2, <2>2
    <2>4. p \in Tree(Size) /\ Parent(p) = Up(t, k)
      BY <2>3 DEF Participants
    <2>5. PICK l \in 0 .. Height(Size) : \E i \in 0 .. Width[l + 1][Size] - 1 : p = <<Width[l][Size], i>>
      BY <1>1, <2>4, TreeIs
    <2>6. PICK i \in 0 .. Width[l + 1][Size] - 1 : p = <<Width[l][Size], i>>
      BY <2>5
    <2>7. l \in Depths /\ l \in Nat /\ l + 1 \in Nat
      BY <1>1 DEF Depths
    <2>8. PICK u \in 0 .. Size - 1 : Index[l + 1][u] = i
      BY <1>1, <2>7, IndexInLevel
    <2>9. u \in Threads /\ p = Up(u, l)
      BY <2>6, <2>8 DEF Up, Threads
    <2>10. l # TopLevel /\ Up(u, l + 1) = Up(t, k)
      BY <2>4, <2>7, <2>9, Paths
    <2>11. l + 1 \in Depths
      BY <1>1, <2>7, <2>10 DEF Depths
    <2>12. l + 1 = k /\ Same(t, u, k + 1)
      <3>1. Up(t, k) = Up(u, l + 1)
        BY <2>10
      <3> QED
        BY <2>9, <2>11, <3>1, Paths
    <2>13. l = k - 1
      BY <1>1, <2>7, <2>12
    <2> QED
      BY <2>1, <2>3, <2>9, <2>12, <2>13
  <1> QED
    BY <1>3, <1>4

\* A thread that waits at the barrier of level k is there if it has closed k.
LEMMA WaitsAt ==
  ASSUME TypeInv, PathInv, NEW u \in Threads, NEW k \in Depths, Waiting(u), Rank(u) = k
  PROVE  at(u) = Up(u, k) /\ pc[u] = "spin" /\ prevRound[u] = round[Up(u, k)]
  <1>1. Rank(u) = Len(frames[u]) - 1
    BY DEF Rank, Waiting, closing
  <1>2. at(u) = Up(u, k)
    BY <1>1, Place
  <1> QED
    BY <1>2 DEF Waiting

\* Alone says that those who stand for a participant wait, Cover that there are some.
LEMMA Represents == IInv => RepresentativeSpeaksForAll
  <1> SUFFICES ASSUME IInv, NEW t \in Threads, NEW b \in Closed(t), NEW p \in Participants(Size, b)
               PROVE  \/ StandsFor(t, b, p)
                      \/ \E u \in Threads : /\ StandsFor(u, b, p)
                                            /\ pc[u] = "spin" /\ at(u) = b /\ prevRound[u] = round[b]
    BY DEF RepresentativeSpeaksForAll
  <1>1. TypeInv /\ PathInv /\ Alone /\ Cover
    BY DEF IInv, TreeInv
  <1>2. PICK k \in Depths : k < Rank(t) /\ b = Up(t, k)
    BY <1>1, ClosedIs
  <1>3. TopLevel \in Nat /\ k \in Nat /\ \A u \in Threads : Rank(u) \in 0 .. TopLevel + 1
    BY <1>1, Paths, Place DEF Depths
  <1>4. Rank(t) > k
    BY <1>2, <1>3
  <1>5. ASSUME NEW u \in Threads, u # t, Same(t, u, k + 1), Rank(u) >= k
        PROVE  pc[u] = "spin" /\ at(u) = b /\ prevRound[u] = round[b]
    <2>1. Waiting(u) /\ Rank(u) <= k
      BY <1>1, <1>4, <1>5 DEF Alone
    <2>2. Rank(u) = k
      BY <1>3, <1>5, <2>1
    <2>3. Up(u, k) = b
      <3>1. Up(t, k) = Up(u, k)
        BY <1>5, Paths
      <3> QED
        BY <1>2, <3>1
    <2> QED
      BY <1>1, <2>1, <2>2, <2>3, WaitsAt
  <1>6. CASE k = 0
    <2>1. b[1] = Size /\ p \in Threads /\ Same(t, p, 1)
      BY <1>2, <1>6, ParticipantsAre
    <2>2. StandsFor(p, b, p)
      BY <2>1 DEF StandsFor
    <2>3. Rank(p) >= k /\ k + 1 = 1
      BY <1>3, <1>6, <2>1
    <2>4. p # t => pc[p] = "spin" /\ at(p) = b /\ prevRound[p] = round[b]
      BY <1>5, <2>1, <2>3
    <2> QED
      BY <2>1, <2>2, <2>4
  <1>7. CASE k # 0
    <2>1. /\ b[1] # Size /\ k - 1 \in Depths
          /\ \E u \in Threads : p = Up(u, k - 1) /\ Same(t, u, k + 1)
      BY <1>2, <1>7, ParticipantsAre
    <2>2. PICK u \in Threads : p = Up(u, k - 1) /\ Same(t, u, k + 1)
      BY <2>1
    <2>3. k \in 0 .. k
      BY <1>3
    <2>4. PICK v \in Threads : Rank(v) >= k /\ Same(u, v, k)
      BY <1>1, <1>4, <2>2, <2>3 DEF Cover
    <2>5. (k - 1) + 1 = k /\ k <= k + 1 /\ k + 1 \in Nat
      BY <1>3
    <2>6. Up(v, k - 1) = p
      <3>1. Same(u, v, (k - 1) + 1)
        BY <2>4, <2>5
      <3>2. Up(u, k - 1) = Up(v, k - 1)
        BY <2>1, <3>1, Paths
      <3> QED
        BY <2>2, <3>2
    <2>7. Same(t, v, k + 1)
      <3>1. Same(u, v, k + 1)
        BY <1>3, <2>4, <2>5, SameIs
      <3> QED
        BY <2>2, <2>5, <3>1, SameIs
    <2>8. StandsFor(v, b, p)
      <3>1. k - 1 < Rank(v)
        BY <1>3, <2>4
      <3>2. p \in Closed(v)
        BY <1>1, <2>1, <2>6, <3>1, ClosedIs
      <3> QED
        BY <2>1, <3>2 DEF StandsFor
    <2>9. v # t => pc[v] = "spin" /\ at(v) = b /\ prevRound[v] = round[b]
      BY <1>5, <2>4, <2>7
    <2> QED
      BY <2>8, <2>9
  <1> QED
    BY <1>6, <1>7

(***************************************************************************)
(* A worker speaks for all the participants of every barrier that it has   *)
(* closed, at any level of the tree: those who stand for them spin at this *)
(* barrier, with the round it has (Barrier.hpp, wait: "return              *)
(* p->wait(finalizer)" by the last thread only).                           *)
(***************************************************************************)
THEOREM RepresentativeHolds == Spec => []RepresentativeSpeaksForAll
  BY TreeInvariant, Represents, PTL

-----------------------------------------------------------------------------
\* The refinement, step by step.
LEMMA StepMeets ==
  ASSUME IInv, NEW t \in Threads, Step(t)
  PROVE  [Meeting!Next]_(Meeting!vars)
  <1>1. TypeInv /\ PathInv /\ Alone /\ Agree /\ MeetingInv
    BY DEF IInv, TreeInv
  <1>2. Len(frames[t]) \in Nat /\ Len(frames[t]) >= 1
    BY <1>1, Paths DEF PathInv, PathOf
  <1>3. \A u \in Threads : passed[u] \in Nat
    BY <1>1 DEF TypeInv
  <1>4. calls \in [Threads -> Nat]
    BY <1>3 DEF calls
  <1> DEFINE counted(u) == pc[u] = "out" \/ (pc[u] = "loaded" /\ AtLeaf(u))
  <1>5. \A u \in Threads : calls[u] = IF counted(u) THEN passed[u] ELSE passed[u] + 1
    BY DEF calls
  <1>6. \A u \in Threads : calls'[u] = IF counted(u)' THEN passed'[u] ELSE passed'[u] + 1
    BY DEF calls
  <1>7. calls' = [u \in Threads |-> calls'[u]] /\ calls = [u \in Threads |-> calls[u]]
    BY DEF calls
  <1>8. ASSUME UNCHANGED <<passed, finals, leader, trues>>,
               \A u \in Threads : counted(u)' <=> counted(u)
        PROVE  UNCHANGED Meeting!vars
    <2>1. \A u \in Threads : calls'[u] = calls[u]
      BY <1>5, <1>6, <1>8
    <2>2. calls' = calls
      BY <1>7, <2>1
    <2> QED
      BY <1>8, <2>2 DEF Meeting!vars
  <1>9. CASE Call(t)
    <2>1. /\ pc[t] = "out" /\ pc' = [pc EXCEPT ![t] = "loaded"]
          /\ UNCHANGED <<frames, passed, finals, leader, trues>>
      BY <1>9 DEF Call, history
    <2>2. AtLeaf(t)
      BY <1>1, <2>1 DEF PathInv, PathOf, AtLeaf
    <2>3. \A u \in Threads : counted(u)' <=> counted(u)
      BY <1>1, <2>1, <2>2 DEF AtLeaf, TypeInv
    <2> HIDE DEF counted
    <2> QED
      BY <1>8, <2>1, <2>3
  <1>10. CASE LoadRound(t)
    <2>1. /\ pc[t] = "enter" /\ pc' = [pc EXCEPT ![t] = "loaded"]
          /\ UNCHANGED <<frames, passed, finals, leader, trues>>
      BY <1>10 DEF LoadRound, history
    <2>2. ~AtLeaf(t)
      BY <1>1, <2>1 DEF PathInv, PathOf, AtLeaf
    <2>3. \A u \in Threads : counted(u)' <=> counted(u)
      BY <1>1, <2>1, <2>2 DEF AtLeaf, TypeInv
    <2> HIDE DEF counted
    <2> QED
      BY <1>8, <2>1, <2>3
  <1>11. CASE FetchSub(t)
    <2>1. /\ pc[t] = "loaded" /\ pc' = [pc EXCEPT ![t] = IF cntr[at(t)] = 1 THEN "last" ELSE "spin"]
          /\ UNCHANGED <<frames, passed, finals, leader, trues>>
      BY <1>11 DEF FetchSub, history
    <2>2. pc'[t] \in {"last", "spin"} /\ \A u \in Threads \ {t} : pc'[u] = pc[u]
      BY <1>1, <2>1 DEF TypeInv
    <2>3. \A u \in Threads \ {t} : counted(u)' <=> counted(u)
      BY <2>1, <2>2 DEF AtLeaf
    <2>4. ~counted(t)'
      BY <2>2
    <2>5. CASE ~AtLeaf(t)
      <3>1. \A u \in Threads : counted(u)' <=> counted(u)
        BY <2>1, <2>3, <2>4, <2>5
      <3> HIDE DEF counted
      <3> QED
        BY <1>8, <2>1, <3>1
    <2>6. CASE AtLeaf(t)
      <3>1. counted(t)
        BY <2>1, <2>6
      <3> HIDE DEF counted
      <3>2. calls[t] = passed[t] /\ passed[t] < MaxMeetings
        BY <1>1, <1>5, <2>1, <3>1 DEF MeetingInv, MeetingOf
      <3>3. calls'[t] = calls[t] + 1 /\ \A u \in Threads \ {t} : calls'[u] = calls[u]
        BY <1>5, <1>6, <2>1, <2>3, <2>4, <3>2
      <3>4. calls' = [calls EXCEPT ![t] = @ + 1]
        BY <1>7, <3>3
      <3>5. Meeting!Arrive(t)
        BY <2>1, <3>2, <3>4 DEF Meeting!Arrive
      <3> QED
        BY <3>5 DEF Meeting!Next
    <2> QED
      BY <2>5, <2>6
  <1>12. CASE ResetCounter(t)
    <2>1. /\ pc[t] = "last" /\ pc' = [pc EXCEPT ![t] = "finalize"]
          /\ UNCHANGED <<frames, passed, finals, leader, trues>>
      BY <1>12 DEF ResetCounter, history
    <2>2. \A u \in Threads : counted(u)' <=> counted(u)
      BY <1>1, <2>1 DEF AtLeaf, TypeInv
    <2> HIDE DEF counted
    <2> QED
      BY <1>8, <2>1, <2>2
  <1>13. CASE WaitAtParent(t)
    <2>1. /\ pc[t] = "finalize" /\ pc' = [pc EXCEPT ![t] = "enter"]
          /\ frames' = [frames EXCEPT ![t] = Append(@, Parent(at(t)))]
          /\ UNCHANGED <<passed, finals, leader, trues>>
      BY <1>13 DEF WaitAtParent, history
    <2>2. \A u \in Threads : counted(u)' <=> counted(u)
      BY <1>1, <2>1 DEF AtLeaf, TypeInv
    <2> HIDE DEF counted
    <2> QED
      BY <1>8, <2>1, <2>2
  <1>14. CASE RunFinalizer(t)
    <2>1. /\ pc[t] = "finalize" /\ Parent(at(t)) = NoParent /\ pc' = [pc EXCEPT ![t] = "publish"]
          /\ finals' = finals + 1 /\ leader' = t /\ UNCHANGED <<frames, passed, trues>>
      BY <1>14 DEF RunFinalizer
    <2>2. \A u \in Threads : passed[u] = finals /\ (u # t => Waiting(u))
      BY <2>1, FinalizerMeets
    <2>3. \A u \in Threads : ~counted(u)
      BY <2>1, <2>2 DEF Waiting
    <2>4. \A u \in Threads : ~counted(u)'
      BY <1>1, <2>1, <2>3 DEF TypeInv, AtLeaf
    <2> HIDE DEF counted
    <2>5. \A u \in Threads : calls[u] = finals + 1 /\ calls'[u] = calls[u]
      BY <1>5, <1>6, <2>1, <2>2, <2>3, <2>4
    <2>6. calls' = calls
      BY <1>7, <2>5
    <2>7. Meeting!Finalize(t)
      BY <2>1, <2>5, <2>6 DEF Meeting!Finalize
    <2> QED
      BY <2>7 DEF Meeting!Next
  <1>15. ASSUME NEW r \in BOOLEAN, ReturnFrom(t, r), r <=> leader = t, Late(t), ~counted(t),
                UNCHANGED <<finals, leader>>
         PROVE  [Meeting!Next]_(Meeting!vars)
    <2>1. /\ pc'[t] = IF Len(frames[t]) = 1 THEN "out" ELSE "publish"
          /\ passed'[t] = IF Len(frames[t]) = 1 THEN passed[t] + 1 ELSE passed[t]
          /\ \A u \in Threads \ {t} : pc'[u] = pc[u] /\ frames'[u] = frames[u] /\ passed'[u] = passed[u]
      BY <1>1, <1>15, Returns
    <2>2. \A u \in Threads \ {t} : counted(u)' <=> counted(u)
      BY <2>1 DEF AtLeaf
    <2>3. passed[t] + 1 = finals /\ passed[t] < finals
      BY <1>1, <1>3, <1>15 DEF MeetingInv, MeetingOf, Late
    <2>4. CASE ~AtLeaf(t)
      <3>1. ~counted(t)'
        BY <2>1, <2>4 DEF AtLeaf
      <3>2. passed' = passed /\ trues' = trues
        BY <1>15, <2>4 DEF ReturnFrom
      <3>3. \A u \in Threads : counted(u)' <=> counted(u)
        BY <1>15, <2>2, <3>1
      <3> HIDE DEF counted
      <3> QED
        BY <1>8, <1>15, <3>2, <3>3
    <2>5. CASE AtLeaf(t)
      <3>1. counted(t)'
        BY <2>1, <2>5 DEF AtLeaf
      <3>2. passed' = [passed EXCEPT ![t] = @ + 1] /\ trues' = IF leader = t THEN trues + 1 ELSE trues
        BY <1>15, <2>5 DEF ReturnFrom
      <3>3. passed'[t] = passed[t] + 1
        BY <2>1, <2>5 DEF AtLeaf
      <3> HIDE DEF counted
      <3>4. \A u \in Threads : calls'[u] = calls[u]
        BY <1>5, <1>6, <1>15, <2>1, <2>2, <3>1, <3>3
      <3>5. calls' = calls
        BY <1>7, <3>4
      <3>6. passed[t] < calls[t]
        BY <1>3, <1>5, <1>15
      <3>7. Meeting!Return(t)
        BY <1>15, <2>3, <3>2, <3>5, <3>6 DEF Meeting!Return
      <3> QED
        BY <3>7 DEF Meeting!Next
    <2> QED
      BY <2>4, <2>5
  <1>16. CASE Publish(t)
    <2>1. /\ pc[t] = "publish" /\ ReturnFrom(t, result[t]) /\ UNCHANGED <<finals, leader>>
          /\ result[t] \in BOOLEAN
      BY <1>1, <1>16 DEF Publish, TypeInv
    <2>2. Late(t) /\ (result[t] <=> leader = t)
      BY <1>1, <2>1 DEF MeetingInv, MeetingOf
    <2> QED
      BY <1>15, <2>1, <2>2
  <1>17. CASE Leave(t)
    <2>1. /\ pc[t] = "spin" /\ ReturnFrom(t, FALSE) /\ UNCHANGED <<finals, leader>> /\ ~Waiting(t)
      BY <1>17 DEF Leave, Waiting
    <2>2. Late(t) /\ leader # t
      BY <1>1, <2>1 DEF MeetingInv, MeetingOf
    <2> QED
      BY <1>15, <2>1, <2>2
  <1> QED
    BY <1>8, <1>9, <1>10, <1>11, <1>12, <1>13, <1>14, <1>16, <1>17 DEF Step

\* The first state is one of the abstract barrier.
LEMMA InitMeets == Init => Meeting!Init
  <1> SUFFICES ASSUME Init PROVE Meeting!Init
    OBVIOUS
  <1>1. 0 \in Threads
    BY SizeAssumption DEF Threads
  <1>2. calls = [t \in Threads |-> 0]
    BY DEF Init, calls
  <1> QED
    BY <1>1, <1>2 DEF Init, Meeting!Init

(***************************************************************************)
(* The tree of barriers is one barrier: one finalizer per meeting, after   *)
(* all arrivals and before any return, and TRUE for one caller only.       *)
(***************************************************************************)
THEOREM TreeImplementsRendezvous == Spec => Implements
  <1>1. IInv /\ [Next]_vars => [Meeting!Next]_(Meeting!vars)
    <2>1. UNCHANGED vars => UNCHANGED Meeting!vars
      BY DEF vars, Meeting!vars, calls, AtLeaf
    <2> QED
      BY <2>1, StepMeets DEF Next
  <1> QED
    BY <1>1, InitMeets, TreeInvariant, PTL DEF Spec, Implements, Meeting!Spec

-----------------------------------------------------------------------------
(***************************************************************************)
(* The group: WorkerGroup::run around the tree.                            *)
(***************************************************************************)
GroupInv ==
  /\ caller \in {"spawn", "f", "wait", "done"}
  /\ task \in [Spawned -> {"none", "queued", "running", "done"}]
  /\ \A i \in Spawned : task[i] = "done" => Through(i)
  /\ \A i \in Spawned : task[i] \in {"none", "queued"} => pc[i] = "out" /\ passed[i] = 0
  /\ caller \in {"wait", "done"} => Through(Caller)
  /\ caller = "done" => \A i \in Spawned : task[i] = "done"
  /\ freed # <<>> => caller = "done"

\* The workers of a group: the spawned ones, and the calling thread.
LEMMA Workers ==
  /\ Caller \in Threads /\ Caller \notin Spawned
  /\ Spawned \subseteq Threads
  /\ \A t \in Threads : t # Caller => t \in Spawned
  BY SizeAssumption DEF Caller, Spawned, Threads

\* A step of barrier() moves one thread.
LEMMA OneMoves ==
  ASSUME IInv, NEW t \in Threads, Step(t)
  PROVE  \A u \in Threads \ {t} : pc'[u] = pc[u] /\ passed'[u] = passed[u]
  <1>1. TypeInv /\ PathInv
    BY DEF IInv
  <1>2. /\ pc \in [Threads -> Location]
        /\ result[t] \in BOOLEAN
    BY <1>1 DEF TypeInv
  <1>3. CASE Call(t)
    BY <1>2, <1>3 DEF Call, history
  <1>4. CASE LoadRound(t)
    BY <1>2, <1>4 DEF LoadRound, history
  <1>5. CASE FetchSub(t)
    BY <1>2, <1>5 DEF FetchSub, history
  <1>6. CASE ResetCounter(t)
    BY <1>2, <1>6 DEF ResetCounter, history
  <1>7. CASE WaitAtParent(t)
    BY <1>2, <1>7 DEF WaitAtParent, history
  <1>8. CASE RunFinalizer(t)
    BY <1>2, <1>8 DEF RunFinalizer
  <1>9. CASE Publish(t)
    <2>1. ReturnFrom(t, result[t])
      BY <1>9 DEF Publish
    <2> QED
      BY <1>1, <1>2, <2>1, Returns
  <1>10. CASE Leave(t)
    <2>1. ReturnFrom(t, FALSE)
      BY <1>10 DEF Leave
    <2> QED
      BY <1>1, <2>1, Returns
  <1> QED
    BY <1>3, <1>4, <1>5, <1>6, <1>7, <1>8, <1>9, <1>10 DEF Step

\* A group begins with no task and nobody in a barrier.
LEMMA InitGroup == GroupInit => IInv /\ GroupInv
  <1> SUFFICES ASSUME GroupInit PROVE IInv /\ GroupInv
    OBVIOUS
  <1>1. IInv
    BY InitIInv DEF GroupInit
  <1>2. \A t \in Threads : pc[t] = "out" /\ passed[t] = 0
    BY DEF GroupInit, Init
  <1>3. \A i \in Spawned : pc[i] = "out" /\ passed[i] = 0
    BY <1>2, Workers
  <1> QED
    BY <1>1, <1>3 DEF GroupInit, GroupInv

\* Every step of the group preserves both invariants.
LEMMA GroupStepKeeps ==
  ASSUME IInv, GroupInv, [GroupNext]_groupVars
  PROVE  IInv' /\ GroupInv'
  <1>1. /\ caller \in {"spawn", "f", "wait", "done"}
        /\ task \in [Spawned -> {"none", "queued", "running", "done"}]
    BY DEF GroupInv
  <1>2. ASSUME UNCHANGED vars PROVE IInv' /\ pc' = pc /\ passed' = passed
    BY <1>2, StutterKeeps DEF vars
  <1>3. ASSUME NEW i \in Spawned, Spawn(i) PROVE IInv' /\ GroupInv'
    <2>1. /\ task[i] = "none" /\ task' = [task EXCEPT ![i] = "queued"] /\ caller = "spawn"
          /\ UNCHANGED <<vars, caller, inPool, this_worker, freed>>
      BY <1>3 DEF Spawn
    <2>2. task'[i] = "queued" /\ \A j \in Spawned \ {i} : task'[j] = task[j]
      BY <1>1, <2>1
    <2>3. task' \in [Spawned -> {"none", "queued", "running", "done"}]
      BY <1>1, <2>1
    <2>4. IInv' /\ pc' = pc /\ passed' = passed
      BY <1>2, <2>1
    <2> QED
      BY <2>1, <2>2, <2>3, <2>4 DEF GroupInv, Through
  <1>4. ASSUME NEW i \in Spawned, Start(i) PROVE IInv' /\ GroupInv'
    <2>1. /\ task[i] = "queued" /\ task' = [task EXCEPT ![i] = "running"]
          /\ UNCHANGED <<vars, caller, freed>>
      BY <1>4 DEF Start
    <2>2. task'[i] = "running" /\ \A j \in Spawned \ {i} : task'[j] = task[j]
      BY <1>1, <2>1
    <2>3. task' \in [Spawned -> {"none", "queued", "running", "done"}]
      BY <1>1, <2>1
    <2>4. IInv' /\ pc' = pc /\ passed' = passed
      BY <1>2, <2>1
    <2> QED
      BY <2>1, <2>2, <2>3, <2>4 DEF GroupInv, Through
  <1>5. ASSUME NEW i \in Spawned, Finish(i) PROVE IInv' /\ GroupInv'
    <2>1. /\ task[i] = "running" /\ Through(i) /\ task' = [task EXCEPT ![i] = "done"]
          /\ UNCHANGED <<vars, caller, this_worker, freed>>
      BY <1>5 DEF Finish
    <2>2. task'[i] = "done" /\ \A j \in Spawned \ {i} : task'[j] = task[j]
      BY <1>1, <2>1
    <2>3. task' \in [Spawned -> {"none", "queued", "running", "done"}]
      BY <1>1, <2>1
    <2>4. IInv' /\ pc' = pc /\ passed' = passed
      BY <1>2, <2>1
    <2> QED
      BY <2>1, <2>2, <2>3, <2>4 DEF GroupInv, Through
  <1>6. CASE EnterF
    <2>1. caller = "spawn" /\ caller' = "f" /\ UNCHANGED <<vars, task, freed>>
      BY <1>6 DEF EnterF
    <2>2. IInv' /\ pc' = pc /\ passed' = passed
      BY <1>2, <2>1
    <2> QED
      BY <2>1, <2>2 DEF GroupInv, Through
  <1>7. CASE LeaveF
    <2>1. caller = "f" /\ Through(Caller) /\ caller' = "wait" /\ UNCHANGED <<vars, task, freed>>
      BY <1>7 DEF LeaveF
    <2>2. IInv' /\ pc' = pc /\ passed' = passed
      BY <1>2, <2>1
    <2> QED
      BY <2>1, <2>2 DEF GroupInv, Through
  <1>8. CASE Destroy
    <2>1. /\ caller = "wait" /\ caller' = "done" /\ UNCHANGED <<vars, task>>
          /\ \A i \in Spawned : task[i] = "done"
      BY <1>8 DEF Destroy
    <2>2. IInv' /\ pc' = pc /\ passed' = passed
      BY <1>2, <2>1
    <2> QED
      BY <2>1, <2>2 DEF GroupInv, Through
  <1>9. ASSUME NEW t \in Threads, InBarrier(t) PROVE IInv' /\ GroupInv'
    <2>1. /\ Active(t) /\ Step(t) /\ UNCHANGED <<caller, task, inPool, this_worker, freed>>
      BY <1>9 DEF InBarrier, group
    <2>2. IInv' /\ \A u \in Threads \ {t} : pc'[u] = pc[u] /\ passed'[u] = passed[u]
      BY <2>1, StepKeeps, OneMoves
    <2>3. \A i \in Spawned : task[i] # "running" => pc'[i] = pc[i] /\ passed'[i] = passed[i]
      BY <2>1, <2>2, Workers DEF Active
    <2>4. caller # "f" => pc'[Caller] = pc[Caller] /\ passed'[Caller] = passed[Caller]
      BY <2>1, <2>2, Workers DEF Active
    <2> QED
      BY <2>1, <2>2, <2>3, <2>4 DEF GroupInv, Through
  <1>10. CASE UNCHANGED groupVars
    <2>1. UNCHANGED <<vars, caller, task, freed>>
      BY <1>10 DEF groupVars, group
    <2>2. IInv' /\ pc' = pc /\ passed' = passed
      BY <1>2, <2>1
    <2> QED
      BY <2>1, <2>2 DEF GroupInv, Through
  <1> QED
    BY <1>3, <1>4, <1>5, <1>6, <1>7, <1>8, <1>9, <1>10 DEF GroupNext, GroupTerminated

(***************************************************************************)
(* The invariant of a group, for every number of workers, participants per *)
(* barrier, threads in the pool, and meetings.                             *)
(***************************************************************************)
THEOREM GroupInvariant == GroupSpec => [](IInv /\ GroupInv)
  BY InitGroup, GroupStepKeeps, PTL DEF GroupSpec

(***************************************************************************)
(* In a group, too, a worker speaks for all the participants of every      *)
(* barrier that it has closed, at any level of the tree (Barrier.hpp,      *)
(* wait: "return p->wait(finalizer)" by the last thread only).             *)
(***************************************************************************)
THEOREM GroupRepresents == GroupSpec => []RepresentativeSpeaksForAll
  BY GroupInvariant, Represents, PTL

(***************************************************************************)
(* The tree of a group is one barrier for its workers, whenever the        *)
(* threads of the pool start their tasks.                                  *)
(***************************************************************************)
THEOREM GroupImplementsRendezvous == GroupSpec => Implements
  <1>1. IInv /\ [GroupNext]_groupVars => [Meeting!Next]_(Meeting!vars)
    <2> SUFFICES ASSUME IInv, [GroupNext]_groupVars PROVE [Meeting!Next]_(Meeting!vars)
      OBVIOUS
    <2>1. UNCHANGED vars => UNCHANGED Meeting!vars
      BY DEF vars, Meeting!vars, calls, AtLeaf
    <2>2. UNCHANGED vars \/ \E t \in Threads : Step(t)
      BY DEF GroupNext, GroupTerminated, groupVars, Spawn, Start, Finish, EnterF, LeaveF, Destroy, InBarrier
    <2> QED
      BY <2>1, <2>2, StepMeets
  <1>2. GroupInit => Meeting!Init
    BY InitMeets DEF GroupInit
  <1> QED
    BY <1>1, <1>2, GroupInvariant, PTL DEF GroupSpec, Implements, Meeting!Spec

(***************************************************************************)
(* No barrier is freed while a worker may still be inside of it: destroy   *)
(* comes after wait(), and a task ends behind its last barrier()           *)
(* (Concurrency.hpp, WorkerGroup::run).                                    *)
(***************************************************************************)
THEOREM FreedBehindAll == GroupSpec => []NoUseAfterFree
  <1>1. GroupInv => NoUseAfterFree
    <2> SUFFICES ASSUME GroupInv, freed # <<>>, NEW t \in Threads
                 PROVE  pc[t] = "out" /\ ~Active(t)
      BY DEF NoUseAfterFree
    <2>1. caller = "done" /\ Through(Caller) /\ \A i \in Spawned : task[i] = "done" /\ Through(i)
      BY DEF GroupInv
    <2> QED
      BY <2>1, Workers DEF Active, Through
  <1> QED
    BY <1>1, GroupInvariant, PTL

(***************************************************************************)
(* The calling thread executes no task of its own group, so it is its own  *)
(* worker when run() returns: it comes to wait() behind a meeting, which   *)
(* all tasks have begun.  This takes a function that meets at least once.  *)
(***************************************************************************)
THEOREM CallerStays ==
  ASSUME MaxMeetings >= 1
  PROVE  GroupSpec => []CallerKeepsItsWorker
  <1>1. GroupInit => CallerKeepsItsWorker
    BY DEF GroupInit, CallerKeepsItsWorker
  <1>2. IInv /\ GroupInv /\ CallerKeepsItsWorker /\ [GroupNext]_groupVars => CallerKeepsItsWorker'
    <2> SUFFICES ASSUME IInv, GroupInv, CallerKeepsItsWorker, [GroupNext]_groupVars
                 PROVE  this_worker' = this_worker
      BY DEF CallerKeepsItsWorker
    <2>1. ASSUME NEW i \in Spawned, task[i] = "queued", caller = "wait" PROVE FALSE
      <3>1. i \in Threads /\ Caller \in Threads
        BY Workers
      <3>2. pc[i] = "out" /\ passed[i] = 0 /\ passed[Caller] = MaxMeetings
        BY <2>1 DEF GroupInv, Through
      <3>3. ~Late(i)
        BY <3>1, <3>2 DEF IInv, MeetingInv, MeetingOf
      <3>4. finals = 0
        BY <3>2, <3>3 DEF Late
      <3>5. passed[Caller] = finals \/ passed[Caller] + 1 = finals
        BY <3>1 DEF IInv, MeetingInv, MeetingOf
      <3> QED
        BY <3>2, <3>4, <3>5, MaxMeetingsAssumption
    <2>2. ASSUME NEW i \in Spawned, Start(i) PROVE this_worker' = this_worker
      BY <2>1, <2>2 DEF Start
    <2> QED
      BY <2>2 DEF GroupNext, GroupTerminated, groupVars, group, Spawn, Finish, EnterF, LeaveF, Destroy, InBarrier
  <1> QED
    BY <1>1, <1>2, GroupInvariant, PTL DEF GroupSpec

(***************************************************************************)
(* create builds, for every number of workers, one tree whose barriers     *)
(* wait for exactly those who come to them, a rest barrier included        *)
(* (Barrier.hpp, create; Concurrency.hpp, run, for the leaves).            *)
(***************************************************************************)
THEOREM TreesFitAlways == GroupSpec => []TreesFit
  <1>1. \A n \in 1 .. MaxSize : CountsMatch(n) /\ OneRoot(n)
    <2> SUFFICES ASSUME NEW n \in 1 .. MaxSize PROVE CountsMatch(n) /\ OneRoot(n)
      OBVIOUS
    <2>1. n \in Nat \ {0}
      BY MaxSizeAssumption
    <2> QED
      BY <2>1, AllCountsMatch, AllOneRoot
  <1>2. TreesFit
    BY <1>1 DEF TreesFit
  <1> QED
    BY <1>2, PTL

(***************************************************************************)
(* destroy frees every barrier of every tree, and none of them twice       *)
(* (Barrier.hpp, destroy).                                                 *)
(***************************************************************************)
THEOREM TreesFreedAlways == GroupSpec => []TreesAreFreed
  <1>1. \A n \in 1 .. MaxSize : FreedOnce(n)
    <2> SUFFICES ASSUME NEW n \in 1 .. MaxSize PROVE FreedOnce(n)
      OBVIOUS
    <2>1. n \in Nat \ {0}
      BY MaxSizeAssumption
    <2> QED
      BY <2>1, AllFreedOnce
  <1>2. TreesAreFreed
    BY <1>1 DEF TreesAreFreed
  <1> QED
    BY <1>2, PTL
=============================================================================
