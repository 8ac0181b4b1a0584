------------------------------ MODULE Induction -----------------------------
(***************************************************************************)
(* Induction and recursion on the natural numbers for sets and functions:  *)
(* the theorems of the library are about predicates and operators, which   *)
(* the SMT and Zenon backends cannot be given.  All of it follows from the *)
(* library's theorem that the finite subsets of a set are well-founded.    *)
(***************************************************************************)
EXTENDS Naturals, Sequences, FiniteSetTheorems, TLAPS

\* A set of natural numbers that is not empty has a least element.
LEMMA LeastNatural ==
  ASSUME NEW T, T \subseteq Nat, T # {}
  PROVE  \E x \in T : \A y \in T : x <= y
  <1> DEFINE D == {0 .. x : x \in T}
  <1>1. D \subseteq FiniteSubsetsOf(Nat)
    <2> SUFFICES ASSUME NEW x \in T PROVE 0 .. x \in FiniteSubsetsOf(Nat)
      OBVIOUS
    <2>1. x \in Int /\ 0 \in Int
      OBVIOUS
    <2> QED
      BY <2>1, FS_Interval DEF FiniteSubsetsOf
  <1>2. PICK d \in D : \A e \in D : ~(<<e, d>> \in StrictSubsetOrdering(Nat))
    <2>1. D # {}
      OBVIOUS
    <2> HIDE DEF D
    <2> QED
      BY <1>1, <2>1, FS_StrictSubsetOrderingWellFounded, WFMin
  <1>3. PICK x \in T : d = 0 .. x
    OBVIOUS
  <1>4. ASSUME NEW y \in T
        PROVE  x <= y
    <2>1. x \in Nat /\ y \in Nat
      OBVIOUS
    <2>2. SUFFICES ASSUME y < x PROVE FALSE
      BY <2>1
    <2>3. /\ 0 .. y \in D /\ 0 .. y \subseteq 0 .. x /\ 0 .. x \subseteq Nat
          /\ x \in 0 .. x /\ x \notin 0 .. y
      BY <2>1, <2>2
    <2>4. <<0 .. y, 0 .. x>> \in StrictSubsetOrdering(Nat)
      BY <2>3 DEF StrictSubsetOrdering
    <2> QED
      BY <1>2, <1>3, <2>3, <2>4
  <1> QED
    BY <1>4

\* Induction on the natural numbers, for a set instead of a predicate.
LEMMA InductionOnNat ==
  ASSUME NEW S, 0 \in S, \A n \in Nat : n \in S => n + 1 \in S
  PROVE  Nat \subseteq S
  <1> SUFFICES ASSUME NEW m \in Nat, m \notin S PROVE FALSE
    OBVIOUS
  <1> DEFINE T == {n \in Nat : n \notin S}
  <1>1. PICK x \in T : \A y \in T : x <= y
    BY LeastNatural
  <1>2. x # 0 /\ x \in Nat
    OBVIOUS
  <1>3. x - 1 \in Nat /\ x - 1 \notin T
    BY <1>1, <1>2
  <1> QED
    BY <1>1, <1>2, <1>3

\* A set of natural numbers that is not empty and has a bound has a largest
\* element.
LEMMA LargestNatural ==
  ASSUME NEW T, T \subseteq Nat, T # {}, NEW b \in Nat, \A y \in T : y <= b
  PROVE  \E x \in T : \A y \in T : y <= x
  <1> DEFINE D == {n \in Nat : \A y \in T : y <= n}
  <1>1. PICK n \in D : \A m \in D : n <= m
    <2>1. b \in D
      OBVIOUS
    <2> QED
      BY <2>1, LeastNatural
  <1>2. n \in T
    <2>1. SUFFICES ASSUME n \notin T PROVE FALSE
      OBVIOUS
    <2>2. n \in Nat /\ \A y \in T : y <= n /\ y # n /\ y \in Nat
      BY <2>1
    <2>3. n # 0
      <3>1. PICK y : y \in T
        OBVIOUS
      <3> QED
        BY <2>2, <3>1
    <2>4. n - 1 \in Nat /\ \A y \in T : y <= n - 1
      BY <2>2, <2>3
    <2> QED
      BY <1>1, <2>2, <2>4
  <1> QED
    BY <1>2

\* step[n] leads from the value for n to the value for n + 1.
Steps(V) == [Nat -> [V -> V]]

\* f is the function that starts with a and goes on by step.
Follows(f, V, a, step) ==
  f \in [Nat -> V] /\ f[0] = a /\ \A n \in Nat : f[n + 1] = step[n][f[n]]

\* There is such a function: what RecursionOnNat says with these two names.
LEMMA RecursiveFunction ==
  ASSUME NEW V, NEW a \in V, NEW step \in [Nat -> [V -> V]]
  PROVE  \E f \in [Nat -> V] : f[0] = a /\ \A n \in Nat : f[n + 1] = step[n][f[n]]
  <1> DEFINE Upto(n) == {g \in [0 .. n -> V] : g[0] = a /\ \A m \in 0 .. n - 1 : g[m + 1] = step[m][g[m]]}
  <1> DEFINE S == {n \in Nat : Upto(n) # {}}
  <1>1. Nat \subseteq S
    <2>1. 0 \in S
      <3>1. [k \in 0 .. 0 |-> a] \in Upto(0)
        OBVIOUS
      <3> QED
        BY <3>1
    <2>2. ASSUME NEW n \in Nat, n \in S PROVE n + 1 \in S
      <3>1. PICK h : h \in Upto(n)
        BY <2>2
      <3> DEFINE h2 == [k \in 0 .. n + 1 |-> IF k = n + 1 THEN step[n][h[n]] ELSE h[k]]
      <3>2. h[n] \in V /\ step[n] \in [V -> V]
        BY <3>1
      <3>3. h2 \in [0 .. n + 1 -> V]
        BY <3>1, <3>2
      <3>4. h2[0] = a
        BY <3>1
      <3>5. ASSUME NEW m \in 0 .. n PROVE h2[m + 1] = step[m][h2[m]]
        BY <3>1
      <3>6. n + 1 \in Nat /\ (n + 1) - 1 = n
        BY <2>2
      <3>7. h2 \in Upto(n + 1)
        <4> HIDE DEF h2
        <4> QED
          BY <3>3, <3>4, <3>5, <3>6
      <3> HIDE DEF Upto
      <3> QED
        BY <3>6, <3>7
    <2> HIDE DEF S
    <2> QED
      BY <2>1, <2>2, InductionOnNat
  <1>2. PICK g : \A n \in Nat : g[n] \in Upto(n)
    <2> DEFINE c == [n \in Nat |-> CHOOSE h : h \in Upto(n)]
    <2>1. ASSUME NEW n \in Nat PROVE c[n] \in Upto(n)
      <3>1. \E h : h \in Upto(n)
        BY <1>1
      <3>2. c[n] = CHOOSE h : h \in Upto(n)
        OBVIOUS
      <3> HIDE DEF Upto, c
      <3> QED
        BY <3>1, <3>2
    <2> HIDE DEF c
    <2> QED
      BY <2>1
  <1>3. ASSUME NEW n \in Nat
        PROVE  g[n + 1][n] = g[n][n]
    <2> DEFINE Q == {m \in Nat : m <= n => g[n + 1][m] = g[n][m]}
    <2>1. g[n] \in Upto(n) /\ g[n + 1] \in Upto(n + 1)
      BY <1>2
    <2>2. 0 \in Q
      BY <2>1
    <2>3. ASSUME NEW m \in Nat, m \in Q
          PROVE  m + 1 \in Q
      BY <2>1, <2>3
    <2> HIDE DEF Q
    <2>4. n \in Q
      BY <2>2, <2>3, InductionOnNat
    <2> QED
      BY <2>4 DEF Q
  <1> DEFINE f == [n \in Nat |-> g[n][n]]
  <1>4. f \in [Nat -> V] /\ f[0] = a
    BY <1>2
  <1>5. ASSUME NEW n \in Nat
        PROVE  f[n + 1] = step[n][f[n]]
    <2>1. g[n + 1] \in Upto(n + 1)
      BY <1>2
    <2>2. n \in 0 .. (n + 1) - 1
      OBVIOUS
    <2>3. g[n + 1][n + 1] = step[n][g[n + 1][n]]
      BY <2>1, <2>2
    <2> QED
      BY <1>3, <2>3
  <1> QED
    BY <1>4, <1>5

\* A function can be defined by recursion.
LEMMA RecursionOnNat ==
  ASSUME NEW V, NEW a, NEW step, a \in V, step \in Steps(V)
  PROVE  \E f : Follows(f, V, a, step)
  <1>1. step \in [Nat -> [V -> V]]
    BY DEF Steps
  <1>2. \E f \in [Nat -> V] : f[0] = a /\ \A n \in Nat : f[n + 1] = step[n][f[n]]
    BY <1>1, RecursiveFunction
  <1> QED
    BY <1>2 DEF Follows

\* A finite set of natural numbers that is not empty has a greatest element.
LEMMA FiniteMaximum ==
  ASSUME NEW X, X \subseteq Nat, IsFiniteSet(X), X # {}
  PROVE  \E m \in X : \A y \in X : y <= m
  <1> DEFINE HasMax(T) == \E m \in T : \A y \in T : y <= m
  <1> DEFINE Q == {n \in Nat : \A T \in SUBSET Nat :
                      IsFiniteSet(T) /\ Cardinality(T) = n + 1 => HasMax(T)}
  <1>1. 0 \in Q
    <2> SUFFICES ASSUME NEW T \in SUBSET Nat, IsFiniteSet(T), Cardinality(T) = 1
                 PROVE  HasMax(T)
      OBVIOUS
    <2>1. PICK x : T = {x}
      BY FS_Singleton
    <2> QED
      BY <2>1
  <1>2. ASSUME NEW n \in Nat, n \in Q
        PROVE  n + 1 \in Q
    <2> SUFFICES ASSUME NEW T \in SUBSET Nat, IsFiniteSet(T), Cardinality(T) = (n + 1) + 1
                 PROVE  HasMax(T)
      BY <1>2
    <2>1. T # {}
      BY FS_EmptySet
    <2>2. PICK x : x \in T
      BY <2>1
    <2>3. IsFiniteSet(T \ {x}) /\ Cardinality(T \ {x}) = n + 1
      BY <2>2, FS_RemoveElement
    <2>4. PICK m \in T \ {x} : \A y \in T \ {x} : y <= m
      BY <1>2, <2>3
    <2>5. m \in Nat /\ x \in Nat
      BY <2>2, <2>4
    <2>6. CASE x <= m
      <3>1. \A y \in T : y <= m
        BY <2>4, <2>6
      <3> QED
        BY <2>4, <3>1
    <2>7. CASE m <= x
      <3>1. \A y \in T : y <= x
        <4> SUFFICES ASSUME NEW y \in T, y # x PROVE y <= x
          BY <2>5
        <4>1. y <= m /\ y \in Nat
          BY <2>4
        <4> QED
          BY <2>5, <2>7, <4>1
      <3> QED
        BY <2>2, <3>1
    <2> QED
      BY <2>5, <2>6, <2>7
  <1> HIDE DEF HasMax
  <1>3. Nat \subseteq Q
    <2> HIDE DEF Q
    <2> QED
      BY <1>1, <1>2, InductionOnNat
  <1>4. PICK n \in Nat : Cardinality(X) = n + 1
    <2>1. Cardinality(X) \in Nat /\ Cardinality(X) # 0
      BY FS_CardinalityType, FS_EmptySet
    <2>2. Cardinality(X) - 1 \in Nat /\ Cardinality(X) = (Cardinality(X) - 1) + 1
      BY <2>1
    <2> QED
      BY <2>2
  <1>5. HasMax(X)
    BY <1>3, <1>4
  <1> QED
    BY <1>5 DEF HasMax
-----------------------------------------------------------------------------
(***************************************************************************)
(* What a loop keeps of a sequence: the elements that are in S, in their   *)
(* order.  The modules ProbeSide and GroupLookup have this as Kept.        *)
(***************************************************************************)
Filtered(s, S) ==
  LET kept[n \in 0 .. Len(s)] ==
        IF n = 0 THEN <<>>
        ELSE IF s[n] \in S THEN Append(kept[n - 1], s[n]) ELSE kept[n - 1]
  IN  kept[Len(s)]

\* g has what is kept of each prefix of s.
FilteredPrefixes(g, V, s, S) ==
  /\ g \in [0 .. Len(s) -> Seq(V)]
  /\ g[0] = <<>>
  /\ \A n \in 0 .. Len(s) - 1 :
        g[n + 1] = IF s[n + 1] \in S THEN Append(g[n], s[n + 1]) ELSE g[n]
  /\ Filtered(s, S) = g[Len(s)]

\* The recursive function in Filtered() exists.
LEMMA FilteredSteps ==
  ASSUME NEW V, NEW s \in Seq(V), NEW S
  PROVE  \E g : FilteredPrefixes(g, V, s, S)
  <1> DEFINE N == Len(s)
  <1> DEFINE Body(kept) ==
        [n \in 0 .. N |->
          IF n = 0 THEN <<>>
          ELSE IF s[n] \in S THEN Append(kept[n - 1], s[n]) ELSE kept[n - 1]]
  <1> DEFINE kept == CHOOSE f : f = Body(f)
  <1> DEFINE step == [n \in Nat |-> [r \in Seq(V) |->
                        IF n < N /\ s[n + 1] \in S THEN Append(r, s[n + 1]) ELSE r]]
  <1>1. N \in Nat /\ \A n \in 1 .. N : s[n] \in V
    OBVIOUS
  <1>2. Filtered(s, S) = kept[N]
    BY DEF Filtered
  <1> HIDE DEF N
  <1>3. step \in Steps(Seq(V))
    <2> SUFFICES ASSUME NEW n \in Nat, NEW r \in Seq(V)
                 PROVE  (IF n < N /\ s[n + 1] \in S THEN Append(r, s[n + 1]) ELSE r) \in Seq(V)
      BY DEF Steps
    <2>1. CASE n < N
      <3>1. n + 1 \in 1 .. N
        BY <1>1, <2>1
      <3>2. s[n + 1] \in V
        BY <1>1, <3>1
      <3> QED
        BY <3>2
    <2>2. CASE ~(n < N)
      BY <2>2
    <2> QED
      BY <2>1, <2>2
  <1>4. <<>> \in Seq(V)
    OBVIOUS
  <1>5. PICK f : Follows(f, Seq(V), <<>>, step)
    <2> HIDE DEF step
    <2> QED
      BY <1>3, <1>4, RecursionOnNat
  <1> DEFINE g == [n \in 0 .. N |-> f[n]]
  <1>6. g \in [0 .. N -> Seq(V)] /\ g[0] = <<>>
    BY <1>1, <1>5 DEF Follows
  <1>7. ASSUME NEW n \in 0 .. N - 1
        PROVE  g[n + 1] = IF s[n + 1] \in S THEN Append(g[n], s[n + 1]) ELSE g[n]
    <2>1. n \in Nat /\ n < N /\ n \in 0 .. N /\ n + 1 \in 0 .. N
      BY <1>1
    <2>2. f[n + 1] = step[n][f[n]] /\ f[n] \in Seq(V)
      BY <1>5, <2>1 DEF Follows
    <2>3. step[n][f[n]] = IF s[n + 1] \in S THEN Append(f[n], s[n + 1]) ELSE f[n]
      BY <2>1, <2>2
    <2> QED
      BY <2>1, <2>2, <2>3
  <1>8. g = Body(g)
    <2>1. ASSUME NEW n \in 0 .. N
          PROVE  g[n] = Body(g)[n]
      <3>1. CASE n = 0
        BY <1>6, <3>1
      <3>2. CASE n # 0
        <4>1. n - 1 \in 0 .. N - 1 /\ (n - 1) + 1 = n
          BY <1>1, <3>2
        <4>2. g[n] = IF s[n] \in S THEN Append(g[n - 1], s[n]) ELSE g[n - 1]
          <5> HIDE DEF g
          <5> QED
            BY <1>7, <4>1
        <4> HIDE DEF g
        <4> QED
          BY <3>2, <4>2
      <3> QED
        BY <3>1, <3>2
    <2> HIDE DEF Body
    <2>2. g = [n \in 0 .. N |-> g[n]]
      OBVIOUS
    <2>3. Body(g) = [n \in 0 .. N |-> Body(g)[n]]
      BY DEF Body
    <2> HIDE DEF g
    <2> QED
      BY <2>1, <2>2, <2>3
  <1>9. kept = Body(kept)
    <2> HIDE DEF Body
    <2> QED
      BY <1>8
  <1> HIDE DEF kept
  <1>10. kept \in [0 .. N -> Seq(V)] /\ \A n \in 0 .. N : kept[n] = g[n]
    <2> DEFINE Q == {n \in Nat : n <= N => kept[n] = g[n]}
    <2> HIDE DEF g
    <2>1. 0 \in Q
      BY <1>1, <1>6, <1>9
    <2>2. ASSUME NEW n \in Nat, n \in Q
          PROVE  n + 1 \in Q
      <3> SUFFICES ASSUME n + 1 <= N PROVE kept[n + 1] = g[n + 1]
        OBVIOUS
      <3>1. n \in 0 .. N - 1 /\ n + 1 \in 0 .. N /\ n + 1 # 0 /\ (n + 1) - 1 = n /\ n <= N
        BY <1>1
      <3>2. kept[n + 1] = IF s[n + 1] \in S THEN Append(kept[n], s[n + 1]) ELSE kept[n]
        BY <1>9, <3>1
      <3> QED
        BY <1>7, <2>2, <3>1, <3>2
    <2> HIDE DEF Q
    <2>3. Nat \subseteq Q
      BY <2>1, <2>2, InductionOnNat
    <2>4. \A n \in 0 .. N : kept[n] = g[n]
      BY <1>1, <2>3 DEF Q
    <2>5. kept = [n \in 0 .. N |-> kept[n]]
      BY <1>9
    <2> HIDE DEF Body
    <2> QED
      BY <1>6, <2>4, <2>5
  <1>11. kept[N] = g[N]
    BY <1>1, <1>10
  <1> HIDE DEF g
  <1> QED
    BY <1>2, <1>6, <1>7, <1>11 DEF N, FilteredPrefixes

\* What is kept is not longer, has the elements of the set, all of them, and each
\* as often as it was there.
LEMMA FilteredIs ==
  ASSUME NEW V, NEW s \in Seq(V), NEW S
  PROVE  /\ Filtered(s, S) \in Seq(V)
         /\ Len(Filtered(s, S)) <= Len(s)
         /\ \A n \in 1 .. Len(Filtered(s, S)) :
               Filtered(s, S)[n] \in S /\ \E m \in 1 .. Len(s) : Filtered(s, S)[n] = s[m]
         /\ \A m \in 1 .. Len(s) :
               s[m] \in S => \E n \in 1 .. Len(Filtered(s, S)) : Filtered(s, S)[n] = s[m]
         /\ (\A m, n \in 1 .. Len(s) : s[m] = s[n] => m = n)
               => \A m, n \in 1 .. Len(Filtered(s, S)) : Filtered(s, S)[m] = Filtered(s, S)[n] => m = n
  <1> DEFINE N == Len(s)
  <1> DEFINE Once(r, l) == \A m, n \in 1 .. l : r[m] = r[n] => m = n
  <1> DEFINE Right(r, l) ==
        /\ r \in Seq(V)
        /\ Len(r) <= l
        /\ \A n \in 1 .. Len(r) : r[n] \in S /\ \E m \in 1 .. l : r[n] = s[m]
        /\ \A m \in 1 .. l : s[m] \in S => \E n \in 1 .. Len(r) : r[n] = s[m]
        /\ Once(s, N) => Once(r, Len(r))
  <1>1. PICK g \in [0 .. N -> Seq(V)] :
            /\ g[0] = <<>>
            /\ \A n \in 0 .. N - 1 :
                  g[n + 1] = IF s[n + 1] \in S THEN Append(g[n], s[n + 1]) ELSE g[n]
            /\ Filtered(s, S) = g[N]
    <2>1. PICK g : FilteredPrefixes(g, V, s, S)
      BY FilteredSteps
    <2> QED
      BY <2>1 DEF FilteredPrefixes
  <1>2. N \in Nat /\ \A n \in 1 .. N : s[n] \in V
    OBVIOUS
  <1> HIDE DEF N
  <1> DEFINE Q == {n \in Nat : n <= N => Right(g[n], n)}
  <1>3. 0 \in Q
    BY <1>1, <1>2
  <1>4. ASSUME NEW l \in Nat, l \in Q
        PROVE  l + 1 \in Q
    <2> SUFFICES ASSUME l + 1 <= N PROVE Right(g[l + 1], l + 1)
      OBVIOUS
    <2> DEFINE r == g[l]
    <2>1. l \in 0 .. N - 1 /\ l \in 0 .. N /\ l + 1 \in 1 .. N /\ l <= N
      BY <1>2
    <2>2. Right(r, l)
      BY <1>4, <2>1
    <2>3. g[l + 1] = IF s[l + 1] \in S THEN Append(r, s[l + 1]) ELSE r
      BY <1>1, <2>1
    <2> HIDE DEF Q, r
    <2>4. CASE s[l + 1] \notin S
      <3>1. g[l + 1] = r
        BY <2>3, <2>4
      <3>2. \A m \in 1 .. l + 1 : m \in 1 .. l \/ m = l + 1
        BY <2>1
      <3>3. \A m \in 1 .. l : m \in 1 .. l + 1
        BY <2>1
      <3> QED
        BY <2>1, <2>2, <2>4, <3>1, <3>2, <3>3
    <2>5. CASE s[l + 1] \in S
      <3> DEFINE q == Append(r, s[l + 1])
      <3>1. g[l + 1] = q /\ r \in Seq(V) /\ s[l + 1] \in V /\ Len(r) <= l /\ Len(r) \in Nat
        BY <1>2, <2>1, <2>2, <2>3, <2>5
      <3>2. q \in Seq(V) /\ Len(q) = Len(r) + 1 /\ q[Len(r) + 1] = s[l + 1]
        BY <3>1
      <3>3. \A n \in 1 .. Len(r) : q[n] = r[n] /\ n \in 1 .. Len(q)
        BY <3>1
      <3>4. /\ \A n \in 1 .. Len(q) : n \in 1 .. Len(r) \/ n = Len(r) + 1
            /\ Len(r) + 1 \in 1 .. Len(q)
        BY <3>1, <3>2
      <3>5. /\ \A m \in 1 .. l + 1 : m \in 1 .. l \/ m = l + 1
            /\ \A m \in 1 .. l : m \in 1 .. l + 1 /\ m \in 1 .. N /\ m # l + 1
            /\ l + 1 \in 1 .. l + 1
        BY <1>2, <2>1
      <3> HIDE DEF q
      <3>6. ASSUME NEW n \in 1 .. Len(q)
            PROVE  q[n] \in S /\ \E m \in 1 .. l + 1 : q[n] = s[m]
        <4>1. CASE n = Len(r) + 1
          BY <2>5, <3>2, <3>5, <4>1
        <4>2. CASE n \in 1 .. Len(r)
          <5>1. q[n] = r[n] /\ r[n] \in S
            BY <2>2, <3>3, <4>2
          <5>2. PICK m \in 1 .. l : r[n] = s[m]
            BY <2>2, <4>2
          <5> QED
            BY <3>5, <5>1, <5>2
        <4> QED
          BY <3>4, <4>1, <4>2
      <3>7. \A m \in 1 .. l + 1 : s[m] \in S => \E n \in 1 .. Len(q) : q[n] = s[m]
        BY <2>2, <3>2, <3>3, <3>4, <3>5
      <3>8. ASSUME Once(s, N)
            PROVE  Once(q, Len(q))
        <4>1. \A n \in 1 .. Len(r) : q[n] # s[l + 1]
          BY <2>1, <2>2, <3>3, <3>5, <3>8
        <4>2. Once(r, Len(r))
          BY <2>2, <3>8
        <4> SUFFICES ASSUME NEW m \in 1 .. Len(q), NEW n \in 1 .. Len(q), q[m] = q[n]
                     PROVE  m = n
          OBVIOUS
        <4>3. CASE m = Len(r) + 1 /\ n \in 1 .. Len(r)
          BY <3>2, <4>1, <4>3
        <4>4. CASE n = Len(r) + 1 /\ m \in 1 .. Len(r)
          BY <3>2, <4>1, <4>4
        <4>5. CASE m \in 1 .. Len(r) /\ n \in 1 .. Len(r)
          BY <3>3, <4>2, <4>5
        <4> QED
          BY <3>4, <4>3, <4>4, <4>5
      <3>9. Len(q) <= l + 1
        BY <3>1, <3>2
      <3> QED
        BY <3>1, <3>2, <3>6, <3>7, <3>8, <3>9
    <2> QED
      BY <2>4, <2>5
  <1> HIDE DEF Q
  <1>5. Nat \subseteq Q
    BY <1>3, <1>4, InductionOnNat
  <1>6. Right(g[N], N)
    <2> HIDE DEF Right
    <2>1. N \in Q /\ N <= N
      BY <1>2, <1>5
    <2> QED
      BY <2>1 DEF Q
  <1> QED
    BY <1>1, <1>6 DEF N

=============================================================================
