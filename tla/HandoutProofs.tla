--------------------------- MODULE HandoutProofs ---------------------------
(***************************************************************************)
(* Theorems about the two operators that hand out what they share, as the  *)
(* module Handout says: HashGroup, for every number of workers, partitions *)
(* and vectors, and Scan, for every number of workers, every table and     *)
(* every vector size.                                                      *)
(*                                                                         *)
(* The argument is the same for both.  What remains is what nobody has     *)
(* drawn yet, and what is ahead of a worker in the share it has drawn; no  *)
(* two workers have drawn the same share.  That holds for HashGroup even   *)
(* where two keys have the same hash and groups are mixed up; that a group *)
(* has the tuples of one key, and all of them, holds if the hashes differ. *)
(***************************************************************************)
EXTENDS HashGroup, Induction, TLAPS

-----------------------------------------------------------------------------
(***************************************************************************)
(* HashGroup: the inductive invariant.                                     *)
(***************************************************************************)
Parts == 0 .. NrPartitions - 1
PartOf(t) == Hash[KeyOf(t)].part

\* A row of a storage or of a table: it has tuples, and they have its hash.
Rows ==
  {r \in [key : Keys, tuples : SUBSET Tuples] :
     r.tuples # {} /\ \A t \in r.tuples : Hash[KeyOf(t)] = HashOf(r)}

\* No tuple is in two of the rows, or in rows of both.
Disjoint(s) == \A i, j \in DOMAIN s : \A t : t \in s[i].tuples /\ t \in s[j].tuples => i = j
Apart(s, r) == \A t : ~(t \in TuplesOf(s) /\ t \in TuplesOf(r))

TypeInv ==
  /\ input \in [Workers -> Inputs]
  /\ nread \in [Workers -> Nat]
  /\ groups \in [Workers -> Seq(Rows)]
  /\ blocks \in [Workers -> Seq(Nat)]
  /\ spill \in [Workers -> [Parts -> Seq(Rows)]]
  /\ partition \in Nat
  /\ mine \in [Workers -> Nat]
  /\ unread \in [Workers -> SUBSET Workers]
  /\ rows \in [Workers -> Seq(Rows)]
  /\ iter \in [Workers -> Nat]
  /\ pc \in [Workers -> Location]
  /\ remaining \subseteq Tuples

\* Phase 1: what a worker has read is in its table or in its storage; behind it
\* everything is in the storage, in the partition of its hash.
Spilled(w, t) == \E p \in Parts : t \in TuplesOf(spill[w][p])
SpillOf(w) ==
  /\ \A p \in Parts : /\ Disjoint(spill[w][p])
                      /\ \A t \in TuplesOf(spill[w][p]) : PartOf(t) = p
  /\ pc[w] = "consume" =>
       /\ nread[w] <= Len(input[w])
       /\ \A t \in Tuples :
            t[1] = w /\ t[2] <= nread[w] <=> t \in TuplesOf(groups[w]) \/ Spilled(w, t)
       /\ \A t : ~(t \in TuplesOf(groups[w]) /\ Spilled(w, t))
  /\ pc[w] # "consume" => \A t \in Tuples : t[1] = w <=> Spilled(w, t)

\* Phase 2: what the partition of a worker consists of.
GroupOf(w) ==
  /\ Disjoint(groups[w])
  /\ pc[w] \in {"waiting", "partition", "end"} => groups[w] = <<>>
  /\ pc[w] # "aggregate" => rows[w] = <<>>
  /\ pc[w] = "aggregate" =>
       /\ \A t \in Tuples :
            PartOf(t) = mine[w] <=> \/ t \in TuplesOf(groups[w])
                                    \/ t \in TuplesOf(rows[w])
                                    \/ \E u \in unread[w] : t \in TuplesOf(spill[u][mine[w]])
       /\ Disjoint(rows[w]) /\ Apart(groups[w], rows[w])
       /\ \A u \in unread[w] : /\ Apart(groups[w], spill[u][mine[w]])
                               /\ Apart(rows[w], spill[u][mine[w]])
  /\ pc[w] \in {"emit", "return"} =>
       \A t \in Tuples : PartOf(t) = mine[w] <=> t \in TuplesOf(groups[w])

\* Where block b ends; the blocks divide the groups.
BlockEnd(w, b) == IF b = 0 THEN 0 ELSE blocks[w][b]
BlocksOf(w) ==
  /\ BlockEnd(w, Len(blocks[w])) = Len(groups[w])
  /\ \A b, c \in 0 .. Len(blocks[w]) : b < c => BlockEnd(w, b) < BlockEnd(w, c)
  /\ pc[w] \in {"emit", "return"} => iter[w] <= Len(blocks[w])
  /\ pc[w] = "return" => iter[w] >= 1

WorkersInv == \A w \in Workers : SpillOf(w) /\ GroupOf(w) /\ BlocksOf(w)

\* Who has a partition, has it for itself.
Drawn(w) == pc[w] \in {"partition", "aggregate", "emit", "return"}
DrawnOf(w) ==
  /\ Drawn(w) => mine[w] < partition
  /\ pc[w] \in {"aggregate", "emit", "return"} => mine[w] < NrPartitions
  /\ pc[w] = "end" => NrPartitions <= partition
DrawnInv ==
  /\ \A w \in Workers : DrawnOf(w)
  /\ \A w, u \in Workers :
       /\ pc[w] \notin {"consume", "waiting"} => pc[u] # "consume"
       /\ Drawn(w) /\ Drawn(u) /\ w # u => mine[w] # mine[u]

\* What remains are the partitions nobody has drawn, those that are being
\* aggregated, and the groups that have not been returned yet.
Ahead(w, t) ==
  /\ mine[w] = PartOf(t)
  /\ \/ pc[w] \in {"partition", "aggregate"}
     \/ /\ pc[w] \in {"emit", "return"}
        /\ \E g \in DOMAIN groups[w] : g > BlockEnd(w, iter[w]) /\ t \in groups[w][g].tuples
RemainingInv ==
  \A t \in Tuples :
     t \in remaining <=> partition <= PartOf(t) \/ \E w \in Workers : Ahead(w, t)

IInv == TypeInv /\ WorkersInv /\ DrawnInv /\ RemainingInv

-----------------------------------------------------------------------------
\* Places and elements of a sequence.
LEMMA ElementsOf ==
  ASSUME NEW V, NEW s \in Seq(V)
  PROVE  /\ DOMAIN s = 1 .. Len(s) /\ Len(s) \in Nat
         /\ \A i \in 1 .. Len(s) : s[i] \in V
         /\ ToSet(s) \subseteq V
  BY DEF ToSet

\* What is kept of a sequence: its elements that are in S.
LEMMA KeptIs ==
  ASSUME NEW V, NEW s \in Seq(V), NEW S
  PROVE  Kept(s, S) \in Seq(V) /\ ToSet(Kept(s, S)) = ToSet(s) \cap S
  <1>1. Kept(s, S) = Filtered(s, S)
    BY DEF Kept, Filtered
  <1> DEFINE k == Filtered(s, S)
  <1>2. /\ k \in Seq(V)
        /\ \A n \in 1 .. Len(k) : k[n] \in S /\ \E m \in 1 .. Len(s) : k[n] = s[m]
        /\ \A m \in 1 .. Len(s) : s[m] \in S => \E n \in 1 .. Len(k) : k[n] = s[m]
    BY FilteredIs, Zenon
  <1> HIDE DEF k
  <1>3. DOMAIN s = 1 .. Len(s) /\ DOMAIN k = 1 .. Len(k)
    BY <1>2
  <1>4. ToSet(k) = ToSet(s) \cap S
    <2>1. \A x : x \in ToSet(k) <=> \E n \in 1 .. Len(k) : x = k[n]
      BY <1>3, Zenon DEF ToSet
    <2>2. \A x : x \in ToSet(s) <=> \E n \in 1 .. Len(s) : x = s[n]
      BY <1>3, Zenon DEF ToSet
    <2>3. ASSUME NEW x \in ToSet(k) PROVE x \in ToSet(s) \cap S
      <3>1. PICK n \in 1 .. Len(k) : x = k[n]
        BY <2>1, <2>3
      <3> QED
        BY <1>2, <2>2, <3>1
    <2>4. ASSUME NEW x \in ToSet(s) \cap S PROVE x \in ToSet(k)
      <3>1. PICK n \in 1 .. Len(s) : x = s[n]
        BY <2>2, <2>4
      <3> QED
        BY <1>2, <2>1, <2>4, <3>1
    <2> QED
      BY <2>3, <2>4
  <1> QED
    BY <1>1, <1>2, <1>4 DEF k

\* What is concatenated.
LEMMA ConcatIs ==
  ASSUME NEW V, NEW s \in Seq(V), NEW r \in Seq(V)
  PROVE  /\ s \o r \in Seq(V)
         /\ Len(s \o r) = Len(s) + Len(r)
         /\ \A i \in 1 .. Len(s) : (s \o r)[i] = s[i]
         /\ \A i \in 1 .. Len(r) : (s \o r)[Len(s) + i] = r[i]
  OBVIOUS

\* A sequence of elements of a set is one of elements of a larger set.
LEMMA SequenceOf ==
  ASSUME NEW V, NEW W, NEW s \in Seq(V), V \subseteq W
  PROVE  s \in Seq(W)
  OBVIOUS

\* What is concatenated has the elements of both.
LEMMA ConcatElements ==
  ASSUME NEW V, NEW s \in Seq(V), NEW r \in Seq(V)
  PROVE  ToSet(s \o r) = ToSet(s) \cup ToSet(r)
  <1>1. s \o r \in Seq(V) /\ Len(s \o r) = Len(s) + Len(r) /\ Len(s) \in Nat /\ Len(r) \in Nat
    OBVIOUS
  <1>2. \A i \in 1 .. Len(s) : (s \o r)[i] = s[i] /\ i \in 1 .. Len(s \o r)
    BY <1>1
  <1>3. \A i \in 1 .. Len(r) : (s \o r)[Len(s) + i] = r[i] /\ Len(s) + i \in 1 .. Len(s \o r)
    BY <1>1
  <1>4. \A i \in 1 .. Len(s \o r) : i \in 1 .. Len(s) \/ \E j \in 1 .. Len(r) : i = Len(s) + j
    <2> SUFFICES ASSUME NEW i \in 1 .. Len(s \o r), i \notin 1 .. Len(s)
                 PROVE  \E j \in 1 .. Len(r) : i = Len(s) + j
      OBVIOUS
    <2> WITNESS i - Len(s) \in 1 .. Len(r)
    <2> QED
      BY <1>1
  <1>5. DOMAIN s = 1 .. Len(s) /\ DOMAIN r = 1 .. Len(r) /\ DOMAIN (s \o r) = 1 .. Len(s \o r)
    BY <1>1
  <1>6. ASSUME NEW x \in ToSet(s \o r) PROVE x \in ToSet(s) \cup ToSet(r)
    <2>1. PICK i \in 1 .. Len(s \o r) : x = (s \o r)[i]
      BY <1>5, <1>6 DEF ToSet
    <2> QED
      BY <1>2, <1>3, <1>4, <1>5, <2>1 DEF ToSet
  <1>7. ASSUME NEW x \in ToSet(s) \cup ToSet(r) PROVE x \in ToSet(s \o r)
    <2>1. CASE x \in ToSet(s)
      <3>1. PICK i \in 1 .. Len(s) : x = s[i]
        BY <1>5, <2>1 DEF ToSet
      <3> QED
        BY <1>2, <1>5, <3>1 DEF ToSet
    <2>2. CASE x \in ToSet(r)
      <3>1. PICK i \in 1 .. Len(r) : x = r[i]
        BY <1>5, <2>2 DEF ToSet
      <3> QED
        BY <1>3, <1>5, <3>1 DEF ToSet
    <2> QED
      BY <1>7, <2>1, <2>2
  <1> QED
    BY <1>6, <1>7

\* A part of a sequence.
LEMMA PartElements ==
  ASSUME NEW V, NEW s \in Seq(V), NEW m \in 1 .. Len(s) + 1, NEW n \in 0 .. Len(s)
  PROVE  /\ SubSeq(s, m, n) \in Seq(V)
         /\ ToSet(SubSeq(s, m, n)) = {s[i] : i \in m .. n}
  <1> DEFINE q == SubSeq(s, m, n)
  <1>1. /\ q \in Seq(V)
        /\ Len(q) = IF m <= n THEN n - m + 1 ELSE 0
        /\ \A i \in 1 .. Len(q) : q[i] = s[m + i - 1]
    OBVIOUS
  <1> HIDE DEF q
  <1>2. DOMAIN q = 1 .. Len(q)
    BY <1>1
  <1>3. \A i \in 1 .. Len(q) : m + i - 1 \in m .. n
    BY <1>1
  <1>4. \A j \in m .. n : j - m + 1 \in 1 .. Len(q) /\ m + (j - m + 1) - 1 = j
    BY <1>1
  <1>5. \A j \in m .. n : q[j - m + 1] = s[j]
    BY <1>1, <1>4
  <1>6. ToSet(q) = {s[i] : i \in m .. n}
    <2>1. ToSet(q) = {q[i] : i \in 1 .. Len(q)}
      BY <1>2 DEF ToSet
    <2>2. ASSUME NEW i \in 1 .. Len(q) PROVE q[i] \in {s[j] : j \in m .. n}
      BY <1>1, <1>3
    <2>3. ASSUME NEW j \in m .. n PROVE s[j] \in {q[i] : i \in 1 .. Len(q)}
      BY <1>4, <1>5
    <2> QED
      BY <2>1, <2>2, <2>3
  <1> QED
    BY <1>1, <1>6 DEF q

\* The sequence that a finite set is written as has its elements, each once.
LEMMA SetToSeqIs ==
  ASSUME NEW S, IsFiniteSet(S)
  PROVE  /\ SetToSeq(S) \in Seq(S)
         /\ \A x \in S : \E i \in 1 .. Len(SetToSeq(S)) : SetToSeq(S)[i] = x
         /\ \A i, j \in 1 .. Len(SetToSeq(S)) : SetToSeq(S)[i] = SetToSeq(S)[j] => i = j
  <1> DEFINE n == Cardinality(S)
  <1>1. n \in Nat /\ ExistsBijection(1 .. n, S)
    BY FS_CardinalityType
  <1> HIDE DEF n
  <1>2. PICK b \in [1 .. n -> S] : IsInjective(b)
    BY <1>1, Zenon DEF ExistsBijection, Bijection, Injection
  <1> DEFINE f == CHOOSE g \in [1 .. n -> S] : IsInjective(g)
  <1>3. f \in [1 .. n -> S] /\ IsInjective(f)
    BY <1>2
  <1>4. SetToSeq(S) = f
    BY DEF SetToSeq, n
  <1> HIDE DEF f
  <1>5. IsFiniteSet(1 .. n) /\ Cardinality(1 .. n) = n
    BY <1>1, FS_Interval
  <1>6. f \in Surjection(1 .. n, S)
    <2>1. f \in Injection(1 .. n, S)
      BY <1>3 DEF Injection
    <2>2. Cardinality(1 .. n) = Cardinality(S)
      BY <1>5 DEF n
    <2> QED
      BY <2>1, <2>2, FS_Injection
  <1>7. f \in Seq(S) /\ Len(f) = n
    BY <1>1, <1>3
  <1>8. \A x \in S : \E i \in 1 .. n : f[i] = x
    BY <1>6 DEF Surjection
  <1>9. \A i, j \in 1 .. n : f[i] = f[j] => i = j
    BY <1>3 DEF IsInjective
  <1> QED
    BY <1>4, <1>7, <1>8, <1>9

\* What is kept, place by place.
LEMMA KeptPlaces ==
  ASSUME NEW V, NEW s \in Seq(V), NEW S
  PROVE  /\ Kept(s, S) \in Seq(V)
         /\ Len(Kept(s, S)) <= Len(s)
         /\ \A n \in 1 .. Len(Kept(s, S)) : \E m \in 1 .. Len(s) : Kept(s, S)[n] = s[m]
         /\ (\A m, n \in 1 .. Len(s) : s[m] = s[n] => m = n)
               => \A m, n \in 1 .. Len(Kept(s, S)) : Kept(s, S)[m] = Kept(s, S)[n] => m = n
  <1>1. Kept(s, S) = Filtered(s, S)
    BY DEF Kept, Filtered
  <1> DEFINE k == Filtered(s, S)
  <1>2. /\ k \in Seq(V)
        /\ Len(k) <= Len(s)
        /\ \A n \in 1 .. Len(k) : \E m \in 1 .. Len(s) : k[n] = s[m]
        /\ (\A m, n \in 1 .. Len(s) : s[m] = s[n] => m = n)
              => \A m, n \in 1 .. Len(k) : k[m] = k[n] => m = n
    <2>1. /\ k \in Seq(V)
          /\ Len(k) <= Len(s)
          /\ \A n \in 1 .. Len(k) : k[n] \in S /\ \E m \in 1 .. Len(s) : k[n] = s[m]
          /\ (\A m, n \in 1 .. Len(s) : s[m] = s[n] => m = n)
                => \A m, n \in 1 .. Len(k) : k[m] = k[n] => m = n
      BY FilteredIs, Zenon
    <2> HIDE DEF k
    <2> QED
      BY <2>1
  <1> HIDE DEF k
  <1> QED
    BY <1>1, <1>2 DEF k

\* The maximum of a set of numbers that has a bound.
LEMMA MaxIs ==
  ASSUME NEW n \in Nat, NEW X \in SUBSET (0 .. n), X # {}
  PROVE  Max(X) \in X
  <1> DEFINE Q == {m \in Nat : \A Y \in SUBSET (0 .. m) : Y # {}
            => \E x \in Y : \A y \in Y : x >= y}
  <1>1. 0 \in Q
    <2> SUFFICES ASSUME NEW Y \in SUBSET (0 .. 0), Y # {} PROVE \E x \in Y : \A y \in Y : x >= y
      OBVIOUS
    <2>1. 0 .. 0 = {0}
      OBVIOUS
    <2>2. \A y \in Y : y = 0
      BY <2>1
    <2>3. PICK x : x \in Y
      OBVIOUS
    <2>4. x >= x
      BY <2>2, <2>3
    <2> QED
      BY <2>2, <2>3, <2>4
  <1>2. ASSUME NEW m \in Nat, m \in Q PROVE m + 1 \in Q
    <2> SUFFICES ASSUME NEW Y \in SUBSET (0 .. m + 1), Y # {} PROVE \E x \in Y : \A y \in Y : x >= y
      OBVIOUS
    <2>1. CASE m + 1 \in Y
      <3>1. \A y \in Y : m + 1 >= y
        OBVIOUS
      <3> QED
        BY <2>1, <3>1
    <2>2. CASE m + 1 \notin Y
      <3>1. Y \in SUBSET (0 .. m)
        BY <2>2
      <3> QED
        BY <1>2, <3>1
    <2> QED
      BY <2>1, <2>2
  <1> HIDE DEF Q
  <1>3. Nat \subseteq Q
    BY <1>1, <1>2, InductionOnNat
  <1>4. \E x \in X : \A y \in X : x >= y
    BY <1>3 DEF Q
  <1> QED
    BY <1>4 DEF Max

-----------------------------------------------------------------------------
(***************************************************************************)
(* The lookup of groups, whatever the hashes are.                          *)
(***************************************************************************)
\* The first group with a hash is one of the chain that has it, or none.
LEMMA FirstIs ==
  ASSUME NEW R, NEW gs \in Seq(R), NEW chain \in SUBSET (DOMAIN gs), NEW hash
  PROVE  /\ FirstWithHash(gs, chain, hash) \in 0 .. Len(gs)
         /\ FirstWithHash(gs, chain, hash) # 0 =>
              /\ FirstWithHash(gs, chain, hash) \in chain
              /\ HashOf(gs[FirstWithHash(gs, chain, hash)]) = hash
  <1> DEFINE hits == {g \in chain : HashOf(gs[g]) = hash}
  <1>1. DOMAIN gs = 1 .. Len(gs) /\ Len(gs) \in Nat
    OBVIOUS
  <1>2. FirstWithHash(gs, chain, hash) = Max({0} \cup hits)
    BY DEF FirstWithHash
  <1>3. {0} \cup hits \in SUBSET (0 .. Len(gs)) /\ {0} \cup hits # {}
    BY <1>1
  <1>4. \A g \in hits : g \in chain /\ HashOf(gs[g]) = hash
    OBVIOUS
  <1> HIDE DEF hits
  <1>5. Max({0} \cup hits) \in {0} \cup hits
    BY <1>1, <1>3, MaxIs
  <1> QED
    BY <1>2, <1>3, <1>4, <1>5

\* What the lookup of a vector keeps to: a row that is not told missing has a
\* match, and one with its hash.
LookedUp(gs, rs) ==
  {s \in [htMatches : [DOMAIN rs -> 0 .. Len(gs)],
          groupsNotFound : SUBSET (DOMAIN rs),
          keysNEq : Seq(DOMAIN rs)] :
     /\ Len(s.keysNEq) <= Len(rs)
     /\ \A n \in DOMAIN rs \ s.groupsNotFound :
          s.htMatches[n] \in DOMAIN gs /\ HashOf(gs[s.htMatches[n]]) = HashOf(rs[n])}

\* The rows with another key than their match are rows, and each at most once.
LEMMA KeysNEqIs ==
  ASSUME NEW R, NEW rs \in Seq(R), NEW gs, NEW matches, NEW found
  PROVE  /\ keysNEq(gs, rs, matches, found) \in Seq(DOMAIN rs)
         /\ Len(keysNEq(gs, rs, matches, found)) <= Len(rs)
  <1> DEFINE F == {n \in found : gs[matches[n]].key # rs[n].key}
             I == [n \in DOMAIN rs |-> n]
  <1>1. DOMAIN rs = 1 .. Len(rs) /\ Len(rs) \in Nat
    OBVIOUS
  <1>2. I \in Seq(DOMAIN rs) /\ Len(I) = Len(rs)
    BY <1>1
  <1>3. keysNEq(gs, rs, matches, found) = Kept(I, F)
    BY DEF keysNEq
  <1> HIDE DEF I, F
  <1> QED
    BY <1>2, <1>3, KeptPlaces

\* The first lookup of a vector keeps to it.
LEMMA LookupIs ==
  ASSUME NEW R, NEW gs \in Seq(R), NEW rs \in Seq(R)
  PROVE  htLookup(gs, rs) \in LookedUp(gs, rs)
  <1> DEFINE match(n) == FirstWithHash(gs, find_chain(gs, HashOf(rs[n])), HashOf(rs[n]))
             found == {n \in DOMAIN rs : match(n) # 0}
             matches == [n \in DOMAIN rs |-> match(n)]
             neq == keysNEq(gs, rs, matches, found)
  <1>1. htLookup(gs, rs) =
          [htMatches |-> matches, groupsNotFound |-> DOMAIN rs \ found, keysNEq |-> neq]
    BY DEF htLookup
  <1>2. \A n \in DOMAIN rs :
          /\ match(n) \in 0 .. Len(gs)
          /\ match(n) # 0 => match(n) \in DOMAIN gs /\ HashOf(gs[match(n)]) = HashOf(rs[n])
    <2> SUFFICES ASSUME NEW n \in DOMAIN rs
                 PROVE  /\ match(n) \in 0 .. Len(gs)
                        /\ match(n) # 0 => match(n) \in DOMAIN gs
                                  /\ HashOf(gs[match(n)]) = HashOf(rs[n])
      OBVIOUS
    <2>1. find_chain(gs, HashOf(rs[n])) \in SUBSET (DOMAIN gs)
      BY DEF find_chain
    <2> QED
      BY <2>1, FirstIs
  <1> HIDE DEF match
  <1>3. neq \in Seq(DOMAIN rs) /\ Len(neq) <= Len(rs)
    <2> HIDE DEF matches, found
    <2> QED
      BY KeysNEqIs
  <1> HIDE DEF neq
  <1>4. /\ matches \in [DOMAIN rs -> 0 .. Len(gs)]
        /\ \A n \in found : matches[n] \in DOMAIN gs /\ HashOf(gs[matches[n]]) = HashOf(rs[n])
    BY <1>2
  <1>5. DOMAIN rs \ (DOMAIN rs \ found) = found
    OBVIOUS
  <1> HIDE DEF matches, found
  <1> QED
    BY <1>1, <1>3, <1>4, <1>5 DEF LookedUp

\* So does a further step along the chains.
LEMMA FollowIs ==
  ASSUME NEW R, NEW gs \in Seq(R), NEW rs \in Seq(R), NEW s \in LookedUp(gs, rs)
  PROVE  htFollow(gs, rs, s) \in LookedUp(gs, rs)
  <1> DEFINE chain(n) == Behind(find_chain(gs, HashOf(rs[n])), s.htMatches[n])
             match(n) == FirstWithHash(gs, chain(n), HashOf(rs[n]))
             walksPast(n) == \E g \in chain(n) : g > match(n)
             found == {n \in ToSet(s.keysNEq) : match(n) # 0}
             matches == [n \in DOMAIN rs |-> IF n \in found THEN match(n) ELSE s.htMatches[n]]
             missing == s.groupsNotFound \cup {p \in DOMAIN s.keysNEq : walksPast(s.keysNEq[p])}
             neq == keysNEq(gs, rs, matches, found)
  <1>1. htFollow(gs, rs, s) =
          [htMatches |-> matches, groupsNotFound |-> missing, keysNEq |-> neq]
    BY DEF htFollow
  <1>2. /\ s.htMatches \in [DOMAIN rs -> 0 .. Len(gs)]
        /\ s.groupsNotFound \in SUBSET (DOMAIN rs)
        /\ s.keysNEq \in Seq(DOMAIN rs) /\ Len(s.keysNEq) <= Len(rs)
        /\ \A n \in DOMAIN rs \ s.groupsNotFound :
             s.htMatches[n] \in DOMAIN gs /\ HashOf(gs[s.htMatches[n]]) = HashOf(rs[n])
    BY DEF LookedUp
  <1>3. \A n \in DOMAIN rs :
          /\ match(n) \in 0 .. Len(gs)
          /\ match(n) # 0 => match(n) \in DOMAIN gs /\ HashOf(gs[match(n)]) = HashOf(rs[n])
    <2> SUFFICES ASSUME NEW n \in DOMAIN rs
                 PROVE  /\ match(n) \in 0 .. Len(gs)
                        /\ match(n) # 0 => match(n) \in DOMAIN gs
                                  /\ HashOf(gs[match(n)]) = HashOf(rs[n])
      OBVIOUS
    <2>1. chain(n) \in SUBSET (DOMAIN gs)
      BY DEF find_chain, Behind
    <2> HIDE DEF chain
    <2> QED
      BY <2>1, FirstIs
  <1>4. missing \in SUBSET (DOMAIN rs) /\ s.groupsNotFound \subseteq missing
    <2>1. DOMAIN s.keysNEq \subseteq DOMAIN rs
      BY <1>2
    <2> HIDE DEF walksPast
    <2> QED
      BY <1>2, <2>1
  <1> HIDE DEF match, missing
  <1>5. neq \in Seq(DOMAIN rs) /\ Len(neq) <= Len(rs)
    <2> HIDE DEF matches, found
    <2> QED
      BY KeysNEqIs
  <1> HIDE DEF neq
  <1>6. matches \in [DOMAIN rs -> 0 .. Len(gs)]
    BY <1>2, <1>3
  <1>7. \A n \in DOMAIN rs \ missing :
          matches[n] \in DOMAIN gs /\ HashOf(gs[matches[n]]) = HashOf(rs[n])
    BY <1>2, <1>3, <1>4
  <1> HIDE DEF matches
  <1> QED
    BY <1>1, <1>4, <1>5, <1>6, <1>7 DEF LookedUp

\* So does the lookup as a whole, after as many steps as there are groups.
LEMMA FoundIs ==
  ASSUME NEW R, NEW gs \in Seq(R), NEW rs \in Seq(R)
  PROVE  findGroups(gs, rs) \in LookedUp(gs, rs)
  <1> DEFINE N == Len(gs)
             V == LookedUp(gs, rs)
             L == htLookup(gs, rs)
             Go(s) == IF s.keysNEq = <<>> THEN s ELSE htFollow(gs, rs, s)
             Body(f) == [n \in 0 .. N |-> IF n = 0 THEN L ELSE Go(f[n - 1])]
             follow == CHOOSE f : f = Body(f)
             next == [n \in Nat |-> [s \in V |-> Go(s)]]
  <1>1. findGroups(gs, rs) = follow[N] /\ N \in Nat
    BY DEF findGroups
  <1>2. L \in V /\ \A s \in V : Go(s) \in V
    BY LookupIs, FollowIs
  <1> HIDE DEF N, V, L, Go
  <1>3. next \in Steps(V)
    BY <1>2 DEF Steps
  <1>4. PICK f : Follows(f, V, L, next)
    <2> HIDE DEF next
    <2> QED
      BY <1>2, <1>3, RecursionOnNat
  <1>5. \A n \in Nat : f[n + 1] = Go(f[n]) /\ f[n] \in V
    BY <1>4 DEF Follows
  <1>6. f[0] = L
    BY <1>4 DEF Follows
  <1> DEFINE g == [n \in 0 .. N |-> f[n]]
  <1>7. g = Body(g)
    <2>1. ASSUME NEW n \in 0 .. N PROVE g[n] = Body(g)[n]
      <3>1. CASE n = 0
        BY <1>6, <3>1
      <3>2. CASE n # 0
        <4>1. n - 1 \in Nat /\ n - 1 \in 0 .. N /\ (n - 1) + 1 = n
          BY <1>1, <3>2
        <4>2. f[n] = Go(f[n - 1])
          BY <1>5, <4>1
        <4> QED
          BY <3>2, <4>1, <4>2
      <3> QED
        BY <3>1, <3>2
    <2>2. g = [n \in 0 .. N |-> g[n]] /\ Body(g) = [n \in 0 .. N |-> Body(g)[n]]
      OBVIOUS
    <2> HIDE DEF g, Body
    <2> QED
      BY <2>1, <2>2
  <1>8. follow = Body(follow)
    <2> HIDE DEF Body, g
    <2> QED
      BY <1>7
  <1> HIDE DEF follow
  <1> DEFINE Q == {n \in Nat : n <= N => follow[n] \in V}
  <1>9. 0 \in Q
    BY <1>1, <1>2, <1>8
  <1>10. ASSUME NEW n \in Nat, n \in Q PROVE n + 1 \in Q
    <2> SUFFICES ASSUME n + 1 <= N PROVE follow[n + 1] \in V
      OBVIOUS
    <2>1. n + 1 \in 0 .. N /\ n + 1 # 0 /\ (n + 1) - 1 = n /\ n <= N
      BY <1>1
    <2>2. follow[n + 1] = Go(follow[n])
      BY <1>8, <2>1
    <2> QED
      BY <1>2, <1>10, <2>1, <2>2
  <1> HIDE DEF Q
  <1>11. Nat \subseteq Q
    BY <1>9, <1>10, InductionOnNat
  <1> QED
    BY <1>1, <1>11 DEF Q, V

\* The groups and those that are created behind them.
LEMMA BehindIs ==
  ASSUME NEW V, NEW s \in Seq(V), NEW r \in Seq(V)
  PROVE  /\ DOMAIN (s \o r) = 1 .. Len(s) + Len(r)
         /\ \A g \in DOMAIN (s \o r) :
              /\ (s \o r)[g] \in V
              /\ \/ g \in DOMAIN s /\ (s \o r)[g] = s[g]
                 \/ \E i \in DOMAIN r : g = Len(s) + i /\ (s \o r)[g] = r[i]
         /\ \A g \in DOMAIN s : g \in DOMAIN (s \o r) /\ (s \o r)[g] = s[g]
         /\ \A i \in DOMAIN r :
              /\ Len(s) + i \in DOMAIN (s \o r)
              /\ Len(s) + i \notin DOMAIN s
              /\ (s \o r)[Len(s) + i] = r[i]
  <1> DEFINE q == s \o r
  <1>1. /\ q \in Seq(V) /\ Len(q) = Len(s) + Len(r)
        /\ \A i \in 1 .. Len(s) : q[i] = s[i]
        /\ \A i \in 1 .. Len(r) : q[Len(s) + i] = r[i]
    BY ConcatIs
  <1> HIDE DEF q
  <1>2. /\ DOMAIN s = 1 .. Len(s) /\ Len(s) \in Nat
        /\ DOMAIN r = 1 .. Len(r) /\ Len(r) \in Nat
        /\ DOMAIN q = 1 .. Len(s) + Len(r)
    BY <1>1, ElementsOf
  <1> DEFINE L == Len(s)
             C == Len(r)
  <1>3. /\ \A i \in 1 .. L : i \in 1 .. L + C
        /\ \A i \in 1 .. C : L + i \in 1 .. L + C /\ L + i \notin 1 .. L
        /\ \A g \in 1 .. L + C : g \in 1 .. L \/ (g - L \in 1 .. C /\ g = L + (g - L))
    <2>1. L \in Nat /\ C \in Nat
      BY <1>2
    <2> HIDE DEF L, C
    <2> QED
      BY <2>1
  <1>4. \A g \in 1 .. L + C : q[g] \in V
    BY <1>1, <1>2, ElementsOf
  <1> HIDE DEF L, C
  <1>5. \A g \in 1 .. L + C : \/ g \in 1 .. L /\ q[g] = s[g]
                              \/ \E i \in 1 .. C : g = L + i /\ q[g] = r[i]
    <2> SUFFICES ASSUME NEW g \in 1 .. L + C, g \notin 1 .. L
                 PROVE  \E i \in 1 .. C : g = L + i /\ q[g] = r[i]
      BY <1>1 DEF L
    <2>1. g - L \in 1 .. C /\ g = L + (g - L)
      BY <1>3
    <2> DEFINE i == g - L
    <2>2. i \in 1 .. C /\ g = L + i
      BY <2>1
    <2> HIDE DEF i
    <2> QED
      BY <1>1, <2>2 DEF L, C
  <1> QED
    BY <1>1, <1>2, <1>3, <1>4, <1>5 DEF q, L, C

\* A row that may have no tuples yet.
RawRows == [key : Keys, tuples : SUBSET Tuples]

\* The groups that are created for missing rows: one for each of their keys.
LEMMA CreatedIs ==
  ASSUME NEW rs \in Seq(Rows), NEW miss \in SUBSET (DOMAIN rs)
  PROVE  /\ createMissingGroups(rs, miss) \in Seq(RawRows)
         /\ \A g \in DOMAIN createMissingGroups(rs, miss) :
              /\ createMissingGroups(rs, miss)[g].tuples = {}
              /\ \E n \in miss : createMissingGroups(rs, miss)[g].key = rs[n].key
         /\ \A n \in miss : \E g \in DOMAIN createMissingGroups(rs, miss) :
              createMissingGroups(rs, miss)[g].key = rs[n].key
         /\ \A g, h \in DOMAIN createMissingGroups(rs, miss) :
              createMissingGroups(rs, miss)[g].key = createMissingGroups(rs, miss)[h].key => g = h
  <1> DEFINE K == {rs[n].key : n \in miss}
             q == SetToSeq(K)
             created == createMissingGroups(rs, miss)
  <1>1. created = [g \in DOMAIN q |-> [key |-> q[g], tuples |-> {}]]
    BY DEF createMissingGroups
  <1>2. DOMAIN rs = 1 .. Len(rs) /\ Len(rs) \in Nat /\ \A n \in DOMAIN rs : rs[n].key \in Keys
    <2>1. \A r \in Rows : r.key \in Keys
      BY DEF Rows
    <2> QED
      BY <2>1, ElementsOf
  <1>3. IsFiniteSet(miss)
    <2>1. IsFiniteSet(1 .. Len(rs))
      BY <1>2, FS_Interval
    <2> QED
      BY <1>2, <2>1, FS_Subset
  <1>4. IsFiniteSet(K) /\ K \subseteq Keys
    <2> DEFINE f == [n \in miss |-> rs[n].key]
    <2>1. f \in Surjection(miss, K)
      BY DEF Surjection
    <2>2. K \subseteq Keys
      BY <1>2
    <2> HIDE DEF K, f
    <2> QED
      BY <1>3, <2>1, <2>2, FS_Surjection
  <1>5. \A x : x \in K <=> \E n \in miss : x = rs[n].key
    OBVIOUS
  <1> HIDE DEF K
  <1>6. /\ q \in Seq(K)
        /\ \A x \in K : \E i \in 1 .. Len(q) : q[i] = x
        /\ \A i, j \in 1 .. Len(q) : q[i] = q[j] => i = j
    BY <1>4, SetToSeqIs
  <1> HIDE DEF q, created
  <1>7. DOMAIN q = 1 .. Len(q) /\ Len(q) \in Nat /\ \A i \in 1 .. Len(q) : q[i] \in K
    BY <1>6, ElementsOf
  <1>8. created \in [1 .. Len(q) -> RawRows]
    BY <1>1, <1>4, <1>7 DEF RawRows
  <1>9. created \in Seq(RawRows) /\ DOMAIN created = 1 .. Len(q)
    BY <1>7, <1>8
  <1>10. \A g \in 1 .. Len(q) : created[g].tuples = {} /\ created[g].key = q[g]
    BY <1>1, <1>7
  <1>11. ASSUME NEW n \in miss PROVE \E g \in 1 .. Len(q) : created[g].key = rs[n].key
    <2>1. rs[n].key \in K
      BY <1>5
    <2>2. PICK g \in 1 .. Len(q) : q[g] = rs[n].key
      BY <1>6, <2>1
    <2> QED
      BY <1>10, <2>2
  <1>12. \A g \in 1 .. Len(q) : \E n \in miss : created[g].key = rs[n].key
    BY <1>5, <1>7, <1>10
  <1>13. \A g, h \in 1 .. Len(q) : created[g].key = created[h].key => g = h
    BY <1>6, <1>10
  <1> QED
    BY <1>9, <1>10, <1>11, <1>12, <1>13 DEF created

\* Rows are added to groups: no tuple is lost, and none is in two groups.
LEMMA AddRowsIs ==
  ASSUME NEW gs \in Seq(Rows), Disjoint(gs), NEW rs \in Seq(Rows), Disjoint(rs), Apart(gs, rs)
  PROVE  /\ AddRows(gs, rs) \in Seq(Rows)
         /\ Disjoint(AddRows(gs, rs))
         /\ Len(gs) <= Len(AddRows(gs, rs))
         /\ TuplesOf(AddRows(gs, rs)) = TuplesOf(gs) \cup TuplesOf(rs)
  <1> DEFINE s == findGroups(gs, rs)
             miss == s.groupsNotFound
             match == s.htMatches
             created == createMissingGroups(rs, miss)
             all == gs \o created
             target(n) == IF n \in miss
                          THEN Len(gs) + CHOOSE g \in DOMAIN created : created[g].key = rs[n].key
                          ELSE match[n]
             added(g) == UNION {rs[n].tuples : n \in {m \in DOMAIN rs : target(m) = g}}
             res == [g \in DOMAIN all |-> [all[g] EXCEPT !.tuples = @ \cup added(g)]]
  <1>1. AddRows(gs, rs) = res
    BY DEF AddRows
  <1>2. /\ miss \in SUBSET (DOMAIN rs)
        /\ \A n \in DOMAIN rs \ miss : match[n] \in DOMAIN gs
                  /\ HashOf(gs[match[n]]) = HashOf(rs[n])
    <2> HIDE DEF s
    <2>1. s \in LookedUp(gs, rs)
      BY FoundIs DEF s
    <2> QED
      BY <2>1 DEF LookedUp
  <1> HIDE DEF s, miss, match
  <1>3. /\ created \in Seq(RawRows)
        /\ \A g \in DOMAIN created : /\ created[g].tuples = {}
                                     /\ \E n \in miss : created[g].key = rs[n].key
        /\ \A n \in miss : \E g \in DOMAIN created : created[g].key = rs[n].key
        /\ \A g, h \in DOMAIN created : created[g].key = created[h].key => g = h
    BY <1>2, CreatedIs
  <1> HIDE DEF created
  <1> DEFINE D == DOMAIN all
             L == Len(gs)
  <1>4. /\ D = 1 .. L + Len(created)
        /\ \A g \in D : /\ all[g] \in RawRows
                        /\ \/ g \in DOMAIN gs /\ all[g] = gs[g]
                           \/ \E i \in DOMAIN created : g = L + i /\ all[g] = created[i]
        /\ \A g \in DOMAIN gs : g \in D /\ all[g] = gs[g]
        /\ \A i \in DOMAIN created : L + i \in D /\ L + i \notin DOMAIN gs
                  /\ all[L + i] = created[i]
    <2>1. gs \in Seq(RawRows)
      <3>1. Rows \subseteq RawRows
        BY DEF Rows, RawRows
      <3> QED
        BY <3>1, SequenceOf
    <2> QED
      BY <1>3, <2>1, BehindIs
  <1>5. /\ DOMAIN gs = 1 .. L /\ L \in Nat /\ \A g \in DOMAIN gs : gs[g] \in Rows
        /\ \A n \in DOMAIN rs : rs[n] \in Rows
        /\ Len(created) \in Nat /\ DOMAIN created = 1 .. Len(created)
    BY <1>3, ElementsOf
  <1>6. \A r \in Rows : /\ r.key \in Keys /\ r.tuples \subseteq Tuples /\ r.tuples # {}
                        /\ \A t \in r.tuples : Hash[KeyOf(t)] = Hash[r.key]
    BY DEF Rows, HashOf
  <1> HIDE DEF all, D
  <1>7. ASSUME NEW n \in miss
        PROVE  \E i \in DOMAIN created : target(n) = L + i /\ created[i].key = rs[n].key
    <2> DEFINE g == CHOOSE g \in DOMAIN created : created[g].key = rs[n].key
    <2>1. g \in DOMAIN created /\ created[g].key = rs[n].key
      BY <1>3
    <2>2. target(n) = L + g
      OBVIOUS
    <2> HIDE DEF g, target
    <2> QED
      BY <2>1, <2>2
  <1>8. \A n \in DOMAIN rs \ miss : target(n) = match[n]
    OBVIOUS
  <1> HIDE DEF target, L
  <1>9. ASSUME NEW n \in DOMAIN rs
        PROVE  target(n) \in D /\ Hash[all[target(n)].key] = Hash[rs[n].key]
    <2>1. CASE n \in miss
      BY <1>4, <1>7, <2>1
    <2>2. CASE n \notin miss
      BY <1>2, <1>4, <1>8, <2>2 DEF HashOf
    <2> QED
      BY <2>1, <2>2
  <1>10. \A g \in D : \A t : t \in added(g) <=> \E n \in DOMAIN rs : target(n) = g
            /\ t \in rs[n].tuples
    OBVIOUS
  <1> HIDE DEF added
  <1>11. ASSUME NEW g \in D
         PROVE  res[g] = [key |-> all[g].key, tuples |-> all[g].tuples \cup added(g)]
    <2>1. all[g] \in [key : Keys, tuples : SUBSET Tuples]
      BY <1>4 DEF RawRows
    <2> QED
      BY <2>1 DEF D
  <1>12. DOMAIN res = D
    BY DEF D
  <1> HIDE DEF res
  <1>13. ASSUME NEW g \in D PROVE res[g] \in Rows
    <2> DEFINE k == all[g].key
               T == all[g].tuples \cup added(g)
    <2>1. k \in Keys /\ all[g].tuples \subseteq Tuples
      BY <1>4 DEF RawRows
    <2>2. \A t \in all[g].tuples : Hash[KeyOf(t)] = Hash[k]
      <3>1. CASE g \in DOMAIN gs
        BY <1>4, <1>5, <1>6, <3>1
      <3>2. CASE g \notin DOMAIN gs
        BY <1>3, <1>4, <3>2
      <3> QED
        BY <3>1, <3>2
    <2>3. \A t \in added(g) : t \in Tuples /\ Hash[KeyOf(t)] = Hash[k]
      <3> SUFFICES ASSUME NEW t \in added(g) PROVE t \in Tuples /\ Hash[KeyOf(t)] = Hash[k]
        OBVIOUS
      <3>1. PICK n \in DOMAIN rs : target(n) = g /\ t \in rs[n].tuples
        BY <1>10
      <3> QED
        BY <1>5, <1>6, <1>9, <3>1
    <2>4. T # {}
      <3>1. CASE g \in DOMAIN gs
        BY <1>4, <1>5, <1>6, <3>1
      <3>2. CASE g \notin DOMAIN gs
        <4>1. PICK i \in DOMAIN created : g = L + i /\ all[g] = created[i]
          BY <1>4, <3>2
        <4>2. PICK n \in miss : created[i].key = rs[n].key
          BY <1>3
        <4>3. target(n) = g
          BY <1>3, <1>7, <4>1, <4>2
        <4>4. n \in DOMAIN rs /\ rs[n].tuples # {}
          BY <1>2, <1>5, <1>6
        <4> QED
          BY <1>10, <4>3, <4>4
      <3> QED
        BY <3>1, <3>2
    <2>5. T \subseteq Tuples /\ \A t \in T : Hash[KeyOf(t)] = Hash[k]
      BY <2>1, <2>2, <2>3
    <2>6. res[g] = [key |-> k, tuples |-> T]
      BY <1>11
    <2> HIDE DEF k, T
    <2> QED
      BY <2>1, <2>4, <2>5, <2>6 DEF Rows, HashOf
  <1>14. res \in Seq(Rows) /\ L <= Len(res)
    <2>1. res = [g \in 1 .. L + Len(created) |-> res[g]]
      BY <1>4, <1>12 DEF res
    <2>2. res \in [1 .. L + Len(created) -> Rows] /\ L + Len(created) \in Nat
      BY <1>4, <1>5, <1>13, <2>1
    <2>3. res \in Seq(Rows) /\ Len(res) = L + Len(created)
      BY <2>2
    <2> QED
      BY <1>5, <2>3
  <1>15. \A t : t \in TuplesOf(gs) <=> \E g \in DOMAIN gs : t \in gs[g].tuples
    BY DEF TuplesOf, ToSet
  <1>16. \A t : t \in TuplesOf(rs) <=> \E n \in DOMAIN rs : t \in rs[n].tuples
    BY DEF TuplesOf, ToSet
  <1>17. \A g \in D : \A t : t \in all[g].tuples => g \in DOMAIN gs /\ t \in gs[g].tuples
    BY <1>3, <1>4
  <1>18. Disjoint(res)
    <2> SUFFICES ASSUME NEW g \in D, NEW h \in D, NEW t, t \in res[g].tuples, t \in res[h].tuples
                 PROVE  g = h
      BY <1>12 DEF Disjoint
    <2>1. t \in all[g].tuples \/ t \in added(g)
      <3>1. res[g] = [key |-> all[g].key, tuples |-> all[g].tuples \cup added(g)]
        BY <1>11, Zenon
      <3> QED
        BY <3>1
    <2>2. t \in all[h].tuples \/ t \in added(h)
      <3>1. res[h] = [key |-> all[h].key, tuples |-> all[h].tuples \cup added(h)]
        BY <1>11, Zenon
      <3> QED
        BY <3>1
    <2>3. \A x \in D : t \in all[x].tuples => x \in DOMAIN gs /\ t \in gs[x].tuples
      BY <1>17
    <2>4. \A x \in D : t \in added(x) => \E n \in DOMAIN rs : target(n) = x /\ t \in rs[n].tuples
      BY <1>10
    <2>5. ~(t \in TuplesOf(gs) /\ t \in TuplesOf(rs))
      BY DEF Apart
    <2>6. CASE t \in all[g].tuples /\ t \in all[h].tuples
      BY <2>3, <2>6 DEF Disjoint
    <2>7. CASE t \in added(g) /\ t \in added(h)
      <3>1. PICK n \in DOMAIN rs : target(n) = g /\ t \in rs[n].tuples
        BY <2>4, <2>7
      <3>2. PICK m \in DOMAIN rs : target(m) = h /\ t \in rs[m].tuples
        BY <2>4, <2>7
      <3>3. n = m
        BY <3>1, <3>2 DEF Disjoint
      <3> QED
        BY <3>1, <3>2, <3>3
    <2>8. ASSUME NEW x \in D, NEW y \in D, t \in all[x].tuples, t \in added(y) PROVE FALSE
      BY <1>15, <1>16, <2>3, <2>4, <2>5, <2>8
    <2> QED
      BY <2>1, <2>2, <2>6, <2>7, <2>8
  <1>19. \A t : t \in TuplesOf(res) <=> \E g \in D : t \in all[g].tuples \/ t \in added(g)
    BY <1>11, <1>12 DEF TuplesOf, ToSet
  <1>20. \A t : t \in TuplesOf(res) <=> t \in TuplesOf(gs) \/ t \in TuplesOf(rs)
    <2> TAKE t
    <2>1. ASSUME t \in TuplesOf(res) PROVE t \in TuplesOf(gs) \/ t \in TuplesOf(rs)
      BY <1>10, <1>15, <1>16, <1>17, <1>19, <2>1
    <2>2. ASSUME t \in TuplesOf(gs) PROVE t \in TuplesOf(res)
      BY <1>4, <1>15, <1>19, <2>2
    <2>3. ASSUME t \in TuplesOf(rs) PROVE t \in TuplesOf(res)
      <3>1. PICK n \in DOMAIN rs : t \in rs[n].tuples
        BY <1>16, <2>3
      <3>2. target(n) \in D
        BY <1>9
      <3> QED
        BY <1>10, <1>19, <3>1, <3>2
    <2> QED
      BY <2>1, <2>2, <2>3
  <1> QED
    BY <1>1, <1>14, <1>18, <1>20 DEF L

-----------------------------------------------------------------------------
(***************************************************************************)
(* The tuples of rows, of vectors and of a flush.                          *)
(***************************************************************************)
\* A tuple of the input has a key, and a partition.
LEMMA TupleIs ==
  ASSUME TypeInv, NEW t \in Tuples
  PROVE  /\ t[1] \in Workers
         /\ t[2] \in 1 .. Len(input[t[1]])
         /\ KeyOf(t) \in Keys
         /\ PartOf(t) \in Parts
  <1>1. PICK w, n, i :
          w \in Workers /\ n \in DOMAIN input[w] /\ i \in DOMAIN input[w][n] /\ t = <<w, n, i>>
    BY DEF Tuples
  <1>2. input[w] \in Seq(Seq(Keys))
    BY <1>1, InputsAssumption DEF TypeInv
  <1>3. DOMAIN input[w] = 1 .. Len(input[w]) /\ input[w][n] \in Seq(Keys)
    BY <1>1, <1>2, ElementsOf
  <1>4. input[w][n][i] \in Keys
    BY <1>1, <1>3, ElementsOf
  <1>5. KeyOf(t) = input[w][n][i]
    BY <1>1 DEF KeyOf
  <1>6. KeyOf(t) \in Keys
    BY <1>4, <1>5
  <1>7. PartOf(t) \in Parts
    BY <1>6, PartitionsAssumption DEF PartOf, Parts
  <1> QED
    BY <1>1, <1>3, <1>6, <1>7

\* Which tuples rows have.
LEMMA TuplesAre ==
  ASSUME NEW s \in Seq(Rows)
  PROVE  /\ \A t : t \in TuplesOf(s) <=> \E i \in 1 .. Len(s) : t \in s[i].tuples
         /\ TuplesOf(s) \subseteq Tuples
  <1>1. DOMAIN s = 1 .. Len(s) /\ \A i \in 1 .. Len(s) : s[i] \in Rows
    BY ElementsOf
  <1>2. \A r \in Rows : r.tuples \subseteq Tuples
    BY DEF Rows
  <1>3. \A t : t \in TuplesOf(s) <=> \E i \in 1 .. Len(s) : t \in s[i].tuples
    BY <1>1 DEF TuplesOf, ToSet
  <1> QED
    BY <1>1, <1>2, <1>3

\* No rows have no tuples.
LEMMA NoTuples ==
  TuplesOf(<<>>) = {}
  BY DEF TuplesOf, ToSet

\* Rows that are apart, one behind the other.
LEMMA ConcatDisjoint ==
  ASSUME NEW s \in Seq(Rows), NEW r \in Seq(Rows), Disjoint(s), Disjoint(r), Apart(s, r)
  PROVE  Disjoint(s \o r)
  <1> DEFINE q == s \o r
             L == Len(s)
  <1>1. \A g \in DOMAIN q : \/ g \in DOMAIN s /\ q[g] = s[g]
                            \/ \E i \in DOMAIN r : g = L + i /\ q[g] = r[i]
    BY BehindIs
  <1>2. /\ \A g \in DOMAIN s : \A t \in s[g].tuples : t \in TuplesOf(s)
        /\ \A g \in DOMAIN r : \A t \in r[g].tuples : t \in TuplesOf(r)
    BY DEF TuplesOf, ToSet
  <1> HIDE DEF q, L
  <1>3. ASSUME NEW g \in DOMAIN q, NEW h \in DOMAIN q, NEW t, t \in q[g].tuples, t \in q[h].tuples
        PROVE  g = h
    <2>1. ~(t \in TuplesOf(s) /\ t \in TuplesOf(r))
      BY DEF Apart
    <2>2. CASE g \in DOMAIN s /\ q[g] = s[g]
      <3>1. h \in DOMAIN s /\ q[h] = s[h]
        BY <1>1, <1>2, <1>3, <2>1, <2>2
      <3> QED
        BY <1>3, <2>2, <3>1 DEF Disjoint
    <2>3. CASE \E i \in DOMAIN r : g = L + i /\ q[g] = r[i]
      <3>1. PICK i \in DOMAIN r : g = L + i /\ q[g] = r[i]
        BY <2>3
      <3>2. PICK j \in DOMAIN r : h = L + j /\ q[h] = r[j]
        BY <1>1, <1>2, <1>3, <2>1, <3>1
      <3>3. i = j
        BY <1>3, <3>1, <3>2 DEF Disjoint
      <3> QED
        BY <3>1, <3>2, <3>3
    <2> QED
      BY <1>1, <2>2, <2>3
  <1>4. Disjoint(q)
    BY <1>3 DEF Disjoint
  <1> QED
    BY <1>4 DEF q

\* What is kept of rows.
LEMMA KeptDisjoint ==
  ASSUME NEW s \in Seq(Rows), Disjoint(s), NEW S
  PROVE  Disjoint(Kept(s, S))
  <1> DEFINE k == Kept(s, S)
  <1>1. DOMAIN s = 1 .. Len(s) /\ \A i \in 1 .. Len(s) : s[i] \in Rows
    BY ElementsOf
  <1>2. \A i, j \in 1 .. Len(s) : s[i] = s[j] => i = j
    <2> SUFFICES ASSUME NEW i \in 1 .. Len(s), NEW j \in 1 .. Len(s), s[i] = s[j] PROVE i = j
      OBVIOUS
    <2>1. PICK t : t \in s[i].tuples
      BY <1>1 DEF Rows
    <2> QED
      BY <1>1, <2>1 DEF Disjoint
  <1>3. /\ k \in Seq(Rows)
        /\ \A n \in 1 .. Len(k) : \E m \in 1 .. Len(s) : k[n] = s[m]
        /\ \A m, n \in 1 .. Len(k) : k[m] = k[n] => m = n
    BY <1>2, KeptPlaces
  <1> HIDE DEF k
  <1>4. DOMAIN k = 1 .. Len(k)
    BY <1>3
  <1>5. ASSUME NEW g \in 1 .. Len(k), NEW h \in 1 .. Len(k), NEW t, t \in k[g].tuples,
            t \in k[h].tuples
        PROVE  g = h
    <2>1. PICK m \in 1 .. Len(s) : k[g] = s[m]
      BY <1>3
    <2>2. PICK n \in 1 .. Len(s) : k[h] = s[n]
      BY <1>3
    <2>3. m = n
      BY <1>1, <1>5, <2>1, <2>2 DEF Disjoint
    <2> QED
      BY <1>3, <2>1, <2>2, <2>3
  <1>6. Disjoint(k)
    BY <1>4, <1>5 DEF Disjoint
  <1> QED
    BY <1>6 DEF k

\* A part of rows.
LEMMA PartDisjoint ==
  ASSUME NEW s \in Seq(Rows), Disjoint(s), NEW m \in 1 .. Len(s) + 1, NEW n \in 0 .. Len(s)
  PROVE  Disjoint(SubSeq(s, m, n))
  <1> DEFINE q == SubSeq(s, m, n)
  <1>1. /\ q \in Seq(Rows)
        /\ Len(q) = IF m <= n THEN n - m + 1 ELSE 0
        /\ \A i \in 1 .. Len(q) : q[i] = s[m + i - 1]
    OBVIOUS
  <1> HIDE DEF q
  <1>2. DOMAIN q = 1 .. Len(q) /\ DOMAIN s = 1 .. Len(s) /\ Len(s) \in Nat
    BY <1>1
  <1>3. \A i \in 1 .. Len(q) : m + i - 1 \in DOMAIN s
    BY <1>1, <1>2
  <1>4. \A i, j \in 1 .. Len(q) : m + i - 1 = m + j - 1 => i = j
    BY <1>1, <1>2
  <1>5. Disjoint(q)
    BY <1>1, <1>2, <1>3, <1>4 DEF Disjoint
  <1> QED
    BY <1>5 DEF q

\* The tuples of a vector of the child.
LEMMA VectorIs ==
  ASSUME TypeInv, NEW w \in Workers, NEW n \in 1 .. Len(input[w])
  PROVE  /\ Vector(w, n) \in Seq(Rows) /\ Disjoint(Vector(w, n))
         /\ \A t \in Tuples : t \in TuplesOf(Vector(w, n)) <=> t[1] = w /\ t[2] = n
  <1>1. input[w] \in Seq(Seq(Keys))
    BY InputsAssumption DEF TypeInv
  <1>2. DOMAIN input[w] = 1 .. Len(input[w]) /\ input[w][n] \in Seq(Keys)
    BY <1>1, ElementsOf
  <1> DEFINE s == input[w][n]
             v == Vector(w, n)
  <1>3. DOMAIN s = 1 .. Len(s) /\ Len(s) \in Nat /\ \A i \in 1 .. Len(s) : s[i] \in Keys
    BY <1>2, ElementsOf
  <1>4. v = [i \in 1 .. Len(s) |-> [key |-> s[i], tuples |-> {<<w, n, i>>}]]
    BY <1>3 DEF Vector
  <1>5. \A i \in 1 .. Len(s) : <<w, n, i>> \in Tuples /\ KeyOf(<<w, n, i>>) = s[i]
    BY <1>2, <1>3 DEF Tuples, KeyOf
  <1>6. ASSUME NEW i \in 1 .. Len(s)
        PROVE  [key |-> s[i], tuples |-> {<<w, n, i>>}] \in Rows
    BY <1>3, <1>5 DEF Rows, HashOf
  <1> HIDE DEF s, v
  <1>7. v \in [1 .. Len(s) -> Rows]
    BY <1>4, <1>6
  <1>8. v \in Seq(Rows) /\ Len(v) = Len(s)
    BY <1>3, <1>7
  <1>9. \A i \in 1 .. Len(s) : v[i].tuples = {<<w, n, i>>}
    BY <1>4
  <1>10. ASSUME NEW t \in Tuples PROVE t \in TuplesOf(v) <=> t[1] = w /\ t[2] = n
    <2>1. t \in TuplesOf(v) <=> \E i \in 1 .. Len(s) : t = <<w, n, i>>
      BY <1>8, <1>9, TuplesAre
    <2>2. PICK u, m, i :
            u \in Workers /\ m \in DOMAIN input[u] /\ i \in DOMAIN input[u][m] /\ t = <<u, m, i>>
      BY DEF Tuples
    <2>3. t[1] = u /\ t[2] = m
      BY <2>2
    <2>4. ASSUME u = w, m = n PROVE t \in TuplesOf(v)
      <3>1. i \in 1 .. Len(s)
        BY <1>3, <2>2, <2>4 DEF s
      <3> QED
        BY <2>1, <2>2, <2>4, <3>1
    <2>5. ASSUME t \in TuplesOf(v) PROVE u = w /\ m = n
      BY <2>1, <2>2, <2>5
    <2> QED
      BY <2>3, <2>4, <2>5
  <1>11. Disjoint(v)
    <2>1. \A i, j : <<w, n, i>> = <<w, n, j>> => i = j
      OBVIOUS
    <2>2. DOMAIN v = 1 .. Len(s)
      BY <1>8
    <2> QED
      BY <1>9, <2>1, <2>2 DEF Disjoint
  <1> QED
    BY <1>8, <1>10, <1>11 DEF v

\* A flush moves the groups of a table to the partitions of their hashes.
LEMMA FlushIs ==
  ASSUME TypeInv, NEW w \in Workers, NEW all \in Seq(Rows), Disjoint(all),
         \A p \in Parts : Disjoint(spill[w][p]),
         \A t : ~(t \in TuplesOf(all) /\ Spilled(w, t))
  PROVE  /\ Flushed(w, all) \in [Parts -> Seq(Rows)]
         /\ \A p \in Parts : Disjoint(Flushed(w, all)[p])
         /\ \A p \in Parts : \A t :
               t \in TuplesOf(Flushed(w, all)[p]) <=>
                  t \in TuplesOf(spill[w][p]) \/ (t \in TuplesOf(all) /\ PartOf(t) = p)
  <1> DEFINE S(p) == {g \in ToSet(all) : HashOf(g).part = p}
             K(p) == Kept(all, S(p))
  <1>1. Flushed(w, all) = [p \in Parts |-> spill[w][p] \o K(p)]
    BY DEF Flushed, Parts
  <1>2. ASSUME NEW p \in Parts
        PROVE  /\ spill[w][p] \in Seq(Rows)
               /\ K(p) \in Seq(Rows)
               /\ ToSet(K(p)) = S(p)
    <2>1. K(p) \in Seq(Rows) /\ ToSet(K(p)) = ToSet(all) \cap S(p)
      BY KeptIs
    <2> QED
      BY <2>1 DEF TypeInv
  <1>3. ASSUME NEW p \in Parts, NEW t
        PROVE  t \in TuplesOf(spill[w][p] \o K(p)) <=>
                  t \in TuplesOf(spill[w][p]) \/ (t \in TuplesOf(all) /\ PartOf(t) = p)
    <2>1. ToSet(spill[w][p] \o K(p)) = ToSet(spill[w][p]) \cup S(p)
      BY <1>2, ConcatElements
    <2>2. \A g \in ToSet(all) : g \in Rows
      BY ElementsOf
    <2>3. \A g \in ToSet(all) : t \in g.tuples => Hash[KeyOf(t)] = HashOf(g)
      BY <2>2 DEF Rows
    <2>4. \A g \in ToSet(all) : t \in g.tuples => (HashOf(g).part = p <=> PartOf(t) = p)
      BY <2>3 DEF PartOf
    <2>5. t \in TuplesOf(all) /\ PartOf(t) = p <=> \E g \in S(p) : t \in g.tuples
      BY <2>4 DEF TuplesOf
    <2> HIDE DEF S, K
    <2> QED
      BY <2>1, <2>5 DEF TuplesOf
  <1>4. \A p \in Parts : spill[w][p] \o K(p) \in Seq(Rows)
    <2> HIDE DEF K
    <2> QED
      BY <1>2, ConcatIs
  <1>5. ASSUME NEW p \in Parts PROVE Disjoint(spill[w][p] \o K(p))
    <2>1. Disjoint(K(p))
      BY KeptDisjoint
    <2>2. \A g \in S(p) : g \in ToSet(all)
      OBVIOUS
    <2> HIDE DEF S, K
    <2>3. \A t : t \in TuplesOf(K(p)) => t \in TuplesOf(all)
      BY <1>2, <2>2 DEF TuplesOf
    <2>4. Apart(spill[w][p], K(p))
      BY <2>3 DEF Apart, Spilled
    <2> QED
      BY <1>2, <2>1, <2>4, ConcatDisjoint
  <1> HIDE DEF K, S
  <1> QED
    BY <1>1, <1>3, <1>4, <1>5

-----------------------------------------------------------------------------
(***************************************************************************)
(* What a step of one worker leaves alone.                                 *)
(***************************************************************************)
\* The input does not change, and what is said in terms of it.
LEMMA InputStays ==
  ASSUME input' = input
  PROVE  /\ Tuples' = Tuples
         /\ Rows' = Rows
         /\ \A t : KeyOf(t)' = KeyOf(t) /\ PartOf(t)' = PartOf(t)
  BY DEF Tuples, Rows, KeyOf, PartOf

\* Nothing of worker v changes.
Stays(v) ==
  /\ nread'[v] = nread[v]
  /\ groups'[v] = groups[v]
  /\ blocks'[v] = blocks[v]
  /\ spill'[v] = spill[v]
  /\ mine'[v] = mine[v]
  /\ unread'[v] = unread[v]
  /\ rows'[v] = rows[v]
  /\ iter'[v] = iter[v]
  /\ pc'[v] = pc[v]

\* Nobody else has the storages read while a worker writes its own.
SpillStays(v) == pc[v] = "aggregate" => spill' = spill

\* What the invariant says of a worker still holds if nothing of it changes.
LEMMA OthersStay ==
  ASSUME WorkersInv, input' = input, NEW v \in Workers, Stays(v), SpillStays(v)
  PROVE  /\ SpillOf(v)' /\ GroupOf(v)' /\ BlocksOf(v)'
         /\ \A t : Ahead(v, t)' <=> Ahead(v, t)
         /\ Drawn(v)' <=> Drawn(v)
  <1>1. SpillOf(v) /\ GroupOf(v) /\ BlocksOf(v)
    BY DEF WorkersInv
  <1>2. Tuples' = Tuples /\ \A t : PartOf(t)' = PartOf(t)
    BY InputStays
  <1>3. \A t : Spilled(v, t)' <=> Spilled(v, t)
    BY DEF Stays, Spilled, TuplesOf, Parts
  <1>4. SpillOf(v)'
    BY <1>1, <1>2, <1>3 DEF Stays, SpillOf, TuplesOf, Parts, Disjoint
  <1>5. GroupOf(v)'
    <2>1. CASE pc[v] = "aggregate"
      BY <1>1, <1>2, <2>1 DEF Stays, SpillStays, GroupOf, TuplesOf, Disjoint, Apart
    <2>2. CASE pc[v] # "aggregate"
      BY <1>1, <1>2, <2>2 DEF Stays, GroupOf, TuplesOf, Disjoint, Apart
    <2> QED
      BY <2>1, <2>2
  <1>6. BlocksOf(v)'
    BY <1>1 DEF Stays, BlocksOf, BlockEnd
  <1>7. \A t : Ahead(v, t)' <=> Ahead(v, t)
    BY <1>2 DEF Stays, Ahead, BlockEnd
  <1> QED
    BY <1>4, <1>5, <1>6, <1>7 DEF Stays, Drawn

\* So it is enough to look at the worker that takes the step.
LEMMA WorkersKeep ==
  ASSUME WorkersInv, input' = input, NEW w \in Workers,
         \A v \in Workers \ {w} : Stays(v) /\ SpillStays(v),
         SpillOf(w)', GroupOf(w)', BlocksOf(w)'
  PROVE  /\ WorkersInv'
         /\ \A v \in Workers \ {w} : \A t : Ahead(v, t)' <=> Ahead(v, t)
         /\ \A v \in Workers \ {w} : Drawn(v)' <=> Drawn(v)
  <1>1. \A v \in Workers \ {w} : /\ SpillOf(v)' /\ GroupOf(v)' /\ BlocksOf(v)'
                                 /\ \A t : Ahead(v, t)' <=> Ahead(v, t)
                                 /\ Drawn(v)' <=> Drawn(v)
    BY OthersStay
  <1> QED
    BY <1>1 DEF WorkersInv

\* The partitions drawn, where no other is drawn.
LEMMA DrawnKeeps ==
  ASSUME DrawnInv, NEW w \in Workers, DrawnOf(w)', partition' = partition,
         \A v \in Workers \ {w} : Stays(v),
         Drawn(w)' => Drawn(w) /\ mine'[w] = mine[w],
         pc[w] # "consume" => pc'[w] # "consume",
         pc'[w] \notin {"consume", "waiting"} => pc[w] \notin {"consume", "waiting"}
  PROVE  DrawnInv'
  <1>1. \A v \in Workers \ {w} : DrawnOf(v)' /\ (Drawn(v)' <=> Drawn(v))
    BY DEF DrawnInv, DrawnOf, Drawn, Stays
  <1>2. \A v \in Workers : DrawnOf(v)'
    BY <1>1
  <1>3. ASSUME NEW v \in Workers, NEW u \in Workers
        PROVE  /\ pc'[v] \notin {"consume", "waiting"} => pc'[u] # "consume"
               /\ Drawn(v)' /\ Drawn(u)' /\ v # u => mine'[v] # mine'[u]
    <2>1. pc[v] \notin {"consume", "waiting"} => pc[u] # "consume"
      BY DEF DrawnInv
    <2>2. Drawn(v) /\ Drawn(u) /\ v # u => mine[v] # mine[u]
      BY DEF DrawnInv
    <2>3. pc'[v] \notin {"consume", "waiting"} => pc[v] \notin {"consume", "waiting"}
      BY DEF Stays
    <2>4. pc[u] # "consume" => pc'[u] # "consume"
      BY DEF Stays
    <2>5. \A x \in {u, v} : Drawn(x)' => Drawn(x) /\ mine'[x] = mine[x]
      BY <1>1 DEF Stays
    <2> QED
      BY <2>1, <2>2, <2>3, <2>4, <2>5
  <1> QED
    BY <1>2, <1>3 DEF DrawnInv

\* What remains, where nothing of it is taken.
LEMMA RemainingKeeps ==
  ASSUME RemainingInv, input' = input, NEW w \in Workers,
         partition' = partition, remaining' = remaining,
         \A v \in Workers \ {w} : \A t : Ahead(v, t)' <=> Ahead(v, t),
         \A t \in Tuples : Ahead(w, t)' <=> Ahead(w, t)
  PROVE  RemainingInv'
  <1>1. Tuples' = Tuples /\ \A t : PartOf(t)' = PartOf(t)
    BY InputStays
  <1>2. \A t \in Tuples : \A v \in Workers : Ahead(v, t)' <=> Ahead(v, t)
    OBVIOUS
  <1> QED
    BY <1>1, <1>2 DEF RemainingInv

\* Where groups are added, they are a block of their own.
LEMMA BlocksGrow ==
  ASSUME TypeInv, NEW w \in Workers, BlocksOf(w), NEW all \in Seq(Rows),
         Len(groups[w]) <= Len(all), SetTable(w, all), pc'[w] \notin {"emit", "return"}
  PROVE  BlocksOf(w)' /\ blocks' \in [Workers -> Seq(Nat)]
  <1> DEFINE b == blocks[w]
             c == blocks'[w]
             NewEnd(x) == IF x = 0 THEN 0 ELSE c[x]
  <1>1. /\ groups'[w] = all
        /\ c = IF Len(all) > Len(groups[w]) THEN Append(b, Len(all)) ELSE b
        /\ b \in Seq(Nat) /\ Len(b) \in Nat /\ Len(all) \in Nat /\ Len(groups[w]) \in Nat
    BY DEF SetTable, TypeInv
  <1>2. /\ BlockEnd(w, Len(b)) = Len(groups[w])
        /\ \A x, y \in 0 .. Len(b) : x < y => BlockEnd(w, x) < BlockEnd(w, y)
    BY DEF BlocksOf
  <1>3. BlocksOf(w)' <=> /\ NewEnd(Len(c)) = Len(groups'[w])
                         /\ \A x, y \in 0 .. Len(c) : x < y => NewEnd(x) < NewEnd(y)
    BY DEF BlocksOf, BlockEnd
  <1>4. \A x \in 0 .. Len(b) : BlockEnd(w, x) \in Nat
    <2>1. \A x \in 1 .. Len(b) : b[x] \in Nat
      BY <1>1
    <2> QED
      BY <1>1, <2>1 DEF BlockEnd
  <1>5. blocks' \in [Workers -> Seq(Nat)]
    <2>1. Append(b, Len(all)) \in Seq(Nat)
      BY <1>1
    <2> QED
      BY <1>1, <2>1 DEF SetTable, TypeInv
  <1>6. CASE Len(all) > Len(groups[w])
    <2>1. c = Append(b, Len(all))
      BY <1>1, <1>6
    <2>2. Len(c) = Len(b) + 1 /\ c[Len(b) + 1] = Len(all) /\ \A x \in 1 .. Len(b) : c[x] = b[x]
      BY <1>1, <2>1
    <2> HIDE DEF b, c
    <2>3. \A x \in 0 .. Len(b) : NewEnd(x) = BlockEnd(w, x)
      BY <1>1, <2>2 DEF BlockEnd, b
    <2>4. NewEnd(Len(b) + 1) = Len(all)
      BY <1>1, <2>2
    <2>5. \A x \in 0 .. Len(b) : BlockEnd(w, x) <= Len(groups[w])
      BY <1>1, <1>2, <1>4
    <2>6. ASSUME NEW x \in 0 .. Len(c), NEW y \in 0 .. Len(c), x < y
          PROVE  NewEnd(x) < NewEnd(y)
      <3>1. x \in 0 .. Len(b) /\ (y \in 0 .. Len(b) \/ y = Len(b) + 1)
        BY <1>1, <2>2, <2>6
      <3>2. CASE y \in 0 .. Len(b)
        <4> HIDE DEF NewEnd
        <4> QED
          BY <1>2, <2>3, <2>6, <3>1, <3>2
      <3>3. CASE y = Len(b) + 1
        <4>1. x \in 0 .. Len(b)
          BY <1>1, <2>6, <3>1, <3>3
        <4>2. NewEnd(x) \in Nat /\ NewEnd(x) <= Len(groups[w]) /\ NewEnd(y) = Len(all)
          BY <1>4, <2>3, <2>4, <2>5, <3>3, <4>1
        <4> HIDE DEF NewEnd
        <4> QED
          BY <1>1, <1>6, <4>2
      <3> QED
        BY <3>1, <3>2, <3>3
    <2>7. NewEnd(Len(c)) = Len(all)
      BY <2>2, <2>4
    <2>8. BlocksOf(w)'
      <3> HIDE DEF NewEnd
      <3> QED
        BY <1>1, <1>3, <2>6, <2>7
    <2> QED
      BY <1>5, <2>8
  <1>7. CASE ~(Len(all) > Len(groups[w]))
    <2>1. c = b /\ Len(all) = Len(groups[w])
      BY <1>1, <1>7
    <2>2. \A x : NewEnd(x) = BlockEnd(w, x)
      BY <2>1 DEF BlockEnd
    <2>3. BlocksOf(w)'
      <3> HIDE DEF NewEnd
      <3> QED
        BY <1>1, <1>2, <1>3, <2>1, <2>2
    <2> QED
      BY <1>5, <2>3
  <1> QED
    BY <1>6, <1>7

\* An empty table has no blocks.
LEMMA BlocksEmpty ==
  ASSUME NEW w \in Workers, groups'[w] = <<>>, blocks'[w] = <<>>, pc'[w] \notin {"emit", "return"}
  PROVE  BlocksOf(w)'
  <1>1. Len(blocks'[w]) = 0 /\ Len(groups'[w]) = 0
    OBVIOUS
  <1>2. \A b, c \in 0 .. 0 : ~(b < c)
    OBVIOUS
  <1> QED
    BY <1>1, <1>2 DEF BlocksOf, BlockEnd

-----------------------------------------------------------------------------
(***************************************************************************)
(* Phase 1.                                                                *)
(***************************************************************************)
\* While a worker consumes, nobody is behind the barrier.
LEMMA NobodyIsBehind ==
  ASSUME DrawnInv, NEW w \in Workers, pc[w] = "consume"
  PROVE  \A v \in Workers : SpillStays(v)
  BY DEF DrawnInv, SpillStays

\* A flush empties the table, and loses nothing.
LEMMA FlushKeeps ==
  ASSUME TypeInv, NEW w \in Workers, SpillOf(w), NEW all \in Seq(Rows), Disjoint(all),
         \A t : ~(t \in TuplesOf(all) /\ Spilled(w, t)), flushAndClear(w, all)
  PROVE  /\ groups'[w] = <<>> /\ blocks'[w] = <<>>
         /\ \A v \in Workers \ {w} : /\ groups'[v] = groups[v]
                                     /\ blocks'[v] = blocks[v]
                                     /\ spill'[v] = spill[v]
         /\ groups' \in [Workers -> Seq(Rows)]
         /\ blocks' \in [Workers -> Seq(Nat)]
         /\ spill' \in [Workers -> [Parts -> Seq(Rows)]]
         /\ \A p \in Parts : /\ Disjoint(spill'[w][p])
                             /\ \A t \in TuplesOf(spill'[w][p]) : PartOf(t) = p
         /\ \A t \in Tuples :
               (\E p \in Parts : t \in TuplesOf(spill'[w][p])) <=>
                  Spilled(w, t) \/ t \in TuplesOf(all)
  <1>1. /\ groups' = [groups EXCEPT ![w] = <<>>]
        /\ blocks' = [blocks EXCEPT ![w] = <<>>]
        /\ spill' = [spill EXCEPT ![w] = Flushed(w, all)]
    BY DEF flushAndClear
  <1>2. /\ Flushed(w, all) \in [Parts -> Seq(Rows)]
        /\ \A p \in Parts : Disjoint(Flushed(w, all)[p])
        /\ \A p \in Parts : \A t :
              t \in TuplesOf(Flushed(w, all)[p]) <=>
                 t \in TuplesOf(spill[w][p]) \/ (t \in TuplesOf(all) /\ PartOf(t) = p)
    <2>1. \A p \in Parts : Disjoint(spill[w][p])
      BY DEF SpillOf
    <2> QED
      BY <2>1, FlushIs
  <1>3. groups' \in [Workers -> Seq(Rows)]
    <2>1. <<>> \in Seq(Rows)
      OBVIOUS
    <2> QED
      BY <1>1, <2>1 DEF TypeInv
  <1>4. blocks' \in [Workers -> Seq(Nat)]
    <2>1. <<>> \in Seq(Nat)
      OBVIOUS
    <2> QED
      BY <1>1, <2>1 DEF TypeInv
  <1>5. spill' \in [Workers -> [Parts -> Seq(Rows)]] /\ spill'[w] = Flushed(w, all)
    BY <1>1, <1>2 DEF TypeInv
  <1>6. \A p \in Parts : \A t \in TuplesOf(spill[w][p]) : PartOf(t) = p
    BY DEF SpillOf
  <1>7. \A p \in Parts : /\ Disjoint(spill'[w][p])
                          /\ \A t \in TuplesOf(spill'[w][p]) : PartOf(t) = p
    BY <1>2, <1>5, <1>6
  <1>8. \A t \in Tuples : PartOf(t) \in Parts
    BY TupleIs
  <1>9. \A t \in Tuples :
           (\E p \in Parts : t \in TuplesOf(spill'[w][p])) <=>
              Spilled(w, t) \/ t \in TuplesOf(all)
    BY <1>2, <1>5, <1>8 DEF Spilled
  <1>10. /\ groups'[w] = <<>> /\ blocks'[w] = <<>>
         /\ \A v \in Workers \ {w} : /\ groups'[v] = groups[v]
                                     /\ blocks'[v] = blocks[v]
                                     /\ spill'[v] = spill[v]
    BY <1>1 DEF TypeInv
  <1> QED
    BY <1>3, <1>4, <1>5, <1>7, <1>9, <1>10

\* A vector is consumed.
LEMMA ConsumeKeeps ==
  ASSUME IInv, NEW w \in Workers, ConsumeVector(w)
  PROVE  IInv'
  <1> DEFINE n == nread[w] + 1
             all == AddRows(groups[w], Vector(w, n))
             flush == flushAndClear(w, all)
  <1>1. TypeInv /\ WorkersInv /\ DrawnInv /\ RemainingInv
    BY DEF IInv
  <1>2. SpillOf(w) /\ GroupOf(w) /\ BlocksOf(w)
    BY <1>1 DEF WorkersInv
  <1>3. /\ pc[w] = "consume" /\ nread[w] < Len(input[w])
        /\ nread' = [nread EXCEPT ![w] = n]
        /\ flush \/ (SetTable(w, all) /\ spill' = spill)
        /\ UNCHANGED <<input, partition, mine, unread, rows, iter, pc, remaining>>
    BY DEF ConsumeVector
  <1>4. nread[w] \in Nat /\ Len(input[w]) \in Nat /\ n \in 1 .. Len(input[w])
    <2>1. input[w] \in Seq(Seq(Keys)) /\ nread[w] \in Nat
      BY <1>1, InputsAssumption DEF TypeInv
    <2>2. Len(input[w]) \in Nat
      BY <2>1
    <2> QED
      BY <1>3, <2>1, <2>2
  <1>5. /\ Vector(w, n) \in Seq(Rows) /\ Disjoint(Vector(w, n))
        /\ TuplesOf(Vector(w, n)) \subseteq Tuples
        /\ \A t \in Tuples : t \in TuplesOf(Vector(w, n)) <=> t[1] = w /\ t[2] = n
    <2> HIDE DEF n
    <2> QED
      BY <1>1, <1>4, VectorIs, TuplesAre
  <1>6. groups[w] \in Seq(Rows) /\ Disjoint(groups[w])
    BY <1>1, <1>2 DEF TypeInv, GroupOf
  <1>21. \A t \in TuplesOf(Vector(w, n)) : t \notin TuplesOf(groups[w]) /\ ~Spilled(w, t)
    <2>1. \A t \in Tuples : t[1] = w /\ t[2] <= nread[w] <=> t \in TuplesOf(groups[w])
              \/ Spilled(w, t)
      BY <1>2, <1>3 DEF SpillOf
    <2>2. ~(n <= nread[w])
      BY <1>4
    <2> HIDE DEF n
    <2> QED
      BY <1>5, <2>1, <2>2
  <1>7. /\ all \in Seq(Rows) /\ Disjoint(all) /\ Len(groups[w]) <= Len(all)
        /\ TuplesOf(all) = TuplesOf(groups[w]) \cup TuplesOf(Vector(w, n))
    <2>1. Apart(groups[w], Vector(w, n))
      BY <1>21, Zenon DEF Apart
    <2> HIDE DEF n
    <2> QED
      BY <1>5, <1>6, <2>1, AddRowsIs
  <1>22. \A t : ~(t \in TuplesOf(all) /\ Spilled(w, t))
    <2>1. \A t : ~(t \in TuplesOf(groups[w]) /\ Spilled(w, t))
      BY <1>2, <1>3 DEF SpillOf
    <2> HIDE DEF n, all
    <2> QED
      BY <1>7, <1>21, <2>1
  <1>8. \A t \in Tuples : t[1] = w /\ t[2] <= n <=> t \in TuplesOf(all) \/ Spilled(w, t)
    <2>1. \A t \in Tuples : t[1] = w /\ t[2] <= nread[w] <=> t \in TuplesOf(groups[w])
              \/ Spilled(w, t)
      BY <1>2, <1>3 DEF SpillOf
    <2>2. \A t \in Tuples : t[1] = w => t[2] \in Nat
      BY <1>1, <1>4, TupleIs
    <2>3. \A t \in Tuples : t[1] = w => (t[2] <= n <=> t[2] <= nread[w] \/ t[2] = n)
      BY <1>4, <2>2
    <2> HIDE DEF n, all
    <2> QED
      BY <1>5, <1>7, <2>1, <2>3
  <1> HIDE DEF all
  <1>9. Tuples' = Tuples /\ Rows' = Rows /\ \A t : PartOf(t)' = PartOf(t)
    BY <1>3, InputStays
  <1>10. nread' \in [Workers -> Nat] /\ nread'[w] = n
            /\ \A v \in Workers \ {w} : nread'[v] = nread[v]
    BY <1>1, <1>3, <1>4 DEF TypeInv
  <1>11. /\ groups' \in [Workers -> Seq(Rows)]
         /\ blocks' \in [Workers -> Seq(Nat)]
         /\ spill' \in [Workers -> [Parts -> Seq(Rows)]]
         /\ \A v \in Workers \ {w} : Stays(v)
         /\ BlocksOf(w)'
         /\ Disjoint(groups'[w])
         /\ \A p \in Parts : /\ Disjoint(spill'[w][p])
                             /\ \A t \in TuplesOf(spill'[w][p]) : PartOf(t) = p
         /\ \A t : ~(t \in TuplesOf(groups'[w]) /\ \E p \in Parts : t \in TuplesOf(spill'[w][p]))
         /\ \A t \in Tuples :
              t[1] = w /\ t[2] <= n <=>
                 t \in TuplesOf(groups'[w]) \/ \E p \in Parts : t \in TuplesOf(spill'[w][p])
    <2>1. CASE flush
      <3>1. /\ groups'[w] = <<>> /\ blocks'[w] = <<>>
            /\ \A v \in Workers \ {w} : /\ groups'[v] = groups[v]
                                        /\ blocks'[v] = blocks[v]
                                        /\ spill'[v] = spill[v]
            /\ groups' \in [Workers -> Seq(Rows)]
            /\ blocks' \in [Workers -> Seq(Nat)]
            /\ spill' \in [Workers -> [Parts -> Seq(Rows)]]
            /\ \A p \in Parts : /\ Disjoint(spill'[w][p])
                                /\ \A t \in TuplesOf(spill'[w][p]) : PartOf(t) = p
            /\ \A t \in Tuples :
                  (\E p \in Parts : t \in TuplesOf(spill'[w][p])) <=>
                     Spilled(w, t) \/ t \in TuplesOf(all)
        BY <1>1, <1>2, <1>7, <1>22, <2>1, FlushKeeps
      <3>2. BlocksOf(w)'
        BY <1>3, <3>1, BlocksEmpty
      <3>3. Disjoint(groups'[w])
        BY <3>1 DEF Disjoint, Apart
      <3>4. \A v \in Workers \ {w} : Stays(v)
        BY <1>3, <1>10, <3>1 DEF Stays
      <3>5. TuplesOf(groups'[w]) = {}
        BY <3>1, NoTuples
      <3> HIDE DEF n
      <3> QED
        BY <1>8, <3>1, <3>2, <3>3, <3>4, <3>5
    <2>2. CASE SetTable(w, all) /\ spill' = spill
      <3>1. BlocksOf(w)' /\ blocks' \in [Workers -> Seq(Nat)]
        BY <1>1, <1>2, <1>3, <1>7, <2>2, BlocksGrow
      <3>2. /\ groups' \in [Workers -> Seq(Rows)] /\ groups'[w] = all
            /\ \A v \in Workers \ {w} : groups'[v] = groups[v] /\ blocks'[v] = blocks[v]
        BY <1>1, <1>7, <2>2 DEF SetTable, TypeInv
      <3>3. \A v \in Workers \ {w} : Stays(v)
        BY <1>3, <1>10, <2>2, <3>2 DEF Stays
      <3>4. \A p \in Parts : /\ Disjoint(spill'[w][p])
                              /\ \A t \in TuplesOf(spill'[w][p]) : PartOf(t) = p
        BY <1>2, <2>2 DEF SpillOf
      <3>5. spill' \in [Workers -> [Parts -> Seq(Rows)]]
        BY <1>1, <2>2 DEF TypeInv
      <3>6. \A t : Spilled(w, t) <=> \E p \in Parts : t \in TuplesOf(spill'[w][p])
        BY <2>2 DEF Spilled
      <3> HIDE DEF n
      <3> QED
        BY <1>7, <1>8, <1>22, <3>1, <3>2, <3>3, <3>4, <3>5, <3>6
    <2> QED
      BY <1>3, <2>1, <2>2
  <1>12. SpillOf(w)'
    <2> HIDE DEF n
    <2>1. \A t : Spilled(w, t)' <=> \E p \in Parts : t \in TuplesOf(spill'[w][p])
      BY DEF Spilled, Parts, TuplesOf
    <2>2. (\A p \in Parts : /\ Disjoint(spill[w][p])
                            /\ \A t \in TuplesOf(spill[w][p]) : PartOf(t) = p)'
      BY <1>9, <1>11 DEF Parts, TuplesOf, Disjoint
    <2>3. (\A t : ~(t \in TuplesOf(groups[w]) /\ Spilled(w, t)))'
      <3>1. TuplesOf(groups[w])' = TuplesOf(groups'[w])
        BY DEF TuplesOf
      <3>2. \A t : ~(t \in TuplesOf(groups[w])' /\ Spilled(w, t)')
        BY <1>11, <2>1, <3>1
      <3> QED
        BY <3>2, Zenon
    <2>4. (\A t \in Tuples : t[1] = w /\ t[2] <= nread[w] <=> t \in TuplesOf(groups[w])
              \/ Spilled(w, t))'
      <3>1. TuplesOf(groups[w])' = TuplesOf(groups'[w])
        BY DEF TuplesOf
      <3>2. nread'[w] = n
        BY <1>10
      <3>3. ASSUME NEW t \in Tuples'
            PROVE  t[1] = w /\ t[2] <= nread'[w] <=> t \in TuplesOf(groups[w])' \/ Spilled(w, t)'
        <4>1. t \in Tuples
          BY <1>9, <3>3
        <4>2. t[1] = w /\ t[2] <= n <=>
                 t \in TuplesOf(groups'[w]) \/ \E p \in Parts : t \in TuplesOf(spill'[w][p])
          BY <1>11, <4>1
        <4>3. Spilled(w, t)' <=> \E p \in Parts : t \in TuplesOf(spill'[w][p])
          BY <2>1
        <4> QED
          BY <3>1, <3>2, <4>2, <4>3
      <3> QED
        BY <3>3, ZenonT(30)
    <2>5. (nread[w] <= Len(input[w]))' /\ pc'[w] = "consume"
      BY <1>3, <1>4, <1>10
    <2> QED
      BY <2>2, <2>3, <2>4, <2>5 DEF SpillOf
  <1>13. GroupOf(w)'
    BY <1>2, <1>3, <1>11 DEF GroupOf
  <1>14. TypeInv'
    BY <1>1, <1>3, <1>9, <1>10, <1>11 DEF TypeInv, Parts
  <1>15. \A v \in Workers \ {w} : Stays(v) /\ SpillStays(v)
    BY <1>1, <1>3, <1>11, NobodyIsBehind
  <1>16. WorkersInv' /\ \A v \in Workers \ {w} : \A t : Ahead(v, t)' <=> Ahead(v, t)
    BY <1>1, <1>3, <1>11, <1>12, <1>13, <1>15, WorkersKeep
  <1>17. DrawnInv'
    <2>1. DrawnOf(w)' /\ ~Drawn(w)'
      BY <1>3 DEF DrawnOf, Drawn
    <2> QED
      BY <1>1, <1>3, <1>11, <2>1, DrawnKeeps
  <1>18. RemainingInv'
    <2>1. \A t \in Tuples : Ahead(w, t)' <=> Ahead(w, t)
      BY <1>3 DEF Ahead
    <2> QED
      BY <1>1, <1>3, <1>16, <2>1, RemainingKeeps
  <1> QED
    BY <1>14, <1>16, <1>17, <1>18 DEF IInv

\* A worker arrives at the barrier.
LEMMA ArriveKeeps ==
  ASSUME IInv, NEW w \in Workers, Arrive(w)
  PROVE  IInv'
  <1>1. TypeInv /\ WorkersInv /\ DrawnInv /\ RemainingInv
    BY DEF IInv
  <1>2. SpillOf(w) /\ GroupOf(w) /\ groups[w] \in Seq(Rows)
    BY <1>1 DEF WorkersInv, TypeInv
  <1>3. /\ pc[w] = "consume" /\ nread[w] = Len(input[w])
        /\ flushAndClear(w, groups[w])
        /\ pc' = [pc EXCEPT ![w] = "waiting"]
        /\ UNCHANGED <<input, nread, partition, mine, unread, rows, iter, remaining>>
    BY DEF Arrive, Goto, source
  <1>4. /\ groups'[w] = <<>> /\ blocks'[w] = <<>>
        /\ \A v \in Workers \ {w} : /\ groups'[v] = groups[v]
                                    /\ blocks'[v] = blocks[v]
                                    /\ spill'[v] = spill[v]
        /\ groups' \in [Workers -> Seq(Rows)]
        /\ blocks' \in [Workers -> Seq(Nat)]
        /\ spill' \in [Workers -> [Parts -> Seq(Rows)]]
        /\ \A p \in Parts : /\ Disjoint(spill'[w][p])
                            /\ \A t \in TuplesOf(spill'[w][p]) : PartOf(t) = p
        /\ \A t \in Tuples :
              (\E p \in Parts : t \in TuplesOf(spill'[w][p])) <=>
                 Spilled(w, t) \/ t \in TuplesOf(groups[w])
    <2>1. Disjoint(groups[w]) /\ \A t : ~(t \in TuplesOf(groups[w]) /\ Spilled(w, t))
      BY <1>2, <1>3 DEF SpillOf, GroupOf
    <2> QED
      BY <1>1, <1>2, <1>3, <2>1, FlushKeeps
  <1>5. Tuples' = Tuples /\ Rows' = Rows /\ \A t : PartOf(t)' = PartOf(t)
    BY <1>3, InputStays
  <1>6. pc' \in [Workers -> Location] /\ pc'[w] = "waiting"
            /\ \A v \in Workers \ {w} : pc'[v] = pc[v]
    BY <1>1, <1>3 DEF TypeInv, Location
  <1>7. \A v \in Workers \ {w} : Stays(v)
    BY <1>3, <1>4, <1>6 DEF Stays
  <1>8. \A t \in Tuples : t[1] = w <=> \E p \in Parts : t \in TuplesOf(spill'[w][p])
    <2>1. \A t \in Tuples : t[1] = w /\ t[2] <= nread[w] <=> t \in TuplesOf(groups[w])
              \/ Spilled(w, t)
      BY <1>2, <1>3 DEF SpillOf
    <2>2. \A t \in Tuples : t[1] = w => t[2] \in 1 .. Len(input[w])
      BY <1>1, TupleIs
    <2>3. Len(input[w]) \in Nat
      BY <1>1, InputsAssumption DEF TypeInv
    <2>4. \A t \in Tuples : t[1] = w => t[2] <= nread[w]
      BY <1>3, <2>2, <2>3
    <2> QED
      BY <1>4, <2>1, <2>4
  <1>9. SpillOf(w)'
    BY <1>4, <1>5, <1>6, <1>8 DEF SpillOf, Spilled, Parts, TuplesOf, Disjoint
  <1>10. GroupOf(w)'
    BY <1>2, <1>3, <1>4, <1>6 DEF GroupOf, Disjoint, Apart
  <1>11. BlocksOf(w)'
    BY <1>4, <1>6, BlocksEmpty
  <1>12. TypeInv'
    BY <1>1, <1>3, <1>4, <1>5, <1>6 DEF TypeInv, Parts
  <1>13. \A v \in Workers \ {w} : Stays(v) /\ SpillStays(v)
    BY <1>1, <1>3, <1>7, NobodyIsBehind
  <1>14. WorkersInv' /\ \A v \in Workers \ {w} : \A t : Ahead(v, t)' <=> Ahead(v, t)
    BY <1>1, <1>3, <1>9, <1>10, <1>11, <1>13, WorkersKeep
  <1>15. DrawnInv'
    <2>1. DrawnOf(w)' /\ ~Drawn(w)'
      BY <1>6 DEF DrawnOf, Drawn
    <2> QED
      BY <1>1, <1>3, <1>6, <1>7, <2>1, DrawnKeeps
  <1>16. RemainingInv'
    <2>1. \A t \in Tuples : Ahead(w, t)' <=> Ahead(w, t)
      BY <1>3, <1>6 DEF Ahead
    <2> QED
      BY <1>1, <1>3, <1>14, <2>1, RemainingKeeps
  <1> QED
    BY <1>12, <1>14, <1>15, <1>16 DEF IInv

-----------------------------------------------------------------------------
(***************************************************************************)
(* Phase 2.                                                                *)
(***************************************************************************)
\* A step within a partition: no storage is written, and nothing is drawn.
LEMMA WithinKeeps ==
  ASSUME IInv, NEW w \in Workers, UNCHANGED <<input, nread, spill, partition, mine>>,
         \A v \in Workers \ {w} : Stays(v),
         Drawn(w), pc'[w] \notin {"consume", "waiting"},
         GroupOf(w)', BlocksOf(w)', DrawnOf(w)'
  PROVE  /\ WorkersInv' /\ DrawnInv'
         /\ \A v \in Workers \ {w} : \A t : Ahead(v, t)' <=> Ahead(v, t)
  <1>1. WorkersInv /\ DrawnInv
    BY DEF IInv
  <1>2. Tuples' = Tuples /\ \A t : PartOf(t)' = PartOf(t)
    BY InputStays
  <1>3. SpillOf(w)'
    <2>1. SpillOf(w) /\ pc[w] # "consume" /\ pc'[w] # "consume"
      BY <1>1 DEF WorkersInv, Drawn
    <2> QED
      BY <1>2, <2>1 DEF SpillOf, Spilled, Parts, TuplesOf, Disjoint
  <1>4. \A v \in Workers \ {w} : Stays(v) /\ SpillStays(v)
    BY DEF SpillStays
  <1>5. WorkersInv' /\ \A v \in Workers \ {w} : \A t : Ahead(v, t)' <=> Ahead(v, t)
    BY <1>1, <1>3, <1>4, WorkersKeep
  <1>6. DrawnInv'
    BY <1>1, DrawnKeeps DEF Drawn
  <1> QED
    BY <1>5, <1>6

\* A step that draws the next partition.
LEMMA DrawKeeps ==
  ASSUME IInv, NEW w \in Workers,
         UNCHANGED <<input, nread, spill, unread, rows, iter, remaining>>,
         groups' \in [Workers -> Seq(Rows)], blocks' \in [Workers -> Seq(Nat)],
         groups'[w] = <<>>, BlocksOf(w)',
         \A v \in Workers \ {w} : groups'[v] = groups[v] /\ blocks'[v] = blocks[v],
         mine' = [mine EXCEPT ![w] = partition],
         partition' = partition + 1,
         pc' = [pc EXCEPT ![w] = "partition"],
         rows[w] = <<>>,
         \A u \in Workers : pc[u] # "consume",
         \A t \in Tuples : ~Ahead(w, t)
  PROVE  IInv'
  <1>1. TypeInv /\ WorkersInv /\ DrawnInv /\ RemainingInv
    BY DEF IInv
  <1>2. Tuples' = Tuples /\ Rows' = Rows /\ \A t : PartOf(t)' = PartOf(t)
    BY InputStays
  <1>3. partition \in Nat /\ partition' \in Nat
    BY <1>1 DEF TypeInv
  <1>4. /\ pc' \in [Workers -> Location] /\ pc'[w] = "partition"
        /\ mine' \in [Workers -> Nat] /\ mine'[w] = partition
        /\ \A v \in Workers \ {w} : pc'[v] = pc[v] /\ mine'[v] = mine[v]
    BY <1>1 DEF TypeInv, Location
  <1>5. TypeInv'
    BY <1>1, <1>2, <1>3, <1>4 DEF TypeInv, Parts
  <1>6. SpillOf(w)'
    <2>1. SpillOf(w) /\ pc[w] # "consume" /\ pc'[w] # "consume"
      BY <1>1, <1>4 DEF WorkersInv
    <2> QED
      BY <1>2, <2>1 DEF SpillOf, Spilled, Parts, TuplesOf, Disjoint
  <1>7. GroupOf(w)'
    BY <1>4 DEF GroupOf, Disjoint, Apart
  <1>8. \A v \in Workers \ {w} : Stays(v) /\ SpillStays(v)
    BY <1>4 DEF Stays, SpillStays
  <1>9. /\ WorkersInv'
        /\ \A v \in Workers \ {w} : \A t : Ahead(v, t)' <=> Ahead(v, t)
        /\ \A v \in Workers \ {w} : Drawn(v)' <=> Drawn(v)
    BY <1>1, <1>6, <1>7, <1>8, WorkersKeep
  <1>10. DrawnInv'
    <2>1. \A v \in Workers : DrawnOf(v) /\ mine[v] \in Nat
      BY <1>1 DEF DrawnInv, TypeInv
    <2>2. \A x \in Nat : x < partition => x < partition' /\ x # partition
      BY <1>3
    <2>3. NrPartitions \in Nat /\ (NrPartitions <= partition => NrPartitions <= partition')
      BY <1>3, PartitionsAssumption
    <2>4. \A v \in Workers \ {w} : DrawnOf(v)' /\ (Drawn(v)' => mine'[v] # partition)
      BY <1>4, <1>9, <2>1, <2>2, <2>3 DEF DrawnOf, Drawn
    <2>5. DrawnOf(w)'
      BY <1>3, <1>4 DEF DrawnOf, Drawn
    <2>6. ASSUME NEW v \in Workers, NEW u \in Workers, Drawn(v)', Drawn(u)', v # u
          PROVE  mine'[v] # mine'[u]
      <3>1. CASE v = w
        BY <1>4, <2>4, <2>6, <3>1
      <3>2. CASE u = w
        BY <1>4, <2>4, <2>6, <3>2
      <3>3. CASE v # w /\ u # w
        BY <1>1, <1>4, <1>9, <2>6, <3>3 DEF DrawnInv
      <3> QED
        BY <3>1, <3>2, <3>3
    <2>7. \A u \in Workers : pc'[u] # "consume"
      BY <1>4
    <2>8. \A v \in Workers : DrawnOf(v)'
      BY <2>4, <2>5
    <2> QED
      BY <2>6, <2>7, <2>8 DEF DrawnInv
  <1>11. RemainingInv'
    <2>1. \A t : Ahead(w, t)' <=> partition = PartOf(t)
      BY <1>2, <1>4 DEF Ahead
    <2>2. \A t \in Tuples : PartOf(t) \in Nat
      BY <1>1, TupleIs DEF Parts
    <2>3. \A x \in Nat : partition <= x <=> partition' <= x \/ partition = x
      BY <1>3
    <2>4. ASSUME NEW t \in Tuples
          PROVE  t \in remaining <=> partition' <= PartOf(t) \/ \E v \in Workers : Ahead(v, t)'
      <3>1. t \in remaining <=> partition <= PartOf(t) \/ \E v \in Workers : Ahead(v, t)
        BY <1>1 DEF RemainingInv
      <3>2. (\E v \in Workers : Ahead(v, t)) <=> \E v \in Workers \ {w} : Ahead(v, t)
        OBVIOUS
      <3>3. (\E v \in Workers : Ahead(v, t)') <=>
               (\E v \in Workers \ {w} : Ahead(v, t)') \/ partition = PartOf(t)
        BY <2>1
      <3> QED
        BY <1>9, <2>2, <2>3, <3>1, <3>2, <3>3
    <2> QED
      BY <1>2, <2>4 DEF RemainingInv
  <1> QED
    BY <1>5, <1>9, <1>10, <1>11 DEF IInv

\* A worker leaves the barrier, with the first partition it draws.
LEMMA LeaveKeeps ==
  ASSUME IInv, NEW w \in Workers, Leave(w)
  PROVE  IInv'
  <1>1. TypeInv /\ GroupOf(w) /\ BlocksOf(w)
    BY DEF IInv, WorkersInv
  <1>2. /\ pc[w] = "waiting"
        /\ \A u \in Workers : pc[u] # "consume"
        /\ mine' = [mine EXCEPT ![w] = partition]
        /\ partition' = partition + 1
        /\ pc' = [pc EXCEPT ![w] = "partition"]
        /\ UNCHANGED <<input, nread, groups, blocks, spill, unread, rows, iter, remaining>>
    BY DEF Leave, Goto, source, table
  <1>3. groups[w] = <<>> /\ rows[w] = <<>> /\ \A t \in Tuples : ~Ahead(w, t)
    BY <1>1, <1>2 DEF GroupOf, Ahead
  <1>4. BlocksOf(w)'
    <2>1. pc'[w] = "partition"
      BY <1>1, <1>2 DEF TypeInv
    <2> QED
      BY <1>1, <1>2, <2>1 DEF BlocksOf, BlockEnd
  <1>5. groups' \in [Workers -> Seq(Rows)] /\ blocks' \in [Workers -> Seq(Nat)]
    BY <1>1, <1>2 DEF TypeInv
  <1> QED
    BY <1>2, <1>3, <1>4, <1>5, DrawKeeps

\* A worker has returned all blocks of its partition, and draws the next.
LEMMA NextPartitionKeeps ==
  ASSUME IInv, NEW w \in Workers, NextPartition(w)
  PROVE  IInv'
  <1>1. TypeInv /\ GroupOf(w) /\ BlocksOf(w) /\ DrawnInv
    BY DEF IInv, WorkersInv
  <1>2. /\ pc[w] = "emit"
        /\ iter[w] = Len(blocks[w])
        /\ groups' = [groups EXCEPT ![w] = <<>>]
        /\ blocks' = [blocks EXCEPT ![w] = <<>>]
        /\ mine' = [mine EXCEPT ![w] = partition]
        /\ partition' = partition + 1
        /\ pc' = [pc EXCEPT ![w] = "partition"]
        /\ UNCHANGED <<input, nread, spill, unread, rows, iter, remaining>>
    BY DEF NextPartition, Goto, source
  <1>3. rows[w] = <<>> /\ \A u \in Workers : pc[u] # "consume"
    BY <1>1, <1>2 DEF GroupOf, DrawnInv
  <1>4. groups' \in [Workers -> Seq(Rows)] /\ blocks' \in [Workers -> Seq(Nat)]
    <2>1. <<>> \in Seq(Rows) /\ <<>> \in Seq(Nat)
      OBVIOUS
    <2> QED
      BY <1>1, <1>2, <2>1 DEF TypeInv
  <1>5. /\ groups'[w] = <<>> /\ blocks'[w] = <<>> /\ pc'[w] = "partition"
        /\ \A v \in Workers \ {w} : groups'[v] = groups[v] /\ blocks'[v] = blocks[v]
    BY <1>1, <1>2 DEF TypeInv
  <1>6. BlocksOf(w)'
    BY <1>5, BlocksEmpty
  <1>7. \A t \in Tuples : ~Ahead(w, t)
    <2>1. BlockEnd(w, iter[w]) = Len(groups[w])
      BY <1>1, <1>2 DEF BlocksOf
    <2>2. DOMAIN groups[w] = 1 .. Len(groups[w]) /\ Len(groups[w]) \in Nat
      BY <1>1 DEF TypeInv
    <2>3. \A g \in DOMAIN groups[w] : ~(g > BlockEnd(w, iter[w]))
      BY <2>1, <2>2
    <2> QED
      BY <1>2, <2>3 DEF Ahead
  <1> QED
    BY <1>2, <1>3, <1>4, <1>5, <1>6, <1>7, DrawKeeps

\* What else such a step has to keep, if it returns nothing either.
LEMMA WithinKeepsAll ==
  ASSUME IInv, NEW w \in Workers, UNCHANGED <<input, nread, spill, partition, mine, remaining>>,
         groups' \in [Workers -> Seq(Rows)], blocks' \in [Workers -> Seq(Nat)],
         unread' \in [Workers -> SUBSET Workers], rows' \in [Workers -> Seq(Rows)],
         iter' \in [Workers -> Nat], pc' \in [Workers -> Location],
         \A v \in Workers \ {w} : Stays(v),
         Drawn(w), pc'[w] \notin {"consume", "waiting"},
         GroupOf(w)', BlocksOf(w)', DrawnOf(w)',
         \A t \in Tuples : Ahead(w, t)' <=> Ahead(w, t)
  PROVE  IInv'
  <1>1. TypeInv /\ RemainingInv
    BY DEF IInv
  <1>2. Tuples' = Tuples /\ Rows' = Rows /\ \A t : PartOf(t)' = PartOf(t)
    BY InputStays
  <1>3. TypeInv'
    BY <1>1, <1>2 DEF TypeInv, Parts
  <1>4. /\ WorkersInv' /\ DrawnInv'
        /\ \A v \in Workers \ {w} : \A t : Ahead(v, t)' <=> Ahead(v, t)
    BY WithinKeeps
  <1>5. RemainingInv'
    BY <1>1, <1>4, RemainingKeeps
  <1> QED
    BY <1>3, <1>4, <1>5 DEF IInv

\* A worker begins to aggregate its partition: nothing of it has been read yet,
\* and all of it is in the storages.
LEMMA BeginPartitionKeeps ==
  ASSUME IInv, NEW w \in Workers, BeginPartition(w)
  PROVE  IInv'
  <1>1. /\ TypeInv /\ GroupOf(w) /\ BlocksOf(w) /\ DrawnInv
        /\ \A u \in Workers : SpillOf(u)
    BY DEF IInv, WorkersInv
  <1>2. /\ pc[w] = "partition"
        /\ mine[w] < NrPartitions
        /\ unread' = [unread EXCEPT ![w] = Workers]
        /\ pc' = [pc EXCEPT ![w] = "aggregate"]
        /\ UNCHANGED <<input, nread, groups, blocks, spill, partition, mine, rows, iter, remaining>>
    BY DEF BeginPartition, Goto, source, table, shared
  <1>3. /\ pc' \in [Workers -> Location] /\ pc'[w] = "aggregate"
        /\ unread' \in [Workers -> SUBSET Workers] /\ unread'[w] = Workers
        /\ \A v \in Workers \ {w} : pc'[v] = pc[v] /\ unread'[v] = unread[v]
    BY <1>1, <1>2 DEF TypeInv, Location
  <1>4. /\ groups' \in [Workers -> Seq(Rows)] /\ blocks' \in [Workers -> Seq(Nat)]
        /\ rows' \in [Workers -> Seq(Rows)] /\ iter' \in [Workers -> Nat]
    BY <1>1, <1>2 DEF TypeInv
  <1>5. Tuples' = Tuples /\ \A t : PartOf(t)' = PartOf(t)
    BY <1>2, InputStays
  <1>6. groups[w] = <<>> /\ rows[w] = <<>>
    BY <1>1, <1>2 DEF GroupOf
  <1>7. mine[w] \in Parts
    BY <1>1, <1>2, PartitionsAssumption DEF TypeInv, Parts
  <1>8. ASSUME NEW t \in Tuples
        PROVE  PartOf(t) = mine[w] <=> \E u \in Workers : t \in TuplesOf(spill[u][mine[w]])
    <2>1. t[1] \in Workers
      BY <1>1, TupleIs
    <2>2. pc[t[1]] # "consume"
      BY <1>1, <1>2, <2>1 DEF DrawnInv
    <2>3. Spilled(t[1], t)
      BY <1>1, <2>1, <2>2 DEF SpillOf
    <2>4. PICK p \in Parts : t \in TuplesOf(spill[t[1]][p])
      BY <2>3 DEF Spilled
    <2>5. PartOf(t) = p
      BY <1>1, <2>1, <2>4 DEF SpillOf
    <2>6. \A u \in Workers : t \in TuplesOf(spill[u][mine[w]]) => PartOf(t) = mine[w]
      BY <1>1, <1>7 DEF SpillOf
    <2> QED
      BY <2>1, <2>4, <2>5, <2>6
  <1>9. GroupOf(w)'
    <2>1. Disjoint(groups'[w])
      BY <1>2, <1>6 DEF Disjoint, Apart
    <2>2. \A t \in Tuples :
             PartOf(t) = mine[w] <=> \/ t \in TuplesOf(groups'[w])
                                     \/ t \in TuplesOf(rows'[w])
                                     \/ \E u \in unread'[w] : t \in TuplesOf(spill[u][mine[w]])
      BY <1>2, <1>3, <1>6, <1>8, NoTuples
    <2>3. /\ Disjoint(rows'[w]) /\ Apart(groups'[w], rows'[w])
          /\ \A u \in unread'[w] : /\ Apart(groups'[w], spill'[u][mine'[w]])
                                   /\ Apart(rows'[w], spill'[u][mine'[w]])
      BY <1>2, <1>6, NoTuples DEF Disjoint, Apart
    <2> QED
      BY <1>2, <1>3, <1>5, <2>1, <2>2, <2>3 DEF GroupOf, TuplesOf, Disjoint, Apart
  <1>10. BlocksOf(w)'
    BY <1>1, <1>2, <1>3 DEF BlocksOf, BlockEnd
  <1>11. DrawnOf(w)'
    BY <1>1, <1>2, <1>3 DEF DrawnInv, DrawnOf, Drawn
  <1>12. \A v \in Workers \ {w} : Stays(v)
    BY <1>2, <1>3 DEF Stays
  <1>13. \A t \in Tuples : Ahead(w, t)' <=> Ahead(w, t)
    BY <1>2, <1>3, <1>5 DEF Ahead
  <1>14. Drawn(w) /\ pc'[w] \notin {"consume", "waiting"}
    BY <1>2, <1>3 DEF Drawn
  <1> QED
    BY <1>2, <1>3, <1>4, <1>9, <1>10, <1>11, <1>12, <1>13, <1>14, WithinKeepsAll

\* No partition is left: nothing is in the one the worker has drawn.
LEMMA EndKeeps ==
  ASSUME IInv, NEW w \in Workers, End(w)
  PROVE  IInv'
  <1>1. TypeInv /\ GroupOf(w) /\ BlocksOf(w) /\ DrawnInv
    BY DEF IInv, WorkersInv
  <1>2. /\ pc[w] = "partition"
        /\ mine[w] >= NrPartitions
        /\ pc' = [pc EXCEPT ![w] = "end"]
        /\ UNCHANGED <<input, nread, groups, blocks, spill, partition, mine, unread, rows,
                       iter, remaining>>
    BY DEF End, Goto, source, table, shared
  <1>3. /\ pc' \in [Workers -> Location] /\ pc'[w] = "end"
        /\ \A v \in Workers \ {w} : pc'[v] = pc[v]
    BY <1>1, <1>2 DEF TypeInv, Location
  <1>4. /\ groups' \in [Workers -> Seq(Rows)] /\ blocks' \in [Workers -> Seq(Nat)]
        /\ unread' \in [Workers -> SUBSET Workers]
        /\ rows' \in [Workers -> Seq(Rows)] /\ iter' \in [Workers -> Nat]
    BY <1>1, <1>2 DEF TypeInv
  <1>5. GroupOf(w)'
    BY <1>1, <1>2, <1>3 DEF GroupOf, Disjoint, Apart
  <1>6. BlocksOf(w)'
    BY <1>1, <1>2, <1>3 DEF BlocksOf, BlockEnd
  <1>7. DrawnOf(w)'
    <2>1. mine[w] < partition /\ mine[w] \in Nat /\ partition \in Nat /\ NrPartitions \in Nat
      BY <1>1, <1>2, PartitionsAssumption DEF DrawnInv, DrawnOf, Drawn, TypeInv
    <2>2. NrPartitions <= partition
      BY <1>2, <2>1
    <2> QED
      BY <1>2, <1>3, <2>2 DEF DrawnOf, Drawn
  <1>8. \A v \in Workers \ {w} : Stays(v)
    BY <1>2, <1>3 DEF Stays
  <1>9. \A t \in Tuples : Ahead(w, t)' <=> Ahead(w, t)
    <2>1. \A t \in Tuples : mine[w] # PartOf(t)
      <3>1. \A t \in Tuples : PartOf(t) \in Parts
        BY <1>1, TupleIs
      <3>2. mine[w] \notin Parts
        BY <1>1, <1>2, PartitionsAssumption DEF TypeInv, Parts
      <3> QED
        BY <3>1, <3>2
    <2> QED
      BY <1>2, <1>3, <2>1 DEF Ahead
  <1>10. Drawn(w) /\ pc'[w] \notin {"consume", "waiting"}
    BY <1>2, <1>3 DEF Drawn
  <1> QED
    BY <1>2, <1>3, <1>4, <1>5, <1>6, <1>7, <1>8, <1>9, <1>10, WithinKeepsAll

\* The next storage is read.
LEMMA OpenSpillKeeps ==
  ASSUME IInv, NEW w \in Workers, NEW u \in Workers, OpenSpill(w, u)
  PROVE  IInv'
  <1>1. /\ TypeInv /\ GroupOf(w) /\ BlocksOf(w) /\ DrawnInv
        /\ \A v \in Workers : SpillOf(v)
    BY DEF IInv, WorkersInv
  <1>2. /\ pc[w] = "aggregate" /\ rows[w] = <<>> /\ u \in unread[w]
        /\ unread' = [unread EXCEPT ![w] = unread[w] \ {u}]
        /\ rows' = [rows EXCEPT ![w] = spill[u][mine[w]]]
        /\ UNCHANGED <<input, nread, groups, blocks, spill, partition, mine, iter, pc, remaining>>
    BY DEF OpenSpill, source, table, shared
  <1>3. mine[w] \in Parts
    <2>1. mine[w] < NrPartitions
      BY <1>1, <1>2 DEF DrawnInv, DrawnOf
    <2> QED
      BY <1>1, <2>1, PartitionsAssumption DEF TypeInv, Parts
  <1>4. /\ unread' \in [Workers -> SUBSET Workers] /\ unread'[w] = unread[w] \ {u}
        /\ rows' \in [Workers -> Seq(Rows)] /\ rows'[w] = spill[u][mine[w]]
        /\ \A v \in Workers \ {w} : unread'[v] = unread[v] /\ rows'[v] = rows[v]
    <2>1. spill[u][mine[w]] \in Seq(Rows) /\ unread[w] \subseteq Workers
      BY <1>1, <1>3 DEF TypeInv
    <2> QED
      BY <1>1, <1>2, <2>1 DEF TypeInv
  <1>5. /\ groups' \in [Workers -> Seq(Rows)] /\ blocks' \in [Workers -> Seq(Nat)]
        /\ iter' \in [Workers -> Nat] /\ pc' \in [Workers -> Location]
    BY <1>1, <1>2 DEF TypeInv
  <1>6. Tuples' = Tuples /\ \A t : PartOf(t)' = PartOf(t)
    BY <1>2, InputStays
  <1>7. GroupOf(w)'
    <2>1. \A t \in Tuples :
             PartOf(t) = mine[w] <=> \/ t \in TuplesOf(groups[w])
                                     \/ \E v \in unread[w] : t \in TuplesOf(spill[v][mine[w]])
      BY <1>1, <1>2, NoTuples DEF GroupOf
    <2>2. \A t \in Tuples :
             PartOf(t) = mine[w] <=> \/ t \in TuplesOf(groups[w])
                                     \/ t \in TuplesOf(rows'[w])
                                     \/ \E v \in unread'[w] : t \in TuplesOf(spill[v][mine[w]])
      BY <1>2, <1>4, <2>1
    <2>3. \A v \in Workers : \A t \in TuplesOf(spill[v][mine[w]]) : t[1] = v
      <3> SUFFICES ASSUME NEW v \in Workers, NEW t \in TuplesOf(spill[v][mine[w]]) PROVE t[1] = v
        OBVIOUS
      <3>1. pc[v] # "consume"
        BY <1>1, <1>2 DEF DrawnInv
      <3>2. t \in Tuples
        BY <1>1, <1>3, TuplesAre, SMTT(30) DEF TypeInv
      <3>3. Spilled(v, t)
        BY <1>3 DEF Spilled
      <3> QED
        BY <1>1, <3>1, <3>2, <3>3 DEF SpillOf
    <2>4. \A v \in unread[w] : Apart(groups[w], spill[v][mine[w]])
      BY <1>1, <1>2 DEF GroupOf
    <2>5. Disjoint(rows'[w]) /\ Apart(groups[w], rows'[w])
      BY <1>1, <1>2, <1>3, <1>4, <2>4 DEF SpillOf
    <2>6. \A v \in unread'[w] : /\ Apart(groups[w], spill[v][mine[w]])
                                /\ Apart(rows'[w], spill[v][mine[w]])
      <3> SUFFICES ASSUME NEW v \in unread'[w]
                   PROVE  /\ Apart(groups[w], spill[v][mine[w]])
                          /\ Apart(rows'[w], spill[v][mine[w]])
        OBVIOUS
      <3>1. v \in unread[w] /\ v # u /\ v \in Workers
        BY <1>1, <1>4 DEF TypeInv
      <3>2. Apart(groups[w], spill[v][mine[w]])
        BY <2>4, <3>1
      <3>3. \A t \in TuplesOf(rows'[w]) : t[1] = u
        BY <1>4, <2>3
      <3>4. \A t \in TuplesOf(spill[v][mine[w]]) : t[1] = v
        BY <2>3, <3>1
      <3> QED
        BY <3>1, <3>2, <3>3, <3>4 DEF Apart
    <2>7. groups'[w] = groups[w] /\ mine'[w] = mine[w] /\ spill' = spill /\ pc'[w] = "aggregate"
      BY <1>2
    <2>8. Disjoint(groups[w])
      BY <1>1 DEF GroupOf
    <2> QED
      BY <1>6, <2>2, <2>5, <2>6, <2>7, <2>8 DEF GroupOf, TuplesOf, Disjoint, Apart
  <1>8. BlocksOf(w)'
    BY <1>1, <1>2 DEF BlocksOf, BlockEnd
  <1>9. DrawnOf(w)'
    BY <1>1, <1>2 DEF DrawnInv, DrawnOf, Drawn
  <1>10. \A v \in Workers \ {w} : Stays(v)
    BY <1>2, <1>4 DEF Stays
  <1>11. \A t \in Tuples : Ahead(w, t)' <=> Ahead(w, t)
    BY <1>2, <1>6 DEF Ahead
  <1>12. Drawn(w) /\ pc'[w] \notin {"consume", "waiting"}
    BY <1>2 DEF Drawn
  <1> QED
    BY <1>2, <1>4, <1>5, <1>7, <1>8, <1>9, <1>10, <1>11, <1>12, WithinKeepsAll

\* The first rows, and those behind them.
LEMMA SplitAt ==
  ASSUME NEW s \in Seq(Rows), NEW n \in 0 .. Len(s)
  PROVE  /\ SubSeq(s, 1, n) \in Seq(Rows) /\ SubSeq(s, n + 1, Len(s)) \in Seq(Rows)
         /\ TuplesOf(s) = TuplesOf(SubSeq(s, 1, n)) \cup TuplesOf(SubSeq(s, n + 1, Len(s)))
         /\ Disjoint(s) => /\ Disjoint(SubSeq(s, 1, n)) /\ Disjoint(SubSeq(s, n + 1, Len(s)))
                           /\ Apart(SubSeq(s, 1, n), SubSeq(s, n + 1, Len(s)))
  <1>1. Len(s) \in Nat /\ DOMAIN s = 1 .. Len(s)
    OBVIOUS
  <1>2. SubSeq(s, 1, n) \in Seq(Rows) /\ ToSet(SubSeq(s, 1, n)) = {s[i] : i \in 1 .. n}
    BY <1>1, PartElements
  <1>3. /\ SubSeq(s, n + 1, Len(s)) \in Seq(Rows)
        /\ ToSet(SubSeq(s, n + 1, Len(s))) = {s[i] : i \in n + 1 .. Len(s)}
    BY <1>1, PartElements
  <1>4. ToSet(s) = {s[i] : i \in 1 .. Len(s)}
    BY <1>1 DEF ToSet
  <1>5. \A i : i \in 1 .. Len(s) <=> i \in 1 .. n \/ i \in n + 1 .. Len(s)
    BY <1>1
  <1>6. ToSet(s) = ToSet(SubSeq(s, 1, n)) \cup ToSet(SubSeq(s, n + 1, Len(s)))
    BY <1>2, <1>3, <1>4, <1>5
  <1>7. ASSUME Disjoint(s)
        PROVE  Disjoint(SubSeq(s, 1, n)) /\ Disjoint(SubSeq(s, n + 1, Len(s)))
    <2>1. 1 \in 1 .. Len(s) + 1 /\ n + 1 \in 1 .. Len(s) + 1 /\ Len(s) \in 0 .. Len(s)
      BY <1>1
    <2> QED
      BY <1>7, <2>1, PartDisjoint
  <1>8. ASSUME Disjoint(s) PROVE Apart(SubSeq(s, 1, n), SubSeq(s, n + 1, Len(s)))
    <2> SUFFICES ASSUME NEW t, t \in TuplesOf(SubSeq(s, 1, n)),
                        t \in TuplesOf(SubSeq(s, n + 1, Len(s)))
                 PROVE  FALSE
      BY DEF Apart
    <2>1. PICK i \in 1 .. n : t \in s[i].tuples
      BY <1>2 DEF TuplesOf
    <2>2. PICK j \in n + 1 .. Len(s) : t \in s[j].tuples
      BY <1>3 DEF TuplesOf
    <2>3. i \in DOMAIN s /\ j \in DOMAIN s /\ i # j
      BY <1>1
    <2> QED
      BY <1>8, <2>1, <2>2, <2>3 DEF Disjoint
  <1> QED
    BY <1>2, <1>3, <1>6, <1>7, <1>8 DEF TuplesOf

\* Rows of a storage are aggregated.
LEMMA AggregateKeeps ==
  ASSUME IInv, NEW w \in Workers, AggregateVector(w)
  PROVE  IInv'
  <1> DEFINE s == rows[w]
             n == IF Len(s) <= VecSize THEN Len(s) ELSE VecSize
             front == SubSeq(s, 1, n)
             back == SubSeq(s, n + 1, Len(s))
             all == AddRows(groups[w], front)
  <1>1. TypeInv /\ GroupOf(w) /\ BlocksOf(w) /\ DrawnInv
    BY DEF IInv, WorkersInv
  <1>2. /\ pc[w] = "aggregate"
        /\ SetTable(w, all)
        /\ rows' = [rows EXCEPT ![w] = back]
        /\ UNCHANGED <<input, nread, spill, partition, mine, unread, iter, pc, remaining>>
    BY DEF AggregateVector, source, shared
  <1>3. /\ s \in Seq(Rows) /\ groups[w] \in Seq(Rows)
        /\ Disjoint(groups[w]) /\ Disjoint(s) /\ Apart(groups[w], s)
    BY <1>1, <1>2 DEF TypeInv, GroupOf
  <1> HIDE DEF s
  <1>4. n \in 0 .. Len(s)
    BY <1>3, VecSizeAssumption
  <1> HIDE DEF n
  <1>5. /\ front \in Seq(Rows) /\ back \in Seq(Rows)
            /\ TuplesOf(s) = TuplesOf(front) \cup TuplesOf(back)
        /\ Disjoint(front) /\ Disjoint(back) /\ Apart(front, back)
    BY <1>3, <1>4, SplitAt
  <1> HIDE DEF front, back
  <1>6. /\ all \in Seq(Rows) /\ Disjoint(all) /\ Len(groups[w]) <= Len(all)
        /\ TuplesOf(all) = TuplesOf(groups[w]) \cup TuplesOf(front)
    <2>1. Apart(groups[w], front)
      BY <1>3, <1>5 DEF Apart
    <2> QED
      BY <1>3, <1>5, <2>1, AddRowsIs
  <1> HIDE DEF all
  <1>7. BlocksOf(w)' /\ blocks' \in [Workers -> Seq(Nat)]
    <2>1. pc'[w] \notin {"emit", "return"}
      BY <1>2
    <2> QED
      BY <1>1, <1>2, <1>6, <2>1, BlocksGrow
  <1>8. /\ groups' \in [Workers -> Seq(Rows)] /\ groups'[w] = all
        /\ rows' \in [Workers -> Seq(Rows)] /\ rows'[w] = back
        /\ \A v \in Workers \ {w} : /\ groups'[v] = groups[v]
                                    /\ blocks'[v] = blocks[v]
                                    /\ rows'[v] = rows[v]
    BY <1>1, <1>2, <1>5, <1>6 DEF SetTable, TypeInv
  <1>9. /\ unread' \in [Workers -> SUBSET Workers]
        /\ iter' \in [Workers -> Nat] /\ pc' \in [Workers -> Location]
    BY <1>1, <1>2 DEF TypeInv
  <1>10. Tuples' = Tuples /\ \A t : PartOf(t)' = PartOf(t)
    BY <1>2, InputStays
  <1>11. GroupOf(w)'
    <2>1. \A t \in Tuples :
             PartOf(t) = mine[w] <=> \/ t \in TuplesOf(groups[w])
                                     \/ t \in TuplesOf(s)
                                     \/ \E v \in unread[w] : t \in TuplesOf(spill[v][mine[w]])
      BY <1>1, <1>2 DEF GroupOf, s
    <2>2. \A t \in Tuples :
             PartOf(t) = mine[w] <=> \/ t \in TuplesOf(groups'[w])
                                     \/ t \in TuplesOf(rows'[w])
                                     \/ \E v \in unread[w] : t \in TuplesOf(spill[v][mine[w]])
      BY <1>5, <1>6, <1>8, <2>1
    <2>3. Disjoint(groups'[w])
      BY <1>6, <1>8
    <2>4. Disjoint(rows'[w]) /\ Apart(groups'[w], rows'[w])
      BY <1>3, <1>5, <1>6, <1>8 DEF Apart
    <2>5. \A v \in unread[w] : /\ Apart(groups[w], spill[v][mine[w]])
                               /\ Apart(s, spill[v][mine[w]])
      BY <1>1, <1>2 DEF GroupOf, s
    <2>6. \A v \in unread[w] : /\ Apart(groups'[w], spill[v][mine[w]])
                               /\ Apart(rows'[w], spill[v][mine[w]])
      BY <1>5, <1>6, <1>8, <2>5 DEF Apart
    <2>7. mine'[w] = mine[w] /\ spill' = spill /\ unread' = unread /\ pc'[w] = "aggregate"
      BY <1>2
    <2> QED
      BY <1>10, <2>2, <2>3, <2>4, <2>6, <2>7 DEF GroupOf, TuplesOf, Disjoint, Apart
  <1>12. DrawnOf(w)'
    BY <1>1, <1>2 DEF DrawnInv, DrawnOf, Drawn
  <1>13. \A v \in Workers \ {w} : Stays(v)
    BY <1>2, <1>8 DEF Stays
  <1>14. \A t \in Tuples : Ahead(w, t)' <=> Ahead(w, t)
    BY <1>2, <1>10 DEF Ahead
  <1>15. Drawn(w) /\ pc'[w] \notin {"consume", "waiting"}
    BY <1>2 DEF Drawn
  <1> QED
    BY <1>2, <1>7, <1>8, <1>9, <1>11, <1>12, <1>13, <1>14, <1>15, WithinKeepsAll

\* The partition is aggregated: what is ahead are its groups.
LEMMA AggregatedKeeps ==
  ASSUME IInv, NEW w \in Workers, Aggregated(w)
  PROVE  IInv'
  <1>1. TypeInv /\ GroupOf(w) /\ BlocksOf(w) /\ DrawnInv
    BY DEF IInv, WorkersInv
  <1>2. /\ pc[w] = "aggregate" /\ rows[w] = <<>> /\ unread[w] = {}
        /\ iter' = [iter EXCEPT ![w] = 0]
        /\ pc' = [pc EXCEPT ![w] = "emit"]
        /\ UNCHANGED <<input, nread, groups, blocks, spill, partition, mine, unread, rows,
                  remaining>>
    BY DEF Aggregated, Goto, source, table, shared
  <1>3. /\ pc' \in [Workers -> Location] /\ pc'[w] = "emit"
        /\ iter' \in [Workers -> Nat] /\ iter'[w] = 0
        /\ \A v \in Workers \ {w} : pc'[v] = pc[v] /\ iter'[v] = iter[v]
    BY <1>1, <1>2 DEF TypeInv, Location
  <1>4. /\ groups' \in [Workers -> Seq(Rows)] /\ blocks' \in [Workers -> Seq(Nat)]
        /\ rows' \in [Workers -> Seq(Rows)] /\ unread' \in [Workers -> SUBSET Workers]
    BY <1>1, <1>2 DEF TypeInv
  <1>5. Tuples' = Tuples /\ \A t : PartOf(t)' = PartOf(t)
    BY <1>2, InputStays
  <1>6. \A t \in Tuples : PartOf(t) = mine[w] <=> t \in TuplesOf(groups[w])
    BY <1>1, <1>2, NoTuples DEF GroupOf
  <1>7. GroupOf(w)'
    BY <1>1, <1>2, <1>3, <1>5, <1>6 DEF GroupOf, TuplesOf, Disjoint, Apart
  <1>8. BlocksOf(w)'
    <2>1. Len(blocks[w]) \in Nat /\ 0 <= Len(blocks[w])
      BY <1>1 DEF TypeInv
    <2> QED
      BY <1>1, <1>2, <1>3, <2>1 DEF BlocksOf, BlockEnd
  <1>9. DrawnOf(w)'
    BY <1>1, <1>2, <1>3 DEF DrawnInv, DrawnOf, Drawn
  <1>10. \A v \in Workers \ {w} : Stays(v)
    BY <1>2, <1>3 DEF Stays
  <1>11. \A t \in Tuples : Ahead(w, t)' <=> Ahead(w, t)
    <2> DEFINE gs == groups[w]
    <2>1. gs \in Seq(Rows) /\ DOMAIN gs = 1 .. Len(gs) /\ \A g \in DOMAIN gs : g > 0
      BY <1>1 DEF TypeInv
    <2>2. \A t : t \in TuplesOf(gs) <=> \E g \in DOMAIN gs : t \in gs[g].tuples
      BY <2>1, TuplesAre
    <2>3. BlockEnd(w, iter[w])' = 0
      BY <1>3 DEF BlockEnd
    <2>4. \A t : Ahead(w, t)' <=> mine[w] = PartOf(t) /\ \E g \in DOMAIN gs : g > 0
              /\ t \in gs[g].tuples
      BY <1>2, <1>3, <1>5, <2>3 DEF Ahead
    <2> HIDE DEF gs
    <2>5. \A t \in Tuples : Ahead(w, t)' <=> mine[w] = PartOf(t)
      BY <1>6, <2>1, <2>2, <2>4 DEF gs
    <2> QED
      BY <1>2, <2>5 DEF Ahead
  <1>12. Drawn(w) /\ pc'[w] \notin {"consume", "waiting"}
    BY <1>2, <1>3 DEF Drawn
  <1> QED
    BY <1>2, <1>3, <1>4, <1>7, <1>8, <1>9, <1>10, <1>11, <1>12, WithinKeepsAll

\* A block consists of the groups between its end and that of the block before.
LEMMA BlockIs ==
  ASSUME TypeInv, NEW w \in Workers, BlocksOf(w), NEW b \in 1 .. Len(blocks[w])
  PROVE  /\ BlockEnd(w, b - 1) \in Nat /\ BlockEnd(w, b) \in Nat
         /\ BlockEnd(w, b - 1) < BlockEnd(w, b) /\ BlockEnd(w, b) <= Len(groups[w])
         /\ ToSet(BlockAt(w, b)) = {groups[w][g] : g \in BlockEnd(w, b - 1) + 1 .. BlockEnd(w, b)}
         /\ \A t : t \in TuplesOf(BlockAt(w, b)) <=>
                     \E g \in BlockEnd(w, b - 1) + 1 .. BlockEnd(w, b) : t \in groups[w][g].tuples
         /\ TuplesOf(BlockAt(w, b)) # {}
  <1> DEFINE gs == groups[w]
             lo == BlockEnd(w, b - 1)
             hi == BlockEnd(w, b)
  <1>1. gs \in Seq(Rows) /\ Len(gs) \in Nat /\ blocks[w] \in Seq(Nat) /\ Len(blocks[w]) \in Nat
    BY DEF TypeInv
  <1>2. b \in 0 .. Len(blocks[w]) /\ b - 1 \in 0 .. Len(blocks[w]) /\ b - 1 < b /\ b # 0
    BY <1>1
  <1>3. \A x \in 0 .. Len(blocks[w]) : BlockEnd(w, x) \in Nat
    <2>1. \A x \in 1 .. Len(blocks[w]) : blocks[w][x] \in Nat
      BY <1>1
    <2> QED
      BY <1>1, <2>1 DEF BlockEnd
  <1>4. lo \in Nat /\ hi \in Nat /\ lo < hi
    BY <1>2, <1>3 DEF BlocksOf
  <1>5. hi <= Len(gs)
    <2>1. CASE b = Len(blocks[w])
      BY <1>4, <2>1 DEF BlocksOf
    <2>2. CASE b # Len(blocks[w])
      <3>1. b < Len(blocks[w]) /\ Len(blocks[w]) \in 0 .. Len(blocks[w])
        BY <1>1, <2>2
      <3>2. hi < BlockEnd(w, Len(blocks[w])) /\ BlockEnd(w, Len(blocks[w])) = Len(gs)
        BY <1>2, <3>1 DEF BlocksOf
      <3> QED
        BY <1>1, <1>4, <3>2
    <2> QED
      BY <2>1, <2>2
  <1>6. BlockAt(w, b) = SubSeq(gs, lo + 1, hi)
    <2>1. hi = blocks[w][b]
      BY <1>2 DEF BlockEnd
    <2>2. lo + 1 = IF b = 1 THEN 1 ELSE blocks[w][b - 1] + 1
      BY <1>2 DEF BlockEnd
    <2> QED
      BY <2>1, <2>2 DEF BlockAt
  <1> HIDE DEF lo, hi, gs
  <1>7. SubSeq(gs, lo + 1, hi) \in Seq(Rows)
        /\ ToSet(SubSeq(gs, lo + 1, hi)) = {gs[g] : g \in lo + 1 .. hi}
    <2>1. lo + 1 \in 1 .. Len(gs) + 1 /\ hi \in 0 .. Len(gs)
      BY <1>1, <1>4, <1>5
    <2> QED
      BY <1>1, <2>1, PartElements
  <1>8. \A t : t \in TuplesOf(BlockAt(w, b)) <=> \E g \in lo + 1 .. hi : t \in gs[g].tuples
    BY <1>6, <1>7, SMTT(30) DEF TuplesOf
  <1>9. TuplesOf(BlockAt(w, b)) # {}
    <2>1. hi \in lo + 1 .. hi /\ hi \in 1 .. Len(gs)
      BY <1>1, <1>4, <1>5
    <2>2. gs[hi] \in Rows
      BY <1>1, <2>1
    <2>3. gs[hi].tuples # {}
      BY <2>2 DEF Rows
    <2> QED
      BY <1>8, <2>1, <2>3
  <1> QED
    BY <1>4, <1>5, <1>6, <1>7, <1>8, <1>9 DEF lo, hi, gs

\* A block is returned: its tuples remained, and do so no longer.
LEMMA ReturnIs ==
  ASSUME IInv, NEW w \in Workers, ReturnBlock(w)
  PROVE  /\ IInv'
         /\ TuplesOf(BlockAt(w, iter[w] + 1)) # {}
         /\ TuplesOf(BlockAt(w, iter[w] + 1)) \subseteq remaining
  <1> DEFINE b == iter[w] + 1
             gs == groups[w]
             lo == BlockEnd(w, iter[w])
             hi == BlockEnd(w, b)
             T == TuplesOf(BlockAt(w, b))
  <1>1. TypeInv /\ GroupOf(w) /\ BlocksOf(w) /\ DrawnInv /\ RemainingInv
    BY DEF IInv, WorkersInv
  <1>2. /\ pc[w] = "emit" /\ iter[w] < Len(blocks[w])
        /\ iter' = [iter EXCEPT ![w] = b]
        /\ pc' = [pc EXCEPT ![w] = "return"]
        /\ remaining' = remaining \ T
        /\ UNCHANGED <<input, nread, groups, blocks, spill, partition, mine, unread, rows>>
    BY DEF ReturnBlock, Goto, source, table, shared
  <1>3. iter[w] \in Nat /\ Len(blocks[w]) \in Nat /\ b \in Nat /\ b \in 1 .. Len(blocks[w])
            /\ b - 1 = iter[w]
    BY <1>1, <1>2 DEF TypeInv
  <1>4. gs \in Seq(Rows) /\ Disjoint(gs) /\ Len(gs) \in Nat /\ DOMAIN gs = 1 .. Len(gs)
    BY <1>1 DEF TypeInv, GroupOf
  <1>5. /\ pc' \in [Workers -> Location] /\ pc'[w] = "return"
        /\ iter' \in [Workers -> Nat] /\ iter'[w] = b
        /\ \A v \in Workers \ {w} : pc'[v] = pc[v] /\ iter'[v] = iter[v]
    BY <1>1, <1>2, <1>3 DEF TypeInv, Location
  <1> HIDE DEF b
  <1>6. /\ lo \in Nat /\ hi \in Nat /\ lo < hi /\ hi <= Len(gs)
        /\ \A t : t \in T <=> \E g \in lo + 1 .. hi : t \in gs[g].tuples
        /\ T # {}
    BY <1>1, <1>3, BlockIs
  <1>7. Tuples' = Tuples /\ Rows' = Rows /\ \A t : PartOf(t)' = PartOf(t)
    BY <1>2, InputStays
  <1>8. \A t \in Tuples : PartOf(t) = mine[w] <=> t \in TuplesOf(gs)
    BY <1>1, <1>2 DEF GroupOf
  <1>9. \A t : t \in TuplesOf(gs) <=> \E g \in 1 .. Len(gs) : t \in gs[g].tuples
    BY <1>4, TuplesAre
  <1>10. TuplesOf(gs) \subseteq Tuples
    BY <1>4, TuplesAre
  <1>11. \A t : Ahead(w, t) <=> mine[w] = PartOf(t) /\ \E g \in DOMAIN gs : g > lo
            /\ t \in gs[g].tuples
    BY <1>2 DEF Ahead
  <1>12. \A t : Ahead(w, t)' <=> mine[w] = PartOf(t) /\ \E g \in DOMAIN gs : g > hi
            /\ t \in gs[g].tuples
    BY <1>2, <1>5, <1>7 DEF Ahead, BlockEnd
  <1> HIDE DEF lo, hi, T
  <1>13. ASSUME NEW t \in T PROVE t \in Tuples /\ PartOf(t) = mine[w] /\ Ahead(w, t)
    <2>1. PICK g \in lo + 1 .. hi : t \in gs[g].tuples
      BY <1>6
    <2>2. g \in 1 .. Len(gs) /\ g > lo
      BY <1>4, <1>6
    <2>3. t \in Tuples /\ PartOf(t) = mine[w]
      BY <1>8, <1>9, <1>10, <2>1, <2>2
    <2> HIDE DEF gs
    <2> QED
      BY <1>4, <1>11, <2>1, <2>2, <2>3
  <1>14. ASSUME NEW t \in Tuples PROVE Ahead(w, t)' <=> Ahead(w, t) /\ t \notin T
    <2> HIDE DEF gs
    <2>1. ASSUME Ahead(w, t)' PROVE Ahead(w, t) /\ t \notin T
      <3>1. PICK g \in DOMAIN gs : g > hi /\ t \in gs[g].tuples
        BY <1>12, <2>1
      <3>2. g > lo /\ g \in 1 .. Len(gs)
        BY <1>4, <1>6, <3>1
      <3>3. Ahead(w, t)
        BY <1>11, <1>12, <2>1, <3>1, <3>2
      <3>4. ASSUME t \in T PROVE FALSE
        <4>1. PICK h \in lo + 1 .. hi : t \in gs[h].tuples
          BY <1>6, <3>4
        <4>2. h \in 1 .. Len(gs) /\ h # g
          BY <1>4, <1>6, <3>1, <3>2
        <4> QED
          BY <1>4, <3>1, <3>2, <4>1, <4>2 DEF Disjoint
      <3> QED
        BY <3>3, <3>4
    <2>2. ASSUME Ahead(w, t), t \notin T PROVE Ahead(w, t)'
      <3>1. PICK g \in DOMAIN gs : g > lo /\ t \in gs[g].tuples
        BY <1>11, <2>2
      <3>2. g \notin lo + 1 .. hi
        BY <1>6, <2>2, <3>1
      <3>3. g > hi
        BY <1>4, <1>6, <3>1, <3>2
      <3> QED
        BY <1>11, <1>12, <2>2, <3>1, <3>3
    <2> QED
      BY <2>1, <2>2
  <1>15. TypeInv'
    <2>1. remaining' \subseteq Tuples
      BY <1>1, <1>2 DEF TypeInv
    <2> QED
      BY <1>1, <1>2, <1>5, <1>7, <2>1 DEF TypeInv, Parts
  <1>16. GroupOf(w)'
    BY <1>1, <1>2, <1>5, <1>7 DEF GroupOf, TuplesOf, Disjoint, Apart
  <1>17. BlocksOf(w)'
    <2>1. b <= Len(blocks[w]) /\ b >= 1
      BY <1>3
    <2> QED
      BY <1>1, <1>2, <1>5, <2>1 DEF BlocksOf, BlockEnd
  <1>18. DrawnOf(w)'
    BY <1>1, <1>2, <1>5 DEF DrawnInv, DrawnOf, Drawn
  <1>19. \A v \in Workers \ {w} : Stays(v)
    BY <1>2, <1>5 DEF Stays
  <1>20. Drawn(w) /\ pc'[w] \notin {"consume", "waiting"}
    BY <1>2, <1>5 DEF Drawn
  <1>21. /\ WorkersInv' /\ DrawnInv'
         /\ \A v \in Workers \ {w} : \A t : Ahead(v, t)' <=> Ahead(v, t)
    BY <1>2, <1>16, <1>17, <1>18, <1>19, <1>20, WithinKeeps
  <1>22. T \subseteq remaining
    BY <1>1, <1>13 DEF RemainingInv
  <1>23. RemainingInv'
    <2>1. \A t \in T : ~(partition <= PartOf(t))
      <3>1. mine[w] < partition /\ mine[w] \in Nat /\ partition \in Nat
        BY <1>1, <1>20 DEF DrawnInv, DrawnOf, TypeInv
      <3> QED
        BY <1>13, <3>1
    <2>2. \A t \in T : \A v \in Workers \ {w} : ~Ahead(v, t)
      <3>1. \A v \in Workers \ {w} : Drawn(v) => mine[v] # mine[w]
        BY <1>1, <1>20 DEF DrawnInv
      <3> QED
        BY <1>13, <3>1 DEF Ahead, Drawn
    <2>3. ASSUME NEW t \in Tuples
          PROVE  t \in remaining' <=> partition <= PartOf(t) \/ \E v \in Workers : Ahead(v, t)'
      <3>1. t \in remaining <=> partition <= PartOf(t) \/ \E v \in Workers : Ahead(v, t)
        BY <1>1 DEF RemainingInv
      <3>2. t \in remaining' <=> t \in remaining /\ t \notin T
        BY <1>2
      <3>3. CASE t \in T
        <4>1. \A v \in Workers : ~Ahead(v, t)'
          BY <1>14, <1>21, <2>2, <3>3
        <4> QED
          BY <2>1, <3>2, <3>3, <4>1
      <3>4. CASE t \notin T
        <4>1. \A v \in Workers : Ahead(v, t)' <=> Ahead(v, t)
          BY <1>14, <1>21, <3>4
        <4> QED
          BY <3>1, <3>2, <3>4, <4>1
      <3> QED
        BY <3>3, <3>4
    <2> QED
      BY <1>2, <1>7, <2>3 DEF RemainingInv
  <1> QED
    BY <1>6, <1>15, <1>21, <1>22, <1>23 DEF IInv, T, b

\* The operator above asks for the next block.
LEMMA CallNextKeeps ==
  ASSUME IInv, NEW w \in Workers, CallNext(w)
  PROVE  IInv'
  <1>1. TypeInv /\ GroupOf(w) /\ BlocksOf(w) /\ DrawnInv
    BY DEF IInv, WorkersInv
  <1>2. /\ pc[w] = "return"
        /\ pc' = [pc EXCEPT ![w] = "emit"]
        /\ UNCHANGED <<input, nread, groups, blocks, spill, partition, mine, unread, rows,
                       iter, remaining>>
    BY DEF CallNext, Goto, source, table, shared
  <1>3. /\ pc' \in [Workers -> Location] /\ pc'[w] = "emit"
        /\ \A v \in Workers \ {w} : pc'[v] = pc[v]
    BY <1>1, <1>2 DEF TypeInv, Location
  <1>4. /\ groups' \in [Workers -> Seq(Rows)] /\ blocks' \in [Workers -> Seq(Nat)]
        /\ rows' \in [Workers -> Seq(Rows)] /\ unread' \in [Workers -> SUBSET Workers]
        /\ iter' \in [Workers -> Nat]
    BY <1>1, <1>2 DEF TypeInv
  <1>5. Tuples' = Tuples /\ \A t : PartOf(t)' = PartOf(t)
    BY <1>2, InputStays
  <1>6. GroupOf(w)'
    BY <1>1, <1>2, <1>3, <1>5 DEF GroupOf, TuplesOf, Disjoint, Apart
  <1>7. BlocksOf(w)'
    BY <1>1, <1>2, <1>3 DEF BlocksOf, BlockEnd
  <1>8. DrawnOf(w)'
    BY <1>1, <1>2, <1>3 DEF DrawnInv, DrawnOf, Drawn
  <1>9. \A v \in Workers \ {w} : Stays(v)
    BY <1>2, <1>3 DEF Stays
  <1>10. \A t \in Tuples : Ahead(w, t)' <=> Ahead(w, t)
    BY <1>2, <1>3, <1>5 DEF Ahead, BlockEnd
  <1>11. Drawn(w) /\ pc'[w] \notin {"consume", "waiting"}
    BY <1>2, <1>3 DEF Drawn
  <1> QED
    BY <1>2, <1>3, <1>4, <1>6, <1>7, <1>8, <1>9, <1>10, <1>11, WithinKeepsAll

-----------------------------------------------------------------------------
(***************************************************************************)
(* The inductive invariant holds.                                          *)
(***************************************************************************)
\* The invariant holds in the beginning: nothing has been read or drawn.
LEMMA InitHolds == Init => IInv
  <1> SUFFICES ASSUME Init PROVE IInv
    OBVIOUS
  <1>1. \A w \in Workers :
          /\ nread[w] = 0 /\ groups[w] = <<>> /\ blocks[w] = <<>> /\ rows[w] = <<>>
          /\ pc[w] = "consume" /\ \A p \in Parts : spill[w][p] = <<>>
    BY DEF Init, Parts
  <1>2. TypeInv
    <2>1. <<>> \in Seq(Rows) /\ <<>> \in Seq(Nat)
      OBVIOUS
    <2>2. spill \in [Workers -> [Parts -> Seq(Rows)]]
      BY <2>1 DEF Init, Parts
    <2> QED
      BY <2>1, <2>2 DEF Init, TypeInv, Location
  <1>3. ASSUME NEW w \in Workers PROVE SpillOf(w) /\ GroupOf(w) /\ BlocksOf(w)
    <2>1. \A t : ~Spilled(w, t)
      BY <1>1, NoTuples DEF Spilled
    <2>2. \A t \in Tuples : t[1] = w => ~(t[2] <= nread[w])
      <3>1. \A t \in Tuples : t[1] = w => t[2] \in 1 .. Len(input[w])
        BY <1>2, TupleIs
      <3>2. Len(input[w]) \in Nat
        BY <1>2, InputsAssumption DEF TypeInv
      <3> QED
        BY <1>1, <3>1, <3>2
    <2>3. nread[w] <= Len(input[w])
      <3>1. Len(input[w]) \in Nat
        BY <1>2, InputsAssumption DEF TypeInv
      <3> QED
        BY <1>1, <3>1
    <2>4. SpillOf(w)
      <3>1. \A p \in Parts : /\ Disjoint(spill[w][p])
                             /\ \A t \in TuplesOf(spill[w][p]) : PartOf(t) = p
        BY <1>1, NoTuples DEF Disjoint
      <3>2. TuplesOf(groups[w]) = {}
        BY <1>1, NoTuples
      <3> QED
        BY <1>1, <2>1, <2>2, <2>3, <3>1, <3>2 DEF SpillOf
    <2>5. GroupOf(w)
      BY <1>1 DEF GroupOf, Disjoint, Apart
    <2>6. BlocksOf(w)
      <3>1. Len(blocks[w]) = 0 /\ Len(groups[w]) = 0
        BY <1>1
      <3>2. \A b, c \in 0 .. 0 : ~(b < c)
        OBVIOUS
      <3> QED
        BY <1>1, <3>1, <3>2 DEF BlocksOf, BlockEnd
    <2> QED
      BY <2>4, <2>5, <2>6
  <1>4. DrawnInv
    BY <1>1 DEF DrawnInv, DrawnOf, Drawn
  <1>5. RemainingInv
    <2>1. \A t \in Tuples : 0 <= PartOf(t)
      BY <1>2, TupleIs DEF Parts
    <2> QED
      BY <2>1 DEF Init, RemainingInv
  <1> QED
    BY <1>2, <1>3, <1>4, <1>5 DEF IInv, WorkersInv

\* A step that changes nothing keeps the invariant.
LEMMA StutterKeeps ==
  ASSUME IInv, UNCHANGED vars
  PROVE  IInv'
  <1>1. /\ input' = input /\ partition' = partition /\ remaining' = remaining
        /\ Tuples' = Tuples /\ Rows' = Rows /\ \A t : PartOf(t)' = PartOf(t)
    BY InputStays DEF vars
  <1>2. \A v \in Workers : Stays(v) /\ SpillStays(v)
    BY DEF vars, Stays, SpillStays
  <1>3. TypeInv /\ WorkersInv /\ DrawnInv /\ RemainingInv
    BY DEF IInv
  <1>4. TypeInv'
    BY <1>1, <1>3 DEF vars, TypeInv, Parts
  <1>5. \A v \in Workers : /\ SpillOf(v)' /\ GroupOf(v)' /\ BlocksOf(v)'
                           /\ \A t : Ahead(v, t)' <=> Ahead(v, t)
    BY <1>1, <1>2, <1>3, OthersStay
  <1>6. DrawnInv'
    BY <1>3 DEF vars, DrawnInv, DrawnOf, Drawn
  <1>7. RemainingInv'
    BY <1>1, <1>3, <1>5 DEF RemainingInv
  <1> QED
    BY <1>4, <1>5, <1>6, <1>7 DEF IInv, WorkersInv

\* Every step of a worker keeps the invariant.
LEMMA StepKeeps ==
  ASSUME IInv, NEW w \in Workers, Step(w)
  PROVE  IInv'
  <1>1. ASSUME NEW u \in Workers, OpenSpill(w, u) PROVE IInv'
    BY <1>1, OpenSpillKeeps
  <1> QED
    BY <1>1, ConsumeKeeps, ArriveKeeps, LeaveKeeps, BeginPartitionKeeps, EndKeeps,
       AggregateKeeps, AggregatedKeeps, ReturnIs, CallNextKeeps, NextPartitionKeeps DEF Step

\* Every reachable state of a HashGroup satisfies the inductive invariant: what
\* a worker has read is in its table or in its storage and nowhere twice, who has
\* a partition has all of it and for itself, and what has not been returned is
\* ahead of somebody.
THEOREM HashGroupInvariant ==
  Spec => []IInv
  <1>1. IInv /\ [Next]_vars => IInv'
    <2> SUFFICES ASSUME IInv, [Next]_vars PROVE IInv'
      OBVIOUS
    <2> QED
      BY StepKeeps, StutterKeeps DEF Next, Terminated
  <1> QED
    BY <1>1, InitHolds, PTL DEF Spec

-----------------------------------------------------------------------------
\* HashGroup hands every tuple to exactly one worker, in a group, exactly once,
\* and the last end of stream leaves no tuple behind: for any number of workers,
\* partitions and vectors, and whatever the hashes of the keys are.
THEOREM HashGroupImplementsHandout ==
  Spec => Implements
  <1> DEFINE holds == [w \in Workers |-> IF pc[w] = "return" THEN TuplesOf(Returned(w)) ELSE {}]
  <1> DEFINE ended == {w \in Workers : pc[w] = "end"}
  <1>1. Init => Result!Init
    BY DEF Init, Result!Init
  <1>2. IInv /\ [Next]_vars => [Result!Next]_(Result!vars)
    <2> SUFFICES ASSUME IInv, [Next]_vars
                 PROVE  Result!Next \/ UNCHANGED <<remaining, holds, ended>>
      BY DEF Result!vars
    <2>1. /\ groups \in [Workers -> Seq(Rows)] /\ blocks \in [Workers -> Seq(Nat)]
          /\ iter \in [Workers -> Nat] /\ pc \in [Workers -> Location]
      BY DEF IInv, TypeInv
    <2>2. \A u \in Workers :
            pc'[u] = pc[u] /\ groups'[u] = groups[u] /\ blocks'[u] = blocks[u] /\ iter'[u] = iter[u]
               => holds'[u] = holds[u]
      <3> SUFFICES ASSUME NEW u \in Workers, pc'[u] = pc[u], groups'[u] = groups[u],
                          blocks'[u] = blocks[u], iter'[u] = iter[u]
                   PROVE  holds'[u] = holds[u]
        BY Zenon
      <3>1. Returned(u)' = Returned(u)
        BY DEF Returned, BlockAt
      <3>2. TuplesOf(Returned(u))' = TuplesOf(Returned(u))
        BY <3>1 DEF TuplesOf
      <3> QED
        BY <3>2
    <2>3. \A u \in Workers : pc[u] # "return" /\ pc'[u] # "return" => holds'[u] = holds[u]
      OBVIOUS
    <2>4. (\A u \in Workers : holds'[u] = holds[u]) => holds' = holds
      OBVIOUS
    <2>5. (\A u \in Workers : pc'[u] = "end" <=> pc[u] = "end") => ended' = ended
      OBVIOUS
    <2>6. ASSUME NEW w \in Workers, remaining' = remaining,
                 pc[w] # "return", pc'[w] # "return", pc[w] # "end", pc'[w] # "end",
                 \A u \in Workers \ {w} : /\ pc'[u] = pc[u] /\ groups'[u] = groups[u]
                                          /\ blocks'[u] = blocks[u] /\ iter'[u] = iter[u]
          PROVE  UNCHANGED <<remaining, holds, ended>>
      <3>1. \A u \in Workers : holds'[u] = holds[u]
        BY <2>2, <2>3, <2>6
      <3>2. holds' = holds
        BY <2>4, <3>1
      <3>3. ended' = ended
        BY <2>5, <2>6
      <3> QED
        BY <2>6, <3>2, <3>3
    <2>7. ASSUME NEW w \in Workers,
                 ConsumeVector(w) \/ Arrive(w) \/ Leave(w) \/ BeginPartition(w)
                 \/ (\E u \in Workers : OpenSpill(w, u)) \/ AggregateVector(w)
                 \/ Aggregated(w) \/ NextPartition(w)
          PROVE  UNCHANGED <<remaining, holds, ended>>
      <3> HIDE DEF holds, ended
      <3>1. CASE ConsumeVector(w)
        <4>1. /\ remaining' = remaining /\ pc' = pc /\ pc[w] = "consume" /\ iter' = iter
              /\ \A u \in Workers \ {w} : groups'[u] = groups[u] /\ blocks'[u] = blocks[u]
          BY <2>1, <3>1 DEF ConsumeVector, flushAndClear, SetTable
        <4> QED
          BY <2>6, <4>1
      <3>2. CASE Arrive(w)
        <4>1. /\ remaining' = remaining /\ pc[w] = "consume" /\ pc'[w] = "waiting" /\ iter' = iter
              /\ \A u \in Workers \ {w} : pc'[u] = pc[u] /\ groups'[u] = groups[u]
                        /\ blocks'[u] = blocks[u]
          BY <2>1, <3>2 DEF Arrive, flushAndClear, Goto
        <4> QED
          BY <2>6, <4>1
      <3>3. CASE Leave(w)
        <4>1. /\ remaining' = remaining /\ pc[w] = "waiting" /\ pc'[w] = "partition"
              /\ iter' = iter /\ groups' = groups /\ blocks' = blocks
              /\ \A u \in Workers \ {w} : pc'[u] = pc[u]
          BY <2>1, <3>3 DEF Leave, Goto, table
        <4> QED
          BY <2>6, <4>1
      <3>4. CASE BeginPartition(w)
        <4>1. /\ remaining' = remaining /\ pc[w] = "partition" /\ pc'[w] = "aggregate"
              /\ iter' = iter /\ groups' = groups /\ blocks' = blocks
              /\ \A u \in Workers \ {w} : pc'[u] = pc[u]
          BY <2>1, <3>4 DEF BeginPartition, Goto, table
        <4> QED
          BY <2>6, <4>1
      <3>5. CASE \E u \in Workers : OpenSpill(w, u)
        <4>1. /\ remaining' = remaining /\ pc[w] = "aggregate" /\ pc' = pc
              /\ iter' = iter /\ groups' = groups /\ blocks' = blocks
          BY <3>5 DEF OpenSpill, table
        <4> QED
          BY <2>6, <4>1
      <3>6. CASE AggregateVector(w)
        <4>1. /\ remaining' = remaining /\ pc' = pc /\ pc[w] = "aggregate" /\ iter' = iter
              /\ \A u \in Workers \ {w} : groups'[u] = groups[u] /\ blocks'[u] = blocks[u]
          BY <2>1, <3>6 DEF AggregateVector, SetTable
        <4> QED
          BY <2>6, <4>1
      <3>7. CASE Aggregated(w)
        <4>1. /\ remaining' = remaining /\ pc[w] = "aggregate" /\ pc'[w] = "emit"
              /\ groups' = groups /\ blocks' = blocks
              /\ \A u \in Workers \ {w} : pc'[u] = pc[u] /\ iter'[u] = iter[u]
          BY <2>1, <3>7 DEF Aggregated, Goto, table
        <4> QED
          BY <2>6, <4>1
      <3>8. CASE NextPartition(w)
        <4>1. /\ remaining' = remaining /\ pc[w] = "emit" /\ pc'[w] = "partition" /\ iter' = iter
              /\ \A u \in Workers \ {w} : pc'[u] = pc[u] /\ groups'[u] = groups[u]
                        /\ blocks'[u] = blocks[u]
          BY <2>1, <3>8 DEF NextPartition, Goto
        <4> QED
          BY <2>6, <4>1
      <3> QED
        BY <2>7, <3>1, <3>2, <3>3, <3>4, <3>5, <3>6, <3>7, <3>8
    <2>8. ASSUME NEW w \in Workers, ReturnBlock(w)
          PROVE  Result!Take(w)
      <3> DEFINE T == TuplesOf(BlockAt(w, iter[w] + 1))
      <3>1. /\ pc[w] = "emit" /\ pc'[w] = "return" /\ iter'[w] = iter[w] + 1
            /\ groups' = groups /\ blocks' = blocks /\ remaining' = remaining \ T
            /\ \A u \in Workers \ {w} : pc'[u] = pc[u] /\ iter'[u] = iter[u]
        BY <2>1, <2>8 DEF ReturnBlock, Goto, table
      <3>2. T # {} /\ T \subseteq remaining
        BY <2>8, ReturnIs
      <3>3. holds'[w] = T
        <4>1. Returned(w)' = BlockAt(w, iter[w] + 1)
          BY <3>1 DEF Returned, BlockAt
        <4>2. TuplesOf(Returned(w))' = T
          BY <4>1 DEF TuplesOf
        <4> QED
          BY <3>1, <4>2
      <3> HIDE DEF T
      <3>4. \A u \in Workers \ {w} : holds'[u] = holds[u]
        BY <2>2, <3>1
      <3>5. holds' = [holds EXCEPT ![w] = T] /\ holds[w] = {} /\ w \notin ended
        BY <3>1, <3>3, <3>4
      <3>6. ended' = ended
        BY <2>5, <3>1
      <3> QED
        BY <3>1, <3>2, <3>3, <3>5, <3>6 DEF Result!Take
    <2>9. ASSUME NEW w \in Workers, CallNext(w)
          PROVE  Result!Next \/ UNCHANGED <<remaining, holds, ended>>
      <3>1. /\ pc[w] = "return" /\ pc'[w] = "emit" /\ remaining' = remaining
            /\ iter' = iter /\ groups' = groups /\ blocks' = blocks
            /\ \A u \in Workers \ {w} : pc'[u] = pc[u]
        BY <2>1, <2>9 DEF CallNext, Goto, table
      <3>2. \A u \in Workers \ {w} : holds'[u] = holds[u]
        BY <2>2, <3>1
      <3>3. holds' = [holds EXCEPT ![w] = {}]
        BY <3>1, <3>2
      <3>4. ended' = ended
        BY <2>5, <3>1
      <3>5. CASE holds[w] # {}
        BY <3>1, <3>3, <3>4, <3>5 DEF Result!Next, Result!Release
      <3>6. CASE holds[w] = {}
        BY <3>1, <3>3, <3>4, <3>6
      <3> QED
        BY <3>5, <3>6
    <2>10. ASSUME NEW w \in Workers, End(w)
           PROVE  Result!Finish(w)
      <3>1. /\ pc[w] = "partition" /\ pc'[w] = "end" /\ remaining' = remaining
            /\ iter' = iter /\ groups' = groups /\ blocks' = blocks
            /\ \A u \in Workers \ {w} : pc'[u] = pc[u]
        BY <2>1, <2>10 DEF End, Goto, table
      <3>2. \A u \in Workers : holds'[u] = holds[u]
        BY <2>2, <2>3, <3>1
      <3>3. holds' = holds /\ holds[w] = {}
        BY <2>4, <3>1, <3>2
      <3>4. w \notin ended /\ ended' = ended \cup {w}
        BY <3>1
      <3>5. ASSUME ended' = Workers PROVE remaining = {}
        <4>1. IInv' /\ input' = input
          BY <2>10, EndKeeps DEF End, source
        <4>2. TypeInv' /\ DrawnInv' /\ RemainingInv'
          BY <4>1 DEF IInv
        <4>3. \A u \in Workers : pc'[u] = "end"
          BY <3>5
        <4>4. NrPartitions <= partition' /\ partition' \in Nat
          BY <4>2, <4>3 DEF DrawnInv, DrawnOf, TypeInv
        <4>5. \A t : \A u \in Workers : ~Ahead(u, t)'
          BY <4>3 DEF Ahead
        <4>6. Tuples' = Tuples /\ \A t : PartOf(t)' = PartOf(t)
          BY <4>1, InputStays
        <4>7. \A t \in Tuples : ~(partition' <= PartOf(t))
          <5>1. \A t \in Tuples : PartOf(t) \in Parts
            BY TupleIs DEF IInv
          <5> QED
            BY <4>4, <5>1, PartitionsAssumption DEF Parts
        <4>8. \A t \in Tuples : t \notin remaining'
          BY <4>2, <4>5, <4>6, <4>7 DEF RemainingInv
        <4>9. remaining \subseteq Tuples
          BY DEF IInv, TypeInv
        <4> QED
          BY <3>1, <4>8, <4>9
      <3> QED
        BY <3>1, <3>3, <3>4, <3>5 DEF Result!Finish
    <2>11. CASE UNCHANGED vars
      <3>1. remaining' = remaining /\ pc' = pc /\ groups' = groups /\ blocks' = blocks
                /\ iter' = iter
        BY <2>11 DEF vars
      <3>2. holds' = holds
        BY <2>2, <2>4, <3>1
      <3> QED
        BY <2>5, <3>1, <3>2
    <2> HIDE DEF holds, ended
    <2>12. ASSUME NEW w \in Workers, Step(w)
           PROVE  Result!Next \/ UNCHANGED <<remaining, holds, ended>>
      BY <2>7, <2>8, <2>9, <2>10, <2>12 DEF Step, Result!Next
    <2> QED
      BY <2>11, <2>12 DEF Next, Terminated
  <1> QED
    BY <1>1, <1>2, HashGroupInvariant, PTL DEF Spec, Result!Spec, Implements

-----------------------------------------------------------------------------
\* No two keys have the same hash.
HashesDiffer == \A j, k \in Keys : Hash[j] = Hash[k] => j = k

\* There is one row for each key.
OneEach(s) == \A g, h \in DOMAIN s : s[g].key = s[h].key => g = h

\* What the lookup of a key finds: its group, or none.
Matches(groups0, k, m) ==
  \/ m \in DOMAIN groups0 /\ groups0[m].key = k
  \/ m = 0 /\ \A g \in DOMAIN groups0 : groups0[g].key # k

\* The first group with the hash of a row is the group of its key.
LEMMA MatchIs ==
  ASSUME HashesDiffer, NEW R, NEW gs \in Seq(R), OneEach(gs),
         \A r \in R : r.key \in Keys, NEW row \in R
  PROVE  Matches(gs, row.key, FirstWithHash(gs, find_chain(gs, HashOf(row)), HashOf(row)))
  <1> DEFINE hits == {g \in find_chain(gs, HashOf(row)) : HashOf(gs[g]) = HashOf(row)}
  <1>1. DOMAIN gs = 1 .. Len(gs) /\ Len(gs) \in Nat /\ \A g \in DOMAIN gs : gs[g].key \in Keys
    BY ElementsOf
  <1>2. \A g \in DOMAIN gs : HashOf(gs[g]) = HashOf(row) <=> gs[g].key = row.key
    BY <1>1 DEF HashesDiffer, HashOf
  <1>3. \A g : g \in hits <=> g \in DOMAIN gs /\ gs[g].key = row.key
    BY <1>2 DEF find_chain
  <1>4. FirstWithHash(gs, find_chain(gs, HashOf(row)), HashOf(row)) = Max({0} \cup hits)
    BY DEF FirstWithHash
  <1> HIDE DEF hits
  <1>5. CASE hits = {}
    <2>1. Max({0} \cup hits) = 0
      BY <1>5 DEF Max
    <2> QED
      BY <1>3, <1>4, <1>5, <2>1 DEF Matches
  <1>6. CASE hits # {}
    <2>1. PICK g \in DOMAIN gs : gs[g].key = row.key /\ hits = {g}
      BY <1>3, <1>6 DEF OneEach
    <2>2. Max({0, g}) = g
      <3>1. g \in Nat /\ g >= 0 /\ g # 0
        BY <1>1, <2>1
      <3>2. \A x \in {0, g} : (\A y \in {0, g} : x >= y) <=> x = g
        BY <3>1
      <3> QED
        BY <3>2 DEF Max
    <2>3. {0} \cup hits = {0, g}
      BY <2>1
    <2> QED
      BY <1>4, <2>1, <2>2, <2>3 DEF Matches
  <1> QED
    BY <1>5, <1>6

\* What the lookup of a vector finds: for each row its group, or that it is missing.
LEMMA FindIs ==
  ASSUME HashesDiffer, NEW R, NEW gs \in Seq(R), OneEach(gs),
         \A r \in R : r.key \in Keys, NEW rs \in Seq(R)
  PROVE  /\ \A n \in DOMAIN rs : Matches(gs, rs[n].key, findGroups(gs, rs).htMatches[n])
         /\ findGroups(gs, rs).groupsNotFound =
               {n \in DOMAIN rs : findGroups(gs, rs).htMatches[n] = 0}
  <1> DEFINE L == htLookup(gs, rs)
  <1>1. DOMAIN gs = 1 .. Len(gs) /\ Len(gs) \in Nat /\ DOMAIN rs = 1 .. Len(rs)
        /\ \A n \in DOMAIN rs : rs[n] \in R
    BY ElementsOf
  <1>2. \A n \in DOMAIN rs : Matches(gs, rs[n].key, L.htMatches[n])
    BY <1>1, MatchIs DEF htLookup
  <1>3. L.groupsNotFound = {n \in DOMAIN rs : L.htMatches[n] = 0}
    BY DEF htLookup
  <1>4. L.keysNEq = <<>>
    <2> DEFINE F == {n \in {m \in DOMAIN rs : L.htMatches[m] # 0} :
                       gs[L.htMatches[n]].key # rs[n].key}
    <2> DEFINE I == [n \in DOMAIN rs |-> n]
    <2>1. F = {}
      BY <1>2 DEF Matches
    <2>2. L.keysNEq = Kept(I, F)
      BY DEF htLookup, keysNEq
    <2>3. I \in Seq(Nat)
      BY <1>1
    <2> HIDE DEF I, F
    <2> DEFINE q == Kept(I, F)
    <2>4. q \in Seq(Nat) /\ ToSet(q) = {}
      BY <2>1, <2>3, KeptIs
    <2> HIDE DEF q
    <2>5. q = <<>>
      <3>1. DOMAIN q = 1 .. Len(q) /\ Len(q) \in Nat
        BY <2>4
      <3>2. \A i \in 1 .. Len(q) : q[i] \in ToSet(q)
        BY <3>1 DEF ToSet
      <3>3. Len(q) = 0
        BY <2>4, <3>1, <3>2
      <3> QED
        BY <2>4, <3>3
    <2> QED
      BY <2>2, <2>5 DEF q
  <1> HIDE DEF L
  <1> DEFINE N == Len(gs)
  <1> DEFINE Body(f) ==
        [n \in 0 .. N |->
          IF n = 0 THEN L
          ELSE IF f[n - 1].keysNEq = <<>> THEN f[n - 1] ELSE htFollow(gs, rs, f[n - 1])]
  <1> DEFINE follow == CHOOSE f : f = Body(f)
  <1>5. findGroups(gs, rs) = follow[N]
    BY DEF findGroups, L
  <1>6. N \in Nat
    BY <1>1
  <1> HIDE DEF N
  <1> DEFINE c == [n \in 0 .. N |-> L]
  <1>7. c = Body(c)
    <2>1. \A n \in 0 .. N : n # 0 => n - 1 \in 0 .. N
      BY <1>6
    <2>2. ASSUME NEW n \in 0 .. N PROVE c[n] = Body(c)[n]
      BY <1>4, <2>1
    <2>3. c = [n \in 0 .. N |-> c[n]] /\ Body(c) = [n \in 0 .. N |-> Body(c)[n]]
      OBVIOUS
    <2> HIDE DEF c, Body
    <2> QED
      BY <2>2, <2>3
  <1>8. follow = Body(follow)
    <2> HIDE DEF Body
    <2> QED
      BY <1>7
  <1> HIDE DEF follow
  <1> DEFINE Q == {n \in Nat : n <= N => follow[n] = L}
  <1>9. 0 \in Q
    BY <1>6, <1>8
  <1>10. ASSUME NEW n \in Nat, n \in Q PROVE n + 1 \in Q
    <2> SUFFICES ASSUME n + 1 <= N PROVE follow[n + 1] = L
      OBVIOUS
    <2>1. n + 1 \in 0 .. N /\ n + 1 # 0 /\ (n + 1) - 1 = n /\ n <= N
      BY <1>6
    <2>2. follow[n] = L
      BY <1>10, <2>1
    <2> QED
      BY <1>4, <1>8, <2>1, <2>2
  <1> HIDE DEF Q
  <1>11. Nat \subseteq Q
    BY <1>9, <1>10, InductionOnNat
  <1>12. follow[N] = L
    BY <1>6, <1>11 DEF Q
  <1> QED
    BY <1>2, <1>3, <1>5, <1>12

\* Rows are added to groups: there is one group for each key, if no two keys
\* have the same hash.
LEMMA KeysStayApart ==
  ASSUME HashesDiffer, NEW gs \in Seq(Rows), OneEach(gs), NEW rs \in Seq(Rows)
  PROVE  OneEach(AddRows(gs, rs))
  <1> DEFINE s == findGroups(gs, rs)
             miss == s.groupsNotFound
             created == createMissingGroups(rs, miss)
             all == gs \o created
             target(n) == IF n \in miss
                          THEN Len(gs) + CHOOSE g \in DOMAIN created : created[g].key = rs[n].key
                          ELSE s.htMatches[n]
             added(g) == UNION {rs[n].tuples : n \in {m \in DOMAIN rs : target(m) = g}}
             res == [g \in DOMAIN all |-> [all[g] EXCEPT !.tuples = @ \cup added(g)]]
  <1>1. AddRows(gs, rs) = res
    BY DEF AddRows
  <1>2. miss \in SUBSET (DOMAIN rs) /\ \A n \in miss : \A g \in DOMAIN gs : gs[g].key # rs[n].key
    <2>1. \A r \in Rows : r.key \in Keys
      BY DEF Rows
    <2>2. /\ \A n \in DOMAIN rs : Matches(gs, rs[n].key, s.htMatches[n])
          /\ miss = {n \in DOMAIN rs : s.htMatches[n] = 0}
      BY <2>1, FindIs
    <2>3. 0 \notin DOMAIN gs
      OBVIOUS
    <2> HIDE DEF s, miss
    <2> QED
      BY <2>2, <2>3 DEF Matches
  <1> HIDE DEF s, miss
  <1>3. /\ created \in Seq(RawRows)
        /\ \A g \in DOMAIN created : \E n \in miss : created[g].key = rs[n].key
        /\ \A g, h \in DOMAIN created : created[g].key = created[h].key => g = h
    BY <1>2, CreatedIs
  <1> HIDE DEF created, target
  <1> DEFINE D == DOMAIN all
             L == Len(gs)
  <1>4. \A g \in D : /\ all[g] \in RawRows
                     /\ \/ g \in DOMAIN gs /\ all[g] = gs[g]
                        \/ \E i \in DOMAIN created : g = L + i /\ all[g] = created[i]
    <2>1. gs \in Seq(RawRows)
      <3>1. Rows \subseteq RawRows
        BY DEF Rows, RawRows
      <3> QED
        BY <3>1, SequenceOf
    <2> QED
      BY <1>3, <2>1, BehindIs
  <1> HIDE DEF all, L, added
  <1>5. ASSUME NEW g \in D PROVE res[g].key = all[g].key
    <2>1. all[g] \in [key : Keys, tuples : SUBSET Tuples]
      BY <1>4 DEF RawRows
    <2>2. res[g] = [all[g] EXCEPT !.tuples = @ \cup added(g)]
      BY DEF D
    <2> QED
      BY <2>1, <2>2
  <1>6. DOMAIN res = D
    BY DEF D
  <1> HIDE DEF D, res
  <1>7. ASSUME NEW g \in D, NEW h \in D, all[g].key = all[h].key
        PROVE  g = h
    <2>1. CASE g \in DOMAIN gs /\ all[g] = gs[g]
      <3>1. ~(\E i \in DOMAIN created : h = L + i /\ all[h] = created[i])
        <4> SUFFICES ASSUME NEW i \in DOMAIN created, all[h] = created[i] PROVE FALSE
          OBVIOUS
        <4>1. PICK n \in miss : created[i].key = rs[n].key
          BY <1>3
        <4>2. gs[g].key # rs[n].key
          BY <1>2, <2>1
        <4> QED
          BY <1>7, <2>1, <4>1, <4>2
      <3>2. h \in DOMAIN gs /\ all[h] = gs[h]
        BY <1>4, <3>1
      <3> QED
        BY <1>7, <2>1, <3>2 DEF OneEach
    <2>2. CASE \E i \in DOMAIN created : g = L + i /\ all[g] = created[i]
      <3>1. PICK i \in DOMAIN created : g = L + i /\ all[g] = created[i]
        BY <2>2
      <3>2. ~(h \in DOMAIN gs /\ all[h] = gs[h])
        <4> SUFFICES ASSUME h \in DOMAIN gs, all[h] = gs[h] PROVE FALSE
          OBVIOUS
        <4>1. PICK n \in miss : created[i].key = rs[n].key
          BY <1>3
        <4>2. gs[h].key # rs[n].key
          BY <1>2
        <4> QED
          BY <1>7, <3>1, <4>1, <4>2
      <3>3. PICK j \in DOMAIN created : h = L + j /\ all[h] = created[j]
        BY <1>4, <3>2
      <3>4. i = j
        BY <1>3, <1>7, <3>1, <3>3
      <3> QED
        BY <3>1, <3>3, <3>4
    <2> QED
      BY <1>4, <2>1, <2>2
  <1>8. OneEach(res)
    <2> SUFFICES ASSUME NEW g \in D, NEW h \in D, res[g].key = res[h].key PROVE g = h
      BY <1>6 DEF OneEach
    <2> QED
      BY <1>5, <1>7
  <1> QED
    BY <1>1, <1>8

\* A table has one group for each key; phase 1 begins and both phases end with
\* an empty one, and all that is done to it is that rows are added.
KeyInv == \A w \in Workers : OneEach(groups[w])

\* Every step keeps it that a table has one group for each key.
LEMMA KeysKeep ==
  ASSUME HashesDiffer, IInv, KeyInv, [Next]_vars
  PROVE  KeyInv'
  <1>1. TypeInv
    BY DEF IInv
  <1>2. OneEach(<<>>)
    BY DEF OneEach
  <1>3. ASSUME NEW w \in Workers, OneEach(groups'[w]),
               \A u \in Workers \ {w} : groups'[u] = groups[u]
        PROVE  KeyInv'
    BY <1>3 DEF KeyInv, OneEach
  <1>4. CASE groups' = groups
    BY <1>4 DEF KeyInv, OneEach
  <1>5. ASSUME NEW w \in Workers, groups' = [groups EXCEPT ![w] = <<>>]
        PROVE  KeyInv'
    <2>1. groups'[w] = <<>> /\ \A u \in Workers \ {w} : groups'[u] = groups[u]
      BY <1>1, <1>5 DEF TypeInv
    <2> QED
      BY <1>2, <1>3, <2>1
  <1>6. ASSUME NEW w \in Workers, NEW rs \in Seq(Rows),
               groups' = [groups EXCEPT ![w] = AddRows(groups[w], rs)]
        PROVE  KeyInv'
    <2>1. groups[w] \in Seq(Rows) /\ OneEach(groups[w])
      BY <1>1 DEF TypeInv, KeyInv
    <2>2. OneEach(AddRows(groups[w], rs))
      BY <2>1, KeysStayApart
    <2>3. groups'[w] = AddRows(groups[w], rs) /\ \A u \in Workers \ {w} : groups'[u] = groups[u]
      BY <1>1, <1>6 DEF TypeInv
    <2> QED
      BY <1>3, <2>2, <2>3
  <1>7. ASSUME NEW w \in Workers, ConsumeVector(w) PROVE KeyInv'
    <2> DEFINE n == nread[w] + 1
               all == AddRows(groups[w], Vector(w, n))
    <2>1. flushAndClear(w, all) \/ SetTable(w, all)
      BY <1>7 DEF ConsumeVector
    <2>2. Vector(w, n) \in Seq(Rows)
      <3>1. n \in 1 .. Len(input[w])
        <4>1. nread[w] \in Nat /\ input[w] \in Seq(Seq(Keys)) /\ nread[w] < Len(input[w])
          BY <1>1, <1>7, InputsAssumption DEF TypeInv, ConsumeVector
        <4> QED
          BY <4>1
      <3> HIDE DEF n
      <3> QED
        BY <1>1, <3>1, VectorIs
    <2> HIDE DEF n
    <2>3. CASE flushAndClear(w, all)
      BY <1>5, <2>3 DEF flushAndClear
    <2>4. CASE SetTable(w, all)
      BY <1>6, <2>2, <2>4 DEF SetTable
    <2> QED
      BY <2>1, <2>3, <2>4
  <1>8. ASSUME NEW w \in Workers, AggregateVector(w) PROVE KeyInv'
    <2> DEFINE s == rows[w]
               n == IF Len(s) <= VecSize THEN Len(s) ELSE VecSize
               front == SubSeq(s, 1, n)
    <2>1. SetTable(w, AddRows(groups[w], front))
      BY <1>8 DEF AggregateVector
    <2>2. front \in Seq(Rows)
      <3>1. s \in Seq(Rows)
        BY <1>1 DEF TypeInv
      <3> HIDE DEF s
      <3>2. n \in 0 .. Len(s)
        BY <3>1, VecSizeAssumption
      <3> HIDE DEF n
      <3> QED
        BY <3>1, <3>2, SplitAt
    <2> HIDE DEF front
    <2> QED
      BY <1>6, <2>1, <2>2 DEF SetTable
  <1>9. ASSUME NEW w \in Workers, Arrive(w) \/ NextPartition(w) PROVE KeyInv'
    BY <1>5, <1>9 DEF Arrive, NextPartition, flushAndClear
  <1>10. ASSUME NEW w \in Workers,
                Leave(w) \/ BeginPartition(w) \/ End(w) \/ (\E u \in Workers : OpenSpill(w, u))
                \/ Aggregated(w) \/ ReturnBlock(w) \/ CallNext(w)
         PROVE  KeyInv'
    BY <1>4, <1>10 DEF Leave, BeginPartition, End, OpenSpill, Aggregated, ReturnBlock, CallNext,
       table
  <1>11. CASE UNCHANGED vars
    BY <1>4, <1>11 DEF vars
  <1> QED
    BY <1>7, <1>8, <1>9, <1>10, <1>11 DEF Next, Step, Terminated

\* All tuples of a row have its key.
LEMMA KeyIs ==
  ASSUME HashesDiffer, TypeInv, NEW r \in Rows, NEW t \in r.tuples
  PROVE  t \in Tuples /\ KeyOf(t) = r.key
  <1>1. r.key \in Keys /\ t \in Tuples /\ Hash[KeyOf(t)] = Hash[r.key]
    BY DEF Rows, HashOf
  <1>2. KeyOf(t) \in Keys
    BY <1>1, TupleIs
  <1> QED
    BY <1>1, <1>2 DEF HashesDiffer

\* A group that is returned has all tuples of its key.
LEMMA WholeGroups ==
  ASSUME HashesDiffer, IInv, KeyInv
  PROVE  GroupsAreWhole
  <1> SUFFICES ASSUME NEW w \in Workers, pc[w] = "return", NEW g \in ToSet(Returned(w))
               PROVE  g.tuples = {t \in Tuples : KeyOf(t) = g.key}
    BY DEF GroupsAreWhole
  <1> DEFINE gs == groups[w]
  <1>1. TypeInv /\ GroupOf(w) /\ BlocksOf(w)
    BY DEF IInv, WorkersInv
  <1>2. gs \in Seq(Rows) /\ OneEach(gs) /\ DOMAIN gs = 1 .. Len(gs) /\ Len(gs) \in Nat
    BY <1>1 DEF TypeInv, KeyInv
  <1>3. iter[w] \in 1 .. Len(blocks[w])
    BY <1>1 DEF TypeInv, BlocksOf
  <1>4. PICK i \in 1 .. Len(gs) : g = gs[i]
    <2> DEFINE lo == BlockEnd(w, iter[w] - 1)
               hi == BlockEnd(w, iter[w])
    <2>1. lo \in Nat /\ hi \in Nat /\ hi <= Len(gs)
              /\ ToSet(Returned(w)) = {gs[j] : j \in lo + 1 .. hi}
      BY <1>1, <1>3, BlockIs DEF Returned
    <2> HIDE DEF lo, hi, gs
    <2>2. PICK j \in lo + 1 .. hi : g = gs[j]
      BY <2>1
    <2>3. j \in 1 .. Len(gs)
      BY <1>2, <2>1
    <2> QED
      BY <2>2, <2>3
  <1>5. g \in Rows
    BY <1>2, <1>4
  <1>6. \A t \in Tuples : PartOf(t) = mine[w] <=> \E j \in 1 .. Len(gs) : t \in gs[j].tuples
    BY <1>1, <1>2, TuplesAre DEF GroupOf
  <1> HIDE DEF gs
  <1>7. \A t \in g.tuples : t \in Tuples /\ KeyOf(t) = g.key
    BY <1>1, <1>5, KeyIs
  <1>8. ASSUME NEW t \in Tuples, KeyOf(t) = g.key
        PROVE  t \in g.tuples
    <2>1. PICK x \in g.tuples : x \in Tuples /\ KeyOf(x) = g.key
      BY <1>5, <1>7 DEF Rows
    <2>2. PartOf(t) = mine[w]
      <3>1. PartOf(x) = mine[w]
        BY <1>4, <1>6, <2>1
      <3> QED
        BY <1>8, <2>1, <3>1 DEF PartOf
    <2>3. PICK j \in 1 .. Len(gs) : t \in gs[j].tuples
      BY <1>6, <2>2
    <2>4. gs[j] \in Rows
      BY <1>2
    <2>5. gs[j].key = g.key
      BY <1>1, <1>8, <2>3, <2>4, KeyIs
    <2>6. j = i
      BY <1>2, <1>4, <2>5 DEF OneEach
    <2> QED
      BY <1>4, <2>3, <2>6
  <1> QED
    BY <1>7, <1>8

\* A group that is returned has all tuples of its key and no others, for any
\* number of workers, partitions and vectors, if no two keys have the same hash.
THEOREM GroupsReturnedWhole ==
  ASSUME HashesDiffer
  PROVE  Spec => []GroupsAreWhole
  <1>1. Init => KeyInv
    BY DEF Init, KeyInv, OneEach
  <1>2. IInv /\ KeyInv /\ [Next]_vars => KeyInv'
    BY KeysKeep
  <1>3. IInv /\ KeyInv => GroupsAreWhole
    BY WholeGroups
  <1> QED
    BY <1>1, <1>2, <1>3, HashGroupInvariant, PTL DEF Spec

\* What the lookup of groups promises holds, if no two keys have the same hash;
\* with two that have, it does not.
THEOREM TuplesOfOneKey ==
  ASSUME HashesDiffer
  PROVE  Spec => []NoForeignTuples
  <1>1. IInv => NoForeignTuples
    <2> SUFFICES ASSUME IInv, NEW w \in Workers, NEW g \in ToSet(groups[w]), NEW t \in g.tuples
                 PROVE  KeyOf(t) = g.key
      BY DEF NoForeignTuples
    <2>1. groups[w] \in Seq(Rows)
      BY DEF IInv, TypeInv
    <2>2. g \in Rows
      BY <2>1, ElementsOf
    <2> QED
      BY <2>2, KeyIs DEF IInv
  <1> QED
    BY <1>1, HashGroupInvariant, PTL

-----------------------------------------------------------------------------
(***************************************************************************)
(* Scan.                                                                   *)
(***************************************************************************)
CONSTANTS TableSizes, VecSizes, MorselSize
VARIABLES nrTuples, vecSize, pos, needsInit, currentChunk, vecInChunk, lastOffset,
          column, step, found, scanPc, scanRemaining

Scans == INSTANCE Scan WITH pc <- scanPc, remaining <- scanRemaining

\* What Scan assumes of its constants.
ScanConstants ==
  /\ TableSizes \subseteq Nat
  /\ VecSizes \subseteq Nat \ {0}
  /\ MorselSize \in Nat

USE DEF ScanConstants

ScanTypeOK == ScanConstants /\ Scans!TypeOK

-----------------------------------------------------------------------------
\* The number of tuples in a chunk.
ChunkTuples == Scans!scanChunkSize * vecSize

\* Where the current chunk of a worker begins and ends, and which of its
\* tuples the worker comes to next.
First(w) == currentChunk[w] * ChunkTuples
Limit(w) == First(w) + ChunkTuples
Frontier(w) == First(w) + vecInChunk[w] * vecSize

\* Whose chunk a tuple belongs to that somebody will still come to.
AheadOf(w, x) == ~needsInit[w] /\ Frontier(w) <= x /\ x < Limit(w)

\* Every chunk has one owner.
OwnerInv ==
  /\ \A w \in Workers : ~needsInit[w] => currentChunk[w] < pos
  /\ \A w, u \in Workers :
        ~needsInit[w] /\ ~needsInit[u] /\ w # u => currentChunk[w] # currentChunk[u]

\* The relative steps lead to the frontier.
PositionInv ==
  \A w \in Workers :
    /\ column[w] = lastOffset[w]
    /\ needsInit[w] => /\ scanPc[w] = "next" /\ vecInChunk[w] = Scans!scanChunkSize
                       /\ lastOffset[w] = 0 /\ currentChunk[w] = 0
    /\ scanPc[w] = "step" => Scans!nextBegin(w) = Frontier(w) /\ vecInChunk[w] < Scans!scanChunkSize
    /\ scanPc[w] \in {"next", "work"} /\ ~needsInit[w] =>
          lastOffset[w] + vecSize = Frontier(w)
    /\ scanPc[w] = "end" => nrTuples <= Frontier(w)

\* What remains is what somebody is ahead of, or what nobody has fetched.
ScanRemainingInv ==
  \A x \in Scans!Tuples :
     x \in scanRemaining <=> \/ pos * ChunkTuples <= x
                         \/ \E w \in Workers : AheadOf(w, x)

ScanIInv == ScanTypeOK /\ OwnerInv /\ PositionInv /\ ScanRemainingInv

-----------------------------------------------------------------------------
(***************************************************************************)
(* Arithmetic.                                                             *)
(***************************************************************************)
\* Multiples of a chunk are in the order of the factors.
LEMMA ScaledOrder ==
  ASSUME NEW k \in Nat, NEW c \in Nat, NEW d \in Nat, c < d
  PROVE  c * k + k <= d * k
  <1>1. PICK e \in Nat : d = c + 1 + e
    <2>1. d = c + 1 + (d - c - 1) /\ d - c - 1 \in Nat
      OBVIOUS
    <2> QED
      BY <2>1
  <1>2. d * k = c * k + k + e * k
    BY <1>1
  <1> QED
    BY <1>2

\* A chunk has at least one tuple.
LEMMA ChunkSizeType ==
  ASSUME ScanTypeOK
  PROVE  /\ Scans!scanChunkSize \in Nat \ {0} /\ ChunkTuples \in Nat \ {0}
         /\ vecSize \in Nat \ {0} /\ nrTuples \in Nat
         /\ ChunkTuples = Scans!scanChunkSize * vecSize
  <1>1. vecSize \in Nat \ {0} /\ nrTuples \in Nat
    BY DEF ScanTypeOK, Scans!TypeOK
  <1>2. MorselSize \div vecSize \in Nat
    BY <1>1 DEF ScanTypeOK
  <1>3. Scans!scanChunkSize \in Nat \ {0}
    BY <1>2 DEF Scans!scanChunkSize
  <1> QED
    BY <1>1, <1>3 DEF ChunkTuples

\* The frontier lies in the chunk.
LEMMA FrontierType ==
  ASSUME ScanIInv, NEW w \in Workers
  PROVE  /\ First(w) \in Nat /\ Limit(w) \in Nat /\ Frontier(w) \in Nat
         /\ First(w) <= Frontier(w) /\ Frontier(w) <= Limit(w)
         /\ vecInChunk[w] < Scans!scanChunkSize => Frontier(w) + vecSize <= Limit(w)
         /\ vecInChunk[w] = Scans!scanChunkSize => Frontier(w) = Limit(w)
  <1>1. /\ currentChunk[w] \in Nat /\ vecInChunk[w] \in Nat
        /\ vecInChunk[w] <= Scans!scanChunkSize
    BY ChunkSizeType DEF ScanIInv, ScanTypeOK, Scans!TypeOK
  <1>2. ScanTypeOK
    BY DEF ScanIInv
  <1>3. First(w) \in Nat /\ Limit(w) \in Nat /\ vecInChunk[w] * vecSize \in Nat
    BY <1>1, <1>2, ChunkSizeType DEF First, Limit
  <1>4. vecInChunk[w] < Scans!scanChunkSize => vecInChunk[w] * vecSize + vecSize <= ChunkTuples
    BY <1>1, <1>2, ChunkSizeType, ScaledOrder
  <1>5. vecInChunk[w] = Scans!scanChunkSize => vecInChunk[w] * vecSize = ChunkTuples
    BY <1>2, ChunkSizeType
  <1> QED
    BY <1>1, <1>2, <1>3, <1>4, <1>5, ChunkSizeType DEF Frontier, Limit

\* The chunks of two workers do not overlap, nor with those not yet fetched.
LEMMA OwnedApart ==
  ASSUME ScanIInv, NEW w \in Workers, ~needsInit[w]
  PROVE  /\ Limit(w) <= pos * ChunkTuples
         /\ \A u \in Workers \ {w} : ~needsInit[u] =>
                Limit(w) <= First(u) \/ Limit(u) <= First(w)
  <1>1. /\ ScanTypeOK /\ pos \in Nat /\ currentChunk[w] < pos
        /\ \A u \in Workers : currentChunk[u] \in Nat
    BY DEF ScanIInv, ScanTypeOK, Scans!TypeOK, OwnerInv
  <1>2. Limit(w) <= pos * ChunkTuples
    BY <1>1, ChunkSizeType, ScaledOrder DEF Limit, First
  <1>3. ASSUME NEW u \in Workers \ {w}, ~needsInit[u]
        PROVE  Limit(w) <= First(u) \/ Limit(u) <= First(w)
    <2>1. currentChunk[u] < currentChunk[w] \/ currentChunk[w] < currentChunk[u]
      BY <1>1, <1>3 DEF ScanIInv, OwnerInv
    <2> QED
      BY <1>1, <2>1, ChunkSizeType, ScaledOrder DEF Limit, First
  <1> QED
    BY <1>2, <1>3

-----------------------------------------------------------------------------
(***************************************************************************)
(* The inductive invariant holds.                                          *)
(***************************************************************************)
\* The invariant of Scan holds in the beginning.
LEMMA ScanInit ==
  ASSUME ScanConstants
  PROVE  Scans!Init => ScanIInv
  <1> SUFFICES ASSUME Scans!Init PROVE ScanIInv
    OBVIOUS
  <1>1. vecSize \in Nat \ {0} /\ nrTuples \in Nat
    BY DEF Scans!Init
  <1>2. MorselSize \div vecSize \in Nat
    BY <1>1
  <1>3. Scans!scanChunkSize \in Nat \ {0}
    BY <1>2 DEF Scans!scanChunkSize
  <1>4. ScanTypeOK
    BY <1>1, <1>3 DEF Scans!Init, ScanTypeOK, Scans!TypeOK
  <1>5. OwnerInv /\ PositionInv
    BY DEF Scans!Init, OwnerInv, PositionInv
  <1>6. ScanRemainingInv
    <2>1. pos * ChunkTuples = 0
      BY <1>4, ChunkSizeType DEF Scans!Init
    <2> QED
      BY <1>1, <2>1 DEF Scans!Init, ScanRemainingInv, Scans!Tuples
  <1> QED
    BY <1>4, <1>5, <1>6 DEF ScanIInv

\* The table does not change, so neither do the chunks.
LEMMA SameTable ==
  ASSUME UNCHANGED Scans!table
  PROVE  /\ Scans!scanChunkSize' = Scans!scanChunkSize /\ ChunkTuples' = ChunkTuples
         /\ Scans!Tuples' = Scans!Tuples
  BY DEF Scans!table, Scans!scanChunkSize, ChunkTuples, Scans!Tuples

\* A worker fetches a chunk of the table.
LEMMA FetchChunkKeeps ==
  ASSUME ScanIInv, NEW w \in Workers, Scans!FetchChunk(w)
  PROVE  ScanIInv'
  <1> USE DEF Scans!FetchChunk
  <1>1. /\ ScanTypeOK /\ pos \in Nat /\ currentChunk[w] \in Nat
        /\ scanPc[w] = "next" /\ vecInChunk[w] = Scans!scanChunkSize
        /\ UNCHANGED Scans!table
    BY DEF ScanIInv, ScanTypeOK, Scans!TypeOK
  <1>2. Scans!StepTo(w, pos) \in Nat
            /\ lastOffset[w] + Scans!StepTo(w, pos) * vecSize = pos * ChunkTuples
    <2>1. CASE needsInit[w]
      <3>1. Scans!StepTo(w, pos) = pos * Scans!scanChunkSize /\ lastOffset[w] = 0
        BY <1>1, <2>1, ChunkSizeType DEF Scans!StepTo, ScanIInv, PositionInv
      <3>2. pos * Scans!scanChunkSize \in Nat
        BY <1>1, ChunkSizeType
      <3>3. (pos * Scans!scanChunkSize) * vecSize = pos * ChunkTuples
        BY <1>1, ChunkSizeType
      <3> QED
        BY <1>1, <3>1, <3>2, <3>3, ChunkSizeType
    <2>2. CASE ~needsInit[w]
      <3>1. PICK e \in Nat : pos = currentChunk[w] + 1 + e
        <4>1. currentChunk[w] < pos
          BY <2>2 DEF ScanIInv, OwnerInv
        <4>2. pos - currentChunk[w] - 1 \in Nat
          BY <1>1, <4>1
        <4>3. pos = currentChunk[w] + 1 + (pos - currentChunk[w] - 1)
          BY <1>1
        <4> QED
          BY <4>2, <4>3
      <3>2. Scans!StepTo(w, pos) = e * Scans!scanChunkSize + 1
        BY <1>1, <2>2, <3>1, ChunkSizeType DEF Scans!StepTo
      <3>3. lastOffset[w] + vecSize = currentChunk[w] * ChunkTuples + ChunkTuples
        BY <1>1, <2>2, FrontierType DEF ScanIInv, PositionInv, Limit, First
      <3>4. (e * Scans!scanChunkSize + 1) * vecSize = e * ChunkTuples + vecSize
        BY <1>1, ChunkSizeType
      <3>5. pos * ChunkTuples = currentChunk[w] * ChunkTuples + ChunkTuples + e * ChunkTuples
        BY <1>1, <3>1, ChunkSizeType
      <3>6. lastOffset[w] \in Nat /\ e * ChunkTuples \in Nat /\ e * Scans!scanChunkSize \in Nat
            /\ currentChunk[w] * ChunkTuples \in Nat
        BY <1>1, ChunkSizeType DEF ScanTypeOK, Scans!TypeOK
      <3> QED
        BY <1>1, <3>2, <3>3, <3>4, <3>5, <3>6, ChunkSizeType
    <2> QED
      BY <2>1, <2>2
  <1>3. ScanTypeOK'
    BY <1>1, <1>2, ChunkSizeType, SameTable DEF ScanTypeOK, Scans!TypeOK, Scans!table
  <1>4. OwnerInv'
    BY <1>1 DEF ScanIInv, ScanTypeOK, Scans!TypeOK, OwnerInv
  <1>5. /\ First(w)' = pos * ChunkTuples /\ Frontier(w)' = pos * ChunkTuples
        /\ Limit(w)' = pos * ChunkTuples + ChunkTuples
        /\ \A u \in Workers \ {w} : /\ First(u)' = First(u) /\ Limit(u)' = Limit(u)
                                    /\ Frontier(u)' = Frontier(u)
    <2>1. 0 * vecSize = 0 /\ pos * ChunkTuples \in Nat
      BY <1>1, ChunkSizeType
    <2> QED
      BY <1>1, <2>1, ChunkSizeType, SameTable
         DEF First, Frontier, Limit, ScanTypeOK, Scans!TypeOK, Scans!table
  <1>6. PositionInv'
    <2>1. Scans!nextBegin(w)' = pos * ChunkTuples
      BY <1>2 DEF Scans!nextBegin, Scans!table, ScanTypeOK, Scans!TypeOK, ScanIInv
    <2> QED
      BY <1>1, <1>5, <2>1, ChunkSizeType, SameTable
         DEF ScanIInv, ScanTypeOK, Scans!TypeOK, PositionInv, Scans!nextBegin, Scans!table
  <1>7. ScanRemainingInv'
    <2>1. pos' * ChunkTuples = pos * ChunkTuples + ChunkTuples
      BY <1>1, ChunkSizeType
    <2>2. pos * ChunkTuples \in Nat
      BY <1>1, ChunkSizeType
    <2>3. \A x \in Nat : ~AheadOf(w, x)
      BY <1>1, FrontierType DEF AheadOf
    <2>4. \A x \in Nat : pos * ChunkTuples <= x <=>
                           pos' * ChunkTuples' <= x \/ AheadOf(w, x)'
      BY <1>1, <1>5, <2>1, <2>2, ChunkSizeType, SameTable DEF AheadOf, ScanTypeOK, Scans!TypeOK
    <2>5. \A u \in Workers \ {w}, x \in Nat : AheadOf(u, x)' <=> AheadOf(u, x)
      BY <1>5 DEF AheadOf, ScanTypeOK, Scans!TypeOK, ScanIInv
    <2>6. \A x \in Scans!Tuples : x \in Nat
      BY <1>1, ChunkSizeType DEF Scans!Tuples
    <2>7. ASSUME NEW x \in Scans!Tuples
          PROVE  x \in scanRemaining <=> \/ pos' * ChunkTuples' <= x
                                     \/ \E u \in Workers : AheadOf(u, x)'
      BY <2>3, <2>4, <2>5, <2>6 DEF ScanIInv, ScanRemainingInv
    <2> QED
      BY <1>1, <2>7, SameTable DEF ScanRemainingInv
  <1> QED
    BY <1>3, <1>4, <1>6, <1>7 DEF ScanIInv

\* Steps that neither move a chunk nor hand anything out.
LEMMA SameChunks ==
  ASSUME ScanIInv,
         UNCHANGED <<Scans!table, pos, needsInit, currentChunk, vecInChunk, scanRemaining>>
  PROVE  /\ OwnerInv' /\ ScanRemainingInv'
         /\ \A w \in Workers : Frontier(w)' = Frontier(w)
  <1>1. OwnerInv'
    BY DEF ScanIInv, OwnerInv
  <1>2. \A w \in Workers : /\ Frontier(w)' = Frontier(w) /\ First(w)' = First(w)
                           /\ Limit(w)' = Limit(w)
    BY SameTable DEF Frontier, First, Limit, Scans!table
  <1>3. ScanRemainingInv'
    BY <1>2, SameTable DEF ScanIInv, ScanRemainingInv, AheadOf
  <1> QED
    BY <1>1, <1>2, <1>3

\* A worker goes on in its chunk.
LEMMA StayInChunkKeeps ==
  ASSUME ScanIInv, NEW w \in Workers, Scans!StayInChunk(w)
  PROVE  ScanIInv'
  <1> USE DEF Scans!StayInChunk
  <1>1. ScanTypeOK'
    BY SameTable DEF ScanIInv, ScanTypeOK, Scans!TypeOK, Scans!table
  <1>2. PositionInv'
    <2>1. /\ ~needsInit[w] /\ vecInChunk[w] < Scans!scanChunkSize
          /\ lastOffset[w] + vecSize = Frontier(w)
      BY ChunkSizeType DEF ScanIInv, ScanTypeOK, Scans!TypeOK, PositionInv
    <2>2. Scans!nextBegin(w)' = Frontier(w)
      BY <2>1, ChunkSizeType DEF Scans!nextBegin, Scans!table, ScanIInv, ScanTypeOK, Scans!TypeOK
    <2> QED
      BY <2>1, <2>2, SameChunks, SameTable
         DEF ScanIInv, ScanTypeOK, Scans!TypeOK, PositionInv, Scans!nextBegin, Scans!table
  <1> QED
    BY <1>1, <1>2, SameChunks DEF ScanIInv

\* A worker comes to the end of the table.
LEMMA ReturnEndKeeps ==
  ASSUME ScanIInv, NEW w \in Workers, Scans!ReturnEnd(w)
  PROVE  ScanIInv'
  <1> USE DEF Scans!ReturnEnd
  <1>1. ScanTypeOK'
    BY ChunkSizeType, SameTable DEF ScanIInv, ScanTypeOK, Scans!TypeOK, Scans!table
  <1>2. PositionInv'
    <2>1. nrTuples <= Frontier(w)
      BY DEF Scans!AtEnd, ScanIInv, PositionInv
    <2> QED
      BY <2>1, SameChunks, SameTable
         DEF ScanIInv, ScanTypeOK, Scans!TypeOK, PositionInv, Scans!nextBegin, Scans!table
  <1> QED
    BY <1>1, <1>2, SameChunks DEF ScanIInv

\* The operator above asks for the next vector.
LEMMA ScanCallNextKeeps ==
  ASSUME ScanIInv, NEW w \in Workers, Scans!CallNext(w)
  PROVE  ScanIInv'
  <1> USE DEF Scans!CallNext
  <1>1. ScanTypeOK'
    BY SameTable DEF ScanIInv, ScanTypeOK, Scans!TypeOK, Scans!table
  <1>2. PositionInv'
    BY SameChunks, SameTable DEF ScanIInv, ScanTypeOK, Scans!TypeOK, PositionInv,
       Scans!nextBegin, Scans!table
  <1> QED
    BY <1>1, <1>2, SameChunks DEF ScanIInv

\* The vector that next() returns: the tuples from the frontier on.
LEMMA ReturnedVector ==
  ASSUME ScanIInv, NEW w \in Workers, Scans!ReturnVector(w)
  PROVE  /\ column'[w] = Frontier(w) /\ lastOffset'[w] = Frontier(w)
         /\ found'[w] \in 1 .. vecSize
         /\ Scans!Vector(w)' = {x \in Scans!Tuples : Frontier(w) <= x /\ x < Frontier(w) + vecSize}
         /\ \A x \in Scans!Vector(w)' : AheadOf(w, x)
         /\ Scans!Vector(w)' # {}
         /\ Scans!Vector(w)' \subseteq scanRemaining
         /\ Frontier(w) + vecSize <= Limit(w) /\ vecInChunk[w] < Scans!scanChunkSize
         /\ ~needsInit[w]
  <1> USE DEF Scans!ReturnVector
  <1>1. /\ Scans!nextBegin(w) = Frontier(w) /\ ~needsInit[w]
        /\ vecInChunk[w] < Scans!scanChunkSize
        /\ Frontier(w) < nrTuples /\ Frontier(w) + vecSize <= Limit(w)
        /\ Frontier(w) \in Nat /\ vecSize \in Nat \ {0} /\ nrTuples \in Nat
    <2>1. Scans!nextBegin(w) = Frontier(w) /\ ~needsInit[w] /\ vecInChunk[w] < Scans!scanChunkSize
      BY DEF ScanIInv, PositionInv
    <2>2. ~(Scans!nextBegin(w) >= nrTuples)
      BY DEF Scans!AtEnd
    <2> QED
      BY <2>1, <2>2, FrontierType, ChunkSizeType DEF ScanIInv
  <1>2. column'[w] = Frontier(w) /\ lastOffset'[w] = Frontier(w)
    BY <1>1 DEF ScanIInv, ScanTypeOK, Scans!TypeOK, PositionInv, Scans!nextBegin
  <1>3. found'[w] = Scans!min(nrTuples - Frontier(w), vecSize) /\ found'[w] \in 1 .. vecSize
    BY <1>1 DEF ScanIInv, ScanTypeOK, Scans!TypeOK, Scans!nextBatchSize, Scans!min
  <1>4. Scans!Vector(w)' = {x \in Scans!Tuples : Frontier(w) <= x /\ x < Frontier(w) + vecSize}
    <2>1. Scans!Vector(w)' = Frontier(w) .. Frontier(w) + found'[w] - 1
      BY <1>2 DEF Scans!Vector
    <2> QED
      BY <1>1, <1>3, <2>1 DEF Scans!Tuples, Scans!min
  <1>5. Frontier(w) \in Scans!Vector(w)'
    BY <1>1, <1>4 DEF Scans!Tuples
  <1>6. \A x \in Scans!Vector(w)' : AheadOf(w, x)
    BY <1>1, <1>4, FrontierType DEF AheadOf, Scans!Tuples
  <1>7. Scans!Vector(w)' \subseteq scanRemaining
    BY <1>4, <1>6 DEF ScanIInv, ScanRemainingInv
  <1> QED
    BY <1>1, <1>2, <1>3, <1>4, <1>5, <1>6, <1>7

\* A worker returns a vector.
LEMMA ReturnVectorKeeps ==
  ASSUME ScanIInv, NEW w \in Workers, Scans!ReturnVector(w)
  PROVE  ScanIInv'
  <1>1. /\ UNCHANGED <<Scans!table, pos, needsInit, currentChunk, step>>
        /\ vecInChunk' = [vecInChunk EXCEPT ![w] = vecInChunk[w] + 1]
        /\ scanRemaining' = scanRemaining \ Scans!Vector(w)'
        /\ \E f, c, l : /\ found' = [found EXCEPT ![w] = f]
                        /\ column' = [column EXCEPT ![w] = c]
                        /\ lastOffset' = [lastOffset EXCEPT ![w] = l]
        /\ scanPc' = [scanPc EXCEPT ![w] = "work"]
    BY DEF Scans!ReturnVector, ScanIInv, ScanTypeOK, Scans!TypeOK
  <1>2. /\ column'[w] = Frontier(w) /\ lastOffset'[w] = Frontier(w)
        /\ found'[w] \in 0 .. vecSize /\ Frontier(w) \in Nat
        /\ vecInChunk[w] + 1 \in 0 .. Scans!scanChunkSize
        /\ Scans!scanChunkSize \in Nat /\ vecSize \in Nat \ {0} /\ ~needsInit[w]
    BY ReturnedVector, FrontierType, ChunkSizeType DEF ScanIInv, ScanTypeOK, Scans!TypeOK
  <1>3. ScanTypeOK'
    <2>1. /\ found' = [found EXCEPT ![w] = found'[w]]
          /\ column' = [column EXCEPT ![w] = column'[w]]
          /\ lastOffset' = [lastOffset EXCEPT ![w] = lastOffset'[w]]
      BY <1>1 DEF ScanIInv, ScanTypeOK, Scans!TypeOK
    <2> QED
      BY <1>1, <1>2, <2>1, SameTable DEF ScanIInv, ScanTypeOK, Scans!TypeOK, Scans!table
  <1>4. OwnerInv'
    BY <1>1 DEF ScanIInv, OwnerInv
  <1>5. /\ Frontier(w)' = Frontier(w) + vecSize
        /\ \A u \in Workers : First(u)' = First(u) /\ Limit(u)' = Limit(u)
        /\ \A u \in Workers \ {w} : Frontier(u)' = Frontier(u)
    <2>1. /\ vecInChunk[w] \in Nat /\ vecInChunk'[w] = vecInChunk[w] + 1
          /\ vecSize' = vecSize
      BY <1>1 DEF ScanIInv, ScanTypeOK, Scans!TypeOK, Scans!table
    <2>2. vecInChunk'[w] * vecSize = vecInChunk[w] * vecSize + vecSize
      BY <1>2, <2>1
    <2>3. First(w) \in Nat /\ vecInChunk[w] * vecSize \in Nat
      BY <1>2, <2>1, FrontierType
    <2>4. \A u \in Workers : First(u)' = First(u) /\ Limit(u)' = Limit(u)
      BY <1>1, SameTable DEF First, Limit
    <2> QED
      BY <1>1, <1>2, <2>1, <2>2, <2>3, <2>4 DEF Frontier, ScanIInv, ScanTypeOK, Scans!TypeOK
  <1>6. PositionInv'
    BY <1>1, <1>2, <1>5, SameTable
       DEF ScanIInv, ScanTypeOK, Scans!TypeOK, PositionInv, Scans!nextBegin, Scans!table
  <1>7. ScanRemainingInv'
    <2>1. ASSUME NEW x \in Scans!Tuples
          PROVE  x \in scanRemaining' <=> \/ pos * ChunkTuples <= x
                                      \/ \E u \in Workers : AheadOf(u, x)'
      <3>1. x \in Nat
        BY ChunkSizeType DEF Scans!Tuples, ScanIInv
      <3>2. \A u \in Workers \ {w} : AheadOf(u, x)' <=> AheadOf(u, x)
        BY <1>1, <1>5 DEF AheadOf
      <3>3. CASE x \in Scans!Vector(w)'
        <4>1. AheadOf(w, x) /\ x < Frontier(w) + vecSize
          BY <3>3, ReturnedVector
        <4>2. ~AheadOf(w, x)'
          BY <1>2, <1>5, <3>1, <4>1 DEF AheadOf
        <4>3. ASSUME NEW u \in Workers \ {w}, AheadOf(u, x)
              PROVE  FALSE
          <5>1. Limit(w) <= First(u) \/ Limit(u) <= First(w)
            BY <4>3, <1>2, OwnedApart DEF AheadOf
          <5> QED
            BY <3>1, <4>1, <4>3, <5>1, FrontierType DEF AheadOf
        <4>4. ~(pos * ChunkTuples <= x)
          <5>1. Limit(w) <= pos * ChunkTuples /\ pos * ChunkTuples \in Nat
            BY <1>2, OwnedApart, ChunkSizeType DEF ScanIInv, ScanTypeOK, Scans!TypeOK
          <5> QED
            BY <3>1, <4>1, <5>1, FrontierType DEF AheadOf
        <4> QED
          BY <1>1, <3>2, <3>3, <4>2, <4>3, <4>4
      <3>4. CASE x \notin Scans!Vector(w)'
        <4>1. AheadOf(w, x)' <=> AheadOf(w, x)
          <5>1. ~(Frontier(w) <= x /\ x < Frontier(w) + vecSize)
            BY <3>4, ReturnedVector
          <5> QED
            BY <1>1, <1>2, <1>5, <3>1, <5>1, FrontierType DEF AheadOf
        <4> QED
          BY <1>1, <3>2, <3>4, <4>1 DEF ScanIInv, ScanRemainingInv
      <3> QED
        BY <3>3, <3>4
    <2> QED
      BY <1>1, <2>1, SameTable DEF ScanRemainingInv
  <1> QED
    BY <1>3, <1>4, <1>6, <1>7 DEF ScanIInv

-----------------------------------------------------------------------------
\* Every reachable state of Scan satisfies the inductive invariant.
THEOREM ScanInvariant ==
  ASSUME ScanConstants
  PROVE  Scans!Spec => []ScanIInv
  <1>1. ScanIInv /\ [Scans!Next]_(Scans!vars) => ScanIInv'
    <2> SUFFICES ASSUME ScanIInv, [Scans!Next]_(Scans!vars) PROVE ScanIInv'
      OBVIOUS
    <2>1. ASSUME NEW w \in Workers, Scans!Step(w)
          PROVE  ScanIInv'
      BY <2>1, FetchChunkKeeps, StayInChunkKeeps, ReturnVectorKeeps, ReturnEndKeeps,
         ScanCallNextKeeps DEF Scans!Step
    <2>2. CASE UNCHANGED Scans!vars
      <3>1. ScanTypeOK' /\ OwnerInv'
        BY <2>2, SameTable DEF Scans!vars, Scans!table, ScanIInv, ScanTypeOK, Scans!TypeOK, OwnerInv
      <3>2. PositionInv' /\ ScanRemainingInv'
        BY <2>2, SameChunks, SameTable
           DEF Scans!vars, Scans!table, ScanIInv, PositionInv, Scans!nextBegin
      <3> QED
        BY <3>1, <3>2 DEF ScanIInv
    <2> QED
      BY <2>1, <2>2 DEF Scans!Next, Scans!Terminated
  <1> QED
    BY ScanInit, <1>1, PTL DEF Scans!Spec

\* The variables of Scan keep their types: no column pointer moves backwards
\* over the start of the table, and vecInChunk never passes the chunk.
THEOREM ScanTypeCorrect ==
  ASSUME ScanConstants
  PROVE  Scans!Spec => []Scans!TypeOK
  <1>1. ScanIInv => Scans!TypeOK
    BY DEF ScanIInv, ScanTypeOK
  <1> QED
    BY <1>1, ScanInvariant, PTL

\* Scan hands every tuple to exactly one worker, exactly once, and the last
\* end of stream leaves no tuple behind: for any number of workers, tuples
\* and tuples in a vector.
THEOREM ScanImplementsHandout ==
  ASSUME ScanConstants
  PROVE  Scans!Spec => Scans!Implements
  <1> DEFINE holds == [w \in Workers |-> IF scanPc[w] = "work" THEN Scans!Vector(w) ELSE {}]
  <1> DEFINE ended == {w \in Workers : scanPc[w] = "end"}
  <1>1. Scans!Init => Scans!Source!Init
    BY DEF Scans!Init, Scans!Source!Init
  <1>2. ScanIInv /\ [Scans!Next]_(Scans!vars) => [Scans!Source!Next]_(Scans!Source!vars)
    <2> SUFFICES ASSUME ScanIInv, [Scans!Next]_(Scans!vars)
                 PROVE  Scans!Source!Next \/ UNCHANGED <<scanRemaining, holds, ended>>
      BY DEF Scans!Source!vars
    <2>1. ASSUME NEW w \in Workers, Scans!FetchChunk(w) \/ Scans!StayInChunk(w)
          PROVE  UNCHANGED <<scanRemaining, holds, ended>>
      <3>1. /\ scanPc[w] = "next" /\ scanPc'[w] = "step" /\ scanRemaining' = scanRemaining
            /\ \A u \in Workers \ {w} : scanPc'[u] = scanPc[u]
            /\ UNCHANGED <<column, found>>
        BY <2>1 DEF Scans!FetchChunk, Scans!StayInChunk, ScanIInv, ScanTypeOK, Scans!TypeOK
      <3> QED
        BY <3>1 DEF Scans!Vector
    <2>2. ASSUME NEW w \in Workers, Scans!ReturnVector(w)
          PROVE  Scans!Source!Take(w)
      <3>1. /\ scanPc[w] = "step" /\ scanPc'[w] = "work"
                /\ scanRemaining' = scanRemaining \ Scans!Vector(w)'
            /\ \A u \in Workers \ {w} : /\ scanPc'[u] = scanPc[u] /\ column'[u] = column[u]
                                       /\ found'[u] = found[u]
        BY <2>2 DEF Scans!ReturnVector, ScanIInv, ScanTypeOK, Scans!TypeOK
      <3>2. \A u \in Workers \ {w} : Scans!Vector(u)' = Scans!Vector(u)
        BY <3>1 DEF Scans!Vector
      <3>3. holds' = [holds EXCEPT ![w] = Scans!Vector(w)'] /\ holds[w] = {} /\ ended' = ended
        BY <3>1, <3>2
      <3>4. holds'[w] = Scans!Vector(w)' /\ w \notin ended
        BY <3>1
      <3>5. Scans!Vector(w)' # {} /\ Scans!Vector(w)' \subseteq scanRemaining
        BY <2>2, ReturnedVector
      <3> QED
        BY <3>1, <3>3, <3>4, <3>5 DEF Scans!Source!Take
    <2>3. ASSUME NEW w \in Workers, Scans!CallNext(w)
          PROVE  Scans!Source!Next \/ UNCHANGED <<scanRemaining, holds, ended>>
      <3>1. /\ scanPc[w] = "work" /\ scanPc'[w] = "next" /\ scanRemaining' = scanRemaining
            /\ \A u \in Workers \ {w} : scanPc'[u] = scanPc[u]
            /\ UNCHANGED <<column, found>>
        BY <2>3 DEF Scans!CallNext, ScanIInv, ScanTypeOK, Scans!TypeOK
      <3>2. holds' = [holds EXCEPT ![w] = {}] /\ ended' = ended
        BY <3>1 DEF Scans!Vector
      <3>3. CASE holds[w] # {}
        BY <3>1, <3>2, <3>3 DEF Scans!Source!Next, Scans!Source!Release
      <3>4. CASE holds[w] = {}
        BY <3>1, <3>2, <3>4
      <3> QED
        BY <3>3, <3>4
    <2>4. ASSUME NEW w \in Workers, Scans!ReturnEnd(w)
          PROVE  Scans!Source!Finish(w)
      <3>1. /\ scanPc[w] = "step" /\ scanPc'[w] = "end" /\ scanRemaining' = scanRemaining
            /\ \A u \in Workers \ {w} : /\ scanPc'[u] = scanPc[u] /\ column'[u] = column[u]
                                       /\ found'[u] = found[u]
        BY <2>4 DEF Scans!ReturnEnd, ScanIInv, ScanTypeOK, Scans!TypeOK
      <3>2. holds' = holds /\ holds[w] = {} /\ w \notin ended /\ ended' = ended \cup {w}
        BY <3>1 DEF Scans!Vector
      <3>3. ASSUME ended' = Workers, NEW x \in scanRemaining
            PROVE  FALSE
        <4>1. ScanIInv'
          BY <2>4, ReturnEndKeeps
        <4>2. /\ \A u \in Workers : ~needsInit'[u] /\ nrTuples' <= Frontier(u)'
              /\ UNCHANGED <<Scans!table, pos, needsInit, currentChunk, vecInChunk>>
          BY <2>4, <3>3, <4>1 DEF Scans!ReturnEnd, ScanIInv, ScanTypeOK, Scans!TypeOK, PositionInv
        <4>3. \A u \in Workers : ~needsInit[u] /\ nrTuples <= Frontier(u)
          BY <4>2, SameTable DEF Frontier, First, Scans!table
        <4>4. x \in Nat /\ x < nrTuples /\ x \in Scans!Tuples
          BY ChunkSizeType DEF ScanIInv, ScanTypeOK, Scans!TypeOK, Scans!Tuples
        <4>5. \A u \in Workers : ~AheadOf(u, x)
          BY <4>3, <4>4, FrontierType, ChunkSizeType DEF ScanIInv, AheadOf
        <4>6. ~(pos * ChunkTuples <= x)
          <5>1. Limit(w) <= pos * ChunkTuples /\ pos * ChunkTuples \in Nat
            BY <4>3, OwnedApart, ChunkSizeType DEF ScanIInv, ScanTypeOK, Scans!TypeOK
          <5> QED
            BY <4>3, <4>4, <5>1, FrontierType, ChunkSizeType DEF ScanIInv
        <4> QED
          BY <4>4, <4>5, <4>6 DEF ScanIInv, ScanRemainingInv
      <3> QED
        BY <3>1, <3>2, <3>3 DEF Scans!Source!Finish
    <2>5. CASE UNCHANGED Scans!vars
      BY <2>5 DEF Scans!vars, Scans!Vector
    <2> HIDE DEF holds, ended
    <2> QED
      BY <2>1, <2>2, <2>3, <2>4, <2>5 DEF Scans!Next, Scans!Step, Scans!Terminated,
         Scans!Source!Next
  <1> QED
    BY <1>1, <1>2, ScanInvariant, PTL DEF Scans!Spec, Scans!Source!Spec, Scans!Implements
=============================================================================
