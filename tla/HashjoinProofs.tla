--------------------------- MODULE HashjoinProofs ---------------------------
(***************************************************************************)
(* Proofs about Hashjoin: for output vectors of any size, any chains, any  *)
(* number of probe vectors and any selection vector, no algorithm writes   *)
(* behind the end of its output (OutputFits) or ends while a pair of the   *)
(* result is missing (NothingMissing), the ring loses no chain             *)
(* (NoChainLost), and all but joinAll return each pair exactly once        *)
(* (Implements, NoPairTwice).                                              *)
(*                                                                         *)
(* The idea is to say, at every location of every algorithm, which pairs   *)
(* of the current vector it has yet to come to, the open ones: those of    *)
(* the tuples it has not looked at, and those at or behind the entries     *)
(* that it has put aside.  A pair of the join result is missing if it is   *)
(* of a later vector, open, or in the output that is not yet returned.     *)
(***************************************************************************)
EXTENDS Hashjoin, Induction, TLAPS

-----------------------------------------------------------------------------
\* The pairs of vector b.
PairsOf(b) ==
  UNION {{<<b, t - 1, j>> : j \in DOMAIN input[b][t]}
         : t \in IF b = 0 THEN {} ELSE DOMAIN input[b]}

\* Those that are open if the tuples from `fresh` on have not been looked at
\* and the rests of chains are put aside in some cells of a store.
Open(P, store, cells, fresh) ==
  {p \in P : p[2] >= fresh \/ \E c \in cells : p[2] = store[c][2] /\ p[3] >= store[c][3]}

\* Each of these rests is of another tuple.
Apart(P, store, cells, fresh) ==
  \A c \in cells : /\ store[c] \in P
                   /\ store[c][2] < fresh
                   /\ \A d \in cells : c # d => store[c][2] # store[d][2]

\* What is in the output and not yet returned.
Unreturned == IF pc = "return" THEN {} ELSE Pairs(matches)

\* A pair is missing if, and only if, it is still to be returned.
Accounted(J, miss, b, out, open) ==
  /\ \A p \in J : p \in miss <=> (p[1] > b \/ p \in open \/ p \in out)
  /\ open \cap out = {}

\* At least no missing pair is forgotten.
Covered(miss, b, out, open) == \A p \in miss : p[1] > b \/ p \in open \/ p \in out

-----------------------------------------------------------------------------
Triples == Nat \X Nat \X Nat

\* Of what is common to the algorithms.
TypeInv ==
  /\ input \in [1 .. NrBatches -> Vectors]
  /\ probeSel \in {NoSel, Selection}
  /\ join \in {"joinAll", "joinSel", "joinAllParallel", "joinSelParallel",
              "joinAllSIMD", "joinSelSIMD", "joinBoncz"}
  /\ drawn \in 0 .. NrBatches
  /\ nextProbe \in 0 .. BatchSize
  /\ numProbes \in 0 .. BatchSize
  /\ matches \in Seq([build : Triples, probe : Nat])
  /\ missing \subseteq JoinResult

OutputInv ==
  /\ \A n \in DOMAIN matches : /\ matches[n].build \in PairsOf(drawn)
                               /\ matches[n].probe = Row(matches[n].build[2])
                               /\ pc = "return" => Kind(matches[n].build) = Match
  /\ pc \in {"next", "join", "end"} => matches = <<>>
  /\ pc = "return" => matches # <<>>
  /\ Len(matches) <= BatchSize

VectorInv ==
  /\ drawn > 0 /\ pc # "end" => numProbes = Len(input[drawn])
  /\ drawn = 0 => pc \in {"next", "end"} /\ numProbes = 0
  /\ pc \notin {"next", "key", "return", "end", "chains"} => nextProbe < numProbes
  /\ pc = "end" => missing = {}

CommonInv == TypeInv /\ OutputInv /\ VectorInv

-----------------------------------------------------------------------------
\* joinAll and joinSel.  Behind End the next tuple of the loop has to be begun.
From(t, q) == {p \in PairsOf(drawn) : p[2] > t \/ (p[2] = t /\ q # All!End /\ p[3] >= q[3])}

OpenAll ==
  CASE pc = "chains" -> From(i, at)
    [] pc = "continue" /\ buildMatch # All!End -> From(nextProbe, at)
    [] OTHER -> IF buildMatch = All!End THEN {p \in PairsOf(drawn) : p[2] >= nextProbe}
                ELSE From(nextProbe, buildMatch)

IsAt(q, t) == q = All!End \/ (q \in PairsOf(drawn) /\ q[2] = t)

AllInv ==
  /\ pc \in {"next", "join", "continue", "chains", "key", "return", "end"}
  /\ pc # "end" => Covered(missing, drawn, Unreturned, OpenAll)
  /\ pc # "chains" => IsAt(buildMatch, nextProbe) \/ pc = "end"
  /\ pc = "continue" => /\ IsAt(at, nextProbe)
                        /\ buildMatch = All!End => at = All!End
                        /\ Len(matches) < BatchSize
  /\ pc = "chains" => /\ i \in 0 .. numProbes
                      /\ IsAt(at, i)
                      /\ i = numProbes => at = All!End
                      /\ \/ Len(matches) < BatchSize
                         \/ at = All!End /\ i + 1 >= numProbes
  /\ nextProbe >= numProbes /\ pc # "chains" => buildMatch = All!End

-----------------------------------------------------------------------------
\* joinAllParallel, joinAllSIMD and their Sel forms: the cells of the ring that
\* are in use when it is read at f and written at w.
Used(f, w) == {c \in 0 .. BatchSize : IF f <= w THEN f <= c /\ c < w ELSE f <= c \/ c < w}

\* How many these are, in the ring, and the cell behind a cell.
Ring == 0 .. BatchSize
NrUsed(f, w) == IF f <= w THEN w - f ELSE BatchSize + 1 - (f - w)
Succ(c) == IF c = BatchSize THEN 0 ELSE c + 1

following == pc \in {"first", "wrap", "while", "round"}

Cells == IF following THEN Used(followup, followupWrite) ELSE Used(contFollowup, contWrite)

Fresh ==
  CASE pc = "first" -> i
    [] pc = "join" /\ contFollowup = contWrite -> 0
    [] OTHER -> BatchSize

RingType ==
  /\ pc \in {"next", "join", "first", "wrap", "while", "round", "key", "return", "end"}
  /\ ring \in [0 .. BatchSize -> Triples]
  /\ contFollowup \in 0 .. BatchSize /\ contWrite \in 0 .. BatchSize
  /\ followup \in 0 .. BatchSize /\ followupWrite \in 0 .. BatchSize
  /\ i \in 0 .. BatchSize
  /\ left \in Nat
  /\ full \in BOOLEAN

RingOpen ==
  /\ Apart(PairsOf(drawn), ring, Cells, Fresh)
  /\ pc # "end" =>
        Accounted(JoinResult, missing, drawn, Unreturned, Open(PairsOf(drawn), ring, Cells, Fresh))

RingCont ==
  /\ ~following /\ contFollowup = contWrite => contFollowup = 0
  /\ pc \in {"key", "return", "next"} => (nextProbe < numProbes <=> contFollowup # contWrite)
  /\ pc = "end" => contFollowup = contWrite

RingLoop ==
  /\ pc = "first" => /\ followup = 0
                     /\ followupWrite <= i
                     /\ i <= numProbes
                     /\ Len(matches) <= i
                     /\ join \in {"joinAllSIMD", "joinSelSIMD"} /\ i < numProbes - SIMD!rest =>
                           \E n \in 0 .. numProbes : i = Lanes * n
  /\ pc = "round" => /\ Len(matches) + left <= BatchSize
                     /\ left <= NrUsed(followup, followupWrite)
                     /\ full => left < NrUsed(followup, followupWrite)

RingInv == RingType /\ RingOpen /\ RingCont /\ RingLoop

-----------------------------------------------------------------------------
\* joinBoncz.
CellsBoncz ==
  CASE pc \in {"first", "while"} -> 0 .. followupWrite - 1
    [] pc = "round" -> (0 .. followupWrite - 1) \cup (k .. e - 1)
    [] OTHER -> 0 .. contWrite - 1

FreshBoncz ==
  CASE pc = "first" -> k
    [] pc = "join" /\ contWrite = 0 -> 0
    [] OTHER -> BatchSize

BonczType ==
  /\ pc \in {"next", "join", "first", "while", "round", "key", "return", "end"}
  /\ followups \in [0 .. BatchSize - 1 -> Triples]
  /\ contWrite \in 0 .. BatchSize
  /\ followupWrite \in 0 .. BatchSize
  /\ e \in 0 .. BatchSize
  /\ k \in 0 .. BatchSize

BonczOpen ==
  /\ Apart(PairsOf(drawn), followups, CellsBoncz, FreshBoncz)
  /\ pc # "end" =>
        Accounted(JoinResult, missing, drawn, Unreturned,
                  Open(PairsOf(drawn), followups, CellsBoncz, FreshBoncz))

BonczLoop ==
  /\ pc \in {"key", "return", "next"} => (nextProbe < numProbes <=> contWrite # 0)
  /\ pc = "end" => contWrite = 0
  /\ pc = "first" => followupWrite <= k /\ k <= numProbes /\ matches = <<>>
  /\ pc = "while" => Len(matches) + followupWrite <= BatchSize
  /\ pc = "round" => followupWrite <= k /\ k <= e /\ Len(matches) + (e - k) <= BatchSize

BonczInv == BonczType /\ BonczOpen /\ BonczLoop

-----------------------------------------------------------------------------
\* The invariant that every step preserves.
IInv ==
  /\ CommonInv
  /\ join \in chainByChain => AllInv
  /\ join \in {"joinAllParallel", "joinSelParallel", "joinAllSIMD", "joinSelSIMD"} => RingInv
  /\ join = "joinBoncz" => BonczInv

-----------------------------------------------------------------------------
\* What is kept is not longer, has the elements of the set, all of them, and each
\* as often as it was there.
LEMMA KeptIs ==
  ASSUME NEW V, NEW s \in Seq(V), NEW S
  PROVE  /\ Kept(s, S) \in Seq(V)
         /\ Len(Kept(s, S)) <= Len(s)
         /\ \A n \in 1 .. Len(Kept(s, S)) :
               Kept(s, S)[n] \in S /\ \E m \in 1 .. Len(s) : Kept(s, S)[n] = s[m]
         /\ \A m \in 1 .. Len(s) :
               s[m] \in S => \E n \in 1 .. Len(Kept(s, S)) : Kept(s, S)[n] = s[m]
         /\ (\A m, n \in 1 .. Len(s) : s[m] = s[n] => m = n)
               => \A m, n \in 1 .. Len(Kept(s, S)) : Kept(s, S)[m] = Kept(s, S)[n] => m = n
  <1>1. Kept(s, S) = Filtered(s, S)
    BY DEF Kept, Filtered
  <1> DEFINE those == Filtered(s, S)
  <1>2. /\ those \in Seq(V)
        /\ Len(those) <= Len(s)
        /\ \A n \in 1 .. Len(those) : those[n] \in S /\ \E m \in 1 .. Len(s) : those[n] = s[m]
        /\ \A m \in 1 .. Len(s) : s[m] \in S => \E n \in 1 .. Len(those) : those[n] = s[m]
        /\ (\A m, n \in 1 .. Len(s) : s[m] = s[n] => m = n)
              => \A m, n \in 1 .. Len(those) : those[m] = those[n] => m = n
    BY FilteredIs, Zenon
  <1> HIDE DEF those
  <1> QED
    BY <1>1, <1>2 DEF those

-----------------------------------------------------------------------------
\* The vectors, chains and pairs.
Kinds == {Match, Collision, Other}

\* A vector has one to batchSize tuples, and each of them a chain.
LEMMA VectorIs ==
  ASSUME input \in [1 .. NrBatches -> Vectors], NEW b \in 1 .. NrBatches
  PROVE  /\ Len(input[b]) \in 1 .. BatchSize
         /\ DOMAIN input[b] = 1 .. Len(input[b])
         /\ \A t \in 1 .. Len(input[b]) : input[b][t] \in Seq(Kinds)
  <1>1. PICK n \in 1 .. BatchSize : input[b] \in [1 .. n -> Chains]
    BY DEF Vectors
  <1>2. input[b] \in Seq(Chains) /\ Len(input[b]) = n
    BY <1>1, BatchSizeAssumption
  <1>3. \A t \in 1 .. n : input[b][t] \in Seq(Kinds)
    BY <1>1, ChainsAssumption DEF Kinds
  <1> QED
    BY <1>1, <1>2, <1>3

\* The pairs of a vector, entry by entry.
LEMMA PairsAre ==
  ASSUME input \in [1 .. NrBatches -> Vectors], NEW b \in 1 .. NrBatches, NEW p
  PROVE  p \in PairsOf(b) <=> /\ p \in Triples
                              /\ p[1] = b
                              /\ p[2] < Len(input[b])
                              /\ p[3] \in 1 .. Len(input[b][p[2] + 1])
  <1> DEFINE v == input[b]
  <1>1. /\ Len(v) \in Nat /\ DOMAIN v = 1 .. Len(v)
        /\ \A t \in 1 .. Len(v) : v[t] \in Seq(Kinds)
    BY VectorIs, BatchSizeAssumption
  <1>2. p \in PairsOf(b) <=> \E t \in DOMAIN v : \E j \in DOMAIN v[t] : p = <<b, t - 1, j>>
    BY NrBatchesAssumption DEF PairsOf
  <1> HIDE DEF v
  <1>3. b \in Nat
    BY NrBatchesAssumption
  <1>4. ASSUME p \in PairsOf(b)
        PROVE  p \in Triples /\ p[1] = b /\ p[2] < Len(v) /\ p[3] \in 1 .. Len(v[p[2] + 1])
    <2>1. PICK t \in 1 .. Len(v) : \E j \in DOMAIN v[t] : p = <<b, t - 1, j>>
      BY <1>1, <1>2, <1>4
    <2>2. PICK j \in DOMAIN v[t] : p = <<b, t - 1, j>>
      BY <2>1
    <2>3. v[t] \in Seq(Kinds)
      BY <1>1
    <2>4. j \in 1 .. Len(v[t]) /\ j \in Nat /\ t - 1 \in Nat /\ t - 1 < Len(v) /\ (t - 1) + 1 = t
      BY <1>1, <2>2, <2>3
    <2> QED
      BY <1>3, <2>2, <2>4 DEF Triples
  <1>5. ASSUME p \in Triples, p[1] = b, p[2] < Len(v), p[3] \in 1 .. Len(v[p[2] + 1])
        PROVE  p \in PairsOf(b)
    <2> DEFINE t == p[2] + 1
    <2>1. p = <<b, p[2], p[3]>> /\ p[2] \in Nat
      BY <1>5 DEF Triples
    <2>2. t \in 1 .. Len(v) /\ t - 1 = p[2]
      BY <1>1, <1>5, <2>1
    <2>3. v[t] \in Seq(Kinds) /\ p[3] \in 1 .. Len(v[t])
      BY <1>1, <1>5, <2>2
    <2>4. p[3] \in DOMAIN v[t]
      BY <2>3
    <2> QED
      BY <1>1, <1>2, <2>1, <2>2, <2>4
  <1> QED
    BY <1>4, <1>5 DEF v

\* Before the first vector there is none of them.
LEMMA NoPairsBefore == PairsOf(0) = {}
  BY DEF PairsOf

\* The join result has the pairs of all vectors with a matching entry.
LEMMA ResultIs ==
  ASSUME input \in [1 .. NrBatches -> Vectors], NEW p
  PROVE  p \in JoinResult <=> \E b \in 1 .. NrBatches : p \in PairsOf(b) /\ Kind(p) = Match
  <1>1. ASSUME NEW b \in 1 .. NrBatches
        PROVE  (p \in PairsOf(b) /\ Kind(p) = Match)
               <=> p \in UNION {{<<b, t - 1, j>> : j \in {n \in DOMAIN input[b][t] : input[b][t][n] = Match}}
                                : t \in DOMAIN input[b]}
    <2>1. b # 0 /\ DOMAIN input[b] = 1 .. Len(input[b]) /\ Len(input[b]) \in Nat
      BY VectorIs, NrBatchesAssumption, BatchSizeAssumption
    <2>2. ASSUME NEW t \in DOMAIN input[b], NEW j \in DOMAIN input[b][t], p = <<b, t - 1, j>>
          PROVE  Kind(p) = input[b][t][j]
      <3>1. (t - 1) + 1 = t
        BY <2>1
      <3> QED
        BY <2>2, <3>1 DEF Kind
    <2>3. p \in PairsOf(b) <=> \E t \in DOMAIN input[b] : \E j \in DOMAIN input[b][t] : p = <<b, t - 1, j>>
      BY <2>1 DEF PairsOf
    <2>4. p \in UNION {{<<b, t - 1, j>> : j \in {n \in DOMAIN input[b][t] : input[b][t][n] = Match}}
                       : t \in DOMAIN input[b]}
          <=> \E t \in DOMAIN input[b] : \E j \in DOMAIN input[b][t] :
                 p = <<b, t - 1, j>> /\ input[b][t][j] = Match
      OBVIOUS
    <2> QED
      BY <2>2, <2>3, <2>4
  <1> QED
    BY <1>1 DEF JoinResult

-----------------------------------------------------------------------------
\* The pair behind another in its chain.
After(q) == <<q[1], q[2], q[3] + 1>>

\* What the lemmas on open pairs need of the pairs of a vector.
Shape(P, b) ==
  /\ P \subseteq Triples
  /\ \A p \in P : p[1] = b /\ p[3] >= 1
  /\ \A p, q \in P : p[2] = q[2] /\ p[3] < q[3] => After(p) \in P

\* The pairs of a vector have this shape.
LEMMA PairsHaveShape ==
  ASSUME input \in [1 .. NrBatches -> Vectors], NEW b \in 0 .. NrBatches
  PROVE  Shape(PairsOf(b), b)
  <1>1. CASE b = 0
    BY <1>1, NoPairsBefore DEF Shape
  <1>2. CASE b # 0
    <2>1. b \in 1 .. NrBatches
      BY <1>2, NrBatchesAssumption
    <2>2. ASSUME NEW p \in PairsOf(b)
          PROVE  p \in Triples /\ p[1] = b /\ p[3] \in Nat /\ p[3] >= 1 /\ p[2] < Len(input[b])
      BY <2>1, PairsAre DEF Triples
    <2>3. ASSUME NEW p \in PairsOf(b), NEW q \in PairsOf(b), p[2] = q[2], p[3] < q[3]
          PROVE  After(p) \in PairsOf(b)
      <3> DEFINE a == After(p)
      <3>1. /\ p \in Triples /\ q \in Triples /\ p[1] = b /\ p[2] < Len(input[b])
            /\ p[3] \in 1 .. Len(input[b][p[2] + 1]) /\ q[3] \in 1 .. Len(input[b][q[2] + 1])
        BY <2>1, PairsAre
      <3>2. a \in Triples /\ a[1] = b /\ a[2] = p[2] /\ a[3] = p[3] + 1
        BY <3>1, SMTT(30) DEF After, Triples
      <3>3. a[3] \in 1 .. Len(input[b][a[2] + 1])
        <4>1. p[3] \in Nat /\ q[3] \in Nat
          BY <3>1 DEF Triples
        <4>2. Len(input[b][p[2] + 1]) \in Nat
          <5>1. p[2] + 1 \in 1 .. Len(input[b]) /\ Len(input[b]) \in Nat
            BY <2>1, <3>1, VectorIs, BatchSizeAssumption DEF Triples
          <5> QED
            BY <2>1, <5>1, VectorIs
        <4> QED
          BY <2>3, <3>1, <3>2, <4>1, <4>2
      <3> HIDE DEF a
      <3>4. a \in PairsOf(b)
        BY <2>1, <3>1, <3>2, <3>3, PairsAre
      <3> QED
        BY <3>4 DEF a
    <2> QED
      BY <2>2, <2>3 DEF Shape
  <1> QED
    BY <1>1, <1>2

\* A pair is taken from cell c, and the rest of its chain put into cell w.
Going(P, b, store, cells, fresh, c, w, store2, cells2) ==
  /\ Shape(P, b) /\ fresh \in Nat /\ Apart(P, store, cells, fresh)
  /\ c \in cells /\ cells \subseteq DOMAIN store
  /\ w \in DOMAIN store /\ w \notin cells \ {c}
  /\ After(store[c]) \in P
  /\ store2 = [store EXCEPT ![w] = After(store[c])]
  /\ cells2 = (cells \ {c}) \cup {w}

\* Nothing but this pair is no longer open.
LEMMA GoesOn ==
  ASSUME NEW P, NEW b, NEW store, NEW cells, NEW fresh, NEW c, NEW w, NEW store2, NEW cells2,
         Going(P, b, store, cells, fresh, c, w, store2, cells2)
  PROVE  /\ Open(P, store2, cells2, fresh) = Open(P, store, cells, fresh) \ {store[c]}
         /\ Apart(P, store2, cells2, fresh)
  <1> DEFINE q == store[c]
  <1>1. /\ store2[w] = After(q) /\ \A d \in cells2 : d # w => d \in cells /\ d # c /\ store2[d] = store[d]
        /\ \A d \in cells : d # c => d # w /\ d \in cells2
        /\ w \in cells2 /\ c \in cells /\ fresh \in Nat /\ Shape(P, b)
    BY DEF Going
  <1>2. /\ q \in P /\ q \in Triples /\ q[2] < fresh
        /\ \A d \in cells : d # c => store[d][2] # q[2]
    BY DEF Apart, Going, Shape
  <1>3. After(q)[2] = q[2] /\ After(q)[3] = q[3] + 1 /\ q[2] \in Nat /\ q[3] \in Nat /\ q[1] = b
    BY <1>1, <1>2 DEF After, Triples, Shape
  <1>6. After(q) \in P /\ Apart(P, store, cells, fresh)
    BY DEF Going
  <1> HIDE DEF q
  <1>4. ASSUME NEW p \in P
        PROVE  p \in Open(P, store2, cells2, fresh) <=> p \in Open(P, store, cells, fresh) /\ p # q
    <2>1. p \in Triples /\ p[1] = b /\ p[2] \in Nat /\ p[3] \in Nat /\ p = <<p[1], p[2], p[3]>>
      BY <1>1 DEF Shape, Triples
    <2>2. q = <<b, q[2], q[3]>>
      BY <1>2, <1>3 DEF Triples
    <2>3. CASE p[2] = q[2]
      <3>1. p \in Open(P, store2, cells2, fresh) <=> p[3] >= q[3] + 1
        BY <1>1, <1>2, <1>3, <2>1, <2>3 DEF Open
      <3>2. p \in Open(P, store, cells, fresh) <=> p[3] >= q[3]
        BY <1>1, <1>2, <1>3, <2>1, <2>3 DEF Open, q
      <3>3. p # q <=> p[3] # q[3]
        BY <2>1, <2>2, <2>3
      <3> QED
        BY <1>3, <2>1, <3>1, <3>2, <3>3
    <2>4. CASE p[2] # q[2]
      BY <1>1, <1>3, <2>4 DEF Open, q
    <2> QED
      BY <2>3, <2>4
  <1>5. Apart(P, store2, cells2, fresh)
    BY <1>1, <1>2, <1>3, <1>6 DEF Apart, q
  <1> QED
    BY <1>4, <1>5 DEF q, Open

\* A pair is taken from cell c, and it is the last of its chain.
Ending(P, b, store, cells, fresh, c, cells2) ==
  /\ Shape(P, b) /\ fresh \in Nat /\ Apart(P, store, cells, fresh)
  /\ c \in cells
  /\ After(store[c]) \notin P
  /\ cells2 = cells \ {c}

\* Again, nothing but this pair is no longer open.
LEMMA ChainEnds ==
  ASSUME NEW P, NEW b, NEW store, NEW cells, NEW fresh, NEW c, NEW cells2,
         Ending(P, b, store, cells, fresh, c, cells2)
  PROVE  /\ Open(P, store, cells2, fresh) = Open(P, store, cells, fresh) \ {store[c]}
         /\ Apart(P, store, cells2, fresh)
  <1> DEFINE q == store[c]
  <1>1. /\ \A d : d \in cells2 <=> d \in cells /\ d # c
        /\ c \in cells /\ fresh \in Nat /\ Shape(P, b) /\ Apart(P, store, cells, fresh)
    BY DEF Ending
  <1>2. /\ q \in P /\ q \in Triples /\ q[2] < fresh
        /\ \A d \in cells : d # c => store[d][2] # q[2]
    BY <1>1 DEF Apart, Shape
  <1>3. q[2] \in Nat /\ q[3] \in Nat /\ q[1] = b /\ q = <<b, q[2], q[3]>>
    BY <1>1, <1>2 DEF Triples, Shape
  <1>4. After(q) \notin P
    BY DEF Ending
  <1> HIDE DEF q
  <1>5. ASSUME NEW p \in P
        PROVE  p \in Open(P, store, cells2, fresh) <=> p \in Open(P, store, cells, fresh) /\ p # q
    <2>1. p \in Triples /\ p[1] = b /\ p[2] \in Nat /\ p[3] \in Nat /\ p = <<p[1], p[2], p[3]>>
      BY <1>1 DEF Shape, Triples
    <2>2. CASE p[2] = q[2]
      <3>1. p[3] <= q[3]
        BY <1>1, <1>2, <1>3, <1>4, <2>1, <2>2 DEF Shape
      <3>2. p \notin Open(P, store, cells2, fresh)
        BY <1>1, <1>2, <1>3, <2>1, <2>2 DEF Open
      <3>3. p \in Open(P, store, cells, fresh) <=> p[3] >= q[3]
        BY <1>1, <1>2, <1>3, <2>1, <2>2 DEF Open, q
      <3> QED
        BY <1>3, <2>1, <2>2, <3>1, <3>2, <3>3
    <2>3. CASE p[2] # q[2]
      BY <1>1, <2>3 DEF Open, q
    <2> QED
      BY <2>2, <2>3
  <1>6. Apart(P, store, cells2, fresh)
    BY <1>1 DEF Apart
  <1> QED
    BY <1>5, <1>6 DEF q, Open

\* The tuples from t on and before u are looked at: the hth entries of their chains
\* are put into the cells W, and the others stay.
Begun(P, store, cells, t, store2, W, u, h) ==
  /\ W \cap cells = {}
  /\ \A c \in cells : store2[c] = store[c]
  /\ \A c \in W : /\ store2[c] \in P /\ t <= store2[c][2] /\ store2[c][2] < u /\ store2[c][3] = h
                  /\ \A d \in W : c # d => store2[c][2] # store2[d][2]
  /\ \A p \in P : t <= p[2] /\ p[2] < u /\ p[3] >= h => \E c \in W : p[2] = store2[c][2]

\* Nothing is taken but the entries before those.
LEMMA Begins ==
  ASSUME NEW P, NEW b, Shape(P, b), NEW store, NEW cells, NEW store2, NEW W,
         NEW t \in Nat, NEW u \in Nat, t <= u, NEW h \in Nat, Apart(P, store, cells, t),
         Begun(P, store, cells, t, store2, W, u, h),
         NEW cells2, cells2 = cells \cup W
  PROVE  /\ Open(P, store2, cells2, u)
              = Open(P, store, cells, t) \ {p \in P : t <= p[2] /\ p[2] < u /\ p[3] < h}
         /\ Apart(P, store2, cells2, u)
  <1>1. ASSUME NEW c \in cells
        PROVE  /\ store2[c] = store[c] /\ store[c] \in P /\ store[c] \in Triples /\ store[c][2] < t /\ store[c][2] \in Nat
               /\ \A d \in cells : c # d => store[c][2] # store[d][2]
    BY DEF Apart, Shape, Triples, Begun
  <1>2. ASSUME NEW c \in W
        PROVE  store2[c] \in Triples /\ store2[c][2] \in Nat /\ store2[c][3] = h
    BY DEF Shape, Triples, Begun
  <1>3. ASSUME NEW p \in P
        PROVE  p \in Open(P, store2, cells2, u)
               <=> p \in Open(P, store, cells, t) /\ ~(t <= p[2] /\ p[2] < u /\ p[3] < h)
    <2>1. p[2] \in Nat /\ p[3] \in Nat
      BY DEF Shape, Triples
    <2>2. CASE p[2] < t
      BY <1>1, <1>2, <2>1, <2>2 DEF Open, Begun
    <2>3. CASE t <= p[2] /\ p[2] < u
      <3>1. p \in Open(P, store, cells, t)
        BY <2>3 DEF Open
      <3>2. p[3] >= h => p \in Open(P, store2, cells2, u)
        BY <1>2, <2>1, <2>3 DEF Open, Begun
      <3>3. p \in Open(P, store2, cells2, u) => p[3] >= h
        BY <1>1, <1>2, <2>1, <2>3 DEF Open, Begun
      <3> QED
        BY <2>1, <2>3, <3>1, <3>2, <3>3
    <2>4. CASE u <= p[2]
      BY <2>1, <2>4 DEF Open
    <2> QED
      BY <2>1, <2>2, <2>3, <2>4
  <1>4. Apart(P, store2, cells2, u)
    BY <1>1, <1>2 DEF Apart, Begun
  <1> QED
    BY <1>3, <1>4 DEF Open

\* Pairs that are taken from the open ones go to the output, or have no match.
LEMMA TakenIsAccounted ==
  ASSUME NEW J, NEW miss, NEW b, NEW out, NEW open, Accounted(J, miss, b, out, open),
         NEW Q, NEW R, R \subseteq Q, Q \subseteq open, Q \cap J \subseteq R,
         NEW out2, out2 = out \cup R, NEW open2, open2 = open \ Q
  PROVE  Accounted(J, miss, b, out2, open2)
  BY DEF Accounted

-----------------------------------------------------------------------------
\* The pairs in the output.
Cells0 == [build : Triples, probe : Nat]

\* One pair more.
LEMMA PairsAppended ==
  ASSUME NEW ms \in Seq(Cells0), NEW m \in Cells0
  PROVE  /\ Append(ms, m) \in Seq(Cells0)
         /\ Len(Append(ms, m)) = Len(ms) + 1
         /\ Pairs(Append(ms, m)) = Pairs(ms) \cup {m.build}
  <1> DEFINE a == Append(ms, m)
  <1>1. /\ a \in Seq(Cells0) /\ Len(a) = Len(ms) + 1 /\ DOMAIN a = 1 .. Len(ms) + 1
        /\ DOMAIN ms = 1 .. Len(ms) /\ Len(ms) \in Nat
        /\ a[Len(ms) + 1] = m /\ \A n \in 1 .. Len(ms) : a[n] = ms[n]
    OBVIOUS
  <1> HIDE DEF a
  <1>2. Elements(a) = Elements(ms) \cup {m}
    <2>1. \A n \in DOMAIN a : n \in DOMAIN ms \/ n = Len(ms) + 1
      BY <1>1
    <2>2. Len(ms) + 1 \in DOMAIN a /\ \A n \in DOMAIN ms : n \in DOMAIN a
      BY <1>1
    <2> QED
      BY <1>1, <2>1, <2>2 DEF Elements
  <1> QED
    BY <1>1, <1>2 DEF Pairs, a

-----------------------------------------------------------------------------
\* No pair is in the output twice.
Distinct(ms) == \A m, n \in DOMAIN ms : ms[m].build = ms[n].build => m = n

\* That stays so when a pair is written that is not yet there.
LEMMA DistinctAppended ==
  ASSUME NEW ms \in Seq(Cells0), NEW m \in Cells0, Distinct(ms), m.build \notin Pairs(ms)
  PROVE  Distinct(Append(ms, m))
  <1> SUFFICES ASSUME NEW a \in 1 .. Len(ms) + 1, NEW b \in 1 .. Len(ms) + 1,
                      Append(ms, m)[a].build = Append(ms, m)[b].build
               PROVE  a = b
    BY DEF Distinct
  <1>1. Len(ms) \in Nat /\ DOMAIN ms = 1 .. Len(ms)
    OBVIOUS
  <1>2. \A c \in 1 .. Len(ms) : Append(ms, m)[c] = ms[c] /\ ms[c].build \in Pairs(ms)
    BY <1>1 DEF Pairs, Elements
  <1>3. Append(ms, m)[Len(ms) + 1] = m
    BY <1>1
  <1>4. \A c \in 1 .. Len(ms) + 1 : c \in 1 .. Len(ms) \/ c = Len(ms) + 1
    BY <1>1
  <1> QED
    BY <1>1, <1>2, <1>3, <1>4 DEF Distinct

\* The instances have the probe side of this module.
LEMMA SameProbeSide ==
  /\ All!Vectors = Vectors /\ All!JoinResult = JoinResult
  /\ All!DrawVector <=> DrawVector
  /\ All!EndOfStream <=> EndOfStream
  /\ All!Resume <=> Resume
  /\ All!KeyEquality <=> KeyEquality
  /\ All!CallNext <=> CallNext
  /\ Parallel!ProbeNext <=> ProbeNext
  /\ SIMD!ProbeNext <=> ProbeNext
  /\ Boncz!ProbeNext <=> ProbeNext
  <1>1. All!Vectors = Vectors /\ All!JoinResult = JoinResult
    BY DEF All!Vectors, Vectors, All!JoinResult, JoinResult, All!Match, Match
  <1>2. /\ All!DrawVector <=> DrawVector
        /\ All!EndOfStream <=> EndOfStream
        /\ All!Resume <=> Resume
        /\ All!CallNext <=> CallNext
    BY DEF All!DrawVector, DrawVector, All!EndOfStream, EndOfStream, All!Resume, Resume,
           All!CallNext, CallNext
  <1>3. All!KeyEquality <=> KeyEquality
    BY DEF All!KeyEquality, KeyEquality, All!Kept, Kept, All!Elements, Elements, All!isMatch, isMatch,
           All!Kind, Kind, All!Match, Match, All!Row, Row, All!NoSel, NoSel, All!Pairs, Pairs
  <1>4. Parallel!ProbeNext <=> ProbeNext
    BY DEF Parallel!ProbeNext, ProbeNext, Parallel!DrawVector, DrawVector, Parallel!EndOfStream, EndOfStream,
           Parallel!Resume, Resume, Parallel!CallNext, CallNext,
           Parallel!KeyEquality, KeyEquality, Parallel!Kept, Kept, Parallel!Elements, Elements,
           Parallel!isMatch, isMatch, Parallel!Kind, Kind, Parallel!Match, Match, Parallel!Row, Row,
           Parallel!NoSel, NoSel, Parallel!Pairs, Pairs
  <1>5. SIMD!ProbeNext <=> ProbeNext
    BY DEF SIMD!ProbeNext, ProbeNext, SIMD!DrawVector, DrawVector, SIMD!EndOfStream, EndOfStream,
           SIMD!Resume, Resume, SIMD!CallNext, CallNext,
           SIMD!KeyEquality, KeyEquality, SIMD!Kept, Kept, SIMD!Elements, Elements,
           SIMD!isMatch, isMatch, SIMD!Kind, Kind, SIMD!Match, Match, SIMD!Row, Row,
           SIMD!NoSel, NoSel, SIMD!Pairs, Pairs
  <1>6. Boncz!ProbeNext <=> ProbeNext
    BY DEF Boncz!ProbeNext, ProbeNext, Boncz!DrawVector, DrawVector, Boncz!EndOfStream, EndOfStream,
           Boncz!Resume, Resume, Boncz!CallNext, CallNext,
           Boncz!KeyEquality, KeyEquality, Boncz!Kept, Kept, Boncz!Elements, Elements,
           Boncz!isMatch, isMatch, Boncz!Kind, Kind, Boncz!Match, Match, Boncz!Row, Row,
           Boncz!NoSel, NoSel, Boncz!Pairs, Pairs
  <1> QED
    BY <1>1, <1>2, <1>3, <1>4, <1>5, <1>6

\* Nothing is drawn at first.
LEMMA InitIInv == Init => IInv
  <1> SUFFICES ASSUME Init PROVE IInv
    OBVIOUS
  <1>1. /\ input \in [1 .. NrBatches -> Vectors] /\ drawn = 0 /\ nextProbe = 0 /\ numProbes = 0
        /\ matches = <<>> /\ pc = "next" /\ missing = JoinResult
        /\ buildMatch = All!End /\ at = All!End /\ i = 0
    BY SameProbeSide DEF Init, All!Init, All!ProbeInit
  <1>2. /\ ring = [c \in 0 .. BatchSize |-> <<0, 0, 0>>]
        /\ contFollowup = 0 /\ contWrite = 0 /\ followup = 0 /\ followupWrite = 0 /\ left = 0 /\ full = FALSE
        /\ followups = [c \in 0 .. BatchSize - 1 |-> <<0, 0, 0>>] /\ e = 0 /\ k = 0
    BY DEF Init, Parallel!Init, Parallel!Nothing, Boncz!Init, Boncz!Nothing
  <1>3. /\ join \in {"joinAll", "joinSel", "joinAllParallel", "joinSelParallel",
                    "joinAllSIMD", "joinSelSIMD", "joinBoncz"}
        /\ probeSel \in {NoSel, Selection}
    BY DEF Init
  <1>4. PairsOf(drawn) = {} /\ Pairs(matches) = {} /\ DOMAIN matches = {} /\ Len(matches) = 0
    BY <1>1, NoPairsBefore DEF Pairs, Elements
  <1>5. \A p \in JoinResult : p[1] > drawn
    <2> SUFFICES ASSUME NEW p \in JoinResult PROVE p[1] > 0
      BY <1>1
    <2>1. PICK b \in 1 .. NrBatches : p \in PairsOf(b)
      BY <1>1, ResultIs
    <2>2. p[1] = b
      BY <1>1, <2>1, PairsAre
    <2> QED
      BY <2>2, NrBatchesAssumption
  <1>6. CommonInv
    <2>1. TypeInv
      BY <1>1, <1>3, NrBatchesAssumption, BatchSizeAssumption DEF TypeInv
    <2>2. OutputInv
      BY <1>1, <1>4, BatchSizeAssumption DEF OutputInv
    <2>3. VectorInv
      BY <1>1 DEF VectorInv
    <2> QED
      BY <2>1, <2>2, <2>3 DEF CommonInv
  <1>7. AllInv
    BY <1>1, <1>5 DEF AllInv, Covered, IsAt
  <1>8. Unreturned = {} /\ Cells = {} /\ CellsBoncz = {}
    <2>1. Used(0, 0) = {} /\ 0 .. 0 - 1 = {}
      BY DEF Used
    <2> QED
      BY <1>1, <1>2, <1>4, <2>1 DEF Unreturned, Cells, CellsBoncz, following
  <1>9. RingInv
    <2>1. /\ Apart(PairsOf(drawn), ring, Cells, Fresh)
          /\ Open(PairsOf(drawn), ring, Cells, Fresh) = {}
      BY <1>4, <1>8 DEF Apart, Open
    <2>2. Accounted(JoinResult, missing, drawn, Unreturned, Open(PairsOf(drawn), ring, Cells, Fresh))
      BY <1>1, <1>5, <1>8, <2>1 DEF Accounted
    <2>3. ring \in [0 .. BatchSize -> Triples] /\ 0 \in 0 .. BatchSize
      BY <1>2, BatchSizeAssumption DEF Triples
    <2> QED
      <3>1. ~following /\ pc = "next" /\ ~(0 < 0)
        BY <1>1 DEF following
      <3>2. left \in Nat /\ full \in BOOLEAN
        BY <1>2
      <3> QED
        BY <1>1, <1>2, <2>1, <2>2, <2>3, <3>1, <3>2 DEF RingInv, RingType, RingOpen, RingCont, RingLoop
  <1>10. BonczInv
    <2>1. /\ Apart(PairsOf(drawn), followups, CellsBoncz, FreshBoncz)
          /\ Open(PairsOf(drawn), followups, CellsBoncz, FreshBoncz) = {}
      BY <1>4, <1>8 DEF Apart, Open
    <2>2. Accounted(JoinResult, missing, drawn, Unreturned,
                    Open(PairsOf(drawn), followups, CellsBoncz, FreshBoncz))
      BY <1>1, <1>5, <1>8, <2>1 DEF Accounted
    <2>3. followups \in [0 .. BatchSize - 1 -> Triples] /\ 0 \in 0 .. BatchSize
      BY <1>2, BatchSizeAssumption DEF Triples
    <2> QED
      BY <1>1, <1>2, <2>1, <2>2, <2>3 DEF BonczInv, BonczType, BonczOpen, BonczLoop
  <1> QED
    BY <1>6, <1>7, <1>9, <1>10 DEF IInv

-----------------------------------------------------------------------------
\* What a step that leaves the vectors alone leaves alone besides.
LEMMA VectorsStay ==
  ASSUME UNCHANGED <<input, drawn>>
  PROVE  PairsOf(drawn)' = PairsOf(drawn) /\ JoinResult' = JoinResult
  BY DEF PairsOf, JoinResult

\* A step of an algorithm writes nothing, or a pair of the vector with its row.
LEMMA StepKeepsCommon ==
  ASSUME CommonInv, UNCHANGED <<input, drawn, numProbes, probeSel, missing, join>>,
         pc \notin {"next", "return", "end"}, pc' \notin {"next", "join", "return", "end"},
         nextProbe' \in 0 .. BatchSize, pc' \notin {"key", "chains"} => nextProbe' < numProbes,
         \/ matches' = matches
         \/ \E p \in PairsOf(drawn) : matches' = Append(matches, Written(p, p[2])) /\ Len(matches) < BatchSize
  PROVE  CommonInv' /\ drawn \in 1 .. NrBatches
  <1>1. drawn \in 1 .. NrBatches
    BY NrBatchesAssumption DEF CommonInv, VectorInv, TypeInv
  <1>2. /\ PairsOf(drawn)' = PairsOf(drawn) /\ JoinResult' = JoinResult
        /\ \A t : Row(t)' = Row(t)
    BY VectorsStay DEF Row
  <1>3. VectorInv'
    BY <1>1 DEF CommonInv, VectorInv
  <1>4. CASE matches' = matches
    BY <1>1, <1>2, <1>3, <1>4 DEF CommonInv, TypeInv, OutputInv
  <1>5. ASSUME NEW p \in PairsOf(drawn), matches' = Append(matches, Written(p, p[2])), Len(matches) < BatchSize
        PROVE  CommonInv'
    <2> DEFINE m == Written(p, p[2])
    <2>1. matches \in Seq(Cells0) /\ input \in [1 .. NrBatches -> Vectors]
      BY DEF CommonInv, TypeInv, Cells0
    <2>2. p \in Triples /\ p[2] \in 0 .. BatchSize - 1
      <3>1. p \in Triples /\ p[2] < Len(input[drawn]) /\ Len(input[drawn]) \in 1 .. BatchSize
        BY <1>1, <2>1, PairsAre, VectorIs
      <3> QED
        BY <3>1, BatchSizeAssumption DEF Triples
    <2>3. Row(p[2]) \in Nat
      BY <2>2, BatchSizeAssumption, SelectionAssumption DEF CommonInv, TypeInv, Row, NoSel
    <2>4. m \in Cells0 /\ m.build = p /\ m.probe = Row(p[2])
      BY <2>2, <2>3 DEF Written, Cells0
    <2> HIDE DEF m
    <2>5. /\ matches' = Append(matches, m) /\ matches' \in Seq(Cells0) /\ Len(matches') = Len(matches) + 1
          /\ Len(matches) \in Nat
      BY <1>5, <2>1, <2>4 DEF m
    <2>6. TypeInv'
      BY <1>2, <2>5 DEF CommonInv, TypeInv, Cells0
    <2>7. \A n \in DOMAIN matches' : \/ n \in DOMAIN matches /\ matches'[n] = matches[n]
                                    \/ matches'[n] = m
      BY <2>1, <2>4, <2>5
    <2>8. Len(matches') <= BatchSize
      BY <1>5, <2>5, BatchSizeAssumption
    <2>9. OutputInv'
      BY <1>2, <2>4, <2>7, <2>8 DEF CommonInv, OutputInv
    <2> QED
      BY <1>3, <2>6, <2>9 DEF CommonInv
  <1> QED
    BY <1>1, <1>4, <1>5

\* right->next() returns a vector.
LEMMA DrawKeepsCommon ==
  ASSUME CommonInv, DrawVector, UNCHANGED join
  PROVE  CommonInv'
  <1>1. /\ pc = "next" /\ drawn' = drawn + 1 /\ numProbes' = Len(input[drawn + 1]) /\ nextProbe' = 0
        /\ pc' = "join" /\ UNCHANGED <<probeSel, input, matches, missing>> /\ drawn < NrBatches
    BY DEF DrawVector
  <1>2. drawn + 1 \in 1 .. NrBatches /\ drawn + 1 \in 0 .. NrBatches /\ drawn + 1 > 0
    BY <1>1, NrBatchesAssumption DEF CommonInv, TypeInv
  <1>3. Len(input[drawn + 1]) \in 1 .. BatchSize
    BY <1>2, VectorIs DEF CommonInv, TypeInv
  <1>4. Len(input[drawn + 1]) \in 0 .. BatchSize /\ 0 \in 0 .. BatchSize /\ 0 < Len(input[drawn + 1])
    BY <1>3, BatchSizeAssumption
  <1>5. JoinResult' = JoinResult
    BY <1>1 DEF JoinResult
  <1>6. TypeInv'
    BY <1>1, <1>2, <1>4, <1>5 DEF CommonInv, TypeInv
  <1>7. matches' = <<>> /\ Len(matches') <= BatchSize
    BY <1>1 DEF CommonInv, OutputInv
  <1>8. OutputInv'
    BY <1>1, <1>7 DEF OutputInv
  <1>9. VectorInv'
    BY <1>1, <1>2, <1>4 DEF VectorInv
  <1> QED
    BY <1>6, <1>8, <1>9 DEF CommonInv

\* It returns the end of the stream.
LEMMA EndKeepsCommon ==
  ASSUME CommonInv, EndOfStream, UNCHANGED join, missing = {}
  PROVE  CommonInv'
  <1>1. /\ pc = "next" /\ drawn' = drawn /\ numProbes' = 0 /\ nextProbe' = 0
        /\ pc' = "end" /\ UNCHANGED <<probeSel, input, matches, missing>>
    BY DEF EndOfStream
  <1>2. matches = <<>> /\ Len(matches) <= BatchSize /\ 0 \in 0 .. BatchSize
    BY <1>1, BatchSizeAssumption DEF CommonInv, OutputInv
  <1>3. TypeInv'
    BY <1>1, <1>2 DEF CommonInv, TypeInv, JoinResult
  <1>4. OutputInv' /\ VectorInv'
    BY <1>1, <1>2 DEF OutputInv, VectorInv
  <1> QED
    BY <1>3, <1>4 DEF CommonInv

\* The vector is not through.
LEMMA ResumeKeepsCommon ==
  ASSUME CommonInv, Resume, UNCHANGED join
  PROVE  CommonInv'
  <1>1. /\ pc = "next" /\ nextProbe < numProbes
        /\ pc' = "join" /\ UNCHANGED <<probeSel, input, drawn, nextProbe, numProbes, matches, missing>>
    BY DEF Resume
  <1>2. matches = <<>> /\ Len(matches) <= BatchSize
    BY <1>1 DEF CommonInv, OutputInv
  <1>3. TypeInv'
    BY <1>1, <1>2 DEF CommonInv, TypeInv, JoinResult
  <1>4. OutputInv'
    BY <1>1, <1>2 DEF OutputInv
  <1>5. drawn # 0
    BY <1>1 DEF CommonInv, TypeInv, VectorInv
  <1>6. VectorInv'
    BY <1>1, <1>5 DEF CommonInv, VectorInv
  <1> QED
    BY <1>3, <1>4, <1>6 DEF CommonInv

\* keyEquality keeps the pairs of the join result, and all of them.
LEMMA KeyEqualityKeepsCommon ==
  ASSUME CommonInv, KeyEquality, UNCHANGED join
  PROVE  /\ CommonInv'
         /\ Pairs(matches') = Pairs(matches) \cap JoinResult
         /\ missing' = missing \ Pairs(matches')
         /\ Distinct(matches) => Distinct(matches')
  <1>1. /\ pc = "key" /\ matches' = Kept(matches, {m \in Elements(matches) : isMatch(m)})
        /\ pc' = (IF matches' = <<>> THEN "next" ELSE "return") /\ missing' = missing \ Pairs(matches')
        /\ UNCHANGED <<probeSel, input, drawn, nextProbe, numProbes>>
    BY DEF KeyEquality
  <1> DEFINE S == {m \in Elements(matches) : isMatch(m)}
  <1>2. /\ matches' \in Seq(Cells0) /\ Len(matches') <= Len(matches)
        /\ \A n \in 1 .. Len(matches') : matches'[n] \in S /\ \E m \in 1 .. Len(matches) : matches'[n] = matches[m]
        /\ \A m \in 1 .. Len(matches) : matches[m] \in S => \E n \in 1 .. Len(matches') : matches'[n] = matches[m]
        /\ (\A m, n \in 1 .. Len(matches) : matches[m] = matches[n] => m = n)
              => \A m, n \in 1 .. Len(matches') : matches'[m] = matches'[n] => m = n
    <2>1. matches \in Seq(Cells0)
      BY DEF CommonInv, TypeInv, Cells0
    <2> HIDE DEF S
    <2>2. matches' = Kept(matches, S)
      BY <1>1 DEF S
    <2> DEFINE kept == Kept(matches, S)
    <2>3. /\ kept \in Seq(Cells0) /\ Len(kept) <= Len(matches)
          /\ \A n \in 1 .. Len(kept) : kept[n] \in S /\ \E m \in 1 .. Len(matches) : kept[n] = matches[m]
      BY <2>1, KeptIs
    <2>4. \A m \in 1 .. Len(matches) : matches[m] \in S => \E n \in 1 .. Len(kept) : kept[n] = matches[m]
      BY <2>1, KeptIs
    <2>5. (\A m, n \in 1 .. Len(matches) : matches[m] = matches[n] => m = n)
             => \A m, n \in 1 .. Len(kept) : kept[m] = kept[n] => m = n
      BY <2>1, KeptIs
    <2>6. kept = matches'
      BY <2>2
    <2> HIDE DEF kept
    <2> QED
      BY <2>3, <2>4, <2>5, <2>6
  <1>3. /\ matches \in Seq(Cells0) /\ input \in [1 .. NrBatches -> Vectors] /\ drawn \in 1 .. NrBatches
        /\ DOMAIN matches = 1 .. Len(matches) /\ DOMAIN matches' = 1 .. Len(matches') /\ Len(matches) \in Nat
        /\ Len(matches') \in Nat
    BY <1>1, <1>2, NrBatchesAssumption DEF CommonInv, TypeInv, VectorInv, Cells0
  <1>4. /\ PairsOf(drawn)' = PairsOf(drawn) /\ JoinResult' = JoinResult
        /\ \A t : Row(t)' = Row(t)
        /\ \A p : Kind(p)' = Kind(p)
    BY <1>1, VectorsStay DEF Row, Kind
  <1>5. \A n \in 1 .. Len(matches') : /\ matches'[n].build \in PairsOf(drawn)
                                      /\ matches'[n].probe = Row(matches'[n].build[2])
                                      /\ Kind(matches'[n].build) = Match
    BY <1>2, <1>3, ZenonT(30) DEF CommonInv, OutputInv, isMatch
  <1>6. \A n \in 1 .. Len(matches) :
           Kind(matches[n].build) = Match => matches[n] \in S
    BY <1>3 DEF CommonInv, OutputInv, isMatch, Elements
  <1> HIDE DEF S
  <1>7. Pairs(matches') = Pairs(matches) \cap JoinResult
    <2>1. ASSUME NEW p \in Pairs(matches')
          PROVE  p \in Pairs(matches) /\ p \in JoinResult
      <3>1. PICK n \in 1 .. Len(matches') : p = matches'[n].build
        BY <1>3 DEF Pairs, Elements
      <3>2. p \in Pairs(matches)
        BY <1>2, <1>3, <3>1, ZenonT(60) DEF Pairs, Elements
      <3>3. p \in JoinResult
        BY <1>3, <1>5, <3>1, ResultIs
      <3> QED
        BY <3>2, <3>3
    <2>2. ASSUME NEW p \in Pairs(matches), p \in JoinResult
          PROVE  p \in Pairs(matches')
      <3>1. PICK m \in 1 .. Len(matches) : p = matches[m].build
        BY <1>3 DEF Pairs, Elements
      <3>2. Kind(p) = Match
        BY <1>3, <2>2, ResultIs
      <3>3. PICK n \in 1 .. Len(matches') : matches'[n] = matches[m]
        BY <1>2, <1>6, <3>1, <3>2
      <3> QED
        BY <1>3, <3>1, <3>3 DEF Pairs, Elements
    <2> QED
      BY <2>1, <2>2
  <1>8. TypeInv'
    BY <1>1, <1>2, <1>4 DEF CommonInv, TypeInv, Cells0
  <1>9. OutputInv'
    <2>1. Len(matches') <= BatchSize
      BY <1>2, <1>3, BatchSizeAssumption DEF CommonInv, OutputInv
    <2>2. pc' \in {"next", "return"} /\ (pc' = "next" <=> matches' = <<>>)
      BY <1>1
    <2> QED
      BY <1>1, <1>3, <1>4, <1>5, <2>1, <2>2 DEF OutputInv, Row, Kind
  <1>10. VectorInv'
    BY <1>1, <1>3 DEF CommonInv, VectorInv
  <1>11. Distinct(matches) => Distinct(matches')
    <2> SUFFICES ASSUME Distinct(matches), NEW a \in 1 .. Len(matches'), NEW b \in 1 .. Len(matches'),
                        matches'[a].build = matches'[b].build
                 PROVE  a = b
      BY <1>3 DEF Distinct
    <2>1. PICK m \in 1 .. Len(matches) : matches'[a] = matches[m]
      BY <1>2
    <2>2. PICK n \in 1 .. Len(matches) : matches'[b] = matches[n]
      BY <1>2
    <2>3. m = n
      BY <1>3, <2>1, <2>2 DEF Distinct
    <2>4. \A c, d \in 1 .. Len(matches) : matches[c] = matches[d] => c = d
      BY <1>3 DEF Distinct
    <2>5. \A c, d \in 1 .. Len(matches') : matches'[c] = matches'[d] => c = d
      BY <1>2, <2>4
    <2>6. matches'[a] = matches'[b]
      BY <2>1, <2>2, <2>3
    <2> QED
      BY <2>5, <2>6
  <1> QED
    BY <1>1, <1>7, <1>8, <1>9, <1>10, <1>11 DEF CommonInv

\* The operator above calls next() again.
LEMMA CallNextKeepsCommon ==
  ASSUME CommonInv, CallNext, UNCHANGED join
  PROVE  CommonInv'
  <1>1. /\ pc = "return" /\ matches' = <<>> /\ pc' = "next"
        /\ UNCHANGED <<probeSel, input, drawn, nextProbe, numProbes, missing>>
    BY DEF CallNext
  <1>2. TypeInv'
    BY <1>1 DEF CommonInv, TypeInv, JoinResult
  <1>3. OutputInv' /\ VectorInv'
    BY <1>1, BatchSizeAssumption DEF CommonInv, TypeInv, OutputInv, VectorInv
  <1> QED
    BY <1>2, <1>3 DEF CommonInv

-----------------------------------------------------------------------------
\* What is accounted for around the probe side's own steps, whatever is open.
\* With a new vector, all of its pairs are open.
LEMMA DrawAccounts ==
  ASSUME TypeInv, drawn < NrBatches, Accounted(JoinResult, missing, drawn, {}, {})
  PROVE  Accounted(JoinResult, missing, drawn + 1, {}, PairsOf(drawn + 1))
  <1> SUFFICES ASSUME NEW p \in JoinResult
               PROVE  p \in missing <=> (p[1] > drawn + 1 \/ p \in PairsOf(drawn + 1))
    BY DEF Accounted
  <1>1. PICK b \in 1 .. NrBatches : p \in PairsOf(b)
    BY ResultIs DEF TypeInv
  <1>2. p[1] = b /\ b \in Nat /\ drawn \in Nat /\ drawn + 1 \in 1 .. NrBatches
    BY <1>1, PairsAre, NrBatchesAssumption DEF TypeInv
  <1>3. p \in missing <=> p[1] > drawn
    BY DEF Accounted
  <1>4. p \in PairsOf(drawn + 1) <=> b = drawn + 1
    BY <1>1, <1>2, PairsAre DEF TypeInv
  <1> QED
    BY <1>2, <1>3, <1>4

\* Behind the last vector, nothing is missing.
LEMMA NothingAccounted ==
  ASSUME TypeInv, drawn = NrBatches, Accounted(JoinResult, missing, drawn, {}, {})
  PROVE  missing = {}
  <1> SUFFICES ASSUME NEW p \in missing PROVE FALSE
    OBVIOUS
  <1>1. p \in JoinResult
    BY DEF TypeInv
  <1>2. PICK b \in 1 .. NrBatches : p \in PairsOf(b)
    BY <1>1, ResultIs DEF TypeInv
  <1>3. p[1] = b /\ b \in Nat
    BY <1>2, PairsAre, NrBatchesAssumption DEF TypeInv
  <1>4. p[1] > drawn
    BY <1>1 DEF Accounted
  <1> QED
    BY <1>2, <1>3, <1>4, NrBatchesAssumption

\* The output is returned.
LEMMA KeyAccounts ==
  ASSUME CommonInv, KeyEquality, UNCHANGED join,
         NEW open, Accounted(JoinResult, missing, drawn, Pairs(matches), open)
  PROVE  /\ Accounted(JoinResult, missing', drawn, {}, open)
         /\ Unreturned' = {}
  <1>1. Pairs(matches') = Pairs(matches) \cap JoinResult /\ missing' = missing \ Pairs(matches')
    BY KeyEqualityKeepsCommon
  <1>2. pc = "key" /\ (pc' = "next" => matches' = <<>>) /\ pc' \in {"next", "return"}
    BY DEF KeyEquality
  <1>3. Unreturned' = {}
    BY <1>2 DEF Unreturned, Pairs, Elements
  <1>4. ASSUME NEW p \in Pairs(matches)
        PROVE  ~(p[1] > drawn)
    <2>1. PICK n \in DOMAIN matches : p = matches[n].build
      BY DEF Pairs, Elements
    <2>2. p \in PairsOf(drawn) /\ drawn \in 1 .. NrBatches /\ input \in [1 .. NrBatches -> Vectors]
      BY <1>2, <2>1, NrBatchesAssumption DEF CommonInv, OutputInv, VectorInv, TypeInv
    <2> QED
      BY <2>2, PairsAre, NrBatchesAssumption
  <1> QED
    BY <1>1, <1>3, <1>4 DEF Accounted

\* Followed to the end, a vector has no open pair.
LEMMA NoneOpen ==
  ASSUME TypeInv, NEW store, NEW fresh \in Nat, drawn = 0 \/ Len(input[drawn]) <= fresh
  PROVE  Open(PairsOf(drawn), store, {}, fresh) = {}
  <1>1. CASE drawn = 0
    BY <1>1, NoPairsBefore DEF Open
  <1>2. CASE drawn # 0
    <2>1. drawn \in 1 .. NrBatches
      BY <1>2, NrBatchesAssumption DEF TypeInv
    <2>2. \A p \in PairsOf(drawn) : p[2] < Len(input[drawn]) /\ p[2] \in Nat
      BY <2>1, PairsAre DEF TypeInv, Triples
    <2>3. Len(input[drawn]) \in Nat /\ Len(input[drawn]) <= fresh
      BY <1>2, <2>1, VectorIs, BatchSizeAssumption DEF TypeInv
    <2> QED
      BY <2>2, <2>3 DEF Open
  <1> QED
    BY <1>1, <1>2

\* Behind the last tuple of a vector, no matter how far.
LEMMA AllBegun ==
  ASSUME TypeInv, drawn \in 1 .. NrBatches, NEW store, NEW cells,
         NEW t \in Nat, NEW u \in Nat, Len(input[drawn]) <= t, Len(input[drawn]) <= u
  PROVE  /\ Open(PairsOf(drawn), store, cells, t) = Open(PairsOf(drawn), store, cells, u)
         /\ Apart(PairsOf(drawn), store, cells, t) <=> Apart(PairsOf(drawn), store, cells, u)
  <1>1. \A p \in PairsOf(drawn) : p[2] < Len(input[drawn]) /\ p[2] \in Nat
    BY PairsAre DEF TypeInv, Triples
  <1>2. Len(input[drawn]) \in Nat
    BY VectorIs, BatchSizeAssumption DEF TypeInv
  <1>3. \A p \in PairsOf(drawn) : p[2] < t /\ p[2] < u /\ ~(p[2] >= t) /\ ~(p[2] >= u)
    BY <1>1, <1>2
  <1> QED
    BY <1>3 DEF Open, Apart

\* A pair that is come to goes to the output, if its hash is the tuple's.
LEMMA EmitAccounts ==
  ASSUME CommonInv, drawn \in 1 .. NrBatches, NEW q \in PairsOf(drawn), NEW open, q \in open,
         matches' = IF SameHash(q) THEN Append(matches, Written(q, q[2])) ELSE matches,
         Accounted(JoinResult, missing, drawn, Pairs(matches), open)
  PROVE  Accounted(JoinResult, missing, drawn, Pairs(matches'), open \ {q})
  <1> DEFINE R == IF SameHash(q) THEN {q} ELSE {}
  <1>1. input \in [1 .. NrBatches -> Vectors] /\ matches \in Seq(Cells0)
    BY DEF CommonInv, TypeInv, Cells0
  <1>2. Pairs(matches') = Pairs(matches) \cup R
    <2>1. CASE SameHash(q)
      <3>1. q \in Triples /\ q[2] \in 0 .. BatchSize - 1
        <4>1. q \in Triples /\ q[2] < Len(input[drawn]) /\ Len(input[drawn]) \in 1 .. BatchSize
          BY <1>1, PairsAre, VectorIs
        <4> QED
          BY <4>1, BatchSizeAssumption DEF Triples
      <3>2. Row(q[2]) \in Nat
        BY <3>1, BatchSizeAssumption, SelectionAssumption DEF CommonInv, TypeInv, Row, NoSel
      <3>3. Written(q, q[2]) \in Cells0 /\ Written(q, q[2]).build = q
        BY <3>1, <3>2 DEF Written, Cells0
      <3> QED
        BY <1>1, <2>1, <3>3, PairsAppended
    <2>2. CASE ~SameHash(q)
      BY <2>2
    <2> QED
      BY <2>1, <2>2
  <1>3. {q} \cap JoinResult \subseteq R
    BY <1>1, ResultIs DEF SameHash, Match, Other
  <1>4. R \subseteq {q} /\ {q} \subseteq open
    OBVIOUS
  <1> HIDE DEF R
  <1> QED
    BY <1>2, <1>3, <1>4, TakenIsAccounted

-----------------------------------------------------------------------------
\* The code counts the cells of the ring modulo their number.
LEMMA Modulo ==
  ASSUME NEW x \in Ring
  PROVE  /\ x % Parallel!followupBufferSize = x
         /\ (x + 1) % Parallel!followupBufferSize = Succ(x)
         /\ Succ(x) \in Ring
  <1>1. Parallel!followupBufferSize = BatchSize + 1 /\ BatchSize \in Nat
    BY BatchSizeAssumption DEF Parallel!followupBufferSize
  <1>2. CASE x = BatchSize
    BY <1>1, <1>2 DEF Ring, Succ
  <1>3. CASE x # BatchSize
    BY <1>1, <1>3 DEF Ring, Succ
  <1> QED
    BY <1>2, <1>3

\* A cell has been read.
LEMMA UsedRead ==
  ASSUME NEW f \in Ring, NEW w \in Ring, f # w
  PROVE  /\ f \in Used(f, w)
         /\ Used(Succ(f), w) = Used(f, w) \ {f}
         /\ NrUsed(Succ(f), w) = NrUsed(f, w) - 1
         /\ NrUsed(f, w) \in 1 .. BatchSize
  BY BatchSizeAssumption DEF Ring, Used, NrUsed, Succ

\* A cell has been written, and one is still free.
LEMMA UsedWritten ==
  ASSUME NEW f \in Ring, NEW w \in Ring, NrUsed(f, w) < BatchSize
  PROVE  /\ w \notin Used(f, w)
         /\ Used(f, Succ(w)) = Used(f, w) \cup {w}
         /\ NrUsed(f, Succ(w)) = NrUsed(f, w) + 1
  BY BatchSizeAssumption DEF Ring, Used, NrUsed, Succ

-----------------------------------------------------------------------------
\* The steps of joinAllParallel.  What is known where the vector is looked at.
LEMMA InVector ==
  ASSUME CommonInv, pc \notin {"next", "end"}
  PROVE  /\ drawn \in 1 .. NrBatches
         /\ input \in [1 .. NrBatches -> Vectors]
         /\ numProbes = Len(input[drawn])
         /\ numProbes \in 1 .. BatchSize
         /\ Shape(PairsOf(drawn), drawn)
         /\ BatchSize \in Nat
         /\ Len(matches) \in Nat
  <1>1. drawn \in 1 .. NrBatches /\ input \in [1 .. NrBatches -> Vectors] /\ numProbes = Len(input[drawn])
    BY NrBatchesAssumption DEF CommonInv, TypeInv, VectorInv
  <1>2. Len(input[drawn]) \in 1 .. BatchSize
    BY <1>1, VectorIs
  <1>3. Shape(PairsOf(drawn), drawn)
    BY <1>1, PairsHaveShape, NrBatchesAssumption
  <1>4. Len(matches) \in Nat
    BY DEF CommonInv, TypeInv
  <1> QED
    BY <1>1, <1>2, <1>3, <1>4, BatchSizeAssumption

\* The chain of a tuple, and the pair behind one of its pairs.
LEMMA ChainIs ==
  ASSUME CommonInv, pc \notin {"next", "end"}, NEW t \in 0 .. numProbes - 1
  PROVE  /\ Chain(t) \in Seq(Kinds)
         /\ Chain(t) = <<>> => \A p \in PairsOf(drawn) : p[2] # t
         /\ Chain(t) # <<>> => Pair(t, 1) \in PairsOf(drawn)
         /\ \A p \in PairsOf(drawn) :
               p[2] = t => (After(p) \in PairsOf(drawn) <=> p[3] < Len(Chain(t)))
  <1>1. /\ drawn \in 1 .. NrBatches /\ input \in [1 .. NrBatches -> Vectors] /\ drawn \in Nat
        /\ numProbes = Len(input[drawn]) /\ numProbes \in Nat
    BY InVector, NrBatchesAssumption, BatchSizeAssumption
  <1>2. t + 1 \in 1 .. Len(input[drawn]) /\ t \in Nat /\ t < Len(input[drawn])
    BY <1>1
  <1>3. Chain(t) = input[drawn][t + 1] /\ Chain(t) \in Seq(Kinds)
    BY <1>1, <1>2, VectorIs DEF Chain
  <1>4. \A p \in Triples : p[1] = drawn /\ p[2] = t =>
           (p \in PairsOf(drawn) <=> p[3] \in 1 .. Len(Chain(t)))
    BY <1>1, <1>2, <1>3, PairsAre
  <1>5. \A p \in PairsOf(drawn) : p \in Triples /\ p[1] = drawn
    BY <1>1, PairsAre
  <1>6. Len(Chain(t)) \in Nat /\ (Chain(t) = <<>> <=> Len(Chain(t)) = 0)
    BY <1>3
  <1>7. ASSUME Chain(t) = <<>>, NEW p \in PairsOf(drawn), p[2] = t
        PROVE  FALSE
    BY <1>4, <1>5, <1>6, <1>7
  <1>8. ASSUME Chain(t) # <<>>
        PROVE  Pair(t, 1) \in PairsOf(drawn)
    <2>1. Pair(t, 1) \in Triples /\ Pair(t, 1)[1] = drawn /\ Pair(t, 1)[2] = t /\ Pair(t, 1)[3] = 1
      BY <1>1, <1>2 DEF Pair, Triples
    <2> QED
      BY <1>4, <1>6, <1>8, <2>1
  <1>9. ASSUME NEW p \in PairsOf(drawn), p[2] = t
        PROVE  After(p) \in PairsOf(drawn) <=> p[3] < Len(Chain(t))
    <2>1. p \in Triples /\ p[1] = drawn /\ p[3] \in 1 .. Len(Chain(t)) /\ p[3] \in Nat
      BY <1>4, <1>5, <1>9 DEF Triples
    <2>2. After(p) \in Triples /\ After(p)[1] = drawn /\ After(p)[2] = t /\ After(p)[3] = p[3] + 1
      BY <1>9, <2>1 DEF After, Triples
    <2> QED
      BY <1>4, <1>6, <2>1, <2>2
  <1> QED
    BY <1>3, <1>7, <1>8, <1>9

\* The call of join.
LEMMA EnterKeeps ==
  ASSUME CommonInv, RingInv, Parallel!Enter, UNCHANGED join
  PROVE  CommonInv' /\ RingInv'
  <1>1. /\ pc = "join" /\ followup' = contFollowup /\ followupWrite' = contWrite /\ i' = 0
        /\ pc' = (IF contFollowup = contWrite THEN "first" ELSE "wrap")
        /\ UNCHANGED <<probeSel, input, drawn, nextProbe, numProbes, matches, missing,
                       ring, contFollowup, contWrite, left, full>>
    BY DEF Parallel!Enter, Parallel!ringVars
  <1>2. numProbes \in 1 .. BatchSize /\ nextProbe < numProbes /\ BatchSize \in Nat /\ matches = <<>>
    BY <1>1, InVector DEF CommonInv, VectorInv, OutputInv
  <1>3. CommonInv'
    BY <1>1, <1>2, StepKeepsCommon DEF CommonInv, TypeInv
  <1>4. Cells' = Cells /\ Fresh' = Fresh /\ Unreturned' = Unreturned
    BY <1>1 DEF Cells, Fresh, following, Unreturned, Pairs, Elements
  <1>5. RingOpen'
    BY <1>1, <1>4, VectorsStay DEF RingInv, RingOpen
  <1>6. RingType'
    BY <1>1, <1>2 DEF RingInv, RingType
  <1>7. RingCont'
    BY <1>1 DEF RingCont, following
  <1>8. RingLoop'
    <2>1. contFollowup = contWrite => contFollowup = 0
      BY <1>1 DEF RingInv, RingCont, following
    <2>2. 0 = Lanes * 0 /\ 0 \in 0 .. numProbes /\ Len(matches) = 0
      BY <1>2, LanesAssumption
    <2> QED
      BY <1>1, <1>2, <2>1, <2>2 DEF RingLoop
  <1> QED
    BY <1>3, <1>5, <1>6, <1>7, <1>8 DEF RingInv

\* The first entry of a chain is compared, and the rest of the chain put into the ring.
LEMMA FirstEntryKeeps ==
  ASSUME CommonInv, RingInv, Parallel!FirstEntry, UNCHANGED join,
         join \in {"joinAllSIMD", "joinSelSIMD"} => i >= numProbes - SIMD!rest
  PROVE  CommonInv' /\ RingInv'
  <1> DEFINE P == PairsOf(drawn)
  <1> DEFINE q == Pair(i, 1)
  <1> DEFINE none == Chain(i) = <<>>
  <1> DEFINE goes == ~none /\ 1 < Len(Chain(i))
  <1>1. /\ pc = "first" /\ i < numProbes /\ i' = i + 1 /\ pc' = "first"
        /\ UNCHANGED <<probeSel, input, drawn, nextProbe, numProbes, missing,
                       contFollowup, contWrite, followup, left, full>>
    BY DEF Parallel!FirstEntry
  <1>2. /\ IF none THEN matches' = matches
           ELSE matches' = IF SameHash(q) THEN Append(matches, Written(q, q[2])) ELSE matches
        /\ IF goes THEN ring' = [ring EXCEPT ![followupWrite] = After(q)] /\ followupWrite' = followupWrite + 1
           ELSE UNCHANGED <<ring, followupWrite>>
    BY DEF Parallel!FirstEntry, Parallel!Chain, Chain, Parallel!Emit, Parallel!SameHash, SameHash,
           Parallel!Kind, Kind, Parallel!Other, Other, Parallel!Written, Written, Parallel!Row, Row,
           Parallel!NoSel, NoSel, Parallel!Pair, Pair, Parallel!Follows, Parallel!Behind, After
  <1>3. /\ drawn \in 1 .. NrBatches /\ numProbes \in 1 .. BatchSize /\ BatchSize \in Nat
        /\ Shape(P, drawn) /\ Len(matches) \in Nat /\ drawn \in Nat
    BY <1>1, InVector, NrBatchesAssumption
  <1>4. /\ i \in Nat /\ i + 1 \in 0 .. BatchSize /\ i \in 0 .. numProbes - 1 /\ followup = 0
        /\ followupWrite <= i /\ followupWrite \in Nat /\ followupWrite \in 0 .. BatchSize
        /\ followupWrite + 1 \in 0 .. BatchSize /\ Len(matches) <= i /\ i <= i + 1
    BY <1>1, <1>3 DEF RingInv, RingType, RingLoop
  <1>5. /\ Chain(i) \in Seq(Kinds)
        /\ none => \A p \in P : p[2] # i
        /\ ~none => q \in P
        /\ \A p \in P : p[2] = i => (After(p) \in P <=> p[3] < Len(Chain(i)))
    BY <1>1, <1>4, ChainIs
  <1>6. q = <<drawn, i, 1>> /\ q[1] = drawn /\ q[2] = i /\ q[3] = 1
    BY DEF Pair
  <1> HIDE DEF q
  <1>7. goes => After(q) \in P /\ After(q)[2] = i /\ After(q)[3] = 2
    BY <1>5, <1>6 DEF After
  <1>8. CommonInv'
    <2>1. nextProbe' \in 0 .. BatchSize /\ nextProbe' < numProbes
      BY <1>1 DEF CommonInv, TypeInv, VectorInv
    <2>2. Len(matches) < BatchSize
      BY <1>3, <1>4
    <2>3. matches' = matches \/ \E p \in P : matches' = Append(matches, Written(p, p[2])) /\ Len(matches) < BatchSize
      BY <1>2, <1>5, <2>2
    <2> HIDE DEF P
    <2> QED
      BY <1>1, <2>1, <2>3, StepKeepsCommon DEF P
  <1> DEFINE cells == Used(0, followupWrite)
  <1> DEFINE W == IF goes THEN {followupWrite} ELSE {}
  <1> DEFINE cells2 == cells \cup W
  <1>9. /\ Cells = cells /\ Fresh = i /\ Fresh' = i + 1 /\ Unreturned = Pairs(matches)
        /\ Unreturned' = Pairs(matches')
    BY <1>1, <1>4 DEF Cells, Fresh, following, Unreturned, Pairs, Elements
  <1>10. Cells' = cells2 /\ W \cap cells = {} /\ cells \subseteq 0 .. BatchSize /\ W \subseteq 0 .. BatchSize
    <2>1. Cells' = Used(0, followupWrite')
      BY <1>1, <1>4 DEF Cells, following, Used
    <2>2. Used(0, followupWrite + 1) = Used(0, followupWrite) \cup {followupWrite} /\ followupWrite \notin cells
      BY <1>3, <1>4 DEF Used
    <2>3. cells \subseteq 0 .. BatchSize
      BY DEF Used
    <2> QED
      BY <1>2, <1>4, <2>1, <2>2, <2>3
  <1> HIDE DEF cells
  <1>11. /\ ring \in [0 .. BatchSize -> Triples] /\ ring' \in [0 .. BatchSize -> Triples]
         /\ \A c \in cells : ring'[c] = ring[c]
         /\ \A c \in W : ring'[c] = After(q) /\ goes /\ c = followupWrite
    <2>1. ring \in [0 .. BatchSize -> Triples]
      BY DEF RingInv, RingType
    <2>2. CASE goes
      <3>1. After(q) \in Triples
        BY <1>3, <1>7, <2>2 DEF Shape
      <3>2. ring' = [ring EXCEPT ![followupWrite] = After(q)] /\ followupWrite \notin cells
        BY <1>2, <1>10, <2>2
      <3> QED
        BY <1>4, <1>10, <2>1, <2>2, <3>1, <3>2
    <2>3. CASE ~goes
      BY <1>2, <2>1, <2>3
    <2> QED
      BY <2>2, <2>3
  <1>12. \A p \in P : i <= p[2] /\ p[2] < i + 1 /\ p[3] >= 2 => \E c \in W : p[2] = ring'[c][2]
    <2> SUFFICES ASSUME NEW p \in P, i <= p[2], p[2] < i + 1, p[3] >= 2
                 PROVE  goes /\ followupWrite \in W /\ p[2] = ring'[followupWrite][2]
      OBVIOUS
    <2>1. p[2] \in Nat /\ p[3] \in Nat
      BY <1>3 DEF Shape, Triples
    <2>2. p[2] = i
      BY <1>4, <2>1
    <2>3. ~none /\ q \in P
      BY <1>5, <2>2
    <2>4. After(q) \in P
      BY <1>3, <1>6, <2>1, <2>2, <2>3 DEF Shape
    <2>5. goes
      BY <1>5, <1>6, <2>3, <2>4
    <2> QED
      BY <1>7, <1>11, <2>2, <2>5
  <1>13. {p \in P : i <= p[2] /\ p[2] < i + 1 /\ p[3] < 2} = IF none THEN {} ELSE {q}
    <2>1. ASSUME NEW p \in P
          PROVE  i <= p[2] /\ p[2] < i + 1 /\ p[3] < 2 <=> ~none /\ p = q
      <3>1. p = <<drawn, p[2], p[3]>> /\ p[2] \in Nat /\ p[3] \in Nat /\ p[3] >= 1
        BY <1>3 DEF Shape, Triples
      <3>2. i <= p[2] /\ p[2] < i + 1 /\ p[3] < 2 <=> p[2] = i /\ p[3] = 1
        BY <1>4, <3>1
      <3>3. p[2] = i /\ p[3] = 1 <=> p = q
        BY <1>6, <3>1
      <3> QED
        BY <1>5, <1>6, <3>2, <3>3
    <2> QED
      BY <1>5, <2>1
  <1> HIDE DEF P, W, none, goes
  <1>14. Apart(P, ring, cells, i) /\ Accounted(JoinResult, missing, drawn, Pairs(matches), Open(P, ring, cells, i))
    BY <1>1, <1>9 DEF RingInv, RingOpen, P
  <1>15. /\ Open(P, ring', cells2, i + 1) = Open(P, ring, cells, i) \ (IF none THEN {} ELSE {q})
         /\ Apart(P, ring', cells2, i + 1)
    <2>1. \A c \in W : /\ ring'[c] \in P /\ i <= ring'[c][2] /\ ring'[c][2] < i + 1 /\ ring'[c][3] = 2
                       /\ \A d \in W : c # d => ring'[c][2] # ring'[d][2]
      BY <1>4, <1>7, <1>11
    <2>2. Begun(P, ring, cells, i, ring', W, i + 1, 2)
      BY <1>10, <1>11, <1>12, <2>1 DEF Begun
    <2>3. i + 1 \in Nat /\ 2 \in Nat
      BY <1>4
    <2> HIDE DEF cells2
    <2>4. /\ Open(P, ring', cells2, i + 1)
              = Open(P, ring, cells, i) \ {p \in P : i <= p[2] /\ p[2] < i + 1 /\ p[3] < 2}
          /\ Apart(P, ring', cells2, i + 1)
      BY <1>3, <1>4, <1>14, <2>2, <2>3, Begins DEF cells2
    <2> QED
      BY <1>13, <2>4
  <1>16. Accounted(JoinResult, missing, drawn, Pairs(matches'), Open(P, ring', cells2, i + 1))
    <2>1. CASE none
      <3>1. Pairs(matches') = Pairs(matches)
        BY <1>2, <2>1
      <3>2. Open(P, ring', cells2, i + 1) = Open(P, ring, cells, i)
        BY <1>15, <2>1
      <3> QED
        BY <1>14, <3>1, <3>2
    <2>2. CASE ~none
      <3>1. q \in P /\ q \in Open(P, ring, cells, i)
        BY <1>4, <1>5, <1>6, <2>2 DEF Open
      <3>2. matches' = IF SameHash(q) THEN Append(matches, Written(q, q[2])) ELSE matches
        BY <1>2, <2>2
      <3> HIDE DEF cells2
      <3>3. Accounted(JoinResult, missing, drawn, Pairs(matches'), Open(P, ring, cells, i) \ {q})
        BY <1>3, <1>14, <3>1, <3>2, EmitAccounts DEF P
      <3> QED
        BY <1>15, <2>2, <3>3
    <2> QED
      BY <2>1, <2>2
  <1>17. RingOpen'
    <2>1. PairsOf(drawn)' = P /\ JoinResult' = JoinResult
      BY <1>1, VectorsStay DEF P
    <2> HIDE DEF cells2
    <2> QED
      BY <1>1, <1>9, <1>10, <1>15, <1>16, <2>1 DEF RingOpen
  <1>18. RingType'
    BY <1>1, <1>2, <1>4, <1>11 DEF RingInv, RingType
  <1>19. RingCont'
    BY <1>1 DEF RingCont, following
  <1>20. RingLoop'
    <2>1. followupWrite' <= i + 1 /\ i + 1 <= numProbes
      BY <1>2, <1>3, <1>4
    <2>2. Len(matches') <= i + 1
      <3>1. matches \in Seq([build : Triples, probe : Nat])
        BY DEF CommonInv, TypeInv
      <3>2. Len(matches') = Len(matches) \/ Len(matches') = Len(matches) + 1
        BY <1>2, <3>1
      <3> QED
        BY <1>3, <1>4, <3>2
    <2>3. join' \in {"joinAllSIMD", "joinSelSIMD"} => i + 1 >= numProbes - SIMD!rest
      <3>1. SIMD!rest \in Nat
        BY <1>3, LanesAssumption DEF SIMD!rest
      <3> QED
        BY <1>3, <1>4, <3>1
    <2>4. SIMD!rest' = SIMD!rest /\ SIMD!rest \in Nat
      BY <1>1, <1>3, LanesAssumption DEF SIMD!rest
    <2>5. ~(i + 1 < numProbes - SIMD!rest) \/ join' \notin {"joinAllSIMD", "joinSelSIMD"}
      BY <1>3, <1>4, <2>3, <2>4
    <2> QED
      BY <1>1, <1>4, <2>1, <2>2, <2>4, <2>5 DEF RingLoop
  <1> QED
    BY <1>8, <1>17, <1>18, <1>19, <1>20 DEF RingInv

\* The number of cells in use.
LEMMA FollowupsAre ==
  ASSUME followup \in Ring, followupWrite \in Ring
  PROVE  Parallel!nrFollowups = NrUsed(followup, followupWrite)
  <1>1. followup \in Int /\ followupWrite \in Int /\ BatchSize \in Int
    BY BatchSizeAssumption DEF Ring
  <1> QED
    BY <1>1 DEF Parallel!nrFollowups, NrUsed, Parallel!followupBufferSize

\* A step that changes neither the ring, nor where it is read and written, nor the
\* output, nor what is fresh, keeps what is open.
LEMMA OpenStays ==
  ASSUME CommonInv, RingOpen, pc \notin {"next", "end"},
         UNCHANGED <<input, drawn, missing, ring>>,
         Cells' = Cells, Unreturned' = Unreturned,
         Fresh' = Fresh \/ (Fresh \in Nat /\ Fresh' = BatchSize /\ numProbes <= Fresh)
  PROVE  RingOpen'
  <1>1. PairsOf(drawn)' = PairsOf(drawn) /\ JoinResult' = JoinResult
    BY VectorsStay
  <1>2. drawn \in 1 .. NrBatches /\ numProbes = Len(input[drawn]) /\ numProbes \in 1 .. BatchSize /\ BatchSize \in Nat
    BY InVector
  <1>3. Accounted(JoinResult, missing, drawn, Unreturned, Open(PairsOf(drawn), ring, Cells, Fresh))
    BY DEF RingOpen
  <1>4. CASE Fresh' = Fresh
    BY <1>1, <1>3, <1>4 DEF RingOpen
  <1>5. CASE Fresh \in Nat /\ Fresh' = BatchSize /\ numProbes <= Fresh
    <2> DEFINE t == Fresh
    <2>1. t \in Nat /\ Len(input[drawn]) <= t /\ Len(input[drawn]) <= BatchSize
      BY <1>2, <1>5
    <2>2. Apart(PairsOf(drawn), ring, Cells, t) /\ Fresh' = BatchSize
      BY <1>5 DEF RingOpen
    <2>3. Accounted(JoinResult, missing, drawn, Unreturned, Open(PairsOf(drawn), ring, Cells, t))
      BY <1>3
    <2> HIDE DEF t
    <2>4. /\ Open(PairsOf(drawn), ring, Cells, t) = Open(PairsOf(drawn), ring, Cells, BatchSize)
          /\ Apart(PairsOf(drawn), ring, Cells, t) <=> Apart(PairsOf(drawn), ring, Cells, BatchSize)
      BY <1>2, <2>1, AllBegun DEF CommonInv
    <2> QED
      BY <1>1, <2>2, <2>3, <2>4 DEF RingOpen
  <1> QED
    BY <1>4, <1>5

\* Behind the first loop.
LEMMA FirstDoneKeeps ==
  ASSUME CommonInv, RingInv, Parallel!FirstDone, UNCHANGED join
  PROVE  CommonInv' /\ RingInv'
  <1>1. /\ pc = "first" /\ i = numProbes /\ pc' = "wrap"
        /\ UNCHANGED <<probeSel, input, drawn, nextProbe, numProbes, matches, missing,
                       ring, contFollowup, contWrite, followup, followupWrite, i, left, full>>
    BY DEF Parallel!FirstDone, Parallel!ringVars, Parallel!loops
  <1>2. nextProbe' \in 0 .. BatchSize /\ nextProbe' < numProbes
    BY <1>1 DEF CommonInv, TypeInv, VectorInv
  <1>3. CommonInv'
    BY <1>1, <1>2, StepKeepsCommon
  <1>4. numProbes \in 1 .. BatchSize /\ BatchSize \in Nat
    BY <1>1, InVector
  <1>5. Cells' = Cells /\ Unreturned' = Unreturned /\ Fresh = i /\ Fresh' = BatchSize
    BY <1>1 DEF Cells, following, Unreturned, Pairs, Elements, Fresh
  <1>6. RingOpen'
    BY <1>1, <1>4, <1>5, OpenStays DEF RingInv
  <1>7. RingType' /\ RingCont' /\ RingLoop'
    BY <1>1 DEF RingInv, RingType, RingCont, RingLoop, following
  <1> QED
    BY <1>3, <1>6, <1>7 DEF RingInv

\* The first loop has not gone around the ring.
LEMMA WrapKeeps ==
  ASSUME CommonInv, RingInv, Parallel!Wrap, UNCHANGED join
  PROVE  CommonInv' /\ RingInv'
  <1>1. /\ pc = "wrap" /\ pc' = "while" /\ followupWrite' = followupWrite % Parallel!followupBufferSize
        /\ UNCHANGED <<probeSel, input, drawn, nextProbe, numProbes, matches, missing,
                       ring, contFollowup, contWrite, followup, i, left, full>>
    BY DEF Parallel!Wrap, Parallel!ringVars
  <1>2. nextProbe' \in 0 .. BatchSize /\ nextProbe' < numProbes
    BY <1>1 DEF CommonInv, TypeInv, VectorInv
  <1>3. CommonInv'
    BY <1>1, <1>2, StepKeepsCommon
  <1>4. followupWrite' = followupWrite
    BY <1>1, Modulo DEF RingInv, RingType, Ring
  <1>5. Cells' = Cells /\ Unreturned' = Unreturned /\ Fresh' = Fresh
    BY <1>1, <1>4 DEF Cells, following, Unreturned, Pairs, Elements, Fresh
  <1>6. RingOpen'
    BY <1>1, <1>5, OpenStays DEF RingInv
  <1>7. RingType' /\ RingCont' /\ RingLoop'
    BY <1>1, <1>4 DEF RingInv, RingType, RingCont, RingLoop, following
  <1> QED
    BY <1>3, <1>6, <1>7 DEF RingInv

\* A round is no longer than the ring is filled, nor than the output has room.
LEMMA BeginRoundKeeps ==
  ASSUME CommonInv, RingInv, Parallel!BeginRound, UNCHANGED join
  PROVE  CommonInv' /\ RingInv'
  <1> DEFINE nr == NrUsed(followup, followupWrite)
  <1> DEFINE space == BatchSize - Len(matches)
  <1>1. /\ pc = "while" /\ pc' = "round" /\ followup # followupWrite
        /\ left' = (IF nr <= space THEN nr ELSE space) /\ full' = (space < nr)
        /\ UNCHANGED <<probeSel, input, drawn, nextProbe, numProbes, matches, missing,
                       ring, contFollowup, contWrite, followup, followupWrite, i>>
    BY FollowupsAre DEF Parallel!BeginRound, Parallel!ringVars, Parallel!min, Parallel!remainingSpace,
           RingInv, RingType, Ring
  <1>2. nextProbe' \in 0 .. BatchSize /\ nextProbe' < numProbes
    BY <1>1 DEF CommonInv, TypeInv, VectorInv
  <1>3. CommonInv'
    BY <1>1, <1>2, StepKeepsCommon
  <1>4. Cells' = Cells /\ Unreturned' = Unreturned /\ Fresh' = Fresh
    BY <1>1 DEF Cells, following, Unreturned, Pairs, Elements, Fresh
  <1>5. RingOpen'
    BY <1>1, <1>4, OpenStays DEF RingInv
  <1>6. nr \in Nat /\ space \in Nat /\ BatchSize \in Nat /\ Len(matches) \in Nat
    <2>1. followup \in Ring /\ followupWrite \in Ring
      BY DEF RingInv, RingType, Ring
    <2>2. Len(matches) <= BatchSize
      BY DEF CommonInv, OutputInv
    <2> QED
      BY <1>1, <2>1, <2>2, UsedRead, InVector
  <1>7. RingLoop'
    <2> DEFINE l == Len(matches)
    <2>1. l \in Nat /\ space = BatchSize - l
      BY <1>6
    <2> HIDE DEF nr, space, l
    <2>2. l + left' <= BatchSize /\ left' <= nr /\ (full' => left' < nr)
      <3>1. CASE nr <= space
        <4>1. left' = nr
          BY <1>1, <3>1
        <4>2. ~(space < nr)
          BY <1>6, <3>1
        <4>3. ~full'
          BY <1>1, <4>2
        <4> QED
          BY <1>6, <2>1, <3>1, <4>1, <4>3
      <3>2. CASE ~(nr <= space)
        BY <1>1, <1>6, <2>1, <3>2
      <3> QED
        BY <3>1, <3>2
    <2>3. NrUsed(followup, followupWrite)' = nr /\ Len(matches') = l
      BY <1>1 DEF NrUsed, nr, l
    <2> QED
      BY <1>1, <2>2, <2>3 DEF RingLoop
  <1>8. RingType' /\ RingCont'
    <2>1. left' \in Nat /\ full' \in BOOLEAN
      BY <1>1, <1>6
    <2> QED
      BY <1>1, <2>1 DEF RingInv, RingType, RingCont, following
  <1> QED
    BY <1>3, <1>5, <1>7, <1>8 DEF RingInv

\* The next entry of the chain at the head of the ring.
LEMMA FollowEntryKeeps ==
  ASSUME CommonInv, RingInv, Parallel!FollowEntry, UNCHANGED join
  PROVE  CommonInv' /\ RingInv'
  <1> DEFINE P == PairsOf(drawn)
  <1> DEFINE q == ring[followup]
  <1> DEFINE goes == q[3] < Len(Chain(q[2]))
  <1>1. /\ pc = "round" /\ pc' = "round" /\ left > 0 /\ left' = left - 1
        /\ followup' = (followup + 1) % Parallel!followupBufferSize
        /\ UNCHANGED <<probeSel, input, drawn, nextProbe, numProbes, missing,
                       contFollowup, contWrite, i, full>>
    BY DEF Parallel!FollowEntry
  <1>2. /\ matches' = IF SameHash(q) THEN Append(matches, Written(q, q[2])) ELSE matches
        /\ IF goes THEN /\ ring' = [ring EXCEPT ![followupWrite] = Pair(q[2], q[3] + 1)]
                        /\ followupWrite' = (followupWrite + 1) % Parallel!followupBufferSize
           ELSE UNCHANGED <<ring, followupWrite>>
    BY DEF Parallel!FollowEntry, Parallel!Chain, Chain, Parallel!Emit, Parallel!SameHash, SameHash,
           Parallel!Kind, Kind, Parallel!Other, Other, Parallel!Written, Written, Parallel!Row, Row,
           Parallel!NoSel, NoSel, Parallel!Pair, Pair, Parallel!Follows, Parallel!Behind
  <1>3. /\ drawn \in 1 .. NrBatches /\ numProbes \in 1 .. BatchSize /\ BatchSize \in Nat
        /\ Shape(P, drawn) /\ Len(matches) \in Nat /\ input \in [1 .. NrBatches -> Vectors]
        /\ numProbes = Len(input[drawn])
    BY <1>1, InVector
  <1>4. /\ followup \in Ring /\ followupWrite \in Ring /\ left \in Nat
        /\ ring \in [0 .. BatchSize -> Triples]
    BY DEF RingInv, RingType, Ring
  <1>5. /\ left <= NrUsed(followup, followupWrite) /\ Len(matches) + left <= BatchSize
        /\ full => left < NrUsed(followup, followupWrite)
    BY <1>1 DEF RingInv, RingLoop
  <1>6. followup # followupWrite
    <2>1. followup = followupWrite => NrUsed(followup, followupWrite) = 0
      BY <1>3, <1>4 DEF NrUsed, Ring
    <2> QED
      BY <1>1, <1>4, <1>5, <2>1
  <1> DEFINE cells == Used(followup, followupWrite)
  <1> DEFINE nr == NrUsed(followup, followupWrite)
  <1>7. /\ followup \in cells /\ Used(Succ(followup), followupWrite) = cells \ {followup}
        /\ NrUsed(Succ(followup), followupWrite) = nr - 1 /\ nr \in 1 .. BatchSize
        /\ cells \subseteq 0 .. BatchSize
    BY <1>4, <1>6, UsedRead DEF Used
  <1>8. followup' = Succ(followup) /\ Succ(followup) \in Ring /\ Succ(followupWrite) \in Ring
        /\ (goes => followupWrite' = Succ(followupWrite))
    BY <1>1, <1>2, <1>4, Modulo
  <1>9. NrUsed(Succ(followup), followupWrite) < BatchSize
    BY <1>3, <1>7
  <1>10. /\ followupWrite \notin cells \ {followup}
         /\ Used(Succ(followup), Succ(followupWrite)) = (cells \ {followup}) \cup {followupWrite}
         /\ NrUsed(Succ(followup), Succ(followupWrite)) = nr - 1 + 1
    <2> DEFINE f == Succ(followup)
    <2>1. f \in Ring /\ NrUsed(f, followupWrite) < BatchSize
      BY <1>8, <1>9
    <2>2. Used(f, followupWrite) = cells \ {followup} /\ NrUsed(f, followupWrite) = nr - 1
      BY <1>7
    <2> HIDE DEF f, cells, nr
    <2>3. /\ followupWrite \notin Used(f, followupWrite)
          /\ Used(f, Succ(followupWrite)) = Used(f, followupWrite) \cup {followupWrite}
          /\ NrUsed(f, Succ(followupWrite)) = NrUsed(f, followupWrite) + 1
      BY <1>4, <2>1, UsedWritten
    <2> QED
      BY <2>2, <2>3 DEF f
  <1>11. /\ Cells = cells /\ Fresh = BatchSize /\ Fresh' = BatchSize /\ Unreturned = Pairs(matches)
         /\ Unreturned' = Pairs(matches') /\ Cells' = Used(followup', followupWrite')
    BY <1>1 DEF Cells, Fresh, following, Unreturned, Pairs, Elements
  <1> HIDE DEF cells, nr
  <1>12. /\ Apart(P, ring, cells, BatchSize)
         /\ Accounted(JoinResult, missing, drawn, Pairs(matches), Open(P, ring, cells, BatchSize))
    BY <1>1, <1>11 DEF RingInv, RingOpen
  <1>13. q \in P /\ q \in Triples /\ q[1] = drawn /\ q[2] \in 0 .. numProbes - 1 /\ q[3] \in Nat
    <2>1. q \in P
      BY <1>7, <1>12 DEF Apart
    <2>2. q \in Triples /\ q[1] = drawn /\ q[2] < Len(input[drawn])
      BY <1>3, <2>1, PairsAre
    <2> QED
      BY <1>3, <2>1, <2>2 DEF Triples
  <1>14. /\ goes <=> After(q) \in P
         /\ Pair(q[2], q[3] + 1) = After(q)
    BY <1>1, <1>13, ChainIs DEF After, Pair
  <1>15. q \in Open(P, ring, cells, BatchSize)
    BY <1>7, <1>13 DEF Open
  <1> HIDE DEF goes
  <1>16. CommonInv'
    <2>1. nextProbe' \in 0 .. BatchSize /\ nextProbe' < numProbes
      BY <1>1 DEF CommonInv, TypeInv, VectorInv
    <2>2. Len(matches) < BatchSize
      BY <1>1, <1>3, <1>4, <1>5
    <2>3. matches' = matches \/ \E p \in P : matches' = Append(matches, Written(p, p[2])) /\ Len(matches) < BatchSize
      BY <1>2, <1>13, <2>2
    <2> HIDE DEF P, q
    <2> QED
      BY <1>1, <2>1, <2>3, StepKeepsCommon DEF P
  <1>17. /\ Open(P, ring', Cells', BatchSize) = Open(P, ring, cells, BatchSize) \ {q}
         /\ Apart(P, ring', Cells', BatchSize)
         /\ ring' \in [0 .. BatchSize -> Triples] /\ followupWrite' \in Ring
    <2>1. CASE goes
      <3>1. /\ ring' = [ring EXCEPT ![followupWrite] = After(ring[followup])]
            /\ Cells' = (cells \ {followup}) \cup {followupWrite} /\ After(ring[followup]) \in P
            /\ followupWrite \in 0 .. BatchSize /\ followupWrite' \in Ring
        BY <1>2, <1>4, <1>8, <1>10, <1>11, <1>14, <2>1 DEF Ring
      <3>2. ring' \in [0 .. BatchSize -> Triples]
        BY <1>3, <1>4, <3>1 DEF Shape
      <3> DEFINE ring2 == ring'
      <3> DEFINE cells2 == Cells'
      <3>3. ring2 = [ring EXCEPT ![followupWrite] = After(ring[followup])] /\ cells2 = (cells \ {followup}) \cup {followupWrite}
        BY <3>1
      <3>5. /\ Shape(P, drawn) /\ ring \in [0 .. BatchSize -> Triples] /\ cells \in SUBSET (0 .. BatchSize)
            /\ BatchSize \in Nat /\ Apart(P, ring, cells, BatchSize) /\ followup \in cells
            /\ followupWrite \in 0 .. BatchSize /\ followupWrite \notin cells \ {followup}
            /\ After(ring[followup]) \in P
        BY <1>3, <1>4, <1>7, <1>10, <1>12, <3>1
      <3>6. Going(P, drawn, ring, cells, BatchSize, followup, followupWrite, ring2, cells2)
        BY <3>3, <3>5 DEF Going
      <3> HIDE DEF P, ring2, cells2
      <3>4. /\ Open(P, ring2, cells2, BatchSize) = Open(P, ring, cells, BatchSize) \ {ring[followup]}
            /\ Apart(P, ring2, cells2, BatchSize)
        BY <3>6, GoesOn
      <3> QED
        BY <3>1, <3>2, <3>4 DEF ring2, cells2
    <2>2. CASE ~goes
      <3>1. ring' = ring /\ Cells' = cells \ {followup} /\ After(ring[followup]) \notin P /\ followupWrite' \in Ring
        BY <1>2, <1>4, <1>7, <1>8, <1>11, <1>14, <2>2
      <3> DEFINE cells2 == Cells'
      <3>2. cells2 = cells \ {followup}
        BY <3>1
      <3>4. /\ Shape(P, drawn) /\ ring \in [0 .. BatchSize -> Triples] /\ cells \in SUBSET (0 .. BatchSize)
            /\ BatchSize \in Nat /\ Apart(P, ring, cells, BatchSize) /\ followup \in cells
            /\ After(ring[followup]) \notin P
        BY <1>3, <1>4, <1>7, <1>12, <3>1
      <3>5. Ending(P, drawn, ring, cells, BatchSize, followup, cells2)
        BY <3>2, <3>4 DEF Ending
      <3> HIDE DEF P, cells2
      <3>3. /\ Open(P, ring, cells2, BatchSize) = Open(P, ring, cells, BatchSize) \ {ring[followup]}
            /\ Apart(P, ring, cells2, BatchSize)
        BY <3>5, ChainEnds
      <3> QED
        BY <1>4, <3>1, <3>3 DEF cells2
    <2> QED
      BY <2>1, <2>2
  <1>18. Accounted(JoinResult, missing, drawn, Pairs(matches'), Open(P, ring, cells, BatchSize) \ {q})
    <2> DEFINE open == Open(P, ring, cells, BatchSize)
    <2>1. q \in open /\ Accounted(JoinResult, missing, drawn, Pairs(matches), open)
      BY <1>12, <1>15
    <2> HIDE DEF open, q
    <2>2. Accounted(JoinResult, missing, drawn, Pairs(matches'), open \ {q})
      BY <1>2, <1>3, <1>13, <2>1, EmitAccounts
    <2> QED
      BY <2>2 DEF open
  <1>19. RingOpen'
    <2>1. PairsOf(drawn)' = P /\ JoinResult' = JoinResult
      BY <1>1, VectorsStay
    <2> HIDE DEF P, q
    <2> QED
      BY <1>1, <1>11, <1>17, <1>18, <2>1 DEF RingOpen
  <1>20. RingType'
    BY <1>1, <1>4, <1>8, <1>17 DEF RingInv, RingType, Ring
  <1>21. RingCont'
    BY <1>1 DEF RingCont, following
  <1>22. RingLoop'
    <2>1. NrUsed(followup, followupWrite)' = NrUsed(followup', followupWrite')
      BY DEF NrUsed
    <2>2. NrUsed(followup', followupWrite') = nr - 1 \/ NrUsed(followup', followupWrite') = nr
      <3>1. CASE goes
        BY <1>7, <1>8, <1>10, <3>1
      <3>2. CASE ~goes
        BY <1>2, <1>7, <1>8, <3>2
      <3> QED
        BY <3>1, <3>2
    <2>3. Len(matches') <= Len(matches) + 1 /\ Len(matches') \in Nat
      <3>1. matches \in Seq([build : Triples, probe : Nat])
        BY DEF CommonInv, TypeInv
      <3>2. Len(matches') = Len(matches) \/ Len(matches') = Len(matches) + 1
        BY <1>2, <3>1
      <3> QED
        BY <1>3, <3>2
    <2>4. Len(matches') + left' <= BatchSize
      BY <1>1, <1>3, <1>4, <1>5, <2>3
    <2>5. left - 1 <= NrUsed(followup', followupWrite') /\ (full => left - 1 < NrUsed(followup', followupWrite'))
      <3>1. left <= nr /\ (full => left < nr) /\ nr \in Nat
        BY <1>5, <1>7 DEF nr
      <3> QED
        BY <1>4, <2>2, <3>1
    <2> QED
      BY <1>1, <2>1, <2>4, <2>5 DEF RingLoop
  <1> QED
    BY <1>16, <1>19, <1>20, <1>21, <1>22 DEF RingInv

\* A round ends because the output is full, or because all that the ring had is read.
LEMMA EndRoundKeeps ==
  ASSUME CommonInv, RingInv, Parallel!EndRound, UNCHANGED join
  PROVE  CommonInv' /\ RingInv'
  <1>1. /\ pc = "round" /\ left = 0
        /\ IF full THEN contFollowup' = followup /\ contWrite' = followupWrite /\ pc' = "key"
           ELSE pc' = "while" /\ UNCHANGED <<contFollowup, contWrite>>
        /\ UNCHANGED <<probeSel, input, drawn, nextProbe, numProbes, matches, missing,
                       ring, followup, followupWrite, i, left, full>>
    BY DEF Parallel!EndRound, Parallel!loops
  <1>2. nextProbe' \in 0 .. BatchSize /\ nextProbe' < numProbes
    BY <1>1 DEF CommonInv, TypeInv, VectorInv
  <1>3. CommonInv'
    BY <1>1, <1>2, StepKeepsCommon
  <1>4. followup \in Ring /\ followupWrite \in Ring /\ BatchSize \in Nat
    BY <1>1, InVector DEF RingInv, RingType, Ring
  <1>5. full => followup # followupWrite
    <2>1. full => NrUsed(followup, followupWrite) > 0
      BY <1>1 DEF RingInv, RingLoop
    <2>2. followup = followupWrite => NrUsed(followup, followupWrite) = 0
      BY <1>4 DEF NrUsed, Ring
    <2> QED
      BY <2>1, <2>2
  <1>6. Cells' = Cells /\ Unreturned' = Unreturned /\ Fresh' = Fresh
    BY <1>1 DEF Cells, following, Unreturned, Pairs, Elements, Fresh
  <1>7. RingOpen'
    BY <1>1, <1>6, OpenStays DEF RingInv
  <1>8. RingType'
    BY <1>1 DEF RingInv, RingType
  <1>9. RingCont' /\ RingLoop'
    BY <1>1, <1>2, <1>5 DEF RingCont, RingLoop, following
  <1> QED
    BY <1>3, <1>7, <1>8, <1>9 DEF RingInv

\* The vector is done when the ring is empty.
LEMMA AllFollowedKeeps ==
  ASSUME CommonInv, RingInv, Parallel!AllFollowed, UNCHANGED join
  PROVE  CommonInv' /\ RingInv'
  <1>1. /\ pc = "while" /\ followup = followupWrite /\ pc' = "key"
        /\ nextProbe' = numProbes /\ contFollowup' = 0 /\ contWrite' = 0
        /\ UNCHANGED <<probeSel, input, drawn, numProbes, matches, missing,
                       ring, followup, followupWrite, i, left, full>>
    BY DEF Parallel!AllFollowed, Parallel!loops
  <1>2. nextProbe' \in 0 .. BatchSize /\ ~(nextProbe' < numProbes)
    BY <1>1 DEF CommonInv, TypeInv
  <1>3. CommonInv'
    BY <1>1, <1>2, StepKeepsCommon
  <1>4. followup \in Ring /\ BatchSize \in Nat
    BY <1>1, InVector DEF RingInv, RingType, Ring
  <1>5. Used(followup, followupWrite) = {} /\ Used(0, 0) = {}
    BY <1>1, <1>4 DEF Used, Ring
  <1>6. Cells' = Cells /\ Unreturned' = Unreturned /\ Fresh' = Fresh
    BY <1>1, <1>5 DEF Cells, following, Unreturned, Pairs, Elements, Fresh
  <1>7. RingOpen'
    BY <1>1, <1>6, OpenStays DEF RingInv
  <1>8. RingType'
    BY <1>1, <1>4 DEF RingInv, RingType
  <1>9. RingCont' /\ RingLoop'
    BY <1>1, <1>2 DEF RingCont, RingLoop, following
  <1> QED
    BY <1>3, <1>7, <1>8, <1>9 DEF RingInv

-----------------------------------------------------------------------------
\* The probe side's own steps, around the algorithms with a ring.  Between the calls,
\* a vector that is through leaves the ring empty.
LEMMA RingIsEmpty ==
  ASSUME CommonInv, RingInv, pc = "next", nextProbe >= numProbes
  PROVE  /\ contFollowup = 0 /\ contWrite = 0 /\ Cells = {}
         /\ Accounted(JoinResult, missing, drawn, {}, {})
  <1>1. contFollowup = contWrite /\ contFollowup = 0
    BY DEF CommonInv, TypeInv, RingInv, RingCont, following
  <1>2. Cells = {}
    BY <1>1 DEF Cells, Used, following
  <1>3. Unreturned = {} /\ Fresh = BatchSize
    BY DEF CommonInv, OutputInv, Unreturned, Pairs, Elements, Fresh
  <1>4. drawn = 0 \/ Len(input[drawn]) <= BatchSize
    BY BatchSizeAssumption DEF CommonInv, TypeInv, VectorInv
  <1>5. Open(PairsOf(drawn), ring, {}, BatchSize) = {}
    BY <1>4, NoneOpen, BatchSizeAssumption DEF CommonInv
  <1>6. Accounted(JoinResult, missing, drawn, Unreturned, Open(PairsOf(drawn), ring, Cells, Fresh))
    BY DEF RingInv, RingOpen
  <1> QED
    BY <1>1, <1>2, <1>3, <1>5, <1>6

\* With a new vector, the ring is empty and all tuples are fresh.
LEMMA RingDraw ==
  ASSUME CommonInv, RingInv, DrawVector,
         UNCHANGED <<join, ring, contFollowup, contWrite,
                     followup, followupWrite, i, left, full>>
  PROVE  CommonInv' /\ RingInv'
  <1>1. /\ pc = "next" /\ nextProbe >= numProbes /\ drawn < NrBatches /\ drawn' = drawn + 1 /\ pc' = "join"
        /\ UNCHANGED <<probeSel, input, matches, missing>>
    BY DEF DrawVector
  <1>2. CommonInv'
    BY DrawKeepsCommon
  <1>3. contFollowup = 0 /\ contWrite = 0 /\ Cells = {} /\ Accounted(JoinResult, missing, drawn, {}, {})
    BY <1>1, RingIsEmpty
  <1>4. Cells' = {} /\ Unreturned' = {} /\ Fresh' = 0
    BY <1>1, <1>3 DEF Cells, following, Used, Unreturned, Pairs, Elements, Fresh, CommonInv, OutputInv
  <1>5. Accounted(JoinResult, missing, drawn + 1, {}, PairsOf(drawn + 1))
    BY <1>1, <1>3, DrawAccounts DEF CommonInv
  <1>6. PairsOf(drawn)' = PairsOf(drawn + 1) /\ JoinResult' = JoinResult
    BY <1>1 DEF PairsOf, JoinResult
  <1>7. Open(PairsOf(drawn + 1), ring, {}, 0) = PairsOf(drawn + 1)
    <2>1. drawn + 1 \in 0 .. NrBatches
      BY <1>1, NrBatchesAssumption DEF CommonInv, TypeInv
    <2>2. Shape(PairsOf(drawn + 1), drawn + 1)
      BY <2>1, PairsHaveShape DEF CommonInv, TypeInv
    <2>3. \A p \in PairsOf(drawn + 1) : p[2] >= 0
      BY <2>2 DEF Shape, Triples
    <2> QED
      BY <2>3 DEF Open
  <1>8. RingOpen'
    BY <1>1, <1>4, <1>5, <1>6, <1>7 DEF RingOpen, Apart
  <1>9. RingType'
    BY <1>1 DEF RingInv, RingType
  <1>10. RingCont' /\ RingLoop'
    BY <1>1, <1>3 DEF RingCont, RingLoop, following
  <1> QED
    BY <1>2, <1>8, <1>9, <1>10 DEF RingInv

\* The end of the stream: what is not open, nor in the output, is returned.
LEMMA RingEnd ==
  ASSUME CommonInv, RingInv, EndOfStream,
         UNCHANGED <<join, ring, contFollowup, contWrite,
                     followup, followupWrite, i, left, full>>
  PROVE  CommonInv' /\ RingInv' /\ missing = {}
  <1>1. /\ pc = "next" /\ nextProbe >= numProbes /\ drawn = NrBatches /\ pc' = "end"
        /\ UNCHANGED <<probeSel, input, drawn, matches, missing>>
    BY DEF EndOfStream
  <1>2. contFollowup = 0 /\ contWrite = 0 /\ Cells = {} /\ Accounted(JoinResult, missing, drawn, {}, {})
    BY <1>1, RingIsEmpty
  <1>3. missing = {}
    BY <1>1, <1>2, NothingAccounted DEF CommonInv
  <1>4. CommonInv'
    BY <1>3, EndKeepsCommon
  <1>5. Cells' = {}
    BY <1>1, <1>2 DEF Cells, following, Used
  <1>6. RingOpen'
    BY <1>1, <1>5 DEF RingOpen, Apart
  <1>7. RingType'
    BY <1>1 DEF RingInv, RingType
  <1>8. RingCont' /\ RingLoop'
    BY <1>1, <1>2 DEF RingCont, RingLoop, following
  <1> QED
    BY <1>3, <1>4, <1>6, <1>7, <1>8 DEF RingInv

\* The call of join goes on where the ring was left.
LEMMA RingResume ==
  ASSUME CommonInv, RingInv, Resume,
         UNCHANGED <<join, ring, contFollowup, contWrite,
                     followup, followupWrite, i, left, full>>
  PROVE  CommonInv' /\ RingInv'
  <1>1. /\ pc = "next" /\ nextProbe < numProbes /\ pc' = "join"
        /\ UNCHANGED <<probeSel, input, drawn, nextProbe, numProbes, matches, missing>>
    BY DEF Resume
  <1>2. CommonInv'
    BY ResumeKeepsCommon
  <1>3. contFollowup # contWrite
    BY <1>1 DEF RingInv, RingCont
  <1>4. Cells' = Cells /\ Fresh' = Fresh /\ Unreturned' = Unreturned
    BY <1>1, <1>3 DEF Cells, Fresh, following, Unreturned, Pairs, Elements
  <1>5. PairsOf(drawn)' = PairsOf(drawn) /\ JoinResult' = JoinResult
    BY <1>1, VectorsStay
  <1>6. RingOpen'
    BY <1>1, <1>4, <1>5 DEF RingInv, RingOpen
  <1>7. RingType'
    BY <1>1 DEF RingInv, RingType
  <1>8. RingCont' /\ RingLoop'
    BY <1>1, <1>3 DEF RingCont, RingLoop, following
  <1> QED
    BY <1>2, <1>6, <1>7, <1>8 DEF RingInv

\* keyEquality does not touch the ring.
LEMMA RingKey ==
  ASSUME CommonInv, RingInv, KeyEquality,
         UNCHANGED <<join, ring, contFollowup, contWrite,
                     followup, followupWrite, i, left, full>>
  PROVE  CommonInv' /\ RingInv'
  <1>1. /\ pc = "key" /\ pc' \in {"next", "return"}
        /\ UNCHANGED <<probeSel, input, drawn, nextProbe, numProbes>>
    BY DEF KeyEquality
  <1>2. CommonInv'
    BY KeyEqualityKeepsCommon
  <1>3. Cells' = Cells /\ Fresh' = Fresh
    BY <1>1 DEF Cells, Fresh, following
  <1> DEFINE open == Open(PairsOf(drawn), ring, Cells, Fresh)
  <1>4. Accounted(JoinResult, missing, drawn, Pairs(matches), open)
    BY <1>1 DEF RingInv, RingOpen, Unreturned
  <1>5. Accounted(JoinResult, missing', drawn, {}, open) /\ Unreturned' = {}
    <2> HIDE DEF open
    <2> QED
      BY <1>4, KeyAccounts
  <1>6. PairsOf(drawn)' = PairsOf(drawn) /\ JoinResult' = JoinResult
    BY <1>1, VectorsStay
  <1>7. RingOpen'
    BY <1>1, <1>3, <1>5, <1>6 DEF RingInv, RingOpen
  <1>8. RingType'
    BY <1>1 DEF RingInv, RingType
  <1>9. RingCont' /\ RingLoop'
    BY <1>1 DEF RingInv, RingCont, RingLoop, following
  <1> QED
    BY <1>2, <1>7, <1>8, <1>9 DEF RingInv

\* Nor does the operator above.
LEMMA RingCall ==
  ASSUME CommonInv, RingInv, CallNext,
         UNCHANGED <<join, ring, contFollowup, contWrite,
                     followup, followupWrite, i, left, full>>
  PROVE  CommonInv' /\ RingInv'
  <1>1. /\ pc = "return" /\ pc' = "next" /\ matches' = <<>>
        /\ UNCHANGED <<probeSel, input, drawn, nextProbe, numProbes, missing>>
    BY DEF CallNext
  <1>2. CommonInv'
    BY CallNextKeepsCommon
  <1>3. Cells' = Cells /\ Fresh' = Fresh /\ Unreturned = {} /\ Unreturned' = {}
    BY <1>1 DEF Cells, Fresh, following, Unreturned, Pairs, Elements
  <1>4. PairsOf(drawn)' = PairsOf(drawn) /\ JoinResult' = JoinResult
    BY <1>1, VectorsStay
  <1>5. RingOpen'
    BY <1>1, <1>3, <1>4 DEF RingInv, RingOpen
  <1>6. RingType'
    BY <1>1 DEF RingInv, RingType
  <1>7. RingCont' /\ RingLoop'
    BY <1>1 DEF RingInv, RingCont, RingLoop, following
  <1> QED
    BY <1>2, <1>5, <1>6, <1>7 DEF RingInv

-----------------------------------------------------------------------------
\* The first loop of joinAllSIMD.  Several pairs are written at once.
LEMMA PairsConcatenated ==
  ASSUME NEW ms \in Seq(Cells0), NEW s \in Seq(Cells0)
  PROVE  /\ ms \o s \in Seq(Cells0)
         /\ Len(ms \o s) = Len(ms) + Len(s)
         /\ \A n \in 1 .. Len(ms) : (ms \o s)[n] = ms[n]
         /\ \A n \in 1 .. Len(s) : (ms \o s)[Len(ms) + n] = s[n]
         /\ Pairs(ms \o s) = Pairs(ms) \cup Pairs(s)
  <1> DEFINE a == ms \o s
  <1>1. /\ a \in Seq(Cells0) /\ Len(a) = Len(ms) + Len(s) /\ DOMAIN a = 1 .. Len(ms) + Len(s)
        /\ DOMAIN ms = 1 .. Len(ms) /\ DOMAIN s = 1 .. Len(s) /\ Len(ms) \in Nat /\ Len(s) \in Nat
        /\ \A n \in 1 .. Len(ms) : a[n] = ms[n]
        /\ \A n \in Len(ms) + 1 .. Len(ms) + Len(s) : a[n] = s[n - Len(ms)]
    OBVIOUS
  <1> HIDE DEF a
  <1>2. ASSUME NEW n \in 1 .. Len(s)
        PROVE  a[Len(ms) + n] = s[n] /\ Len(ms) + n \in DOMAIN a
    <2>1. Len(ms) + n \in Len(ms) + 1 .. Len(ms) + Len(s) /\ (Len(ms) + n) - Len(ms) = n
          /\ Len(ms) + n \in 1 .. Len(ms) + Len(s)
      BY <1>1
    <2> QED
      BY <1>1, <2>1
  <1>3. ASSUME NEW n \in DOMAIN a
        PROVE  n \in 1 .. Len(ms) \/ \E m \in 1 .. Len(s) : n = Len(ms) + m
    <2>1. n \in 1 .. Len(ms) \/ (n - Len(ms) \in 1 .. Len(s) /\ n = Len(ms) + (n - Len(ms)))
      BY <1>1
    <2> QED
      BY <2>1
  <1>4. Elements(a) = Elements(ms) \cup Elements(s)
    <2>1. \A n \in 1 .. Len(ms) : n \in DOMAIN a
      BY <1>1
    <2>2. ASSUME NEW m \in Elements(a)
          PROVE  m \in Elements(ms) \cup Elements(s)
      <3>1. PICK n \in DOMAIN a : m = a[n]
        BY DEF Elements
      <3> QED
        BY <1>1, <1>2, <1>3, <3>1 DEF Elements
    <2>3. Elements(ms) \subseteq Elements(a)
      BY <1>1, <2>1 DEF Elements
    <2>4. Elements(s) \subseteq Elements(a)
      BY <1>1, <1>2 DEF Elements
    <2> QED
      BY <2>2, <2>3, <2>4
  <1> QED
    BY <1>1, <1>2, <1>4 DEF Pairs, a

\* A block of the vectorised loop writes pairs of the vector, if there is room for them.
LEMMA BlockKeepsCommon ==
  ASSUME CommonInv, UNCHANGED <<input, drawn, numProbes, nextProbe, probeSel, missing, join, pc>>, pc = "first",
         NEW s \in Seq(Cells0), matches' = matches \o s, Len(matches) + Len(s) <= BatchSize,
         \A n \in 1 .. Len(s) : s[n].build \in PairsOf(drawn) /\ s[n].probe = Row(s[n].build[2])
  PROVE  CommonInv'
  <1>1. /\ PairsOf(drawn)' = PairsOf(drawn) /\ JoinResult' = JoinResult
        /\ \A t : Row(t)' = Row(t)
    BY VectorsStay DEF Row
  <1>2. matches \in Seq(Cells0)
    BY DEF CommonInv, TypeInv, Cells0
  <1>3. /\ matches' \in Seq(Cells0) /\ Len(matches') = Len(matches) + Len(s)
        /\ \A n \in 1 .. Len(matches) : matches'[n] = matches[n]
        /\ \A n \in 1 .. Len(s) : matches'[Len(matches) + n] = s[n]
    BY <1>2, PairsConcatenated
  <1>4. /\ DOMAIN matches = 1 .. Len(matches) /\ DOMAIN matches' = 1 .. Len(matches')
        /\ Len(matches) \in Nat /\ Len(s) \in Nat
    BY <1>2, <1>3
  <1>5. ASSUME NEW n \in DOMAIN matches'
        PROVE  matches'[n].build \in PairsOf(drawn) /\ matches'[n].probe = Row(matches'[n].build[2])
    <2>1. n \in 1 .. Len(matches) \/ (n - Len(matches) \in 1 .. Len(s) /\ n = Len(matches) + (n - Len(matches)))
      BY <1>3, <1>4
    <2>2. CASE n \in 1 .. Len(matches)
      BY <1>3, <1>4, <2>2 DEF CommonInv, OutputInv
    <2>3. CASE n - Len(matches) \in 1 .. Len(s) /\ n = Len(matches) + (n - Len(matches))
      <3>1. matches'[n] = s[n - Len(matches)]
        BY <1>3, <2>3
      <3> QED
        BY <2>3, <3>1
    <2> QED
      BY <2>1, <2>2, <2>3
  <1>6. TypeInv'
    BY <1>1, <1>3 DEF CommonInv, TypeInv, Cells0
  <1>7. OutputInv'
    BY <1>1, <1>3, <1>5 DEF OutputInv
  <1>8. VectorInv'
    BY DEF CommonInv, VectorInv
  <1> QED
    BY <1>6, <1>7, <1>8 DEF CommonInv

\* A sequence of further pairs is written.
LEMMA DistinctConcatenated ==
  ASSUME NEW ms \in Seq(Cells0), NEW s \in Seq(Cells0), Distinct(ms), Distinct(s),
         Pairs(ms) \cap Pairs(s) = {}
  PROVE  Distinct(ms \o s)
  <1> DEFINE out == ms \o s
  <1>1. /\ Len(ms) \in Nat /\ Len(s) \in Nat /\ DOMAIN ms = 1 .. Len(ms) /\ DOMAIN s = 1 .. Len(s)
        /\ out \in Seq(Cells0) /\ Len(out) = Len(ms) + Len(s) /\ DOMAIN out = 1 .. Len(ms) + Len(s)
    OBVIOUS
  <1>2. /\ \A n \in 1 .. Len(ms) : out[n] = ms[n] /\ ms[n].build \in Pairs(ms)
        /\ \A n \in 1 .. Len(s) : out[Len(ms) + n] = s[n] /\ s[n].build \in Pairs(s)
    BY <1>1, PairsConcatenated, ZenonT(30) DEF Pairs, Elements
  <1>3. ASSUME NEW n \in 1 .. Len(ms) + Len(s), ~(n <= Len(ms))
        PROVE  \E m \in 1 .. Len(s) : n = Len(ms) + m /\ out[n] = s[m] /\ out[n].build \in Pairs(s)
    <2> DEFINE m == n - Len(ms)
    <2>1. m \in 1 .. Len(s) /\ n = Len(ms) + m
      BY <1>1, <1>3
    <2> HIDE DEF m
    <2> QED
      BY <1>2, <2>1
  <1>4. ASSUME NEW n \in 1 .. Len(ms) + Len(s), n <= Len(ms)
        PROVE  n \in 1 .. Len(ms) /\ out[n] = ms[n] /\ out[n].build \in Pairs(ms)
    <2>1. n \in 1 .. Len(ms)
      BY <1>1, <1>4
    <2> QED
      BY <1>2, <2>1
  <1> HIDE DEF out
  <1> SUFFICES ASSUME NEW a \in 1 .. Len(ms) + Len(s), NEW b \in 1 .. Len(ms) + Len(s),
                      out[a].build = out[b].build
               PROVE  a = b
    BY <1>1 DEF Distinct, out
  <1>5. CASE a <= Len(ms) /\ b <= Len(ms)
    BY <1>1, <1>4, <1>5 DEF Distinct
  <1>6. CASE ~(a <= Len(ms)) /\ ~(b <= Len(ms))
    <2>1. PICK m \in 1 .. Len(s) : a = Len(ms) + m /\ out[a] = s[m]
      BY <1>3, <1>6
    <2>2. PICK n \in 1 .. Len(s) : b = Len(ms) + n /\ out[b] = s[n]
      BY <1>3, <1>6
    <2>3. m = n
      BY <1>1, <2>1, <2>2 DEF Distinct
    <2> QED
      BY <2>1, <2>2, <2>3
  <1>7. CASE (a <= Len(ms)) # (b <= Len(ms))
    <2>1. CASE a <= Len(ms)
      <3>1. out[a].build \in Pairs(ms) /\ out[b].build \in Pairs(s)
        BY <1>3, <1>4, <1>7, <2>1
      <3> QED
        BY <3>1
    <2>2. CASE ~(a <= Len(ms))
      <3>1. out[b].build \in Pairs(ms) /\ out[a].build \in Pairs(s)
        BY <1>3, <1>4, <1>7, <2>2, SMTT(30)
      <3> QED
        BY <3>1
    <2> QED
      BY <2>1, <2>2
  <1> QED
    BY <1>5, <1>6, <1>7

\* A block ends where the rest begins, or before.
AtBlock(N, L, n, t) == N \in Nat /\ L \in Nat \ {0} /\ n \in Nat /\ t = L * n /\ t < N - (N % L)

\* So the tuples of the block are tuples of the vector.
LEMMA BlockFits ==
  ASSUME NEW N, NEW L, NEW n, NEW t, AtBlock(N, L, n, t)
  PROVE  t + L = L * (n + 1) /\ t + L <= N /\ n + 1 <= t + L /\ t \in Nat
  <1>0. N \in Nat /\ L \in Nat \ {0} /\ n \in Nat /\ t = L * n /\ t < N - (N % L)
    BY DEF AtBlock
  <1> DEFINE m == N \div L
  <1>1. N = (L * m) + (N % L) /\ m \in Nat /\ N % L \in Nat
    BY <1>0
  <1>2. N - (N % L) = L * m
    <2> DEFINE x == L * m
    <2>1. x \in Nat /\ N = x + (N % L)
      BY <1>0, <1>1
    <2> HIDE DEF x, m
    <2>2. N - (N % L) = x
      BY <1>0, <1>1, <2>1
    <2> QED
      BY <2>2 DEF x
  <1> HIDE DEF m
  <1>3. L * n < L * m
    BY <1>0, <1>2
  <1>4. n < m
    BY <1>0, <1>1, <1>3
  <1>5. L * n + L <= L * m
    BY <1>0, <1>1, <1>4
  <1>6. t + L = L * (n + 1)
    BY <1>0
  <1>7. L * m <= N
    BY <1>0, <1>1, <1>2
  <1>8. n <= L * n
    BY <1>0
  <1>9. L * n \in Nat /\ L * m \in Nat
    BY <1>0, <1>1
  <1> QED
    BY <1>0, <1>5, <1>6, <1>7, <1>8, <1>9

\* One iteration of the vectorised loop: the first entries of as many chains as there
\* are lanes are compared, and the rests of these chains put into the ring.
LEMMA FirstBlockKeeps ==
  ASSUME CommonInv, RingInv, SIMD!FirstBlock, UNCHANGED join, join \in {"joinAllSIMD", "joinSelSIMD"}
  PROVE  /\ CommonInv' /\ RingInv'
         /\ Distinct(matches) => Distinct(matches')
  <1> DEFINE P == PairsOf(drawn)
  <1> DEFINE B == SIMD!Block
  <1> DEFINE S1 == {p \in SIMD!Found : SIMD!SameHash(p)}
  <1> DEFINE S2 == {p \in SIMD!Found : SIMD!Follows(p)}
  <1> DEFINE H == Kept(B, S1)
  <1> DEFINE X == Kept(B, S2)
  <1> DEFINE u == i + Lanes
  <1> DEFINE w == followupWrite
  <1>1. /\ pc = "first" /\ pc' = "first" /\ i < numProbes - SIMD!rest /\ i' = u
        /\ UNCHANGED <<probeSel, input, drawn, nextProbe, numProbes, missing,
                       contFollowup, contWrite, followup, left, full>>
    BY DEF SIMD!FirstBlock
  <1>2. /\ matches' = matches \o [m \in DOMAIN H |-> Written(H[m], H[m][2])]
        /\ ring' = [c \in DOMAIN ring |->
                      IF c - w + 1 \in DOMAIN X THEN Pair(X[c - w + 1][2], X[c - w + 1][3] + 1) ELSE ring[c]]
        /\ w' = w + Len(X)
    BY DEF SIMD!FirstBlock, SIMD!Kept, Kept, SIMD!Written, Written, SIMD!Row, Row, SIMD!NoSel, NoSel,
           SIMD!Behind, SIMD!Pair, Pair
  <1>3. /\ drawn \in 1 .. NrBatches /\ numProbes \in 1 .. BatchSize /\ BatchSize \in Nat
        /\ Shape(P, drawn) /\ Len(matches) \in Nat /\ drawn \in Nat
    BY <1>1, InVector, NrBatchesAssumption
  <1>4. PICK n \in 0 .. numProbes : i = Lanes * n
    BY <1>1 DEF RingInv, RingLoop
  <1>5. u = Lanes * (n + 1) /\ u <= numProbes /\ n + 1 <= u /\ i \in Nat /\ u \in Nat /\ n + 1 \in Nat
    <2>1. i < numProbes - (numProbes % Lanes)
      BY <1>1 DEF SIMD!rest
    <2>2. numProbes \in Nat /\ n \in Nat
      BY <1>3
    <2>3. AtBlock(numProbes, Lanes, n, i)
      BY <1>4, <2>1, <2>2, LanesAssumption DEF AtBlock
    <2>4. /\ i + Lanes = Lanes * (n + 1) /\ i + Lanes <= numProbes /\ n + 1 <= i + Lanes /\ i \in Nat
      BY <2>3, BlockFits
    <2> QED
      BY <2>2, <2>4, LanesAssumption
  <1>6. /\ followup = 0 /\ w \in Nat /\ w <= i /\ Len(matches) <= i /\ u <= BatchSize
        /\ Lanes \in Nat /\ Lanes >= 1 /\ i <= u /\ i < u
    BY <1>1, <1>3, <1>5, LanesAssumption DEF RingInv, RingType, RingLoop
  <1>7. /\ B \in Seq(Triples) /\ Len(B) = Lanes
        /\ \A l \in 1 .. Lanes : B[l] = <<drawn, i + l - 1, 1>> /\ i + l - 1 \in i .. u - 1 /\ i + l - 1 \in 0 .. numProbes - 1
    <2>1. B = [l \in 1 .. Lanes |-> <<drawn, i + l - 1, 1>>]
      BY DEF SIMD!Block, SIMD!Pair
    <2> HIDE DEF B
    <2>2. \A l \in 1 .. Lanes : i + l - 1 \in i .. u - 1 /\ i + l - 1 \in 0 .. numProbes - 1 /\ i + l - 1 \in Nat
      BY <1>3, <1>5, <1>6
    <2>3. \A l \in 1 .. Lanes : <<drawn, i + l - 1, 1>> \in Triples
      BY <1>3, <2>2 DEF Triples
    <2>4. B \in Seq(Triples) /\ Len(B) = Lanes
      BY <1>6, <2>1, <2>3
    <2> QED
      BY <2>1, <2>2, <2>4
  <1>8. \A l \in 1 .. Lanes : B[l] \in Triples /\ B[l][1] = drawn /\ B[l][2] = i + l - 1 /\ B[l][3] = 1
    <2> HIDE DEF B
    <2>1. \A l \in 1 .. Lanes : i + l - 1 \in Nat
      BY <1>5, <1>6
    <2> QED
      BY <1>3, <1>7, <2>1, SMTT(30) DEF Triples
  \* The pairs of the block are the first pairs of its tuples' chains.
  <1> DEFINE Q == {p \in P : i <= p[2] /\ p[2] < u /\ p[3] < 2}
  <1>9. ASSUME NEW p
        PROVE  p \in SIMD!Found <=> p \in Q
    <2>1. p \in SIMD!Found <=> \E l \in 1 .. Lanes : p = B[l] /\ Chain(p[2]) # <<>>
      <3>1. DOMAIN B = 1 .. Lanes
        BY <1>6, <1>7
      <3>2. p \in SIMD!Elements(B) <=> \E l \in 1 .. Lanes : p = B[l]
        BY <3>1 DEF SIMD!Elements
      <3> QED
        BY <3>2 DEF SIMD!Found, SIMD!Chain, Chain
    <2> HIDE DEF B
    <2>2. ASSUME NEW l \in 1 .. Lanes, p = B[l], Chain(p[2]) # <<>>
          PROVE  p \in Q
      <3>1. p = Pair(i + l - 1, 1) /\ p[2] = i + l - 1 /\ p[3] = 1
        BY <1>7, <1>8, <2>2 DEF Pair
      <3>2. p \in P
        BY <1>1, <1>7, <2>2, <3>1, ChainIs
      <3>3. i <= p[2] /\ p[2] < u
        BY <1>5, <1>6, <3>1
      <3> QED
        BY <3>1, <3>2, <3>3
    <2>3. ASSUME p \in Q
          PROVE  \E l \in 1 .. Lanes : p = B[l] /\ Chain(p[2]) # <<>>
      <3>1. p \in P /\ p[2] \in Nat /\ p[3] \in Nat /\ p[3] >= 1 /\ p[3] < 2 /\ p[1] = drawn
            /\ p = <<p[1], p[2], p[3]>> /\ i <= p[2] /\ p[2] < u
        BY <1>3, <2>3 DEF Shape, Triples
      <3>2. p[3] = 1
        BY <3>1
      <3> DEFINE l == p[2] - i + 1
      <3>3. l \in 1 .. Lanes /\ i + l - 1 = p[2] /\ p[2] \in 0 .. numProbes - 1
        <4>1. u = i + Lanes /\ u <= numProbes /\ i \in Nat /\ Lanes \in Nat
          BY <1>5, <1>6
        <4>2. numProbes \in Nat
          BY <1>3
        <4> HIDE DEF u
        <4> QED
          BY <3>1, <4>1, <4>2
      <3> HIDE DEF l
      <3>4. p = B[l]
        BY <1>7, <3>1, <3>2, <3>3
      <3>5. Chain(p[2]) # <<>>
        BY <1>1, <3>1, <3>3, ChainIs
      <3> QED
        BY <3>3, <3>4, <3>5
    <2> QED
      BY <2>1, <2>2, <2>3
  <1>10. \A p \in Q : /\ SIMD!SameHash(p) <=> SameHash(p)
                      /\ SIMD!Follows(p) <=> After(p) \in P
                      /\ p[1] = drawn /\ p[2] \in Nat /\ p[3] = 1 /\ p \in Triples /\ i <= p[2] /\ p[2] < u
                      /\ \E l \in 1 .. Lanes : p = B[l]
    <2> SUFFICES ASSUME NEW p \in Q
                 PROVE  /\ SIMD!SameHash(p) <=> SameHash(p)
                        /\ SIMD!Follows(p) <=> After(p) \in P
                        /\ p[1] = drawn /\ p[2] \in Nat /\ p[3] = 1 /\ p \in Triples /\ i <= p[2] /\ p[2] < u
                        /\ \E l \in 1 .. Lanes : p = B[l]
      OBVIOUS
    <2>1. SIMD!SameHash(p) <=> SameHash(p)
      BY DEF SIMD!SameHash, SameHash, SIMD!Kind, Kind, SIMD!Other, Other
    <2>2. /\ p[1] = drawn /\ p[2] \in Nat /\ p[3] \in Nat /\ p[3] >= 1 /\ p[3] < 2 /\ p \in Triples
          /\ p \in P /\ i <= p[2] /\ p[2] < u
      BY <1>3 DEF Shape, Triples
    <2>3. p[2] \in 0 .. numProbes - 1 /\ p[3] = 1
      BY <1>3, <1>5, <2>2
    <2>4. SIMD!Follows(p) <=> After(p) \in P
      BY <1>1, <2>2, <2>3, ChainIs DEF SIMD!Follows, SIMD!Chain, Chain
    <2>5. p \in SIMD!Found
      BY <1>9
    <2>6. \E l \in 1 .. Lanes : p = B[l]
      <3>1. p \in SIMD!Elements(B) /\ DOMAIN B = 1 .. Lanes
        BY <1>6, <1>7, <2>5 DEF SIMD!Found
      <3> QED
        BY <3>1 DEF SIMD!Elements
    <2> QED
      BY <2>1, <2>2, <2>3, <2>4, <2>6
  <1>11. S1 = {p \in Q : SameHash(p)} /\ S2 = {p \in Q : After(p) \in P}
    BY <1>9, <1>10
  <1> HIDE DEF B, S1, S2
  <1> HIDE DEF P, Q
  <1>12. /\ H \in Seq(Triples) /\ Len(H) <= Lanes /\ Len(H) \in Nat /\ DOMAIN H = 1 .. Len(H)
         /\ \A m \in 1 .. Len(H) : H[m] \in S1
         /\ \A l \in 1 .. Lanes : B[l] \in S1 => \E m \in 1 .. Len(H) : H[m] = B[l]
         /\ \A l, m \in 1 .. Len(H) : H[l] = H[m] => l = m
         /\ \A l, m \in 1 .. Len(B) : B[l] = B[m] => l = m
    <2>1. \A l, m \in 1 .. Len(B) : B[l] = B[m] => l = m
      <3> SUFFICES ASSUME NEW l \in 1 .. Lanes, NEW m \in 1 .. Lanes, B[l] = B[m] PROVE l = m
        BY <1>7
      <3>1. i + l - 1 = i + m - 1
        BY <1>8
      <3> QED
        BY <1>5, <1>6, <3>1
    <2>2. B \in Seq(Triples)
      BY <1>7
    <2>3. /\ H \in Seq(Triples)
          /\ Len(H) <= Len(B)
          /\ \A m \in 1 .. Len(H) : H[m] \in S1
          /\ \A l \in 1 .. Len(B) : B[l] \in S1 => \E m \in 1 .. Len(H) : H[m] = B[l]
          /\ \A l, m \in 1 .. Len(H) : H[l] = H[m] => l = m
      BY <2>1, <2>2, KeptIs
    <2> HIDE DEF H
    <2> QED
      BY <1>7, <2>1, <2>3
  <1>13. /\ X \in Seq(Triples) /\ Len(X) <= Lanes /\ Len(X) \in Nat /\ DOMAIN X = 1 .. Len(X)
         /\ \A m \in 1 .. Len(X) : X[m] \in S2
         /\ \A l \in 1 .. Lanes : B[l] \in S2 => \E m \in 1 .. Len(X) : X[m] = B[l]
         /\ \A l, m \in 1 .. Len(X) : X[l] = X[m] => l = m
    <2>1. B \in Seq(Triples)
      BY <1>7
    <2>2. /\ X \in Seq(Triples)
          /\ Len(X) <= Len(B)
          /\ \A m \in 1 .. Len(X) : X[m] \in S2
          /\ \A l \in 1 .. Len(B) : B[l] \in S2 => \E m \in 1 .. Len(X) : X[m] = B[l]
          /\ \A l, m \in 1 .. Len(X) : X[l] = X[m] => l = m
      BY <1>12, <2>1, KeptIs, ZenonT(30)
    <2> HIDE DEF X
    <2>3. X \in Seq(Triples) /\ Len(X) \in Nat /\ DOMAIN X = 1 .. Len(X) /\ Len(B) = Lanes
      BY <1>7, <2>2
    <2> QED
      BY <2>2, <2>3
  <1> USE DEF P, Q
  <1> HIDE DEF H, X
  \* What is written to the output.
  <1> DEFINE s == [m \in DOMAIN H |-> Written(H[m], H[m][2])]
  <1>14. /\ s \in Seq(Cells0) /\ Len(s) = Len(H)
         /\ \A m \in 1 .. Len(s) : s[m].build = H[m] /\ s[m].build \in P /\ s[m].probe = Row(s[m].build[2])
    <2>1. ASSUME NEW m \in 1 .. Len(H)
          PROVE  Written(H[m], H[m][2]) \in Cells0 /\ Written(H[m], H[m][2]).build = H[m] /\ H[m] \in P
                 /\ Written(H[m], H[m][2]).probe = Row(H[m][2])
      <3>1. H[m] \in Q
        BY <1>11, <1>12
      <3>2. H[m] \in Triples /\ H[m][2] \in Nat /\ H[m][2] < u /\ H[m] \in P
        BY <1>10, <3>1
      <3>3. H[m][2] \in 0 .. BatchSize - 1
        BY <1>3, <1>5, <3>2
      <3>4. Row(H[m][2]) \in Nat
        BY <3>2, <3>3, SelectionAssumption DEF CommonInv, TypeInv, Row, NoSel
      <3> QED
        BY <3>2, <3>4 DEF Written, Cells0
    <2> HIDE DEF P
    <2>2. s \in Seq(Cells0) /\ Len(s) = Len(H)
      BY <1>12, <2>1
    <2>3. \A m \in 1 .. Len(s) : s[m] = Written(H[m], H[m][2])
      BY <1>12, <2>2
    <2> QED
      BY <2>1, <2>2, <2>3
  <1>15. Pairs(s) = S1
    <2>1. Pairs(s) = {H[m] : m \in 1 .. Len(H)}
      <3>1. DOMAIN s = 1 .. Len(H)
        BY <1>12
      <3> HIDE DEF s
      <3> QED
        BY <1>14, <3>1 DEF Pairs, Elements
    <2>2. ASSUME NEW p \in S1
          PROVE  p \in {H[m] : m \in 1 .. Len(H)}
      <3>1. PICK l \in 1 .. Lanes : p = B[l]
        BY <1>10, <1>11
      <3> QED
        BY <1>12, <3>1
    <2>3. \A m \in 1 .. Len(H) : H[m] \in S1
      BY <1>12
    <2> QED
      BY <2>1, <2>2, <2>3
  <1> HIDE DEF s
  <1>16. matches' = matches \o s /\ matches \in Seq(Cells0)
    BY <1>2 DEF s, CommonInv, TypeInv, Cells0
  <1>17. Len(matches) + Len(s) <= BatchSize
    BY <1>3, <1>5, <1>6, <1>12, <1>14
  <1>18. CommonInv'
    BY <1>1, <1>14, <1>16, <1>17, BlockKeepsCommon
  <1>19. Pairs(matches') = Pairs(matches) \cup S1 /\ Len(matches') = Len(matches) + Len(s)
    BY <1>14, <1>15, <1>16, PairsConcatenated
  \* What is written to the ring.
  <1> DEFINE cells == Used(0, w)
  <1> DEFINE W == w .. w + Len(X) - 1
  <1> DEFINE cells2 == cells \cup W
  <1>20. /\ Cells = cells /\ Fresh = i /\ Fresh' = u /\ Unreturned = Pairs(matches)
         /\ Unreturned' = Pairs(matches')
    BY <1>1, <1>6 DEF Cells, Fresh, following, Unreturned, Pairs, Elements
  <1>21. Cells' = cells2 /\ W \cap cells = {} /\ W \subseteq 0 .. BatchSize /\ w + Len(X) <= u
    <2>1. Cells' = Used(0, w + Len(X))
      BY <1>1, <1>2, <1>6 DEF Cells, following, Used
    <2>2. w + Len(X) <= u
      BY <1>5, <1>6, <1>13
    <2>3. Used(0, w + Len(X)) = cells2 /\ W \cap cells = {}
      BY <1>3, <1>5, <1>6, <1>13, <2>2, SMTT(30) DEF Used
    <2>4. W \subseteq 0 .. BatchSize
      BY <1>3, <1>5, <1>6, <1>13, <2>2
    <2> QED
      BY <2>1, <2>2, <2>3, <2>4
  <1>22. ring \in [0 .. BatchSize -> Triples] /\ cells \subseteq 0 .. BatchSize
    BY DEF RingInv, RingType, Used
  <1>23. /\ \A c \in cells : ring'[c] = ring[c]
         /\ \A c \in W : /\ c - w + 1 \in 1 .. Len(X)
                         /\ ring'[c] = After(X[c - w + 1])
    <2>1. \A c \in 0 .. BatchSize : c - w + 1 \in 1 .. Len(X) <=> c \in W
      BY <1>3, <1>6, <1>13
    <2>2. \A c \in 0 .. BatchSize :
             ring'[c] = IF c \in W THEN Pair(X[c - w + 1][2], X[c - w + 1][3] + 1) ELSE ring[c]
      <3> HIDE DEF W
      <3> QED
        BY <1>2, <1>13, <1>22, <2>1
    <2>3. \A m \in 1 .. Len(X) : Pair(X[m][2], X[m][3] + 1) = After(X[m])
      BY <1>10, <1>11, <1>13 DEF Pair, After
    <2> HIDE DEF W, cells
    <2> QED
      BY <1>21, <1>22, <2>1, <2>2, <2>3
  <1> HIDE DEF cells, W
  <1>24. \A m \in 1 .. Len(X) : /\ After(X[m]) \in P /\ X[m] \in Q /\ After(X[m])[2] = X[m][2] /\ After(X[m])[3] = 2
    <2> SUFFICES ASSUME NEW m \in 1 .. Len(X)
                 PROVE  After(X[m]) \in P /\ X[m] \in Q /\ After(X[m])[2] = X[m][2] /\ After(X[m])[3] = 2
      OBVIOUS
    <2>1. X[m] \in Q /\ After(X[m]) \in P
      BY <1>11, <1>13
    <2>2. X[m][3] = 1
      BY <1>10, <2>1
    <2> QED
      BY <2>1, <2>2 DEF After
  <1>25. ASSUME NEW c \in W
         PROVE  /\ ring'[c] \in P /\ i <= ring'[c][2] /\ ring'[c][2] < u /\ ring'[c][3] = 2
                /\ ring'[c] \in Triples
                /\ \A d \in W : c # d => ring'[c][2] # ring'[d][2]
    <2>1. ring'[c] = After(X[c - w + 1]) /\ c - w + 1 \in 1 .. Len(X)
      BY <1>23
    <2>2. /\ ring'[c] \in P /\ ring'[c][2] = X[c - w + 1][2] /\ ring'[c][3] = 2 /\ X[c - w + 1] \in Q
      BY <1>24, <2>1
    <2>3. ring'[c] \in Triples
      BY <1>3, <2>2 DEF Shape
    <2>4. ASSUME NEW d \in W, c # d, ring'[c][2] = ring'[d][2]
          PROVE  FALSE
      <3>1. ring'[d] = After(X[d - w + 1]) /\ d - w + 1 \in 1 .. Len(X)
        BY <1>23
      <3>2. ring'[d][2] = X[d - w + 1][2] /\ X[d - w + 1] \in Q
        BY <1>24, <3>1
      <3>3. c - w + 1 # d - w + 1
        <4>1. c \in Int /\ d \in Int /\ w \in Int
          BY <1>3, <1>6, <1>21
        <4> HIDE DEF w
        <4> QED
          BY <2>4, <4>1
      <3>4. X[c - w + 1] = X[d - w + 1]
        <4> DEFINE p == X[c - w + 1]
        <4> DEFINE r == X[d - w + 1]
        <4>1. p \in Q /\ r \in Q /\ p[2] = r[2]
          BY <2>2, <2>4, <3>2
        <4> HIDE DEF p, r
        <4>2. p[1] = drawn /\ r[1] = drawn /\ p[3] = 1 /\ r[3] = 1 /\ p \in Triples /\ r \in Triples
          BY <1>10, <4>1
        <4>3. p = r
          BY <4>1, <4>2 DEF Triples
        <4> QED
          BY <4>3 DEF p, r
      <3> QED
        BY <1>13, <2>1, <3>1, <3>3, <3>4
    <2> QED
      BY <1>10, <2>2, <2>3, <2>4
  <1>26. \A p \in P : i <= p[2] /\ p[2] < u /\ p[3] >= 2 => \E c \in W : p[2] = ring'[c][2]
    <2> SUFFICES ASSUME NEW p \in P, i <= p[2], p[2] < u, p[3] >= 2
                 PROVE  \E c \in W : p[2] = ring'[c][2]
      OBVIOUS
    <2>1. p[1] = drawn /\ p[2] \in Nat /\ p[3] \in Nat
      BY <1>3 DEF Shape, Triples
    <2> DEFINE f == <<drawn, p[2], 1>>
    <2>2. Chain(p[2]) # <<>> /\ p[2] \in 0 .. numProbes - 1
      <3>1. p[2] \in 0 .. numProbes - 1
        BY <1>3, <1>5, <2>1
      <3> QED
        BY <1>1, <3>1, ChainIs
    <2>3. f \in P
      BY <1>1, <2>2, ChainIs DEF Pair
    <2>4. f[2] = p[2] /\ f[3] = 1
      OBVIOUS
    <2> HIDE DEF f
    <2>5. After(f) \in P
      BY <1>3, <2>1, <2>3, <2>4 DEF Shape
    <2>6. f \in Q
      BY <2>3, <2>4
    <2>7. f \in S2
      BY <1>11, <2>5, <2>6
    <2>8. PICK l \in 1 .. Lanes : f = B[l]
      BY <1>10, <2>6
    <2>9. PICK m \in 1 .. Len(X) : X[m] = f
      BY <1>13, <2>7, <2>8
    <2>10. w + m - 1 \in W /\ (w + m - 1) - w + 1 = m
      BY <1>6, <1>13 DEF W
    <2>11. ring'[w + m - 1] = After(X[m])
      BY <1>23, <2>10
    <2> QED
      BY <1>24, <2>4, <2>9, <2>10, <2>11
  <1> HIDE DEF P, Q, u, w
  <1>27. Apart(P, ring, cells, i) /\ Accounted(JoinResult, missing, drawn, Pairs(matches), Open(P, ring, cells, i))
    BY <1>1, <1>20 DEF RingInv, RingOpen, P
  <1>28. /\ Open(P, ring', cells2, u) = Open(P, ring, cells, i) \ Q
         /\ Apart(P, ring', cells2, u)
    <2>1. Begun(P, ring, cells, i, ring', W, u, 2)
      BY <1>21, <1>23, <1>25, <1>26 DEF Begun
    <2>3. /\ Shape(P, drawn) /\ i \in Nat /\ u \in Nat /\ i <= u /\ 2 \in Nat /\ Apart(P, ring, cells, i)
      BY <1>3, <1>5, <1>6, <1>27
    <2> HIDE DEF cells2
    <2>2. /\ Open(P, ring', cells2, u)
              = Open(P, ring, cells, i) \ {p \in P : i <= p[2] /\ p[2] < u /\ p[3] < 2}
          /\ Apart(P, ring', cells2, u)
      BY <2>1, <2>3, Begins DEF cells2
    <2> QED
      BY <2>2 DEF Q
  <1>29. Accounted(JoinResult, missing, drawn, Pairs(matches'), Open(P, ring', cells2, u))
    <2>1. S1 \subseteq Q
      BY <1>11
    <2>2. Q \subseteq Open(P, ring, cells, i)
      BY DEF Q, Open
    <2>3. Q \cap JoinResult \subseteq S1
      <3>1. input \in [1 .. NrBatches -> Vectors]
        BY DEF CommonInv, TypeInv
      <3> QED
        BY <1>11, <3>1, ResultIs DEF SameHash, Match, Other
    <2> DEFINE open == Open(P, ring, cells, i)
    <2> DEFINE open2 == Open(P, ring', cells2, u)
    <2> DEFINE out == Pairs(matches)
    <2> DEFINE out2 == Pairs(matches')
    <2>4. /\ Accounted(JoinResult, missing, drawn, out, open) /\ Q \subseteq open /\ open2 = open \ Q
          /\ out2 = out \cup S1
      BY <1>19, <1>27, <1>28, <2>2
    <2> HIDE DEF open, open2, out, out2
    <2>5. Accounted(JoinResult, missing, drawn, out2, open2)
      BY <2>1, <2>3, <2>4, TakenIsAccounted
    <2> QED
      BY <2>5 DEF out2, open2
  <1>30. RingOpen'
    <2>1. PairsOf(drawn)' = P /\ JoinResult' = JoinResult
      BY <1>1, VectorsStay DEF P
    <2> HIDE DEF cells2
    <2> QED
      BY <1>1, <1>20, <1>21, <1>28, <1>29, <2>1 DEF RingOpen
  <1>31. RingType'
    <2>1. ring' \in [0 .. BatchSize -> Triples]
      <3>1. \A c \in 0 .. BatchSize : (IF c - w + 1 \in DOMAIN X THEN Pair(X[c - w + 1][2], X[c - w + 1][3] + 1) ELSE ring[c]) \in Triples
        <4> SUFFICES ASSUME NEW c \in 0 .. BatchSize
                     PROVE  (IF c - w + 1 \in DOMAIN X THEN Pair(X[c - w + 1][2], X[c - w + 1][3] + 1) ELSE ring[c]) \in Triples
          OBVIOUS
        <4>1. CASE c - w + 1 \in DOMAIN X
          <5>1. \A m \in 1 .. Len(X) : Pair(X[m][2], X[m][3] + 1) \in Triples
            BY <1>3, <1>10, <1>24 DEF Pair, Triples
          <5> QED
            BY <1>13, <4>1, <5>1
        <4>2. CASE c - w + 1 \notin DOMAIN X
          BY <1>22, <4>2
        <4> QED
          BY <4>1, <4>2
      <3>2. DOMAIN ring = 0 .. BatchSize
        BY <1>22
      <3> QED
        BY <1>2, <3>1, <3>2 DEF w
    <2>2. w' \in 0 .. BatchSize /\ u \in 0 .. BatchSize
      BY <1>2, <1>3, <1>5, <1>6, <1>13, <1>21
    <2> QED
      BY <1>1, <2>1, <2>2 DEF RingInv, RingType, w
  <1>32. RingCont'
    BY <1>1 DEF RingCont, following
  <1>33. RingLoop'
    <2>1. w' <= u
      BY <1>2, <1>21
    <2>2. Len(matches') <= u
      BY <1>5, <1>6, <1>12, <1>14, <1>19 DEF u
    <2>3. n + 1 \in 0 .. numProbes
      BY <1>3, <1>5
    <2> QED
      BY <1>1, <1>5, <1>6, <2>1, <2>2, <2>3 DEF RingLoop, w
  \* No pair is written twice, nor one that is in the output already.
  <1>34. Distinct(s)
    <2> SUFFICES ASSUME NEW a \in 1 .. Len(H), NEW b \in 1 .. Len(H), s[a].build = s[b].build
                 PROVE  a = b
      BY <1>14 DEF Distinct
    <2>1. H[a] = H[b]
      BY <1>14
    <2> QED
      BY <1>12, <2>1
  <1>35. Pairs(matches) \cap Pairs(s) = {}
    <2>1. Accounted(JoinResult, missing, drawn, Pairs(matches), Open(P, ring, cells, i))
      BY <1>27
    <2>2. S1 \subseteq Open(P, ring, cells, i)
      <3>1. Q \subseteq Open(P, ring, cells, i)
        BY DEF Q, Open
      <3> QED
        BY <1>11, <3>1
    <2> QED
      BY <1>15, <2>1, <2>2 DEF Accounted
  <1>36. Distinct(matches) => Distinct(matches')
    BY <1>14, <1>16, <1>34, <1>35, DistinctConcatenated
  <1> QED
    BY <1>18, <1>30, <1>31, <1>32, <1>33, <1>36 DEF RingInv

-----------------------------------------------------------------------------
\* Behind the end of the stream nothing changes.
LEMMA CommonStays ==
  ASSUME CommonInv, UNCHANGED <<probeVars, join>>
  PROVE  CommonInv'
  <1>1. UNCHANGED <<input, drawn, nextProbe, numProbes, probeSel, matches, pc, missing, join>>
    BY DEF probeVars
  <1>2. PairsOf(drawn)' = PairsOf(drawn) /\ JoinResult' = JoinResult
    BY <1>1, VectorsStay
  <1>3. TypeInv'
    BY <1>1, <1>2 DEF CommonInv, TypeInv
  <1>4. OutputInv'
    BY <1>1, <1>2 DEF CommonInv, OutputInv, Row, Kind
  <1>5. VectorInv'
    BY <1>1 DEF CommonInv, VectorInv
  <1> QED
    BY <1>3, <1>4, <1>5 DEF CommonInv

\* The ring as well.
LEMMA RingStays ==
  ASSUME RingInv,
         UNCHANGED <<probeVars, join, ring, contFollowup, contWrite,
                     followup, followupWrite, i, left, full>>
  PROVE  RingInv'
  <1>1. UNCHANGED <<input, drawn, nextProbe, numProbes, probeSel, matches, pc, missing, join>>
    BY DEF probeVars
  <1>2. PairsOf(drawn)' = PairsOf(drawn) /\ JoinResult' = JoinResult
    BY <1>1, VectorsStay
  <1>3. Cells' = Cells /\ Fresh' = Fresh /\ Unreturned' = Unreturned
    BY <1>1 DEF Cells, Fresh, following, Unreturned, Pairs, Elements
  <1>4. RingOpen'
    BY <1>1, <1>2, <1>3 DEF RingInv, RingOpen
  <1>5. RingType' /\ RingCont'
    BY <1>1 DEF RingInv, RingType, RingCont, following
  <1>6. RingLoop'
    BY <1>1 DEF RingInv, RingLoop, SIMD!rest, NrUsed
  <1> QED
    BY <1>4, <1>5, <1>6 DEF RingInv

\* The probe side's own steps, together.
LEMMA RingProbe ==
  ASSUME CommonInv, RingInv, ProbeNext,
         UNCHANGED <<join, ring, contFollowup, contWrite,
                     followup, followupWrite, i, left, full>>
  PROVE  CommonInv' /\ RingInv'
  <1>1. CASE DrawVector
    BY <1>1, RingDraw
  <1>2. CASE EndOfStream
    BY <1>2, RingEnd
  <1>3. CASE Resume
    BY <1>3, RingResume
  <1>4. CASE KeyEquality
    BY <1>4, RingKey
  <1>5. CASE CallNext
    BY <1>5, RingCall
  <1> QED
    BY <1>1, <1>2, <1>3, <1>4, <1>5 DEF ProbeNext

\* The steps of joinAllParallel and joinSelParallel.
LEMMA ParallelKeeps ==
  ASSUME CommonInv, RingInv, Parallel!Next, UNCHANGED join, join \in {"joinAllParallel", "joinSelParallel"}
  PROVE  CommonInv' /\ RingInv'
  <1>1. CASE Parallel!Enter
    BY <1>1, EnterKeeps
  <1>2. CASE Parallel!FirstEntry
    BY <1>2, FirstEntryKeeps
  <1>3. CASE Parallel!FirstDone
    BY <1>3, FirstDoneKeeps
  <1>4. CASE Parallel!Wrap
    BY <1>4, WrapKeeps
  <1>5. CASE Parallel!BeginRound
    BY <1>5, BeginRoundKeeps
  <1>6. CASE Parallel!FollowEntry
    BY <1>6, FollowEntryKeeps
  <1>7. CASE Parallel!EndRound
    BY <1>7, EndRoundKeeps
  <1>8. CASE Parallel!AllFollowed
    BY <1>8, AllFollowedKeeps
  <1>9. CASE Parallel!ProbeNext /\ UNCHANGED <<Parallel!ringVars, Parallel!loops>>
    <2>1. ProbeNext
      BY <1>9, SameProbeSide
    <2>2. UNCHANGED <<ring, contFollowup, contWrite, followup, followupWrite, i, left, full>>
      BY <1>9 DEF Parallel!ringVars, Parallel!loops
    <2> QED
      BY <2>1, <2>2, RingProbe
  <1>10. CASE Parallel!Terminated
    <2>1. UNCHANGED <<probeVars, ring, contFollowup, contWrite, followup, followupWrite, i, left, full>>
      BY <1>10 DEF Parallel!Terminated, Parallel!vars, Parallel!probeVars, probeVars, Parallel!ringVars, Parallel!loops
    <2> QED
      BY <2>1, CommonStays, RingStays
  <1> QED
    BY <1>1, <1>2, <1>3, <1>4, <1>5, <1>6, <1>7, <1>8, <1>9, <1>10 DEF Parallel!Next, Parallel!Join

\* joinAllSIMD shares all steps but those of the first loop.
LEMMA SharedSteps ==
  /\ SIMD!Enter <=> Parallel!Enter
  /\ SIMD!FirstDone <=> Parallel!FirstDone
  /\ SIMD!Wrap <=> Parallel!Wrap
  /\ SIMD!BeginRound <=> Parallel!BeginRound
  /\ SIMD!FollowEntry <=> Parallel!FollowEntry
  /\ SIMD!EndRound <=> Parallel!EndRound
  /\ SIMD!AllFollowed <=> Parallel!AllFollowed
  /\ SIMD!FirstOfRest <=> i >= numProbes - SIMD!rest /\ Parallel!FirstEntry
  <1>1. /\ SIMD!Enter <=> Parallel!Enter
        /\ SIMD!FirstDone <=> Parallel!FirstDone
        /\ SIMD!EndRound <=> Parallel!EndRound
        /\ SIMD!AllFollowed <=> Parallel!AllFollowed
    BY DEF SIMD!Enter, Parallel!Enter, SIMD!FirstDone, Parallel!FirstDone, SIMD!EndRound, Parallel!EndRound,
           SIMD!AllFollowed, Parallel!AllFollowed, SIMD!ringVars, Parallel!ringVars, SIMD!loops, Parallel!loops
  <1>2. SIMD!Wrap <=> Parallel!Wrap
    BY DEF SIMD!Wrap, Parallel!Wrap, SIMD!ringVars, Parallel!ringVars,
           SIMD!followupBufferSize, Parallel!followupBufferSize
  <1>3. SIMD!BeginRound <=> Parallel!BeginRound
    BY DEF SIMD!BeginRound, Parallel!BeginRound, SIMD!ringVars, Parallel!ringVars, SIMD!min, Parallel!min,
           SIMD!nrFollowups, Parallel!nrFollowups, SIMD!remainingSpace, Parallel!remainingSpace,
           SIMD!followupBufferSize, Parallel!followupBufferSize
  <1>4. SIMD!FollowEntry <=> Parallel!FollowEntry
    BY DEF SIMD!FollowEntry, Parallel!FollowEntry, SIMD!followupBufferSize, Parallel!followupBufferSize,
           SIMD!Emit, Parallel!Emit, SIMD!SameHash, Parallel!SameHash, SIMD!Kind, Parallel!Kind,
           SIMD!Other, Parallel!Other, SIMD!Written, Parallel!Written, SIMD!Row, Parallel!Row,
           SIMD!NoSel, Parallel!NoSel, SIMD!Follows, Parallel!Follows, SIMD!Behind, Parallel!Behind,
           SIMD!Chain, Parallel!Chain, SIMD!Pair, Parallel!Pair
  <1>5. SIMD!FirstEntry <=> Parallel!FirstEntry
    BY DEF SIMD!FirstEntry, Parallel!FirstEntry,
           SIMD!Emit, Parallel!Emit, SIMD!SameHash, Parallel!SameHash, SIMD!Kind, Parallel!Kind,
           SIMD!Other, Parallel!Other, SIMD!Written, Parallel!Written, SIMD!Row, Parallel!Row,
           SIMD!NoSel, Parallel!NoSel, SIMD!Follows, Parallel!Follows, SIMD!Behind, Parallel!Behind,
           SIMD!Chain, Parallel!Chain, SIMD!Pair, Parallel!Pair
  <1> QED
    BY <1>1, <1>2, <1>3, <1>4, <1>5 DEF SIMD!FirstOfRest

\* The steps of joinAllSIMD and joinSelSIMD.
LEMMA SIMDKeeps ==
  ASSUME CommonInv, RingInv, SIMD!NextSIMD, UNCHANGED join, join \in {"joinAllSIMD", "joinSelSIMD"}
  PROVE  CommonInv' /\ RingInv'
  <1>1. CASE SIMD!Enter
    BY <1>1, SharedSteps, EnterKeeps
  <1>2. CASE SIMD!FirstBlock
    BY <1>2, FirstBlockKeeps
  <1>3. CASE SIMD!FirstOfRest
    BY <1>3, SharedSteps, FirstEntryKeeps
  <1>4. CASE SIMD!FirstDone
    BY <1>4, SharedSteps, FirstDoneKeeps
  <1>5. CASE SIMD!Wrap
    BY <1>5, SharedSteps, WrapKeeps
  <1>6. CASE SIMD!BeginRound
    BY <1>6, SharedSteps, BeginRoundKeeps
  <1>7. CASE SIMD!FollowEntry
    BY <1>7, SharedSteps, FollowEntryKeeps
  <1>8. CASE SIMD!EndRound
    BY <1>8, SharedSteps, EndRoundKeeps
  <1>9. CASE SIMD!AllFollowed
    BY <1>9, SharedSteps, AllFollowedKeeps
  <1>10. CASE SIMD!ProbeNext /\ UNCHANGED <<SIMD!ringVars, SIMD!loops>>
    <2>1. ProbeNext
      BY <1>10, SameProbeSide
    <2>2. UNCHANGED <<ring, contFollowup, contWrite, followup, followupWrite, i, left, full>>
      BY <1>10 DEF SIMD!ringVars, SIMD!loops
    <2> QED
      BY <2>1, <2>2, RingProbe
  <1>11. CASE SIMD!Terminated
    <2>1. UNCHANGED <<probeVars, ring, contFollowup, contWrite, followup, followupWrite, i, left, full>>
      BY <1>11 DEF SIMD!Terminated, SIMD!vars, SIMD!probeVars, probeVars, SIMD!ringVars, SIMD!loops
    <2> QED
      BY <2>1, CommonStays, RingStays
  <1> QED
    BY <1>1, <1>2, <1>3, <1>4, <1>5, <1>6, <1>7, <1>8, <1>9, <1>10, <1>11 DEF SIMD!NextSIMD, SIMD!JoinSIMD

-----------------------------------------------------------------------------
\* joinBoncz.  What is open stays so, as in OpenStays.
LEMMA BonczOpenStays ==
  ASSUME CommonInv, BonczOpen, pc \notin {"next", "end"},
         UNCHANGED <<input, drawn, missing, followups>>,
         CellsBoncz' = CellsBoncz, Unreturned' = Unreturned,
         FreshBoncz' = FreshBoncz \/ (FreshBoncz \in Nat /\ FreshBoncz' = BatchSize /\ numProbes <= FreshBoncz)
  PROVE  BonczOpen'
  <1>1. PairsOf(drawn)' = PairsOf(drawn) /\ JoinResult' = JoinResult
    BY VectorsStay
  <1>2. drawn \in 1 .. NrBatches /\ numProbes = Len(input[drawn]) /\ numProbes \in 1 .. BatchSize /\ BatchSize \in Nat
    BY InVector
  <1>3. Accounted(JoinResult, missing, drawn, Unreturned, Open(PairsOf(drawn), followups, CellsBoncz, FreshBoncz))
    BY DEF BonczOpen
  <1>4. CASE FreshBoncz' = FreshBoncz
    BY <1>1, <1>3, <1>4 DEF BonczOpen
  <1>5. CASE FreshBoncz \in Nat /\ FreshBoncz' = BatchSize /\ numProbes <= FreshBoncz
    <2> DEFINE t == FreshBoncz
    <2>1. t \in Nat /\ Len(input[drawn]) <= t /\ Len(input[drawn]) <= BatchSize
      BY <1>2, <1>5
    <2>2. Apart(PairsOf(drawn), followups, CellsBoncz, t) /\ FreshBoncz' = BatchSize
      BY <1>5 DEF BonczOpen
    <2>3. Accounted(JoinResult, missing, drawn, Unreturned, Open(PairsOf(drawn), followups, CellsBoncz, t))
      BY <1>3
    <2> HIDE DEF t
    <2>4. /\ Open(PairsOf(drawn), followups, CellsBoncz, t) = Open(PairsOf(drawn), followups, CellsBoncz, BatchSize)
          /\ Apart(PairsOf(drawn), followups, CellsBoncz, t) <=> Apart(PairsOf(drawn), followups, CellsBoncz, BatchSize)
      BY <1>2, <2>1, AllBegun DEF CommonInv
    <2> QED
      BY <1>1, <2>2, <2>3, <2>4 DEF BonczOpen
  <1> QED
    BY <1>4, <1>5

\* The call of join.
LEMMA BonczEnterKeeps ==
  ASSUME CommonInv, BonczInv, Boncz!Enter, UNCHANGED join
  PROVE  CommonInv' /\ BonczInv'
  <1>1. /\ pc = "join" /\ followupWrite' = contWrite /\ k' = 0
        /\ pc' = (IF contWrite = 0 THEN "first" ELSE "while")
        /\ UNCHANGED <<probeSel, input, drawn, nextProbe, numProbes, matches, missing,
                       followups, contWrite, e>>
    BY DEF Boncz!Enter
  <1>2. numProbes \in 1 .. BatchSize /\ nextProbe < numProbes /\ BatchSize \in Nat /\ matches = <<>>
    BY <1>1, InVector DEF CommonInv, VectorInv, OutputInv
  <1>3. CommonInv'
    BY <1>1, <1>2, StepKeepsCommon DEF CommonInv, TypeInv
  <1>4. CellsBoncz' = CellsBoncz /\ FreshBoncz' = FreshBoncz /\ Unreturned' = Unreturned
    BY <1>1 DEF CellsBoncz, FreshBoncz, Unreturned, Pairs, Elements
  <1>5. BonczOpen'
    BY <1>1, <1>4, BonczOpenStays DEF BonczInv
  <1>6. BonczType'
    BY <1>1, <1>2 DEF BonczInv, BonczType
  <1>7. BonczLoop'
    <2>1. Len(matches) = 0 /\ contWrite \in 0 .. BatchSize
      BY <1>2 DEF BonczInv, BonczType
    <2> QED
      BY <1>1, <1>2, <2>1 DEF BonczLoop
  <1> QED
    BY <1>3, <1>5, <1>6, <1>7 DEF BonczInv

\* The chain of a tuple is put aside.
LEMMA FindChainKeeps ==
  ASSUME CommonInv, BonczInv, Boncz!FindChain, UNCHANGED join
  PROVE  CommonInv' /\ BonczInv'
  <1> DEFINE P == PairsOf(drawn)
  <1> DEFINE q == Pair(k, 1)
  <1> DEFINE none == Chain(k) = <<>>
  <1> DEFINE w == followupWrite
  <1>1. /\ pc = "first" /\ k < numProbes /\ k' = k + 1 /\ pc' = "first"
        /\ UNCHANGED <<probeSel, input, drawn, nextProbe, numProbes, missing, matches, contWrite, e>>
    BY DEF Boncz!FindChain
  <1>2. IF none THEN UNCHANGED <<followups, w>>
        ELSE followups' = [followups EXCEPT ![w] = q] /\ w' = w + 1
    BY DEF Boncz!FindChain, Boncz!Chain, Chain, Boncz!Pair, Pair
  <1>3. /\ drawn \in 1 .. NrBatches /\ numProbes \in 1 .. BatchSize /\ BatchSize \in Nat
        /\ Shape(P, drawn) /\ Len(matches) \in Nat /\ drawn \in Nat
    BY <1>1, InVector, NrBatchesAssumption
  <1>4. /\ k \in Nat /\ k + 1 \in Nat /\ k + 1 \in 0 .. BatchSize /\ k \in 0 .. numProbes - 1
        /\ w <= k /\ w \in 0 .. BatchSize - 1 /\ w + 1 \in 0 .. BatchSize /\ k <= k + 1 /\ matches = <<>>
    BY <1>1, <1>3 DEF BonczInv, BonczType, BonczLoop
  <1>5. /\ none => \A p \in P : p[2] # k
        /\ ~none => q \in P
    BY <1>1, <1>4, ChainIs
  <1>6. q = <<drawn, k, 1>> /\ q[1] = drawn /\ q[2] = k /\ q[3] = 1
    BY DEF Pair
  <1> HIDE DEF q, none
  <1>7. CommonInv'
    <2>1. nextProbe' \in 0 .. BatchSize /\ nextProbe' < numProbes
      BY <1>1 DEF CommonInv, TypeInv, VectorInv
    <2> QED
      BY <1>1, <2>1, StepKeepsCommon
  <1> DEFINE cells == 0 .. w - 1
  <1> DEFINE W == IF none THEN {} ELSE {w}
  <1> DEFINE cells2 == cells \cup W
  <1>8. /\ CellsBoncz = cells /\ FreshBoncz = k /\ FreshBoncz' = k + 1 /\ Unreturned' = Unreturned
        /\ CellsBoncz' = 0 .. w' - 1
    BY <1>1 DEF CellsBoncz, FreshBoncz, Unreturned, Pairs, Elements
  <1>9. CellsBoncz' = cells2 /\ W \cap cells = {} /\ w \notin cells
    <2>1. 0 .. (w + 1) - 1 = (0 .. w - 1) \cup {w} /\ w \notin cells
      BY <1>4
    <2>2. CASE none
      BY <1>2, <1>8, <2>1, <2>2
    <2>3. CASE ~none
      BY <1>2, <1>8, <2>1, <2>3
    <2> QED
      BY <2>2, <2>3
  <1>10. followups \in [0 .. BatchSize - 1 -> Triples] /\ cells \subseteq 0 .. BatchSize - 1
    <2>1. followups \in [0 .. BatchSize - 1 -> Triples]
      BY DEF BonczInv, BonczType
    <2>2. w \in Nat /\ w <= BatchSize - 1 /\ BatchSize \in Nat
      BY <1>3, <1>4
    <2> HIDE DEF w
    <2>3. cells \subseteq 0 .. BatchSize - 1
      BY <2>2
    <2> QED
      BY <2>1, <2>3
  <1> HIDE DEF cells
  <1>11. /\ followups' \in [0 .. BatchSize - 1 -> Triples]
         /\ \A c \in cells : followups'[c] = followups[c]
         /\ \A c \in W : followups'[c] = q /\ ~none /\ c = w
    <2>1. CASE none
      BY <1>2, <1>10, <2>1
    <2>2. CASE ~none
      <3>1. q \in Triples
        BY <1>3, <1>5, <2>2 DEF Shape
      <3> QED
        BY <1>2, <1>4, <1>9, <1>10, <2>2, <3>1
    <2> QED
      BY <2>1, <2>2
  <1>12. ASSUME NEW p \in P, k <= p[2], p[2] < k + 1
         PROVE  p[3] >= 1 /\ p[3] \in Nat /\ w \in W /\ p[2] = followups'[w][2]
    <2>1. p[2] = k /\ p[3] \in Nat /\ p[3] >= 1
      <3>1. p[2] \in Nat /\ p[3] \in Nat /\ p[3] >= 1
        BY <1>3 DEF Shape, Triples
      <3> QED
        BY <1>4, <1>12, <3>1
    <2>2. ~none
      BY <1>5, <2>1
    <2> QED
      BY <1>6, <1>11, <2>1, <2>2
  <1> HIDE DEF P
  <1>13. Begun(P, followups, cells, k, followups', W, k + 1, 1)
    <2>1. \A c \in W : /\ followups'[c] \in P /\ k <= followups'[c][2] /\ followups'[c][2] < k + 1 /\ followups'[c][3] = 1
                       /\ \A d \in W : c # d => followups'[c][2] # followups'[d][2]
      BY <1>4, <1>5, <1>6, <1>11
    <2> HIDE DEF W
    <2> QED
      BY <1>9, <1>11, <1>12, <2>1 DEF Begun
  <1> HIDE DEF W, w
  <1>14. Apart(P, followups, cells, k)
    BY <1>8 DEF BonczInv, BonczOpen, P
  <1>15. Open(P, followups', cells2, k + 1) = Open(P, followups, cells, k) /\ Apart(P, followups', cells2, k + 1)
    <2>1. Shape(P, drawn) /\ k \in Nat /\ k + 1 \in Nat /\ k <= k + 1 /\ 1 \in Nat
      BY <1>3, <1>4
    <2> HIDE DEF cells2
    <2>2. /\ Open(P, followups', cells2, k + 1)
              = Open(P, followups, cells, k) \ {p \in P : k <= p[2] /\ p[2] < k + 1 /\ p[3] < 1}
          /\ Apart(P, followups', cells2, k + 1)
      BY <1>13, <1>14, <2>1, Begins DEF cells2
    <2>3. {p \in P : k <= p[2] /\ p[2] < k + 1 /\ p[3] < 1} = {}
      BY <1>12
    <2> QED
      BY <2>2, <2>3
  <1>16. BonczOpen'
    <2>1. PairsOf(drawn)' = P /\ JoinResult' = JoinResult
      BY <1>1, VectorsStay DEF P
    <2> HIDE DEF cells2
    <2> QED
      BY <1>1, <1>8, <1>9, <1>15, <2>1 DEF BonczInv, BonczOpen, P
  <1>17. BonczType'
    BY <1>1, <1>2, <1>4, <1>11 DEF BonczInv, BonczType, w
  <1>18. BonczLoop'
    <2>1. w' <= k + 1 /\ k + 1 <= numProbes
      BY <1>2, <1>3, <1>4
    <2> QED
      BY <1>1, <1>4, <2>1 DEF BonczLoop, w
  <1> QED
    BY <1>7, <1>16, <1>17, <1>18 DEF BonczInv

\* Behind the loop over the tuples.
LEMMA BonczFirstDoneKeeps ==
  ASSUME CommonInv, BonczInv, Boncz!FirstDone, UNCHANGED join
  PROVE  CommonInv' /\ BonczInv'
  <1>1. /\ pc = "first" /\ k = numProbes /\ pc' = "while"
        /\ UNCHANGED <<probeSel, input, drawn, nextProbe, numProbes, matches, missing,
                       followups, contWrite, followupWrite, e, k>>
    BY DEF Boncz!FirstDone, Boncz!loops
  <1>2. nextProbe' \in 0 .. BatchSize /\ nextProbe' < numProbes
    BY <1>1 DEF CommonInv, TypeInv, VectorInv
  <1>3. CommonInv'
    BY <1>1, <1>2, StepKeepsCommon
  <1>4. numProbes \in 1 .. BatchSize /\ BatchSize \in Nat
    BY <1>1, InVector
  <1>5. CellsBoncz' = CellsBoncz /\ Unreturned' = Unreturned /\ FreshBoncz = k /\ FreshBoncz' = BatchSize
    BY <1>1 DEF CellsBoncz, Unreturned, Pairs, Elements, FreshBoncz
  <1>6. BonczOpen'
    BY <1>1, <1>4, <1>5, BonczOpenStays DEF BonczInv
  <1>7. BonczType'
    BY <1>1 DEF BonczInv, BonczType
  <1>8. BonczLoop'
    <2>1. matches = <<>> /\ followupWrite <= numProbes /\ followupWrite \in Nat
      BY <1>1 DEF BonczInv, BonczLoop, BonczType
    <2>2. Len(matches) + followupWrite <= BatchSize
      BY <1>4, <2>1
    <2> QED
      BY <1>1, <2>2 DEF BonczLoop
  <1> QED
    BY <1>3, <1>6, <1>7, <1>8 DEF BonczInv

\* A round begins.
LEMMA BonczBeginRoundKeeps ==
  ASSUME CommonInv, BonczInv, Boncz!BeginRound, UNCHANGED join
  PROVE  CommonInv' /\ BonczInv'
  <1>1. /\ pc = "while" /\ pc' = "round" /\ followupWrite > 0 /\ e' = followupWrite
        /\ followupWrite' = 0 /\ k' = 0
        /\ UNCHANGED <<probeSel, input, drawn, nextProbe, numProbes, matches, missing, followups, contWrite>>
    BY DEF Boncz!BeginRound
  <1>2. nextProbe' \in 0 .. BatchSize /\ nextProbe' < numProbes
    BY <1>1 DEF CommonInv, TypeInv, VectorInv
  <1>3. CommonInv'
    BY <1>1, <1>2, StepKeepsCommon
  <1>4. BatchSize \in Nat /\ followupWrite \in 0 .. BatchSize /\ Len(matches) \in Nat
    BY <1>1, InVector DEF BonczInv, BonczType
  <1>5. CellsBoncz' = CellsBoncz
    <2>1. 0 .. 0 - 1 = {}
      OBVIOUS
    <2> QED
      BY <1>1, <2>1 DEF CellsBoncz
  <1>6. Unreturned' = Unreturned /\ FreshBoncz' = FreshBoncz
    BY <1>1 DEF Unreturned, Pairs, Elements, FreshBoncz
  <1>7. BonczOpen'
    BY <1>1, <1>5, <1>6, BonczOpenStays DEF BonczInv
  <1>8. BonczType'
    BY <1>1, <1>4 DEF BonczInv, BonczType
  <1>9. BonczLoop'
    <2>1. Len(matches) + followupWrite <= BatchSize
      BY <1>1 DEF BonczInv, BonczLoop
    <2>2. Len(matches) + (followupWrite - 0) <= BatchSize
      BY <1>4, <2>1
    <2> QED
      BY <1>1, <1>4, <2>2 DEF BonczLoop
  <1> QED
    BY <1>3, <1>7, <1>8, <1>9 DEF BonczInv

\* A pair that is come to goes to the output, whatever its hash.
LEMMA WriteAccounts ==
  ASSUME CommonInv, drawn \in 1 .. NrBatches, NEW q \in PairsOf(drawn), NEW open, q \in open,
         matches' = Append(matches, Written(q, q[2])),
         Accounted(JoinResult, missing, drawn, Pairs(matches), open)
  PROVE  Accounted(JoinResult, missing, drawn, Pairs(matches'), open \ {q})
  <1>1. input \in [1 .. NrBatches -> Vectors] /\ matches \in Seq(Cells0)
    BY DEF CommonInv, TypeInv, Cells0
  <1>2. q \in Triples /\ q[2] \in 0 .. BatchSize - 1
    <2>1. q \in Triples /\ q[2] < Len(input[drawn]) /\ Len(input[drawn]) \in 1 .. BatchSize
      BY <1>1, PairsAre, VectorIs
    <2> QED
      BY <2>1, BatchSizeAssumption DEF Triples
  <1>3. Row(q[2]) \in Nat
    BY <1>2, BatchSizeAssumption, SelectionAssumption DEF CommonInv, TypeInv, Row, NoSel
  <1>4. Written(q, q[2]) \in Cells0 /\ Written(q, q[2]).build = q
    BY <1>2, <1>3 DEF Written, Cells0
  <1>5. Pairs(matches') = Pairs(matches) \cup {q}
    BY <1>1, <1>4, PairsAppended
  <1>6. {q} \subseteq open /\ {q} \cap JoinResult \subseteq {q}
    OBVIOUS
  <1> QED
    BY <1>5, <1>6, TakenIsAccounted

\* The next pair of the round.
LEMMA BonczFollowEntryKeeps ==
  ASSUME CommonInv, BonczInv, Boncz!FollowEntry, UNCHANGED join
  PROVE  CommonInv' /\ BonczInv'
  <1> DEFINE P == PairsOf(drawn)
  <1> DEFINE q == followups[k]
  <1> DEFINE w == followupWrite
  <1> DEFINE goes == q[3] < Len(Chain(q[2]))
  <1>1. /\ pc = "round" /\ pc' = "round" /\ k < e /\ k' = k + 1
        /\ UNCHANGED <<probeSel, input, drawn, nextProbe, numProbes, missing, contWrite, e>>
    BY DEF Boncz!FollowEntry
  <1>2. /\ matches' = Append(matches, Written(q, q[2]))
        /\ IF goes THEN followups' = [followups EXCEPT ![w] = Pair(q[2], q[3] + 1)] /\ w' = w + 1
           ELSE UNCHANGED <<followups, w>>
    BY DEF Boncz!FollowEntry, Boncz!Chain, Chain, Boncz!Written, Written, Boncz!Row, Row,
           Boncz!NoSel, NoSel, Boncz!Pair, Pair, Boncz!Follows, Boncz!Behind
  <1>3. /\ drawn \in 1 .. NrBatches /\ numProbes \in 1 .. BatchSize /\ BatchSize \in Nat
        /\ Shape(P, drawn) /\ Len(matches) \in Nat /\ input \in [1 .. NrBatches -> Vectors]
        /\ numProbes = Len(input[drawn])
    BY <1>1, InVector
  <1>4. /\ k \in Nat /\ e \in Nat /\ w \in Nat /\ e <= BatchSize
        /\ followups \in [0 .. BatchSize - 1 -> Triples]
        /\ w <= k /\ k < e /\ Len(matches) + (e - k) <= BatchSize
    BY <1>1, <1>3 DEF BonczInv, BonczType, BonczLoop
  <1> DEFINE cells == (0 .. w - 1) \cup (k .. e - 1)
  <1>5. /\ CellsBoncz = cells /\ CellsBoncz' = (0 .. w' - 1) \cup (k + 1 .. e - 1)
        /\ FreshBoncz = BatchSize /\ FreshBoncz' = BatchSize /\ Unreturned = Pairs(matches)
        /\ Unreturned' = Pairs(matches')
    BY <1>1 DEF CellsBoncz, FreshBoncz, Unreturned, Pairs, Elements
  <1> HIDE DEF w
  <1>6. /\ k \in cells /\ cells \subseteq 0 .. BatchSize - 1 /\ w \in 0 .. BatchSize - 1 /\ w \notin cells \ {k}
        /\ (0 .. w - 1) \cup (k + 1 .. e - 1) = cells \ {k}
        /\ (0 .. (w + 1) - 1) \cup (k + 1 .. e - 1) = (cells \ {k}) \cup {w}
    BY <1>3, <1>4
  <1> HIDE DEF cells
  <1>7. /\ Apart(P, followups, cells, BatchSize)
        /\ Accounted(JoinResult, missing, drawn, Pairs(matches), Open(P, followups, cells, BatchSize))
    BY <1>1, <1>5 DEF BonczInv, BonczOpen
  <1>8. q \in P /\ q \in Triples /\ q[1] = drawn /\ q[2] \in 0 .. numProbes - 1 /\ q[3] \in Nat
    <2>1. q \in P
      BY <1>6, <1>7 DEF Apart
    <2>2. q \in Triples /\ q[1] = drawn /\ q[2] < Len(input[drawn])
      BY <1>3, <2>1, PairsAre
    <2> QED
      BY <1>3, <2>1, <2>2 DEF Triples
  <1>9. /\ goes <=> After(q) \in P
        /\ Pair(q[2], q[3] + 1) = After(q)
    BY <1>1, <1>8, ChainIs DEF After, Pair
  <1>10. q \in Open(P, followups, cells, BatchSize)
    BY <1>6, <1>8 DEF Open
  <1> HIDE DEF goes
  <1>11. CommonInv'
    <2>1. nextProbe' \in 0 .. BatchSize /\ nextProbe' < numProbes
      BY <1>1 DEF CommonInv, TypeInv, VectorInv
    <2>2. Len(matches) < BatchSize
      BY <1>3, <1>4
    <2>3. \E p \in P : matches' = Append(matches, Written(p, p[2])) /\ Len(matches) < BatchSize
      BY <1>2, <1>8, <2>2
    <2> HIDE DEF P, q
    <2> QED
      BY <1>1, <2>1, <2>3, StepKeepsCommon DEF P
  <1> DEFINE cells2 == CellsBoncz'
  <1> DEFINE store2 == followups'
  <1>12. /\ Open(P, store2, cells2, BatchSize) = Open(P, followups, cells, BatchSize) \ {q}
         /\ Apart(P, store2, cells2, BatchSize)
         /\ store2 \in [0 .. BatchSize - 1 -> Triples] /\ w' \in 0 .. BatchSize /\ w' <= k + 1
    <2>1. CASE goes
      <3>1. /\ store2 = [followups EXCEPT ![w] = After(followups[k])] /\ w' = w + 1
            /\ cells2 = (cells \ {k}) \cup {w} /\ After(followups[k]) \in P
        BY <1>2, <1>5, <1>6, <1>9, <2>1 DEF w
      <3>2. store2 \in [0 .. BatchSize - 1 -> Triples] /\ w' \in 0 .. BatchSize /\ w' <= k + 1
        <4>1. After(followups[k]) \in Triples
          BY <1>3, <3>1 DEF Shape
        <4>2. store2 \in [0 .. BatchSize - 1 -> Triples]
          BY <1>4, <3>1, <4>1
        <4>3. w + 1 \in 0 .. BatchSize /\ w + 1 <= k + 1
          BY <1>3, <1>4
        <4> QED
          BY <3>1, <4>2, <4>3
      <3>3. Going(P, drawn, followups, cells, BatchSize, k, w, store2, cells2)
        BY <1>3, <1>4, <1>6, <1>7, <3>1 DEF Going
      <3> HIDE DEF P, store2, cells2
      <3>4. /\ Open(P, store2, cells2, BatchSize) = Open(P, followups, cells, BatchSize) \ {followups[k]}
            /\ Apart(P, store2, cells2, BatchSize)
        BY <3>3, GoesOn
      <3> QED
        BY <3>2, <3>4
    <2>2. CASE ~goes
      <3>1. store2 = followups /\ cells2 = cells \ {k} /\ After(followups[k]) \notin P /\ w' = w
        BY <1>2, <1>5, <1>6, <1>9, <2>2 DEF w
      <3>2. Ending(P, drawn, followups, cells, BatchSize, k, cells2)
        BY <1>3, <1>6, <1>7, <3>1 DEF Ending
      <3>3. w' \in 0 .. BatchSize /\ w' <= k + 1
        BY <1>3, <1>4, <3>1
      <3> HIDE DEF P, store2, cells2
      <3>4. /\ Open(P, followups, cells2, BatchSize) = Open(P, followups, cells, BatchSize) \ {followups[k]}
            /\ Apart(P, followups, cells2, BatchSize)
        BY <3>2, ChainEnds
      <3> QED
        BY <1>4, <3>1, <3>3, <3>4
    <2> QED
      BY <2>1, <2>2
  <1>13. Accounted(JoinResult, missing, drawn, Pairs(matches'), Open(P, followups, cells, BatchSize) \ {q})
    <2> DEFINE open == Open(P, followups, cells, BatchSize)
    <2>1. q \in open /\ Accounted(JoinResult, missing, drawn, Pairs(matches), open)
      BY <1>7, <1>10
    <2> HIDE DEF open, q
    <2>2. Accounted(JoinResult, missing, drawn, Pairs(matches'), open \ {q})
      BY <1>2, <1>3, <1>8, <2>1, WriteAccounts
    <2> QED
      BY <2>2 DEF open
  <1>14. BonczOpen'
    <2>1. PairsOf(drawn)' = P /\ JoinResult' = JoinResult
      BY <1>1, VectorsStay
    <2> HIDE DEF P, q
    <2> QED
      BY <1>1, <1>5, <1>12, <1>13, <2>1 DEF BonczOpen
  <1>15. BonczType'
    <2>1. k + 1 \in 0 .. BatchSize
      BY <1>3, <1>4
    <2> QED
      BY <1>1, <1>12, <2>1 DEF BonczInv, BonczType, w
  <1>16. BonczLoop'
    <2>1. Len(matches') = Len(matches) + 1
      BY <1>2 DEF CommonInv, TypeInv
    <2>2. Len(matches') + (e - (k + 1)) <= BatchSize /\ k + 1 <= e
      BY <1>3, <1>4, <2>1
    <2> QED
      BY <1>1, <1>12, <2>2 DEF BonczLoop, w
  <1> QED
    BY <1>11, <1>14, <1>15, <1>16 DEF BonczInv

\* A round ends: the vector is done, or the output is nearly full, or there is another.
LEMMA BonczEndRoundKeeps ==
  ASSUME CommonInv, BonczInv, Boncz!EndRound, UNCHANGED join
  PROVE  CommonInv' /\ BonczInv'
  <1> DEFINE fits == Len(matches) + followupWrite >= BatchSize
  <1>1. /\ pc = "round" /\ k = e
        /\ IF followupWrite = 0 THEN nextProbe' = numProbes /\ contWrite' = 0 /\ pc' = "key"
           ELSE /\ nextProbe' = nextProbe
                /\ IF fits THEN contWrite' = followupWrite /\ pc' = "key"
                   ELSE contWrite' = contWrite /\ pc' = "while"
        /\ UNCHANGED <<probeSel, input, drawn, numProbes, matches, missing, followups, followupWrite, e, k>>
    BY DEF Boncz!EndRound, Boncz!loops, Boncz!OutputFull
  <1>2. /\ BatchSize \in Nat /\ Len(matches) \in Nat /\ followupWrite \in Nat /\ followupWrite \in 0 .. BatchSize
        /\ e \in Nat
    BY <1>1, InVector DEF BonczInv, BonczType
  <1>3. nextProbe < numProbes /\ nextProbe' \in 0 .. BatchSize /\ numProbes \in Nat
    BY <1>1 DEF CommonInv, TypeInv, VectorInv
  <1>4. pc' \in {"key", "while"} /\ (pc' = "while" => nextProbe' < numProbes /\ ~fits)
    BY <1>1, <1>3
  <1>5. CommonInv'
    BY <1>1, <1>3, <1>4, StepKeepsCommon
  <1>6. CellsBoncz = 0 .. followupWrite - 1 /\ CellsBoncz' = CellsBoncz
    <2>1. (0 .. followupWrite - 1) \cup (e .. e - 1) = 0 .. followupWrite - 1
      BY <1>2
    <2>2. CellsBoncz = 0 .. followupWrite - 1
      BY <1>1, <2>1 DEF CellsBoncz
    <2>3. CASE followupWrite = 0
      BY <1>1, <2>2, <2>3 DEF CellsBoncz
    <2>4. CASE followupWrite # 0
      BY <1>1, <2>2, <2>4 DEF CellsBoncz
    <2> QED
      BY <2>2, <2>3, <2>4
  <1>7. Unreturned' = Unreturned /\ FreshBoncz' = FreshBoncz
    BY <1>1, <1>4 DEF Unreturned, Pairs, Elements, FreshBoncz
  <1>8. BonczOpen'
    BY <1>1, <1>4, <1>6, <1>7, BonczOpenStays DEF BonczInv
  <1>9. BonczType'
    BY <1>1, <1>2, <1>4 DEF BonczInv, BonczType
  <1>10. BonczLoop'
    <2>1. pc' = "while" => Len(matches) + followupWrite <= BatchSize
      BY <1>2, <1>4
    <2>2. pc' = "key" => (nextProbe' < numProbes <=> contWrite' # 0)
      BY <1>1, <1>3
    <2> QED
      BY <1>1, <1>4, <2>1, <2>2 DEF BonczLoop
  <1> QED
    BY <1>5, <1>8, <1>9, <1>10 DEF BonczInv

\* No tuple has a chain.
LEMMA NothingFoundKeeps ==
  ASSUME CommonInv, BonczInv, Boncz!NothingFound, UNCHANGED join
  PROVE  CommonInv' /\ BonczInv'
  <1>1. /\ pc = "while" /\ pc' = "key" /\ followupWrite = 0 /\ nextProbe' = numProbes /\ contWrite' = 0
        /\ UNCHANGED <<probeSel, input, drawn, numProbes, matches, missing, followups, followupWrite, e, k>>
    BY DEF Boncz!NothingFound, Boncz!loops
  <1>2. nextProbe' \in 0 .. BatchSize /\ ~(nextProbe' < numProbes) /\ 0 \in 0 .. BatchSize
    BY <1>1, BatchSizeAssumption DEF CommonInv, TypeInv
  <1>3. CommonInv'
    BY <1>1, <1>2, StepKeepsCommon
  <1>4. CellsBoncz' = CellsBoncz /\ Unreturned' = Unreturned /\ FreshBoncz' = FreshBoncz
    BY <1>1 DEF CellsBoncz, Unreturned, Pairs, Elements, FreshBoncz
  <1>5. BonczOpen'
    BY <1>1, <1>4, BonczOpenStays DEF BonczInv
  <1>6. BonczType' /\ BonczLoop'
    BY <1>1, <1>2 DEF BonczInv, BonczType, BonczLoop
  <1> QED
    BY <1>3, <1>5, <1>6 DEF BonczInv

\* The probe side's own steps, around joinBoncz.
LEMMA BonczIsEmpty ==
  ASSUME CommonInv, BonczInv, pc = "next", nextProbe >= numProbes
  PROVE  contWrite = 0 /\ CellsBoncz = {} /\ Accounted(JoinResult, missing, drawn, {}, {})
  <1>1. contWrite = 0
    BY DEF CommonInv, TypeInv, BonczInv, BonczLoop
  <1>2. CellsBoncz = {}
    <2>1. 0 .. 0 - 1 = {}
      OBVIOUS
    <2> QED
      BY <1>1, <2>1 DEF CellsBoncz
  <1>3. Unreturned = {} /\ FreshBoncz = BatchSize
    BY DEF CommonInv, OutputInv, Unreturned, Pairs, Elements, FreshBoncz
  <1>4. drawn = 0 \/ Len(input[drawn]) <= BatchSize
    BY BatchSizeAssumption DEF CommonInv, TypeInv, VectorInv
  <1>5. Open(PairsOf(drawn), followups, {}, BatchSize) = {}
    BY <1>4, NoneOpen, BatchSizeAssumption DEF CommonInv
  <1>6. Accounted(JoinResult, missing, drawn, Unreturned, Open(PairsOf(drawn), followups, CellsBoncz, FreshBoncz))
    BY DEF BonczInv, BonczOpen
  <1> QED
    BY <1>1, <1>2, <1>3, <1>5, <1>6

\* A new vector.
LEMMA BonczDraw ==
  ASSUME CommonInv, BonczInv, DrawVector, UNCHANGED <<join, followups, contWrite, followupWrite, e, k>>
  PROVE  CommonInv' /\ BonczInv'
  <1>1. /\ pc = "next" /\ nextProbe >= numProbes /\ drawn < NrBatches /\ drawn' = drawn + 1 /\ pc' = "join"
        /\ UNCHANGED <<probeSel, input, matches, missing>>
    BY DEF DrawVector
  <1>2. CommonInv'
    BY DrawKeepsCommon
  <1>3. contWrite = 0 /\ CellsBoncz = {} /\ Accounted(JoinResult, missing, drawn, {}, {})
    BY <1>1, BonczIsEmpty
  <1>4. CellsBoncz' = {} /\ Unreturned' = {} /\ FreshBoncz' = 0
    BY <1>1, <1>3 DEF CellsBoncz, Unreturned, Pairs, Elements, FreshBoncz, CommonInv, OutputInv
  <1>5. Accounted(JoinResult, missing, drawn + 1, {}, PairsOf(drawn + 1))
    BY <1>1, <1>3, DrawAccounts DEF CommonInv
  <1>6. PairsOf(drawn)' = PairsOf(drawn + 1) /\ JoinResult' = JoinResult
    BY <1>1 DEF PairsOf, JoinResult
  <1>7. Open(PairsOf(drawn + 1), followups, {}, 0) = PairsOf(drawn + 1)
    <2>1. drawn + 1 \in 0 .. NrBatches
      BY <1>1, NrBatchesAssumption DEF CommonInv, TypeInv
    <2>2. Shape(PairsOf(drawn + 1), drawn + 1)
      BY <2>1, PairsHaveShape DEF CommonInv, TypeInv
    <2>3. \A p \in PairsOf(drawn + 1) : p[2] >= 0
      BY <2>2 DEF Shape, Triples
    <2> QED
      BY <2>3 DEF Open
  <1>8. BonczOpen'
    BY <1>1, <1>4, <1>5, <1>6, <1>7 DEF BonczOpen, Apart
  <1>9. BonczType' /\ BonczLoop'
    BY <1>1, <1>3 DEF BonczInv, BonczType, BonczLoop
  <1> QED
    BY <1>2, <1>8, <1>9 DEF BonczInv

\* The end of the stream.
LEMMA BonczEnd ==
  ASSUME CommonInv, BonczInv, EndOfStream, UNCHANGED <<join, followups, contWrite, followupWrite, e, k>>
  PROVE  CommonInv' /\ BonczInv' /\ missing = {}
  <1>1. /\ pc = "next" /\ nextProbe >= numProbes /\ drawn = NrBatches /\ pc' = "end"
        /\ UNCHANGED <<probeSel, input, drawn, matches, missing>>
    BY DEF EndOfStream
  <1>2. contWrite = 0 /\ CellsBoncz = {} /\ Accounted(JoinResult, missing, drawn, {}, {})
    BY <1>1, BonczIsEmpty
  <1>3. missing = {}
    BY <1>1, <1>2, NothingAccounted DEF CommonInv
  <1>4. CommonInv'
    BY <1>3, EndKeepsCommon
  <1>5. CellsBoncz' = {}
    BY <1>1, <1>2 DEF CellsBoncz
  <1>6. BonczOpen'
    BY <1>1, <1>5 DEF BonczOpen, Apart
  <1>7. BonczType' /\ BonczLoop'
    BY <1>1, <1>2 DEF BonczInv, BonczType, BonczLoop
  <1> QED
    BY <1>3, <1>4, <1>6, <1>7 DEF BonczInv

\* The call of join goes on with the pairs that were put aside.
LEMMA BonczResume ==
  ASSUME CommonInv, BonczInv, Resume, UNCHANGED <<join, followups, contWrite, followupWrite, e, k>>
  PROVE  CommonInv' /\ BonczInv'
  <1>1. /\ pc = "next" /\ nextProbe < numProbes /\ pc' = "join"
        /\ UNCHANGED <<probeSel, input, drawn, nextProbe, numProbes, matches, missing>>
    BY DEF Resume
  <1>2. CommonInv'
    BY ResumeKeepsCommon
  <1>3. contWrite # 0
    BY <1>1 DEF BonczInv, BonczLoop
  <1>4. CellsBoncz' = CellsBoncz /\ FreshBoncz' = FreshBoncz /\ Unreturned' = Unreturned
    BY <1>1, <1>3 DEF CellsBoncz, FreshBoncz, Unreturned, Pairs, Elements
  <1>5. PairsOf(drawn)' = PairsOf(drawn) /\ JoinResult' = JoinResult
    BY <1>1, VectorsStay
  <1>6. BonczOpen'
    BY <1>1, <1>4, <1>5 DEF BonczInv, BonczOpen
  <1>7. BonczType' /\ BonczLoop'
    BY <1>1 DEF BonczInv, BonczType, BonczLoop
  <1> QED
    BY <1>2, <1>6, <1>7 DEF BonczInv

\* keyEquality does not touch these.
LEMMA BonczKey ==
  ASSUME CommonInv, BonczInv, KeyEquality, UNCHANGED <<join, followups, contWrite, followupWrite, e, k>>
  PROVE  CommonInv' /\ BonczInv'
  <1>1. /\ pc = "key" /\ pc' \in {"next", "return"}
        /\ UNCHANGED <<probeSel, input, drawn, nextProbe, numProbes>>
    BY DEF KeyEquality
  <1>2. CommonInv'
    BY KeyEqualityKeepsCommon
  <1>3. CellsBoncz' = CellsBoncz /\ FreshBoncz' = FreshBoncz
    BY <1>1 DEF CellsBoncz, FreshBoncz
  <1> DEFINE open == Open(PairsOf(drawn), followups, CellsBoncz, FreshBoncz)
  <1>4. Accounted(JoinResult, missing, drawn, Pairs(matches), open)
    BY <1>1 DEF BonczInv, BonczOpen, Unreturned
  <1>5. Accounted(JoinResult, missing', drawn, {}, open) /\ Unreturned' = {}
    <2> HIDE DEF open
    <2> QED
      BY <1>4, KeyAccounts
  <1>6. PairsOf(drawn)' = PairsOf(drawn) /\ JoinResult' = JoinResult
    BY <1>1, VectorsStay
  <1>7. BonczOpen'
    BY <1>1, <1>3, <1>5, <1>6 DEF BonczInv, BonczOpen
  <1>8. BonczType' /\ BonczLoop'
    BY <1>1 DEF BonczInv, BonczType, BonczLoop
  <1> QED
    BY <1>2, <1>7, <1>8 DEF BonczInv

\* Nor does the operator above.
LEMMA BonczCall ==
  ASSUME CommonInv, BonczInv, CallNext, UNCHANGED <<join, followups, contWrite, followupWrite, e, k>>
  PROVE  CommonInv' /\ BonczInv'
  <1>1. /\ pc = "return" /\ pc' = "next" /\ matches' = <<>>
        /\ UNCHANGED <<probeSel, input, drawn, nextProbe, numProbes, missing>>
    BY DEF CallNext
  <1>2. CommonInv'
    BY CallNextKeepsCommon
  <1>3. CellsBoncz' = CellsBoncz /\ FreshBoncz' = FreshBoncz /\ Unreturned = {} /\ Unreturned' = {}
    BY <1>1 DEF CellsBoncz, FreshBoncz, Unreturned, Pairs, Elements
  <1>4. PairsOf(drawn)' = PairsOf(drawn) /\ JoinResult' = JoinResult
    BY <1>1, VectorsStay
  <1>5. BonczOpen'
    BY <1>1, <1>3, <1>4 DEF BonczInv, BonczOpen
  <1>6. BonczType' /\ BonczLoop'
    BY <1>1 DEF BonczInv, BonczType, BonczLoop
  <1> QED
    BY <1>2, <1>5, <1>6 DEF BonczInv

\* Behind the end of the stream nothing changes.
LEMMA BonczStays ==
  ASSUME BonczInv, UNCHANGED <<probeVars, join, followups, contWrite, followupWrite, e, k>>
  PROVE  BonczInv'
  <1>1. UNCHANGED <<input, drawn, nextProbe, numProbes, probeSel, matches, pc, missing, join>>
    BY DEF probeVars
  <1>2. PairsOf(drawn)' = PairsOf(drawn) /\ JoinResult' = JoinResult
    BY <1>1, VectorsStay
  <1>3. CellsBoncz' = CellsBoncz /\ FreshBoncz' = FreshBoncz /\ Unreturned' = Unreturned
    BY <1>1 DEF CellsBoncz, FreshBoncz, Unreturned, Pairs, Elements
  <1>4. BonczOpen'
    BY <1>1, <1>2, <1>3 DEF BonczInv, BonczOpen
  <1>5. BonczType' /\ BonczLoop'
    BY <1>1 DEF BonczInv, BonczType, BonczLoop
  <1> QED
    BY <1>4, <1>5 DEF BonczInv

\* The steps of joinBoncz.
LEMMA BonczKeeps ==
  ASSUME CommonInv, BonczInv, Boncz!Next, UNCHANGED join
  PROVE  CommonInv' /\ BonczInv'
  <1>1. CASE Boncz!Enter
    BY <1>1, BonczEnterKeeps
  <1>2. CASE Boncz!FindChain
    BY <1>2, FindChainKeeps
  <1>3. CASE Boncz!FirstDone
    BY <1>3, BonczFirstDoneKeeps
  <1>4. CASE Boncz!BeginRound
    BY <1>4, BonczBeginRoundKeeps
  <1>5. CASE Boncz!FollowEntry
    BY <1>5, BonczFollowEntryKeeps
  <1>6. CASE Boncz!EndRound
    BY <1>6, BonczEndRoundKeeps
  <1>7. CASE Boncz!NothingFound
    BY <1>7, NothingFoundKeeps
  <1>8. CASE Boncz!ProbeNext /\ UNCHANGED <<followups, contWrite, Boncz!loops>>
    <2>1. ProbeNext
      BY <1>8, SameProbeSide
    <2>2. UNCHANGED <<followups, contWrite, followupWrite, e, k>>
      BY <1>8 DEF Boncz!loops
    <2> QED
      BY <2>1, <2>2, BonczDraw, BonczEnd, BonczResume, BonczKey, BonczCall DEF ProbeNext
  <1>9. CASE Boncz!Terminated
    <2>1. UNCHANGED <<probeVars, followups, contWrite, followupWrite, e, k>>
      BY <1>9 DEF Boncz!Terminated, Boncz!vars, Boncz!probeVars, probeVars, Boncz!loops
    <2> QED
      BY <2>1, CommonStays, BonczStays
  <1> QED
    BY <1>1, <1>2, <1>3, <1>4, <1>5, <1>6, <1>7, <1>8, <1>9 DEF Boncz!Next, Boncz!Join

-----------------------------------------------------------------------------
\* joinAll and joinSel.  The entry behind another in its chain.
LEMMA BehindIs ==
  ASSUME CommonInv, pc \notin {"next", "end"}, NEW q \in PairsOf(drawn)
  PROVE  /\ IsAt(All!Behind(q), q[2])
         /\ \A p \in From(q[2], q) : p # q => p \in From(q[2], All!Behind(q))
         /\ q # All!End /\ q[2] \in 0 .. numProbes - 1
  <1>1. /\ drawn \in 1 .. NrBatches /\ input \in [1 .. NrBatches -> Vectors]
        /\ numProbes = Len(input[drawn]) /\ numProbes \in Nat /\ Shape(PairsOf(drawn), drawn)
        /\ drawn \in Nat
    BY InVector, NrBatchesAssumption, BatchSizeAssumption
  <1>2. q \in Triples /\ q[1] = drawn /\ q[2] \in 0 .. numProbes - 1 /\ q[3] \in Nat /\ q[3] >= 1
        /\ q = <<q[1], q[2], q[3]>>
    BY <1>1, PairsAre DEF Shape, Triples
  <1>3. All!Behind(q) = IF After(q) \in PairsOf(drawn) THEN After(q) ELSE All!End
    <2>1. After(q) \in PairsOf(drawn) <=> q[3] < Len(Chain(q[2]))
      BY <1>2, ChainIs
    <2> QED
      BY <1>2, <2>1 DEF All!Behind, All!Chain, Chain, All!Pair, After
  <1>4. After(q)[2] = q[2] /\ After(q)[3] = q[3] + 1
    BY DEF After
  <1>5. \A p \in PairsOf(drawn) : p # All!End /\ p[2] \in Nat /\ p[3] \in Nat /\ p = <<drawn, p[2], p[3]>>
    BY <1>1 DEF All!End, Shape, Triples
  <1>6. IsAt(All!Behind(q), q[2])
    BY <1>3, <1>4 DEF IsAt
  <1>7. ASSUME NEW p \in From(q[2], q), p # q
        PROVE  p \in From(q[2], All!Behind(q))
    <2>1. p \in PairsOf(drawn)
      BY DEF From
    <2>2. CASE p[2] = q[2]
      <3>1. p[3] >= q[3] /\ p[3] # q[3]
        BY <1>2, <1>5, <1>7, <2>1, <2>2 DEF From
      <3>2. p[3] > q[3] /\ p[3] >= q[3] + 1
        BY <1>2, <1>5, <2>1, <3>1
      <3>3. After(q) \in PairsOf(drawn)
        BY <1>1, <2>1, <2>2, <3>2 DEF Shape
      <3> QED
        BY <1>3, <1>4, <1>5, <2>1, <2>2, <3>2, <3>3 DEF From
    <2>3. CASE p[2] # q[2]
      BY <1>7, <2>1, <2>3 DEF From
    <2> QED
      BY <2>2, <2>3
  <1> QED
    BY <1>2, <1>5, <1>6, <1>7

\* The entry that the loop over the tuples begins with.
LEMMA FirstIs ==
  ASSUME CommonInv, pc \notin {"next", "end"}, NEW t \in 0 .. numProbes,
         NEW f, f = IF t < numProbes THEN All!FirstOf(t) ELSE All!End
  PROVE  /\ IsAt(f, t)
         /\ From(t, f) = {p \in PairsOf(drawn) : p[2] >= t}
         /\ t = numProbes => f = All!End
  <1>1. /\ drawn \in 1 .. NrBatches /\ input \in [1 .. NrBatches -> Vectors]
        /\ numProbes = Len(input[drawn]) /\ numProbes \in Nat /\ Shape(PairsOf(drawn), drawn)
        /\ drawn \in Nat
    BY InVector, NrBatchesAssumption, BatchSizeAssumption
  <1>2. \A p \in PairsOf(drawn) : /\ p # All!End /\ p[2] \in Nat /\ p[3] \in Nat /\ p[3] >= 1
                                  /\ p[2] < numProbes
    BY <1>1, PairsAre DEF All!End, Shape, Triples
  <1>3. CASE t = numProbes
    BY <1>1, <1>2, <1>3 DEF IsAt, From
  <1>4. CASE t # numProbes
    <2>1. t \in 0 .. numProbes - 1 /\ t < numProbes
      BY <1>1, <1>4
    <2>2. CASE Chain(t) = <<>>
      <3>1. f = All!End
        BY <2>1, <2>2 DEF All!FirstOf, All!Chain, Chain
      <3>2. \A p \in PairsOf(drawn) : p[2] # t
        BY <2>1, <2>2, ChainIs
      <3> QED
        BY <1>2, <1>4, <2>1, <3>1, <3>2 DEF IsAt, From
    <2>3. CASE Chain(t) # <<>>
      <3>1. f = Pair(t, 1)
        BY <2>1, <2>3 DEF All!FirstOf, All!Chain, Chain, All!Pair, Pair
      <3>2. f \in PairsOf(drawn)
        BY <2>1, <2>3, <3>1, ChainIs
      <3>3. f[2] = t /\ f[3] = 1
        BY <3>1 DEF Pair
      <3> QED
        BY <1>2, <1>4, <2>1, <3>2, <3>3 DEF IsAt, From
    <2> QED
      BY <2>2, <2>3
  <1> QED
    BY <1>3, <1>4

\* A pair that is come to is written, or is not of the join result.
LEMMA CoveredOn ==
  ASSUME CommonInv, drawn \in 1 .. NrBatches, NEW q \in PairsOf(drawn),
         matches' = (IF SameHash(q) THEN Append(matches, Written(q, q[2])) ELSE matches),
         NEW open, NEW open2, \A p \in open : p # q => p \in open2,
         Covered(missing, drawn, Pairs(matches), open)
  PROVE  Covered(missing, drawn, Pairs(matches'), open2)
  <1>1. input \in [1 .. NrBatches -> Vectors] /\ matches \in Seq(Cells0)
    BY DEF CommonInv, TypeInv, Cells0
  <1>2. CASE SameHash(q)
    <2>1. q \in Triples /\ q[2] \in 0 .. BatchSize - 1
      <3>1. q \in Triples /\ q[2] < Len(input[drawn]) /\ Len(input[drawn]) \in 1 .. BatchSize
        BY <1>1, PairsAre, VectorIs
      <3> QED
        BY <3>1, BatchSizeAssumption DEF Triples
    <2>2. Row(q[2]) \in Nat
      BY <2>1, BatchSizeAssumption, SelectionAssumption DEF CommonInv, TypeInv, Row, NoSel
    <2>3. Written(q, q[2]) \in Cells0 /\ Written(q, q[2]).build = q
      BY <2>1, <2>2 DEF Written, Cells0
    <2>4. Pairs(matches') = Pairs(matches) \cup {q}
      BY <1>1, <1>2, <2>3, PairsAppended
    <2> QED
      BY <2>4 DEF Covered
  <1>3. CASE ~SameHash(q)
    <2>1. q \notin missing
      BY <1>1, <1>3, ResultIs DEF SameHash, Match, Other, CommonInv, TypeInv
    <2> QED
      BY <1>3, <2>1 DEF Covered
  <1> QED
    BY <1>2, <1>3

\* The call of join.
LEMMA AllEnterKeeps ==
  ASSUME CommonInv, AllInv, All!Enter, UNCHANGED join
  PROVE  CommonInv' /\ AllInv'
  <1>1. /\ pc = "join" /\ at' = buildMatch /\ pc' = "continue"
        /\ UNCHANGED <<probeSel, input, drawn, nextProbe, numProbes, matches, missing, buildMatch, i>>
    BY DEF All!Enter
  <1>2. numProbes \in 1 .. BatchSize /\ nextProbe < numProbes /\ BatchSize \in Nat /\ matches = <<>>
    BY <1>1, InVector DEF CommonInv, VectorInv, OutputInv
  <1>3. CommonInv'
    BY <1>1, <1>2, StepKeepsCommon DEF CommonInv, TypeInv
  <1>4. PairsOf(drawn)' = PairsOf(drawn)
    BY <1>1, VectorsStay
  <1>5. OpenAll' = OpenAll /\ Unreturned' = Unreturned
    BY <1>1, <1>4 DEF OpenAll, From, Unreturned, Pairs, Elements
  <1>6. Covered(missing, drawn, Unreturned, OpenAll) /\ IsAt(buildMatch, nextProbe)
    BY <1>1 DEF AllInv
  <1>7. Len(matches) < BatchSize
    BY <1>2
  <1>8. ~(nextProbe >= numProbes)
    BY <1>2 DEF CommonInv, TypeInv
  <1> QED
    BY <1>1, <1>3, <1>4, <1>5, <1>6, <1>7, <1>8 DEF AllInv, IsAt

\* The rest of the chain that the last call left.
LEMMA ContinueChainKeeps ==
  ASSUME CommonInv, AllInv, All!ContinueChain, UNCHANGED join
  PROVE  CommonInv' /\ AllInv'
  <1> DEFINE q == at
  <1> DEFINE b == All!Behind(q)
  <1>1. /\ pc = "continue" /\ q # All!End
        /\ UNCHANGED <<probeSel, input, drawn, nextProbe, numProbes, missing, i>>
    BY DEF All!ContinueChain
  <1>2. /\ nextProbe < numProbes /\ buildMatch # All!End /\ q \in PairsOf(drawn) /\ q[2] = nextProbe
        /\ Len(matches) < BatchSize /\ OpenAll = From(nextProbe, q)
        /\ Covered(missing, drawn, Pairs(matches), OpenAll)
    BY <1>1 DEF CommonInv, VectorInv, AllInv, IsAt, OpenAll, Unreturned
  <1>3. /\ matches' = IF SameHash(q) THEN Append(matches, Written(q, q[2])) ELSE matches
        /\ \/ /\ buildMatch' = b /\ pc' = "key" /\ SameHash(q) /\ Len(matches) + 1 = BatchSize
           \/ /\ at' = b /\ UNCHANGED <<buildMatch, pc>>
              /\ ~(SameHash(q) /\ Len(matches) + 1 = BatchSize)
    BY <1>2 DEF All!ContinueChain, All!SameHash, SameHash, All!Kind, Kind, All!Other, Other,
           All!Written, Written, All!Row, Row, All!NoSel, NoSel
  <1>4. /\ drawn \in 1 .. NrBatches /\ numProbes \in 1 .. BatchSize /\ BatchSize \in Nat /\ Len(matches) \in Nat
    BY <1>1, InVector
  <1>5. /\ IsAt(b, nextProbe) /\ \A p \in From(nextProbe, q) : p # q => p \in From(nextProbe, b)
    BY <1>1, <1>2, BehindIs
  <1>6. CommonInv'
    <2>1. nextProbe' \in 0 .. BatchSize /\ nextProbe' < numProbes /\ pc' \in {"key", "continue"}
      BY <1>1, <1>2, <1>3 DEF CommonInv, TypeInv
    <2>2. matches' = matches \/ \E p \in PairsOf(drawn) : matches' = Append(matches, Written(p, p[2])) /\ Len(matches) < BatchSize
      BY <1>2, <1>3
    <2> HIDE DEF q
    <2> QED
      BY <1>1, <2>1, <2>2, StepKeepsCommon
  <1>7. /\ PairsOf(drawn)' = PairsOf(drawn)
        /\ ~(nextProbe' >= numProbes')
    BY <1>1, <1>2, VectorsStay DEF CommonInv, TypeInv
  <1> HIDE DEF q, b
  <1>8. Covered(missing, drawn, Pairs(matches'), From(nextProbe, b))
    BY <1>2, <1>3, <1>4, <1>5, CoveredOn
  <1>9. CASE buildMatch' = b /\ pc' = "key"
    <2>1. \A p \in From(nextProbe, b) : p \in OpenAll'
      <3>1. CASE b = All!End
        <4>1. \A p \in PairsOf(drawn) : p[2] > nextProbe => p[2] >= nextProbe
          <5>1. Shape(PairsOf(drawn), drawn) /\ nextProbe \in Nat
            BY <1>1, InVector DEF CommonInv, TypeInv
          <5> QED
            BY <5>1 DEF Shape, Triples
        <4> QED
          BY <1>1, <1>7, <1>9, <3>1, <4>1 DEF OpenAll, From
      <3>2. CASE b # All!End
        BY <1>1, <1>7, <1>9, <3>2 DEF OpenAll, From
      <3> QED
        BY <3>1, <3>2
    <2>2. Covered(missing, drawn, Unreturned, OpenAll)'
      BY <1>1, <1>8, <1>9, <2>1 DEF Covered, Unreturned, Pairs, Elements
    <2>3. IsAt(buildMatch, nextProbe)'
      BY <1>1, <1>5, <1>7, <1>9 DEF IsAt
    <2> QED
      BY <1>6, <1>7, <1>9, <2>2, <2>3 DEF AllInv
  <1>10. CASE at' = b /\ UNCHANGED <<buildMatch, pc>> /\ ~(SameHash(q) /\ Len(matches) + 1 = BatchSize)
    <2>1. OpenAll' = From(nextProbe, b)
      BY <1>1, <1>2, <1>7, <1>10 DEF OpenAll, From
    <2>2. Unreturned' = Pairs(matches')
      BY <1>1, <1>10 DEF Unreturned, Pairs, Elements
    <2>3. Covered(missing, drawn, Unreturned, OpenAll)'
      BY <1>1, <1>8, <2>1, <2>2
    <2>4. IsAt(buildMatch, nextProbe)' /\ IsAt(at, nextProbe)'
      BY <1>1, <1>5, <1>7, <1>10 DEF AllInv, IsAt
    <2>5. Len(matches') < BatchSize
      <3>1. SameHash(q) => Len(matches') = Len(matches) + 1
        BY <1>3 DEF CommonInv, TypeInv
      <3>2. ~SameHash(q) => Len(matches') = Len(matches)
        BY <1>3
      <3> QED
        BY <1>2, <1>4, <1>10, <3>1, <3>2
    <2> QED
      BY <1>1, <1>2, <1>6, <1>7, <1>10, <2>3, <2>4, <2>5 DEF AllInv
  <1> QED
    BY <1>3, <1>9, <1>10

\* Behind the rest of the chain: the tuple counts as done if there was one.
LEMMA ContinuationDoneKeeps ==
  ASSUME CommonInv, AllInv, All!ContinuationDone, UNCHANGED join
  PROVE  CommonInv' /\ AllInv'
  <1> DEFINE t == IF buildMatch # All!End THEN nextProbe + 1 ELSE nextProbe
  <1> DEFINE f == IF t < numProbes THEN All!FirstOf(t) ELSE All!End
  <1>1. /\ pc = "continue" /\ at = All!End /\ nextProbe' = t /\ i' = t /\ at' = f /\ pc' = "chains"
        /\ UNCHANGED <<probeSel, input, drawn, numProbes, matches, missing, buildMatch>>
    BY DEF All!ContinuationDone
  <1>2. /\ nextProbe < numProbes /\ Len(matches) < BatchSize /\ Covered(missing, drawn, Unreturned, OpenAll)
    BY <1>1 DEF CommonInv, VectorInv, AllInv
  <1>3. /\ numProbes \in 1 .. BatchSize /\ BatchSize \in Nat /\ nextProbe \in Nat /\ Shape(PairsOf(drawn), drawn)
    BY <1>1, InVector DEF CommonInv, TypeInv
  <1>4. t \in 0 .. numProbes /\ t \in 0 .. BatchSize
    BY <1>2, <1>3
  <1>5. OpenAll = {p \in PairsOf(drawn) : p[2] >= t}
    <2>1. \A p \in PairsOf(drawn) : p[2] \in Nat
      BY <1>3 DEF Shape, Triples
    <2>2. CASE buildMatch = All!End
      BY <1>1, <2>2 DEF OpenAll
    <2>3. CASE buildMatch # All!End
      <3>1. \A p \in PairsOf(drawn) : p[2] > nextProbe <=> p[2] >= t
        BY <1>3, <2>1, <2>3
      <3>2. OpenAll = {p \in PairsOf(drawn) : p[2] > nextProbe}
        BY <1>1, <2>3 DEF OpenAll, From
      <3> HIDE DEF t
      <3> QED
        BY <3>1, <3>2
    <2> QED
      BY <2>2, <2>3
  <1> HIDE DEF t
  <1>6. /\ IsAt(f, t) /\ From(t, f) = {p \in PairsOf(drawn) : p[2] >= t} /\ (t = numProbes => f = All!End)
    <2> DEFINE g == f
    <2>1. g = IF t < numProbes THEN All!FirstOf(t) ELSE All!End
      OBVIOUS
    <2> HIDE DEF g
    <2>2. /\ IsAt(g, t) /\ From(t, g) = {p \in PairsOf(drawn) : p[2] >= t} /\ (t = numProbes => g = All!End)
      BY <1>1, <1>4, <2>1, FirstIs
    <2> QED
      BY <2>2 DEF g
  <1> HIDE DEF f
  <1>7. CommonInv'
    BY <1>1, <1>4, StepKeepsCommon
  <1>8. PairsOf(drawn)' = PairsOf(drawn)
    BY <1>1, VectorsStay
  <1>9. OpenAll' = OpenAll
    BY <1>1, <1>5, <1>6, <1>8 DEF OpenAll, From
  <1>10. Unreturned' = Unreturned
    BY <1>1 DEF Unreturned, Pairs, Elements
  <1>11. IsAt(at, i)'
    BY <1>1, <1>6, <1>8 DEF IsAt
  <1> QED
    BY <1>1, <1>2, <1>4, <1>6, <1>7, <1>9, <1>10, <1>11 DEF AllInv

\* The next entry of the chain of tuple i.
LEMMA FollowChainKeeps ==
  ASSUME CommonInv, AllInv, All!FollowChain, UNCHANGED join
  PROVE  CommonInv' /\ AllInv'
  <1> DEFINE q == at
  <1> DEFINE b == All!Behind(q)
  <1> DEFINE fills == SameHash(q) /\ Len(matches) + 1 = BatchSize /\ (b # All!End \/ i + 1 < numProbes)
  <1>1. /\ pc = "chains" /\ i < numProbes /\ q # All!End
        /\ UNCHANGED <<probeSel, input, drawn, numProbes, missing, i>>
    BY DEF All!FollowChain
  <1>2. /\ drawn \in 1 .. NrBatches /\ numProbes \in 1 .. BatchSize /\ BatchSize \in Nat /\ Len(matches) \in Nat
        /\ Shape(PairsOf(drawn), drawn)
    BY <1>1, InVector
  <1>3. /\ i \in 0 .. numProbes /\ i \in Nat /\ q \in PairsOf(drawn) /\ q[2] = i
        /\ Len(matches) < BatchSize /\ OpenAll = From(i, q)
        /\ Covered(missing, drawn, Pairs(matches), OpenAll)
    <2>1. i \in 0 .. numProbes /\ q \in PairsOf(drawn) /\ q[2] = i /\ Len(matches) < BatchSize
      BY <1>1 DEF AllInv, IsAt
    <2> QED
      BY <1>1, <2>1 DEF AllInv, OpenAll, Unreturned
  <1>4. /\ matches' = IF SameHash(q) THEN Append(matches, Written(q, q[2])) ELSE matches
        /\ IF fills THEN buildMatch' = b /\ nextProbe' = i /\ pc' = "key"
           ELSE at' = b /\ UNCHANGED <<buildMatch, nextProbe, pc>>
    BY <1>3 DEF All!FollowChain, All!SameHash, SameHash, All!Kind, Kind, All!Other, Other,
           All!Written, Written, All!Row, Row, All!NoSel, NoSel, All!BecomesFull
  <1>5. /\ IsAt(b, i) /\ \A p \in From(i, q) : p # q => p \in From(i, b)
    BY <1>1, <1>3, BehindIs
  <1>6. PairsOf(drawn)' = PairsOf(drawn)
    BY <1>1, VectorsStay
  <1> HIDE DEF q, b
  <1>7. CommonInv'
    <2>1. nextProbe' \in 0 .. BatchSize /\ pc' \in {"key", "chains"}
      BY <1>1, <1>2, <1>3, <1>4 DEF CommonInv, TypeInv
    <2>2. matches' = matches \/ \E p \in PairsOf(drawn) : matches' = Append(matches, Written(p, p[2])) /\ Len(matches) < BatchSize
      BY <1>3, <1>4
    <2> HIDE DEF fills
    <2> QED
      BY <1>1, <2>1, <2>2, StepKeepsCommon
  <1>8. Covered(missing, drawn, Pairs(matches'), From(i, b))
    BY <1>2, <1>3, <1>4, <1>5, CoveredOn
  <1>9. CASE fills
    <2>1. buildMatch' = b /\ nextProbe' = i /\ pc' = "key" /\ i' = i
      BY <1>1, <1>4, <1>9
    <2>2. \A p \in From(i, b) : p \in OpenAll'
      <3>1. CASE b = All!End
        <4>1. \A p \in PairsOf(drawn) : p[2] > i => p[2] >= i
          BY <1>2, <1>3 DEF Shape, Triples
        <4> QED
          BY <1>6, <2>1, <3>1, <4>1 DEF OpenAll, From
      <3>2. CASE b # All!End
        BY <1>6, <2>1, <3>2 DEF OpenAll, From
      <3> QED
        BY <3>1, <3>2
    <2>3. Covered(missing, drawn, Unreturned, OpenAll)'
      BY <1>1, <1>8, <2>1, <2>2 DEF Covered, Unreturned, Pairs, Elements
    <2>4. IsAt(buildMatch, nextProbe)'
      BY <1>5, <1>6, <2>1 DEF IsAt
    <2>5. ~(nextProbe' >= numProbes')
      BY <1>1, <1>2, <1>3, <2>1
    <2> HIDE DEF fills
    <2> QED
      BY <1>7, <2>1, <2>3, <2>4, <2>5 DEF AllInv
  <1>10. CASE ~fills
    <2>1. at' = b /\ UNCHANGED <<buildMatch, nextProbe, pc>>
      BY <1>4, <1>10
    <2>2. OpenAll' = From(i, b) /\ Unreturned' = Pairs(matches')
      BY <1>1, <1>6, <2>1 DEF OpenAll, From, Unreturned, Pairs, Elements
    <2>3. Covered(missing, drawn, Unreturned, OpenAll)'
      BY <1>1, <1>8, <2>2
    <2>4. IsAt(at, i)'
      BY <1>1, <1>5, <1>6, <2>1 DEF IsAt
    <2>5. Len(matches') < BatchSize \/ (b = All!End /\ i + 1 >= numProbes)
      <3>1. SameHash(q) => Len(matches') = Len(matches) + 1
        BY <1>4 DEF CommonInv, TypeInv
      <3>2. ~SameHash(q) => Len(matches') = Len(matches)
        BY <1>4
      <3>3. CASE Len(matches) + 1 = BatchSize /\ SameHash(q)
        BY <1>2, <1>3, <1>10, <3>3
      <3>4. CASE ~(Len(matches) + 1 = BatchSize /\ SameHash(q))
        BY <1>2, <1>3, <3>1, <3>2, <3>4
      <3> QED
        BY <3>3, <3>4
    <2>6. i # numProbes
      BY <1>1, <1>2, <1>3
    <2> HIDE DEF fills
    <2> QED
      BY <1>1, <1>3, <1>7, <2>1, <2>3, <2>4, <2>5, <2>6 DEF AllInv
  <1> QED
    BY <1>9, <1>10

\* The next tuple.
LEMMA NextTupleKeeps ==
  ASSUME CommonInv, AllInv, All!NextTuple, UNCHANGED join
  PROVE  CommonInv' /\ AllInv'
  <1> DEFINE t == i + 1
  <1> DEFINE f == IF t < numProbes THEN All!FirstOf(t) ELSE All!End
  <1>1. /\ pc = "chains" /\ pc' = "chains" /\ i < numProbes /\ at = All!End /\ i' = t /\ at' = f
        /\ UNCHANGED <<probeSel, input, drawn, nextProbe, numProbes, matches, missing, buildMatch>>
    BY DEF All!NextTuple
  <1>2. /\ numProbes \in 1 .. BatchSize /\ BatchSize \in Nat /\ Shape(PairsOf(drawn), drawn)
        /\ i \in Nat /\ t \in 0 .. numProbes /\ Len(matches) \in Nat
    <2>1. i \in 0 .. numProbes
      BY <1>1 DEF AllInv
    <2>2. numProbes \in 1 .. BatchSize /\ BatchSize \in Nat /\ Shape(PairsOf(drawn), drawn) /\ Len(matches) \in Nat
      BY <1>1, InVector
    <2> QED
      BY <1>1, <2>1, <2>2
  <1>3. OpenAll = {p \in PairsOf(drawn) : p[2] >= t}
    <2>1. \A p \in PairsOf(drawn) : p[2] > i <=> p[2] >= t
      BY <1>2 DEF Shape, Triples
    <2>2. OpenAll = {p \in PairsOf(drawn) : p[2] > i}
      BY <1>1 DEF OpenAll, From
    <2> HIDE DEF t
    <2> QED
      BY <2>1, <2>2
  <1>4. Len(matches) < BatchSize \/ t >= numProbes
    BY <1>1 DEF AllInv
  <1>5. t >= numProbes => t + 1 >= numProbes /\ t = numProbes
    BY <1>2
  <1> HIDE DEF t
  <1>6. /\ IsAt(f, t) /\ From(t, f) = {p \in PairsOf(drawn) : p[2] >= t} /\ (t = numProbes => f = All!End)
    <2> DEFINE g == f
    <2>1. g = IF t < numProbes THEN All!FirstOf(t) ELSE All!End
      OBVIOUS
    <2> HIDE DEF g
    <2>2. /\ IsAt(g, t) /\ From(t, g) = {p \in PairsOf(drawn) : p[2] >= t} /\ (t = numProbes => g = All!End)
      BY <1>1, <1>2, <2>1, FirstIs
    <2> QED
      BY <2>2 DEF g
  <1> HIDE DEF f
  <1>7. CommonInv'
    <2>1. nextProbe' \in 0 .. BatchSize
      BY <1>1 DEF CommonInv, TypeInv
    <2> QED
      BY <1>1, <2>1, StepKeepsCommon
  <1>8. PairsOf(drawn)' = PairsOf(drawn)
    BY <1>1, VectorsStay
  <1>9. OpenAll' = OpenAll /\ Unreturned' = Unreturned
    BY <1>1, <1>3, <1>6, <1>8 DEF OpenAll, From, Unreturned, Pairs, Elements
  <1>10. IsAt(at, i)'
    BY <1>1, <1>6, <1>8 DEF IsAt
  <1>11. Covered(missing, drawn, Unreturned, OpenAll)'
    BY <1>1, <1>9 DEF AllInv
  <1>12. Len(matches') < BatchSize \/ (at' = All!End /\ i' + 1 >= numProbes')
    BY <1>1, <1>4, <1>5, <1>6
  <1> QED
    BY <1>1, <1>2, <1>6, <1>7, <1>10, <1>11, <1>12 DEF AllInv

\* Behind the loop over the tuples.
LEMMA AllAllFollowedKeeps ==
  ASSUME CommonInv, AllInv, All!AllFollowed, UNCHANGED join
  PROVE  CommonInv' /\ AllInv'
  <1>1. /\ pc = "chains" /\ i >= numProbes /\ buildMatch' = All!End /\ nextProbe' = numProbes /\ pc' = "key"
        /\ UNCHANGED <<probeSel, input, drawn, numProbes, matches, missing, at, i>>
    BY DEF All!AllFollowed
  <1>2. /\ numProbes \in 1 .. BatchSize /\ BatchSize \in Nat /\ Shape(PairsOf(drawn), drawn)
    BY <1>1, InVector
  <1>3. i = numProbes /\ at = All!End /\ numProbes \in 0 .. BatchSize
    <2>1. i \in 0 .. numProbes
      BY <1>1 DEF AllInv
    <2>2. i = numProbes /\ numProbes \in 0 .. BatchSize
      BY <1>1, <1>2, <2>1
    <2> QED
      BY <1>1, <2>2 DEF AllInv
  <1>4. CommonInv'
    BY <1>1, <1>3, StepKeepsCommon
  <1>5. PairsOf(drawn)' = PairsOf(drawn)
    BY <1>1, VectorsStay
  <1>6. \A p \in OpenAll : p \in OpenAll'
    <2>1. \A p \in PairsOf(drawn) : p[2] > numProbes => p[2] >= numProbes
      BY <1>2 DEF Shape, Triples
    <2>2. OpenAll = {p \in PairsOf(drawn) : p[2] > numProbes}
      BY <1>1, <1>3 DEF OpenAll, From
    <2>3. OpenAll' = {p \in PairsOf(drawn) : p[2] >= numProbes}
      BY <1>1, <1>5 DEF OpenAll, From
    <2> QED
      BY <2>1, <2>2, <2>3
  <1>7. Unreturned' = Unreturned
    BY <1>1 DEF Unreturned, Pairs, Elements
  <1>8. Covered(missing, drawn, Unreturned, OpenAll)'
    BY <1>1, <1>6, <1>7 DEF AllInv, Covered
  <1> QED
    BY <1>1, <1>4, <1>8 DEF AllInv, IsAt

-----------------------------------------------------------------------------
\* The probe side's own steps, around joinAll.  A vector that is through has no open pair.
LEMMA NothingOpenAll ==
  ASSUME CommonInv, AllInv, pc = "next", nextProbe >= numProbes
  PROVE  buildMatch = All!End /\ \A p \in missing : p[1] > drawn
  <1>1. buildMatch = All!End
    BY DEF AllInv
  <1>2. OpenAll = {p \in PairsOf(drawn) : p[2] >= nextProbe}
    BY <1>1 DEF OpenAll
  <1>3. Unreturned = {} /\ Covered(missing, drawn, Unreturned, OpenAll)
    BY DEF AllInv, CommonInv, OutputInv, Unreturned, Pairs, Elements
  <1>4. OpenAll = {}
    <2>1. CASE drawn = 0
      BY <1>2, <2>1, NoPairsBefore
    <2>2. CASE drawn # 0
      <3>1. drawn \in 1 .. NrBatches /\ numProbes = Len(input[drawn])
        BY <2>2, NrBatchesAssumption DEF CommonInv, TypeInv, VectorInv
      <3>2. \A p \in PairsOf(drawn) : p[2] < numProbes /\ p[2] \in Nat
        BY <3>1, PairsAre DEF CommonInv, TypeInv, Triples
      <3>3. nextProbe \in Nat /\ numProbes \in Nat
        BY DEF CommonInv, TypeInv
      <3> QED
        BY <1>2, <3>2, <3>3
    <2> QED
      BY <2>1, <2>2
  <1> QED
    BY <1>1, <1>3, <1>4 DEF Covered

\* A new vector: no tuple has been begun.
LEMMA AllDraw ==
  ASSUME CommonInv, AllInv, DrawVector, UNCHANGED <<join, buildMatch, at, i>>
  PROVE  CommonInv' /\ AllInv'
  <1>1. /\ pc = "next" /\ nextProbe >= numProbes /\ drawn < NrBatches /\ drawn' = drawn + 1 /\ pc' = "join"
        /\ nextProbe' = 0 /\ numProbes' = Len(input[drawn + 1])
        /\ UNCHANGED <<probeSel, input, matches, missing>>
    BY DEF DrawVector
  <1>2. CommonInv'
    BY DrawKeepsCommon
  <1>3. buildMatch = All!End /\ \A p \in missing : p[1] > drawn
    BY <1>1, NothingOpenAll
  <1>4. PairsOf(drawn)' = PairsOf(drawn + 1)
    BY <1>1 DEF PairsOf
  <1>5. ASSUME NEW p \in missing
        PROVE  p[1] > drawn + 1 \/ p \in OpenAll'
    <2>1. p \in JoinResult
      BY DEF CommonInv, TypeInv
    <2>2. PICK b \in 1 .. NrBatches : p \in PairsOf(b)
      BY <2>1, ResultIs DEF CommonInv, TypeInv
    <2>3. p[1] = b /\ b \in Nat /\ drawn \in Nat /\ p[2] \in Nat /\ p[1] > drawn
      BY <1>3, <2>2, PairsAre, NrBatchesAssumption DEF CommonInv, TypeInv, Triples
    <2>4. CASE b = drawn + 1
      <3>1. OpenAll' = {r \in PairsOf(drawn + 1) : r[2] >= 0}
        BY <1>1, <1>3, <1>4 DEF OpenAll
      <3> QED
        BY <2>2, <2>3, <2>4, <3>1
    <2>5. CASE b # drawn + 1
      BY <2>3, <2>5
    <2> QED
      BY <2>4, <2>5
  <1>6. Covered(missing, drawn, Unreturned, OpenAll)'
    BY <1>1, <1>5 DEF Covered
  <1> QED
    BY <1>1, <1>2, <1>3, <1>6 DEF AllInv, IsAt

\* The end of the stream.
LEMMA AllEnd ==
  ASSUME CommonInv, AllInv, EndOfStream, UNCHANGED <<join, buildMatch, at, i>>
  PROVE  CommonInv' /\ AllInv' /\ missing = {}
  <1>1. /\ pc = "next" /\ nextProbe >= numProbes /\ drawn = NrBatches /\ pc' = "end"
        /\ UNCHANGED <<probeSel, input, drawn, matches, missing>>
    BY DEF EndOfStream
  <1>2. buildMatch = All!End /\ \A p \in missing : p[1] > drawn
    BY <1>1, NothingOpenAll
  <1>3. missing = {}
    <2> SUFFICES ASSUME NEW p \in missing PROVE FALSE
      OBVIOUS
    <2>1. p \in JoinResult
      BY DEF CommonInv, TypeInv
    <2>2. PICK b \in 1 .. NrBatches : p \in PairsOf(b)
      BY <2>1, ResultIs DEF CommonInv, TypeInv
    <2>3. p[1] = b /\ p[1] > NrBatches
      BY <1>1, <1>2, <2>2, PairsAre DEF CommonInv, TypeInv
    <2> QED
      BY <2>3, NrBatchesAssumption
  <1>4. CommonInv'
    BY <1>3, EndKeepsCommon
  <1> QED
    BY <1>1, <1>2, <1>3, <1>4 DEF AllInv

\* The call of join goes on with the chain that was put aside.
LEMMA AllResume ==
  ASSUME CommonInv, AllInv, Resume, UNCHANGED <<join, buildMatch, at, i>>
  PROVE  CommonInv' /\ AllInv'
  <1>1. /\ pc = "next" /\ nextProbe < numProbes /\ pc' = "join"
        /\ UNCHANGED <<probeSel, input, drawn, nextProbe, numProbes, matches, missing>>
    BY DEF Resume
  <1>2. CommonInv'
    BY ResumeKeepsCommon
  <1>3. PairsOf(drawn)' = PairsOf(drawn)
    BY <1>1, VectorsStay
  <1>4. OpenAll' = OpenAll /\ Unreturned' = Unreturned
    BY <1>1, <1>3 DEF OpenAll, From, Unreturned, Pairs, Elements
  <1> QED
    BY <1>1, <1>2, <1>3, <1>4 DEF AllInv, IsAt

\* keyEquality does not touch it, and what it drops is not missing.
LEMMA AllKey ==
  ASSUME CommonInv, AllInv, KeyEquality, UNCHANGED <<join, buildMatch, at, i>>
  PROVE  CommonInv' /\ AllInv'
  <1>1. /\ pc = "key" /\ pc' \in {"next", "return"}
        /\ UNCHANGED <<probeSel, input, drawn, nextProbe, numProbes>>
    BY DEF KeyEquality
  <1>2. /\ CommonInv' /\ Pairs(matches') = Pairs(matches) \cap JoinResult
        /\ missing' = missing \ Pairs(matches')
    BY KeyEqualityKeepsCommon
  <1>3. PairsOf(drawn)' = PairsOf(drawn)
    BY <1>1, VectorsStay
  <1>4. OpenAll' = OpenAll
    BY <1>1, <1>3 DEF OpenAll, From
  <1>5. Covered(missing, drawn, Pairs(matches), OpenAll) /\ missing \subseteq JoinResult
    BY <1>1 DEF AllInv, Unreturned, CommonInv, TypeInv
  <1>6. Covered(missing, drawn, Unreturned, OpenAll)'
    BY <1>1, <1>2, <1>4, <1>5 DEF Covered
  <1> QED
    BY <1>1, <1>2, <1>3, <1>6 DEF AllInv, IsAt

\* Nor does the operator above.
LEMMA AllCall ==
  ASSUME CommonInv, AllInv, CallNext, UNCHANGED <<join, buildMatch, at, i>>
  PROVE  CommonInv' /\ AllInv'
  <1>1. /\ pc = "return" /\ pc' = "next" /\ matches' = <<>>
        /\ UNCHANGED <<probeSel, input, drawn, nextProbe, numProbes, missing>>
    BY DEF CallNext
  <1>2. CommonInv'
    BY CallNextKeepsCommon
  <1>3. PairsOf(drawn)' = PairsOf(drawn)
    BY <1>1, VectorsStay
  <1>4. OpenAll' = OpenAll /\ Unreturned = {}
    BY <1>1, <1>3 DEF OpenAll, From, Unreturned
  <1>5. Covered(missing, drawn, Unreturned, OpenAll)'
    BY <1>1, <1>4 DEF AllInv, Covered
  <1> QED
    BY <1>1, <1>2, <1>3, <1>5 DEF AllInv, IsAt

\* Behind the end of the stream nothing changes.
LEMMA AllStays ==
  ASSUME AllInv, UNCHANGED <<probeVars, buildMatch, at, i>>
  PROVE  AllInv'
  <1>1. UNCHANGED <<input, drawn, nextProbe, numProbes, probeSel, matches, pc, missing>>
    BY DEF probeVars
  <1>2. PairsOf(drawn)' = PairsOf(drawn)
    BY <1>1, VectorsStay
  <1>3. OpenAll' = OpenAll /\ Unreturned' = Unreturned
    BY <1>1, <1>2 DEF OpenAll, From, Unreturned, Pairs, Elements
  <1> QED
    BY <1>1, <1>2, <1>3 DEF AllInv, IsAt

\* The steps of joinAll and joinSel.
LEMMA AllKeeps ==
  ASSUME CommonInv, AllInv, All!Next, UNCHANGED join
  PROVE  CommonInv' /\ AllInv'
  <1>1. CASE All!Enter
    BY <1>1, AllEnterKeeps
  <1>2. CASE All!ContinueChain
    BY <1>2, ContinueChainKeeps
  <1>3. CASE All!ContinuationDone
    BY <1>3, ContinuationDoneKeeps
  <1>4. CASE All!FollowChain
    BY <1>4, FollowChainKeeps
  <1>5. CASE All!NextTuple
    BY <1>5, NextTupleKeeps
  <1>6. CASE All!AllFollowed
    BY <1>6, AllAllFollowedKeeps
  <1>7. CASE /\ All!DrawVector \/ All!EndOfStream \/ All!Resume \/ All!KeyEquality
             /\ UNCHANGED <<buildMatch, at, i, returned, calls>>
    BY <1>7, SameProbeSide, AllDraw, AllEnd, AllResume, AllKey
  <1>8. CASE All!Return
    <2>1. CallNext /\ UNCHANGED <<buildMatch, at, i>>
      BY <1>8, SameProbeSide DEF All!Return
    <2> QED
      BY <2>1, AllCall
  <1>9. CASE All!Terminated
    <2>1. UNCHANGED <<probeVars, buildMatch, at, i>>
      BY <1>9 DEF All!Terminated, All!vars, All!probeVars, probeVars
    <2> QED
      BY <2>1, CommonStays, AllStays
  <1> QED
    BY <1>1, <1>2, <1>3, <1>4, <1>5, <1>6, <1>7, <1>8, <1>9 DEF All!Next, All!Join

-----------------------------------------------------------------------------
\* Every step, of whichever algorithm, preserves the invariant.
LEMMA NextKeepsIInv == IInv /\ [Next]_vars => IInv'
  <1> SUFFICES ASSUME IInv, [Next]_vars
               PROVE  IInv'
    OBVIOUS
  <1> DEFINE rings == {"joinAllParallel", "joinSelParallel", "joinAllSIMD", "joinSelSIMD"}
  <1>1. ASSUME join \in chainByChain, RunAll, UNCHANGED join
        PROVE  IInv'
    <2>1. All!Next /\ CommonInv /\ AllInv
      BY <1>1 DEF RunAll, IInv
    <2>2. CommonInv' /\ AllInv'
      BY <1>1, <2>1, AllKeeps
    <2> QED
      BY <1>1, <2>2 DEF IInv, chainByChain
  <1>2. ASSUME join \in {"joinAllParallel", "joinSelParallel"}, RunParallel, UNCHANGED join
        PROVE  IInv'
    <2>1. Parallel!Next /\ CommonInv /\ RingInv
      BY <1>2 DEF RunParallel, IInv
    <2>2. CommonInv' /\ RingInv'
      BY <1>2, <2>1, ParallelKeeps
    <2> QED
      BY <1>2, <2>2 DEF IInv, chainByChain
  <1>3. ASSUME join \in {"joinAllSIMD", "joinSelSIMD"}, RunSIMD, UNCHANGED join
        PROVE  IInv'
    <2>1. SIMD!NextSIMD /\ CommonInv /\ RingInv
      BY <1>3 DEF RunSIMD, IInv
    <2>2. CommonInv' /\ RingInv'
      BY <1>3, <2>1, SIMDKeeps
    <2> QED
      BY <1>3, <2>2 DEF IInv, chainByChain
  <1>4. ASSUME joinBoncz, UNCHANGED join
        PROVE  IInv'
    <2>1. Boncz!Next /\ CommonInv /\ BonczInv /\ join = "joinBoncz"
      BY <1>4 DEF joinBoncz, IInv
    <2>2. CommonInv' /\ BonczInv'
      BY <1>4, <2>1, BonczKeeps
    <2> QED
      BY <1>4, <2>1, <2>2 DEF IInv, chainByChain
  <1>5. ASSUME UNCHANGED vars
        PROVE  IInv'
    <2>1. /\ UNCHANGED <<probeVars, join, ring, contFollowup, contWrite, followup, followupWrite, i>>
          /\ UNCHANGED <<left, full, followups, e, k, buildMatch, at>>
      BY <1>5 DEF vars, ofAll, ofParallel, ofBoncz
    <2>2. CommonInv'
      BY <2>1, CommonStays DEF IInv
    <2>3. AllInv => AllInv'
      BY <2>1, AllStays
    <2>4. RingInv => RingInv'
      BY <2>1, RingStays
    <2>5. BonczInv => BonczInv'
      BY <2>1, BonczStays
    <2> QED
      BY <2>1, <2>2, <2>3, <2>4, <2>5 DEF IInv
  <1> QED
    BY <1>1, <1>2, <1>3, <1>4, <1>5
    DEF Next, joinAll, joinSel, joinAllParallel, joinSelParallel, joinAllSIMD, joinSelSIMD, chainByChain

\* The invariant of the whole operator, whichever algorithm `join` points to: at
\* every location the missing pairs are those that are open, in the output or of
\* a later vector.
THEOREM HashjoinInvariant == Spec => []IInv
  <1>1. IInv /\ [Next]_vars => IInv'
    BY NextKeepsIInv
  <1> QED
    BY <1>1, InitIInv, PTL DEF Spec

\* No algorithm writes behind the end of buildMatches and probeMatches, whatever
\* the vectors, the chains and the number of lanes.
THEOREM HashjoinOutputFits == Spec => []OutputFits
  <1>1. IInv => OutputFits
    BY DEF IInv, CommonInv, OutputInv, OutputFits
  <1> QED
    BY <1>1, HashjoinInvariant, PTL

\* No algorithm, joinAll included, returns EndOfStream while a pair is missing.
THEOREM HashjoinNothingMissing == Spec => []NothingMissing
  <1>1. IInv => NothingMissing
    BY DEF IInv, CommonInv, VectorInv, NothingMissing
  <1> QED
    BY <1>1, HashjoinInvariant, PTL

\* A cell that is in use is at some distance behind the one that is read next.
LEMMA CellWaits ==
  ASSUME followup \in Ring, followupWrite \in Ring, NEW c \in Used(followup, followupWrite)
  PROVE  ring[c] \in Parallel!Waiting
  <1> DEFINE d == IF followup <= c THEN c - followup ELSE c - followup + (BatchSize + 1)
  <1>1. BatchSize \in Nat /\ followup \in Nat /\ followup <= BatchSize /\ c \in Nat /\ c <= BatchSize
        /\ followupWrite \in Nat /\ followupWrite <= BatchSize
    BY BatchSizeAssumption DEF Ring, Used
  <1>2. d \in 0 .. NrUsed(followup, followupWrite) - 1
    BY <1>1 DEF Used, NrUsed
  <1>3. (followup + d) % (BatchSize + 1) = c
    <2>1. CASE followup <= c
      <3>1. followup + d = c
        BY <1>1, <2>1
      <3>2. c % (BatchSize + 1) = c
        BY <1>1
      <3> HIDE DEF d
      <3> QED
        BY <3>1, <3>2
    <2>2. CASE ~(followup <= c)
      <3>1. followup + d = c + (BatchSize + 1)
        BY <1>1, <2>2
      <3>2. (c + (BatchSize + 1)) % (BatchSize + 1) = c
        BY <1>1
      <3> HIDE DEF d
      <3> QED
        BY <3>1, <3>2
    <2> QED
      BY <2>1, <2>2
  <1> HIDE DEF d
  <1>4. d \in 0 .. Parallel!nrFollowups - 1
    BY <1>2, FollowupsAre
  <1> QED
    BY <1>3, <1>4 DEF Parallel!Waiting, Parallel!followupBufferSize

\* What the invariant says of the ring when all tuples of the vector are begun.
LEMMA NoneForgotten ==
  ASSUME IInv, join \notin chainByChain, join # "joinBoncz"
  PROVE  Parallel!NoChainLost
  <1> SUFFICES ASSUME pc \in {"while", "round"}, NEW p \in missing,
                      p \notin Pairs(matches), ~(p[1] > drawn)
               PROVE  \E q \in Parallel!Waiting : q[1] = p[1] /\ q[2] = p[2] /\ q[3] <= p[3]
    BY DEF Parallel!NoChainLost, Parallel!Pairs, Parallel!Elements, Pairs, Elements
  <1>1. CommonInv /\ RingInv
    BY DEF IInv, CommonInv, TypeInv, chainByChain
  <1>2. /\ Shape(PairsOf(drawn), drawn) /\ numProbes = Len(input[drawn]) /\ numProbes \in 1 .. BatchSize
        /\ drawn \in 1 .. NrBatches /\ input \in [1 .. NrBatches -> Vectors] /\ BatchSize \in Nat
    BY <1>1, InVector
  <1>3. /\ Cells = Used(followup, followupWrite) /\ Fresh = BatchSize /\ Unreturned = Pairs(matches)
        /\ followup \in Ring /\ followupWrite \in Ring
    BY <1>1 DEF Cells, Fresh, following, Unreturned, RingInv, RingType, Ring
  <1>4. p \in JoinResult
    BY <1>1 DEF CommonInv, TypeInv
  <1>5. /\ Apart(PairsOf(drawn), ring, Cells, Fresh)
        /\ Accounted(JoinResult, missing, drawn, Pairs(matches), Open(PairsOf(drawn), ring, Cells, Fresh))
    BY <1>1, <1>3 DEF RingInv, RingOpen
  <1>6. p \in Open(PairsOf(drawn), ring, Cells, Fresh)
    BY <1>4, <1>5 DEF Accounted
  <1>7. p \in PairsOf(drawn) /\ (p[2] >= BatchSize \/ \E c \in Cells : p[2] = ring[c][2] /\ p[3] >= ring[c][3])
    BY <1>3, <1>6 DEF Open
  <1>8. p[2] < BatchSize /\ p[2] \in Nat /\ p[3] \in Nat /\ p[1] = drawn
    BY <1>2, <1>7, PairsAre DEF Triples
  <1>9. PICK c \in Cells : p[2] = ring[c][2] /\ p[3] >= ring[c][3]
    BY <1>2, <1>7, <1>8
  <1>10. ring[c] \in PairsOf(drawn)
    BY <1>5 DEF Apart
  <1>11. ring[c][1] = drawn /\ ring[c][3] \in Nat
    BY <1>2, <1>10, PairsAre DEF Triples
  <1>12. ring[c] \in Parallel!Waiting
    BY <1>3, CellWaits
  <1> QED
    BY <1>8, <1>9, <1>11, <1>12

\* The free cell of the ring is enough: while the rests of chains are followed, a
\* pair that is missing is in the output, or waits in the ring, or is of a later
\* vector, for joinAllParallel, joinAllSIMD and their Sel forms.
THEOREM HashjoinNoChainLost == Spec => []NoChainLost
  <1>1. IInv => NoChainLost
    BY NoneForgotten DEF NoChainLost
  <1> QED
    BY <1>1, HashjoinInvariant, PTL

-----------------------------------------------------------------------------
\* What keyEquality keeps has been missing, and is now no longer.
LEMMA KeyTakes ==
  ASSUME CommonInv, KeyEquality, UNCHANGED join,
         NEW open, Accounted(JoinResult, missing, drawn, Pairs(matches), open)
  PROVE  /\ Pairs(matches') \subseteq missing
         /\ missing' = missing \ Pairs(matches')
         /\ pc' = "return" => Pairs(matches') # {}
         /\ pc' # "return" => Pairs(matches') = {}
  <1>1. /\ Pairs(matches') = Pairs(matches) \cap JoinResult
        /\ missing' = missing \ Pairs(matches')
        /\ CommonInv'
    BY KeyEqualityKeepsCommon
  <1>2. Pairs(matches') \subseteq missing
    BY <1>1 DEF Accounted
  <1>3. /\ pc' = "next" <=> matches' = <<>>
        /\ pc' # "next" => pc' = "return"
    BY DEF KeyEquality
  <1>4. matches' = <<>> => Pairs(matches') = {}
    BY DEF Pairs, Elements
  <1>5. matches' # <<>> => Pairs(matches') # {}
    <2> SUFFICES ASSUME matches' # <<>>
                 PROVE  Pairs(matches') # {}
      OBVIOUS
    <2>1. matches' \in Seq(Cells0)
      BY <1>1 DEF CommonInv, TypeInv, Cells0
    <2>2. 1 \in DOMAIN matches'
      BY <2>1
    <2>3. matches'[1].build \in Pairs(matches')
      BY <2>2 DEF Pairs, Elements
    <2> QED
      BY <2>3
  <1> QED
    BY <1>1, <1>2, <1>3, <1>4, <1>5

\* Some store has what is open, whichever algorithm it is but joinAll.
LEMMA SomeOpen ==
  ASSUME IInv, join \notin chainByChain, pc = "key"
  PROVE  \E open : Accounted(JoinResult, missing, drawn, Pairs(matches), open)
  <1>1. CASE join = "joinBoncz"
    BY <1>1 DEF IInv, BonczInv, BonczOpen, Unreturned
  <1>2. CASE join # "joinBoncz"
    <2>1. RingInv
      BY <1>2 DEF IInv, CommonInv, TypeInv, chainByChain
    <2> QED
      BY <2>1 DEF RingInv, RingOpen, Unreturned
  <1> QED
    BY <1>1, <1>2

\* The steps that nobody sees who only calls next().
Inside ==
  /\ UNCHANGED missing
  /\ \/ pc \notin {"return", "end"} /\ pc' \notin {"return", "end"}
     \/ UNCHANGED <<pc, matches>>

\* The steps of the algorithms, and those around them.
LEMMA RingStepIs ==
  ASSUME \/ Parallel!Next \/ SIMD!NextSIMD
  PROVE  \/ KeyEquality \/ CallNext \/ Inside
         \/ /\ EndOfStream
            /\ UNCHANGED <<ring, contFollowup, contWrite, followup, followupWrite, i, left, full>>
  <1>1. CASE Parallel!Join \/ SIMD!JoinSIMD
    <2>1. \/ Parallel!Enter \/ Parallel!FirstEntry \/ Parallel!FirstDone \/ Parallel!Wrap
          \/ Parallel!BeginRound \/ Parallel!FollowEntry \/ Parallel!EndRound \/ Parallel!AllFollowed
          \/ SIMD!FirstBlock
      BY <1>1, SharedSteps DEF Parallel!Join, SIMD!JoinSIMD
    <2> QED
      BY <2>1 DEF Inside, Parallel!Enter, Parallel!FirstEntry, Parallel!FirstDone, Parallel!Wrap,
                  Parallel!BeginRound, Parallel!FollowEntry, Parallel!EndRound, Parallel!AllFollowed,
                  SIMD!FirstBlock
  <1>2. CASE /\ Parallel!ProbeNext \/ SIMD!ProbeNext
             /\ UNCHANGED <<ring, contFollowup, contWrite, followup, followupWrite, i, left, full>>
    BY <1>2, SameProbeSide DEF ProbeNext, DrawVector, Resume, Inside
  <1>3. CASE Parallel!Terminated \/ SIMD!Terminated
    BY <1>3 DEF Parallel!Terminated, SIMD!Terminated, Parallel!vars, SIMD!vars,
                Parallel!probeVars, SIMD!probeVars, Inside
  <1> QED
    BY <1>1, <1>2, <1>3 DEF Parallel!Next, SIMD!NextSIMD, Parallel!ringVars, SIMD!ringVars,
                            Parallel!loops, SIMD!loops

\* The same of joinBoncz.
LEMMA BonczStepIs ==
  ASSUME Boncz!Next
  PROVE  \/ KeyEquality \/ CallNext \/ Inside
         \/ EndOfStream /\ UNCHANGED <<followups, contWrite, followupWrite, e, k>>
  <1>1. CASE Boncz!Join
    BY <1>1 DEF Inside, Boncz!Join, Boncz!Enter, Boncz!FindChain, Boncz!FirstDone, Boncz!BeginRound,
                Boncz!FollowEntry, Boncz!EndRound, Boncz!NothingFound
  <1>2. CASE Boncz!ProbeNext /\ UNCHANGED <<followups, contWrite, followupWrite, e, k>>
    BY <1>2, SameProbeSide DEF ProbeNext, DrawVector, Resume, Inside
  <1>3. CASE Boncz!Terminated
    BY <1>3 DEF Boncz!Terminated, Boncz!vars, Boncz!probeVars, Inside
  <1> QED
    BY <1>1, <1>2, <1>3 DEF Boncz!Next, Boncz!loops

\* A step of an algorithm other than joinAll, and what is missing at the end.
LEMMA StepIs ==
  ASSUME IInv, [Next]_vars, join \notin chainByChain
  PROVE  KeyEquality \/ CallNext \/ Inside \/ (EndOfStream /\ missing = {})
  <1>1. CASE UNCHANGED vars
    BY <1>1 DEF vars, probeVars, Inside
  <1>2. CASE joinBoncz /\ UNCHANGED join
    <2>1. Boncz!Next /\ CommonInv /\ BonczInv
      BY <1>2 DEF joinBoncz, IInv
    <2> QED
      BY <1>2, <2>1, BonczStepIs, BonczEnd
  <1>3. CASE /\ join # "joinBoncz" /\ UNCHANGED join
             /\ Parallel!Next \/ SIMD!NextSIMD
    <2>1. CommonInv /\ RingInv
      BY <1>3 DEF IInv, CommonInv, TypeInv, chainByChain
    <2> QED
      BY <1>3, <2>1, RingStepIs, RingEnd
  <1> QED
    BY <1>1, <1>2, <1>3
    DEF Next, joinAll, joinSel, joinAllParallel, joinSelParallel, joinAllSIMD, joinSelSIMD,
        RunParallel, RunSIMD, joinBoncz, chainByChain

\* All algorithms but joinAll and joinSel implement the handing out of the join
\* result: every call of next() returns pairs that have not been returned before,
\* each with the row of its tuple, and the stream ends when all are returned.
THEOREM HashjoinImplements == Spec => Implements
  <1> DEFINE holds == [w \in {"join"} |-> IF pc = "return" THEN Pairs(matches) ELSE {}]
  <1> DEFINE ended == IF pc = "end" THEN {"join"} ELSE {}
  <1>1. Init => Result!Init
    BY DEF Init, Parallel!Init, Parallel!ProbeInit, Result!Init
  <1>2. IInv /\ [Next]_vars => [(join \in chainByChain) \/ Result!Next]_(Result!vars)
    <2> SUFFICES ASSUME IInv, [Next]_vars, join \notin chainByChain
                 PROVE  Result!Next \/ UNCHANGED <<missing, holds, ended>>
      BY DEF Result!vars
    <2>1. CASE KeyEquality
      <3>1. UNCHANGED join
        BY DEF Next, vars
      <3>2. PICK open : Accounted(JoinResult, missing, drawn, Pairs(matches), open)
        BY <2>1, SomeOpen DEF KeyEquality
      <3>3. /\ Pairs(matches') \subseteq missing /\ missing' = missing \ Pairs(matches')
            /\ pc' = "return" => Pairs(matches') # {}
            /\ pc' # "return" => Pairs(matches') = {}
        BY <2>1, <3>1, <3>2, KeyTakes DEF IInv
      <3>4. pc = "key" /\ pc' \in {"next", "return"}
        BY <2>1 DEF KeyEquality
      <3>5. /\ holds = [w \in {"join"} |-> {}] /\ ended = {} /\ ended' = {}
            /\ holds' = [w \in {"join"} |-> IF pc' = "return" THEN Pairs(matches') ELSE {}]
        BY <3>4 DEF Pairs, Elements
      <3>6. CASE pc' = "next"
        <4>1. holds' = holds /\ missing' = missing
          BY <3>3, <3>5, <3>6
        <4> QED
          BY <3>5, <4>1
      <3>7. CASE pc' = "return"
        <4>1. holds' = [holds EXCEPT !["join"] = holds'["join"]] /\ holds'["join"] = Pairs(matches')
          BY <3>5, <3>7
        <4>2. holds["join"] = {}
          BY <3>5
        <4>3. Result!Take("join")
          <5> HIDE DEF holds, ended
          <5> QED
            BY <3>3, <3>5, <3>7, <4>1, <4>2 DEF Result!Take, holds, ended
        <4> QED
          BY <4>3 DEF Result!Next
      <3> QED
        BY <3>4, <3>6, <3>7
    <2>2. CASE CallNext
      <3>1. pc = "return" /\ pc' = "next" /\ missing' = missing
        BY <2>2 DEF CallNext
      <3>2. /\ holds = [w \in {"join"} |-> Pairs(matches)] /\ holds' = [w \in {"join"} |-> {}]
            /\ ended' = ended
        BY <3>1
      <3>3. CASE Pairs(matches) = {}
        BY <3>1, <3>2, <3>3
      <3>4. CASE Pairs(matches) # {}
        <4>1. holds' = [holds EXCEPT !["join"] = {}] /\ holds["join"] # {}
          BY <3>2, <3>4
        <4>2. Result!Release("join")
          BY <3>1, <3>2, <4>1 DEF Result!Release
        <4> QED
          BY <4>2 DEF Result!Next
      <3> QED
        BY <3>3, <3>4
    <2>3. CASE Inside
      BY <2>3 DEF Inside, Pairs, Elements
    <2>4. CASE EndOfStream /\ missing = {}
      <3>1. pc = "next" /\ pc' = "end" /\ missing' = missing
        BY <2>4 DEF EndOfStream
      <3>2. /\ holds = [w \in {"join"} |-> {}] /\ holds' = holds
            /\ ended = {} /\ ended' = {"join"}
        BY <3>1
      <3>3. Result!Finish("join")
        BY <2>4, <3>1, <3>2 DEF Result!Finish
      <3> QED
        BY <3>3 DEF Result!Next
    <2> QED
      BY <2>1, <2>2, <2>3, <2>4, StepIs
  <1> QED
    BY <1>1, <1>2, HashjoinInvariant, PTL DEF Spec, Implements

-----------------------------------------------------------------------------
\* A pair of the vector is of one of its tuples.
LEMMA PairsInVector ==
  ASSUME CommonInv, pc \notin {"next", "end"}, NEW q \in PairsOf(drawn)
  PROVE  q[2] \in 0 .. BatchSize - 1 /\ q[3] \in Nat
  <1>1. /\ drawn \in 1 .. NrBatches /\ input \in [1 .. NrBatches -> Vectors]
        /\ numProbes = Len(input[drawn]) /\ numProbes \in 1 .. BatchSize /\ BatchSize \in Nat
    BY InVector
  <1>2. q \in Triples /\ q[2] < numProbes
    BY <1>1, PairsAre
  <1> QED
    BY <1>1, <1>2 DEF Triples

\* A pair that is open is not in the output yet.
LEMMA WrittenOnce ==
  ASSUME CommonInv, Distinct(matches), NEW q \in PairsOf(drawn), q[2] \in 0 .. BatchSize - 1,
         NEW open, q \in open, Accounted(JoinResult, missing, drawn, Pairs(matches), open),
         matches' = Append(matches, Written(q, q[2])), pc \notin {"next", "end"}
  PROVE  Distinct(matches')
  <1>1. q \in Triples
    <2>1. drawn \in 1 .. NrBatches /\ input \in [1 .. NrBatches -> Vectors]
      BY InVector
    <2> QED
      BY <2>1, PairsAre
  <1>2. Row(q[2]) \in Nat
    <2>1. probeSel = NoSel \/ probeSel \in [0 .. BatchSize - 1 -> Nat]
      BY SelectionAssumption DEF CommonInv, TypeInv
    <2> QED
      BY <2>1, BatchSizeAssumption DEF Row
  <1>3. Written(q, q[2]) \in Cells0 /\ Written(q, q[2]).build = q
    BY <1>1, <1>2 DEF Written, Cells0
  <1>4. matches \in Seq(Cells0) /\ q \notin Pairs(matches)
    BY DEF CommonInv, TypeInv, Cells0, Accounted
  <1> QED
    BY <1>3, <1>4, DistinctAppended

\* What is written to the output is open, and so it is not yet there.
LEMMA FirstEntryOnce ==
  ASSUME CommonInv, RingInv, Parallel!FirstEntry, Distinct(matches)
  PROVE  Distinct(matches')
  <1> DEFINE q == Pair(i, 1)
  <1>1. /\ pc = "first" /\ i < numProbes
        /\ \/ matches' = matches
           \/ Chain(i) # <<>> /\ matches' = Append(matches, Written(q, q[2]))
    BY DEF Parallel!FirstEntry, Parallel!Chain, Chain, Parallel!Emit, Parallel!SameHash, SameHash,
           Parallel!Kind, Kind, Parallel!Other, Other, Parallel!Written, Written, Parallel!Row, Row,
           Parallel!NoSel, NoSel, Parallel!Pair, Pair
  <1>2. numProbes \in 1 .. BatchSize /\ BatchSize \in Nat
    BY <1>1, InVector
  <1>3. i \in 0 .. numProbes - 1 /\ i \in 0 .. BatchSize - 1 /\ i \in Nat /\ Fresh = i
    BY <1>1, <1>2 DEF RingInv, RingType, Fresh
  <1>4. CASE matches' = matches
    BY <1>4 DEF Distinct
  <1>5. CASE Chain(i) # <<>> /\ matches' = Append(matches, Written(q, q[2]))
    <2>1. q \in PairsOf(drawn) /\ q[2] = i
      BY <1>1, <1>3, <1>5, ChainIs DEF Pair
    <2>2. q \in Open(PairsOf(drawn), ring, Cells, Fresh)
      BY <1>3, <2>1 DEF Open
    <2>3. Accounted(JoinResult, missing, drawn, Pairs(matches), Open(PairsOf(drawn), ring, Cells, Fresh))
      BY <1>1 DEF RingInv, RingOpen, Unreturned
    <2> HIDE DEF q
    <2> QED
      BY <1>1, <1>3, <1>5, <2>1, <2>2, <2>3, WrittenOnce
  <1> QED
    BY <1>1, <1>4, <1>5

\* The pair at the head of the ring.
LEMMA FollowEntryOnce ==
  ASSUME CommonInv, RingInv, Parallel!FollowEntry, Distinct(matches)
  PROVE  Distinct(matches')
  <1> DEFINE q == ring[followup]
  <1>1. /\ pc = "round" /\ left > 0
        /\ matches' = matches \/ matches' = Append(matches, Written(q, q[2]))
    BY DEF Parallel!FollowEntry, Parallel!Emit, Parallel!Written, Written, Parallel!Row, Row,
           Parallel!NoSel, NoSel
  <1>2. BatchSize \in Nat /\ followup \in Ring /\ followupWrite \in Ring /\ left \in Nat
        /\ left <= NrUsed(followup, followupWrite)
    BY <1>1, InVector DEF RingInv, RingType, RingLoop, Ring
  <1>3. followup # followupWrite
    BY <1>1, <1>2 DEF NrUsed, Ring
  <1>4. followup \in Cells
    BY <1>1, <1>2, <1>3, UsedRead DEF Cells, following
  <1>5. /\ Apart(PairsOf(drawn), ring, Cells, Fresh)
        /\ Accounted(JoinResult, missing, drawn, Pairs(matches), Open(PairsOf(drawn), ring, Cells, Fresh))
    BY <1>1 DEF RingInv, RingOpen, Unreturned
  <1>6. q \in PairsOf(drawn)
    BY <1>4, <1>5 DEF Apart
  <1>7. q[2] \in 0 .. BatchSize - 1 /\ q[3] \in Nat
    BY <1>1, <1>6, PairsInVector
  <1>8. q \in Open(PairsOf(drawn), ring, Cells, Fresh)
    BY <1>4, <1>6, <1>7 DEF Open
  <1> HIDE DEF q
  <1>9. CASE matches' = matches
    BY <1>9 DEF Distinct
  <1>10. CASE matches' = Append(matches, Written(q, q[2]))
    BY <1>1, <1>5, <1>6, <1>7, <1>8, <1>10, WrittenOnce
  <1> QED
    BY <1>1, <1>9, <1>10

\* The next pair of joinBoncz.
LEMMA BonczFollowEntryOnce ==
  ASSUME CommonInv, BonczInv, Boncz!FollowEntry, Distinct(matches)
  PROVE  Distinct(matches')
  <1> DEFINE q == followups[k]
  <1>1. pc = "round" /\ k < e /\ matches' = Append(matches, Written(q, q[2]))
    BY DEF Boncz!FollowEntry, Boncz!Written, Written, Boncz!Row, Row, Boncz!NoSel, NoSel
  <1>2. k \in CellsBoncz
    BY <1>1, BatchSizeAssumption DEF BonczInv, BonczType, CellsBoncz
  <1>3. /\ Apart(PairsOf(drawn), followups, CellsBoncz, FreshBoncz)
        /\ Accounted(JoinResult, missing, drawn, Pairs(matches),
                     Open(PairsOf(drawn), followups, CellsBoncz, FreshBoncz))
    BY <1>1 DEF BonczInv, BonczOpen, Unreturned
  <1>4. q \in PairsOf(drawn)
    BY <1>2, <1>3 DEF Apart
  <1>5. q[2] \in 0 .. BatchSize - 1 /\ q[3] \in Nat
    BY <1>1, <1>4, PairsInVector
  <1>6. q \in Open(PairsOf(drawn), followups, CellsBoncz, FreshBoncz)
    BY <1>2, <1>4, <1>5 DEF Open
  <1> HIDE DEF q
  <1> QED
    BY <1>1, <1>3, <1>4, <1>5, <1>6, WrittenOnce

\* The other steps of these algorithms write nothing.
LEMMA OtherStepsOnce ==
  ASSUME CommonInv, UNCHANGED join, Distinct(matches), ProbeNext \/ UNCHANGED matches
  PROVE  Distinct(matches')
  <1>1. CASE UNCHANGED matches
    BY <1>1 DEF Distinct
  <1>2. CASE KeyEquality
    BY <1>2, KeyEqualityKeepsCommon
  <1>3. CASE CallNext
    BY <1>3 DEF CallNext, Distinct
  <1> QED
    BY <1>1, <1>2, <1>3 DEF ProbeNext, DrawVector, EndOfStream, Resume

\* All steps but those of joinAll and joinSel.
LEMMA NextWritesOnce ==
  ASSUME IInv, [Next]_vars, join \notin chainByChain, Distinct(matches)
  PROVE  Distinct(matches')
  <1>1. CASE UNCHANGED vars
    BY <1>1 DEF vars, probeVars, Distinct
  <1>2. CASE joinBoncz /\ UNCHANGED join
    <2>1. Boncz!Next /\ CommonInv /\ BonczInv
      BY <1>2 DEF joinBoncz, IInv
    <2>2. Boncz!FollowEntry \/ ProbeNext \/ UNCHANGED matches
      BY <2>1, SameProbeSide
      DEF Boncz!Next, Boncz!Join, Boncz!Enter, Boncz!FindChain, Boncz!FirstDone, Boncz!BeginRound,
          Boncz!EndRound, Boncz!NothingFound, Boncz!Terminated, Boncz!vars, Boncz!probeVars
    <2> QED
      BY <1>2, <2>1, <2>2, BonczFollowEntryOnce, OtherStepsOnce
  <1>3. CASE /\ join # "joinBoncz" /\ UNCHANGED join
             /\ \/ join \in {"joinAllSIMD", "joinSelSIMD"} /\ SIMD!NextSIMD
                \/ Parallel!Next
    <2>1. CommonInv /\ RingInv
      BY <1>3 DEF IInv, CommonInv, TypeInv, chainByChain
    <2>2. \/ Parallel!FirstEntry \/ Parallel!FollowEntry
          \/ join \in {"joinAllSIMD", "joinSelSIMD"} /\ SIMD!FirstBlock
          \/ ProbeNext \/ UNCHANGED matches
      <3>1. CASE Parallel!Next
        BY <3>1, SameProbeSide
        DEF Parallel!Next, Parallel!Join, Parallel!Enter, Parallel!FirstDone, Parallel!Wrap, Parallel!BeginRound,
            Parallel!EndRound, Parallel!AllFollowed, Parallel!Terminated, Parallel!vars, Parallel!probeVars
      <3>2. CASE join \in {"joinAllSIMD", "joinSelSIMD"} /\ SIMD!NextSIMD
        BY <3>2, SameProbeSide, SharedSteps
        DEF SIMD!NextSIMD, SIMD!JoinSIMD, Parallel!Enter, Parallel!FirstDone, Parallel!Wrap, Parallel!BeginRound,
            Parallel!EndRound, Parallel!AllFollowed, SIMD!Terminated, SIMD!vars, SIMD!probeVars
      <3> QED
        BY <1>3, <3>1, <3>2
    <2> QED
      BY <1>3, <2>1, <2>2, FirstEntryOnce, FollowEntryOnce, FirstBlockKeeps, OtherStepsOnce
  <1> QED
    BY <1>1, <1>2, <1>3
    DEF Next, joinAll, joinSel, joinAllParallel, joinSelParallel, joinAllSIMD, joinSelSIMD,
        RunParallel, RunSIMD, joinBoncz, chainByChain

\* No vector that these algorithms return has a pair twice: what is written is
\* open, and what is open is not in the output.
THEOREM HashjoinNoPairTwice == Spec => []NoPairTwice
  <1> DEFINE Once == join \notin chainByChain => Distinct(matches)
  <1>1. Init => Once
    BY DEF Init, Parallel!Init, Parallel!ProbeInit, Distinct
  <1>2. IInv /\ Once /\ [Next]_vars => Once'
    <2> SUFFICES ASSUME IInv, Once, [Next]_vars, join' \notin chainByChain
                 PROVE  Distinct(matches)'
      BY DEF chainByChain
    <2>1. join' = join
      BY DEF Next, vars
    <2>2. Distinct(matches')
      BY <2>1, NextWritesOnce DEF chainByChain
    <2> QED
      BY <2>2 DEF Distinct
  <1>3. Once <=> NoPairTwice
    BY DEF Distinct, NoPairTwice
  <1> HIDE DEF Once
  <1> QED
    BY <1>1, <1>2, <1>3, HashjoinInvariant, PTL DEF Spec
=============================================================================
