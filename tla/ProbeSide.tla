----------------------------- MODULE ProbeSide ------------------------------
(***************************************************************************)
(* The probe phase of vectorwise::Hashjoin::next() (src/vectorwise/        *)
(* Operators.cpp), without the join algorithm that it calls through the    *)
(* member pointer `join`: JoinAll, JoinAllParallel and JoinBoncz are the   *)
(* algorithms, and each of them extends this module.                       *)
(*                                                                         *)
(* The right child returns vectors of probe tuples.  What a probe tuple    *)
(* meets in the finished hash table is the chain that find_chain_tagged()  *)
(* returns: a sequence of entries, of which matter their hash and their    *)
(* key only.  A pair <<b, i, j>> is the jth entry in the chain of the ith  *)
(* tuple of the bth vector.  With a probe selection vector, the ith tuple  *)
(* is not in row i of the vector, but in the row that the selection names. *)
(***************************************************************************)
EXTENDS Integers, Sequences, FiniteSets

CONSTANTS
  BatchSize,   \* batchSize: the size of buildMatches and probeMatches, and
               \* of the vectors of the right child
  Chains,      \* the chains that a probe tuple may meet
  Selection,   \* the rows of the tuples of a vector with a selection vector
  NrBatches    \* bound: how many vectors the right child returns

\* The entries of a chain: with the key of the tuple, with its hash but not
\* its key, with another hash.
Match == "match"
Collision == "collision"
Other == "other"

ASSUME BatchSizeAssumption == BatchSize \in Nat \ {0}
ASSUME ChainsAssumption == Chains \subseteq Seq({Match, Collision, Other})
ASSUME SelectionAssumption == Selection \in [0 .. BatchSize - 1 -> Nat]
ASSUME NrBatchesAssumption == NrBatches \in Nat

VARIABLES
  input,       \* the vectors that the right child returns
  drawn,       \* how many of them it has returned
  nextProbe,   \* IteratorContinuation::nextProbe and ::numProbes
  numProbes,
  probeSel,    \* the probe selection vector, or NoSel
  matches,     \* buildMatches and probeMatches, as far as they are filled
  pc,          \* "next" in next(), "join" about to call join, "key" behind
               \* it, "return" behind next(), "end" behind EndOfStream; the
               \* algorithms have further locations
  missing      \* history: the pairs that have to be returned yet

probeVars == <<input, drawn, nextProbe, numProbes, probeSel, matches, pc, missing>>

Vectors == UNION {[1 .. n -> Chains] : n \in 1 .. BatchSize}

\* The chain of the ith tuple of the current vector, counted from 0.
Chain(i) == input[drawn][i + 1]
Pair(i, j) == <<drawn, i, j>>
Kind(p) == input[p[1]][p[2] + 1][p[3]]
SameHash(p) == Kind(p) # Other

\* No setProbeSelVector().
NoSel == <<>>

\* The row of the vector that the ith tuple is in, and what is written to
\* buildMatches and probeMatches for an entry and tuple i.
Row(i) == IF probeSel = NoSel THEN i ELSE probeSel[i]
Written(p, i) == [build |-> p, probe |-> Row(i)]

\* The join result: all pairs of a tuple and an entry with its key.
JoinResult ==
  UNION {UNION {{<<b, i - 1, j>> : j \in {k \in DOMAIN input[b][i] : input[b][i][k] = Match}}
                : i \in DOMAIN input[b]} : b \in 1 .. NrBatches}

Elements(s) == {s[k] : k \in DOMAIN s}

\* What a loop keeps of sequence s: its elements that are in S, in their order.
\* (SelectSeq as a recursive function, which is what the proofs need.)
Kept(s, S) ==
  LET kept[n \in 0 .. Len(s)] ==
        IF n = 0 THEN <<>>
        ELSE IF s[n] \in S THEN Append(kept[n - 1], s[n]) ELSE kept[n - 1]
  IN  kept[Len(s)]

Pairs(ms) == {m.build : m \in Elements(ms)}

ProbeInit ==
  /\ input \in [1 .. NrBatches -> Vectors]
  /\ drawn = 0
  /\ nextProbe = 0
  /\ numProbes = 0
  /\ probeSel \in {NoSel, Selection}
  /\ matches = <<>>
  /\ pc = "next"
  /\ missing = JoinResult

-----------------------------------------------------------------------------
\* if (cont.nextProbe >= cont.numProbes) cont.numProbes = right->next() ...
DrawVector ==
  /\ pc = "next"
  /\ nextProbe >= numProbes
  /\ drawn < NrBatches
  /\ drawn' = drawn + 1
  /\ numProbes' = Len(input[drawn + 1])
  /\ nextProbe' = 0
  /\ pc' = "join"
  /\ UNCHANGED <<probeSel, input, matches, missing>>

\* if (cont.numProbes == EndOfStream) return EndOfStream;
EndOfStream ==
  /\ pc = "next"
  /\ nextProbe >= numProbes
  /\ drawn = NrBatches
  /\ numProbes' = 0
  /\ nextProbe' = 0
  /\ pc' = "end"
  /\ UNCHANGED <<probeSel, input, drawn, matches, missing>>

\* The last call of join was not through with the vector.
Resume ==
  /\ pc = "next"
  /\ nextProbe < numProbes
  /\ pc' = "join"
  /\ UNCHANGED <<probeSel, input, drawn, nextProbe, numProbes, matches, missing>>

\* n = keyEquality.evaluate(n);  if (n == 0) continue;  ... return n;  The key
\* of the entry is that of one row only.
isMatch(m) == Kind(m.build) = Match /\ m.probe = Row(m.build[2])

KeyEquality ==
  /\ pc = "key"
  /\ matches' = Kept(matches, {m \in Elements(matches) : isMatch(m)})
  /\ pc' = IF matches' = <<>> THEN "next" ELSE "return"
  /\ missing' = missing \ Pairs(matches')
  /\ UNCHANGED <<probeSel, input, drawn, nextProbe, numProbes>>

\* The operator above has used the pairs and calls next() again.
CallNext ==
  /\ pc = "return"
  /\ matches' = <<>>
  /\ pc' = "next"
  /\ UNCHANGED <<probeSel, input, drawn, nextProbe, numProbes, missing>>

ProbeNext == DrawVector \/ EndOfStream \/ Resume \/ KeyEquality \/ CallNext

-----------------------------------------------------------------------------
ProbeTypeOK ==
  /\ drawn \in 0 .. NrBatches
  /\ nextProbe \in 0 .. BatchSize
  /\ numProbes \in 0 .. BatchSize
  /\ Pairs(matches) \subseteq {<<b, i, j>> : b \in 1 .. NrBatches,
                                             i \in 0 .. BatchSize - 1,
                                             j \in UNION {DOMAIN c : c \in Chains}}
  /\ missing \subseteq JoinResult

\* The output vectors are not written beyond their end.
OutputFits == Len(matches) <= BatchSize

(***************************************************************************)
(* What the operator above may rely on: the pairs of the join result are   *)
(* returned exactly once each, and all of them before the end of the       *)
(* stream.                                                                 *)
(***************************************************************************)
Result == INSTANCE Handout WITH
  Workers   <- {"join"},
  remaining <- missing,
  holding   <- [w \in {"join"} |-> IF pc = "return" THEN Pairs(matches) ELSE {}],
  finished  <- IF pc = "end" THEN {"join"} ELSE {}

=============================================================================
