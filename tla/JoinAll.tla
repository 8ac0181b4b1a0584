------------------------------- MODULE JoinAll ------------------------------
(***************************************************************************)
(* Hashjoin::joinAll(), and joinSel(), which is the same with a probe      *)
(* selection vector: each chain is followed to its end before the next     *)
(* tuple is looked at.  When the output is full, the entry to go on with   *)
(* is kept for the next call.                                              *)
(***************************************************************************)
EXTENDS ProbeSide

CONSTANT MaxReturns   \* bound: how many calls of next() are observed

VARIABLES
  buildMatch,   \* cont.buildMatch: a pair, or End; it carries the tuple
                \* whose hash cont.probeHash is
  at,           \* the entry that a loop is at: a pair, or End
  i,            \* the tuple that the second loop is at
  returned,     \* history: the pairs that next() has returned, in order
  calls         \* how many calls have returned

vars == <<probeVars, buildMatch, at, i, returned, calls>>

\* Hashmap::end(), the null pointer.
End == <<0, 0, 0>>

FirstOf(n) == IF Chain(n) = <<>> THEN End ELSE Pair(n, 1)
Behind(p) == IF p[3] < Len(Chain(p[2])) THEN Pair(p[2], p[3] + 1) ELSE End

Init ==
  /\ ProbeInit
  /\ buildMatch = End
  /\ at = End
  /\ i = 0
  /\ returned = <<>>
  /\ calls = 0

-----------------------------------------------------------------------------
Enter ==
  /\ pc = "join"
  /\ at' = buildMatch
  /\ pc' = "continue"
  /\ UNCHANGED <<probeSel, input, drawn, nextProbe, numProbes, matches, missing,
                 buildMatch, i, returned, calls>>

\* Mutant: what is found in the rest of a chain is not written.
ContinueChain_Skips ==
  /\ pc = "continue"
  /\ at # End
  /\ at' = Behind(at)
  /\ UNCHANGED <<probeSel, input, drawn, nextProbe, numProbes, matches, pc, missing,
                 buildMatch, i, returned, calls>>

\* One iteration of the loop that performs the continuation.
ContinueChain ==
  /\ pc = "continue"
  /\ at # End
  /\ IF SameHash(at)
     THEN /\ matches' = Append(matches, Written(at, nextProbe))
          /\ IF Len(matches) + 1 = BatchSize
             THEN /\ buildMatch' = Behind(at)
                  /\ pc' = "key"
                  /\ UNCHANGED at
             ELSE at' = Behind(at) /\ UNCHANGED <<buildMatch, pc>>
     ELSE at' = Behind(at) /\ UNCHANGED <<matches, buildMatch, pc>>
  /\ UNCHANGED <<probeSel, input, drawn, nextProbe, numProbes, missing, i,
                 returned, calls>>

\* if (cont.buildMatch != shared.ht.end()) cont.nextProbe++;
ContinuationDone ==
  LET first == IF buildMatch # End THEN nextProbe + 1 ELSE nextProbe
  IN /\ pc = "continue"
     /\ at = End
     /\ nextProbe' = first
     /\ i' = first
     /\ at' = IF first < numProbes THEN FirstOf(first) ELSE End
     /\ pc' = "chains"
     /\ UNCHANGED <<probeSel, input, drawn, numProbes, matches, missing, buildMatch,
                    returned, calls>>

\* found == batchSize && (entry->next || i + 1 < end), behind the ++ of found
BecomesFull ==
  Len(matches) + 1 = BatchSize /\ (Behind(at) # End \/ i + 1 < numProbes)

\* One iteration of the loop over a chain.
FollowChain ==
  /\ pc = "chains"
  /\ i < numProbes
  /\ at # End
  /\ IF SameHash(at)
     THEN /\ matches' = Append(matches, Written(at, i))
          /\ IF BecomesFull
             THEN /\ buildMatch' = Behind(at)
                  /\ nextProbe' = i
                  /\ pc' = "key"
                  /\ UNCHANGED at
             ELSE at' = Behind(at) /\ UNCHANGED <<buildMatch, nextProbe, pc>>
     ELSE /\ at' = Behind(at)
          /\ UNCHANGED <<matches, buildMatch, nextProbe, pc>>
  /\ UNCHANGED <<probeSel, input, drawn, numProbes, missing, i, returned, calls>>

\* ++i, and find_chain_tagged() for the next tuple.
NextTuple ==
  /\ pc = "chains"
  /\ i < numProbes
  /\ at = End
  /\ i' = i + 1
  /\ at' = IF i + 1 < numProbes THEN FirstOf(i + 1) ELSE End
  /\ UNCHANGED <<probeSel, input, drawn, nextProbe, numProbes, matches, pc, missing,
                 buildMatch, returned, calls>>

\* Behind the loop over the tuples.
AllFollowed ==
  /\ pc = "chains"
  /\ i >= numProbes
  /\ buildMatch' = End
  /\ nextProbe' = numProbes
  /\ pc' = "key"
  /\ UNCHANGED <<probeSel, input, drawn, numProbes, matches, missing, at, i,
                 returned, calls>>

\* The caller's side of next(), with what it is handed.
Return ==
  /\ CallNext
  /\ calls < MaxReturns
  /\ calls' = calls + 1
  /\ returned' = returned \o matches
  /\ UNCHANGED <<buildMatch, at, i>>

Join ==
  Enter \/ ContinueChain \/ ContinuationDone \/ FollowChain \/ NextTuple
  \/ AllFollowed

\* The end of the stream, or of what is observed.
Terminated == (pc = "end" \/ (pc = "return" /\ calls = MaxReturns)) /\ UNCHANGED vars

Next ==
  \/ Join
  \/ /\ DrawVector \/ EndOfStream \/ Resume \/ KeyEquality
     /\ UNCHANGED <<buildMatch, at, i, returned, calls>>
  \/ Return
  \/ Terminated

Spec == Init /\ [][Next]_vars

-----------------------------------------------------------------------------
(***************************************************************************)
(* What "computes join result" (include/vectorwise/Operators.hpp:242) and  *)
(* "save state for continuation" (Operators.cpp:120) promise: no pair of   *)
(* the join result is returned twice.  The code breaks it: if the output   *)
(* is full with the last entry of a chain, the saved buildMatch is the     *)
(* end, and the next call does not count the tuple as done.                *)
(***************************************************************************)
NothingReturnedTwice == Cardinality(Elements(returned)) = Len(returned)
=============================================================================
