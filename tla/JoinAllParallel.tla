--------------------------- MODULE JoinAllParallel --------------------------
(***************************************************************************)
(* Hashjoin::joinAllParallel(), and joinSelParallel(), which is the same   *)
(* with a probe selection vector: the first entries of all chains are      *)
(* compared first; the rest of each chain waits in a ring buffer.  When the*)
(* output is full, the ring is kept for the next call.  JoinAllSIMD has    *)
(* another first loop.                                                     *)
(***************************************************************************)
EXTENDS ProbeSide

VARIABLES
  ring,            \* followupIds and followupEntries
  contFollowup,    \* contCon: where the ring is read
  contWrite,       \* and where it is written
  followup,        \* the local copies of them
  followupWrite,
  i,               \* the tuple that the first loop is at
  left,            \* how many iterations the inner loop has to do
  full             \* fittingElements < nrFollowups

loops == <<followup, followupWrite, i, left, full>>
ringVars == <<ring, contFollowup, contWrite>>
vars == <<probeVars, ringVars, loops>>

\* Mutant: no cell of the ring is kept free.
followupBufferSize_NoFreeCell == BatchSize

\* vecs.getVecSize() + 1
followupBufferSize == BatchSize + 1

Nothing == <<0, 0, 0>>

Init ==
  /\ ProbeInit
  /\ ring = [k \in 0 .. BatchSize |-> Nothing]
  /\ contFollowup = 0
  /\ contWrite = 0
  /\ followup = 0
  /\ followupWrite = 0
  /\ i = 0
  /\ left = 0
  /\ full = FALSE

min(a, b) == IF a <= b THEN a ELSE b

\* Writes a pair to buildMatches and probeMatches.
Emit(p) == matches' = IF SameHash(p) THEN Append(matches, Written(p, p[2])) ELSE matches

\* Puts the rest of a chain behind pair p into the ring.
Follows(p) == p[3] < Len(Chain(p[2]))

\* Mutant: the entry itself is put into the ring, and not the next one.
Behind_Same(p) == Pair(p[2], p[3])

\* The next entry of the chain.
Behind(p) == Pair(p[2], p[3] + 1)

-----------------------------------------------------------------------------
\* The call of join: a fresh vector if the ring is empty.
Enter ==
  /\ pc = "join"
  /\ followup' = contFollowup
  /\ followupWrite' = contWrite
  /\ i' = 0
  /\ pc' = IF contFollowup = contWrite THEN "first" ELSE "wrap"
  /\ UNCHANGED <<probeSel, input, drawn, nextProbe, numProbes, matches, missing, ringVars, left, full>>

\* One iteration of the first loop: the first entry of the chain.
FirstEntry ==
  /\ pc = "first"
  /\ i < numProbes
  /\ i' = i + 1
  /\ IF Chain(i) = <<>>
     THEN UNCHANGED <<matches, ring, followupWrite>>
     ELSE /\ Emit(Pair(i, 1))
          /\ IF Follows(Pair(i, 1))
             THEN /\ ring' = [ring EXCEPT ![followupWrite] = Behind(Pair(i, 1))]
                  /\ followupWrite' = followupWrite + 1
             ELSE UNCHANGED <<ring, followupWrite>>
  /\ UNCHANGED <<probeSel, input, drawn, nextProbe, numProbes, pc, missing,
                 contFollowup, contWrite, followup, left, full>>

FirstDone ==
  /\ pc = "first"
  /\ i = numProbes
  /\ pc' = "wrap"
  /\ UNCHANGED <<probeSel, input, drawn, nextProbe, numProbes, matches, missing, ringVars, loops>>

\* followupWrite %= followupBufferSize;
Wrap ==
  /\ pc = "wrap"
  /\ followupWrite' = followupWrite % followupBufferSize
  /\ pc' = "while"
  /\ UNCHANGED <<probeSel, input, drawn, nextProbe, numProbes, matches, missing, ringVars,
                 followup, i, left, full>>

nrFollowups ==
  IF followup <= followupWrite
  THEN followupWrite - followup
  ELSE followupBufferSize - (followup - followupWrite)

\* Mutant: the space that this call has used is not taken off.
remainingSpace_Whole == BatchSize

remainingSpace == BatchSize - Len(matches)

\* while (followup != followupWrite) ... fittingElements = min(...)
BeginRound ==
  /\ pc = "while"
  /\ followup # followupWrite
  /\ left' = min(nrFollowups, remainingSpace)
  /\ full' = (remainingSpace < nrFollowups)
  /\ pc' = "round"
  /\ UNCHANGED <<probeSel, input, drawn, nextProbe, numProbes, matches, missing, ringVars,
                 followup, followupWrite, i>>

\* One iteration of the inner loop: the next entry of a chain.
FollowEntry ==
  /\ pc = "round"
  /\ left > 0
  /\ left' = left - 1
  /\ followup' = (followup + 1) % followupBufferSize
  /\ LET p == ring[followup]
     IN /\ Emit(p)
        /\ IF Follows(p)
           THEN /\ ring' = [ring EXCEPT ![followupWrite] = Behind(p)]
                /\ followupWrite' = (followupWrite + 1) % followupBufferSize
           ELSE UNCHANGED <<ring, followupWrite>>
  /\ UNCHANGED <<probeSel, input, drawn, nextProbe, numProbes, pc, missing,
                 contFollowup, contWrite, i, full>>

\* if (fittingElements < nrFollowups) { contCon = ...; return found; }
EndRound ==
  /\ pc = "round"
  /\ left = 0
  /\ IF full
     THEN /\ contFollowup' = followup
          /\ contWrite' = followupWrite
          /\ pc' = "key"
     ELSE /\ pc' = "while"
          /\ UNCHANGED <<contFollowup, contWrite>>
  /\ UNCHANGED <<probeSel, input, drawn, nextProbe, numProbes, matches, missing, ring, loops>>

\* Mutant: the vector is not marked as done.
AllFollowed_NotDone ==
  /\ pc = "while"
  /\ followup = followupWrite
  /\ contFollowup' = 0
  /\ contWrite' = 0
  /\ pc' = "key"
  /\ UNCHANGED <<probeSel, input, drawn, nextProbe, numProbes, matches, missing, ring, loops>>

\* The ring is empty: the vector is done.
AllFollowed ==
  /\ pc = "while"
  /\ followup = followupWrite
  /\ nextProbe' = numProbes
  /\ contFollowup' = 0
  /\ contWrite' = 0
  /\ pc' = "key"
  /\ UNCHANGED <<probeSel, input, drawn, numProbes, matches, missing, ring, loops>>

Join ==
  Enter \/ FirstEntry \/ FirstDone \/ Wrap \/ BeginRound \/ FollowEntry
  \/ EndRound \/ AllFollowed

Terminated == pc = "end" /\ UNCHANGED vars

Next ==
  \/ Join
  \/ ProbeNext /\ UNCHANGED <<ringVars, loops>>
  \/ Terminated

Spec == Init /\ [][Next]_vars

-----------------------------------------------------------------------------
RingIndex == 0 .. BatchSize

TypeOK ==
  /\ ProbeTypeOK
  /\ pc \in {"next", "join", "first", "wrap", "while", "round", "key", "return", "end"}
  /\ DOMAIN ring = RingIndex
  /\ contFollowup \in RingIndex /\ contWrite \in RingIndex
  /\ followup \in RingIndex /\ followupWrite \in RingIndex
  /\ i \in 0 .. BatchSize
  /\ left \in 0 .. BatchSize
  /\ full \in BOOLEAN

\* The chains that wait in the ring, in the order in which they are read.
Waiting == {ring[(followup + k) % followupBufferSize] : k \in 0 .. nrFollowups - 1}

(***************************************************************************)
(* The ring loses no chain: while entries are followed, a pair that has to *)
(* be returned yet is in the output, or behind an entry that waits, or in  *)
(* a vector to come.  This is what the free cell of the ring is for.       *)
(***************************************************************************)
NoChainLost ==
  pc \in {"while", "round"} =>
     \A p \in missing :
        \/ p \in Pairs(matches)
        \/ p[1] > drawn
        \/ \E q \in Waiting : q[1] = p[1] /\ q[2] = p[2] /\ q[3] <= p[3]
=============================================================================
