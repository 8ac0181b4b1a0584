---------------------------- MODULE JoinAllSIMD -----------------------------
(***************************************************************************)
(* Hashjoin::joinAllSIMD() and joinSelSIMD(), as AVX-512 has them: the     *)
(* first loop of joinAllParallel takes as many tuples at a time as a       *)
(* register has lanes, and the tuples that are left over one by one.  The  *)
(* matches and the rests of the chains of a block are written with         *)
(* compressed stores.                                                      *)
(***************************************************************************)
EXTENDS JoinAllParallel

CONSTANT Lanes   \* hashes in a register: 8

\* size_t rest = cont.numProbes % 8;
rest == numProbes % Lanes

-----------------------------------------------------------------------------
\* The first entries of the tuples of the block at i.
Block == [lane \in 1 .. Lanes |-> Pair(i + lane - 1, 1)]

\* The lanes of entries.mask: those whose tuple has a chain.
Found == {p \in Elements(Block) : Chain(p[2]) # <<>>}

\* One iteration of the vectorised loop: two compressed stores.
FirstBlock ==
  LET hashesEq == Kept(Block, {p \in Found : SameHash(p)})
      hasNext == Kept(Block, {p \in Found : Follows(p)})
  IN  /\ pc = "first"
      /\ i < numProbes - rest
      /\ i' = i + Lanes
      /\ matches' = matches \o [m \in DOMAIN hashesEq |-> Written(hashesEq[m], hashesEq[m][2])]
      /\ ring' = [c \in DOMAIN ring |->
                    IF c - followupWrite + 1 \in DOMAIN hasNext
                    THEN Behind(hasNext[c - followupWrite + 1]) ELSE ring[c]]
      /\ followupWrite' = followupWrite + Len(hasNext)
      /\ UNCHANGED <<probeSel, input, drawn, nextProbe, numProbes, pc, missing,
                     contFollowup, contWrite, followup, left, full>>

\* The scalar loop over the rest.
FirstOfRest == i >= numProbes - rest /\ FirstEntry

JoinSIMD ==
  Enter \/ FirstBlock \/ FirstOfRest \/ FirstDone \/ Wrap \/ BeginRound
  \/ FollowEntry \/ EndRound \/ AllFollowed

NextSIMD ==
  \/ JoinSIMD
  \/ ProbeNext /\ UNCHANGED <<ringVars, loops>>
  \/ Terminated
=============================================================================
