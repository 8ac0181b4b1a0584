------------------------------ MODULE JoinBoncz -----------------------------
(***************************************************************************)
(* Hashjoin::joinBoncz(): all chains advance by one entry per round, and   *)
(* every entry goes to the output, whatever its hash; keyEquality has to   *)
(* sort them out.  A round is begun only if the output has room for it.    *)
(***************************************************************************)
EXTENDS ProbeSide

VARIABLES
  followups,      \* followupIds and followupEntries: the pairs to come to
  contWrite,      \* contCon.followupWrite
  followupWrite,  \* the local copy of it
  e,              \* how many pairs this round has
  k               \* the tuple or the pair that the loop is at

loops == <<followupWrite, e, k>>
vars == <<probeVars, followups, contWrite, loops>>

Nothing == <<0, 0, 0>>

Init ==
  /\ ProbeInit
  /\ followups = [n \in 0 .. BatchSize - 1 |-> Nothing]
  /\ contWrite = 0
  /\ followupWrite = 0
  /\ e = 0
  /\ k = 0

Follows(p) == p[3] < Len(Chain(p[2]))
Behind(p) == Pair(p[2], p[3] + 1)

-----------------------------------------------------------------------------
Enter ==
  /\ pc = "join"
  /\ followupWrite' = contWrite
  /\ k' = 0
  /\ pc' = IF contWrite = 0 THEN "first" ELSE "while"
  /\ UNCHANGED <<probeSel, input, drawn, nextProbe, numProbes, matches, missing, followups,
                 contWrite, e>>

\* One iteration of the loop over a fresh vector.
FindChain ==
  /\ pc = "first"
  /\ k < numProbes
  /\ k' = k + 1
  /\ IF Chain(k) = <<>>
     THEN UNCHANGED <<followups, followupWrite>>
     ELSE /\ followups' = [followups EXCEPT ![followupWrite] = Pair(k, 1)]
          /\ followupWrite' = followupWrite + 1
  /\ UNCHANGED <<probeSel, input, drawn, nextProbe, numProbes, matches, pc, missing,
                 contWrite, e>>

FirstDone ==
  /\ pc = "first"
  /\ k = numProbes
  /\ pc' = "while"
  /\ UNCHANGED <<probeSel, input, drawn, nextProbe, numProbes, matches, missing, followups,
                 contWrite, loops>>

\* while (followupWrite > 0) { e = followupWrite; followupWrite = 0; ...
BeginRound ==
  /\ pc = "while"
  /\ followupWrite > 0
  /\ e' = followupWrite
  /\ followupWrite' = 0
  /\ k' = 0
  /\ pc' = "round"
  /\ UNCHANGED <<probeSel, input, drawn, nextProbe, numProbes, matches, missing, followups,
                 contWrite>>

\* One iteration of the inner loop: the pair itself is written, and the next
\* entry of its chain takes the place of a pair that has been read.
FollowEntry ==
  /\ pc = "round"
  /\ k < e
  /\ k' = k + 1
  /\ matches' = Append(matches, Written(followups[k], followups[k][2]))
  /\ IF Follows(followups[k])
     THEN /\ followups' = [followups EXCEPT ![followupWrite] = Behind(followups[k])]
          /\ followupWrite' = followupWrite + 1
     ELSE UNCHANGED <<followups, followupWrite>>
  /\ UNCHANGED <<probeSel, input, drawn, nextProbe, numProbes, pc, missing, contWrite, e>>

OutputFull == Len(matches) + followupWrite >= BatchSize

\* Mutant: the pairs that are left are not kept for the next call.
EndRound_WriteLost ==
  /\ pc = "round"
  /\ k = e
  /\ nextProbe' = IF followupWrite = 0 THEN numProbes ELSE nextProbe
  /\ contWrite' = 0
  /\ pc' = IF followupWrite = 0 \/ OutputFull THEN "key" ELSE "while"
  /\ UNCHANGED <<probeSel, input, drawn, numProbes, matches, missing, followups, loops>>

\* The three ways to go on behind a round.
EndRound ==
  /\ pc = "round"
  /\ k = e
  /\ IF followupWrite = 0
     THEN /\ nextProbe' = numProbes
          /\ contWrite' = 0
          /\ pc' = "key"
     ELSE /\ UNCHANGED nextProbe
          /\ contWrite' = IF OutputFull THEN followupWrite ELSE contWrite
          /\ pc' = IF OutputFull THEN "key" ELSE "while"
  /\ UNCHANGED <<probeSel, input, drawn, numProbes, matches, missing, followups, loops>>

\* No tuple of the vector has a chain: return 0.
NothingFound ==
  /\ pc = "while"
  /\ followupWrite = 0
  /\ nextProbe' = numProbes
  /\ contWrite' = 0
  /\ pc' = "key"
  /\ UNCHANGED <<probeSel, input, drawn, numProbes, matches, missing, followups, loops>>

Join ==
  Enter \/ FindChain \/ FirstDone \/ BeginRound \/ FollowEntry \/ EndRound
  \/ NothingFound

Terminated == pc = "end" /\ UNCHANGED vars

Next ==
  \/ Join
  \/ ProbeNext /\ UNCHANGED <<followups, contWrite, loops>>
  \/ Terminated

Spec == Init /\ [][Next]_vars

-----------------------------------------------------------------------------
TypeOK ==
  /\ ProbeTypeOK
  /\ pc \in {"next", "join", "first", "while", "round", "key", "return", "end"}
  /\ DOMAIN followups = 0 .. BatchSize - 1
  /\ contWrite \in 0 .. BatchSize
  /\ followupWrite \in 0 .. BatchSize
  /\ e \in 0 .. BatchSize
  /\ k \in 0 .. BatchSize
=============================================================================
