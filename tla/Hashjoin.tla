------------------------------ MODULE Hashjoin ------------------------------
(***************************************************************************)
(* vectorwise::Hashjoin in its probe phase, with the join algorithm behind *)
(* the member pointer `join`: the probe side of module ProbeSide and one   *)
(* of the algorithms of JoinAll, JoinAllParallel, JoinAllSIMD and          *)
(* JoinBoncz, with or without a probe selection vector, which the query    *)
(* selects when it builds its operators.                                   *)
(***************************************************************************)
EXTENDS ProbeSide

CONSTANTS
  MaxReturns,   \* bound: how many calls of next() of joinAll are observed
  Lanes         \* hashes in a register: see JoinAllSIMD

ASSUME MaxReturnsAssumption == MaxReturns \in Nat
ASSUME LanesAssumption == Lanes \in Nat \ {0}

VARIABLES
  join,                                      \* the algorithm
  buildMatch, at, returned, calls,           \* see JoinAll
  ring, contFollowup, followup, left, full,  \* see JoinAllParallel
  followups, e, k,                           \* see JoinBoncz
  contWrite, followupWrite, i                \* of several of them

ofAll == <<buildMatch, at, returned, calls>>
ofParallel == <<ring, contFollowup, followup, left, full>>
ofBoncz == <<followups, e, k>>
vars == <<probeVars, join, ofAll, ofParallel, ofBoncz, contWrite, followupWrite, i>>

All == INSTANCE JoinAll
Parallel == INSTANCE JoinAllParallel
SIMD == INSTANCE JoinAllSIMD
Boncz == INSTANCE JoinBoncz

Init ==
  /\ join \in {"joinAll", "joinSel", "joinAllParallel", "joinSelParallel",
              "joinAllSIMD", "joinSelSIMD", "joinBoncz"}
  /\ All!Init
  /\ Parallel!Init
  /\ Boncz!Init
  /\ probeSel = IF join \in {"joinSel", "joinSelParallel", "joinSelSIMD"}
                THEN Selection ELSE NoSel

RunAll == All!Next /\ UNCHANGED <<ofParallel, ofBoncz, contWrite, followupWrite>>
RunParallel == Parallel!Next /\ UNCHANGED <<ofAll, ofBoncz>>
RunSIMD == SIMD!NextSIMD /\ UNCHANGED <<ofAll, ofBoncz>>

joinAll == join = "joinAll" /\ RunAll
joinAllParallel == join = "joinAllParallel" /\ RunParallel
joinAllSIMD == join = "joinAllSIMD" /\ RunSIMD

\* The same loops with probeSel[i] for i; the query has set the vector.
joinSel == join = "joinSel" /\ RunAll
joinSelParallel == join = "joinSelParallel" /\ RunParallel
joinSelSIMD == join = "joinSelSIMD" /\ RunSIMD

joinBoncz ==
  join = "joinBoncz" /\ Boncz!Next /\ UNCHANGED <<ofAll, ofParallel, i>>

Next ==
  /\ UNCHANGED join
  /\ \/ joinAll \/ joinAllParallel \/ joinAllSIMD
     \/ joinSel \/ joinSelParallel \/ joinSelSIMD
     \/ joinBoncz

Spec == Init /\ [][Next]_vars

\* A single thread that keeps running.
FairSpec == Spec /\ WF_vars(Next)

-----------------------------------------------------------------------------
\* joinAll and joinSel follow each chain to its end: see JoinAll.
chainByChain == {"joinAll", "joinSel"}

(***************************************************************************)
(* The other algorithms hand every pair of the join result, with its row,  *)
(* to the operator above exactly once (joinAll does not: see JoinAll).     *)
(***************************************************************************)
Implements ==
  Result!Init /\ [][(join \in chainByChain) \/ Result!Next]_(Result!vars)

\* Nor do they hand a pair twice to it in one vector, which the set that
\* Implements speaks of would not show.
NoPairTwice ==
  join \notin chainByChain =>
     \A m, n \in DOMAIN matches : matches[m].build = matches[n].build => m = n

\* What the comments on joinAll promise, and joinAll does not keep: see there.
NothingReturnedTwice == All!NothingReturnedTwice

\* No algorithm gets to the end of the stream while a pair is missing.
NothingMissing == pc = "end" => missing = {}

\* The ring of joinAllParallel, and of its variants, loses no chain: see there.
NoChainLost == join \notin chainByChain \cup {"joinBoncz"} => Parallel!NoChainLost

\* The stream of results ends, but for joinAll's repetitions.
StreamEnds == join \notin chainByChain => <>(pc = "end")
=============================================================================
