------------------------------ MODULE Handout ------------------------------
(***************************************************************************)
(* What a shared source of work promises the workers that draw from it:    *)
(* every item is handed to exactly one of them, exactly once, and the last *)
(* worker to be told that nothing is left is told the truth.               *)
(***************************************************************************)
CONSTANT Workers

VARIABLES
  remaining,   \* the items that nobody has been given yet
  holding,     \* what each worker is working on
  finished     \* the workers that have been told to stop

vars == <<remaining, holding, finished>>

Init ==
  /\ holding = [w \in Workers |-> {}]
  /\ finished = {}

Take(w) ==
  /\ w \notin finished
  /\ holding[w] = {}
  /\ holding'[w] # {}
  /\ holding'[w] \subseteq remaining
  /\ holding' = [holding EXCEPT ![w] = holding'[w]]
  /\ remaining' = remaining \ holding'[w]
  /\ UNCHANGED finished

Release(w) ==
  /\ holding[w] # {}
  /\ holding' = [holding EXCEPT ![w] = {}]
  /\ UNCHANGED <<remaining, finished>>

\* A worker may be sent away early, but not if nobody else is left to do the
\* rest.
Finish(w) ==
  /\ w \notin finished
  /\ holding[w] = {}
  /\ finished' = finished \cup {w}
  /\ finished' = Workers => remaining = {}
  /\ UNCHANGED <<remaining, holding>>

Next == \E w \in Workers : Take(w) \/ Release(w) \/ Finish(w)

Spec == Init /\ [][Next]_vars
=============================================================================
