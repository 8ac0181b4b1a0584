----------------------------- MODULE MCHashGroup ----------------------------
\* The instances of HashGroup for model checking.
EXTENDS HashGroup, TLC

CONSTANTS a, b, c

MCKeys == {a, b, c}

\* Three keys with hashes of their own; two of them share slot and partition.
MCHash == (a :> [slot |-> 0, part |-> 0, rest |-> 0])
          @@ (b :> [slot |-> 0, part |-> 0, rest |-> 1])
          @@ (c :> [slot |-> 1, part |-> 1, rest |-> 0])

\* Two keys with the same hash, and a third in their slot.
MCCollidingHash == (a :> [slot |-> 0, part |-> 0, rest |-> 0])
                   @@ (b :> [slot |-> 0, part |-> 0, rest |-> 0])
                   @@ (c :> [slot |-> 0, part |-> 0, rest |-> 1])

MCInputs == {<<>>, <<<<a, a>>>>, <<<<a, b>>, <<c>>>>, <<<<c, a>>, <<b, b>>>>,
             <<<<a>>, <<b>>, <<a, c>>>>}
=============================================================================
