----------------------------- MODULE MCHashjoin -----------------------------
\* The chains of the model checking run of Hashjoin.
EXTENDS Hashjoin

\* No entry, one, and chains in which matches, collisions of the hash and
\* foreign entries follow each other.
MCChains == {<<>>, <<Other, Match>>, <<Match, Collision>>, <<Match, Match, Other>>}

\* The rows of a selection vector: none is where its tuple is.
MCSelection == [tuple \in 0 .. BatchSize - 1 |-> 2 * tuple + 1]
=============================================================================
