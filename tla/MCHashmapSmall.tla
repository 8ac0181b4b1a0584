--------------------------- MODULE MCHashmapSmall ---------------------------
\* The instance of HashmapSmall for model checking: up to four rows of three
\* keys, two of which share a slot of the first directory.
EXTENDS HashmapSmall, SequencesExt

MCKeys == 1 .. 3
MCInputs == BoundedSeq(MCKeys, 4)
MCHash == [k \in MCKeys |-> k]
MCOutsideRefs == {-1, 0, empty}
=============================================================================
