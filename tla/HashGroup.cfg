\* Two workers with up to three vectors of up to two tuples each; the local
\* table is flushed in the middle of phase 1 from the second group on.
CONSTANTS
  a = a
  b = b
  c = c
  Workers = {w1, w2}
  Keys <- MCKeys
  Hash <- MCHash
  NrPartitions = 2
  VecSize = 2
  MaxFill = 2
  Inputs <- MCInputs
SPECIFICATION FairSpec
INVARIANT GroupsAreWhole
PROPERTIES
  Implements
  EveryWorkerEnds
