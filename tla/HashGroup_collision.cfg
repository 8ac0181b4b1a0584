\* The workers and inputs of HashGroup.cfg, but two of the keys have the same
\* hash, and the third is in the same slot with another hash.
CONSTANTS
  a = a
  b = b
  c = c
  Workers = {w1, w2}
  Keys <- MCKeys
  Hash <- MCCollidingHash
  NrPartitions = 2
  VecSize = 2
  MaxFill = 2
  Inputs <- MCInputs
SPECIFICATION Spec
INVARIANT NoForeignTuples

