\* joinAll may take any number of calls of next(): six of them are observed.
CONSTANTS
  BatchSize = 2
  NrBatches = 1
  MaxReturns = 6
  Lanes = 2
  Chains <- MCChains
  Selection <- MCSelection
SPECIFICATION Spec
INVARIANT NothingReturnedTwice
