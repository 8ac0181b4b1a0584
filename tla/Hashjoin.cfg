\* Two vectors of up to three tuples: they may fill the ring and the output.
CONSTANTS
  BatchSize = 3
  NrBatches = 2
  MaxReturns = 6
  Lanes = 2
  Chains <- MCChains
  Selection <- MCSelection
SPECIFICATION FairSpec
INVARIANTS
  OutputFits
  NothingMissing
  NoChainLost
  NoPairTwice
PROPERTIES
  Implements
  StreamEnds
