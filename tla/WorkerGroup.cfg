\* Five workers on three levels of barriers, with four threads in the pool.
\* The trees of up to 200 workers have one to eight levels of two.
SPECIFICATION GroupFairSpec
CONSTANTS
  ThreadsPerBarrier = 2
  Size = 5
  RoundMod = 2
  MaxMeetings = 2
  PoolThreads = 4
  MaxSize = 200
INVARIANTS
  TreesFit
  TreesAreFreed
  RepresentativeSpeaksForAll
  CallerKeepsItsWorker
  NoUseAfterFree
PROPERTIES
  Implements
  RunReturns
