\* Chunks below and above the current one, and a request larger than twice
\* the size of the last chunk.
SPECIFICATION FairSpec
CONSTANTS
  Threads = {t1, t2}
  Sizes = {1, 3}
  Bases = {0, 20, 40, 60}
  Header = 1
  InitAllocSize = 1
  MaxCalls = 3
  NoThread = NoThread
INVARIANTS
  BlocksAreDisjoint
  BlocksAreMapped
  ClaimIsSafe
PROPERTY EveryCallReturns
