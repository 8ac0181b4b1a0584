\* All graphs of four kernels, with all of their topological orders.
\* The graph is executed once, and then nothing is left to do.
CHECK_DEADLOCK FALSE
CONSTANTS
  N = 4
  Garbage = Garbage
SPECIFICATION FairSpec
INVARIANT KernelsInOrder
PROPERTY EveryGraphEnds
