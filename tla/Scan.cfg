\* Three workers; tables that end inside of a vector, with a vector, with a
\* chunk and behind it, and the empty one; chunks of four, two and one vectors.
CONSTANTS
  Workers = {w1, w2, w3}
  TableSizes = {0, 1, 4, 5, 8, 9}
  VecSizes = {1, 2, 4}
  MorselSize = 3
SPECIFICATION FairSpec
INVARIANT TypeOK
PROPERTIES
  Implements
  EveryScanEnds
