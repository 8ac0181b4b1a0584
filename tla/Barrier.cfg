\* Four threads, so that a fast one can be in the next call while others still
\* spin, and enough meetings for the round to wrap twice.
SPECIFICATION FairSpec
CONSTANTS
  Threads = {t1, t2, t3, t4}
  RoundMod = 2
  MaxMeetings = 4
INVARIANTS
  FinalizerAlone
  NoMissedRound
PROPERTIES
  Implements
  EveryCallReturns
